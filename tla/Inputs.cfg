CONSTANTS
  None = None
  MaxJoins <- MCMaxJoins
SPECIFICATION Spec
INVARIANTS
  TypeOK
  CreateSendsClampedBotCount
  CodeRequestNormalized
\* Every handler can always run again: no deadlock.
