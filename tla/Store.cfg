CONSTANTS
  None = None
  Me = Me
  Other = Other
  Game = Game
  Code = Code
  MaxSends <- MCMaxSends
SPECIFICATION Spec
INVARIANTS
  TypeOK
  ShownCardsPlayable
  TurnShownConsistently
\* Updates keep arriving after MaxSends messages are out: no deadlock.
