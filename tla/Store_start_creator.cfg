CONSTANTS
  None = None
  Me = Me
  Other = Other
  Game = Game
  Code = Code
  MaxSends <- MCMaxSends
SPECIFICATION Spec
INVARIANT StartOnlyForCreator
