CONSTANTS
  None = None
  Games <- MCGames
  Hands <- MCHands
  MaxConnectCalls <- MCConnects
  MaxDrops <- MCDrops
  MaxRequests <- MCRequests
  MaxInbound <- MCInbound
  MaxSends <- MCSends
SPECIFICATION Spec
INVARIANT CodeOfBoundGame
\* The client is event driven: with no further events it simply idles.
CHECK_DEADLOCK FALSE
