CONSTANTS
  None = None
  Games <- MCGames
  Hands <- MCHands
  MaxConnectCalls <- MCConnects
  MaxDrops <- MCDrops
  MaxRequests <- MCRequests
  MaxInbound <- MCInbound
  MaxSends <- MCSends
SPECIFICATION Spec
PROPERTY NoPlayAfterGameEnded
CHECK_DEADLOCK FALSE
