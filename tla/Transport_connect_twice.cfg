CONSTANTS
  None = None
  MaxConnectCalls <- MCTwoConnects
  MaxDrops <- MCDrops
SPECIFICATION TransportSpec
INVARIANT SingleLiveSocket
CHECK_DEADLOCK FALSE
