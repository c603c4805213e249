\* Any provider and client, the timeout and the deadline at any point.
CONSTANTS
  IdleTimeout = 2
  MaxChunks = 3
SPECIFICATION FairSpec
INVARIANTS
  RelayInv
  CompletedIsWhole
  NothingReadIsDropped
  WatchdogJoined
PROPERTIES
  ExpiryMeansSilence
  RelayReturns
