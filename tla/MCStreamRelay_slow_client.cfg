\* A client that is slow to take what is written to it.
CONSTANTS
  IdleTimeout = 2
  MaxChunks = 2
SPECIFICATION FairSpec
PROPERTY ExpiryIsUpstreamSilence
