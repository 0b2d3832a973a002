SPECIFICATION FairSpec
CONSTANTS
  u = u
  f = f
  Counters <- MCCounters
  Forwarding <- MCForwarding
  MaxBytes = 3
  MaxCaptures = 2
  MaxGenerations = 2
  MaxInFlight = 2
  MaxValue = 1
  PullLimit = 1
  PullLimitCap = 2
  PullBytesCap = 1
INVARIANTS QueueIsInterval NothingLost LedgerIsPrefix
PROPERTIES SequencesOnlyGrow ImplementsExactlyOnce EventuallyDelivered
