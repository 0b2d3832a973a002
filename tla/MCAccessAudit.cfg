SPECIFICATION FairSpec
CONSTANTS
  c1 = c1
  Conns = {c1}
  UserOf <- OneUser
  MaxBytes = 3
  MaxRecords = 2
  PullLimit = 1
  MaxTotal = 2
  MaxWindows = 2
  MaxSequence = 3
INVARIANTS BucketsAgree NothingLost NeverOvercounts
PROPERTIES OnlySelectedRecorded ClosedWindowStaysClosed QueueDrains
