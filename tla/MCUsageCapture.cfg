SPECIFICATION FairSpec
CONSTANTS
  u = u
  Counters <- OneCounter
  Forwarding <- MCForwarding
  Queries <- UserThenInbound
  Periodic = {"ticker"}
  LegacyPanel = TRUE
  MaxBytes = 1
  MaxScopes = 1
  MaxTraffic = 2
  MaxForwarded = 1
  MaxSnapshots = 2
INVARIANTS NeverOverbills Accounting
PROPERTIES MarkerBillsInFull LockIsReleased
