SPECIFICATION Spec
CONSTANTS
  u = u
  Counters <- OneCounter
  Forwarding <- MCForwarding
  Queries <- UserThenInbound
  Periodic = {"ticker"}
  LegacyPanel = FALSE
  MaxBytes = 2
  MaxScopes = 0
  MaxTraffic = 3
  MaxForwarded = 1
  MaxSnapshots = 3
PROPERTIES PostRestartIsFresh
