SPECIFICATION Spec
CONSTANTS
  Rules <- TwoRules
  CoreConfigs <- MCCores
  Services <- MCServices
  Addresses = {"a1", "a2"}
  Host = "host"
  None = None
  DropPolicy = TRUE
  EarlierFile = TRUE
  MaxFaults = 2
  MaxRestarts = 1
  MaxDNSChanges = 1
INVARIANTS AppliedIsServed FlowsAreAllowed DiskIsMemory NoPortConflict
