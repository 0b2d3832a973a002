SPECIFICATION FairSpec
CONSTANTS
  Rules <- OneRule
  CoreConfigs <- MCCores
  Services <- MCServices
  Addresses = {"a1", "a2"}
  Host = "host"
  None = None
  DropPolicy = FALSE
  EarlierFile = FALSE
  MaxFaults = 0
  MaxRestarts = 0
  MaxDNSChanges = 1
PROPERTIES RefreshFollowsDNS
