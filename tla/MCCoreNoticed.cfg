SPECIFICATION FairSpec
CONSTANTS
  Users = {"a"}
  NoUser = NoUser
  Unknown = Unknown
  AuditPort = FALSE
  MaxFaults = 1
  MaxRestarts = 0
PROPERTIES DownIsNoticed
