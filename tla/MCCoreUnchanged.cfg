SPECIFICATION Spec
CONSTANTS
  Users = {"a"}
  NoUser = NoUser
  Unknown = Unknown
  AuditPort = TRUE
  MaxFaults = 0
  MaxRestarts = 0
INVARIANTS UnchangedCoreStays
