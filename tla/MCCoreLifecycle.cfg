SPECIFICATION Spec
CONSTANTS
  Users = {"a"}
  NoUser = NoUser
  Unknown = Unknown
  AuditPort = FALSE
  MaxFaults = 2
  MaxRestarts = 1
INVARIANTS UnchangedIsServed LastGoodWasHealthy FileIsServed
PROPERTIES AnswersAreTrue ImplementsConfigInForce
