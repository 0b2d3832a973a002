CONSTANTS
  IDs = {a, b}
  MaxJobs = 1
  Items = 2
  MaxStarts = 3
  MaxFaults = 2
  MaxCrashes = 1
SPECIFICATION FairSpec
INVARIANTS RunsOnce ReportedIsDurable CancelledIsNotCompleted
PROPERTIES FinishedIsKept BusyEnds
