SPECIFICATION Spec
CONSTANTS
  Users = {a, b}
  Tags = {s, t}
  IPs = {ip}
  Plain = Plain
  Nobody = Nobody
  Down = Down
  MaxRequests = 3
  MaxBatch = 1
  MaxFaults = 2
  MaxSessions = 2
INVARIANTS AccessIsGranted ServedIsCounted IndexFollowsCore DropIsComplete DropNeverWaits
PROPERTIES DropAdvances
SYMMETRY Symmetry
