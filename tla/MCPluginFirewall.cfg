CONSTANTS
  IPs = {ip}
  Domains = {d}
  Addresses = {x, y}
  Fails = Fails
  MaxRequests = 4
  MaxFaults = 2
  MaxRestarts = 1
SYMMETRY Symmetry
SPECIFICATION Spec
INVARIANTS AppliedIsEnforced DomainsStayBlocked BlockedIsCut
