SPECIFICATION Spec
CONSTANTS
  c1 = c1
  c2 = c2
  Clients <- TwoClients
  MinStates = 1
  Half = 1
  Full = 1
  MaxQueries = 4
  None = None
SYMMETRY ClientSymmetry
INVARIANTS TurnsAreExact NamesAreFresh StoredOncePerClient
CHECK_DEADLOCK FALSE
