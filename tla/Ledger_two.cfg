\* Two sessions that may end and come back, two processes, two labels.
CONSTANTS
  Paths <- MCPaths
  Below <- MCBelow
  PathLength <- MCLengths
  Nobody = nobody
  Sessions = {s1, s2}
  Processes = {p1, p2}
  Concurrency = "none"
  Requests <- NestedRequests
  Labels = {l1, l2}
  Ending = {s1, s2}
  Readings = {0, 2}
  MaxClock = 2
  Modulus = 1
SYMMETRY Symmetric
SPECIFICATION Spec
INVARIANTS TypeOK GrantBacked SnapshotsFresh
PROPERTIES PlaceKept ImplementsLock
