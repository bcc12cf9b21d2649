\* Row revisions restart at 1 when a row is deleted and inserted again. The
\* fragment has no failing commands, so it may stop.
CONSTANTS
  Paths <- MCPaths
  Below <- MCBelow
  PathLength <- MCLengths
  Nobody = nobody
  Sessions = {s1, s2}
  Processes = {p1, p2}
  Concurrency = "wakers"
  Requests <- FileRequests
  Labels = {l1, l2}
  Ending = {}
  Readings = {0}
  MaxClock = 3
  Modulus = 8
SYMMETRY Symmetric
SPECIFICATION DirectSpec
INVARIANTS MutualExclusion
CHECK_DEADLOCK FALSE
