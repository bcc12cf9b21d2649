\* Three sessions, one command at a time, scopes of every shape.
CONSTANTS
  Paths <- MCPaths
  Below <- MCBelow
  PathLength <- MCLengths
  Nobody = nobody
  Sessions = {s1, s2, s3}
  Processes = {p1}
  Concurrency = "none"
  Requests <- TreeRequests
  Labels = {l1}
  Ending = {}
  Readings = {0, 2}
  MaxClock = 3
  Modulus = 1
SYMMETRY Symmetric
SPECIFICATION Spec
INVARIANTS MutualExclusion NoOvertaking
PROPERTIES ExpansionsClear
