\* A planned path d is named as a file first and as a directory later.
CONSTANTS
  Paths <- MCPaths
  Below <- MCBelow
  PathLength <- MCLengths
  Nobody = nobody
  Sessions = {s1, s2}
  Processes = {p1}
  Concurrency = "none"
  Requests <- MixedRequests
  Labels = {l1}
  Ending = {}
  Readings = {0}
  MaxClock = 2
  Modulus = 2
SYMMETRY Symmetric
SPECIFICATION Spec
PROPERTIES ExpansionsClear
