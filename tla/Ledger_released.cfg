\* One session, a waker beside its commands.
CONSTANTS
  Paths <- MCPaths
  Below <- MCBelow
  PathLength <- MCLengths
  Nobody = nobody
  Sessions = {s1}
  Processes = {p1, p2}
  Concurrency = "wakers"
  Requests <- NestedRequests
  Labels = {l1}
  Ending = {}
  Readings = {0}
  MaxClock = 3
  Modulus = 8
SPECIFICATION Spec
PROPERTIES ReleasedStaysReleased
