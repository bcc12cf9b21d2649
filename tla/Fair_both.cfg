\* Two sessions with work; a session whose process exits while a hook registers
\* it late, two commands refresh and lookups fail.
CONSTANTS
  Paths <- MCPaths
  Below <- MCBelow
  PathLength <- MCLengths
  Nobody = nobody
  Sessions = {s1, s2}
  Processes = {p1, p2}
  Concurrency = "none"
  Requests <- FileRequests
  Labels = {l1}
  Ending = {}
  Readings = {0}
  MaxClock = 2
  Modulus = 1
  Claude = {c1}
  ClaudeHosts = {g1}
  Registrars = {r1}
  Refreshers = {k1, k2}
  NoHost = nohost
  NoCommand = nocommand
  RowModulus = 2
SPECIFICATION MCSpec
PROPERTIES EventuallyServed AbandonedRowsGo
