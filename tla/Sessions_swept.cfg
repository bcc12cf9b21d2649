\* Sweeps, supersession and resumption, interleaved; late hooks; and
\* the cache of coverage between two contexts.
CONSTANTS
  Claude = {}
  Codex = {x1, x2}
  ClaudeHosts = {}
  CodexHosts = {h1, h2}
  Registrars = {r1, r2}
  Commands = {k1}
  StartLookups = {TRUE}
  NoHost = nohost
  Idle = idle
  Modulus = 1
  Callers = {"start", "status"}
  Processes = {"p", "q"}
  Contexts = {"here", "there"}
  Installed <- MCInstalled
  Calls <- MCCalls
  CacheSeconds = 2
  MaxCollect = 1
  MaxFlips = 1
SYMMETRY Symmetric
SPECIFICATION MCSpec
INVARIANTS TypeOK
PROPERTIES CodexRowsStay CompleteIsCurrent
