\* A Claude session registers while a command still holds an older listing.
CONSTANTS
  Claude = {c1, c2}
  Codex = {}
  ClaudeHosts = {g1, g2}
  CodexHosts = {}
  Registrars = {r1}
  Commands = {k1}
  StartLookups = {TRUE}
  NoHost = nohost
  Idle = idle
  Modulus = 3
SYMMETRY Symmetric
SPECIFICATION Spec
PROPERTIES RunningRowsStay
