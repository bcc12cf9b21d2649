\* A subagent records while the hook of the main agent is between its reads.
SPECIFICATION TurnGateSpec
CONSTANTS
  Ids = {f, g}
  Main = main
  Subagents = {sub}
  MaxTurns = 2
  MaxFailures = 1
PROPERTIES SurfacedWasNamed
CHECK_DEADLOCK FALSE
