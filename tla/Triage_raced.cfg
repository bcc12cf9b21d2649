\* Four instances in one run: agents alone, two runs over one finding, the children
\* of two runs, and one batch of two findings (see MCTriage).
CONSTANTS
  typo = typo
  crash = crash
  Keys = {typo, crash}
  Resolutions = {"fixed", "duplicate"}
  MaxFindings = 3
  MaxReopens = 1
  Backlogs <- MCBacklogs
  Schedulers = {hook1, hook2}
  MaxRuns = 2
  BatchLimit = 2
  Documented = {typo}
  Verdicts = {"fixed", "stale", "duplicate", "handed-off", "deferred"}
  Grace = 0
  Deadline = 1
  Lease = 2
  Cooldown = 3
  MaxStale = 1
  LastStart = 3
  MaxClock = 4
  MaxCommits = 2
  MaxFaults = 1
  MaxMoves = 1
SPECIFICATION MCSpec
INVARIANT LaunchesIntact

CHECK_DEADLOCK FALSE
