\* Every part of a host that shares no state with the others, on a small instance.
SPECIFICATION MCSpec
CONSTANTS
  Refresh = 1
  CacheTtl = 1
  Heartbeat = 1
  Modulus = 2
  MaxChanges = 1
  MaxFaults = 1
  MaxFetches = 2
  Ids = {f, g}
  Main = main
  Subagents = {sub}
  MaxTurns = 2
  MaxFailures = 1
  Specs <- MCSpecs
  MaxAttempts = 2
  MaxEntries = 2
  MaxEdits = 2
  MaxRequests = 2
  MaxQueued = 2
  Timeout = 2
  MaxPipe = 1
  Numbers = 5
  Senders = {a, b}
  MaxInbox = 2
  Ttl = 1
  MaxSent = 3
  MaxTime = 2
  MaxBack = 1
  Sessions = {s, t}
  Lookers = {t}
  Files = {x}
  Benign = {}
  Contents = {old, new}
  Committed = old
  Unhashable = unhashable
  NoSession = none
  Hold = 2
  MaxScan = 1
  MaxChanged = 2
  MaxGitFails = 1
INVARIANTS MCTypeOK LinkConverges MissingMeansLoose ConflictsAreEdits NoGap LostToLater
PROPERTIES EventsGoForward TrustedWhenReported FreshDirtIsHeld
PROPERTIES MCPageCatchesUp MCWaiterCatchesUp MCStopsEnd MCConnectionEnds MCDirtSettles
CHECK_DEADLOCK FALSE
