------------------------------- MODULE Triage -------------------------------
(***************************************************************************)
(* Background triage of findings in one repository: hooks and done that    *)
(* schedule a batch, the detached triage worker, the Codex child it runs,  *)
(* and what they share: the tables triage_runs, finding_claims and         *)
(* findings, the file run.json of a run, commits and handoff files.        *)
(*                                                                         *)
(* Source: src/coordinator/triage.rs, src/state/store_triage.rs.           *)
(* Every transaction and every file write is a step of its own; a process  *)
(* may stop for good between any two of them.  The switch auto_triage, the *)
(* checked-out branch, provider coverage and normal work in the repository *)
(* are the environment's: a gate on them may refuse at any time.           *)
(***************************************************************************)
EXTENDS Findings, Sequences, FiniteSetsExt

CONSTANTS
  Backlogs,    \* sequences of fingerprints: what is pending at the start
  Schedulers,  \* processes that schedule: lifecycle hooks and done
  MaxRuns,     \* bound on runs ever begun
  BatchLimit,  \* TRIAGE_BATCH_LIMIT
  Documented,  \* fingerprints whose paths name a safe, tracked document
  Verdicts,    \* the statuses a child writes in its result file
  Grace,       \* HEARTBEAT_GRACE_SECONDS
  Deadline,    \* RUN_DEADLINE_SECONDS
  Lease,       \* TRIAGE_LEASE_SECONDS
  Cooldown,    \* TRIAGE_COOLDOWN_SECONDS
  MaxStale,    \* the longest a scheduler lives (hooks have a 5-second limit)
  LastStart,   \* bound on the time at which a run begins
  MaxClock,    \* bound on the clock
  MaxCommits,  \* bound on commits that name a finding
  MaxFaults,   \* bound on processes killed and on failed files and commits
  MaxMoves     \* bound on what agents do to findings meanwhile

ASSUME TriageAssumption ==
  /\ \A keys \in Backlogs :
       /\ keys \in Seq(Keys) /\ Len(keys) <= MaxFindings
       /\ \A f, g \in DOMAIN keys : keys[f] = keys[g] => f = g
  /\ {MaxRuns, BatchLimit, Grace, Deadline, Lease, Cooldown, MaxStale} \subseteq Nat
  /\ {LastStart, MaxClock, MaxCommits, MaxFaults, MaxMoves} \subseteq Nat
  /\ Grace < Deadline /\ Deadline < Lease /\ Lease < Cooldown
  /\ MaxStale < Lease /\ LastStart + Deadline <= MaxClock
  /\ Documented \subseteq Keys
  /\ Verdicts \subseteq {"fixed", "stale", "duplicate", "handed-off", "deferred"}

VARIABLES
  clock,     \* wall clock, in ticks
  runs,      \* rows of triage_runs
  claims,    \* rows of finding_claims, by finding
  meta,      \* the files run.json; that of a closed run, which nobody reads, is dropped
  sched,     \* scheduling processes
  worker,    \* triage-worker processes, by run
  child,     \* Codex processes, by run
  log,       \* commits with a Finding-ID trailer: the finding each one names
  handoffs,  \* findings with a handoff file that carries their marker
  faults,    \* faults so far
  moves      \* moves of agents so far

vars == <<findings, clock, runs, claims, meta, sched, worker, child, log,
          handoffs, faults, moves>>

-----------------------------------------------------------------------------
(* Rows, files and processes *)

RunIds == 1 .. MaxRuns
NoRun == 0
Times == 0 .. MaxClock

\* head: how much of log was there when the run began (start_head).
RunRows == [state : {"none", "open", "closed"}, at : Times,
            batch : SUBSET FindingIds, head : 0 .. MaxCommits]
NoRow == [state |-> "none", at |-> 0, batch |-> {}, head |-> 0]

Claims == [run : RunIds \cup {NoRun}, until : 0 .. MaxClock + Lease]
NoClaim == [run |-> NoRun, until |-> 0]

\* papers: authorized_paths, as the fingerprints whose document they are.
Files == [on : BOOLEAN, worker : BOOLEAN, beat : Times, papers : SUBSET Keys]
NoFile == [on |-> FALSE, worker |-> FALSE, beat |-> 0, papers |-> {}]

\* A scheduler keeps the time it began, a run, what it read of its file, and
\* the findings of the run it still has to reconcile.
SchedulerStates ==
  [pc : {"idle", "reconcile", "close", "begin", "launch", "spawn", "record"},
   now : Times, run : RunIds \cup {NoRun}, seen : Files, todo : SUBSET FindingIds]
Idle == [pc |-> "idle", now |-> 0, run |-> NoRun, seen |-> NoFile, todo |-> {}]

Working == {"starting", "first", "pending", "scope", "running",
            "last", "apply", "finish", "leave"}

\* "done": the worker exited; "gone": it was killed, and left its child alone.
WorkerStates ==
  [pc : Working \cup {"none", "done", "gone"}, todo : SUBSET FindingIds,
   settled : SUBSET FindingIds, papers : SUBSET Keys]
WorkerAt(pc) == [pc |-> pc, todo |-> {}, settled |-> {}, papers |-> {}]

Children ==
  [state : {"none", "running", "ok", "failed"},
   results : UNION {[batch -> Verdicts] : batch \in SUBSET FindingIds}]
ChildIs(state) == [state |-> state, results |-> <<>>]

\* Some findings are pending already.
Recorded(keys) ==
  [f \in FindingIds |-> IF f <= Len(keys) THEN NewRow(keys[f]) ELSE Blank]

Init ==
  /\ \E keys \in Backlogs : findings = Recorded(keys)
  /\ clock = 0
  /\ runs = [r \in RunIds |-> NoRow]
  /\ claims = [f \in FindingIds |-> NoClaim]
  /\ meta = [r \in RunIds |-> NoFile]
  /\ sched = [s \in Schedulers |-> Idle]
  /\ worker = [r \in RunIds |-> WorkerAt("none")]
  /\ child = [r \in RunIds |-> ChildIs("none")]
  /\ log = <<>>
  /\ handoffs = {}
  /\ faults = 0
  /\ moves = 0

\* finish_triage_run closes a row once and deletes its claims in any case.
\* Mutant: the claims are left to their leases.
LeftClaimed(table, r) == table

Unclaimed(table, r) ==
  [f \in FindingIds |-> IF table[f].run = r THEN NoClaim ELSE table[f]]

FinishRun(r) ==
  /\ runs' = [runs EXCEPT ![r].state = "closed"]
  /\ claims' = Unclaimed(claims, r)

\* run_is_live, for a row, the file that was read and the scheduler's clock.
\* Mutant: a heart that beats is enough, however old the run is.
BeatsOn(r, file, now) ==
  file.on /\ now <= file.beat + Grace /\ file.worker /\ worker[r].pc \in Working

IsLive(r, file, now) ==
  /\ now < runs[r].at + Deadline
  /\ file.on
  /\ now <= file.beat + Grace
  /\ file.worker
  /\ worker[r].pc \in Working

-----------------------------------------------------------------------------
(* Artifacts *)

CommitsFor(f, r) == {i \in runs[r].head + 1 .. Len(log) : log[i] = f}

\* Exactly one commit since the start of the run names f, and it changes only
\* authorized documents.
HasCommit(f, r, papers) ==
  Cardinality(CommitsFor(f, r)) = 1 /\ findings[f].key \in papers

\* reconcile_artifacts for one finding: a pending one is resolved by its commit,
\* or else handed off by its file.
\* Mutant: handoff files are only looked for after a commit was found.
ReconcileCommit(f, r, papers) ==
  \/ /\ CanHandOff(f) /\ HasCommit(f, r, papers)
     /\ Resolve(f, "fixed", NoFinding)
  \/ /\ ~(CanHandOff(f) /\ HasCommit(f, r, papers))
     /\ UNCHANGED findings

Reconcile(f, r, papers) ==
  \/ /\ CanHandOff(f) /\ HasCommit(f, r, papers)
     /\ Resolve(f, "fixed", NoFinding)
  \/ /\ ~HasCommit(f, r, papers) /\ f \in handoffs
     /\ HandOff(f)
  \/ /\ CanHandOff(f) => ~HasCommit(f, r, papers) /\ f \notin handoffs
     /\ UNCHANGED findings

-----------------------------------------------------------------------------
(* Scheduling: schedule_findings_triage_for *)

Goto(s, pc) == sched' = [sched EXCEPT ![s].pc = pc]
Leave(s) == sched' = [sched EXCEPT ![s] = Idle]

\* release_orphaned_claims, by the scheduler's clock.
Released(table, now) ==
  [f \in FindingIds |->
    IF \/ table[f].until <= now
       \/ \E r \in RunIds : table[f].run = r /\ runs[r].state = "closed"
    THEN NoClaim ELSE table[f]]

\* The clock is read once; then an unfinished run that is not live is taken up
\* (reconcile_inactive_runs).  If there is none, orphaned claims are released.
\* Without a readable file there is nothing to reconcile.
Look(s) ==
  /\ sched[s].pc = "idle"
  /\ LET Lost == {r \in RunIds : runs[r].state = "open" /\ ~IsLive(r, meta[r], clock)}
     IN \/ /\ Lost = {}
           /\ claims' = Released(claims, clock)
           /\ sched' = [sched EXCEPT ![s] = [Idle EXCEPT !.pc = "begin", !.now = clock]]
        \/ /\ \E r \in Lost :
                sched' = [sched EXCEPT ![s] =
                  [pc |-> IF meta[r].on THEN "reconcile" ELSE "close", now |-> clock,
                   run |-> r, seen |-> meta[r], todo |-> runs[r].batch]]
           /\ UNCHANGED claims
  /\ UNCHANGED <<findings, clock, runs, meta, worker, child, log, handoffs, faults, moves>>

ReconcileLost(s) ==
  /\ sched[s].pc = "reconcile"
  /\ LET f == Min(sched[s].todo)
         left == sched[s].todo \ {f}
     IN /\ Reconcile(f, sched[s].run, sched[s].seen.papers)
        /\ sched' = [sched EXCEPT ![s].todo = left,
                                  ![s].pc = IF left = {} THEN "close" ELSE @]
  /\ UNCHANGED <<clock, runs, claims, meta, worker, child, log, handoffs, faults, moves>>

\* The run is finished as worker-lost, and the file that was read is written
\* back with the scheduler's time.  An error of the ledger is ignored; then the
\* file matters still.  Orphaned claims are released.
CloseLost(s) ==
  LET r == sched[s].run  now == sched[s].now IN
  /\ sched[s].pc = "close"
  /\ \/ /\ runs' = [runs EXCEPT ![r].state = "closed"]
        /\ claims' = Released(Unclaimed(claims, r), now)
        /\ meta' = [meta EXCEPT ![r] = NoFile]
        /\ UNCHANGED faults
     \/ /\ faults < MaxFaults /\ faults' = faults + 1
        /\ claims' = Released(claims, now)
        /\ meta' = IF sched[s].seen.on
                   THEN [meta EXCEPT ![r] = [sched[s].seen EXCEPT !.beat = now]] ELSE meta
        /\ UNCHANGED runs
  /\ sched' = [sched EXCEPT ![s] = [Idle EXCEPT !.pc = "begin", !.now = now]]
  /\ UNCHANGED <<findings, clock, worker, child, log, handoffs, moves>>

\* The oldest pending findings that nobody has claimed.
Batch ==
  LET Free == {f \in FindingIds : CanHandOff(f) /\ claims[f] = NoClaim}
  IN {f \in Free : Cardinality({g \in Free : g < f}) < BatchLimit}

\* Mutant: runs that were closed do not count for the cooldown.
CooledOpenOnly(now) ==
  \A r \in RunIds : runs[r].state # "open"

\* No run is open, and none began within the cooldown.
Cooled(now) ==
  \A r \in RunIds :
    runs[r].state = "none" \/ (runs[r].state = "closed" /\ runs[r].at + Cooldown <= now)

\* begin_triage_run: one transaction checks every gate again and claims the
\* batch.  It may refuse: for coverage and normal work, or for what it checks.
BeginRun(s) ==
  /\ sched[s].pc = "begin"
  /\ \/ /\ Leave(s)
        /\ UNCHANGED <<runs, claims>>
     \/ /\ Cooled(sched[s].now) /\ Batch # {} /\ sched[s].now <= LastStart
        /\ \E r \in RunIds :
             /\ runs[r].state = "none" /\ \A q \in 1 .. r - 1 : runs[q].state # "none"
             /\ runs' = [runs EXCEPT ![r] = [state |-> "open", at |-> sched[s].now,
                                             batch |-> Batch, head |-> 0]]
             /\ claims' = [f \in FindingIds |->
                             IF f \in Batch
                             THEN [run |-> r, until |-> sched[s].now + Lease]
                             ELSE claims[f]]
             /\ sched' = [sched EXCEPT ![s].pc = "launch", ![s].run = r]
  /\ UNCHANGED <<findings, clock, meta, worker, child, log, handoffs, faults, moves>>

\* The directory is made, HEAD is read, and run.json is written, yet without a
\* worker.  Nobody sees the directory or the HEAD before the file is there.
NewFile(s) == [on |-> TRUE, worker |-> FALSE, beat |-> sched[s].now, papers |-> {}]

WriteFile(s) ==
  /\ sched[s].pc = "launch"
  /\ runs' = [runs EXCEPT ![sched[s].run].head = Len(log)]
  /\ meta' = [meta EXCEPT ![sched[s].run] =
       IF runs[sched[s].run].state = "open" THEN NewFile(s) ELSE NoFile]
  /\ Goto(s, "spawn")
  /\ UNCHANGED <<findings, clock, claims, worker, child, log, handoffs, faults, moves>>

\* The worker is spawned, whatever became of the run.
Launch(s) ==
  /\ sched[s].pc = "spawn"
  /\ worker' = [worker EXCEPT ![sched[s].run] = WorkerAt("starting")]
  /\ Goto(s, "record")
  /\ UNCHANGED <<findings, clock, runs, claims, meta, child, log, handoffs, faults, moves>>

\* run.json is written again, with the fingerprint of the worker.
Record(s) ==
  /\ sched[s].pc = "record"
  /\ meta' = [meta EXCEPT ![sched[s].run] =
       IF runs[sched[s].run].state = "open" THEN [NewFile(s) EXCEPT !.worker = TRUE] ELSE NoFile]
  /\ Leave(s)
  /\ UNCHANGED <<findings, clock, runs, claims, worker, child, log, handoffs, faults, moves>>

\* No directory, no HEAD, no worker or no second file: the run is finished as
\* launch-failed.  A worker that was started meanwhile is left to itself.
LaunchFails(s) ==
  /\ sched[s].pc \in {"launch", "spawn", "record"}
  /\ faults < MaxFaults /\ faults' = faults + 1
  /\ FinishRun(sched[s].run)
  /\ meta' = [meta EXCEPT ![sched[s].run] = NoFile]
  /\ Leave(s)
  /\ UNCHANGED <<findings, clock, worker, child, log, handoffs, moves>>

\* The provider kills a hook at its timeout, or a write of run.json fails.
SchedulerDies(s) ==
  /\ sched[s].pc # "idle"
  /\ faults < MaxFaults /\ faults' = faults + 1
  /\ Leave(s)
  /\ UNCHANGED <<findings, clock, runs, claims, meta, worker, child, log, handoffs, moves>>

Schedule(s) ==
  \/ Look(s) \/ ReconcileLost(s) \/ CloseLost(s) \/ BeginRun(s)
  \/ WriteFile(s) \/ Launch(s) \/ Record(s)

-----------------------------------------------------------------------------
(* The worker: run_findings_triage_with *)

\* The run must be open, and within two seconds run.json must name a worker.
StartWorker(r) ==
  /\ worker[r].pc = "starting"
  /\ \/ /\ runs[r].state = "open" /\ meta[r].worker
        /\ worker' = [worker EXCEPT ![r].pc = "first", ![r].todo = runs[r].batch]
     \/ /\ runs[r].state # "open" \/ ~meta[r].worker
        /\ worker' = [worker EXCEPT ![r].pc = "done"]
  /\ UNCHANGED <<findings, clock, runs, claims, meta, sched, child, log, handoffs, faults, moves>>

\* Artifacts are reconciled before the child runs and after it ended.
ReconcileOwn(r) ==
  /\ worker[r].pc \in {"first", "last"}
  /\ LET f == Min(worker[r].todo)
         left == worker[r].todo \ {f}
         after == CASE worker[r].pc = "first" -> "pending"
                    [] child[r].state = "ok" -> "apply"
                    [] OTHER -> "finish"
     IN /\ Reconcile(f, r, worker[r].papers)
        /\ worker' = [worker EXCEPT
             ![r].pc = IF left = {} THEN after ELSE @,
             ![r].todo = IF left = {} /\ after = "apply" THEN runs[r].batch ELSE left,
             ![r].settled = IF findings'[f].state = "pending" THEN @ ELSE @ \cup {f}]
  /\ UNCHANGED <<clock, runs, claims, meta, sched, child, log, handoffs, faults, moves>>

\* pending_claimed_finding_ids: nothing left, or another branch: leave.
ReadPending(r) ==
  /\ worker[r].pc = "pending"
  /\ LET mine == {f \in FindingIds : claims[f].run = r /\ CanHandOff(f)}
     IN \/ worker' = [worker EXCEPT ![r] = WorkerAt("leave")]
        \/ /\ mine # {}
           /\ worker' = [worker EXCEPT ![r] = [WorkerAt("scope") EXCEPT !.todo = mine]]
  /\ UNCHANGED <<findings, clock, runs, claims, meta, sched, child, log, handoffs, faults, moves>>

FileOf(r, beat, papers) ==
  IF runs[r].state = "open"
  THEN [on |-> TRUE, worker |-> TRUE, beat |-> beat, papers |-> papers] ELSE NoFile

\* The safe documents are started as work of the triager, recorded, and the
\* child is run; or the scope is not available.
RunChild(r) ==
  /\ worker[r].pc = "scope"
  /\ \/ /\ worker' = [worker EXCEPT ![r] = WorkerAt("leave")]
        /\ UNCHANGED <<meta, child>>
     \/ LET papers == {findings[f].key : f \in worker[r].todo} \cap Documented
        IN /\ worker' = [worker EXCEPT ![r] = [WorkerAt("running") EXCEPT !.papers = papers]]
           /\ meta' = [meta EXCEPT ![r] = FileOf(r, runs[r].at, papers)]
           /\ child' = [child EXCEPT ![r] = ChildIs("running")]
  /\ UNCHANGED <<findings, clock, runs, claims, sched, log, handoffs, faults, moves>>

Ended(r) == worker' = [worker EXCEPT ![r].pc = "last", ![r].todo = runs[r].batch]

\* The heartbeat: run.json, then the leases.  A run that was closed meanwhile
\* ends the child.
Heartbeat(r) ==
  /\ worker[r].pc = "running" /\ child[r].state = "running"
  /\ meta' = [meta EXCEPT ![r] = FileOf(r, clock, worker[r].papers)]
  /\ \/ /\ runs[r].state = "open"
        /\ claims' = [f \in FindingIds |->
                        IF claims[f].run = r THEN [claims[f] EXCEPT !.until = clock + Lease]
                                             ELSE claims[f]]
        /\ UNCHANGED <<worker, child>>
     \/ /\ runs[r].state # "open"
        /\ child' = [child EXCEPT ![r] = ChildIs("failed")]
        /\ Ended(r)
        /\ UNCHANGED claims
  /\ UNCHANGED <<findings, clock, runs, sched, log, handoffs, faults, moves>>

\* Thirty minutes after the spawn, which is no earlier than the run's start.
EndAtDeadline(r) ==
  /\ worker[r].pc = "running" /\ child[r].state = "running"
  /\ clock >= runs[r].at + Deadline
  /\ child' = [child EXCEPT ![r] = ChildIs("failed")]
  /\ Ended(r)
  /\ UNCHANGED <<findings, clock, runs, claims, meta, sched, log, handoffs, faults, moves>>

SeeExit(r) ==
  /\ worker[r].pc = "running" /\ child[r].state \in {"ok", "failed"}
  /\ Ended(r)
  /\ UNCHANGED <<findings, clock, runs, claims, meta, sched, child, log, handoffs, faults, moves>>

\* apply_finding_result: what the ledger does with one verdict.
ApplyVerdict(f, r) ==
  LET verdict == child[r].results[f] IN
  \/ verdict = "deferred" /\ UNCHANGED findings
  \/ verdict = "handed-off" /\ IF f \in handoffs /\ CanHandOff(f)
                               THEN HandOff(f) ELSE UNCHANGED findings
  \/ verdict = "fixed" /\ IF HasCommit(f, r, worker[r].papers) /\ IsOpen(f)
                          THEN Resolve(f, "fixed", NoFinding) ELSE UNCHANGED findings
  \/ verdict = "stale" /\ IF IsOpen(f)
                          THEN Resolve(f, "stale", NoFinding) ELSE UNCHANGED findings
  \/ /\ verdict = "duplicate"
     /\ \E g \in FindingIds :
          IF /\ ~(g \in DOMAIN child[r].results /\ child[r].results[g] = "duplicate")
             /\ CanResolve(f, "duplicate", g)
          THEN Resolve(f, "duplicate", g) ELSE UNCHANGED findings

\* apply_result_file, one record at a time; findings that the last
\* reconciliation settled are passed over, and so are those without a record.
ApplyResult(r) ==
  /\ worker[r].pc = "apply"
  /\ LET f == Min(worker[r].todo)
         left == worker[r].todo \ {f}
     IN /\ IF f \in worker[r].settled \/ f \notin DOMAIN child[r].results
           THEN UNCHANGED findings
           ELSE ApplyVerdict(f, r)
        /\ worker' = [worker EXCEPT ![r].todo = left,
                                    ![r].pc = IF left = {} THEN "finish" ELSE @]
  /\ UNCHANGED <<clock, runs, claims, meta, sched, child, log, handoffs, faults, moves>>

\* finish_worker: run.json, the triager's session and the run.
FinishWorker(r) ==
  /\ worker[r].pc \in {"finish", "leave"}
  /\ meta' = [meta EXCEPT ![r] = NoFile]
  /\ FinishRun(r)
  /\ worker' = [worker EXCEPT ![r] = WorkerAt("done")]
  /\ child' = [child EXCEPT ![r] = ChildIs("none")]
  /\ UNCHANGED <<findings, clock, sched, log, handoffs, faults, moves>>

WorkerDies(r) ==
  /\ worker[r].pc \in Working
  /\ faults < MaxFaults /\ faults' = faults + 1
  /\ worker' = [worker EXCEPT ![r] = WorkerAt("gone")]
  /\ UNCHANGED <<findings, clock, runs, claims, meta, sched, child, log, handoffs, moves>>

Work(r) ==
  \/ StartWorker(r) \/ ReconcileOwn(r) \/ ReadPending(r) \/ RunChild(r)
  \/ Heartbeat(r) \/ EndAtDeadline(r) \/ SeeExit(r) \/ ApplyResult(r) \/ FinishWorker(r)

-----------------------------------------------------------------------------
(* The child, the agents and the clock *)

\* The child commits a fix, publishes a handoff file, or ends.
ChildActs(r) ==
  /\ child[r].state = "running"
  /\ \/ /\ \E f \in runs[r].batch :
             \/ /\ Len(log) < MaxCommits
                /\ log' = Append(log, f)
                /\ UNCHANGED handoffs
             \/ /\ handoffs' = handoffs \cup {f}
                /\ UNCHANGED log
        /\ UNCHANGED child
     \/ /\ child' = [child EXCEPT ![r] = ChildIs("failed")]
        /\ UNCHANGED <<log, handoffs>>
     \/ /\ \E results \in [runs[r].batch -> Verdicts] :
             child' = [child EXCEPT ![r] = [state |-> "ok", results |-> results]]
        /\ UNCHANGED <<log, handoffs>>
  /\ UNCHANGED <<findings, clock, runs, claims, meta, sched, worker, faults, moves>>

\* Agents keep using ai-coord finding meanwhile.
AgentActs ==
  /\ moves < MaxMoves /\ moves' = moves + 1
  /\ FindingsNext
  /\ UNCHANGED <<clock, runs, claims, meta, sched, worker, child, log, handoffs, faults>>

\* No scheduler outlives MaxStale.  What happens before the first run does not
\* depend on time: the clock starts with it.
Tick ==
  /\ clock < MaxClock
  /\ runs[1].state # "none"
  /\ \A s \in Schedulers : sched[s].pc # "idle" => clock + 1 <= sched[s].now + MaxStale
  /\ clock' = clock + 1
  /\ UNCHANGED <<findings, runs, claims, meta, sched, worker, child, log, handoffs, faults, moves>>

Next ==
  \/ \E s \in Schedulers : Schedule(s) \/ LaunchFails(s) \/ SchedulerDies(s)
  \/ \E r \in RunIds : Work(r) \/ WorkerDies(r) \/ ChildActs(r)
  \/ AgentActs
  \/ Tick

Spec == Init /\ [][Next]_vars

\* Time passes, hooks keep firing, and each of them ends.  Nothing is assumed
\* of workers and children: they may hang.
FairSpec ==
  /\ Spec
  /\ WF_vars(Tick)
  /\ \A s \in Schedulers : WF_vars(Schedule(s))

-----------------------------------------------------------------------------
(* Properties *)

TypeOK ==
  /\ FindingsTypeOK
  /\ clock \in Times
  /\ runs \in [RunIds -> RunRows]
  /\ claims \in [FindingIds -> Claims]
  /\ meta \in [RunIds -> Files]
  /\ sched \in [Schedulers -> SchedulerStates]
  /\ worker \in [RunIds -> WorkerStates]
  /\ child \in [RunIds -> Children]
  /\ log \in Seq(FindingIds) /\ Len(log) <= MaxCommits
  /\ handoffs \subseteq FindingIds
  /\ faults \in 0 .. MaxFaults
  /\ moves \in 0 .. MaxMoves

\* Hooks that fire at the same time, with clocks they read at different
\* moments, never have two runs open, and any two runs begin at least a
\* cooldown apart: a child that outlived its worker has that long to end
\* before anybody else is given its findings.
OneTriager ==
  \A q, r \in RunIds :
    q < r /\ runs[r].state # "none" =>
      runs[q].state = "closed" /\ runs[q].at + Cooldown <= runs[r].at

\* A claim belongs to an open run that has the finding in its batch; and a run
\* that is open keeps the claims of its whole batch for the length of a lease
\* at least, whoever schedules, closes or dies meanwhile.
ClaimsFollowRuns ==
  /\ \A f \in FindingIds : claims[f] # NoClaim =>
       runs[claims[f].run].state = "open" /\ f \in runs[claims[f].run].batch
  /\ \A r \in RunIds : runs[r].state = "open" /\ clock < runs[r].at + Lease =>
       \A f \in runs[r].batch : claims[f].run = r

\* The worker has not run its child yet, or leaves without one.
BeforeChild == {"none", "starting", "first", "pending", "scope", "leave"}

\* When the child has ended and its worker has reconciled, a finding of the
\* batch that is pending and was never reopened has neither a commit nor a
\* handoff file, unless another run had the finding, too, and its worker got
\* past the start of its child; for a handoff file, whose child is still there.
ArtifactsSettle ==
  \A r \in RunIds : worker[r].pc \in {"apply", "finish"} =>
    \A f \in runs[r].batch : CanHandOff(f) /\ findings[f].reopened = 0 =>
      /\ HasCommit(f, r, worker[r].papers) =>
           \E q \in RunIds \ {r} : f \in runs[q].batch /\ worker[q].pc \notin BeforeChild
      /\ f \in handoffs =>
           \E q \in RunIds \ {r} : f \in runs[q].batch /\ child[q].state # "none"

\* Every run is closed in the end, and its claims with it, although workers
\* hang or are killed and schedulers are killed, as long as hooks keep firing.
RunsClose == []<>(\A r \in RunIds : runs[r].state # "open")

\* The comment at src/coordinator/triage.rs:113: "transactional gates keep
\* concurrent lifecycle hooks idempotent".  Then a second hook leaves the run
\* that another one is launching as it is.
LaunchesIntact ==
  \A s \in Schedulers :
    sched[s].pc \in {"launch", "spawn", "record"} => runs[sched[s].run].state = "open"
=============================================================================
