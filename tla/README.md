# Verification of ai-coord

ai-coord lets several coding agents work in one Git worktree. Agents are
separate programs (Claude Code, Codex) that run the `ai-coord` command; all
coordination state lives in one SQLite file, the *ledger*. There is no daemon:
each command is a process that reads the ledger, spends seconds collecting
evidence (provider inventory, `git status`, file hashes), and writes the ledger
in a later `BEGIN IMMEDIATE` transaction. What can go wrong is what happens in
between.

This directory holds TLA+ models of that protocol, TLC configurations that
check them, and TLAPS proofs. Paths below are relative to the repository.

## Inventory

| Component | State it keeps | Operations | Interacts with | Hard part | What makes it correct |
|---|---|---|---|---|---|
| Work arbitration (`src/work.rs`, `src/coordinator/mod.rs`, `src/state/store_work.rs`) | `work_items`, `work_scopes`, submission clock | `draft`, `start`, `start --draft`, `wait`, `done` | scope algebra, evidence, messages, sessions | evidence is seconds old when it is used; waiters poll; sessions vanish | overlapping work is never active twice; first come first served; READY is true; no starvation |
| Scope algebra (`src/host/git.rs`) | none | covers, overlaps, overlap outside coverage | arbitration | file and directory claims on one tree | covering is sound for overlap |
| Git evidence, dirt settling (`src/work.rs`, `src/state/store_work.rs`) | `dirt_observations`, `residual_owners`, `work_baselines` | observe, partition, record, replace | arbitration | several scanners write one table | dirt is not called stale before it settled; it does settle |
| Sessions and liveness (`src/state/store_sessions.rs`, `src/host/process.rs`) | `sessions` with revisions and process fingerprints | upsert, end, reconcile, replace inventory, callsign | everything, by foreign key | probes and inventories are stale when applied | a live session is not removed, a dead one is |
| Provider inventory (`src/host/providers.rs`, `src/coordinator/inventory.rs`) | `provider_cache`, `hook_health` | sweep, look up, collect, store or clear | sessions, arbitration | evidence takes seconds; one cache for all contexts | no answer is complete on older or foreign evidence |
| Messages (`src/state/store_communications.rs`) | `messages` | send, list, acknowledge, mark notified | arbitration, hooks | cap of 50, wall-clock order | a new message wakes its recipient |
| Findings (`src/state/store_findings.rs`) | `findings`, events, turns | add, hand off, resolve, reopen | triage, hooks | duplicates and reopening | one open finding per fingerprint; canonicals end |
| Triage (`src/state/store_triage.rs`, `src/coordinator/triage.rs`) | `triage_runs`, `finding_claims`, run directory | schedule, work, renew, apply, reconcile | findings, arbitration | detached worker, leases, crash anywhere | one triager; claims follow the run; artifacts are not left pending; runs close |
| Hook runtime (`src/hooks/runtime.rs`, `src/state/store_touched.rs`) | turns, touched paths, clean flag | ingest events, Stop gate, waker | everything | hooks race with commands and with subagents | the Stop gate ends; it marks what its message named (of an agent alone: a finding says what a subagent changes) |
| Hook link (`src/hooks/config.rs`) and Codex trust (`src/hooks/trust.rs`) | client settings files; a connection, its reader and queue | link, list, write, verify | codex app-server | concurrent editors; a server that floods or hangs | one canonical set, foreign hooks survive; trust is reported only if it is so; connections end |
| Dashboard server (`src/server/mod.rs`) and page (`dashboard/src/lib/api.ts`) | snapshot cache, generation per stream; what is shown | snapshot, event stream, polling | reads the ledger | label, cache and late answers race | every change is shown in the end; events never go back |
| Store, schema, CLI, status text | the file itself | open, migrate, parse, print | all | none at run time | |

`PROJECT.json` lists every component with its status, and under `hazards` each
thing in this code that a test would hardly reach, at its line.

## Modules

    Scopes              scope algebra (pure)                     src/host/git.rs
    ScopeLock           abstract specification: a fair lock on sets of scopes
    WorkLedger          the ledger and the command processes     src/work.rs, ...
    WorkLedgerProperties  its invariants, action properties, liveness, refinement
    MCWorkLedger        small instances for TLC
    SessionRegistry     sessions, their processes, sweeps        src/state/store_sessions.rs, ...
    MCSessionRegistry   small instances for TLC
    SessionRegistryProofs  Codex sessions keep their rows
    Coverage            provider coverage and its cache          src/coordinator/mod.rs, inventory.rs, src/host/providers.rs
    MCCoverage          registry and coverage side by side, for TLC
    CoverageProofs      complete answers are current
    MCFair              ledger and registry side by side, with fairness, for TLC
    Findings            findings and what agents do to them      src/state/store_findings.rs
    Triage              runs, claims, workers; on top of Findings   src/coordinator/triage.rs, src/state/store_triage.rs
    MCTriage            four small instances for TLC
    TriageProofs        TypeOK, and all safety of findings and runs
    DirtSettling        scans of the worktree, residual owners   src/work.rs, src/state/store_work.rs, src/host/git.rs
    Watchers            event stream, cache, page, polls of wait   src/server/mod.rs, api.ts
    Inbox               messages, their cap and their clock      src/state/store_communications.rs
    TurnGate            turns, the Stop gate, hook health        src/hooks/runtime.rs
    HookLink            the hooks file and the trust in it       src/hooks/config.rs, src/hooks/trust.rs
    AppServer           one connection to codex app-server       src/hooks/trust.rs
    MCHost              the last six, each alone, for TLC
    HostProofs          all safety of the last six
    ScopeFacts          lemmas on the scope algebra
    ScopeLockProofs     the lock is exclusive and fair
    WorkLedgerProofs    TypeOK; one command per session: SnapshotsFresh, GrantBacked, PlaceKept
    WorkLedgerRefinement  WorkLedger implements ScopeLock, and what follows

### Scopes

A path is an element of a constant set with a tree relation `Below` (strictly
below a directory) and a length. `p.starts_with(q + "/")` and the special case
of `"."` are both `<<p, q>> \in Below`. The lengths matter because
`overlapping_paths` reports the longer of two paths, and expansions are decided
on what it reports. `PathsAreATree` is assumed; `Requests`, the sets of scopes
that agents name, stands for what `normalize_work_scopes` lets through.

### WorkLedger

State and code:

| Variable | Code |
|---|---|
| `work[s]` | the row of session `s` in `work_items` and its `work_scopes`; no row is `NoWork` |
| `clock` | `metadata.submission_clock_micros`, the latest age. A new one is `Allocated` from it and from what the wall clock reads, any member of `Readings`: it may stand still, go back and jump |
| `registered` | rows of `sessions` |
| `unread` | sessions whose inbox has an unacknowledged message |
| `proc[p]` | a process: its command, where it is, and the local variables it carries across |
| `granted[s]` | what the agent of `s` believes: the scopes of its last READY. It exists in the agent only |

Every transaction, and every read that later steps depend on, is one action;
between two actions any other process may run. `draft` is `DraftOpen`,
`DraftSave`. `start` is `StartOpen`, `Gather` (inventory, then `start_direct`
reads the row, then Git evidence), and one of `Submit`, `Reconfirm`, `Relabel`,
`UpdateScopes`, `RefuseUpdate`, as `submit` and `update_active` branch.
`start --draft` is `PromoteOpen`, `Gather`, `Submit`. `wait` is `WaitOpen`,
then a loop of `WaitReady`, `WaitReleased`, `WaitInterrupted` or
`WaitArbitrate`, `Gather` and a submission, after which `PollAgain` starts the
next turn or gives up. `done` is `DoneOpen`, `DoneScan`, `DoneDelete`,
`DoneTell`: four separate accesses, as in `done_for`. `Abort` is any error
return (a failed compare-and-swap among them) and the death of the process, at
any point. `SessionEnd` removes the session and, by foreign key, its work,
while its processes may live on (`orphan`). Its messages stay: `messages` names
sessions without a foreign key (`schema.rs:106-119`).

What is abstracted: labels, messages and outcomes are tokens; evidence is a
free Boolean, `covered` when `Gather` takes it and `fresh` in each transaction,
so every property holds whatever providers and Git report. One repository is
modelled; rows of different repositories never meet. The generation counter
that lets `wait` skip a poll is left out: the model may poll at any time, and
`Watchers` checks that the counter does not make a waiter miss the last change.

Not modelled in a command: baselines (they only feed `fresh`; residual ownership,
which does, too, is in `DirtSettling`), the printed text, the advice on stderr.

`Concurrency` says which processes of *one* session overlap. `"none"`: an agent
runs one command at a time, and a wait is one of its commands. `"wakers"`: a
wait runs beside one other command, as the Claude Code hooks start it. Different
sessions always interleave.

### ScopeLock

What arbitration promises, with no processes: a session is outside, waits with
a ticket, or holds. `Ask`, `Reshape` and `Leave` are its only steps. Its two
invariants are `Exclusion` and `FirstComeFirstServed`. `WorkLedgerProperties`
maps drafts to outside, queued rows to waiting with their age as ticket and
active rows to holding; `ImplementsLock` is `Lock!LockSpec` under that mapping.

### SessionRegistry

`WorkLedger` lets a session end at any time; this module says when its row goes.

| Variable | Code |
|---|---|
| `host[s]`, `exited` | which client process runs session `s`, and which have ended; facts of the machine |
| `row[s]` | the process and the revision in `sessions`; revision 0 is no row |
| `upsert[r]` | a hook or a command that has read the row and not yet written it |
| `cmd[c]` | a refreshing command: the rows its sweep read, the listing it holds |

`SessionStart`, `Hook` and `Command` are the reads of `ingest_supported` and
`ensure_session`, which prefer different sources for the process; `WriteUpsert`
is the transaction, with supersession. `SessionEnd` is the hook event; the
`Silent` actions are the same moves of a client without a hook. `Sweep`,
`ReconcileEnded`, `ListClaude`, `ReplaceClaude` follow `refresh_inventory`; a
probe that cannot tell is a dead process that `known` leaves out. `GiveUp` is a
cached or non-authoritative inventory, an error, or the end of the command.

Assumptions about the clients, which are outside this repository: a process is
never reused (the fingerprint holds its start), it runs one session at a time,
it waits for its SessionStart and SessionEnd hooks, and the listing names the
sessions that run when it is taken. Work is not a variable: the foreign keys
remove it with the row.

### Coverage

`WorkLedger` takes "coverage is complete" as a free Boolean. This module says what
that answer is worth.

| Variable | Code |
|---|---|
| `badFor[c][f]` | for how long the fact `f` (hooks file, hook errors, trust, Claude listing) has been bad in context `c`; 0 is good |
| `hidden` | processes of sessions that cannot be probed |
| `provided` | `provider_cache`: whose complete report it holds, and its age |
| `call[p]`, `answer[p]` | a `refresh_inventory` under way, and what it returned |

`Probe` (one process after another) and `SweepEnds`, `LookUp`, `Collect` (one fact
at a time, in the order of `refresh`), the second sweep by the same two actions,
and `StoreReport` are the steps of `refresh_inventory`; between two of them other
processes run and the host changes. The cache is one table whose rows any context
replaces and any incomplete observation clears. A context is what `provider_context_key` hashes: executables and configuration
directories. What a sweep or listing does to rows of sessions is in
`SessionRegistry`.

`CompleteIsCurrent` says how old the news behind a complete answer may be:
`MaxCollect` for a fresh one, and `CacheSeconds` more where a cached one will do,
since the report is dated by its write and not by its evidence. It says also that
each process could be probed at some moment of the call. That is all that sweeps
can give which probe one process after another: there need not be a moment at which
all of them could. `call[p].visible` is a history of these moments.

### Findings and Triage

`Findings` is the table with its four operations, each one transaction; a
fingerprint stands for the normalized summary and set of paths. `Triage` adds:

| Variable | Code |
|---|---|
| `runs`, `claims` | rows of `triage_runs`, `finding_claims` |
| `meta[r]` | the file `run.json` of a run |
| `sched[s]` | a hook or `done` in `schedule_findings_triage_for`, with the clock it read |
| `worker[r]`, `child[r]` | the detached `triage-worker`, and the Codex process it runs |
| `log`, `handoffs` | commits with a `Finding-ID` trailer, handoff files with their marker |

A scheduler is `Look` (its clock, orphaned claims, the first open run that is not
live), `ReconcileLost`, `CloseLost`, `BeginRun`, `WriteFile` (HEAD, `run.json`
without a worker), `Launch` (the worker is spawned), `Record` (`run.json` with it);
a worker is `StartWorker`, `ReconcileOwn` one finding at a time, `ReadPending`, `RunChild`,
`Heartbeat`, `EndAtDeadline` or `SeeExit`, the last reconciliation, `ApplyResult`
one record at a time, `FinishWorker`. Each transaction and each write of the file
is a step, and every process may die between any two. `AgentActs` are agents
that use `ai-coord finding` meanwhile. Children outlive their killed workers and
still commit.

Left out: `auto_triage` turned off or another branch checked out (any gate may
refuse in the model, but a run is never left open for that reason alone), an
unknown liveness of a worker, pruning of old run directories, the prompt, and
which changes of a commit count as benign beyond the safe documents of its paths.
The release of orphaned claims is one step with a look that finds no lost run, or
with the closing of the one it found (there is never a second open one): no step in
between reads a claim. The file of a
closed run is dropped: nobody reads it.

### DirtSettling

`content` is the worktree, `observed` and `residual` the two tables, `holder` the
session with active work, `scan[s]` a `start`, `done` or `status` of session `s`
between its `git status`, its hashes and its transactions. Every work claims every
file; overlap is `WorkLedger`'s. A `start` of the holder is an update of its active
work: it scans and observes like the others and changes nothing else here. Ages
stand for times: a start reads the clock of its rows before git, `done` and `status`
after it (`LateClock`). `StatusFails` is a git that fails, which `done` takes for a
clean worktree and at which the others end; `ObserveFails` is `observe_dirt` failing,
which `done` ignores. Dirt in `Benign` passes without a hold. Files that cannot be
hashed share one hash, as `UNHASHABLE_BLOB_HASH` makes them. `readAt` is a history of
when each content was first read, which only `FreshDirtIsHeld` looks at.

### Watchers

`ledger` counts changes of two parts of a snapshot and bumps the generation or
does not; `Miss`, `ReadMessages`, `Refreshed` are a fill of the cache under its
mutex, the generation read last; `Poll` and `Answer` the event loop, `Hit` the
same cache for others; `page` is what the browser shows, fed by events, by polls
while the stream is broken, and by answers that arrive late: `fetch` is a bag of
requests that are out at once, since the page polls every two seconds whether or not
it was answered, and each answer is shown when it arrives, in any order. Only the
failure of the request made at subscription makes the page poll; so does an event
that it cannot parse. A stream that breaks may come again or stay `"closed"`, for an
`EventSource` may give up. `waiter` is `wait_for`: `Arbitrate`, then `Remember`,
which stores a generation that may be newer than what was arbitrated.

### Inbox, TurnGate, HookLink, AppServer

`Inbox`: senders read the wall clock, which may go back, and insert later; the
table keeps the latest `MaxInbox`; `Prune`, `Acknowledge` and the notification
mark interleave.

`TurnGate`: `Prompt` and `StartSubagent`; `Record` is a finding with its
sighting; `Stop` begins the hook, which reads what is unsurfaced (`ReadFindings`),
compares with the final message, and refuses or marks (`Mark`) in another
transaction. `Mark` takes every finding that the turn has by then, read or not,
as the update names the turn. A subagent has its parent's identity. Hooks may
`Fail`, which lets the agent go. A client delivers the next prompt when the Stop
hook has ended, so the turn is the same in both transactions.

`HookLink`: a hooks file is a sequence of handlers (`exact`, `loose`: accepted by
`handler_matches` though Codex lists it differently, `stale`, `foreign`, `odd`).
`LinkHooks` is the function of `link_hooks`: `Scanned` is one turn of the loop of
`remove_stale_owned_commands`, which begins again after each removal, and
`Completed` one turn of the loop over the specs;
`link` is the process: read, replace without a lock, list, read the version, write
by compare and swap with retries, verify on a fresh connection. `EditHooks` and
`EditConfig` are others: they write any small document, and add or take away any
trust. Groups are flattened: an emptied one goes.

`AppServer`: the server writes what it likes into a pipe, the reader thread moves
lines into a bounded queue and gives up when it is full or a line is too long,
`request` takes lines until its answer, the end or its deadline (`AfterLine`: a
malformed line or an error answer ends the connection, too), `Drop` kills and joins.

## Runs

`Requests` in the runs: two files `d/a`, `d/b` and their directory `d`, so that
requests can be equal, disjoint, narrower and wider. Deadlock is checked in
every `Ledger`, `Sessions` and `Fair` run but `Ledger_reused`. That one explores part
of the behaviours only (`DirectSpec`: no drafts, no failing commands), which is
enough for a counterexample, and a part without failing commands may stop. In
`Triage`, `Host` and `Gate` runs processes end and clocks and budgets are bounded, so a
behaviour may stop; their liveness properties say where it may not.

| Run | Instance | Shows |
|---|---|---|
| `Ledger_two` | 2 sessions that may end and return, 2 processes, `d/a` and `d`, 2 labels, `"none"` | `TypeOK`, `SnapshotsFresh`, `GrantBacked`, `PlaceKept`, `ImplementsLock` |
| `Ledger_three` | 3 sessions, 1 process, all three scopes | `MutualExclusion`, `NoOvertaking`, `ExpansionsClear` |
| `Ledger_widened` | a path named as a file, later as a directory | `ExpansionsClear` violated |
| `Ledger_released` | 1 session, `"wakers"` | `ReleasedStaysReleased` violated |
| `Ledger_reused` | 2 sessions, `"wakers"` | `MutualExclusion` violated |
| `Sessions_swept` | registry: 2 Codex sessions, 2 processes, 2 registrars, 1 sweep; coverage: 2 contexts, a start in each, a status | `TypeOK`, `CodexRowsStay`, `CompleteIsCurrent` |
| `Fair_both` | ledger: 2 sessions, 2 processes, 1 file; registry: 1 Claude session, 1 process, 2 commands, failing lookups; fairness | `EventuallyServed`, `AbandonedRowsGo` |
| `Sessions_listed` | 2 Claude sessions, 2 processes, 1 command | `RunningRowsStay` violated |
| `Triage_core` | the four instances of `MCTriage`, fairness | `TypeOK`, `OneOpenPerKey`, `CanonicalsEnd`, `OneTriager`, `ClaimsFollowRuns`, `ArtifactsSettle`, `RunsClose` |
| `Triage_raced` | the same without fairness | `LaunchesIntact` violated |
| `Host_parts` | the parts of `MCHost`, each alone, fairness | types and limits, `LinkConverges`, `MissingMeansLoose`, `ConflictsAreEdits`, `TrustedWhenReported`, `NoGap`, `LostToLater`, `EventsGoForward`, `FreshDirtIsHeld`; in the end: `MCPageCatchesUp`, `MCWaiterCatchesUp`, `MCStopsEnd`, `MCConnectionEnds`, `MCDirtSettles` |
| `Gate_raced` | an agent and its subagent, 2 findings | `SurfacedWasNamed` violated |

Bounds:

- `MaxClock` bounds the ages of queued work, 2 or 3: so each session can be
  earlier or later than each other one, and one can requeue. Other commands are
  unbounded. In `Ledger_two` and `Ledger_three` a wall clock reads 0 or 2 in any
  order, so it stands still, goes back behind ages that were given, and jumps over
  one; elsewhere it stands still.
- `Modulus` makes revisions wrap. A smaller modulus makes more compare-and-swaps
  succeed, so for the passing runs (modulus 1: the revision says only whether a
  row exists) the model does *more* than the code, and what holds for it holds
  for the code. The runs that expect a violation use moduli that no reachable
  revision exceeds (or, in `Ledger_widened`, one process at a time, where the
  revision never matters), so their counterexamples are behaviours of the code.
- One process in `Ledger_three`: commands of different sessions then do not
  overlap in time. Their overlap is checked with two sessions and two processes
  through `ImplementsLock`, from which `MutualExclusion`, `NoOvertaking` and
  `ExpansionsClear` follow; the theorems cover any number of both, for `"none"`.
- In the `Sessions` runs two processes are enough to be resumed on another one
  and to be superseded, and revisions wrap as in the ledger: modulus 1 compares
  the process alone, so `CodexRowsStay` does not even need the revision.
- Coverage: ages instead of times, and a clock that does not go back. `MaxCollect`
  stands for the sum of the timeouts of collecting, `MaxFlips` for changes of the
  host: one is enough to be wrong after a reading or after a write. One of the two
  processes may be hidden from the start. Registry and
  coverage are checked side by side: each behaviour is of one, the other stands
  still.
- Triage: the times keep the order `Grace < Deadline < Lease < Cooldown` (0, 1, 2,
  3 ticks); `MaxStale` is how long a hook lives, a tick, well above the real five
  seconds against 3600. The clock starts with the first run, since nothing before
  it depends on time. The four instances split what one could not hold: agents
  alone with three findings (a chain of duplicates needs three) and a reopening;
  two hooks and two runs of one finding, no child artifacts (clocks, leases, late
  workers); one hook and two runs of one finding, whose children may both commit,
  the older one late (`ArtifactsSettle` needs its exception there: without it, TLC
  finds the counterexample in this instance); one run of two findings with commits,
  handoffs and every kind of result file, and one fault or one move of an agent.
- Host: generations modulo 2, so that a stale label may look new; two requests of
  the page out at once, of which one waits for the mutex of the cache; two turns in a
  circle; an inbox of two; three messages and a clock that goes back once; hooks
  files of up to two handlers over two events, two edits, of which the first may be of
  that file and the second is of the configuration, two attempts (an edit for
  each attempt, which a conflict needs); two lines queued, one in the pipe; one file
  with two contents and one that cannot be hashed, two sessions, one of which looks at
  the status and updates its work, too, two changes or one change and one failure of
  git, scans up to one tick against a hold of two, no benign file (the theorem has
  any). That a scan is shorter than the hold (`MaxScan < Hold`) is assumed: a git
  command has ten seconds, the hold is ninety, but a worktree with many slow files
  could break it, and then the property says nothing.
- Symmetry on sessions, processes and labels, none of which is ordered; only in
  safety runs of the ledger and the registry.

Each property of a passing run has a mutant, an operator of the same module
marked `Mutant:` that changes one definition as a plausible bug would, under
which TLC finds the property violated.

### Fairness

`FairSpec` assumes that no process hangs (every external call has a timeout and
SQLite a busy timeout), that agents re-arm `wait` while queued, read their
messages, and end active work with `done`; that complete coverage and settled
dirt recur when the session polls (strong fairness: they may come and go); and
that crashes stop in the end. These are the conditions under which the project
documents `wait`; without the last two the code cannot and does not promise a
grant.

In `SessionRegistry`, registrars and commands end (timeouts again), some session
goes on issuing commands, so sweeps recur, and infinitely often some command's sweep
is neither interrupted nor unable to tell (strong fairness for all commands together:
a single one may fail for ever). A row without any process is never probed;
`AbandonedRowsGo` says nothing of it. `MCFair` states both kinds of fairness for the
two modules side by side.

In `Triage`, time passes, hooks keep firing and each ends (the client kills it
after five seconds). Nothing is assumed of workers and children: they may hang
for ever, and `RunsClose` must hold by heartbeat and lease.

In `MCHost` each part has its own: the server and the browser go on with their
loops and timers (a page that polls has an interval that is not waiting for
answers), `wait` goes on polling; hooks finish or fail, and agents end
their messages; the reader thread and the client take their steps and time
passes (the server owes nothing); sessions keep asking and scans end, as
`git` has a timeout.

## Findings

- `Ledger_widened`. Covering compares paths only, so the recursive scope `d`
  counts as covered by the exact scope `d`; the expansion takes the narrowing
  branch and skips every check. It needs a path that was claimed as a file
  before it existed.
- `Ledger_released`. A background wait re-inserts a row that `done` deleted
  between its first read and the second. The same stale first read can put back
  scopes that a `start` replaced.
- `Ledger_reused`. Revisions restart at 1 with a new row and the
  compare-and-swap does not name the row's id: a stale start relabels a queued
  row as active.

- `Sessions_listed`. The Claude inventory replaces all Claude rows without the
  guard that sweeps have: whoever registers between the listing and the
  transaction loses its row and its work, and the next session is granted the
  same scopes. Codex sessions do not have this hazard, as no listing replaces them:
  that they keep their rows is proved, but only if SessionStart hooks find the
  process of their session (`StartLookups = {TRUE}`). Should both lookups of a hook
  fail, it falls back on the process stored with the row, and may retire a session
  that runs elsewhere; no run shows that as a finding, as no text of the repository
  speaks of it.
- `Triage_raced`. A scheduler commits its run, and only later writes `run.json`,
  spawns the worker and adds its fingerprint. A second hook in between takes the
  open run without a worker for lost, whatever its age, and closes it; the worker
  then finds no active run, and the cooldown keeps the repository without triage
  for a day. Safety is not affected: `OneTriager` and `ClaimsFollowRuns` hold.
- `Gate_raced`. The Stop hook reads the findings of the turn, compares its message
  with them, and marks the whole turn in a later transaction. What a subagent records
  in between, or what only its own hook read, is marked, too: no message named it, and
  the gate never asks for it. For an agent without subagents it holds, which is proved.

`Ledger_released` and `Ledger_reused` need two processes of one session. With
one command per session at a time, both properties hold, and exclusion is proved
for that case.

## Proofs

All theorems are for arbitrary sets of sessions, processes, paths, labels and
requests, and unbounded revisions modulo any `Modulus`.

1. `ScopeFacts`: overlap is symmetric; what covers overlaps what the covered
   overlaps (`CoverSound`); if no overlap lies outside the existing coverage,
   an overlap with the request is an overlap with the existing scopes
   (`ExpansionSound`). The last two need `Consistent`: a path is named with the
   same kind by everybody. `Ledger_widened` shows that they fail without it.
2. `ScopeLockProofs`: `LockInv` is inductive for the lock. Exclusion alone is
   not: a waiter that keeps its ticket while it narrows must still come after
   every overlapping holder, so the invariant carries first come first served,
   and that all tickets are distinct and were issued.
3. `WorkLedgerProofs`: `TypeCorrect`, with one lemma per group of actions and
   `WriteRow`, `WriteProcess` for the two shapes of update. It holds for every
   `Concurrency`.
4. The second half of `WorkLedgerProofs` assumes `Concurrency = "none"`. `SafetyInv` strengthens
   `SnapshotsFresh` and `GrantBacked` by: at most one process per session; which
   code points belong to which command; and no grant remains with an agent that
   is gone or runs `done`. The reason it is needed: a snapshot stays fresh
   because only processes of the session write its row, and there is one;
   session end is the exception, and marks the process. `StepEffect` states once
   what any step may do to its session's row, grant and process, and
   `EffectKeeps` that this preserves the invariant; each action is then shown
   to have that effect. `QueuePlaceIsKept` follows since the preserved age is
   the row's own.
5. `WorkLedgerRefinement` assumes `Concurrency = "none"` and
   `Consistent(Requests)`. `SubmitAsks`, `UpdateReshapes` and `ReleaseLeaves`
   map steps to `Ask`, `Reshape`, `Leave`; all others stutter. The exclusion,
   order and expansion theorems are then the lock's, carried back.
6. `SessionRegistryProofs`: `RegistryInv` adds to the types that a process runs
   one session of its own client, and that a pending SessionStart names the
   process that runs its session unless that exited. The second is what makes
   supersession harmless; it needs `StartLookups = {TRUE}`, that SessionStart
   hooks find their process. If they fail twice, the fallback to the stored
   process can retire a session that runs elsewhere. Sweeps are harmless because
   a process that has exited runs nothing, and rows are compared.

7. `TriageProofs`: `TriageInv` is inductive for any schedulers, backlogs, batch
   limits and times in the assumed order. It joins the types, the two invariants of
   findings, `OneTriager`, `ClaimsFollowRuns` and three parts that these rest on:
   runs begin in order, not in the future, and have a batch (`RunsShape`); whoever
   works on a run has one, and no scheduler is ahead of the clock (`ProcessShape`);
   a claim lasts a lease from the start of its run (`Leases`). The last two are
   why a hook with an old clock releases nothing too early: its clock is not ahead,
   and the lease of an open run ends no sooner than the run needs it. Every step is
   one operation on findings (`FindingsMove`) and one move of the ledger
   (`LedgerMove`: it releases, sets a head, extends, closes or begins), and each
   part is kept by moves, not by actions. For `CanonicalsEnd`, a record that
   becomes a duplicate points to one that is none, so a set of duplicates that
   points only into itself would have done so before.
   `ArtifactsAlwaysSettle` says more than the property does at the moment it
   speaks of, so `SettleInv` speaks of all moments after the reconciliation. Call a
   finding fresh while it is pending and was never reopened. What a run has
   reconciled and is still fresh has no commit since its start, unless another run
   had it and launched its child (`CommitsSettle`); a fresh finding with a handoff
   file is in the batch of a run whose child was there and which has not reconciled
   it (`HandoffsSettle`). Both rest on the order in which a run goes on: it is
   launched once (`LaunchedOnce`), its child is there only from its launch on and
   has ended before the last reconciliation (`ChildRow`), and no step takes a
   worker back or reconciles a finding and leaves its artifact (`Advances`, shown
   for every step by `RunsAdvance`). No finding becomes fresh again (`RecordsAge`),
   so a reconciliation settles for good. The exception is needed: a child that
   outlives its killed worker may commit when the next run, which has the finding,
   too, has read the log for the last time.
8. `CoverageProofs`: `CoverageInv` says of a call what its evidence is worth:
   each fact it has seen is good or went bad at most `spent` ago (`SeenIsRecent`),
   the cached context's facts went bad at most the cache's age and `MaxCollect` ago
   (`CachedIsRecent`), and a process that was probed and is not in `unknown` could
   be probed at a moment of the call (`CallsAreHonest`). `Past` caps ages; the proof
   shows that the cap hides nothing.
9. `HostProofs`: every safety property of the parts in `MCHost`, for each part on
   its own and then, by `InstanceIsMadeOfParts`, for the instance TLC explores.
   - `WatchersInv`: one reader at a time fills the cache, and in each part an event
     is no newer than the cache, the cache no newer than a fill under way, the fill
     no newer than the ledger. Only the mutex gives the second.
   - `TurnGateInv`: the types, that only the main agent marks, and only while it
     stops. `AloneSurfacesNamed` assumes no subagents: then nobody records between the
     two transactions, so when the hook marks, its message names all that the turn has
     (`MarksOnlyNamed`). `Gate_raced` shows that the assumption is needed. Turns are at
     least two (`MaxTurns`), as one turn would be its own successor.
   - `AppServerInv`: the numbers of the lines run on from the client over the queue
     and the pipe to the server, until the reader has given up; then the pipe no
     longer counts. Numbers are modulo `Numbers`, and the proof shows that those in
     use at one time are less than a circle apart.
   - `InboxInv`: the wall clock is at most the latest one. A transaction that drops
     the oldest message of a full inbox leaves `MaxInbox` others at least as late,
     and what was sent stays sent, so that remains true.
   - `DirtInv`: the age of a row in `observed` exceeds the time since its content was
     first read by no more than the length of a scan, and what a scan holds for
     settled when it decides was first read `LongAgo`: `Hold` less a scan, at which
     `readAt` is capped.
   - `LinkInv`: a document about to be written is canonical and keeps the foreign
     handlers of what was read; what is to be trusted has a key for each event;
     attempts outnumber the writes of the configuration by others by one at most.
     What `LinkHooks` computes is proved for documents of any length: one turn of the loop removes one unwanted handler
     of ours (`Scanned`), so after as many turns as the document has handlers
     none is left. As induction cannot be cited, it is by least counterexample:
     the set of turns that fail, were it not empty, had a smallest element, and the
     turn before it did not fail.

Only model-checked: the liveness properties (`EventuallyServed`,
`AbandonedRowsGo`, `RunsClose`, `MCPageCatchesUp`, `MCWaiterCatchesUp`,
`MCStopsEnd`, `MCConnectionEnds`, `MCDirtSettles`), since liveness under fairness is
out of the prover's reach, and the violations. Every invariant and every action
property of a passing run is the statement of a theorem. What the proofs assume is
in the assumptions named above; nothing else is taken on trust.

## Not modelled, and the plan

What could be added, in order of what it would show:

1. Refinements that say less than the modules they would join: from the waiter of
   `Watchers` to the polls of `WorkLedger`, and from `Inbox` to its `unread`. From
   `Coverage` to the free Boolean of `WorkLedger` there is nothing to show.
2. Baselines: which dirt a session's own work left, after a crash between the
   submission and `replace_baselines`; scopes in `DirtSettling`.
3. Triage: a switch or branch change while a run is open, and workers whose
   liveness is unknown; findings that are deferred each day stay the oldest of
   each batch.
4. Callsigns, which are unique and follow a session through supersession; touched
   paths and the nudge that reports clean scopes; delegates.
5. A process that inherits the output of codex app-server and outlives it: the
   join in `Drop` then has no bound. `MCConnectionEnds` is of a server that leaves
   no such process.

Known places of the code that no property covers, because no text of the
repository says what should happen: an `ack` without an id also acknowledges what
arrived after the list that was read (`src/lib.rs`); a finding reopened by an
agent is resolved again from the same commit by the reconciliation of the same run,
and an old handoff file settles a reopened finding (`triage.rs`); what a child
commits when the last reconciliation of the open run is over is never
reconciled, as a later run looks only at commits after its own start (`triage.rs`); two waiters of one
area wake each other by saving rows that did not change (`store_work.rs`); a
subagent that is refused to stop is no longer listed; a notification mark is set
before the hook's output is delivered (`runtime.rs`); one failed hook event that
never recurs keeps coverage incomplete (`inventory.rs`); a trust that fails leaves
the hooks file written (`run_link`).

Left out for good: text rendering, argument parsing, schema migration (they run
before or after the protocol), layout and filters of the page, parsing of JSONC
and of listings, and process probing itself (operating-system calls; its answers
are inputs).
