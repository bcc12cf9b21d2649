----------------------------- MODULE WorkLedger -----------------------------
(***************************************************************************)
(* Work arbitration of ai-coord in one repository: the work_items table of *)
(* the shared SQLite ledger and the command-line processes (draft, start,  *)
(* start --draft, wait, done) that read it, spend seconds on evidence, and *)
(* write it back in a later transaction.                                   *)
(*                                                                         *)
(* Source: src/work.rs, src/state/store_work.rs, src/coordinator/mod.rs.   *)
(* Each transaction is one action; whatever a command does between two     *)
(* transactions is an interleaving point.                                  *)
(***************************************************************************)
EXTENDS Scopes, FiniteSets

CONSTANTS
  Sessions,     \* agent sessions, identified by client and session id
  Processes,    \* slots for ai-coord processes: commands, background wakers
  Nobody,       \* no owner (of a free slot), no label (of a missing row)
  Concurrency,  \* which processes of one session may run at the same time:
                \* "none", "wakers" (waits beside one command) or "any"
  Requests,     \* the sets of scopes that agents name in draft and start
  Labels,       \* the labels they give
  Ending,       \* the sessions that may end while the model runs
  Readings,     \* what a wall clock may read, in any order
  MaxClock,     \* bound on queue ages
  Modulus       \* bound on row revisions, counted modulo this number

ASSUME LedgerAssumption ==
  /\ Nobody \notin Sessions \cup Labels
  /\ Concurrency \in {"none", "wakers", "any"}
  /\ Requests \subseteq (SUBSET Scope) \ {{}}
  /\ Ending \subseteq Sessions
  /\ Readings \subseteq Nat /\ MaxClock \in Nat
  /\ Modulus \in Nat \ {0}

VARIABLES
  registered,   \* sessions with a row in table sessions
  work,         \* work[s]: the row of session s in work_items and work_scopes
  clock,        \* metadata 'submission_clock_micros'
  unread,       \* sessions with an unacknowledged coordination message
  proc,         \* proc[p]: what process p is doing and what it has read
  granted       \* granted[s]: the scopes the agent of s was told it may edit

vars == <<registered, work, clock, unread, proc, granted>>

-----------------------------------------------------------------------------
(* Rows and processes *)

States == {"none", "draft", "queued", "active"}
Reasons == {"none", "coverage", "dirty", "overlap", "waiter"}
ScopeSets == Requests \cup {{}}

\* rev 0 is the revision of a row that does not exist, age 0 the age of a row
\* without submitted_at.
Rows == [state : States, reason : Reasons, scopes : ScopeSets,
         label : Labels \cup {Nobody}, age : Nat, rev : Nat]

NoWork == [state |-> "none", reason |-> "none", scopes |-> {},
           label |-> Nobody, age |-> 0, rev |-> 0]

Commands == {"none", "draft", "start", "promote", "wait", "done"}
Steps == {"idle", "save", "gather", "commit", "look", "scan", "delete",
          "tell"}

ProcessStates ==
  [owner : Sessions \cup {Nobody}, pc : Steps, cmd : Commands,
   req : ScopeSets, label : Labels \cup {Nobody}, seen : Rows,
   covered : BOOLEAN, waiters : SUBSET Sessions, orphan : BOOLEAN]

Running(s, cmd, pc, req, label, seen) ==
  [owner |-> s, pc |-> pc, cmd |-> cmd, req |-> req, label |-> label,
   seen |-> seen, covered |-> FALSE, waiters |-> {}, orphan |-> FALSE]

Idle == Running(Nobody, "none", "idle", {}, Nobody, NoWork)

Active(s) == work[s].state = "active"
Queued(s) == work[s].state = "queued"

NextRevision(rev) == (rev % Modulus) + 1

Draft(scopes, label, rev) ==
  [state |-> "draft", reason |-> "none", scopes |-> scopes,
   label |-> label, age |-> 0, rev |-> rev]

Submitted(reason, scopes, label, age, rev) ==
  [state |-> IF reason = "none" THEN "active" ELSE "queued",
   reason |-> reason, scopes |-> scopes, label |-> label,
   age |-> age, rev |-> rev]

-----------------------------------------------------------------------------
(* Arbitration, as submit and update_active decide it *)

\* Mutant: blocked only by work that covers the whole request.
ActiveCovers(s, scopes) ==
  {o \in Sessions \ {s} : Active(o) /\ ScopesCover(work[o].scopes, scopes)}

ActiveBlockers(s, scopes) ==
  {o \in Sessions \ {s} : Active(o) /\ AnyOverlap(scopes, work[o].scopes)}

\* Mutant: every intersecting waiter blocks, whoever came first.
WaitingBlockers(s, scopes, age) ==
  {o \in Sessions \ {s} : Queued(o) /\ AnyOverlap(scopes, work[o].scopes)}

EarlierBlockers(s, scopes, age) ==
  {o \in Sessions \ {s} :
     Queued(o) /\ work[o].age < age /\ AnyOverlap(scopes, work[o].scopes)}

\* Mutant: an expansion overtakes the waiters of its new area.
ExpansionHolders(s, requested, existing) ==
  {o \in Sessions \ {s} :
     /\ Active(o)
     /\ OverlapsOutsideCoverage(requested, work[o].scopes, existing) # {}}

ExpansionBlockers(s, requested, existing) ==
  {o \in Sessions \ {s} :
     /\ Active(o) \/ Queued(o)
     /\ OverlapsOutsideCoverage(requested, work[o].scopes, existing) # {}}

\* Why a submission is queued, in the order the code tests; "none" grants it.
BlockedReason(s, scopes, age, covered, fresh) ==
  CASE ~ covered -> "coverage"
    [] covered /\ fresh -> "dirty"
    [] covered /\ ~ fresh /\ ActiveBlockers(s, scopes) # {} -> "overlap"
    [] covered /\ ~ fresh /\ ActiveBlockers(s, scopes) = {}
         /\ EarlierBlockers(s, scopes, age) # {} -> "waiter"
    [] OTHER -> "none"

\* Mutants: any change of scopes takes a new age; an expansion keeps its age.
KeepsAgeUnchanged(cmd, seen, scopes) ==
  cmd # "promote" /\ seen.state = "queued" /\ seen.scopes = scopes

\* The age submitted before is kept by a queued row that asks for no more.
KeepsAge(cmd, seen, scopes) ==
  /\ cmd # "promote"
  /\ seen.state = "queued"
  /\ ScopesCover(seen.scopes, scopes)

ShouldNotify(seen, scopes) ==
  seen.reason # "overlap" \/ seen.scopes # scopes

\* Mutant: the row is not compared with the one that was read.
SubmissionUnchecked(cmd, seen, current) ==
  (cmd = "promote") <=> (current.state = "draft")

\* The compare-and-swap of a submission: the row has the revision that was
\* read before the evidence was gathered (0: there was and is no row).
SubmissionCurrent(cmd, seen, current) ==
  /\ (cmd = "promote") <=> (current.state = "draft")
  /\ current.rev = seen.rev

\* Mutant: the row that was active when it was read is taken to be active.
UpdateUnchecked(seen, current) == seen.state = "active"

\* The guard of a scope update of active work.
UpdateCurrent(seen, current) ==
  /\ current.state = "active"
  /\ current.rev = seen.rev
  /\ current.scopes = seen.scopes

-----------------------------------------------------------------------------
(* Process steps *)

At(p, pc) == proc[p].pc = pc

Owner(p) == proc[p].owner

Goto(p, pc) == proc' = [proc EXCEPT ![p].pc = pc]

Finish(p) == proc' = [proc EXCEPT ![p] = Idle]

\* The agent of session s starts a process.
Begin(p, s, cmd, pc, req, label, seen) ==
  /\ At(p, "idle")
  /\ \A q \in Processes :
       Owner(q) = s =>
         \/ Concurrency = "any"
         \/ Concurrency = "wakers" /\ "wait" \in {cmd, proc[q].cmd}
  /\ proc' = [proc EXCEPT ![p] = Running(s, cmd, pc, req, label, seen)]

\* A refused wait polls again, or its time is up.
PollAgain(p) ==
  LET polling == Running(Owner(p), "wait", "look", {}, Nobody, NoWork) IN
    \/ proc' = [proc EXCEPT
                  ![p] = [polling EXCEPT !.orphan = proc[p].orphan]]
    \/ Finish(p)

\* The agent reads the outcome of process p; the agent of a session that
\* ended since the process began reads nothing.
Told(p, scopes) ==
  granted' = [granted EXCEPT
                ![Owner(p)] = IF proc[p].orphan THEN @ ELSE scopes]

Init ==
  /\ registered = {}
  /\ work = [s \in Sessions |-> NoWork]
  /\ clock = 0
  /\ unread = {}
  /\ proc = [p \in Processes |-> Idle]
  /\ granted = [s \in Sessions |-> {}]

\* draft: refuses submitted work, registers the session, then replaces the
\* stored draft in one transaction that looks again.
DraftOpen(p, s, scopes, label) ==
  /\ work[s].state \in {"none", "draft"}
  /\ registered' = registered \cup {s}
  /\ Begin(p, s, "draft", "save", scopes, label, NoWork)
  /\ UNCHANGED <<work, clock, unread, granted>>

DraftSave(p) ==
  LET s == Owner(p) IN
    /\ At(p, "save")
    /\ work[s].state \in {"none", "draft"}
    /\ s \in registered
    /\ work' = [work EXCEPT
                  ![s] = Draft(proc[p].req, proc[p].label,
                               NextRevision(work[s].rev))]
    /\ Finish(p)
    /\ UNCHANGED <<registered, clock, unread, granted>>

\* start: refuses a draft and registers the session.  While a command is
\* running its agent may not edit, whatever it was granted before.
StartOpen(p, s, scopes, label) ==
  /\ work[s].state # "draft"
  /\ registered' = registered \cup {s}
  /\ granted' = [granted EXCEPT ![s] = {}]
  /\ Begin(p, s, "start", "gather", scopes, label, NoWork)
  /\ UNCHANGED <<work, clock, unread>>

\* start --draft: the draft read here is the one that is promoted.
PromoteOpen(p, s) ==
  /\ work[s].state = "draft"
  /\ registered' = registered \cup {s}
  /\ Begin(p, s, "promote", "gather", work[s].scopes, work[s].label, work[s])
  /\ UNCHANGED <<work, clock, unread, granted>>

\* Mutant: a command keeps the row it read first.
GatherOnce(p, covered) ==
  /\ At(p, "gather")
  /\ proc[p].cmd = "promote" \/ work[Owner(p)].state # "draft"
  /\ proc' = [proc EXCEPT ![p].pc = "commit", ![p].covered = covered]
  /\ UNCHANGED <<registered, work, clock, unread, granted>>

\* Provider inventory and Git dirt are collected, and start_direct reads the
\* row that the transaction will be compared with.
Gather(p, covered) ==
  LET s == Owner(p) IN
    /\ At(p, "gather")
    /\ proc[p].cmd = "promote" \/ work[s].state # "draft"
    /\ proc' = [proc EXCEPT
                  ![p].pc = "commit",
                  ![p].covered = covered,
                  ![p].seen = IF proc[p].cmd = "promote" THEN @ ELSE work[s]]
    /\ UNCHANGED <<registered, work, clock, unread, granted>>

UpdatesActive(p) ==
  proc[p].cmd # "promote" /\ proc[p].seen.state = "active"

\* wait returns on a grant and on missing coverage; every other refusal is
\* looked at again after the poll interval.
AfterSubmission(p, reason) ==
  IF proc[p].cmd = "wait" /\ reason \notin {"none", "coverage"}
  THEN PollAgain(p) ELSE Finish(p)

\* next_submission_time, for a wall clock that reads now: it may stand still,
\* go back and jump.
\* Mutant: the wall clock alone is the age.
AllocatedAsRead(now) == now

Allocated(now) == IF now > clock THEN now ELSE clock + 1

\* The submission transaction, now being read before it.  fresh: relevant
\* unattributed dirt that has not settled.
SubmitAt(p, fresh, now) ==
  LET s == Owner(p)
      cmd == proc[p].cmd
      seen == proc[p].seen
      scopes == proc[p].req
      keep == KeepsAge(cmd, seen, scopes)
      age == IF keep THEN seen.age ELSE Allocated(now)
      reason == BlockedReason(s, scopes, age, proc[p].covered, fresh)
  IN
    /\ At(p, "commit")
    /\ ~ UpdatesActive(p)
    /\ SubmissionCurrent(cmd, seen, work[s])
    /\ s \in registered
    /\ keep \/ age <= MaxClock
    /\ clock' = IF keep THEN clock ELSE age
    /\ work' = [work EXCEPT
                  ![s] = Submitted(reason, scopes, proc[p].label, age,
                                   NextRevision(@.rev))]
    /\ unread' = IF ShouldNotify(seen, scopes)
                 THEN unread \cup ActiveBlockers(s, scopes) ELSE unread
    /\ IF reason = "none" THEN Told(p, scopes) ELSE UNCHANGED granted
    /\ AfterSubmission(p, reason)
    /\ UNCHANGED registered

Submit(p, fresh) == \E now \in Readings : SubmitAt(p, fresh, now)

\* Re-running start with the scopes already active: READY without another
\* look at the ledger, or, for a new label, a save guarded by the revision.
Reconfirm(p) ==
  /\ At(p, "commit")
  /\ UpdatesActive(p)
  /\ proc[p].seen.scopes = proc[p].req
  /\ proc[p].seen.label = proc[p].label
  /\ Told(p, proc[p].req)
  /\ Finish(p)
  /\ UNCHANGED <<registered, work, clock, unread>>

Relabel(p) ==
  LET s == Owner(p)
      seen == proc[p].seen
  IN
    /\ At(p, "commit")
    /\ UpdatesActive(p)
    /\ seen.scopes = proc[p].req
    /\ seen.label # proc[p].label
    /\ work[s].rev = seen.rev
    /\ work' = [work EXCEPT
                  ![s] = Submitted("none", seen.scopes, proc[p].label,
                                   seen.age, NextRevision(@.rev))]
    /\ Told(p, proc[p].req)
    /\ Finish(p)
    /\ UNCHANGED <<registered, clock, unread>>

\* A scope update of active work.  Narrowing needs no evidence; anything else
\* needs coverage, settled dirt and no contender in the newly requested area.
UpdateClear(p, fresh) ==
  LET existing == proc[p].seen.scopes IN
    \/ ScopesCover(existing, proc[p].req)
    \/ /\ proc[p].covered
       /\ ~ fresh
       /\ ExpansionBlockers(Owner(p), proc[p].req, existing) = {}

UpdateScopes(p, fresh) ==
  LET s == Owner(p)
      existing == proc[p].seen.scopes
      scopes == proc[p].req
      released == {o \in Sessions : /\ Queued(o)
                                    /\ AnyOverlap(existing, work[o].scopes)
                                    /\ ~ AnyOverlap(scopes, work[o].scopes)}
  IN
    /\ At(p, "commit")
    /\ UpdatesActive(p)
    /\ existing # scopes
    /\ UpdateCurrent(proc[p].seen, work[s])
    /\ UpdateClear(p, fresh)
    /\ work' = [work EXCEPT
                  ![s] = Submitted("none", scopes, proc[p].label, @.age,
                                   NextRevision(@.rev))]
    /\ unread' = unread \cup released
    /\ Told(p, scopes)
    /\ Finish(p)
    /\ UNCHANGED <<registered, clock>>

\* Mutant: a refused update reports the scopes that were asked for.
RefuseAsReady(p, fresh) ==
  /\ At(p, "commit")
  /\ UpdatesActive(p)
  /\ UpdateCurrent(proc[p].seen, work[Owner(p)])
  /\ ~ UpdateClear(p, fresh)
  /\ Finish(p)
  /\ Told(p, proc[p].req)
  /\ UNCHANGED <<registered, work, clock, unread>>

RefuseUpdate(p, fresh) ==
  LET existing == proc[p].seen.scopes IN
    /\ At(p, "commit")
    /\ UpdatesActive(p)
    /\ existing # proc[p].req
    /\ UpdateCurrent(proc[p].seen, work[Owner(p)])
    /\ ~ UpdateClear(p, fresh)
    /\ IF proc[p].cmd = "wait"
       THEN PollAgain(p) /\ UNCHANGED granted
       ELSE Finish(p) /\ Told(p, existing)
    /\ UNCHANGED <<registered, work, clock, unread>>

\* wait: each turn of the loop looks at the row and at the inbox, and
\* resubmits what it found there.
WaitOpen(p, s) ==
  /\ work[s].state # "none"
  /\ Begin(p, s, "wait", "look", {}, Nobody, NoWork)
  /\ UNCHANGED <<registered, work, clock, unread, granted>>

WaitReady(p) ==
  /\ At(p, "look")
  /\ Active(Owner(p))
  /\ Told(p, work[Owner(p)].scopes)
  /\ Finish(p)
  /\ UNCHANGED <<registered, work, clock, unread>>

WaitReleased(p) ==
  /\ At(p, "look")
  /\ work[Owner(p)].state = "none"
  /\ Told(p, {})
  /\ Finish(p)
  /\ UNCHANGED <<registered, work, clock, unread>>

WaitInterrupted(p) ==
  /\ At(p, "look")
  /\ Queued(Owner(p))
  /\ Owner(p) \in unread
  /\ Finish(p)
  /\ UNCHANGED <<registered, work, clock, unread, granted>>

WaitArbitrate(p) ==
  LET s == Owner(p) IN
    /\ At(p, "look")
    /\ Queued(s)
    /\ s \notin unread
    /\ proc' = [proc EXCEPT ![p].pc = "gather",
                            ![p].req = work[s].scopes,
                            ![p].label = work[s].label]
    /\ UNCHANGED <<registered, work, clock, unread, granted>>

\* done: reads its row and then the queue in two reads, deletes whatever row
\* is there, and tells the sessions it found waiting.
DoneOpen(p, s) ==
  /\ granted' = [granted EXCEPT ![s] = {}]
  /\ IF Active(s) THEN Begin(p, s, "done", "scan", {}, Nobody, work[s])
                  ELSE Begin(p, s, "done", "delete", {}, Nobody, NoWork)
  /\ UNCHANGED <<registered, work, clock, unread>>

DoneScan(p) ==
  /\ At(p, "scan")
  /\ proc' = [proc EXCEPT
                ![p].pc = "delete",
                ![p].seen = NoWork,
                ![p].waiters =
                  {o \in Sessions :
                     /\ Queued(o)
                     /\ AnyOverlap(proc[p].seen.scopes, work[o].scopes)}]
  /\ UNCHANGED <<registered, work, clock, unread, granted>>

DoneDelete(p) ==
  LET s == Owner(p) IN
    /\ At(p, "delete")
    /\ work' = [work EXCEPT ![s] = NoWork]
    /\ IF work[s].state # "none" /\ proc[p].waiters # {}
       THEN Goto(p, "tell") ELSE Finish(p)
    /\ UNCHANGED <<registered, clock, unread, granted>>

DoneTell(p) ==
  /\ At(p, "tell")
  /\ unread' = unread \cup proc[p].waiters
  /\ Finish(p)
  /\ UNCHANGED <<registered, work, clock, granted>>

\* An error return or the death of the process.
Abort(p) ==
  /\ ~ At(p, "idle")
  /\ Finish(p)
  /\ UNCHANGED <<registered, work, clock, unread, granted>>

-----------------------------------------------------------------------------
(* The sessions themselves *)

\* A SessionStart hook registers (or re-registers) a session.
Register(s) ==
  /\ s \notin registered
  /\ registered' = registered \cup {s}
  /\ UNCHANGED <<work, clock, unread, proc, granted>>

\* SessionEnd, or a process found dead: the row goes and, by foreign key, the
\* work with it.  Its messages stay, as they do not refer to the row.  Processes
\* of the session may live on without a reader.
SessionEnd(s) ==
  /\ s \in registered \cap Ending
  /\ registered' = registered \ {s}
  /\ work' = [work EXCEPT ![s] = NoWork]
  /\ granted' = [granted EXCEPT ![s] = {}]
  /\ proc' = [p \in Processes |->
                IF Owner(p) = s THEN [proc[p] EXCEPT !.orphan = TRUE] ELSE proc[p]]
  /\ UNCHANGED <<clock, unread>>

\* The agent acknowledges its inbox.
Acknowledge(s) ==
  /\ s \in unread
  /\ unread' = unread \ {s}
  /\ UNCHANGED <<registered, work, clock, proc, granted>>

Commit(p) ==
  \/ \E fresh \in BOOLEAN :
       Submit(p, fresh) \/ UpdateScopes(p, fresh) \/ RefuseUpdate(p, fresh)
  \/ Reconfirm(p)
  \/ Relabel(p)

Step(p) ==
  \/ DraftSave(p)
  \/ \E covered \in BOOLEAN : Gather(p, covered)
  \/ Commit(p)
  \/ WaitReady(p) \/ WaitReleased(p) \/ WaitInterrupted(p)
  \/ WaitArbitrate(p)
  \/ DoneScan(p) \/ DoneDelete(p) \/ DoneTell(p)
  \/ Abort(p)

Open(p, s) ==
  \/ \E scopes \in Requests, label \in Labels :
       DraftOpen(p, s, scopes, label) \/ StartOpen(p, s, scopes, label)
  \/ PromoteOpen(p, s) \/ WaitOpen(p, s) \/ DoneOpen(p, s)

Next ==
  \/ \E p \in Processes : Step(p) \/ \E s \in Sessions : Open(p, s)
  \/ \E s \in Sessions : Register(s) \/ SessionEnd(s) \/ Acknowledge(s)

Spec == Init /\ [][Next]_vars

(***************************************************************************)
(* Fairness.  No process hangs: Git, provider probes and SQLite's busy     *)
(* handler all time out, so each takes its next step or aborts, and aborts *)
(* stop in the end.  The agent of a session re-arms wait while it is       *)
(* queued, reads its messages and is done in the end with active work.     *)
(* Coverage and dirt may come and go for ever, but now and then they are   *)
(* complete and settled when the session polls: strong fairness.           *)
(***************************************************************************)
Fair(s) ==
  /\ WF_vars(\E p \in Processes : Queued(s) /\ WaitOpen(p, s))
  /\ SF_vars(\E p \in Processes : Owner(p) = s /\ Gather(p, TRUE))
  /\ SF_vars(\E p \in Processes :
                Owner(p) = s /\ proc[p].covered /\ Submit(p, FALSE))
  /\ SF_vars(\E p \in Processes : Active(s) /\ DoneOpen(p, s))
  /\ WF_vars(Acknowledge(s))

FairSpec ==
  /\ Spec
  /\ \A p \in Processes : WF_vars(Step(p))
  /\ \A s \in Sessions : Fair(s)
  /\ <>[][~ \E p \in Processes : Abort(p)]_vars

=============================================================================
