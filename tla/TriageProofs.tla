---------------------------- MODULE TriageProofs ----------------------------
(***************************************************************************)
(* For any number of findings, hooks, runs and agents, and whatever is     *)
(* killed between two steps: no two open records share a fingerprint,      *)
(* canonicals end, at most one run is open, and claims follow the runs.    *)
(***************************************************************************)
EXTENDS Triage, WellFoundedInduction, TLAPS

-----------------------------------------------------------------------------
(* Findings: what any operation on them preserves *)

FindingsInv == FindingsTypeOK /\ OneOpenPerKey /\ CanonicalsEnd

\* Every operation on findings, with every terminal state to resolve to.
FindingsStep ==
  \/ UNCHANGED findings
  \/ \E key \in Keys : Add(key)
  \/ \E f : HandOff(f) \/ Reopen(f)
  \/ \E f, state, canonical : Resolve(f, state, canonical)

\* Only records are written: an identifier without a row changes nothing.
LEMMA OnlyRecords ==
  ASSUME FindingsInv, NEW f, f \notin FindingIds, NEW row
  PROVE  [findings EXCEPT ![f] = row] = findings
BY DEF FindingsInv, FindingsTypeOK

\* Findings that do not change keep what holds of them.
LEMMA SameKeeps ==
  ASSUME FindingsInv, UNCHANGED findings
  PROVE  FindingsInv'
BY DEF FindingsInv, FindingsTypeOK, OneOpenPerKey, CanonicalsEnd, Duplicates, Exists, IsOpen

\* A new record has a fingerprint that no open one has.
LEMMA AddKeeps ==
  ASSUME FindingsInv, NEW key \in Keys, Add(key)
  PROVE  FindingsInv'
<1> USE DEF FindingsInv, FindingsTypeOK, OneOpenPerKey, CanonicalsEnd, Duplicates, Exists, IsOpen
<1>1. CASE UNCHANGED findings
  BY <1>1, SameKeeps
<1>2. ASSUME \A f \in FindingIds : ~(IsOpen(f) /\ findings[f].key = key),
             NEW f \in FindingIds, ~Exists(f),
             findings' = [findings EXCEPT ![f] = NewRow(key)]
      PROVE  FindingsInv'
  <2>1. NewRow(key) \in FindingRows /\ NewRow(key) # Blank
    BY FindingsAssumption DEF NewRow, FindingRows, Blank, Open
  <2>2. FindingsTypeOK'
    BY <1>2, <2>1 DEF NewRow, NoFinding, FindingIds
  <2>3. OneOpenPerKey'
    BY <1>2 DEF NewRow, Open, Blank
  <2>4. Duplicates' = Duplicates
    BY <1>2 DEF NewRow, Blank
  <2>5. \A g \in Duplicates : findings'[g] = findings[g]
    BY <1>2 DEF Blank
  <2>6. CanonicalsEnd'
    BY <2>4, <2>5
  <2> QED
    BY <2>2, <2>3, <2>6
<1> QED
  BY <1>1, <1>2 DEF Add

\* A record that is handed off stays open, with its fingerprint.
LEMMA HandOffKeeps ==
  ASSUME FindingsInv, NEW f, HandOff(f)
  PROVE  FindingsInv'
<1> USE DEF FindingsInv, FindingsTypeOK, OneOpenPerKey, CanonicalsEnd, Duplicates, Exists, IsOpen
<1>1. CASE f \notin FindingIds
  <2>1. PICK row : findings' = [findings EXCEPT ![f] = row]
    BY DEF HandOff
  <2> QED
    BY <1>1, <2>1, OnlyRecords, SameKeeps
<1>2. CASE f \in FindingIds
  <2>1. findings[f] \in FindingRows /\ findings[f].state = "pending"
    BY <1>2 DEF HandOff, CanHandOff, Blank
  <2>2. findings' = [findings EXCEPT ![f] = [findings[f] EXCEPT !.state = "handed-off"]]
    BY <1>2 DEF HandOff
  <2>3. [findings[f] EXCEPT !.state = "handed-off"] \in FindingRows
    BY <2>1 DEF FindingRows, Open
  <2>4. FindingsTypeOK'
    BY <1>2, <2>1, <2>2, <2>3 DEF FindingRows, Blank
  <2>5. OneOpenPerKey'
    BY <1>2, <2>1, <2>2 DEF FindingRows, Open
  <2>6. Duplicates' = Duplicates /\ \A g \in Duplicates : findings'[g] = findings[g]
    BY <1>2, <2>1, <2>2 DEF FindingRows
  <2>7. CanonicalsEnd'
    BY <2>6
  <2> QED
    BY <2>4, <2>5, <2>7
<1> QED
  BY <1>1, <1>2

\* A record is reopened only if no other open one has its fingerprint; it is no
\* duplicate any more, and the others keep their canonicals.
LEMMA ReopenKeeps ==
  ASSUME FindingsInv, NEW f, Reopen(f)
  PROVE  FindingsInv'
<1> USE DEF FindingsInv, FindingsTypeOK, OneOpenPerKey, CanonicalsEnd, Duplicates, Exists, IsOpen
<1>1. CASE f \notin FindingIds
  <2>1. PICK row : findings' = [findings EXCEPT ![f] = row]
    <3>1. findings' = [findings EXCEPT ![f] = [findings[f] EXCEPT
                        !.state = "pending", !.canonical = NoFinding, !.reopened = @ + 1]]
      BY DEF Reopen
    <3> QED
      BY <3>1
  <2> QED
    BY <1>1, <2>1, OnlyRecords, SameKeeps
<1>2. CASE f \in FindingIds
  <2> DEFINE row == [findings[f] EXCEPT !.state = "pending", !.canonical = NoFinding,
                                        !.reopened = @ + 1]
  <2>1. findings[f] \in FindingRows /\ findings[f].state \in Terminal
    BY <1>2 DEF Reopen, Blank, Terminal
  <2>2. findings' = [findings EXCEPT ![f] = row]
    BY <1>2 DEF Reopen
  <2>3. findings[f].reopened + 1 \in 0 .. MaxReopens
    BY <2>1, FindingsAssumption DEF FindingRows, Reopen
  <2>4. row \in FindingRows /\ row.state = "pending" /\ row.canonical = NoFinding
        /\ row.key = findings[f].key
    BY <2>1, <2>3 DEF FindingRows, Open
  <2>5. FindingsTypeOK'
    BY <1>2, <2>2, <2>4 DEF FindingRows, Blank, NoFinding, FindingIds
  <2>6. OneOpenPerKey'
    BY <1>2, <2>2, <2>4 DEF Reopen, HasOpenPeer
  <2>7. Duplicates' \subseteq Duplicates /\ \A g \in Duplicates' : findings'[g] = findings[g]
    BY <1>2, <2>2, <2>4
  <2>8. CanonicalsEnd'
    BY <2>7
  <2> QED
    BY <2>5, <2>6, <2>8
<1> QED
  BY <1>1, <1>2

\* A record that becomes a duplicate points to one that is none at that moment:
\* a set with both of them has that one, which is no duplicate.
LEMMA ResolveKeeps ==
  ASSUME FindingsInv, NEW f, NEW state, NEW canonical, Resolve(f, state, canonical)
  PROVE  FindingsInv'
<1> USE DEF FindingsInv, FindingsTypeOK, OneOpenPerKey, CanonicalsEnd, Duplicates, Exists, IsOpen
<1>1. CASE f \notin FindingIds
  <2>1. PICK row : findings' = [findings EXCEPT ![f] = row]
    <3>1. findings' = [findings EXCEPT ![f] = [findings[f] EXCEPT !.state = state,
                                                                  !.canonical = canonical]]
      BY DEF Resolve
    <3> QED
      BY <3>1
  <2> QED
    BY <1>1, <2>1, OnlyRecords, SameKeeps
<1>2. CASE f \in FindingIds
  <2> DEFINE row == [findings[f] EXCEPT !.state = state, !.canonical = canonical]
  <2>1. findings[f] \in FindingRows /\ state \in Terminal /\ findings[f].state \in Open
        /\ CanonicalOK(f, state, canonical)
    BY <1>2 DEF Resolve, CanResolve, Blank, Open
  <2>2. findings' = [findings EXCEPT ![f] = row]
    BY <1>2 DEF Resolve
  <2>3. canonical \in FindingIds \cup {NoFinding} /\ canonical # f
        /\ (state = "duplicate") = (canonical # NoFinding)
    BY <1>2, <2>1 DEF CanonicalOK, NoFinding, FindingIds
  <2>4. row \in FindingRows /\ row.state = state /\ row.canonical = canonical
    BY <2>1, <2>3 DEF FindingRows
  <2>5. FindingsTypeOK'
    BY <1>2, <2>2, <2>3, <2>4 DEF FindingRows, Blank
  <2>6. OneOpenPerKey'
    BY <1>2, <2>1, <2>2, <2>4 DEF Open, Terminal
  <2>7. \A g \in FindingIds \ {f} : findings'[g] = findings[g]
    BY <2>2
  <2>8. f \notin Duplicates /\ findings'[f] = row
    BY <1>2, <2>1, <2>2 DEF Open
  <2>9. CanonicalsEnd'
    <3> SUFFICES ASSUME NEW S \in (SUBSET Duplicates') \ {{}}
                 PROVE  \E g \in S : findings'[g].canonical \notin S
      OBVIOUS
    <3>1. S \ {f} \subseteq Duplicates
      BY <2>7
    <3>2. CASE f \notin S
      BY <2>7, <3>1, <3>2
    <3>3. CASE f \in S
      <4>1. state = "duplicate"
        BY <2>4, <2>8, <3>3
      <4>2. canonical \in FindingIds /\ canonical \notin Duplicates /\ canonical # f
        BY <2>1, <4>1 DEF CanonicalOK
      <4>3. canonical \notin S
        BY <3>1, <4>2
      <4>4. findings'[f].canonical = canonical
        BY <2>4, <2>8
      <4> QED
        BY <3>3, <4>3, <4>4
    <3> QED
      BY <3>2, <3>3
  <2> QED
    BY <2>5, <2>6, <2>9
<1> QED
  BY <1>1, <1>2

\* Every operation on findings keeps what holds of them.
LEMMA FindingsStepKeeps == FindingsInv /\ FindingsStep => FindingsInv'
<1> SUFFICES ASSUME FindingsInv, FindingsStep PROVE FindingsInv'
  OBVIOUS
<1>1. CASE UNCHANGED findings
  BY <1>1, SameKeeps
<1> QED
  BY <1>1, AddKeeps, HandOffKeeps, ReopenKeeps, ResolveKeeps DEF FindingsStep

-----------------------------------------------------------------------------
(* The first of a batch *)

\* Natural numbers do not descend for ever.
LEMMA LessIsWellFounded ==
  IsWellFoundedOn({ss \in Nat \X Nat : ss[1] < ss[2]}, Nat)
BY NatLessThanWellFounded, Zenon DEF OpToRel

\* A batch that is not empty has a first finding.
LEMMA MinIsThere ==
  ASSUME NEW S \in SUBSET Nat, S # {}
  PROVE  Min(S) \in S
<1> DEFINE Less == {ss \in Nat \X Nat : ss[1] < ss[2]}
<1>1. PICK x \in S : \A y \in S : ~(<<y, x>> \in Less)
  <2>1. IsWellFoundedOn(Less, Nat)
    BY LessIsWellFounded
  <2> HIDE DEF Less
  <2> QED
  BY <2>1, WFMin, Zenon
<1>3. ASSUME NEW y \in S PROVE x <= y
  <2>1. x \in Nat /\ y \in Nat /\ ~(<<y, x>> \in Less)
    BY <1>1
  <2>2. <<y, x>> \in Nat \X Nat /\ <<y, x>>[1] = y /\ <<y, x>>[2] = x
    BY <2>1
  <2>3. ~(y < x)
    BY <2>1, <2>2
  <2> QED
    BY <2>1, <2>3
<1> QED
  BY <1>3 DEF Min

-----------------------------------------------------------------------------
(* The invariant of triage *)

\* Runs are begun in order, not in the future, and have a batch.
RunsShape ==
  /\ \A q, r \in RunIds :
       q < r /\ runs[r].state # "none" => runs[q].state # "none"
  /\ \A r \in RunIds :
       runs[r].at <= clock /\ (runs[r].state # "none" => runs[r].batch # {})

\* Who works on a run has one, and has a finding left where it goes through
\* them; no scheduler is ahead of the clock.
ProcessShape ==
  /\ \A s \in Schedulers :
       /\ sched[s].now <= clock
       /\ sched[s].pc \in {"reconcile", "close", "launch", "spawn", "record"} =>
            sched[s].run \in RunIds /\ runs[sched[s].run].state # "none"
       /\ sched[s].pc = "reconcile" => sched[s].todo # {}
  /\ \A r \in RunIds :
       /\ worker[r].pc # "none" => runs[r].state # "none"
       /\ worker[r].pc \in {"first", "scope", "last", "apply"} => worker[r].todo # {}

Shape == RunsShape /\ ProcessShape

\* What the claims of a run rest on: its lease is counted from its start.
Leases ==
  \A f \in FindingIds : claims[f] # NoClaim =>
    /\ claims[f].run \in RunIds
    /\ claims[f].until >= runs[claims[f].run].at + Lease

TriageInv == TypeOK /\ FindingsInv /\ Shape /\ OneTriager /\ Leases /\ ClaimsFollowRuns

\* There are no findings at first.
LEMMA InitFindings == Init => FindingsInv
<1> SUFFICES ASSUME Init PROVE FindingsInv
  OBVIOUS
<1>1. PICK keys \in Backlogs : findings = Recorded(keys)
  BY DEF Init
<1>2. /\ keys \in Seq(Keys)
      /\ \A f, g \in DOMAIN keys : keys[f] = keys[g] => f = g
      /\ DOMAIN keys = 1 .. Len(keys) /\ Len(keys) \in Nat
  BY TriageAssumption
<1>3. \A f \in FindingIds : f <= Len(keys) =>
        f \in DOMAIN keys /\ keys[f] \in Keys /\ findings[f] = NewRow(keys[f])
  BY <1>1, <1>2, FindingsAssumption DEF Recorded, FindingIds
<1>4. \A f \in FindingIds : ~(f <= Len(keys)) => findings[f] = Blank
  BY <1>1 DEF Recorded
<1>5. \A key \in Keys : NewRow(key) \in FindingRows
  BY FindingsAssumption DEF NewRow, FindingRows, Open
<1>6. Blank.state = "absent" /\ \A key \in Keys :
        NewRow(key).state = "pending" /\ NewRow(key).key = key /\ NewRow(key).canonical = NoFinding
  BY DEF NewRow, Blank
<1>7. \A f \in FindingIds :
        \/ f <= Len(keys) /\ findings[f].state = "pending" /\ findings[f].key = keys[f]
           /\ findings[f].canonical = NoFinding
        \/ findings[f] = Blank /\ findings[f].state = "absent"
  BY <1>3, <1>4, <1>6
<1>8. FindingsTypeOK
  <2>1. findings \in [FindingIds -> FindingRows \cup {Blank}]
    BY <1>1, <1>3, <1>4, <1>5 DEF Recorded
  <2>2. \A f \in FindingIds : Exists(f) =>
          findings[f].state = "pending" /\ findings[f].canonical = NoFinding
    BY <1>7 DEF Exists
  <2> QED
    BY <2>1, <2>2 DEF FindingsTypeOK, NoFinding, FindingIds
<1>9. OneOpenPerKey
  <2> SUFFICES ASSUME NEW f \in FindingIds, NEW g \in FindingIds, IsOpen(f), IsOpen(g),
                      findings[f].key = findings[g].key
               PROVE  f = g
    BY DEF OneOpenPerKey
  <2>1. findings[f].state # "absent" /\ findings[g].state # "absent"
    BY DEF IsOpen, Open
  <2>2. f \in DOMAIN keys /\ g \in DOMAIN keys /\ keys[f] = keys[g]
    BY <1>3, <1>7, <2>1
  <2> QED
    BY <1>2, <2>2
<1>10. Duplicates = {}
  BY <1>7 DEF Duplicates
<1> QED
  BY <1>8, <1>9, <1>10 DEF FindingsInv, CanonicalsEnd

\* There are no runs, claims or processes at first.
LEMMA InitTriage == Init => TriageInv
<1> SUFFICES ASSUME Init PROVE TriageInv
  OBVIOUS
<1>1. FindingsInv
  BY InitFindings
<1>2. TypeOK
  <2>1. NoRow \in RunRows /\ NoClaim \in Claims /\ NoFile \in Files
        /\ WorkerAt("none") \in WorkerStates
    BY TriageAssumption DEF NoRow, RunRows, Times, NoClaim, Claims, NoFile, Files, WorkerAt,
       WorkerStates, NoRun
  <2>2. Idle \in SchedulerStates
    BY <2>1, TriageAssumption DEF Idle, SchedulerStates, Times
  <2>3. ChildIs("none") \in Children
    BY DEF ChildIs, Children
  <2> QED
    BY <1>1, <2>1, <2>2, <2>3, TriageAssumption DEF TypeOK, Init, FindingsInv, Times
<1>3. Shape /\ OneTriager /\ Leases /\ ClaimsFollowRuns
  BY DEF Init, Shape, RunsShape, ProcessShape, OneTriager, Leases, ClaimsFollowRuns,
     NoRow, Idle, WorkerAt
<1> QED
  BY <1>1, <1>2, <1>3 DEF TriageInv

\* Whatever triage and agents do to findings is one of their operations.
LEMMA FindingsMove == TypeOK /\ [Next]_vars => FindingsStep
<1> SUFFICES ASSUME TypeOK, [Next]_vars PROVE FindingsStep
  OBVIOUS
<1>1. ASSUME NEW f, NEW r, NEW papers, Reconcile(f, r, papers) PROVE FindingsStep
  BY <1>1 DEF Reconcile, FindingsStep
<1>2. ASSUME NEW f, NEW r, ApplyVerdict(f, r) PROVE FindingsStep
  BY <1>2 DEF ApplyVerdict, FindingsStep
<1>3. ASSUME FindingsNext PROVE FindingsStep
  BY <1>3 DEF FindingsNext, FindingsStep
<1>4. ASSUME NEW s \in Schedulers, Schedule(s) \/ LaunchFails(s) \/ SchedulerDies(s)
      PROVE  FindingsStep
  <2>1. CASE ReconcileLost(s)
    BY <1>1, <2>1 DEF ReconcileLost
  <2> QED
    BY <1>4, <2>1 DEF Schedule, Look, CloseLost, BeginRun, WriteFile, Launch, Record, LaunchFails,
       SchedulerDies, FindingsStep
<1>5. ASSUME NEW r \in RunIds, Work(r) \/ WorkerDies(r) \/ ChildActs(r) PROVE FindingsStep
  <2>1. CASE ReconcileOwn(r)
    BY <1>1, <2>1 DEF ReconcileOwn
  <2>2. CASE ApplyResult(r)
    <3>1. UNCHANGED findings \/ \E f : ApplyVerdict(f, r)
      BY <2>2 DEF ApplyResult
    <3> QED
      BY <1>2, <3>1 DEF FindingsStep
  <2> QED
    BY <1>5, <2>1, <2>2 DEF Work, StartWorker, ReadPending, RunChild, Heartbeat, EndAtDeadline,
       SeeExit, FinishWorker, WorkerDies, ChildActs, FindingsStep
<1>6. CASE AgentActs
  BY <1>3, <1>6 DEF AgentActs
<1>7. CASE Tick \/ UNCHANGED vars
  BY <1>7 DEF Tick, vars, FindingsStep
<1> QED
  BY <1>4, <1>5, <1>6, <1>7 DEF Next

\* What the times and the backlog are.
LEMMA Bounds ==
  /\ MaxRuns \in Nat /\ BatchLimit \in Nat /\ Grace \in Nat /\ Deadline \in Nat
  /\ Lease \in Nat /\ Cooldown \in Nat /\ MaxStale \in Nat /\ MaxClock \in Nat
  /\ LastStart \in Nat /\ MaxCommits \in Nat /\ MaxFaults \in Nat /\ MaxMoves \in Nat
  /\ Lease < Cooldown /\ Deadline < Lease /\ MaxStale < Lease /\ MaxFindings \in Nat
BY TriageAssumption, FindingsAssumption

\* What the rows of workers are made of, one field after the other.
LEMMA WorkerRow ==
  ASSUME NEW row \in WorkerStates, NEW pc \in Working \cup {"none", "done", "gone"},
         NEW todo \in SUBSET FindingIds, NEW settled \in SUBSET FindingIds,
         NEW papers \in SUBSET Keys
  PROVE  /\ row.todo \in SUBSET FindingIds /\ row.settled \in SUBSET FindingIds
         /\ row.papers \in SUBSET Keys /\ row.pc \in Working \cup {"none", "done", "gone"}
         /\ [row EXCEPT !.pc = pc] \in WorkerStates
         /\ [row EXCEPT !.todo = todo] \in WorkerStates
         /\ [row EXCEPT !.papers = papers] \in WorkerStates
         /\ [row EXCEPT !.pc = pc, !.todo = todo] \in WorkerStates
         /\ [row EXCEPT !.pc = pc, !.todo = todo, !.settled = settled] \in WorkerStates
<1> DEFINE Pcs == Working \cup {"none", "done", "gone"}
<1>1. WorkerStates = [pc : Pcs, todo : SUBSET FindingIds, settled : SUBSET FindingIds,
                      papers : SUBSET Keys]
  BY DEF WorkerStates
<1>2. pc \in Pcs
  OBVIOUS
<1> HIDE DEF Pcs
<1>3. row.pc \in Pcs
  BY <1>1
<1> QED
  BY <1>1, <1>2, <1>3 DEF Pcs

\* Every variable keeps its type, in every step of every process.
LEMMA TypeStep ==
  ASSUME TypeOK, Shape, [Next]_vars, FindingsTypeOK'
  PROVE  TypeOK'
<1> USE DEF TypeOK
<1>1. ASSUME NEW r \in RunIds, NEW state \in {"none", "open", "closed"}
      PROVE  [runs EXCEPT ![r].state = state] \in [RunIds -> RunRows]
  BY <1>1 DEF RunRows
<1>2. NoClaim \in Claims /\ NoFile \in Files
  BY Bounds DEF NoClaim, Claims, NoFile, Files, NoRun, Times
<1>a. faults \in 0 .. MaxFaults /\ (faults < MaxFaults => faults + 1 \in 0 .. MaxFaults)
  BY Bounds
<1>b. moves \in 0 .. MaxMoves /\ (moves < MaxMoves => moves + 1 \in 0 .. MaxMoves)
  BY Bounds
<1>c. clock \in Times /\ (clock < MaxClock => clock + 1 \in Times)
  BY Bounds DEF Times
<1>3. ASSUME NEW table \in [FindingIds -> Claims], NEW r, NEW now
      PROVE  /\ Unclaimed(table, r) \in [FindingIds -> Claims]
             /\ Released(table, now) \in [FindingIds -> Claims]
  BY <1>2 DEF Unclaimed, Released
<1>4. Idle \in SchedulerStates
  BY <1>2, TriageAssumption DEF Idle, SchedulerStates, Times
<1>5. ASSUME NEW s \in Schedulers, Look(s) PROVE TypeOK'
  <2>1. [Idle EXCEPT !.pc = "begin", !.now = clock] \in SchedulerStates
    BY <1>4 DEF SchedulerStates
  <2>2. ASSUME NEW r \in RunIds, NEW pc \in {"reconcile", "close"}
        PROVE  [pc |-> pc, now |-> clock, run |-> r, seen |-> meta[r], todo |-> runs[r].batch]
                 \in SchedulerStates
    BY DEF SchedulerStates, RunRows
  <2>3. claims' \in [FindingIds -> Claims]
    BY <1>3, <1>5 DEF Look
  <2>4. sched' \in [Schedulers -> SchedulerStates]
    BY <1>5, <2>1, <2>2 DEF Look
  <2> QED
    BY <1>5, <2>3, <2>4 DEF Look
<1>6. ASSUME NEW s \in Schedulers, ReconcileLost(s) PROVE TypeOK'
  <2> DEFINE left == sched[s].todo \ {Min(sched[s].todo)}
             row == [sched[s] EXCEPT !.todo = left,
                                     !.pc = IF left = {} THEN "close" ELSE sched[s].pc]
  <2>1. sched' = [sched EXCEPT ![s] = row]
    BY <1>6 DEF ReconcileLost
  <2>2. left \in SUBSET FindingIds
    BY DEF SchedulerStates
  <2> HIDE DEF left
  <2>3. row \in SchedulerStates
    BY <2>2 DEF SchedulerStates
  <2>4. sched' \in [Schedulers -> SchedulerStates]
    BY <2>1, <2>3
  <2> QED
    BY <1>6, <2>4 DEF ReconcileLost
<1>7. ASSUME NEW s \in Schedulers, CloseLost(s) PROVE TypeOK'
  <2>1. sched[s].run \in RunIds /\ sched[s].now \in Times /\ sched[s].seen \in Files
    BY <1>7 DEF CloseLost, Shape, ProcessShape, SchedulerStates
  <2>2. [Idle EXCEPT !.pc = "begin", !.now = sched[s].now] \in SchedulerStates
    BY <1>4, <2>1 DEF SchedulerStates
  <2>3. [sched[s].seen EXCEPT !.beat = sched[s].now] \in Files
    BY <2>1 DEF Files
  <2>4. sched' \in [Schedulers -> SchedulerStates]
    BY <1>7, <2>2 DEF CloseLost
  <2>5. runs' \in [RunIds -> RunRows] /\ faults' \in 0 .. MaxFaults
    <3>1. runs' \in [RunIds -> RunRows]
      <4>1. [runs EXCEPT ![sched[s].run].state = "closed"] \in [RunIds -> RunRows]
        BY <1>1, <2>1
      <4> QED
        BY <1>7, <4>1 DEF CloseLost
    <3>2. faults' \in 0 .. MaxFaults
      BY <1>7, <1>a DEF CloseLost
    <3> QED
      BY <3>1, <3>2
  <2>6. claims' \in [FindingIds -> Claims]
    <3>1. Unclaimed(claims, sched[s].run) \in [FindingIds -> Claims]
      BY <1>3
    <3>2. /\ Released(claims, sched[s].now) \in [FindingIds -> Claims]
          /\ Released(Unclaimed(claims, sched[s].run), sched[s].now) \in [FindingIds -> Claims]
      BY <1>3, <3>1
    <3> QED
      BY <1>7, <3>2 DEF CloseLost
  <2>7. meta' \in [RunIds -> Files]
    BY <1>2, <1>7, <2>3 DEF CloseLost
  <2> QED
    BY <1>7, <2>4, <2>5, <2>6, <2>7 DEF CloseLost
<1>8. ASSUME NEW s \in Schedulers, BeginRun(s) PROVE TypeOK'
  <2>1. sched[s].now \in Times
    BY DEF SchedulerStates
  <2>2. CASE Leave(s) /\ UNCHANGED <<runs, claims>>
    BY <1>4, <1>8, <2>2 DEF BeginRun, Leave
  <2>3. ASSUME NEW r \in RunIds,
               runs' = [runs EXCEPT ![r] = [state |-> "open", at |-> sched[s].now,
                                            batch |-> Batch, head |-> 0]],
               claims' = [f \in FindingIds |->
                            IF f \in Batch THEN [run |-> r, until |-> sched[s].now + Lease]
                                           ELSE claims[f]],
               sched' = [sched EXCEPT ![s].pc = "launch", ![s].run = r]
        PROVE  TypeOK'
    <3>1. [state |-> "open", at |-> sched[s].now, batch |-> Batch, head |-> 0] \in RunRows
      BY <2>1, TriageAssumption DEF RunRows, Batch
    <3>2. [run |-> r, until |-> sched[s].now + Lease] \in Claims
      BY <2>1, Bounds DEF Claims, Times
    <3>3. runs' \in [RunIds -> RunRows]
      BY <2>3, <3>1
    <3>4. claims' \in [FindingIds -> Claims]
      BY <2>3, <3>2
    <3>5. [sched[s] EXCEPT !.pc = "launch", !.run = r] \in SchedulerStates
      BY DEF SchedulerStates
    <3>6. sched' = [sched EXCEPT ![s] = [sched[s] EXCEPT !.pc = "launch", !.run = r]]
      BY <2>3
    <3>7. sched' \in [Schedulers -> SchedulerStates]
      BY <3>5, <3>6
    <3> QED
      BY <1>8, <3>3, <3>4, <3>7 DEF BeginRun
  <2> QED
    BY <1>8, <2>2, <2>3 DEF BeginRun
<1>9. ASSUME NEW s \in Schedulers, WriteFile(s) \/ Launch(s) \/ Record(s) PROVE TypeOK'
  <2>1. sched[s].now \in Times /\ sched[s].run \in RunIds
    BY <1>9 DEF WriteFile, Launch, Record, Shape, ProcessShape, SchedulerStates
  <2>2. NewFile(s) \in Files /\ [NewFile(s) EXCEPT !.worker = TRUE] \in Files
    BY <2>1 DEF NewFile, Files
  <2>3. WorkerAt("starting") \in WorkerStates
    BY DEF WorkerAt, WorkerStates, Working
  <2>4. [runs EXCEPT ![sched[s].run].head = Len(log)] \in [RunIds -> RunRows]
    <3>1. Len(log) \in 0 .. MaxCommits
      BY Bounds
    <3>2. [runs[sched[s].run] EXCEPT !.head = Len(log)] \in RunRows
      BY <2>1, <3>1 DEF RunRows
    <3> QED
      BY <3>2
  <2>5. ASSUME NEW pc \in {"spawn", "record"}, Goto(s, pc)
        PROVE  sched' \in [Schedulers -> SchedulerStates]
    <3>1. [sched[s] EXCEPT !.pc = pc] \in SchedulerStates
      BY DEF SchedulerStates
    <3>2. sched' = [sched EXCEPT ![s] = [sched[s] EXCEPT !.pc = pc]]
      BY <2>5 DEF Goto
    <3> QED
      BY <3>1, <3>2
  <2>7. CASE WriteFile(s)
    <3>1. meta' \in [RunIds -> Files]
      BY <1>2, <2>1, <2>2, <2>7 DEF WriteFile
    <3> QED
      BY <2>4, <2>5, <2>7, <3>1 DEF WriteFile
  <2>8. CASE Launch(s)
    <3>1. worker' \in [RunIds -> WorkerStates]
      BY <1>2, <2>1, <2>3, <2>8 DEF Launch
    <3> QED
      BY <2>5, <2>8, <3>1 DEF Launch
  <2>6. CASE Record(s)
    BY <1>2, <1>4, <2>1, <2>2, <2>6 DEF Record, Leave
  <2> QED
    BY <1>9, <2>6, <2>7, <2>8
<1>10. ASSUME NEW s \in Schedulers, LaunchFails(s) \/ SchedulerDies(s) PROVE TypeOK'
  <2>1. faults' \in 0 .. MaxFaults
    BY <1>10, <1>a DEF LaunchFails, SchedulerDies
  <2>2. CASE LaunchFails(s)
    BY <1>1, <1>2, <1>3, <1>4, <2>1, <2>2 DEF LaunchFails, Leave, FinishRun, Shape, ProcessShape
  <2>3. CASE SchedulerDies(s)
    BY <1>4, <2>1, <2>3 DEF SchedulerDies, Leave
  <2> QED
    BY <1>10, <2>2, <2>3
<1>11. ASSUME NEW pc \in Working \cup {"none", "done", "gone"} PROVE WorkerAt(pc) \in WorkerStates
  BY DEF WorkerAt, WorkerStates
<1>12. ASSUME NEW r \in RunIds, StartWorker(r) PROVE TypeOK'
  <2>1. "first" \in Working /\ runs[r].batch \in SUBSET FindingIds
    BY DEF Working, RunRows
  <2>2. /\ [worker[r] EXCEPT !.pc = "first", !.todo = runs[r].batch] \in WorkerStates
        /\ [worker[r] EXCEPT !.pc = "done"] \in WorkerStates
    BY <2>1, WorkerRow
  <2>3. \/ worker' = [worker EXCEPT ![r] = [worker[r] EXCEPT !.pc = "first",
                                                             !.todo = runs[r].batch]]
        \/ worker' = [worker EXCEPT ![r] = [worker[r] EXCEPT !.pc = "done"]]
    BY <1>12 DEF StartWorker
  <2>4. worker' \in [RunIds -> WorkerStates]
    BY <2>2, <2>3
  <2> QED
    BY <1>12, <2>4 DEF StartWorker
<1>13. ASSUME NEW r \in RunIds, ReconcileOwn(r) PROVE TypeOK'
  <2> DEFINE f == Min(worker[r].todo)
             left == worker[r].todo \ {f}
             after == CASE worker[r].pc = "first" -> "pending"
                        [] child[r].state = "ok" -> "apply"
                        [] OTHER -> "finish"
             pc == IF left = {} THEN after ELSE worker[r].pc
             todo == IF left = {} /\ after = "apply" THEN runs[r].batch ELSE left
             settled == IF findings'[f].state = "pending" THEN worker[r].settled
                                                          ELSE worker[r].settled \cup {f}
  <2>1. worker[r].todo \in SUBSET FindingIds /\ worker[r].todo # {}
    BY <1>13 DEF ReconcileOwn, Shape, ProcessShape, WorkerStates
  <2>2. f \in FindingIds
    <3>1. worker[r].todo \in SUBSET Nat
      BY <2>1 DEF FindingIds
    <3>2. f \in worker[r].todo
      BY <2>1, <3>1, MinIsThere
    <3> QED
      BY <2>1, <3>2
  <2>3. pc \in Working
    BY <1>13 DEF ReconcileOwn, Working
  <2>4. todo \in SUBSET FindingIds
    BY <2>1 DEF RunRows
  <2>5. settled \in SUBSET FindingIds
    BY <2>2 DEF WorkerStates
  <2>6. worker' = [worker EXCEPT ![r] = [worker[r] EXCEPT !.pc = pc, !.todo = todo,
                                                          !.settled = settled]]
    <3>1. worker' = [worker EXCEPT
             ![r].pc = IF left = {} THEN after ELSE @,
             ![r].todo = todo,
             ![r].settled = IF findings'[f].state = "pending" THEN @ ELSE @ \cup {f}]
      BY <1>13 DEF ReconcileOwn
    <3> HIDE DEF after, todo, f
    <3> QED
      BY <3>1
  <2> HIDE DEF pc, todo, settled
  <2>7. [worker[r] EXCEPT !.pc = pc, !.todo = todo, !.settled = settled] \in WorkerStates
    BY <2>3, <2>4, <2>5, WorkerRow
  <2>8. worker' \in [RunIds -> WorkerStates]
    BY <2>6, <2>7
  <2> QED
    BY <1>13, <2>8 DEF ReconcileOwn
<1>14. ASSUME NEW r \in RunIds, ReadPending(r) PROVE TypeOK'
  <2>1. ASSUME NEW mine \in SUBSET FindingIds
        PROVE  [WorkerAt("scope") EXCEPT !.todo = mine] \in WorkerStates
    <3>1. WorkerAt("scope") \in WorkerStates
      BY <1>11 DEF Working
    <3> QED
      BY <3>1, WorkerRow
  <2>2. WorkerAt("leave") \in WorkerStates
    BY <1>11 DEF Working
  <2>3. \/ worker' = [worker EXCEPT ![r] = WorkerAt("leave")]
        \/ \E mine \in SUBSET FindingIds :
             worker' = [worker EXCEPT ![r] = [WorkerAt("scope") EXCEPT !.todo = mine]]
    BY <1>14 DEF ReadPending
  <2>4. worker' \in [RunIds -> WorkerStates]
    BY <2>1, <2>2, <2>3
  <2> QED
    BY <1>14, <2>4 DEF ReadPending
<1>15. ASSUME NEW r \in RunIds, NEW beat \in Times, NEW papers \in SUBSET Keys
       PROVE  FileOf(r, beat, papers) \in Files
  BY <1>2 DEF FileOf, Files
<1>16. ASSUME NEW state \in {"none", "running", "ok", "failed"} PROVE ChildIs(state) \in Children
  <2>1. {} \in SUBSET FindingIds /\ <<>> \in [{} -> Verdicts]
    OBVIOUS
  <2>2. <<>> \in UNION {[batch -> Verdicts] : batch \in SUBSET FindingIds}
    BY <2>1
  <2> QED
    BY <2>2 DEF ChildIs, Children
<1>17. ASSUME NEW r \in RunIds, RunChild(r) PROVE TypeOK'
  <2> DEFINE papers == {findings[f].key : f \in worker[r].todo} \cap Documented
  <2>1. papers \in SUBSET Keys /\ runs[r].at \in Times
    BY TriageAssumption DEF RunRows
  <2>2. [WorkerAt("running") EXCEPT !.papers = papers] \in WorkerStates
    <3>1. WorkerAt("running") \in WorkerStates
      BY <1>11 DEF Working
    <3> HIDE DEF papers
    <3> QED
      BY <2>1, <3>1, WorkerRow
  <2>3. FileOf(r, runs[r].at, papers) \in Files
    BY <1>15, <2>1
  <2>4. WorkerAt("leave") \in WorkerStates /\ ChildIs("running") \in Children
    BY <1>11, <1>16 DEF Working
  <2>5. /\ worker' \in {[worker EXCEPT ![r] = WorkerAt("leave")],
                        [worker EXCEPT ![r] = [WorkerAt("running") EXCEPT !.papers = papers]]}
        /\ meta' \in {meta, [meta EXCEPT ![r] = FileOf(r, runs[r].at, papers)]}
        /\ child' \in {child, [child EXCEPT ![r] = ChildIs("running")]}
        /\ UNCHANGED <<clock, runs, claims, sched, log, handoffs, faults, moves>>
    BY <1>17 DEF RunChild
  <2> HIDE DEF papers
  <2>6. worker' \in [RunIds -> WorkerStates]
    BY <2>2, <2>4, <2>5
  <2>7. meta' \in [RunIds -> Files] /\ child' \in [RunIds -> Children]
    BY <2>3, <2>4, <2>5
  <2> QED
    BY <2>5, <2>6, <2>7
<1>18. ASSUME NEW r \in RunIds, Ended(r) PROVE worker' \in [RunIds -> WorkerStates]
  <2>1. "last" \in Working /\ runs[r].batch \in SUBSET FindingIds
    BY DEF Working, RunRows
  <2>2. [worker[r] EXCEPT !.pc = "last", !.todo = runs[r].batch] \in WorkerStates
    BY <2>1, WorkerRow
  <2>3. worker' = [worker EXCEPT ![r] = [worker[r] EXCEPT !.pc = "last",
                                                          !.todo = runs[r].batch]]
    BY <1>18 DEF Ended
  <2> QED
    BY <2>2, <2>3
<1>19. ASSUME NEW r \in RunIds, Heartbeat(r) PROVE TypeOK'
  <2>1. worker[r].papers \in SUBSET Keys
    BY DEF WorkerStates
  <2>2. meta' \in [RunIds -> Files]
    BY <1>15, <1>19, <2>1 DEF Heartbeat
  <2>3. ASSUME NEW f \in FindingIds
        PROVE  [claims[f] EXCEPT !.until = clock + Lease] \in Claims
    <3>1. clock + Lease \in 0 .. MaxClock + Lease
      BY Bounds DEF Times
    <3>2. claims[f] \in Claims
      OBVIOUS
    <3> QED
      BY <3>1, <3>2 DEF Claims
  <2>4. claims' \in [FindingIds -> Claims]
    BY <1>19, <2>3 DEF Heartbeat
  <2>5. worker' \in [RunIds -> WorkerStates] /\ child' \in [RunIds -> Children]
    BY <1>16, <1>18, <1>19 DEF Heartbeat
  <2> QED
    BY <1>19, <2>2, <2>4, <2>5 DEF Heartbeat
<1>20. ASSUME NEW r \in RunIds, EndAtDeadline(r) \/ SeeExit(r) PROVE TypeOK'
  <2>1. worker' \in [RunIds -> WorkerStates]
    BY <1>18, <1>20 DEF EndAtDeadline, SeeExit
  <2> QED
    BY <1>16, <1>20, <2>1 DEF EndAtDeadline, SeeExit
<1>21. ASSUME NEW r \in RunIds, ApplyResult(r) PROVE TypeOK'
  <2>1. worker' \in [RunIds -> WorkerStates]
    <3> DEFINE left == worker[r].todo \ {Min(worker[r].todo)}
               pc == IF left = {} THEN "finish" ELSE worker[r].pc
    <3>1. worker' = [worker EXCEPT ![r] = [worker[r] EXCEPT !.pc = pc, !.todo = left]]
      BY <1>21 DEF ApplyResult
    <3>2. pc \in Working
      BY <1>21 DEF ApplyResult, Working
    <3>3. left \in SUBSET FindingIds
      BY WorkerRow DEF WorkerStates
    <3> HIDE DEF left, pc
    <3>4. [worker[r] EXCEPT !.pc = pc, !.todo = left] \in WorkerStates
      BY <3>2, <3>3, WorkerRow
    <3> QED
      BY <3>1, <3>4
  <2> QED
    BY <1>21, <2>1 DEF ApplyResult
<1>22. ASSUME NEW r \in RunIds, FinishWorker(r) PROVE TypeOK'
  <2>1. WorkerAt("done") \in WorkerStates /\ ChildIs("none") \in Children
    BY <1>11, <1>16
  <2>2. worker' \in [RunIds -> WorkerStates] /\ child' \in [RunIds -> Children]
    BY <1>22, <2>1 DEF FinishWorker
  <2>3. runs' \in [RunIds -> RunRows] /\ claims' \in [FindingIds -> Claims]
    BY <1>1, <1>3, <1>22 DEF FinishWorker, FinishRun
  <2>4. meta' \in [RunIds -> Files]
    BY <1>2, <1>22 DEF FinishWorker
  <2> QED
    BY <1>22, <2>2, <2>3, <2>4 DEF FinishWorker
<1>23. ASSUME NEW r \in RunIds, WorkerDies(r) PROVE TypeOK'
  BY <1>11, <1>23, <1>a DEF WorkerDies
<1>24. ASSUME NEW r \in RunIds, ChildActs(r) PROVE TypeOK'
  <2>1. runs[r].batch \in SUBSET FindingIds
    BY DEF RunRows
  <2>2. ASSUME NEW results \in [runs[r].batch -> Verdicts]
        PROVE  [state |-> "ok", results |-> results] \in Children
    BY <2>1 DEF Children
  <2>3. log' \in Seq(FindingIds) /\ Len(log') <= MaxCommits /\ handoffs' \subseteq FindingIds
    <3>1. ASSUME NEW f \in FindingIds, Len(log) < MaxCommits
          PROVE  Append(log, f) \in Seq(FindingIds) /\ Len(Append(log, f)) <= MaxCommits
      BY <3>1, Bounds
    <3>2. \/ UNCHANGED <<log, handoffs>>
          \/ \E f \in FindingIds : Len(log) < MaxCommits /\ log' = Append(log, f)
                                   /\ UNCHANGED handoffs
          \/ \E f \in FindingIds : handoffs' = handoffs \cup {f} /\ UNCHANGED log
      BY <1>24, <2>1 DEF ChildActs
    <3> QED
      BY <3>1, <3>2
  <2>4. child' \in [RunIds -> Children]
    BY <1>16, <1>24, <2>2 DEF ChildActs
  <2> QED
    BY <1>24, <2>3, <2>4 DEF ChildActs
<1>25. CASE AgentActs
  BY <1>25, <1>b DEF AgentActs
<1>26. CASE Tick
  BY <1>26, <1>c DEF Tick
<1>27. CASE UNCHANGED vars
  BY <1>27 DEF vars
<1> QED
  BY <1>5, <1>6, <1>7, <1>8, <1>9, <1>10, <1>12, <1>13, <1>14, <1>17, <1>19, <1>20, <1>21,
     <1>22, <1>23, <1>24, <1>25, <1>26, <1>27 DEF Next, Schedule, Work

-----------------------------------------------------------------------------
(* What a step does to the ledger: rows of runs and their claims *)

\* release_orphaned_claims may take this claim.
Lapsed(f) ==
  claims[f].until <= clock \/ \E r \in RunIds : claims[f].run = r /\ runs[r].state = "closed"

Releases ==
  /\ UNCHANGED runs
  /\ \A f \in FindingIds : claims'[f] = claims[f] \/ (claims'[f] = NoClaim /\ Lapsed(f))

SetsHead(r) ==
  /\ UNCHANGED claims
  /\ \E head : runs' = [runs EXCEPT ![r].head = head]

Extends(r) ==
  /\ UNCHANGED runs /\ runs[r].state = "open"
  /\ \A f \in FindingIds :
       claims'[f] = IF claims[f].run = r THEN [claims[f] EXCEPT !.until = clock + Lease]
                                         ELSE claims[f]

Closes(r) ==
  /\ runs[r].state # "none"
  /\ runs' = [runs EXCEPT ![r].state = "closed"]
  /\ \A f \in FindingIds :
       \/ claims'[f] = NoClaim /\ (claims[f].run = r \/ Lapsed(f))
       \/ claims'[f] = claims[f] /\ claims[f].run # r

Begins(r, now) ==
  /\ now <= clock /\ Cooled(now) /\ Batch # {} /\ runs[r].state = "none"
  /\ \A q \in 1 .. r - 1 : runs[q].state # "none"
  /\ runs' = [runs EXCEPT ![r] = [state |-> "open", at |-> now, batch |-> Batch, head |-> 0]]
  /\ claims' = [f \in FindingIds |->
                  IF f \in Batch THEN [run |-> r, until |-> now + Lease] ELSE claims[f]]

LedgerStep ==
  \/ Releases
  \/ \E r \in RunIds : SetsHead(r) \/ Extends(r) \/ Closes(r)
  \/ \E r \in RunIds, now \in Times : Begins(r, now)

ClockStep == clock' = clock \/ (clock' = clock + 1 /\ UNCHANGED <<runs, claims>>)

\* Which claims a look releases.
LEMMA ReleasedIs ==
  ASSUME TypeOK, NEW table, NEW now \in Nat, now <= clock, NEW f \in FindingIds,
         table[f] = claims[f]
  PROVE  \/ Released(table, now)[f] = claims[f]
         \/ Released(table, now)[f] = NoClaim /\ Lapsed(f)
<1>1. claims[f].until \in Nat /\ clock \in Nat
  BY Bounds DEF TypeOK, Claims, Times
<1> QED
  BY <1>1 DEF Released, Lapsed

\* What a step may do to runs and claims: release, set or extend, close, begin.
LEMMA LedgerMove == TypeOK /\ Shape /\ [Next]_vars => LedgerStep /\ ClockStep
<1> SUFFICES ASSUME TypeOK, Shape, [Next]_vars PROVE LedgerStep /\ ClockStep
  OBVIOUS
<1>1. ASSUME UNCHANGED <<runs, claims>> PROVE LedgerStep
  BY <1>1 DEF LedgerStep, Releases
<1>2. ASSUME NEW s \in Schedulers PROVE sched[s].now \in Times /\ sched[s].now \in Nat
                                        /\ sched[s].now <= clock /\ clock \in Nat
  BY DEF TypeOK, SchedulerStates, Times, Shape, ProcessShape
<1>3. ASSUME NEW s \in Schedulers, Look(s) PROVE LedgerStep /\ ClockStep
  <2>1. claims' = claims \/ claims' = Released(claims, clock)
    BY <1>3 DEF Look
  <2>2. \A f \in FindingIds : claims'[f] = claims[f] \/ (claims'[f] = NoClaim /\ Lapsed(f))
    BY <1>2, <2>1, ReleasedIs
  <2> QED
    BY <1>3, <2>2 DEF Look, LedgerStep, Releases, ClockStep
<1>4. ASSUME NEW s \in Schedulers, CloseLost(s) PROVE LedgerStep /\ ClockStep
  <2>1. sched[s].run \in RunIds /\ runs[sched[s].run].state # "none"
    BY <1>4 DEF CloseLost, Shape, ProcessShape
  <2>2. CASE claims' = Released(claims, sched[s].now) /\ UNCHANGED runs
    <3>1. \A f \in FindingIds : claims'[f] = claims[f] \/ (claims'[f] = NoClaim /\ Lapsed(f))
      BY <1>2, <2>2, ReleasedIs
    <3> QED
      BY <1>4, <2>2, <3>1 DEF CloseLost, LedgerStep, Releases, ClockStep
  <2>3. CASE /\ runs' = [runs EXCEPT ![sched[s].run].state = "closed"]
             /\ claims' = Released(Unclaimed(claims, sched[s].run), sched[s].now)
    <3> DEFINE table == Unclaimed(claims, sched[s].run)
    <3>1. ASSUME NEW f \in FindingIds, claims[f].run = sched[s].run
          PROVE  claims'[f] = NoClaim
      BY <2>3, <3>1 DEF Unclaimed, Released
    <3>2. ASSUME NEW f \in FindingIds, claims[f].run # sched[s].run
          PROVE  claims'[f] = claims[f] \/ (claims'[f] = NoClaim /\ Lapsed(f))
      <4>1. table[f] = claims[f]
        BY <3>2 DEF Unclaimed
      <4> HIDE DEF table
      <4>2. \/ Released(table, sched[s].now)[f] = claims[f]
            \/ Released(table, sched[s].now)[f] = NoClaim /\ Lapsed(f)
        BY <1>2, <4>1, ReleasedIs
      <4> QED
        BY <2>3, <4>2 DEF table
    <3>3. Closes(sched[s].run)
      BY <2>1, <2>3, <3>1, <3>2 DEF Closes
    <3> QED
      BY <1>4, <2>1, <3>3 DEF CloseLost, LedgerStep, ClockStep
  <2> QED
    BY <1>4, <2>2, <2>3 DEF CloseLost
<1>5. ASSUME NEW s \in Schedulers, BeginRun(s) PROVE LedgerStep /\ ClockStep
  <2>1. ClockStep
    BY <1>5 DEF BeginRun, ClockStep
  <2>2. \/ UNCHANGED <<runs, claims>>
        \/ \E r \in RunIds : Begins(r, sched[s].now)
    BY <1>2, <1>5 DEF BeginRun, Begins
  <2> QED
    BY <1>1, <1>2, <2>1, <2>2 DEF LedgerStep
<1>6. ASSUME NEW s \in Schedulers, WriteFile(s) PROVE LedgerStep /\ ClockStep
  <2>1. sched[s].run \in RunIds
    BY <1>6 DEF WriteFile, Shape, ProcessShape
  <2> QED
    BY <1>6, <2>1 DEF WriteFile, LedgerStep, SetsHead, ClockStep
<1>7. ASSUME NEW r \in RunIds, runs[r].state # "none", FinishRun(r) PROVE Closes(r)
  BY <1>7 DEF FinishRun, Closes, Unclaimed
<1>8. ASSUME NEW s \in Schedulers, LaunchFails(s) PROVE LedgerStep /\ ClockStep
  <2>1. sched[s].run \in RunIds /\ runs[sched[s].run].state # "none"
    BY <1>8 DEF LaunchFails, Shape, ProcessShape
  <2>2. Closes(sched[s].run)
    BY <1>7, <1>8, <2>1 DEF LaunchFails
  <2> QED
    BY <1>8, <2>1, <2>2 DEF LaunchFails, LedgerStep, ClockStep
<1>9. ASSUME NEW s \in Schedulers, ReconcileLost(s) \/ Launch(s) \/ Record(s)
                                 \/ SchedulerDies(s)
      PROVE  LedgerStep /\ ClockStep
  <2>1. UNCHANGED <<runs, claims>> /\ UNCHANGED clock
    BY <1>9 DEF ReconcileLost, Launch, Record, SchedulerDies
  <2> QED
    BY <1>1, <2>1 DEF ClockStep
<1>10. ASSUME NEW r \in RunIds, Heartbeat(r) PROVE LedgerStep /\ ClockStep
  <2>1. UNCHANGED <<runs, claims>> \/ Extends(r)
    BY <1>10 DEF Heartbeat, Extends
  <2> QED
    BY <1>1, <1>10, <2>1 DEF Heartbeat, LedgerStep, ClockStep
<1>11. ASSUME NEW r \in RunIds, FinishWorker(r) PROVE LedgerStep /\ ClockStep
  <2>1. runs[r].state # "none"
    BY <1>11 DEF FinishWorker, Shape, ProcessShape
  <2>2. Closes(r)
    BY <1>7, <1>11, <2>1 DEF FinishWorker
  <2> QED
    BY <1>11, <2>2 DEF FinishWorker, LedgerStep, ClockStep
<1>12. ASSUME NEW r \in RunIds,
              \/ StartWorker(r) \/ ReconcileOwn(r) \/ ReadPending(r) \/ RunChild(r)
              \/ EndAtDeadline(r) \/ SeeExit(r) \/ ApplyResult(r) \/ WorkerDies(r)
              \/ ChildActs(r)
       PROVE  LedgerStep /\ ClockStep
  <2>1. UNCHANGED <<runs, claims>> /\ UNCHANGED clock
    BY <1>12 DEF StartWorker, ReconcileOwn, ReadPending, RunChild, EndAtDeadline, SeeExit,
       ApplyResult, WorkerDies, ChildActs
  <2> QED
    BY <1>1, <2>1 DEF ClockStep
<1>13. CASE AgentActs \/ Tick \/ UNCHANGED vars
  <2>1. UNCHANGED <<runs, claims>> /\ ClockStep
    BY <1>13 DEF AgentActs, Tick, vars, ClockStep
  <2> QED
    BY <1>1, <2>1
<1> QED
  BY <1>3, <1>4, <1>5, <1>6, <1>8, <1>9, <1>10, <1>11, <1>12, <1>13 DEF Next, Schedule, Work

-----------------------------------------------------------------------------
(* The invariant holds *)

\* What the steps of one process never take from another: a run that was begun.
Grows ==
  \A r \in RunIds : runs[r].state # "none" =>
    runs'[r].state # "none" /\ runs'[r].batch = runs[r].batch /\ runs'[r].at = runs[r].at

Ledger == RunsShape /\ OneTriager /\ Leases /\ ClaimsFollowRuns

\* The fields of a run's row.
LEMMA RowTypes ==
  ASSUME TypeOK
  PROVE  /\ clock \in Nat
         /\ \A r \in RunIds : runs[r].at \in Nat
         /\ \A f \in FindingIds : claims[f].until \in Nat /\ claims[f].run \in RunIds \cup {NoRun}
         /\ NoRun \notin RunIds
BY Bounds DEF TypeOK, RunRows, Claims, Times, RunIds, NoRun

\* Releasing claims of closed runs keeps what holds of the ledger.
LEMMA ReleasesKeeps ==
  ASSUME TypeOK, Ledger, Releases, clock' \in Nat, clock <= clock'
  PROVE  Ledger'
<1>1. RunsShape' /\ OneTriager'
  BY RowTypes DEF Ledger, RunsShape, OneTriager, Releases
<1>2. Leases'
  BY DEF Ledger, Leases, Releases
<1>3. ASSUME NEW f \in FindingIds, claims'[f] # NoClaim
      PROVE  runs'[claims'[f].run].state = "open" /\ f \in runs'[claims'[f].run].batch
  BY <1>3 DEF Ledger, ClaimsFollowRuns, Releases
<1>4. ASSUME NEW r \in RunIds, runs[r].state = "open", clock < runs[r].at + Lease,
             NEW f \in runs[r].batch
      PROVE  claims'[f].run = r
  <2>1. claims[f].run = r /\ f \in FindingIds
    BY <1>4 DEF Ledger, ClaimsFollowRuns, TypeOK, RunRows
  <2>2. claims[f] # NoClaim
    BY <2>1, RowTypes DEF NoClaim
  <2>3. claims[f].until >= runs[r].at + Lease
    BY <2>1, <2>2 DEF Ledger, Leases
  <2>4. ~Lapsed(f)
    BY <1>4, <2>1, <2>3, RowTypes, Bounds DEF Lapsed
  <2> QED
    BY <2>1, <2>4 DEF Releases
<1>5. ClaimsFollowRuns'
  <2>1. ASSUME NEW r \in RunIds, runs'[r].state = "open", clock' < runs'[r].at + Lease
        PROVE  runs[r].state = "open" /\ clock < runs[r].at + Lease /\ runs'[r] = runs[r]
    BY <2>1, RowTypes, Bounds DEF Releases
  <2> QED
    BY <1>3, <1>4, <2>1 DEF ClaimsFollowRuns
<1> QED
  BY <1>1, <1>2, <1>5 DEF Ledger

\* Setting the head of a run keeps what holds of the ledger.
LEMMA SetsHeadKeeps ==
  ASSUME TypeOK, Ledger, NEW r \in RunIds, SetsHead(r), clock' = clock
  PROVE  Ledger'
<1>1. \A q \in RunIds : /\ runs'[q].state = runs[q].state /\ runs'[q].at = runs[q].at
                        /\ runs'[q].batch = runs[q].batch
  BY DEF SetsHead, TypeOK, RunRows
<1>2. RunsShape' /\ OneTriager'
  BY <1>1 DEF Ledger, RunsShape, OneTriager
<1>3. Leases'
  BY <1>1 DEF Ledger, Leases, SetsHead
<1>4. ClaimsFollowRuns'
  BY <1>1 DEF Ledger, ClaimsFollowRuns, Leases, SetsHead
<1> QED
  BY <1>2, <1>3, <1>4 DEF Ledger

\* Extending the leases of a run keeps what holds of the ledger.
LEMMA ExtendsKeeps ==
  ASSUME TypeOK, Ledger, NEW r \in RunIds, Extends(r), clock' = clock
  PROVE  Ledger'
<1>1. RunsShape' /\ OneTriager'
  BY DEF Ledger, RunsShape, OneTriager, Extends
<1>2. \A f \in FindingIds :
        /\ claims'[f].run = claims[f].run
        /\ claims[f] = NoClaim => claims'[f] = NoClaim
        /\ claims'[f].until = IF claims[f].run = r THEN clock + Lease ELSE claims[f].until
  <2> SUFFICES ASSUME NEW f \in FindingIds
               PROVE  /\ claims'[f].run = claims[f].run
                      /\ claims[f] = NoClaim => claims'[f] = NoClaim
                      /\ claims'[f].until = IF claims[f].run = r THEN clock + Lease
                                                                 ELSE claims[f].until
    OBVIOUS
  <2>1. claims[f] \in Claims
    BY DEF TypeOK
  <2>2. CASE claims[f].run = r
    <3>1. claims'[f] = [claims[f] EXCEPT !.until = clock + Lease]
      BY <2>2 DEF Extends
    <3>2. claims[f] # NoClaim
      BY <2>2, RowTypes DEF NoClaim
    <3> QED
      BY <2>1, <2>2, <3>1, <3>2 DEF Claims
  <2>3. CASE claims[f].run # r
    BY <2>3 DEF Extends
  <2> QED
    BY <2>2, <2>3
<1>3. Leases'
  <2> SUFFICES ASSUME NEW f \in FindingIds, claims'[f] # NoClaim
               PROVE  /\ claims'[f].run \in RunIds
                      /\ claims'[f].until >= runs[claims'[f].run].at + Lease
    BY DEF Leases, Extends
  <2>1. claims[f].run \in RunIds /\ claims[f].until >= runs[claims[f].run].at + Lease
    BY <1>2 DEF Ledger, Leases
  <2>2. runs[r].at <= clock
    BY DEF Ledger, RunsShape
  <2> QED
    BY <1>2, <2>1, <2>2, RowTypes, Bounds
<1>4. ClaimsFollowRuns'
  <2>1. ASSUME NEW q \in RunIds PROVE runs[q].batch \subseteq FindingIds
    BY DEF TypeOK, RunRows
  <2> QED
    BY <1>2, <2>1 DEF Ledger, ClaimsFollowRuns, Extends
<1> QED
  BY <1>1, <1>3, <1>4 DEF Ledger

\* The run that is closed is the only one that was open, or none was: its claims
\* are all there were.
LEMMA ClosesKeeps ==
  ASSUME TypeOK, Ledger, NEW r \in RunIds, Closes(r), clock' = clock
  PROVE  Ledger'
<1>1. \A q \in RunIds :
        /\ runs'[q].at = runs[q].at /\ runs'[q].batch = runs[q].batch
        /\ runs'[q].state = IF q = r THEN "closed" ELSE runs[q].state
  BY DEF Closes, TypeOK, RunRows
<1>2. RunsShape' /\ OneTriager'
  BY <1>1 DEF Ledger, RunsShape, OneTriager, Closes
<1>3. Leases'
  BY <1>1 DEF Ledger, Leases, Closes
<1>4. ASSUME NEW f \in FindingIds, claims'[f] # NoClaim
      PROVE  runs'[claims'[f].run].state = "open" /\ f \in runs'[claims'[f].run].batch
  <2>1. claims'[f] = claims[f] /\ claims[f].run # r
    BY <1>4 DEF Closes
  <2>2. claims[f].run \in RunIds
    BY <1>4, <2>1 DEF Ledger, Leases
  <2> QED
    BY <1>1, <1>4, <2>1, <2>2 DEF Ledger, ClaimsFollowRuns
<1>5. ASSUME NEW q \in RunIds, runs'[q].state = "open", clock < runs'[q].at + Lease,
             NEW f \in runs'[q].batch
      PROVE  claims'[f].run = q
  <2>1. q # r /\ runs[q].state = "open"
    BY <1>1, <1>5
  <2>2. claims[f].run = q /\ f \in FindingIds
    BY <1>1, <1>5, <2>1 DEF Ledger, ClaimsFollowRuns, TypeOK, RunRows
  <2>3. claims[f].until >= runs[q].at + Lease
    BY <2>2, RowTypes DEF Ledger, Leases, NoClaim
  <2>4. ~Lapsed(f)
    BY <1>1, <1>5, <2>1, <2>2, <2>3, RowTypes, Bounds DEF Lapsed
  <2> QED
    BY <2>1, <2>2, <2>4 DEF Closes
<1>6. ClaimsFollowRuns'
  BY <1>4, <1>5 DEF ClaimsFollowRuns
<1> QED
  BY <1>2, <1>3, <1>6 DEF Ledger

\* No run was open, so that nothing was claimed.
LEMMA BeginsKeeps ==
  ASSUME TypeOK, Ledger, NEW r \in RunIds, NEW now \in Times, Begins(r, now), clock' = clock
  PROVE  Ledger' /\ Grows
<1>1. now \in Nat /\ now <= clock /\ r \in Nat
  BY Bounds DEF Begins, Times, RunIds
<1>2. /\ runs'[r].state = "open" /\ runs'[r].at = now /\ runs'[r].batch = Batch
      /\ \A q \in RunIds \ {r} : runs'[q] = runs[q]
  BY DEF Begins, TypeOK
<1>3. \A q \in RunIds : runs[q].state = "none" \/ runs[q].state = "closed"
  BY DEF Begins, Cooled
<1>4. \A f \in FindingIds : claims[f] = NoClaim
  BY <1>3 DEF Ledger, ClaimsFollowRuns, Leases
<1>5. \A q \in RunIds : q > r => runs[q].state = "none"
  BY <1>1 DEF Ledger, RunsShape, Begins, RunIds
<1>6. \A q \in RunIds : q < r => runs[q].state # "none"
  BY <1>1 DEF Begins, RunIds
<1>7. \A q \in RunIds : q < r \/ q = r \/ q > r
  BY <1>1 DEF RunIds
<1>8. Grows
  BY <1>2 DEF Grows, Begins
<1>9. RunsShape'
  <2>1. ASSUME NEW p \in RunIds, NEW q \in RunIds, p < q, runs'[q].state # "none"
        PROVE  runs'[p].state # "none"
    <3>1. CASE p = r
      BY <1>2, <3>1
    <3>2. CASE p # r /\ q = r
      BY <1>2, <1>6, <2>1, <3>2
    <3>3. CASE p # r /\ q # r
      BY <1>2, <2>1, <3>3 DEF Ledger, RunsShape
    <3> QED
      BY <3>1, <3>2, <3>3
  <2>2. ASSUME NEW q \in RunIds
        PROVE  runs'[q].at <= clock /\ (runs'[q].state # "none" => runs'[q].batch # {})
    BY <1>1, <1>2 DEF Ledger, RunsShape, Begins
  <2> QED
    BY <2>1, <2>2 DEF RunsShape
<1>10. OneTriager'
  <2> SUFFICES ASSUME NEW p \in RunIds, NEW q \in RunIds, p < q, runs'[q].state # "none"
               PROVE  runs'[p].state = "closed" /\ runs'[p].at + Cooldown <= runs'[q].at
    BY DEF OneTriager
  <2>1. CASE q = r
    <3>1. runs[p].state = "closed" /\ runs[p].at + Cooldown <= now
      BY <1>6, <2>1 DEF Begins, Cooled
    <3>2. p # r
      BY <1>1, <2>1
    <3> QED
      BY <1>2, <2>1, <3>1, <3>2
  <2>2. CASE q # r
    <3>1. runs[q].state # "none" /\ q < r
      BY <1>2, <1>5, <1>7, <2>2
    <3>2. p # r
      BY <1>1, <3>1 DEF RunIds
    <3> QED
      BY <1>2, <2>2, <3>1, <3>2 DEF Ledger, OneTriager
  <2> QED
    BY <2>1, <2>2
<1>11. \A f \in FindingIds :
         claims'[f] = IF f \in Batch THEN [run |-> r, until |-> now + Lease] ELSE NoClaim
  BY <1>4 DEF Begins
<1>12. Leases'
  BY <1>1, <1>2, <1>11, Bounds DEF Leases
<1>13. ClaimsFollowRuns'
  <2>1. \A q \in RunIds : runs'[q].state = "open" => q = r
    BY <1>2, <1>3
  <2>2. Batch \subseteq FindingIds
    BY DEF Batch
  <2> QED
    BY <1>2, <1>11, <2>1, <2>2 DEF ClaimsFollowRuns
<1> QED
  BY <1>8, <1>9, <1>10, <1>12, <1>13 DEF Ledger

\* Every move of the ledger keeps what holds of it.
LEMMA LedgerKeeps ==
  ASSUME TypeOK, Ledger, LedgerStep, ClockStep
  PROVE  Ledger' /\ Grows /\ clock' \in Nat /\ clock <= clock'
<1>1. clock' \in Nat /\ clock <= clock'
  BY RowTypes DEF ClockStep
<1>2. CASE clock' = clock + 1 /\ UNCHANGED <<runs, claims>>
  BY <1>1, <1>2, ReleasesKeeps DEF Releases, Grows
<1>3. CASE clock' = clock
  <2>1. CASE Releases
    BY <1>1, <2>1, ReleasesKeeps DEF Releases, Grows
  <2>2. ASSUME NEW r \in RunIds, SetsHead(r) PROVE Ledger' /\ Grows
    <3>1. \A q \in RunIds : /\ runs'[q].state = runs[q].state /\ runs'[q].at = runs[q].at
                            /\ runs'[q].batch = runs[q].batch
      BY <2>2 DEF SetsHead, TypeOK, RunRows
    <3>2. Ledger'
      BY <1>3, <2>2, SetsHeadKeeps
    <3> QED
      BY <3>1, <3>2 DEF Grows
  <2>3. ASSUME NEW r \in RunIds, Extends(r) PROVE Ledger' /\ Grows
    BY <1>3, <2>3, ExtendsKeeps DEF Extends, Grows
  <2>4. ASSUME NEW r \in RunIds, Closes(r) PROVE Ledger' /\ Grows
    <3>1. \A q \in RunIds : /\ runs'[q].at = runs[q].at /\ runs'[q].batch = runs[q].batch
                            /\ runs'[q].state = IF q = r THEN "closed" ELSE runs[q].state
      BY <2>4 DEF Closes, TypeOK, RunRows
    <3>2. Ledger'
      BY <1>3, <2>4, ClosesKeeps
    <3> QED
      BY <3>1, <3>2 DEF Grows
  <2>5. ASSUME NEW r \in RunIds, NEW now \in Times, Begins(r, now) PROVE Ledger' /\ Grows
    BY <1>3, <2>5, BeginsKeeps
  <2> QED
    BY <1>1, <2>1, <2>2, <2>3, <2>4, <2>5 DEF LedgerStep
<1> QED
  BY <1>2, <1>3 DEF ClockStep

\* Schedulers and workers keep their shape while runs only grow.
LEMMA ProcessesKeep ==
  ASSUME TypeOK, Shape, [Next]_vars, Grows, clock' \in Nat, clock <= clock'
  PROVE  ProcessShape'
<1> DEFINE SchedOK(s) == /\ sched'[s].now <= clock'
                         /\ sched'[s].pc \in {"reconcile", "close", "launch", "spawn", "record"} =>
                              sched'[s].run \in RunIds /\ runs'[sched'[s].run].state # "none"
                         /\ sched'[s].pc = "reconcile" => sched'[s].todo # {}
           WorkerOK(r) == /\ worker'[r].pc # "none" => runs'[r].state # "none"
                          /\ worker'[r].pc \in {"first", "scope", "last", "apply"} =>
                               worker'[r].todo # {}
<1>1. \A s \in Schedulers : sched[s] \in SchedulerStates /\ sched[s].now \in Nat
  BY DEF TypeOK, SchedulerStates, Times
<1>2. \A r \in RunIds : worker[r] \in WorkerStates /\ (runs[r].state # "none" => runs[r].batch # {})
  BY DEF TypeOK, Shape, RunsShape
<1>3. ASSUME NEW s \in Schedulers, sched'[s] = sched[s] PROVE SchedOK(s)
  BY <1>1, <1>3, RowTypes DEF Shape, ProcessShape, Grows
<1>4. ASSUME NEW r \in RunIds, worker'[r] = worker[r] PROVE WorkerOK(r)
  BY <1>4 DEF Shape, ProcessShape, Grows
<1>5. ASSUME NEW s \in Schedulers, sched'[s] = Idle PROVE SchedOK(s)
  BY <1>5 DEF Idle
<1>6. SUFFICES (\A s \in Schedulers : SchedOK(s)) /\ \A r \in RunIds : WorkerOK(r)
  BY DEF ProcessShape
<1> HIDE DEF SchedOK, WorkerOK
<1>7. ASSUME NEW s \in Schedulers, Schedule(s) \/ LaunchFails(s) \/ SchedulerDies(s)
      PROVE  (\A t \in Schedulers : SchedOK(t)) /\ \A r \in RunIds : WorkerOK(r)
  <2>1. sched' = [sched EXCEPT ![s] = sched'[s]]
    BY <1>7 DEF TypeOK, Schedule, Look, ReconcileLost, CloseLost, BeginRun, WriteFile, Launch, Record,
       LaunchFails, SchedulerDies, Leave, Goto
  <2>2. SchedOK(s)
    <3>1. CASE Look(s)
      <4>1. clock \in Nat
        BY RowTypes
      <4> QED
        <5>1. CASE sched' = [sched EXCEPT ![s] = [Idle EXCEPT !.pc = "begin", !.now = clock]]
          <6>1. sched'[s] = [Idle EXCEPT !.pc = "begin", !.now = clock]
            BY <5>1 DEF TypeOK
          <6>2. sched'[s].pc = "begin" /\ sched'[s].now = clock
            BY <6>1 DEF Idle
          <6> QED
            BY <4>1, <6>2 DEF SchedOK
        <5>2. ASSUME NEW r \in RunIds, NEW pc, runs[r].state = "open",
                     sched' = [sched EXCEPT ![s] =
                       [pc |-> pc, now |-> clock, run |-> r, seen |-> meta[r],
                        todo |-> runs[r].batch]]
              PROVE  SchedOK(s)
          <6>1. sched'[s].now = clock /\ sched'[s].run = r /\ sched'[s].todo = runs[r].batch
            BY <5>2 DEF TypeOK
          <6> QED
            BY <1>2, <4>1, <5>2, <6>1 DEF SchedOK, Grows
        <5> QED
          BY <3>1, <5>1, <5>2 DEF Look
    <3>2. CASE ReconcileLost(s)
      <4> DEFINE left == sched[s].todo \ {Min(sched[s].todo)}
      <4>1. /\ sched'[s].now = sched[s].now /\ sched'[s].run = sched[s].run
            /\ sched'[s].todo = left
            /\ sched'[s].pc = IF left = {} THEN "close" ELSE sched[s].pc
        BY <1>1, <3>2 DEF ReconcileLost, SchedulerStates, TypeOK
      <4> HIDE DEF left
      <4> QED
        <5>1. sched[s].run \in RunIds /\ runs[sched[s].run].state # "none"
              /\ sched[s].now <= clock
          BY <3>2 DEF ReconcileLost, Shape, ProcessShape
        <5>2. runs'[sched[s].run].state # "none"
          BY <5>1 DEF Grows
        <5>3. sched'[s].pc = "reconcile" => sched'[s].todo # {}
          BY <4>1
        <5> QED
          BY <1>1, <4>1, <5>1, <5>2, <5>3, RowTypes DEF SchedOK
    <3>3. CASE CloseLost(s)
      <4>1. sched'[s] = [Idle EXCEPT !.pc = "begin", !.now = sched[s].now]
        BY <3>3 DEF CloseLost, TypeOK
      <4> QED
        BY <1>1, <4>1, RowTypes DEF SchedOK, Idle, Shape, ProcessShape
    <3>4. CASE BeginRun(s)
      <4>1. CASE Leave(s)
        BY <1>5, <4>1 DEF Leave, TypeOK
      <4>2. ASSUME NEW r \in RunIds,
                   runs' = [runs EXCEPT ![r] = [state |-> "open", at |-> sched[s].now,
                                                batch |-> Batch, head |-> 0]],
                   sched' = [sched EXCEPT ![s].pc = "launch", ![s].run = r]
            PROVE  SchedOK(s)
        <5>1. sched'[s].pc = "launch" /\ sched'[s].run = r /\ sched'[s].now = sched[s].now
          BY <1>1, <4>2 DEF TypeOK, SchedulerStates
        <5>2. runs'[r].state # "none"
          BY <4>2 DEF TypeOK
        <5> QED
          BY <1>1, <5>1, <5>2, RowTypes DEF SchedOK, Shape, ProcessShape
      <4> QED
        BY <3>4, <4>1, <4>2 DEF BeginRun
    <3>5. CASE WriteFile(s) \/ Launch(s)
      <4>1. /\ sched'[s].pc \in {"spawn", "record"}
            /\ sched'[s].run = sched[s].run /\ sched'[s].now = sched[s].now
        BY <1>1, <3>5 DEF WriteFile, Launch, Goto, TypeOK, SchedulerStates
      <4> QED
        BY <1>1, <3>5, <4>1, RowTypes DEF WriteFile, Launch, SchedOK, Shape, ProcessShape, Grows
    <3>6. CASE Record(s) \/ LaunchFails(s) \/ SchedulerDies(s)
      BY <1>5, <3>6 DEF Record, LaunchFails, SchedulerDies, Leave, TypeOK
    <3> QED
      BY <1>7, <3>1, <3>2, <3>3, <3>4, <3>5, <3>6 DEF Schedule
  <2>3. \A t \in Schedulers : SchedOK(t)
    BY <1>3, <2>1, <2>2 DEF TypeOK
  <2>4. \A r \in RunIds : WorkerOK(r)
    <3>1. CASE Launch(s)
      <4>1. sched[s].run \in RunIds /\ runs'[sched[s].run].state # "none"
        BY <3>1 DEF Launch, Shape, ProcessShape, Grows
      <4>2. ASSUME NEW r \in RunIds, r = sched[s].run PROVE WorkerOK(r)
        BY <3>1, <4>1, <4>2 DEF Launch, WorkerOK, WorkerAt, TypeOK
      <4>3. ASSUME NEW r \in RunIds, r # sched[s].run PROVE worker'[r] = worker[r]
        BY <3>1, <4>3 DEF Launch, TypeOK
      <4> QED
        BY <1>4, <4>2, <4>3
    <3>2. CASE ~Launch(s)
      <4>1. UNCHANGED worker
        BY <1>7, <3>2 DEF Schedule, Look, ReconcileLost, CloseLost, BeginRun, WriteFile, Record,
           LaunchFails, SchedulerDies
      <4> QED
        BY <1>4, <4>1
    <3> QED
      BY <3>1, <3>2
  <2> QED
    BY <2>3, <2>4
<1>8. ASSUME NEW r \in RunIds, Work(r) \/ WorkerDies(r) \/ ChildActs(r)
      PROVE  (\A s \in Schedulers : SchedOK(s)) /\ \A q \in RunIds : WorkerOK(q)
  <2>1. UNCHANGED sched
    BY <1>8 DEF Work, StartWorker, ReconcileOwn, ReadPending, RunChild, Heartbeat, EndAtDeadline,
       SeeExit, ApplyResult, FinishWorker, WorkerDies, ChildActs
  <2>2. \A q \in RunIds \ {r} : worker'[q] = worker[q]
    BY <1>8 DEF TypeOK, Work, StartWorker, ReconcileOwn, ReadPending, RunChild, Heartbeat,
       EndAtDeadline, SeeExit, ApplyResult, FinishWorker, WorkerDies, ChildActs, Ended
  <2>3. worker[r].pc # "none" => runs'[r].state # "none" /\ runs[r].batch # {}
    BY DEF Shape, ProcessShape, RunsShape, Grows
  <2>4. ASSUME worker[r].pc # "none", worker'[r].pc \notin {"first", "scope", "last", "apply"}
        PROVE  WorkerOK(r)
    BY <2>3, <2>4 DEF WorkerOK
  <2>5. ASSUME worker[r].pc # "none", worker'[r].todo # {}
        PROVE  WorkerOK(r)
    BY <2>3, <2>5 DEF WorkerOK
  <2>6. WorkerOK(r)
    <3>1. CASE StartWorker(r)
      <4>1. \/ worker'[r].todo = runs[r].batch
            \/ worker'[r].pc = "done"
        BY <1>2, <3>1 DEF StartWorker, TypeOK, WorkerStates
      <4> QED
        BY <2>3, <2>4, <2>5, <3>1, <4>1 DEF StartWorker
    <3>2. CASE ReconcileOwn(r)
      <4> DEFINE left == worker[r].todo \ {Min(worker[r].todo)}
                 after == CASE worker[r].pc = "first" -> "pending"
                            [] child[r].state = "ok" -> "apply"
                            [] OTHER -> "finish"
      <4>1. /\ worker'[r].pc = IF left = {} THEN after ELSE worker[r].pc
            /\ worker'[r].todo = IF left = {} /\ after = "apply" THEN runs[r].batch ELSE left
        BY <1>2, <3>2 DEF ReconcileOwn, TypeOK, WorkerStates
      <4>2. worker[r].pc # "none" /\ after \in {"pending", "apply", "finish"}
        BY <3>2 DEF ReconcileOwn
      <4> HIDE DEF left, after
      <4> QED
        BY <2>3, <2>4, <2>5, <4>1, <4>2
    <3>3. CASE ReadPending(r)
      <4>1. worker'[r].todo # {} \/ worker'[r].pc = "leave"
        BY <1>2, <3>3 DEF ReadPending, TypeOK, WorkerAt
      <4> QED
        BY <2>4, <2>5, <3>3, <4>1 DEF ReadPending
    <3>4. CASE RunChild(r)
      <4>1. worker'[r].pc \in {"leave", "running"}
        BY <3>4 DEF RunChild, TypeOK, WorkerAt
      <4> QED
        BY <2>4, <3>4, <4>1 DEF RunChild
    <3>5. CASE Heartbeat(r) \/ EndAtDeadline(r) \/ SeeExit(r)
      <4>1. worker'[r] = worker[r] \/ worker'[r].todo = runs[r].batch
        BY <1>2, <3>5 DEF Heartbeat, EndAtDeadline, SeeExit, Ended, TypeOK, WorkerStates
      <4> QED
        BY <1>4, <2>3, <2>5, <3>5, <4>1 DEF Heartbeat, EndAtDeadline, SeeExit
    <3>6. CASE ApplyResult(r)
      <4> DEFINE left == worker[r].todo \ {Min(worker[r].todo)}
      <4>1. /\ worker'[r].todo = left
            /\ worker'[r].pc = IF left = {} THEN "finish" ELSE worker[r].pc
        BY <1>2, <3>6 DEF ApplyResult, TypeOK, WorkerStates
      <4>2. worker[r].pc = "apply"
        BY <3>6 DEF ApplyResult
      <4> HIDE DEF left
      <4> QED
        BY <2>4, <2>5, <4>1, <4>2
    <3>7. CASE FinishWorker(r) \/ WorkerDies(r)
      <4>1. worker'[r].pc \in {"done", "gone"}
        BY <3>7 DEF FinishWorker, WorkerDies, WorkerAt, TypeOK
      <4> QED
        BY <2>4, <3>7, <4>1 DEF FinishWorker, WorkerDies, Working
    <3>8. CASE ChildActs(r)
      BY <1>4, <3>8 DEF ChildActs
    <3> QED
      BY <1>8, <3>1, <3>2, <3>3, <3>4, <3>5, <3>6, <3>7, <3>8 DEF Work
  <2> QED
    BY <1>3, <1>4, <2>1, <2>2, <2>6
<1>9. CASE AgentActs \/ Tick \/ UNCHANGED vars
  <2>1. UNCHANGED <<sched, worker>>
    BY <1>9 DEF AgentActs, Tick, vars
  <2> QED
    BY <1>3, <1>4, <2>1
<1> QED
  BY <1>7, <1>8, <1>9 DEF Next

\* The inductive invariant holds throughout.
LEMMA TriageInvariant == Spec => []TriageInv
<1>1. TriageInv /\ [Next]_vars => TriageInv'
  <2> SUFFICES ASSUME TriageInv, [Next]_vars PROVE TriageInv'
    OBVIOUS
  <2>1. TypeOK /\ FindingsInv /\ Shape /\ Ledger
    BY DEF TriageInv, Shape, Ledger
  <2>2. FindingsInv'
    BY <2>1, FindingsMove, FindingsStepKeeps
  <2>3. TypeOK'
    BY <2>1, <2>2, TypeStep DEF FindingsInv
  <2>4. Ledger' /\ Grows /\ clock' \in Nat /\ clock <= clock'
    BY <2>1, LedgerMove, LedgerKeeps
  <2>5. ProcessShape'
    BY <2>1, <2>4, ProcessesKeep
  <2> QED
    BY <2>2, <2>3, <2>4, <2>5 DEF TriageInv, Shape, Ledger
<1> QED
  BY InitTriage, <1>1, PTL DEF Spec

-----------------------------------------------------------------------------
(* What a child leaves behind *)

Fresh(f) == CanHandOff(f) /\ findings[f].reopened = 0

\* The worker of r has reconciled f after its child ended.
Reconciled(r, f) ==
  /\ f \in runs[r].batch
  /\ \/ worker[r].pc \in {"apply", "finish"}
     \/ worker[r].pc = "last" /\ f \notin worker[r].todo

\* A child is there only after its worker ran it, and does not run any more
\* when the worker goes on.
ChildRow(r) ==
  /\ worker[r].pc \in BeforeChild => child[r].state = "none"
  /\ worker[r].pc \in {"last", "apply", "finish"} => child[r].state \in {"ok", "failed"}

\* Batches and handoff files are about records.
Records ==
  /\ \A r \in RunIds :
       /\ runs[r].state = "none" => runs[r].batch = {}
       /\ \A f \in runs[r].batch : Exists(f)
  /\ \A f \in handoffs : Exists(f)

\* A run is launched once, by one scheduler.
Launching == {"launch", "spawn"}

LaunchedOnce ==
  \A s \in Schedulers : sched[s].pc \in Launching =>
    /\ worker[sched[s].run].pc = "none"
    /\ \A t \in Schedulers \ {s} :
         sched[t].pc \in Launching => sched[t].run # sched[s].run

CommitsSettle ==
  \A r \in RunIds : \A f \in FindingIds :
    Reconciled(r, f) /\ Fresh(f) /\ HasCommit(f, r, worker[r].papers) =>
      \E q \in RunIds \ {r} : f \in runs[q].batch /\ worker[q].pc \notin BeforeChild

HandoffsSettle ==
  \A f \in handoffs : Fresh(f) =>
    \E q \in RunIds : f \in runs[q].batch /\ child[q].state # "none" /\ ~Reconciled(q, f)

SettleInv ==
  /\ \A r \in RunIds : ChildRow(r)
  /\ Records /\ LaunchedOnce /\ CommitsSettle /\ HandoffsSettle

\* Records keep their fingerprint, and none becomes fresh again.
RecordsAge ==
  \A f \in FindingIds : Exists(f) =>
    /\ Exists(f)' /\ findings'[f].key = findings[f].key
    /\ Fresh(f)' => Fresh(f)

\* What a step may do to the worker, the child and the row of a run: a worker
\* never goes back; what it has reconciled newly has no artifact; and a child
\* that is forgotten had been reconciled.
Advances(r) ==
  /\ worker[r].pc \notin BeforeChild => worker'[r].pc \notin BeforeChild
  /\ \A f \in runs[r].batch : f \in runs'[r].batch
  /\ \A f \in FindingIds : Reconciled(r, f)' /\ Fresh(f)' =>
       /\ worker'[r].papers = worker[r].papers /\ runs'[r].head = runs[r].head
       /\ f \in runs[r].batch
       /\ Reconciled(r, f) \/ (~HasCommit(f, r, worker[r].papers) /\ f \notin handoffs)
  /\ child[r].state # "none" /\ child'[r].state = "none" =>
       \A f \in runs[r].batch : Reconciled(r, f)

\* There are no findings, runs and children at first.
LEMMA InitSettle == Init => SettleInv
<1> SUFFICES ASSUME Init PROVE SettleInv
  OBVIOUS
<1>1. \A r \in RunIds : /\ worker[r].pc = "none" /\ child[r].state = "none"
                        /\ runs[r].batch = {}
  BY DEF Init, WorkerAt, ChildIs, NoRow
<1>2. \A s \in Schedulers : sched[s].pc = "idle"
  BY DEF Init, Idle
<1>3. handoffs = {}
  BY DEF Init
<1> QED
  BY <1>1, <1>2, <1>3 DEF SettleInv, ChildRow, Records, LaunchedOnce, Launching, CommitsSettle,
     HandoffsSettle, Reconciled

\* Every operation on findings ages the records.
LEMMA FindingsStepAges == FindingsInv /\ FindingsStep => RecordsAge
<1> SUFFICES ASSUME FindingsInv, FindingsStep, NEW f \in FindingIds, Exists(f)
             PROVE  /\ Exists(f)' /\ findings'[f].key = findings[f].key
                    /\ Fresh(f)' => Fresh(f)
  BY DEF RecordsAge
<1> USE DEF Exists, Fresh, CanHandOff
<1>1. findings[f] \in FindingRows /\ findings \in [FindingIds -> FindingRows \cup {Blank}]
  BY DEF FindingsInv, FindingsTypeOK, FindingRows, Blank
<1>2. CASE UNCHANGED findings
  BY <1>2
<1>3. ASSUME NEW key \in Keys, Add(key) PROVE findings'[f] = findings[f]
  BY <1>1, <1>3 DEF Add
<1>4. ASSUME NEW g, HandOff(g)
      PROVE  /\ findings'[f] # Blank /\ findings'[f].key = findings[f].key
             /\ Fresh(f)' => Fresh(f)
  <2>1. CASE g = f
    <3>1. findings'[f].state = "handed-off" /\ findings'[f].key = findings[f].key
      BY <1>1, <1>4, <2>1 DEF HandOff, FindingRows
    <3>2. findings'[f] # Blank
      BY <3>1 DEF Blank
    <3> QED
      BY <3>1, <3>2
  <2>2. CASE g # f
    BY <1>1, <1>4, <2>2 DEF HandOff
  <2> QED
    BY <2>1, <2>2
<1>5. ASSUME NEW g, Reopen(g)
      PROVE  /\ findings'[f] # Blank /\ findings'[f].key = findings[f].key
             /\ Fresh(f)' => Fresh(f)
  <2>1. CASE g = f
    <3>1. findings' = [findings EXCEPT ![f] = [findings[f] EXCEPT
                        !.state = "pending", !.canonical = NoFinding, !.reopened = @ + 1]]
      BY <1>5, <2>1 DEF Reopen
    <3>2. findings'[f] = [findings[f] EXCEPT !.state = "pending", !.canonical = NoFinding,
                                             !.reopened = findings[f].reopened + 1]
      BY <1>1, <3>1
    <3>3. findings'[f].state = "pending" /\ findings'[f].key = findings[f].key
          /\ findings'[f].reopened = findings[f].reopened + 1
      BY <1>1, <3>2 DEF FindingRows
    <3>4. findings[f].reopened \in Nat
      BY <1>1 DEF FindingRows
    <3>5. findings'[f] # Blank
      BY <3>3 DEF Blank
    <3>6. ~Fresh(f)'
      BY <3>3, <3>4
    <3> QED
      BY <3>3, <3>5, <3>6
  <2>2. CASE g # f
    BY <1>1, <1>5, <2>2 DEF Reopen
  <2> QED
    BY <2>1, <2>2
<1>6. ASSUME NEW g, NEW state, NEW canonical, Resolve(g, state, canonical)
      PROVE  /\ findings'[f] # Blank /\ findings'[f].key = findings[f].key
             /\ Fresh(f)' => Fresh(f)
  <2>1. state # "absent" /\ state # "pending"
    BY <1>6 DEF Resolve, CanResolve, Terminal
  <2>2. CASE g = f
    <3>1. findings'[f].state = state /\ findings'[f].key = findings[f].key
      BY <1>1, <1>6, <2>2 DEF Resolve, FindingRows
    <3>2. findings'[f] # Blank
      BY <2>1, <3>1 DEF Blank
    <3> QED
      BY <2>1, <3>1, <3>2
  <2>3. CASE g # f
    BY <1>1, <1>6, <2>3 DEF Resolve
  <2> QED
    BY <2>2, <2>3
<1> QED
  BY <1>2, <1>3, <1>4, <1>5, <1>6 DEF FindingsStep

\* A run whose worker, child and row stay advances.
LEMMA RowStays ==
  ASSUME NEW r \in RunIds, ChildRow(r), worker'[r] = worker[r], child'[r] = child[r],
         runs'[r].batch = runs[r].batch, runs'[r].head = runs[r].head
  PROVE  Advances(r) /\ ChildRow(r)'
BY DEF Advances, ChildRow, Reconciled

\* A finding that was reconciled just now and is fresh still has no artifact.
LEMMA ReconcileSettles ==
  ASSUME TypeOK, NEW f \in FindingIds, NEW r \in RunIds, NEW papers, Reconcile(f, r, papers),
         Fresh(f)'
  PROVE  ~HasCommit(f, r, papers) /\ f \notin handoffs
<1> USE DEF Fresh, CanHandOff
<1>1. findings \in [FindingIds -> FindingRows \cup {Blank}] /\ findings'[f].state = "pending"
  BY DEF TypeOK, FindingsTypeOK
<1>2. ~Resolve(f, "fixed", NoFinding)
  <2> SUFFICES ASSUME Resolve(f, "fixed", NoFinding) PROVE FALSE
    OBVIOUS
  <2>1. findings[f] \in FindingRows
    BY <1>1 DEF Resolve, CanResolve, IsOpen, Open, Blank
  <2>2. findings'[f].state = "fixed"
    BY <1>1, <2>1 DEF Resolve, FindingRows
  <2> QED
    BY <1>1, <2>2
<1>3. ~HandOff(f)
  <2> SUFFICES ASSUME HandOff(f) PROVE FALSE
    OBVIOUS
  <2>1. findings[f] \in FindingRows
    BY <1>1 DEF HandOff, Blank
  <2>2. findings'[f].state = "handed-off"
    BY <1>1, <2>1 DEF HandOff, FindingRows
  <2> QED
    BY <1>1, <2>2
<1> QED
  BY <1>1, <1>2, <1>3 DEF Reconcile

\* In every step every run advances.
LEMMA RunsAdvance ==
  ASSUME TypeOK, Shape, SettleInv, RecordsAge, [Next]_vars
  PROVE  \A r \in RunIds : Advances(r) /\ ChildRow(r)'
<1>1. \A r \in RunIds : ChildRow(r)
  BY DEF SettleInv
<1>2. \A r \in RunIds : runs[r] \in RunRows /\ runs[r].batch \subseteq FindingIds
                        /\ worker[r] \in WorkerStates /\ child[r] \in Children
  BY DEF TypeOK, RunRows
<1>3. ASSUME UNCHANGED <<worker, child>>,
             \A r \in RunIds : runs'[r].batch = runs[r].batch /\ runs'[r].head = runs[r].head
      PROVE  \A r \in RunIds : Advances(r) /\ ChildRow(r)'
  BY <1>1, <1>3, RowStays
<1>4. ASSUME NEW r \in RunIds, runs' = [runs EXCEPT ![r].state = "closed"]
      PROVE  \A q \in RunIds : runs'[q].batch = runs[q].batch /\ runs'[q].head = runs[q].head
  BY <1>2, <1>4 DEF TypeOK, RunRows
<1>5. ASSUME NEW r \in RunIds, worker'[r].pc \notin {"last", "apply", "finish"},
             worker[r].pc \notin BeforeChild => worker'[r].pc \notin BeforeChild,
             \A f \in runs[r].batch : f \in runs'[r].batch,
             child[r].state # "none" /\ child'[r].state = "none" =>
               \A f \in runs[r].batch : Reconciled(r, f),
             worker'[r].pc \in BeforeChild => child'[r].state = "none"
      PROVE  Advances(r) /\ ChildRow(r)'
  BY <1>5 DEF Advances, ChildRow, Reconciled
<1>6. ASSUME NEW s \in Schedulers, Schedule(s) \/ LaunchFails(s) \/ SchedulerDies(s)
      PROVE  \A r \in RunIds : Advances(r) /\ ChildRow(r)'
  <2>1. CASE Look(s) \/ ReconcileLost(s) \/ Record(s) \/ SchedulerDies(s)
    BY <1>3, <2>1 DEF Look, ReconcileLost, Record, SchedulerDies
  <2>2. CASE CloseLost(s)
    <3>1. sched[s].run \in RunIds
      BY <2>2 DEF CloseLost, Shape, ProcessShape
    <3> QED
      BY <1>3, <1>4, <2>2, <3>1 DEF CloseLost
  <2>3. CASE LaunchFails(s)
    <3>1. sched[s].run \in RunIds
      BY <2>3 DEF LaunchFails, Shape, ProcessShape
    <3> QED
      BY <1>3, <1>4, <2>3, <3>1 DEF LaunchFails, FinishRun
  <2>4. CASE BeginRun(s)
    <3>1. CASE UNCHANGED runs
      BY <1>3, <2>4, <3>1 DEF BeginRun
    <3>2. ASSUME NEW r \in RunIds, runs[r].state = "none",
                 runs' = [runs EXCEPT ![r] = [state |-> "open", at |-> sched[s].now,
                                              batch |-> Batch, head |-> 0]]
          PROVE  \A q \in RunIds : Advances(q) /\ ChildRow(q)'
      <4>1. \A q \in RunIds \ {r} : runs'[q] = runs[q]
        BY <3>2 DEF TypeOK
      <4>2. UNCHANGED <<worker, child>>
        BY <2>4 DEF BeginRun
      <4>3. worker[r].pc = "none" /\ runs[r].batch = {}
        BY <3>2 DEF Shape, ProcessShape, SettleInv, Records
      <4>4. Advances(r) /\ ChildRow(r)'
        BY <1>1, <1>5, <4>2, <4>3 DEF ChildRow
      <4>5. \A q \in RunIds \ {r} : Advances(q) /\ ChildRow(q)'
        BY <1>1, <4>1, <4>2, RowStays
      <4> QED
        BY <4>4, <4>5
    <3> QED
      BY <2>4, <3>1, <3>2 DEF BeginRun
  <2>6. CASE WriteFile(s)
    <3>1. PICK r \in RunIds : r = sched[s].run /\ worker[r].pc = "none"
      BY <2>6 DEF WriteFile, Shape, ProcessShape, SettleInv, LaunchedOnce, Launching
    <3>2. UNCHANGED <<worker, child>> /\ runs' = [runs EXCEPT ![r].head = Len(log)]
      BY <2>6, <3>1 DEF WriteFile
    <3>3. \A q \in RunIds \ {r} : runs'[q] = runs[q]
      BY <3>1, <3>2 DEF TypeOK
    <3>4. runs'[r].batch = runs[r].batch
      BY <1>2, <3>1, <3>2 DEF TypeOK, RunRows
    <3>5. worker[r].pc \in BeforeChild /\ child[r].state = "none"
      BY <1>1, <3>1 DEF ChildRow, BeforeChild
    <3>6. Advances(r) /\ ChildRow(r)'
      BY <1>5, <3>1, <3>2, <3>4, <3>5
    <3>7. \A q \in RunIds \ {r} : Advances(q) /\ ChildRow(q)'
      BY <1>1, <3>2, <3>3, RowStays
    <3> QED
      BY <3>6, <3>7
  <2>5. CASE Launch(s)
    <3>1. PICK r \in RunIds : r = sched[s].run /\ worker[r].pc = "none"
      BY <2>5 DEF Launch, Shape, ProcessShape, SettleInv, LaunchedOnce, Launching
    <3>2. worker' = [worker EXCEPT ![r] = WorkerAt("starting")] /\ UNCHANGED <<child, runs>>
      BY <2>5, <3>1 DEF Launch
    <3>3. \A q \in RunIds \ {r} : runs'[q] = runs[q] /\ worker'[q] = worker[q]
                                  /\ child'[q] = child[q]
      BY <3>1, <3>2 DEF TypeOK
    <3>4. runs'[r].batch = runs[r].batch /\ worker'[r].pc = "starting"
          /\ child'[r] = child[r]
      BY <1>2, <3>1, <3>2 DEF TypeOK, RunRows, WorkerAt
    <3>5. worker[r].pc \in BeforeChild /\ child[r].state = "none"
      BY <1>1, <3>1 DEF ChildRow, BeforeChild
    <3>6. Advances(r) /\ ChildRow(r)'
      BY <1>5, <3>1, <3>4, <3>5
    <3>7. \A q \in RunIds \ {r} : Advances(q) /\ ChildRow(q)'
      BY <1>1, <3>3, RowStays
    <3> QED
      BY <3>6, <3>7
  <2> QED
    BY <1>6, <2>1, <2>2, <2>3, <2>4, <2>5, <2>6 DEF Schedule
<1>7. ASSUME NEW r \in RunIds, Work(r) \/ WorkerDies(r) \/ ChildActs(r)
      PROVE  \A q \in RunIds : Advances(q) /\ ChildRow(q)'
  <2>1. \A q \in RunIds : runs'[q].batch = runs[q].batch /\ runs'[q].head = runs[q].head
    <3>1. UNCHANGED runs \/ runs' = [runs EXCEPT ![r].state = "closed"]
      BY <1>7 DEF Work, StartWorker, ReconcileOwn, ReadPending, RunChild, Heartbeat,
         EndAtDeadline, SeeExit, ApplyResult, FinishWorker, FinishRun, WorkerDies, ChildActs
    <3> QED
      BY <1>4, <3>1
  <2>2. \A q \in RunIds \ {r} : worker'[q] = worker[q] /\ child'[q] = child[q]
    BY <1>7 DEF TypeOK, Work, StartWorker, ReconcileOwn, ReadPending, RunChild, Heartbeat,
       EndAtDeadline, SeeExit, ApplyResult, FinishWorker, WorkerDies, ChildActs, Ended
  <2>3. \A q \in RunIds \ {r} : Advances(q) /\ ChildRow(q)'
    BY <1>1, <2>1, <2>2, RowStays
  <2>4. \A f \in runs[r].batch : f \in runs'[r].batch
    BY <2>1
  <2>5. Advances(r) /\ ChildRow(r)'
    <3>1. CASE StartWorker(r)
      <4>1. worker'[r].pc \in {"first", "done"} /\ child' = child
        BY <1>2, <3>1 DEF StartWorker, TypeOK, WorkerStates
      <4>2. worker[r].pc \in BeforeChild /\ child[r].state = "none"
        BY <1>1, <3>1 DEF StartWorker, ChildRow, BeforeChild
      <4> QED
        BY <1>5, <2>4, <4>1, <4>2
    <3>2. CASE ReconcileOwn(r)
      <4>0. PICK f \in FindingIds : f = Min(worker[r].todo)
        <5>1. worker[r].todo \in SUBSET FindingIds /\ worker[r].todo # {}
          BY <1>2, <3>2 DEF ReconcileOwn, WorkerStates, Shape, ProcessShape
        <5>2. worker[r].todo \in SUBSET Nat
          BY <5>1 DEF FindingIds
        <5>3. Min(worker[r].todo) \in worker[r].todo
          BY <5>1, <5>2, MinIsThere
        <5> QED
          BY <5>1, <5>3
      <4> DEFINE left == worker[r].todo \ {f}
                 after == CASE worker[r].pc = "first" -> "pending"
                            [] child[r].state = "ok" -> "apply"
                            [] OTHER -> "finish"
      <4>1. /\ worker'[r].pc = IF left = {} THEN after ELSE worker[r].pc
            /\ left # {} => worker'[r].todo = left
            /\ worker'[r].papers = worker[r].papers
        <5> DEFINE rest == worker[r].todo \ {Min(worker[r].todo)}
        <5>1. /\ worker'[r].pc = IF rest = {} THEN after ELSE worker[r].pc
              /\ rest # {} => worker'[r].todo = rest
              /\ worker'[r].papers = worker[r].papers
          BY <1>2, <3>2 DEF ReconcileOwn, TypeOK, WorkerStates
        <5> QED
          BY <4>0, <5>1
      <4>2. UNCHANGED child /\ worker[r].pc \in {"first", "last"}
            /\ Reconcile(f, r, worker[r].papers)
        BY <3>2, <4>0 DEF ReconcileOwn
      <4>3. after = "pending" \/ (worker[r].pc = "last" /\ after \in {"apply", "finish"})
        <5>1. CASE worker[r].pc = "first"
          <6>1. child[r].state = "none"
            BY <1>1, <5>1 DEF ChildRow, BeforeChild
          <6> QED
            BY <5>1, <6>1
        <5>2. CASE worker[r].pc = "last" /\ child[r].state = "ok"
          BY <5>2
        <5>3. CASE worker[r].pc = "last" /\ child[r].state # "ok"
          BY <5>3
        <5> QED
          BY <4>2, <5>1, <5>2, <5>3
      <4>5. Fresh(f)' => ~HasCommit(f, r, worker[r].papers) /\ f \notin handoffs
        BY <4>2, ReconcileSettles
      <4>6. \A g : g \notin left <=> g = f \/ g \notin worker[r].todo
        OBVIOUS
      <4> HIDE DEF left, after
      <4>7. CASE worker[r].pc = "first"
        <5>1. worker'[r].pc \in {"first", "pending"}
          BY <4>1, <4>3, <4>7
        <5>2. worker[r].pc \in BeforeChild /\ child[r].state = "none"
          BY <1>1, <4>7 DEF ChildRow, BeforeChild
        <5> QED
          BY <1>5, <2>4, <4>2, <5>1, <5>2
      <4>8. CASE worker[r].pc = "last"
        <5>1. worker'[r].pc \in {"last", "apply", "finish"} \/ after = "pending"
          BY <4>1, <4>3, <4>8
        <5>2. after # "pending"
          BY <4>8 DEF after
        <5>3. child[r].state \in {"ok", "failed"}
          BY <1>1, <4>8 DEF ChildRow
        <5>4. ChildRow(r)' /\ worker'[r].pc \notin BeforeChild
          BY <4>2, <5>1, <5>2, <5>3 DEF ChildRow, BeforeChild
        <5>5. ASSUME NEW g \in FindingIds, Reconciled(r, g)', Fresh(g)'
              PROVE  /\ g \in runs[r].batch
                     /\ Reconciled(r, g) \/ (~HasCommit(g, r, worker[r].papers)
                                             /\ g \notin handoffs)
          <6>1. g \in runs[r].batch
            BY <2>1, <5>5 DEF Reconciled
          <6>2. g \notin left
            <7>1. CASE left = {}
              BY <7>1
            <7>2. CASE left # {}
              BY <4>1, <4>8, <5>5, <7>2 DEF Reconciled
            <7> QED
              BY <7>1, <7>2
          <6>3. CASE g = f
            BY <4>5, <5>5, <6>1, <6>3
          <6>4. CASE g # f
            BY <4>6, <4>8, <6>1, <6>2, <6>4 DEF Reconciled
          <6> QED
            BY <6>1, <6>3, <6>4
        <5> QED
          BY <2>1, <2>4, <4>1, <4>2, <5>3, <5>4, <5>5 DEF Advances
      <4> QED
        BY <4>2, <4>7, <4>8
    <3>3. CASE ReadPending(r)
      <4>1. worker'[r].pc \in {"leave", "scope"} /\ child' = child
        BY <1>2, <3>3 DEF ReadPending, TypeOK, WorkerAt
      <4>2. worker[r].pc \in BeforeChild /\ child[r].state = "none"
        BY <1>1, <3>3 DEF ReadPending, ChildRow, BeforeChild
      <4> QED
        BY <1>5, <2>4, <4>1, <4>2
    <3>4. CASE RunChild(r)
      <4>1. \/ worker'[r].pc = "leave" /\ child' = child
            \/ worker'[r].pc = "running" /\ child'[r].state = "running"
        BY <3>4 DEF RunChild, TypeOK, WorkerAt, ChildIs
      <4>2. worker[r].pc \in BeforeChild /\ child[r].state = "none"
        BY <1>1, <3>4 DEF RunChild, ChildRow, BeforeChild
      <4> QED
        BY <1>5, <2>4, <4>1, <4>2 DEF BeforeChild
    <3>5. CASE Heartbeat(r) \/ EndAtDeadline(r) \/ SeeExit(r)
      <4>1. CASE UNCHANGED <<worker, child>>
        BY <1>1, <2>1, <4>1, RowStays
      <4>2. CASE Ended(r) /\ child'[r].state \in {"ok", "failed"}
        <5>1. worker'[r].pc = "last" /\ worker'[r].todo = runs[r].batch
          BY <1>2, <4>2 DEF Ended, TypeOK, WorkerStates
        <5>2. ChildRow(r)' /\ worker'[r].pc \notin BeforeChild
          BY <4>2, <5>1 DEF ChildRow, BeforeChild
        <5>3. \A f : ~Reconciled(r, f)'
          BY <2>1, <5>1 DEF Reconciled
        <5> QED
          BY <2>4, <4>2, <5>2, <5>3 DEF Advances
      <4> QED
        BY <3>5, <4>1, <4>2 DEF Heartbeat, EndAtDeadline, SeeExit, ChildIs, TypeOK
    <3>6. CASE ApplyResult(r)
      <4>1. worker[r].pc = "apply" /\ worker'[r].pc \in {"apply", "finish"}
            /\ worker'[r].papers = worker[r].papers /\ UNCHANGED child
        BY <1>2, <3>6 DEF ApplyResult, TypeOK, WorkerStates
      <4>2. ChildRow(r)' /\ worker'[r].pc \notin BeforeChild
        BY <1>1, <4>1 DEF ChildRow, BeforeChild
      <4>3. \A f : Reconciled(r, f)' => Reconciled(r, f)
        BY <2>1, <4>1 DEF Reconciled
      <4> QED
        BY <2>1, <2>4, <4>1, <4>2, <4>3 DEF Advances, Reconciled
    <3>7. CASE FinishWorker(r)
      <4>1. worker'[r].pc = "done" /\ worker[r].pc \in {"finish", "leave"}
        BY <3>7 DEF FinishWorker, TypeOK, WorkerAt
      <4>2. child[r].state # "none" => \A f \in runs[r].batch : Reconciled(r, f)
        BY <1>1, <4>1 DEF ChildRow, Reconciled, BeforeChild
      <4> QED
        BY <1>5, <2>4, <4>1, <4>2 DEF BeforeChild
    <3>8. CASE WorkerDies(r)
      <4>1. worker'[r].pc = "gone" /\ UNCHANGED child
        BY <3>8 DEF WorkerDies, TypeOK, WorkerAt
      <4> QED
        BY <1>5, <2>4, <4>1 DEF BeforeChild
    <3>9. CASE ChildActs(r)
      <4>1. child[r].state = "running" /\ worker' = worker
            /\ child'[r].state \in {"running", "ok", "failed"}
        BY <3>9 DEF ChildActs, TypeOK, ChildIs
      <4>2. worker[r].pc \notin {"last", "apply", "finish"} /\ worker[r].pc \notin BeforeChild
        BY <1>1, <4>1 DEF ChildRow
      <4> QED
        BY <1>5, <2>4, <4>1, <4>2
    <3> QED
      BY <1>7, <3>1, <3>2, <3>3, <3>4, <3>5, <3>6, <3>7, <3>8, <3>9 DEF Work
  <2> QED
    BY <2>3, <2>5
<1>8. CASE AgentActs \/ Tick \/ UNCHANGED vars
  BY <1>3, <1>8 DEF AgentActs, Tick, vars
<1> QED
  BY <1>6, <1>7, <1>8 DEF Next

\* Who begins a run is its only scheduler, and launches it before its worker is
\* there.
LEMMA LaunchedOnceKeeps ==
  ASSUME TypeOK, Shape, LaunchedOnce, [Next]_vars
  PROVE  LaunchedOnce'
<1>1. ASSUME \A s \in Schedulers : sched'[s].pc \in Launching =>
               /\ sched[s].pc \in Launching /\ sched'[s].run = sched[s].run
               /\ worker'[sched[s].run].pc = "none"
      PROVE  LaunchedOnce'
  BY <1>1 DEF LaunchedOnce
<1>2. ASSUME UNCHANGED <<sched, worker>> PROVE LaunchedOnce'
  BY <1>2 DEF LaunchedOnce
<1>3. \A s \in Schedulers : sched[s] \in SchedulerStates
  BY DEF TypeOK
<1>4. ASSUME NEW s \in Schedulers, Schedule(s) \/ LaunchFails(s) \/ SchedulerDies(s)
      PROVE  LaunchedOnce'
  <2>1. \A t \in Schedulers \ {s} : sched'[t] = sched[t]
    BY <1>4 DEF TypeOK, Schedule, Look, ReconcileLost, CloseLost, BeginRun, WriteFile, Launch, Record,
       LaunchFails, SchedulerDies, Leave, Goto
  <2>2. ASSUME UNCHANGED worker, sched'[s].pc \notin Launching PROVE LaunchedOnce'
    BY <1>1, <2>1, <2>2 DEF LaunchedOnce
  <2>3. CASE Look(s)
    <3>1. sched'[s].pc \notin Launching
      <4>1. CASE sched' = [sched EXCEPT ![s] = [Idle EXCEPT !.pc = "begin", !.now = clock]]
        <5>1. sched'[s] = [Idle EXCEPT !.pc = "begin", !.now = clock]
          BY <4>1 DEF TypeOK
        <5> QED
          BY <5>1 DEF Idle, Launching
      <4>2. ASSUME NEW r \in RunIds, NEW pc \in {"reconcile", "close"},
                   sched' = [sched EXCEPT ![s] =
                     [pc |-> pc, now |-> clock, run |-> r, seen |-> meta[r],
                      todo |-> runs[r].batch]]
            PROVE  sched'[s].pc \notin Launching
        BY <4>2 DEF TypeOK, Launching
      <4> QED
        BY <2>3, <4>1, <4>2 DEF Look
    <3> QED
      BY <2>2, <2>3, <3>1 DEF Look
  <2>4. CASE ReconcileLost(s)
    <3> DEFINE left == sched[s].todo \ {Min(sched[s].todo)}
    <3>1. sched'[s].pc = IF left = {} THEN "close" ELSE sched[s].pc
      BY <1>3, <2>4 DEF ReconcileLost, TypeOK, SchedulerStates
    <3>2. sched[s].pc = "reconcile" /\ UNCHANGED worker
      BY <2>4 DEF ReconcileLost
    <3> HIDE DEF left
    <3>3. sched'[s].pc \notin Launching
      BY <3>1, <3>2 DEF Launching
    <3> QED
      BY <2>2, <3>2, <3>3
  <2>5. CASE CloseLost(s) \/ Record(s) \/ LaunchFails(s) \/ SchedulerDies(s)
    <3>1. sched'[s].pc \notin Launching
      <4>1. CASE Record(s) \/ LaunchFails(s) \/ SchedulerDies(s)
        BY <4>1 DEF Record, LaunchFails, SchedulerDies, Leave, TypeOK, Idle, Launching
      <4>2. CASE CloseLost(s)
        <5>1. sched'[s] = [Idle EXCEPT !.pc = "begin", !.now = sched[s].now]
          BY <4>2 DEF CloseLost, TypeOK
        <5> QED
          BY <5>1 DEF Idle, Launching
      <4> QED
        BY <2>5, <4>1, <4>2
    <3> QED
      BY <2>2, <2>5, <3>1 DEF CloseLost, Record, LaunchFails, SchedulerDies
  <2>6. CASE BeginRun(s)
    <3>1. UNCHANGED worker
      BY <2>6 DEF BeginRun
    <3>2. CASE Leave(s)
      BY <2>2, <3>1, <3>2 DEF Leave, TypeOK, Idle, Launching
    <3>3. ASSUME NEW r \in RunIds, runs[r].state = "none",
                 sched' = [sched EXCEPT ![s].pc = "launch", ![s].run = r]
          PROVE  LaunchedOnce'
      <4>1. sched'[s].run = r
        BY <1>3, <3>3 DEF TypeOK, SchedulerStates
      <4>2. worker[r].pc = "none"
        BY <3>3 DEF Shape, ProcessShape
      <4>3. \A t \in Schedulers \ {s} : sched[t].pc \in Launching => sched[t].run # r
        BY <3>3 DEF Shape, ProcessShape, Launching
      <4> QED
        BY <2>1, <3>1, <4>1, <4>2, <4>3 DEF LaunchedOnce
    <3> QED
      BY <2>6, <3>2, <3>3 DEF BeginRun
  <2>8. CASE WriteFile(s)
    <3>1. sched[s].pc \in Launching /\ sched'[s].run = sched[s].run /\ UNCHANGED worker
      BY <1>3, <2>8 DEF WriteFile, Goto, TypeOK, SchedulerStates, Launching
    <3> QED
      BY <1>1, <2>1, <3>1 DEF LaunchedOnce
  <2>7. CASE Launch(s)
    <3>1. sched'[s].pc = "record"
      BY <1>3, <2>7 DEF Launch, Goto, TypeOK, SchedulerStates
    <3>2. ASSUME NEW t \in Schedulers, sched'[t].pc \in Launching
          PROVE  /\ sched[t].pc \in Launching /\ sched'[t].run = sched[t].run
                 /\ worker'[sched[t].run].pc = "none"
      <4>1. t # s /\ sched'[t] = sched[t] /\ sched[t].pc \in Launching
        BY <2>1, <3>1, <3>2 DEF Launching
      <4>2. sched[t].run # sched[s].run /\ worker[sched[t].run].pc = "none"
        BY <2>7, <4>1 DEF Launch, LaunchedOnce, Launching
      <4>3. sched[t].run \in RunIds
        BY <4>1 DEF Shape, ProcessShape, Launching
      <4>4. worker'[sched[t].run] = worker[sched[t].run]
        BY <2>7, <4>2, <4>3 DEF Launch, TypeOK
      <4> QED
        BY <4>1, <4>2, <4>4
    <3> QED
      BY <1>1, <3>2
  <2> QED
    BY <1>4, <2>3, <2>4, <2>5, <2>6, <2>7, <2>8 DEF Schedule
<1>5. ASSUME NEW r \in RunIds, Work(r) \/ WorkerDies(r) \/ ChildActs(r) PROVE LaunchedOnce'
  <2>1. UNCHANGED sched
    BY <1>5 DEF Work, StartWorker, ReconcileOwn, ReadPending, RunChild, Heartbeat,
       EndAtDeadline, SeeExit, ApplyResult, FinishWorker, WorkerDies, ChildActs
  <2>2. \A q \in RunIds \ {r} : worker'[q] = worker[q]
    BY <1>5 DEF TypeOK, Work, StartWorker, ReconcileOwn, ReadPending, RunChild, Heartbeat,
       EndAtDeadline, SeeExit, ApplyResult, FinishWorker, WorkerDies, ChildActs, Ended
  <2>3. worker[r].pc # "none" \/ UNCHANGED worker
    BY <1>5 DEF Work, StartWorker, ReconcileOwn, ReadPending, RunChild, Heartbeat,
       EndAtDeadline, SeeExit, ApplyResult, FinishWorker, WorkerDies, ChildActs, Working
  <2>4. ASSUME NEW s \in Schedulers, sched[s].pc \in Launching
        PROVE  worker'[sched[s].run] = worker[sched[s].run]
    <3>1. sched[s].run \in RunIds /\ worker[sched[s].run].pc = "none"
      BY <2>4 DEF Shape, ProcessShape, LaunchedOnce, Launching
    <3> QED
      BY <2>2, <2>3, <3>1
  <2> QED
    BY <1>1, <2>1, <2>4 DEF LaunchedOnce
<1>6. CASE AgentActs \/ Tick \/ UNCHANGED vars
  BY <1>2, <1>6 DEF AgentActs, Tick, vars
<1> QED
  BY <1>4, <1>5, <1>6 DEF Next

\* What a step does to commits and handoff files: only a child adds one, about a
\* finding of its batch, and nothing else changes then.
Publishes(r) ==
  /\ child[r].state = "running" /\ UNCHANGED <<findings, runs, worker, child>>
  /\ \E f \in runs[r].batch : \/ log' = Append(log, f) /\ UNCHANGED handoffs
                              \/ handoffs' = handoffs \cup {f} /\ UNCHANGED log

LEMMA ArtifactsMove ==
  ASSUME [Next]_vars
  PROVE  UNCHANGED <<log, handoffs>> \/ \E r \in RunIds : Publishes(r)
<1>1. ASSUME NEW r \in RunIds, ChildActs(r) PROVE UNCHANGED <<log, handoffs>> \/ Publishes(r)
  BY <1>1 DEF ChildActs, Publishes
<1>2. ASSUME NEW s \in Schedulers, Schedule(s) \/ LaunchFails(s) \/ SchedulerDies(s)
      PROVE  UNCHANGED <<log, handoffs>>
  BY <1>2 DEF Schedule, Look, ReconcileLost, CloseLost, BeginRun, WriteFile, Launch, Record,
     LaunchFails, SchedulerDies
<1>3. ASSUME NEW r \in RunIds, Work(r) \/ WorkerDies(r) PROVE UNCHANGED <<log, handoffs>>
  BY <1>3 DEF Work, StartWorker, ReconcileOwn, ReadPending, RunChild, Heartbeat,
     EndAtDeadline, SeeExit, ApplyResult, FinishWorker, WorkerDies
<1>4. CASE AgentActs \/ Tick \/ UNCHANGED vars
  BY <1>4 DEF AgentActs, Tick, vars
<1> QED
  BY <1>1, <1>2, <1>3, <1>4 DEF Next

\* Batches are made of pending records, and children write about their batch.
LEMMA RecordsKeep ==
  ASSUME TypeOK, Shape, Records, RecordsAge, [Next]_vars
  PROVE  Records'
<1>1. \A r \in RunIds : runs[r] \in RunRows /\ runs[r].batch \subseteq FindingIds
  BY DEF TypeOK, RunRows
<1>2. \A r \in RunIds : \A f \in runs[r].batch : Exists(f)'
  BY <1>1 DEF Records, RecordsAge
<1>3. \A f \in handoffs : Exists(f)'
  BY DEF Records, RecordsAge, TypeOK
<1>4. \A f \in handoffs' : Exists(f)'
  <2>1. CASE UNCHANGED <<log, handoffs>>
    BY <1>3, <2>1
  <2>2. ASSUME NEW r \in RunIds, Publishes(r) PROVE \A f \in handoffs' : Exists(f)'
    BY <1>2, <1>3, <2>2 DEF Publishes
  <2> QED
    BY <2>1, <2>2, ArtifactsMove
<1>5. LedgerStep
  BY LedgerMove
<1>6. ASSUME NEW r \in RunIds
      PROVE  (runs'[r].state = "none" => runs'[r].batch = {}) /\ \A f \in runs'[r].batch : Exists(f)'
  <2>1. ASSUME runs'[r].batch = runs[r].batch, runs'[r].state = "none" => runs[r].state = "none"
        PROVE  (runs'[r].state = "none" => runs'[r].batch = {})
               /\ \A f \in runs'[r].batch : Exists(f)'
    BY <1>2, <2>1 DEF Records
  <2>2. CASE Releases
    BY <2>1, <2>2 DEF Releases
  <2>3. ASSUME NEW q \in RunIds, SetsHead(q) \/ Extends(q) \/ Closes(q)
        PROVE  runs'[r].batch = runs[r].batch /\ (runs'[r].state = "none" => runs[r].state = "none")
    <3>1. CASE Extends(q)
      BY <3>1 DEF Extends
    <3>2. CASE SetsHead(q)
      BY <1>1, <3>2 DEF SetsHead, TypeOK, RunRows
    <3>3. CASE Closes(q)
      BY <1>1, <3>3 DEF Closes, TypeOK, RunRows
    <3> QED
      BY <2>3, <3>1, <3>2, <3>3
  <2>4. ASSUME NEW q \in RunIds, NEW now \in Times, Begins(q, now)
        PROVE  (runs'[r].state = "none" => runs'[r].batch = {})
               /\ \A f \in runs'[r].batch : Exists(f)'
    <3>1. CASE r = q
      <4>1. runs'[r].state = "open" /\ runs'[r].batch = Batch
        BY <2>4, <3>1 DEF Begins, TypeOK
      <4>2. \A f \in Batch : f \in FindingIds /\ Exists(f)
        BY DEF Batch, CanHandOff, Exists, Blank
      <4> QED
        BY <4>1, <4>2 DEF RecordsAge
    <3>2. CASE r # q
      <4>1. runs'[r] = runs[r]
        BY <2>4, <3>2 DEF Begins, TypeOK
      <4> QED
        BY <2>1, <4>1
    <3> QED
      BY <3>1, <3>2
  <2> QED
    BY <1>5, <2>1, <2>2, <2>3, <2>4 DEF LedgerStep
<1> QED
  BY <1>4, <1>6 DEF Records

\* One more commit counts for the findings it names only.
LEMMA CommitCounts ==
  ASSUME TypeOK, NEW r \in RunIds, NEW f \in FindingIds, NEW g \in FindingIds, f # g,
         UNCHANGED <<findings, runs>>, log' = Append(log, g), NEW papers,
         HasCommit(f, r, papers)'
  PROVE  HasCommit(f, r, papers)
<1>1. Len(log) \in Nat /\ Len(log') = Len(log) + 1 /\ log'[Len(log) + 1] = g
      /\ \A i \in 1 .. Len(log) : log'[i] = log[i]
  BY DEF TypeOK
<1>2. runs[r].head \in Nat
  BY Bounds DEF TypeOK, RunRows
<1>3. \A i : i \in runs[r].head + 1 .. Len(log) + 1 /\ log'[i] = f
        <=> i \in runs[r].head + 1 .. Len(log) /\ log[i] = f
  BY <1>1, <1>2
<1>4. CommitsFor(f, r)' = CommitsFor(f, r)
  BY <1>1, <1>3 DEF CommitsFor
<1> QED
  BY <1>4 DEF HasCommit

\* What holds of artifacts is kept by every step.
LEMMA SettleKeeps ==
  ASSUME TypeOK, Shape, SettleInv, RecordsAge, [Next]_vars
  PROVE  SettleInv'
<1>1. \A r \in RunIds : Advances(r) /\ ChildRow(r)' /\ ChildRow(r)
  BY RunsAdvance DEF SettleInv
<1>2. \A r \in RunIds : runs[r].batch \subseteq FindingIds
  BY DEF TypeOK, RunRows
<1>3. \A f \in FindingIds : f \in handoffs => Exists(f)
  BY DEF SettleInv, Records
<1>4. SettleInv => Records' /\ LaunchedOnce'
  BY RecordsKeep, LaunchedOnceKeeps DEF SettleInv
<1>5. CASE UNCHANGED <<log, handoffs>>
  <2>1. ASSUME NEW r \in RunIds, NEW f \in FindingIds, Reconciled(r, f)', Fresh(f)',
               HasCommit(f, r, worker[r].papers)'
        PROVE  \E q \in RunIds \ {r} : f \in runs'[q].batch /\ worker'[q].pc \notin BeforeChild
    <3>1. /\ worker'[r].papers = worker[r].papers /\ runs'[r].head = runs[r].head
          /\ f \in runs[r].batch
          /\ Reconciled(r, f) \/ ~HasCommit(f, r, worker[r].papers)
      BY <1>1, <2>1 DEF Advances
    <3>2. Exists(f)
      BY <3>1 DEF SettleInv, Records
    <3>3. findings'[f].key = findings[f].key /\ Fresh(f)
      BY <2>1, <3>2 DEF RecordsAge
    <3>4. CommitsFor(f, r)' = CommitsFor(f, r)
      BY <1>5, <3>1 DEF CommitsFor
    <3>5. HasCommit(f, r, worker[r].papers)
      BY <2>1, <3>1, <3>3, <3>4 DEF HasCommit
    <3>6. PICK q \in RunIds \ {r} : f \in runs[q].batch /\ worker[q].pc \notin BeforeChild
      BY <3>1, <3>3, <3>5 DEF SettleInv, CommitsSettle
    <3> QED
      BY <1>1, <3>6 DEF Advances
  <2>2. ASSUME NEW f \in handoffs', Fresh(f)'
        PROVE  \E q \in RunIds : /\ f \in runs'[q].batch /\ child'[q].state # "none"
                                 /\ ~Reconciled(q, f)'
    <3>1. f \in handoffs /\ f \in FindingIds
      BY <1>5 DEF TypeOK
    <3>2. Fresh(f)
      BY <1>3, <2>2, <3>1 DEF RecordsAge
    <3>3. PICK q \in RunIds : /\ f \in runs[q].batch /\ child[q].state # "none"
                              /\ ~Reconciled(q, f)
      BY <3>1, <3>2 DEF SettleInv, HandoffsSettle
    <3>4. Advances(q)
      BY <1>1
    <3>5. ~Reconciled(q, f)'
      BY <2>2, <3>1, <3>3, <3>4 DEF Advances
    <3>6. f \in runs'[q].batch /\ child'[q].state # "none"
      BY <3>3, <3>4 DEF Advances
    <3> QED
      BY <3>5, <3>6
  <2>3. CommitsSettle'
    BY <2>1 DEF CommitsSettle
  <2>4. HandoffsSettle'
    BY <2>2 DEF HandoffsSettle
  <2> QED
    BY <1>1, <1>4, <2>3, <2>4 DEF SettleInv
<1>6. ASSUME NEW p \in RunIds, Publishes(p) PROVE SettleInv'
  <2>1. PICK g \in runs[p].batch : \/ log' = Append(log, g) /\ UNCHANGED handoffs
                                   \/ handoffs' = handoffs \cup {g} /\ UNCHANGED log
    BY <1>6 DEF Publishes
  <2>2. UNCHANGED <<findings, runs, worker, child>> /\ child[p].state = "running"
    BY <1>6 DEF Publishes
  <2>3. worker[p].pc \notin BeforeChild /\ worker[p].pc \notin {"last", "apply", "finish"}
    BY <1>1, <2>2 DEF ChildRow
  <2>4. \A r \in RunIds, f \in FindingIds : /\ Reconciled(r, f)' = Reconciled(r, f)
                                           /\ Fresh(f)' = Fresh(f)
    BY <2>2 DEF Reconciled, Fresh, CanHandOff
  <2>5. ASSUME NEW r \in RunIds, NEW f \in FindingIds, Reconciled(r, f)', Fresh(f)',
               HasCommit(f, r, worker[r].papers)'
        PROVE  \E q \in RunIds \ {r} : f \in runs'[q].batch /\ worker'[q].pc \notin BeforeChild
    <3>1. r # p /\ Reconciled(r, f) /\ Fresh(f)
      BY <2>3, <2>4, <2>5 DEF Reconciled
    <3>2. CASE f = g
      BY <2>1, <2>2, <2>3, <3>1, <3>2
    <3>3. CASE f # g
      <4>1. HasCommit(f, r, worker[r].papers)
        <5>1. CASE UNCHANGED log
          BY <2>2, <2>5, <5>1 DEF HasCommit, CommitsFor
        <5>2. CASE log' = Append(log, g)
          <6>1. g \in FindingIds
            BY <1>2
          <6>2. PICK papers : papers = worker[r].papers
            OBVIOUS
          <6>3. HasCommit(f, r, papers)'
            BY <2>2, <2>5, <6>2 DEF HasCommit
          <6> QED
            BY <2>2, <3>3, <5>2, <6>1, <6>2, <6>3, CommitCounts
        <5> QED
          BY <2>1, <5>1, <5>2
      <4> QED
        BY <2>2, <3>1, <4>1 DEF SettleInv, CommitsSettle
    <3> QED
      BY <3>2, <3>3
  <2>6. ASSUME NEW f \in handoffs', Fresh(f)'
        PROVE  \E q \in RunIds : /\ f \in runs'[q].batch /\ child'[q].state # "none"
                                 /\ ~Reconciled(q, f)'
    <3>1. f \in FindingIds /\ (f \in handoffs \/ f = g)
      BY <1>2, <2>1 DEF TypeOK
    <3>2. CASE f = g
      <4>1. ~Reconciled(p, f)
        BY <2>3 DEF Reconciled
      <4> QED
        BY <2>2, <2>4, <3>1, <3>2, <4>1
    <3>3. CASE f \in handoffs
      <4>1. PICK q \in RunIds : /\ f \in runs[q].batch /\ child[q].state # "none"
                                /\ ~Reconciled(q, f)
        BY <2>4, <2>6, <3>1, <3>3 DEF SettleInv, HandoffsSettle
      <4> QED
        BY <2>2, <2>4, <3>1, <4>1
    <3> QED
      BY <3>1, <3>2, <3>3
  <2>7. CommitsSettle'
    BY <2>5 DEF CommitsSettle
  <2>8. HandoffsSettle'
    BY <2>6 DEF HandoffsSettle
  <2> QED
    BY <1>1, <1>4, <2>7, <2>8 DEF SettleInv
<1> QED
  BY <1>5, <1>6, ArtifactsMove

\* The inductive invariant of artifacts, beside that of triage.
LEMMA SettleInvariant == Spec => []SettleInv
<1>1. TriageInv /\ SettleInv /\ [Next]_vars => SettleInv'
  <2> SUFFICES ASSUME TriageInv, SettleInv, [Next]_vars PROVE SettleInv'
    OBVIOUS
  <2>1. TypeOK /\ FindingsInv /\ Shape
    BY DEF TriageInv
  <2>2. RecordsAge
    BY <2>1, FindingsMove, FindingsStepAges
  <2> QED
    BY <2>1, <2>2, SettleKeeps
<1> QED
  BY InitSettle, TriageInvariant, <1>1, PTL DEF Spec

-----------------------------------------------------------------------------
(* Theorems *)

\* Rows, files and processes keep their types, for any number of findings,
\* hooks and runs.
THEOREM TriageTypeCorrect == Spec => []TypeOK
<1>1. TriageInv => TypeOK
  BY DEF TriageInv
<1> QED
  BY TriageInvariant, <1>1, PTL

\* Triage and agents together, in any order and with anything killed between
\* two steps, never leave two open records with one fingerprint.
THEOREM OpenKeysAreUnique == Spec => []OneOpenPerKey
<1>1. TriageInv => OneOpenPerKey
  BY DEF TriageInv, FindingsInv
<1> QED
  BY TriageInvariant, <1>1, PTL

\* Marking as duplicate and reopening, by whomever and in whatever order, never
\* closes a circle of duplicates.
THEOREM CanonicalsAlwaysEnd == Spec => []CanonicalsEnd
<1>1. TriageInv => CanonicalsEnd
  BY DEF TriageInv, FindingsInv
<1> QED
  BY TriageInvariant, <1>1, PTL

\* However many hooks schedule at the same time, with clocks they read at
\* different moments, no two runs are open and any two begin a cooldown apart.
THEOREM OneTriagerAtATime == Spec => []OneTriager
<1>1. TriageInv => OneTriager
  BY DEF TriageInv
<1> QED
  BY TriageInvariant, <1>1, PTL

\* Claims belong to open runs, and an open run keeps those of its batch for the
\* length of a lease, whoever closes, releases or dies meanwhile.
THEOREM ClaimsAlwaysFollowRuns == Spec => []ClaimsFollowRuns
<1>1. TriageInv => ClaimsFollowRuns
  BY DEF TriageInv
<1> QED
  BY TriageInvariant, <1>1, PTL

\* When the child of a run has ended and its worker has reconciled, a finding of
\* the batch that is pending and was never reopened has an artifact only from
\* the child of another run that had it, whichever processes died before.
THEOREM ArtifactsAlwaysSettle == Spec => []ArtifactsSettle
<1>1. TriageInv /\ SettleInv => ArtifactsSettle
  <2> SUFFICES ASSUME TriageInv, SettleInv, NEW r \in RunIds,
                      worker[r].pc \in {"apply", "finish"}, NEW f \in runs[r].batch,
                      CanHandOff(f), findings[f].reopened = 0
               PROVE  /\ HasCommit(f, r, worker[r].papers) =>
                           \E q \in RunIds \ {r} :
                             f \in runs[q].batch /\ worker[q].pc \notin BeforeChild
                      /\ f \in handoffs =>
                           \E q \in RunIds \ {r} :
                             f \in runs[q].batch /\ child[q].state # "none"
    BY DEF ArtifactsSettle
  <2>1. f \in FindingIds
    BY DEF TriageInv, TypeOK, RunRows
  <2>2. Reconciled(r, f) /\ Fresh(f)
    BY DEF Reconciled, Fresh
  <2>3. HasCommit(f, r, worker[r].papers) =>
          \E q \in RunIds \ {r} : f \in runs[q].batch /\ worker[q].pc \notin BeforeChild
    BY <2>1, <2>2 DEF SettleInv, CommitsSettle
  <2>4. ASSUME f \in handoffs
        PROVE  \E q \in RunIds \ {r} : f \in runs[q].batch /\ child[q].state # "none"
    <3>1. PICK q \in RunIds : /\ f \in runs[q].batch /\ child[q].state # "none"
                              /\ ~Reconciled(q, f)
      BY <2>2, <2>4 DEF SettleInv, HandoffsSettle
    <3>2. q # r
      BY <2>2, <3>1
    <3> QED
      BY <3>1, <3>2
  <2> QED
    BY <2>3, <2>4
<1> QED
  BY TriageInvariant, SettleInvariant, <1>1, PTL
=============================================================================
