---------------------------- MODULE DirtSettling ----------------------------
(***************************************************************************)
(* How long uncommitted changes that nobody owns keep others from starting *)
(* on a file: sessions of one repository that start and finish work, the   *)
(* files that they and others change, and what their scans of the worktree *)
(* leave in the tables dirt_observations and residual_owners.              *)
(*                                                                         *)
(* Source: src/work.rs, src/state/store_work.rs, src/host/git.rs, done_for *)
(* and snapshot in src/coordinator/mod.rs.  Every work here claims every   *)
(* file; overlap of scopes is in WorkLedger.  Ages stand for times: a row  *)
(* is as old as the clock that its process read: a start before git, done  *)
(* and status after it.                                                    *)
(***************************************************************************)
EXTENDS Integers

CONSTANTS
  Sessions,
  Lookers,     \* those that also look at the status and update active work
  Files,
  Benign,      \* files that .ai-coord.toml calls benign
  Contents,    \* what a file may hold, with Committed
  Committed,
  Unhashable,  \* UNHASHABLE_BLOB_HASH
  NoSession,
  Hold,        \* DIRT_HOLD_SECONDS
  MaxScan,     \* bound on how long git may take for one scan
  MaxChanged,  \* bound on changes of files
  MaxGitFails  \* bound on git commands and transactions that fail

ASSUME DirtAssumption ==
  /\ Benign \subseteq Files /\ Lookers \subseteq Sessions
  /\ Committed \in Contents /\ Unhashable \notin Contents /\ NoSession \notin Sessions
  /\ Hold \in Nat \ {0} /\ MaxScan \in 0 .. Hold - 1
  /\ {MaxChanged, MaxGitFails} \subseteq Nat

VARIABLES
  content,   \* of each file
  observed,  \* dirt_observations: hash and age of first_seen
  residual,  \* residual_owners, by file
  holder,    \* the session with active work, if any
  scan,      \* what each session does
  readAt,    \* age of the first time that a scan read this hash of this file, up to LongAgo
  changes,   \* changes of files so far
  gitFails   \* failures of git so far

dirtVars == <<content, observed, residual, holder, scan, readAt, changes, gitFails>>

-----------------------------------------------------------------------------
Hashes == Contents \cup {Unhashable}
Oldest == Hold + MaxScan
LongAgo == Hold - MaxScan
Ages == 0 .. Oldest
Never == -1

NoObservation == [hash |-> Committed, age |-> Never]
Observations == [hash : Hashes, age : Ages \cup {Never}]

\* A session that starts or finishes work, or looks at the status, asks git for
\* the dirty files, hashes each, and stores what it found.
Ops == {"start", "done", "status"}
Steps == {"idle", "status", "hash", "observe", "decide", "residual", "delete"}
Scans ==
  [op : Ops, step : Steps, spent : 0 .. MaxScan, dirty : SUBSET Files,
   hash : [Files -> Hashes], settled : SUBSET Files]
NoScan == [op |-> "start", step |-> "idle", spent |-> 0, dirty |-> {},
           hash |-> [f \in Files |-> Committed], settled |-> {}]

DirtTypeOK ==
  /\ content \in [Files -> Contents]
  /\ observed \in [Files -> Observations]
  /\ residual \in [Files -> Sessions \cup {NoSession}]
  /\ holder \in Sessions \cup {NoSession}
  /\ scan \in [Sessions -> Scans]
  /\ readAt \in [Files -> [Hashes -> Ages \cup {Never}]]
  /\ changes \in 0 .. MaxChanged /\ gitFails \in 0 .. MaxGitFails

DirtInit ==
  /\ content = [f \in Files |-> Committed]
  /\ observed = [f \in Files |-> NoObservation]
  /\ residual = [f \in Files |-> NoSession]
  /\ holder = NoSession
  /\ scan = [s \in Sessions |-> NoScan]
  /\ readAt = [f \in Files |-> [h \in Hashes |-> Never]]
  /\ changes = 0 /\ gitFails = 0

-----------------------------------------------------------------------------
\* A file is edited, reverted or committed, by whomever.
ChangeFile ==
  /\ changes < MaxChanged /\ changes' = changes + 1
  /\ \E f \in Files, c \in Contents : c # content[f] /\ content' = [content EXCEPT ![f] = c]
  /\ UNCHANGED <<observed, residual, holder, scan, readAt, gitFails>>

At(s, step) == scan[s].step = step
Step(s, step) == scan' = [scan EXCEPT ![s].step = step]
End(s) == scan' = [scan EXCEPT ![s] = NoScan]

\* A start with active work updates its scopes, which here says nothing new.
OpsOf(s) ==
  {IF holder = s THEN "done" ELSE "start"} \cup (IF s \in Lookers THEN {"start", "status"} ELSE {})

Ask(s) ==
  /\ At(s, "idle")
  /\ \E op \in OpsOf(s) : scan' = [scan EXCEPT ![s] = [NoScan EXCEPT !.op = op, !.step = "status"]]
  /\ UNCHANGED <<content, observed, residual, holder, readAt, changes, gitFails>>

\* git_dirty_paths
Status(s) ==
  /\ At(s, "status")
  /\ scan' = [scan EXCEPT ![s].step = "hash", ![s].dirty = {f \in Files : content[f] # Committed}]
  /\ UNCHANGED <<content, observed, residual, holder, readAt, changes, gitFails>>

\* If git fails, done goes on without dirty files; the others end.
StatusFails(s) ==
  /\ At(s, "status")
  /\ gitFails < MaxGitFails /\ gitFails' = gitFails + 1
  /\ IF scan[s].op = "done" THEN Step(s, "hash") ELSE End(s)
  /\ UNCHANGED <<content, observed, residual, holder, readAt, changes>>

\* Who reads the clock for its rows after git.
LateClock(s) == scan[s].op \in {"done", "status"}

\* git_blob_hash of each, of what the files hold by now.
Hash(s) ==
  /\ At(s, "hash")
  /\ \E failed \in SUBSET scan[s].dirty :
       /\ gitFails' = gitFails + (IF failed = {} THEN 0 ELSE 1) /\ gitFails' <= MaxGitFails
       /\ LET hash == [f \in Files |-> IF f \in failed THEN Unhashable ELSE
                         IF f \in scan[s].dirty THEN content[f] ELSE Committed]
          IN /\ scan' = [scan EXCEPT ![s].step = "observe", ![s].hash = hash,
                                       ![s].spent = IF LateClock(s) THEN 0 ELSE @]
             /\ readAt' = [f \in Files |-> [readAt[f] EXCEPT ![hash[f]] =
                  IF f \in scan[s].dirty /\ @ = Never THEN 0 ELSE @]]
  /\ UNCHANGED <<content, observed, residual, holder, changes>>

\* Mutant: a file that is dirty stays as old as it was.
AnyContent(row, hash) == row.age # Never

SameDirt(row, hash) == row.age # Never /\ row.hash = hash

\* Mutant: the time of the row is the time of the last scan that saw it.
LastSeen(s, f) == [hash |-> scan[s].hash[f], age |-> scan[s].spent]

Observation(s, f) ==
  IF SameDirt(observed[f], scan[s].hash[f])
  THEN [observed[f] EXCEPT !.hash = scan[s].hash[f]]
  ELSE [hash |-> scan[s].hash[f], age |-> scan[s].spent]

\* What the scan was for.
AfterObserve(s) ==
  CASE scan[s].op = "start" -> [scan[s] EXCEPT !.step = "decide"]
    [] scan[s].op = "done" -> [scan[s] EXCEPT !.step = "residual", !.hash = NoScan.hash]
    [] OTHER -> NoScan

\* observe_dirt: the rows of the repository become those of this scan, however
\* old it is; a residual owner goes with its row.  A row is settled if it was as
\* old as Hold when the process read the clock.
Observe(s) ==
  /\ At(s, "observe")
  /\ LET dirty == scan[s].dirty
         rows == [f \in Files |-> IF f \in dirty THEN Observation(s, f) ELSE NoObservation]
     IN /\ observed' = rows
        /\ residual' = [f \in Files |-> IF f \in dirty THEN residual[f] ELSE NoSession]
        /\ scan' = [scan EXCEPT ![s] = [AfterObserve(s) EXCEPT !.settled =
             {f \in dirty : scan[s].op = "start" /\ rows[f].age - scan[s].spent >= Hold}]]
  /\ UNCHANGED <<content, holder, readAt, changes, gitFails>>

\* done and status go on without the rows if the transaction fails.
ObserveFails(s) ==
  /\ At(s, "observe")
  /\ gitFails < MaxGitFails /\ gitFails' = gitFails + 1
  /\ IF scan[s].op = "done" THEN scan' = [scan EXCEPT ![s] = AfterObserve(s)] ELSE End(s)
  /\ UNCHANGED <<content, observed, residual, holder, readAt, changes>>

ResidualOwn(s, f) == residual[f] = s

\* partition_dirty in the transaction of submit: dirt that is neither benign nor
\* settled nor the session's own holds the start up, if no active work has it.
Fresh(s) == {f \in scan[s].dirty \ (scan[s].settled \cup Benign) : ~ResidualOwn(s, f)}

Decide(s) ==
  /\ At(s, "decide")
  /\ holder' = IF holder = NoSession /\ Fresh(s) = {} THEN s ELSE holder
  /\ End(s)
  /\ UNCHANGED <<content, observed, residual, readAt, changes, gitFails>>

\* done_for records the residual owner of what is dirty, in a transaction of its
\* own; a file whose row another scan deleted meanwhile breaks the foreign key,
\* and done ends with the work still active.
RecordResidual(s) ==
  /\ At(s, "residual")
  /\ IF \E f \in scan[s].dirty : observed[f] = NoObservation
     THEN End(s) /\ UNCHANGED residual
     ELSE /\ residual' = [f \in Files |-> IF f \in scan[s].dirty THEN s ELSE residual[f]]
          /\ Step(s, "delete")
  /\ UNCHANGED <<content, observed, holder, readAt, changes, gitFails>>

DeleteWork(s) ==
  /\ At(s, "delete")
  /\ holder' = NoSession
  /\ End(s)
  /\ UNCHANGED <<content, observed, residual, readAt, changes, gitFails>>

\* The process is killed.
ScanDies(s) ==
  /\ ~At(s, "idle")
  /\ gitFails < MaxGitFails /\ gitFails' = gitFails + 1
  /\ End(s)
  /\ UNCHANGED <<content, observed, residual, holder, readAt, changes>>

Older(age, oldest) == IF age = Never \/ age = oldest THEN age ELSE age + 1

\* Time passes, unless a scan has taken as long as it may.
DirtTick ==
  /\ \A s \in Sessions : At(s, "idle") \/ scan[s].spent < MaxScan
  /\ observed' = [f \in Files |-> [observed[f] EXCEPT !.age = Older(@, Oldest)]]
  /\ readAt' = [f \in Files |-> [h \in Hashes |-> Older(readAt[f][h], LongAgo)]]
  /\ scan' = [s \in Sessions |->
       IF At(s, "idle") THEN scan[s] ELSE [scan[s] EXCEPT !.spent = @ + 1]]
  /\ UNCHANGED <<content, residual, holder, changes, gitFails>>

GoOn(s) ==
  \/ Status(s) \/ StatusFails(s) \/ Hash(s) \/ Observe(s) \/ ObserveFails(s) \/ Decide(s)
  \/ RecordResidual(s) \/ DeleteWork(s)

DirtNext ==
  \/ ChangeFile \/ DirtTick
  \/ \E s \in Sessions : Ask(s) \/ GoOn(s) \/ ScanDies(s)

\* Processes end, sessions come again, and time passes.
DirtFair ==
  /\ WF_dirtVars(DirtTick)
  /\ \A s \in Sessions : WF_dirtVars(GoOn(s)) /\ WF_dirtVars(Ask(s))

DirtSpec == DirtInit /\ [][DirtNext]_dirtVars /\ DirtFair

-----------------------------------------------------------------------------
(* Properties *)

StartsOnOldDirt ==
  \A s \in Sessions : holder # s /\ holder' = s =>
    \A f \in scan[s].dirty \ Benign :
      \/ residual[f] = s
      \/ readAt[f][scan[s].hash[f]] = LongAgo

\* A session starts on dirt that it did not leave itself, and that the repository
\* does not call benign, only when a scan had read this very content Hold before,
\* but for the length of one scan: by which its clock is early.  No order of scans
\* and edits makes a new change look old (partition_dirty, observe_dirt).
FreshDirtIsHeld == [][StartsOnOldDirt]_dirtVars

\* Dirt that is left alone settles, and what was committed is forgotten, in
\* whatever order the last scans of the old state finish (observe_dirt).
DirtSettles ==
  <>[](\A f \in Files :
         IF content[f] = Committed THEN observed[f] = NoObservation
         ELSE observed[f].hash = content[f] /\ observed[f].age >= Hold)
=============================================================================
