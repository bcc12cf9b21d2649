-------------------------- MODULE WorkLedgerProofs --------------------------
(***************************************************************************)
(* The work ledger, for any sessions, processes, scopes and labels: type   *)
(* correctness, whatever runs at the same time, and what holds when an     *)
(* agent runs one command at a time.                                       *)
(***************************************************************************)
EXTENDS WorkLedgerProperties, ScopeFacts

-----------------------------------------------------------------------------
(* Rows *)

LEMMA RevisionsArePositive ==
  \A rev \in Nat : NextRevision(rev) \in Nat /\ NextRevision(rev) > 0
  BY LedgerAssumption DEF NextRevision

LEMMA NoWorkOK == RowOK(NoWork)
  BY DEF RowOK, Rows, NoWork, States, Reasons, ScopeSets

LEMMA DraftOK ==
  ASSUME NEW scopes \in ScopeSets \ {{}}, NEW label \in Labels \cup {Nobody},
         NEW rev \in Nat \ {0}
  PROVE  RowOK(Draft(scopes, label, rev))
  BY DEF RowOK, Rows, Draft, NoWork, States, Reasons, ScopeSets

LEMMA SubmittedOK ==
  ASSUME NEW reason \in Reasons, NEW scopes \in ScopeSets \ {{}},
         NEW label \in Labels \cup {Nobody},
         NEW age \in Nat \ {0}, NEW rev \in Nat \ {0}
  PROVE  RowOK(Submitted(reason, scopes, label, age, rev))
<1>1. Submitted(reason, scopes, label, age, rev) \in Rows
  BY DEF Submitted, Rows, States
<1> QED
  BY <1>1 DEF RowOK, Submitted, NoWork

-----------------------------------------------------------------------------
(* Type correctness *)

\* A step writes the row of one session and the state of one process.
LedgerTypeOK ==
  /\ registered \subseteq Sessions
  /\ clock \in Nat
  /\ unread \subseteq Sessions
  /\ granted \in [Sessions -> ScopeSets]

WorkTypeOK ==
  /\ work \in [Sessions -> Rows]
  /\ \A s \in Sessions :
       RowOK(work[s]) /\ (work[s].state # "none" => s \in registered)

ProcTypeOK ==
  /\ proc \in [Processes -> ProcessStates]
  /\ \A p \in Processes : ProcessOK(proc[p])

LEMMA TypeParts == TypeOK <=> LedgerTypeOK /\ WorkTypeOK /\ ProcTypeOK
  BY DEF TypeOK, LedgerTypeOK, WorkTypeOK, ProcTypeOK

LEMMA TypePartsPrimed ==
  LedgerTypeOK' /\ WorkTypeOK' /\ ProcTypeOK' => TypeOK'
  BY DEF TypeOK, LedgerTypeOK, WorkTypeOK, ProcTypeOK

LEMMA KeepRows ==
  ASSUME WorkTypeOK, work' = work, registered \subseteq registered'
  PROVE  WorkTypeOK'
  BY DEF WorkTypeOK, RowOK

LEMMA WriteProcess ==
  ASSUME ProcTypeOK, NEW p \in Processes, NEW state, ProcessOK(state),
         proc' = [proc EXCEPT ![p] = state]
  PROVE  ProcTypeOK'
<1>1. state \in ProcessStates
  BY DEF ProcessOK
<1>2. proc' \in [Processes -> ProcessStates]
  BY <1>1 DEF ProcTypeOK
<1>3. \A q \in Processes : proc'[q] = IF q = p THEN state ELSE proc[q]
  BY DEF ProcTypeOK
<1>4. \A q \in Processes : ProcessOK(proc'[q])
  BY <1>3 DEF ProcTypeOK
<1> QED
  BY <1>2, <1>4 DEF ProcTypeOK, ProcessOK, RowOK

LEMMA WriteRow ==
  ASSUME WorkTypeOK, NEW s \in Sessions, NEW row, RowOK(row),
         work' = [work EXCEPT ![s] = row],
         registered \subseteq registered',
         row.state # "none" => s \in registered'
  PROVE  WorkTypeOK'
<1>1. row \in Rows
  BY DEF RowOK
<1>2. work' \in [Sessions -> Rows]
  BY <1>1 DEF WorkTypeOK
<1>3. \A o \in Sessions : work'[o] = IF o = s THEN row ELSE work[o]
  BY DEF WorkTypeOK
<1>4. \A o \in Sessions : RowOK(work'[o])
  BY <1>3 DEF WorkTypeOK
<1>5. \A o \in Sessions : work'[o].state # "none" => o \in registered'
  BY <1>3 DEF WorkTypeOK
<1> QED
  BY <1>2, <1>4, <1>5 DEF WorkTypeOK, RowOK

LEMMA IdleOK == ProcessOK(Idle)
<1>1. NoWork \in Rows /\ RowOK(NoWork)
  BY NoWorkOK DEF RowOK
<1>2. Idle \in ProcessStates
  BY <1>1 DEF Idle, Running, ProcessStates, Steps, Commands, ScopeSets
<1> QED
  BY <1>1, <1>2 DEF ProcessOK, Idle, Running

LEMMA BeginTypes ==
  ASSUME ProcTypeOK, NEW p \in Processes, NEW s \in Sessions,
         NEW cmd \in Commands, NEW pc \in Steps, NEW req \in ScopeSets,
         NEW label \in Labels \cup {Nobody}, NEW seen, RowOK(seen),
         pc \in {"save", "gather", "commit"} => req # {},
         Begin(p, s, cmd, pc, req, label, seen)
  PROVE  ProcTypeOK'
<1> DEFINE begun == [owner |-> s, pc |-> pc, cmd |-> cmd, req |-> req,
                     label |-> label, seen |-> seen, covered |-> FALSE,
                     waiters |-> {}, orphan |-> FALSE]
<1>1. proc' = [proc EXCEPT ![p] = begun]
  BY DEF Begin, Running
<1>2. begun \in ProcessStates
  BY DEF ProcessStates, RowOK
<1>3. ProcessOK(begun)
  BY <1>2 DEF ProcessOK
<1> QED
  BY <1>1, <1>3, WriteProcess

LEMMA FinishTypes ==
  ASSUME ProcTypeOK, NEW p \in Processes, Finish(p)
  PROVE  ProcTypeOK'
  BY IdleOK, WriteProcess DEF Finish

LEMMA PollTypes ==
  ASSUME ProcTypeOK, NEW p \in Processes, Owner(p) \in Sessions, PollAgain(p)
  PROVE  ProcTypeOK'
<1> DEFINE polling == [owner |-> Owner(p), pc |-> "look", cmd |-> "wait",
                       req |-> {}, label |-> Nobody, seen |-> NoWork,
                       covered |-> FALSE, waiters |-> {},
                       orphan |-> proc[p].orphan]
<1>1. CASE Finish(p)
  BY <1>1, FinishTypes
<1>2. CASE proc' = [proc EXCEPT ![p] = polling]
  <2>1. proc[p].orphan \in BOOLEAN
    BY DEF ProcTypeOK, ProcessStates
  <2>2. polling \in ProcessStates
    BY <2>1, NoWorkOK DEF ProcessStates, Steps, Commands, ScopeSets, RowOK
  <2>3. ProcessOK(polling)
    BY <2>2, NoWorkOK DEF ProcessOK
  <2> QED
    BY <1>2, <2>3, WriteProcess
<1> QED
  BY <1>1, <1>2 DEF PollAgain, Running

LEMMA MoveTypes ==
  ASSUME ProcTypeOK, NEW p \in Processes, Owner(p) \in Sessions,
         NEW pc \in Steps \ {"save", "gather", "commit"}, Goto(p, pc)
  PROVE  ProcTypeOK'
<1>1. ProcessOK([proc[p] EXCEPT !.pc = pc])
  BY DEF ProcTypeOK, ProcessOK, ProcessStates, Owner
<1>2. proc' = [proc EXCEPT ![p] = [proc[p] EXCEPT !.pc = pc]]
  BY DEF Goto
<1> QED
  BY <1>1, <1>2, WriteProcess

LEMMA ToldTypes ==
  ASSUME LedgerTypeOK, NEW p \in Processes, Owner(p) \in Sessions,
         NEW scopes \in ScopeSets, Told(p, scopes)
  PROVE  granted' \in [Sessions -> ScopeSets]
  BY DEF Told, LedgerTypeOK

\* A process that is not idle works for a session.
LEMMA OwnerTypes ==
  ASSUME ProcTypeOK, NEW p \in Processes, ~ At(p, "idle")
  PROVE  /\ Owner(p) \in Sessions
         /\ proc[p].req \in ScopeSets
         /\ proc[p].label \in Labels \cup {Nobody}
         /\ RowOK(proc[p].seen)
         /\ At(p, "save") \/ At(p, "gather") \/ At(p, "commit") =>
              proc[p].req # {}
  BY DEF ProcTypeOK, ProcessOK, ProcessStates, At, Owner

-----------------------------------------------------------------------------
(* Type correctness, action by action *)

LEMMA OpenTypes ==
  ASSUME TypeOK, NEW p \in Processes, NEW s \in Sessions, Open(p, s)
  PROVE  TypeOK'
<1> USE TypeParts
<1>1. /\ LedgerTypeOK /\ WorkTypeOK /\ ProcTypeOK
      /\ RowOK(work[s]) /\ RowOK(NoWork)
      /\ {} \in ScopeSets /\ Requests \subseteq ScopeSets \ {{}}
  BY LedgerAssumption, NoWorkOK DEF WorkTypeOK, ScopeSets
<1>2. ASSUME NEW scopes \in Requests, NEW label \in Labels,
             DraftOpen(p, s, scopes, label)
      PROVE  TypeOK'
  <2>1. ProcTypeOK'
    BY <1>1, <1>2, BeginTypes DEF DraftOpen, Steps, Commands
  <2> QED
    BY <1>1, <1>2, <2>1, KeepRows, TypePartsPrimed
       DEF DraftOpen, LedgerTypeOK
<1>3. ASSUME NEW scopes \in Requests, NEW label \in Labels,
             StartOpen(p, s, scopes, label)
      PROVE  TypeOK'
  <2>1. ProcTypeOK'
    BY <1>1, <1>3, BeginTypes DEF StartOpen, Steps, Commands
  <2> QED
    BY <1>1, <1>3, <2>1, KeepRows, TypePartsPrimed
       DEF StartOpen, LedgerTypeOK
<1>4. CASE PromoteOpen(p, s)
  <2>1. /\ work[s].scopes \in ScopeSets \ {{}}
        /\ work[s].label \in Labels \cup {Nobody}
    BY <1>1, <1>4 DEF PromoteOpen, RowOK, Rows
  <2>2. ProcTypeOK'
    BY <1>1, <1>4, <2>1, BeginTypes DEF PromoteOpen, Steps, Commands
  <2> QED
    BY <1>1, <1>4, <2>2, KeepRows, TypePartsPrimed
       DEF PromoteOpen, LedgerTypeOK
<1>5. CASE WaitOpen(p, s)
  <2>1. ProcTypeOK'
    BY <1>1, <1>5, BeginTypes DEF WaitOpen, Steps, Commands
  <2> QED
    BY <1>1, <1>5, <2>1, KeepRows, TypePartsPrimed
       DEF WaitOpen, LedgerTypeOK
<1>6. CASE DoneOpen(p, s)
  <2>1. ProcTypeOK'
    BY <1>1, <1>6, BeginTypes DEF DoneOpen, Steps, Commands
  <2>2. granted' \in [Sessions -> ScopeSets]
    BY <1>1, <1>6 DEF DoneOpen, LedgerTypeOK
  <2> QED
    BY <1>1, <1>6, <2>1, <2>2, KeepRows, TypePartsPrimed
       DEF DoneOpen, LedgerTypeOK
<1> QED
  BY <1>2, <1>3, <1>4, <1>5, <1>6 DEF Open

LEMMA SubmitTypes ==
  ASSUME TypeOK, NEW p \in Processes, NEW fresh \in BOOLEAN, Submit(p, fresh)
  PROVE  TypeOK'
<1>0. PICK now \in Readings : SubmitAt(p, fresh, now)
  BY DEF Submit
<1> DEFINE s == Owner(p)
           seen == proc[p].seen
           scopes == proc[p].req
           keep == KeepsAge(proc[p].cmd, seen, scopes)
           age == IF keep THEN seen.age ELSE Allocated(now)
           reason == BlockedReason(s, scopes, age, proc[p].covered, fresh)
           row == Submitted(reason, scopes, proc[p].label, age,
                            NextRevision(work[s].rev))
<1>1. LedgerTypeOK /\ WorkTypeOK /\ ProcTypeOK
  BY TypeParts
<1>2. ~ At(p, "idle") /\ At(p, "commit")
  BY <1>0 DEF SubmitAt, At
<1>3. /\ s \in Sessions
      /\ scopes \in ScopeSets \ {{}}
      /\ proc[p].label \in Labels \cup {Nobody}
      /\ RowOK(seen)
  BY <1>1, <1>2, OwnerTypes
<1>4. age \in Nat \ {0}
  <2>1. CASE keep
    <3>1. seen \in Rows /\ seen.age > 0
      BY <1>3, <2>1 DEF KeepsAge, RowOK
    <3> QED
      BY <2>1, <3>1 DEF Rows
  <2>2. CASE ~ keep
    <3>1. clock \in Nat /\ now \in Nat
      BY <1>1, LedgerAssumption DEF LedgerTypeOK
    <3> QED
      BY <2>2, <3>1 DEF Allocated
  <2> QED
    BY <2>1, <2>2
<1>5. reason \in Reasons
  BY DEF BlockedReason, Reasons
<1>6. NextRevision(work[s].rev) \in Nat \ {0}
  BY <1>1, <1>3, RevisionsArePositive DEF WorkTypeOK, Rows
<1>7. RowOK(row)
  BY <1>3, <1>4, <1>5, <1>6, SubmittedOK
<1>8. /\ work' = [work EXCEPT ![s] = row]
      /\ registered' = registered /\ s \in registered
      /\ clock' = IF keep THEN clock ELSE age
      /\ unread' = unread \/ unread' = unread \cup ActiveBlockers(s, scopes)
      /\ Told(p, scopes) \/ UNCHANGED granted
      /\ PollAgain(p) \/ Finish(p)
  BY <1>0 DEF SubmitAt, AfterSubmission
<1>9. WorkTypeOK'
  BY <1>1, <1>3, <1>7, <1>8, WriteRow
<1>10. ProcTypeOK'
  BY <1>1, <1>3, <1>8, FinishTypes, PollTypes
<1>11. granted' \in [Sessions -> ScopeSets]
  BY <1>1, <1>3, <1>8, ToldTypes DEF LedgerTypeOK
<1>12. LedgerTypeOK'
  <2>1. clock' \in Nat
    BY <1>1, <1>4, <1>8 DEF LedgerTypeOK
  <2>2. registered' \subseteq Sessions /\ unread' \subseteq Sessions
    BY <1>1, <1>8 DEF LedgerTypeOK, ActiveBlockers
  <2> QED
    BY <1>11, <2>1, <2>2 DEF LedgerTypeOK
<1> QED
  BY <1>9, <1>10, <1>12, TypePartsPrimed

LEMMA RelabelTypes ==
  ASSUME TypeOK, NEW p \in Processes, Relabel(p)
  PROVE  TypeOK'
<1> DEFINE s == Owner(p)
           seen == proc[p].seen
           row == Submitted("none", seen.scopes, proc[p].label, seen.age,
                            NextRevision(work[s].rev))
<1>1. LedgerTypeOK /\ WorkTypeOK /\ ProcTypeOK
  BY TypeParts
<1>2. ~ At(p, "idle")
  BY DEF Relabel, At
<1>3. /\ s \in Sessions /\ RowOK(work[s])
      /\ proc[p].req \in ScopeSets
      /\ proc[p].label \in Labels \cup {Nobody}
      /\ RowOK(seen) /\ seen \in Rows /\ seen.state = "active"
  BY <1>1, <1>2, OwnerTypes DEF Relabel, UpdatesActive, RowOK, WorkTypeOK
<1>4. /\ seen.scopes \in ScopeSets \ {{}}
      /\ seen.age \in Nat \ {0}
      /\ seen.rev > 0
  BY <1>3 DEF RowOK, Rows
<1>5. s \in registered
  BY <1>1, <1>3, <1>4 DEF Relabel, RowOK, NoWork, WorkTypeOK
<1>6. NextRevision(work[s].rev) \in Nat \ {0}
  BY <1>1, <1>3, RevisionsArePositive DEF WorkTypeOK, Rows
<1>7. RowOK(row)
  BY <1>3, <1>4, <1>6, SubmittedOK DEF Reasons
<1>8. /\ work' = [work EXCEPT ![s] = row]
      /\ UNCHANGED <<registered, clock, unread>>
      /\ Told(p, proc[p].req)
      /\ Finish(p)
  BY DEF Relabel
<1>9. WorkTypeOK'
  BY <1>1, <1>3, <1>5, <1>7, <1>8, WriteRow
<1>10. ProcTypeOK'
  BY <1>1, <1>8, FinishTypes
<1>11. LedgerTypeOK'
  BY <1>1, <1>3, <1>8, ToldTypes DEF LedgerTypeOK
<1> QED
  BY <1>9, <1>10, <1>11, TypePartsPrimed

LEMMA UpdateScopesTypes ==
  ASSUME TypeOK, NEW p \in Processes, NEW fresh \in BOOLEAN,
         UpdateScopes(p, fresh)
  PROVE  TypeOK'
<1> DEFINE s == Owner(p)
           scopes == proc[p].req
           row == Submitted("none", scopes, proc[p].label, work[s].age,
                            NextRevision(work[s].rev))
<1>1. LedgerTypeOK /\ WorkTypeOK /\ ProcTypeOK
  BY TypeParts
<1>2. ~ At(p, "idle") /\ At(p, "commit")
  BY DEF UpdateScopes, At
<1>3. /\ s \in Sessions /\ RowOK(work[s]) /\ work[s] \in Rows
      /\ scopes \in ScopeSets \ {{}}
      /\ proc[p].label \in Labels \cup {Nobody}
      /\ work[s].state = "active"
  BY <1>1, <1>2, OwnerTypes DEF UpdateScopes, UpdateCurrent, WorkTypeOK
<1>4. NextRevision(work[s].rev) \in Nat \ {0}
  BY <1>3, RevisionsArePositive DEF Rows
<1>5. work[s].age \in Nat \ {0}
  BY <1>3 DEF RowOK, Rows
<1>6. RowOK(row)
  BY <1>3, <1>4, <1>5, SubmittedOK DEF Reasons
<1>7. /\ work' = [work EXCEPT ![s] = row]
      /\ registered' = registered /\ clock' = clock
      /\ Told(p, scopes)
      /\ Finish(p)
  BY <1>1, <1>3 DEF UpdateScopes, WorkTypeOK
<1>8. unread' \subseteq Sessions
  BY <1>1 DEF UpdateScopes, LedgerTypeOK
<1>9. s \in registered
  BY <1>1, <1>3 DEF WorkTypeOK
<1>10. WorkTypeOK'
  BY <1>1, <1>3, <1>6, <1>7, <1>9, WriteRow
<1>11. ProcTypeOK'
  BY <1>1, <1>7, FinishTypes
<1>12. LedgerTypeOK'
  BY <1>1, <1>3, <1>7, <1>8, ToldTypes DEF LedgerTypeOK
<1> QED
  BY <1>10, <1>11, <1>12, TypePartsPrimed

LEMMA DraftSaveTypes ==
  ASSUME TypeOK, NEW p \in Processes, DraftSave(p)
  PROVE  TypeOK'
<1> DEFINE s == Owner(p)
           row == Draft(proc[p].req, proc[p].label, NextRevision(work[s].rev))
<1>1. LedgerTypeOK /\ WorkTypeOK /\ ProcTypeOK
  BY TypeParts
<1>2. ~ At(p, "idle") /\ At(p, "save")
  BY DEF DraftSave, At
<1>3. /\ s \in Sessions /\ work[s] \in Rows
      /\ proc[p].req \in ScopeSets \ {{}}
      /\ proc[p].label \in Labels \cup {Nobody}
  BY <1>1, <1>2, OwnerTypes DEF WorkTypeOK
<1>4. NextRevision(work[s].rev) \in Nat \ {0}
  BY <1>3, RevisionsArePositive DEF Rows
<1>5. RowOK(row)
  BY <1>3, <1>4, DraftOK
<1>6. WorkTypeOK'
  BY <1>1, <1>3, <1>5, WriteRow DEF DraftSave
<1>7. ProcTypeOK'
  BY <1>1, FinishTypes DEF DraftSave
<1>8. LedgerTypeOK'
  BY <1>1 DEF DraftSave, LedgerTypeOK
<1> QED
  BY <1>6, <1>7, <1>8, TypePartsPrimed

LEMMA GatherTypes ==
  ASSUME TypeOK, NEW p \in Processes, NEW covered \in BOOLEAN,
         Gather(p, covered)
  PROVE  TypeOK'
<1> DEFINE seen == IF proc[p].cmd = "promote" THEN proc[p].seen
                                              ELSE work[Owner(p)]
           state == [proc[p] EXCEPT !.pc = "commit", !.covered = covered,
                                    !.seen = seen]
<1>1. LedgerTypeOK /\ WorkTypeOK /\ ProcTypeOK
  BY TypeParts
<1>2. ~ At(p, "idle") /\ At(p, "gather")
  BY DEF Gather, At
<1>3. /\ Owner(p) \in Sessions /\ proc[p].req # {}
      /\ proc[p] \in ProcessStates
  BY <1>1, <1>2, OwnerTypes DEF ProcTypeOK
<1>4. RowOK(seen) /\ seen \in Rows
  BY <1>1, <1>2, <1>3, OwnerTypes DEF WorkTypeOK, RowOK
<1>5. proc' = [proc EXCEPT ![p] = state]
  BY <1>1 DEF Gather, ProcTypeOK
<1>6. state \in ProcessStates
  BY <1>3, <1>4 DEF ProcessStates, Steps
<1>7. /\ state.owner = proc[p].owner /\ state.req = proc[p].req
      /\ state.seen = seen
  BY <1>3 DEF ProcessStates
<1>8. ProcessOK(state)
  BY <1>3, <1>4, <1>6, <1>7 DEF ProcessOK, Owner
<1>9. ProcTypeOK'
  BY <1>1, <1>5, <1>8, WriteProcess
<1> QED
  BY <1>1, <1>9, KeepRows, TypePartsPrimed DEF Gather, LedgerTypeOK

LEMMA ArbitrateTypes ==
  ASSUME TypeOK, NEW p \in Processes, WaitArbitrate(p)
  PROVE  TypeOK'
<1> DEFINE row == work[Owner(p)]
           state == [proc[p] EXCEPT !.pc = "gather", !.req = row.scopes,
                                    !.label = row.label]
<1>1. LedgerTypeOK /\ WorkTypeOK /\ ProcTypeOK
  BY TypeParts
<1>2. ~ At(p, "idle")
  BY DEF WaitArbitrate, At
<1>3. /\ Owner(p) \in Sessions /\ RowOK(proc[p].seen)
      /\ proc[p] \in ProcessStates
  BY <1>1, <1>2, OwnerTypes DEF ProcTypeOK
<1>4. /\ row.scopes \in ScopeSets \ {{}}
      /\ row.label \in Labels \cup {Nobody}
  BY <1>1, <1>3 DEF WaitArbitrate, Queued, WorkTypeOK, RowOK, Rows
<1>5. proc' = [proc EXCEPT ![p] = state]
  BY <1>1 DEF WaitArbitrate, ProcTypeOK
<1>6. state \in ProcessStates
  BY <1>3, <1>4 DEF ProcessStates, Steps
<1>7. /\ state.owner = proc[p].owner /\ state.req = row.scopes
      /\ state.seen = proc[p].seen
  BY <1>3 DEF ProcessStates
<1>8. ProcessOK(state)
  BY <1>3, <1>4, <1>6, <1>7 DEF ProcessOK, Owner
<1>9. ProcTypeOK'
  BY <1>1, <1>5, <1>8, WriteProcess
<1> QED
  BY <1>1, <1>9, KeepRows, TypePartsPrimed DEF WaitArbitrate, LedgerTypeOK

\* Steps that only end a process, or tell its agent what the row holds.
LEMMA OutcomeTypes ==
  ASSUME TypeOK, NEW p \in Processes,
         \/ Reconfirm(p)
         \/ \E fresh \in BOOLEAN : RefuseUpdate(p, fresh)
         \/ WaitReady(p) \/ WaitReleased(p) \/ WaitInterrupted(p)
         \/ Abort(p)
  PROVE  TypeOK'
<1>1. LedgerTypeOK /\ WorkTypeOK /\ ProcTypeOK
  BY TypeParts
<1>2. ~ At(p, "idle")
  BY DEF Reconfirm, RefuseUpdate, WaitReady, WaitReleased, WaitInterrupted,
         Abort, At
<1>3. /\ Owner(p) \in Sessions /\ proc[p].req \in ScopeSets
      /\ proc[p].seen \in Rows /\ work[Owner(p)] \in Rows
  BY <1>1, <1>2, OwnerTypes DEF RowOK, WorkTypeOK
<1>4. /\ {} \in ScopeSets
      /\ proc[p].seen.scopes \in ScopeSets
      /\ work[Owner(p)].scopes \in ScopeSets
  BY <1>3 DEF Rows, ScopeSets
<1>5. UNCHANGED <<registered, work, clock, unread>>
  BY DEF Reconfirm, RefuseUpdate, WaitReady, WaitReleased, WaitInterrupted,
         Abort
<1>6. Finish(p) \/ PollAgain(p)
  BY DEF Reconfirm, RefuseUpdate, WaitReady, WaitReleased, WaitInterrupted,
         Abort
<1>7. \/ UNCHANGED granted
      \/ \E scopes \in ScopeSets : Told(p, scopes)
  BY <1>4 DEF Reconfirm, RefuseUpdate, WaitReady, WaitReleased,
              WaitInterrupted, Abort
<1>8. ProcTypeOK'
  BY <1>1, <1>3, <1>6, FinishTypes, PollTypes
<1>9. granted' \in [Sessions -> ScopeSets]
  BY <1>1, <1>3, <1>7, ToldTypes DEF LedgerTypeOK
<1> QED
  BY <1>1, <1>5, <1>8, <1>9, KeepRows, TypePartsPrimed DEF LedgerTypeOK

LEMMA DoneTypes ==
  ASSUME TypeOK, NEW p \in Processes,
         DoneScan(p) \/ DoneDelete(p) \/ DoneTell(p)
  PROVE  TypeOK'
<1>1. LedgerTypeOK /\ WorkTypeOK /\ ProcTypeOK
  BY TypeParts
<1>2. ~ At(p, "idle")
  BY DEF DoneScan, DoneDelete, DoneTell, At
<1>3. Owner(p) \in Sessions /\ proc[p] \in ProcessStates
  BY <1>1, <1>2, OwnerTypes DEF ProcTypeOK
<1>4. CASE DoneScan(p)
  <2> DEFINE waiters ==
               {o \in Sessions :
                  /\ Queued(o)
                  /\ AnyOverlap(proc[p].seen.scopes, work[o].scopes)}
             state == [proc[p] EXCEPT !.pc = "delete", !.seen = NoWork,
                                      !.waiters = waiters]
  <2>1. proc' = [proc EXCEPT ![p] = state]
    BY <1>1, <1>4 DEF DoneScan, ProcTypeOK
  <2>2. waiters \in SUBSET Sessions /\ NoWork \in Rows
    BY NoWorkOK DEF RowOK
  <2> HIDE DEF waiters
  <2>3. state \in ProcessStates
    BY <1>3, <2>2 DEF ProcessStates, Steps
  <2>4. /\ state.owner = proc[p].owner /\ state.pc = "delete"
        /\ state.seen = NoWork
    BY <1>3 DEF ProcessStates
  <2>5. ProcessOK(state)
    BY <1>3, <2>3, <2>4, NoWorkOK DEF ProcessOK, Owner
  <2>6. ProcTypeOK'
    BY <1>1, <2>1, <2>5, WriteProcess
  <2> QED
    BY <1>1, <1>4, <2>6, KeepRows, TypePartsPrimed DEF DoneScan, LedgerTypeOK
<1>5. CASE DoneDelete(p)
  <2>1. WorkTypeOK'
    BY <1>1, <1>3, <1>5, NoWorkOK, WriteRow DEF DoneDelete, NoWork
  <2>2. ProcTypeOK'
    BY <1>1, <1>3, <1>5, FinishTypes, MoveTypes DEF DoneDelete, Steps
  <2> QED
    BY <1>1, <1>5, <2>1, <2>2, TypePartsPrimed DEF DoneDelete, LedgerTypeOK
<1>6. CASE DoneTell(p)
  <2>1. ProcTypeOK'
    BY <1>1, <1>6, FinishTypes DEF DoneTell
  <2>2. unread' \subseteq Sessions
    BY <1>1, <1>3, <1>6 DEF DoneTell, LedgerTypeOK, ProcessStates
  <2> QED
    BY <1>1, <1>6, <2>1, <2>2, KeepRows, TypePartsPrimed
       DEF DoneTell, LedgerTypeOK
<1> QED
  BY <1>4, <1>5, <1>6

LEMMA SessionTypes ==
  ASSUME TypeOK, NEW s \in Sessions,
         Register(s) \/ SessionEnd(s) \/ Acknowledge(s)
  PROVE  TypeOK'
<1>1. LedgerTypeOK /\ WorkTypeOK /\ ProcTypeOK
  BY TypeParts
<1>2. CASE Register(s)
  BY <1>1, <1>2, KeepRows, TypePartsPrimed
     DEF Register, LedgerTypeOK, ProcTypeOK, ProcessOK, RowOK
<1>3. CASE Acknowledge(s)
  BY <1>1, <1>3, KeepRows, TypePartsPrimed
     DEF Acknowledge, LedgerTypeOK, ProcTypeOK, ProcessOK, RowOK
<1>4. CASE SessionEnd(s)
  <2>1. \A o \in Sessions :
          /\ work'[o] = IF o = s THEN NoWork ELSE work[o]
          /\ o # s /\ o \in registered => o \in registered'
    BY <1>1, <1>4 DEF SessionEnd, WorkTypeOK
  <2>2. work' \in [Sessions -> Rows]
    BY <1>1, <1>4, NoWorkOK DEF SessionEnd, WorkTypeOK, RowOK
  <2>3. \A o \in Sessions : RowOK(work'[o])
    BY <1>1, <2>1, NoWorkOK DEF WorkTypeOK
  <2>4. \A o \in Sessions : work'[o].state # "none" => o \in registered'
    BY <1>1, <2>1 DEF WorkTypeOK, NoWork
  <2>5. WorkTypeOK'
    BY <2>2, <2>3, <2>4 DEF WorkTypeOK, RowOK
  <2>6. \A p \in Processes :
          /\ [proc[p] EXCEPT !.orphan = TRUE] \in ProcessStates
          /\ ProcessOK([proc[p] EXCEPT !.orphan = TRUE])
    <3> SUFFICES ASSUME NEW p \in Processes
                 PROVE  /\ [proc[p] EXCEPT !.orphan = TRUE] \in ProcessStates
                        /\ ProcessOK([proc[p] EXCEPT !.orphan = TRUE])
      OBVIOUS
    <3>1. proc[p] \in ProcessStates /\ ProcessOK(proc[p])
      BY <1>1 DEF ProcTypeOK
    <3>2. [proc[p] EXCEPT !.orphan = TRUE] \in ProcessStates
      BY <3>1 DEF ProcessStates
    <3> QED
      BY <3>1, <3>2 DEF ProcessOK, ProcessStates
  <2>7. \A p \in Processes :
          proc'[p] = IF Owner(p) = s THEN [proc[p] EXCEPT !.orphan = TRUE]
                                     ELSE proc[p]
    BY <1>4 DEF SessionEnd
  <2>8. proc' \in [Processes -> ProcessStates]
    BY <1>1, <1>4, <2>6 DEF SessionEnd, ProcTypeOK
  <2>9. \A p \in Processes : ProcessOK(proc'[p])
    BY <1>1, <2>6, <2>7 DEF ProcTypeOK
  <2>10. ProcTypeOK'
    BY <2>8, <2>9 DEF ProcTypeOK, ProcessOK, RowOK
  <2>11. LedgerTypeOK'
    BY <1>1, <1>4 DEF SessionEnd, LedgerTypeOK, ScopeSets
  <2> QED
    BY <2>5, <2>10, <2>11, TypePartsPrimed
<1> QED
  BY <1>2, <1>3, <1>4

LEMMA TypesKept ==
  ASSUME TypeOK, [Next]_vars
  PROVE  TypeOK'
<1>1. ASSUME NEW p \in Processes, Step(p)
      PROVE  TypeOK'
  BY <1>1, SubmitTypes, RelabelTypes, UpdateScopesTypes, DraftSaveTypes,
     GatherTypes, ArbitrateTypes, OutcomeTypes, DoneTypes DEF Step, Commit
<1>2. CASE UNCHANGED vars
  BY <1>2 DEF vars, TypeOK, RowOK, ProcessOK
<1> QED
  BY <1>1, <1>2, OpenTypes, SessionTypes DEF Next

LEMMA TypeStarts == Init => TypeOK
<1> SUFFICES ASSUME Init PROVE TypeOK
  OBVIOUS
<1>1. NoWork \in Rows /\ RowOK(NoWork)
  BY NoWorkOK DEF RowOK
<1>2. Idle \in ProcessStates /\ ProcessOK(Idle)
  BY IdleOK DEF ProcessOK
<1> QED
  BY <1>1, <1>2 DEF Init, TypeOK, ScopeSets, NoWork

\* The ledger and the processes keep their types, and every stored row the
\* shape the schema demands, whatever runs at the same time.
THEOREM TypeCorrect == Spec => []TypeOK
  BY TypeStarts, TypesKept, PTL DEF Spec

-----------------------------------------------------------------------------
(***************************************************************************)
(* What holds when an agent runs one command at a time: a command's        *)
(* snapshot of its row stays true until its transaction, and an agent that *)
(* was told READY owns what it was told.                                   *)
(*                                                                         *)
(* The argument: only the processes of a session write its row, there is   *)
(* at most one, and the one exception (the end of the session) marks the   *)
(* process that is still running.                                          *)
(***************************************************************************)

OneCommandEach ==
  \A p, q \in Processes :
    p # q /\ Owner(p) = Owner(q) => Owner(p) = Nobody

\* The places in the code that only wait, or only done, reaches.
CommandOK(process) ==
  /\ process.pc = "look" => process.cmd = "wait"
  /\ process.pc \in {"scan", "delete", "tell"} => process.cmd = "done"

\* Nothing is granted to an agent while its done runs, or that is gone.
GrantsEnded ==
  \A p \in Processes :
    ~ At(p, "idle") /\ (proc[p].orphan \/ proc[p].cmd = "done") =>
      granted[Owner(p)] = {}

SafetyInv ==
  /\ TypeOK
  /\ OneCommandEach
  /\ \A p \in Processes : CommandOK(proc[p])
  /\ SnapshotsFresh
  /\ GrantBacked
  /\ GrantsEnded

\* What a step of process p does to the row, the grant and the process itself.
StepEffect(p) ==
  LET s == Owner(p) IN
    /\ \A q \in Processes \ {p} : proc'[q] = proc[q]
    /\ \A o \in Sessions \ {s} :
         work'[o] = work[o] /\ granted'[o] = granted[o]
    /\ granted'[s] # {} =>
         work'[s].state = "active" /\ work'[s].scopes = granted'[s]
    /\ \/ proc'[p] = Idle
       \/ /\ proc'[p].owner = s
          /\ proc'[p].cmd = proc[p].cmd
          /\ proc'[p].orphan = proc[p].orphan
          /\ CommandOK(proc'[p])
          /\ \/ proc'[p].pc \notin {"gather", "commit"}
             \/ proc'[p].pc = "gather" /\ proc[p].cmd # "promote"
             \/ work'[s] = proc'[p].seen
             \/ proc[p].orphan /\ work'[s] = NoWork
          /\ proc[p].orphan \/ proc[p].cmd = "done" => granted'[s] = {}

LEMMA EffectKeeps ==
  ASSUME SafetyInv, TypeOK', NEW p \in Processes, Owner(p) \in Sessions,
         StepEffect(p)
  PROVE  SafetyInv'
<1> DEFINE s == Owner(p)
<1>1. \A q \in Processes \ {p} :
        /\ proc'[q] = proc[q]
        /\ Owner(q) # s
        /\ ~ At(q, "idle") => Owner(q) \in Sessions \ {s}
  BY LedgerAssumption
     DEF SafetyInv, OneCommandEach, StepEffect, TypeOK, ProcessOK, At, Owner
<1>2. OneCommandEach'
  BY <1>1 DEF SafetyInv, OneCommandEach, StepEffect, Owner, Idle, Running
<1>3. \A q \in Processes : CommandOK(proc'[q])
  BY <1>1 DEF SafetyInv, StepEffect, CommandOK, Idle, Running
<1>4. SnapshotsFresh'
  BY <1>1 DEF SafetyInv, SnapshotsFresh, Snapshots, StepEffect, Owner, At,
              Idle, Running
<1>5. GrantBacked'
  BY DEF SafetyInv, GrantBacked, StepEffect, Active
<1>6. GrantsEnded'
  BY <1>1 DEF SafetyInv, GrantsEnded, StepEffect, Owner, At, Idle, Running
<1> QED
  BY <1>2, <1>3, <1>4, <1>5, <1>6 DEF SafetyInv, CommandOK

-----------------------------------------------------------------------------
(* The steps of a running process *)

\* What a running process knows under the invariant.
LEMMA RunningFacts ==
  ASSUME SafetyInv, NEW p \in Processes, ~ At(p, "idle")
  PROVE  /\ Owner(p) \in Sessions
         /\ proc \in [Processes -> ProcessStates]
         /\ work \in [Sessions -> Rows] /\ granted \in [Sessions -> ScopeSets]
         /\ RowOK(work[Owner(p)]) /\ RowOK(proc[p].seen)
         /\ CommandOK(proc[p])
         /\ granted[Owner(p)] # {} =>
              /\ work[Owner(p)].state = "active"
              /\ work[Owner(p)].scopes = granted[Owner(p)]
         /\ proc[p].orphan \/ proc[p].cmd = "done" => granted[Owner(p)] = {}
         /\ At(p, "commit") \/ (At(p, "gather") /\ proc[p].cmd = "promote") =>
              \/ work[Owner(p)] = proc[p].seen
              \/ proc[p].orphan /\ work[Owner(p)] = NoWork
  BY DEF SafetyInv, TypeOK, ProcessOK, GrantBacked, GrantsEnded,
         SnapshotsFresh, Snapshots, At, Owner, Active

\* A process that ends, or polls again, has nothing left to keep.
LEMMA EndOrPoll ==
  ASSUME SafetyInv, NEW p \in Processes, ~ At(p, "idle"),
         Finish(p) \/ (PollAgain(p) /\ proc[p].cmd = "wait")
  PROVE  /\ \A q \in Processes \ {p} : proc'[q] = proc[q]
         /\ \/ proc'[p] = Idle
            \/ /\ proc'[p].owner = Owner(p)
               /\ proc'[p].cmd = proc[p].cmd /\ proc[p].cmd = "wait"
               /\ proc'[p].orphan = proc[p].orphan
               /\ proc'[p].pc = "look"
               /\ CommandOK(proc'[p])
<1>1. proc \in [Processes -> ProcessStates]
  BY RunningFacts
<1>2. CASE Finish(p)
  BY <1>1, <1>2 DEF Finish
<1>3. CASE PollAgain(p) /\ proc[p].cmd = "wait"
  <2> DEFINE polling == Running(Owner(p), "wait", "look", {}, Nobody, NoWork)
             state == [polling EXCEPT !.orphan = proc[p].orphan]
  <2>1. /\ state.owner = Owner(p) /\ state.cmd = "wait"
        /\ state.orphan = proc[p].orphan /\ state.pc = "look"
    BY DEF Running
  <2>2. proc' = [proc EXCEPT ![p] = state] \/ Finish(p)
    BY <1>3 DEF PollAgain
  <2>3. CASE proc' = [proc EXCEPT ![p] = state]
    <3> HIDE DEF state
    <3> QED
      BY <1>1, <1>3, <2>1, <2>3 DEF CommandOK
  <2> QED
    BY <1>1, <2>2, <2>3 DEF Finish
<1> QED
  BY <1>2, <1>3

\* What the agent is told is granted, unless it is gone.
LEMMA ToldEffect ==
  ASSUME SafetyInv, NEW p \in Processes, ~ At(p, "idle"),
         NEW scopes, Told(p, scopes)
  PROVE  /\ \A o \in Sessions \ {Owner(p)} : granted'[o] = granted[o]
         /\ granted'[Owner(p)] = IF proc[p].orphan THEN {} ELSE scopes
  BY RunningFacts DEF Told

LEMMA SubmitEffect ==
  ASSUME SafetyInv, NEW p \in Processes, NEW fresh \in BOOLEAN, Submit(p, fresh)
  PROVE  StepEffect(p)
<1>0. PICK now \in Readings : SubmitAt(p, fresh, now)
  BY DEF Submit
<1> DEFINE s == Owner(p)
           seen == proc[p].seen
           scopes == proc[p].req
           keep == KeepsAge(proc[p].cmd, seen, scopes)
           age == IF keep THEN seen.age ELSE Allocated(now)
           reason == BlockedReason(s, scopes, age, proc[p].covered, fresh)
           row == Submitted(reason, scopes, proc[p].label, age,
                            NextRevision(work[s].rev))
<1>1. ~ At(p, "idle") /\ At(p, "commit")
  BY <1>0 DEF SubmitAt, At
<1>2. /\ work' = [work EXCEPT ![s] = row]
      /\ IF reason = "none" THEN Told(p, scopes) ELSE UNCHANGED granted
      /\ Finish(p) \/ (PollAgain(p) /\ proc[p].cmd = "wait"
                       /\ reason # "none")
      /\ SubmissionCurrent(proc[p].cmd, seen, work[s])
      /\ ~ UpdatesActive(p)
  BY <1>0 DEF SubmitAt, AfterSubmission
<1>3. row.scopes = scopes /\ (reason = "none" => row.state = "active")
  BY DEF Submitted
<1>4. work[s].state # "active"
  BY <1>1, <1>2, RunningFacts
     DEF SubmissionCurrent, UpdatesActive, NoWork, RowOK
<1>5. granted[s] = {}
  BY <1>1, <1>4, RunningFacts
<1> HIDE DEF row, reason
<1>6. /\ work'[s] = row
      /\ \A o \in Sessions \ {s} : work'[o] = work[o]
  BY <1>1, <1>2, RunningFacts
<1>7. /\ \A o \in Sessions \ {s} : granted'[o] = granted[o]
      /\ granted'[s] # {} => granted'[s] = scopes /\ reason = "none"
      /\ proc[p].orphan \/ reason # "none" => granted'[s] = {}
  BY <1>1, <1>2, <1>5, ToldEffect
<1> QED
  BY <1>1, <1>2, <1>3, <1>6, <1>7, EndOrPoll DEF StepEffect

LEMMA UpdateEffect ==
  ASSUME SafetyInv, NEW p \in Processes,
         \/ Relabel(p)
         \/ \E fresh \in BOOLEAN : UpdateScopes(p, fresh)
  PROVE  StepEffect(p)
<1> DEFINE s == Owner(p)
           scopes == proc[p].req
           row == Submitted("none", scopes, proc[p].label, proc[p].seen.age,
                            NextRevision(work[s].rev))
<1>1. ~ At(p, "idle") /\ At(p, "commit")
  BY DEF Relabel, UpdateScopes, At
<1>2. proc[p].seen.state = "active" /\ proc[p].seen.rev > 0
  BY <1>1, RunningFacts DEF Relabel, UpdateScopes, UpdatesActive, RowOK
<1>3. work[s].rev = proc[p].seen.rev
  BY DEF Relabel, UpdateScopes, UpdateCurrent
<1>4. work[s] = proc[p].seen
  BY <1>1, <1>2, <1>3, RunningFacts DEF NoWork
<1>5. work' = [work EXCEPT ![s] = row] /\ Told(p, scopes) /\ Finish(p)
  BY <1>1, <1>4, RunningFacts DEF Relabel, UpdateScopes
<1>6. row.state = "active" /\ row.scopes = scopes
  BY DEF Submitted
<1> HIDE DEF row
<1>7. /\ work'[s] = row
      /\ \A o \in Sessions \ {s} : work'[o] = work[o]
  BY <1>1, <1>5, RunningFacts
<1>8. /\ \A o \in Sessions \ {s} : granted'[o] = granted[o]
      /\ granted'[s] # {} => granted'[s] = scopes
  BY <1>1, <1>5, ToldEffect
<1>9. /\ \A q \in Processes \ {p} : proc'[q] = proc[q]
      /\ proc'[p] = Idle
  BY <1>1, <1>5, RunningFacts DEF Finish
<1> QED
  BY <1>6, <1>7, <1>8, <1>9 DEF StepEffect

LEMMA DraftSaveEffect ==
  ASSUME SafetyInv, NEW p \in Processes, DraftSave(p)
  PROVE  StepEffect(p)
<1>1. ~ At(p, "idle")
  BY DEF DraftSave, At
<1>2. granted[Owner(p)] = {}
  BY <1>1, RunningFacts DEF DraftSave
<1>3. \A o \in Sessions \ {Owner(p)} : work'[o] = work[o]
  BY <1>1, RunningFacts DEF DraftSave
<1>4. /\ \A q \in Processes \ {p} : proc'[q] = proc[q]
      /\ proc'[p] = Idle
  BY <1>1, RunningFacts DEF DraftSave, Finish
<1> QED
  BY <1>2, <1>3, <1>4 DEF StepEffect, DraftSave

\* The row read here is the row the transaction will find.
LEMMA GatherEffect ==
  ASSUME SafetyInv, NEW p \in Processes, NEW covered \in BOOLEAN,
         Gather(p, covered)
  PROVE  StepEffect(p)
<1> DEFINE seen == IF proc[p].cmd = "promote" THEN proc[p].seen
                                              ELSE work[Owner(p)]
           state == [proc[p] EXCEPT !.pc = "commit", !.covered = covered,
                                    !.seen = seen]
<1>1. ~ At(p, "idle") /\ At(p, "gather")
  BY DEF Gather, At
<1>2. proc' = [proc EXCEPT ![p] = state] /\ proc[p] \in ProcessStates
  BY <1>1, RunningFacts DEF Gather
<1>3. /\ state.owner = proc[p].owner /\ state.cmd = proc[p].cmd
      /\ state.orphan = proc[p].orphan /\ state.pc = "commit"
      /\ state.seen = seen
  BY <1>2 DEF ProcessStates
<1> HIDE DEF state
<1>4. /\ \A q \in Processes \ {p} : proc'[q] = proc[q]
      /\ proc'[p] = state
  BY <1>1, <1>2, RunningFacts
<1>5. work' = work /\ granted' = granted
  BY DEF Gather
<1> QED
  BY <1>1, <1>3, <1>4, <1>5, RunningFacts DEF StepEffect, CommandOK, Owner

\* Steps that end a process, or poll again, and leave the ledger alone.
LEMMA OutcomeEffect ==
  ASSUME SafetyInv, NEW p \in Processes,
         \/ Reconfirm(p)
         \/ \E fresh \in BOOLEAN : RefuseUpdate(p, fresh)
         \/ WaitReady(p) \/ WaitReleased(p) \/ WaitInterrupted(p)
         \/ Abort(p)
  PROVE  StepEffect(p)
<1> DEFINE s == Owner(p)
<1>1. ~ At(p, "idle")
  BY DEF Reconfirm, RefuseUpdate, WaitReady, WaitReleased, WaitInterrupted,
         Abort, At
<1>2. work' = work
  BY DEF Reconfirm, RefuseUpdate, WaitReady, WaitReleased, WaitInterrupted,
         Abort
<1>3. Finish(p) \/ (PollAgain(p) /\ proc[p].cmd = "wait")
  BY DEF Reconfirm, RefuseUpdate, WaitReady, WaitReleased, WaitInterrupted,
         Abort
<1>4. /\ \A o \in Sessions \ {s} : granted'[o] = granted[o]
      /\ proc[p].orphan => granted'[s] = {}
      /\ granted'[s] # {} =>
           work[s].state = "active" /\ work[s].scopes = granted'[s]
  <2>1. CASE Reconfirm(p)
    <3>1. ~ proc[p].orphan => work[s] = proc[p].seen
      BY <1>1, <2>1, RunningFacts DEF Reconfirm
    <3>2. /\ Told(p, proc[p].req)
          /\ proc[p].seen.state = "active"
          /\ proc[p].seen.scopes = proc[p].req
      BY <2>1 DEF Reconfirm, UpdatesActive
    <3> QED
      BY <1>1, <3>1, <3>2, ToldEffect
  <2>2. CASE \E fresh \in BOOLEAN : RefuseUpdate(p, fresh)
    <3>1. /\ work[s].state = "active"
          /\ work[s].scopes = proc[p].seen.scopes
          /\ UNCHANGED granted \/ Told(p, proc[p].seen.scopes)
      BY <2>2 DEF RefuseUpdate, UpdateCurrent
    <3> QED
      BY <1>1, <3>1, ToldEffect, RunningFacts
  <2>3. CASE WaitReady(p)
    BY <1>1, <2>3, ToldEffect DEF WaitReady, Active
  <2>4. CASE WaitReleased(p)
    BY <1>1, <2>4, ToldEffect DEF WaitReleased
  <2>5. CASE WaitInterrupted(p) \/ Abort(p)
    BY <1>1, <2>5, RunningFacts DEF WaitInterrupted, Abort
  <2> QED
    BY <2>1, <2>2, <2>3, <2>4, <2>5
<1>5. granted'[s] # {} =>
        work'[s].state = "active" /\ work'[s].scopes = granted'[s]
  BY <1>2, <1>4
<1> QED
  BY <1>1, <1>2, <1>3, <1>4, <1>5, EndOrPoll DEF StepEffect

LEMMA ArbitrateEffect ==
  ASSUME SafetyInv, NEW p \in Processes, WaitArbitrate(p)
  PROVE  StepEffect(p)
<1> DEFINE row == work[Owner(p)]
           state == [proc[p] EXCEPT !.pc = "gather", !.req = row.scopes,
                                    !.label = row.label]
<1>1. ~ At(p, "idle") /\ At(p, "look")
  BY DEF WaitArbitrate, At
<1>2. proc' = [proc EXCEPT ![p] = state] /\ proc[p] \in ProcessStates
  BY <1>1, RunningFacts DEF WaitArbitrate
<1>3. /\ state.owner = proc[p].owner /\ state.cmd = proc[p].cmd
      /\ state.orphan = proc[p].orphan /\ state.pc = "gather"
  BY <1>2 DEF ProcessStates
<1> HIDE DEF state
<1>4. /\ \A q \in Processes \ {p} : proc'[q] = proc[q]
      /\ proc'[p] = state
  BY <1>1, <1>2, RunningFacts
<1>5. proc[p].cmd = "wait"
  BY <1>1, RunningFacts DEF CommandOK, At
<1>6. work' = work /\ granted' = granted
  BY DEF WaitArbitrate
<1> QED
  BY <1>1, <1>3, <1>4, <1>5, <1>6, RunningFacts
     DEF StepEffect, CommandOK, Owner

LEMMA DoneEffect ==
  ASSUME SafetyInv, NEW p \in Processes,
         DoneScan(p) \/ DoneDelete(p) \/ DoneTell(p)
  PROVE  StepEffect(p)
<1> DEFINE s == Owner(p)
<1>1. ~ At(p, "idle") /\ proc[p].pc \in {"scan", "delete", "tell"}
  BY DEF DoneScan, DoneDelete, DoneTell, At
<1>2. /\ proc[p].cmd = "done" /\ granted[s] = {}
      /\ proc[p] \in ProcessStates
  BY <1>1, RunningFacts DEF CommandOK
<1>3. granted' = granted
  BY DEF DoneScan, DoneDelete, DoneTell
<1>4. \A o \in Sessions \ {s} : work'[o] = work[o]
  BY <1>1, RunningFacts DEF DoneScan, DoneDelete, DoneTell
<1>5. /\ \A q \in Processes \ {p} : proc'[q] = proc[q]
      /\ \/ proc'[p] = Idle
         \/ /\ proc'[p].owner = s
            /\ proc'[p].cmd = proc[p].cmd
            /\ proc'[p].orphan = proc[p].orphan
            /\ proc'[p].pc \in {"delete", "tell"}
  <2>1. CASE DoneScan(p)
    <3> DEFINE waiters ==
                 {o \in Sessions :
                    /\ Queued(o)
                    /\ AnyOverlap(proc[p].seen.scopes, work[o].scopes)}
               state == [proc[p] EXCEPT !.pc = "delete", !.seen = NoWork,
                                        !.waiters = waiters]
    <3>1. proc' = [proc EXCEPT ![p] = state]
      BY <1>1, <2>1, RunningFacts DEF DoneScan
    <3>2. /\ state.owner = proc[p].owner /\ state.cmd = proc[p].cmd
          /\ state.orphan = proc[p].orphan /\ state.pc = "delete"
      BY <1>2 DEF ProcessStates
    <3> HIDE DEF state
    <3> QED
      BY <1>1, <3>1, <3>2, RunningFacts DEF Owner
  <2>2. CASE DoneDelete(p)
    <3>1. Goto(p, "tell") \/ Finish(p)
      BY <2>2 DEF DoneDelete
    <3> QED
      BY <1>1, <1>2, <3>1, RunningFacts
         DEF Goto, Finish, Owner, ProcessStates
  <2>3. CASE DoneTell(p)
    BY <1>1, <2>3, RunningFacts DEF DoneTell, Finish
  <2> QED
    BY <2>1, <2>2, <2>3
<1> QED
  BY <1>2, <1>3, <1>4, <1>5 DEF StepEffect, CommandOK

LEMMA StepKeeps ==
  ASSUME SafetyInv, NEW p \in Processes, Step(p)
  PROVE  SafetyInv'
<1>1. ~ At(p, "idle")
  BY DEF Step, Commit, DraftSave, Gather, Submit, SubmitAt, UpdateScopes, RefuseUpdate,
         Reconfirm, Relabel, WaitReady, WaitReleased, WaitInterrupted,
         WaitArbitrate, DoneScan, DoneDelete, DoneTell, Abort, At
<1>2. Owner(p) \in Sessions
  BY <1>1, RunningFacts
<1>3. [Next]_vars
  BY DEF Next
<1>4. TypeOK'
  BY <1>3, TypesKept DEF SafetyInv
<1>5. StepEffect(p)
  BY SubmitEffect, UpdateEffect, DraftSaveEffect, GatherEffect, OutcomeEffect,
     ArbitrateEffect, DoneEffect DEF Step, Commit
<1> QED
  BY <1>2, <1>4, <1>5, EffectKeeps

-----------------------------------------------------------------------------
(* New processes, and the sessions themselves *)

\* A process begins: it reads its row now, or has not read it yet.
LEMMA BeginKeeps ==
  ASSUME SafetyInv, TypeOK', Concurrency = "none",
         NEW p \in Processes, NEW s \in Sessions,
         NEW cmd, NEW pc, NEW req, NEW label, NEW seen,
         Begin(p, s, cmd, pc, req, label, seen),
         UNCHANGED work,
         \/ granted' = granted /\ cmd # "done"
         \/ granted' = [granted EXCEPT ![s] = {}],
         \/ pc = "look" /\ cmd = "wait"
         \/ pc \in {"scan", "delete"} /\ cmd = "done"
         \/ pc = "save"
         \/ pc = "gather" /\ cmd # "promote"
         \/ pc = "gather" /\ seen = work[s]
  PROVE  SafetyInv'
<1>1. /\ proc \in [Processes -> ProcessStates]
      /\ granted \in [Sessions -> ScopeSets]
      /\ s # Nobody
  BY LedgerAssumption DEF SafetyInv, TypeOK
<1>2. \A q \in Processes : Owner(q) # s
  BY DEF Begin
<1>3. /\ \A q \in Processes \ {p} : proc'[q] = proc[q]
      /\ proc'[p] = Running(s, cmd, pc, req, label, seen)
  BY <1>1 DEF Begin
<1>4. /\ proc'[p].owner = s /\ proc'[p].pc = pc /\ proc'[p].cmd = cmd
      /\ proc'[p].seen = seen /\ ~ proc'[p].orphan
  BY <1>3 DEF Running
<1>5. OneCommandEach'
  BY <1>2, <1>3, <1>4 DEF SafetyInv, OneCommandEach, Owner
<1>6. \A q \in Processes : CommandOK(proc'[q])
  BY <1>3, <1>4 DEF SafetyInv, CommandOK
<1>7. SnapshotsFresh'
  BY <1>3, <1>4 DEF SafetyInv, SnapshotsFresh, Snapshots, Owner, At
<1>8. GrantBacked'
  BY <1>1 DEF SafetyInv, GrantBacked, Active
<1>9. \A q \in Processes : granted[Owner(q)] = {} =>
        granted'[Owner(q)] = {} \/ Owner(q) \notin Sessions
  BY <1>1
<1>10. GrantsEnded'
  <2>1. \A q \in Processes \ {p} : ~ At(q, "idle") => Owner(q) \in Sessions
    BY DEF SafetyInv, TypeOK, ProcessOK, At, Owner
  <2>2. cmd = "done" => granted'[s] = {}
    BY <1>1
  <2> QED
    BY <1>3, <1>4, <1>9, <2>1, <2>2 DEF SafetyInv, GrantsEnded, Owner, At
<1> QED
  BY <1>5, <1>6, <1>7, <1>8, <1>10 DEF SafetyInv, CommandOK

LEMMA OpenKeeps ==
  ASSUME SafetyInv, Concurrency = "none", NEW p \in Processes,
         NEW s \in Sessions, Open(p, s)
  PROVE  SafetyInv'
<1>1. TypeOK'
  BY OpenTypes DEF SafetyInv
<1>2. ASSUME NEW scopes \in Requests, NEW label \in Labels,
             DraftOpen(p, s, scopes, label)
      PROVE  SafetyInv'
  <2>1. Begin(p, s, "draft", "save", scopes, label, NoWork)
    BY <1>2 DEF DraftOpen
  <2> QED
    BY <1>1, <1>2, <2>1, BeginKeeps DEF DraftOpen
<1>3. ASSUME NEW scopes \in Requests, NEW label \in Labels,
             StartOpen(p, s, scopes, label)
      PROVE  SafetyInv'
  <2>1. Begin(p, s, "start", "gather", scopes, label, NoWork)
    BY <1>3 DEF StartOpen
  <2> QED
    BY <1>1, <1>3, <2>1, BeginKeeps DEF StartOpen
<1>4. CASE PromoteOpen(p, s)
  <2>1. Begin(p, s, "promote", "gather", work[s].scopes, work[s].label,
              work[s])
    BY <1>4 DEF PromoteOpen
  <2> QED
    BY <1>1, <1>4, <2>1, BeginKeeps DEF PromoteOpen
<1>5. CASE WaitOpen(p, s)
  <2>1. Begin(p, s, "wait", "look", {}, Nobody, NoWork)
    BY <1>5 DEF WaitOpen
  <2> QED
    BY <1>1, <1>5, <2>1, BeginKeeps DEF WaitOpen
<1>6. CASE DoneOpen(p, s)
  <2>1. \/ Begin(p, s, "done", "scan", {}, Nobody, work[s])
        \/ Begin(p, s, "done", "delete", {}, Nobody, NoWork)
    BY <1>6 DEF DoneOpen
  <2> QED
    BY <1>1, <1>6, <2>1, BeginKeeps DEF DoneOpen
<1> QED
  BY <1>2, <1>3, <1>4, <1>5, <1>6 DEF Open

\* The end of a session marks the process that still runs for it.
LEMMA SessionKeeps ==
  ASSUME SafetyInv, NEW s \in Sessions,
         Register(s) \/ SessionEnd(s) \/ Acknowledge(s)
  PROVE  SafetyInv'
<1>1. TypeOK'
  BY SessionTypes DEF SafetyInv
<1>2. CASE Register(s) \/ Acknowledge(s)
  BY <1>1, <1>2 DEF SafetyInv, OneCommandEach, CommandOK, SnapshotsFresh,
                    Snapshots, GrantBacked, GrantsEnded, Register, Acknowledge,
                    Owner, At, Active
<1>3. CASE SessionEnd(s)
  <2>1. \A p \in Processes :
          /\ proc'[p].owner = proc[p].owner /\ proc'[p].pc = proc[p].pc
          /\ proc'[p].cmd = proc[p].cmd /\ proc'[p].seen = proc[p].seen
          /\ proc'[p].orphan = IF Owner(p) = s THEN TRUE ELSE proc[p].orphan
    <3> SUFFICES ASSUME NEW p \in Processes
                 PROVE  /\ proc'[p].owner = proc[p].owner
                        /\ proc'[p].pc = proc[p].pc
                        /\ proc'[p].cmd = proc[p].cmd
                        /\ proc'[p].seen = proc[p].seen
                        /\ proc'[p].orphan =
                             IF Owner(p) = s THEN TRUE ELSE proc[p].orphan
      OBVIOUS
    <3>1. proc[p] \in ProcessStates
      BY DEF SafetyInv, TypeOK
    <3>2. proc'[p] = IF Owner(p) = s THEN [proc[p] EXCEPT !.orphan = TRUE]
                                     ELSE proc[p]
      BY <1>3 DEF SessionEnd
    <3> QED
      BY <3>1, <3>2 DEF ProcessStates
  <2>2. /\ \A o \in Sessions \ {s} :
             work'[o] = work[o] /\ granted'[o] = granted[o]
        /\ work'[s] = NoWork /\ granted'[s] = {}
    BY <1>3 DEF SafetyInv, TypeOK, SessionEnd
  <2>3. \A p \in Processes : ~ At(p, "idle") => Owner(p) \in Sessions
    BY DEF SafetyInv, TypeOK, ProcessOK, At, Owner
  <2>4. OneCommandEach'
    BY <2>1 DEF SafetyInv, OneCommandEach, Owner
  <2>5. \A p \in Processes : CommandOK(proc'[p])
    BY <2>1 DEF SafetyInv, CommandOK
  <2>6. SnapshotsFresh'
    <3> SUFFICES ASSUME NEW p \in Processes, Snapshots(p)'
                 PROVE  \/ work'[proc'[p].owner] = proc'[p].seen
                        \/ proc'[p].orphan /\ work'[proc'[p].owner] = NoWork
      BY DEF SnapshotsFresh, Owner
    <3>1. Snapshots(p) /\ ~ At(p, "idle")
      BY <2>1 DEF Snapshots, At
    <3>2. \/ work[Owner(p)] = proc[p].seen
          \/ proc[p].orphan /\ work[Owner(p)] = NoWork
      BY <3>1 DEF SafetyInv, SnapshotsFresh
    <3>3. CASE Owner(p) = s
      BY <2>1, <2>2, <3>3 DEF Owner
    <3>4. CASE Owner(p) # s
      BY <2>1, <2>2, <2>3, <3>1, <3>2, <3>4 DEF Owner
    <3> QED
      BY <3>3, <3>4
  <2>7. GrantBacked'
    BY <2>2 DEF SafetyInv, GrantBacked, Active
  <2>8. GrantsEnded'
    <3> SUFFICES ASSUME NEW p \in Processes, proc'[p].pc # "idle",
                        proc'[p].orphan \/ proc'[p].cmd = "done"
                 PROVE  granted'[proc'[p].owner] = {}
      BY DEF GrantsEnded, At, Owner
    <3>1. ~ At(p, "idle")
      BY <2>1 DEF At
    <3>2. CASE Owner(p) = s
      BY <2>1, <2>2, <3>2 DEF Owner
    <3>3. CASE Owner(p) # s
      <4>1. granted[Owner(p)] = {}
        BY <2>1, <3>1, <3>3 DEF SafetyInv, GrantsEnded
      <4> QED
        BY <2>1, <2>2, <2>3, <3>1, <3>3, <4>1 DEF Owner
    <3> QED
      BY <3>2, <3>3
  <2> QED
    BY <1>1, <2>4, <2>5, <2>6, <2>7, <2>8 DEF SafetyInv, CommandOK
<1> QED
  BY <1>2, <1>3

-----------------------------------------------------------------------------
(* The theorems *)

LEMMA SafetyStarts == Init => SafetyInv
<1> SUFFICES ASSUME Init PROVE SafetyInv
  OBVIOUS
<1>1. TypeOK
  BY TypeStarts
<1>2. /\ \A p \in Processes : /\ proc[p].owner = Nobody
                              /\ proc[p].pc = "idle"
      /\ \A s \in Sessions : granted[s] = {}
  BY DEF Init, Idle, Running
<1> QED
  BY <1>1, <1>2 DEF SafetyInv, OneCommandEach, CommandOK, SnapshotsFresh,
                    Snapshots, GrantBacked, GrantsEnded, Owner, At

LEMMA SafetyKept ==
  ASSUME SafetyInv, [Next]_vars, Concurrency = "none"
  PROVE  SafetyInv'
<1>1. CASE UNCHANGED vars
  <2>1. TypeOK'
    BY TypesKept DEF SafetyInv
  <2> QED
    BY <1>1, <2>1 DEF vars, SafetyInv, OneCommandEach, CommandOK,
                      SnapshotsFresh, Snapshots, GrantBacked, GrantsEnded,
                      Owner, At, Active
<1> QED
  BY <1>1, StepKeeps, OpenKeeps, SessionKeeps DEF Next

THEOREM SafetyInvariant ==
  ASSUME Concurrency = "none"
  PROVE  Spec => []SafetyInv
  BY SafetyStarts, SafetyKept, PTL DEF Spec

\* When an agent runs one command at a time, what a command read of its row is
\* what its transaction finds, unless the session has ended (submit).
THEOREM SnapshotsStayFresh ==
  ASSUME Concurrency = "none"
  PROVE  Spec => []SnapshotsFresh
<1>1. SafetyInv => SnapshotsFresh
  BY DEF SafetyInv
<1> QED
  BY <1>1, SafetyInvariant, PTL

\* When an agent runs one command at a time, an agent that was told READY owns
\* in the ledger exactly what it was told (start, wait, update_active).
THEOREM GrantsAreBacked ==
  ASSUME Concurrency = "none"
  PROVE  Spec => []GrantBacked
<1>1. SafetyInv => GrantBacked
  BY DEF SafetyInv
<1> QED
  BY <1>1, SafetyInvariant, PTL

LEMMA SubmitKeepsPlace ==
  ASSUME SafetyInv, NEW p \in Processes, NEW fresh \in BOOLEAN, Submit(p, fresh)
  PROVE  KeepsPlace
<1>0. PICK now \in Readings : SubmitAt(p, fresh, now)
  BY DEF Submit
<1> DEFINE s == Owner(p)
           seen == proc[p].seen
           scopes == proc[p].req
           keep == KeepsAge(proc[p].cmd, seen, scopes)
           age == IF keep THEN seen.age ELSE Allocated(now)
           reason == BlockedReason(s, scopes, age, proc[p].covered, fresh)
           row == Submitted(reason, scopes, proc[p].label, age,
                            NextRevision(work[s].rev))
<1>1. ~ At(p, "idle") /\ At(p, "commit")
  BY <1>0 DEF SubmitAt, At
<1>2. /\ work' = [work EXCEPT ![s] = row]
      /\ SubmissionCurrent(proc[p].cmd, seen, work[s])
  BY <1>0 DEF SubmitAt
<1>3. row.scopes = scopes /\ row.age = age
  BY DEF Submitted
<1> HIDE DEF row
<1>4. work'[s] = row /\ \A o \in Sessions \ {s} : work'[o] = work[o]
  BY <1>1, <1>2, RunningFacts
<1>5. Queued(s) => work[s] = seen /\ proc[p].cmd # "promote"
  BY <1>1, <1>2, RunningFacts DEF Queued, NoWork, SubmissionCurrent
<1>6. ASSUME Queued(s), work'[s].age # work[s].age
      PROVE  ~ ScopesCover(work[s].scopes, work'[s].scopes)
  BY <1>3, <1>4, <1>5, <1>6 DEF KeepsAge, Queued
<1> QED
  BY <1>4, <1>6 DEF KeepsPlace

LEMMA StepsKeepPlace ==
  ASSUME SafetyInv, [Next]_vars
  PROVE  [KeepsPlace]_vars
<1>1. work \in [Sessions -> Rows]
  BY DEF SafetyInv, TypeOK
<1>2. ASSUME work' = work
      PROVE  KeepsPlace
  BY <1>2 DEF KeepsPlace
<1>3. ASSUME NEW s \in Sessions, NEW row,
             work' = [work EXCEPT ![s] = row],
             ~ Queued(s) \/ row.state \notin {"active", "queued"}
      PROVE  KeepsPlace
  BY <1>1, <1>3 DEF KeepsPlace, Queued
<1>4. ASSUME NEW p \in Processes, Step(p)
      PROVE  KeepsPlace
  <2>1. ~ At(p, "idle") => Owner(p) \in Sessions
    BY RunningFacts
  <2>2. CASE \E fresh \in BOOLEAN : Submit(p, fresh)
    BY <2>2, SubmitKeepsPlace
  <2>3. CASE Relabel(p) \/ \E fresh \in BOOLEAN : UpdateScopes(p, fresh)
    <3>1. /\ At(p, "commit") /\ ~ At(p, "idle")
          /\ proc[p].seen.state = "active"
          /\ work[Owner(p)].rev = proc[p].seen.rev
      BY <2>3 DEF Relabel, UpdateScopes, UpdatesActive, UpdateCurrent, At
    <3>2. ~ Queued(Owner(p))
      BY <3>1, RunningFacts DEF Queued, NoWork
    <3> QED
      BY <1>3, <2>1, <2>3, <3>1, <3>2 DEF Relabel, UpdateScopes
  <2>4. CASE DraftSave(p)
    BY <1>3, <2>1, <2>4 DEF DraftSave, Draft, At
  <2>5. CASE DoneDelete(p)
    BY <1>3, <2>1, <2>5 DEF DoneDelete, NoWork, At
  <2>6. CASE \/ Reconfirm(p) \/ WaitReady(p) \/ WaitReleased(p)
             \/ WaitInterrupted(p) \/ WaitArbitrate(p) \/ Abort(p)
             \/ DoneScan(p) \/ DoneTell(p)
             \/ \E fresh \in BOOLEAN : RefuseUpdate(p, fresh)
             \/ \E covered \in BOOLEAN : Gather(p, covered)
    BY <1>2, <2>6 DEF Reconfirm, WaitReady, WaitReleased, WaitInterrupted,
                      WaitArbitrate, Abort, DoneScan, DoneTell, RefuseUpdate,
                      Gather
  <2> QED
    BY <1>4, <2>2, <2>3, <2>4, <2>5, <2>6 DEF Step, Commit
<1>5. ASSUME NEW p \in Processes, NEW s \in Sessions, Open(p, s)
      PROVE  KeepsPlace
  BY <1>2, <1>5 DEF Open, DraftOpen, StartOpen, PromoteOpen, WaitOpen, DoneOpen
<1>6. ASSUME NEW s \in Sessions, Register(s) \/ SessionEnd(s) \/ Acknowledge(s)
      PROVE  KeepsPlace
  <2>1. CASE SessionEnd(s)
    BY <1>3, <2>1 DEF SessionEnd, NoWork
  <2> QED
    BY <1>2, <1>6, <2>1 DEF Register, Acknowledge
<1> QED
  BY <1>4, <1>5, <1>6 DEF Next

\* When an agent runs one command at a time, a queued row never loses its place
\* by a request that its old scopes covered (submit).
THEOREM QueuePlaceIsKept ==
  ASSUME Concurrency = "none"
  PROVE  Spec => PlaceKept
  BY SafetyInvariant, StepsKeepPlace, PTL DEF Spec, PlaceKept

=============================================================================
