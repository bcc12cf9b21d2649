------------------------ MODULE WorkLedgerRefinement ------------------------
(***************************************************************************)
(* The work ledger implements the scope lock, when an agent runs one       *)
(* command at a time and all agents name the same path in the same way.    *)
(* Mutual exclusion and first come first served follow from the lock.      *)
(***************************************************************************)
EXTENDS WorkLedgerProofs

LockProofs ==
  INSTANCE ScopeLockProofs WITH place <- LockPlace, tickets <- clock

-----------------------------------------------------------------------------
(* The mapping *)

\* The scope algebra of the lock is that of the ledger.
LEMMA SameAlgebra ==
  /\ \A A, B : Lock!AnyOverlap(A, B) <=> AnyOverlap(A, B)
  /\ \A A, B : Lock!ScopesCover(A, B) <=> ScopesCover(A, B)
  BY DEF AnyOverlap, ScopesOverlap, ScopesCover, ScopeCovers, Within,
         Lock!AnyOverlap, Lock!ScopesOverlap, Lock!ScopesCover,
         Lock!ScopeCovers, Lock!Within

\* Active rows hold, queued rows wait, and nothing else does either.
LEMMA SamePlaces ==
  ASSUME NEW s \in Sessions
  PROVE  /\ Lock!Holds(s) <=> Active(s)
         /\ Lock!Waits(s) <=> Queued(s)
         /\ LockPlace[s].state # "out" <=> Active(s) \/ Queued(s)
         /\ Active(s) \/ Queued(s) =>
              /\ LockPlace[s].scopes = work[s].scopes
              /\ LockPlace[s].ticket = work[s].age
  BY DEF LockPlace, PlaceOf, Lock!Holds, Lock!Waits, Active, Queued

LEMMA WritePlace ==
  ASSUME work \in [Sessions -> Rows], NEW s \in Sessions, NEW row,
         work' = [work EXCEPT ![s] = row]
  PROVE  LockPlace' = [LockPlace EXCEPT ![s] = PlaceOf(row)]
  BY DEF LockPlace

LEMMA SamePlace ==
  ASSUME work \in [Sessions -> Rows], NEW s \in Sessions, NEW row,
         work' = [work EXCEPT ![s] = row], PlaceOf(row) = PlaceOf(work[s])
  PROVE  LockPlace' = LockPlace
  BY WritePlace DEF LockPlace

-----------------------------------------------------------------------------
(* Steps *)

LEMMA SubmitAsks ==
  ASSUME SafetyInv, NEW p \in Processes, NEW fresh \in BOOLEAN, Submit(p, fresh)
  PROVE  Lock!Ask(Owner(p), proc[p].req) /\ proc[p].req \in Requests
<1>0. PICK now \in Readings : SubmitAt(p, fresh, now)
  BY DEF Submit
<1> DEFINE s == Owner(p)
           seen == proc[p].seen
           scopes == proc[p].req
           keep == KeepsAge(proc[p].cmd, seen, scopes)
           age == IF keep THEN seen.age ELSE Allocated(now)
           reason == BlockedReason(s, scopes, age, proc[p].covered, fresh)
           row == Submitted(reason, scopes, proc[p].label, age,
                            NextRevision(work[s].rev))
           next == IF reason = "none" THEN "holding" ELSE "waiting"
<1>1. ~ At(p, "idle") /\ At(p, "commit")
  BY <1>0 DEF SubmitAt, At
<1>2. /\ s \in Sessions /\ work \in [Sessions -> Rows]
      /\ RowOK(work[s]) /\ RowOK(seen)
      /\ work[s] = seen \/ work[s] = NoWork
  BY <1>1, RunningFacts
<1>3. scopes \in Requests
  <2>1. ProcTypeOK
    BY TypeParts DEF SafetyInv
  <2>2. scopes \in ScopeSets /\ scopes # {}
    BY <1>1, <2>1, OwnerTypes
  <2> QED
    BY <2>2 DEF ScopeSets
<1>4. /\ work' = [work EXCEPT ![s] = row]
      /\ clock' = IF keep THEN clock ELSE age
      /\ SubmissionCurrent(proc[p].cmd, seen, work[s])
      /\ ~ UpdatesActive(p)
  BY <1>0 DEF SubmitAt
<1>5. keep => work[s] = seen /\ Queued(s) /\ ScopesCover(work[s].scopes, scopes)
  BY <1>2, <1>4 DEF KeepsAge, SubmissionCurrent, RowOK, NoWork, Queued
<1>6. ~ Active(s)
  BY <1>2, <1>4 DEF SubmissionCurrent, UpdatesActive, NoWork, RowOK, Active
<1>7. PlaceOf(row) = [state |-> next, scopes |-> scopes, ticket |-> age]
  BY DEF PlaceOf, Submitted
<1>8. LockPlace' = [LockPlace EXCEPT
                      ![s] = [state |-> next, scopes |-> scopes,
                              ticket |-> age]]
  BY <1>2, <1>4, <1>7, WritePlace
<1>9. /\ age = IF keep THEN LockPlace[s].ticket ELSE clock'
      /\ IF keep THEN UNCHANGED clock ELSE clock' \in Nat /\ clock' > clock
  <2>1. clock \in Nat /\ now \in Nat
    BY LedgerAssumption DEF SafetyInv, TypeOK
  <2>2. Allocated(now) \in Nat /\ Allocated(now) > clock
    BY <2>1 DEF Allocated
  <2> QED
    BY <1>2, <1>4, <1>5, <2>2, SamePlaces
<1>10. reason = "none" =>
         ActiveBlockers(s, scopes) = {} /\ EarlierBlockers(s, scopes, age) = {}
  BY DEF BlockedReason
<1> HIDE DEF reason, row, age, keep
<1>11. next = "holding" => Lock!Free(s, scopes, age)
  <2> SUFFICES ASSUME reason = "none", NEW o \in Sessions \ {s},
                      Lock!AnyOverlap(scopes, LockPlace[o].scopes)
               PROVE  /\ ~ Lock!Holds(o)
                      /\ ~ (Lock!Waits(o) /\ LockPlace[o].ticket < age)
    BY DEF Lock!Free
  <2>1. AnyOverlap(scopes, LockPlace[o].scopes)
    BY SameAlgebra
  <2>2. CASE Active(o)
    <3>1. o \in ActiveBlockers(s, scopes)
      BY <2>1, <2>2, SamePlaces DEF ActiveBlockers
    <3> QED
      BY <1>10, <3>1
  <2>3. CASE Queued(o) /\ work[o].age < age
    <3>1. o \in EarlierBlockers(s, scopes, age)
      BY <2>1, <2>3, SamePlaces DEF EarlierBlockers
    <3> QED
      BY <1>10, <3>1
  <2> QED
    BY <2>2, <2>3, SamePlaces
<1>12. keep \in BOOLEAN
  BY DEF keep, KeepsAge
<1>13. /\ ~ Lock!Holds(s)
       /\ keep => Lock!Waits(s) /\ Lock!ScopesCover(LockPlace[s].scopes, scopes)
  BY <1>2, <1>5, <1>6, SamePlaces, SameAlgebra
<1> QED
  BY <1>3, <1>4, <1>8, <1>9, <1>11, <1>12, <1>13 DEF Lock!Ask

LEMMA UpdateReshapes ==
  ASSUME SafetyInv, Consistent(Requests), NEW p \in Processes,
         NEW fresh \in BOOLEAN, UpdateScopes(p, fresh)
  PROVE  Lock!Reshape(Owner(p), proc[p].req) /\ proc[p].req \in Requests
<1> DEFINE s == Owner(p)
           existing == proc[p].seen.scopes
           scopes == proc[p].req
           row == Submitted("none", scopes, proc[p].label, work[s].age,
                            NextRevision(work[s].rev))
<1>1. ~ At(p, "idle") /\ At(p, "commit")
  BY DEF UpdateScopes, At
<1>2. /\ s \in Sessions /\ work \in [Sessions -> Rows] /\ RowOK(work[s])
      /\ \A o \in Sessions : RowOK(work[o])
  BY <1>1, RunningFacts DEF SafetyInv, TypeOK
<1>3. scopes \in Requests
  <2>1. ProcTypeOK
    BY TypeParts DEF SafetyInv
  <2>2. scopes \in ScopeSets /\ scopes # {}
    BY <1>1, <2>1, OwnerTypes
  <2> QED
    BY <2>2 DEF ScopeSets
<1>4. /\ work[s].state = "active" /\ work[s].scopes = existing
      /\ UpdateClear(p, fresh)
      /\ work' = [work EXCEPT ![s] = row] /\ clock' = clock
  BY DEF UpdateScopes, UpdateCurrent
<1>5. existing \in Requests
  BY <1>2, <1>4 DEF RowOK, Rows, ScopeSets
<1>6. /\ existing \in SUBSET Scope /\ scopes \in SUBSET Scope
      /\ KindsAgree(existing, scopes)
  BY <1>3, <1>5 DEF Consistent
<1>7. ASSUME NEW o \in Sessions \ {s}, Active(o) \/ Queued(o),
             AnyOverlap(scopes, work[o].scopes)
      PROVE  AnyOverlap(existing, work[o].scopes)
  <2>1. work[o].scopes \in SUBSET Scope
    BY <1>2, <1>7 DEF RowOK, Rows, ScopeSets, Consistent
  <2>2. CASE ScopesCover(existing, scopes)
    BY <1>6, <1>7, <2>1, <2>2, CoverSound
  <2>3. CASE ExpansionBlockers(s, scopes, existing) = {}
    <3>1. OverlapsOutsideCoverage(scopes, work[o].scopes, existing) = {}
      BY <1>7, <2>3 DEF ExpansionBlockers
    <3> QED
      BY <1>6, <1>7, <2>1, <3>1, ExpansionSound
  <2> QED
    BY <1>4, <2>2, <2>3 DEF UpdateClear
<1>8. LockPlace' = [LockPlace EXCEPT ![s].scopes = scopes]
  <2>1. PlaceOf(row) = [state |-> "holding", scopes |-> scopes,
                        ticket |-> work[s].age]
    BY DEF PlaceOf, Submitted
  <2>2. LockPlace[s] = [state |-> "holding", scopes |-> work[s].scopes,
                        ticket |-> work[s].age]
    BY <1>2, <1>4 DEF LockPlace, PlaceOf
  <2>3. [LockPlace[s] EXCEPT !.scopes = scopes] = PlaceOf(row)
    BY <2>1, <2>2
  <2>4. LockPlace' = [LockPlace EXCEPT ![s] = PlaceOf(row)]
    BY <1>2, <1>4, WritePlace
  <2> HIDE DEF row
  <2> QED
    BY <2>3, <2>4
<1>9. ASSUME NEW o \in Sessions \ {s}, LockPlace[o].state # "out",
             Lock!AnyOverlap(scopes, LockPlace[o].scopes)
      PROVE  Lock!AnyOverlap(LockPlace[s].scopes, LockPlace[o].scopes)
  <2>1. Active(o) \/ Queued(o)
    BY <1>9, SamePlaces
  <2>2. /\ LockPlace[o].scopes = work[o].scopes
        /\ LockPlace[s].scopes = existing
    BY <1>2, <1>4, <2>1, SamePlaces DEF Active
  <2> QED
    BY <1>7, <1>9, <2>1, <2>2, SameAlgebra
<1>10. Lock!Holds(s)
  BY <1>2, <1>4, SamePlaces DEF Active
<1> QED
  BY <1>3, <1>4, <1>8, <1>9, <1>10 DEF Lock!Reshape

\* A new label, and a draft, change nothing that the lock sees.
LEMMA LabelsAndDraftsStutter ==
  ASSUME SafetyInv, NEW p \in Processes, Relabel(p) \/ DraftSave(p)
  PROVE  UNCHANGED Lock!lockVars
<1> DEFINE s == Owner(p)
<1>1. ~ At(p, "idle")
  BY DEF Relabel, DraftSave, At
<1>2. s \in Sessions /\ work \in [Sessions -> Rows]
  BY <1>1, RunningFacts
<1>3. CASE Relabel(p)
  <2> DEFINE seen == proc[p].seen
             row == Submitted("none", seen.scopes, proc[p].label, seen.age,
                              NextRevision(work[s].rev))
  <2>1. /\ At(p, "commit") /\ seen.state = "active" /\ seen.rev > 0
        /\ work[s].rev = seen.rev
    BY <1>1, <1>3, RunningFacts DEF Relabel, UpdatesActive, RowOK
  <2>2. work[s] = seen
    BY <1>1, <2>1, RunningFacts DEF NoWork
  <2>3. PlaceOf(row) = PlaceOf(work[s])
    BY <2>1, <2>2 DEF PlaceOf, Submitted
  <2>4. work' = [work EXCEPT ![s] = row] /\ clock' = clock
    BY <1>3 DEF Relabel
  <2> QED
    BY <1>2, <2>3, <2>4, SamePlace DEF Lock!lockVars
<1>4. CASE DraftSave(p)
  <2> DEFINE row == Draft(proc[p].req, proc[p].label,
                          NextRevision(work[s].rev))
  <2>1. /\ work[s].state \in {"none", "draft"}
        /\ work' = [work EXCEPT ![s] = row] /\ clock' = clock
    BY <1>4 DEF DraftSave
  <2>2. PlaceOf(row) = PlaceOf(work[s])
    BY <2>1 DEF PlaceOf, Draft
  <2> QED
    BY <1>2, <2>1, <2>2, SamePlace DEF Lock!lockVars
<1> QED
  BY <1>3, <1>4

LEMMA ReleaseLeaves ==
  ASSUME SafetyInv, NEW s \in Sessions,
         \/ SessionEnd(s)
         \/ \E p \in Processes : DoneDelete(p) /\ s = Owner(p)
  PROVE  Lock!Leave(s)
<1>1. work \in [Sessions -> Rows]
  BY DEF SafetyInv, TypeOK
<1>2. work' = [work EXCEPT ![s] = NoWork] /\ clock' = clock
  BY DEF SessionEnd, DoneDelete
<1>3. PlaceOf(NoWork) = Lock!Outside
  BY DEF PlaceOf, NoWork, Lock!Outside
<1> QED
  BY <1>1, <1>2, <1>3, WritePlace DEF Lock!Leave

\* Every other step leaves the rows and the submission clock alone.
LEMMA OthersStutter ==
  ASSUME UNCHANGED <<work, clock>>
  PROVE  UNCHANGED Lock!lockVars
  BY DEF LockPlace, Lock!lockVars

LEMMA StepsSimulate ==
  ASSUME SafetyInv, Consistent(Requests), [Next]_vars
  PROVE  [Lock!LockNext]_(Lock!lockVars)
<1>1. ASSUME NEW p \in Processes, Step(p)
      PROVE  [Lock!LockNext]_(Lock!lockVars)
  <2>1. ~ At(p, "idle") => Owner(p) \in Sessions
    BY RunningFacts
  <2>2. CASE \E fresh \in BOOLEAN : Submit(p, fresh) \/ UpdateScopes(p, fresh)
    <3>1. Owner(p) \in Sessions
      BY <2>1, <2>2 DEF Submit, SubmitAt, UpdateScopes, At
    <3> QED
      BY <2>2, <3>1, SubmitAsks, UpdateReshapes DEF Lock!LockNext
  <2>3. CASE Relabel(p) \/ DraftSave(p)
    BY <2>3, LabelsAndDraftsStutter
  <2>4. CASE DoneDelete(p)
    BY <2>1, <2>4, ReleaseLeaves DEF Lock!LockNext, DoneDelete, At
  <2>5. CASE \/ Reconfirm(p) \/ WaitReady(p) \/ WaitReleased(p)
             \/ WaitInterrupted(p) \/ WaitArbitrate(p) \/ Abort(p)
             \/ DoneScan(p) \/ DoneTell(p)
             \/ \E fresh \in BOOLEAN : RefuseUpdate(p, fresh)
             \/ \E covered \in BOOLEAN : Gather(p, covered)
    <3>1. UNCHANGED <<work, clock>>
      BY <2>5 DEF Reconfirm, WaitReady, WaitReleased, WaitInterrupted,
                  WaitArbitrate, Abort, DoneScan, DoneTell, RefuseUpdate,
                  Gather
    <3> QED
      BY <3>1, OthersStutter
  <2> QED
    BY <1>1, <2>2, <2>3, <2>4, <2>5 DEF Step, Commit
<1>2. ASSUME NEW p \in Processes, NEW s \in Sessions, Open(p, s)
      PROVE  [Lock!LockNext]_(Lock!lockVars)
  <2>1. UNCHANGED <<work, clock>>
    BY <1>2 DEF Open, DraftOpen, StartOpen, PromoteOpen, WaitOpen, DoneOpen
  <2> QED
    BY <2>1, OthersStutter
<1>3. ASSUME NEW s \in Sessions, Register(s) \/ SessionEnd(s) \/ Acknowledge(s)
      PROVE  [Lock!LockNext]_(Lock!lockVars)
  <2>1. CASE SessionEnd(s)
    BY <2>1, ReleaseLeaves DEF Lock!LockNext
  <2>2. CASE Register(s) \/ Acknowledge(s)
    BY <2>2, OthersStutter DEF Register, Acknowledge
  <2> QED
    BY <1>3, <2>1, <2>2
<1>4. CASE UNCHANGED vars
  BY <1>4, OthersStutter DEF vars
<1> QED
  BY <1>1, <1>2, <1>3, <1>4 DEF Next

-----------------------------------------------------------------------------
(* The theorems *)

\* The work ledger implements the scope lock (submit, update_active, done_for,
\* remove_session).
THEOREM Refinement ==
  ASSUME Concurrency = "none", Consistent(Requests)
  PROVE  Spec => ImplementsLock
<1>1. Init => Lock!LockInit
  BY DEF Init, Lock!LockInit, LockPlace, PlaceOf, NoWork, Lock!Outside
<1> QED
  BY <1>1, StepsSimulate, SafetyInvariant, PTL
     DEF Spec, ImplementsLock, Lock!LockSpec

\* A step of the lock lets nobody grow into another's place.
LEMMA LockGrowsClear ==
  ASSUME work \in [Sessions -> Rows], work' \in [Sessions -> Rows],
         [Lock!LockNext]_(Lock!lockVars)
  PROVE  GrowsClear
<1>1. \A s \in Sessions :
        /\ LockPlace'[s].state = "holding" <=> Active(s)'
        /\ Active(s)' => LockPlace'[s].scopes = work'[s].scopes
  BY DEF LockPlace, PlaceOf, Active
<1>2. LockPlace = [s \in Sessions |-> LockPlace[s]]
  BY DEF LockPlace
<1> SUFFICES ASSUME NEW s \in Sessions, NEW o \in Sessions,
                    s # o, Active(s), Active(s)', Active(o) \/ Queued(o),
                    AnyOverlap(work'[s].scopes, work[o].scopes)
             PROVE  AnyOverlap(work[s].scopes, work[o].scopes)
  BY DEF GrowsClear
<1>3. /\ Lock!Holds(s) /\ LockPlace[o].state # "out"
      /\ LockPlace[s].scopes = work[s].scopes
      /\ LockPlace[o].scopes = work[o].scopes
      /\ LockPlace'[s].state = "holding"
      /\ LockPlace'[s].scopes = work'[s].scopes
  BY <1>1, SamePlaces
<1>4. ASSUME LockPlace'[s] = LockPlace[s]
      PROVE  AnyOverlap(work[s].scopes, work[o].scopes)
  BY <1>3, <1>4
<1>5. ASSUME NEW x \in Sessions, NEW scopes \in Requests, Lock!Ask(x, scopes)
      PROVE  LockPlace'[s] = LockPlace[s]
  BY <1>2, <1>3, <1>5 DEF Lock!Ask
<1>6. ASSUME NEW x \in Sessions, Lock!Leave(x)
      PROVE  LockPlace'[s] = LockPlace[s]
  BY <1>2, <1>3, <1>6 DEF Lock!Leave, Lock!Outside
<1>7. ASSUME NEW x \in Sessions, NEW scopes \in Requests,
             Lock!Reshape(x, scopes)
      PROVE  AnyOverlap(work[s].scopes, work[o].scopes)
  <2>1. CASE x # s
    <3>1. LockPlace'[s] = LockPlace[s]
      BY <1>2, <1>7, <2>1 DEF Lock!Reshape
    <3> QED
      BY <1>4, <3>1
  <2>2. CASE x = s
    <3>1. LockPlace'[s].scopes = scopes
      <4>1. LockPlace' = [LockPlace EXCEPT ![s].scopes = scopes]
        BY <1>7, <2>2 DEF Lock!Reshape
      <4>2. LockPlace[s] = [state |-> "holding", scopes |-> work[s].scopes,
                            ticket |-> work[s].age]
        BY DEF LockPlace, PlaceOf, Active
      <4>3. [LockPlace[s] EXCEPT !.scopes = scopes].scopes = scopes
        BY <4>2
      <4> QED
        BY <1>2, <4>1, <4>3
    <3>2. Lock!AnyOverlap(scopes, LockPlace[o].scopes)
      BY <1>3, <3>1, SameAlgebra
    <3>3. Lock!AnyOverlap(LockPlace[s].scopes, LockPlace[o].scopes)
      BY <1>3, <1>7, <2>2, <3>2 DEF Lock!Reshape
    <3> QED
      BY <1>3, <3>3, SameAlgebra
  <2> QED
    BY <2>1, <2>2
<1>8. CASE UNCHANGED Lock!lockVars
  BY <1>4, <1>8 DEF Lock!lockVars
<1> QED
  BY <1>4, <1>5, <1>6, <1>7, <1>8 DEF Lock!LockNext

\* Under the same conditions, active work grows only into area that no other
\* submitted work intersects (update_active).
THEOREM ExpansionsAreClear ==
  ASSUME Concurrency = "none", Consistent(Requests)
  PROVE  Spec => ExpansionsClear
<1>1. SafetyInv /\ SafetyInv' /\ [Next]_vars => [GrowsClear]_vars
  BY StepsSimulate, LockGrowsClear DEF SafetyInv, TypeOK
<1> QED
  BY <1>1, SafetyInvariant, PTL DEF Spec, ExpansionsClear

\* The lock whose theorems are proved is the lock that is implemented.
LEMMA SameLock ==
  /\ Lock!LockInit <=> LockProofs!LockInit
  /\ [Lock!LockNext]_(Lock!lockVars) <=>
       [LockProofs!LockNext]_(LockProofs!lockVars)
<1>1. Lock!LockInit <=> LockProofs!LockInit
  BY DEF Lock!LockInit, LockProofs!LockInit, Lock!Outside, LockProofs!Outside
<1>2. \A s : \A scopes : Lock!Ask(s, scopes) <=> LockProofs!Ask(s, scopes)
  BY DEF Lock!Ask, LockProofs!Ask, Lock!Free, LockProofs!Free,
         Lock!Holds, LockProofs!Holds, Lock!Waits, LockProofs!Waits,
         Lock!ScopesCover, LockProofs!ScopesCover,
         Lock!ScopeCovers, LockProofs!ScopeCovers,
         Lock!AnyOverlap, LockProofs!AnyOverlap,
         Lock!ScopesOverlap, LockProofs!ScopesOverlap,
         Lock!Within, LockProofs!Within
<1>3. \A s : \A scopes :
        Lock!Reshape(s, scopes) <=> LockProofs!Reshape(s, scopes)
  BY DEF Lock!Reshape, LockProofs!Reshape, Lock!Holds, LockProofs!Holds,
         Lock!AnyOverlap, LockProofs!AnyOverlap,
         Lock!ScopesOverlap, LockProofs!ScopesOverlap,
         Lock!Within, LockProofs!Within
<1>4. \A s : Lock!Leave(s) <=> LockProofs!Leave(s)
  BY DEF Lock!Leave, LockProofs!Leave, Lock!Outside, LockProofs!Outside
<1>5. Lock!LockNext <=> LockProofs!LockNext
  BY <1>2, <1>3, <1>4 DEF Lock!LockNext, LockProofs!LockNext
<1> QED
  BY <1>1, <1>5 DEF Lock!lockVars, LockProofs!lockVars

\* What the lock promises, read off the rows.
LEMMA LockPromises ==
  /\ LockProofs!Exclusion => MutualExclusion
  /\ LockProofs!FirstComeFirstServed => NoOvertaking
<1>1. \A A, B : LockProofs!AnyOverlap(A, B) <=> AnyOverlap(A, B)
  BY DEF AnyOverlap, ScopesOverlap, Within, LockProofs!AnyOverlap,
         LockProofs!ScopesOverlap, LockProofs!Within
<1>2. \A s \in Sessions :
        /\ LockProofs!Holds(s) <=> Active(s)
        /\ LockProofs!Waits(s) <=> Queued(s)
        /\ Active(s) \/ Queued(s) =>
             /\ LockPlace[s].scopes = work[s].scopes
             /\ LockPlace[s].ticket = work[s].age
  BY DEF LockPlace, PlaceOf, LockProofs!Holds, LockProofs!Waits, Active, Queued
<1>3. LockProofs!Exclusion => MutualExclusion
  BY <1>1, <1>2 DEF LockProofs!Exclusion, MutualExclusion
<1>4. LockProofs!FirstComeFirstServed => NoOvertaking
  BY <1>1, <1>2 DEF LockProofs!FirstComeFirstServed, NoOvertaking
<1> QED
  BY <1>3, <1>4

LEMMA LockHolds ==
  ASSUME Concurrency = "none", Consistent(Requests)
  PROVE  Spec => [](LockProofs!Exclusion /\ LockProofs!FirstComeFirstServed)
<1>1. LockProofs!Consistent(Requests)
  BY DEF Consistent, KindsAgree, Scope, Kinds, LockProofs!Consistent,
         LockProofs!KindsAgree, LockProofs!Scope, LockProofs!Kinds
<1>2. LockProofs!LockSpec =>
        [](LockProofs!Exclusion /\ LockProofs!FirstComeFirstServed)
  BY <1>1, LockProofs!LockIsFair, PathsAreATree, PathLengths
<1>3. Lock!LockSpec => LockProofs!LockSpec
  BY SameLock, PTL DEF Lock!LockSpec, LockProofs!LockSpec
<1> QED
  BY <1>2, <1>3, Refinement, PTL DEF ImplementsLock

\* When an agent runs one command at a time and all name a path in the same
\* way, no two sessions ever have overlapping work active (start, update).
THEOREM ActiveWorkIsExclusive ==
  ASSUME Concurrency = "none", Consistent(Requests)
  PROVE  Spec => []MutualExclusion
  BY LockHolds, LockPromises, PTL

\* Under the same conditions, active work was submitted before all queued work
\* that it overlaps.
THEOREM QueueIsFair ==
  ASSUME Concurrency = "none", Consistent(Requests)
  PROVE  Spec => []NoOvertaking
  BY LockHolds, LockPromises, PTL

=============================================================================
