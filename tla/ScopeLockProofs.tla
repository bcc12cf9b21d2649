--------------------------- MODULE ScopeLockProofs ---------------------------
(***************************************************************************)
(* The lock keeps its two promises, for any sessions and any consistent    *)
(* requests.  Exclusion is inductive as it stands; first come first served *)
(* needs to know that tickets are distinct and were all handed out.        *)
(***************************************************************************)
EXTENDS ScopeLock, ScopeFacts

TicketsIssued ==
  \A s \in Sessions : place[s].state # "out" => place[s].ticket <= tickets

TicketsDistinct ==
  \A s, o \in Sessions :
    s # o /\ place[s].state # "out" /\ place[o].state # "out" =>
      place[s].ticket # place[o].ticket

LockInv ==
  /\ LockTypeOK
  /\ TicketsIssued
  /\ TicketsDistinct
  /\ Exclusion
  /\ FirstComeFirstServed

\* Nobody is in the lock when it starts.
LEMMA LockStarts == LockInit => LockInv
  BY DEF LockInit, LockInv, LockTypeOK, Place, Outside, TicketsIssued,
         TicketsDistinct, Exclusion, FirstComeFirstServed, Holds, Waits

\* A request that waits or is granted keeps the invariant (submit).
LEMMA AskKeeps ==
  ASSUME Consistent(Requests), LockInv,
         NEW s \in Sessions, NEW scopes \in Requests, Ask(s, scopes)
  PROVE  LockInv'
<1> USE DEF LockInv
<1>1. PICK keep \in BOOLEAN, next \in {"waiting", "holding"} :
        LET ticket == IF keep THEN place[s].ticket ELSE tickets' IN
          /\ ~ Holds(s)
          /\ keep => Waits(s) /\ ScopesCover(place[s].scopes, scopes)
          /\ next = "holding" => Free(s, scopes, ticket)
          /\ place' = [place EXCEPT
                         ![s] = [state |-> next, scopes |-> scopes,
                                 ticket |-> ticket]]
          /\ IF keep THEN UNCHANGED tickets ELSE tickets' \in Nat /\ tickets' > tickets
  BY DEF Ask
<1> DEFINE ticket == IF keep THEN place[s].ticket ELSE tickets'
<1>2. /\ place \in [Sessions -> Place]
      /\ tickets \in Nat
      /\ \A o \in Sessions : /\ place[o].ticket \in Nat
                             /\ place[o].scopes \in SUBSET Scope
      /\ scopes \in SUBSET Scope
  BY DEF LockTypeOK, Place, Consistent
<1>3. ticket \in Nat
  BY <1>1, <1>2
<1>4. /\ place'[s].state = next
      /\ place'[s].scopes = scopes
      /\ place'[s].ticket = ticket
      /\ \A o \in Sessions \ {s} : place'[o] = place[o]
  BY <1>1, <1>2
<1>5. tickets' \in Nat /\ tickets' >= tickets
  BY <1>1, <1>2
<1>6. LockTypeOK'
  <2>1. [state |-> next, scopes |-> scopes, ticket |-> ticket] \in Place
    BY <1>3 DEF Place
  <2> QED
    BY <1>1, <1>2, <1>5, <2>1 DEF LockTypeOK
<1>7. ticket <= tickets'
  BY <1>1, <1>2 DEF TicketsIssued, Waits
<1>8. TicketsIssued'
  BY <1>2, <1>4, <1>5, <1>7 DEF TicketsIssued
<1>9. \A o \in Sessions \ {s} :
        place[o].state # "out" => place[o].ticket # ticket
  BY <1>1, <1>2 DEF TicketsIssued, TicketsDistinct, Waits
<1>10. TicketsDistinct'
  BY <1>4, <1>9 DEF TicketsDistinct
<1>11. Exclusion'
  <2>1. \A o \in Sessions \ {s} :
          next = "holding" /\ Holds(o) => ~ AnyOverlap(scopes, place[o].scopes)
    BY <1>1 DEF Free
  <2>2. \A o \in Sessions \ {s} :
          next = "holding" /\ Holds(o) => ~ AnyOverlap(place[o].scopes, scopes)
    BY <1>2, <2>1, OverlapSymmetric
  <2> QED
    BY <1>4, <2>1, <2>2 DEF Exclusion, Holds
<1>12. FirstComeFirstServed'
  <2>1. \A o \in Sessions \ {s} :
          /\ next = "holding" /\ Waits(o) /\ AnyOverlap(scopes, place[o].scopes)
          => ticket < place[o].ticket
    <3> SUFFICES ASSUME NEW o \in Sessions \ {s}, next = "holding", Waits(o),
                        AnyOverlap(scopes, place[o].scopes)
                 PROVE  ticket < place[o].ticket
      OBVIOUS
    <3>1. ~ (place[o].ticket < ticket)
      BY <1>1 DEF Free
    <3>2. place[o].ticket # ticket
      BY <1>9 DEF Waits
    <3> QED
      BY <1>2, <1>3, <3>1, <3>2
  <2>2. \A o \in Sessions \ {s} :
          /\ Holds(o) /\ AnyOverlap(place[o].scopes, scopes)
          => place[o].ticket < ticket
    <3> SUFFICES ASSUME NEW o \in Sessions \ {s}, Holds(o),
                        AnyOverlap(place[o].scopes, scopes)
                 PROVE  place[o].ticket < ticket
      OBVIOUS
    <3>1. CASE ~ keep
      <4>1. place[o].ticket <= tickets
        BY DEF TicketsIssued, Holds
      <4> QED
        BY <1>1, <1>2, <3>1, <4>1
    <3>2. CASE keep
      <4>1. /\ Waits(s)
            /\ ScopesCover(place[s].scopes, scopes)
        BY <1>1, <3>2
      <4>2. KindsAgree(place[s].scopes, scopes)
        BY DEF LockTypeOK, Place, Consistent, KindsAgree
      <4>3. AnyOverlap(place[s].scopes, place[o].scopes)
        BY <1>2, <4>1, <4>2, CoverSound, OverlapSymmetric
      <4>4. AnyOverlap(place[o].scopes, place[s].scopes)
        BY <1>2, <4>3, OverlapSymmetric
      <4>5. place[o].ticket < place[s].ticket
        BY <4>1, <4>4 DEF FirstComeFirstServed
      <4> QED
        BY <3>2, <4>5
    <3> QED
      BY <3>1, <3>2
  <2> QED
    BY <1>4, <2>1, <2>2 DEF FirstComeFirstServed, Holds, Waits
<1> QED
  BY <1>6, <1>8, <1>10, <1>11, <1>12

\* A holder that changes what it holds keeps the invariant (update_active).
LEMMA ReshapeKeeps ==
  ASSUME Consistent(Requests), LockInv,
         NEW s \in Sessions, NEW scopes \in Requests, Reshape(s, scopes)
  PROVE  LockInv'
<1> USE DEF LockInv
<1>1. /\ place \in [Sessions -> Place]
      /\ \A o \in Sessions : place[o].scopes \in SUBSET Scope
      /\ scopes \in SUBSET Scope
  BY DEF LockTypeOK, Place, Consistent
<1>2. /\ place'[s] = [place[s] EXCEPT !.scopes = scopes]
      /\ \A o \in Sessions \ {s} : place'[o] = place[o]
      /\ tickets' = tickets
  BY <1>1 DEF Reshape
<1>3. /\ place'[s].state = place[s].state
      /\ place'[s].ticket = place[s].ticket
      /\ place'[s].scopes = scopes
  BY <1>1, <1>2 DEF Place
<1>4. LockTypeOK'
  <2>1. [place[s] EXCEPT !.scopes = scopes] \in Place
    BY <1>1 DEF Place
  <2> QED
    BY <1>1, <1>2, <2>1 DEF LockTypeOK, Reshape
<1>5. \A o \in Sessions :
        /\ place'[o].state = place[o].state
        /\ place'[o].ticket = place[o].ticket
        /\ o # s => place'[o].scopes = place[o].scopes
  BY <1>2, <1>3
<1>6. TicketsIssued'
  BY <1>2, <1>5 DEF TicketsIssued
<1>7. TicketsDistinct'
  BY <1>5 DEF TicketsDistinct
<1>8. \A o \in Sessions \ {s} :
        place[o].state # "out" /\ AnyOverlap(scopes, place[o].scopes) =>
          /\ AnyOverlap(place[s].scopes, place[o].scopes)
          /\ AnyOverlap(place[o].scopes, place[s].scopes)
  BY <1>1, OverlapSymmetric DEF Reshape
<1>9. \A o \in Sessions \ {s} :
        AnyOverlap(scopes, place[o].scopes) <=>
          AnyOverlap(place[o].scopes, scopes)
  BY <1>1, OverlapSymmetric
<1>10. Holds(s)
  BY DEF Reshape
<1>11. Exclusion'
  <2>1. \A o \in Sessions \ {s} :
          Holds(o) => /\ ~ AnyOverlap(scopes, place[o].scopes)
                      /\ ~ AnyOverlap(place[o].scopes, scopes)
    BY <1>8, <1>9, <1>10 DEF Exclusion, Holds
  <2> QED
    BY <1>3, <1>5, <2>1 DEF Exclusion, Holds
<1>12. FirstComeFirstServed'
  BY <1>2, <1>3, <1>8, <1>9, <1>10 DEF FirstComeFirstServed, Holds, Waits
<1> QED
  BY <1>4, <1>6, <1>7, <1>11, <1>12

\* Leaving keeps the invariant (done_for, remove_session).
LEMMA LeaveKeeps ==
  ASSUME LockInv, NEW s \in Sessions, Leave(s)
  PROVE  LockInv'
<1> USE DEF LockInv
<1>1. /\ place' = [place EXCEPT ![s] = Outside]
      /\ tickets' = tickets
      /\ place \in [Sessions -> Place]
  BY DEF Leave, LockTypeOK
<1>2. LockTypeOK'
  BY <1>1 DEF LockTypeOK, Place, Outside
<1>3. TicketsIssued' /\ TicketsDistinct'
  BY <1>1 DEF TicketsIssued, TicketsDistinct, Outside
<1>4. Exclusion' /\ FirstComeFirstServed'
  BY <1>1 DEF Exclusion, FirstComeFirstServed, Holds, Waits, Outside
<1> QED
  BY <1>2, <1>3, <1>4

\* The invariant of the lock holds always.
THEOREM LockInvariant ==
  ASSUME Consistent(Requests)
  PROVE  LockSpec => []LockInv
<1>1. LockInit => LockInv
  BY LockStarts
<1>2. LockInv /\ [LockNext]_lockVars => LockInv'
  <2> SUFFICES ASSUME LockInv, [LockNext]_lockVars
               PROVE  LockInv'
    OBVIOUS
  <2>1. CASE LockNext
    BY <2>1, AskKeeps, ReshapeKeeps, LeaveKeeps DEF LockNext
  <2>2. CASE UNCHANGED lockVars
    BY <2>2 DEF lockVars, LockInv, LockTypeOK, TicketsIssued, TicketsDistinct,
                Exclusion, FirstComeFirstServed, Holds, Waits
  <2> QED
    BY <2>1, <2>2
<1> QED
  BY <1>1, <1>2, PTL DEF LockSpec

\* Holders never overlap, and whoever holds a part of what another session
\* waits for asked for it first.
THEOREM LockIsFair ==
  ASSUME Consistent(Requests)
  PROVE  LockSpec => [](Exclusion /\ FirstComeFirstServed)
<1>1. LockInv => Exclusion /\ FirstComeFirstServed
  BY DEF LockInv
<1> QED
  BY <1>1, LockInvariant, PTL

=============================================================================
