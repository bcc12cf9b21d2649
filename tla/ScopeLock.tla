------------------------------ MODULE ScopeLock ------------------------------
(***************************************************************************)
(* What work arbitration promises, without processes, snapshots, messages  *)
(* or evidence: a lock on sets of scopes.  A session is outside, waits for *)
(* a set of scopes with a ticket, or holds a set of scopes.  Holders never *)
(* overlap, and a session never holds what an overlapping session with an  *)
(* earlier ticket waits for.  WorkLedger is shown to implement this.       *)
(***************************************************************************)
EXTENDS Scopes

CONSTANTS
  Sessions,     \* agent sessions
  Requests      \* the sets of scopes that sessions ask for

VARIABLES
  place,        \* place[s]: what session s waits for or holds
  tickets       \* the last ticket handed out

lockVars == <<place, tickets>>

Outside == [state |-> "out", scopes |-> {}, ticket |-> 0]

Place ==
  [state : {"out", "waiting", "holding"}, scopes : Requests \cup {{}},
   ticket : Nat]

LockTypeOK ==
  /\ place \in [Sessions -> Place]
  /\ tickets \in Nat

-----------------------------------------------------------------------------

Holds(s) == place[s].state = "holding"
Waits(s) == place[s].state = "waiting"

\* Nobody else holds a part of scopes, or waits for one since before ticket.
Free(s, scopes, ticket) ==
  \A o \in Sessions \ {s} :
    AnyOverlap(scopes, place[o].scopes) =>
      ~ Holds(o) /\ ~ (Waits(o) /\ place[o].ticket < ticket)

\* s asks for scopes.  A waiting session that asks for less keeps its ticket,
\* every other request takes a new one, later than all before; it is granted
\* only when free.
Ask(s, scopes) ==
  \E keep \in BOOLEAN, next \in {"waiting", "holding"} :
    LET ticket == IF keep THEN place[s].ticket ELSE tickets' IN
      /\ ~ Holds(s)
      /\ keep => Waits(s) /\ ScopesCover(place[s].scopes, scopes)
      /\ next = "holding" => Free(s, scopes, ticket)
      /\ place' = [place EXCEPT
                     ![s] = [state |-> next, scopes |-> scopes,
                             ticket |-> ticket]]
      /\ IF keep THEN UNCHANGED tickets ELSE tickets' \in Nat /\ tickets' > tickets

\* A holder changes what it holds: everybody its new scopes overlap, holding
\* or waiting, its old scopes overlapped already.
Reshape(s, scopes) ==
  /\ Holds(s)
  /\ \A o \in Sessions \ {s} :
       /\ place[o].state # "out"
       /\ AnyOverlap(scopes, place[o].scopes)
       => AnyOverlap(place[s].scopes, place[o].scopes)
  /\ place' = [place EXCEPT ![s].scopes = scopes]
  /\ UNCHANGED tickets

Leave(s) ==
  /\ place' = [place EXCEPT ![s] = Outside]
  /\ UNCHANGED tickets

LockInit ==
  /\ place = [s \in Sessions |-> Outside]
  /\ tickets = 0

LockNext ==
  \E s \in Sessions :
    \/ Leave(s)
    \/ \E scopes \in Requests : Ask(s, scopes) \/ Reshape(s, scopes)

LockSpec == LockInit /\ [][LockNext]_lockVars

-----------------------------------------------------------------------------

\* No two sessions hold overlapping scopes.
Exclusion ==
  \A s, o \in Sessions :
    s # o /\ Holds(s) /\ Holds(o) =>
      ~ AnyOverlap(place[s].scopes, place[o].scopes)

\* Whoever holds a part of what another session waits for asked for it first.
FirstComeFirstServed ==
  \A s, o \in Sessions :
    /\ s # o /\ Holds(s) /\ Waits(o)
    /\ AnyOverlap(place[s].scopes, place[o].scopes)
    => place[s].ticket < place[o].ticket

=============================================================================
