------------------------ MODULE WorkLedgerProperties ------------------------
(***************************************************************************)
(* What the work ledger must guarantee, whatever the interleaving of the   *)
(* processes that use it.                                                  *)
(***************************************************************************)
EXTENDS WorkLedger

\* Type correctness of the ledger and of the processes' local state; a row
\* has the shape that the CHECK constraint of table work_items demands, and so
\* has the row a process remembers.
RowOK(row) ==
  /\ row \in Rows
  /\ row.state = "none" => row = NoWork
  /\ row.state # "none" => row.scopes # {} /\ row.rev > 0
  /\ row.state = "draft" => row.age = 0 /\ row.reason = "none"
  /\ row.state = "queued" => row.age > 0 /\ row.reason # "none"
  /\ row.state = "active" => row.age > 0 /\ row.reason = "none"

ProcessOK(process) ==
  /\ process \in ProcessStates
  /\ RowOK(process.seen)
  /\ process.pc # "idle" => process.owner \in Sessions
  /\ process.pc \in {"save", "gather", "commit"} => process.req # {}

TypeOK ==
  /\ registered \subseteq Sessions
  /\ work \in [Sessions -> Rows]
  /\ clock \in Nat
  /\ unread \subseteq Sessions
  /\ proc \in [Processes -> ProcessStates]
  /\ granted \in [Sessions -> ScopeSets]
  /\ \A s \in Sessions :
       RowOK(work[s]) /\ (work[s].state # "none" => s \in registered)
  /\ \A p \in Processes : ProcessOK(proc[p])

\* What a command read of its own row, seconds before its transaction, is what
\* the transaction finds, unless the session has ended meanwhile (start_direct,
\* submit): no other session's command ever touches the row.
Snapshots(p) ==
  At(p, "commit") \/ (At(p, "gather") /\ proc[p].cmd = "promote")

SnapshotsFresh ==
  \A p \in Processes :
    Snapshots(p) =>
      \/ work[Owner(p)] = proc[p].seen
      \/ proc[p].orphan /\ work[Owner(p)] = NoWork

\* No two sessions ever have overlapping work active at the same time: the
\* edit scopes that READY grants are disjoint (submit, update_active).
MutualExclusion ==
  \A s, o \in Sessions :
    s # o /\ Active(s) /\ Active(o) =>
      ~ AnyOverlap(work[s].scopes, work[o].scopes)

\* FIFO among intersecting scopes: whoever is active on a part of what
\* another session is queued for was submitted before it, although rows are
\* moved, narrowed, expanded and re-arbitrated in any order.
NoOvertaking ==
  \A s, o \in Sessions :
    /\ s # o /\ Active(s) /\ Queued(o)
    /\ AnyOverlap(work[s].scopes, work[o].scopes)
    => work[s].age < work[o].age

\* An agent that was told READY, and has run nothing since, still owns in the
\* ledger exactly the scopes it was told (start, wait, update_active).
GrantBacked ==
  \A s \in Sessions :
    granted[s] # {} => Active(s) /\ work[s].scopes = granted[s]

\* Active work grows only into area that no other active or queued work
\* intersects: everybody its new scopes overlap, its old scopes overlapped
\* already (update_active).
GrowsClear ==
  \A s, o \in Sessions :
    /\ s # o /\ Active(s) /\ Active(s)'
    /\ Active(o) \/ Queued(o)
    /\ AnyOverlap(work'[s].scopes, work[o].scopes)
    => AnyOverlap(work[s].scopes, work[o].scopes)

ExpansionsClear == [][GrowsClear]_vars

\* A queued row moves back in the queue only when it asks for something its
\* old scopes did not cover: polling, relabelling and narrowing keep its age.
KeepsPlace ==
  \A s \in Sessions :
    /\ Queued(s) /\ work'[s].state \in {"active", "queued"}
    /\ work'[s].age # work[s].age
    => ~ ScopesCover(work[s].scopes, work'[s].scopes)

PlaceKept == [][KeepsPlace]_vars

\* A work item that was released exists again only when the agent asks for
\* one by draft or start: done releases for good (done_for, wait_for).
ReleasedStaysReleased ==
  [][\A s \in Sessions :
       work[s].state = "none" /\ work'[s].state # "none" =>
         \E p \in Processes :
           Owner(p) = s /\ proc[p].cmd \in {"draft", "start"}]_vars

\* Queued work is granted in the end, unless its agent withdraws it: no
\* waiter starves behind others that come, go and move (FIFO among
\* intersecting scopes, wait_for).
EventuallyServed ==
  \A s \in Sessions : Queued(s) ~> Active(s) \/ work[s].state = "none"

(***************************************************************************)
(* The lock that the ledger implements: drafts are outside the lock, queued *)
(* rows wait with their age as ticket, active rows hold.                   *)
(***************************************************************************)
PlaceOf(row) ==
  IF row.state \in {"active", "queued"}
  THEN [state |-> IF row.state = "active" THEN "holding" ELSE "waiting",
        scopes |-> row.scopes, ticket |-> row.age]
  ELSE [state |-> "out", scopes |-> {}, ticket |-> 0]

LockPlace == [s \in Sessions |-> PlaceOf(work[s])]

Lock == INSTANCE ScopeLock WITH place <- LockPlace, tickets <- clock

\* Every step of the processes is, seen through that mapping, a step of the
\* lock or no step at all.
ImplementsLock == Lock!LockSpec

=============================================================================
