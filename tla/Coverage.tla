------------------------------ MODULE Coverage ------------------------------
(***************************************************************************)
(* Provider coverage: may this command believe that it knows every session *)
(* of both clients?  Commands, hooks and the dashboard sweep processes,    *)
(* look into the provider cache, collect evidence, and replace or clear    *)
(* the cache, in separate transactions of separate processes.              *)
(*                                                                         *)
(* Source: refresh_inventory in src/coordinator/mod.rs, inventory.rs,      *)
(* src/host/providers.rs, the table provider_cache.  What a sweep or a     *)
(* listing does to the rows of sessions is in SessionRegistry.             *)
(***************************************************************************)
EXTENDS Integers, Sequences

CONSTANTS
  Callers,
  Processes,     \* the processes named by the rows of sessions
  Contexts,      \* executables and configuration directories: the cache key
  Installed,     \* which client's executable a context has
  CacheSeconds,  \* INVENTORY_CACHE_SECONDS
  MaxCollect,    \* how long collecting takes at most, by its timeouts
  Calls,         \* who asks in which context, and whether a cached answer will do
  MaxFlips       \* bound on changes of the host

Clients == {"codex", "claude"}
NoContext == "none"

ASSUME CoverageAssumption ==
  /\ NoContext \notin Contexts
  /\ Installed \subseteq Contexts \X Clients
  /\ Calls \subseteq Callers \X Contexts \X BOOLEAN
  /\ {CacheSeconds, MaxCollect, MaxFlips} \subseteq Nat

VARIABLES
  badFor,    \* per context and fact: 0 is good, 1 + t is bad for the time t
  hidden,    \* the processes that cannot be probed
  provided,  \* the provider cache: its context, and the time since it was written
  call,      \* refresh_inventory of each caller
  answer,    \* what it returned
  flips

coverVars == <<badFor, hidden, provided, call, answer, flips>>

-----------------------------------------------------------------------------
\* The evidence in the order in which it is collected.
Order == <<"hooks", "errors", "trust", "listing">>
CodexFacts == {"hooks", "errors", "trust"}
Facts == CodexFacts \cup {"listing"}
FactsOf(client) == IF client = "codex" THEN CodexFacts ELSE {"listing"}

\* Times beyond these are alike.
Past == CacheSeconds + MaxCollect + 2
Later(age) == IF age < Past THEN age + 1 ELSE age

\* A call has still to probe "left"; "visible" could be probed at some moment of it.
NewCall(ctx, allow, visible) ==
  [pc |-> "sweep", ctx |-> ctx, allow |-> allow, left |-> Processes, unknown |-> {},
   next |-> 1, seen |-> {}, spent |-> 0, visible |-> visible]
NoCall == [pc |-> "idle", ctx |-> NoContext, allow |-> FALSE, left |-> {}, unknown |-> {},
           next |-> 1, seen |-> {}, spent |-> 0, visible |-> {}]

\* replace_provider_cache, clear_provider_cache: the rows of all contexts go.
ReplacedBy(ctx) == [ctx |-> ctx, age |-> 0]
Cleared == [ctx |-> NoContext, age |-> Past]

CallStates ==
  [pc : {"idle", "sweep", "lookup", "collect", "replace", "store"},
   ctx : Contexts \cup {NoContext}, allow : BOOLEAN,
   left : SUBSET Processes, unknown : SUBSET Processes,
   next : DOMAIN Order, seen : SUBSET Facts, spent : 0 .. MaxCollect, visible : SUBSET Processes]

CoverageInit ==
  /\ badFor = [ctx \in Contexts |-> [f \in Facts |-> 0]]
  /\ hidden \in SUBSET Processes
  /\ provided = Cleared
  /\ call = [p \in Callers |-> NoCall]
  /\ answer = [p \in Callers |-> "none"]
  /\ flips = 0

CoverageTypeOK ==
  /\ badFor \in [Contexts -> [Facts -> 0 .. Past]]
  /\ hidden \subseteq Processes
  /\ provided \in [ctx : Contexts \cup {NoContext}, age : 0 .. Past]
  /\ call \in [Callers -> CallStates]
  /\ answer \in [Callers -> {"none", "complete", "partial"}]
  /\ flips \in 0 .. MaxFlips

-----------------------------------------------------------------------------
(* The host *)

\* hook_health is in the ledger, which all contexts share.
Shared(f) == f = "errors"

Good(ctx, f) == badFor[ctx][f] = 0

Flip(ctx, f) ==
  /\ badFor' = [c \in Contexts |->
       IF c = ctx \/ Shared(f) THEN [badFor[c] EXCEPT ![f] = IF Good(ctx, f) THEN 1 ELSE 0]
                               ELSE badFor[c]]
  /\ UNCHANGED <<hidden, call>>

Hide ==
  /\ \E q \in Processes : hidden' = IF q \in hidden THEN hidden \ {q} ELSE hidden \cup {q}
  /\ call' = [p \in Callers |->
       IF call[p].pc = "idle" THEN call[p]
       ELSE [call[p] EXCEPT !.visible = @ \cup (Processes \ hidden')]]
  /\ UNCHANGED badFor

HostChanges ==
  /\ flips < MaxFlips /\ flips' = flips + 1
  /\ Hide \/ \E ctx \in Contexts, f \in Facts : Flip(ctx, f)
  /\ UNCHANGED <<provided, answer>>

Collecting(p) == call[p].pc \in {"collect", "replace", "store"}

\* Time passes; nobody collects for longer than the timeouts allow.
CoverageTick ==
  /\ \A p \in Callers : Collecting(p) => call[p].spent < MaxCollect
  /\ badFor' = [c \in Contexts |-> [f \in Facts |-> IF Good(c, f) THEN 0 ELSE Later(badFor[c][f])]]
  /\ provided' = [provided EXCEPT !.age = Later(@)]
  /\ call' = [p \in Callers |-> IF Collecting(p) THEN [call[p] EXCEPT !.spent = @ + 1] ELSE call[p]]
  /\ UNCHANGED <<hidden, answer, flips>>

-----------------------------------------------------------------------------
(* refresh_inventory *)

BeginCall(p) ==
  /\ call[p].pc = "idle"
  /\ \E c \in Calls : c[1] = p /\ call' = [call EXCEPT ![p] = NewCall(c[2], c[3], Processes \ hidden)]
  /\ answer' = [answer EXCEPT ![p] = "none"]
  /\ UNCHANGED <<badFor, hidden, provided, flips>>

\* process_sweep: one process after the other, each as it is when its turn comes.
Probe(p) ==
  /\ \E q \in call[p].left :
       call' = [call EXCEPT ![p].left = @ \ {q}, ![p].unknown = @ \cup ({q} \cap hidden)]
  /\ UNCHANGED <<badFor, hidden, provided, answer, flips>>

\* The sweep of reconcile_processes is over: the one before anything else, and
\* the one after a full listing.
SweepEnds(p) ==
  /\ call[p].pc \in {"sweep", "replace"} /\ call[p].left = {}
  /\ call' = [call EXCEPT ![p].pc =
       IF @ = "replace" THEN "store" ELSE IF call[p].allow THEN "lookup" ELSE "collect"]
  /\ UNCHANGED <<badFor, hidden, provided, answer, flips>>

Return(p, complete) ==
  /\ answer' = [answer EXCEPT ![p] = IF complete /\ call[p].unknown = {} THEN "complete" ELSE "partial"]
  /\ call' = [call EXCEPT ![p] = NoCall]

\* Mutant: the rows of any context will do.
AnyCached(ctx) == provided.ctx # NoContext /\ provided.age < CacheSeconds

\* provider_cache and cached_inventory: only complete reports are ever there.
Cached(ctx) == provided.ctx = ctx /\ provided.age < CacheSeconds

LookUp(p) ==
  /\ call[p].pc = "lookup"
  /\ IF Cached(call[p].ctx) THEN Return(p, TRUE)
     ELSE call' = [call EXCEPT ![p].pc = "collect"] /\ UNCHANGED answer
  /\ UNCHANGED <<badFor, hidden, provided, flips>>

\* Trust is not inspected behind missing hooks or a recorded error.
Inspected(c, f) ==
  Good(c.ctx, f) /\ (f = "trust" => {"hooks", "errors"} \subseteq c.seen)

\* Only a full listing of an installed client replaces its sessions; then all
\* processes are probed again.
Authoritative(ctx, seen) == <<ctx, "claude">> \in Installed /\ "listing" \in seen

Collect(p) ==
  /\ call[p].pc = "collect"
  /\ LET c == call[p]
         seen == c.seen \cup {f \in {Order[c.next]} : Inspected(c, f)}
         next == IF c.next < Len(Order) THEN "collect"
                 ELSE IF Authoritative(c.ctx, seen) THEN "replace" ELSE "store"
     IN call' = [call EXCEPT ![p] =
          [c EXCEPT !.pc = next, !.next = (c.next % Len(Order)) + 1, !.seen = seen,
                    !.left = IF next = "replace" THEN Processes ELSE {},
                    !.unknown = IF next = "replace" THEN {} ELSE @]]
  /\ UNCHANGED <<badFor, hidden, provided, answer, flips>>

\* inventory_result over codex_provider_report and the listing: a client that is
\* not installed has nothing to report.
CompleteReport(c) ==
  \A client \in Clients : <<c.ctx, client>> \in Installed => FactsOf(client) \subseteq c.seen

StoreReport(p) ==
  /\ call[p].pc = "store"
  /\ LET complete == CompleteReport(call[p]) IN
     /\ provided' = IF complete THEN ReplacedBy(call[p].ctx) ELSE Cleared
     /\ Return(p, complete)
  /\ UNCHANGED <<badFor, hidden, flips>>

\* An error of the ledger, or the end of the process.
CallDies(p) ==
  /\ call[p].pc # "idle"
  /\ call' = [call EXCEPT ![p] = NoCall]
  /\ UNCHANGED <<badFor, hidden, provided, answer, flips>>

CoverageNext ==
  \/ HostChanges \/ CoverageTick
  \/ \E p \in Callers :
       \/ BeginCall(p) \/ Probe(p) \/ SweepEnds(p) \/ LookUp(p) \/ Collect(p)
       \/ StoreReport(p) \/ CallDies(p)

CoverageSpec == CoverageInit /\ [][CoverageNext]_coverVars

-----------------------------------------------------------------------------
(* Properties *)

Recent(c, t) == t <= MaxCollect \/ (c.allow /\ t < MaxCollect + CacheSeconds)
IsCurrent(c) ==
  /\ c.visible = Processes
  /\ \A client \in Clients :
       <<c.ctx, client>> \in Installed => \A f \in FactsOf(client) :
         Good(c.ctx, f) \/ Recent(c, badFor[c.ctx][f] - 1)

\* Who is told that coverage is complete gets no older news than it asked for:
\* each client of its own context was healthy within the time of collecting, and
\* of the cache where a cached answer was allowed, whatever other processes with
\* other contexts wrote there; and each process could be probed at some moment of
\* the call (refresh_inventory, process_sweep, cached_inventory).
CompleteIsCurrent ==
  [][\A p \in Callers :
       answer[p] # "complete" /\ answer'[p] = "complete" => IsCurrent(call[p])]_coverVars
=============================================================================
