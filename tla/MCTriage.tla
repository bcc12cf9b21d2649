------------------------------ MODULE MCTriage ------------------------------
(***************************************************************************)
(* Findings and background triage on four small instances, of which the    *)
(* initial state picks one:                                                *)
(*   "agents"  agents alone, with three findings, in every order;          *)
(*   "runs"    two hooks at a time and two runs over one finding: clocks,  *)
(*             leases, cooldown, workers that come late;                   *)
(*   "children" one hook at a time and two runs over one finding, of which *)
(*             the child of the first may outlive it and commit late;      *)
(*   "batch"   one hook at a time and one run over two findings, with what *)
(*             the child leaves behind, and one move of an agent or fault.  *)
(***************************************************************************)
EXTENDS Triage, TLC

CONSTANTS typo, crash  \* fingerprints; the first one names a safe document

VARIABLE instance

mcvars == <<instance, vars>>

Backlog ==
  [agents |-> <<>>, runs |-> <<typo>>, children |-> <<typo>>, batch |-> <<typo, crash>>]
MCBacklogs == {Backlog[i] : i \in DOMAIN Backlog}

OneHook == CHOOSE s \in Schedulers : TRUE

\* The result files of a batch: both records, and every verdict in some file.
BatchResults ==
  {<<"duplicate", "stale">>, <<"stale", "duplicate">>, <<"duplicate", "duplicate">>,
   <<"handed-off", "deferred">>, <<"fixed", "fixed">>}

\* What an instance leaves out.
Bounded ==
  CASE instance = "agents" -> TRUE
    [] instance = "runs" -> /\ moves = 0 /\ faults = 0 /\ handoffs = {} /\ log = <<>>
                      /\ \A r \in RunIds : child[r].results \in {<<>>, <<"stale">>}
    [] instance = "children" -> /\ moves = 0 /\ faults = 0 /\ handoffs = {}
                      /\ \A r \in RunIds : child[r].results \in {<<>>, <<"deferred">>}
                      /\ \A s \in Schedulers \ {OneHook} : sched[s] = Idle
    [] OTHER -> /\ runs[2] = NoRow /\ ~Exists(3) /\ Len(log) <= 1
                /\ child[1].results \in BatchResults \cup {<<>>}
                /\ clock <= Deadline /\ faults + moves <= 1
                /\ \A s \in Schedulers \ {OneHook} : sched[s] = Idle

MCInit ==
  /\ Init
  /\ instance \in DOMAIN Backlog
  /\ findings = Recorded(Backlog[instance])

Agents == FindingsNext /\ UNCHANGED <<clock, runs, claims, meta, sched, worker, child,
                                      log, handoffs, faults, moves>>

MCNext ==
  /\ UNCHANGED instance
  /\ IF instance = "agents" THEN Agents ELSE Next
  /\ Bounded'

MCSpec == MCInit /\ [][MCNext]_mcvars

MCFairSpec ==
  /\ MCSpec
  /\ WF_mcvars(instance # "agents" /\ UNCHANGED instance /\ Tick /\ Bounded')
  /\ \A s \in Schedulers :
       WF_mcvars(instance # "agents" /\ UNCHANGED instance /\ Schedule(s) /\ Bounded')
=============================================================================
