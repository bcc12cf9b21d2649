-------------------------------- MODULE MCFair --------------------------------
(***************************************************************************)
(* What must happen in the end, in the ledger and in the table of          *)
(* sessions: an instance of each, in one run.  A behaviour is one of one   *)
(* part, under the fairness that its module states, and the other stands   *)
(* still.                                                                  *)
(***************************************************************************)
EXTENDS MCWorkLedger

CONSTANTS
  Claude, ClaudeHosts, Registrars, \* the sessions table: see SessionRegistry
  Refreshers, NoHost, NoCommand,
  RowModulus

VARIABLES host, exited, row, upsert, cmd, part

Registry == INSTANCE SessionRegistry WITH
  Codex <- {}, CodexHosts <- {}, StartLookups <- BOOLEAN,
  Commands <- Refreshers, Idle <- NoCommand, Modulus <- RowModulus

registryVars == <<host, exited, row, upsert, cmd>>
fairVars == <<vars, registryVars, part>>

MCInit == part \in {"ledger", "registry"} /\ Init /\ Registry!Init

MCNext ==
  /\ UNCHANGED part
  /\ \/ part = "ledger" /\ Next /\ UNCHANGED registryVars
     \/ part = "registry" /\ Registry!Next /\ UNCHANGED vars

\* A step of one part, while the other stands still.
Ledger(A) == part = "ledger" /\ A /\ UNCHANGED <<registryVars, part>>
Table(A) == part = "registry" /\ A /\ UNCHANGED <<vars, part>>

\* Some sweep is not interrupted now and then, and its probes answer.
Sweeps == Table(\E c \in Refreshers : Registry!Reconcile(c, Registry!Dead(cmd[c].seen)))

LedgerFair(s) ==
  /\ WF_fairVars(Ledger(\E p \in Processes : Queued(s) /\ WaitOpen(p, s)))
  /\ SF_fairVars(Sweeps \/ Ledger(\E p \in Processes : Owner(p) = s /\ Gather(p, TRUE)))
  /\ SF_fairVars(Ledger(\E p \in Processes :
               Owner(p) = s /\ proc[p].covered /\ Submit(p, FALSE)))
  /\ SF_fairVars(Ledger(\E p \in Processes : Active(s) /\ DoneOpen(p, s)))
  /\ WF_fairVars(Ledger(Acknowledge(s)))

RegistryFair ==
  /\ \A r \in Registrars : WF_fairVars(Table(Registry!WriteUpsert(r) \/ Registry!DropUpsert(r)))
  /\ \A c \in Refreshers :
       /\ WF_fairVars(Table(Registry!Sweep(c)))
       /\ WF_fairVars(Table(Registry!ListClaude(c) \/ Registry!ReplaceClaude(c) \/ Registry!GiveUp(c)))

MCSpec ==
  /\ MCInit /\ [][MCNext]_fairVars
  /\ \A p \in Processes : WF_fairVars(Ledger(Step(p)))
  /\ \A s \in Sessions : LedgerFair(s)
  /\ <>[][~ \E p \in Processes : Abort(p)]_vars
  /\ RegistryFair

\* A session whose process is gone does not keep its row, and with it its work,
\* for ever, whatever writes race with the sweeps (refresh_inventory,
\* reconcile_processes).
AbandonedRowsGo == Registry!AbandonedRowsGo
=============================================================================
