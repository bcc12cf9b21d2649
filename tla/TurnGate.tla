------------------------------ MODULE TurnGate ------------------------------
(***************************************************************************)
(* The hooks of one session: turns, the findings recorded in them, and the *)
(* Stop gate, which asks once for findings that the final message leaves   *)
(* out.  A subagent records and stops under the identity of its parent.    *)
(*                                                                         *)
(* Source: src/hooks/runtime.rs, src/state/store_findings.rs, the table    *)
(* hook_health in src/state/store_communications.rs.  Hooks fail open: an  *)
(* error, or the timeout of the client, lets the agent go on.              *)
(***************************************************************************)
EXTENDS Naturals

CONSTANTS
  Ids,        \* findings
  Main,       \* the agent of the session
  Subagents,  \* agents that it started
  MaxTurns,   \* turns are numbered in a circle of this length
  MaxFailures \* bound on hooks that fail

ASSUME TurnGateAssumption ==
  \* A turn differs from the one before.
  Main \notin Subagents /\ MaxTurns \in Nat \ {0, 1} /\ MaxFailures \in Nat

VARIABLES
  turn,      \* current_turns.turn_id; 0 is no row
  fresh,     \* rows of finding_sightings with a turn that were not surfaced
  agent,     \* what each agent is doing
  hook,      \* the Stop or SubagentStop hook of each agent
  broken,    \* events with an error in hook_health
  failures   \* hooks that failed

turnVars == <<turn, fresh, agent, hook, broken, failures>>

-----------------------------------------------------------------------------
Agents == {Main} \cup Subagents
Turns == 0 .. MaxTurns
Events == {"UserPromptSubmit", "Stop", "SubagentStop"}

\* blocked: the agent goes on because its stop was refused (stop_hook_active).
AgentStates ==
  [pc : {"idle", "working", "stopping"}, blocked : BOOLEAN]

\* What the hook is about to do, and the ids in the final message.
HookStates ==
  [pc : {"none", "read", "mark", "finish", "refuse"}, said : SUBSET Ids]
NoHook == [pc |-> "none", said |-> {}]

TurnGateInit ==
  /\ turn = 0
  /\ fresh = {}
  /\ agent = [a \in Agents |-> [pc |-> "idle", blocked |-> FALSE]]
  /\ hook = [a \in Agents |-> NoHook]
  /\ broken = {}
  /\ failures = 0

TurnGateTypeOK ==
  /\ turn \in Turns
  /\ fresh \subseteq Ids \X (Turns \ {0})
  /\ agent \in [Agents -> AgentStates]
  /\ hook \in [Agents -> HookStates]
  /\ broken \subseteq Events
  /\ failures \in 0 .. MaxFailures

StopEvent(a) == IF a = Main THEN "Stop" ELSE "SubagentStop"

\* hook_success and hook_error.
Succeeded(event) == broken \ {event}

-----------------------------------------------------------------------------
(* Agents *)

\* begin_turn.  A number that is used again has lost its old rows.
BeginTurn ==
  /\ turn' = (turn % MaxTurns) + 1
  /\ fresh' = {row \in fresh : row[2] # turn'}

\* UserPromptSubmit: begin_turn, then hook_success.  If the hook fails before
\* begin_turn, the old turn stays the current one.
Prompt ==
  /\ agent[Main].pc = "idle"
  /\ \/ /\ BeginTurn
        /\ broken' = Succeeded("UserPromptSubmit")
        /\ UNCHANGED failures
     \/ /\ failures < MaxFailures /\ failures' = failures + 1
        /\ BeginTurn \/ UNCHANGED <<turn, fresh>>
        /\ broken' = broken \cup {"UserPromptSubmit"}
  /\ agent' = [agent EXCEPT ![Main] = [pc |-> "working", blocked |-> FALSE]]
  /\ UNCHANGED hook

\* A subagent may outlive the turn of its parent.
StartSubagent(a) ==
  /\ a # Main /\ agent[a].pc = "idle" /\ agent[Main].pc = "working"
  /\ agent' = [agent EXCEPT ![a] = [pc |-> "working", blocked |-> FALSE]]
  /\ UNCHANGED <<turn, fresh, hook, broken, failures>>

\* add_sighting: with the turn that is current; without one it is nobody's.
Record(a) ==
  /\ agent[a].pc = "working"
  /\ \E f \in Ids : fresh' = IF turn = 0 THEN fresh ELSE fresh \cup {<<f, turn>>}
  /\ UNCHANGED <<turn, agent, hook, broken, failures>>

\* The agent ends its message, with any ids in it.
Stop(a) ==
  /\ agent[a].pc = "working"
  /\ agent' = [agent EXCEPT ![a].pc = "stopping"]
  /\ \E said \in SUBSET Ids : hook' = [hook EXCEPT ![a] = [pc |-> "read", said |-> said]]
  /\ UNCHANGED <<turn, fresh, broken, failures>>

-----------------------------------------------------------------------------
(* The hook: ingest_supported *)

AllPresent(seen, said) == seen \subseteq said

\* Mutant: who was asked before is asked again.
AlwaysAsks(a) == FALSE

AskedBefore(a) == agent[a].blocked

\* current_turn_findings, and what to do about them.
ReadFindings(a) ==
  /\ hook[a].pc = "read"
  /\ LET seen == {f \in Ids : <<f, turn>> \in fresh}
         present == AllPresent(seen, hook[a].said)
         next == CASE present /\ seen # {} /\ a = Main -> "mark"
                   [] ~present /\ ~AskedBefore(a) -> "refuse"
                   [] OTHER -> "finish"
     IN hook' = [hook EXCEPT ![a] =
          IF next = "mark" THEN [@ EXCEPT !.pc = next] ELSE [NoHook EXCEPT !.pc = next]]
  /\ UNCHANGED <<turn, fresh, agent, broken, failures>>

\* mark_current_turn_findings_surfaced: every row of the turn that is there by
\* now, in a transaction after the one that read them.
Mark(a) ==
  /\ hook[a].pc = "mark"
  /\ fresh' = {row \in fresh : row[2] # turn}
  /\ hook' = [hook EXCEPT ![a].pc = "finish"]
  /\ UNCHANGED <<turn, agent, broken, failures>>

\* hook_success; a refused agent goes on working.
Finish(a) ==
  /\ hook[a].pc \in {"finish", "refuse"}
  /\ broken' = Succeeded(StopEvent(a))
  /\ agent' = [agent EXCEPT ![a] =
       IF hook[a].pc = "refuse" THEN [pc |-> "working", blocked |-> TRUE]
                                ELSE [pc |-> "idle", blocked |-> FALSE]]
  /\ hook' = [hook EXCEPT ![a] = NoHook]
  /\ UNCHANGED <<turn, fresh, failures>>

\* An error is recorded, and the agent may stop.
Fail(a) ==
  /\ hook[a].pc # "none"
  /\ failures < MaxFailures /\ failures' = failures + 1
  /\ broken' = broken \cup {StopEvent(a)}
  /\ agent' = [agent EXCEPT ![a] = [pc |-> "idle", blocked |-> FALSE]]
  /\ hook' = [hook EXCEPT ![a] = NoHook]
  /\ UNCHANGED <<turn, fresh>>

RunHook(a) == ReadFindings(a) \/ Mark(a) \/ Finish(a)

TurnGateNext ==
  \/ Prompt
  \/ \E a \in Agents : StartSubagent(a) \/ Record(a) \/ Stop(a) \/ RunHook(a) \/ Fail(a)

\* Hooks end, and an agent that works stops working some time.
TurnGateFair == \A a \in Agents : WF_turnVars(RunHook(a)) /\ WF_turnVars(Stop(a))

TurnGateSpec == TurnGateInit /\ [][TurnGateNext]_turnVars /\ TurnGateFair

-----------------------------------------------------------------------------
(* Properties *)

\* The gate asks, and does not trap: an agent that stops is let go in the end,
\* whatever it leaves out of its messages and whatever it and its subagents
\* record meanwhile (ingest_supported).
StopsEnd == \A a \in Agents : agent[a].pc = "stopping" ~> agent[a].pc = "idle"

\* What a step takes off the list of the turn, the message of the stop names.
SurfacesOnlyNamed ==
  \A f \in Ids : <<f, turn>> \in fresh \ fresh' =>
    hook[Main].pc = "mark" /\ f \in hook[Main].said

\* README.md:249-251: "Stop hooks require a final `Findings recorded` summary
\* with exact IDs for findings added in that turn; they request one bounded
\* continuation when it is absent".  So no finding of the turn is surfaced, and
\* thereby never asked for again, that the message of the stop did not name
\* (ingest_supported, mark_current_turn_findings_surfaced).  It holds for an
\* agent alone, and fails when a subagent records between the two transactions.
SurfacedWasNamed == [][SurfacesOnlyNamed]_turnVars
=============================================================================
