----------------------------- MODULE MCCoverage -----------------------------
(***************************************************************************)
(* The session registry and provider coverage, for TLC: each behaviour is  *)
(* of one of them, and the other stands still.                             *)
(***************************************************************************)
EXTENDS MCSessionRegistry, Coverage

VARIABLE part

\* One context has both clients, the other Codex alone.
MCInstalled == {<<"here", "codex">>, <<"here", "claude">>, <<"there", "codex">>}

\* A command in either context, and a status in one.
MCCalls == {<<"start", "here", FALSE>>, <<"start", "there", FALSE>>, <<"status", "here", TRUE>>}

\* Bound: one of the two processes may be hidden from the start.
MCInit ==
  /\ part \in {"registry", "coverage"} /\ Init /\ CoverageInit
  /\ hidden \subseteq {"p"} /\ (part = "registry" => hidden = {})

MCNext ==
  /\ UNCHANGED part
  /\ \/ part = "registry" /\ Next /\ UNCHANGED coverVars
     \/ part = "coverage" /\ CoverageNext /\ UNCHANGED vars

MCSpec == MCInit /\ [][MCNext]_<<vars, coverVars, part>>
=============================================================================
