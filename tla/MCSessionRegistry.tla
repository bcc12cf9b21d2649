-------------------------- MODULE MCSessionRegistry --------------------------
(***************************************************************************)
(* Instances of the session registry for TLC.                              *)
(***************************************************************************)
EXTENDS SessionRegistry, TLC

\* Sessions and processes of one client are alike.
Symmetric ==
  Permutations(Claude) \cup Permutations(Codex)
    \cup Permutations(CodexHosts) \cup Permutations(Registrars) \cup Permutations(Commands)
=============================================================================
