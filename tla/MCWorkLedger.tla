---------------------------- MODULE MCWorkLedger ----------------------------
(***************************************************************************)
(* Instances of the work ledger for TLC: a directory d with two files.     *)
(***************************************************************************)
EXTENDS WorkLedgerProperties, TLC

MCPaths == {"d", "d/a", "d/b"}
MCBelow == {<<"d/a", "d">>, <<"d/b", "d">>}
MCLengths == [p \in MCPaths |-> IF p = "d" THEN 1 ELSE 3]

DirectoryD == [path |-> "d", kind |-> "recursive"]

\* Two disjoint files and the directory that holds both: a request can be
\* narrowed, expanded and moved.
FileRequests == {{Exact("d/a")}}
NestedRequests == {{Exact("d/a")}, {DirectoryD}}
TreeRequests == {{Exact("d/a")}, {Exact("d/b")}, {DirectoryD}}

\* A path d that does not exist yet, named as a file and as a directory.
MixedRequests == {{Exact("d")}, {Exact("d/a")}, {DirectoryD}}

\* Sessions are alike, and so are process slots.
Symmetric == Permutations(Sessions) \cup Permutations(Processes)
    \cup Permutations(Labels)

\* Fewer behaviours, for a counterexample that is long: no drafts, no failing
\* commands, and nothing but commands.
Direct ==
  /\ \A p \in Processes : proc'[p].cmd # "draft" /\ ~ Abort(p)
  /\ proc' # proc

DirectSpec == Init /\ [][Next /\ Direct]_vars

=============================================================================
