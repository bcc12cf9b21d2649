------------------------------- MODULE Scopes -------------------------------
(***************************************************************************)
(* The scope algebra of src/host/git.rs: which repository paths a work     *)
(* item claims, when one claim covers another and when two claims meet.    *)
(*                                                                         *)
(* A path is a member of Paths.  "p.starts_with(q + '/')" is the relation  *)
(* Below (p lies strictly below the directory q); the repository root      *)
(* ".", which the code tests for separately, is a path with every other    *)
(* path below it.  PathLength is the length of the normalized string.      *)
(***************************************************************************)
EXTENDS Integers

CONSTANTS
  Paths,        \* normalized repository-relative paths
  Below,        \* pairs <<p, q>> where p lies strictly below directory q
  PathLength    \* number of bytes of each path

Kinds == {"exact", "recursive"}

Scope == [path : Paths, kind : Kinds]

\* Two directories that hold the same path lie one below the other.
ASSUME PathsAreATree ==
  /\ Below \subseteq Paths \X Paths
  /\ \A p \in Paths : <<p, p>> \notin Below
  /\ \A p, q, r \in Paths :
       <<p, q>> \in Below /\ <<q, r>> \in Below => <<p, r>> \in Below
  /\ \A p, q, r \in Paths :
       <<p, q>> \in Below /\ <<p, r>> \in Below =>
         q = r \/ <<q, r>> \in Below \/ <<r, q>> \in Below

ASSUME PathLengths == PathLength \in [Paths -> Nat]

-----------------------------------------------------------------------------

Exact(p) == [path |-> p, kind |-> "exact"]

Within(p, s) == s.kind = "recursive" /\ <<p, s.path>> \in Below

\* Equal paths cover each other whatever their kinds are.
ScopeCovers(covering, covered) ==
  covering.path = covered.path \/ Within(covered.path, covering)

ScopesCover(covering, covered) ==
  \A c \in covered : \E parent \in covering : ScopeCovers(parent, c)

ScopesOverlap(a, b) ==
  a.path = b.path \/ Within(b.path, a) \/ Within(a.path, b)

AnyOverlap(left, right) ==
  \E a \in left, b \in right : ScopesOverlap(a, b)

\* The path reported for two overlapping scopes: the longer, the left of two
\* equally long ones.
Deeper(a, b) ==
  IF PathLength[a.path] >= PathLength[b.path] THEN a.path ELSE b.path

OverlappingPaths(left, right) ==
  {Deeper(m[1], m[2]) :
     m \in {n \in left \X right : ScopesOverlap(n[1], n[2])}}

OverlapsOutsideCoverage(requested, contender, existing) ==
  {p \in OverlappingPaths(requested, contender) :
     ~ ScopesCover(existing, {Exact(p)})}

-----------------------------------------------------------------------------

\* No path is named as a file in one set and as a directory in the other.
KindsAgree(left, right) ==
  \A a \in left, b \in right : a.path = b.path => a.kind = b.kind

\* All agents name the same path in the same way.
Consistent(requests) ==
  /\ requests \subseteq SUBSET Scope
  /\ \A A, B \in requests : KindsAgree(A, B)

=============================================================================
