----------------------------- MODULE ScopeFacts -----------------------------
(***************************************************************************)
(* Lemmas about the scope algebra: what covering and the expansion test    *)
(* say about overlap.  They hold for scope sets that never name one path   *)
(* both as a file and as a directory (KindsAgree); without that, a     *)
(* cover proves nothing about overlap, since equal paths cover each other  *)
(* whatever their kinds are.                                               *)
(***************************************************************************)
EXTENDS Scopes, TLAPS

\* Overlap is symmetric (any_overlap).
LEMMA OverlapSymmetric ==
  \A A, B \in SUBSET Scope : AnyOverlap(A, B) <=> AnyOverlap(B, A)
  BY DEF AnyOverlap, ScopesOverlap

\* A scope overlaps whatever a scope it covers overlaps, when equal paths have
\* equal kinds (scope_covers, scopes_overlap).
LEMMA CoverOne ==
  ASSUME NEW e \in Scope, NEW a \in Scope, NEW u \in Scope,
         e.path = a.path => e.kind = a.kind,
         ScopeCovers(e, a), ScopesOverlap(a, u)
  PROVE  ScopesOverlap(e, u)
<1>1. /\ e.path \in Paths /\ a.path \in Paths /\ u.path \in Paths
  BY DEF Scope
<1>2. CASE e.path = a.path
  BY <1>2 DEF ScopesOverlap, Within
<1>3. CASE Within(a.path, e)
  <2>1. CASE a.path = u.path
    BY <1>3, <2>1 DEF ScopesOverlap, Within
  <2>2. CASE Within(u.path, a)
    <3>1. <<u.path, a.path>> \in Below /\ <<a.path, e.path>> \in Below
      BY <1>3, <2>2 DEF Within
    <3>2. <<u.path, e.path>> \in Below
      BY <1>1, <3>1, PathsAreATree
    <3> QED
      BY <1>3, <3>2 DEF ScopesOverlap, Within
  <2>3. CASE Within(a.path, u)
    <3>1. <<a.path, u.path>> \in Below /\ <<a.path, e.path>> \in Below
      BY <1>3, <2>3 DEF Within
    <3>2. \/ u.path = e.path
          \/ <<u.path, e.path>> \in Below
          \/ <<e.path, u.path>> \in Below
      BY <1>1, <3>1, PathsAreATree
    <3> QED
      BY <1>3, <2>3, <3>2 DEF ScopesOverlap, Within
  <2> QED
    BY <2>1, <2>2, <2>3 DEF ScopesOverlap
<1> QED
  BY <1>2, <1>3 DEF ScopeCovers

\* Narrowing is safe: what overlaps the covered set overlaps the covering one
\* (scopes_cover, as update_active and submit use it).
LEMMA CoverSound ==
  ASSUME NEW S \in SUBSET Scope, NEW T \in SUBSET Scope,
         NEW U \in SUBSET Scope,
         KindsAgree(S, T), ScopesCover(S, T), AnyOverlap(T, U)
  PROVE  AnyOverlap(S, U)
<1>1. PICK a \in T, u \in U : ScopesOverlap(a, u)
  BY DEF AnyOverlap
<1>2. PICK e \in S : ScopeCovers(e, a)
  BY DEF ScopesCover
<1>3. e.path = a.path => e.kind = a.kind
  BY DEF KindsAgree
<1>4. ScopesOverlap(e, u)
  BY <1>1, <1>2, <1>3, CoverOne
<1> QED
  BY <1>4 DEF AnyOverlap

\* Expansion is safe: when every path on which the requested scopes meet a
\* contender is covered already, the existing scopes meet it too
\* (overlaps_outside_coverage, as expansion_blockers uses it).
LEMMA ExpansionSound ==
  ASSUME NEW S \in SUBSET Scope, NEW T \in SUBSET Scope,
         NEW U \in SUBSET Scope,
         KindsAgree(S, T),
         OverlapsOutsideCoverage(T, U, S) = {}, AnyOverlap(T, U)
  PROVE  AnyOverlap(S, U)
<1>1. PICK a \in T, u \in U : ScopesOverlap(a, u)
  BY DEF AnyOverlap
<1>2. Deeper(a, u) \in OverlappingPaths(T, U)
  <2>1. <<a, u>> \in {n \in T \X U : ScopesOverlap(n[1], n[2])}
    BY <1>1
  <2> QED
    BY <2>1 DEF OverlappingPaths
<1>3. ScopesCover(S, {Exact(Deeper(a, u))})
  BY <1>2 DEF OverlapsOutsideCoverage
<1>4. PICK e \in S : ScopeCovers(e, Exact(Deeper(a, u)))
  BY <1>3 DEF ScopesCover
<1>5. CASE Deeper(a, u) = u.path
  <2>1. e.path = u.path \/ Within(u.path, e)
    BY <1>4, <1>5 DEF ScopeCovers, Exact
  <2> QED
    BY <2>1 DEF AnyOverlap, ScopesOverlap
<1>6. CASE Deeper(a, u) = a.path
  <2>1. ScopeCovers(e, a)
    BY <1>4, <1>6 DEF ScopeCovers, Exact
  <2>2. e.path = a.path => e.kind = a.kind
    BY DEF KindsAgree
  <2>3. ScopesOverlap(e, u)
    BY <1>1, <2>1, <2>2, CoverOne
  <2> QED
    BY <2>3 DEF AnyOverlap
<1> QED
  BY <1>5, <1>6 DEF Deeper

=============================================================================
