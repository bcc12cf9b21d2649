------------------------------ MODULE Findings ------------------------------
(***************************************************************************)
(* The findings of one repository: durable follow-ups that agents record,  *)
(* hand off, resolve and reopen with ai-coord finding, each operation one  *)
(* immediate transaction on the ledger.                                    *)
(*                                                                         *)
(* Source: src/state/store_findings.rs, src/coordinator/findings.rs.       *)
(* Finding ids are numbered in the order of creation, which is the order   *)
(* of created_at that triage goes by.                                      *)
(***************************************************************************)
EXTENDS Naturals, FiniteSets

CONSTANTS
  Keys,         \* fingerprints: a normalized summary with its set of paths
  Resolutions,  \* the terminal states that agents give to finding resolve
  MaxFindings,  \* bound on records ever created
  MaxReopens    \* bound on reopenings of one record

ASSUME FindingsAssumption ==
  /\ MaxFindings \in Nat /\ MaxReopens \in Nat
  /\ Resolutions \subseteq {"fixed", "stale", "rejected", "duplicate"}

VARIABLE findings   \* findings[f]: the row of f, and its reopened events

-----------------------------------------------------------------------------
(* Rows *)

FindingIds == 1 .. MaxFindings
NoFinding == 0

Terminal == {"fixed", "stale", "rejected", "duplicate"}
Open == {"pending", "handed-off"}

FindingRows ==
  [state : Open \cup Terminal, key : Keys, canonical : FindingIds \cup {NoFinding},
   reopened : 0 .. MaxReopens]

\* A row that was not created yet.
Blank == [state |-> "absent"]

Exists(f) == findings[f] # Blank
IsOpen(f) == findings[f].state \in Open

\* The open record with the fingerprint of f, if it is not f itself.
HasOpenPeer(f) ==
  \E g \in FindingIds \ {f} : IsOpen(g) /\ findings[g].key = findings[f].key

FindingsInit == findings = [f \in FindingIds |-> Blank]

-----------------------------------------------------------------------------
(* Operations *)

\* finding add: another sighting of the open record with exactly this
\* fingerprint, or else a new pending record.
NewRow(key) ==
  [state |-> "pending", key |-> key, canonical |-> NoFinding, reopened |-> 0]

Add(key) ==
  \/ /\ \E f \in FindingIds : IsOpen(f) /\ findings[f].key = key
     /\ UNCHANGED findings
  \/ /\ \A f \in FindingIds : ~(IsOpen(f) /\ findings[f].key = key)
     /\ \E f \in FindingIds :
          /\ ~Exists(f) /\ \A g \in 1 .. f - 1 : Exists(g)
          /\ findings' = [findings EXCEPT ![f] = NewRow(key)]

\* finding handoff: from pending only.
CanHandOff(f) == findings[f].state = "pending"

HandOff(f) ==
  /\ CanHandOff(f)
  /\ findings' = [findings EXCEPT ![f].state = "handed-off"]

\* finding resolve: an open record becomes terminal; duplicate, and nothing
\* else, names another record that is not a duplicate at this moment.
\* Mutant: whether that record is a duplicate is not asked.
CanonicalExists(f, state, canonical) ==
  IF state = "duplicate"
  THEN canonical \in FindingIds \ {f} /\ Exists(canonical)
  ELSE canonical = NoFinding

CanonicalOK(f, state, canonical) ==
  IF state = "duplicate"
  THEN /\ canonical \in FindingIds \ {f}
       /\ Exists(canonical)
       /\ findings[canonical].state # "duplicate"
  ELSE canonical = NoFinding

CanResolve(f, state, canonical) ==
  IsOpen(f) /\ state \in Terminal /\ CanonicalOK(f, state, canonical)

Resolve(f, state, canonical) ==
  /\ CanResolve(f, state, canonical)
  /\ findings' = [findings EXCEPT ![f].state = state, ![f].canonical = canonical]

\* finding reopen: a terminal record without an open peer is pending again and
\* forgets its canonical.
\* Mutant: the canonical of the duplicate stays.
ReopenAsIs(f) ==
  /\ findings[f].state \in Terminal
  /\ ~HasOpenPeer(f)
  /\ findings[f].reopened < MaxReopens
  /\ findings' = [findings EXCEPT ![f].state = "pending", ![f].reopened = @ + 1]

\* Mutant: the open peer is not looked for.
ReopenBeside(f) ==
  /\ findings[f].state \in Terminal
  /\ findings[f].reopened < MaxReopens
  /\ findings' = [findings EXCEPT ![f].state = "pending",
                                  ![f].canonical = NoFinding,
                                  ![f].reopened = @ + 1]

Reopen(f) ==
  /\ findings[f].state \in Terminal
  /\ ~HasOpenPeer(f)
  /\ findings[f].reopened < MaxReopens
  /\ findings' = [findings EXCEPT ![f].state = "pending",
                                  ![f].canonical = NoFinding,
                                  ![f].reopened = @ + 1]

-----------------------------------------------------------------------------
(* Specification *)

FindingsNext ==
  \/ \E key \in Keys : Add(key)
  \/ \E f \in FindingIds :
       \/ HandOff(f)
       \/ Reopen(f)
       \/ \E state \in Resolutions, canonical \in FindingIds \cup {NoFinding} :
            Resolve(f, state, canonical)

FindingsSpec == FindingsInit /\ [][FindingsNext]_findings

-----------------------------------------------------------------------------
(* Properties *)

\* The columns, with the CHECK constraints of the table: a record names a
\* canonical exactly while it is a duplicate, and never itself.
FindingsTypeOK ==
  /\ findings \in [FindingIds -> FindingRows \cup {Blank}]
  /\ \A f \in FindingIds : Exists(f) =>
       /\ (findings[f].state = "duplicate") = (findings[f].canonical # NoFinding)
       /\ findings[f].canonical # f

\* Two agents that add, resolve and reopen in any order never leave two open
\* records with the same fingerprint: adding deduplicates against open records
\* only, so an older terminal record may not be reopened beside a newer one.
OneOpenPerKey ==
  \A f, g \in FindingIds :
    IsOpen(f) /\ IsOpen(g) /\ findings[f].key = findings[g].key => f = g

Duplicates == {f \in FindingIds : findings[f].state = "duplicate"}

\* Following the canonical of a duplicate always ends at a record that is not
\* a duplicate, in whatever order records were marked and reopened, although
\* a canonical may itself become a duplicate later: no set of duplicates
\* points only into itself.
CanonicalsEnd ==
  \A S \in (SUBSET Duplicates) \ {{}} :
    \E f \in S : findings[f].canonical \notin S
=============================================================================
