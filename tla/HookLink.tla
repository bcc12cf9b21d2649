------------------------------ MODULE HookLink ------------------------------
(***************************************************************************)
(* ai-coord link codex: the hooks file is brought to one canonical set of  *)
(* handlers beside those of other tools, and Codex is told to trust them.  *)
(*                                                                         *)
(* Source: src/hooks/config.rs, src/hooks/specs.rs, src/hooks/trust.rs,    *)
(* run_link in src/lib.rs.  The file is read and replaced without a lock,  *)
(* and the trust is written by compare and swap on the version of the      *)
(* configuration, through codex app-server, which is external.             *)
(***************************************************************************)
EXTENDS Naturals, FiniteSets, Sequences, SequencesExt

CONSTANTS
  Specs,       \* the sequence of events with a handler: hook_specs
  MaxAttempts, \* MAX_CONFIG_ATTEMPTS
  MaxEntries,  \* bound on the length of a hooks file at the start
  MaxEdits     \* bound on edits of the two files by others

ASSUME HookLinkAssumption ==
  /\ Specs \in Seq(STRING)
  /\ MaxAttempts \in Nat \ {0} /\ {MaxEntries, MaxEdits} \subseteq Nat

VARIABLES
  hooksFile,  \* the handlers in the order of the file
  trust,      \* config.toml: its version and the trusted keys
  link,       \* the process
  edits       \* edits by others so far

linkVars == <<hooksFile, trust, link, edits>>

-----------------------------------------------------------------------------
(* Documents.  A handler of ours is as the spec has it; or accepted by      *)
(* handler_matches, which ignores fields that the spec leaves out, although *)
(* Codex reports those; or an older form.  An event whose value is no array *)
(* is one odd entry.  Groups are left out: one that becomes empty goes.     *)

LinkedEvents == {Specs[i] : i \in DOMAIN Specs}
Kinds == {"exact", "loose", "stale", "foreign", "odd"}
Entries == [event : LinkedEvents, kind : Kinds]

IsOwned(entry) == entry.kind \in {"exact", "loose", "stale"}
HandlerMatches(entry) == entry.kind \in {"exact", "loose"}

\* The handlers of an event are together, and an odd value is alone.
IsDocument(doc) ==
  \A i, j \in DOMAIN doc : i < j /\ doc[i].event = doc[j].event =>
    /\ "odd" \notin {doc[i].kind, doc[j].kind}
    /\ \A k \in i .. j : doc[k].event = doc[i].event

Documents == {doc \in BoundedSeq(Entries, MaxEntries) : IsDocument(doc)}

\* Mutant: the handler of any event will do.
AnyPresent(doc, event) == \E i \in DOMAIN doc : HandlerMatches(doc[i])

SpecPresent(doc, event) ==
  \E i \in DOMAIN doc : doc[i].event = event /\ HandlerMatches(doc[i])

\* Mutant: any handler that matches a spec is preserved.
EveryMatch(doc, preserved) == {i \in DOMAIN doc : doc[i].kind = "stale"}

\* A scan looks for a handler of ours that matches no spec, or one whose spec
\* was preserved before, in this scan or in an earlier one.
Unwanted(doc, preserved) ==
  {i \in DOMAIN doc : IsOwned(doc[i]) /\
     (HandlerMatches(doc[i]) =>
        \/ doc[i].event \in preserved
        \/ \E j \in 1 .. i - 1 : doc[j].event = doc[i].event /\ HandlerMatches(doc[j]))}

\* The first of them is removed, and the scan begins again: what an earlier
\* scan preserved is removed by the next one, and inserted afresh in the end.
Scanned(state) ==
  LET unwanted == Unwanted(state.doc, state.preserved)
      first == CHOOSE i \in unwanted : \A j \in unwanted : i <= j
  IN IF unwanted = {} THEN state
     ELSE [doc |-> RemoveAt(state.doc, first),
           preserved |-> state.preserved \cup
             {state.doc[j].event : j \in {k \in 1 .. first - 1 : IsOwned(state.doc[k])}}]

\* Every scan but the last makes the document shorter.
RemoveStale(doc) ==
  LET after[n \in 0 .. Len(doc)] ==
        IF n = 0 THEN [doc |-> doc, preserved |-> {}] ELSE Scanned(after[n - 1])
  IN after[Len(doc)].doc

\* insert_member and append_element: at the end of the event, or of the file.
Insert(doc, event) ==
  LET places == {i \in DOMAIN doc : doc[i].event = event}
      place == IF places = {} THEN Len(doc) ELSE CHOOSE i \in places : \A j \in places : i >= j
      new == [event |-> event, kind |-> "exact"]
  IN IF \E i \in places : doc[i].kind = "odd"
     THEN [doc EXCEPT ![place] = new]
     ELSE InsertAt(doc, place + 1, new)

Completed(doc, event) == IF SpecPresent(doc, event) THEN doc ELSE Insert(doc, event)

Complete(doc) ==
  LET after[n \in 0 .. Len(Specs)] ==
        IF n = 0 THEN doc ELSE Completed(after[n - 1], Specs[n])
  IN after[Len(Specs)]

LinkHooks(doc) == Complete(RemoveStale(doc))

\* EventNotArray without --force.
Refuses(doc, force) == ~force /\ \E i \in DOMAIN doc : doc[i].kind = "odd"

-----------------------------------------------------------------------------
(* codex app-server, external: a handler is listed under a key that names   *)
(* its event and place, and is trusted by key.                              *)

KeyOf(doc, i) ==
  <<doc[i].event, Cardinality({j \in 1 .. i : doc[j].event = doc[i].event})>>

\* owned_codex_hooks: the exact handlers, if there is one for each spec.
ExactOf(doc, event) == {i \in DOMAIN doc : doc[i].event = event /\ doc[i].kind = "exact"}
Listed(doc) == \A event \in LinkedEvents : \E i \in DOMAIN doc : ExactOf(doc, event) = {i}
Owned(doc) == {KeyOf(doc, i) : i \in {j \in DOMAIN doc : doc[j].kind = "exact"}}

-----------------------------------------------------------------------------
(* The process *)

LinkStates ==
  [pc : {"read", "write", "list", "config", "batch", "verify", "updated", "unchanged", "failed"},
   why : {"", "refused", "missing", "conflict", "unverified", "rpc"},
   force : BOOLEAN, doc : Seq(Entries), keys : SUBSET (LinkedEvents \X Nat), version : Nat, attempt : Nat]

HookLinkTypeOK ==
  /\ hooksFile \in Seq(Entries)
  /\ trust \in [version : Nat, keys : SUBSET (LinkedEvents \X Nat)]
  /\ link \in LinkStates
  /\ edits \in 0 .. MaxEdits

LinkInit ==
  /\ hooksFile \in Documents
  /\ \E keys \in SUBSET Owned(hooksFile) : trust = [version |-> 0, keys |-> keys]
  /\ \E force \in BOOLEAN :
       link = [pc |-> "read", why |-> "", force |-> force, doc |-> <<>>, keys |-> {},
               version |-> 0, attempt |-> 1]
  /\ edits = 0

Fails(why) ==
  link' = [link EXCEPT !.pc = "failed", !.why = why, !.keys = {}, !.version = 0]

\* link_hooks: the file is read and its new form computed.
ReadHooks ==
  /\ link.pc = "read"
  /\ IF Refuses(hooksFile, link.force) THEN Fails("refused")
     ELSE LET new == LinkHooks(hooksFile)
          IN link' = IF new = hooksFile THEN [link EXCEPT !.pc = "list"]
                                        ELSE [link EXCEPT !.pc = "write", !.doc = new]
  /\ UNCHANGED <<hooksFile, trust, edits>>

\* write_config: the file is replaced, whatever it holds by now.
WriteHooks ==
  /\ link.pc = "write"
  /\ hooksFile' = link.doc
  /\ link' = [link EXCEPT !.pc = "list", !.doc = <<>>]
  /\ UNCHANGED <<trust, edits>>

\* trust_once: hooks/list ...
ListHooks ==
  /\ link.pc = "list"
  /\ IF ~Listed(hooksFile) THEN Fails("missing")
     ELSE link' = [link EXCEPT
            !.pc = IF Owned(hooksFile) \subseteq trust.keys THEN "unchanged" ELSE "config",
            !.keys = Owned(hooksFile)]
  /\ UNCHANGED <<hooksFile, trust, edits>>

\* ... config/read ...
ReadVersion ==
  /\ link.pc = "config"
  /\ link' = [link EXCEPT !.pc = "batch", !.version = trust.version]
  /\ UNCHANGED <<hooksFile, trust, edits>>

\* Mutant: one attempt less.
GivesUpEarly(attempt) == attempt + 1 = MaxAttempts

GivesUp(attempt) == attempt = MaxAttempts

\* Mutant: the answer to the write is enough.
Believes == "updated"

AfterWrite == "verify"

\* ... and config/batchWrite, which a newer version refuses: that is tried again.
BatchWrite ==
  /\ link.pc = "batch"
  /\ IF link.version = trust.version
     THEN /\ trust' = [version |-> trust.version + 1, keys |-> trust.keys \cup link.keys]
          /\ link' = [link EXCEPT !.pc = AfterWrite]
     ELSE /\ IF GivesUp(link.attempt) THEN Fails("conflict")
             ELSE link' = [link EXCEPT !.pc = "list", !.attempt = @ + 1]
          /\ UNCHANGED trust
  /\ UNCHANGED <<hooksFile, edits>>

\* A fresh connection lists the hooks once more.
Verify ==
  /\ link.pc = "verify"
  /\ CASE ~Listed(hooksFile) -> Fails("missing")
       [] Listed(hooksFile) /\ link.keys \subseteq Owned(hooksFile) \cap trust.keys ->
            link' = [link EXCEPT !.pc = "updated"]
       [] OTHER -> Fails("unverified")
  /\ UNCHANGED <<hooksFile, trust, edits>>

\* A request fails or times out: link is over, and what it wrote stays.
RequestFails ==
  /\ link.pc \in {"list", "config", "batch", "verify"}
  /\ Fails("rpc")
  /\ UNCHANGED <<hooksFile, trust, edits>>

-----------------------------------------------------------------------------
(* Others: an editor, or another tool that installs hooks of its own *)

EditHooks ==
  /\ edits < MaxEdits /\ edits' = edits + 1
  /\ \/ \E i \in 1 .. Len(hooksFile) + 1, event \in LinkedEvents, kind \in {"stale", "foreign"} :
          LET doc == InsertAt(hooksFile, i, [event |-> event, kind |-> kind])
          IN IsDocument(doc) /\ hooksFile' = doc
     \/ \E i \in DOMAIN hooksFile : hooksFile' = RemoveAt(hooksFile, i)
  /\ UNCHANGED <<trust, link>>

\* Anything else in config.toml; or trust that the user gives or takes away.
EditConfig ==
  /\ edits < MaxEdits /\ edits' = edits + 1
  /\ \E keys \in SUBSET (trust.keys \cup Owned(hooksFile)) :
       trust' = [version |-> trust.version + 1, keys |-> keys]
  /\ UNCHANGED <<hooksFile, link>>

LinkNext ==
  \/ ReadHooks \/ WriteHooks \/ ListHooks \/ ReadVersion \/ BatchWrite \/ Verify
  \/ RequestFails \/ EditHooks \/ EditConfig

LinkSpec == LinkInit /\ [][LinkNext]_linkVars

-----------------------------------------------------------------------------
(* Properties *)

\* The entries of a kind in their order.
Of(doc, kind) ==
  LET of[n \in 0 .. Len(doc)] ==
        IF n = 0 THEN <<>>
        ELSE IF doc[n].kind = kind THEN Append(of[n - 1], doc[n]) ELSE of[n - 1]
  IN of[Len(doc)]

Matching(doc, event) == {i \in DOMAIN doc : doc[i].event = event /\ HandlerMatches(doc[i])}

\* What link writes is one canonical set: one handler for each event, none that
\* is stale, the handlers of other tools in their order, and nothing left to do
\* for another link (link_hooks, remove_stale_owned_commands).
LinkConverges ==
  link.pc = "write" =>
    /\ Of(link.doc, "stale") = <<>>
    /\ \A event \in LinkedEvents : \E i \in DOMAIN link.doc : Matching(link.doc, event) = {i}
    /\ edits = 0 => Of(link.doc, "foreign") = Of(hooksFile, "foreign")
    /\ IsDocument(link.doc) /\ LinkHooks(link.doc) = link.doc

\* Unless somebody edits the file meanwhile, the trust misses no handler, except
\* for one that link kept although Codex reports it otherwise (spec_present,
\* matching_codex_spec).
MissingMeansLoose ==
  link.why = "missing" /\ edits = 0 => \E i \in DOMAIN hooksFile : hooksFile[i].kind = "loose"

ReportIsTrue ==
  link.pc # link'.pc /\ link'.pc \in {"updated", "unchanged"} =>
    Listed(hooksFile) /\ Owned(hooksFile) \subseteq trust'.keys

\* link reports success only if Codex runs the handlers: at that moment each
\* event has its exact handler and the trust in it, whatever others did to the
\* two files meanwhile (trust_codex_hooks_with).
TrustedWhenReported == [][ReportIsTrue]_linkVars

\* It gives up over a conflict only if others wrote the configuration as often as
\* it made attempts; what it wrote itself before is no conflict, nor is an edit of
\* the hooks file (trust_codex_hooks_with, BatchWrite's expectedVersion).
ConflictsAreEdits == link.why = "conflict" => trust.version >= MaxAttempts
=============================================================================
