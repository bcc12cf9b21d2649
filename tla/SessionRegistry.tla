---------------------------- MODULE SessionRegistry ----------------------------
(***************************************************************************)
(* The sessions table of the ledger and the processes that write it.       *)
(*                                                                         *)
(* Host processes (Claude Code, Codex) run sessions.  Hooks and commands   *)
(* of a session register it: they look up the host process, read the row   *)
(* and write it in a later transaction.  Every command that needs fresh    *)
(* evidence also sweeps the whole table: it probes the process named by    *)
(* each row and removes rows whose process is gone, and it replaces all    *)
(* Claude rows by what `claude agents --json` listed.                      *)
(*                                                                         *)
(* A fingerprint carries the start of its process, so a process that has   *)
(* exited never comes back.                                                *)
(***************************************************************************)
EXTENDS Integers

CONSTANTS
  Claude, Codex,            \* the sessions of each client
  ClaudeHosts, CodexHosts,  \* the processes that run them
  Registrars,               \* hooks and commands that register a session
  Commands,                 \* commands that refresh the evidence
  StartLookups,             \* {TRUE}: SessionStart always finds its process
  NoHost, Idle,
  Modulus                   \* bound: row revisions wrap

AllSessions == Claude \cup Codex
Hosts == ClaudeHosts \cup CodexHosts
HostsOf(s) == IF s \in Claude THEN ClaudeHosts ELSE CodexHosts
SameClient(s, t) == (s \in Claude) = (t \in Claude)

ASSUME RegistryConstants ==
  /\ Claude \cap Codex = {}
  /\ ClaudeHosts \cap CodexHosts = {}
  /\ NoHost \notin Hosts
  /\ StartLookups \in SUBSET BOOLEAN
  /\ Modulus \in Nat \ {0}

VARIABLES
  host,    \* the process that runs each session
  exited,  \* the processes that are gone
  row,     \* the sessions table; revision 0 where there is no row
  upsert,  \* the row each registrar is about to write
  cmd      \* the refreshing commands

vars == <<host, exited, row, upsert, cmd>>

-----------------------------------------------------------------------------
(* Rows *)

NoRow == [host |-> NoHost, revision |-> 0]
RowSet == {NoRow} \cup [host : Hosts \cup {NoHost}, revision : 1 .. Modulus]
Registered(s) == row[s].revision # 0

\* Mutant: the update forgets the revision.
UnversionedUpserted(old, h) ==
  [host |-> IF h = NoHost THEN old.host ELSE h, revision |-> old.revision]

\* INSERT .. ON CONFLICT DO UPDATE: a null process keeps the old one.
Upserted(old, h) ==
  [host |-> IF h = NoHost THEN old.host ELSE h,
   revision |-> 1 + (old.revision % Modulus)]

UpsertSet == [session : AllSessions, starts : BOOLEAN, host : Hosts \cup {NoHost}]

CmdSet == [at : {"idle", "probing", "swept", "listed", "replaced", "reprobing"},
           seen : [AllSessions -> RowSet],
           listed : SUBSET Claude,
           hosts : [Claude -> Hosts \cup {NoHost}]]

NoCmd == [at |-> "idle", seen |-> [s \in AllSessions |-> NoRow],
          listed |-> {}, hosts |-> [s \in Claude |-> NoHost]]

TypeOK ==
  /\ host \in [AllSessions -> Hosts \cup {NoHost}]
  /\ exited \in SUBSET Hosts
  /\ row \in [AllSessions -> RowSet]
  /\ upsert \in [Registrars -> UpsertSet \cup {Idle}]
  /\ cmd \in [Commands -> CmdSet]

Init ==
  /\ host = [s \in AllSessions |-> NoHost]
  /\ exited = {}
  /\ row = [s \in AllSessions |-> NoRow]
  /\ upsert = [r \in Registrars |-> Idle]
  /\ cmd = [c \in Commands |-> NoCmd]

-----------------------------------------------------------------------------
(* The clients.  A client waits for its SessionStart and SessionEnd hooks. *)

Running(s) == host[s] # NoHost
Starting(s) ==
  \E r \in Registrars : upsert[r] # Idle /\ upsert[r].session = s /\ upsert[r].starts

\* A process takes up a session, new or resumed; it runs one at a time.  Its
\* hook then registers the session, under the row's process if it does not
\* find its own.
Launch(s, h) ==
  /\ ~ Running(s)
  /\ h \in HostsOf(s) \ exited
  /\ \A t \in AllSessions : host[t] # h
  /\ host' = [host EXCEPT ![s] = h]
  /\ UNCHANGED <<exited, row, cmd>>

SessionStart(s, h, r, found) ==
  /\ Launch(s, h)
  /\ upsert[r] = Idle
  /\ upsert' = [upsert EXCEPT ![r] =
       [session |-> s, starts |-> TRUE,
        host |-> IF found THEN h ELSE row[s].host]]

\* The hook is not linked, or fails before it reads.
SilentStart(s, h) == Launch(s, h) /\ UNCHANGED upsert

\* The process turns to another session (/clear, /resume), with or without
\* the SessionEnd event.
Turn(s) ==
  /\ Running(s)
  /\ ~ Starting(s)
  /\ host' = [host EXCEPT ![s] = NoHost]
  /\ UNCHANGED <<exited, upsert, cmd>>

SessionEnd(s) == Turn(s) /\ row' = [row EXCEPT ![s] = NoRow]

SilentEnd(s) == Turn(s) /\ UNCHANGED row

Exit(h) ==
  /\ h \in Hosts \ exited
  /\ exited' = exited \cup {h}
  /\ host' = [s \in AllSessions |-> IF host[s] = h THEN NoHost ELSE host[s]]
  /\ UNCHANGED <<row, upsert, cmd>>

-----------------------------------------------------------------------------
(* Registration: a read, then a write *)

Registers(r, s, h) ==
  /\ Running(s)
  /\ upsert[r] = Idle
  /\ upsert' = [upsert EXCEPT ![r] = [session |-> s, starts |-> FALSE, host |-> h]]
  /\ UNCHANGED <<host, exited, row, cmd>>

\* A hook records the process it finds, else the row's.
Hook(r, s, found) == Registers(r, s, IF found THEN host[s] ELSE row[s].host)

\* A command (ensure_session) records the row's process, else what it finds.
Command(r, s, found) ==
  Registers(r, s, IF row[s].host # NoHost THEN row[s].host
                  ELSE IF found THEN host[s] ELSE NoHost)

\* SessionStart retires the other sessions of the client on the same process.
Superseded(u) ==
  {t \in AllSessions \ {u.session} :
     /\ u.starts /\ u.host # NoHost
     /\ SameClient(t, u.session)
     /\ row[t].host = u.host}

WriteUpsert(r) ==
  /\ upsert[r] # Idle
  /\ LET u == upsert[r] IN
     row' = [t \in AllSessions |->
       IF t = u.session THEN Upserted(row[t], u.host)
       ELSE IF t \in Superseded(u) THEN NoRow
       ELSE row[t]]
  /\ upsert' = [upsert EXCEPT ![r] = Idle]
  /\ UNCHANGED <<host, exited, cmd>>

DropUpsert(r) ==
  /\ upsert[r] # Idle
  /\ upsert' = [upsert EXCEPT ![r] = Idle]
  /\ UNCHANGED <<host, exited, row, cmd>>

-----------------------------------------------------------------------------
(* Refreshing the evidence *)

Sweep(c) ==
  /\ cmd[c].at \in {"idle", "replaced"}
  /\ cmd' = [cmd EXCEPT ![c].seen = row,
       ![c].at = IF @ = "idle" THEN "probing" ELSE "reprobing"]
  /\ UNCHANGED <<host, exited, row, upsert>>

\* The rows seen with a process that is gone; a probe may be unable to tell.
Dead(seen) == {s \in AllSessions : seen[s].host \in exited}

\* Mutant: whatever the row is by now.
EndedUnseen(c, known) == known

\* Mutant: rows that were refreshed, instead of rows that were not.
EndedRefreshed(c, known) == {s \in known : row[s].revision > cmd[c].seen[s].revision}

\* Remove a row only if it is still the one that was probed.
Ended(c, known) == {s \in known : row[s] = cmd[c].seen[s]}

Reconcile(c, known) ==
  /\ cmd[c].at \in {"probing", "reprobing"}
  /\ row' = [s \in AllSessions |-> IF s \in Ended(c, known) THEN NoRow ELSE row[s]]
  /\ \/ cmd' = [cmd EXCEPT ![c] = NoCmd]
     \/ /\ cmd[c].at = "probing"
        /\ cmd' = [cmd EXCEPT ![c].at = "swept", ![c].seen = NoCmd.seen]
  /\ UNCHANGED <<host, exited, upsert>>

ReconcileEnded(c) == \E known \in SUBSET Dead(cmd[c].seen) : Reconcile(c, known)

\* `claude agents --json`, and the fingerprint of each process it names.
ListClaude(c) ==
  /\ cmd[c].at = "swept"
  /\ \E found \in SUBSET {s \in Claude : Running(s)} :
       cmd' = [cmd EXCEPT ![c].at = "listed",
         ![c].listed = {s \in Claude : Running(s)},
         ![c].hosts = [s \in Claude |-> IF s \in found THEN host[s] ELSE NoHost]]
  /\ UNCHANGED <<host, exited, row, upsert>>

ReplaceClaude(c) ==
  /\ cmd[c].at = "listed"
  /\ row' = [s \in AllSessions |->
       IF s \in cmd[c].listed THEN Upserted(row[s], cmd[c].hosts[s])
       ELSE IF s \in Claude THEN NoRow
       ELSE row[s]]
  /\ cmd' = [cmd EXCEPT ![c] = [NoCmd EXCEPT !.at = "replaced"]]
  /\ UNCHANGED <<host, exited, upsert>>

\* An inventory that is not authoritative, an error, or the end of the process.
GiveUp(c) ==
  /\ cmd[c].at # "idle"
  /\ cmd' = [cmd EXCEPT ![c] = NoCmd]
  /\ UNCHANGED <<host, exited, row, upsert>>

-----------------------------------------------------------------------------
Next ==
  \/ \E s \in AllSessions :
       \/ \E h \in Hosts :
            \/ SilentStart(s, h)
            \/ \E r \in Registrars, found \in StartLookups : SessionStart(s, h, r, found)
       \/ SessionEnd(s)
       \/ SilentEnd(s)
       \/ \E r \in Registrars, found \in BOOLEAN :
            Hook(r, s, found) \/ Command(r, s, found)
  \/ \E h \in Hosts : Exit(h)
  \/ \E r \in Registrars : WriteUpsert(r) \/ DropUpsert(r)
  \/ \E c \in Commands :
       Sweep(c) \/ ReconcileEnded(c) \/ ListClaude(c) \/ ReplaceClaude(c) \/ GiveUp(c)

Spec == Init /\ [][Next]_vars

\* Registrars and commands finish or fail: every external call has a timeout.
\* Some session goes on issuing commands, so sweeps recur; now and then one is
\* not interrupted and its probes answer.
FairSpec ==
  /\ Spec
  /\ \A r \in Registrars : WF_vars(WriteUpsert(r) \/ DropUpsert(r))
  /\ SF_vars(\E c \in Commands : Reconcile(c, Dead(cmd[c].seen)))
  /\ \A c \in Commands :
       /\ WF_vars(Sweep(c))
       /\ WF_vars(ListClaude(c) \/ ReplaceClaude(c) \/ GiveUp(c))

-----------------------------------------------------------------------------
(* Properties *)

RowNamesItsHost(s) == Registered(s) /\ Running(s) /\ row[s].host = host[s]

Lost(s) == RowNamesItsHost(s) /\ ~ Registered(s)' /\ host'[s] = host[s]

\* A Codex session that goes on running under the process its row names is not
\* removed: not by a sweep that probed an earlier row, not by a session that
\* starts elsewhere (store_sessions.rs, upsert_session_superseding and
\* reconcile_ended).
CodexRowsStay == [][\A s \in Codex : ~ Lost(s)]_vars

\* The same for every session, as README.md:283-287 and the comment of
\* reconcile_ended promise it.  replace_claude_sessions breaks it.
RunningRowsStay == [][\A s \in AllSessions : ~ Lost(s)]_vars

Abandoned(s) == row[s].host \in exited /\ ~ Running(s)

\* A session whose process is gone does not keep its row, and with it its work,
\* for ever, whatever writes race with the sweeps (refresh_inventory,
\* reconcile_processes).
AbandonedRowsGo == \A s \in AllSessions : Abandoned(s) ~> ~ Abandoned(s)
=============================================================================
