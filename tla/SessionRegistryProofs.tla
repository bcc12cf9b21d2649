------------------------ MODULE SessionRegistryProofs ------------------------
(***************************************************************************)
(* A Codex session that runs under the process its row names keeps its     *)
(* row, for any number of sessions, processes, hooks and commands.         *)
(***************************************************************************)
EXTENDS SessionRegistry, TLAPS

-----------------------------------------------------------------------------
(* Types *)

\* A written row is a row.
LEMMA UpsertedType ==
  ASSUME NEW old \in RowSet, NEW h \in Hosts \cup {NoHost}
  PROVE  /\ Upserted(old, h) \in RowSet
         /\ Upserted(old, h).revision # 0
<1>1. old.host \in Hosts \cup {NoHost} /\ old.revision \in Nat
  BY RegistryConstants DEF RowSet, NoRow
<1>2. old.revision % Modulus \in 0 .. Modulus - 1
  BY <1>1, RegistryConstants
<1>3. 1 + (old.revision % Modulus) \in 1 .. Modulus
  BY <1>2, RegistryConstants
<1> QED
  BY <1>1, <1>3 DEF Upserted, RowSet

LEMMA NoCmdType == NoCmd \in CmdSet
BY DEF NoCmd, CmdSet, NoRow, RowSet

\* Every variable keeps its type: store_sessions.rs and the callers of it.
LEMMA TypeStep == TypeOK /\ [Next]_vars => TypeOK'
<1> SUFFICES ASSUME TypeOK, [Next]_vars PROVE TypeOK'
  OBVIOUS
<1> USE DEF TypeOK
<1>1. ASSUME NEW s \in AllSessions, NEW h \in Hosts, SilentStart(s, h) PROVE TypeOK'
  BY <1>1 DEF SilentStart, Launch
<1>2. ASSUME NEW s \in AllSessions, NEW h \in Hosts, NEW r \in Registrars,
             NEW found \in StartLookups, SessionStart(s, h, r, found)
      PROVE  TypeOK'
  <2>1. row[s].host \in Hosts \cup {NoHost}
    BY DEF RowSet, NoRow
  <2>2. [session |-> s, starts |-> TRUE,
         host |-> IF found THEN h ELSE row[s].host] \in UpsertSet
    BY <2>1 DEF UpsertSet
  <2> QED
    BY <1>2, <2>2 DEF SessionStart, Launch
<1>3. ASSUME NEW s \in AllSessions, SessionEnd(s) PROVE TypeOK'
  BY <1>3 DEF SessionEnd, Turn, RowSet
<1>4. ASSUME NEW s \in AllSessions, SilentEnd(s) PROVE TypeOK'
  BY <1>4 DEF SilentEnd, Turn
<1>5. ASSUME NEW s \in AllSessions, NEW r \in Registrars,
             NEW h \in Hosts \cup {NoHost}, Registers(r, s, h)
      PROVE  TypeOK'
  <2>1. [session |-> s, starts |-> FALSE, host |-> h] \in UpsertSet
    BY DEF UpsertSet
  <2> QED
    BY <1>5, <2>1 DEF Registers
<1>6. ASSUME NEW s \in AllSessions, NEW r \in Registrars, NEW found \in BOOLEAN,
             Hook(r, s, found) \/ Command(r, s, found)
      PROVE  TypeOK'
  <2>1. row[s].host \in Hosts \cup {NoHost} /\ host[s] \in Hosts \cup {NoHost}
    BY DEF RowSet, NoRow
  <2> QED
    BY <1>5, <1>6, <2>1 DEF Hook, Command
<1>7. ASSUME NEW h \in Hosts, Exit(h) PROVE TypeOK'
  BY <1>7 DEF Exit
<1>8. ASSUME NEW r \in Registrars, WriteUpsert(r) PROVE TypeOK'
  <2>1. upsert[r].session \in AllSessions /\ upsert[r].host \in Hosts \cup {NoHost}
    BY <1>8 DEF WriteUpsert, UpsertSet
  <2>2. \A t \in AllSessions : Upserted(row[t], upsert[r].host) \in RowSet
    BY <2>1, UpsertedType
  <2>3. NoRow \in RowSet
    BY DEF RowSet
  <2> QED
    BY <1>8, <2>2, <2>3 DEF WriteUpsert
<1>9. ASSUME NEW r \in Registrars, DropUpsert(r) PROVE TypeOK'
  BY <1>9 DEF DropUpsert
<1>10. ASSUME NEW c \in Commands, Sweep(c) PROVE TypeOK'
  BY <1>10 DEF Sweep, CmdSet
<1>11. ASSUME NEW c \in Commands, ReconcileEnded(c) PROVE TypeOK'
  <2>1. PICK known \in SUBSET Dead(cmd[c].seen) : Reconcile(c, known)
    BY <1>11 DEF ReconcileEnded
  <2>2. row' \in [AllSessions -> RowSet]
    BY <2>1 DEF Reconcile, RowSet
  <2>3. NoCmd.seen \in [AllSessions -> RowSet]
    BY NoCmdType DEF CmdSet
  <2>4. cmd' \in [Commands -> CmdSet]
    <3>1. cmd[c] \in CmdSet
      OBVIOUS
    <3>2. [cmd[c] EXCEPT !.at = "swept", !.seen = NoCmd.seen] \in CmdSet
      BY <2>3, <3>1 DEF CmdSet
    <3> QED
      BY <2>1, <3>2, NoCmdType DEF Reconcile
  <2> QED
    BY <2>1, <2>2, <2>4 DEF Reconcile
<1>12. ASSUME NEW c \in Commands, ListClaude(c) PROVE TypeOK'
  <2>1. PICK found \in SUBSET {s \in Claude : Running(s)} :
      cmd' = [cmd EXCEPT ![c].at = "listed",
         ![c].listed = {s \in Claude : Running(s)},
         ![c].hosts = [s \in Claude |-> IF s \in found THEN host[s] ELSE NoHost]]
    BY <1>12 DEF ListClaude
  <2>2. [s \in Claude |-> IF s \in found THEN host[s] ELSE NoHost]
          \in [Claude -> Hosts \cup {NoHost}]
    BY DEF AllSessions
  <2>3. [cmd[c] EXCEPT !.at = "listed", !.listed = {s \in Claude : Running(s)},
           !.hosts = [s \in Claude |-> IF s \in found THEN host[s] ELSE NoHost]]
          \in CmdSet
    <3>1. cmd[c] \in CmdSet
      OBVIOUS
    <3> QED
      BY <2>2, <3>1 DEF CmdSet
  <2> QED
    BY <1>12, <2>1, <2>3 DEF ListClaude
<1>13. ASSUME NEW c \in Commands, ReplaceClaude(c) PROVE TypeOK'
  <2>1. \A s \in cmd[c].listed : s \in Claude /\ cmd[c].hosts[s] \in Hosts \cup {NoHost}
    BY DEF CmdSet
  <2>2. \A s \in cmd[c].listed : Upserted(row[s], cmd[c].hosts[s]) \in RowSet
    BY <2>1, UpsertedType DEF AllSessions
  <2>3. row' \in [AllSessions -> RowSet]
    BY <1>13, <2>2 DEF ReplaceClaude, RowSet
  <2>4. [NoCmd EXCEPT !.at = "replaced"] \in CmdSet
    BY NoCmdType DEF CmdSet
  <2> QED
    BY <1>13, <2>3, <2>4 DEF ReplaceClaude
<1>14. ASSUME NEW c \in Commands, GiveUp(c) PROVE TypeOK'
  BY <1>14, NoCmdType DEF GiveUp
<1>15. CASE UNCHANGED vars
  BY <1>15 DEF vars
<1> QED
  BY <1>1, <1>2, <1>3, <1>4, <1>6, <1>7, <1>8, <1>9, <1>10, <1>11, <1>12, <1>13,
     <1>14, <1>15 DEF Next

-----------------------------------------------------------------------------
(* The invariant *)

\* A process runs one session, of its own client, and only while it exists.
HostsExclusive ==
  /\ \A s \in AllSessions : Running(s) => host[s] \in HostsOf(s) \ exited
  /\ \A s, t \in AllSessions : Running(s) /\ host[s] = host[t] => s = t

\* A session that starts is registered under the process that runs it, unless
\* that process is gone.
StartsNameTheirHost ==
  \A r \in Registrars :
    upsert[r] # Idle /\ upsert[r].starts =>
      /\ upsert[r].host # NoHost
      /\ \/ host[upsert[r].session] = upsert[r].host
         \/ upsert[r].host \in exited

RegistryInv == TypeOK /\ HostsExclusive /\ StartsNameTheirHost

\* Nothing runs and nothing is written at first.
LEMMA RegistryInit == Init => RegistryInv
BY NoCmdType DEF Init, RegistryInv, TypeOK, HostsExclusive, StartsNameTheirHost,
   Running, RowSet

\* Launch and the end of a process are the steps that change who runs where.
LEMMA ExclusiveStep == RegistryInv /\ [Next]_vars => HostsExclusive'
<1> SUFFICES ASSUME RegistryInv, [Next]_vars PROVE HostsExclusive'
  OBVIOUS
<1> USE DEF RegistryInv, HostsExclusive, Running
<1>1. ASSUME NEW s \in AllSessions, NEW h \in Hosts, Launch(s, h) PROVE HostsExclusive'
  BY <1>1 DEF Launch, TypeOK
<1>2. ASSUME NEW s \in AllSessions, Turn(s) PROVE HostsExclusive'
  BY <1>2 DEF Turn, TypeOK
<1>3. ASSUME NEW h \in Hosts, Exit(h) PROVE HostsExclusive'
  BY <1>3, RegistryConstants DEF Exit, TypeOK
<1>4. CASE UNCHANGED <<host, exited>>
  BY <1>4
<1> QED
  BY <1>1, <1>2, <1>3, <1>4 DEF Next, vars, SilentStart, SessionStart, SessionEnd,
     SilentEnd, Hook, Command, Registers, WriteUpsert, DropUpsert, Sweep,
     ReconcileEnded, Reconcile, ListClaude, ReplaceClaude, GiveUp

\* While a session starts its process stays with it, or exits.
LEMMA StartsStep ==
  ASSUME StartLookups \subseteq {TRUE}
  PROVE  RegistryInv /\ [Next]_vars => StartsNameTheirHost'
<1> SUFFICES ASSUME RegistryInv, [Next]_vars PROVE StartsNameTheirHost'
  OBVIOUS
<1> USE DEF RegistryInv, StartsNameTheirHost
<1>1. ASSUME NEW s \in AllSessions, NEW h \in Hosts, SilentStart(s, h)
      PROVE  StartsNameTheirHost'
  <2>1. host' = [host EXCEPT ![s] = h] /\ UNCHANGED <<exited, upsert>> /\ ~ Running(s)
    BY <1>1 DEF SilentStart, Launch
  <2>2. ASSUME NEW r \in Registrars, upsert[r] # Idle, upsert[r].starts,
               upsert[r].host \notin exited
        PROVE  host'[upsert[r].session] = upsert[r].host
    <3>1. /\ upsert[r] \in UpsertSet
          /\ upsert[r].host # NoHost
          /\ host[upsert[r].session] = upsert[r].host
      BY <2>2 DEF TypeOK
    <3> QED
      BY <2>1, <3>1 DEF TypeOK, UpsertSet, Running
  <2> QED
    BY <2>1, <2>2
<1>2. ASSUME NEW s \in AllSessions, NEW h \in Hosts, NEW r \in Registrars,
             NEW found \in StartLookups, SessionStart(s, h, r, found)
      PROVE  StartsNameTheirHost'
  <2>1. upsert'[r] = [session |-> s, starts |-> TRUE, host |-> h]
    BY <1>2 DEF SessionStart, TypeOK
  <2>2. \A q \in Registrars \ {r} : upsert'[q] = upsert[q]
    BY <1>2 DEF SessionStart, TypeOK
  <2>3. host' = [host EXCEPT ![s] = h] /\ exited' = exited /\ ~ Running(s)
    BY <1>2 DEF SessionStart, Launch
  <2>4. host'[s] = h /\ h # NoHost
    BY <2>3, RegistryConstants DEF TypeOK
  <2>5. ASSUME NEW q \in Registrars \ {r}, upsert[q] # Idle, upsert[q].starts,
               upsert[q].host \notin exited
        PROVE  host'[upsert[q].session] = upsert[q].host
    <3>1. /\ upsert[q] \in UpsertSet
          /\ upsert[q].host # NoHost
          /\ host[upsert[q].session] = upsert[q].host
      BY <2>5 DEF TypeOK
    <3> QED
      BY <2>3, <3>1 DEF TypeOK, UpsertSet, Running
  <2> QED
    BY <2>1, <2>2, <2>3, <2>4, <2>5
<1>3. ASSUME NEW s \in AllSessions, Turn(s) PROVE StartsNameTheirHost'
  <2>1. host' = [host EXCEPT ![s] = NoHost] /\ UNCHANGED <<exited, upsert>>
    BY <1>3 DEF Turn
  <2>2. ASSUME NEW r \in Registrars, upsert[r] # Idle, upsert[r].starts
        PROVE  upsert[r].session # s
    BY <1>3, <2>2 DEF Turn, Starting
  <2>3. ASSUME NEW r \in Registrars, upsert[r] # Idle, upsert[r].starts
        PROVE  host'[upsert[r].session] = host[upsert[r].session]
    BY <2>1, <2>2, <2>3 DEF TypeOK
  <2> QED
    BY <2>1, <2>3
<1>4. ASSUME NEW h \in Hosts, Exit(h) PROVE StartsNameTheirHost'
  <2>1. \A r \in Registrars : upsert[r] # Idle => upsert[r].session \in AllSessions
    BY DEF TypeOK, UpsertSet
  <2>2. \A s \in AllSessions : host'[s] = IF host[s] = h THEN NoHost ELSE host[s]
    BY <1>4 DEF Exit
  <2>3. exited' = exited \cup {h} /\ upsert' = upsert
    BY <1>4 DEF Exit
  <2>4. ASSUME NEW r \in Registrars, upsert[r] # Idle, upsert[r].starts
        PROVE  \/ host'[upsert[r].session] = upsert[r].host
               \/ upsert[r].host \in exited'
    BY <2>1, <2>2, <2>3, <2>4
  <2> QED
    BY <2>3, <2>4
<1>5. ASSUME NEW r \in Registrars, UNCHANGED <<host, exited>>,
             \A q \in Registrars \ {r} : upsert'[q] = upsert[q],
             upsert'[r] = Idle \/ ~ upsert'[r].starts
      PROVE  StartsNameTheirHost'
  BY <1>5
<1>6. ASSUME NEW s \in AllSessions, NEW r \in Registrars, NEW h, Registers(r, s, h)
      PROVE  StartsNameTheirHost'
  <2>1. upsert'[r] = [session |-> s, starts |-> FALSE, host |-> h]
    BY <1>6 DEF Registers, TypeOK
  <2> QED
    BY <1>5, <1>6, <2>1 DEF Registers, TypeOK
<1>7. ASSUME NEW r \in Registrars, WriteUpsert(r) \/ DropUpsert(r)
      PROVE  StartsNameTheirHost'
  BY <1>5, <1>7 DEF WriteUpsert, DropUpsert, TypeOK
<1>8. CASE UNCHANGED <<host, exited, upsert>>
  BY <1>8
<1> QED
  BY <1>1, <1>2, <1>3, <1>4, <1>6, <1>7, <1>8 DEF Next, vars, SessionEnd, SilentEnd,
     Hook, Command, Sweep, ReconcileEnded, Reconcile, ListClaude, ReplaceClaude, GiveUp

-----------------------------------------------------------------------------
(* The theorems *)

\* TypeOK holds in every reachable state.
THEOREM RegistryTypeCorrect == Spec => []TypeOK
<1>1. Init => TypeOK
  BY RegistryInit DEF RegistryInv
<1> QED
  BY <1>1, TypeStep, PTL DEF Spec

\* If SessionStart hooks identify their process, the invariant holds.
LEMMA RegistryInvariant ==
  ASSUME StartLookups \subseteq {TRUE}
  PROVE  Spec => []RegistryInv
<1>1. RegistryInv /\ [Next]_vars => RegistryInv'
  BY TypeStep, ExclusiveStep, StartsStep DEF RegistryInv
<1> QED
  BY <1>1, RegistryInit, PTL DEF Spec

\* What removes a row: its own end, a session that starts on the row's process,
\* a sweep that knows that process to be gone, and, for Claude, the inventory.
LEMMA RowsStayStep ==
  ASSUME RegistryInv, Next, NEW s \in Codex
  PROVE  ~ Lost(s)
<1> SUFFICES ASSUME RowNamesItsHost(s), ~ Registered(s)', host'[s] = host[s]
             PROVE  FALSE
  BY DEF Lost
<1>1. s \in AllSessions /\ Registered(s) /\ Running(s) /\ row[s].host = host[s]
  BY DEF RowNamesItsHost, AllSessions
<1>2. host[s] \in Hosts \ exited /\ host[s] # NoHost
  BY <1>1 DEF RegistryInv, HostsExclusive, HostsOf, Hosts, Running
<1>3. row[s] \in RowSet
  BY <1>1 DEF RegistryInv, TypeOK
<1>4. row' # row
  BY <1>1 DEF Registered
<1>5. ASSUME NEW t \in AllSessions, SessionEnd(t) PROVE FALSE
  <2>1. CASE t = s
    BY <1>1, <1>2, <1>5, <2>1 DEF SessionEnd, Turn, RegistryInv, TypeOK
  <2>2. CASE t # s
    BY <1>1, <1>5, <2>2 DEF SessionEnd, Registered, RegistryInv, TypeOK
  <2> QED
    BY <2>1, <2>2
<1>6. ASSUME NEW r \in Registrars, WriteUpsert(r) PROVE FALSE
  <2>1. upsert[r] \in UpsertSet
    BY <1>6 DEF WriteUpsert, RegistryInv, TypeOK
  <2>2. CASE upsert[r].session = s
    <3>1. row'[s] = Upserted(row[s], upsert[r].host)
      BY <1>1, <1>6, <2>2 DEF WriteUpsert
    <3> QED
      BY <1>3, <2>1, <3>1, UpsertedType DEF Registered, UpsertSet
  <2>3. CASE upsert[r].session # s
    <3>1. s \in Superseded(upsert[r])
      BY <1>1, <1>6, <2>3 DEF WriteUpsert, Registered
    <3>2. upsert[r].starts /\ upsert[r].host = host[s]
      BY <1>1, <3>1 DEF Superseded
    <3>3. host[upsert[r].session] = host[s]
      BY <1>2, <1>6, <3>2 DEF WriteUpsert, RegistryInv, StartsNameTheirHost
    <3> QED
      BY <1>1, <2>1, <2>3, <3>3 DEF RegistryInv, HostsExclusive, UpsertSet
  <2> QED
    BY <2>2, <2>3
<1>7. ASSUME NEW c \in Commands, ReconcileEnded(c) PROVE FALSE
  <2>1. PICK known \in SUBSET Dead(cmd[c].seen) : Reconcile(c, known)
    BY <1>7 DEF ReconcileEnded
  <2>2. s \in Ended(c, known)
    BY <1>1, <2>1 DEF Reconcile, Registered
  <2>3. cmd[c].seen[s].host \in exited /\ row[s] = cmd[c].seen[s]
    BY <2>1, <2>2 DEF Ended, Dead
  <2> QED
    BY <1>1, <1>2, <2>3
<1>8. ASSUME NEW c \in Commands, ReplaceClaude(c) PROVE FALSE
  <2>1. s \notin Claude /\ s \notin cmd[c].listed
    BY RegistryConstants DEF RegistryInv, TypeOK, CmdSet
  <2> QED
    BY <1>1, <1>8, <2>1 DEF ReplaceClaude, Registered
<1> QED
  BY <1>4, <1>5, <1>6, <1>7, <1>8 DEF Next, SilentStart, SessionStart, Launch,
     SilentEnd, Hook, Command, Registers, Exit, DropUpsert, Sweep, ListClaude, GiveUp

\* No sweep and no starting session removes a running Codex session from the
\* ledger, provided SessionStart hooks identify their process.
THEOREM CodexRowsAreKept ==
  ASSUME StartLookups \subseteq {TRUE}
  PROVE  Spec => CodexRowsStay
<1>1. RegistryInv /\ [Next]_vars => [\A s \in Codex : ~ Lost(s)]_vars
  BY RowsStayStep
<1> QED
  BY <1>1, RegistryInvariant, PTL DEF Spec, CodexRowsStay
=============================================================================
