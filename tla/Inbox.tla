------------------------------- MODULE Inbox -------------------------------
(***************************************************************************)
(* The inbox of one session: messages with the wall clock of their senders,*)
(* of which the latest are kept.                                           *)
(*                                                                         *)
(* Source: src/state/store_communications.rs, prune in src/state/store.rs. *)
(* Identifiers are random, so that messages of one time have no order.     *)
(***************************************************************************)
EXTENDS Integers, FiniteSets, Sequences

CONSTANTS
  Senders,
  MaxInbox,  \* MAX_INBOX_MESSAGES
  Ttl,       \* MESSAGE_TTL
  MaxSent,   \* bound on messages
  MaxTime,   \* bound on the clock
  MaxBack    \* bound on how often the clock goes back

ASSUME InboxAssumption ==
  /\ MaxInbox \in Nat \ {0} /\ {Ttl, MaxSent, MaxTime, MaxBack} \subseteq Nat

VARIABLES
  wall,      \* the wall clock
  latest,    \* the latest it ever was
  back,      \* how often it went back
  sending,   \* what each sender read from it
  sent,      \* created_at of each message ever sent
  rows,      \* those in the table
  unread,    \* those that are not acknowledged
  unnoticed  \* those that no hook has announced

inboxVars == <<wall, latest, back, sending, sent, rows, unread, unnoticed>>

-----------------------------------------------------------------------------
NotSending == -1

InboxInit ==
  /\ wall = 0 /\ latest = 0 /\ back = 0
  /\ sending = [s \in Senders |-> NotSending]
  /\ sent = <<>>
  /\ rows = {} /\ unread = {} /\ unnoticed = {}

InboxTypeOK ==
  /\ {wall, latest} \subseteq 0 .. MaxTime
  /\ back \in 0 .. MaxBack
  /\ sending \in [Senders -> {NotSending} \cup 0 .. MaxTime]
  /\ sent \in Seq(0 .. MaxTime) /\ Len(sent) <= MaxSent
  /\ rows \subseteq DOMAIN sent /\ Cardinality(rows) <= MaxInbox
  /\ unread \subseteq rows /\ unnoticed \subseteq rows

\* Mutant: one message too many is kept.
OneMore(count) == count > MaxInbox + 1

TooMany(count) == count > MaxInbox

\* Mutant: the earliest messages are kept.
Before(times, m, n) == times[m] <= times[n]

NotBefore(times, m, n) == times[m] >= times[n]

\* What is left of a table: so many messages, none of which is before another
\* that goes.
Kept(all, times) ==
  {keep \in SUBSET all :
     /\ ~TooMany(Cardinality(keep))
     /\ keep = all \/ TooMany(Cardinality(keep) + 1)
     /\ \A m \in keep, n \in all \ keep : NotBefore(times, m, n)}

\* The clock is read before the transaction.
ReadClock(s) ==
  /\ sending[s] = NotSending
  /\ sending' = [sending EXCEPT ![s] = wall]
  /\ UNCHANGED <<wall, latest, back, sent, rows, unread, unnoticed>>

\* send_message, for one recipient, and add_message for the ledger's own notes.
SendMessage(s) ==
  /\ sending[s] # NotSending /\ Len(sent) < MaxSent
  /\ sent' = Append(sent, sending[s])
  /\ \E keep \in Kept(rows \cup {Len(sent')}, sent') :
       /\ rows' = keep
       /\ unread' = (unread \cup {Len(sent')}) \cap keep
       /\ unnoticed' = (unnoticed \cup {Len(sent')}) \cap keep
  /\ sending' = [sending EXCEPT ![s] = NotSending]
  /\ UNCHANGED <<wall, latest, back>>

\* acknowledge: one message, or all that are there.
Acknowledge ==
  /\ unread # {}
  /\ \E read \in {unread} \cup {{m} : m \in unread} : unread' = unread \ read
  /\ UNCHANGED <<wall, latest, back, sending, sent, rows, unnoticed>>

\* mark_unnotified
MarkUnnotified ==
  /\ unnoticed \cap unread # {}
  /\ unnoticed' = unnoticed \ unread
  /\ UNCHANGED <<wall, latest, back, sending, sent, rows, unread>>

\* Store::prune
Prune ==
  /\ rows' = {m \in rows : sent[m] >= wall - Ttl}
  /\ unread' = unread \cap rows' /\ unnoticed' = unnoticed \cap rows'
  /\ UNCHANGED <<wall, latest, back, sending, sent>>

ClockMoves ==
  /\ \/ wall < MaxTime /\ wall' = wall + 1 /\ UNCHANGED back
     \/ back < MaxBack /\ back' = back + 1 /\ wall' \in 0 .. wall - 1
  /\ latest' = IF wall' > latest THEN wall' ELSE latest
  /\ UNCHANGED <<sending, sent, rows, unread, unnoticed>>

InboxNext ==
  \/ \E s \in Senders : ReadClock(s) \/ SendMessage(s)
  \/ Acknowledge \/ MarkUnnotified \/ Prune \/ ClockMoves

InboxSpec == InboxInit /\ [][InboxNext]_inboxVars

-----------------------------------------------------------------------------
(* Properties *)

\* A message that nobody read is gone only if it was older than the latest clock
\* allows, or if an inbox full of others at least as late came: none is lost to
\* earlier ones, whichever transaction came first (add_message, prune).
LostToLater ==
  \A m \in DOMAIN sent \ rows :
    \/ sent[m] < latest - Ttl
    \/ Cardinality({n \in DOMAIN sent \ {m} : sent[n] >= sent[m]}) >= MaxInbox
=============================================================================
