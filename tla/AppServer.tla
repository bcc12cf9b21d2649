----------------------------- MODULE AppServer -----------------------------
(***************************************************************************)
(* One connection of ai-coord to codex app-server: requests and answers as *)
(* lines, a thread that reads what the server writes, a short queue, and a *)
(* deadline for each request.  The server is external: it answers when it  *)
(* likes, writes notifications as it likes, and may die or hang.           *)
(*                                                                         *)
(* Source: src/hooks/trust.rs.                                             *)
(***************************************************************************)
EXTENDS Integers, Sequences

CONSTANTS
  MaxRequests, \* requests of one connection: initialize, hooks/list, ...
  MaxQueued,   \* MAX_QUEUED_LINES
  Timeout,     \* CODEX_TIMEOUT
  MaxPipe,     \* lines that the pipe holds
  Numbers      \* lines are numbered modulo this

ASSUME AppServerAssumption ==
  /\ {MaxRequests, MaxQueued, Timeout, MaxPipe} \subseteq Nat \ {0}
  /\ Numbers \in Nat /\ Numbers > MaxQueued + MaxPipe + 1

VARIABLES
  server,  \* whether it lives, the number of its next line, and the open request
  pipe,    \* its standard output
  reader,  \* whether the reader thread runs
  queue,   \* the bounded channel
  client   \* the process in request, or dropping the connection

serverVars == <<server, pipe, reader, queue, client>>

-----------------------------------------------------------------------------
\* The id is that of the request it answers; 0 is a notification.
Lines == [n : 0 .. Numbers - 1, id : 0 .. MaxRequests]

NextNumber(n) == (n + 1) % Numbers

AppServerTypeOK ==
  /\ server \in [alive : BOOLEAN, next : 0 .. Numbers - 1, asked : 0 .. MaxRequests]
  /\ pipe \in Seq(Lines) /\ Len(pipe) <= MaxPipe
  /\ reader \in {"runs", "ended"}
  /\ queue \in Seq(Lines) /\ Len(queue) <= MaxQueued
  /\ client \in [pc : {"request", "wait", "drop", "kill", "join", "ended"}, id : 1 .. MaxRequests,
                 left : 0 .. Timeout, expects : 0 .. Numbers - 1]

AppServerInit ==
  /\ server = [alive |-> TRUE, next |-> 0, asked |-> 0]
  /\ pipe = <<>>
  /\ reader = "runs"
  /\ queue = <<>>
  /\ client = [pc |-> "request", id |-> 1, left |-> 0, expects |-> 0]

-----------------------------------------------------------------------------
(* The server, external *)

WriteLine(id) ==
  /\ server.alive /\ Len(pipe) < MaxPipe
  /\ pipe' = Append(pipe, [n |-> server.next, id |-> id])
  /\ server' = [server EXCEPT !.next = NextNumber(@), !.asked = IF id = 0 THEN @ ELSE 0]
  /\ UNCHANGED <<reader, queue, client>>

\* Without standard input it may end, or hang until it is killed.
ServerDies ==
  /\ server.alive
  /\ server' = [server EXCEPT !.alive = FALSE]
  /\ UNCHANGED <<pipe, reader, queue, client>>

ServerActs == WriteLine(0) \/ (server.asked # 0 /\ WriteLine(server.asked)) \/ ServerDies

-----------------------------------------------------------------------------
(* pump_stdout *)

\* Mutant: a line that finds the queue full is left out.
Skips(line) == reader' = "runs" /\ queue' = queue

\* try_send fails: the thread ends, which the client sees once the queue is empty.
Overflows(line) == reader' = "ended" /\ queue' = queue

Pump ==
  /\ reader = "runs" /\ pipe # <<>>
  /\ pipe' = Tail(pipe)
  /\ \/ Len(queue) < MaxQueued /\ queue' = Append(queue, Head(pipe)) /\ reader' = "runs"
     \/ Len(queue) >= MaxQueued /\ Overflows(Head(pipe))
     \/ reader' = "ended" /\ queue' = queue     \* longer than MAX_JSONL_BYTES
  /\ UNCHANGED <<server, client>>

PumpEof ==
  /\ reader = "runs" /\ pipe = <<>> /\ ~server.alive
  /\ reader' = "ended"
  /\ UNCHANGED <<server, pipe, queue, client>>

-----------------------------------------------------------------------------
(* JsonlAppServer::request *)

Request ==
  /\ client.pc = "request"
  /\ client' = IF server.alive THEN [client EXCEPT !.pc = "wait", !.left = Timeout]
                               ELSE [client EXCEPT !.pc = "drop"]
  /\ server' = IF server.alive THEN [server EXCEPT !.asked = client.id] ELSE server
  /\ UNCHANGED <<pipe, reader, queue>>

\* Mutant: the deadline is that of the last line.
Renewed(left) == Timeout

Remaining(left) == left

\* Lines that answer another request, or none, are passed over.  A malformed line
\* ends the connection, whatever it would answer; so does an error that answers
\* the request, unless the caller goes on with another, as after a conflict.
AfterLine(id) ==
  {"drop"} \cup (IF id # client.id THEN {"wait"}
                 ELSE IF id < MaxRequests THEN {"request"} ELSE {})

ReadLine ==
  /\ client.pc = "wait" /\ client.left > 0 /\ queue # <<>>
  /\ queue' = Tail(queue)
  /\ \E pc \in AfterLine(Head(queue).id) :
       client' = [client EXCEPT
         !.expects = NextNumber(Head(queue).n),
         !.left = Remaining(@),
         !.pc = pc,
         !.id = IF pc = "request" THEN @ + 1 ELSE @]
  /\ UNCHANGED <<server, pipe, reader>>

\* The end of the output, or the deadline.
RequestEnds ==
  /\ client.pc = "wait"
  /\ client.left = 0 \/ (queue = <<>> /\ reader = "ended")
  /\ client' = [client EXCEPT !.pc = "drop"]
  /\ UNCHANGED <<server, pipe, reader, queue>>

\* Drop: standard input is closed and the server waited for, then killed.
Drop ==
  /\ client.pc = "drop"
  /\ client' = [client EXCEPT !.pc = "kill", !.left = Timeout]
  /\ UNCHANGED <<server, pipe, reader, queue>>

Kill ==
  /\ client.pc = "kill" /\ (client.left = 0 \/ ~server.alive)
  /\ server' = [server EXCEPT !.alive = FALSE]
  /\ client' = [client EXCEPT !.pc = "join"]
  /\ UNCHANGED <<pipe, reader, queue>>

Join ==
  /\ client.pc = "join" /\ reader = "ended"
  /\ client' = [client EXCEPT !.pc = "ended"]
  /\ UNCHANGED <<server, pipe, reader, queue>>

ClockTicks ==
  /\ client.pc \in {"wait", "kill"} /\ client.left > 0
  /\ client' = [client EXCEPT !.left = @ - 1]
  /\ UNCHANGED <<server, pipe, reader, queue>>

ClientActs == Request \/ ReadLine \/ RequestEnds \/ Drop \/ Kill \/ Join

AppServerNext == ServerActs \/ Pump \/ PumpEof \/ ClientActs \/ ClockTicks

\* The threads of ai-coord run and time passes; the server need do nothing.
AppServerFair ==
  /\ WF_serverVars(Pump) /\ WF_serverVars(PumpEof)
  /\ WF_serverVars(ClientActs) /\ WF_serverVars(ClockTicks)

AppServerSpec == AppServerInit /\ [][AppServerNext]_serverVars /\ AppServerFair

-----------------------------------------------------------------------------
(* Properties *)

\* The client reads what the server wrote without a gap: a flood of lines ends
\* the connection, and loses no answer from the middle of it (pump_stdout).
NoGap ==
  \A i \in DOMAIN queue : queue[i].n = (client.expects + i - 1) % Numbers

\* However the server behaves, the connection ends: with all answers, with an
\* error, at the end of the output, or at a deadline that no notification renews (request, drop).
ConnectionEnds == <>(client.pc = "ended")
=============================================================================
