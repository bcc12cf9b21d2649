------------------------------ MODULE Watchers ------------------------------
(***************************************************************************)
(* Those who watch the ledger through its generation counter: the event    *)
(* stream of the dashboard with its snapshot cache, the page in a browser  *)
(* that shows it, and the polls of ai-coord wait.                          *)
(*                                                                         *)
(* Source: src/server/mod.rs, wait_for in src/coordinator/mod.rs,          *)
(* dashboard/src/lib/api.ts.  Most transactions bump the generation; some, *)
(* such as pruning, notification marks and triage, change rows silently.   *)
(***************************************************************************)
EXTENDS Integers

CONSTANTS
  Refresh,     \* FULL_REFRESH_SECONDS of wait, in ticks
  CacheTtl,    \* CACHE_SECONDS
  Heartbeat,   \* HEARTBEAT_SECONDS
  Modulus,     \* the generation is counted modulo this: fewer differences show
  MaxChanges,  \* bound on changes of each part of the ledger
  MaxFaults,   \* bound on broken streams, failed reads and events that do not parse
  MaxFetches   \* bound on requests of the page that are out at once

ASSUME WatchersAssumption ==
  /\ {Refresh, CacheTtl, Heartbeat} \subseteq Nat \ {0}
  /\ Modulus \in Nat \ {0, 1} /\ {MaxChanges, MaxFaults, MaxFetches} \subseteq Nat

VARIABLES
  ledger,    \* how often work and messages changed, and the generation
  cache,     \* the cached snapshot and its age
  fill,      \* a refresh of the cache, by the reader that makes it
  stream,    \* the event loop of the open stream
  event,     \* what the last event it sent showed
  fetch,     \* the requests of the page: asked, answered, the first among the asked
  page,      \* what the page shows, and whether it polls
  waiter,    \* a process in wait, and the work its last transaction saw
  watchFaults  \* faults so far

watchers == <<ledger, cache, fill, stream, event, fetch, page, waiter, watchFaults>>

-----------------------------------------------------------------------------
Parts == {"work", "messages"}
Versions == 0 .. MaxChanges
Generations == 0 .. Modulus - 1
NoGeneration == -1

Payloads == [work : Versions, messages : Versions, generation : Generations]
First == [work |-> 0, messages |-> 0, generation |-> 0]

\* What the page shows of a payload.
Pictures == [work : Versions, messages : Versions]
Picture(payload) == [work |-> payload.work, messages |-> payload.messages]

\* The event loop and the page ask for snapshots; "left" is the thread of a
\* stream that was closed while it read.
Readers == {"stream", "fetch", "left"}
NoFill == [stage |-> "none", work |-> 0, messages |-> 0]

WatchersInit ==
  /\ ledger = First
  /\ cache = [payload |-> First, age |-> CacheTtl]
  /\ fill = [r \in Readers |-> NoFill]
  /\ stream = [pc |-> "tick", last |-> NoGeneration, since |-> 0]
  /\ event = Picture(First)
  /\ fetch = [out |-> 1, asked |-> 1, first |-> TRUE, answered |-> [p \in Pictures |-> 0]]
  /\ page = [shown |-> Picture(First), polls |-> FALSE]
  /\ waiter = [pc |-> "poll", last |-> NoGeneration, since |-> Refresh, saw |-> 0]
  /\ watchFaults = 0

Streams == [pc : {"tick", "snapshot", "closed"}, last : Generations \cup {NoGeneration},
            since : 0 .. Heartbeat]
Requests == [out : Int, asked : Nat, first : BOOLEAN, answered : [Pictures -> Nat]]
Pages == [shown : Pictures, polls : BOOLEAN]
Fills == [stage : {"none", "work", "messages"}, work : Versions, messages : Versions]

WatchersTypeOK ==
  /\ ledger \in Payloads /\ event \in Pictures
  /\ cache \in [payload : Payloads, age : 0 .. CacheTtl]
  /\ fill \in [Readers -> Fills]
  /\ stream \in Streams /\ fetch \in Requests /\ page \in Pages
  /\ waiter \in [pc : {"poll", "remember"}, last : Generations \cup {NoGeneration},
                 since : 0 .. Refresh, saw : Versions]
  /\ watchFaults \in 0 .. MaxFaults

Bump(g) == (g + 1) % Modulus

\* A transaction of somebody else, with or without bump_generation; or one
\* that bumps and changes nothing that is watched here.
Change ==
  /\ \/ \E part \in Parts, g \in {ledger.generation, Bump(ledger.generation)} :
          /\ ledger[part] < MaxChanges
          /\ ledger' = [ledger EXCEPT ![part] = @ + 1, !["generation"] = g]
     \/ ledger' = [ledger EXCEPT !.generation = Bump(@)]
  /\ UNCHANGED <<cache, fill, stream, event, fetch, page, waiter, watchFaults>>

-----------------------------------------------------------------------------
(* The server *)

\* Mutant: no heartbeat.
OnlyChanges(last, generation, since) == last # generation

ShouldSend(last, generation, since) == last # generation \/ since >= Heartbeat

Poll ==
  /\ stream.pc = "tick"
  /\ ShouldSend(stream.last, ledger.generation, stream.since)
  /\ stream' = [stream EXCEPT !.pc = "snapshot"]
  /\ UNCHANGED <<ledger, cache, fill, event, fetch, page, waiter, watchFaults>>

\* SnapshotService::snapshot, whose mutex is held while the cache is refreshed:
\* work is read, then messages, then the generation.
Asks(r) ==
  \/ r = "stream" /\ stream.pc = "snapshot"
  \/ r = "fetch" /\ fetch.asked > 0

\* Mutant: the mutex is not held during the reads.
Unlocked(r) == fill[r] = NoFill

CacheFree(r) == \A q \in Readers : fill[q] = NoFill

\* The listener of the page shows an event and stops polling, unless it cannot
\* parse it: then it polls.
Shows(picture) ==
  \/ /\ page' = [page EXCEPT !.shown = picture, !.polls = FALSE]
     /\ UNCHANGED watchFaults
  \/ /\ watchFaults < MaxFaults /\ watchFaults' = watchFaults + 1
     /\ page' = [page EXCEPT !.polls = TRUE]

\* An event is sent if it is due by what it carries.
SendEvent(payload) ==
  IF ShouldSend(stream.last, payload.generation, stream.since)
  THEN /\ stream' = [pc |-> "tick", last |-> payload.generation, since |-> 0]
       /\ event' = Picture(payload)
       /\ Shows(Picture(payload))
  ELSE /\ stream' = [stream EXCEPT !.pc = "tick"]
       /\ UNCHANGED <<event, page, watchFaults>>

\* One of the requests is done with; only the failure of the first, which the
\* page makes when it subscribes, makes it poll.
Done(first, lost, answered) ==
  /\ IF first THEN fetch.first ELSE fetch.first => fetch.asked > 1
  /\ fetch' = [fetch EXCEPT !.out = @ - lost, !.asked = @ - 1, !.first = @ /\ ~first,
                           !.answered = answered]

\* The answer to a request travels to the page.
Answer(r, payload) ==
  CASE r = "stream" -> SendEvent(payload) /\ UNCHANGED fetch
    [] r = "fetch" ->
         /\ \E first \in BOOLEAN :
              Done(first, 0, [fetch.answered EXCEPT ![Picture(payload)] = @ + 1])
         /\ UNCHANGED <<stream, event, page, watchFaults>>
    [] OTHER -> UNCHANGED <<stream, event, page, fetch, watchFaults>>

Hit(r) ==
  /\ Asks(r) /\ CacheFree(r) /\ cache.age < CacheTtl
  /\ Answer(r, cache.payload)
  /\ UNCHANGED <<ledger, cache, fill, waiter>>

Miss(r) ==
  /\ Asks(r) /\ CacheFree(r) /\ cache.age >= CacheTtl
  /\ fill' = [fill EXCEPT ![r] = [NoFill EXCEPT !.stage = "work", !.work = ledger.work]]
  /\ UNCHANGED <<ledger, cache, stream, event, fetch, page, waiter, watchFaults>>

ReadMessages(r) ==
  /\ fill[r].stage = "work"
  /\ fill' = [fill EXCEPT ![r].stage = "messages", ![r].messages = ledger.messages]
  /\ UNCHANGED <<ledger, cache, stream, event, fetch, page, waiter, watchFaults>>

Refreshed(r) ==
  /\ fill[r].stage = "messages"
  /\ LET payload == [work |-> fill[r].work, messages |-> fill[r].messages,
                     generation |-> ledger.generation]
     IN /\ cache' = [payload |-> payload, age |-> 0]
        /\ Answer(r, payload)
  /\ fill' = [fill EXCEPT ![r] = NoFill]
  /\ UNCHANGED <<ledger, waiter>>

\* A read fails: the stream goes on with its next tick, the request has failed.
ReadFails(r) ==
  /\ fill[r] # NoFill
  /\ watchFaults < MaxFaults /\ watchFaults' = watchFaults + 1
  /\ fill' = [fill EXCEPT ![r] = NoFill]
  /\ CASE r = "stream" -> stream' = [stream EXCEPT !.pc = "tick"] /\ UNCHANGED <<fetch, page>>
       [] r = "fetch" ->
            /\ \E first \in BOOLEAN :
                 /\ Done(first, 1, fetch.answered)
                 /\ page' = [page EXCEPT !.polls = @ \/ first]
            /\ UNCHANGED stream
       [] OTHER -> UNCHANGED <<stream, fetch, page>>
  /\ UNCHANGED <<ledger, cache, event, waiter>>

Serve == Poll \/ \E r \in Readers : Hit(r) \/ Miss(r) \/ ReadMessages(r) \/ Refreshed(r)

-----------------------------------------------------------------------------
(* The page: subscribeToSnapshots *)

\* The answer to a request arrives when it likes, and is shown.
Arrives ==
  /\ \E picture \in Pictures :
       /\ fetch.answered[picture] > 0
       /\ fetch' = [fetch EXCEPT !.out = @ - 1, !.answered[picture] = @ - 1]
       /\ page' = [page EXCEPT !.shown = picture]
  /\ UNCHANGED <<ledger, cache, fill, stream, event, waiter, watchFaults>>

\* Every two seconds, whether or not the last poll was answered.
PollOnce ==
  /\ page.polls /\ fetch.out < MaxFetches
  /\ fetch' = [fetch EXCEPT !.out = @ + 1, !.asked = @ + 1]
  /\ UNCHANGED <<ledger, cache, fill, stream, event, page, waiter, watchFaults>>

\* The stream breaks: the page polls until another stream is open, or for good
\* if its EventSource gives up.
Breaks ==
  /\ stream.pc # "closed"
  /\ watchFaults < MaxFaults /\ watchFaults' = watchFaults + 1
  /\ \E pc \in {"tick", "closed"} : stream' = [pc |-> pc, last |-> NoGeneration, since |-> 0]
  /\ fill["left"] = NoFill
  /\ fill' = [fill EXCEPT !["left"] = fill["stream"], !["stream"] = NoFill]
  /\ page' = [page EXCEPT !.polls = TRUE]
  /\ UNCHANGED <<ledger, cache, event, fetch, waiter>>

Opens ==
  /\ page.polls /\ stream.pc # "closed"
  /\ page' = [page EXCEPT !.polls = FALSE]
  /\ UNCHANGED <<ledger, cache, fill, stream, event, fetch, waiter, watchFaults>>

-----------------------------------------------------------------------------
(* wait_for *)

\* Mutant: only a new generation makes a full check due.
DueByGeneration == waiter.last # ledger.generation

Due == waiter.last # ledger.generation \/ waiter.since >= Refresh

\* Arbitration saves the row, which bumps the generation.
Arbitrate ==
  /\ waiter.pc = "poll" /\ Due
  /\ waiter' = [waiter EXCEPT !.pc = "remember", !.saw = ledger.work]
  /\ ledger' = [ledger EXCEPT !.generation = Bump(@)]
  /\ UNCHANGED <<cache, fill, stream, event, fetch, page, watchFaults>>

\* The generation is read in a transaction of its own.
Remember ==
  /\ waiter.pc = "remember"
  /\ waiter' = [waiter EXCEPT !.pc = "poll", !.last = ledger.generation, !.since = 0]
  /\ UNCHANGED <<ledger, cache, fill, stream, event, fetch, page, watchFaults>>

-----------------------------------------------------------------------------
Aged(age, limit) == IF age < limit THEN age + 1 ELSE age

Passes ==
  /\ cache' = [cache EXCEPT !.age = Aged(@, CacheTtl)]
  /\ stream' = [stream EXCEPT !.since = Aged(@, Heartbeat)]
  /\ waiter' = [waiter EXCEPT !.since = Aged(@, Refresh)]
  /\ UNCHANGED <<ledger, fill, event, fetch, page, watchFaults>>

WatchersNext ==
  \/ Change \/ Serve \/ Arrives \/ PollOnce \/ Breaks \/ Opens
  \/ Arbitrate \/ Remember \/ Passes
  \/ \E r \in Readers : ReadFails(r)

\* The server, the waiter and the polls of the page go on, requests are answered
\* in the end, and time passes.  The ledger need not change.
WatchersFair ==
  /\ WF_watchers(Serve) /\ WF_watchers(Arrives) /\ WF_watchers(PollOnce)
  /\ WF_watchers(Arbitrate) /\ WF_watchers(Remember) /\ WF_watchers(Passes)

WatchersSpec == WatchersInit /\ [][WatchersNext]_watchers /\ WatchersFair

-----------------------------------------------------------------------------
(* Properties *)

\* The page shows the ledger as it is in the end, once changes cease, whether
\* or not they bumped the generation, were read before or after the label they
\* got, or were overtaken by a late answer (events, should_send).
PageCatchesUp ==
  <>[](\A part \in Parts : page.shown[part] = ledger[part])

EventKeepsUp == \A part \in Parts : event'[part] >= event[part]

\* Events never go back: what one of them shows is in each part at least as new
\* as what any earlier one showed, although requests refresh and use the same
\* cache (SnapshotService::snapshot).
EventsGoForward == [][EventKeepsUp]_watchers

\* A waiter arbitrates with the work as it is in the end, although it reads the
\* generation it remembers after its transaction, and so may miss the change in
\* between (wait_for).
WaiterCatchesUp == <>[](waiter.saw = ledger.work)
=============================================================================
