----------------------------- MODULE HostProofs -----------------------------
(***************************************************************************)
(* The parts of a host that share no state with each other, each for any   *)
(* values of its constants: those who watch the generation, the hooks of a *)
(* session, the connection to codex app-server, the inbox, the settling of *)
(* dirt, and the link of the hooks; and that the instance which is checked *)
(* in one run is made of steps of these parts.                             *)
(***************************************************************************)
EXTENDS MCHost, FiniteSetTheorems, SequenceTheorems, TLAPS

-----------------------------------------------------------------------------
(* Watchers.  Each part of the ledger only grows; the cache was read from   *)
(* the ledger, the events from the cache, and one reader at a time refills  *)
(* it, so that no payload of an older read is written over a newer one.     *)

Reading(r) == fill[r] # NoFill

WatchersInv ==
  /\ WatchersTypeOK
  /\ \A q, r \in Readers : Reading(q) /\ Reading(r) => q = r
  /\ Reading("fetch") => fetch.asked > 0
  /\ \A p \in Parts :
       /\ event[p] <= cache.payload[p]
       /\ cache.payload[p] <= ledger[p]
  /\ \A r \in Readers :
       /\ fill[r].stage = "none" => ~Reading(r)
       /\ fill[r].stage # "none" =>
            cache.payload.work <= fill[r].work /\ fill[r].work <= ledger.work
       /\ fill[r].stage = "messages" =>
            cache.payload.messages <= fill[r].messages /\ fill[r].messages <= ledger.messages

LEMMA WatchersConstants ==
  /\ Refresh \in Nat /\ CacheTtl \in Nat /\ Heartbeat \in Nat
  /\ MaxChanges \in Nat /\ MaxFaults \in Nat /\ Modulus \in Nat /\ Modulus > 1
BY WatchersAssumption

LEMMA WatchersStart == WatchersInit => WatchersInv
  BY WatchersConstants
  DEF WatchersInit, WatchersInv, WatchersTypeOK, Payloads, First, Versions, Generations,
      Fills, NoFill, Readers, Reading, Parts, NoGeneration, Picture, Pictures, Streams,
      Requests, Pages

LEMMA BumpIsAGeneration ==
  ASSUME NEW g \in Generations
  PROVE  Bump(g) \in Generations
BY WatchersConstants DEF Generations, Bump

LEMMA AgedStaysBelow ==
  ASSUME NEW limit \in Nat, NEW age \in 0 .. limit
  PROVE  Aged(age, limit) \in 0 .. limit
BY DEF Aged

LEMMA PayloadFacts ==
  /\ First \in Payloads
  /\ \A payload \in Payloads :
       /\ payload.generation \in Generations
       /\ payload.work \in Versions /\ payload.messages \in Versions
       /\ \A p \in Parts : payload[p] \in Nat
BY WatchersConstants DEF First, Payloads, Versions, Generations, Parts

LEMMA PartGrows ==
  ASSUME NEW old \in Payloads, NEW p \in Parts, NEW g \in Generations, old[p] < MaxChanges,
         NEW new, new = [old EXCEPT ![p] = @ + 1, !["generation"] = g]
  PROVE  new \in Payloads /\ \A q \in Parts : old[q] <= new[q]
<1>1. old.work \in Versions /\ old.messages \in Versions
  BY PayloadFacts
<1>2. CASE p = "work"
  <2>1. /\ new = [work |-> old.work + 1, messages |-> old.messages, generation |-> g]
        /\ old.work < MaxChanges
    BY <1>2 DEF Payloads
  <2>2. old.work + 1 \in Versions
    BY <1>1, <2>1, WatchersConstants DEF Versions
  <2>3. new \in Payloads
    BY <1>1, <2>1, <2>2 DEF Payloads
  <2>4. new.work = old.work + 1 /\ new.messages = old.messages
    BY <2>1
  <2> QED
    BY <1>1, <2>3, <2>4 DEF Parts, Versions
<1>3. CASE p = "messages"
  <2>1. /\ new = [work |-> old.work, messages |-> old.messages + 1, generation |-> g]
        /\ old.messages < MaxChanges
    BY <1>3 DEF Payloads
  <2>2. old.messages + 1 \in Versions
    BY <1>1, <2>1, WatchersConstants DEF Versions
  <2>3. new \in Payloads
    BY <1>1, <2>1, <2>2 DEF Payloads
  <2>4. new.work = old.work /\ new.messages = old.messages + 1
    BY <2>1
  <2> QED
    BY <1>1, <2>3, <2>4 DEF Parts, Versions
<1> QED
  BY <1>2, <1>3 DEF Parts

LEMMA ChangeKeeps ==
  ASSUME WatchersInv, Change
  PROVE  WatchersInv'
<1> USE DEF WatchersInv, WatchersTypeOK
<1>1. ledger' \in Payloads /\ \A p \in Parts : ledger[p] <= ledger'[p]
  <2>1. ASSUME NEW p \in Parts, NEW g \in {ledger.generation, Bump(ledger.generation)},
               ledger[p] < MaxChanges, ledger' = [ledger EXCEPT ![p] = @ + 1, !["generation"] = g]
        PROVE  ledger' \in Payloads /\ \A q \in Parts : ledger[q] <= ledger'[q]
    <3>1. g \in Generations
      <4>1. ledger.generation \in Generations
        BY PayloadFacts
      <4> QED
        BY <2>1, <4>1, BumpIsAGeneration
    <3> QED
      BY <2>1, <3>1, PartGrows
  <2>2. CASE ledger' = [ledger EXCEPT !.generation = Bump(@)]
    BY <2>2, BumpIsAGeneration DEF Payloads, Parts, Versions
  <2> QED
    BY <2>1, <2>2 DEF Change
<1>2. UNCHANGED <<cache, fill, stream, event, fetch, page, waiter, watchFaults>>
  BY DEF Change
<1>3. \A p \in Parts : {ledger[p], ledger'[p], cache.payload[p]} \subseteq Nat
  BY <1>1 DEF Payloads, Parts, Versions
<1>4. \A r \in Readers : fill[r].work \in Nat /\ fill[r].messages \in Nat
  BY DEF Fills, Versions
<1> QED
  BY <1>1, <1>2, <1>3, <1>4 DEF Parts, Reading

LEMMA PollKeeps ==
  ASSUME WatchersInv, Poll
  PROVE  WatchersInv'
BY DEF WatchersInv, WatchersTypeOK, Poll, Reading, Streams

LEMMA PictureFacts ==
  ASSUME NEW payload \in Payloads
  PROVE  /\ Picture(payload) \in Pictures
         /\ \A p \in Parts : Picture(payload)[p] = payload[p]
BY PayloadFacts DEF Picture, Pictures, Parts

\* A request that is done with was one of those that were asked.
LEMMA DoneTypes ==
  ASSUME WatchersInv, fetch.asked > 0, NEW first \in BOOLEAN, NEW lost \in {0, 1},
         NEW answered \in [Pictures -> Nat], Done(first, lost, answered)
  PROVE  fetch' \in Requests
<1>1. /\ fetch.out - lost \in Int /\ fetch.asked - 1 \in Nat
      /\ (fetch.first /\ ~first) \in BOOLEAN
  BY DEF WatchersInv, WatchersTypeOK, Requests
<1>2. fetch' = [out |-> fetch.out - lost, asked |-> fetch.asked - 1, first |-> fetch.first /\ ~first,
                answered |-> answered]
  BY DEF Done, WatchersInv, WatchersTypeOK, Requests
<1> QED
  BY <1>1, <1>2 DEF Requests

LEMMA AnswerTypes ==
  ASSUME WatchersInv, NEW r \in Readers, NEW payload \in Payloads, Answer(r, payload),
         r = "fetch" => fetch.asked > 0
  PROVE  /\ stream' \in Streams
         /\ event' \in {event, Picture(payload)}
         /\ page' \in Pages
         /\ fetch' \in Requests
         /\ watchFaults' \in 0 .. MaxFaults
<1> USE DEF WatchersInv, WatchersTypeOK
<1>1. payload.generation \in Generations /\ Picture(payload) \in Pictures
  BY PayloadFacts, PictureFacts
<1>2. CASE r = "stream"
  <2>1. CASE ShouldSend(stream.last, payload.generation, stream.since)
    <3>1. /\ stream' = [pc |-> "tick", last |-> payload.generation, since |-> 0]
          /\ event' = Picture(payload)
          /\ Shows(Picture(payload))
          /\ fetch' = fetch
      BY <1>2, <2>1 DEF Answer, SendEvent
    <3>2. stream' \in Streams
      BY <1>1, <3>1, WatchersConstants DEF Streams
    <3>3. page' \in Pages
      BY <1>1, <3>1 DEF Shows, Pages
    <3>4. watchFaults' \in 0 .. MaxFaults
      BY <3>1, WatchersConstants DEF Shows
    <3> QED
      BY <3>1, <3>2, <3>3, <3>4
  <2>2. CASE ~ShouldSend(stream.last, payload.generation, stream.since)
    <3>1. /\ stream' = [stream EXCEPT !.pc = "tick"]
          /\ UNCHANGED <<event, page, fetch, watchFaults>>
      BY <1>2, <2>2 DEF Answer, SendEvent
    <3> QED
      BY <3>1 DEF Streams
  <2> QED
    BY <2>1, <2>2
<1>3. CASE r = "fetch"
  <2>1. UNCHANGED <<stream, event, page, watchFaults>>
    BY <1>3 DEF Answer
  <2> DEFINE answered == [fetch.answered EXCEPT ![Picture(payload)] = @ + 1]
  <2>2. PICK first \in BOOLEAN : Done(first, 0, answered)
    BY <1>3 DEF Answer
  <2>3. answered \in [Pictures -> Nat]
    BY <1>1 DEF Requests
  <2>4. fetch.asked > 0
    BY <1>3
  <2> HIDE DEF answered
  <2>5. fetch' \in Requests
    BY <2>2, <2>3, <2>4, DoneTypes
  <2> QED
    BY <2>1, <2>5
<1>4. CASE r = "left"
  BY <1>4 DEF Answer
<1> QED
  BY <1>2, <1>3, <1>4 DEF Readers

LEMMA HitKeeps ==
  ASSUME WatchersInv, NEW r \in Readers, Hit(r)
  PROVE  WatchersInv'
<1> USE DEF WatchersInv, WatchersTypeOK
<1>1. /\ Answer(r, cache.payload) /\ CacheFree(r)
      /\ UNCHANGED <<ledger, cache, fill, waiter>>
      /\ r = "fetch" => fetch.asked > 0
  BY DEF Hit, Asks
<1>2. /\ stream' \in Streams /\ page' \in Pages /\ fetch' \in Requests
      /\ watchFaults' \in 0 .. MaxFaults
      /\ event' \in {event, Picture(cache.payload)}
  BY <1>1, AnswerTypes
<1>3. /\ event' \in Pictures
      /\ \A p \in Parts : event'[p] <= cache.payload[p]
  <2>1. CASE event' = event
    BY <2>1
  <2>2. CASE event' = Picture(cache.payload)
    BY <2>2, PictureFacts, PayloadFacts DEF Parts
  <2> QED
    BY <1>2, <2>1, <2>2
<1>4. ~Reading("fetch") /\ fill' = fill
  BY <1>1 DEF CacheFree, Reading, Readers
<1> QED
  BY <1>1, <1>2, <1>3, <1>4 DEF Reading

LEMMA MissKeeps ==
  ASSUME WatchersInv, NEW r \in Readers, Miss(r)
  PROVE  WatchersInv'
<1> USE DEF WatchersInv, WatchersTypeOK
<1>1. /\ fill' = [fill EXCEPT ![r] = [NoFill EXCEPT !.stage = "work", !.work = ledger.work]]
      /\ \A q \in Readers : fill[q] = NoFill
      /\ UNCHANGED <<ledger, cache, stream, event, fetch, page, waiter, watchFaults>>
      /\ r = "fetch" => fetch.asked > 0
  BY DEF Miss, CacheFree, Asks
<1>2. ledger.work \in Versions /\ cache.payload.work <= ledger.work
  BY DEF Payloads, Parts
<1>3. fill'[r] = [stage |-> "work", work |-> ledger.work, messages |-> 0]
      /\ \A q \in Readers \ {r} : fill'[q] = NoFill
  BY <1>1 DEF NoFill
<1>4. fill' \in [Readers -> Fills]
  BY <1>1, <1>2, <1>3, WatchersConstants DEF Fills, NoFill, Versions
<1>5. ledger.work <= ledger.work
  BY <1>2 DEF Versions
<1> QED
  BY <1>1, <1>2, <1>3, <1>4, <1>5 DEF Reading, NoFill

LEMMA ReadMessagesKeeps ==
  ASSUME WatchersInv, NEW r \in Readers, ReadMessages(r)
  PROVE  WatchersInv'
<1> USE DEF WatchersInv, WatchersTypeOK
<1>1. /\ fill[r].stage = "work"
      /\ fill' = [fill EXCEPT ![r] = [@ EXCEPT !.stage = "messages", !.messages = ledger.messages]]
      /\ UNCHANGED <<ledger, cache, stream, event, fetch, page, waiter, watchFaults>>
  BY DEF ReadMessages
<1>2. ledger.messages \in Versions /\ cache.payload.messages <= ledger.messages
      /\ ledger.messages <= ledger.messages
  BY DEF Payloads, Parts, Versions
<1>3. fill'[r] = [stage |-> "messages", work |-> fill[r].work, messages |-> ledger.messages]
      /\ \A q \in Readers \ {r} : fill'[q] = fill[q]
  BY <1>1 DEF Fills
<1>4. fill' \in [Readers -> Fills]
  BY <1>1, <1>2, <1>3 DEF Fills
<1>5. Reading(r)
  BY <1>1 DEF Reading, NoFill
<1> QED
  BY <1>1, <1>2, <1>3, <1>4, <1>5 DEF Reading, NoFill

LEMMA RefreshedKeeps ==
  ASSUME WatchersInv, NEW r \in Readers, Refreshed(r)
  PROVE  /\ WatchersInv'
         /\ EventKeepsUp
<1> USE DEF WatchersInv, WatchersTypeOK
<1> DEFINE payload == [work |-> fill[r].work, messages |-> fill[r].messages,
                       generation |-> ledger.generation]
<1>1. /\ fill[r].stage = "messages"
      /\ cache' = [payload |-> payload, age |-> 0]
      /\ Answer(r, payload)
      /\ fill' = [fill EXCEPT ![r] = NoFill]
      /\ UNCHANGED <<ledger, waiter>>
  BY DEF Refreshed
<1>2. payload \in Payloads
  BY DEF Payloads, Fills
<1>11. /\ stream' \in Streams /\ page' \in Pages /\ fetch' \in Requests
       /\ watchFaults' \in 0 .. MaxFaults
       /\ event' \in {event, Picture(payload)}
  <2>1. r = "fetch" => fetch.asked > 0
    BY <1>1 DEF Reading, NoFill
  <2> HIDE DEF payload
  <2> QED
    BY <1>1, <1>2, <2>1, AnswerTypes
<1>3. \A p \in Parts : cache.payload[p] <= payload[p] /\ payload[p] <= ledger[p]
  BY <1>1 DEF Parts
<1>4. fill' \in [Readers -> Fills] /\ \A q \in Readers : fill'[q] = NoFill
  <2>1. \A q \in Readers \ {r} : fill[q] = NoFill
    BY <1>1 DEF Reading, NoFill
  <2>2. NoFill \in Fills
    BY WatchersConstants DEF Fills, NoFill, Versions
  <2> QED
    BY <1>1, <2>1, <2>2
<1>5. event' \in Pictures /\ \A p \in Parts : event[p] <= event'[p] /\ event'[p] <= payload[p]
  <2> HIDE DEF payload
  <2>1. Picture(payload) \in Pictures /\ \A p \in Parts : Picture(payload)[p] = payload[p]
    BY <1>2, PictureFacts
  <2>2. \A p \in Parts : {event[p], cache.payload[p], payload[p]} \subseteq Nat
    BY <1>2 DEF Parts, Payloads, Pictures, Versions
  <2> QED
    BY <1>3, <1>11, <2>1, <2>2
<1>6. cache' \in [payload : Payloads, age : 0 .. CacheTtl] /\ cache'.payload = payload
  BY <1>1, <1>2, WatchersConstants
<1>7. \A q \in Readers : fill'[q].stage = "none" /\ ~Reading(q)'
  BY <1>4 DEF Reading, NoFill
<1>8. \A p \in Parts : event'[p] <= cache'.payload[p] /\ cache'.payload[p] <= ledger'[p]
  BY <1>1, <1>3, <1>5, <1>6
<1>9. WatchersTypeOK'
  <2> HIDE DEF payload
  <2> QED
    BY <1>1, <1>4, <1>5, <1>6, <1>11
<1>10. \A p \in Parts : event'[p] >= event[p]
  BY <1>5 DEF Pictures, Parts, Versions
<1> HIDE DEF WatchersTypeOK
<1> QED
  BY <1>7, <1>8, <1>9, <1>10 DEF EventKeepsUp, Readers

LEMMA ReadFailsKeeps ==
  ASSUME WatchersInv, NEW r \in Readers, ReadFails(r)
  PROVE  WatchersInv'
<1> USE DEF WatchersInv, WatchersTypeOK
<1>1. /\ fill' = [fill EXCEPT ![r] = NoFill]
      /\ watchFaults < MaxFaults /\ watchFaults' = watchFaults + 1
      /\ UNCHANGED <<ledger, cache, event, waiter>>
  BY DEF ReadFails
<1>2. fill'[r] = NoFill /\ (\A q \in Readers \ {r} : fill'[q] = fill[q]) /\ fill' \in [Readers -> Fills]
  BY <1>1, WatchersConstants DEF Fills, NoFill, Versions
<1>3. stream' \in Streams /\ fetch' \in Requests /\ page' \in Pages
  <2>1. CASE r = "stream"
    BY <2>1 DEF ReadFails, Streams
  <2>2. CASE r = "fetch"
    <3>1. fetch.asked > 0 /\ fetch.answered \in [Pictures -> Nat] /\ UNCHANGED stream
      BY <2>2 DEF ReadFails, Reading, Requests
    <3>2. PICK first \in BOOLEAN : /\ Done(first, 1, fetch.answered)
                                   /\ page' = [page EXCEPT !.polls = @ \/ first]
      BY <2>2 DEF ReadFails
    <3>3. fetch' \in Requests
      BY <3>1, <3>2, DoneTypes
    <3>4. page' \in Pages
      <4>1. (page.polls \/ first) \in BOOLEAN
        OBVIOUS
      <4> QED
        BY <3>2, <4>1 DEF Pages
    <3> QED
      BY <3>1, <3>3, <3>4
  <2>3. CASE r = "left"
    BY <2>3 DEF ReadFails
  <2> QED
    BY <2>1, <2>2, <2>3 DEF Readers
<1>4. watchFaults' \in 0 .. MaxFaults
  BY <1>1, WatchersConstants
<1>5. Reading("fetch")' => fetch'.asked > 0
  <2>1. CASE r = "fetch"
    BY <1>2, <2>1 DEF Reading
  <2>2. CASE r # "fetch"
    <3>1. fill'["fetch"] = fill["fetch"]
      BY <1>2, <2>2 DEF Readers
    <3>2. fetch' = fetch
      BY <2>2 DEF ReadFails, Readers
    <3> QED
      BY <3>1, <3>2 DEF Reading
  <2> QED
    BY <2>1, <2>2
<1> QED
  BY <1>1, <1>2, <1>3, <1>4, <1>5 DEF Reading, NoFill

LEMMA BreaksKeeps ==
  ASSUME WatchersInv, Breaks
  PROVE  WatchersInv'
<1> USE DEF WatchersInv, WatchersTypeOK
<1>1. /\ fill' = [fill EXCEPT !["left"] = fill["stream"], !["stream"] = NoFill]
      /\ fill["left"] = NoFill
      /\ watchFaults < MaxFaults /\ watchFaults' = watchFaults + 1
      /\ UNCHANGED <<ledger, cache, event, fetch, waiter>>
  BY DEF Breaks
<1>2. /\ fill'["left"] = fill["stream"] /\ fill'["stream"] = NoFill /\ fill'["fetch"] = fill["fetch"]
      /\ fill' \in [Readers -> Fills]
  BY <1>1, WatchersConstants DEF Fills, NoFill, Versions, Readers
<1>3. stream' \in Streams /\ page' \in Pages
  <2>1. PICK pc \in {"tick", "closed"} : stream' = [pc |-> pc, last |-> NoGeneration, since |-> 0]
    BY DEF Breaks
  <2>2. stream' \in Streams
    BY <2>1, WatchersConstants DEF Streams
  <2>3. page' \in Pages
    BY DEF Breaks, Pages
  <2> QED
    BY <2>2, <2>3
<1>4. watchFaults' \in 0 .. MaxFaults
  BY <1>1, WatchersConstants
<1>5. \A r \in Readers : r \in {"left", "stream", "fetch"}
  BY DEF Readers
<1>6. {"left", "stream", "fetch"} \subseteq Readers
  BY DEF Readers
<1> QED
  BY <1>1, <1>2, <1>3, <1>4, <1>5, <1>6 DEF Reading, NoFill

LEMMA PageKeeps ==
  ASSUME WatchersInv, Arrives \/ PollOnce \/ Opens
  PROVE  WatchersInv'
<1> USE DEF WatchersInv, WatchersTypeOK
<1>1. UNCHANGED <<ledger, cache, fill, stream, event, waiter, watchFaults>>
  BY DEF Arrives, PollOnce, Opens
<1>2. /\ fetch' \in Requests /\ page' \in Pages
      /\ fetch'.asked >= fetch.asked
  <2>1. CASE Arrives
    <3>1. PICK picture \in Pictures :
            /\ fetch.answered[picture] > 0
            /\ fetch' = [fetch EXCEPT !.out = @ - 1, !.answered[picture] = @ - 1]
            /\ page' = [page EXCEPT !.shown = picture]
      BY <2>1 DEF Arrives
    <3>2. fetch.answered[picture] - 1 \in Nat /\ fetch.out - 1 \in Int
      BY <3>1 DEF Requests
    <3>3. fetch' = [out |-> fetch.out - 1, asked |-> fetch.asked, first |-> fetch.first,
                    answered |-> [fetch.answered EXCEPT ![picture] = fetch.answered[picture] - 1]]
      BY <3>1 DEF Requests
    <3>4. [fetch.answered EXCEPT ![picture] = fetch.answered[picture] - 1] \in [Pictures -> Nat]
      BY <3>2 DEF Requests
    <3>5. fetch' \in Requests
      BY <3>2, <3>3, <3>4 DEF Requests
    <3>6. fetch'.asked = fetch.asked /\ fetch.asked \in Nat
      BY <3>3 DEF Requests
    <3> QED
      BY <3>1, <3>5, <3>6 DEF Pages
  <2>2. CASE PollOnce
    <3>1. fetch' = [out |-> fetch.out + 1, asked |-> fetch.asked + 1, first |-> fetch.first,
                    answered |-> fetch.answered] /\ page' = page
      BY <2>2 DEF PollOnce, Requests
    <3> QED
      BY <3>1 DEF Requests
  <2>3. CASE Opens
    <3>1. fetch' = fetch /\ page' = [page EXCEPT !.polls = FALSE]
      BY <2>3 DEF Opens
    <3>2. fetch.asked \in Nat
      BY DEF Requests
    <3>3. page' \in Pages
      BY <3>1 DEF Pages
    <3> QED
      BY <3>1, <3>2, <3>3
  <2> QED
    BY <2>1, <2>2, <2>3
<1>3. Reading("fetch")' => fetch'.asked > 0
  BY <1>1, <1>2 DEF Reading, Requests
<1> QED
  BY <1>1, <1>2, <1>3 DEF Reading

LEMMA WaiterKeeps ==
  ASSUME WatchersInv, Arbitrate \/ Remember
  PROVE  WatchersInv'
<1> USE DEF WatchersInv, WatchersTypeOK
<1>1. /\ UNCHANGED <<cache, fill, stream, event, fetch, page, watchFaults>>
      /\ ledger' \in Payloads
      /\ ledger'.work = ledger.work /\ ledger'.messages = ledger.messages
  BY BumpIsAGeneration DEF Arbitrate, Remember, Payloads
<1>2. waiter' \in [pc : {"poll", "remember"}, last : Generations \cup {NoGeneration},
                   since : 0 .. Refresh, saw : Versions]
  <2>1. CASE Arbitrate
    BY <2>1, PayloadFacts DEF Arbitrate
  <2>2. CASE Remember
    <3>1. ledger.generation \in Generations /\ 0 \in 0 .. Refresh
      BY PayloadFacts, WatchersConstants
    <3>2. waiter' = [waiter EXCEPT !.pc = "poll", !.last = ledger.generation, !.since = 0]
      BY <2>2 DEF Remember
    <3> QED
      BY <3>1, <3>2
  <2> QED
    BY <2>1, <2>2
<1> QED
  BY <1>1, <1>2 DEF Reading, Parts

LEMMA PassesKeeps ==
  ASSUME WatchersInv, Passes
  PROVE  WatchersInv'
<1> USE DEF WatchersInv, WatchersTypeOK
<1>1. UNCHANGED <<ledger, fill, event, fetch, page, watchFaults>>
  BY DEF Passes
<1>2. cache' \in [payload : Payloads, age : 0 .. CacheTtl] /\ cache'.payload = cache.payload
  BY AgedStaysBelow, WatchersConstants DEF Passes
<1>3. stream' \in Streams
  <2>1. stream.since \in 0 .. Heartbeat
    BY DEF Streams
  <2>2. Aged(stream.since, Heartbeat) \in 0 .. Heartbeat
    BY <2>1, AgedStaysBelow, WatchersConstants
  <2> QED
    BY <2>2 DEF Passes, Streams
<1>4. waiter' \in [pc : {"poll", "remember"}, last : Generations \cup {NoGeneration},
                   since : 0 .. Refresh, saw : Versions]
  BY AgedStaysBelow, WatchersConstants DEF Passes
<1> QED
  BY <1>1, <1>2, <1>3, <1>4 DEF Reading

LEMMA WatchersStep ==
  ASSUME WatchersInv, [WatchersNext]_watchers
  PROVE  WatchersInv'
<1>1. CASE UNCHANGED watchers
  BY <1>1 DEF watchers, WatchersInv, WatchersTypeOK, Reading
<1> QED
  BY <1>1, ChangeKeeps, PollKeeps, HitKeeps, MissKeeps, ReadMessagesKeeps, RefreshedKeeps,
     ReadFailsKeeps, BreaksKeeps, PageKeeps, WaiterKeeps, PassesKeeps
  DEF WatchersNext, Serve

\* An event sent from the cache, or from a refresh of it, is as new as the last.
LEMMA EventsGrow ==
  ASSUME WatchersInv, WatchersNext
  PROVE  EventKeepsUp
<1> USE DEF EventKeepsUp
<1>1. CASE event' = event
  BY <1>1 DEF WatchersInv, WatchersTypeOK, Pictures, Parts, Versions
<1>2. ASSUME NEW r \in Readers, Hit(r)
      PROVE  EventKeepsUp
  <2>1. cache.payload \in Payloads
    BY DEF WatchersInv, WatchersTypeOK
  <2>2. event' \in {event, Picture(cache.payload)}
    BY <1>2, <2>1, AnswerTypes DEF Hit, Asks
  <2>3. CASE event' = Picture(cache.payload)
    <3>1. \A p \in Parts : event'[p] = cache.payload[p] /\ event[p] <= cache.payload[p]
      BY <2>1, <2>3, PictureFacts DEF WatchersInv
    <3>2. \A p \in Parts : event[p] \in Nat /\ cache.payload[p] \in Nat
      BY <2>1 DEF WatchersInv, WatchersTypeOK, Pictures, Payloads, Parts, Versions
    <3> QED
      BY <3>1, <3>2
  <2> QED
    BY <1>1, <2>2, <2>3
<1> QED
  BY <1>1, <1>2, RefreshedKeeps
  DEF WatchersNext, Serve, Change, Poll, Miss, ReadMessages, ReadFails, Arrives, PollOnce,
      Breaks, Opens, Arbitrate, Remember, Passes

\* The type invariant of the watchers, with what orders their reads: whoever
\* refills the cache alone holds its mutex.
THEOREM WatchersCorrect == WatchersSpec => []WatchersInv
  BY WatchersStart, WatchersStep, PTL DEF WatchersSpec

\* Events never go back, for any bounds and any interleaving of the stream, the
\* requests, the thread that a closed stream left, and the ledger.
THEOREM EventsOnlyGoForward == WatchersSpec => EventsGoForward
BY EventsGrow, WatchersCorrect, PTL DEF WatchersSpec, EventsGoForward

-----------------------------------------------------------------------------
(* The Stop gate.  Only the main agent's hook marks findings, while that    *)
(* agent is stopping; without subagents nothing is recorded meanwhile.      *)

TurnGateInv ==
  /\ TurnGateTypeOK
  /\ \A a \in Agents :
       /\ hook[a].pc # "none" => agent[a].pc = "stopping"
       /\ hook[a].pc = "mark" => a = Main

\* The findings of the turn, when the hook of the main agent marks them.
MarksOnlyNamed ==
  hook[Main].pc = "mark" => \A f \in Ids : <<f, turn>> \in fresh => f \in hook[Main].said

LEMMA NextTurnIsNew ==
  ASSUME NEW t \in Turns
  PROVE  (t % MaxTurns) + 1 \in Turns \ {0} /\ (t % MaxTurns) + 1 # t
<1>1. CASE t = MaxTurns
  <2>1. t % MaxTurns = 0
    BY <1>1, TurnGateAssumption
  <2> QED
    BY <1>1, <2>1, TurnGateAssumption DEF Turns
<1>2. CASE t < MaxTurns
  <2>1. t % MaxTurns = t
    BY <1>2, TurnGateAssumption DEF Turns
  <2> QED
    BY <1>2, <2>1, TurnGateAssumption DEF Turns
<1> QED
  BY <1>1, <1>2, TurnGateAssumption DEF Turns

LEMMA TurnGateStarts == TurnGateInit => TurnGateInv
  BY TurnGateAssumption
  DEF TurnGateInit, TurnGateInv, TurnGateTypeOK, Turns, AgentStates, HookStates, NoHook, Events

LEMMA HookTypes ==
  ASSUME NEW h \in HookStates
  PROVE  /\ NoHook \in HookStates
         /\ \A pc \in {"none", "read", "mark", "finish", "refuse"} :
              [NoHook EXCEPT !.pc = pc] \in HookStates /\ [h EXCEPT !.pc = pc] \in HookStates
BY DEF HookStates, NoHook

\* A turn that begins takes no row of the one before.
LEMMA PromptKeepsRows ==
  ASSUME TurnGateInv, Prompt
  PROVE  /\ turn' \in Turns /\ fresh' \subseteq fresh
         /\ \A f \in Ids : <<f, turn>> \in fresh => <<f, turn>> \in fresh'
<1> USE DEF TurnGateInv, TurnGateTypeOK
<1>1. CASE BeginTurn
  <2>1. turn' \in Turns /\ turn' # turn
    BY <1>1, NextTurnIsNew DEF BeginTurn
  <2>2. fresh' \subseteq fresh /\ \A row \in fresh : row[2] = turn => row \in fresh'
    BY <1>1, <2>1 DEF BeginTurn
  <2> QED
    BY <2>1, <2>2
<1> QED
  BY <1>1 DEF Prompt

LEMMA PromptKeepsGate ==
  ASSUME TurnGateInv, Prompt
  PROVE  TurnGateInv'
<1> USE DEF TurnGateInv, TurnGateTypeOK
<1>1. agent' \in [Agents -> AgentStates] /\ \A b \in Agents \ {Main} : agent'[b] = agent[b]
  BY DEF Prompt, AgentStates, Agents
<1>2. broken' \subseteq Events /\ failures' \in 0 .. MaxFailures
  <2>1. broken' \subseteq broken \cup {"UserPromptSubmit"}
    BY DEF Prompt, Succeeded
  <2>2. failures' = failures \/ (failures < MaxFailures /\ failures' = failures + 1)
    BY DEF Prompt
  <2>3. failures' \in 0 .. MaxFailures
    BY <2>2, TurnGateAssumption
  <2> QED
    BY <2>1, <2>3 DEF Events
<1>3. UNCHANGED hook /\ hook[Main].pc = "none"
  BY DEF Prompt, Agents
<1>4. TurnGateTypeOK'
  BY <1>1, <1>2, <1>3, PromptKeepsRows
<1>5. \A b \in Agents : hook'[b].pc # "none" => agent'[b].pc = "stopping"
  BY <1>1, <1>3
<1> QED
  BY <1>3, <1>4, <1>5

LEMMA AgentKeepsGate ==
  ASSUME TurnGateInv, NEW a \in Agents, StartSubagent(a) \/ Record(a) \/ Stop(a)
  PROVE  TurnGateInv'
<1> USE DEF TurnGateInv, TurnGateTypeOK
<1>1. CASE StartSubagent(a)
  <2>1. UNCHANGED <<turn, fresh, hook, broken, failures>> /\ hook[a].pc = "none"
    BY <1>1 DEF StartSubagent
  <2>2. agent' \in [Agents -> AgentStates] /\ \A b \in Agents \ {a} : agent'[b] = agent[b]
    BY <1>1 DEF StartSubagent, AgentStates
  <2> QED
    BY <2>1, <2>2
<1>2. CASE Record(a)
  <2>1. UNCHANGED <<turn, agent, hook, broken, failures>>
    BY <1>2 DEF Record
  <2>2. PICK f \in Ids : fresh' = IF turn = 0 THEN fresh ELSE fresh \cup {<<f, turn>>}
    BY <1>2 DEF Record
  <2>3. fresh' \subseteq Ids \X (Turns \ {0})
    BY <2>2
  <2> QED
    BY <2>1, <2>3
<1>3. CASE Stop(a)
  <2>1. UNCHANGED <<turn, fresh, broken, failures>>
    BY <1>3 DEF Stop
  <2>2. /\ agent' \in [Agents -> AgentStates] /\ agent'[a].pc = "stopping"
        /\ \A b \in Agents \ {a} : agent'[b] = agent[b]
    BY <1>3 DEF Stop, AgentStates
  <2>3. PICK said \in SUBSET Ids : hook' = [hook EXCEPT ![a] = [pc |-> "read", said |-> said]]
    BY <1>3 DEF Stop
  <2>4. [pc |-> "read", said |-> said] \in HookStates
    BY DEF HookStates
  <2>5. hook' \in [Agents -> HookStates] /\ hook'[a].pc = "read"
        /\ \A b \in Agents \ {a} : hook'[b] = hook[b]
    BY <2>3, <2>4
  <2> QED
    BY <2>1, <2>2, <2>5
<1> QED
  BY <1>1, <1>2, <1>3

\* What a hook does after its read.
LEMMA WhatFindingsMean ==
  ASSUME TurnGateInv, NEW a \in Agents, ReadFindings(a)
  PROVE  /\ hook' \in [Agents -> HookStates] /\ \A b \in Agents \ {a} : hook'[b] = hook[b]
         /\ hook[a].pc = "read"
         /\ hook'[a].pc = "mark" =>
              /\ a = Main /\ hook'[a].said = hook[a].said
              /\ \A f \in Ids : <<f, turn>> \in fresh => f \in hook[a].said
<1> USE DEF TurnGateInv, TurnGateTypeOK
<1> DEFINE seen == {f \in Ids : <<f, turn>> \in fresh}
           present == AllPresent(seen, hook[a].said)
           next == CASE present /\ seen # {} /\ a = Main -> "mark"
                     [] ~present /\ ~AskedBefore(a) -> "refuse"
                     [] OTHER -> "finish"
           new == IF next = "mark" THEN [hook[a] EXCEPT !.pc = next] ELSE [NoHook EXCEPT !.pc = next]
<1>1. hook' = [hook EXCEPT ![a] = new] /\ hook[a].pc = "read"
  BY DEF ReadFindings
<1>2. next \in {"mark", "refuse", "finish"} /\ (next = "mark" => present /\ a = Main)
  <2> HIDE DEF present, seen
  <2> QED
    OBVIOUS
<1>3. new \in HookStates /\ (new.pc = "mark" => next = "mark" /\ new.said = hook[a].said)
  <2>1. new \in HookStates
    BY <1>2, HookTypes
  <2>2. CASE next = "mark"
    BY <2>1, <2>2 DEF HookStates
  <2>3. CASE next # "mark"
    <3> HIDE DEF next
    <3>1. new.pc = next
      BY <2>3 DEF NoHook
    <3> QED
      BY <2>1, <2>3, <3>1
  <2> QED
    BY <2>2, <2>3
<1> HIDE DEF new
<1>4. hook' \in [Agents -> HookStates] /\ hook'[a] = new /\ \A b \in Agents \ {a} : hook'[b] = hook[b]
  BY <1>1, <1>3
<1>5. ASSUME hook'[a].pc = "mark"
      PROVE  /\ a = Main /\ hook'[a].said = hook[a].said
             /\ \A f \in Ids : <<f, turn>> \in fresh => f \in hook[a].said
  <2>1. next = "mark" /\ hook'[a].said = hook[a].said
    BY <1>3, <1>4, <1>5
  <2>2. seen \subseteq hook[a].said
    BY <1>2, <2>1 DEF AllPresent
  <2> QED
    BY <1>2, <2>1, <2>2
<1> QED
  BY <1>1, <1>4, <1>5

LEMMA ReadFindingsKeepsGate ==
  ASSUME TurnGateInv, NEW a \in Agents, ReadFindings(a)
  PROVE  TurnGateInv'
<1>1. UNCHANGED <<turn, fresh, agent, broken, failures>>
  BY DEF ReadFindings
<1> QED
  BY <1>1, WhatFindingsMean DEF TurnGateInv, TurnGateTypeOK

LEMMA MarkKeepsGate ==
  ASSUME TurnGateInv, NEW a \in Agents, Mark(a)
  PROVE  TurnGateInv'
<1> USE DEF TurnGateInv, TurnGateTypeOK
<1>1. /\ hook[a].pc = "mark" /\ fresh' \subseteq fresh
      /\ hook' = [hook EXCEPT ![a] = [@ EXCEPT !.pc = "finish"]]
      /\ UNCHANGED <<turn, agent, broken, failures>>
  BY DEF Mark
<1>2. hook' \in [Agents -> HookStates] /\ hook'[a].pc = "finish"
      /\ \A b \in Agents \ {a} : hook'[b] = hook[b]
  <2>1. [hook[a] EXCEPT !.pc = "finish"] \in HookStates
    BY HookTypes
  <2>2. [hook[a] EXCEPT !.pc = "finish"].pc = "finish"
    BY DEF HookStates
  <2> QED
    BY <1>1, <2>1, <2>2
<1> QED
  BY <1>1, <1>2

LEMMA HookEndKeepsGate ==
  ASSUME TurnGateInv, NEW a \in Agents, Finish(a) \/ Fail(a)
  PROVE  TurnGateInv'
<1> USE DEF TurnGateInv, TurnGateTypeOK
<1>1. hook' = [hook EXCEPT ![a] = NoHook] /\ UNCHANGED <<turn, fresh>>
  BY DEF Finish, Fail
<1>2. agent' \in [Agents -> AgentStates] /\ \A b \in Agents \ {a} : agent'[b] = agent[b]
  <2>1. /\ [pc |-> "working", blocked |-> TRUE] \in AgentStates
        /\ [pc |-> "idle", blocked |-> FALSE] \in AgentStates
    BY DEF AgentStates
  <2>2. \E next \in AgentStates : agent' = [agent EXCEPT ![a] = next]
    BY <2>1 DEF Finish, Fail
  <2> QED
    BY <2>2
<1>3. broken' \subseteq Events /\ failures' \in 0 .. MaxFailures
  <2>1. CASE Finish(a)
    BY <2>1 DEF Finish, Succeeded
  <2>2. CASE Fail(a)
    <3>1. StopEvent(a) \in Events
      BY DEF StopEvent, Events
    <3>2. failures' \in 0 .. MaxFailures
      BY <2>2, TurnGateAssumption DEF Fail
    <3> QED
      BY <2>2, <3>1, <3>2 DEF Fail
  <2> QED
    BY <2>1, <2>2
<1>4. hook' \in [Agents -> HookStates] /\ hook'[a].pc = "none"
      /\ \A b \in Agents \ {a} : hook'[b] = hook[b]
  BY <1>1 DEF HookStates, NoHook
<1> QED
  BY <1>1, <1>2, <1>3, <1>4

LEMMA TurnGateStep ==
  ASSUME TurnGateInv, TurnGateNext
  PROVE  TurnGateInv'
BY PromptKeepsGate, AgentKeepsGate, ReadFindingsKeepsGate, MarkKeepsGate, HookEndKeepsGate
DEF TurnGateNext, RunHook

LEMMA TurnGateStays ==
  ASSUME TurnGateInv, UNCHANGED turnVars
  PROVE  TurnGateInv'
BY DEF turnVars, TurnGateInv, TurnGateTypeOK

\* The type invariant of the gate, with who runs a hook and who marks.
THEOREM TurnGateCorrect == TurnGateSpec => []TurnGateInv
  BY TurnGateStarts, TurnGateStep, TurnGateStays, PTL DEF TurnGateSpec

\* An agent without subagents records nothing between the two transactions of
\* its own hook, since it is stopping.
LEMMA AloneStep ==
  ASSUME Subagents = {}, TurnGateInv, MarksOnlyNamed, TurnGateNext
  PROVE  MarksOnlyNamed' /\ SurfacesOnlyNamed
<1>1. Agents = {Main} /\ Main \in Agents
  BY DEF Agents
<1>2. CASE Prompt
  <2>1. UNCHANGED hook /\ hook[Main].pc = "none"
    BY <1>1, <1>2 DEF Prompt, TurnGateInv
  <2> QED
    BY <1>2, <2>1, PromptKeepsRows DEF MarksOnlyNamed, SurfacesOnlyNamed
<1>3. CASE StartSubagent(Main)
  BY <1>3 DEF StartSubagent
<1>4. CASE Record(Main)
  <2>1. UNCHANGED <<turn, hook>> /\ hook[Main].pc = "none" /\ fresh \subseteq fresh'
    BY <1>1, <1>4 DEF Record, TurnGateInv
  <2> QED
    BY <2>1 DEF MarksOnlyNamed, SurfacesOnlyNamed
<1>5. CASE Stop(Main)
  <2>1. UNCHANGED <<turn, fresh>>
    BY <1>5 DEF Stop
  <2>2. hook'[Main].pc = "read"
    BY <1>1, <1>5 DEF Stop, TurnGateInv, TurnGateTypeOK
  <2> QED
    BY <2>1, <2>2 DEF MarksOnlyNamed, SurfacesOnlyNamed
<1>6. CASE ReadFindings(Main)
  <2>1. UNCHANGED <<turn, fresh>>
    BY <1>6 DEF ReadFindings
  <2> QED
    BY <1>1, <1>6, <2>1, WhatFindingsMean DEF MarksOnlyNamed, SurfacesOnlyNamed
<1>7. CASE Mark(Main)
  <2>1. hook[Main].pc = "mark" /\ hook'[Main].pc = "finish" /\ UNCHANGED turn
    BY <1>1, <1>7 DEF Mark, TurnGateInv, TurnGateTypeOK, HookStates
  <2> QED
    BY <2>1 DEF MarksOnlyNamed, SurfacesOnlyNamed
<1>8. CASE Finish(Main) \/ Fail(Main)
  <2>1. UNCHANGED <<turn, fresh>> /\ hook'[Main].pc = "none"
    BY <1>1, <1>8 DEF Finish, Fail, NoHook, TurnGateInv, TurnGateTypeOK
  <2> QED
    BY <2>1 DEF MarksOnlyNamed, SurfacesOnlyNamed
<1> QED
  BY <1>1, <1>2, <1>3, <1>4, <1>5, <1>6, <1>7, <1>8 DEF TurnGateNext, RunHook

\* The main agent surfaces only what its message named if it has no subagents,
\* for any findings, turns and failures: the race with a subagent is the only one.
THEOREM AloneSurfacesNamed == ASSUME Subagents = {} PROVE TurnGateSpec => SurfacedWasNamed
<1>1. TurnGateInit => MarksOnlyNamed
  BY DEF TurnGateInit, MarksOnlyNamed, NoHook, Agents
<1>2. TurnGateInv /\ MarksOnlyNamed /\ TurnGateNext => MarksOnlyNamed' /\ SurfacesOnlyNamed
  BY AloneStep
<1>3. MarksOnlyNamed /\ UNCHANGED turnVars => MarksOnlyNamed'
  BY DEF MarksOnlyNamed, turnVars
<1> QED
  BY <1>1, <1>2, <1>3, TurnGateCorrect, PTL DEF TurnGateSpec, SurfacedWasNamed

-----------------------------------------------------------------------------
(* The connection to codex app-server.  Until the reader ends, the lines in *)
(* the queue and in the pipe continue each other up to the server's next;   *)
(* after that nothing is added to the queue.                                *)

Number(n) == n % Numbers

AppServerInv ==
  /\ AppServerTypeOK
  /\ NoGap
  /\ reader = "runs" =>
       /\ \A i \in DOMAIN pipe : pipe[i].n = Number(client.expects + Len(queue) + i - 1)
       /\ server.next = Number(client.expects + Len(queue) + Len(pipe))

LEMMA AppServerConstants ==
  /\ MaxRequests \in Nat \ {0} /\ MaxQueued \in Nat \ {0} /\ Timeout \in Nat \ {0}
  /\ MaxPipe \in Nat \ {0} /\ Numbers \in Nat /\ Numbers > MaxQueued + MaxPipe + 1
BY AppServerAssumption

\* The numbers in use at one time are less than a circle apart.
LEMMA NumberWraps ==
  ASSUME NEW n \in Nat, n < 2 * Numbers
  PROVE  Number(n) = IF n < Numbers THEN n ELSE n - Numbers
<1>1. CASE n < Numbers
  BY <1>1, AppServerConstants DEF Number
<1>2. CASE n >= Numbers
  <2>1. PICK r \in Nat : n = Numbers + r /\ r < Numbers
    BY <1>2, AppServerConstants
  <2>2. (Numbers + r) % Numbers = r
    BY <2>1, AppServerConstants
  <2> QED
    BY <1>2, <2>1, <2>2, AppServerConstants DEF Number
<1> QED
  BY <1>1, <1>2, AppServerConstants

LEMMA NextIsNumber ==
  ASSUME NEW n \in Nat, n < Numbers, NEW k \in Nat, k < Numbers - 1
  PROVE  /\ NextNumber(n) \in 0 .. Numbers - 1
         /\ Number(NextNumber(n) + k) = Number(n + 1 + k)
         /\ Number(n) = n
         /\ NextNumber(Number(n + k)) = Number(n + k + 1)
<1>1. NextNumber(n) = Number(n + 1)
  BY DEF NextNumber, Number
<1>2. NextNumber(Number(n + k)) = Number(Number(n + k) + 1)
  BY DEF NextNumber, Number
<1>3. Number(n + 1) = (IF n + 1 < Numbers THEN n + 1 ELSE 0) /\ Number(n) = n
  BY NumberWraps, AppServerConstants
<1>4. Number(Number(n + 1) + k) = Number(n + 1 + k)
  <2>1. CASE n + 1 < Numbers
    BY <1>3, <2>1
  <2>2. CASE n + 1 = Numbers
    <3>1. Number(Numbers + k) = k /\ Number(k) = k
      BY NumberWraps, AppServerConstants
    <3> QED
      BY <1>3, <2>2, <3>1, AppServerConstants
  <2> QED
    BY <2>1, <2>2, AppServerConstants
<1>5. Number(Number(n + k) + 1) = Number(n + k + 1)
  <2>1. Number(n + k) = IF n + k < Numbers THEN n + k ELSE n + k - Numbers
    BY NumberWraps, AppServerConstants
  <2>2. Number(n + k + 1) = IF n + k + 1 < Numbers THEN n + k + 1 ELSE n + k + 1 - Numbers
    BY NumberWraps, AppServerConstants
  <2>3. CASE n + k < Numbers
    BY <2>1, <2>3
  <2>4. CASE n + k >= Numbers
    <3>1. Number(n + k - Numbers + 1) = n + k - Numbers + 1
      BY <2>4, NumberWraps, AppServerConstants
    <3> QED
      BY <2>1, <2>2, <2>4, <3>1, AppServerConstants
  <2> QED
    BY <2>3, <2>4, AppServerConstants
<1> QED
  BY <1>1, <1>2, <1>3, <1>4, <1>5, AppServerConstants

LEMMA NextNumberIsOne ==
  ASSUME NEW n \in Nat
  PROVE  NextNumber(n) \in 0 .. Numbers - 1
BY AppServerConstants DEF NextNumber

LEMMA AppServerStarts == AppServerInit => AppServerInv
<1>1. Number(0) = 0
  BY NumberWraps, AppServerConstants
<1> QED
  BY <1>1, AppServerConstants DEF AppServerInit, AppServerInv, AppServerTypeOK, NoGap, Lines

LEMMA QueueTypes ==
  ASSUME AppServerTypeOK
  PROVE  /\ queue \in Seq(Lines) /\ pipe \in Seq(Lines)
         /\ Len(queue) \in 0 .. MaxQueued /\ Len(pipe) \in 0 .. MaxPipe
         /\ client.expects \in Nat /\ client.expects < Numbers
         /\ server.next \in Nat /\ server.next < Numbers
BY AppServerConstants DEF AppServerTypeOK

LEMMA QueueLengths ==
  ASSUME AppServerTypeOK
  PROVE  Len(queue) \in Nat /\ Len(pipe) \in Nat /\ client.expects \in Nat
BY QueueTypes, AppServerConstants

LEMMA WriteLineKeeps ==
  ASSUME AppServerInv, NEW id \in 0 .. MaxRequests, WriteLine(id)
  PROVE  AppServerInv'
<1> USE DEF AppServerInv
<1> DEFINE line == [n |-> server.next, id |-> id]
<1>1. /\ Len(pipe) < MaxPipe /\ pipe' = Append(pipe, line)
      /\ server' = [server EXCEPT !.next = NextNumber(@), !.asked = IF id = 0 THEN @ ELSE 0]
      /\ UNCHANGED <<reader, queue, client>>
  BY DEF WriteLine
<1>2. line \in Lines
  BY AppServerConstants DEF AppServerTypeOK, Lines
<1>3. /\ pipe' \in Seq(Lines) /\ Len(pipe') = Len(pipe) + 1
      /\ \A i \in 1 .. Len(pipe) : pipe'[i] = pipe[i]
      /\ pipe'[Len(pipe) + 1] = line
  BY <1>1, <1>2, QueueTypes, AppendProperties
<1>4. server' \in [alive : BOOLEAN, next : 0 .. Numbers - 1, asked : 0 .. MaxRequests]
      /\ server'.next = NextNumber(server.next)
  <2>1. NextNumber(server.next) \in 0 .. Numbers - 1
    BY QueueTypes, NextNumberIsOne
  <2>2. (IF id = 0 THEN server.asked ELSE 0) \in 0 .. MaxRequests
    BY AppServerConstants DEF AppServerTypeOK
  <2>3. server' = [server EXCEPT !.next = NextNumber(server.next),
                                 !.asked = IF id = 0 THEN server.asked ELSE 0]
    BY <1>1
  <2> QED
    BY <2>1, <2>2, <2>3 DEF AppServerTypeOK
<1>5. AppServerTypeOK'
  <2>1. Len(pipe') <= MaxPipe
    BY <1>1, <1>3, QueueTypes, AppServerConstants
  <2>2. server' \in [alive : BOOLEAN, next : 0 .. Numbers - 1, asked : 0 .. MaxRequests]
        /\ pipe' \in Seq(Lines) /\ reader' = reader /\ queue' = queue /\ client' = client
    BY <1>1, <1>3, <1>4
  <2> QED
    BY <2>1, <2>2 DEF AppServerTypeOK
<1>6. NoGap'
  BY <1>1 DEF NoGap
<1>7. ASSUME reader = "runs"
      PROVE  /\ \A i \in DOMAIN pipe' : pipe'[i].n = Number(client.expects + Len(queue) + i - 1)
             /\ server'.next = Number(client.expects + Len(queue) + Len(pipe'))
  <2> DEFINE last == client.expects + Len(queue) + Len(pipe)
  <2>1. server.next = Number(last)
    BY <1>7
  <2>2. NextNumber(Number(last)) = Number(last + 1)
    <3>1. Len(queue) + Len(pipe) \in Nat /\ Len(queue) + Len(pipe) < Numbers - 1
      BY QueueTypes, AppServerConstants
    <3>2. NextNumber(Number(client.expects + (Len(queue) + Len(pipe))))
            = Number(client.expects + (Len(queue) + Len(pipe)) + 1)
      BY <3>1, QueueTypes, NextIsNumber
    <3> QED
      BY <3>2, QueueTypes, AppServerConstants
  <2>3. server'.next = Number(client.expects + Len(queue) + Len(pipe'))
    <3>1. Len(pipe') = Len(pipe) + 1
      BY <1>3
    <3>2. client.expects + Len(queue) + Len(pipe') = last + 1
      BY <3>1, QueueLengths
    <3> QED
      BY <1>4, <2>1, <2>2, <3>2
  <2>4. ASSUME NEW i \in DOMAIN pipe'
        PROVE  pipe'[i].n = Number(client.expects + Len(queue) + i - 1)
    <3>1. i \in 1 .. Len(pipe) + 1 /\ DOMAIN pipe = 1 .. Len(pipe)
      BY <1>3, QueueTypes, LenProperties
    <3>2. CASE i \in 1 .. Len(pipe)
      BY <1>3, <1>7, <3>1, <3>2
    <3>3. CASE i = Len(pipe) + 1
      <4>1. pipe'[i].n = server.next
        BY <1>3, <3>3
      <4>2. client.expects + Len(queue) + i - 1 = last
        BY <3>3, QueueTypes, AppServerConstants
      <4> QED
        BY <2>1, <4>1, <4>2
    <3> QED
      BY <3>1, <3>2, <3>3, QueueTypes
  <2> QED
    BY <2>3, <2>4
<1> QED
  BY <1>1, <1>5, <1>6, <1>7

LEMMA PumpKeeps ==
  ASSUME AppServerInv, Pump
  PROVE  AppServerInv'
<1> USE DEF AppServerInv
<1>1. /\ reader = "runs" /\ pipe # <<>> /\ pipe' = Tail(pipe)
      /\ UNCHANGED <<server, client>>
  BY DEF Pump
<1>2. /\ pipe' \in Seq(Lines) /\ Len(pipe') = Len(pipe) - 1 /\ Len(pipe) > 0
      /\ Head(pipe) = pipe[1] /\ pipe[1] \in Lines
      /\ \A i \in 1 .. Len(pipe') : pipe'[i] = pipe[i + 1]
  <2>1. Len(pipe) \in Nat \ {0}
    BY <1>1, QueueTypes, EmptySeq
  <2> QED
    BY <1>1, <2>1, QueueTypes, HeadTailProperties, ElementOfSeq
<1>3. CASE Len(queue) < MaxQueued /\ queue' = Append(queue, Head(pipe)) /\ reader' = "runs"
  <2>1. queue' = Append(queue, pipe[1]) /\ reader' = "runs"
    BY <1>2, <1>3
  <2>2. /\ queue' \in Seq(Lines) /\ Len(queue') = Len(queue) + 1
        /\ \A i \in 1 .. Len(queue) : queue'[i] = queue[i]
        /\ queue'[Len(queue) + 1] = pipe[1]
    BY <1>2, <2>1, QueueTypes, AppendProperties
  <2>3. AppServerTypeOK'
    <3>1. Len(pipe') <= MaxPipe
      <4>1. Len(pipe') = Len(pipe) - 1
        BY <1>2
      <4> QED
        BY <4>1, QueueTypes, AppServerConstants
    <3>2. Len(queue') <= MaxQueued
      <4>1. Len(queue') = Len(queue) + 1
        BY <2>2
      <4> QED
        BY <1>3, <4>1, QueueTypes, AppServerConstants
    <3>3. queue' \in Seq(Lines) /\ pipe' \in Seq(Lines) /\ reader' = "runs"
      BY <1>2, <2>1, <2>2
    <3> QED
      BY <1>1, <3>1, <3>2, <3>3 DEF AppServerTypeOK
  <2>4. pipe[1].n = Number(client.expects + Len(queue))
    <3>1. 1 \in DOMAIN pipe
      BY <1>2, QueueTypes, LenProperties
    <3>2. client.expects + Len(queue) + 1 - 1 = client.expects + Len(queue)
      BY QueueTypes, AppServerConstants
    <3> QED
      BY <1>1, <3>1, <3>2
  <2>5. NoGap'
    <3> SUFFICES ASSUME NEW i \in DOMAIN queue'
                 PROVE  queue'[i].n = Number(client.expects + i - 1)
      BY <1>1 DEF NoGap, Number
    <3>1. i \in 1 .. Len(queue) + 1 /\ DOMAIN queue = 1 .. Len(queue)
      BY <2>2, QueueTypes, LenProperties
    <3>2. CASE i \in 1 .. Len(queue)
      BY <2>2, <3>1, <3>2 DEF NoGap, Number
    <3>3. CASE i = Len(queue) + 1
      <4>1. client.expects + i - 1 = client.expects + Len(queue)
        BY <3>3, QueueTypes, AppServerConstants
      <4> QED
        BY <2>2, <2>4, <3>3, <4>1
    <3> QED
      BY <3>1, <3>2, <3>3, QueueTypes
  <2>6. ASSUME NEW i \in DOMAIN pipe'
        PROVE  pipe'[i].n = Number(client.expects + Len(queue') + i - 1)
    <3>1. i \in 1 .. Len(pipe') /\ i + 1 \in DOMAIN pipe
      BY <1>2, QueueTypes, LenProperties
    <3>2. pipe[i + 1].n = Number(client.expects + Len(queue) + (i + 1) - 1)
      BY <1>1, <3>1
    <3>3. Len(queue') = Len(queue) + 1 /\ Len(pipe') = Len(pipe) - 1
      BY <1>2, <2>2
    <3>4. client.expects + Len(queue) + (i + 1) - 1 = client.expects + Len(queue') + i - 1
      <4>1. i \in Nat
        BY <3>1
      <4> QED
        BY <3>3, <4>1, QueueLengths
    <3> QED
      BY <1>2, <3>1, <3>2, <3>4
  <2>7. client.expects + Len(queue') + Len(pipe') = client.expects + Len(queue) + Len(pipe)
    <3>1. Len(queue') = Len(queue) + 1 /\ Len(pipe') = Len(pipe) - 1
      BY <1>2, <2>2
    <3>2. PICK a, b, c : a = client.expects /\ b = Len(queue) /\ c = Len(pipe)
      OBVIOUS
    <3>3. a \in Nat /\ b \in Nat /\ c \in Nat
      BY <3>2, QueueLengths
    <3>4. a + (b + 1) + (c - 1) = a + b + c
      BY <3>3
    <3> QED
      BY <3>1, <3>2, <3>4
  <2> QED
    BY <1>1, <2>3, <2>5, <2>6, <2>7
<1>4. CASE queue' = queue /\ reader' = "ended"
  BY <1>1, <1>2, <1>4, QueueTypes, AppServerConstants DEF AppServerTypeOK, NoGap
<1> QED
  BY <1>3, <1>4 DEF Pump, Overflows

LEMMA ReadLineKeeps ==
  ASSUME AppServerInv, ReadLine
  PROVE  AppServerInv'
<1> USE DEF AppServerInv
<1>1. /\ queue # <<>> /\ queue' = Tail(queue)
      /\ UNCHANGED <<server, pipe, reader>>
  BY DEF ReadLine
<1> DEFINE After(pc) == [client EXCEPT !.expects = NextNumber(Head(queue).n), !.left = @, !.pc = pc,
                                       !.id = IF pc = "request" THEN @ + 1 ELSE @]
<1>10. PICK pc \in AfterLine(Head(queue).id) : client' = After(pc)
  BY DEF ReadLine, Remaining
<1>9. client'.expects = NextNumber(Head(queue).n)
  BY <1>10 DEF AppServerTypeOK
<1>2. /\ queue' \in Seq(Lines) /\ Len(queue') = Len(queue) - 1 /\ Len(queue) > 0
      /\ Head(queue) = queue[1] /\ queue[1] \in Lines
      /\ \A i \in 1 .. Len(queue') : queue'[i] = queue[i + 1]
  <2>1. Len(queue) \in Nat \ {0}
    BY <1>1, QueueTypes, EmptySeq
  <2> QED
    BY <1>1, <2>1, QueueTypes, HeadTailProperties, ElementOfSeq
<1>3. client'.expects = NextNumber(client.expects)
  <2>1. 1 \in DOMAIN queue
    BY <1>2, QueueTypes, LenProperties
  <2>2. queue[1].n = Number(client.expects + 1 - 1) /\ client.expects + 1 - 1 = client.expects
    BY <2>1, QueueTypes DEF NoGap, Number
  <2>3. Number(client.expects) = client.expects
    BY QueueTypes, NumberWraps, AppServerConstants
  <2> QED
    BY <1>2, <1>9, <2>2, <2>3
<1>4. \A k \in Nat : k < Numbers - 1 =>
        Number(client'.expects + k) = Number(client.expects + 1 + k)
  BY <1>3, QueueTypes, NextIsNumber
<1>5. client' \in [pc : {"request", "wait", "drop", "kill", "join", "ended"},
                   id : 1 .. MaxRequests, left : 0 .. Timeout, expects : 0 .. Numbers - 1]
  <2>1. NextNumber(client.expects) \in 0 .. Numbers - 1
    BY QueueTypes, NextNumberIsOne
  <2> DEFINE next == IF pc = "request" THEN client.id + 1 ELSE client.id
  <2>2. client' = [client EXCEPT !.expects = NextNumber(Head(queue).n), !.left = @,
                                 !.pc = pc, !.id = next]
    BY <1>10
  <2>3. next \in 1 .. MaxRequests
    <3>1. pc = "request" => Head(queue).id = client.id /\ Head(queue).id < MaxRequests
      BY <1>10 DEF AfterLine
    <3>2. client.id \in 1 .. MaxRequests
      BY DEF AppServerTypeOK
    <3>3. pc = "request" => client.id < MaxRequests
      BY <3>1
    <3> QED
      BY <3>2, <3>3, AppServerConstants
  <2>4. pc \in {"request", "wait", "drop"}
    BY <1>10 DEF AfterLine
  <2>5. NextNumber(Head(queue).n) \in 0 .. Numbers - 1
    BY <1>3, <1>9, <2>1
  <2> HIDE DEF next
  <2> QED
    BY <2>2, <2>3, <2>4, <2>5 DEF AppServerTypeOK
<1>6. AppServerTypeOK'
  <2>1. Len(queue') <= MaxQueued
    <3>1. Len(queue') = Len(queue) - 1
      BY <1>2
    <3> QED
      BY <3>1, QueueTypes, AppServerConstants
  <2>2. /\ server' = server /\ pipe' = pipe /\ reader' = reader /\ queue' \in Seq(Lines)
        /\ client' \in [pc : {"request", "wait", "drop", "kill", "join", "ended"},
                        id : 1 .. MaxRequests, left : 0 .. Timeout, expects : 0 .. Numbers - 1]
    BY <1>1, <1>2, <1>5
  <2> QED
    BY <2>1, <2>2 DEF AppServerTypeOK
<1>7. NoGap'
  <2> SUFFICES ASSUME NEW i \in DOMAIN queue'
               PROVE  queue'[i].n = Number(client'.expects + i - 1)
    BY DEF NoGap, Number
  <2>1. i \in 1 .. Len(queue') /\ i + 1 \in DOMAIN queue
    BY <1>2, QueueTypes, LenProperties
  <2>2. queue[i + 1].n = Number(client.expects + (i + 1) - 1)
    BY <2>1 DEF NoGap, Number
  <2>3. i - 1 \in Nat /\ i - 1 < Numbers - 1
    BY <1>2, <2>1, QueueTypes, AppServerConstants
  <2>4. Number(client'.expects + (i - 1)) = Number(client.expects + 1 + (i - 1))
    BY <1>4, <2>3
  <2>5. client'.expects \in Nat
    BY <1>5, AppServerConstants
  <2>6. client.expects + (i + 1) - 1 = client.expects + 1 + (i - 1)
        /\ client'.expects + i - 1 = client'.expects + (i - 1)
    <3>1. i \in Nat
      BY <2>1
    <3> QED
      BY <2>5, <3>1, QueueLengths
  <2> QED
    BY <1>2, <2>1, <2>2, <2>4, <2>6
<1>8. ASSUME reader = "runs"
      PROVE  /\ \A i \in DOMAIN pipe : pipe[i].n = Number(client'.expects + Len(queue') + i - 1)
             /\ server.next = Number(client'.expects + Len(queue') + Len(pipe))
  <2>1. \A k \in Nat : Len(queue') + k < Numbers - 1 =>
          Number(client'.expects + Len(queue') + k) = Number(client.expects + Len(queue) + k)
    <3> SUFFICES ASSUME NEW k \in Nat, Len(queue') + k < Numbers - 1
                 PROVE  Number(client'.expects + Len(queue') + k) = Number(client.expects + Len(queue) + k)
      OBVIOUS
    <3>1. Len(queue') + k \in Nat
      BY <1>2, QueueTypes, AppServerConstants
    <3>2. Number(client'.expects + (Len(queue') + k)) = Number(client.expects + 1 + (Len(queue') + k))
      BY <1>4, <3>1
    <3>3. client'.expects \in Nat
      BY <1>5, AppServerConstants
    <3>4. /\ client'.expects + (Len(queue') + k) = client'.expects + Len(queue') + k
          /\ client.expects + 1 + (Len(queue') + k) = client.expects + Len(queue) + k
      <4>1. Len(queue') = Len(queue) - 1
        BY <1>2
      <4> QED
        BY <3>3, <4>1, QueueLengths
    <3> QED
      BY <3>2, <3>4
  <2>2. server.next = Number(client'.expects + Len(queue') + Len(pipe))
    BY <1>2, <1>8, <2>1, QueueTypes, AppServerConstants
  <2>3. ASSUME NEW i \in DOMAIN pipe
        PROVE  pipe[i].n = Number(client'.expects + Len(queue') + i - 1)
    <3>1. i \in 1 .. Len(pipe)
      BY QueueTypes, LenProperties
    <3>2. i - 1 \in Nat /\ Len(queue') + (i - 1) < Numbers - 1
      <4>1. Len(queue') = Len(queue) - 1
        BY <1>2
      <4>2. /\ Len(queue) \in Nat /\ Len(pipe) \in Nat
            /\ Len(queue) <= MaxQueued /\ Len(pipe) <= MaxPipe
        BY QueueTypes, AppServerConstants
      <4>3. i \in Nat /\ 1 <= i /\ i <= Len(pipe)
        BY <3>1, <4>2
      <4> QED
        BY <4>1, <4>2, <4>3, AppServerConstants
    <3>3. Number(client'.expects + Len(queue') + (i - 1)) = Number(client.expects + Len(queue) + (i - 1))
      BY <2>1, <3>2
    <3>4. client'.expects \in Nat
      BY <1>5, AppServerConstants
    <3>5. /\ client'.expects + Len(queue') + (i - 1) = client'.expects + Len(queue') + i - 1
          /\ client.expects + Len(queue) + (i - 1) = client.expects + Len(queue) + i - 1
      BY <1>2, <3>1, <3>4, QueueTypes, AppServerConstants
    <3> QED
      BY <1>8, <3>3, <3>5
  <2> QED
    BY <2>2, <2>3
<1> QED
  BY <1>1, <1>6, <1>7, <1>8

\* The other steps move no line.
LEMMA ServerDiesKeeps ==
  ASSUME AppServerInv, ServerDies \/ PumpEof
  PROVE  AppServerInv'
<1>1. CASE ServerDies
  BY <1>1 DEF AppServerInv, AppServerTypeOK, NoGap, ServerDies
<1>2. CASE PumpEof
  BY <1>2 DEF AppServerInv, AppServerTypeOK, NoGap, PumpEof
<1> QED
  BY <1>1, <1>2

LEMMA ClientStepKeeps ==
  ASSUME AppServerInv,
         Request \/ RequestEnds \/ Drop \/ Kill \/ Join \/ ClockTicks
  PROVE  AppServerInv'
<1> USE DEF AppServerInv
<1>1. UNCHANGED <<pipe, reader, queue>> /\ client'.expects = client.expects /\ server'.next = server.next
  BY DEF Request, RequestEnds, Drop, Kill, Join, ClockTicks, AppServerTypeOK
<1>2. client' \in [pc : {"request", "wait", "drop", "kill", "join", "ended"},
                   id : 1 .. MaxRequests, left : 0 .. Timeout, expects : 0 .. Numbers - 1]
  <2>1. CASE Request
    <3>1. Timeout \in 0 .. Timeout
      BY AppServerConstants
    <3>2. \/ client' = [client EXCEPT !.pc = "wait", !.left = Timeout]
          \/ client' = [client EXCEPT !.pc = "drop"]
      BY <2>1 DEF Request
    <3> QED
      BY <3>1, <3>2 DEF AppServerTypeOK
  <2>2. CASE RequestEnds
    BY <2>2 DEF RequestEnds, AppServerTypeOK
  <2>3. CASE Drop
    <3>1. Timeout \in 0 .. Timeout
      BY AppServerConstants
    <3> QED
      BY <2>3, <3>1 DEF Drop, AppServerTypeOK
  <2>4. CASE Kill
    BY <2>4 DEF Kill, AppServerTypeOK
  <2>5. CASE Join
    BY <2>5 DEF Join, AppServerTypeOK
  <2>6. CASE ClockTicks
    <3>1. client.left - 1 \in 0 .. Timeout /\ client' = [client EXCEPT !.left = client.left - 1]
      <4>1. client.left \in 0 .. Timeout
        BY DEF AppServerTypeOK
      <4>2. client.left > 0 /\ client' = [client EXCEPT !.left = client.left - 1]
        BY <2>6 DEF ClockTicks
      <4>3. \A a \in Nat : \A b \in 0 .. a : b > 0 => b - 1 \in 0 .. a
        OBVIOUS
      <4>4. Timeout \in Nat
        BY AppServerConstants
      <4> QED
        BY <4>1, <4>2, <4>3, <4>4, Zenon
    <3> QED
      BY <3>1 DEF AppServerTypeOK
  <2> QED
    BY <2>1, <2>2, <2>3, <2>4, <2>5, <2>6
<1>3. server' \in [alive : BOOLEAN, next : 0 .. Numbers - 1, asked : 0 .. MaxRequests]
  <2>1. CASE Request
    <3>1. client.id \in 0 .. MaxRequests
      BY AppServerConstants DEF AppServerTypeOK
    <3> QED
      BY <2>1, <3>1 DEF Request, AppServerTypeOK
  <2>2. CASE Kill
    BY <2>2 DEF Kill, AppServerTypeOK
  <2>3. CASE UNCHANGED server
    BY <2>3 DEF AppServerTypeOK
  <2> QED
    BY <2>1, <2>2, <2>3 DEF RequestEnds, Drop, Join, ClockTicks
<1>4. AppServerTypeOK'
  BY <1>1, <1>2, <1>3 DEF AppServerTypeOK
<1> QED
  BY <1>1, <1>4 DEF NoGap

LEMMA AppServerStep ==
  ASSUME AppServerInv, [AppServerNext]_serverVars
  PROVE  AppServerInv'
<1>1. CASE UNCHANGED serverVars
  BY <1>1 DEF serverVars, AppServerInv, AppServerTypeOK, NoGap
<1>2. CASE ServerActs
  <2>1. 0 \in 0 .. MaxRequests /\ server.asked \in 0 .. MaxRequests
    BY AppServerConstants DEF AppServerInv, AppServerTypeOK
  <2> QED
    BY <1>2, <2>1, WriteLineKeeps, ServerDiesKeeps DEF ServerActs
<1> QED
  BY <1>1, <1>2, PumpKeeps, ServerDiesKeeps, ReadLineKeeps, ClientStepKeeps
  DEF AppServerNext, ClientActs

\* The type invariant of the connection, and that the lines which the reader has
\* still to pass on continue those in the queue.
THEOREM AppServerCorrect == AppServerSpec => []AppServerInv
  BY AppServerStarts, AppServerStep, PTL DEF AppServerSpec

\* However many lines the server writes, and whatever the queue holds, the client
\* reads them without a gap.
THEOREM LinesHaveNoGap == AppServerSpec => []NoGap
<1>1. AppServerInv => NoGap
  BY DEF AppServerInv
<1> QED
  BY <1>1, AppServerCorrect, PTL

-----------------------------------------------------------------------------
(* The inbox.  A message goes when the table is full of others at least as  *)
(* late, which stay sent for ever, or when it is older than the wall clock, *)
(* which is never later than its latest, allows.                            *)

Later(times, m) == {n \in DOMAIN times \ {m} : times[n] >= times[m]}

InboxInv ==
  /\ InboxTypeOK
  /\ wall <= latest
  /\ LostToLater

LEMMA InboxConstants ==
  /\ MaxInbox \in Nat \ {0} /\ Ttl \in Nat /\ MaxSent \in Nat
  /\ MaxTime \in Nat /\ MaxBack \in Nat
BY InboxAssumption

LEMMA InboxStarts == InboxInit => InboxInv
  BY InboxConstants, FS_EmptySet
  DEF InboxInit, InboxInv, InboxTypeOK, LostToLater, NotSending

LEMMA LaterIsFinite ==
  ASSUME NEW times \in Seq(0 .. MaxTime), NEW m
  PROVE  IsFiniteSet(Later(times, m))
<1>1. DOMAIN times = 1 .. Len(times) /\ Len(times) \in Nat
  BY LenProperties
<1>2. IsFiniteSet(1 .. Len(times))
  BY <1>1, FS_Interval
<1> QED
  BY <1>1, <1>2, FS_Subset DEF Later

\* What is sent later makes no message less lost.
LEMMA LaterGrows ==
  ASSUME NEW times \in Seq(0 .. MaxTime), NEW t \in 0 .. MaxTime, NEW m \in DOMAIN times
  PROVE  LET longer == Append(times, t)
         IN /\ longer \in Seq(0 .. MaxTime) /\ Len(longer) = Len(times) + 1
            /\ DOMAIN longer = DOMAIN times \cup {Len(longer)}
            /\ longer[m] = times[m]
            /\ Cardinality(Later(times, m)) <= Cardinality(Later(longer, m))
<1> DEFINE longer == Append(times, t)
<1>1. /\ longer \in Seq(0 .. MaxTime) /\ Len(longer) = Len(times) + 1
      /\ \A i \in 1 .. Len(times) : longer[i] = times[i]
  BY AppendProperties
<1>2. /\ DOMAIN longer = 1 .. Len(longer) /\ DOMAIN times = 1 .. Len(times)
      /\ Len(times) \in Nat
  BY <1>1, LenProperties
<1>3. Later(times, m) \subseteq Later(longer, m)
  <2> HIDE DEF longer
  <2> QED
    BY <1>1, <1>2 DEF Later
<1>4. IsFiniteSet(Later(longer, m))
  <2> HIDE DEF longer
  <2> QED
    BY <1>1, LaterIsFinite
<1>5. DOMAIN longer = DOMAIN times \cup {Len(longer)}
  <2> HIDE DEF longer
  <2> QED
    BY <1>1, <1>2
<1> HIDE DEF longer
<1>6. Cardinality(Later(times, m)) <= Cardinality(Later(longer, m))
  BY <1>3, <1>4, FS_Subset
<1> QED
  BY <1>1, <1>2, <1>5, <1>6 DEF longer

LEMMA LostByCount ==
  LostToLater <=>
    \A m \in DOMAIN sent \ rows :
      sent[m] < latest - Ttl \/ Cardinality(Later(sent, m)) >= MaxInbox
BY DEF LostToLater, Later

LEMMA SendMessageKeeps ==
  ASSUME InboxInv, NEW s \in Senders, SendMessage(s)
  PROVE  InboxInv'
<1> USE DEF InboxInv, InboxTypeOK
<1> DEFINE new == Len(sent')
           all == rows \cup {new}
<1>1. /\ sending[s] # NotSending /\ Len(sent) < MaxSent
      /\ sent' = Append(sent, sending[s])
      /\ sending' = [sending EXCEPT ![s] = NotSending]
      /\ UNCHANGED <<wall, latest, back>>
  BY DEF SendMessage
<1>2. sending[s] \in 0 .. MaxTime
  BY <1>1
<1>3. /\ sent' \in Seq(0 .. MaxTime) /\ Len(sent') = Len(sent) + 1
      /\ DOMAIN sent' = DOMAIN sent \cup {new}
  <2>1. /\ sent' \in Seq(0 .. MaxTime) /\ Len(sent') = Len(sent) + 1
    BY <1>1, <1>2, AppendProperties
  <2>2. /\ DOMAIN sent' = 1 .. Len(sent') /\ DOMAIN sent = 1 .. Len(sent) /\ Len(sent) \in Nat
    BY <2>1, LenProperties
  <2> QED
    BY <2>1, <2>2
<1>4. PICK keep \in Kept(all, sent') :
        /\ rows' = keep
        /\ unread' = (unread \cup {new}) \cap keep
        /\ unnoticed' = (unnoticed \cup {new}) \cap keep
  BY DEF SendMessage
<1>5. /\ keep \subseteq all /\ ~(Cardinality(keep) > MaxInbox)
      /\ keep = all \/ Cardinality(keep) + 1 > MaxInbox
      /\ \A m \in keep, n \in all \ keep : sent'[m] >= sent'[n]
  BY <1>4 DEF Kept, TooMany, NotBefore
<1>6. all \subseteq DOMAIN sent'
  BY <1>3
<1>7. IsFiniteSet(keep) /\ Cardinality(keep) \in Nat
  <2>1. DOMAIN sent' = 1 .. Len(sent') /\ Len(sent') \in Nat
    BY <1>3, LenProperties
  <2>2. IsFiniteSet(DOMAIN sent')
    BY <2>1, FS_Interval
  <2>3. IsFiniteSet(keep)
    BY <1>5, <1>6, <2>2, FS_Subset
  <2> QED
    BY <2>3, FS_CardinalityType
<1>8. InboxTypeOK'
  <2>1. /\ rows' \subseteq DOMAIN sent' /\ Cardinality(rows') <= MaxInbox
        /\ unread' \subseteq rows' /\ unnoticed' \subseteq rows'
    BY <1>4, <1>5, <1>6, <1>7, InboxConstants
  <2>2. sending' \in [Senders -> {NotSending} \cup 0 .. MaxTime]
    BY <1>1
  <2>3. Len(sent) \in Nat /\ Len(sent') <= MaxSent
    BY <1>1, <1>3, LenProperties, InboxConstants
  <2> QED
    BY <1>1, <1>3, <2>1, <2>2, <2>3
<1>9. ASSUME NEW m \in DOMAIN sent' \ rows'
      PROVE  sent'[m] < latest - Ttl \/ Cardinality(Later(sent', m)) >= MaxInbox
  <2>1. CASE m \in all
    <3>1. keep \subseteq Later(sent', m)
      BY <1>4, <1>5, <1>6, <1>9, <2>1 DEF Later
    <3>2. IsFiniteSet(Later(sent', m))
      BY <1>3, LaterIsFinite
    <3>3. Cardinality(keep) <= Cardinality(Later(sent', m))
      BY <3>1, <3>2, FS_Subset
    <3>4. Cardinality(keep) >= MaxInbox
      BY <1>4, <1>5, <1>7, <1>9, <2>1, InboxConstants
    <3>5. Cardinality(Later(sent', m)) \in Nat
      BY <3>2, FS_CardinalityType
    <3> QED
      BY <1>7, <3>3, <3>4, <3>5, InboxConstants
  <2>2. CASE m \notin all
    <3>1. m \in DOMAIN sent \ rows
      BY <1>3, <1>9, <2>2
    <3>2. sent[m] < latest - Ttl \/ Cardinality(Later(sent, m)) >= MaxInbox
      BY <3>1, LostByCount
    <3>3. sent'[m] = sent[m] /\ Cardinality(Later(sent, m)) <= Cardinality(Later(sent', m))
      BY <1>1, <1>2, <3>1, LaterGrows
    <3>4. Cardinality(Later(sent, m)) \in Nat /\ Cardinality(Later(sent', m)) \in Nat
      BY <1>3, LaterIsFinite, FS_CardinalityType
    <3> QED
      BY <3>2, <3>3, <3>4, InboxConstants
  <2> QED
    BY <2>1, <2>2
<1>10. LostToLater'
  BY <1>1, <1>9 DEF LostToLater, Later
<1> HIDE DEF InboxTypeOK
<1> QED
  BY <1>1, <1>8, <1>10

LEMMA PruneKeeps ==
  ASSUME InboxInv, Prune
  PROVE  InboxInv'
<1> USE DEF InboxInv, InboxTypeOK
<1>1. /\ rows' = {m \in rows : sent[m] >= wall - Ttl}
      /\ unread' = unread \cap rows' /\ unnoticed' = unnoticed \cap rows'
      /\ UNCHANGED <<wall, latest, back, sending, sent>>
  BY DEF Prune
<1>2. DOMAIN sent = 1 .. Len(sent) /\ Len(sent) \in Nat
  BY LenProperties
<1>3. IsFiniteSet(rows)
  <2>1. IsFiniteSet(DOMAIN sent)
    BY <1>2, FS_Interval
  <2> QED
    BY <2>1, FS_Subset
<1>4. Cardinality(rows') <= MaxInbox
  <2>1. rows' \subseteq rows
    BY <1>1
  <2>2. /\ IsFiniteSet(rows') /\ Cardinality(rows') <= Cardinality(rows)
        /\ Cardinality(rows) \in Nat /\ Cardinality(rows') \in Nat
    BY <1>3, <2>1, FS_Subset, FS_CardinalityType
  <2> QED
    BY <2>2, InboxConstants
<1>5. LostToLater'
  <2> SUFFICES ASSUME NEW m \in DOMAIN sent \ rows'
               PROVE  sent[m] < latest - Ttl \/ Cardinality(Later(sent, m)) >= MaxInbox
    BY <1>1 DEF LostToLater, Later
  <2>1. CASE m \in rows
    <3>1. sent[m] \in 0 .. MaxTime
      BY <1>2, ElementOfSeq
    <3> QED
      BY <1>1, <2>1, <3>1, InboxConstants
  <2>2. CASE m \notin rows
    BY <2>2, LostByCount
  <2> QED
    BY <2>1, <2>2
<1> QED
  BY <1>1, <1>4, <1>5

LEMMA ReadsKeep ==
  ASSUME InboxInv, (\E s \in Senders : ReadClock(s)) \/ Acknowledge \/ MarkUnnotified
  PROVE  InboxInv'
<1> USE DEF InboxInv, InboxTypeOK
<1>1. UNCHANGED <<wall, latest, back, sent, rows>>
  BY DEF ReadClock, Acknowledge, MarkUnnotified
<1>2. sending' \in [Senders -> {NotSending} \cup 0 .. MaxTime]
  BY DEF ReadClock, Acknowledge, MarkUnnotified
<1>3. unread' \subseteq unread /\ unnoticed' \subseteq unnoticed
  BY DEF ReadClock, Acknowledge, MarkUnnotified
<1> QED
  BY <1>1, <1>2, <1>3 DEF LostToLater

LEMMA ClockMovesKeeps ==
  ASSUME InboxInv, ClockMoves
  PROVE  InboxInv'
<1> USE DEF InboxInv, InboxTypeOK
<1>1. UNCHANGED <<sending, sent, rows, unread, unnoticed>>
  BY DEF ClockMoves
<1>2. /\ wall' \in 0 .. MaxTime /\ latest' \in 0 .. MaxTime /\ back' \in 0 .. MaxBack
      /\ wall' <= latest' /\ latest <= latest'
  BY InboxConstants DEF ClockMoves
<1>3. LostToLater'
  <2>1. \A m \in DOMAIN sent : sent[m] \in 0 .. MaxTime
    BY LenProperties, ElementOfSeq
  <2>2. latest \in Nat /\ latest' \in Nat /\ latest <= latest' /\ Ttl \in Nat
        /\ \A m \in DOMAIN sent : sent[m] \in Nat
    BY <1>2, <2>1, InboxConstants
  <2>3. \A m \in DOMAIN sent : sent[m] < latest - Ttl => sent[m] < latest' - Ttl
    BY <2>2
  <2>4. sent' = sent /\ rows' = rows
    BY <1>1
  <2> QED
    BY <2>3, <2>4, Zenon DEF LostToLater
<1> QED
  BY <1>1, <1>2, <1>3

LEMMA InboxStep ==
  ASSUME InboxInv, [InboxNext]_inboxVars
  PROVE  InboxInv'
<1>1. CASE UNCHANGED inboxVars
  BY <1>1 DEF inboxVars, InboxInv, InboxTypeOK, LostToLater
<1> QED
  BY <1>1, SendMessageKeeps, PruneKeeps, ReadsKeep, ClockMovesKeeps DEF InboxNext

\* The type invariant of the inbox, its capacity among it, with the latest time
\* that its clock showed.
THEOREM InboxCorrect == InboxSpec => []InboxInv
  BY InboxStarts, InboxStep, PTL DEF InboxSpec

\* For any senders, capacity and clock that goes back, a message is gone only
\* when it is too old, or when so many others at least as late were sent.
THEOREM MessagesAreLostToLater == InboxSpec => []LostToLater
<1>1. InboxInv => LostToLater
  BY DEF InboxInv
<1> QED
  BY <1>1, InboxCorrect, PTL

-----------------------------------------------------------------------------
(* Settling of dirt.  A row is older than the first read of its content by   *)
(* no more than one scan takes; what a scan calls settled was read long ago. *)

Reads(f, h) == readAt[f][h]

RowBacked(f) ==
  observed[f].age # Never =>
    /\ Reads(f, observed[f].hash) # Never
    /\ Reads(f, observed[f].hash) >= observed[f].age - MaxScan \/ Reads(f, observed[f].hash) = LongAgo

ScanBacked(s) ==
  /\ scan[s].step = "observe" => \A f \in scan[s].dirty : Reads(f, scan[s].hash[f]) # Never
  /\ scan[s].step = "decide" => \A f \in scan[s].settled : Reads(f, scan[s].hash[f]) = LongAgo

DirtInv ==
  /\ DirtTypeOK
  /\ \A f \in Files, h \in Hashes : Reads(f, h) <= LongAgo
  /\ \A f \in Files : RowBacked(f)
  /\ \A s \in Sessions : ScanBacked(s)

LEMMA DirtConstants ==
  /\ Hold \in Nat \ {0} /\ MaxScan \in Nat /\ MaxScan < Hold
  /\ LongAgo \in Nat \ {0} /\ Oldest \in Nat /\ LongAgo <= Oldest /\ LongAgo = Hold - MaxScan
  /\ Oldest = Hold + MaxScan
  /\ MaxChanged \in Nat /\ MaxGitFails \in Nat
BY DirtAssumption DEF LongAgo, Oldest

LEMMA DirtConstantTypes ==
  /\ Committed \in Hashes /\ Unhashable \in Hashes /\ Contents \subseteq Hashes
  /\ Never \notin Ages /\ 0 \in Ages /\ Never = -1
  /\ NoObservation \in Observations
  /\ NoScan \in Scans
<1>1. Committed \in Hashes /\ Unhashable \in Hashes /\ Contents \subseteq Hashes
  BY DirtAssumption DEF Hashes
<1>2. Never \notin Ages /\ 0 \in Ages /\ Never = -1
  BY DirtConstants DEF Never, Ages
<1>3. NoObservation \in Observations
  BY <1>1 DEF NoObservation, Observations
<1>4. NoScan \in Scans
  BY <1>1, DirtConstants DEF NoScan, Scans, Steps, Ops
<1> QED
  BY <1>1, <1>2, <1>3, <1>4

LEMMA DirtStarts == DirtInit => DirtInv
<1> SUFFICES ASSUME DirtInit PROVE DirtInv
  OBVIOUS
<1>1. DirtTypeOK
  BY DirtConstants, DirtConstantTypes, DirtAssumption DEF DirtInit, DirtTypeOK
<1>2. \A f \in Files, h \in Hashes : Reads(f, h) = Never
  BY DEF DirtInit, Reads
<1>3. \A f \in Files : RowBacked(f)
  BY DEF DirtInit, RowBacked, NoObservation
<1>4. \A s \in Sessions : ScanBacked(s)
  BY DEF DirtInit, ScanBacked, NoScan
<1> QED
  BY <1>1, <1>2, <1>3, <1>4, DirtConstants, DirtConstantTypes DEF DirtInv

\* What was read stays read, and what was read long ago stays so.
ReadsGrow ==
  \A f \in Files, h \in Hashes :
    /\ Reads(f, h) # Never => Reads(f, h)' # Never /\ Reads(f, h)' >= Reads(f, h)
    /\ Reads(f, h) = LongAgo => Reads(f, h)' = LongAgo

LEMMA ReadsStay ==
  ASSUME DirtInv, UNCHANGED readAt
  PROVE  ReadsGrow /\ \A f \in Files, h \in Hashes : Reads(f, h)' <= LongAgo
<1>1. \A f \in Files, h \in Hashes : Reads(f, h) \in Ages \cup {Never} /\ Reads(f, h) <= LongAgo
  BY DEF DirtInv, DirtTypeOK, Reads
<1>2. \A f \in Files, h \in Hashes : Reads(f, h)' = Reads(f, h)
  BY DEF Reads
<1> QED
  BY <1>1, <1>2, DirtConstantTypes, DirtConstants DEF ReadsGrow, Ages

LEMMA ScanStaysBacked ==
  ASSUME DirtInv, ReadsGrow, NEW s \in Sessions, scan'[s] = scan[s]
  PROVE  ScanBacked(s)'
<1>1. scan[s].hash \in [Files -> Hashes] /\ scan[s].dirty \subseteq Files /\ scan[s].settled \subseteq Files
  BY DEF DirtInv, DirtTypeOK, Scans
<1> QED
  BY <1>1 DEF DirtInv, ScanBacked, ReadsGrow

LEMMA RowStaysBacked ==
  ASSUME DirtInv, ReadsGrow, NEW f \in Files, observed'[f] = observed[f],
         readAt' \in [Files -> [Hashes -> Ages \cup {Never}]]
  PROVE  RowBacked(f)'
<1>1. PICK h \in Hashes : h = observed[f].hash /\ h = observed'[f].hash
  BY DEF DirtInv, DirtTypeOK, Observations
<1>2. PICK age \in Ages \cup {Never} : age = observed[f].age /\ age = observed'[f].age
  BY DEF DirtInv, DirtTypeOK, Observations
<1>3. /\ Reads(f, h) \in Ages \cup {Never} /\ Reads(f, h)' \in Ages \cup {Never}
      /\ Reads(f, h) # Never => Reads(f, h)' # Never /\ Reads(f, h)' >= Reads(f, h)
      /\ Reads(f, h) = LongAgo => Reads(f, h)' = LongAgo
  BY DEF DirtInv, DirtTypeOK, Reads, ReadsGrow
<1>4. age # Never => /\ Reads(f, h) # Never
                     /\ Reads(f, h) >= age - MaxScan \/ Reads(f, h) = LongAgo
  BY <1>1, <1>2 DEF DirtInv, RowBacked
<1>5. age # Never => /\ Reads(f, h)' # Never
                     /\ Reads(f, h)' >= age - MaxScan \/ Reads(f, h)' = LongAgo
  BY <1>2, <1>3, <1>4, DirtConstants, DirtConstantTypes DEF Ages
<1> QED
  BY <1>1, <1>2, <1>5 DEF RowBacked, Reads

\* A step of the process of one session: the others' scans stay as they are.
LEMMA OneScanMoves ==
  ASSUME DirtTypeOK, NEW s \in Sessions, NEW new \in Scans, scan' = [scan EXCEPT ![s] = new]
  PROVE  /\ scan' \in [Sessions -> Scans]
         /\ scan'[s] = new
         /\ \A t \in Sessions \ {s} : scan'[t] = scan[t]
BY DEF DirtTypeOK

\* A process that neither hashes nor observes leaves reads and rows as they are.
LEMMA QuietKeepsDirt ==
  ASSUME DirtInv, NEW s \in Sessions, NEW new \in Scans, scan' = [scan EXCEPT ![s] = new],
         new.step \notin {"observe", "decide"},
         UNCHANGED <<content, observed, readAt, changes>>,
         residual' \in [Files -> Sessions \cup {NoSession}],
         holder' \in Sessions \cup {NoSession}, gitFails' \in 0 .. MaxGitFails
  PROVE  DirtInv'
<1> USE DEF DirtInv
<1>1. /\ scan' \in [Sessions -> Scans] /\ scan'[s] = new
      /\ \A t \in Sessions \ {s} : scan'[t] = scan[t]
  BY OneScanMoves
<1>2. DirtTypeOK'
  BY <1>1 DEF DirtTypeOK
<1>3. ReadsGrow /\ \A f \in Files, h \in Hashes : Reads(f, h)' <= LongAgo
  BY ReadsStay
<1>4. \A t \in Sessions : ScanBacked(t)'
  <2>1. ScanBacked(s)'
    BY <1>1 DEF ScanBacked
  <2>2. ASSUME NEW t \in Sessions \ {s} PROVE ScanBacked(t)'
    BY <1>1, <1>3, ScanStaysBacked
  <2> QED
    BY <2>1, <2>2
<1>5. \A f \in Files : RowBacked(f)'
  BY DEF RowBacked, Reads
<1> QED
  BY <1>2, <1>3, <1>4, <1>5

LEMMA ScanForms ==
  ASSUME NEW old \in Scans
  PROVE  /\ \A step \in Steps : [old EXCEPT !.step = step] \in Scans
                                /\ [old EXCEPT !.step = step].step = step
         /\ NoScan \in Scans /\ NoScan.step = "idle"
BY DirtConstantTypes DEF Scans, NoScan

LEMMA ChangeFileKeeps ==
  ASSUME DirtInv, ChangeFile
  PROVE  DirtInv'
<1> USE DEF DirtInv
<1>1. /\ content' \in [Files -> Contents] /\ changes' \in 0 .. MaxChanged
      /\ UNCHANGED <<observed, residual, holder, scan, readAt, gitFails>>
  BY DirtConstants DEF ChangeFile, DirtTypeOK
<1> QED
  BY <1>1 DEF DirtTypeOK, RowBacked, ScanBacked, Reads

LEMMA AskKeeps ==
  ASSUME DirtInv, NEW s \in Sessions, Ask(s)
  PROVE  DirtInv'
<1>1. PICK op \in OpsOf(s) :
        scan' = [scan EXCEPT ![s] = [NoScan EXCEPT !.op = op, !.step = "status"]]
  BY DEF Ask
<1> DEFINE new == [NoScan EXCEPT !.op = op, !.step = "status"]
<1>2. new \in Scans /\ new.step = "status" /\ scan' = [scan EXCEPT ![s] = new]
  <2>1. op \in Ops
    BY DEF OpsOf, Ops
  <2> QED
    BY <1>1, <2>1, DirtConstantTypes DEF Scans, NoScan, Steps
<1>3. UNCHANGED <<content, observed, residual, holder, readAt, changes, gitFails>>
  BY DEF Ask
<1> HIDE DEF new
<1> QED
  BY <1>2, <1>3, QuietKeepsDirt DEF DirtInv, DirtTypeOK

LEMMA StatusKeeps ==
  ASSUME DirtInv, NEW s \in Sessions, Status(s) \/ StatusFails(s)
  PROVE  DirtInv'
<1>1. scan[s] \in Scans
  BY DEF DirtInv, DirtTypeOK
<1>2. CASE Status(s)
  <2> DEFINE new == [scan[s] EXCEPT !.step = "hash", !.dirty = {f \in Files : content[f] # Committed}]
  <2>1. new \in Scans /\ new.step = "hash"
    BY <1>1 DEF Scans, Steps
  <2>2. scan' = [scan EXCEPT ![s] = new]
        /\ UNCHANGED <<content, observed, residual, holder, readAt, changes, gitFails>>
    BY <1>2 DEF Status
  <2> HIDE DEF new
  <2> QED
    BY <2>1, <2>2, QuietKeepsDirt DEF DirtInv, DirtTypeOK
<1>3. CASE StatusFails(s)
  <2>1. UNCHANGED <<content, observed, residual, holder, readAt, changes>>
        /\ gitFails' \in 0 .. MaxGitFails
    BY <1>3, DirtConstants DEF StatusFails, DirtInv, DirtTypeOK
  <2>2. \E new \in Scans : scan' = [scan EXCEPT ![s] = new] /\ new.step \in {"idle", "hash"}
    <3>1. CASE scan' = [scan EXCEPT ![s] = NoScan]
      BY <1>1, <3>1, ScanForms
    <3>2. CASE scan' = [scan EXCEPT ![s] = [scan[s] EXCEPT !.step = "hash"]]
      BY <1>1, <3>2, ScanForms DEF Steps
    <3> QED
      BY <1>3, <3>1, <3>2 DEF StatusFails, Step, End
  <2> QED
    BY <2>1, <2>2, QuietKeepsDirt DEF DirtInv, DirtTypeOK
<1> QED
  BY <1>2, <1>3

\* A start keeps what it hashed; the others go on without it.
LEMMA AfterObserveForms ==
  ASSUME NEW s, scan[s] \in Scans
  PROVE  /\ AfterObserve(s) \in Scans
         /\ scan[s].op = "start" => AfterObserve(s).step = "decide" /\ AfterObserve(s).hash = scan[s].hash
         /\ scan[s].op = "done" => AfterObserve(s).step = "residual"
         /\ scan[s].op # "start" => AfterObserve(s).step \in {"residual", "idle"}
<1>1. NoScan.hash \in [Files -> Hashes] /\ NoScan \in Scans /\ NoScan.step = "idle"
  BY DirtConstantTypes DEF NoScan
<1>2. CASE scan[s].op = "start"
  <2>1. AfterObserve(s) = [scan[s] EXCEPT !.step = "decide"]
    BY <1>2 DEF AfterObserve
  <2> QED
    BY <1>2, <2>1 DEF Scans, Steps
<1>3. CASE scan[s].op = "done"
  <2>1. AfterObserve(s) = [scan[s] EXCEPT !.step = "residual", !.hash = NoScan.hash]
    BY <1>3 DEF AfterObserve
  <2> HIDE DEF NoScan
  <2> QED
    BY <1>1, <1>3, <2>1 DEF Scans, Steps
<1>4. CASE scan[s].op \notin {"start", "done"}
  <2>1. AfterObserve(s) = NoScan
    BY <1>4 DEF AfterObserve
  <2> QED
    BY <1>1, <1>4, <2>1
<1> QED
  BY <1>2, <1>3, <1>4

LEMMA LateStepsKeep ==
  ASSUME DirtInv, NEW s \in Sessions,
         Decide(s) \/ RecordResidual(s) \/ DeleteWork(s) \/ ScanDies(s) \/ ObserveFails(s)
  PROVE  DirtInv'
<1>1. scan[s] \in Scans
  BY DEF DirtInv, DirtTypeOK
<1>2. UNCHANGED <<content, observed, readAt, changes>>
  BY DEF Decide, RecordResidual, DeleteWork, ScanDies, ObserveFails
<1>3. /\ residual' \in [Files -> Sessions \cup {NoSession}]
      /\ holder' \in Sessions \cup {NoSession}
      /\ gitFails' \in 0 .. MaxGitFails
  <2>1. residual' \in [Files -> Sessions \cup {NoSession}]
    BY DEF Decide, RecordResidual, DeleteWork, ScanDies, ObserveFails, DirtInv, DirtTypeOK
  <2>2. holder' \in Sessions \cup {NoSession}
    BY DEF Decide, RecordResidual, DeleteWork, ScanDies, ObserveFails, DirtInv, DirtTypeOK
  <2>3. gitFails' \in 0 .. MaxGitFails
    BY DirtConstants DEF Decide, RecordResidual, DeleteWork, ScanDies, ObserveFails, DirtInv, DirtTypeOK
  <2> QED
    BY <2>1, <2>2, <2>3
<1>4. \E new \in Scans :
        scan' = [scan EXCEPT ![s] = new] /\ new.step \in {"idle", "delete", "residual"}
  <2>1. CASE scan' = [scan EXCEPT ![s] = NoScan]
    BY <1>1, <2>1, ScanForms
  <2>2. CASE scan' = [scan EXCEPT ![s] = [scan[s] EXCEPT !.step = "delete"]]
    BY <1>1, <2>2, ScanForms DEF Steps
  <2>3. CASE scan' = [scan EXCEPT ![s] = AfterObserve(s)] /\ scan[s].op = "done"
    <3>1. AfterObserve(s) \in Scans /\ AfterObserve(s).step = "residual"
      BY <1>1, <2>3, AfterObserveForms
    <3> QED
      BY <2>3, <3>1
  <2> QED
    BY <2>1, <2>2, <2>3 DEF Decide, RecordResidual, DeleteWork, ScanDies, ObserveFails, Step, End
<1> QED
  BY <1>2, <1>3, <1>4, QuietKeepsDirt

LEMMA HashKeeps ==
  ASSUME DirtInv, NEW s \in Sessions, Hash(s)
  PROVE  DirtInv'
<1> USE DEF DirtInv
<1>1. PICK failed \in SUBSET scan[s].dirty :
        LET hash == [f \in Files |-> IF f \in failed THEN Unhashable ELSE
                       IF f \in scan[s].dirty THEN content[f] ELSE Committed]
        IN /\ gitFails' = gitFails + (IF failed = {} THEN 0 ELSE 1) /\ gitFails' <= MaxGitFails
           /\ scan' = [scan EXCEPT ![s].step = "observe", ![s].hash = hash,
                                   ![s].spent = IF LateClock(s) THEN 0 ELSE @]
           /\ readAt' = [f \in Files |-> [readAt[f] EXCEPT ![hash[f]] =
                IF f \in scan[s].dirty /\ @ = Never THEN 0 ELSE @]]
  BY DEF Hash
<1> DEFINE hash == [f \in Files |-> IF f \in failed THEN Unhashable ELSE
                      IF f \in scan[s].dirty THEN content[f] ELSE Committed]
           spent == IF LateClock(s) THEN 0 ELSE scan[s].spent
           new == [scan[s] EXCEPT !.step = "observe", !.hash = hash, !.spent = spent]
<1>2. UNCHANGED <<content, observed, residual, holder, changes>>
  BY DEF Hash
<1>3. scan[s] \in Scans
  BY DEF DirtTypeOK
<1>4. hash \in [Files -> Hashes]
  BY DirtConstantTypes DEF DirtTypeOK
<1>5. new \in Scans /\ new.step = "observe" /\ new.dirty = scan[s].dirty /\ new.hash = hash
  <2>1. spent \in 0 .. MaxScan
    BY <1>3, DirtConstants DEF Scans
  <2> HIDE DEF hash, spent
  <2> QED
    BY <1>3, <1>4, <2>1 DEF Scans, Steps
<1>6. scan' = [scan EXCEPT ![s] = new]
  BY <1>1
<1> HIDE DEF new
<1>7. /\ scan' \in [Sessions -> Scans] /\ scan'[s] = new
      /\ \A t \in Sessions \ {s} : scan'[t] = scan[t]
  BY <1>5, <1>6, OneScanMoves
<1>8. readAt' = [f \in Files |-> [readAt[f] EXCEPT ![hash[f]] =
        IF f \in scan[s].dirty /\ readAt[f][hash[f]] = Never THEN 0 ELSE readAt[f][hash[f]]]]
  BY <1>1
<1> HIDE DEF hash
<1>9. readAt' \in [Files -> [Hashes -> Ages \cup {Never}]]
  BY <1>4, <1>8, DirtConstantTypes DEF DirtTypeOK
<1>10. \A f \in Files, h \in Hashes :
         Reads(f, h)' = IF h = hash[f] /\ f \in scan[s].dirty /\ Reads(f, h) = Never
                        THEN 0 ELSE Reads(f, h)
  BY <1>4, <1>8 DEF DirtTypeOK, Reads
<1>11. ReadsGrow /\ \A f \in Files, h \in Hashes : Reads(f, h)' <= LongAgo
  <2>1. \A f \in Files, h \in Hashes : Reads(f, h) \in Ages \cup {Never} /\ Reads(f, h) <= LongAgo
    BY DEF DirtTypeOK, Reads
  <2> QED
    BY <1>10, <2>1, DirtConstants, DirtConstantTypes DEF ReadsGrow, Ages
<1>12. gitFails' \in 0 .. MaxGitFails
  <2>1. PICK fails \in {0, 1} : gitFails' = gitFails + fails /\ gitFails' <= MaxGitFails
    BY <1>1, Zenon
  <2>2. gitFails \in 0 .. MaxGitFails
    BY DEF DirtTypeOK
  <2> QED
    BY <2>1, <2>2, DirtConstants
<1>13. DirtTypeOK'
  BY <1>2, <1>7, <1>9, <1>12 DEF DirtTypeOK
<1>14. \A f \in Files : RowBacked(f)'
  BY <1>2, <1>9, <1>11, RowStaysBacked
<1>15. ScanBacked(s)'
  <2> SUFFICES ASSUME NEW f \in scan[s].dirty
               PROVE  (readAt'[f])[hash[f]] # Never
    BY <1>5, <1>7 DEF ScanBacked, Reads
  <2>1. f \in Files /\ hash[f] \in Hashes
    BY <1>3, <1>4 DEF Scans
  <2>2. \A h \in Hashes : h = hash[f] => Reads(f, h)' # Never
    BY <1>10, <2>1, DirtConstantTypes
  <2> QED
    BY <2>1, <2>2 DEF Reads
<1>16. \A t \in Sessions : ScanBacked(t)'
  BY <1>7, <1>11, <1>15, ScanStaysBacked
<1> QED
  BY <1>11, <1>13, <1>14, <1>16

LEMMA ObserveKeeps ==
  ASSUME DirtInv, NEW s \in Sessions, Observe(s)
  PROVE  DirtInv'
<1> USE DEF DirtInv
<1> DEFINE dirty == scan[s].dirty
           found == [f \in Files |-> IF f \in dirty THEN Observation(s, f) ELSE NoObservation]
           old == {f \in dirty : scan[s].op = "start" /\ found[f].age - scan[s].spent >= Hold}
           new == [AfterObserve(s) EXCEPT !.settled = old]
<1>1. /\ scan[s].step = "observe"
      /\ observed' = found
      /\ residual' = [f \in Files |-> IF f \in dirty THEN residual[f] ELSE NoSession]
      /\ scan' = [scan EXCEPT ![s] = new]
      /\ UNCHANGED <<content, holder, readAt, changes, gitFails>>
  BY DEF Observe, At
<1>2. /\ scan[s] \in Scans /\ dirty \subseteq Files
      /\ scan[s].hash \in [Files -> Hashes] /\ scan[s].spent \in 0 .. MaxScan
  BY DEF DirtTypeOK, Scans
<1>3. /\ new \in Scans /\ new.step # "observe"
      /\ new.step = "decide" => new.hash = scan[s].hash /\ new.settled = old
  <2>1. PICK after \in Scans :
          /\ after = AfterObserve(s) /\ after.step # "observe"
          /\ after.step = "decide" => after.hash = scan[s].hash
    BY <1>2, AfterObserveForms
  <2>2. old \in SUBSET Files
    BY <1>2
  <2> HIDE DEF old
  <2>3. new = [after EXCEPT !.settled = old]
    BY <2>1
  <2> QED
    BY <2>1, <2>2, <2>3 DEF Scans
<1> HIDE DEF new
<1>4. /\ scan' \in [Sessions -> Scans] /\ scan'[s] = new
      /\ \A t \in Sessions \ {s} : scan'[t] = scan[t]
  BY <1>1, <1>3, OneScanMoves
<1>5. ASSUME NEW f \in dirty
      PROVE  /\ found[f] = Observation(s, f) /\ found[f] \in Observations
             /\ found[f].hash = scan[s].hash[f]
             /\ Reads(f, found[f].hash) \in Ages /\ found[f].age \in Ages
             /\ Reads(f, found[f].hash) >= found[f].age - MaxScan \/ Reads(f, found[f].hash) = LongAgo
  <2>1. f \in Files /\ scan[s].hash[f] \in Hashes
    BY <1>2
  <2>2. found[f] = Observation(s, f)
    BY <2>1
  <2>3. Reads(f, scan[s].hash[f]) \in Ages
    BY <1>1, <2>1 DEF DirtTypeOK, ScanBacked, Reads
  <2>4. CASE SameDirt(observed[f], scan[s].hash[f])
    <3>1. observed[f] \in Observations /\ observed[f].age # Never /\ observed[f].hash = scan[s].hash[f]
      BY <2>1, <2>4 DEF SameDirt, DirtTypeOK
    <3>2. found[f] = observed[f]
      <4>1. found[f] = [observed[f] EXCEPT !.hash = scan[s].hash[f]]
        BY <2>2, <2>4 DEF Observation
      <4> QED
        BY <3>1, <4>1 DEF Observations
    <3>3. observed[f].age \in Ages
      BY <3>1 DEF Observations
    <3>4. RowBacked(f)
      BY <2>1
    <3> QED
      BY <2>2, <2>3, <3>1, <3>2, <3>3, <3>4 DEF RowBacked
  <2>5. CASE ~SameDirt(observed[f], scan[s].hash[f])
    <3>1. found[f] = [hash |-> scan[s].hash[f], age |-> scan[s].spent]
      BY <2>2, <2>5 DEF Observation
    <3>2. scan[s].spent \in Ages
      BY <1>2, DirtConstants DEF Ages
    <3>3. Reads(f, scan[s].hash[f]) >= scan[s].spent - MaxScan
      BY <1>2, <2>3, DirtConstants DEF Ages
    <3>4. found[f] \in Observations
      BY <2>1, <3>1, <3>2 DEF Observations
    <3> QED
      BY <2>2, <2>3, <3>1, <3>2, <3>3, <3>4
  <2> QED
    BY <2>4, <2>5
<1>6. found \in [Files -> Observations]
  <2>1. ASSUME NEW f \in Files PROVE found[f] \in Observations
    <3>1. CASE f \in dirty
      BY <1>5, <3>1
    <3>2. CASE f \notin dirty
      BY <3>2, DirtConstantTypes
    <3> QED
      BY <3>1, <3>2
  <2> QED
    BY <2>1
<1>7. DirtTypeOK'
  <2>1. residual' \in [Files -> Sessions \cup {NoSession}]
    BY <1>1 DEF DirtTypeOK
  <2> HIDE DEF found
  <2> QED
    BY <1>1, <1>4, <1>6, <2>1 DEF DirtTypeOK
<1>8. ReadsGrow /\ \A f \in Files, h \in Hashes : Reads(f, h)' <= LongAgo
  BY <1>1, ReadsStay
<1>9. ASSUME NEW f \in Files PROVE RowBacked(f)'
  <2>1. CASE f \in dirty
    <3>1. /\ observed'[f] = found[f] /\ readAt' = readAt
      BY <1>1
    <3>2. Reads(f, found[f].hash) # Never
      BY <1>5, <2>1, DirtConstantTypes
    <3> HIDE DEF found
    <3> QED
      BY <1>5, <2>1, <3>1, <3>2 DEF RowBacked, Reads
  <2>2. CASE f \notin dirty
    BY <1>1, <2>2 DEF RowBacked, NoObservation
  <2> QED
    BY <2>1, <2>2
<1>10. ScanBacked(s)'
  <2> SUFFICES ASSUME new.step = "decide", NEW f \in old
               PROVE  readAt[f][scan[s].hash[f]] = LongAgo
    BY <1>1, <1>3, <1>4 DEF ScanBacked, Reads
  <2>1. f \in dirty /\ found[f].age - scan[s].spent >= Hold
    OBVIOUS
  <2>2. /\ Reads(f, found[f].hash) \in Ages /\ found[f].age \in Ages /\ found[f].hash = scan[s].hash[f]
        /\ Reads(f, found[f].hash) >= found[f].age - MaxScan \/ Reads(f, found[f].hash) = LongAgo
    BY <1>5, <2>1
  <2>3. Reads(f, found[f].hash) <= LongAgo
    <3>1. f \in Files /\ scan[s].hash[f] \in Hashes
      BY <1>2
    <3> HIDE DEF found
    <3> QED
      BY <2>2, <3>1
  <2> HIDE DEF found
  <2> QED
    BY <1>2, <2>1, <2>2, <2>3, DirtConstants DEF Ages, Reads
<1>11. \A t \in Sessions : ScanBacked(t)'
  BY <1>4, <1>8, <1>10, ScanStaysBacked
<1> HIDE DEF found, old
<1> QED
  BY <1>7, <1>8, <1>9, <1>11

LEMMA OlderStaysInRange ==
  ASSUME NEW oldest \in Nat, NEW age \in 0 .. oldest
  PROVE  /\ Older(age, oldest) \in 0 .. oldest
         /\ age <= Older(age, oldest) /\ Older(age, oldest) <= age + 1
         /\ Older(age, oldest) = age + 1 \/ (age = oldest /\ Older(age, oldest) = oldest)
BY DEF Older, Never

\* What never was gets no older.
LEMMA NeverStaysNever ==
  ASSUME NEW oldest \in Nat
  PROVE  Older(Never, oldest) = Never /\ Never \notin 0 .. oldest
BY DEF Older, Never

LEMMA DirtTickKeeps ==
  ASSUME DirtInv, DirtTick
  PROVE  DirtInv'
<1> USE DEF DirtInv
<1>1. /\ \A s \in Sessions : scan[s].step = "idle" \/ scan[s].spent < MaxScan
      /\ observed' = [f \in Files |-> [observed[f] EXCEPT !.age = Older(observed[f].age, Oldest)]]
      /\ readAt' = [f \in Files |-> [h \in Hashes |-> Older(readAt[f][h], LongAgo)]]
      /\ scan' = [s \in Sessions |->
           IF scan[s].step = "idle" THEN scan[s] ELSE [scan[s] EXCEPT !.spent = scan[s].spent + 1]]
      /\ UNCHANGED <<content, residual, holder, changes, gitFails>>
  BY DEF DirtTick, At
<1>2. \A f \in Files, h \in Hashes :
        /\ Reads(f, h) \in {Never} \cup 0 .. LongAgo
        /\ Reads(f, h)' = Older(Reads(f, h), LongAgo)
  <2>1. \A f \in Files, h \in Hashes : Reads(f, h) \in Ages \cup {Never} /\ Reads(f, h) <= LongAgo
    BY DEF DirtTypeOK, Reads
  <2>2. \A f \in Files, h \in Hashes : Reads(f, h) \in {Never} \cup 0 .. LongAgo
    BY <2>1, DirtConstants DEF Ages
  <2>3. \A f \in Files, h \in Hashes : Reads(f, h)' = Older(Reads(f, h), LongAgo)
    BY <1>1 DEF Reads
  <2> QED
    BY <2>2, <2>3
<1>3. ReadsGrow /\ \A f \in Files, h \in Hashes :
        Reads(f, h)' <= LongAgo /\ Reads(f, h)' \in {Never} \cup 0 .. LongAgo
  <2>1. ASSUME NEW f \in Files, NEW h \in Hashes
        PROVE  /\ Reads(f, h) # Never => Reads(f, h)' # Never /\ Reads(f, h)' >= Reads(f, h)
               /\ Reads(f, h) = LongAgo => Reads(f, h)' = LongAgo
               /\ Reads(f, h)' <= LongAgo /\ Reads(f, h)' \in {Never} \cup 0 .. LongAgo
    <3> DEFINE was == Reads(f, h)
               now == Older(was, LongAgo)
    <3>1. Reads(f, h)' = now /\ was \in {Never} \cup 0 .. LongAgo
      BY <1>2
    <3>2. Reads(f, h) = was
      OBVIOUS
    <3> HIDE DEF was, now
    <3>3. CASE was = Never
      <4>1. now = Never
        BY <3>3, NeverStaysNever, DirtConstants DEF now
      <4> QED
        BY <3>1, <3>2, <3>3, <4>1, DirtConstants, DirtConstantTypes
    <3>4. CASE was \in 0 .. LongAgo
      <4>1. now \in 0 .. LongAgo /\ was <= now
        BY <3>4, OlderStaysInRange, DirtConstants DEF now
      <4> QED
        BY <3>1, <3>2, <3>4, <4>1, DirtConstants, DirtConstantTypes
    <3> QED
      BY <3>1, <3>3, <3>4
  <2> QED
    BY <2>1 DEF ReadsGrow
<1>4. readAt' \in [Files -> [Hashes -> Ages \cup {Never}]]
  <2>1. \A f \in Files, h \in Hashes : Older(readAt[f][h], LongAgo) \in Ages \cup {Never}
    <3> SUFFICES \A f \in Files, h \in Hashes : Older(Reads(f, h), LongAgo) \in Ages \cup {Never}
      BY DEF Reads
    <3> TAKE f \in Files, h \in Hashes
    <3>1. CASE Reads(f, h) = Never
      BY <3>1, NeverStaysNever, DirtConstants
    <3>2. CASE Reads(f, h) \in 0 .. LongAgo
      BY <3>2, OlderStaysInRange, DirtConstants DEF Ages
    <3> QED
      BY <1>2, <3>1, <3>2
  <2> QED
    BY <1>1, <2>1
<1>5. ASSUME NEW f \in Files
      PROVE  /\ observed'[f] \in Observations
             /\ observed'[f].hash = observed[f].hash
             /\ observed'[f].age = Older(observed[f].age, Oldest)
             /\ observed[f].hash \in Hashes /\ observed[f].age \in Ages \cup {Never}
  <2>1. observed[f] \in Observations /\ observed[f].age \in Ages \cup {Never} /\ observed[f].hash \in Hashes
    BY DEF DirtTypeOK, Observations
  <2>2. Older(observed[f].age, Oldest) \in Ages \cup {Never}
    <3>1. CASE observed[f].age = Never
      BY <3>1, NeverStaysNever, DirtConstants
    <3>2. CASE observed[f].age \in 0 .. Oldest
      BY <3>2, OlderStaysInRange, DirtConstants DEF Ages
    <3> QED
      BY <2>1, <3>1, <3>2 DEF Ages
  <2>3. observed'[f] = [observed[f] EXCEPT !.age = Older(observed[f].age, Oldest)]
    BY <1>1
  <2> QED
    BY <2>1, <2>2, <2>3 DEF Observations
<1>6. observed' \in [Files -> Observations]
  <2>1. observed' = [f \in Files |-> observed'[f]]
    BY <1>1
  <2> QED
    BY <1>5, <2>1
<1>7. ASSUME NEW s \in Sessions
      PROVE  /\ scan'[s] \in Scans /\ scan'[s].step = scan[s].step /\ scan'[s].dirty = scan[s].dirty
             /\ scan'[s].hash = scan[s].hash /\ scan'[s].settled = scan[s].settled
  <2>1. scan[s] \in Scans
    BY DEF DirtTypeOK
  <2>2. CASE scan[s].step = "idle"
    BY <1>1, <2>1, <2>2
  <2>3. CASE scan[s].step # "idle"
    <3>1. scan'[s] = [scan[s] EXCEPT !.spent = scan[s].spent + 1]
      BY <1>1, <2>3
    <3>2. scan[s].spent + 1 \in 0 .. MaxScan
      BY <1>1, <2>1, <2>3, DirtConstants DEF Scans
    <3> QED
      BY <2>1, <3>1, <3>2 DEF Scans
  <2> QED
    BY <2>2, <2>3
<1>8. DirtTypeOK'
  <2>1. scan' = [s \in Sessions |-> scan'[s]]
    BY <1>1
  <2>2. scan' \in [Sessions -> Scans]
    BY <1>7, <2>1
  <2> QED
    BY <1>1, <1>4, <1>6, <2>2 DEF DirtTypeOK
<1>9. ASSUME NEW s \in Sessions PROVE ScanBacked(s)'
  <2>1. scan[s].hash \in [Files -> Hashes] /\ scan[s].dirty \subseteq Files /\ scan[s].settled \subseteq Files
    BY DEF DirtTypeOK, Scans
  <2>2. ScanBacked(s)
    OBVIOUS
  <2> QED
    BY <1>3, <1>7, <2>1, <2>2 DEF ScanBacked, ReadsGrow
<1>10. ASSUME NEW f \in Files PROVE RowBacked(f)'
  <2>1. PICK h \in Hashes : h = observed[f].hash /\ h = observed'[f].hash
    BY <1>5
  <2>2. PICK age \in Ages \cup {Never} : age = observed[f].age
    BY <1>5
  <2>3. age # Never => /\ Reads(f, h) # Never
                       /\ Reads(f, h) >= age - MaxScan \/ Reads(f, h) = LongAgo
    BY <2>1, <2>2 DEF RowBacked
  <2>4. Older(age, Oldest) # Never =>
          /\ Reads(f, h)' # Never
          /\ Reads(f, h)' >= Older(age, Oldest) - MaxScan \/ Reads(f, h)' = LongAgo
    <3>1. CASE age = Never
      BY <3>1, NeverStaysNever, DirtConstants
    <3>2. CASE age # Never
      <4>1. age \in 0 .. Oldest /\ Older(age, Oldest) <= age + 1 /\ Older(age, Oldest) \in 0 .. Oldest
        BY <3>2, OlderStaysInRange, DirtConstants DEF Ages
      <4>2. Reads(f, h) \in 0 .. LongAgo /\ Reads(f, h)' = Older(Reads(f, h), LongAgo)
        BY <1>2, <2>3, <3>2
      <4>3. Reads(f, h)' = Reads(f, h) + 1 \/ Reads(f, h)' = LongAgo
        BY <4>2, OlderStaysInRange, DirtConstants
      <4>4. Reads(f, h)' # Never
        BY <2>3, <3>2, <1>3 DEF ReadsGrow
      <4>5. Reads(f, h) >= age - MaxScan \/ Reads(f, h) = LongAgo
        BY <2>3, <3>2
      <4>6. CASE Reads(f, h)' = LongAgo
        BY <4>4, <4>6
      <4>7. CASE Reads(f, h)' = Reads(f, h) + 1 /\ Reads(f, h) >= age - MaxScan
        <5> DEFINE older == Older(age, Oldest)
        <5>1. older <= age + 1 /\ older \in Nat /\ age \in Nat /\ Reads(f, h) \in Nat /\ MaxScan \in Nat
          BY <4>1, <4>2, DirtConstants
        <5> HIDE DEF older
        <5>2. Reads(f, h)' >= older - MaxScan
          BY <4>7, <5>1
        <5> QED
          BY <4>4, <5>2 DEF older
      <4>8. CASE Reads(f, h)' = Reads(f, h) + 1 /\ Reads(f, h) = LongAgo
        BY <1>3, <4>2, <4>8, DirtConstants
      <4> QED
        BY <4>3, <4>5, <4>6, <4>7, <4>8
    <3> QED
      BY <3>1, <3>2
  <2> QED
    BY <1>5, <2>1, <2>2, <2>4 DEF RowBacked, Reads
<1> QED
  BY <1>3, <1>8, <1>9, <1>10

LEMMA DirtStep ==
  ASSUME DirtInv, [DirtNext]_dirtVars
  PROVE  DirtInv'
<1>1. CASE UNCHANGED dirtVars
  BY <1>1 DEF dirtVars, DirtInv, DirtTypeOK, RowBacked, ScanBacked, Reads
<1> QED
  BY <1>1, ChangeFileKeeps, AskKeeps, StatusKeeps, HashKeeps, ObserveKeeps, LateStepsKeep, DirtTickKeeps
  DEF DirtNext, GoOn

\* The only step that gives the repository a holder is Decide.
LEMMA StartsAreOld ==
  ASSUME DirtInv, DirtNext
  PROVE  StartsOnOldDirt
<1>1. ASSUME NEW s \in Sessions, holder # s, holder' = s, NEW f \in scan[s].dirty
      PROVE  f \in Benign \/ residual[f] = s \/ readAt[f][scan[s].hash[f]] = LongAgo
  <2>1. s # NoSession
    BY DirtAssumption
  <2>2. Decide(s)
    BY <1>1, <2>1 DEF DirtNext, GoOn, ChangeFile, DirtTick, Ask, Status, StatusFails, Hash,
                      Observe, ObserveFails, Decide, RecordResidual, DeleteWork, ScanDies
  <2>3. scan[s].step = "decide" /\ Fresh(s) = {}
    BY <1>1, <2>2 DEF Decide, At
  <2>4. f \in scan[s].settled \/ residual[f] = s \/ f \in Benign
    BY <1>1, <2>3 DEF Fresh, ResidualOwn
  <2> QED
    BY <2>3, <2>4 DEF DirtInv, ScanBacked, Reads
<1> QED
  BY <1>1 DEF StartsOnOldDirt

\* The type invariant of the settling of dirt, with the link of every row, and
\* of every scan that found a file settled, to when its content was read.
THEOREM DirtCorrect == DirtSpec => []DirtInv
  BY DirtStarts, DirtStep, PTL DEF DirtSpec

\* For any sessions, files, hold and length of scans, no order of scans and edits
\* lets a session start on dirt of others that was not there for the hold, unless
\* it is benign.
THEOREM OnlyHeldDirtIsStartedOn == DirtSpec => FreshDirtIsHeld
  BY StartsAreOld, DirtCorrect, PTL DEF DirtSpec, FreshDirtIsHeld

-----------------------------------------------------------------------------
(* Iteration.  A recursive function on 0 .. K exists, and what each of its  *)
(* steps keeps, its last value has: by the least number for which it is     *)
(* otherwise.                                                               *)

LEMMA NaturalsAreWellFounded ==
  IsWellFoundedOn({ss \in Nat \X Nat : ss[1] < ss[2]}, Nat)
BY NatLessThanWellFounded, Zenon DEF OpToRel

LEMMA LeastExists ==
  ASSUME NEW S \in SUBSET Nat, S # {}
  PROVE  \E least \in S : \A n \in S : least <= n
<1> DEFINE Less == {ss \in Nat \X Nat : ss[1] < ss[2]}
<1>1. PICK least \in S : \A n \in S : ~(<<n, least>> \in Less)
  <2>1. IsWellFoundedOn(Less, Nat)
    BY NaturalsAreWellFounded
  <2> HIDE DEF Less
  <2> QED
    BY <2>1, WFMin, Zenon
<1>2. ASSUME NEW n \in S PROVE least <= n
  <2>1. least \in Nat /\ n \in Nat /\ ~(<<n, least>> \in Less)
    BY <1>1
  <2>2. <<n, least>> \in Nat \X Nat /\ <<n, least>>[1] = n /\ <<n, least>>[2] = least
    BY <2>1
  <2>3. ~(n < least)
    BY <2>1, <2>2
  <2> QED
    BY <2>1, <2>3
<1> QED
  BY <1>2

\* What holds at 0, and of every number if it holds of the one before, holds.
LEMMA IterationStays ==
  ASSUME NEW K \in Nat, NEW at, NEW Good, at[0] \in Good[0],
         \A n \in 1 .. K : at[n - 1] \in Good[n - 1] => at[n] \in Good[n]
  PROVE  \A n \in 0 .. K : at[n] \in Good[n]
<1> DEFINE Bad == {n \in 0 .. K : at[n] \notin Good[n]}
<1> SUFFICES ASSUME Bad # {} PROVE FALSE
  OBVIOUS
<1>1. PICK least \in Bad : \A n \in Bad : least <= n
  <2>1. Bad \in SUBSET Nat
    OBVIOUS
  <2> HIDE DEF Bad
  <2> QED
    BY <2>1, LeastExists
<1>2. least \in 1 .. K /\ least - 1 \in 0 .. K /\ ~(least <= least - 1)
  OBVIOUS
<1>3. least - 1 \notin Bad
  BY <1>1, <1>2
<1> QED
  BY <1>1, <1>2, <1>3

Iterates(at, k, S, base, step) ==
  /\ at \in [0 .. k -> S] /\ at[0] = base
  /\ \A n \in 1 .. k : at[n] = step[n][at[n - 1]]

LEMMA IterationExtends ==
  ASSUME NEW k \in Nat, NEW S, NEW base \in S, NEW K \in Nat, k < K,
         NEW step \in [1 .. K -> [S -> S]], NEW at, Iterates(at, k, S, base, step)
  PROVE  \E longer : Iterates(longer, k + 1, S, base, step)
<1> DEFINE longer == [n \in 0 .. k + 1 |-> IF n = k + 1 THEN step[k + 1][at[k]] ELSE at[n]]
<1>1. /\ at \in [0 .. k -> S] /\ at[0] = base
      /\ \A n \in 1 .. k : at[n] = step[n][at[n - 1]]
  BY DEF Iterates
<1>2. k + 1 \in 1 .. K /\ at[k] \in S
  BY <1>1
<1>3. step[k + 1][at[k]] \in S
  BY <1>2
<1>4. /\ longer \in [0 .. k + 1 -> S] /\ longer[k + 1] = step[k + 1][at[k]]
      /\ \A n \in 0 .. k : longer[n] = at[n]
  BY <1>1, <1>3
<1> HIDE DEF longer
<1>5. longer[0] = base
  BY <1>1, <1>4
<1>6. ASSUME NEW n \in 1 .. k + 1 PROVE longer[n] = step[n][longer[n - 1]]
  <2>1. CASE n = k + 1
    BY <1>4, <2>1
  <2>2. CASE n # k + 1
    <3>1. n \in 1 .. k /\ n \in 0 .. k /\ n - 1 \in 0 .. k
      BY <2>2
    <3>2. longer[n] = at[n] /\ longer[n - 1] = at[n - 1] /\ at[n] = step[n][at[n - 1]]
      BY <1>1, <1>4, <3>1
    <3> QED
      BY <3>2
  <2> QED
    BY <2>1, <2>2
<1> QED
  BY <1>4, <1>5, <1>6 DEF Iterates

LEMMA IterationExists ==
  ASSUME NEW K \in Nat, NEW S, NEW base \in S, NEW step \in [1 .. K -> [S -> S]]
  PROVE  \E at : Iterates(at, K, S, base, step)
<1> DEFINE Bad == {k \in 0 .. K : ~ \E at : Iterates(at, k, S, base, step)}
<1>0. K \in 0 .. K
  OBVIOUS
<1> SUFFICES ASSUME Bad # {} PROVE FALSE
  BY <1>0, Zenon
<1>1. PICK least \in Bad : \A k \in Bad : least <= k
  <2>1. Bad \in SUBSET Nat
    OBVIOUS
  <2> HIDE DEF Bad
  <2> QED
    BY <2>1, LeastExists
<1>2. Iterates([n \in 0 .. 0 |-> base], 0, S, base, step)
  <2> DEFINE only == [n \in 0 .. 0 |-> base]
  <2>1. only \in [0 .. 0 -> S] /\ only[0] = base
    OBVIOUS
  <2>2. \A n \in 1 .. 0 : only[n] = step[n][only[n - 1]]
    OBVIOUS
  <2> HIDE DEF only
  <2> QED
    BY <2>1, <2>2 DEF Iterates
<1>3. least \in 0 .. K /\ ~ \E at : Iterates(at, least, S, base, step)
  BY <1>1
<1>4. least # 0
  BY <1>2, <1>3
<1>5. least - 1 \in Nat /\ least - 1 \in 0 .. K /\ least - 1 < K /\ least - 1 + 1 = least /\ ~(least <= least - 1)
  BY <1>3, <1>4
<1>6. least - 1 \notin Bad
  BY <1>1, <1>5
<1>7. PICK at : Iterates(at, least - 1, S, base, step)
  BY <1>5, <1>6
<1>8. PICK k \in Nat : k = least - 1
  BY <1>5
<1>9. \E longer : Iterates(longer, k + 1, S, base, step)
  BY <1>5, <1>7, <1>8, IterationExtends
<1> QED
  BY <1>3, <1>5, <1>8, <1>9

-----------------------------------------------------------------------------
(* The hooks file.  What inserting and removing an entry do to a document.  *)

LEMMA RemoveAtFacts ==
  ASSUME NEW D, NEW doc \in Seq(D), NEW p \in 1 .. Len(doc)
  PROVE  /\ RemoveAt(doc, p) \in Seq(D) /\ Len(RemoveAt(doc, p)) = Len(doc) - 1
         /\ \A k \in 1 .. p - 1 : RemoveAt(doc, p)[k] = doc[k]
         /\ \A k \in p .. Len(doc) - 1 : RemoveAt(doc, p)[k] = doc[k + 1]
<1> DEFINE before == SubSeq(doc, 1, p - 1)
           after == SubSeq(doc, p + 1, Len(doc))
<1>1. /\ before \in Seq(D) /\ Len(before) = p - 1
      /\ \A k \in 1 .. p - 1 : before[k] = doc[k]
  OBVIOUS
<1>2. /\ after \in Seq(D) /\ Len(after) = Len(doc) - p
      /\ \A k \in 1 .. Len(doc) - p : after[k] = doc[p + k]
  OBVIOUS
<1>3. RemoveAt(doc, p) = before \o after
  BY DEF RemoveAt
<1> HIDE DEF before, after
<1>4. RemoveAt(doc, p) \in Seq(D) /\ Len(RemoveAt(doc, p)) = Len(doc) - 1
  BY <1>1, <1>2, <1>3
<1>5. ASSUME NEW k \in 1 .. p - 1 PROVE RemoveAt(doc, p)[k] = doc[k]
  BY <1>1, <1>2, <1>3
<1>6. ASSUME NEW k \in p .. Len(doc) - 1 PROVE RemoveAt(doc, p)[k] = doc[k + 1]
  <2>1. RemoveAt(doc, p)[k] = after[k - (p - 1)]
    BY <1>1, <1>2, <1>3
  <2>2. k - (p - 1) \in 1 .. Len(doc) - p /\ p + (k - (p - 1)) = k + 1
    OBVIOUS
  <2> QED
    BY <1>2, <2>1, <2>2
<1> QED
  BY <1>4, <1>5, <1>6

LEMMA InsertAtFacts ==
  ASSUME NEW D, NEW doc \in Seq(D), NEW p \in 1 .. Len(doc) + 1, NEW x \in D
  PROVE  /\ InsertAt(doc, p, x) \in Seq(D) /\ Len(InsertAt(doc, p, x)) = Len(doc) + 1
         /\ InsertAt(doc, p, x)[p] = x
         /\ \A k \in 1 .. p - 1 : InsertAt(doc, p, x)[k] = doc[k]
         /\ \A k \in p .. Len(doc) : InsertAt(doc, p, x)[k + 1] = doc[k]
<1> DEFINE before == SubSeq(doc, 1, p - 1)
           after == SubSeq(doc, p, Len(doc))
           head == before \o <<x>>
<1>1. /\ before \in Seq(D) /\ Len(before) = p - 1
      /\ \A k \in 1 .. p - 1 : before[k] = doc[k]
  OBVIOUS
<1>2. /\ after \in Seq(D) /\ Len(after) = Len(doc) - p + 1
      /\ \A k \in 1 .. Len(doc) - p + 1 : after[k] = doc[p + k - 1]
  OBVIOUS
<1>3. InsertAt(doc, p, x) = head \o after
  BY DEF InsertAt
<1> HIDE DEF before, after
<1>4. /\ head \in Seq(D) /\ Len(head) = p /\ head[p] = x
      /\ \A k \in 1 .. p - 1 : head[k] = doc[k]
  <2>1. <<x>> \in Seq(D) /\ Len(<<x>>) = 1 /\ <<x>>[1] = x
    OBVIOUS
  <2>2. Len(before) = p - 1 /\ (p - 1) + 1 = p
    BY <1>1
  <2>3. head \in Seq(D) /\ Len(head) = p
    <3>1. head \in Seq(D) /\ Len(head) = Len(before) + Len(<<x>>)
      BY <1>1, <2>1, ConcatProperties
    <3> QED
      BY <2>1, <2>2, <3>1
  <2>4. head[p] = x
    BY <1>1, <2>1, <2>2
  <2>5. ASSUME NEW k \in 1 .. p - 1 PROVE head[k] = doc[k]
    BY <1>1, <2>2, <2>5
  <2> QED
    BY <2>3, <2>4, <2>5
<1> HIDE DEF head
<1>5. InsertAt(doc, p, x) \in Seq(D) /\ Len(InsertAt(doc, p, x)) = Len(doc) + 1
  <2>1. head \in Seq(D) /\ after \in Seq(D)
    BY <1>2, <1>4
  <2>2. Len(head) = p /\ Len(after) = Len(doc) - p + 1
    BY <1>2, <1>4
  <2>3. head \o after \in Seq(D) /\ Len(head \o after) = Len(head) + Len(after)
    BY <2>1
  <2> QED
    BY <1>3, <2>2, <2>3
<1>6. ASSUME NEW k \in 1 .. p PROVE InsertAt(doc, p, x)[k] = head[k]
  <2>1. k \in 1 .. Len(head) + Len(after) /\ k <= Len(head)
    BY <1>2, <1>4
  <2> QED
    BY <1>2, <1>3, <1>4, <2>1, ConcatProperties
<1>7. ASSUME NEW k \in p .. Len(doc) PROVE InsertAt(doc, p, x)[k + 1] = doc[k]
  <2>1. k + 1 - p \in 1 .. Len(doc) - p + 1 /\ p + (k + 1 - p) - 1 = k
    OBVIOUS
  <2>2. InsertAt(doc, p, x)[k + 1] = after[k + 1 - p]
    BY <1>2, <1>3, <1>4
  <2> QED
    BY <1>2, <2>1, <2>2
<1> QED
  BY <1>4, <1>5, <1>6, <1>7

LEMMA InsertUndone ==
  ASSUME NEW D, NEW doc \in Seq(D), NEW p \in 1 .. Len(doc) + 1, NEW x \in D
  PROVE  RemoveAt(InsertAt(doc, p, x), p) = doc
<1> DEFINE with == InsertAt(doc, p, x)
           undone == RemoveAt(with, p)
<1>1. /\ with \in Seq(D) /\ Len(with) = Len(doc) + 1
      /\ \A k \in 1 .. p - 1 : with[k] = doc[k]
      /\ \A k \in p .. Len(doc) : with[k + 1] = doc[k]
  BY InsertAtFacts
<1> HIDE DEF with
<1>2. /\ undone \in Seq(D) /\ Len(undone) = Len(doc)
      /\ \A k \in 1 .. p - 1 : undone[k] = with[k]
      /\ \A k \in p .. Len(doc) : undone[k] = with[k + 1]
  <2>1. p \in 1 .. Len(with) /\ Len(with) - 1 = Len(doc)
    BY <1>1
  <2> QED
    BY <1>1, <2>1, RemoveAtFacts
<1> HIDE DEF undone
<1>3. \A k \in 1 .. Len(doc) : undone[k] = doc[k]
  BY <1>1, <1>2
<1> QED
  BY <1>2, <1>3 DEF undone, with

\* Of is computed entry by entry.
Gathers(of, doc, kind) ==
  /\ of[0] = <<>>
  /\ \A n \in 1 .. Len(doc) :
       of[n] = IF doc[n].kind = kind THEN Append(of[n - 1], doc[n]) ELSE of[n - 1]

LEMMA OfGathers ==
  ASSUME NEW doc \in Seq(Entries), NEW kind
  PROVE  \E of : Gathers(of, doc, kind) /\ Of(doc, kind) = of[Len(doc)]
<1> DEFINE K == Len(doc)
           Def(f) == [n \in 0 .. K |->
             IF n = 0 THEN <<>> ELSE IF doc[n].kind = kind THEN Append(f[n - 1], doc[n]) ELSE f[n - 1]]
           S == Seq(Entries)
           base == <<>>
           step == [n \in 1 .. K |-> [x \in S |-> IF doc[n].kind = kind THEN Append(x, doc[n]) ELSE x]]
           of == CHOOSE f : f = Def(f)
<1>1. K \in Nat /\ base \in S /\ step \in [1 .. K -> [S -> S]]
  OBVIOUS
<1>2. PICK f : Iterates(f, K, S, base, step)
  <2> HIDE DEF K, S, base, step
  <2> QED
    BY <1>1, IterationExists
<1>3. \A n \in 1 .. K : f[n] = IF doc[n].kind = kind THEN Append(f[n - 1], doc[n]) ELSE f[n - 1]
  <2> SUFFICES ASSUME NEW n \in 1 .. K
               PROVE  f[n] = IF doc[n].kind = kind THEN Append(f[n - 1], doc[n]) ELSE f[n - 1]
    OBVIOUS
  <2>1. f[n - 1] \in S /\ f[n] = step[n][f[n - 1]]
    <3> HIDE DEF S, base, step
    <3>1. n - 1 \in 0 .. K
      BY <1>1
    <3> HIDE DEF K
    <3> QED
      BY <1>2, <3>1 DEF Iterates
  <2>2. step[n][f[n - 1]] = IF doc[n].kind = kind THEN Append(f[n - 1], doc[n]) ELSE f[n - 1]
    BY <2>1
  <2> QED
    BY <2>1, <2>2
<1>4. f = Def(f)
  <2>1. f = [n \in 0 .. K |-> f[n]] /\ f[0] = <<>>
    BY <1>2 DEF Iterates
  <2>2. \A n \in 0 .. K : n # 0 => n \in 1 .. K
    BY <1>1
  <2> HIDE DEF K, S, step
  <2> QED
    BY <1>3, <2>1, <2>2
<1>5. of = Def(of)
  BY <1>4
<1>6. Of(doc, kind) = of[K]
  BY DEF Of
<1> HIDE DEF of
<1>7. Gathers(of, doc, kind)
  <2>1. of[0] = <<>>
    BY <1>1, <1>5
  <2>2. \A n \in 1 .. K : n \in 0 .. K /\ n # 0
    BY <1>1
  <2>3. \A n \in 1 .. K : of[n] = IF doc[n].kind = kind THEN Append(of[n - 1], doc[n]) ELSE of[n - 1]
    <3> HIDE DEF K, S, base, step
    <3> QED
      BY <1>5, <2>2
  <2> HIDE DEF Def
  <2> QED
    BY <2>1, <2>3 DEF Gathers
<1> QED
  BY <1>6, <1>7

\* An entry of another kind may go.
LEMMA OfRemoved ==
  ASSUME NEW doc \in Seq(Entries), NEW p \in 1 .. Len(doc), NEW kind, doc[p].kind # kind
  PROVE  Of(RemoveAt(doc, p), kind) = Of(doc, kind)
<1> DEFINE less == RemoveAt(doc, p)
<1>1. /\ less \in Seq(Entries) /\ Len(less) = Len(doc) - 1
      /\ \A k \in 1 .. p - 1 : less[k] = doc[k]
      /\ \A k \in p .. Len(doc) - 1 : less[k] = doc[k + 1]
  BY RemoveAtFacts
<1> HIDE DEF less
<1>2. PICK of : Gathers(of, doc, kind) /\ Of(doc, kind) = of[Len(doc)]
  BY OfGathers
<1>3. PICK rest : Gathers(rest, less, kind) /\ Of(less, kind) = rest[Len(less)]
  BY <1>1, OfGathers
<1> DEFINE Good == [n \in 0 .. Len(doc) - 1 |-> IF n < p THEN {of[n]} ELSE {of[n + 1]}]
<1>4. rest[0] \in Good[0]
  BY <1>2, <1>3 DEF Gathers
<1>5. ASSUME NEW n \in 1 .. Len(doc) - 1, rest[n - 1] \in Good[n - 1]
      PROVE  rest[n] \in Good[n]
  <2>1. rest[n] = IF less[n].kind = kind THEN Append(rest[n - 1], less[n]) ELSE rest[n - 1]
    BY <1>1, <1>3 DEF Gathers
  <2>2. \A m \in 1 .. Len(doc) : of[m] = IF doc[m].kind = kind THEN Append(of[m - 1], doc[m]) ELSE of[m - 1]
    BY <1>2 DEF Gathers
  <2>3. CASE n < p
    <3>1. less[n] = doc[n] /\ rest[n - 1] = of[n - 1] /\ n \in 1 .. Len(doc)
      BY <1>1, <1>5, <2>3
    <3>2. rest[n] = of[n]
      BY <2>1, <2>2, <3>1
    <3> QED
      BY <2>3, <3>2
  <2>4. CASE n = p
    <3>1. less[n] = doc[n + 1] /\ rest[n - 1] = of[n - 1] /\ n \in 1 .. Len(doc) /\ n + 1 \in 1 .. Len(doc)
      BY <1>1, <1>5, <2>4
    <3>2. of[n] = of[n - 1]
      BY <2>2, <2>4, <3>1
    <3>3. of[n + 1] = IF doc[n + 1].kind = kind THEN Append(of[n], doc[n + 1]) ELSE of[n]
      BY <2>2, <3>1
    <3>4. rest[n] = of[n + 1]
      BY <2>1, <3>1, <3>2, <3>3
    <3> QED
      BY <2>4, <3>4
  <2>5. CASE n > p
    <3>1. less[n] = doc[n + 1] /\ rest[n - 1] = of[n] /\ n + 1 \in 1 .. Len(doc)
      BY <1>1, <1>5, <2>5
    <3>2. of[n + 1] = IF doc[n + 1].kind = kind THEN Append(of[n], doc[n + 1]) ELSE of[n]
      BY <2>2, <3>1
    <3>3. rest[n] = of[n + 1]
      BY <2>1, <3>1, <3>2
    <3> QED
      BY <2>5, <3>3
  <2> QED
    BY <2>3, <2>4, <2>5
<1>6. PICK K \in Nat : K = Len(doc) - 1
  OBVIOUS
<1>7. rest[K] \in Good[K]
  <2> HIDE DEF Good
  <2>1. \A n \in 0 .. K : rest[n] \in Good[n]
    BY <1>4, <1>5, <1>6, IterationStays
  <2> QED
    BY <1>6, <2>1
<1>8. CASE p = Len(doc)
  <2>1. of[p] = of[p - 1] /\ rest[K] = of[p - 1]
    BY <1>2, <1>6, <1>7, <1>8 DEF Gathers
  <2> QED
    BY <1>1, <1>2, <1>3, <1>6, <1>8, <2>1 DEF less
<1>9. CASE p # Len(doc)
  <2>1. rest[K] = of[K + 1]
    BY <1>6, <1>7, <1>9
  <2> QED
    BY <1>1, <1>2, <1>3, <1>6, <2>1 DEF less
<1> QED
  BY <1>8, <1>9

LEMMA OfInserted ==
  ASSUME NEW doc \in Seq(Entries), NEW p \in 1 .. Len(doc) + 1, NEW x \in Entries,
         NEW kind, x.kind # kind
  PROVE  Of(InsertAt(doc, p, x), kind) = Of(doc, kind)
<1>1. PICK with : with = InsertAt(doc, p, x)
  OBVIOUS
<1>2. with \in Seq(Entries) /\ p \in 1 .. Len(with) /\ with[p] = x
  BY <1>1, InsertAtFacts
<1>3. Of(RemoveAt(with, p), kind) = Of(with, kind)
  BY <1>2, OfRemoved
<1> QED
  BY <1>1, <1>3, InsertUndone

LEMMA OfReplaced ==
  ASSUME NEW doc \in Seq(Entries), NEW p \in 1 .. Len(doc), NEW x \in Entries,
         NEW kind, x.kind # kind, doc[p].kind # kind
  PROVE  Of([doc EXCEPT ![p] = x], kind) = Of(doc, kind)
<1> DEFINE new == [doc EXCEPT ![p] = x]
<1>1. /\ new \in Seq(Entries) /\ Len(new) = Len(doc) /\ new[p] = x
      /\ \A k \in 1 .. Len(doc) : k # p => new[k] = doc[k]
  OBVIOUS
<1> HIDE DEF new
<1>2. PICK of : Gathers(of, doc, kind) /\ Of(doc, kind) = of[Len(doc)]
  BY OfGathers
<1>3. PICK now : Gathers(now, new, kind) /\ Of(new, kind) = now[Len(new)]
  BY <1>1, OfGathers
<1> DEFINE Good == [n \in 0 .. Len(doc) |-> {of[n]}]
<1>4. now[0] \in Good[0]
  BY <1>2, <1>3 DEF Gathers
<1>5. ASSUME NEW n \in 1 .. Len(doc), now[n - 1] \in Good[n - 1]
      PROVE  now[n] \in Good[n]
  <2>1. /\ now[n] = IF new[n].kind = kind THEN Append(now[n - 1], new[n]) ELSE now[n - 1]
        /\ of[n] = IF doc[n].kind = kind THEN Append(of[n - 1], doc[n]) ELSE of[n - 1]
    BY <1>1, <1>2, <1>3 DEF Gathers
  <2>2. now[n - 1] = of[n - 1]
    BY <1>5
  <2>3. now[n] = of[n]
    BY <1>1, <2>1, <2>2
  <2> QED
    BY <2>3
<1>6. \A n \in 0 .. Len(doc) : now[n] \in Good[n]
  <2> HIDE DEF Good
  <2>1. PICK K \in Nat : K = Len(doc)
    OBVIOUS
  <2> QED
    BY <1>4, <1>5, <2>1, IterationStays
<1> QED
  BY <1>1, <1>2, <1>3, <1>6 DEF new

\* Nothing of a kind that no entry has.
LEMMA OfNothing ==
  ASSUME NEW doc \in Seq(Entries), NEW kind, \A i \in 1 .. Len(doc) : doc[i].kind # kind
  PROVE  Of(doc, kind) = <<>>
<1>1. PICK of : Gathers(of, doc, kind) /\ Of(doc, kind) = of[Len(doc)]
  BY OfGathers
<1> DEFINE Good == [n \in 0 .. Len(doc) |-> {<<>>}]
<1>2. of[0] \in Good[0] /\ \A n \in 1 .. Len(doc) : of[n - 1] \in Good[n - 1] => of[n] \in Good[n]
  BY <1>1 DEF Gathers
<1>3. \A n \in 0 .. Len(doc) : of[n] \in Good[n]
  <2> HIDE DEF Good
  <2>1. PICK K \in Nat : K = Len(doc)
    OBVIOUS
  <2> QED
    BY <1>2, <2>1, IterationStays
<1> QED
  BY <1>1, <1>3

LEMMA RemovedIsDocument ==
  ASSUME NEW doc \in Seq(Entries), IsDocument(doc), NEW p \in 1 .. Len(doc)
  PROVE  IsDocument(RemoveAt(doc, p))
<1> DEFINE less == RemoveAt(doc, p)
           old(k) == IF k < p THEN k ELSE k + 1
<1>1. /\ less \in Seq(Entries) /\ Len(less) = Len(doc) - 1
      /\ \A k \in 1 .. p - 1 : less[k] = doc[k]
      /\ \A k \in p .. Len(doc) - 1 : less[k] = doc[k + 1]
  BY RemoveAtFacts
<1> HIDE DEF less
<1>2. ASSUME NEW k \in 1 .. Len(less) PROVE old(k) \in 1 .. Len(doc) /\ less[k] = doc[old(k)]
  <2>1. CASE k < p
    BY <1>1, <2>1
  <2>2. CASE ~(k < p)
    BY <1>1, <2>2
  <2> QED
    BY <2>1, <2>2
<1>3. ASSUME NEW i \in 1 .. Len(less), NEW j \in 1 .. Len(less), i < j, less[i].event = less[j].event
      PROVE  /\ "odd" \notin {less[i].kind, less[j].kind}
             /\ \A k \in i .. j : less[k].event = less[i].event
  <2>1. old(i) < old(j) /\ \A k \in i .. j : k \in 1 .. Len(less) /\ old(k) \in old(i) .. old(j)
    BY <1>1, <1>3
  <2>2. /\ "odd" \notin {doc[old(i)].kind, doc[old(j)].kind}
        /\ \A k \in old(i) .. old(j) : doc[k].event = doc[old(i)].event
    <3>1. old(i) \in DOMAIN doc /\ old(j) \in DOMAIN doc /\ doc[old(i)].event = doc[old(j)].event
      <4> HIDE DEF old
      <4>1. /\ old(i) \in 1 .. Len(doc) /\ less[i] = doc[old(i)]
            /\ old(j) \in 1 .. Len(doc) /\ less[j] = doc[old(j)]
        BY <1>2
      <4>2. DOMAIN doc = 1 .. Len(doc)
        BY LenProperties
      <4> QED
        BY <1>3, <4>1, <4>2
    <3> HIDE DEF old
    <3> QED
      BY <2>1, <3>1 DEF IsDocument
  <2> HIDE DEF old
  <2> QED
    BY <1>2, <2>1, <2>2
<1>4. DOMAIN less = 1 .. Len(less)
  BY <1>1
<1> QED
  BY <1>3, <1>4 DEF IsDocument, less

EntryOf(e) == [event |-> e, kind |-> "exact"]

PlacesOf(doc, e) == {i \in DOMAIN doc : doc[i].event = e}

\* A handler goes to the end of its event or of the file, or in the place of an
\* odd value.
GoesTo(doc, e, p) ==
  /\ p \in 1 .. Len(doc) + 1 /\ Insert(doc, e) = InsertAt(doc, p, EntryOf(e))
  /\ \A i \in PlacesOf(doc, e) : i < p /\ doc[i].kind # "odd"
  /\ IF PlacesOf(doc, e) = {} THEN p = Len(doc) + 1 ELSE p - 1 \in PlacesOf(doc, e)

Replaces(doc, e, p) ==
  /\ p \in 1 .. Len(doc) /\ doc[p].kind = "odd" /\ doc[p].event = e
  /\ Insert(doc, e) = [doc EXCEPT ![p] = EntryOf(e)]

LEMMA InsertForms ==
  ASSUME NEW doc \in Seq(Entries), IsDocument(doc), NEW e \in LinkedEvents
  PROVE  \E p : GoesTo(doc, e, p) \/ Replaces(doc, e, p)
<1> DEFINE places == PlacesOf(doc, e)
           place == IF places = {} THEN Len(doc)
                    ELSE CHOOSE i \in places : \A j \in places : i >= j
<1>1. Insert(doc, e) = IF \E i \in places : doc[i].kind = "odd"
                       THEN [doc EXCEPT ![place] = EntryOf(e)]
                       ELSE InsertAt(doc, place + 1, EntryOf(e))
  BY DEF Insert, PlacesOf, EntryOf
<1>2. places \subseteq 1 .. Len(doc) /\ DOMAIN doc = 1 .. Len(doc)
  BY DEF PlacesOf
<1>3. places # {} => place \in places /\ \A j \in places : place >= j
  <2> SUFFICES ASSUME places # {} PROVE \E i \in places : \A j \in places : i >= j
    OBVIOUS
  <2> DEFINE S == {Len(doc) - i : i \in places}
  <2>1. S \in SUBSET Nat /\ S # {}
    BY <1>2
  <2>2. PICK least \in S : \A n \in S : least <= n
    <3> HIDE DEF S
    <3> QED
      BY <2>1, LeastExists
  <2>3. PICK i \in places : least = Len(doc) - i
    OBVIOUS
  <2>4. ASSUME NEW j \in places PROVE i >= j
    <3>1. Len(doc) - j \in S
      OBVIOUS
    <3>2. Len(doc) - i <= Len(doc) - j
      BY <2>2, <2>3, <3>1
    <3> HIDE DEF places, S
    <3> QED
      BY <1>2, <3>2
  <2> QED
    BY <2>4
<1>4. place \in 0 .. Len(doc) /\ (places # {} => place \in 1 .. Len(doc))
  BY <1>2, <1>3
<1>5. CASE \E i \in places : doc[i].kind = "odd"
  <2>1. PICK i \in places : doc[i].kind = "odd"
    BY <1>5
  <2>2. i \in 1 .. Len(doc) /\ place \in 1 .. Len(doc) /\ i <= place
        /\ doc[i].event = e /\ doc[place].event = e
    BY <1>2, <1>3, <1>4 DEF PlacesOf
  <2> HIDE DEF place
  <2>3. place = i
    <3>1. i < place => doc[i].kind # "odd"
      BY <1>2, <2>2 DEF IsDocument
    <3> QED
      BY <2>1, <2>2, <3>1
  <2> QED
    BY <1>1, <1>5, <2>1, <2>2, <2>3 DEF Replaces
<1>6. CASE ~ \E i \in places : doc[i].kind = "odd"
  <2> HIDE DEF place
  <2>1. \A i \in places : i < place + 1 /\ doc[i].kind # "odd"
    BY <1>2, <1>3, <1>4, <1>6
  <2>2. IF places = {} THEN place + 1 = Len(doc) + 1 ELSE (place + 1) - 1 \in places
    BY <1>3, <1>4 DEF place
  <2>3. place + 1 \in 1 .. Len(doc) + 1
    BY <1>4
  <2>4. Insert(doc, e) = InsertAt(doc, place + 1, EntryOf(e))
    BY <1>1, <1>6
  <2>5. GoesTo(doc, e, place + 1)
    <3>1. PlacesOf(doc, e) = places
      OBVIOUS
    <3>2. \A i \in PlacesOf(doc, e) : i < place + 1 /\ doc[i].kind # "odd"
      BY <2>1, <3>1
    <3>3. IF PlacesOf(doc, e) = {} THEN place + 1 = Len(doc) + 1 ELSE (place + 1) - 1 \in PlacesOf(doc, e)
      BY <2>2, <3>1
    <3> HIDE DEF places
    <3> QED
      BY <2>3, <2>4, <3>2, <3>3, Zenon DEF GoesTo
  <2> QED
    BY <2>5
<1> QED
  BY <1>5, <1>6

\* An entry that is inserted moves those behind it by one.
LEMMA EntryIsInserted ==
  ASSUME NEW doc \in Seq(Entries), NEW p \in 1 .. Len(doc) + 1, NEW x \in Entries,
         NEW new, new = InsertAt(doc, p, x)
  PROVE  /\ new \in Seq(Entries) /\ Len(new) = Len(doc) + 1 /\ new[p] = x
         /\ \A k \in 1 .. p - 1 : new[k] = doc[k]
         /\ \A k \in p .. Len(doc) : new[k + 1] = doc[k]
<1>1. /\ InsertAt(doc, p, x) \in Seq(Entries) /\ Len(InsertAt(doc, p, x)) = Len(doc) + 1
      /\ InsertAt(doc, p, x)[p] = x
      /\ \A k \in 1 .. p - 1 : InsertAt(doc, p, x)[k] = doc[k]
      /\ \A k \in p .. Len(doc) : InsertAt(doc, p, x)[k + 1] = doc[k]
  BY InsertAtFacts
<1> QED
  BY <1>1, Zenon

\* The new entry is at p, and the others are those of the document.
HoldsAlso(new, doc, x, p, old) ==
  /\ p \in 1 .. Len(new) /\ new[p] = x
  /\ \A k \in 1 .. Len(new) : k # p => old[k] \in 1 .. Len(doc) /\ new[k] = doc[old[k]]
  /\ \A k, m \in 1 .. Len(new) : k # p /\ m # p /\ old[k] = old[m] => k = m
  /\ \A i \in 1 .. Len(doc) : IsOwned(doc[i]) => \E k \in 1 .. Len(new) : k # p /\ old[k] = i

LEMMA InsertHoldsAlso ==
  ASSUME NEW doc \in Seq(Entries), IsDocument(doc), NEW e \in LinkedEvents
  PROVE  /\ Insert(doc, e) \in Seq(Entries)
         /\ \E p, old : HoldsAlso(Insert(doc, e), doc, EntryOf(e), p, old)
<1> DEFINE new == Insert(doc, e)
<1>1. EntryOf(e) \in Entries
  BY DEF EntryOf, Entries, Kinds
<1>2. PICK p : GoesTo(doc, e, p) \/ Replaces(doc, e, p)
  BY InsertForms
<1>3. CASE GoesTo(doc, e, p)
  <2>1. p \in 1 .. Len(doc) + 1 /\ new = InsertAt(doc, p, EntryOf(e))
    BY <1>3 DEF GoesTo
  <2>2. /\ new \in Seq(Entries) /\ Len(new) = Len(doc) + 1 /\ new[p] = EntryOf(e)
        /\ \A k \in 1 .. p - 1 : new[k] = doc[k]
        /\ \A k \in p .. Len(doc) : new[k + 1] = doc[k]
    <3> HIDE DEF new
    <3> QED
      BY <1>1, <2>1, EntryIsInserted
  <2> HIDE DEF new
  <2> DEFINE old == [k \in 1 .. Len(new) |-> IF k < p THEN k ELSE k - 1]
  <2>3. ASSUME NEW k \in 1 .. Len(new), k # p
        PROVE  old[k] \in 1 .. Len(doc) /\ new[k] = doc[old[k]]
    <3>1. CASE k < p
      BY <2>1, <2>2, <3>1
    <3>2. CASE k > p
      <4>1. k - 1 \in p .. Len(doc) /\ k = (k - 1) + 1 /\ old[k] = k - 1 /\ k - 1 \in 1 .. Len(doc)
        BY <2>1, <2>2, <3>2
      <4> QED
        BY <2>2, <4>1
    <3> QED
      BY <2>1, <2>3, <3>1, <3>2
  <2>4. \A k, m \in 1 .. Len(new) : k # p /\ m # p /\ old[k] = old[m] => k = m
    BY <2>1, <2>2
  <2>5. ASSUME NEW i \in 1 .. Len(doc) PROVE \E k \in 1 .. Len(new) : k # p /\ old[k] = i
    <3>1. CASE i < p
      <4>1. i \in 1 .. Len(new) /\ i # p /\ old[i] = i
        BY <2>1, <2>2, <3>1
      <4> QED
        BY <4>1
    <3>2. CASE ~(i < p)
      <4>1. i + 1 \in 1 .. Len(new) /\ i + 1 # p /\ old[i + 1] = i
        BY <2>1, <2>2, <3>2
      <4> QED
        BY <4>1
    <3> QED
      BY <3>1, <3>2
  <2>6. p \in 1 .. Len(new)
    BY <2>1, <2>2
  <2> HIDE DEF old
  <2>7. HoldsAlso(new, doc, EntryOf(e), p, old)
    BY <2>2, <2>3, <2>4, <2>5, <2>6 DEF HoldsAlso
  <2> QED
    BY <2>2, <2>7 DEF new
<1>4. CASE Replaces(doc, e, p)
  <2>1. p \in 1 .. Len(doc) /\ new = [doc EXCEPT ![p] = EntryOf(e)] /\ doc[p].kind = "odd"
    BY <1>4 DEF Replaces
  <2>2. /\ new \in Seq(Entries) /\ Len(new) = Len(doc) /\ new[p] = EntryOf(e)
        /\ \A k \in 1 .. Len(doc) : k # p => new[k] = doc[k]
    BY <1>1, <2>1
  <2> HIDE DEF new
  <2> DEFINE old == [k \in 1 .. Len(new) |-> k]
  <2>3. \A i \in 1 .. Len(doc) : IsOwned(doc[i]) => i # p
    BY <2>1 DEF IsOwned
  <2>4. HoldsAlso(new, doc, EntryOf(e), p, old)
    BY <2>1, <2>2, <2>3 DEF HoldsAlso
  <2> HIDE DEF old
  <2> QED
    BY <2>2, <2>4 DEF new
<1> QED
  BY <1>2, <1>3, <1>4

LEMMA InsertKeepsDocument ==
  ASSUME NEW doc \in Seq(Entries), IsDocument(doc), NEW e \in LinkedEvents
  PROVE  IsDocument(Insert(doc, e)) /\ Of(Insert(doc, e), "foreign") = Of(doc, "foreign")
<1> DEFINE new == Insert(doc, e)
<1>1. EntryOf(e) \in Entries /\ EntryOf(e).kind = "exact" /\ EntryOf(e).event = e
  BY DEF EntryOf, Entries, Kinds
<1>2. PICK p : GoesTo(doc, e, p) \/ Replaces(doc, e, p)
  BY InsertForms
<1>3. CASE GoesTo(doc, e, p)
  <2>1. /\ p \in 1 .. Len(doc) + 1 /\ new = InsertAt(doc, p, EntryOf(e))
        /\ \A i \in 1 .. Len(doc) : doc[i].event = e => i < p /\ doc[i].kind # "odd"
        /\ \/ p - 1 \in 1 .. Len(doc) /\ doc[p - 1].event = e
           \/ p = Len(doc) + 1 /\ \A i \in 1 .. Len(doc) : doc[i].event # e
    BY <1>3 DEF GoesTo, PlacesOf
  <2>2. /\ new \in Seq(Entries) /\ Len(new) = Len(doc) + 1 /\ new[p] = EntryOf(e)
        /\ \A k \in 1 .. p - 1 : new[k] = doc[k]
        /\ \A k \in p .. Len(doc) : new[k + 1] = doc[k]
    <3> HIDE DEF new
    <3>1. EntryOf(e) \in Entries /\ p \in 1 .. Len(doc) + 1 /\ new = InsertAt(doc, p, EntryOf(e))
      BY <1>1, <2>1
    <3> QED
      BY <3>1, EntryIsInserted
  <2>3. Of(new, "foreign") = Of(doc, "foreign")
    BY <1>1, <2>1, OfInserted
  <2> HIDE DEF new
  <2> DEFINE old(k) == IF k < p THEN k ELSE k - 1
  <2>4. ASSUME NEW k \in 1 .. Len(new), k # p
        PROVE  old(k) \in 1 .. Len(doc) /\ new[k] = doc[old(k)]
    <3>0. p \in 1 .. Len(doc) + 1 /\ Len(new) = Len(doc) + 1
      BY <2>1, <2>2
    <3>1. CASE k < p
      <4>1. k \in 1 .. p - 1 /\ k \in 1 .. Len(doc) /\ old(k) = k
        BY <3>0, <3>1
      <4> QED
        BY <2>2, <4>1
    <3>2. CASE k > p
      <4>1. k - 1 \in p .. Len(doc) /\ k = (k - 1) + 1 /\ old(k) = k - 1 /\ k - 1 \in 1 .. Len(doc)
        BY <2>1, <2>2, <3>2
      <4> QED
        BY <2>2, <4>1
    <3> QED
      BY <2>1, <2>4, <3>1, <3>2
  <2>5. ASSUME NEW i \in 1 .. Len(new), NEW j \in 1 .. Len(new), i < j, new[i].event = new[j].event
        PROVE  /\ "odd" \notin {new[i].kind, new[j].kind}
               /\ \A k \in i .. j : new[k].event = new[i].event
    <3>0. p \in Nat /\ i \in Nat /\ j \in Nat
      BY <2>1
    <3>1. i # p
      <4> SUFFICES ASSUME i = p PROVE FALSE
        OBVIOUS
      <4>1. old(j) \in 1 .. Len(doc) /\ doc[old(j)].event = e /\ ~(old(j) < p)
        BY <1>1, <2>2, <2>4, <2>5, <3>0
      <4> HIDE DEF old
      <4> QED
        BY <2>1, <4>1
    <3>2. old(i) \in DOMAIN doc /\ new[i] = doc[old(i)] /\ DOMAIN doc = 1 .. Len(doc)
      BY <2>4, <3>1
    <3>3. CASE j = p
      <4>1. old(i) = i /\ doc[i].event = e /\ i \in 1 .. Len(doc)
        BY <1>1, <2>2, <2>5, <3>2, <3>3, <3>0
      <4>2. p - 1 \in 1 .. Len(doc) /\ doc[p - 1].event = e /\ doc[i].kind # "odd"
        BY <2>1, <4>1
      <4>3. \A k \in i .. p - 1 : doc[k].event = e
        <5>1. CASE i = p - 1
          BY <4>1, <5>1
        <5>2. CASE i < p - 1
          BY <3>2, <4>1, <4>2, <5>2 DEF IsDocument
        <5> QED
          BY <2>5, <3>0, <3>3, <5>1, <5>2
      <4>4. ASSUME NEW k \in i .. j PROVE new[k].event = e
        <5>1. CASE k = p
          BY <1>1, <2>2, <5>1
        <5>2. CASE k # p
          <6>1. k \in 1 .. p - 1 /\ k \in i .. p - 1
            BY <3>0, <3>3, <5>2
          <6> QED
            BY <2>2, <4>3, <6>1
        <5> QED
          BY <5>1, <5>2
      <4> QED
        BY <1>1, <2>2, <3>2, <3>3, <4>1, <4>2, <4>4
    <3>4. CASE j # p
      <4>1. old(j) \in DOMAIN doc /\ new[j] = doc[old(j)]
        BY <2>4, <3>2, <3>4
      <4>2. old(i) < old(j) /\ \A k \in i .. j : k # p => k \in 1 .. Len(new) /\ old(k) \in old(i) .. old(j)
        BY <2>5, <3>0, <3>1, <3>4
      <4>3. /\ "odd" \notin {doc[old(i)].kind, doc[old(j)].kind}
            /\ \A k \in old(i) .. old(j) : doc[k].event = doc[old(i)].event
        <5> HIDE DEF old
        <5> QED
          BY <2>5, <3>2, <4>1, <4>2 DEF IsDocument
      <4>4. p \notin i .. j
        <5> SUFFICES ASSUME p \in i .. j PROVE FALSE
          OBVIOUS
        <5>1. old(i) = i /\ old(j) = j - 1 /\ p \in i + 1 .. j - 1
          BY <3>0, <3>1, <3>4
        <5>2. p \in 1 .. Len(doc) /\ p - 1 \in 1 .. Len(doc) /\ p - 1 \in old(i) .. old(j) /\ p \in old(i) .. old(j)
          BY <3>0, <3>2, <4>1, <5>1
        <5>3. doc[p].event = doc[old(i)].event /\ doc[p - 1].event = doc[old(i)].event
          BY <4>3, <5>2
        <5>4. doc[p].event # e
          <6>1. ~(p < p)
            BY <3>0
          <6> QED
            BY <2>1, <5>2, <6>1
        <5>5. doc[p - 1].event = e
          BY <2>1, <5>2
        <5> QED
          BY <5>3, <5>4, <5>5
      <4> HIDE DEF old
      <4> QED
        BY <2>4, <3>2, <4>1, <4>2, <4>3, <4>4
    <3> QED
      BY <3>3, <3>4
  <2>6. IsDocument(new)
    BY <2>2, <2>5 DEF IsDocument
  <2> QED
    BY <2>3, <2>6 DEF new
<1>4. CASE Replaces(doc, e, p)
  <2>1. p \in 1 .. Len(doc) /\ new = [doc EXCEPT ![p] = EntryOf(e)] /\ doc[p].kind = "odd" /\ doc[p].event = e
    BY <1>4 DEF Replaces
  <2>2. Of(new, "foreign") = Of(doc, "foreign")
    <3>1. EntryOf(e).kind # "foreign" /\ doc[p].kind # "foreign"
      BY <1>1, <2>1
    <3> HIDE DEF new
    <3> QED
      BY <1>1, <2>1, <3>1, OfReplaced
  <2>3. /\ DOMAIN new = DOMAIN doc
        /\ \A k \in DOMAIN doc : new[k].event = doc[k].event /\ new[k].kind \in {"exact", doc[k].kind}
    BY <1>1, <2>1
  <2> HIDE DEF new
  <2>4. \A i, j \in DOMAIN doc : \A k \in i .. j : k \in DOMAIN doc
    <3>1. DOMAIN doc = 1 .. Len(doc)
      OBVIOUS
    <3> QED
      BY <3>1
  <2>5. IsDocument(new)
    BY <2>3, <2>4 DEF IsDocument
  <2> QED
    BY <2>2, <2>5 DEF new
<1> QED
  BY <1>2, <1>3, <1>4

\* The states of the removal, and those its n-th scan may lead to.
ScanStates == [doc : Seq(Entries), preserved : SUBSET LinkedEvents]

Clearing(doc, n) ==
  {state \in ScanStates :
     /\ IsDocument(state.doc) /\ Of(state.doc, "foreign") = Of(doc, "foreign")
     /\ Unwanted(state.doc, state.preserved) = {} \/ Len(state.doc) + n <= Len(doc)}

LEMMA ScanRemoves ==
  ASSUME NEW state \in ScanStates, Unwanted(state.doc, state.preserved) # {}
  PROVE  \E first \in 1 .. Len(state.doc) :
           /\ state.doc[first].kind # "foreign"
           /\ Scanned(state).doc = RemoveAt(state.doc, first)
           /\ Scanned(state) \in ScanStates
<1> DEFINE unwanted == Unwanted(state.doc, state.preserved)
           first == CHOOSE i \in unwanted : \A j \in unwanted : i <= j
           owned == {k \in 1 .. first - 1 : IsOwned(state.doc[k])}
<1>1. state.doc \in Seq(Entries) /\ state.preserved \subseteq LinkedEvents
  BY DEF ScanStates
<1>2. unwanted \in SUBSET Nat /\ unwanted \subseteq 1 .. Len(state.doc)
      /\ \A i \in unwanted : IsOwned(state.doc[i])
  BY <1>1 DEF Unwanted
<1>3. first \in unwanted
  <2> HIDE DEF unwanted
  <2>1. \E i \in unwanted : \A j \in unwanted : i <= j
    BY <1>2, LeastExists DEF unwanted
  <2> QED
    BY <2>1
<1>4. first \in 1 .. Len(state.doc) /\ state.doc[first].kind # "foreign"
  <2> HIDE DEF unwanted, first
  <2> QED
    BY <1>2, <1>3 DEF IsOwned
<1>5. Scanned(state) = [doc |-> RemoveAt(state.doc, first),
                        preserved |-> state.preserved \cup {state.doc[j].event : j \in owned}]
  BY DEF Scanned
<1> HIDE DEF unwanted, first
<1>6. RemoveAt(state.doc, first) \in Seq(Entries)
  BY <1>1, <1>4, RemoveAtFacts
<1>7. \A j \in owned : state.doc[j].event \in LinkedEvents
  <2>1. \A j \in owned : j \in 1 .. Len(state.doc)
    BY <1>4
  <2>2. \A j \in 1 .. Len(state.doc) : state.doc[j] \in Entries
    BY <1>1
  <2> QED
    BY <2>1, <2>2 DEF Entries
<1> HIDE DEF owned
<1>8. Scanned(state) \in ScanStates
  BY <1>1, <1>5, <1>6, <1>7 DEF ScanStates
<1>9. Scanned(state).doc = RemoveAt(state.doc, first)
  BY <1>5
<1> QED
  BY <1>4, <1>8, <1>9

LEMMA ScannedKeeps ==
  ASSUME NEW state \in ScanStates
  PROVE  Scanned(state) \in ScanStates
<1>1. CASE Unwanted(state.doc, state.preserved) = {}
  BY <1>1 DEF Scanned
<1>2. CASE Unwanted(state.doc, state.preserved) # {}
  BY <1>2, ScanRemoves
<1> QED
  BY <1>1, <1>2

LEMMA ScannedClears ==
  ASSUME NEW doc \in Seq(Entries), NEW n \in Nat \ {0}, NEW state \in Clearing(doc, n - 1)
  PROVE  Scanned(state) \in Clearing(doc, n)
<1>1. /\ state \in ScanStates /\ state.doc \in Seq(Entries) /\ IsDocument(state.doc)
      /\ Of(state.doc, "foreign") = Of(doc, "foreign")
      /\ Unwanted(state.doc, state.preserved) = {} \/ Len(state.doc) + (n - 1) <= Len(doc)
  BY DEF Clearing, ScanStates
<1>2. CASE Unwanted(state.doc, state.preserved) = {}
  <2>1. Scanned(state) = state
    BY <1>2 DEF Scanned
  <2> QED
    BY <1>1, <1>2, <2>1 DEF Clearing
<1>3. CASE Unwanted(state.doc, state.preserved) # {}
  <2>1. PICK first \in 1 .. Len(state.doc) :
           /\ state.doc[first].kind # "foreign"
           /\ Scanned(state).doc = RemoveAt(state.doc, first)
           /\ Scanned(state) \in ScanStates
    BY <1>1, <1>3, ScanRemoves
  <2>2. IsDocument(Scanned(state).doc)
    BY <1>1, <2>1, RemovedIsDocument
  <2>3. Of(Scanned(state).doc, "foreign") = Of(doc, "foreign")
    BY <1>1, <2>1, OfRemoved
  <2>4. Len(Scanned(state).doc) = Len(state.doc) - 1
    BY <1>1, <2>1, RemoveAtFacts
  <2>5. Len(Scanned(state).doc) + n <= Len(doc)
    <3>1. Len(state.doc) + (n - 1) <= Len(doc) /\ Len(state.doc) \in Nat /\ Len(doc) \in Nat
      BY <1>1, <1>3
    <3> QED
      BY <2>4, <3>1
  <2> QED
    BY <2>1, <2>2, <2>3, <2>5 DEF Clearing
<1> QED
  BY <1>2, <1>3

\* Every handler of ours matches its spec, and no other does.
IsSettled(doc) ==
  /\ \A i \in DOMAIN doc : IsOwned(doc[i]) => HandlerMatches(doc[i])
  /\ \A e \in LinkedEvents : \A i, j \in Matching(doc, e) : i = j

LEMMA NothingUnwanted ==
  ASSUME NEW doc \in Seq(Entries), NEW preserved, Unwanted(doc, preserved) = {}
  PROVE  IsSettled(doc)
<1>1. \A i \in DOMAIN doc : IsOwned(doc[i]) =>
        /\ HandlerMatches(doc[i])
        /\ ~ \E j \in 1 .. i - 1 : doc[j].event = doc[i].event /\ HandlerMatches(doc[j])
  BY DEF Unwanted
<1>2. DOMAIN doc = 1 .. Len(doc)
  OBVIOUS
<1>3. ASSUME NEW e \in LinkedEvents, NEW i \in Matching(doc, e), NEW j \in Matching(doc, e), i < j
      PROVE  FALSE
  <2>1. /\ i \in 1 .. Len(doc) /\ j \in 1 .. Len(doc) /\ doc[i].event = doc[j].event
        /\ HandlerMatches(doc[i]) /\ IsOwned(doc[j])
    BY <1>2 DEF Matching, HandlerMatches, IsOwned
  <2>2. i \in 1 .. j - 1
    BY <1>3, <2>1
  <2> QED
    BY <1>1, <1>2, <2>1, <2>2
<1>4. ASSUME NEW e \in LinkedEvents, NEW i \in Matching(doc, e), NEW j \in Matching(doc, e)
      PROVE  i = j
  <2>1. i \in Nat /\ j \in Nat
    BY <1>2 DEF Matching
  <2> QED
    BY <1>3, <2>1
<1> QED
  BY <1>1, <1>4 DEF IsSettled

\* The removal is computed scan by scan.
LEMMA RemoveStaleIterates ==
  ASSUME NEW doc \in Seq(Entries)
  PROVE  \E after : /\ after[0] = [doc |-> doc, preserved |-> {}]
                    /\ RemoveStale(doc) = after[Len(doc)].doc
                    /\ \A n \in 1 .. Len(doc) : after[n] = Scanned(after[n - 1])
<1> DEFINE K == Len(doc)
           base == [doc |-> doc, preserved |-> {}]
           Def(f) == [n \in 0 .. K |-> IF n = 0 THEN base ELSE Scanned(f[n - 1])]
           step == [n \in 1 .. K |-> [x \in ScanStates |-> Scanned(x)]]
           after == CHOOSE f : f = Def(f)
<1>1. K \in Nat /\ base \in ScanStates /\ step \in [1 .. K -> [ScanStates -> ScanStates]]
  BY ScannedKeeps DEF ScanStates
<1>2. PICK f : Iterates(f, K, ScanStates, base, step)
  <2> HIDE DEF K, base, step
  <2> QED
    BY <1>1, IterationExists
<1>3. f = Def(f)
  <2>1. f = [n \in 0 .. K |-> f[n]] /\ f[0] = base
    BY <1>2 DEF Iterates
  <2>2. ASSUME NEW n \in 0 .. K, n # 0 PROVE f[n] = Scanned(f[n - 1])
    <3>1. n \in 1 .. K /\ n - 1 \in 0 .. K
      BY <1>1, <2>2
    <3>2. f[n - 1] \in ScanStates /\ f[n] = step[n][f[n - 1]]
      <4> HIDE DEF K, base, step
      <4> QED
        BY <1>2, <3>1 DEF Iterates
    <3> QED
      BY <3>1, <3>2
  <2> HIDE DEF K, base
  <2> QED
    BY <2>1, <2>2
<1>4. after = Def(after)
  BY <1>3
<1>5. RemoveStale(doc) = after[K].doc
  BY DEF RemoveStale
<1> HIDE DEF after
<1>6. after[0] = base
  BY <1>1, <1>4
<1>7. \A n \in 1 .. K : after[n] = Scanned(after[n - 1])
  <2>1. \A n \in 1 .. K : n \in 0 .. K /\ n # 0
    BY <1>1
  <2> HIDE DEF K, base
  <2> QED
    BY <1>4, <2>1
<1> QED
  BY <1>5, <1>6, <1>7

\* The removal ends with nothing left to remove, and takes no handler of others.
LEMMA RemoveStaleSettles ==
  ASSUME NEW doc \in Seq(Entries), IsDocument(doc)
  PROVE  /\ RemoveStale(doc) \in Seq(Entries) /\ IsDocument(RemoveStale(doc))
         /\ IsSettled(RemoveStale(doc))
         /\ Of(RemoveStale(doc), "foreign") = Of(doc, "foreign")
<1> DEFINE base == [doc |-> doc, preserved |-> {}]
<1>1. base \in Clearing(doc, 0)
  BY DEF Clearing, ScanStates
<1>2. PICK after : /\ after[0] = base /\ RemoveStale(doc) = after[Len(doc)].doc
                   /\ \A n \in 1 .. Len(doc) : after[n] = Scanned(after[n - 1])
  BY RemoveStaleIterates
<1> HIDE DEF base
<1>3. PICK K \in Nat : K = Len(doc)
  OBVIOUS
<1> DEFINE Good == [n \in 0 .. K |-> Clearing(doc, n)]
<1>4. after[0] \in Good[0]
  BY <1>1, <1>2
<1>5. ASSUME NEW n \in 1 .. K, after[n - 1] \in Good[n - 1] PROVE after[n] \in Good[n]
  <2>1. n \in 0 .. K /\ n - 1 \in 0 .. K /\ n \in Nat \ {0}
    OBVIOUS
  <2>2. after[n - 1] \in Clearing(doc, n - 1)
    BY <1>5, <2>1
  <2>3. Scanned(after[n - 1]) \in Clearing(doc, n)
    BY <2>1, <2>2, ScannedClears
  <2> QED
    BY <1>2, <1>3, <2>1, <2>3
<1>6. after[K] \in Clearing(doc, K)
  <2>1. \A n \in 0 .. K : after[n] \in Good[n]
    <3> HIDE DEF Good
    <3> QED
      BY <1>4, <1>5, IterationStays
  <2> QED
    BY <2>1
<1>7. PICK last \in ScanStates :
        /\ last = after[K] /\ last.doc \in Seq(Entries) /\ IsDocument(last.doc)
        /\ Of(last.doc, "foreign") = Of(doc, "foreign")
        /\ Unwanted(last.doc, last.preserved) = {} \/ Len(last.doc) + K <= K
  BY <1>3, <1>6 DEF Clearing, ScanStates
<1>8. Unwanted(last.doc, last.preserved) = {}
  <2>1. CASE Len(last.doc) + K <= K
    <3>1. Len(last.doc) = 0
      BY <1>7, <2>1
    <3> QED
      BY <1>7, <3>1 DEF Unwanted
  <2> QED
    BY <1>7, <2>1
<1> QED
  BY <1>2, <1>3, <1>7, <1>8, NothingUnwanted

\* What completing reaches once the specs up to n have been looked at.
Completing(doc, n) ==
  {new \in Seq(Entries) :
     /\ IsDocument(new) /\ IsSettled(new) /\ Of(new, "foreign") = Of(doc, "foreign")
     /\ \A m \in 1 .. n : SpecPresent(new, Specs[m])}

LEMMA InsertCompletes ==
  ASSUME NEW doc \in Seq(Entries), IsDocument(doc), IsSettled(doc), NEW e \in LinkedEvents,
         ~SpecPresent(doc, e)
  PROVE  /\ Insert(doc, e) \in Seq(Entries) /\ IsSettled(Insert(doc, e))
         /\ SpecPresent(Insert(doc, e), e)
         /\ \A f \in LinkedEvents : SpecPresent(doc, f) => SpecPresent(Insert(doc, e), f)
<1> DEFINE new == Insert(doc, e)
<1>1. new \in Seq(Entries)
  BY InsertHoldsAlso
<1>2. PICK p, old : HoldsAlso(new, doc, EntryOf(e), p, old)
  BY InsertHoldsAlso
<1> HIDE DEF new
<1>3. /\ p \in 1 .. Len(new) /\ new[p].event = e /\ HandlerMatches(new[p])
      /\ \A k \in 1 .. Len(new) : k # p => old[k] \in 1 .. Len(doc) /\ new[k] = doc[old[k]]
      /\ \A k, m \in 1 .. Len(new) : k # p /\ m # p /\ old[k] = old[m] => k = m
      /\ \A i \in 1 .. Len(doc) : IsOwned(doc[i]) => \E k \in 1 .. Len(new) : k # p /\ old[k] = i
  BY <1>2 DEF HoldsAlso, EntryOf, HandlerMatches
<1>4. DOMAIN new = 1 .. Len(new) /\ DOMAIN doc = 1 .. Len(doc)
  BY <1>1
<1>5. \A i \in DOMAIN new : IsOwned(new[i]) => HandlerMatches(new[i])
  BY <1>3, <1>4 DEF IsSettled
<1>6. ASSUME NEW f \in LinkedEvents, NEW i \in Matching(new, f), NEW j \in Matching(new, f)
      PROVE  i = j
  <2>1. i \in 1 .. Len(new) /\ j \in 1 .. Len(new) /\ new[i].event = f /\ new[j].event = f
        /\ HandlerMatches(new[i]) /\ HandlerMatches(new[j])
    BY <1>4 DEF Matching
  <2>2. f = e => i = p /\ j = p
    BY <1>3, <1>4, <2>1 DEF SpecPresent
  <2>3. CASE f # e
    <3>1. i # p /\ j # p
      BY <1>3, <2>1, <2>3
    <3>2. old[i] \in Matching(doc, f) /\ old[j] \in Matching(doc, f)
      BY <1>3, <1>4, <2>1, <3>1 DEF Matching
    <3>3. old[i] = old[j]
      BY <3>2 DEF IsSettled
    <3> QED
      BY <1>3, <2>1, <3>1, <3>3
  <2> QED
    BY <2>2, <2>3
<1>7. SpecPresent(new, e)
  BY <1>3, <1>4 DEF SpecPresent
<1>8. ASSUME NEW f \in LinkedEvents, SpecPresent(doc, f) PROVE SpecPresent(new, f)
  <2>1. PICK i \in 1 .. Len(doc) : doc[i].event = f /\ HandlerMatches(doc[i])
    BY <1>4, <1>8 DEF SpecPresent
  <2>2. IsOwned(doc[i])
    BY <2>1 DEF IsOwned, HandlerMatches
  <2>3. PICK k \in 1 .. Len(new) : k # p /\ old[k] = i
    BY <1>3, <2>2
  <2> QED
    BY <1>3, <1>4, <2>1, <2>3 DEF SpecPresent
<1> QED
  BY <1>1, <1>5, <1>6, <1>7, <1>8 DEF IsSettled, new

LEMMA SpecsAreEvents ==
  /\ Len(Specs) \in Nat /\ \A n \in 1 .. Len(Specs) : Specs[n] \in LinkedEvents
  /\ \A e \in LinkedEvents : \E n \in 1 .. Len(Specs) : Specs[n] = e
BY HookLinkAssumption DEF LinkedEvents

LEMMA CompletedCompletes ==
  ASSUME NEW doc \in Seq(Entries), NEW n \in 1 .. Len(Specs), NEW now \in Completing(doc, n - 1)
  PROVE  Completed(now, Specs[n]) \in Completing(doc, n)
<1> DEFINE e == Specs[n]
<1>1. e \in LinkedEvents /\ n \in Nat
  BY SpecsAreEvents
<1>2. /\ now \in Seq(Entries) /\ IsDocument(now) /\ IsSettled(now)
      /\ Of(now, "foreign") = Of(doc, "foreign")
      /\ \A m \in 1 .. n - 1 : SpecPresent(now, Specs[m])
  BY DEF Completing
<1>3. \A m \in 1 .. n : m = n \/ m \in 1 .. n - 1
  BY <1>1
<1>4. CASE SpecPresent(now, e)
  <2>1. Completed(now, e) = now
    BY <1>4 DEF Completed
  <2>2. \A m \in 1 .. n : SpecPresent(now, Specs[m])
    BY <1>2, <1>3, <1>4
  <2> QED
    BY <1>2, <2>1, <2>2 DEF Completing
<1>5. CASE ~SpecPresent(now, e)
  <2> DEFINE new == Insert(now, e)
  <2>1. Completed(now, e) = new
    BY <1>5 DEF Completed
  <2> HIDE DEF e
  <2>2. /\ new \in Seq(Entries) /\ IsSettled(new) /\ SpecPresent(new, e)
        /\ \A f \in LinkedEvents : SpecPresent(now, f) => SpecPresent(new, f)
    BY <1>1, <1>2, <1>5, InsertCompletes
  <2>3. IsDocument(new) /\ Of(new, "foreign") = Of(doc, "foreign")
    BY <1>1, <1>2, InsertKeepsDocument
  <2>4. ASSUME NEW m \in 1 .. n PROVE SpecPresent(new, Specs[m])
    <3>1. CASE m = n
      BY <2>2, <3>1 DEF e
    <3>2. CASE m \in 1 .. n - 1
      <4>1. m \in 1 .. Len(Specs)
        BY <1>1, SpecsAreEvents
      <4> QED
        BY <1>2, <2>2, <3>2, <4>1, SpecsAreEvents
    <3> QED
      BY <1>3, <3>1, <3>2
  <2> QED
    BY <2>1, <2>2, <2>3, <2>4 DEF Completing, e
<1> QED
  BY <1>4, <1>5

LEMMA CompletedKeeps ==
  ASSUME NEW doc \in Seq(Entries), IsDocument(doc), NEW e \in LinkedEvents
  PROVE  Completed(doc, e) \in Seq(Entries) /\ IsDocument(Completed(doc, e))
BY InsertHoldsAlso, InsertKeepsDocument DEF Completed

\* Complete is computed spec by spec.
LEMMA CompleteIterates ==
  ASSUME NEW doc \in Seq(Entries), IsDocument(doc)
  PROVE  \E after : /\ after[0] = doc /\ Complete(doc) = after[Len(Specs)]
                    /\ \A n \in 1 .. Len(Specs) : after[n] = Completed(after[n - 1], Specs[n])
<1> DEFINE K == Len(Specs)
           S == {x \in Seq(Entries) : IsDocument(x)}
           Def(f) == [n \in 0 .. K |-> IF n = 0 THEN doc ELSE Completed(f[n - 1], Specs[n])]
           step == [n \in 1 .. K |-> [x \in S |-> Completed(x, Specs[n])]]
           after == CHOOSE f : f = Def(f)
<1>1. K \in Nat /\ doc \in S /\ step \in [1 .. K -> [S -> S]]
  BY CompletedKeeps, SpecsAreEvents
<1>2. PICK f : Iterates(f, K, S, doc, step)
  <2> HIDE DEF K, S, step
  <2> QED
    BY <1>1, IterationExists
<1>3. f = Def(f)
  <2>1. f = [n \in 0 .. K |-> f[n]] /\ f[0] = doc
    BY <1>2 DEF Iterates
  <2>2. ASSUME NEW n \in 0 .. K, n # 0 PROVE f[n] = Completed(f[n - 1], Specs[n])
    <3>1. n \in 1 .. K /\ n - 1 \in 0 .. K
      BY <1>1, <2>2
    <3>2. f[n - 1] \in S /\ f[n] = step[n][f[n - 1]]
      <4> HIDE DEF K, S, step
      <4> QED
        BY <1>2, <3>1 DEF Iterates
    <3> HIDE DEF S
    <3> QED
      BY <3>1, <3>2
  <2> HIDE DEF K
  <2> QED
    BY <2>1, <2>2
<1>4. after = Def(after)
  BY <1>3
<1>5. Complete(doc) = after[K]
  BY DEF Complete
<1> HIDE DEF after
<1>6. after[0] = doc
  BY <1>1, <1>4
<1>7. \A n \in 1 .. K : after[n] = Completed(after[n - 1], Specs[n])
  <2>1. \A n \in 1 .. K : n \in 0 .. K /\ n # 0
    BY <1>1
  <2> HIDE DEF K
  <2> QED
    BY <1>4, <2>1
<1> QED
  BY <1>5, <1>6, <1>7

\* The canonical set: one handler for each event, none that is stale.
IsCanonical(doc) ==
  /\ doc \in Seq(Entries) /\ IsDocument(doc) /\ IsSettled(doc)
  /\ \A e \in LinkedEvents : SpecPresent(doc, e)

LEMMA LinkHooksIsCanonical ==
  ASSUME NEW doc \in Seq(Entries), IsDocument(doc)
  PROVE  IsCanonical(LinkHooks(doc)) /\ Of(LinkHooks(doc), "foreign") = Of(doc, "foreign")
<1> DEFINE bare == RemoveStale(doc)
<1>1. /\ bare \in Seq(Entries) /\ IsDocument(bare) /\ IsSettled(bare)
      /\ Of(bare, "foreign") = Of(doc, "foreign")
  BY RemoveStaleSettles
<1>2. LinkHooks(doc) = Complete(bare)
  BY DEF LinkHooks
<1> HIDE DEF bare
<1>3. PICK after : /\ after[0] = bare /\ Complete(bare) = after[Len(Specs)]
                   /\ \A n \in 1 .. Len(Specs) : after[n] = Completed(after[n - 1], Specs[n])
  BY <1>1, CompleteIterates
<1>4. PICK K \in Nat : K = Len(Specs)
  BY SpecsAreEvents
<1> DEFINE Good == [n \in 0 .. K |-> Completing(bare, n)]
<1>5. after[0] \in Good[0]
  BY <1>1, <1>3 DEF Completing
<1>6. ASSUME NEW n \in 1 .. K, after[n - 1] \in Good[n - 1] PROVE after[n] \in Good[n]
  <2>1. n \in 0 .. K /\ n - 1 \in 0 .. K
    OBVIOUS
  <2>2. after[n - 1] \in Completing(bare, n - 1)
    BY <1>6, <2>1
  <2>3. Completed(after[n - 1], Specs[n]) \in Completing(bare, n)
    BY <1>1, <1>4, <2>2, CompletedCompletes
  <2> QED
    BY <1>3, <1>4, <2>1, <2>3
<1>7. after[K] \in Completing(bare, K)
  <2>1. \A n \in 0 .. K : after[n] \in Good[n]
    <3> HIDE DEF Good
    <3> QED
      BY <1>5, <1>6, IterationStays
  <2> QED
    BY <2>1
<1>8. PICK final \in Completing(bare, K) : final = LinkHooks(doc)
  BY <1>2, <1>3, <1>4, <1>7
<1>9. IsCanonical(final)
  BY <1>4, <1>8, SpecsAreEvents DEF Completing, IsCanonical
<1>10. Of(final, "foreign") = Of(doc, "foreign")
  BY <1>1, <1>8 DEF Completing
<1> QED
  BY <1>8, <1>9, <1>10

\* Another link changes nothing.
LEMMA CanonicalStays ==
  ASSUME NEW doc, IsCanonical(doc)
  PROVE  LinkHooks(doc) = doc
<1>1. /\ doc \in Seq(Entries) /\ IsDocument(doc) /\ IsSettled(doc)
      /\ \A e \in LinkedEvents : SpecPresent(doc, e)
  BY DEF IsCanonical
<1>2. Unwanted(doc, {}) = {}
  <2> SUFFICES ASSUME NEW i \in Unwanted(doc, {}) PROVE FALSE
    OBVIOUS
  <2>1. i \in DOMAIN doc /\ HandlerMatches(doc[i])
    BY <1>1 DEF Unwanted, IsSettled
  <2>2. PICK j \in 1 .. i - 1 : doc[j].event = doc[i].event /\ HandlerMatches(doc[j])
    BY <2>1 DEF Unwanted
  <2>3. i \in 1 .. Len(doc) /\ j \in 1 .. Len(doc) /\ i # j /\ doc[i].event \in LinkedEvents
    <3>1. i \in 1 .. Len(doc) /\ Len(doc) \in Nat /\ doc[i] \in Entries
      BY <1>1, <2>1
    <3>2. j \in 1 .. Len(doc) /\ i # j
      BY <3>1
    <3> QED
      BY <3>1, <3>2 DEF Entries
  <2>4. i \in Matching(doc, doc[i].event) /\ j \in Matching(doc, doc[i].event)
    BY <1>1, <2>1, <2>2, <2>3 DEF Matching
  <2> QED
    BY <1>1, <2>3, <2>4 DEF IsSettled
<1>3. RemoveStale(doc) = doc
  <2> DEFINE base == [doc |-> doc, preserved |-> {}]
  <2>1. Scanned(base) = base
    BY <1>2 DEF Scanned
  <2>2. PICK after : /\ after[0] = base /\ RemoveStale(doc) = after[Len(doc)].doc
                     /\ \A n \in 1 .. Len(doc) : after[n] = Scanned(after[n - 1])
    BY <1>1, RemoveStaleIterates
  <2>3. base.doc = doc
    OBVIOUS
  <2> HIDE DEF base
  <2>4. PICK K \in Nat : K = Len(doc)
    BY <1>1
  <2> DEFINE Good == [n \in 0 .. K |-> {base}]
  <2>5. after[0] \in Good[0]
    BY <2>2
  <2>6. ASSUME NEW n \in 1 .. K, after[n - 1] \in Good[n - 1] PROVE after[n] \in Good[n]
    <3>1. n \in 0 .. K /\ n - 1 \in 0 .. K
      OBVIOUS
    <3> QED
      BY <2>1, <2>2, <2>4, <2>6, <3>1
  <2>7. \A n \in 0 .. K : after[n] \in Good[n]
    <3> HIDE DEF Good
    <3> QED
      BY <2>5, <2>6, IterationStays
  <2>8. after[K] = base
    BY <2>7
  <2> QED
    BY <2>2, <2>3, <2>4, <2>8
<1>4. Complete(doc) = doc
  <2>1. PICK after : /\ after[0] = doc /\ Complete(doc) = after[Len(Specs)]
                     /\ \A n \in 1 .. Len(Specs) : after[n] = Completed(after[n - 1], Specs[n])
    BY <1>1, CompleteIterates
  <2>2. PICK K \in Nat : K = Len(Specs)
    BY SpecsAreEvents
  <2>3. \A n \in 1 .. K : Completed(doc, Specs[n]) = doc
    BY <1>1, <2>2, SpecsAreEvents DEF Completed
  <2> DEFINE Good == [n \in 0 .. K |-> {doc}]
  <2>4. after[0] \in Good[0]
    BY <2>1
  <2>5. ASSUME NEW n \in 1 .. K, after[n - 1] \in Good[n - 1] PROVE after[n] \in Good[n]
    <3>1. n \in 0 .. K /\ n - 1 \in 0 .. K
      OBVIOUS
    <3> QED
      BY <2>1, <2>2, <2>3, <2>5, <3>1
  <2>6. \A n \in 0 .. K : after[n] \in Good[n]
    <3> HIDE DEF Good
    <3> QED
      BY <2>4, <2>5, IterationStays
  <2>7. after[K] = doc
    BY <2>6
  <2> QED
    BY <2>1, <2>2, <2>7
<1> QED
  BY <1>3, <1>4 DEF LinkHooks

-----------------------------------------------------------------------------
(* Link.  What it writes is canonical, what it trusts has a handler of each *)
(* event, and a conflict is the work of others.                             *)

LinkInv ==
  /\ HookLinkTypeOK /\ IsDocument(hooksFile)
  /\ link.pc # "failed" => link.why = ""
  /\ link.pc = "write" =>
       IsCanonical(link.doc) /\ (edits = 0 => Of(link.doc, "foreign") = Of(hooksFile, "foreign"))
  /\ edits = 0 /\ link.pc \in {"list", "config", "batch", "verify"} => IsCanonical(hooksFile)
  /\ MissingMeansLoose
  /\ link.pc \in {"config", "batch", "verify"} =>
       \A e \in LinkedEvents : \E key \in link.keys : key[1] = e
  /\ link.pc \in {"read", "write", "list", "config", "batch"} => link.attempt <= trust.version + 1
  /\ link.pc = "batch" => link.version = trust.version \/ link.attempt <= trust.version
  /\ ConflictsAreEdits

LEMMA LinkConstants == MaxAttempts \in Nat \ {0} /\ MaxEntries \in Nat /\ MaxEdits \in Nat
BY HookLinkAssumption

LEMMA OwnedAreKeys ==
  ASSUME NEW doc \in Seq(Entries)
  PROVE  Owned(doc) \subseteq LinkedEvents \X Nat
<1>1. ASSUME NEW i \in 1 .. Len(doc) PROVE KeyOf(doc, i) \in LinkedEvents \X Nat
  <2> DEFINE same == {j \in 1 .. i : doc[j].event = doc[i].event}
  <2>1. doc[i].event \in LinkedEvents
    <3>1. doc[i] \in Entries
      OBVIOUS
    <3> QED
      BY <3>1 DEF Entries
  <2>2. Cardinality(same) \in Nat
    <3>1. IsFiniteSet(1 .. i) /\ same \subseteq 1 .. i
      BY FS_Interval
    <3> HIDE DEF same
    <3> QED
      BY <3>1, FS_Subset, FS_CardinalityType
  <2> QED
    BY <2>1, <2>2 DEF KeyOf
<1> QED
  BY <1>1 DEF Owned

\* Where every handler is listed, the keys are one for each event.
LEMMA ListedKeys ==
  ASSUME NEW doc \in Seq(Entries), Listed(doc)
  PROVE  /\ \A e \in LinkedEvents : \E key \in Owned(doc) : key[1] = e
         /\ \A key, other \in Owned(doc) : key[1] = other[1] => key = other
<1>1. \A i \in DOMAIN doc : KeyOf(doc, i)[1] = doc[i].event /\ doc[i].event \in LinkedEvents
  <2>1. \A i \in DOMAIN doc : doc[i] \in Entries
    OBVIOUS
  <2> QED
    BY <2>1 DEF KeyOf, Entries
<1>2. ASSUME NEW e \in LinkedEvents PROVE \E key \in Owned(doc) : key[1] = e
  <2>1. PICK i \in DOMAIN doc : ExactOf(doc, e) = {i}
    BY DEF Listed
  <2>2. doc[i].event = e /\ doc[i].kind = "exact"
    BY <2>1 DEF ExactOf
  <2> QED
    BY <1>1, <2>2 DEF Owned
<1>3. ASSUME NEW key \in Owned(doc), NEW other \in Owned(doc), key[1] = other[1]
      PROVE  key = other
  <2>1. PICK i \in DOMAIN doc : doc[i].kind = "exact" /\ key = KeyOf(doc, i)
    BY DEF Owned
  <2>2. PICK j \in DOMAIN doc : doc[j].kind = "exact" /\ other = KeyOf(doc, j)
    BY DEF Owned
  <2>3. doc[i].event = doc[j].event /\ doc[i].event \in LinkedEvents
    BY <1>1, <1>3, <2>1, <2>2
  <2>4. PICK m \in DOMAIN doc : ExactOf(doc, doc[i].event) = {m}
    BY <2>3 DEF Listed
  <2>5. i \in ExactOf(doc, doc[i].event) /\ j \in ExactOf(doc, doc[i].event)
    BY <2>1, <2>2, <2>3 DEF ExactOf
  <2> QED
    BY <2>1, <2>2, <2>4, <2>5
<1> QED
  BY <1>2, <1>3

\* Codex misses a handler of the canonical set only if one is not exact.
LEMMA CanonicalIsListed ==
  ASSUME NEW doc, IsCanonical(doc), ~ \E i \in DOMAIN doc : doc[i].kind = "loose"
  PROVE  Listed(doc)
<1> SUFFICES ASSUME NEW e \in LinkedEvents PROVE \E i \in DOMAIN doc : ExactOf(doc, e) = {i}
  BY DEF Listed
<1>1. PICK i \in DOMAIN doc : doc[i].event = e /\ HandlerMatches(doc[i])
  BY DEF IsCanonical, SpecPresent
<1>2. i \in ExactOf(doc, e)
  BY <1>1 DEF ExactOf, HandlerMatches
<1>3. ASSUME NEW j \in ExactOf(doc, e) PROVE j = i
  <2>1. i \in Matching(doc, e) /\ j \in Matching(doc, e)
    BY <1>1 DEF ExactOf, Matching, HandlerMatches
  <2> QED
    BY <2>1 DEF IsCanonical, IsSettled
<1> QED
  BY <1>2, <1>3

LEMMA DocumentsAreSequences ==
  ASSUME NEW doc \in Documents
  PROVE  doc \in Seq(Entries) /\ IsDocument(doc)
<1>1. PICK m \in Nat : doc \in [1 .. m -> Entries]
  BY LinkConstants DEF Documents, BoundedSeq, SeqOf
<1>2. doc \in Seq(Entries)
  BY <1>1
<1> QED
  BY <1>2 DEF Documents

LEMMA LinkStarts == LinkInit => LinkInv
<1> SUFFICES ASSUME LinkInit PROVE LinkInv
  OBVIOUS
<1>1. hooksFile \in Seq(Entries) /\ IsDocument(hooksFile)
  BY DocumentsAreSequences DEF LinkInit
<1>2. trust \in [version : Nat, keys : SUBSET (LinkedEvents \X Nat)]
  <2>1. PICK keys \in SUBSET Owned(hooksFile) : trust = [version |-> 0, keys |-> keys]
    BY DEF LinkInit
  <2>2. keys \subseteq LinkedEvents \X Nat
    BY <1>1, <2>1, OwnedAreKeys
  <2> QED
    BY <2>1, <2>2
<1>3. PICK force \in BOOLEAN :
        link = [pc |-> "read", why |-> "", force |-> force, doc |-> <<>>, keys |-> {},
                version |-> 0, attempt |-> 1]
  BY DEF LinkInit
<1>4. link \in LinkStates
  <2>1. <<>> \in Seq(Entries)
    OBVIOUS
  <2> QED
    BY <1>3, <2>1 DEF LinkStates
<1>5. edits = 0 /\ edits \in 0 .. MaxEdits
  <2>1. edits = 0
    BY DEF LinkInit
  <2>2. 0 \in 0 .. MaxEdits
    BY LinkConstants
  <2> QED
    BY <2>1, <2>2
<1>6. link.pc = "read" /\ link.why = "" /\ link.attempt <= trust.version + 1
  <2>1. link.pc = "read" /\ link.why = "" /\ link.attempt = 1
    BY <1>3
  <2>2. 1 <= trust.version + 1
    BY <1>2
  <2> QED
    BY <2>1, <2>2
<1> QED
  BY <1>1, <1>2, <1>4, <1>5, <1>6
  DEF LinkInv, HookLinkTypeOK, MissingMeansLoose, ConflictsAreEdits

LEMMA LinkNumbers ==
  ASSUME LinkInv
  PROVE  /\ edits \in Nat /\ link.attempt \in Nat /\ link.version \in Nat /\ trust.version \in Nat
         /\ link \in LinkStates /\ link.keys \subseteq LinkedEvents \X Nat
         /\ trust \in [version : Nat, keys : SUBSET (LinkedEvents \X Nat)]
         /\ trust.keys \subseteq LinkedEvents \X Nat
<1>1. /\ edits \in 0 .. MaxEdits /\ link \in LinkStates
      /\ trust \in [version : Nat, keys : SUBSET (LinkedEvents \X Nat)]
  BY DEF LinkInv, HookLinkTypeOK
<1>2. link.attempt \in Nat /\ link.version \in Nat /\ link.keys \subseteq LinkedEvents \X Nat
  BY <1>1 DEF LinkStates
<1>3. trust.version \in Nat /\ trust.keys \subseteq LinkedEvents \X Nat
  BY <1>1
<1>4. edits \in Nat
  BY <1>1, LinkConstants
<1> QED
  BY <1>1, <1>2, <1>3, <1>4

LEMMA FailsKeeps ==
  ASSUME LinkInv, NEW why \in {"refused", "missing", "conflict", "unverified", "rpc"}, Fails(why),
         UNCHANGED <<hooksFile, trust, edits>>,
         why = "missing" /\ edits = 0 => \E i \in DOMAIN hooksFile : hooksFile[i].kind = "loose",
         why = "conflict" => trust.version >= MaxAttempts
  PROVE  LinkInv'
<1>1. /\ link \in LinkStates
      /\ link' = [link EXCEPT !.pc = "failed", !.why = why, !.keys = {}, !.version = 0]
  BY DEF LinkInv, HookLinkTypeOK, Fails
<1>2. link' \in LinkStates /\ link'.pc = "failed" /\ link'.why = why
  BY <1>1 DEF LinkStates
<1> QED
  BY <1>2 DEF LinkInv, HookLinkTypeOK, MissingMeansLoose, ConflictsAreEdits

LEMMA ReadHooksKeeps == ASSUME LinkInv, ReadHooks PROVE LinkInv'
<1> DEFINE new == LinkHooks(hooksFile)
<1>1. /\ hooksFile \in Seq(Entries) /\ IsDocument(hooksFile) /\ link \in LinkStates
      /\ link.pc = "read" /\ link.why = "" /\ link.attempt <= trust.version + 1
      /\ UNCHANGED <<hooksFile, trust, edits>>
  BY DEF LinkInv, HookLinkTypeOK, ReadHooks
<1>2. IsCanonical(new) /\ Of(new, "foreign") = Of(hooksFile, "foreign")
  BY <1>1, LinkHooksIsCanonical
<1>3. CASE Refuses(hooksFile, link.force)
  BY <1>1, <1>3, FailsKeeps DEF ReadHooks
<1>4. CASE ~Refuses(hooksFile, link.force)
  <2>1. link' = IF new = hooksFile THEN [link EXCEPT !.pc = "list"]
                                   ELSE [link EXCEPT !.pc = "write", !.doc = new]
    BY <1>4 DEF ReadHooks
  <2> HIDE DEF new
  <2>2. CASE new = hooksFile
    <3>1. link' \in LinkStates /\ link'.pc = "list" /\ link'.why = "" /\ link'.attempt = link.attempt
      BY <1>1, <2>1, <2>2 DEF LinkStates
    <3> QED
      BY <1>1, <1>2, <2>2, <3>1 DEF LinkInv, HookLinkTypeOK, MissingMeansLoose, ConflictsAreEdits
  <2>3. CASE new # hooksFile
    <3>1. new \in Seq(Entries)
      BY <1>2 DEF IsCanonical
    <3>2. /\ link' \in LinkStates /\ link'.pc = "write" /\ link'.why = "" /\ link'.doc = new
          /\ link'.attempt = link.attempt
      BY <1>1, <2>1, <2>3, <3>1 DEF LinkStates
    <3> QED
      BY <1>1, <1>2, <3>2 DEF LinkInv, HookLinkTypeOK, MissingMeansLoose, ConflictsAreEdits
  <2> QED
    BY <2>2, <2>3
<1> QED
  BY <1>3, <1>4

LEMMA WriteHooksKeeps == ASSUME LinkInv, WriteHooks PROVE LinkInv'
<1>1. /\ link \in LinkStates /\ link.pc = "write" /\ link.why = "" /\ link.attempt <= trust.version + 1
      /\ IsCanonical(link.doc) /\ hooksFile' = link.doc
      /\ link' = [link EXCEPT !.pc = "list", !.doc = <<>>] /\ UNCHANGED <<trust, edits>>
  BY DEF LinkInv, HookLinkTypeOK, WriteHooks
<1>2. <<>> \in Seq(Entries)
  OBVIOUS
<1>3. link' \in LinkStates /\ link'.pc = "list" /\ link'.why = "" /\ link'.attempt = link.attempt
  BY <1>1, <1>2 DEF LinkStates
<1>4. hooksFile' \in Seq(Entries) /\ IsDocument(hooksFile)' /\ IsCanonical(hooksFile)'
  BY <1>1 DEF IsCanonical
<1> QED
  BY <1>1, <1>3, <1>4 DEF LinkInv, HookLinkTypeOK, MissingMeansLoose, ConflictsAreEdits

LEMMA ListHooksKeeps == ASSUME LinkInv, ListHooks PROVE LinkInv'
<1>1. /\ hooksFile \in Seq(Entries) /\ link \in LinkStates
      /\ link.pc = "list" /\ link.why = "" /\ link.attempt <= trust.version + 1
      /\ edits = 0 => IsCanonical(hooksFile)
      /\ UNCHANGED <<hooksFile, trust, edits>>
  BY DEF LinkInv, HookLinkTypeOK, ListHooks
<1>2. CASE ~Listed(hooksFile)
  <2>1. Fails("missing")
    BY <1>2 DEF ListHooks
  <2>2. edits = 0 => \E i \in DOMAIN hooksFile : hooksFile[i].kind = "loose"
    BY <1>1, <1>2, CanonicalIsListed
  <2> QED
    BY <1>1, <2>1, <2>2, FailsKeeps
<1>3. CASE Listed(hooksFile)
  <2>1. PICK pc \in {"unchanged", "config"} :
          link' = [link EXCEPT !.pc = pc, !.keys = Owned(hooksFile)]
    BY <1>3 DEF ListHooks
  <2>2. Owned(hooksFile) \subseteq LinkedEvents \X Nat
    BY <1>1, OwnedAreKeys
  <2>3. /\ link' \in LinkStates /\ link'.pc = pc /\ link'.why = "" /\ link'.attempt = link.attempt
        /\ link'.keys = Owned(hooksFile)
    BY <1>1, <2>1, <2>2 DEF LinkStates
  <2>4. \A e \in LinkedEvents : \E key \in link'.keys : key[1] = e
    <3>1. \A e \in LinkedEvents : \E key \in Owned(hooksFile) : key[1] = e
      BY <1>1, <1>3, ListedKeys
    <3> QED
      BY <2>3, <3>1
  <2> QED
    BY <1>1, <2>1, <2>3, <2>4 DEF LinkInv, HookLinkTypeOK, MissingMeansLoose, ConflictsAreEdits
<1> QED
  BY <1>2, <1>3

LEMMA ReadVersionKeeps == ASSUME LinkInv, ReadVersion PROVE LinkInv'
<1>1. /\ link \in LinkStates /\ trust.version \in Nat /\ link.pc = "config" /\ link.why = ""
      /\ link' = [link EXCEPT !.pc = "batch", !.version = trust.version]
      /\ UNCHANGED <<hooksFile, trust, edits>>
  BY DEF LinkInv, HookLinkTypeOK, ReadVersion
<1>2. /\ link' \in LinkStates /\ link'.pc = "batch" /\ link'.why = "" /\ link'.keys = link.keys
      /\ link'.attempt = link.attempt /\ link'.version = trust.version
  BY <1>1 DEF LinkStates
<1> QED
  BY <1>1, <1>2 DEF LinkInv, HookLinkTypeOK, MissingMeansLoose, ConflictsAreEdits

LEMMA BatchWriteKeeps == ASSUME LinkInv, BatchWrite PROVE LinkInv'
<1>1. /\ link \in LinkStates /\ trust \in [version : Nat, keys : SUBSET (LinkedEvents \X Nat)]
      /\ link.pc = "batch" /\ link.why = "" /\ UNCHANGED <<hooksFile, edits>>
      /\ link.version = trust.version \/ link.attempt <= trust.version
      /\ trust.version \in Nat /\ link.attempt \in Nat
  BY LinkNumbers DEF LinkInv, BatchWrite
<1>2. CASE link.version = trust.version
  <2>1. /\ trust' = [version |-> trust.version + 1, keys |-> trust.keys \cup link.keys]
        /\ link' = [link EXCEPT !.pc = "verify"]
    BY <1>2 DEF BatchWrite, AfterWrite
  <2>2. link' \in LinkStates /\ link'.pc = "verify" /\ link'.why = "" /\ link'.keys = link.keys
    BY <1>1, <2>1 DEF LinkStates
  <2>3. trust' \in [version : Nat, keys : SUBSET (LinkedEvents \X Nat)]
    <3>1. trust.version + 1 \in Nat /\ trust.keys \cup link.keys \subseteq LinkedEvents \X Nat
      BY LinkNumbers
    <3> QED
      BY <2>1, <3>1
  <2> QED
    BY <1>1, <2>2, <2>3 DEF LinkInv, HookLinkTypeOK, MissingMeansLoose, ConflictsAreEdits
<1>3. CASE link.version # trust.version /\ GivesUp(link.attempt)
  <2>1. Fails("conflict") /\ UNCHANGED trust
    BY <1>3 DEF BatchWrite
  <2>2. trust.version >= MaxAttempts
    BY <1>1, <1>3, LinkConstants DEF GivesUp
  <2> QED
    BY <1>1, <2>1, <2>2, FailsKeeps
<1>4. CASE link.version # trust.version /\ ~GivesUp(link.attempt)
  <2>1. link' = [link EXCEPT !.pc = "list", !.attempt = link.attempt + 1] /\ UNCHANGED trust
    BY <1>4 DEF BatchWrite
  <2>2. /\ link' \in LinkStates /\ link'.pc = "list" /\ link'.why = ""
        /\ link'.attempt = link.attempt + 1
    <3>1. link.attempt + 1 \in Nat
      BY LinkNumbers
    <3> QED
      BY <1>1, <2>1, <3>1 DEF LinkStates
  <2>3. link'.attempt <= trust.version + 1
    <3>1. link.attempt <= trust.version
      BY <1>1, <1>4
    <3> QED
      <4>1. link.attempt \in Nat /\ trust.version \in Nat
        BY LinkNumbers
      <4>2. link.attempt + 1 <= trust.version + 1
        BY <3>1, <4>1
      <4> QED
        BY <2>2, <4>2
  <2> QED
    BY <1>1, <2>1, <2>2, <2>3 DEF LinkInv, HookLinkTypeOK, MissingMeansLoose, ConflictsAreEdits
<1> QED
  BY <1>2, <1>3, <1>4

LEMMA VerifyKeeps == ASSUME LinkInv, Verify PROVE LinkInv'
<1>1. /\ link \in LinkStates /\ link.pc = "verify" /\ link.why = ""
      /\ edits = 0 => IsCanonical(hooksFile)
      /\ UNCHANGED <<hooksFile, trust, edits>>
  BY DEF LinkInv, HookLinkTypeOK, Verify
<1>2. CASE ~Listed(hooksFile)
  <2>1. Fails("missing")
    BY <1>2 DEF Verify
  <2>2. edits = 0 => \E i \in DOMAIN hooksFile : hooksFile[i].kind = "loose"
    BY <1>1, <1>2, CanonicalIsListed
  <2> QED
    BY <1>1, <2>1, <2>2, FailsKeeps
<1>3. CASE Listed(hooksFile) /\ link.keys \subseteq Owned(hooksFile) \cap trust.keys
  <2>1. link' = [link EXCEPT !.pc = "updated"]
    BY <1>3 DEF Verify
  <2>2. link' \in LinkStates /\ link'.pc = "updated" /\ link'.why = ""
    BY <1>1, <2>1 DEF LinkStates
  <2> QED
    BY <1>1, <2>2 DEF LinkInv, HookLinkTypeOK, MissingMeansLoose, ConflictsAreEdits
<1>4. CASE Listed(hooksFile) /\ ~(link.keys \subseteq Owned(hooksFile) \cap trust.keys)
  <2>1. Fails("unverified")
    BY <1>4 DEF Verify
  <2> QED
    BY <1>1, <2>1, FailsKeeps
<1> QED
  BY <1>2, <1>3, <1>4

LEMMA RequestFailsKeeps == ASSUME LinkInv, RequestFails PROVE LinkInv'
  BY FailsKeeps DEF RequestFails

LEMMA EditHooksKeeps == ASSUME LinkInv, EditHooks PROVE LinkInv'
<1>1. /\ hooksFile \in Seq(Entries) /\ IsDocument(hooksFile) /\ edits \in Nat /\ edits < MaxEdits
      /\ edits' = edits + 1 /\ UNCHANGED <<trust, link>>
  BY LinkNumbers DEF LinkInv, HookLinkTypeOK, EditHooks
<1>2. hooksFile' \in Seq(Entries) /\ IsDocument(hooksFile)'
  <2>1. ASSUME NEW i \in 1 .. Len(hooksFile) + 1, NEW e \in LinkedEvents, NEW kind \in {"stale", "foreign"},
               IsDocument(InsertAt(hooksFile, i, [event |-> e, kind |-> kind])),
               hooksFile' = InsertAt(hooksFile, i, [event |-> e, kind |-> kind])
        PROVE  hooksFile' \in Seq(Entries) /\ IsDocument(hooksFile)'
    <3>1. [event |-> e, kind |-> kind] \in Entries
      BY DEF Entries, Kinds
    <3>2. hooksFile' \in Seq(Entries)
      BY <1>1, <2>1, <3>1, InsertAtFacts
    <3> QED
      BY <2>1, <3>2
  <2>2. ASSUME NEW i \in DOMAIN hooksFile, hooksFile' = RemoveAt(hooksFile, i)
        PROVE  hooksFile' \in Seq(Entries) /\ IsDocument(hooksFile)'
    <3>1. i \in 1 .. Len(hooksFile)
      BY <1>1
    <3>2. RemoveAt(hooksFile, i) \in Seq(Entries) /\ IsDocument(RemoveAt(hooksFile, i))
      BY <1>1, <3>1, RemoveAtFacts, RemovedIsDocument
    <3> QED
      BY <2>2, <3>2
  <2> QED
    BY <2>1, <2>2 DEF EditHooks
<1>3. edits' \in 0 .. MaxEdits /\ edits' # 0
  BY <1>1, LinkConstants
<1> QED
  BY <1>1, <1>2, <1>3 DEF LinkInv, HookLinkTypeOK, MissingMeansLoose, ConflictsAreEdits

LEMMA EditConfigKeeps == ASSUME LinkInv, EditConfig PROVE LinkInv'
<1>1. /\ edits \in Nat /\ edits < MaxEdits /\ edits' = edits + 1 /\ UNCHANGED <<hooksFile, link>>
  BY LinkNumbers DEF EditConfig
<1>2. PICK keys \in SUBSET (trust.keys \cup Owned(hooksFile)) :
        trust' = [version |-> trust.version + 1, keys |-> keys]
  BY DEF EditConfig
<1>3. keys \subseteq LinkedEvents \X Nat /\ trust.version \in Nat
  <2>1. Owned(hooksFile) \subseteq LinkedEvents \X Nat
    BY OwnedAreKeys DEF LinkInv, HookLinkTypeOK
  <2> QED
    BY <2>1, LinkNumbers
<1>4. /\ trust' \in [version : Nat, keys : SUBSET (LinkedEvents \X Nat)]
      /\ trust'.version = trust.version + 1
  BY <1>2, <1>3
<1>5. edits' \in 0 .. MaxEdits /\ edits' # 0
  BY <1>1, LinkConstants
<1>6. link.attempt \in Nat
  BY DEF LinkInv, HookLinkTypeOK, LinkStates
<1>7. /\ link.attempt <= trust.version + 1 =>
           link.attempt <= trust'.version + 1 /\ link.attempt <= trust'.version
      /\ trust.version >= MaxAttempts => trust'.version >= MaxAttempts
  BY <1>3, <1>4, <1>6, LinkConstants
<1> QED
  BY <1>1, <1>4, <1>5, <1>7 DEF LinkInv, HookLinkTypeOK, MissingMeansLoose, ConflictsAreEdits

LEMMA LinkStep == ASSUME LinkInv, [LinkNext]_linkVars PROVE LinkInv'
<1>1. CASE UNCHANGED linkVars
  BY <1>1 DEF linkVars, LinkInv, HookLinkTypeOK, MissingMeansLoose, ConflictsAreEdits
<1> QED
  BY <1>1, ReadHooksKeeps, WriteHooksKeeps, ListHooksKeeps, ReadVersionKeeps, BatchWriteKeeps,
     VerifyKeeps, RequestFailsKeeps, EditHooksKeeps, EditConfigKeeps DEF LinkNext

LEMMA ReportsAreTrue == ASSUME LinkInv, [LinkNext]_linkVars PROVE ReportIsTrue
<1> SUFFICES ASSUME link.pc # link'.pc, link'.pc \in {"updated", "unchanged"}
             PROVE  Listed(hooksFile) /\ Owned(hooksFile) \subseteq trust'.keys
  BY DEF ReportIsTrue
<1>1. link \in LinkStates /\ hooksFile \in Seq(Entries)
  BY DEF LinkInv, HookLinkTypeOK
<1>2. ListHooks \/ Verify
  BY <1>1 DEF LinkNext, linkVars, ReadHooks, WriteHooks, ReadVersion, BatchWrite, AfterWrite, RequestFails,
              EditHooks, EditConfig, Fails, LinkStates
<1>3. CASE ListHooks
  BY <1>1, <1>3 DEF ListHooks, Fails, LinkStates
<1>4. CASE Verify
  <2>1. /\ link.pc = "verify" /\ Listed(hooksFile) /\ trust' = trust
        /\ link.keys \subseteq Owned(hooksFile) \cap trust.keys
    <3>1. link.pc = "verify" /\ trust' = trust
      BY <1>4 DEF Verify
    <3>2. ASSUME NEW why, Fails(why) PROVE link'.pc = "failed"
      BY <1>1, <3>2 DEF Fails, LinkStates
    <3>3. ~Fails("missing") /\ ~Fails("unverified")
      BY <3>2
    <3> QED
      BY <1>4, <3>1, <3>3 DEF Verify
  <2>2. ASSUME NEW key \in Owned(hooksFile) PROVE key \in trust.keys
    <3>1. key[1] \in LinkedEvents
      BY <1>1, OwnedAreKeys
    <3>2. PICK other \in link.keys : other[1] = key[1]
      BY <2>1, <3>1 DEF LinkInv
    <3>3. other = key
      BY <1>1, <2>1, <3>2, ListedKeys
    <3> QED
      BY <2>1, <3>2, <3>3
  <2> QED
    BY <2>1, <2>2
<1> QED
  BY <1>2, <1>3, <1>4

\* The types of link and what its properties rest on, for any set of events and
\* any number of attempts: it writes only canonical documents, and each of its
\* attempts that met a newer version had a write of the configuration by others.
THEOREM HookLinkCorrect == LinkSpec => []LinkInv
  BY LinkStarts, LinkStep, PTL DEF LinkSpec

\* For any document and any specs, what link writes is one canonical set, keeps
\* the handlers of other tools in their order, and leaves nothing for another
\* link to do (link_hooks, remove_stale_owned_commands).
THEOREM LinkWritesOneSet == LinkSpec => []LinkConverges
<1>1. ASSUME LinkInv PROVE LinkConverges
  <2> SUFFICES ASSUME link.pc = "write" PROVE LinkConverges
    BY DEF LinkConverges
  <2>1. IsCanonical(link.doc) /\ (edits = 0 => Of(link.doc, "foreign") = Of(hooksFile, "foreign"))
    BY <1>1 DEF LinkInv
  <2>2. LinkHooks(link.doc) = link.doc
    BY <2>1, CanonicalStays
  <2>3. Of(link.doc, "stale") = <<>>
    <3>1. link.doc \in Seq(Entries)
      BY <2>1 DEF IsCanonical
    <3>2. \A i \in 1 .. Len(link.doc) : link.doc[i].kind # "stale"
      BY <2>1, <3>1 DEF IsCanonical, IsSettled, IsOwned, HandlerMatches
    <3> QED
      BY <3>1, <3>2, OfNothing
  <2>4. ASSUME NEW e \in LinkedEvents
        PROVE  \E i \in DOMAIN link.doc : Matching(link.doc, e) = {i}
    <3>1. PICK i \in DOMAIN link.doc : i \in Matching(link.doc, e)
      BY <2>1 DEF IsCanonical, SpecPresent, Matching
    <3> QED
      BY <2>1, <3>1 DEF IsCanonical, IsSettled
  <2> QED
    BY <2>1, <2>2, <2>3, <2>4 DEF LinkConverges, IsCanonical
<1> QED
  BY <1>1, HookLinkCorrect, PTL

\* Whatever others do to the two files, link reports success only at a moment
\* when each event has its exact handler and the trust in it.
THEOREM SuccessIsTrusted == LinkSpec => TrustedWhenReported
  BY ReportsAreTrue, HookLinkCorrect, PTL DEF LinkSpec, TrustedWhenReported

\* Unless somebody edits the file, the trust misses a handler only where link
\* kept one that Codex reports otherwise.
THEOREM OnlyLooseIsMissing == LinkSpec => []MissingMeansLoose
<1>1. LinkInv => MissingMeansLoose
  BY DEF LinkInv
<1> QED
  BY <1>1, HookLinkCorrect, PTL

\* For any number of attempts, giving up over a conflict takes as many writes of
\* the configuration by others.
THEOREM ConflictsTakeEdits == LinkSpec => []ConflictsAreEdits
<1>1. LinkInv => ConflictsAreEdits
  BY DEF LinkInv
<1> QED
  BY <1>1, HookLinkCorrect, PTL

-----------------------------------------------------------------------------
(* The instance.  Each behaviour that is checked is one of every part: of   *)
(* the one that moves, and of the others, which stand still.                *)

LEMMA InstanceStarts ==
  MCInit => /\ WatchersInit /\ TurnGateInit /\ LinkInit
            /\ AppServerInit /\ InboxInit /\ DirtInit
  BY DEF MCInit

LEMMA InstanceSteps ==
  ASSUME [MCNext]_hostVars
  PROVE  /\ [WatchersNext]_watchers /\ [TurnGateNext]_turnVars /\ [LinkNext]_linkVars
         /\ [AppServerNext]_serverVars /\ [InboxNext]_inboxVars /\ [DirtNext]_dirtVars
<1>1. CASE UNCHANGED hostVars
  <2>1. /\ UNCHANGED watchers /\ UNCHANGED turnVars /\ UNCHANGED linkVars
        /\ UNCHANGED serverVars /\ UNCHANGED inboxVars /\ UNCHANGED dirtVars
    BY <1>1, Zenon DEF hostVars
  <2> QED
    BY <2>1, Zenon
<1>2. CASE MCNext
  <2>1. \/ /\ WatchersNext /\ UNCHANGED <<turnVars, linkVars, serverVars, inboxVars, dirtVars>>
        \/ TurnGateNext /\ UNCHANGED <<watchers, linkVars, serverVars, inboxVars, dirtVars>>
        \/ LinkNext /\ UNCHANGED <<watchers, turnVars, serverVars, inboxVars, dirtVars>>
        \/ AppServerNext /\ UNCHANGED <<watchers, turnVars, linkVars, inboxVars, dirtVars>>
        \/ InboxNext /\ UNCHANGED <<watchers, turnVars, linkVars, serverVars, dirtVars>>
        \/ DirtNext /\ UNCHANGED <<watchers, turnVars, linkVars, serverVars, inboxVars>>
    BY <1>2, Zenon DEF MCNext, Feed, Wait
  <2> QED
    BY <2>1, Zenon
<1> QED
  BY <1>1, <1>2

\* What is checked of the instance is checked of every part: with the liveness
\* left out, a behaviour of the instance is one of each.
THEOREM InstanceIsMadeOfParts ==
  MCSpec => /\ WatchersInit /\ [][WatchersNext]_watchers
            /\ TurnGateInit /\ [][TurnGateNext]_turnVars
            /\ LinkInit /\ [][LinkNext]_linkVars
            /\ AppServerInit /\ [][AppServerNext]_serverVars
            /\ InboxInit /\ [][InboxNext]_inboxVars
            /\ DirtInit /\ [][DirtNext]_dirtVars
  BY InstanceStarts, InstanceSteps, PTL DEF MCSpec

\* The tables, files, queues and processes of every part keep their types and
\* their limits, for any values of the constants.
THEOREM InstanceKeepsTypes == MCSpec => []MCTypeOK
<1>1. WatchersInv /\ TurnGateInv /\ LinkInv /\ AppServerInv /\ InboxInv /\ DirtInv => MCTypeOK
  BY DEF MCTypeOK, WatchersInv, TurnGateInv, LinkInv, AppServerInv, InboxInv, DirtInv
<1> QED
  BY <1>1, InstanceIsMadeOfParts, WatchersStart, WatchersStep, TurnGateStarts, TurnGateStep,
     TurnGateStays,     LinkStarts, LinkStep, AppServerStarts, AppServerStep, InboxStarts, InboxStep,
     DirtStarts, DirtStep, PTL
=============================================================================
