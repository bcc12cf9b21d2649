--------------------------- MODULE CoverageProofs ---------------------------
(***************************************************************************)
(* For any callers, contexts, installations and times: whoever is told     *)
(* that coverage is complete gets news that is no older than it asked for. *)
(***************************************************************************)
EXTENDS Coverage, TLAPS

\* The length and the members of the order of collecting.
LEMMA OrderFacts ==
  /\ Len(Order) = 4 /\ DOMAIN Order = 1 .. 4
  /\ \A i \in 1 .. 4 : Order[i] \in Facts
BY DEF Order, Facts, CodexFacts

-----------------------------------------------------------------------------
\* What a call has seen was good within the time it has spent collecting.
SeenIsRecent ==
  \A p \in Callers : Collecting(p) =>
    /\ call[p].ctx \in Contexts
    /\ \A f \in call[p].seen :
         Good(call[p].ctx, f) \/ badFor[call[p].ctx][f] - 1 <= call[p].spent

\* What is cached was good within the age of the cache and a time of collecting.
CachedIsRecent ==
  provided.ctx # NoContext =>
    \A client \in Clients : <<provided.ctx, client>> \in Installed =>
      \A f \in FactsOf(client) :
        Good(provided.ctx, f) \/ badFor[provided.ctx][f] - 1 <= MaxCollect + provided.age

\* A process that a sweep has probed, and does not count as unknown, was visible
\* at that moment; only who may be answered from the cache looks there.
CallsAreHonest ==
  \A p \in Callers :
    /\ call[p].pc # "idle" => call[p].ctx \in Contexts
    /\ call[p].pc # "idle" => /\ Processes \ hidden \subseteq call[p].visible
                             /\ Processes \ (call[p].left \cup call[p].unknown)
                                  \subseteq call[p].visible
    /\ call[p].pc \in {"lookup", "collect", "store"} => call[p].left = {}
    /\ call[p].pc = "lookup" => call[p].allow
    /\ call[p].pc \in {"sweep", "lookup"} => call[p].seen = {}

\* The inductive invariant.
CoverageInv == CoverageTypeOK /\ SeenIsRecent /\ CachedIsRecent /\ CallsAreHonest

USE CoverageAssumption DEF Clients, NoContext

-----------------------------------------------------------------------------
\* A call in progress, one field after the other.
LEMMA CallTypes ==
  ASSUME CoverageTypeOK, NEW p \in Callers
  PROVE  /\ call[p].pc \in {"idle", "sweep", "lookup", "collect", "replace", "store"}
         /\ call[p].ctx \in Contexts \cup {NoContext}
         /\ call[p].allow \in BOOLEAN /\ call[p].visible \subseteq Processes
         /\ call[p].unknown \subseteq Processes /\ call[p].left \subseteq Processes
         /\ call[p].next \in 1 .. 4 /\ call[p].seen \subseteq Facts
         /\ call[p].spent \in 0 .. MaxCollect
BY OrderFacts DEF CoverageTypeOK, CallStates

\* The times are naturals.
LEMMA Times ==
  MaxCollect \in Nat /\ CacheSeconds \in Nat /\ Past \in Nat /\ Past >= MaxCollect + 2
BY DEF Past

\* One step of a time.
LEMMA LaterTypes ==
  ASSUME NEW t \in 0 .. Past
  PROVE  /\ Later(t) \in 0 .. Past
         /\ Later(t) = t + 1 \/ (t = Past /\ Later(t) = Past)
BY Times DEF Later

\* The facts of a client are facts.
LEMMA FactsOfFacts ==
  \A client \in Clients : FactsOf(client) \subseteq Facts
BY DEF FactsOf, Facts

\* The initial states.
LEMMA CoverageInitially ==
  CoverageInit => CoverageInv
<1> SUFFICES ASSUME CoverageInit PROVE CoverageInv
  OBVIOUS
<1>1. NoCall.pc = "idle"
  BY DEF NoCall
<1>2. CoverageTypeOK
  BY OrderFacts DEF CoverageInit, CoverageTypeOK, CallStates, NoCall, Past, Cleared
<1>3. SeenIsRecent /\ CachedIsRecent /\ CallsAreHonest
  BY <1>1 DEF CoverageInit, Cleared, SeenIsRecent, CachedIsRecent, CallsAreHonest, Collecting
<1> QED
  BY <1>2, <1>3 DEF CoverageInv

\* A change of the host: something good is bad for no time yet.
LEMMA HostChangesKeeps ==
  ASSUME CoverageInv, HostChanges
  PROVE  CoverageInv'
<1> USE DEF CoverageInv
<1>1. CASE Hide
  <2>1. PICK q \in Processes : hidden' = IF q \in hidden THEN hidden \ {q} ELSE hidden \cup {q}
    BY <1>1 DEF Hide
  <2>2. /\ call' = [p \in Callers |->
             IF call[p].pc = "idle" THEN call[p]
             ELSE [call[p] EXCEPT !.visible = @ \cup (Processes \ hidden')]]
        /\ UNCHANGED <<badFor, provided, answer>>
        /\ flips' \in 0 .. MaxFlips
    BY <1>1 DEF Hide, HostChanges, CoverageTypeOK
  <2>3. hidden' \subseteq Processes
    BY <2>1 DEF CoverageTypeOK
  <2>4. ASSUME NEW p \in Callers
        PROVE  /\ call'[p] \in CallStates
               /\ call'[p].pc = call[p].pc /\ call'[p].ctx = call[p].ctx
               /\ call'[p].allow = call[p].allow /\ call'[p].unknown = call[p].unknown
               /\ call'[p].seen = call[p].seen /\ call'[p].spent = call[p].spent
               /\ call'[p].left = call[p].left
               /\ call[p].pc # "idle" =>
                    call'[p].visible = call[p].visible \cup (Processes \ hidden')
    <3>1. call[p] \in CallStates
      BY DEF CoverageTypeOK
    <3>2. CASE call[p].pc = "idle"
      BY <2>2, <3>1, <3>2
    <3>3. CASE call[p].pc # "idle"
      <4>1. call'[p] = [call[p] EXCEPT !.visible = call[p].visible \cup (Processes \ hidden')]
        BY <2>2, <3>3
      <4> QED
        BY <3>1, <3>3, <4>1 DEF CallStates
    <3> QED
      BY <3>2, <3>3
  <2>5. CoverageTypeOK'
    BY <2>2, <2>3, <2>4 DEF CoverageTypeOK
  <2>6. SeenIsRecent' /\ CachedIsRecent'
    BY <2>2, <2>4 DEF SeenIsRecent, CachedIsRecent, Collecting, Good
  <2>7. CallsAreHonest'
    BY <2>2, <2>4 DEF CallsAreHonest
  <2> QED
    BY <2>5, <2>6, <2>7
<1>2. CASE \E ctx \in Contexts, f \in Facts : Flip(ctx, f)
  <2>1. PICK ctx \in Contexts, f \in Facts : Flip(ctx, f)
    BY <1>2
  <2>2. UNCHANGED <<hidden, call, provided, answer>> /\ flips' \in 0 .. MaxFlips
    BY <2>1 DEF Flip, HostChanges, CoverageTypeOK
  <2>3. /\ badFor' \in [Contexts -> [Facts -> 0 .. Past]]
        /\ \A c \in Contexts, g \in Facts : badFor'[c][g] \in {0, 1, badFor[c][g]}
    BY <2>1 DEF Flip, CoverageTypeOK, Past, Good
  <2>4. CoverageTypeOK'
    BY <2>2, <2>3 DEF CoverageTypeOK
  <2>5. SeenIsRecent'
    <3> SUFFICES ASSUME NEW p \in Callers, Collecting(p), NEW g \in call[p].seen
                 PROVE  badFor'[call[p].ctx][g] = 0 \/ badFor'[call[p].ctx][g] - 1 <= call[p].spent
      BY <2>2 DEF SeenIsRecent, Collecting, Good
    <3>1. call[p].ctx \in Contexts /\ g \in Facts /\ call[p].spent \in 0 .. MaxCollect
      BY CallTypes DEF SeenIsRecent
    <3>2. badFor[call[p].ctx][g] = 0 \/ badFor[call[p].ctx][g] - 1 <= call[p].spent
      BY DEF SeenIsRecent, Good
    <3> QED
      BY <2>3, <3>1, <3>2, Times
  <2>6. CachedIsRecent'
    <3> SUFFICES ASSUME provided.ctx # NoContext, NEW client \in Clients,
                        <<provided.ctx, client>> \in Installed, NEW g \in FactsOf(client)
                 PROVE  \/ badFor'[provided.ctx][g] = 0
                        \/ badFor'[provided.ctx][g] - 1 <= MaxCollect + provided.age
      BY <2>2 DEF CachedIsRecent, Good
    <3>1. provided.ctx \in Contexts /\ g \in Facts /\ provided.age \in 0 .. Past
      BY FactsOfFacts DEF CoverageTypeOK
    <3>2. \/ badFor[provided.ctx][g] = 0
          \/ badFor[provided.ctx][g] - 1 <= MaxCollect + provided.age
      BY DEF CachedIsRecent, Good
    <3> QED
      BY <2>3, <3>1, <3>2, Times
  <2>7. CallsAreHonest'
    BY <2>2 DEF CallsAreHonest
  <2> QED
    BY <2>4, <2>5, <2>6, <2>7
<1> QED
  BY <1>1, <1>2 DEF HostChanges

\* Time passes for what is bad, for the cache and for who collects alike.
LEMMA TickKeeps ==
  ASSUME CoverageInv, CoverageTick
  PROVE  CoverageInv'
<1> USE DEF CoverageInv
<1>1. UNCHANGED <<hidden, answer, flips>>
  BY DEF CoverageTick
<1>2. /\ badFor' \in [Contexts -> [Facts -> 0 .. Past]]
      /\ \A c \in Contexts, f \in Facts :
           \/ badFor[c][f] = 0 /\ badFor'[c][f] = 0
           \/ badFor'[c][f] = badFor[c][f] + 1
           \/ badFor[c][f] = Past /\ badFor'[c][f] = Past
  <2>1. badFor \in [Contexts -> [Facts -> 0 .. Past]]
    BY DEF CoverageTypeOK
  <2>2. ASSUME NEW c \in Contexts
        PROVE  /\ badFor'[c] = [f \in Facts |-> IF badFor[c][f] = 0 THEN 0 ELSE Later(badFor[c][f])]
               /\ \A f \in Facts : badFor[c][f] \in 0 .. Past
    BY <2>1 DEF CoverageTick, Good
  <2>3. ASSUME NEW c \in Contexts, NEW f \in Facts
        PROVE  /\ badFor'[c][f] \in 0 .. Past
               /\ \/ badFor[c][f] = 0 /\ badFor'[c][f] = 0
                  \/ badFor'[c][f] = badFor[c][f] + 1
                  \/ badFor[c][f] = Past /\ badFor'[c][f] = Past
    <3>1. badFor'[c][f] = IF badFor[c][f] = 0 THEN 0 ELSE Later(badFor[c][f])
      BY <2>2
    <3>2. badFor[c][f] \in 0 .. Past
      BY <2>2
    <3>3. /\ Later(badFor[c][f]) \in 0 .. Past
          /\ \/ Later(badFor[c][f]) = badFor[c][f] + 1
             \/ badFor[c][f] = Past /\ Later(badFor[c][f]) = Past
      BY <3>2, LaterTypes
    <3> QED
      BY <3>1, <3>2, <3>3, Times
  <2>4. badFor' \in [Contexts -> [Facts -> 0 .. Past]]
    BY <2>2, <2>3 DEF CoverageTick
  <2> QED
    BY <2>3, <2>4
<1>3. /\ provided' \in [ctx : Contexts \cup {NoContext}, age : 0 .. Past]
      /\ provided'.ctx = provided.ctx
      /\ provided'.age = provided.age + 1 \/ (provided.age = Past /\ provided'.age = Past)
  <2>1. provided \in [ctx : Contexts \cup {NoContext}, age : 0 .. Past]
    BY DEF CoverageTypeOK
  <2>2. provided' = [provided EXCEPT !.age = Later(provided.age)]
    BY DEF CoverageTick
  <2> QED
    BY <2>1, <2>2, LaterTypes
<1>4. ASSUME NEW p \in Callers
      PROVE  /\ call'[p] \in CallStates
             /\ call'[p].pc = call[p].pc /\ call'[p].ctx = call[p].ctx
             /\ call'[p].allow = call[p].allow /\ call'[p].unknown = call[p].unknown
             /\ call'[p].seen = call[p].seen /\ call'[p].visible = call[p].visible
             /\ call'[p].left = call[p].left
             /\ Collecting(p) => call'[p].spent = call[p].spent + 1
  <2>1. call[p] \in CallStates /\ call[p].spent \in 0 .. MaxCollect
    BY CallTypes DEF CoverageTypeOK
  <2>2. CASE Collecting(p)
    <3>1. call[p].spent < MaxCollect
      BY <2>2 DEF CoverageTick
    <3>2. call'[p] = [call[p] EXCEPT !.spent = call[p].spent + 1]
      BY <2>2 DEF CoverageTick
    <3>3. call[p].spent + 1 \in 0 .. MaxCollect
      BY <2>1, <3>1
    <3> QED
      BY <2>1, <3>2, <3>3 DEF CallStates
  <2>3. CASE ~Collecting(p)
    BY <2>1, <2>3 DEF CoverageTick
  <2> QED
    BY <2>2, <2>3
<1>5. CoverageTypeOK'
  <2>1. call' = [p \in Callers |-> call'[p]]
    BY DEF CoverageTick
  <2> QED
    BY <1>1, <1>2, <1>3, <1>4, <2>1 DEF CoverageTypeOK
<1>6. SeenIsRecent'
  <2> SUFFICES ASSUME NEW p \in Callers, Collecting(p), NEW f \in call[p].seen
               PROVE  /\ call[p].ctx \in Contexts
                      /\ \/ badFor'[call[p].ctx][f] = 0
                         \/ badFor'[call[p].ctx][f] - 1 <= call[p].spent + 1
    BY <1>4 DEF SeenIsRecent, Collecting, Good
  <2>1. call[p].ctx \in Contexts /\ f \in Facts /\ call[p].spent \in 0 .. MaxCollect
    BY CallTypes DEF SeenIsRecent
  <2>2. badFor[call[p].ctx][f] = 0 \/ badFor[call[p].ctx][f] - 1 <= call[p].spent
    BY DEF SeenIsRecent, Good
  <2>3. badFor[call[p].ctx][f] \in 0 .. Past
    BY <2>1 DEF CoverageTypeOK
  <2> QED
    BY <1>2, <2>1, <2>2, <2>3, Times
<1>7. CachedIsRecent'
  <2> SUFFICES ASSUME provided.ctx # NoContext, NEW client \in Clients,
                      <<provided.ctx, client>> \in Installed, NEW f \in FactsOf(client)
               PROVE  \/ badFor'[provided.ctx][f] = 0
                      \/ badFor'[provided.ctx][f] - 1 <= MaxCollect + provided'.age
    BY <1>3 DEF CachedIsRecent, Good
  <2>1. provided.ctx \in Contexts /\ f \in Facts /\ provided.age \in 0 .. Past
    BY FactsOfFacts DEF CoverageTypeOK
  <2>2. badFor[provided.ctx][f] = 0 \/ badFor[provided.ctx][f] - 1 <= MaxCollect + provided.age
    BY DEF CachedIsRecent, Good
  <2>3. badFor[provided.ctx][f] \in 0 .. Past
    BY <2>1 DEF CoverageTypeOK
  <2> QED
    BY <1>2, <1>3, <2>1, <2>2, <2>3, Times
<1>8. CallsAreHonest'
  BY <1>1, <1>4 DEF CallsAreHonest
<1> QED
  BY <1>5, <1>6, <1>7, <1>8

-----------------------------------------------------------------------------
(* The steps of a call *)

\* A step of one caller that touches neither the host nor the cache.
LEMMA OneCallKeeps ==
  ASSUME CoverageInv, UNCHANGED <<badFor, hidden, provided, flips>>,
         answer' \in [Callers -> {"none", "complete", "partial"}],
         NEW p \in Callers, NEW c \in CallStates, call' = [call EXCEPT ![p] = c],
         c.pc # "idle" => c.ctx \in Contexts,
         c.pc # "idle" => /\ Processes \ hidden \subseteq c.visible
                          /\ Processes \ (c.left \cup c.unknown) \subseteq c.visible,
         c.pc \in {"lookup", "collect", "store"} => c.left = {},
         c.pc = "lookup" => c.allow,
         c.pc \in {"sweep", "lookup"} => c.seen = {},
         c.pc \in {"collect", "replace", "store"} => \A f \in c.seen :
           badFor[c.ctx][f] = 0 \/ badFor[c.ctx][f] - 1 <= c.spent
  PROVE  CoverageInv'
<1> USE DEF CoverageInv
<1>1. call \in [Callers -> CallStates]
  BY DEF CoverageTypeOK
<1>2. /\ call'[p] = c /\ call' \in [Callers -> CallStates]
      /\ \A q \in Callers \ {p} : call'[q] = call[q]
  BY <1>1
<1>3. CoverageTypeOK'
  BY <1>2 DEF CoverageTypeOK
<1>4. SeenIsRecent'
  BY <1>2 DEF SeenIsRecent, Collecting, Good
<1>5. CachedIsRecent'
  BY DEF CachedIsRecent, Good
<1>6. CallsAreHonest'
  BY <1>2 DEF CallsAreHonest
<1> QED
  BY <1>3, <1>4, <1>5, <1>6

\* A call that is over.
LEMMA NoCallIsIdle ==
  NoCall \in CallStates /\ NoCall.pc = "idle"
BY OrderFacts, Times DEF NoCall, CallStates

\* Who asks has seen nothing yet.
LEMMA BeginCallKeeps ==
  ASSUME CoverageInv, NEW p \in Callers, BeginCall(p)
  PROVE  CoverageInv'
<1>1. PICK a \in Calls : call' = [call EXCEPT ![p] = NewCall(a[2], a[3], Processes \ hidden)]
  BY DEF BeginCall
<1> DEFINE c == NewCall(a[2], a[3], Processes \ hidden)
<1>3. call' = [call EXCEPT ![p] = c]
  BY <1>1
<1>4. a[2] \in Contexts /\ a[3] \in BOOLEAN
  OBVIOUS
<1>5. /\ c \in CallStates /\ c.pc = "sweep" /\ c.ctx \in Contexts
      /\ c.seen = {} /\ c.visible = Processes \ hidden /\ c.left = Processes
  BY <1>4, OrderFacts, Times DEF NewCall, CallStates
<1>6. answer' \in [Callers -> {"none", "complete", "partial"}]
  BY DEF BeginCall, CoverageInv, CoverageTypeOK
<1>7. UNCHANGED <<badFor, hidden, provided, flips>>
  BY DEF BeginCall
<1> HIDE DEF c
<1> QED
  BY <1>3, <1>5, <1>6, <1>7, OneCallKeeps

\* A process that is probed is visible, or is unknown.
LEMMA ProbeKeeps ==
  ASSUME CoverageInv, NEW p \in Callers, Probe(p)
  PROVE  CoverageInv'
<1>1. PICK q \in call[p].left :
        call' = [call EXCEPT ![p].left = @ \ {q}, ![p].unknown = @ \cup ({q} \cap hidden)]
  BY DEF Probe
<1> DEFINE c == [call[p] EXCEPT !.left = @ \ {q}, !.unknown = @ \cup ({q} \cap hidden)]
<1>2. call[p] \in CallStates /\ hidden \subseteq Processes /\ q \in Processes
  BY CallTypes DEF CoverageInv, CoverageTypeOK
<1>3. call' = [call EXCEPT ![p] = c]
  BY <1>1
<1>4. /\ c \in CallStates /\ c.pc = call[p].pc /\ c.ctx = call[p].ctx /\ c.seen = call[p].seen
      /\ c.left = call[p].left \ {q} /\ c.unknown = call[p].unknown \cup ({q} \cap hidden)
      /\ c.visible = call[p].visible /\ c.allow = call[p].allow /\ c.spent = call[p].spent
  BY <1>2 DEF CallStates
<1>5. /\ c.pc # "idle" => c.ctx \in Contexts
      /\ c.pc # "idle" => /\ Processes \ hidden \subseteq c.visible
                         /\ Processes \ (c.left \cup c.unknown) \subseteq c.visible
      /\ c.pc \in {"lookup", "collect", "store"} => c.left = {}
      /\ c.pc = "lookup" => c.allow
      /\ c.pc \in {"sweep", "lookup"} => c.seen = {}
  <2>1. c.pc # "idle" => Processes \ (c.left \cup c.unknown) \subseteq c.visible
    BY <1>2, <1>4 DEF CoverageInv, CallsAreHonest
  <2> QED
    BY <1>4, <2>1 DEF CoverageInv, CallsAreHonest
<1>6. c.pc \in {"collect", "replace", "store"} => \A f \in c.seen :
        badFor[c.ctx][f] = 0 \/ badFor[c.ctx][f] - 1 <= c.spent
  BY <1>4 DEF CoverageInv, SeenIsRecent, Collecting, Good
<1>7. /\ UNCHANGED <<badFor, hidden, provided, flips>>
      /\ answer' \in [Callers -> {"none", "complete", "partial"}]
  BY DEF Probe, CoverageInv, CoverageTypeOK
<1> HIDE DEF c
<1> QED
  BY <1>3, <1>4, <1>5, <1>6, <1>7, OneCallKeeps

\* A sweep that is over has probed every process.
LEMMA SweepEndsKeeps ==
  ASSUME CoverageInv, NEW p \in Callers, SweepEnds(p)
  PROVE  CoverageInv'
<1> DEFINE next == IF call[p].pc = "replace" THEN "store"
                   ELSE IF call[p].allow THEN "lookup" ELSE "collect"
           c == [call[p] EXCEPT !.pc = next]
<1>1. call[p] \in CallStates /\ call[p].pc \in {"sweep", "replace"} /\ call[p].left = {}
  BY DEF SweepEnds, CoverageInv, CoverageTypeOK
<1>2. call' = [call EXCEPT ![p] = c]
  BY DEF SweepEnds, CoverageInv, CoverageTypeOK
<1>3. next \in {"lookup", "collect", "store"} /\ (next = "lookup" => call[p].allow)
      /\ (call[p].pc = "sweep" <=> next \in {"lookup", "collect"})
  BY <1>1
<1> HIDE DEF next
<1>4. /\ c \in CallStates /\ c.pc = next /\ c.ctx = call[p].ctx /\ c.seen = call[p].seen
      /\ c.left = {} /\ c.unknown = call[p].unknown /\ c.visible = call[p].visible
      /\ c.allow = call[p].allow /\ c.spent = call[p].spent
  BY <1>1, <1>3 DEF CallStates
<1>5. /\ call[p].ctx \in Contexts
      /\ Processes \ hidden \subseteq call[p].visible
      /\ Processes \ (call[p].left \cup call[p].unknown) \subseteq call[p].visible
      /\ call[p].pc = "sweep" => call[p].seen = {}
  BY <1>1 DEF CoverageInv, CallsAreHonest
<1>6. \A f \in call[p].seen :
        badFor[call[p].ctx][f] = 0 \/ badFor[call[p].ctx][f] - 1 <= call[p].spent
  BY <1>1, <1>5 DEF CoverageInv, SeenIsRecent, Collecting, Good
<1>7. /\ UNCHANGED <<badFor, hidden, provided, flips>>
      /\ answer' \in [Callers -> {"none", "complete", "partial"}]
  BY DEF SweepEnds, CoverageInv, CoverageTypeOK
<1> HIDE DEF c
<1> QED
  BY <1>1, <1>2, <1>3, <1>4, <1>5, <1>6, <1>7, OneCallKeeps

\* Whatever returns leaves no call behind.
LEMMA ReturnKeeps ==
  ASSUME CoverageInv, NEW p \in Callers, UNCHANGED <<badFor, hidden, provided, flips>>,
         call' = [call EXCEPT ![p] = NoCall],
         answer' \in [Callers -> {"none", "complete", "partial"}]
  PROVE  CoverageInv'
BY NoCallIsIdle, OneCallKeeps

\* What a call returns is an answer.
LEMMA Answers ==
  ASSUME CoverageTypeOK, NEW p \in Callers, NEW complete, Return(p, complete)
  PROVE  answer' \in [Callers -> {"none", "complete", "partial"}]
BY DEF Return, CoverageTypeOK

\* A look into the cache answers, or collecting begins with nothing seen.
LEMMA LookUpKeeps ==
  ASSUME CoverageInv, NEW p \in Callers, LookUp(p)
  PROVE  CoverageInv'
<1>1. CASE Return(p, TRUE)
  BY <1>1, Answers, ReturnKeeps DEF LookUp, Return, CoverageInv
<1>2. CASE call' = [call EXCEPT ![p].pc = "collect"] /\ UNCHANGED answer
  <2> DEFINE c == [call[p] EXCEPT !.pc = "collect"]
  <2>1. call[p] \in CallStates /\ call[p].pc = "lookup"
    BY DEF LookUp, CoverageInv, CoverageTypeOK
  <2>2. call' = [call EXCEPT ![p] = c]
    BY <1>2 DEF CoverageInv, CoverageTypeOK
  <2>3. /\ c \in CallStates /\ c.pc = "collect" /\ c.ctx = call[p].ctx /\ c.seen = call[p].seen
        /\ c.left = call[p].left /\ c.unknown = call[p].unknown /\ c.visible = call[p].visible
    BY <2>1 DEF CallStates
  <2>4. /\ call[p].seen = {} /\ call[p].ctx \in Contexts /\ call[p].left = {}
        /\ Processes \ hidden \subseteq call[p].visible
        /\ Processes \ (call[p].left \cup call[p].unknown) \subseteq call[p].visible
    BY <2>1 DEF CoverageInv, CallsAreHonest
  <2>5. /\ UNCHANGED <<badFor, hidden, provided, flips>>
        /\ answer' \in [Callers -> {"none", "complete", "partial"}]
    BY <1>2 DEF LookUp, CoverageInv, CoverageTypeOK
  <2> HIDE DEF c
  <2> QED
    BY <2>2, <2>3, <2>4, <2>5, OneCallKeeps
<1> QED
  BY <1>1, <1>2 DEF LookUp

\* What is inspected now is good now.
LEMMA CollectKeeps ==
  ASSUME CoverageInv, NEW p \in Callers, Collect(p)
  PROVE  CoverageInv'
<1> DEFINE seen == call[p].seen \cup {f \in {Order[call[p].next]} : Inspected(call[p], f)}
           next == IF call[p].next < Len(Order) THEN "collect"
                   ELSE IF Authoritative(call[p].ctx, seen) THEN "replace" ELSE "store"
           number == (call[p].next % Len(Order)) + 1
           left == IF next = "replace" THEN Processes ELSE {}
           unknown == IF next = "replace" THEN {} ELSE call[p].unknown
           c == [call[p] EXCEPT !.pc = next, !.next = number, !.seen = seen,
                                !.left = left, !.unknown = unknown]
<1>1. call[p] \in CallStates /\ call[p].pc = "collect"
  BY DEF Collect, CoverageInv, CoverageTypeOK
<1>2. call' = [call EXCEPT ![p] = c]
  BY <1>1, OrderFacts DEF Collect, CoverageInv, CoverageTypeOK, CallStates
<1>3. seen \subseteq Facts /\ number \in DOMAIN Order
  BY CallTypes, OrderFacts DEF CoverageInv
<1>4. next \in {"collect", "replace", "store"}
  OBVIOUS
<1>9. left \subseteq Processes /\ unknown \subseteq Processes
  BY CallTypes DEF CoverageInv
<1>10. (next # "replace" => left = {}) /\ (left = Processes \/ unknown = call[p].unknown)
  OBVIOUS
<1> HIDE DEF next, number, seen, left, unknown
<1>5. /\ c \in CallStates /\ c.pc = next /\ c.ctx = call[p].ctx /\ c.seen = seen
      /\ c.left = left /\ c.unknown = unknown /\ c.visible = call[p].visible
      /\ c.spent = call[p].spent
  BY <1>1, <1>3, <1>4, <1>9 DEF CallStates
<1>6. /\ call[p].ctx \in Contexts /\ call[p].spent \in 0 .. MaxCollect
      /\ Processes \ hidden \subseteq call[p].visible
      /\ Processes \ (left \cup unknown) \subseteq call[p].visible
  BY <1>1, <1>10, CallTypes DEF CoverageInv, CallsAreHonest
<1>7. \A f \in seen :
        badFor[call[p].ctx][f] = 0 \/ badFor[call[p].ctx][f] - 1 <= call[p].spent
  BY <1>1 DEF CoverageInv, SeenIsRecent, Collecting, Inspected, Good, seen
<1>8. /\ UNCHANGED <<badFor, hidden, provided, flips>>
      /\ answer' \in [Callers -> {"none", "complete", "partial"}]
  BY DEF Collect, CoverageInv, CoverageTypeOK
<1> HIDE DEF c
<1> QED
  BY <1>2, <1>4, <1>5, <1>6, <1>7, <1>8, <1>10, OneCallKeeps

\* A complete report has seen every fact of every installed client.
LEMMA StoreReportKeeps ==
  ASSUME CoverageInv, NEW p \in Callers, StoreReport(p)
  PROVE  CoverageInv'
<1> DEFINE complete == CompleteReport(call[p])
<1>1. /\ UNCHANGED <<badFor, hidden, flips>> /\ call[p].pc = "store"
      /\ Return(p, complete)
      /\ provided' = IF complete THEN [ctx |-> call[p].ctx, age |-> 0]
                                 ELSE [ctx |-> NoContext, age |-> Past]
  BY DEF StoreReport, ReplacedBy, Cleared
<1>2. /\ call' = [call EXCEPT ![p] = NoCall]
      /\ \A q \in Callers : call'[q] = call[q] \/ call'[q] = NoCall
      /\ call' \in [Callers -> CallStates]
  BY <1>1, NoCallIsIdle DEF Return, CoverageInv, CoverageTypeOK
<1>3. call[p].ctx \in Contexts /\ call[p].spent \in 0 .. MaxCollect
  BY <1>1, CallTypes DEF CoverageInv, CallsAreHonest
<1>4. CoverageTypeOK'
  BY <1>1, <1>2, <1>3, Answers, Times DEF CoverageInv, CoverageTypeOK
<1>5. SeenIsRecent'
  BY <1>1, <1>2, NoCallIsIdle DEF CoverageInv, SeenIsRecent, Collecting, Good
<1>6. CachedIsRecent'
  <2> SUFFICES ASSUME complete, NEW client \in Clients,
                      <<call[p].ctx, client>> \in Installed, NEW f \in FactsOf(client)
               PROVE  badFor[call[p].ctx][f] = 0 \/ badFor[call[p].ctx][f] - 1 <= MaxCollect + 0
    BY <1>1 DEF CachedIsRecent, Good
  <2>1. f \in call[p].seen
    BY DEF CompleteReport
  <2>2. badFor[call[p].ctx][f] = 0 \/ badFor[call[p].ctx][f] - 1 <= call[p].spent
    BY <1>1, <2>1 DEF CoverageInv, SeenIsRecent, Collecting, Good
  <2>3. badFor[call[p].ctx][f] \in 0 .. Past
    BY <1>3, FactsOfFacts DEF CoverageInv, CoverageTypeOK
  <2> QED
    BY <1>3, <2>2, <2>3, Times
<1>7. CallsAreHonest'
  BY <1>1, <1>2, NoCallIsIdle DEF CoverageInv, CallsAreHonest
<1> QED
  BY <1>4, <1>5, <1>6, <1>7 DEF CoverageInv

\* A call that dies leaves the cache as it is.
LEMMA CallDiesKeeps ==
  ASSUME CoverageInv, NEW p \in Callers, CallDies(p)
  PROVE  CoverageInv'
BY ReturnKeeps DEF CallDies, CoverageInv, CoverageTypeOK

-----------------------------------------------------------------------------
(* The theorems *)

\* The invariant holds throughout.
LEMMA CoverageInvariant ==
  CoverageSpec => []CoverageInv
<1>1. CoverageInit => CoverageInv
  BY CoverageInitially
<1>2. CoverageInv /\ [CoverageNext]_coverVars => CoverageInv'
  <2> SUFFICES ASSUME CoverageInv, [CoverageNext]_coverVars
               PROVE  CoverageInv'
    OBVIOUS
  <2>1. CASE HostChanges
    BY <2>1, HostChangesKeeps
  <2>2. CASE CoverageTick
    BY <2>2, TickKeeps
  <2>3. ASSUME NEW p \in Callers,
               \/ BeginCall(p) \/ Probe(p) \/ SweepEnds(p) \/ LookUp(p) \/ Collect(p)
               \/ StoreReport(p) \/ CallDies(p)
        PROVE  CoverageInv'
    BY <2>3, BeginCallKeeps, ProbeKeeps, SweepEndsKeeps, LookUpKeeps, CollectKeeps,
       StoreReportKeeps, CallDiesKeeps
  <2>4. CASE UNCHANGED coverVars
    BY <2>4 DEF coverVars, CoverageInv, CoverageTypeOK, SeenIsRecent, CachedIsRecent,
                CallsAreHonest, Collecting, Good
  <2> QED
    BY <2>1, <2>2, <2>3, <2>4 DEF CoverageNext
<1> QED
  BY <1>1, <1>2, PTL DEF CoverageSpec

\* The type invariant of provider coverage (refresh_inventory), for any callers,
\* contexts and times.
THEOREM CoverageTypeCorrect ==
  CoverageSpec => []CoverageTypeOK
BY CoverageInvariant, PTL DEF CoverageInv

\* Only a look into the cache or a stored report ends in a complete answer.
LEMMA WhoCompletes ==
  ASSUME CoverageInv, CoverageNext, NEW p \in Callers,
         answer[p] # "complete", answer'[p] = "complete"
  PROVE  \/ LookUp(p) /\ Cached(call[p].ctx) /\ call[p].unknown = {}
         \/ StoreReport(p) /\ CompleteReport(call[p]) /\ call[p].unknown = {}
<1>1. answer \in [Callers -> {"none", "complete", "partial"}]
  BY DEF CoverageInv, CoverageTypeOK
<1>2. answer' # answer
  OBVIOUS
<1>3. PICK q \in Callers : BeginCall(q) \/ LookUp(q) \/ StoreReport(q)
  BY <1>2 DEF CoverageNext, HostChanges, CoverageTick, Probe, SweepEnds, Collect, CallDies
<1>4. ~BeginCall(q)
  BY <1>1 DEF BeginCall
<1>5. ASSUME NEW complete, Return(q, complete)
      PROVE  q = p /\ complete /\ call[p].unknown = {}
  BY <1>1, <1>5 DEF Return
<1>6. CASE LookUp(q)
  BY <1>2, <1>5, <1>6 DEF LookUp
<1>7. CASE StoreReport(q)
  BY <1>5, <1>7 DEF StoreReport
<1> QED
  BY <1>3, <1>4, <1>6, <1>7

\* Whoever is told that coverage is complete gets no older news than it asked for
\* (refresh_inventory, cached_inventory), whatever other callers write to the cache.
THEOREM CompleteAnswersAreCurrent ==
  CoverageSpec => CompleteIsCurrent
<1>1. ASSUME CoverageInv, CoverageNext, NEW p \in Callers,
             answer[p] # "complete", answer'[p] = "complete"
      PROVE  IsCurrent(call[p])
  <2>1. CASE LookUp(p) /\ Cached(call[p].ctx) /\ call[p].unknown = {}
    <3>1. call[p].visible = Processes /\ call[p].allow /\ call[p].ctx \in Contexts
      BY CallTypes, <1>1, <2>1 DEF LookUp, CoverageInv, CallsAreHonest
    <3>2. provided.ctx = call[p].ctx /\ provided.age < CacheSeconds
      BY <2>1 DEF Cached
    <3>3. ASSUME NEW client \in Clients, <<call[p].ctx, client>> \in Installed,
                 NEW f \in FactsOf(client)
          PROVE  Good(call[p].ctx, f) \/ Recent(call[p], badFor[call[p].ctx][f] - 1)
      <4>1. \/ Good(call[p].ctx, f)
            \/ badFor[call[p].ctx][f] - 1 <= MaxCollect + provided.age
        BY <1>1, <3>1, <3>2, <3>3 DEF CoverageInv, CachedIsRecent
      <4>2. badFor[call[p].ctx][f] \in 0 .. Past /\ provided.age \in 0 .. Past
        BY <1>1, <3>1, FactsOfFacts DEF CoverageInv, CoverageTypeOK
      <4> QED
        BY <3>1, <3>2, <4>1, <4>2, Times DEF Recent
    <3> QED
      BY <3>1, <3>3 DEF IsCurrent
  <2>2. CASE StoreReport(p) /\ CompleteReport(call[p]) /\ call[p].unknown = {}
    <3>1. call[p].pc = "store" /\ call[p].visible = Processes /\ call[p].ctx \in Contexts
      BY CallTypes, <1>1, <2>2 DEF StoreReport, CoverageInv, CallsAreHonest
    <3>2. ASSUME NEW client \in Clients, <<call[p].ctx, client>> \in Installed,
                 NEW f \in FactsOf(client)
          PROVE  Good(call[p].ctx, f) \/ Recent(call[p], badFor[call[p].ctx][f] - 1)
      <4>1. f \in call[p].seen
        BY <2>2, <3>2 DEF CompleteReport
      <4>2. Good(call[p].ctx, f) \/ badFor[call[p].ctx][f] - 1 <= call[p].spent
        BY <1>1, <3>1, <4>1 DEF CoverageInv, SeenIsRecent, Collecting
      <4>3. badFor[call[p].ctx][f] \in 0 .. Past /\ call[p].spent \in 0 .. MaxCollect
        BY <1>1, <3>1, FactsOfFacts, CallTypes DEF CoverageInv, CoverageTypeOK
      <4> QED
        BY <4>2, <4>3, Times DEF Recent
    <3> QED
      BY <3>1, <3>2 DEF IsCurrent
  <2> QED
    BY <1>1, <2>1, <2>2, WhoCompletes
<1>2. CoverageInv /\ [CoverageNext]_coverVars =>
        [\A p \in Callers :
           answer[p] # "complete" /\ answer'[p] = "complete" => IsCurrent(call[p])]_coverVars
  BY <1>1
<1> QED
  BY <1>2, CoverageInvariant, PTL DEF CoverageSpec, CompleteIsCurrent
=============================================================================
