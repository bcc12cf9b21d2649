------------------------------- MODULE MCHost -------------------------------
(***************************************************************************)
(* An instance of the parts of a host that share no state with each other, *)
(* checked in one run: each behaviour is one of one part, and the others   *)
(* stand still.  "wait" is Watchers with a waiter and no reader of the     *)
(* dashboard; "feed" is Watchers without a waiter.                         *)
(***************************************************************************)
EXTENDS Watchers, TurnGate, HookLink, AppServer, Inbox, DirtSettling

VARIABLE part

hostVars == <<watchers, turnVars, linkVars, serverVars, inboxVars, dirtVars, part>>

MCSpecs == <<"SessionStart", "Stop">>

MCInit ==
  /\ part \in {"feed", "wait", "gate", "link", "server", "inbox", "dirt"}
  /\ WatchersInit /\ TurnGateInit /\ AppServerInit /\ InboxInit /\ DirtInit
  /\ LinkInit /\ (part # "link" => hooksFile = <<>> /\ link.force)

\* A feed without a waiter, and a waiter without a feed.  Bound: of the requests
\* that are out, one at a time waits for the mutex of the cache.
Feed == WatchersNext /\ waiter' = waiter /\ fetch'.asked <= 1
Wait == WatchersNext /\ <<fill, event, fetch, page, stream.pc>>' = <<fill, event, fetch, page, stream.pc>>

\* Bound: of the edits by others only the first may be of the hooks file.
LinkBudget == edits = 0 \/ edits' = edits \/ hooksFile' = hooksFile

\* Bound: files change, and git fails, twice in all.
DirtBudget == changes + gitFails <= 2

MCNext ==
  /\ UNCHANGED part
  /\ \/ part \in {"feed", "wait"} /\ (IF part = "feed" THEN Feed ELSE Wait)
        /\ UNCHANGED <<turnVars, linkVars, serverVars, inboxVars, dirtVars>>
     \/ part = "gate" /\ TurnGateNext
        /\ UNCHANGED <<watchers, linkVars, serverVars, inboxVars, dirtVars>>
     \/ part = "link" /\ LinkNext /\ LinkBudget
        /\ UNCHANGED <<watchers, turnVars, serverVars, inboxVars, dirtVars>>
     \/ part = "server" /\ AppServerNext
        /\ UNCHANGED <<watchers, turnVars, linkVars, inboxVars, dirtVars>>
     \/ part = "inbox" /\ InboxNext
        /\ UNCHANGED <<watchers, turnVars, linkVars, serverVars, dirtVars>>
     \/ part = "dirt" /\ DirtNext /\ DirtBudget'
        /\ UNCHANGED <<watchers, turnVars, linkVars, serverVars, inboxVars>>

\* The fairness of each part, as its module states it; the waiter and the feed
\* without each other.
MCFair ==
  /\ WF_watchers(part \in {"feed", "wait"} /\ Passes)
  /\ WF_watchers(part = "feed" /\ Serve) /\ WF_watchers(part = "feed" /\ Arrives)
  /\ WF_watchers(part = "feed" /\ fetch.asked = 0 /\ PollOnce)
  /\ WF_watchers(part = "wait" /\ Arbitrate) /\ WF_watchers(part = "wait" /\ Remember)
  /\ \A a \in Agents :
       WF_turnVars(part = "gate" /\ RunHook(a)) /\ WF_turnVars(part = "gate" /\ Stop(a))
  /\ WF_serverVars(part = "server" /\ Pump) /\ WF_serverVars(part = "server" /\ PumpEof)
  /\ WF_serverVars(part = "server" /\ ClientActs) /\ WF_serverVars(part = "server" /\ ClockTicks)
  /\ WF_dirtVars(part = "dirt" /\ DirtTick)
  /\ \A s \in Sessions :
       WF_dirtVars(part = "dirt" /\ GoOn(s)) /\ WF_dirtVars(part = "dirt" /\ Ask(s))

MCSpec == MCInit /\ [][MCNext]_hostVars /\ MCFair

\* The tables, files, queues and processes of every part keep their types and
\* their limits: among them, an inbox holds no more than MAX_INBOX_MESSAGES,
\* whoever sends while others prune and acknowledge (add_message), and the
\* queue of lines no more than its bound (pump_stdout).
MCTypeOK ==
  /\ WatchersTypeOK /\ TurnGateTypeOK /\ HookLinkTypeOK /\ AppServerTypeOK
  /\ InboxTypeOK /\ DirtTypeOK

\* The page shows the ledger as it is in the end, once changes cease, whether or
\* not they bumped the generation and whatever answers came late (events and
\* should_send in src/server/mod.rs, subscribeToSnapshots in api.ts).
MCPageCatchesUp == part = "feed" => PageCatchesUp

\* A waiter arbitrates with the work as it is in the end, although the generation
\* it remembers may be newer than what its transaction saw (wait_for).
MCWaiterCatchesUp == part = "wait" => WaiterCatchesUp

\* The Stop gate lets every agent go in the end, whatever its messages leave out
\* and whatever is recorded meanwhile (ingest_supported).
MCStopsEnd == part = "gate" => StopsEnd

\* A connection to codex app-server ends, however the server behaves (request,
\* drop of ChildTransport in src/hooks/trust.rs).
MCConnectionEnds == part = "server" => ConnectionEnds

\* Dirt that is left alone settles, and what was committed is forgotten, in
\* whatever order late scans of several sessions commit (observe_dirt).
MCDirtSettles == part = "dirt" => DirtSettles
=============================================================================
