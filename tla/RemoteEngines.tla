---------------------------- MODULE RemoteEngines ----------------------------
(***************************************************************************)
(* The life of the connections to remote engines on one node: the          *)
(* connector that a discoverer adds them to and removes them from          *)
(* (internal/remoteengine), the catalog that watches them and the feeds it *)
(* has of their event streams (catalog.go, feed.go), and the consumer that *)
(* starts and stops a stream consumer per stream as the catalog and the    *)
(* membership of the cluster change (consumer.go).  What is delivered is   *)
(* the subject of EventFeed and RemoteSource; here it is which calls are   *)
(* in progress on which connection.                                        *)
(*                                                                         *)
(* The labels of Catalog.Watch (conn[c].watch):                            *)
(*   none      add was not called, or started nothing                      *)
(*   running   in supervisor.Run; calling says if in Source.Watch          *)
(*   removing  in the deferred function, removing its feeds                *)
(*   waiting   in the deferred function, waiting for reads                 *)
(*   stopped   returned                                                    *)
(* The labels of a stream consumer (con[s].pc):                            *)
(*   none      there is none, or it has returned                           *)
(*   retry     supervisor.Run is about to call its function                *)
(*   load      in Catalog.Consume, about to load the current feed          *)
(*   consume   in feed.consume                                             *)
(*   read      in feed.read, calling Source.Read                           *)
(***************************************************************************)
EXTENDS Integers, FiniteSets

CONSTANTS
  Conn,      \* the connections a discoverer may add, each once
  Stream,    \* the event streams the remote engines deliver
  NoFeed,    \* CurrentFeed is nil
  MaxFaults  \* bound on failures and changes of membership

ASSUME RemoteEnginesAssumption == NoFeed \notin Conn /\ MaxFaults \in Nat

VARIABLES
  running,      \* the engine's context is not canceled
  discover,     \* Connector.discover: off, running or ending
  conn,         \* what became of each connection
  feed,         \* the feed of each stream from each connection: none, open or closed
  current,      \* CurrentFeed of each stream in the catalog
  responsible,  \* the streams the node's membership makes it responsible for
  consumer,     \* Consumer.Run: streams, members, stopping, waiting or off
  loaded,       \* the stream IDs and the responsibilities it has loaded
  consuming,    \* the streams that have an entry in stopStreamConsumer
  con,          \* the stream consumer of each stream
  faults

catalogVars == <<feed, current>>
consumerVars == <<responsible, consumer, loaded, consuming>>
vars == <<running, discover, conn, catalogVars, consumerVars, con, faults>>

Fault == faults < MaxFaults /\ faults' = faults + 1

AvailableFeeds(s) == {c \in Conn : feed[c][s] = "open"}
StreamIDs == {s \in Stream : AvailableFeeds(s) # {}}

\* handle is what the discoverer has done: new, added, removing or removed.
NewConn == [handle |-> "new", watch |-> "none", calling |-> FALSE, canceled |-> FALSE]
NoConsumer == [pc |-> "none", feed |-> NoFeed, stale |-> FALSE, canceled |-> FALSE]

-------------------------------------------------------------------------------

(***************************************************************************)
(* Connector.discover calls the discoverer.                                *)
(***************************************************************************)
StartDiscover ==
  /\ running
  /\ discover = "off"
  /\ discover' = "running"
  /\ UNCHANGED <<running, conn, catalogVars, consumerVars, con, faults>>

(***************************************************************************)
(* The discoverer calls add, which starts nothing once it is canceled.     *)
(***************************************************************************)
Add(c) ==
  /\ discover = "running"
  /\ conn[c].handle = "new"
  /\ conn' = [conn EXCEPT ![c] = [@ EXCEPT !.handle = "added",
                                           !.watch = IF running THEN "running" ELSE "none"]]
  /\ UNCHANGED <<running, discover, catalogVars, consumerVars, con, faults>>

(***************************************************************************)
(* The discoverer calls the function that add has returned.  It cancels    *)
(* Catalog.Watch and returns once that has.                                *)
(***************************************************************************)
Remove(c) ==
  /\ discover # "off"
  /\ conn[c].handle = "added"
  /\ conn' = [conn EXCEPT ![c] = [@ EXCEPT !.handle = "removing", !.canceled = TRUE]]
  /\ UNCHANGED <<running, discover, catalogVars, consumerVars, con, faults>>

RemoveReturns(c) ==
  /\ conn[c].handle = "removing"
  /\ conn[c].watch \in {"none", "stopped"}
  /\ conn' = [conn EXCEPT ![c].handle = "removed"]
  /\ UNCHANGED <<running, discover, catalogVars, consumerVars, con, faults>>

(***************************************************************************)
(* The discoverer returns, canceled or on its own, which is a failure.     *)
(* discover cancels every Catalog.Watch and waits for them; the supervisor *)
(* calls it again while the engine runs.                                   *)
(***************************************************************************)
\* Seeded fault: discover waits for the watches before it cancels them.
DiscovererReturnsUncanceled ==
  /\ discover = "running"
  /\ IF running THEN Fault ELSE UNCHANGED faults
  /\ discover' = "ending"
  /\ UNCHANGED <<running, conn, catalogVars, consumerVars, con>>

DiscovererReturns ==
  /\ discover = "running"
  /\ IF running THEN Fault ELSE UNCHANGED faults
  /\ discover' = "ending"
  /\ conn' = [c \in Conn |-> [conn[c] EXCEPT !.canceled = conn[c].handle # "new"]]
  /\ UNCHANGED <<running, catalogVars, consumerVars, con>>

DiscoverReturns ==
  /\ discover = "ending"
  /\ \A c \in Conn : conn[c].watch \in {"none", "stopped"}
  /\ discover' = "off"
  /\ UNCHANGED <<running, conn, catalogVars, consumerVars, con, faults>>

-------------------------------------------------------------------------------

Canceled(c) == conn[c].canceled \/ ~running

(***************************************************************************)
(* Catalog.Watch calls Source.Watch, again whenever it has ended before it *)
(* was canceled.                                                           *)
(***************************************************************************)
CallWatch(c) ==
  /\ conn[c].watch = "running" /\ ~conn[c].calling
  /\ ~Canceled(c)
  /\ conn' = [conn EXCEPT ![c].calling = TRUE]
  /\ UNCHANGED <<running, discover, catalogVars, consumerVars, con, faults>>

WatchEnds(c) ==
  /\ conn[c].calling
  /\ IF Canceled(c) THEN UNCHANGED faults ELSE Fault
  /\ conn' = [conn EXCEPT ![c].calling = FALSE]
  /\ UNCHANGED <<running, discover, catalogVars, consumerVars, con>>

(***************************************************************************)
(* Source.Watch delivers a stream for the first time, which it may still   *)
(* do after it was canceled: feedFor and Catalog.add.                      *)
(***************************************************************************)
AddFeed(c, s) ==
  /\ conn[c].calling
  /\ feed[c][s] = "none"
  /\ feed' = [feed EXCEPT ![c][s] = "open"]
  /\ current' = [current EXCEPT ![s] = IF AvailableFeeds(s) = {} THEN c ELSE @]
  /\ UNCHANGED <<running, discover, conn, consumerVars, con, faults>>

(***************************************************************************)
(* The deferred function of Catalog.Watch.  Catalog.remove hands the       *)
(* stream over to another feed, if there is one, and closes the feed; a    *)
(* consumer that has looked up a stream that leaves the catalog will find  *)
(* no feed, even if the stream comes back.                                 *)
(***************************************************************************)
WatchCanceled(c) ==
  /\ conn[c].watch = "running" /\ ~conn[c].calling
  /\ Canceled(c)
  /\ conn' = [conn EXCEPT ![c].watch = "removing"]
  /\ UNCHANGED <<running, discover, catalogVars, consumerVars, con, faults>>

\* Seeded fault: no other feed of the stream takes over.
RemoveFeedForGood(c, s) ==
  /\ conn[c].watch = "removing"
  /\ feed[c][s] = "open"
  /\ feed' = [feed EXCEPT ![c][s] = "closed"]
  /\ current' = [current EXCEPT ![s] = IF @ = c THEN NoFeed ELSE @]
  /\ UNCHANGED <<running, discover, conn, consumerVars, con, faults>>

RemoveFeed(c, s) ==
  /\ conn[c].watch = "removing"
  /\ feed[c][s] = "open"
  /\ feed' = [feed EXCEPT ![c][s] = "closed"]
  /\ LET others == AvailableFeeds(s) \ {c} IN
     /\ IF current[s] # c THEN UNCHANGED current
        ELSE \E next \in (IF others = {} THEN {NoFeed} ELSE others) :
               current' = [current EXCEPT ![s] = next]
     /\ con' = IF others = {} /\ con[s].pc \in {"load", "consume", "read"}
               THEN [con EXCEPT ![s].stale = TRUE] ELSE con
  /\ UNCHANGED <<running, discover, conn, consumerVars, faults>>

FeedsRemoved(c) ==
  /\ conn[c].watch = "removing"
  /\ \A s \in Stream : feed[c][s] # "open"
  /\ conn' = [conn EXCEPT ![c].watch = "waiting"]
  /\ UNCHANGED <<running, discover, catalogVars, consumerVars, con, faults>>

Reading(c) == {s \in Stream : con[s].pc = "read" /\ con[s].feed = c}

\* Seeded fault: the reads from the source are not waited for.
WatchReturnsEarly(c) ==
  /\ conn[c].watch = "waiting"
  /\ conn' = [conn EXCEPT ![c].watch = "stopped"]
  /\ UNCHANGED <<running, discover, catalogVars, consumerVars, con, faults>>

WatchReturns(c) ==
  /\ conn[c].watch = "waiting"
  /\ Reading(c) = {}
  /\ conn' = [conn EXCEPT ![c].watch = "stopped"]
  /\ UNCHANGED <<running, discover, catalogVars, consumerVars, con, faults>>

-------------------------------------------------------------------------------

ConsumerFrame == UNCHANGED <<running, discover, conn, catalogVars, responsible>>

(***************************************************************************)
(* The node's membership changes what it is responsible for.               *)
(***************************************************************************)
MembershipChanges ==
  /\ Fault
  /\ responsible' \in SUBSET Stream \ {responsible}
  /\ UNCHANGED <<running, discover, conn, catalogVars, consumer, loaded, consuming, con>>

(***************************************************************************)
(* Consumer.Run loads the stream IDs, then the membership; either may      *)
(* change before it acts on them.  reconcile then cancels the stream       *)
(* consumers that are not to run, waits for them, and starts the missing.  *)
(***************************************************************************)
LoadStreamIDs ==
  /\ consumer = "streams"
  /\ loaded' = [loaded EXCEPT !.streamIDs = StreamIDs]
  /\ consumer' = "members"
  /\ UNCHANGED <<consuming, con, faults>> /\ ConsumerFrame

ToConsume == loaded.streamIDs \intersect loaded.responsible

LoadMembership ==
  /\ consumer = "members"
  /\ loaded' = [loaded EXCEPT !.responsible = responsible]
  /\ consumer' = "stopping"
  /\ con' = [s \in Stream |->
               IF s \in consuming \ (loaded.streamIDs \intersect responsible)
               THEN [con[s] EXCEPT !.canceled = TRUE] ELSE con[s]]
  /\ consuming' = consuming \intersect loaded.streamIDs \intersect responsible
  /\ UNCHANGED faults /\ ConsumerFrame

Started == [NoConsumer EXCEPT !.pc = "retry"]

\* Seeded fault: the stream consumers that were canceled are not waited for.
ReconcileWithoutWaiting ==
  /\ consumer = "stopping"
  /\ con' = [s \in Stream |-> IF s \in ToConsume \ consuming THEN Started ELSE con[s]]
  /\ consuming' = ToConsume
  /\ consumer' = "waiting"
  /\ UNCHANGED <<loaded, faults>> /\ ConsumerFrame

Reconcile ==
  /\ consumer = "stopping"
  /\ \A s \in Stream : con[s].canceled => con[s].pc = "none"
  /\ con' = [s \in Stream |-> IF s \in ToConsume \ consuming THEN Started ELSE con[s]]
  /\ consuming' = ToConsume
  /\ consumer' = "waiting"
  /\ UNCHANGED <<loaded, faults>> /\ ConsumerFrame

\* Seeded fault: only the membership is watched.
AwaitMembershipChange ==
  /\ consumer = "waiting"
  /\ loaded.responsible # responsible
  /\ consumer' = "streams"
  /\ UNCHANGED <<loaded, consuming, con, faults>> /\ ConsumerFrame

AwaitChange ==
  /\ consumer = "waiting"
  /\ loaded # [streamIDs |-> StreamIDs, responsible |-> responsible]
  /\ consumer' = "streams"
  /\ UNCHANGED <<loaded, consuming, con, faults>> /\ ConsumerFrame

(***************************************************************************)
(* Consumer.Run returns once it is canceled and every stream consumer has  *)
(* returned (group.Wait).                                                  *)
(***************************************************************************)
ConsumerReturns ==
  /\ consumer = "waiting"
  /\ ~running
  /\ \A s \in Stream : con[s].pc = "none"
  /\ consumer' = "off"
  /\ UNCHANGED <<loaded, consuming, con, faults>> /\ ConsumerFrame

-------------------------------------------------------------------------------

ConsumptionFrame ==
  UNCHANGED <<running, discover, conn, catalogVars, consumerVars, faults>>

ConCanceled(s) == con[s].canceled \/ ~running

Becomes(s, c) == con' = [con EXCEPT ![s] = c]

(***************************************************************************)
(* A stream consumer looks its stream up in the catalog, and continues on  *)
(* whichever feed is current until it fails.                               *)
(***************************************************************************)
LookUpStream(s) ==
  /\ con[s].pc = "retry"
  /\ ~ConCanceled(s)
  /\ s \in StreamIDs
  /\ Becomes(s, [con[s] EXCEPT !.pc = "load", !.stale = FALSE])
  /\ ConsumptionFrame

LoadCurrentFeed(s) ==
  /\ con[s].pc = "load"
  /\ LET f == IF con[s].stale THEN NoFeed ELSE current[s] IN
     Becomes(s, [con[s] EXCEPT !.pc = IF f = NoFeed THEN "retry" ELSE "consume",
                               !.feed = f])
  /\ ConsumptionFrame

FeedClosed(s) == feed[con[s].feed][s] = "closed"

(***************************************************************************)
(* feed.consume reads from the source when its cache cannot serve it.  The *)
(* check that the feed is open and the count of the read are one step      *)
(* (startRead).  A consumer that is canceled may still begin a read, which *)
(* counts until the source has returned its error.                         *)
(***************************************************************************)
StartRead(s) ==
  /\ con[s].pc = "consume"
  /\ ~FeedClosed(s)
  /\ Becomes(s, [con[s] EXCEPT !.pc = "read"])
  /\ ConsumptionFrame

(***************************************************************************)
(* The read is over, and consumption goes on from where it has got to.     *)
(***************************************************************************)
ReadReturns(s) ==
  /\ con[s].pc = "read"
  /\ Becomes(s, [con[s] EXCEPT !.pc = "consume"])
  /\ ConsumptionFrame

(***************************************************************************)
(* feed.consume returns errFeedClosed, from startRead or from its wait for *)
(* the cache to change, or because closing the feed canceled the read.     *)
(***************************************************************************)
LeaveClosedFeed(s) ==
  /\ con[s].pc \in {"consume", "read"}
  /\ FeedClosed(s)
  /\ ~ConCanceled(s)
  /\ Becomes(s, [con[s] EXCEPT !.pc = "load", !.feed = NoFeed])
  /\ ConsumptionFrame

ConsumptionFails(s) ==
  /\ con[s].pc \in {"consume", "read"}
  /\ Fault
  /\ Becomes(s, Started)
  /\ ~ConCanceled(s)
  /\ UNCHANGED <<running, discover, conn, catalogVars, consumerVars>>

(***************************************************************************)
(* A stream consumer that is canceled returns, from wherever it is.        *)
(***************************************************************************)
StreamConsumerReturns(s) ==
  /\ con[s].pc # "none"
  /\ ConCanceled(s)
  /\ Becomes(s, NoConsumer)
  /\ ConsumptionFrame

-------------------------------------------------------------------------------

(***************************************************************************)
(* The engine's context is canceled.                                       *)
(***************************************************************************)
StopEngine ==
  /\ running
  /\ running' = FALSE
  /\ UNCHANGED <<discover, conn, catalogVars, consumerVars, con, faults>>

Init ==
  /\ running = TRUE
  /\ discover = "off"
  /\ conn = [c \in Conn |-> NewConn]
  /\ feed = [c \in Conn |-> [s \in Stream |-> "none"]]
  /\ current = [s \in Stream |-> NoFeed]
  /\ responsible = {}
  /\ consumer = "streams"
  /\ loaded = [streamIDs |-> {}, responsible |-> {}]
  /\ consuming = {}
  /\ con = [s \in Stream |-> NoConsumer]
  /\ faults = 0

ConnectorStep == StartDiscover \/ DiscoverReturns \/ \E c \in Conn : RemoveReturns(c)

WatchStep(c) ==
  \/ CallWatch(c)
  \/ WatchEnds(c)
  \/ \E s \in Stream : AddFeed(c, s) \/ RemoveFeed(c, s)
  \/ WatchCanceled(c)
  \/ FeedsRemoved(c)
  \/ WatchReturns(c)

ConsumerStep ==
  LoadStreamIDs \/ LoadMembership \/ Reconcile \/ AwaitChange \/ ConsumerReturns

ConsumptionStep(s) ==
  \/ LookUpStream(s)
  \/ LoadCurrentFeed(s)
  \/ ReadReturns(s)
  \/ LeaveClosedFeed(s)
  \/ StreamConsumerReturns(s)

Next ==
  \/ ConnectorStep
  \/ DiscovererReturns
  \/ \E c \in Conn : Add(c) \/ Remove(c) \/ WatchStep(c)
  \/ MembershipChanges
  \/ ConsumerStep
  \/ \E s \in Stream : ConsumptionStep(s) \/ StartRead(s) \/ ConsumptionFails(s)
  \/ StopEngine

Spec == Init /\ [][Next]_vars

(***************************************************************************)
(* Fairness: every goroutine goes on when it can; a call to a source ends  *)
(* once it is canceled and a read ends in any case; a consumer that is     *)
(* canceled does not go on from read to read; and a discoverer returns     *)
(* once the engine stops.  Nothing is assumed of what a discoverer adds    *)
(* and removes, nor that a consumer ever reads from a source.              *)
(***************************************************************************)
Fairness ==
  /\ WF_vars(ConnectorStep)
  /\ WF_vars(DiscovererReturns /\ ~running)
  /\ \A c \in Conn : WF_vars(WatchStep(c))
  /\ WF_vars(ConsumerStep)
  /\ \A s \in Stream : WF_vars(ConsumptionStep(s)) /\ WF_vars(StreamConsumerReturns(s))

FairSpec == Spec /\ Fairness

-------------------------------------------------------------------------------

(***************************************************************************)
(* Once the remove function of a connection has returned, or discover has, *)
(* no call is in progress on the connection and no consumer is served from *)
(* it (the comments on Catalog.Watch and RemoteEngineDiscoverer), so that  *)
(* it may be closed, though consumers read from the source at any time and *)
(* the source delivers segments after it was canceled.                     *)
(***************************************************************************)
NoUseAfterRemove ==
  \A c \in Conn : (conn[c].handle = "removed" \/ discover = "off") =>
    ~conn[c].calling /\ Reading(c) = {} /\ \A s \in Stream : current[s] # c

(***************************************************************************)
(* As long as any connection has a stream, the catalog serves it, from an  *)
(* open feed, whichever connections come and go.                           *)
(***************************************************************************)
ServedWhileAvailable ==
  \A s \in Stream :
    IF AvailableFeeds(s) = {} THEN current[s] = NoFeed ELSE current[s] \in AvailableFeeds(s)

(***************************************************************************)
(* A node never consumes a stream twice at once (the comment in            *)
(* reconcile): a stream consumer that was canceled returns before another  *)
(* of the same stream starts, however the membership flaps.                *)
(***************************************************************************)
NeverTwiceOnOneNode ==
  [][\A s \in Stream : (con[s].pc # "none" /\ con[s].canceled)
       => (con'[s].pc = "none" \/ con'[s].canceled)]_vars

(***************************************************************************)
(* Consumption follows the catalog and the membership: a stream that stays *)
(* available and the node's responsibility is consumed from an open feed,  *)
(* and one that it stays not responsible for is not consumed.              *)
(***************************************************************************)
ConsumptionFollows ==
  \A s \in Stream :
    /\ <>[](running /\ s \in StreamIDs \intersect responsible)
         => []<>(con[s].pc \in {"consume", "read"} /\ feed[con[s].feed][s] = "open")
    /\ <>[](s \notin responsible) => <>[](con[s].pc = "none")

(***************************************************************************)
(* Nothing that ends waits for ever: the remove function of a connection   *)
(* returns; after a discoverer has returned, discover does too; and once   *)
(* the engine is canceled, the connector and the consumer return.          *)
(***************************************************************************)
TeardownCompletes ==
  /\ \A c \in Conn : conn[c].handle = "removing" ~> conn[c].handle = "removed"
  /\ discover = "ending" ~> discover = "off"
  /\ ~running ~> (discover = "off" /\ consumer = "off")

==============================================================================
