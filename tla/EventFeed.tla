------------------------------ MODULE EventFeed ------------------------------
(***************************************************************************)
(* How the events of one stream reach a projection: the catalog watches a  *)
(* source per node (its own, or that of a node of another engine through   *)
(* gRPC), fills the cache of a feed per source, and serves the stream      *)
(* consumer from the current feed's cache or, when it has fallen behind,   *)
(* by reading from that feed's source.                                     *)
(*                                                                         *)
(* A member of Node stands for one call to Catalog.Watch together with the *)
(* source it watches; the feed it adds is closed when the call ends, and   *)
(* another call is another member.  The catalog, the consumer and the      *)
(* projection are those of one node; consumers of the same stream on other *)
(* nodes show up as handling events concurrently (HandledElsewhere).       *)
(*                                                                         *)
(* The labels of the consumer (con.pc):                                    *)
(*   down      startStreamConsumer is about to load the checkpoint         *)
(*   consume   in the loop of feed.consume                                 *)
(*   read      in feed.read, about to load a segment from the source       *)
(*   handle    in ConsumeSegment, with the events con.todo to be handled   *)
(***************************************************************************)
EXTENDS LocalSource

CONSTANTS
  Watched,    \* the events of the types Catalog.Watch asks for
  Wanted,     \* the events of the types the projection consumes
  Capacity,   \* how many events a cache holds
  NoFeed,     \* CurrentFeed is nil
  MaxFaults   \* bound on failures, lost connections and ended watches

ASSUME FeedAssumption ==
  /\ Wanted \subseteq Watched /\ Watched \subseteq AllTypes
  /\ Capacity \in Nat \ {0}
  /\ NoFeed \notin Node
  /\ MaxFaults \in Nat

VARIABLES
  feed,     \* the feed of each call to Catalog.Watch: none, open or closed
  cache,    \* its cache
  current,  \* CurrentFeed of the catalog's stream
  con,      \* the stream consumer
  stored,   \* the checkpoint the projection handler has stored
  handled,  \* the offsets of the events it has handled, in order
  faults

catalogVars == <<feed, cache, current>>
sinkVars == <<stored, handled>>
vars == <<busVars, sourceVars, catalogVars, con, sinkVars, faults>>

Fault == faults < MaxFaults /\ faults' = faults + 1

(***************************************************************************)
(* Cache.Reset and Cache.Append: the oldest events over capacity are       *)
(* evicted, and the cached segment then begins after the last of them.     *)
(***************************************************************************)
Reset(begin) == Segment(begin, begin, {})

\* Seeded fault: the cached segment begins at the last event evicted.
CacheAppendOffByOne(c, seg) ==
  LET all == c.events \union seg.events
      evicted == {o \in all : Cardinality({p \in all : p > o}) >= Capacity}
  IN  Segment(IF evicted = {} THEN c.begin ELSE Max(evicted), seg.end, all \ evicted)

CacheAppend(c, seg) ==
  LET all == c.events \union seg.events
      evicted == {o \in all : Cardinality({p \in all : p > o}) >= Capacity}
  IN  Segment(IF evicted = {} THEN c.begin ELSE Max(evicted) + 1, seg.end, all \ evicted)

(***************************************************************************)
(* feed.Append: a segment that does not begin where the cache ends is the  *)
(* first of a new call to Source.Watch, and the cache starts over.         *)
(***************************************************************************)
\* Seeded fault: the cache is extended across the gap.
FeedAppendAcrossGap(c, seg) == CacheAppend(c, seg)

FeedAppend(c, seg) ==
  CacheAppend(IF seg.begin # c.end THEN Reset(seg.begin) ELSE c, seg)

(***************************************************************************)
(* The callback of Catalog.Watch: feedFor adds a feed for the stream when  *)
(* the source first delivers it, and the segment is appended to the feed.  *)
(***************************************************************************)
WatchSegment(n) ==
  /\ PassOn(n)
  /\ LET seg == FilterSegment(Head(Undelivered(n)), Watched) IN
     cache' = [cache EXCEPT ![n] =
       FeedAppend(IF feed[n] = "none" THEN Reset(seg.begin) ELSE @, seg)]
  /\ feed' = [feed EXCEPT ![n] = "open"]
  /\ current' = IF \E m \in Node : feed[m] = "open" THEN current ELSE n
  /\ UNCHANGED <<busVars, con, sinkVars, faults>>

(***************************************************************************)
(* Catalog.Watch watches the source until it is canceled.  A call to       *)
(* Source.Watch ends when its watcher has been removed and its channel is  *)
(* drained, or when the connection to a remote source breaks; then the     *)
(* source is watched again and the feed stays.                             *)
(***************************************************************************)
BeginWatch(n) ==
  /\ feed[n] # "closed"
  /\ Register(n)
  /\ UNCHANGED <<busVars, catalogVars, con, sinkVars, faults>>

WatchReturns(n) ==
  /\ watcher[n].state = "removed"
  /\ Undelivered(n) = <<>>
  /\ watcher' = [watcher EXCEPT ![n] = NoWatcher]
  /\ UNCHANGED <<length, follower, offsets, busVars, catalogVars, con, sinkVars, faults>>

WatchBreaks(n) ==
  /\ watcher[n].state # "off"
  /\ Fault
  /\ watcher' = [watcher EXCEPT ![n] = NoWatcher]
  /\ UNCHANGED <<length, follower, offsets, busVars, catalogVars, con, sinkVars>>

(***************************************************************************)
(* Catalog.Watch is canceled: the feed is removed, another open feed takes *)
(* over if there is one, and the feed is closed.                           *)
(***************************************************************************)
EndWatch(n) ==
  /\ feed[n] # "closed"
  /\ Fault
  /\ watcher' = [watcher EXCEPT ![n] = NoWatcher]
  /\ feed' = [feed EXCEPT ![n] = "closed"]
  /\ LET others == {m \in Node \ {n} : feed[m] = "open"} IN
     IF current # n THEN UNCHANGED current
     ELSE \/ current' \in others
          \/ others = {} /\ current' = NoFeed
  /\ UNCHANGED <<length, follower, offsets, busVars, cache, con, sinkVars>>

-------------------------------------------------------------------------------

Down == [pc |-> "down", feed |-> NoFeed, cp |-> 0, confirmed |-> FALSE,
         from |-> 0, behind |-> FALSE, scp |-> 0, todo |-> {}, end |-> 0,
         reading |-> FALSE, exhausted |-> FALSE]

ConsumerFrame == UNCHANGED <<busVars, sourceVars, catalogVars, sinkVars, faults>>

(***************************************************************************)
(* Catalog.Consume: continue on the current feed, or give up when the      *)
(* stream has left the catalog.                                            *)
(***************************************************************************)
\* Seeded fault: delivery starts again from the consumer's checkpoint.
OnCurrentFeedAgain(c) ==
  IF current = NoFeed THEN Down
  ELSE [Down EXCEPT !.pc = "consume", !.feed = current, !.cp = 0, !.scp = c.scp]

OnCurrentFeed(c) ==
  IF current = NoFeed THEN Down
  ELSE [Down EXCEPT !.pc = "consume", !.feed = current, !.cp = c.cp, !.scp = c.scp]

(***************************************************************************)
(* startStreamConsumer: consume from the checkpoint the handler has        *)
(* stored.                                                                 *)
(***************************************************************************)
StartConsumer ==
  /\ con.pc = "down"
  /\ current # NoFeed
  /\ con' = OnCurrentFeed([Down EXCEPT !.cp = stored, !.scp = stored])
  /\ ConsumerFrame

CachedSegment == cache[con.feed]
Within == CachedSegment.begin <= con.cp /\ con.cp < CachedSegment.end
Before == con.cp < CachedSegment.begin
Unconfirmed == con.cp > CachedSegment.end /\ ~con.confirmed
Closed == feed[con.feed] = "closed"

(***************************************************************************)
(* feed.consume: the checkpoint is within the cached segment.              *)
(***************************************************************************)
ServeFromCache ==
  /\ con.pc = "consume"
  /\ Within
  /\ con' = [con EXCEPT !.pc = "handle", !.reading = FALSE, !.end = CachedSegment.end,
                        !.todo = {o \in CachedSegment.events \intersect Wanted : o >= con.cp}]
  /\ ConsumerFrame

(***************************************************************************)
(* feed.consume: the checkpoint is before the cached segment, or beyond it *)
(* and not known to be within the stream, so read from the source unless   *)
(* the feed is closed (startRead).                                         *)
(***************************************************************************)
StartRead ==
  /\ con.pc = "consume"
  /\ Before \/ Unconfirmed
  /\ ~Closed
  /\ con' = [con EXCEPT !.pc = "read", !.reading = TRUE, !.from = con.cp,
                        !.behind = Before]
  /\ ConsumerFrame

(***************************************************************************)
(* feed.consume returns errFeedClosed, from startRead or while it waits    *)
(* for the cache to change, or because closing the feed has canceled the   *)
(* read.                                                                   *)
(***************************************************************************)
LeaveClosedFeed ==
  /\ con.pc \in {"consume", "read"}
  /\ Closed
  /\ con.pc = "consume" => ~Within
  /\ con' = OnCurrentFeed(con)
  /\ ConsumerFrame

(***************************************************************************)
(* Source.Read: load a segment and pass it on, unless it is empty.  Then   *)
(* the stream is exhausted and the read is over.                           *)
(***************************************************************************)
ReadSegment ==
  /\ con.pc = "read"
  /\ LET r == LoadSegment(Wanted, con.cp) IN
     con' = IF r.seg.end > r.seg.begin
            THEN [con EXCEPT !.pc = "handle", !.end = r.seg.end,
                             !.todo = r.seg.events, !.exhausted = r.exhausted]
            ELSE IF Closed THEN OnCurrentFeed(con)
            ELSE [con EXCEPT !.pc = "consume", !.confirmed = TRUE]
  /\ ConsumerFrame

(***************************************************************************)
(* ConsumeSegment passes the next event to the projection handler, whose   *)
(* contract is to apply it and to store the offset after it if its stored  *)
(* checkpoint is the one it is given, and to report a conflict otherwise.  *)
(* The handler may fail after having done so: the error then sends the     *)
(* consumer back to the stored checkpoint, as a conflict does.             *)
(***************************************************************************)
HandleEvent ==
  /\ con.pc = "handle"
  /\ con.todo # {}
  /\ con.scp = stored
  /\ LET o == Min(con.todo) IN
     /\ stored' = o + 1
     /\ handled' = Append(handled, o)
     /\ \/ /\ con' = [con EXCEPT !.todo = @ \ {o}, !.scp = o + 1]
           /\ UNCHANGED faults
        \/ /\ con' = Down
           /\ Fault
  /\ UNCHANGED <<busVars, sourceVars, catalogVars>>

HandleConflict ==
  /\ con.pc = "handle"
  /\ con.todo # {}
  /\ con.scp # stored
  /\ con' = Down
  /\ ConsumerFrame

(***************************************************************************)
(* ConsumeSegment has returned.  After a segment that was read, the read   *)
(* goes on unless the cached segment has been reached or the stream is     *)
(* exhausted.                                                              *)
(***************************************************************************)
SegmentConsumed ==
  /\ con.pc = "handle"
  /\ con.todo = {}
  /\ LET c == [con EXCEPT !.pc = "consume", !.cp = con.end, !.confirmed = TRUE] IN
     con' = IF con.reading /\ con.end < CachedSegment.begin
            THEN IF ~con.exhausted THEN [con EXCEPT !.pc = "read", !.cp = con.end]
                 ELSE IF Closed THEN OnCurrentFeed(c)
                 ELSE c
            ELSE c
  /\ ConsumerFrame

(***************************************************************************)
(* A query or the handler fails and startStreamConsumer tries again.       *)
(***************************************************************************)
ConsumerFails ==
  /\ con.pc \in {"read", "handle"}
  /\ con' = Down
  /\ Fault
  /\ UNCHANGED <<busVars, sourceVars, catalogVars, sinkVars>>

(***************************************************************************)
(* The stream's consumer on another node passes the handler its next       *)
(* event (the nodes disagree about the cluster's membership).              *)
(***************************************************************************)
HandledElsewhere ==
  /\ Fault
  /\ LET rest == {o \in Wanted : stored <= o /\ o < length} IN
     /\ rest # {}
     /\ stored' = Min(rest) + 1
     /\ handled' = Append(handled, Min(rest))
  /\ UNCHANGED <<busVars, sourceVars, catalogVars, con>>

-------------------------------------------------------------------------------

Init ==
  /\ SourceInit
  /\ feed = [n \in Node |-> "none"]
  /\ cache = [n \in Node |-> Reset(0)]
  /\ current = NoFeed
  /\ con = Down
  /\ stored = 0
  /\ handled = <<>>
  /\ faults = 0

NotFeed == UNCHANGED <<catalogVars, con, sinkVars>>

BusStep(n) ==
  /\ Dispatch(n) \/ Listen(n)
  /\ UNCHANGED <<sourceVars, faults>> /\ NotFeed

BusFault(n) ==
  /\ ConnectionLost(n) /\ Fault
  /\ UNCHANGED sourceVars /\ NotFeed

SourceStep(n) == FollowerStep(n) /\ UNCHANGED faults /\ NotFeed

SourceFault(n) == FollowFails(n) /\ Fault /\ NotFeed

StreamGrows == \E k \in 1 .. MaxLength : AppendEvents(k) /\ UNCHANGED faults /\ NotFeed

CatalogStep(n) == BeginWatch(n) \/ WatchSegment(n) \/ WatchReturns(n)

CatalogFault(n) == WatchBreaks(n) \/ EndWatch(n)

ConsumerStep ==
  \/ StartConsumer
  \/ ServeFromCache
  \/ StartRead
  \/ LeaveClosedFeed
  \/ ReadSegment
  \/ HandleEvent
  \/ HandleConflict
  \/ SegmentConsumed

Next ==
  \/ StreamGrows
  \/ ConsumerStep
  \/ ConsumerFails
  \/ HandledElsewhere
  \/ \E n \in Node :
       \/ BusStep(n)
       \/ BusFault(n)
       \/ SourceStep(n)
       \/ SourceFault(n)
       \/ CatalogStep(n)
       \/ CatalogFault(n)

Spec == Init /\ [][Next]_vars

(***************************************************************************)
(* Every goroutine goes on when it can: the bus, the follower and          *)
(* Catalog.Watch of every node, and the stream consumer, are each run by a *)
(* supervisor that restarts them.  A notification in flight is received.   *)
(* Nothing is assumed of appends, of failures or of cancellations.         *)
(***************************************************************************)
Fairness ==
  /\ \A n \in Node :
       /\ WF_vars(BusStep(n))
       /\ WF_vars(SourceStep(n))
       /\ WF_vars(CatalogStep(n))
  /\ WF_vars(ConsumerStep)

FairSpec == Spec /\ Fairness

-------------------------------------------------------------------------------

(***************************************************************************)
(* The cache of a feed holds every watched event of the range it claims    *)
(* and nothing else, no more events than its capacity, and claims no more  *)
(* than the stream has, however segments were evicted, the source watched  *)
(* again or its follower restarted.                                        *)
(***************************************************************************)
CacheSound ==
  \A n \in Node :
    /\ cache[n].events = {o \in Watched : cache[n].begin <= o /\ o < cache[n].end}
    /\ Cardinality(cache[n].events) <= Capacity
    /\ cache[n].end <= length

(***************************************************************************)
(* The projection has handled exactly the wanted events before its stored  *)
(* checkpoint, each once and in the order of the stream.  This is the      *)
(* promise of Catalog.Consume ("in contiguous segments") carried through   *)
(* cache hits, reads, feeds that close, failures and conflicts.            *)
(***************************************************************************)
HandledOnceInOrder ==
  /\ {handled[i] : i \in 1 .. Len(handled)} = {o \in Wanted : o < stored}
  /\ \A i, j \in 1 .. Len(handled) : i < j => handled[i] < handled[j]

(***************************************************************************)
(* A read is always within the source's stream, and one that is made       *)
(* because the consumer is behind the cached segment always finds          *)
(* something to deliver.  So neither ErrOffsetOutOfRange nor the error     *)
(* "ends at offset ..., before the cached segment" can be returned.        *)
(***************************************************************************)
ReadsServable ==
  con.pc = "read" =>
    /\ con.cp <= length
    /\ con.behind /\ con.cp = con.from => con.cp < length

(***************************************************************************)
(* If some call to Catalog.Watch is never canceled, every wanted event of  *)
(* the stream is eventually handled: no signal that was lost, no watcher   *)
(* that was removed and no feed that was closed leaves the consumer        *)
(* waiting for an event that has been appended.                            *)
(***************************************************************************)
EveryEventHandled ==
  (\E n \in Node : [](feed[n] # "closed"))
    => \A o \in Wanted : [](o < length => <>(stored > o))
==============================================================================
