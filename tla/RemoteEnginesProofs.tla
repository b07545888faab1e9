-------------------------- MODULE RemoteEnginesProofs --------------------------
(***************************************************************************)
(* The safety properties of the connections to remote engines, for any     *)
(* number of connections and of streams.                                   *)
(***************************************************************************)
EXTENDS RemoteEngines, TLAPS

ConnType == [handle : {"new", "added", "removing", "removed"},
             watch : {"none", "running", "removing", "waiting", "stopped"},
             calling : BOOLEAN, canceled : BOOLEAN]

ConType == [pc : {"none", "retry", "load", "consume", "read"}, feed : Conn \union {NoFeed},
            stale : BOOLEAN, canceled : BOOLEAN]

TypeOK ==
  /\ running \in BOOLEAN
  /\ discover \in {"off", "running", "ending"}
  /\ conn \in [Conn -> ConnType]
  /\ feed \in [Conn -> [Stream -> {"none", "open", "closed"}]]
  /\ current \in [Stream -> Conn \union {NoFeed}]
  /\ responsible \subseteq Stream
  /\ consumer \in {"streams", "members", "stopping", "waiting", "off"}
  /\ loaded \in [streamIDs : SUBSET Stream, responsible : SUBSET Stream]
  /\ consuming \subseteq Stream
  /\ con \in [Stream -> ConType]

\* Catalog.Watch of the connection was not called, or has returned.
Over(w) == w \in {"none", "stopped"}

(***************************************************************************)
(* A connection has open feeds only until they are removed, calls to       *)
(* Source.Watch only before that, and calls to Source.Read only until they *)
(* have been waited for.                                                   *)
(***************************************************************************)
ConnFits(c, k) ==
  /\ k.calling => k.watch = "running"
  /\ k.handle = "new" => k.watch = "none"
  /\ k.handle = "removed" \/ discover = "off" => Over(k.watch)
  /\ \A s \in Stream :
       /\ feed[c][s] = "open" => k.watch \in {"running", "removing"}
       /\ con[s].pc = "read" /\ con[s].feed = c => ~Over(k.watch)

ConnOK(c) == ConnFits(c, conn[c])

\* The feed that serves a stream is open.
ServedOK(s) ==
  IF AvailableFeeds(s) = {} THEN current[s] = NoFeed ELSE current[s] \in AvailableFeeds(s)

(***************************************************************************)
(* A stream consumer is on a feed the catalog has had, and one that was    *)
(* not canceled has its entry in stopStreamConsumer.                       *)
(***************************************************************************)
ConFits(s, d) ==
  /\ d.pc \in {"consume", "read"} => d.feed \in Conn /\ feed[d.feed][s] # "none"
  /\ d.pc # "none" /\ ~d.canceled => s \in consuming

ConOK(s) == ConFits(s, con[s])

IInv ==
  /\ TypeOK
  /\ \A c \in Conn : ConnOK(c)
  /\ \A s \in Stream : ServedOK(s) /\ ConOK(s)
  /\ consumer = "stopping" => consuming \subseteq ToConsume

-------------------------------------------------------------------------------
(***************************************************************************)
(* What it takes for a step of each part to keep the invariant.            *)
(***************************************************************************)
\* A step that changes one connection only.
LEMMA ConnMoves ==
  ASSUME IInv, NEW c \in Conn, NEW k \in ConnType, conn' = [conn EXCEPT ![c] = k],
         UNCHANGED <<running, discover, catalogVars, consumerVars, con>>, ConnFits(c, k)
  PROVE  IInv'
<1>1. /\ running' = running /\ discover' = discover /\ feed' = feed /\ current' = current
      /\ responsible' = responsible /\ consumer' = consumer /\ loaded' = loaded
      /\ consuming' = consuming /\ con' = con
  BY Zenon DEF catalogVars, consumerVars
<1>2. TypeOK'
  BY <1>1, Zenon DEF IInv, TypeOK
<1>3. ASSUME NEW b \in Conn PROVE ConnOK(b)'
  <2>1. CASE b = c
    <3>1. conn'[b] = k
      BY <2>1, Zenon DEF IInv, TypeOK
    <3>. QED
      BY <1>1, <2>1, <3>1, Zenon DEF ConnOK, ConnFits
  <2>2. CASE b # c
    <3>1. conn'[b] = conn[b]
      BY <2>2, Zenon DEF IInv, TypeOK
    <3>. QED
      BY <1>1, <3>1, Zenon DEF IInv, ConnOK, ConnFits
  <2>. QED
    BY <2>1, <2>2, Zenon
<1>4. ASSUME NEW s \in Stream PROVE ServedOK(s)' /\ ConOK(s)'
  BY <1>1, Zenon DEF IInv, ServedOK, AvailableFeeds, ConOK, ConFits
<1>5. (consumer = "stopping" => consuming \subseteq ToConsume)'
  BY <1>1, Zenon DEF IInv, ToConsume
<1>. QED
  BY <1>2, <1>3, <1>4, <1>5, Zenon DEF IInv

\* A step that changes one stream consumer only.
LEMMA ConMoves ==
  ASSUME IInv, NEW s \in Stream, NEW d \in ConType, con' = [con EXCEPT ![s] = d],
         UNCHANGED <<running, discover, conn, catalogVars, consumerVars>>, ConFits(s, d),
         d.pc = "read" => \A c \in Conn : d.feed = c => ~Over(conn[c].watch)
  PROVE  IInv'
<1>1. /\ running' = running /\ discover' = discover /\ feed' = feed /\ current' = current
      /\ responsible' = responsible /\ consumer' = consumer /\ loaded' = loaded
      /\ consuming' = consuming /\ conn' = conn
  BY Zenon DEF catalogVars, consumerVars
<1>2. TypeOK'
  BY <1>1, Zenon DEF IInv, TypeOK
<1>3. con'[s] = d /\ \A t \in Stream : t # s => con'[t] = con[t]
  BY Zenon DEF IInv, TypeOK
<1>4. ASSUME NEW c \in Conn PROVE ConnOK(c)'
  <2>1. ConnFits(c, conn[c])
    BY Zenon DEF IInv, ConnOK
  <2>2. ASSUME NEW t \in Stream, con'[t].pc = "read", con'[t].feed = c
        PROVE  ~Over(conn[c].watch)
    <3>1. CASE t = s
      BY <1>3, <2>2, <3>1, Zenon
    <3>2. CASE t # s
      BY <1>3, <2>1, <2>2, <3>2, Zenon DEF ConnFits
    <3>. QED
      BY <3>1, <3>2, Zenon
  <2>. QED
    BY <1>1, <2>1, <2>2, Zenon DEF ConnOK, ConnFits
<1>5. ASSUME NEW t \in Stream PROVE ServedOK(t)' /\ ConOK(t)'
  <2>1. ServedOK(t)'
    BY <1>1, Zenon DEF IInv, ServedOK, AvailableFeeds
  <2>2. CASE t = s
    BY <1>1, <1>3, <2>1, <2>2, Zenon DEF ConOK, ConFits
  <2>3. CASE t # s
    BY <1>1, <1>3, <2>1, <2>3, Zenon DEF IInv, ConOK, ConFits
  <2>. QED
    BY <2>2, <2>3, Zenon
<1>6. (consumer = "stopping" => consuming \subseteq ToConsume)'
  BY <1>1, Zenon DEF IInv, ToConsume
<1>. QED
  BY <1>2, <1>4, <1>5, <1>6, Zenon DEF IInv

-------------------------------------------------------------------------------
(***************************************************************************)
(* The connector and Catalog.Watch.                                        *)
(***************************************************************************)
\* add: what it starts has done nothing yet.
LEMMA AddIInv ==
  ASSUME IInv, NEW c \in Conn, Add(c)
  PROVE  IInv'
<1> DEFINE w == IF running THEN "running" ELSE "none"
           k == [conn[c] EXCEPT !.handle = "added", !.watch = w]
<1>1. /\ conn' = [conn EXCEPT ![c] = k] /\ discover = "running" /\ conn[c].handle = "new"
      /\ UNCHANGED <<running, discover, catalogVars, consumerVars, con>>
  BY Zenon DEF Add
<1>2. conn[c] \in ConnType /\ ConnFits(c, conn[c])
  BY Zenon DEF IInv, TypeOK, ConnOK
<1>3. w \in {"running", "none"}
  OBVIOUS
<1> HIDE DEF w
<1>4. /\ k \in ConnType /\ k.handle = "added" /\ k.watch = w
      /\ k.calling = conn[c].calling /\ k.canceled = conn[c].canceled
  BY <1>2, <1>3, Zenon DEF ConnType
<1> HIDE DEF k
<1>5. ConnFits(c, k)
  BY <1>1, <1>2, <1>3, <1>4 DEF ConnFits, Over
<1>. QED
  BY <1>1, <1>4, <1>5, ConnMoves, Zenon

\* The remove function, up to its wait for Catalog.Watch and from there on.
LEMMA RemoveIInv ==
  ASSUME IInv, NEW c \in Conn, Remove(c) \/ RemoveReturns(c)
  PROVE  IInv'
<1>1. conn[c] \in ConnType /\ ConnFits(c, conn[c])
  BY Zenon DEF IInv, TypeOK, ConnOK
<1>2. CASE Remove(c)
  <2> DEFINE k == [conn[c] EXCEPT !.handle = "removing", !.canceled = TRUE]
  <2>1. /\ conn' = [conn EXCEPT ![c] = k]
        /\ UNCHANGED <<running, discover, catalogVars, consumerVars, con>>
    BY <1>2, Zenon DEF Remove
  <2>2. /\ k \in ConnType /\ k.handle = "removing" /\ k.watch = conn[c].watch
        /\ k.calling = conn[c].calling
    BY <1>1, Zenon DEF ConnType
  <2> HIDE DEF k
  <2>3. ConnFits(c, k)
    BY <1>1, <2>2 DEF ConnFits
  <2>. QED
    BY <2>1, <2>2, <2>3, ConnMoves, Zenon
<1>3. CASE RemoveReturns(c)
  <2> DEFINE k == [conn[c] EXCEPT !.handle = "removed"]
  <2>1. /\ conn' = [conn EXCEPT ![c] = k] /\ conn[c].watch \in {"none", "stopped"}
        /\ UNCHANGED <<running, discover, catalogVars, consumerVars, con>>
    BY <1>3, Zenon DEF RemoveReturns
  <2>2. /\ k \in ConnType /\ k.handle = "removed" /\ k.watch = conn[c].watch
        /\ k.calling = conn[c].calling
    BY <1>1 DEF ConnType
  <2> HIDE DEF k
  <2>3. ConnFits(c, k)
    BY <1>1, <2>1, <2>2 DEF ConnFits, Over
  <2>. QED
    BY <2>1, <2>2, <2>3, ConnMoves, Zenon
<1>. QED
  BY <1>2, <1>3, Zenon

\* Calls to Source.Watch begin and end.
LEMMA CallIInv ==
  ASSUME IInv, NEW c \in Conn, CallWatch(c) \/ WatchEnds(c)
  PROVE  IInv'
<1>1. conn[c] \in ConnType /\ ConnFits(c, conn[c])
  BY Zenon DEF IInv, TypeOK, ConnOK
<1>2. PICK b \in BOOLEAN :
        /\ conn' = [conn EXCEPT ![c] = [conn[c] EXCEPT !.calling = b]]
        /\ UNCHANGED <<running, discover, catalogVars, consumerVars, con>>
        /\ b => conn[c].watch = "running"
  BY Zenon DEF CallWatch, WatchEnds
<1> DEFINE k == [conn[c] EXCEPT !.calling = b]
<1>3. /\ k \in ConnType /\ k.handle = conn[c].handle /\ k.watch = conn[c].watch
      /\ k.calling = b
  BY <1>1 DEF ConnType
<1>4. conn' = [conn EXCEPT ![c] = k]
  BY <1>2, Zenon
<1> HIDE DEF k
<1>5. ConnFits(c, k)
  BY <1>1, <1>2, <1>3 DEF ConnFits
<1>. QED
  BY <1>2, <1>3, <1>4, <1>5, ConnMoves, Zenon

\* The deferred function of Catalog.Watch goes on once there is no call to
\* Source.Watch, then no open feed, and then no read.
LEMMA WindDownIInv ==
  ASSUME IInv, NEW c \in Conn, WatchCanceled(c) \/ FeedsRemoved(c) \/ WatchReturns(c)
  PROVE  IInv'
<1>1. conn[c] \in ConnType /\ ConnFits(c, conn[c])
  BY Zenon DEF IInv, TypeOK, ConnOK
<1>2. PICK w \in {"removing", "waiting", "stopped"} :
        /\ conn' = [conn EXCEPT ![c] = [conn[c] EXCEPT !.watch = w]]
        /\ UNCHANGED <<running, discover, catalogVars, consumerVars, con>>
        /\ ~conn[c].calling
        /\ conn[c].watch \in {"running", "removing", "waiting"}
        /\ w # "removing" => \A s \in Stream : feed[c][s] # "open"
        /\ w = "stopped" => Reading(c) = {}
  <2>1. CASE WatchCanceled(c)
    BY <2>1, Zenon DEF WatchCanceled
  <2>2. CASE FeedsRemoved(c)
    <3>1. conn[c].watch = "removing" /\ ~conn[c].calling
      BY <1>1, <2>2 DEF FeedsRemoved, ConnFits
    <3>. QED
      BY <2>2, <3>1, Zenon DEF FeedsRemoved
  <2>3. CASE WatchReturns(c)
    <3>1. /\ conn[c].watch = "waiting" /\ ~conn[c].calling
          /\ \A s \in Stream : feed[c][s] # "open"
      BY <1>1, <2>3 DEF WatchReturns, ConnFits
    <3>. QED
      BY <2>3, <3>1, Zenon DEF WatchReturns
  <2>. QED
    BY <2>1, <2>2, <2>3, Zenon
<1> DEFINE k == [conn[c] EXCEPT !.watch = w]
<1>3. /\ k \in ConnType /\ k.handle = conn[c].handle /\ k.watch = w
      /\ k.calling = conn[c].calling
  BY <1>1 DEF ConnType
<1>4. conn' = [conn EXCEPT ![c] = k]
  BY <1>2, Zenon
<1> HIDE DEF k
<1>5. k.handle # "new" /\ k.handle # "removed" /\ discover # "off"
  BY <1>1, <1>2, <1>3 DEF ConnFits, Over
<1>6. \A s \in Stream : /\ feed[c][s] = "open" => w = "removing"
                        /\ con[s].pc = "read" /\ con[s].feed = c => w # "stopped"
  BY <1>2, Zenon DEF Reading
<1>7. ConnFits(c, k)
  BY <1>2, <1>3, <1>5, <1>6 DEF ConnFits, Over
<1>. QED
  BY <1>2, <1>3, <1>4, <1>7, ConnMoves, Zenon

\* discover, and the cancelation of the engine, of the discoverer and of what
\* it has added.
LEMMA DiscoverIInv ==
  ASSUME IInv, StartDiscover \/ DiscovererReturns \/ DiscoverReturns \/ StopEngine
  PROVE  IInv'
<1>a. TypeOK
  BY Zenon DEF IInv
<1>1. /\ feed' = feed /\ current' = current /\ responsible' = responsible
      /\ consumer' = consumer /\ loaded' = loaded /\ consuming' = consuming /\ con' = con
  BY Zenon DEF StartDiscover, DiscovererReturns, DiscoverReturns, StopEngine, catalogVars, consumerVars
<1>2. /\ running' \in BOOLEAN /\ discover' \in {"off", "running", "ending"}
      /\ discover' = "off" => discover = "off" \/ \A c \in Conn : Over(conn[c].watch)
  BY <1>a, Zenon DEF StartDiscover, DiscovererReturns, DiscoverReturns, StopEngine, TypeOK, Over
<1>3. /\ conn' \in [Conn -> ConnType]
      /\ \A c \in Conn : /\ conn'[c].handle = conn[c].handle /\ conn'[c].watch = conn[c].watch
                         /\ conn'[c].calling = conn[c].calling
  <2>1. CASE conn' = conn
    BY <1>a, <2>1, Zenon DEF TypeOK
  <2>2. CASE DiscovererReturns
    <3>1. conn' = [c \in Conn |-> [conn[c] EXCEPT !.canceled = (conn[c].handle # "new")]]
      BY <2>2, Zenon DEF DiscovererReturns
    <3>2. ASSUME NEW c \in Conn
          PROVE  LET k == [conn[c] EXCEPT !.canceled = (conn[c].handle # "new")] IN
                 /\ k \in ConnType /\ k.handle = conn[c].handle /\ k.watch = conn[c].watch
                 /\ k.calling = conn[c].calling
      <4>1. conn[c] \in ConnType /\ (conn[c].handle # "new") \in BOOLEAN
        BY <1>a, Zenon DEF TypeOK
      <4>. QED
        BY <4>1, Zenon DEF ConnType
    <3>. QED
      BY <3>1, <3>2, Zenon
  <2>. QED
    BY <2>1, <2>2, Zenon DEF StartDiscover, DiscoverReturns, StopEngine
<1>4. TypeOK'
  BY <1>a, <1>1, <1>2, <1>3, Zenon DEF TypeOK
<1>5. ASSUME NEW c \in Conn PROVE ConnOK(c)'
  <2>1. ConnFits(c, conn[c])
    BY Zenon DEF IInv, ConnOK
  <2>2. discover' = "off" => Over(conn[c].watch)
    BY <1>2, <2>1, Zenon DEF ConnFits
  <2>. QED
    BY <1>1, <1>3, <2>1, <2>2, Zenon DEF ConnOK, ConnFits
<1>6. ASSUME NEW s \in Stream PROVE ServedOK(s)' /\ ConOK(s)'
  BY <1>1, Zenon DEF IInv, ServedOK, AvailableFeeds, ConOK, ConFits
<1>7. (consumer = "stopping" => consuming \subseteq ToConsume)'
  BY <1>1, Zenon DEF IInv, ToConsume
<1>. QED
  BY <1>4, <1>5, <1>6, <1>7, Zenon DEF IInv

\* feedFor and Catalog.add: a stream that has no other feed is served from it.
LEMMA AddFeedIInv ==
  ASSUME IInv, NEW c \in Conn, NEW s \in Stream, AddFeed(c, s)
  PROVE  IInv'
<1>a. TypeOK /\ ConnFits(c, conn[c]) /\ ServedOK(s)
  BY Zenon DEF IInv, ConnOK
<1>1. /\ conn[c].calling /\ feed[c][s] = "none"
      /\ feed' = [feed EXCEPT ![c][s] = "open"]
      /\ current' = [current EXCEPT ![s] = IF AvailableFeeds(s) = {} THEN c ELSE @]
      /\ running' = running /\ discover' = discover /\ conn' = conn
      /\ responsible' = responsible /\ consumer' = consumer /\ loaded' = loaded
      /\ consuming' = consuming /\ con' = con
  BY Zenon DEF AddFeed, consumerVars
<1>2. /\ feed' \in [Conn -> [Stream -> {"none", "open", "closed"}]]
      /\ feed'[c][s] = "open"
      /\ \A b \in Conn : \A t \in Stream : b # c \/ t # s => feed'[b][t] = feed[b][t]
  BY <1>a, <1>1 DEF TypeOK
<1>3. /\ current' \in [Stream -> Conn \union {NoFeed}]
      /\ current'[s] = (IF AvailableFeeds(s) = {} THEN c ELSE current[s])
      /\ \A t \in Stream : t # s => current'[t] = current[t]
  BY <1>a, <1>1, Zenon DEF TypeOK
<1>4. TypeOK'
  BY <1>a, <1>1, <1>2, <1>3, Zenon DEF TypeOK
<1>5. ASSUME NEW b \in Conn PROVE ConnOK(b)'
  <2>1. ConnFits(b, conn[b])
    BY Zenon DEF IInv, ConnOK
  <2>2. ASSUME NEW t \in Stream, feed'[b][t] = "open"
        PROVE  conn[b].watch \in {"running", "removing"}
    <3>1. CASE b = c
      BY <1>a, <1>1, <3>1 DEF ConnFits
    <3>2. CASE b # c
      BY <1>2, <2>1, <2>2, <3>2, Zenon DEF ConnFits
    <3>. QED
      BY <3>1, <3>2, Zenon
  <2>. QED
    BY <1>1, <2>1, <2>2, Zenon DEF ConnOK, ConnFits
<1>6. ASSUME NEW t \in Stream PROVE ServedOK(t)'
  <2>1. CASE t = s
    <3>1. AvailableFeeds(s)' = AvailableFeeds(s) \union {c}
      BY <1>2, Zenon DEF AvailableFeeds
    <3>2. current'[s] \in AvailableFeeds(s) \union {c}
      BY <1>a, <1>3, Zenon DEF ServedOK
    <3>. QED
      BY <2>1, <3>1, <3>2, Zenon DEF ServedOK
  <2>2. CASE t # s
    <3>1. AvailableFeeds(t)' = AvailableFeeds(t)
      BY <1>2, <2>2, Zenon DEF AvailableFeeds
    <3>. QED
      BY <1>3, <2>2, <3>1, Zenon DEF IInv, ServedOK
  <2>. QED
    BY <2>1, <2>2, Zenon
<1>7. ASSUME NEW t \in Stream PROVE ConOK(t)'
  <2>1. ConFits(t, con[t])
    BY Zenon DEF IInv, ConOK
  <2>2. \A b \in Conn : feed[b][t] # "none" => feed'[b][t] # "none"
    BY <1>1, <1>2
  <2>. QED
    BY <1>1, <2>1, <2>2, Zenon DEF ConOK, ConFits
<1>8. (consumer = "stopping" => consuming \subseteq ToConsume)'
  BY <1>1, Zenon DEF IInv, ToConsume
<1>. QED
  BY <1>4, <1>5, <1>6, <1>7, <1>8, Zenon DEF IInv

\* Catalog.remove: another open feed takes over, if there is one.
LEMMA RemoveFeedIInv ==
  ASSUME IInv, NEW c \in Conn, NEW s \in Stream, RemoveFeed(c, s)
  PROVE  IInv'
<1> DEFINE others == AvailableFeeds(s) \ {c}
<1>a. TypeOK /\ ConnFits(c, conn[c]) /\ ServedOK(s)
  BY Zenon DEF IInv, ConnOK
<1>1. /\ feed[c][s] = "open"
      /\ feed' = [feed EXCEPT ![c][s] = "closed"]
      /\ running' = running /\ discover' = discover /\ conn' = conn
      /\ responsible' = responsible /\ consumer' = consumer /\ loaded' = loaded
      /\ consuming' = consuming
  BY Zenon DEF RemoveFeed, consumerVars
<1>2. /\ feed' \in [Conn -> [Stream -> {"none", "open", "closed"}]]
      /\ feed'[c][s] = "closed"
      /\ \A b \in Conn : \A t \in Stream : b # c \/ t # s => feed'[b][t] = feed[b][t]
  BY <1>a, <1>1 DEF TypeOK
<1>3. /\ con' \in [Stream -> ConType]
      /\ \A t \in Stream : /\ con'[t].pc = con[t].pc /\ con'[t].feed = con[t].feed
                           /\ con'[t].canceled = con[t].canceled
  <2>1. con' = con \/ con' = [con EXCEPT ![s].stale = TRUE]
    BY Zenon DEF RemoveFeed
  <2>2. CASE con' = con
    BY <1>a, <2>2, Zenon DEF TypeOK
  <2>3. CASE con' = [con EXCEPT ![s].stale = TRUE]
    <3> DEFINE d == [con[s] EXCEPT !.stale = TRUE]
    <3>1. con[s] \in ConType
      BY <1>a, Zenon DEF TypeOK
    <3>2. /\ d \in ConType /\ d.pc = con[s].pc /\ d.feed = con[s].feed
          /\ d.canceled = con[s].canceled
      BY <3>1, Zenon DEF ConType
    <3>3. con' = [con EXCEPT ![s] = d]
      BY <2>3, Zenon
    <3> HIDE DEF d
    <3>. QED
      BY <1>a, <3>2, <3>3, Zenon DEF TypeOK
  <2>. QED
    BY <2>1, <2>2, <2>3, Zenon
<1>4. /\ current' \in [Stream -> Conn \union {NoFeed}]
      /\ \A t \in Stream : t # s => current'[t] = current[t]
      /\ \/ current[s] # c /\ current'[s] = current[s]
         \/ others = {} /\ current'[s] = NoFeed
         \/ current'[s] \in others
  <2>1. CASE current[s] # c
    <3>1. current' = current
      BY <2>1, Zenon DEF RemoveFeed
    <3>. QED
      BY <1>a, <2>1, <3>1, Zenon DEF TypeOK
  <2>2. CASE current[s] = c
    <3>1. PICK next \in (IF others = {} THEN {NoFeed} ELSE others) :
            current' = [current EXCEPT ![s] = next]
      BY <2>2, Zenon DEF RemoveFeed
    <3>2. next \in others \/ (others = {} /\ next = NoFeed)
      BY <3>1, Zenon
    <3>3. next \in Conn \union {NoFeed}
      BY <3>2, Zenon DEF AvailableFeeds
    <3> HIDE DEF others
    <3>. QED
      BY <1>a, <3>1, <3>2, <3>3, Zenon DEF TypeOK
  <2>. QED
    BY <2>1, <2>2, Zenon
<1>5. TypeOK'
  BY <1>a, <1>1, <1>2, <1>3, <1>4, Zenon DEF TypeOK
<1>6. ASSUME NEW b \in Conn PROVE ConnOK(b)'
  <2>1. ConnFits(b, conn[b])
    BY Zenon DEF IInv, ConnOK
  <2>2. ASSUME NEW t \in Stream, feed'[b][t] = "open"
        PROVE  feed[b][t] = "open"
    BY <1>1, <1>2, <2>2, Zenon
  <2>. QED
    BY <1>1, <1>3, <2>1, <2>2, Zenon DEF ConnOK, ConnFits
<1>7. ASSUME NEW t \in Stream PROVE ServedOK(t)'
  <2>1. CASE t = s
    <3>1. AvailableFeeds(s)' = others
      BY <1>1, <1>2 DEF AvailableFeeds
    <3>2. current[s] # NoFeed /\ current[s] \in AvailableFeeds(s)
      <4>1. c \in AvailableFeeds(s)
        BY <1>1, Zenon DEF AvailableFeeds
      <4>2. NoFeed \notin AvailableFeeds(s)
        BY RemoteEnginesAssumption, Zenon DEF AvailableFeeds
      <4>. QED
        BY <1>a, <4>1, <4>2, Zenon DEF ServedOK
    <3>3. \/ others = {} /\ current'[s] = NoFeed
          \/ current'[s] \in others
      BY <1>4, <3>2, Zenon
    <3> HIDE DEF others
    <3>. QED
      BY <2>1, <3>1, <3>3, Zenon DEF ServedOK
  <2>2. CASE t # s
    <3>1. AvailableFeeds(t)' = AvailableFeeds(t)
      BY <1>2, <2>2, Zenon DEF AvailableFeeds
    <3>. QED
      BY <1>4, <2>2, <3>1, Zenon DEF IInv, ServedOK
  <2>. QED
    BY <2>1, <2>2, Zenon
<1>8. ASSUME NEW t \in Stream PROVE ConOK(t)'
  <2>1. ConFits(t, con[t])
    BY Zenon DEF IInv, ConOK
  <2>2. \A b \in Conn : feed[b][t] # "none" => feed'[b][t] # "none"
    BY <1>1, <1>2
  <2>. QED
    BY <1>1, <1>3, <2>1, <2>2, Zenon DEF ConOK, ConFits
<1>9. (consumer = "stopping" => consuming \subseteq ToConsume)'
  BY <1>1, Zenon DEF IInv, ToConsume
<1>. QED
  BY <1>5, <1>6, <1>7, <1>8, <1>9, Zenon DEF IInv

-------------------------------------------------------------------------------
(***************************************************************************)
(* The consumer and the stream consumers.                                  *)
(***************************************************************************)
\* A step of Consumer.Run: no stream consumer may be left reading, or without
\* its entry, that was not before.
LEMMA ConsumerMoves ==
  ASSUME IInv, UNCHANGED <<running, discover, conn, catalogVars>>,
         responsible' \subseteq Stream, consumer' \in {"streams", "members", "stopping", "waiting", "off"},
         loaded' \in [streamIDs : SUBSET Stream, responsible : SUBSET Stream],
         consuming' \subseteq Stream, con' \in [Stream -> ConType],
         \A s \in Stream :
           /\ con'[s].pc \in {"consume", "read"} =>
                con'[s].pc = con[s].pc /\ con'[s].feed = con[s].feed
           /\ con'[s].pc # "none" /\ ~con'[s].canceled => s \in consuming',
         consumer' = "stopping" => consuming' \subseteq ToConsume'
  PROVE  IInv'
<1>1. running' = running /\ discover' = discover /\ conn' = conn /\ feed' = feed /\ current' = current
  BY Zenon DEF catalogVars
<1>2. TypeOK'
  BY <1>1, Zenon DEF IInv, TypeOK
<1>3. ASSUME NEW c \in Conn PROVE ConnOK(c)'
  <2>1. ConnFits(c, conn[c])
    BY Zenon DEF IInv, ConnOK
  <2>2. \A s \in Stream : con'[s].pc = "read" => con[s].pc = "read" /\ con'[s].feed = con[s].feed
    BY Zenon
  <2>. QED
    BY <1>1, <2>1, <2>2, Zenon DEF ConnOK, ConnFits
<1>4. ASSUME NEW s \in Stream PROVE ServedOK(s)' /\ ConOK(s)'
  <2>1. ServedOK(s)'
    BY <1>1, Zenon DEF IInv, ServedOK, AvailableFeeds
  <2>2. ConFits(s, con[s])
    BY Zenon DEF IInv, ConOK
  <2>3. ConOK(s)'
    BY <1>1, <2>2, Zenon DEF ConOK, ConFits
  <2>. QED
    BY <2>1, <2>3, Zenon
<1>. QED
  BY <1>2, <1>3, <1>4, Zenon DEF IInv

\* A step that changes no stream consumer and no entry of one.
LEMMA ConsumerWaitsIInv ==
  ASSUME IInv, MembershipChanges \/ LoadStreamIDs \/ AwaitChange \/ ConsumerReturns
  PROVE  IInv'
<1>a. TypeOK
  BY Zenon DEF IInv
<1>1. /\ UNCHANGED <<running, discover, conn, catalogVars>>
      /\ consuming' = consuming /\ con' = con
  BY Zenon DEF MembershipChanges, LoadStreamIDs, AwaitChange, ConsumerReturns, ConsumerFrame
<1>2. /\ responsible' \subseteq Stream
      /\ consumer' \in {"streams", "members", "stopping", "waiting", "off"}
      /\ consumer' = "stopping" => consumer = "stopping" /\ loaded' = loaded
  BY <1>a, Zenon DEF MembershipChanges, LoadStreamIDs, AwaitChange, ConsumerReturns, ConsumerFrame, TypeOK
<1>3. loaded' \in [streamIDs : SUBSET Stream, responsible : SUBSET Stream]
  <2>1. CASE LoadStreamIDs
    <3>1. loaded' = [loaded EXCEPT !.streamIDs = StreamIDs]
      BY <2>1, Zenon DEF LoadStreamIDs
    <3>2. StreamIDs \subseteq Stream
      BY Zenon DEF StreamIDs
    <3>. QED
      BY <1>a, <3>1, <3>2, Zenon DEF TypeOK
  <2>2. CASE ~LoadStreamIDs
    BY <1>a, <2>2, Zenon DEF MembershipChanges, AwaitChange, ConsumerReturns, TypeOK
  <2>. QED
    BY <2>1, <2>2, Zenon
<1>4. consumer' = "stopping" => consuming' \subseteq ToConsume'
  BY <1>1, <1>2, Zenon DEF IInv, ToConsume
<1>5. ASSUME NEW s \in Stream, con[s].pc # "none", ~con[s].canceled PROVE s \in consuming
  BY <1>5, Zenon DEF IInv, ConOK, ConFits
<1>6. consuming' \subseteq Stream /\ con' \in [Stream -> ConType]
  BY <1>a, <1>1, Zenon DEF TypeOK
<1>. QED
  BY <1>1, <1>2, <1>3, <1>4, <1>5, <1>6, ConsumerMoves, Zenon

\* reconcile cancels the stream consumers whose entries it removes.
LEMMA LoadMembershipIInv ==
  ASSUME IInv, LoadMembership
  PROVE  IInv'
<1> DEFINE gone == consuming \ (loaded.streamIDs \intersect responsible)
<1>a. TypeOK
  BY Zenon DEF IInv
<1>1. /\ UNCHANGED <<running, discover, conn, catalogVars>> /\ responsible' = responsible
      /\ consumer' = "stopping" /\ loaded' = [loaded EXCEPT !.responsible = responsible]
      /\ con' = [s \in Stream |-> IF s \in gone THEN [con[s] EXCEPT !.canceled = TRUE] ELSE con[s]]
      /\ consuming' = consuming \intersect loaded.streamIDs \intersect responsible
  BY Zenon DEF LoadMembership, ConsumerFrame
<1>2. /\ loaded' \in [streamIDs : SUBSET Stream, responsible : SUBSET Stream]
      /\ loaded'.streamIDs = loaded.streamIDs /\ loaded'.responsible = responsible
  BY <1>a, <1>1, Zenon DEF TypeOK
<1>3. ASSUME NEW s \in Stream
      PROVE  /\ con'[s] \in ConType /\ con'[s].pc = con[s].pc /\ con'[s].feed = con[s].feed
             /\ con'[s].canceled <=> con[s].canceled \/ s \in gone
  <2>1. con[s] \in ConType
    BY <1>a, Zenon DEF TypeOK
  <2>2. CASE s \in gone
    <3>1. con'[s] = [con[s] EXCEPT !.canceled = TRUE]
      BY <1>1, <2>2, Zenon
    <3>. QED
      BY <2>1, <2>2, <3>1, Zenon DEF ConType
  <2>3. CASE s \notin gone
    <3>1. con'[s] = con[s]
      BY <1>1, <2>3, Zenon
    <3>. QED
      BY <2>1, <2>3, <3>1, Zenon
  <2>. QED
    BY <2>2, <2>3, Zenon
<1>4. con' \in [Stream -> ConType]
  <2>1. con' = [s \in Stream |-> con'[s]]
    BY <1>1, Zenon
  <2>. QED
    BY <1>3, <2>1, Zenon
<1>5. ASSUME NEW s \in Stream, con'[s].pc # "none", ~con'[s].canceled
      PROVE  s \in consuming'
  <2>1. con[s].pc # "none" /\ ~con[s].canceled /\ s \notin gone
    BY <1>3, <1>5, Zenon
  <2>2. s \in consuming
    BY <2>1, Zenon DEF IInv, ConOK, ConFits
  <2>. QED
    BY <1>1, <2>1, <2>2, Zenon
<1>6. consuming' \subseteq Stream /\ responsible' \subseteq Stream
  BY <1>a, <1>1, Zenon DEF TypeOK
<1>7. consuming' \subseteq ToConsume'
  BY <1>1, <1>2, Zenon DEF ToConsume
<1>8. consumer' \in {"streams", "members", "stopping", "waiting", "off"}
  BY <1>1
<1> HIDE DEF gone
<1>. QED
  BY <1>1, <1>2, <1>3, <1>4, <1>5, <1>6, <1>7, <1>8, ConsumerMoves, Zenon

\* A stream consumer is started with an entry.
LEMMA ReconcileIInv ==
  ASSUME IInv, Reconcile
  PROVE  IInv'
<1> DEFINE new == ToConsume \ consuming
<1>a. TypeOK
  BY Zenon DEF IInv
<1>1. /\ UNCHANGED <<running, discover, conn, catalogVars>> /\ responsible' = responsible
      /\ consumer = "stopping" /\ consumer' = "waiting" /\ loaded' = loaded
      /\ con' = [s \in Stream |-> IF s \in new THEN Started ELSE con[s]]
      /\ consuming' = ToConsume
  BY Zenon DEF Reconcile, ConsumerFrame
<1>2. Started \in ConType /\ Started.pc = "retry"
  <2>1. NoConsumer \in ConType
    BY Zenon DEF NoConsumer, ConType
  <2>. QED
    BY <2>1, Zenon DEF Started, ConType
<1>3. ToConsume \subseteq Stream /\ consuming \subseteq ToConsume
  BY <1>a, <1>1, Zenon DEF IInv, TypeOK, ToConsume
<1>4. con' \in [Stream -> ConType]
  <2> HIDE DEF new
  <2>. QED
    BY <1>a, <1>1, <1>2, Zenon DEF TypeOK
<1>5. ASSUME NEW s \in Stream
      PROVE  /\ con'[s].pc \in {"consume", "read"} =>
                  con'[s].pc = con[s].pc /\ con'[s].feed = con[s].feed
             /\ con'[s].pc # "none" /\ ~con'[s].canceled => s \in consuming'
  <2>1. CASE s \in new
    <3>1. con'[s] = Started /\ s \in consuming'
      BY <1>1, <2>1, Zenon
    <3>. QED
      BY <1>2, <3>1
  <2>2. CASE s \notin new
    <3>1. con'[s] = con[s]
      BY <1>1, <2>2, Zenon
    <3>2. con[s].pc # "none" /\ ~con[s].canceled => s \in consuming
      BY Zenon DEF IInv, ConOK, ConFits
    <3>. QED
      BY <1>1, <1>3, <3>1, <3>2, Zenon
  <2>. QED
    BY <2>1, <2>2, Zenon
<1>6. /\ consuming' \subseteq Stream /\ responsible' \subseteq Stream
      /\ loaded' \in [streamIDs : SUBSET Stream, responsible : SUBSET Stream]
  BY <1>a, <1>1, <1>3, Zenon DEF TypeOK
<1>7. consumer' \in {"streams", "members", "stopping", "waiting", "off"} /\ consumer' # "stopping"
  BY <1>1
<1> HIDE DEF new
<1>. QED
  BY <1>1, <1>4, <1>5, <1>6, <1>7, ConsumerMoves, Zenon

\* A stream consumer is on no feed, or goes on on the one it is on.
LEMMA ConsumptionIInv ==
  ASSUME IInv, NEW s \in Stream,
         \/ LookUpStream(s) \/ ReadReturns(s) \/ LeaveClosedFeed(s)
         \/ ConsumptionFails(s) \/ StreamConsumerReturns(s)
  PROVE  IInv'
<1>1. con[s] \in ConType /\ ConFits(s, con[s])
  BY Zenon DEF IInv, TypeOK, ConOK
<1>2. NoConsumer \in ConType /\ Started \in ConType
  <2>1. NoConsumer \in ConType
    BY Zenon DEF NoConsumer, ConType
  <2>. QED
    BY <2>1, Zenon DEF Started, ConType
<1>3. \E d \in ConType :
        /\ con' = [con EXCEPT ![s] = d]
        /\ d.pc \in {"retry", "load", "none"} \/ (d.pc = "consume" /\ con[s].pc = "read" /\ d.feed = con[s].feed)
        /\ d.pc # "none" => con[s].pc # "none" /\ (con[s].canceled => d.canceled)
        /\ UNCHANGED <<running, discover, conn, catalogVars, consumerVars>>
  <2>1. CASE LookUpStream(s)
    <3> DEFINE d == [con[s] EXCEPT !.pc = "load", !.stale = FALSE]
    <3>1. /\ con' = [con EXCEPT ![s] = d] /\ con[s].pc = "retry"
          /\ UNCHANGED <<running, discover, conn, catalogVars, consumerVars>>
      BY <2>1, Zenon DEF LookUpStream, Becomes, ConsumptionFrame
    <3>2. d \in ConType /\ d.pc = "load" /\ d.canceled = con[s].canceled
      BY <1>1, Zenon DEF ConType
    <3> HIDE DEF d
    <3>3. d.pc \in {"retry", "load", "none"} /\ con[s].pc # "none"
      BY <3>1, <3>2
    <3>. QED
      BY <3>1, <3>2, <3>3, Zenon
  <2>2. CASE ReadReturns(s)
    <3> DEFINE d == [con[s] EXCEPT !.pc = "consume"]
    <3>1. /\ con' = [con EXCEPT ![s] = d] /\ con[s].pc = "read"
          /\ UNCHANGED <<running, discover, conn, catalogVars, consumerVars>>
      BY <2>2, Zenon DEF ReadReturns, Becomes, ConsumptionFrame
    <3>2. d \in ConType /\ d.pc = "consume" /\ d.canceled = con[s].canceled /\ d.feed = con[s].feed
      BY <1>1, Zenon DEF ConType
    <3> HIDE DEF d
    <3>3. con[s].pc # "none"
      BY <3>1
    <3>. QED
      BY <3>1, <3>2, <3>3, Zenon
  <2>3. CASE LeaveClosedFeed(s)
    <3> DEFINE d == [con[s] EXCEPT !.pc = "load", !.feed = NoFeed]
    <3>1. /\ con' = [con EXCEPT ![s] = d] /\ con[s].pc \in {"consume", "read"}
          /\ UNCHANGED <<running, discover, conn, catalogVars, consumerVars>>
      BY <2>3, Zenon DEF LeaveClosedFeed, Becomes, ConsumptionFrame
    <3>2. d \in ConType /\ d.pc = "load" /\ d.canceled = con[s].canceled
      BY <1>1, Zenon DEF ConType
    <3> HIDE DEF d
    <3>3. d.pc \in {"retry", "load", "none"} /\ con[s].pc # "none"
      BY <3>1, <3>2
    <3>. QED
      BY <3>1, <3>2, <3>3, Zenon
  <2>4. CASE ConsumptionFails(s)
    <3>1. /\ con' = [con EXCEPT ![s] = Started] /\ con[s].pc \in {"consume", "read"}
          /\ ~con[s].canceled
          /\ UNCHANGED <<running, discover, conn, catalogVars, consumerVars>>
      BY <2>4, Zenon DEF ConsumptionFails, Becomes, ConCanceled
    <3>2. Started.pc = "retry"
      BY DEF Started, NoConsumer
    <3>3. Started.pc \in {"retry", "load", "none"} /\ con[s].pc # "none"
      BY <3>1, <3>2
    <3>. QED
      BY <1>2, <3>1, <3>3, Zenon
  <2>5. CASE StreamConsumerReturns(s)
    <3>1. /\ con' = [con EXCEPT ![s] = NoConsumer]
          /\ UNCHANGED <<running, discover, conn, catalogVars, consumerVars>>
      BY <2>5, Zenon DEF StreamConsumerReturns, Becomes, ConsumptionFrame
    <3>2. NoConsumer.pc = "none"
      BY DEF NoConsumer
    <3>3. NoConsumer.pc \in {"retry", "load", "none"}
      BY <3>2
    <3>. QED
      BY <1>2, <3>1, <3>2, <3>3, Zenon
  <2>. QED
    BY <2>1, <2>2, <2>3, <2>4, <2>5, Zenon
<1>4. PICK d \in ConType :
        /\ con' = [con EXCEPT ![s] = d]
        /\ d.pc \in {"retry", "load", "none"} \/ (d.pc = "consume" /\ con[s].pc = "read" /\ d.feed = con[s].feed)
        /\ d.pc # "none" => con[s].pc # "none" /\ (con[s].canceled => d.canceled)
        /\ UNCHANGED <<running, discover, conn, catalogVars, consumerVars>>
  BY <1>3, Zenon
<1>5. d.pc # "read" /\ (d.pc = "consume" => con[s].pc = "read" /\ d.feed = con[s].feed)
  BY <1>4
<1>6. ConFits(s, d)
  BY <1>1, <1>4, <1>5 DEF ConFits
<1>. QED
  BY <1>4, <1>5, <1>6, ConMoves, Zenon

\* Catalog.Consume loads the current feed, which is open.
LEMMA LoadCurrentFeedIInv ==
  ASSUME IInv, NEW s \in Stream, LoadCurrentFeed(s)
  PROVE  IInv'
<1> DEFINE f == IF con[s].stale THEN NoFeed ELSE current[s]
           l == IF f = NoFeed THEN "retry" ELSE "consume"
           d == [con[s] EXCEPT !.pc = l, !.feed = f]
<1>1. con[s] \in ConType /\ ConFits(s, con[s]) /\ ServedOK(s) /\ current[s] \in Conn \union {NoFeed}
  BY Zenon DEF IInv, TypeOK, ConOK
<1>2. /\ con' = [con EXCEPT ![s] = d] /\ con[s].pc = "load"
      /\ UNCHANGED <<running, discover, conn, catalogVars, consumerVars>>
  BY Zenon DEF LoadCurrentFeed, Becomes, ConsumptionFrame
<1>3. f \in Conn \union {NoFeed} /\ (f # NoFeed => f = current[s])
  BY <1>1, Zenon
<1>4. f # NoFeed => f \in Conn /\ feed[f][s] = "open"
  <2>1. current[s] # NoFeed => current[s] \in AvailableFeeds(s)
    BY <1>1, Zenon DEF ServedOK
  <2> HIDE DEF f
  <2>. QED
    BY <1>3, <2>1, Zenon DEF AvailableFeeds
<1> HIDE DEF f
<1>5. l \in {"retry", "consume"} /\ (l = "consume" => f # NoFeed)
  OBVIOUS
<1> HIDE DEF l
<1>6. d \in ConType /\ d.pc = l /\ d.feed = f /\ d.canceled = con[s].canceled
  BY <1>1, <1>3, <1>5, Zenon DEF ConType
<1> HIDE DEF d
<1>7. ConFits(s, d) /\ d.pc # "read"
  BY <1>1, <1>2, <1>4, <1>5, <1>6 DEF ConFits
<1>. QED
  BY <1>2, <1>6, <1>7, ConMoves, Zenon

\* startRead: a feed that is open is that of a connection that is not over.
LEMMA StartReadIInv ==
  ASSUME IInv, NEW s \in Stream, StartRead(s)
  PROVE  IInv'
<1> DEFINE f == con[s].feed
           d == [con[s] EXCEPT !.pc = "read"]
<1>1. con[s] \in ConType /\ ConFits(s, con[s])
  BY Zenon DEF IInv, TypeOK, ConOK
<1>2. /\ con' = [con EXCEPT ![s] = d] /\ con[s].pc = "consume" /\ feed[f][s] # "closed"
      /\ UNCHANGED <<running, discover, conn, catalogVars, consumerVars>>
  BY Zenon DEF StartRead, Becomes, ConsumptionFrame, FeedClosed
<1>3. f \in Conn /\ feed[f][s] # "none"
  BY <1>1, <1>2 DEF ConFits
<1>4. feed[f][s] \in {"none", "open", "closed"} /\ ConnFits(f, conn[f])
  BY <1>3, ZenonT(30) DEF IInv, TypeOK, ConnOK
<1>5. ~Over(conn[f].watch)
  BY <1>2, <1>3, <1>4 DEF ConnFits, Over
<1>6. d \in ConType /\ d.pc = "read" /\ d.feed = f /\ d.canceled = con[s].canceled
  BY <1>1, Zenon DEF ConType
<1> HIDE DEF d, f
<1>7. ConFits(s, d)
  BY <1>1, <1>2, <1>3, <1>6 DEF ConFits, f
<1>. QED
  BY <1>2, <1>5, <1>6, <1>7, ConMoves, Zenon

-------------------------------------------------------------------------------
(***************************************************************************)
(* The invariant and what follows from it.                                 *)
(***************************************************************************)
\* Nothing has been discovered, and nothing is consumed, to begin with.
LEMMA InitIInv == Init => IInv
<1> SUFFICES ASSUME Init PROVE IInv
  OBVIOUS
<1>1. /\ running = TRUE /\ discover = "off" /\ conn = [c \in Conn |-> NewConn]
      /\ feed = [c \in Conn |-> [s \in Stream |-> "none"]] /\ current = [s \in Stream |-> NoFeed]
      /\ responsible = {} /\ consumer = "streams"
      /\ loaded = [streamIDs |-> {}, responsible |-> {}]
      /\ consuming = {} /\ con = [s \in Stream |-> NoConsumer]
  BY Zenon DEF Init
<1>2. NewConn \in ConnType /\ NewConn.watch = "none" /\ ~NewConn.calling
  BY DEF NewConn, ConnType
<1>3. NoConsumer \in ConType /\ NoConsumer.pc = "none"
  BY DEF NoConsumer, ConType
<1>4. loaded \in [streamIDs : SUBSET Stream, responsible : SUBSET Stream]
  BY <1>1, Zenon
<1>5. TypeOK
  BY <1>1, <1>2, <1>3, <1>4, Zenon DEF TypeOK
<1>6. ASSUME NEW c \in Conn PROVE ConnOK(c)
  <2>1. conn[c] = NewConn /\ \A s \in Stream : feed[c][s] = "none" /\ con[s] = NoConsumer
    BY <1>1, Zenon
  <2>. QED
    BY <1>2, <1>3, <2>1 DEF ConnOK, ConnFits, Over
<1>7. ASSUME NEW s \in Stream PROVE ServedOK(s) /\ ConOK(s)
  <2>1. con[s] = NoConsumer /\ current[s] = NoFeed /\ \A c \in Conn : feed[c][s] = "none"
    BY <1>1, Zenon
  <2>2. AvailableFeeds(s) = {}
    BY <2>1 DEF AvailableFeeds
  <2>3. ServedOK(s)
    BY <2>1, <2>2, Zenon DEF ServedOK
  <2>. QED
    BY <1>3, <2>1, <2>3 DEF ConOK, ConFits
<1>8. consumer # "stopping"
  BY <1>1
<1>. QED
  BY <1>5, <1>6, <1>7, <1>8, Zenon DEF IInv

\* Every step of the connector, the catalog and the consumers keeps it.
LEMMA NextIInv == IInv /\ [Next]_vars => IInv'
<1> SUFFICES ASSUME IInv, [Next]_vars PROVE IInv'
  OBVIOUS
<1>1. CASE ConnectorStep \/ DiscovererReturns \/ StopEngine
  BY <1>1, DiscoverIInv, RemoveIInv, Zenon DEF ConnectorStep
<1>2. ASSUME NEW c \in Conn, Add(c) \/ Remove(c) \/ WatchStep(c) PROVE IInv'
  <2>1. CASE Add(c) \/ Remove(c)
    BY <2>1, AddIInv, RemoveIInv, Zenon
  <2>2. CASE CallWatch(c) \/ WatchEnds(c)
    BY <2>2, CallIInv, Zenon
  <2>3. CASE \E s \in Stream : AddFeed(c, s) \/ RemoveFeed(c, s)
    BY <2>3, AddFeedIInv, RemoveFeedIInv, Zenon
  <2>4. CASE WatchCanceled(c) \/ FeedsRemoved(c) \/ WatchReturns(c)
    BY <2>4, WindDownIInv, Zenon
  <2>. QED
    BY <1>2, <2>1, <2>2, <2>3, <2>4, Zenon DEF WatchStep
<1>3. CASE MembershipChanges \/ ConsumerStep
  BY <1>3, ConsumerWaitsIInv, LoadMembershipIInv, ReconcileIInv, Zenon DEF ConsumerStep
<1>4. ASSUME NEW s \in Stream, ConsumptionStep(s) \/ StartRead(s) \/ ConsumptionFails(s)
      PROVE  IInv'
  BY <1>4, ConsumptionIInv, LoadCurrentFeedIInv, StartReadIInv, Zenon DEF ConsumptionStep
<1>5. CASE UNCHANGED vars
  <2>1. /\ running' = running /\ discover' = discover /\ conn' = conn /\ feed' = feed
        /\ current' = current /\ responsible' = responsible /\ consumer' = consumer
        /\ loaded' = loaded /\ consuming' = consuming /\ con' = con
    BY <1>5, Zenon DEF vars, catalogVars, consumerVars
  <2>. QED
    BY <2>1, ZenonT(30) DEF IInv, TypeOK, ConnOK, ConnFits, ServedOK, AvailableFeeds, ConOK, ConFits,
       ToConsume
<1>. QED
  BY <1>1, <1>2, <1>3, <1>4, <1>5, ZenonT(30) DEF Next

(***************************************************************************)
(* What the connector, the catalog and the consumers hold fits together in *)
(* every state the system reaches.                                         *)
(***************************************************************************)
THEOREM ConnectionInvariant == Spec => []IInv
  BY InitIInv, NextIInv, PTL DEF Spec

(***************************************************************************)
(* The remove function that add returns, and discover, return only when no *)
(* call is in progress on the connection: Catalog.Watch removes its feeds  *)
(* once Source.Watch has returned, and returns once the reads that         *)
(* startRead let begin before that have.                                   *)
(***************************************************************************)
THEOREM ConnectionsNotUsedAfterRemove == Spec => []NoUseAfterRemove
<1>1. IInv => NoUseAfterRemove
  <2> SUFFICES ASSUME IInv, NEW c \in Conn, conn[c].handle = "removed" \/ discover = "off"
               PROVE  ~conn[c].calling /\ Reading(c) = {} /\ \A s \in Stream : current[s] # c
    BY Zenon DEF NoUseAfterRemove
  <2>1. ConnFits(c, conn[c])
    BY Zenon DEF IInv, ConnOK
  <2>2. conn[c].watch = "none" \/ conn[c].watch = "stopped"
    BY <2>1 DEF ConnFits, Over
  <2>3. ~conn[c].calling
    BY <2>1, <2>2 DEF ConnFits
  <2>4. Reading(c) = {}
    BY <2>1, <2>2 DEF ConnFits, Over, Reading
  <2>5. ASSUME NEW s \in Stream PROVE current[s] # c
    <3>1. feed[c][s] # "open"
      BY <2>1, <2>2 DEF ConnFits
    <3>2. c \notin AvailableFeeds(s) /\ c # NoFeed
      BY <3>1, RemoteEnginesAssumption, Zenon DEF AvailableFeeds
    <3>. QED
      BY <3>2, Zenon DEF IInv, ServedOK
  <2>. QED
    BY <2>3, <2>4, <2>5, Zenon
<1>. QED
  BY <1>1, ConnectionInvariant, PTL

(***************************************************************************)
(* Catalog.add and Catalog.remove keep CurrentFeed at a feed that is open, *)
(* as long as the stream has one.                                          *)
(***************************************************************************)
THEOREM StreamsServedWhileAvailable == Spec => []ServedWhileAvailable
<1>1. IInv => ServedWhileAvailable
  BY Zenon DEF IInv, ServedOK, ServedWhileAvailable
<1>. QED
  BY <1>1, ConnectionInvariant, PTL

\* A stream consumer that was canceled either goes on canceled or returns.
LEMMA CanceledStays ==
  ASSUME IInv, Next, NEW s \in Stream, con[s].pc # "none", con[s].canceled
  PROVE  con'[s].pc = "none" \/ con'[s].canceled
<1>a. con \in [Stream -> ConType] /\ con[s] \in ConType
  BY Zenon DEF IInv, TypeOK
<1>1. CASE con' = con
  BY <1>1, Zenon
<1>2. ASSUME NEW c \in Conn, NEW t \in Stream, RemoveFeed(c, t)
      PROVE  con'[s].canceled
  <2>1. con' = con \/ con' = [con EXCEPT ![t].stale = TRUE]
    BY <1>2, Zenon DEF RemoveFeed
  <2>2. CASE con' = [con EXCEPT ![t].stale = TRUE]
    <3>1. con'[s] = con[s] \/ con'[s] = [con[s] EXCEPT !.stale = TRUE]
      BY <1>a, <2>2, Zenon
    <3>2. [con[s] EXCEPT !.stale = TRUE].canceled = con[s].canceled
      BY <1>a, Zenon DEF ConType
    <3>. QED
      BY <3>1, <3>2, Zenon
  <2>. QED
    BY <2>1, <2>2, Zenon
<1>3. CASE LoadMembership
  <2>1. con'[s] = con[s] \/ con'[s] = [con[s] EXCEPT !.canceled = TRUE]
    BY <1>3, Zenon DEF LoadMembership
  <2>2. [con[s] EXCEPT !.canceled = TRUE].canceled = TRUE
    BY <1>a, Zenon DEF ConType
  <2>. QED
    BY <2>1, <2>2, Zenon
<1>4. CASE Reconcile
  BY <1>4, Zenon DEF Reconcile
<1>5. ASSUME NEW t \in Stream, ConsumptionStep(t) \/ StartRead(t) \/ ConsumptionFails(t)
      PROVE  con'[s].pc = "none" \/ con'[s].canceled
  <2>a. con[t] \in ConType
    BY <1>a, Zenon
  <2>1. \E d : /\ con' = [con EXCEPT ![t] = d]
               /\ con[t].canceled => d.pc = "none" \/ d.canceled
    <3>1. CASE LookUpStream(t) \/ LeaveClosedFeed(t) \/ ConsumptionFails(t)
      BY <3>1, Zenon DEF LookUpStream, LeaveClosedFeed, ConsumptionFails, Becomes, ConCanceled
    <3>2. CASE LoadCurrentFeed(t)
      <4>1. PICK l, f : con' = [con EXCEPT ![t] = [con[t] EXCEPT !.pc = l, !.feed = f]]
        BY <3>2, Zenon DEF LoadCurrentFeed, Becomes
      <4>2. [con[t] EXCEPT !.pc = l, !.feed = f].canceled = con[t].canceled
        BY <2>a, Zenon DEF ConType
      <4>. DEFINE d == [con[t] EXCEPT !.pc = l, !.feed = f]
      <4>3. con' = [con EXCEPT ![t] = d] /\ d.canceled = con[t].canceled
        BY <4>1, <4>2, Zenon
      <4>. HIDE DEF d
      <4>. QED
        BY <4>3, Zenon
    <3>3. CASE ReadReturns(t)
      <4>. DEFINE d == [con[t] EXCEPT !.pc = "consume"]
      <4>1. con' = [con EXCEPT ![t] = d] /\ d.canceled = con[t].canceled
        BY <2>a, <3>3, Zenon DEF ReadReturns, Becomes, ConType
      <4>. HIDE DEF d
      <4>. QED
        BY <4>1, Zenon
    <3>4. CASE StreamConsumerReturns(t)
      <4>1. con' = [con EXCEPT ![t] = NoConsumer]
        BY <3>4, Zenon DEF StreamConsumerReturns, Becomes
      <4>2. NoConsumer.pc = "none"
        BY DEF NoConsumer
      <4>. QED
        BY <4>1, <4>2, Zenon
    <3>5. CASE StartRead(t)
      <4>. DEFINE d == [con[t] EXCEPT !.pc = "read"]
      <4>1. con' = [con EXCEPT ![t] = d] /\ d.canceled = con[t].canceled
        BY <2>a, <3>5, Zenon DEF StartRead, Becomes, ConType
      <4>. HIDE DEF d
      <4>. QED
        BY <4>1, Zenon
    <3>. QED
      BY <1>5, <3>1, <3>2, <3>3, <3>4, <3>5, Zenon DEF ConsumptionStep
  <2>2. CASE t # s
    BY <1>a, <2>1, <2>2, Zenon
  <2>3. CASE t = s
    BY <1>a, <2>1, <2>3, Zenon
  <2>. QED
    BY <2>2, <2>3, Zenon
<1>. QED
  BY <1>1, <1>2, <1>3, <1>4, <1>5, Zenon DEF Next, ConnectorStep, StartDiscover, DiscoverReturns,
     RemoveReturns, DiscovererReturns, Add, Remove, WatchStep, CallWatch, WatchEnds, AddFeed,
     WatchCanceled, FeedsRemoved, WatchReturns, MembershipChanges, ConsumerStep, LoadStreamIDs,
     AwaitChange, ConsumerReturns, StopEngine

(***************************************************************************)
(* reconcile waits for the stream consumers it has canceled, so that none  *)
(* of them is ever replaced by another of the same stream.                 *)
(***************************************************************************)
THEOREM ConsumersNeverTwice == Spec => NeverTwiceOnOneNode
<1>1. IInv /\ [Next]_vars =>
        [\A s \in Stream : (con[s].pc # "none" /\ con[s].canceled)
           => (con'[s].pc = "none" \/ con'[s].canceled)]_vars
  BY CanceledStays, Zenon
<1>. QED
  BY <1>1, ConnectionInvariant, PTL DEF Spec, NeverTwiceOnOneNode

(***************************************************************************)
(* A stream consumer that reconcile starts takes the place of none at all, *)
(* canceled or not: one that was not canceled has an entry in              *)
(* stopStreamConsumer, and reconcile starts none for a stream with one.    *)
(***************************************************************************)
StartsWhereNoneIs ==
  Reconcile => \A s \in ToConsume \ consuming : con[s].pc = "none"

\* StartsWhereNoneIs, of every step.
THEOREM ConsumersStartWhereNoneIs == Spec => [][StartsWhereNoneIs]_vars
<1>1. IInv => StartsWhereNoneIs
  <2> SUFFICES ASSUME IInv, Reconcile, NEW s \in ToConsume, s \notin consuming
               PROVE  con[s].pc = "none"
    BY Zenon DEF StartsWhereNoneIs
  <2>1. s \in Stream
    BY Zenon DEF IInv, TypeOK, ToConsume
  <2>2. con[s].canceled => con[s].pc = "none"
    BY <2>1, Zenon DEF Reconcile
  <2>3. con[s].pc # "none" => con[s].canceled
    BY <2>1, Zenon DEF IInv, ConOK, ConFits
  <2>. QED
    BY <2>2, <2>3, Zenon
<1>. QED
  BY <1>1, ConnectionInvariant, PTL
==============================================================================
