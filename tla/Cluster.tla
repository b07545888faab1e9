------------------------------- MODULE Cluster -------------------------------
(***************************************************************************)
(* The nodes of a cluster (internal/cluster): each sends heartbeats over   *)
(* the signal bus, records the ones it receives, and publishes the set of  *)
(* nodes it considers live.  Responsibility for a workload is decided from *)
(* that set alone, by rendezvous hashing.                                  *)
(*                                                                         *)
(* An engine generates a new node ID each time it is created, so a member  *)
(* of Node runs at most once; a restart is the start of another member.    *)
(*                                                                         *)
(* Time is discrete and relative: what is recorded of an instant is its    *)
(* age, capped at MaxAge, where nothing tells ages apart any more.         *)
(* Time passes between steps of a node only when the node has nothing to   *)
(* do; each exception, a node that is held up, counts as a fault.          *)
(*                                                                         *)
(* Where Node.Run has got to (at[n]):                                      *)
(*   off      not started                                                  *)
(*   first    about to send the first heartbeat                            *)
(*   loop     in the select statement                                      *)
(*   reply    about to reply to a node that has joined                     *)
(*   drain    in drainHeartbeats                                           *)
(*   answer   about to reply to a node that has joined, in drainHeartbeats *)
(*   stopped  returned, or crashed                                         *)
(***************************************************************************)
EXTENDS Integers, FiniteSets, Sequences, Functions

CONSTANTS
  Node,
  NoID,        \* a signal on the heartbeat topic that carries no node ID
  Workload,
  Score,       \* the hash of each workload with each node's ID
  Rank,        \* the order of the node IDs
  Interval,    \* time between the ticks of a node
  Timeout,     \* time without a heartbeat after which a node is removed
  BufferSize,  \* capacity of the channel the heartbeats arrive on
  MaxFaults    \* bound on crashes, stops, lost connections, failed sends and hold-ups

\* The last two conjuncts are the panics at the top of Node.Run.
ASSUME ClusterAssumption ==
  /\ Score \in [Workload -> [Node -> Nat]]
  /\ Rank \in [Node -> Nat] /\ IsInjective(Rank)
  /\ BufferSize \in Nat \ {0}
  /\ NoID \notin Node
  /\ MaxFaults \in Nat
  /\ Interval \in Nat \ {0}
  /\ Timeout \in Nat /\ Timeout > Interval

VARIABLES
  at,          \* where each node's Run has got to
  heartbeats,  \* the age of the last heartbeat each node has recorded of others
  channel,     \* the signals waiting to be read
  listening,   \* the nodes whose bus has LISTEN active
  countdown,   \* time until the ticker fires
  ticked,      \* the nodes whose ticker has fired
  membership,  \* the live nodes each node has published
  arrived,     \* history: the age of the last heartbeat to enter each channel
  faults

vars == <<at, heartbeats, channel, listening, countdown, ticked, membership, arrived,
          faults>>

MaxAge == Timeout + Interval
Older(a) == IF a = MaxAge THEN a ELSE a + 1

Running == {n \in Node : at[n] \notin {"off", "stopped"}}

Fault == faults < MaxFaults /\ faults' = faults + 1

(***************************************************************************)
(* Membership.LocalNodeIsResponsibleFor, for node n with the given view:   *)
(* the highest score wins, ties go to the lower ID, and a node that cannot *)
(* hear itself is responsible for nothing.                                 *)
(***************************************************************************)
LocalNodeIsResponsibleFor(n, view, w) ==
  /\ n \in view
  /\ \A p \in view \ {n} :
       \/ Score[w][p] < Score[w][n]
       \/ Score[w][p] = Score[w][n] /\ Rank[p] > Rank[n]

-------------------------------------------------------------------------------

(***************************************************************************)
(* The signal bus.  Bus.Send reaches every connection that listens, and    *)
(* dispatch drops the signal where the channel is full.  Once LISTEN is    *)
(* active, wake delivers a signal without a node ID, unless the channel is *)
(* full.                                                                   *)
(***************************************************************************)
Receives(n) == n \in listening \intersect Running /\ Len(channel[n]) < BufferSize

Send(m) ==
  /\ channel' = [n \in Node |-> IF Receives(n) THEN Append(channel[n], m) ELSE channel[n]]
  /\ arrived' = [n \in Node |-> IF Receives(n) THEN [arrived[n] EXCEPT ![m] = 0]
                                               ELSE arrived[n]]

Listen(n) ==
  /\ n \in Running \ listening
  /\ listening' = listening \union {n}
  /\ channel' = [channel EXCEPT ![n] = IF Len(@) < BufferSize THEN Append(@, NoID) ELSE @]
  /\ UNCHANGED <<at, heartbeats, countdown, ticked, membership, arrived, faults>>

ConnectionLost(n) ==
  /\ n \in listening
  /\ Fault
  /\ listening' = listening \ {n}
  /\ UNCHANGED <<at, heartbeats, channel, countdown, ticked, membership, arrived>>

-------------------------------------------------------------------------------

(***************************************************************************)
(* sendHeartbeat.  It may fail, which is logged.                           *)
(***************************************************************************)
SendHeartbeat(n) ==
  \/ Send(n) /\ UNCHANGED faults
  \/ Fault /\ UNCHANGED <<channel, arrived>>

(***************************************************************************)
(* recordHeartbeat: a heartbeat is recorded at the time it is read.  A     *)
(* signal without a node ID is not a heartbeat, and is ignored.            *)
(***************************************************************************)
\* Seeded fault: only the first heartbeat of a node is recorded.
RecordedOnce(beats, m) ==
  [p \in (DOMAIN beats \union {m}) \ {NoID} |-> IF p \in DOMAIN beats THEN beats[p] ELSE 0]

Recorded(beats, m) ==
  [p \in (DOMAIN beats \union {m}) \ {NoID} |-> IF p = m THEN 0 ELSE beats[p]]

Joined(n, m) == m \notin DOMAIN heartbeats[n] \union {n, NoID}

(***************************************************************************)
(* publishMembershipChange: the set of live nodes, which includes the node *)
(* itself only if it has heard its own heartbeat.                          *)
(***************************************************************************)
Publish(n, beats) == membership' = [membership EXCEPT ![n] = DOMAIN beats]

(***************************************************************************)
(* Run up to its loop: the watch, whose channel holds a signal without a   *)
(* node ID from the start, and the ticker; then the first heartbeat.       *)
(***************************************************************************)
Start(n) ==
  /\ at[n] = "off"
  /\ at' = [at EXCEPT ![n] = "first"]
  /\ channel' = [channel EXCEPT ![n] = <<NoID>>]
  /\ countdown' = [countdown EXCEPT ![n] = Interval]
  /\ UNCHANGED <<heartbeats, listening, ticked, membership, arrived, faults>>

Announce(n) ==
  /\ at[n] = "first"
  /\ SendHeartbeat(n)
  /\ at' = [at EXCEPT ![n] = "loop"]
  /\ UNCHANGED <<heartbeats, listening, countdown, ticked, membership>>

(***************************************************************************)
(* The loop receives a heartbeat (handleHeartbeat).  A node that joins is  *)
(* replied to before the change is published, the node's own first         *)
(* heartbeat is not, and a heartbeat of a live node changes no membership. *)
(***************************************************************************)
ReceiveHeartbeat(n) ==
  /\ at[n] = "loop"
  /\ channel[n] # <<>>
  /\ channel' = [channel EXCEPT ![n] = Tail(@)]
  /\ LET m == Head(channel[n]) IN
     /\ heartbeats' = [heartbeats EXCEPT ![n] = Recorded(@, m)]
     /\ at' = [at EXCEPT ![n] = IF Joined(n, m) THEN "reply" ELSE @]
     /\ IF m = n /\ n \notin DOMAIN heartbeats[n]
        THEN Publish(n, Recorded(heartbeats[n], m)) ELSE UNCHANGED membership
  /\ UNCHANGED <<listening, countdown, ticked, arrived, faults>>

Reply(n) ==
  /\ at[n] = "reply"
  /\ SendHeartbeat(n)
  /\ Publish(n, heartbeats[n])
  /\ at' = [at EXCEPT ![n] = "loop"]
  /\ UNCHANGED <<heartbeats, listening, countdown, ticked>>

(***************************************************************************)
(* The loop receives a tick and sends a heartbeat.                         *)
(***************************************************************************)
Tick(n) ==
  /\ at[n] = "loop"
  /\ n \in ticked
  /\ ticked' = ticked \ {n}
  /\ SendHeartbeat(n)
  /\ at' = [at EXCEPT ![n] = "drain"]
  /\ UNCHANGED <<heartbeats, listening, countdown, membership>>

(***************************************************************************)
(* drainHeartbeats handles the heartbeats that are waiting.                *)
(***************************************************************************)
DrainHeartbeat(n) ==
  /\ at[n] = "drain"
  /\ channel[n] # <<>>
  /\ channel' = [channel EXCEPT ![n] = Tail(@)]
  /\ LET m == Head(channel[n]) IN
     /\ heartbeats' = [heartbeats EXCEPT ![n] = Recorded(@, m)]
     /\ at' = [at EXCEPT ![n] = IF Joined(n, m) THEN "answer" ELSE @]
  /\ UNCHANGED <<listening, countdown, ticked, membership, arrived, faults>>

Answer(n) ==
  /\ at[n] = "answer"
  /\ SendHeartbeat(n)
  /\ at' = [at EXCEPT ![n] = "drain"]
  /\ UNCHANGED <<heartbeats, listening, countdown, ticked, membership>>

(***************************************************************************)
(* drainHeartbeats finds nothing more, and expireNodes follows, with no    *)
(* call that may block in between; a heartbeat that arrives between the    *)
(* two waits in the channel, as if it had arrived after them.  What        *)
(* drainHeartbeats and expireNodes have changed is published.              *)
(***************************************************************************)
Kept(n) == {m \in DOMAIN heartbeats[n] : heartbeats[n][m] <= Timeout}

\* Seeded fault: the channel is not drained first.
ExpireUndrained(n) ==
  /\ at[n] = "drain"
  /\ heartbeats' = [heartbeats EXCEPT ![n] = Restrict(@, Kept(n))]
  /\ Publish(n, Restrict(heartbeats[n], Kept(n)))
  /\ at' = [at EXCEPT ![n] = "loop"]
  /\ UNCHANGED <<channel, listening, countdown, ticked, arrived, faults>>

\* Seeded fault: the nodes that drainHeartbeats added are published, not the
\* removal of the others.
ExpireUnpublished(n) ==
  /\ at[n] = "drain"
  /\ channel[n] = <<>>
  /\ heartbeats' = [heartbeats EXCEPT ![n] = Restrict(@, Kept(n))]
  /\ Publish(n, heartbeats[n])
  /\ at' = [at EXCEPT ![n] = "loop"]
  /\ UNCHANGED <<channel, listening, countdown, ticked, arrived, faults>>

Expire(n) ==
  /\ at[n] = "drain"
  /\ channel[n] = <<>>
  /\ heartbeats' = [heartbeats EXCEPT ![n] = Restrict(@, Kept(n))]
  /\ Publish(n, Restrict(heartbeats[n], Kept(n)))
  /\ at' = [at EXCEPT ![n] = "loop"]
  /\ UNCHANGED <<channel, listening, countdown, ticked, arrived, faults>>

(***************************************************************************)
(* Run returns because it is canceled, or the process ends.  A stopped     *)
(* node publishes a membership without live nodes.                         *)
(***************************************************************************)
Stop(n) ==
  /\ n \in Running
  /\ Fault
  /\ at' = [at EXCEPT ![n] = "stopped"]
  /\ heartbeats' = [heartbeats EXCEPT ![n] = <<>>]
  /\ channel' = [channel EXCEPT ![n] = <<>>]
  /\ listening' = listening \ {n}
  /\ countdown' = [countdown EXCEPT ![n] = Interval]
  /\ ticked' = ticked \ {n}
  /\ membership' = [membership EXCEPT ![n] = {}]
  /\ arrived' = [arrived EXCEPT ![n] = [m \in Node |-> MaxAge]]

(***************************************************************************)
(* Time passes, and with it the tickers; a tick that was not received yet  *)
(* absorbs the next.                                                       *)
(***************************************************************************)
Idle(n) == at[n] = "loop" /\ channel[n] = <<>> /\ n \notin ticked
CaughtUp(n) == Idle(n) /\ n \in listening

PassTime ==
  /\ \/ (\A n \in Running : CaughtUp(n)) /\ UNCHANGED faults
     \/ ~(\A n \in Running : CaughtUp(n)) /\ Fault
  /\ heartbeats' = [n \in Node |-> [m \in DOMAIN heartbeats[n] |-> Older(heartbeats[n][m])]]
  /\ arrived' = [n \in Node |-> [m \in Node |-> Older(arrived[n][m])]]
  /\ ticked' = ticked \union {n \in Running : countdown[n] = 1}
  /\ countdown' = [n \in Node |-> IF n \notin Running THEN countdown[n]
                                  ELSE IF countdown[n] = 1 THEN Interval
                                  ELSE countdown[n] - 1]
  /\ UNCHANGED <<at, channel, listening, membership>>

NodeStep(n) ==
  \/ Announce(n)
  \/ ReceiveHeartbeat(n)
  \/ Reply(n)
  \/ Tick(n)
  \/ DrainHeartbeat(n)
  \/ Answer(n)
  \/ Expire(n)

Init ==
  /\ at = [n \in Node |-> "off"]
  /\ heartbeats = [n \in Node |-> <<>>]
  /\ channel = [n \in Node |-> <<>>]
  /\ listening = {}
  /\ countdown = [n \in Node |-> Interval]
  /\ ticked = {}
  /\ membership = [n \in Node |-> {}]
  /\ arrived = [n \in Node |-> [m \in Node |-> MaxAge]]
  /\ faults = 0

Next ==
  \/ \E n \in Node :
       Start(n) \/ Stop(n) \/ NodeStep(n) \/ Listen(n) \/ ConnectionLost(n)
  \/ PassTime

Spec == Init /\ [][Next]_vars

(***************************************************************************)
(* Fairness: the goroutines of a running node get to run, its bus          *)
(* reconnects, and time passes.  No node need start, stop or fail.         *)
(***************************************************************************)
Fairness ==
  /\ \A n \in Node : WF_vars(NodeStep(n)) /\ WF_vars(Listen(n))
  /\ WF_vars(PassTime)

FairSpec == Spec /\ Fairness

-------------------------------------------------------------------------------

(***************************************************************************)
(* A node is removed from another's view only when none of its heartbeats  *)
(* reached that node's channel within the timeout: a hold-up of the        *)
(* observer, however long, does not remove a node whose heartbeats are     *)
(* waiting (the comment on drainHeartbeats, which no test covers).         *)
(***************************************************************************)
NoHastyRemoval ==
  [][\A n, m \in Node :
       /\ n \in Running /\ at'[n] # "stopped"
       /\ m \in DOMAIN heartbeats[n] \ DOMAIN heartbeats'[n]
       => arrived[n][m] > Timeout]_vars

(***************************************************************************)
(* A node that is not held up has published no member, itself included,    *)
(* whose last recorded heartbeat is as old as the timeout and one          *)
(* interval: by then a node that crashed is out of every membership, and   *)
(* a node that cannot hear itself is responsible for nothing.              *)
(***************************************************************************)
SilenceNoticed ==
  \A n \in Node : Idle(n) =>
    \A m \in membership[n] :
      m \in DOMAIN heartbeats[n] /\ heartbeats[n][m] < Timeout + Interval

IsResponsible(n, w) == LocalNodeIsResponsibleFor(n, membership[n], w)

(***************************************************************************)
(* Nodes start, stop, crash and are held up, heartbeats and connections    *)
(* are lost.  Two nodes that have each other in the membership they have   *)
(* published are never both responsible for a workload, whatever the       *)
(* scores.  Once the failures end the memberships agree: from some time on *)
(* each workload is the responsibility of exactly one running node, the    *)
(* same one for ever.                                                      *)
(***************************************************************************)
WorkloadsSharedOut ==
  /\ [](\A w \in Workload : \A n, m \in Node :
          (n # m /\ m \in membership[n] /\ n \in membership[m])
            => ~(IsResponsible(n, w) /\ IsResponsible(m, w)))
  /\ \A w \in Workload :
       \/ <>[](Running = {})
       \/ \E n \in Node : <>[](\A m \in Node : IsResponsible(m, w) <=> m = n)
==============================================================================
