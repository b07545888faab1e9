------------------------------ MODULE SignalBus ------------------------------
(***************************************************************************)
(* The signal bus (internal/signal), for one topic with one subscriber on  *)
(* each node.  A signal is a PostgreSQL notification: it is delivered only *)
(* to the connections that are listening when it is sent, and is lost with *)
(* the connection that carries it.  A subscriber's channel has capacity 1, *)
(* so it is modelled by whether it is full.  The notifications on their    *)
(* way to a node are all alike and each leaves the channel full, so only   *)
(* whether there are any is recorded.                                      *)
(***************************************************************************)
CONSTANT Node

VARIABLES
  listening,   \* the nodes whose connection has LISTEN active
  inFlight,    \* the nodes with a notification on the way
  subscribed,  \* the nodes whose subscriber is registered
  pending      \* the nodes whose subscriber's channel is full

busVars == <<listening, inFlight, subscribed, pending>>

(***************************************************************************)
(* The pg_notify() of a transaction that commits.                          *)
(***************************************************************************)
Notify ==
  /\ inFlight' = inFlight \union listening
  /\ UNCHANGED <<listening, subscribed, pending>>

(***************************************************************************)
(* dispatch: the channel of a subscriber receives the signal; when it is   *)
(* full already the signal is dropped.                                     *)
(***************************************************************************)
Dispatch(n) ==
  /\ n \in inFlight
  /\ inFlight' \in {inFlight, inFlight \ {n}}
  /\ pending' = pending \union ({n} \intersect subscribed)
  /\ UNCHANGED <<listening, subscribed>>

(***************************************************************************)
(* run: once LISTEN is active every subscriber is woken, as it may have    *)
(* missed a signal.  The connection may be lost at any time after that.    *)
(***************************************************************************)
\* Seeded fault: run() does not call wake().
ListenWithoutWake(n) ==
  /\ n \notin listening
  /\ listening' = listening \union {n}
  /\ UNCHANGED <<inFlight, subscribed, pending>>

Listen(n) ==
  /\ n \notin listening
  /\ listening' = listening \union {n}
  /\ pending' = pending \union ({n} \intersect subscribed)
  /\ UNCHANGED <<inFlight, subscribed>>

ConnectionLost(n) ==
  /\ n \in listening
  /\ listening' = listening \ {n}
  /\ inFlight' = inFlight \ {n}
  /\ UNCHANGED <<subscribed, pending>>

(***************************************************************************)
(* Watch fills the new channel straight away; receiving from the channel   *)
(* empties it; the stop function unregisters the subscriber.               *)
(***************************************************************************)
Subscribe(n) ==
  /\ subscribed' = subscribed \union {n}
  /\ pending' = pending \union {n}
  /\ UNCHANGED <<listening, inFlight>>

Receive(n) ==
  /\ n \in pending
  /\ pending' = pending \ {n}
  /\ UNCHANGED <<listening, inFlight, subscribed>>

Unsubscribe(n) ==
  /\ subscribed' = subscribed \ {n}
  /\ pending' = pending \ {n}
  /\ UNCHANGED <<listening, inFlight>>

BusInit ==
  /\ listening = {}
  /\ inFlight = {}
  /\ subscribed = {}
  /\ pending = {}

==============================================================================
