---------------------------- MODULE ClusterProofs -----------------------------
(***************************************************************************)
(* The safety properties of the cluster's membership, for any number of    *)
(* nodes and workloads, any scores, any interval and timeout, any size of  *)
(* the channels and any number of faults.                                  *)
(***************************************************************************)
EXTENDS Cluster, FiniteSetTheorems, SequenceTheorems, WellFoundedInduction, TLAPS

Age == 0 .. MaxAge

\* Heartbeats of some nodes.
Beats == UNION {[S -> Age] : S \in SUBSET Node}

TypeOK ==
  /\ at \in [Node -> {"off", "first", "loop", "reply", "drain", "answer", "stopped"}]
  /\ heartbeats \in [Node -> Beats]
  /\ channel \in [Node -> Seq(Node \union {NoID})]
  /\ listening \subseteq Node
  /\ countdown \in [Node -> 1 .. Interval]
  /\ ticked \subseteq Node
  /\ membership \in [Node -> SUBSET Node]
  /\ arrived \in [Node -> [Node -> Age]]

\* A heartbeat of m waits in the channel of n.
Holds(s, m) == \E i \in 1 .. Len(s) : s[i] = m
Waits(n, m) == Holds(channel[n], m)

(***************************************************************************)
(* A heartbeat is recorded when it is read, which is after it arrived, so  *)
(* the last one that was recorded is no older than the last one to arrive, *)
(* unless that one is still waiting.                                       *)
(***************************************************************************)
Heard(n) == \A m \in DOMAIN heartbeats[n] : ~Waits(n, m) => heartbeats[n][m] <= arrived[n][m]

(***************************************************************************)
(* Outside of the handling of a tick, and with none to handle, every       *)
(* recorded heartbeat will be within the timeout and one interval at the   *)
(* next tick.                                                              *)
(***************************************************************************)
Timely(n) ==
  at[n] \in {"first", "loop", "reply"} /\ n \notin ticked =>
    \A m \in DOMAIN heartbeats[n] : heartbeats[n][m] + countdown[n] <= MaxAge

\* A node has published only nodes it has a heartbeat of, and a node that does
\* not run has none.
Published(n) ==
  /\ membership[n] \subseteq DOMAIN heartbeats[n]
  /\ at[n] \in {"off", "stopped"} => DOMAIN heartbeats[n] = {}

IInv ==
  /\ TypeOK
  /\ \A n \in Node : Heard(n) /\ Timely(n) /\ Published(n)


-------------------------------------------------------------------------------
(* The operators.                                                          *)

\* The constants of time.
LEMMA Times ==
  /\ Interval \in Nat /\ Interval >= 1 /\ Timeout \in Nat
  /\ MaxAge \in Nat /\ MaxAge = Timeout + Interval
  BY ClusterAssumption DEF MaxAge

\* Heartbeats are a function from nodes to ages.
LEMMA BeatsFacts ==
  ASSUME NEW b \in Beats
  PROVE  /\ DOMAIN b \subseteq Node
         /\ \A m \in DOMAIN b : b[m] \in Age /\ b[m] \in Nat /\ b[m] <= MaxAge
<1>1. PICK S \in SUBSET Node : b \in [S -> Age]
  BY Zenon DEF Beats
<1>2. DOMAIN b = S /\ \A m \in S : b[m] \in Age
  BY <1>1, Zenon
<1>3. \A a \in Age : a \in Nat /\ a <= MaxAge
  BY Times DEF Age
<1>. QED
  BY <1>2, <1>3, Zenon

\* A function from some nodes to ages is a value of heartbeats.
LEMMA BeatsIntro ==
  ASSUME NEW S, S \subseteq Node, NEW b \in [S -> Age]
  PROVE  b \in Beats
  BY Zenon DEF Beats

\* A node that does not run has no heartbeats.
LEMMA NoBeats == <<>> \in Beats /\ DOMAIN <<>> = {}
<1>1. <<>> \in [{} -> Age]
  OBVIOUS
<1>. QED
  BY <1>1, BeatsIntro, Zenon

\* recordHeartbeat adds the node with a new heartbeat, and leaves the others.
LEMMA RecordedFacts ==
  ASSUME NEW b \in Beats, NEW m \in Node \union {NoID}
  PROVE  /\ Recorded(b, m) \in Beats
         /\ DOMAIN b \subseteq DOMAIN Recorded(b, m)
         /\ \A p \in DOMAIN Recorded(b, m) :
              \/ p = m /\ Recorded(b, m)[p] = 0
              \/ p # m /\ p \in DOMAIN b /\ Recorded(b, m)[p] = b[p]
<1> DEFINE D == (DOMAIN b \union {m}) \ {NoID}
<1>1. DOMAIN b \subseteq Node /\ \A p \in DOMAIN b : b[p] \in Age
  BY BeatsFacts
<1>2. NoID \notin Node
  BY ClusterAssumption, Zenon
<1>3. 0 \in Age
  BY Times DEF Age
<1>4. D \subseteq Node /\ DOMAIN b \subseteq D
  BY <1>1, <1>2, Zenon
<1>5. Recorded(b, m) = [p \in D |-> IF p = m THEN 0 ELSE b[p]]
  BY Zenon DEF Recorded
<1>6. \A p \in D : p # m => p \in DOMAIN b
  BY Zenon
<1> HIDE DEF D
<1>7. Recorded(b, m) \in [D -> Age]
  BY <1>1, <1>3, <1>5, <1>6
<1>8. DOMAIN Recorded(b, m) = D
  BY <1>5, Zenon
<1>9. \A p \in D : Recorded(b, m)[p] = IF p = m THEN 0 ELSE b[p]
  BY <1>5, Zenon
<1>. QED
  BY <1>4, <1>6, <1>7, <1>8, <1>9, BeatsIntro, Zenon

\* expireNodes keeps the nodes that were heard within the timeout.
LEMMA KeptFacts ==
  ASSUME NEW n \in Node, heartbeats[n] \in Beats
  PROVE  /\ Restrict(heartbeats[n], Kept(n)) \in Beats
         /\ DOMAIN Restrict(heartbeats[n], Kept(n)) = Kept(n)
         /\ Kept(n) \subseteq DOMAIN heartbeats[n]
         /\ \A m \in Kept(n) : /\ Restrict(heartbeats[n], Kept(n))[m] = heartbeats[n][m]
                               /\ heartbeats[n][m] <= Timeout
<1>1. /\ DOMAIN heartbeats[n] \subseteq Node
      /\ \A p \in DOMAIN heartbeats[n] : heartbeats[n][p] \in Age
  BY BeatsFacts
<1>2. /\ Kept(n) \subseteq DOMAIN heartbeats[n]
      /\ \A m \in Kept(n) : heartbeats[n][m] <= Timeout
  BY Zenon DEF Kept
<1> DEFINE K == Kept(n)
           r == Restrict(heartbeats[n], Kept(n))
<1>3. r = [x \in K |-> heartbeats[n][x]]
  BY Zenon DEF Restrict
<1> HIDE DEF K, r
<1>4. K \subseteq Node /\ \A x \in K : heartbeats[n][x] \in Age
  BY <1>1, <1>2, Zenon DEF K
<1>5. r \in [K -> Age] /\ DOMAIN r = K /\ \A x \in K : r[x] = heartbeats[n][x]
  BY <1>3, <1>4, Zenon
<1>6. r \in Beats
  BY <1>4, <1>5, BeatsIntro, Zenon
<1>. QED
  BY <1>2, <1>5, <1>6, Zenon DEF K, r

\* Ages grow up to the cap, and keep their order.
LEMMA OlderFacts ==
  /\ \A a \in Age : Older(a) \in Age /\ (a < MaxAge => Older(a) = a + 1)
  /\ \A a, b \in Age : a <= b => Older(a) <= Older(b)
  BY Times DEF Older, Age

-------------------------------------------------------------------------------
(* The channels.                                                           *)

Signal == Node \union {NoID}

\* A signal that is added to a channel waits there after the others.
LEMMA AppendWaits ==
  ASSUME NEW s \in Seq(Signal), NEW m \in Signal
  PROVE  /\ Append(s, m) \in Seq(Signal)
         /\ Holds(Append(s, m), m)
         /\ \A p : Holds(s, p) => Holds(Append(s, m), p)
<1>1. /\ Append(s, m) \in Seq(Signal)
      /\ Len(Append(s, m)) = Len(s) + 1
      /\ \A i \in 1 .. Len(s) : Append(s, m)[i] = s[i]
      /\ Append(s, m)[Len(s) + 1] = m
  BY AppendProperties
<1>2. Len(s) \in Nat
  OBVIOUS
<1>3. Len(s) + 1 \in 1 .. Len(Append(s, m))
  BY <1>1, <1>2
<1>4. \A i \in 1 .. Len(s) : i \in 1 .. Len(Append(s, m))
  BY <1>1, <1>2
<1>. QED
  BY <1>1, <1>3, <1>4, Zenon DEF Holds

\* Of the signals that wait, all but the first wait when it was read.
LEMMA TailWaits ==
  ASSUME NEW s \in Seq(Signal), s # <<>>
  PROVE  /\ Head(s) \in Signal /\ Tail(s) \in Seq(Signal)
         /\ \A p : Holds(s, p) => p = Head(s) \/ Holds(Tail(s), p)
<1>1. /\ Head(s) \in Signal
      /\ Tail(s) \in Seq(Signal)
      /\ Len(Tail(s)) = Len(s) - 1
      /\ \A i \in 1 .. Len(Tail(s)) : Tail(s)[i] = s[i + 1]
  BY HeadTailProperties
<1>2. s[1] = Head(s) /\ Len(s) \in Nat
  OBVIOUS
<1>3. ASSUME NEW i \in 1 .. Len(s), i # 1
      PROVE  i - 1 \in 1 .. Len(Tail(s)) /\ Tail(s)[i - 1] = s[i]
  <2>1. i - 1 \in 1 .. Len(Tail(s)) /\ (i - 1) + 1 = i
    BY <1>1, <1>2, <1>3
  <2>. QED
    BY <1>1, <2>1, Zenon
<1>. QED
  BY <1>1, <1>2, <1>3, Zenon DEF Holds

\* Bus.Send reaches a channel with the heartbeat, or not at all.
LEMMA SendFacts ==
  ASSUME TypeOK, NEW m \in Node, SendHeartbeat(m)
  PROVE  /\ channel' \in [Node -> Seq(Signal)]
         /\ arrived' \in [Node -> [Node -> Age]]
         /\ \A n \in Node :
              \/ channel'[n] = channel[n] /\ arrived'[n] = arrived[n]
              \/ channel'[n] = Append(channel[n], m) /\ arrived'[n] = [arrived[n] EXCEPT ![m] = 0]
<1>1. channel \in [Node -> Seq(Signal)] /\ arrived \in [Node -> [Node -> Age]]
  BY Zenon DEF TypeOK, Signal
<1>2. CASE UNCHANGED <<channel, arrived>>
  BY <1>1, <1>2, Zenon
<1>3. CASE Send(m)
  <2>1. 0 \in Age /\ m \in Signal
    BY Times DEF Age, Signal
  <2>2. \A n \in Node : Append(channel[n], m) \in Seq(Signal)
    BY <1>1, <2>1, AppendWaits, Zenon
  <2>3. \A n \in Node : [arrived[n] EXCEPT ![m] = 0] \in [Node -> Age]
    BY <1>1, <2>1
  <2>4. /\ channel' = [n \in Node |-> IF Receives(n) THEN Append(channel[n], m) ELSE channel[n]]
        /\ arrived' = [n \in Node |-> IF Receives(n) THEN [arrived[n] EXCEPT ![m] = 0]
                                                     ELSE arrived[n]]
    BY <1>3, Zenon DEF Send
  <2>5. \A n \in Node : channel'[n] \in Seq(Signal) /\ arrived'[n] \in [Node -> Age]
    BY <1>1, <2>2, <2>3, <2>4, Zenon
  <2>6. \A n \in Node :
          \/ channel'[n] = channel[n] /\ arrived'[n] = arrived[n]
          \/ channel'[n] = Append(channel[n], m) /\ arrived'[n] = [arrived[n] EXCEPT ![m] = 0]
    BY <2>4, Zenon
  <2>. QED
    BY <2>4, <2>5, <2>6, Zenon
<1>. QED
  BY <1>2, <1>3, Zenon DEF SendHeartbeat

\* A heartbeat that is sent leaves what is recorded no older than what arrived.
LEMMA SendHeard ==
  ASSUME IInv, NEW m \in Node, SendHeartbeat(m), UNCHANGED heartbeats, NEW n \in Node
  PROVE  Heard(n)'
<1>1. /\ TypeOK /\ Heard(n) /\ m \in Signal
      /\ channel[n] \in Seq(Signal) /\ arrived[n] \in [Node -> Age] /\ heartbeats[n] \in Beats
  BY Zenon DEF IInv, TypeOK, Signal
<1>2. SUFFICES ASSUME NEW p \in DOMAIN heartbeats[n], ~Waits(n, p)'
               PROVE  heartbeats[n][p] <= arrived'[n][p]
  BY Zenon DEF Heard
<1>3. CASE channel'[n] = channel[n] /\ arrived'[n] = arrived[n]
  BY <1>1, <1>2, <1>3, Zenon DEF Heard, Waits
<1>4. CASE channel'[n] = Append(channel[n], m) /\ arrived'[n] = [arrived[n] EXCEPT ![m] = 0]
  <2>1. p # m /\ ~Waits(n, p)
    BY <1>1, <1>2, <1>4, AppendWaits, Zenon DEF Waits
  <2>2. arrived'[n][p] = arrived[n][p]
    BY <1>1, <1>4, <2>1, BeatsFacts, Zenon
  <2>. QED
    BY <1>1, <2>1, <2>2, Zenon DEF Heard
<1>. QED
  BY <1>1, <1>3, <1>4, SendFacts, Zenon

-------------------------------------------------------------------------------
(* The steps.  Each lemma says that a step keeps the inductive invariant.  *)

\* What the invariant says of the other nodes depends on their own state.
LEMMA NodeFrame ==
  ASSUME IInv, NEW n \in Node, heartbeats'[n] = heartbeats[n], at'[n] = at[n],
         countdown'[n] = countdown[n], n \in ticked' <=> n \in ticked,
         membership'[n] = membership[n]
  PROVE  /\ Timely(n)' /\ Published(n)'
         /\ channel'[n] = channel[n] /\ arrived'[n] = arrived[n] => Heard(n)'
<1>1. Heard(n) /\ Timely(n) /\ Published(n)
  BY Zenon DEF IInv
<1>2. Timely(n)'
  BY <1>1, Zenon DEF Timely
<1>3. Published(n)'
  BY <1>1, Zenon DEF Published
<1>4. channel'[n] = channel[n] /\ arrived'[n] = arrived[n] => Heard(n)'
  BY <1>1, Zenon DEF Heard, Waits
<1>. QED
  BY <1>2, <1>3, <1>4, Zenon

\* Run up to its first heartbeat.
LEMMA StartStep ==
  ASSUME IInv, NEW n \in Node, Start(n)
  PROVE  IInv'
<1>1. /\ TypeOK /\ at[n] = "off"
      /\ at' = [at EXCEPT ![n] = "first"]
      /\ channel' = [channel EXCEPT ![n] = <<NoID>>]
      /\ countdown' = [countdown EXCEPT ![n] = Interval]
      /\ UNCHANGED <<heartbeats, listening, ticked, membership, arrived>>
  BY Zenon DEF IInv, Start
<1>2. Interval \in 1 .. Interval
  BY Times
<1>3. <<NoID>> \in Seq(Node \union {NoID})
  OBVIOUS
<1>4. TypeOK'
  BY <1>1, <1>2, <1>3, Zenon DEF TypeOK
<1>5. Heard(n)' /\ Timely(n)' /\ Published(n)'
  <2>1. DOMAIN heartbeats'[n] = {} /\ membership'[n] \subseteq DOMAIN heartbeats'[n]
    BY <1>1, Zenon DEF IInv, Published
  <2>. QED
    BY <2>1, Zenon DEF Heard, Timely, Published
<1>6. ASSUME NEW k \in Node, k # n
      PROVE  Heard(k)' /\ Timely(k)' /\ Published(k)'
  <2>1. at'[k] = at[k] /\ countdown'[k] = countdown[k] /\ channel'[k] = channel[k]
    BY <1>1, <1>6, Zenon DEF TypeOK
  <2>. QED
    BY <1>1, <2>1, NodeFrame, Zenon
<1>. QED
  BY <1>4, <1>5, <1>6, Zenon DEF IInv

\* The first heartbeat, a reply, or a heartbeat that a tick or drainHeartbeats
\* sends.
LEMMA SendStep ==
  ASSUME IInv, NEW n \in Node, Announce(n) \/ Reply(n) \/ Tick(n) \/ Answer(n)
  PROVE  IInv'
<1>1. /\ TypeOK /\ SendHeartbeat(n)
      /\ UNCHANGED heartbeats /\ UNCHANGED listening /\ UNCHANGED countdown
      /\ at' \in {[at EXCEPT ![n] = "loop"], [at EXCEPT ![n] = "drain"]}
      /\ ticked' \in {ticked, ticked \ {n}}
      /\ membership' \in {membership, [membership EXCEPT ![n] = DOMAIN heartbeats[n]]}
  BY Zenon DEF IInv, Announce, Reply, Tick, Answer, Publish
<1>2. DOMAIN heartbeats[n] \subseteq Node
  BY <1>1, BeatsFacts, Zenon DEF TypeOK
<1>3. TypeOK'
  <2>1. at' \in [Node -> {"off", "first", "loop", "reply", "drain", "answer", "stopped"}]
    BY <1>1, Zenon DEF TypeOK
  <2>2. membership' \in [Node -> SUBSET Node]
    <3> DEFINE D == DOMAIN heartbeats[n]
    <3>1. D \in SUBSET Node /\ membership \in [Node -> SUBSET Node]
      BY <1>1, <1>2, Zenon DEF TypeOK
    <3>2. membership' = membership \/ membership' = [membership EXCEPT ![n] = D]
      BY <1>1, Zenon
    <3> HIDE DEF D
    <3>. QED
      BY <3>1, <3>2, Zenon
  <2>3. ticked' \subseteq Node
    BY <1>1, Zenon DEF TypeOK
  <2>. QED
    BY <1>1, <2>1, <2>2, <2>3, SendFacts, Zenon DEF TypeOK, Signal
<1>4. \A k \in Node : Heard(k)'
  BY <1>1, SendHeard, Zenon
<1>5. Timely(n)' /\ Published(n)'
  <2>1. Timely(n) /\ Published(n)
    BY Zenon DEF IInv
  <2>2. at'[n] \in {"loop", "drain"}
    BY <1>1, Zenon DEF TypeOK
  <2>3. membership'[n] \subseteq DOMAIN heartbeats'[n]
    BY <1>1, <2>1, Zenon DEF TypeOK, Published
  <2>4. Published(n)'
    BY <2>2, <2>3 DEF Published
  <2>5. Timely(n)'
    <3>1. CASE Announce(n) \/ Reply(n)
      BY <1>1, <2>1, <3>1, Zenon DEF Announce, Reply, Timely
    <3>2. CASE Tick(n) \/ Answer(n)
      <4>1. at'[n] = "drain"
        BY <1>1, <3>2, Zenon DEF Tick, Answer, TypeOK
      <4>. QED
        BY <4>1 DEF Timely
    <3>. QED
      BY <3>1, <3>2, Zenon
  <2>. QED
    BY <2>4, <2>5, Zenon
<1>6. ASSUME NEW k \in Node, k # n
      PROVE  Timely(k)' /\ Published(k)'
  <2>1. at'[k] = at[k] /\ countdown'[k] = countdown[k] /\ membership'[k] = membership[k]
    BY <1>1, <1>6, Zenon DEF TypeOK
  <2>2. k \in ticked' <=> k \in ticked
    BY <1>1, <1>6, Zenon
  <2>. QED
    BY <1>1, <2>1, <2>2, NodeFrame, Zenon
<1>. QED
  BY <1>3, <1>4, <1>5, <1>6, Zenon DEF IInv

\* A heartbeat is read, in the loop or by drainHeartbeats.
LEMMA ReadStep ==
  ASSUME IInv, NEW n \in Node, ReceiveHeartbeat(n) \/ DrainHeartbeat(n)
  PROVE  /\ IInv'
         /\ \A k \in Node : DOMAIN heartbeats[k] \subseteq DOMAIN heartbeats'[k]
<1> DEFINE m == Head(channel[n])
           b == heartbeats[n]
           r == Recorded(heartbeats[n], Head(channel[n]))
<1>1. /\ TypeOK /\ channel[n] # <<>>
      /\ channel' = [channel EXCEPT ![n] = Tail(channel[n])]
      /\ heartbeats' = [heartbeats EXCEPT ![n] = r]
      /\ UNCHANGED <<listening, countdown, ticked, arrived, faults>>
  BY Zenon DEF IInv, ReceiveHeartbeat, DrainHeartbeat
<1>2. /\ membership' \in {membership, [membership EXCEPT ![n] = DOMAIN r]}
      /\ \/ /\ at[n] = "loop"
            /\ at' \in {[at EXCEPT ![n] = "reply"], [at EXCEPT ![n] = "loop"]}
         \/ /\ at[n] = "drain"
            /\ at' \in {[at EXCEPT ![n] = "answer"], [at EXCEPT ![n] = "drain"]}
  BY Zenon DEF ReceiveHeartbeat, DrainHeartbeat, Publish
<1>3. /\ channel \in [Node -> Seq(Signal)] /\ heartbeats \in [Node -> Beats]
      /\ at \in [Node -> {"off", "first", "loop", "reply", "drain", "answer", "stopped"}]
      /\ membership \in [Node -> SUBSET Node] /\ countdown[n] \in 1 .. Interval
      /\ arrived[n] \in [Node -> Age]
  BY <1>1, Zenon DEF TypeOK, Signal
<1>4. /\ m \in Signal /\ Tail(channel[n]) \in Seq(Signal)
      /\ \A p : Holds(channel[n], p) => p = m \/ Holds(Tail(channel[n]), p)
  BY <1>1, <1>3, TailWaits, Zenon
<1>5. /\ r \in Beats /\ DOMAIN b \subseteq DOMAIN r
      /\ \A p \in DOMAIN r : \/ p = m /\ r[p] = 0
                             \/ p # m /\ p \in DOMAIN b /\ r[p] = b[p]
  BY <1>3, <1>4, RecordedFacts, Zenon DEF Signal
<1>6. DOMAIN r \subseteq Node /\ DOMAIN r \in SUBSET Node
  BY <1>5, BeatsFacts, Zenon
<1>7. /\ heartbeats'[n] = r /\ channel'[n] = Tail(channel[n])
      /\ \A k \in Node : k # n => heartbeats'[k] = heartbeats[k] /\ channel'[k] = channel[k]
  BY <1>1, <1>3, Zenon
<1> HIDE DEF m, b, r
<1>8. /\ membership' \in [Node -> SUBSET Node]
      /\ membership'[n] \in {membership[n], DOMAIN r}
      /\ \A k \in Node : k # n => membership'[k] = membership[k]
  <2> DEFINE D == DOMAIN r
  <2>1. D \in SUBSET Node /\ (membership' = membership \/ membership' = [membership EXCEPT ![n] = D])
    BY <1>2, <1>6, Zenon
  <2> HIDE DEF D
  <2>2. /\ membership' \in [Node -> SUBSET Node]
        /\ membership'[n] = membership[n] \/ membership'[n] = D
        /\ \A k \in Node : k # n => membership'[k] = membership[k]
    BY <1>3, <2>1, Zenon
  <2>. QED
    BY <2>2, Zenon DEF D
<1>9. /\ at' \in [Node -> {"off", "first", "loop", "reply", "drain", "answer", "stopped"}]
      /\ \A k \in Node : k # n => at'[k] = at[k]
      /\ \/ at[n] = "loop" /\ at'[n] \in {"loop", "reply"}
         \/ at[n] = "drain" /\ at'[n] \in {"answer", "drain"}
  BY <1>2, <1>3, Zenon
<1>10. TypeOK'
  <2>1. channel' \in [Node -> Seq(Signal)] /\ heartbeats' \in [Node -> Beats]
    BY <1>1, <1>3, <1>4, <1>5, Zenon
  <2>. QED
    BY <1>1, <1>8, <1>9, <2>1, Zenon DEF TypeOK, Signal
<1>11. Heard(n) /\ Timely(n) /\ Published(n)
  BY Zenon DEF IInv
<1>12. Heard(n)'
  <2>1. SUFFICES ASSUME NEW p \in DOMAIN r, ~Holds(Tail(channel[n]), p)
                 PROVE  r[p] <= arrived[n][p]
    BY <1>1, <1>7, Zenon DEF Heard, Waits
  <2>2. CASE p = m
    <3>1. r[p] = 0 /\ arrived[n][p] \in Age
      BY <1>3, <1>5, <1>6, <2>2, Zenon
    <3>. QED
      BY <3>1, Times DEF Age
  <2>3. CASE p # m
    <3>1. ~Waits(n, p) /\ p \in DOMAIN heartbeats[n] /\ r[p] = heartbeats[n][p]
      BY <1>4, <1>5, <2>1, <2>3, Zenon DEF Waits, b
    <3>. QED
      BY <1>11, <3>1, Zenon DEF Heard
  <2>. QED
    BY <2>2, <2>3, Zenon
<1>13. Timely(n)'
  <2>1. SUFFICES ASSUME at'[n] \in {"first", "loop", "reply"}, n \notin ticked, NEW p \in DOMAIN r
                 PROVE  r[p] + countdown[n] <= MaxAge
    BY <1>1, <1>7, Zenon DEF Timely
  <2>2. at[n] = "loop"
    BY <1>9, <2>1
  <2>3. CASE p = m
    BY <1>3, <1>5, <2>3, Times
  <2>4. CASE p # m
    BY <1>5, <1>11, <2>1, <2>2, <2>4, Zenon DEF Timely, b
  <2>. QED
    BY <2>3, <2>4, Zenon
<1>14. Published(n)'
  <2>1. membership'[n] \subseteq DOMAIN r
    BY <1>5, <1>8, <1>11, Zenon DEF Published, b
  <2>2. at'[n] \notin {"off", "stopped"}
    BY <1>9
  <2>. QED
    BY <1>7, <2>1, <2>2, Zenon DEF Published
<1>15. ASSUME NEW k \in Node, k # n
       PROVE  Heard(k)' /\ Timely(k)' /\ Published(k)'
  BY <1>1, <1>7, <1>8, <1>9, <1>15, NodeFrame, Zenon
<1>16. IInv'
  BY <1>10, <1>12, <1>13, <1>14, <1>15, Zenon DEF IInv
<1>. QED
  BY <1>5, <1>7, <1>16, Zenon DEF b

\* expireNodes: with nothing left to read, what it removes has not arrived
\* within the timeout either.
LEMMA ExpireStep ==
  ASSUME IInv, NEW n \in Node, Expire(n)
  PROVE  /\ IInv'
         /\ \A k \in Node : \A m \in DOMAIN heartbeats[k] \ DOMAIN heartbeats'[k] :
              arrived[k][m] > Timeout
<1> DEFINE b == heartbeats[n]
           K == Kept(n)
           r == Restrict(heartbeats[n], Kept(n))
<1>1. /\ TypeOK /\ channel[n] = <<>> /\ at[n] = "drain"
      /\ heartbeats' = [heartbeats EXCEPT ![n] = r]
      /\ membership' = [membership EXCEPT ![n] = DOMAIN r]
      /\ at' = [at EXCEPT ![n] = "loop"]
      /\ UNCHANGED <<channel, listening, countdown, ticked, arrived, faults>>
  BY Zenon DEF IInv, Expire, Publish
<1>2. /\ heartbeats \in [Node -> Beats] /\ membership \in [Node -> SUBSET Node]
      /\ at \in [Node -> {"off", "first", "loop", "reply", "drain", "answer", "stopped"}]
      /\ countdown[n] \in 1 .. Interval /\ arrived[n] \in [Node -> Age]
      /\ b \in Beats
  BY <1>1, Zenon DEF TypeOK
<1>3. /\ r \in Beats /\ DOMAIN r = K /\ K \subseteq DOMAIN b
      /\ \A m \in K : r[m] = b[m] /\ b[m] <= Timeout
      /\ \A m \in DOMAIN b \ K : ~(b[m] <= Timeout)
  <2>1. /\ r \in Beats /\ DOMAIN r = K /\ K \subseteq DOMAIN b
        /\ \A m \in K : r[m] = b[m] /\ b[m] <= Timeout
    BY <1>2, KeptFacts, Zenon
  <2>2. \A m \in DOMAIN b \ K : ~(b[m] <= Timeout)
    BY Zenon DEF Kept
  <2>. QED
    BY <2>1, <2>2, Zenon
<1> HIDE DEF b, K, r
<1>4. DOMAIN b \subseteq Node /\ \A m \in DOMAIN b : b[m] \in Nat
  BY <1>2, BeatsFacts, Zenon
<1>5. K \in SUBSET Node
  BY <1>3, <1>4, Zenon
<1>6. /\ heartbeats'[n] = r /\ membership'[n] = K /\ at'[n] = "loop"
      /\ \A k \in Node : k # n => /\ heartbeats'[k] = heartbeats[k]
                                  /\ membership'[k] = membership[k] /\ at'[k] = at[k]
  BY <1>1, <1>2, <1>3, Zenon
<1>7. TypeOK'
  <2>1. heartbeats' \in [Node -> Beats] /\ membership' \in [Node -> SUBSET Node]
    BY <1>1, <1>2, <1>3, <1>5, Zenon
  <2>2. at' \in [Node -> {"off", "first", "loop", "reply", "drain", "answer", "stopped"}]
    BY <1>1, <1>2, Zenon
  <2>. QED
    BY <1>1, <2>1, <2>2, Zenon DEF TypeOK
<1>8. \A p \in DOMAIN b : b[p] <= arrived[n][p]
  <2>1. \A p : ~Waits(n, p)
    BY <1>1 DEF Waits, Holds
  <2>. QED
    BY <2>1, Zenon DEF IInv, Heard, b
<1>9. Heard(n)'
  BY <1>1, <1>3, <1>6, <1>8, Zenon DEF Heard
<1>10. Timely(n)'
  <2>1. \A p \in DOMAIN r : r[p] + countdown[n] <= MaxAge
    BY <1>2, <1>3, <1>4, Times
  <2>. QED
    BY <1>1, <1>6, <2>1, Zenon DEF Timely
<1>11. Published(n)'
  BY <1>3, <1>6 DEF Published
<1>12. ASSUME NEW k \in Node, k # n
       PROVE  Heard(k)' /\ Timely(k)' /\ Published(k)'
  BY <1>1, <1>6, <1>12, NodeFrame, Zenon
<1>13. IInv'
  BY <1>7, <1>9, <1>10, <1>11, <1>12, Zenon DEF IInv
<1>14. ASSUME NEW m \in DOMAIN b \ K
       PROVE  arrived[n][m] > Timeout
  <2>1. b[m] \in Nat /\ ~(b[m] <= Timeout) /\ b[m] <= arrived[n][m] /\ arrived[n][m] \in Age
    BY <1>2, <1>3, <1>4, <1>8, Zenon
  <2>. QED
    BY <2>1, Times DEF Age
<1>. QED
  BY <1>3, <1>6, <1>13, <1>14, Zenon DEF b

\* Run returns, or the process ends.
LEMMA StopStep ==
  ASSUME IInv, NEW n \in Node, Stop(n)
  PROVE  IInv' /\ at'[n] = "stopped" /\ \A k \in Node : k # n => heartbeats'[k] = heartbeats[k]
<1>1. /\ TypeOK
      /\ at' = [at EXCEPT ![n] = "stopped"]
      /\ heartbeats' = [heartbeats EXCEPT ![n] = <<>>]
      /\ channel' = [channel EXCEPT ![n] = <<>>]
      /\ listening' = listening \ {n}
      /\ countdown' = [countdown EXCEPT ![n] = Interval]
      /\ ticked' = ticked \ {n}
      /\ membership' = [membership EXCEPT ![n] = {}]
      /\ arrived' = [arrived EXCEPT ![n] = [m \in Node |-> MaxAge]]
  BY Zenon DEF IInv, Stop
<1>2. MaxAge \in Age /\ Interval \in 1 .. Interval /\ <<>> \in Seq(Signal)
  BY Times DEF Age
<1>3. <<>> \in Beats /\ DOMAIN <<>> = {}
  BY NoBeats, Zenon
<1>4. TypeOK'
  <2>1. /\ at' \in [Node -> {"off", "first", "loop", "reply", "drain", "answer", "stopped"}]
        /\ heartbeats' \in [Node -> Beats]
        /\ channel' \in [Node -> Seq(Signal)]
    BY <1>1, <1>2, <1>3, Zenon DEF TypeOK, Signal
  <2>2. /\ countdown' \in [Node -> 1 .. Interval]
        /\ listening' \subseteq Node /\ ticked' \subseteq Node
        /\ membership' \in [Node -> SUBSET Node]
    BY <1>1, <1>2, Zenon DEF TypeOK
  <2>3. arrived' \in [Node -> [Node -> Age]]
    <3> DEFINE a == [m \in Node |-> MaxAge]
    <3>1. a \in [Node -> Age]
      BY <1>2, Zenon
    <3>2. arrived' = [arrived EXCEPT ![n] = a] /\ arrived \in [Node -> [Node -> Age]]
      BY <1>1, Zenon DEF TypeOK
    <3> HIDE DEF a
    <3>. QED
      BY <3>1, <3>2, Zenon
  <2>. QED
    BY <2>1, <2>2, <2>3, Zenon DEF TypeOK, Signal
<1>5. heartbeats'[n] = <<>> /\ membership'[n] = {} /\ at'[n] = "stopped"
  BY <1>1, Zenon DEF TypeOK
<1>6. Heard(n)' /\ Timely(n)' /\ Published(n)'
  BY <1>3, <1>5, Zenon DEF Heard, Timely, Published
<1>7. ASSUME NEW k \in Node, k # n
      PROVE  heartbeats'[k] = heartbeats[k] /\ Heard(k)' /\ Timely(k)' /\ Published(k)'
  <2>1. /\ heartbeats'[k] = heartbeats[k] /\ membership'[k] = membership[k] /\ at'[k] = at[k]
        /\ channel'[k] = channel[k] /\ countdown'[k] = countdown[k] /\ arrived'[k] = arrived[k]
    BY <1>1, <1>7, Zenon DEF TypeOK
  <2>2. k \in ticked' <=> k \in ticked
    BY <1>1, <1>7, Zenon
  <2>. QED
    BY <2>1, <2>2, NodeFrame, Zenon
<1>. QED
  BY <1>4, <1>5, <1>6, <1>7, Zenon DEF IInv

\* The bus of a node connects, or loses its connection.
LEMMA BusStep ==
  ASSUME IInv, NEW n \in Node, Listen(n) \/ ConnectionLost(n)
  PROVE  IInv' /\ UNCHANGED heartbeats
<1>1. /\ TypeOK
      /\ UNCHANGED <<at, heartbeats, countdown, ticked, membership, arrived>>
      /\ listening' \in {listening \union {n}, listening \ {n}}
      /\ channel' \in {channel, [channel EXCEPT ![n] = Append(channel[n], NoID)]}
  <2>1. CASE Listen(n)
    <3>1. channel' = [channel EXCEPT ![n] = IF Len(channel[n]) < BufferSize
                                           THEN Append(channel[n], NoID) ELSE channel[n]]
      BY <2>1, Zenon DEF Listen
    <3>2. channel \in [Node -> Seq(Signal)]
      BY Zenon DEF IInv, TypeOK, Signal
    <3>3. [channel EXCEPT ![n] = channel[n]] = channel
      BY <3>2, Zenon
    <3>4. channel' \in {channel, [channel EXCEPT ![n] = Append(channel[n], NoID)]}
      BY <3>1, <3>3, Zenon
    <3>. QED
      BY <2>1, <3>4, Zenon DEF IInv, Listen
  <2>2. CASE ConnectionLost(n)
    BY <2>2, Zenon DEF IInv, ConnectionLost
  <2>. QED
    BY <2>1, <2>2, Zenon
<1>2. channel \in [Node -> Seq(Signal)] /\ NoID \in Signal
  BY <1>1, Zenon DEF TypeOK, Signal
<1>3. /\ Append(channel[n], NoID) \in Seq(Signal)
      /\ \A p : Holds(channel[n], p) => Holds(Append(channel[n], NoID), p)
  BY <1>2, AppendWaits, Zenon
<1>4. /\ channel' \in [Node -> Seq(Signal)]
      /\ \A k \in Node : \A p : Waits(k, p) => Waits(k, p)'
  <2> DEFINE c == Append(channel[n], NoID)
  <2>1. /\ channel' = channel \/ channel' = [channel EXCEPT ![n] = c]
        /\ c \in Seq(Signal) /\ \A p : Holds(channel[n], p) => Holds(c, p)
    BY <1>1, <1>3, Zenon
  <2> HIDE DEF c
  <2>2. channel' \in [Node -> Seq(Signal)]
    BY <1>2, <2>1, Zenon
  <2>3. \A k \in Node : channel'[k] = channel[k] \/ (k = n /\ channel'[k] = c)
    BY <1>2, <2>1, Zenon
  <2>4. \A k \in Node : \A p : Holds(channel[k], p) => Holds(channel'[k], p)
    BY <2>1, <2>3, Zenon
  <2>. QED
    BY <2>2, <2>4, Zenon DEF Waits
<1>5. TypeOK'
  <2>1. listening' \subseteq Node
    BY <1>1, Zenon DEF TypeOK
  <2>. QED
    BY <1>1, <1>4, <2>1, Zenon DEF TypeOK, Signal
<1>6. \A k \in Node : Heard(k)'
  BY <1>1, <1>4, Zenon DEF IInv, Heard
<1>7. \A k \in Node : Timely(k)' /\ Published(k)'
  BY <1>1, NodeFrame, Zenon
<1>. QED
  BY <1>1, <1>5, <1>6, <1>7, Zenon DEF IInv

\* Time passes.
LEMMA PassTimeStep ==
  ASSUME IInv, PassTime
  PROVE  IInv' /\ \A n \in Node : DOMAIN heartbeats'[n] = DOMAIN heartbeats[n]
<1>1. /\ heartbeats' = [n \in Node |-> [m \in DOMAIN heartbeats[n] |-> Older(heartbeats[n][m])]]
      /\ arrived' = [n \in Node |-> [m \in Node |-> Older(arrived[n][m])]]
      /\ ticked' = ticked \union {n \in Running : countdown[n] = 1}
      /\ countdown' = [n \in Node |-> IF n \notin Running THEN countdown[n]
                                      ELSE IF countdown[n] = 1 THEN Interval
                                      ELSE countdown[n] - 1]
      /\ UNCHANGED <<at, channel, listening, membership>>
  BY Zenon DEF PassTime
<1>2. /\ heartbeats \in [Node -> Beats] /\ arrived \in [Node -> [Node -> Age]]
      /\ countdown \in [Node -> 1 .. Interval]
  BY Zenon DEF IInv, TypeOK
<1>3. /\ \A a \in Age : Older(a) \in Age /\ (a < MaxAge => Older(a) = a + 1)
      /\ \A a, c \in Age : a <= c => Older(a) <= Older(c)
  BY OlderFacts, Zenon
<1>4. ASSUME NEW n \in Node
      PROVE  /\ heartbeats'[n] \in Beats /\ DOMAIN heartbeats'[n] = DOMAIN heartbeats[n]
             /\ \A m \in DOMAIN heartbeats[n] : /\ heartbeats'[n][m] = Older(heartbeats[n][m])
                                                /\ heartbeats[n][m] \in Age /\ m \in Node
             /\ arrived'[n] \in [Node -> Age]
             /\ \A m \in Node : arrived'[n][m] = Older(arrived[n][m]) /\ arrived[n][m] \in Age
             /\ countdown'[n] \in 1 .. Interval
  <2> DEFINE D == DOMAIN heartbeats[n]
  <2>1. D \subseteq Node /\ \A m \in D : heartbeats[n][m] \in Age
    BY <1>2, BeatsFacts, Zenon
  <2>2. heartbeats'[n] = [m \in D |-> Older(heartbeats[n][m])]
    BY <1>1, Zenon
  <2> HIDE DEF D
  <2>3. heartbeats'[n] \in [D -> Age] /\ DOMAIN heartbeats'[n] = D
    BY <1>3, <2>1, <2>2, Zenon
  <2>4. heartbeats'[n] \in Beats
    BY <2>1, <2>3, BeatsIntro, Zenon
  <2>5. arrived'[n] = [m \in Node |-> Older(arrived[n][m])] /\ \A m \in Node : arrived[n][m] \in Age
    BY <1>1, <1>2, Zenon
  <2>6. arrived'[n] \in [Node -> Age] /\ \A m \in Node : arrived'[n][m] = Older(arrived[n][m])
    BY <1>3, <2>5, Zenon
  <2>7. \/ countdown'[n] \in {countdown[n], Interval}
        \/ countdown[n] # 1 /\ countdown'[n] = countdown[n] - 1
    BY <1>1, Zenon
  <2>8. countdown'[n] \in 1 .. Interval
    <3>1. countdown[n] \in 1 .. Interval
      BY <1>2, Zenon
    <3>. QED
      BY <2>7, <3>1, Times
  <2>. QED
    BY <2>1, <2>2, <2>3, <2>4, <2>5, <2>6, <2>8, Zenon DEF D
<1>5. TypeOK'
  <2>1. \A n \in Node : heartbeats'[n] \in Beats /\ arrived'[n] \in [Node -> Age]
                        /\ countdown'[n] \in 1 .. Interval
    BY <1>4, Zenon
  <2>2. heartbeats' \in [Node -> Beats]
    BY <1>1, <2>1, Zenon
  <2>3. arrived' \in [Node -> [Node -> Age]]
    BY <1>1, <2>1, Zenon
  <2>4. countdown' \in [Node -> 1 .. Interval]
    BY <1>1, <2>1, Zenon
  <2>5. ticked' \subseteq Node
    BY <1>1, Zenon DEF IInv, TypeOK, Running
  <2>. QED
    BY <1>1, <2>2, <2>3, <2>4, <2>5, Zenon DEF IInv, TypeOK
<1>6. ASSUME NEW n \in Node
      PROVE  Heard(n)' /\ Timely(n)' /\ Published(n)'
  <2>1. Heard(n) /\ Timely(n) /\ Published(n)
    BY Zenon DEF IInv
  <2>2. Heard(n)'
    <3>1. SUFFICES ASSUME NEW m \in DOMAIN heartbeats[n], ~Waits(n, m)
                   PROVE  heartbeats'[n][m] <= arrived'[n][m]
      BY <1>1, <1>4, Zenon DEF Heard, Waits
    <3>2. heartbeats[n][m] <= arrived[n][m]
      BY <2>1, <3>1, Zenon DEF Heard
    <3>. QED
      BY <1>3, <1>4, <3>2, Zenon
  <2>3. Timely(n)'
    <3>1. SUFFICES ASSUME at[n] \in {"first", "loop", "reply"}, n \notin ticked', NEW m \in DOMAIN heartbeats[n]
                   PROVE  heartbeats'[n][m] + countdown'[n] <= MaxAge
      BY <1>1, <1>4, Zenon DEF Timely
    <3>2. n \in Running
      BY <3>1 DEF Running
    <3>3. n \notin ticked /\ countdown[n] # 1
      BY <1>1, <3>1, <3>2, Zenon
    <3>4. countdown'[n] = countdown[n] - 1
      BY <1>1, <3>2, <3>3, Zenon
    <3>5. heartbeats[n][m] + countdown[n] <= MaxAge
      BY <2>1, <3>1, <3>3, Zenon DEF Timely
    <3>6. countdown[n] \in 1 .. Interval /\ heartbeats[n][m] \in Age
      BY <1>2, <1>4, Zenon
    <3>7. heartbeats[n][m] < MaxAge
      BY <3>5, <3>6, Times DEF Age
    <3>8. heartbeats'[n][m] = heartbeats[n][m] + 1
      BY <1>3, <1>4, <3>6, <3>7, Zenon
    <3>. QED
      BY <3>4, <3>5, <3>6, <3>8, Times DEF Age
  <2>4. Published(n)'
    BY <1>1, <1>4, <2>1, Zenon DEF Published
  <2>. QED
    BY <2>2, <2>3, <2>4, Zenon
<1>. QED
  BY <1>4, <1>5, <1>6, Zenon DEF IInv

-------------------------------------------------------------------------------
(* The theorems.                                                           *)

\* No node has started.
LEMMA InitInv == Init => IInv
<1> SUFFICES ASSUME Init PROVE IInv
  OBVIOUS
<1>1. /\ at = [n \in Node |-> "off"] /\ heartbeats = [n \in Node |-> <<>>]
      /\ channel = [n \in Node |-> <<>>] /\ listening = {}
      /\ countdown = [n \in Node |-> Interval] /\ ticked = {}
      /\ membership = [n \in Node |-> {}]
      /\ arrived = [n \in Node |-> [m \in Node |-> MaxAge]]
  BY Zenon DEF Init
<1>2. MaxAge \in Age /\ Interval \in 1 .. Interval /\ <<>> \in Seq(Signal)
  BY Times DEF Age
<1>3. <<>> \in Beats /\ DOMAIN <<>> = {}
  BY NoBeats, Zenon
<1>4. TypeOK
  <2>1. arrived \in [Node -> [Node -> Age]]
    BY <1>1, <1>2, Zenon
  <2>. QED
    BY <1>1, <1>2, <1>3, <2>1, Zenon DEF TypeOK, Signal
<1>5. \A n \in Node : DOMAIN heartbeats[n] = {} /\ membership[n] = {}
  BY <1>1, <1>3, Zenon
<1>. QED
  BY <1>4, <1>5, Zenon DEF IInv, Heard, Timely, Published

\* What a step removes from the heartbeats of a node that keeps running has not
\* arrived within the timeout.
Unhasty ==
  \A n, m \in Node :
    /\ n \in Running /\ at'[n] # "stopped"
    /\ m \in DOMAIN heartbeats[n] \ DOMAIN heartbeats'[n]
    => arrived[n][m] > Timeout

\* Every step keeps the invariant, and removes no node hastily.
LEMMA NextInv ==
  ASSUME IInv, [Next]_vars
  PROVE  IInv' /\ Unhasty
<1>1. ASSUME NEW n \in Node, Start(n) \/ Announce(n) \/ Reply(n) \/ Tick(n) \/ Answer(n)
      PROVE  IInv' /\ Unhasty
  <2>1. UNCHANGED heartbeats
    BY <1>1, Zenon DEF Start, Announce, Reply, Tick, Answer
  <2>. QED
    BY <1>1, <2>1, StartStep, SendStep, Zenon DEF Unhasty
<1>2. ASSUME NEW n \in Node, Stop(n)
      PROVE  IInv' /\ Unhasty
  BY <1>2, StopStep, Zenon DEF Unhasty
<1>3. ASSUME NEW n \in Node, ReceiveHeartbeat(n) \/ DrainHeartbeat(n)
      PROVE  IInv' /\ Unhasty
  BY <1>3, ReadStep, Zenon DEF Unhasty
<1>4. ASSUME NEW n \in Node, Expire(n)
      PROVE  IInv' /\ Unhasty
  BY <1>4, ExpireStep, Zenon DEF Unhasty
<1>5. ASSUME NEW n \in Node, Listen(n) \/ ConnectionLost(n)
      PROVE  IInv' /\ Unhasty
  BY <1>5, BusStep, Zenon DEF Unhasty
<1>6. CASE PassTime
  BY <1>6, PassTimeStep, Zenon DEF Unhasty
<1>7. CASE UNCHANGED vars
  <2>1. UNCHANGED <<at, heartbeats, channel, listening, countdown, ticked, membership, arrived>>
    BY <1>7, Zenon DEF vars
  <2>2. TypeOK'
    BY <2>1, Zenon DEF IInv, TypeOK
  <2>3. \A n \in Node : Heard(n)' /\ Timely(n)' /\ Published(n)'
    BY <2>1, NodeFrame, Zenon
  <2>. QED
    BY <2>1, <2>2, <2>3, Zenon DEF IInv, Unhasty
<1>. QED
  BY <1>1, <1>2, <1>3, <1>4, <1>5, <1>6, <1>7, Zenon DEF Next, NodeStep

\* In every reachable state the variables have their types, and the inductive
\* invariant holds: what a node has recorded is no older than what reached its
\* channel, and will be within the timeout and one interval at its next tick.
THEOREM ClusterInvariant == Spec => []IInv
<1>1. IInv /\ [Next]_vars => IInv'
  BY NextInv, Zenon
<1>. QED
  BY <1>1, InitInv, PTL DEF Spec

\* expireNodes: a node that was held up, for however long, removes no node
\* whose heartbeats reached its channel within the timeout.
THEOREM HastyRemovalNever == Spec => NoHastyRemoval
<1>1. IInv /\ [Next]_vars => [\A n, m \in Node :
       /\ n \in Running /\ at'[n] # "stopped"
       /\ m \in DOMAIN heartbeats[n] \ DOMAIN heartbeats'[n]
       => arrived[n][m] > Timeout]_vars
  BY NextInv, Zenon DEF Unhasty
<1>. QED
  BY <1>1, ClusterInvariant, PTL DEF Spec, NoHastyRemoval

\* A node with nothing to do has published no member that it has not heard for
\* the timeout and one interval.
THEOREM SilenceAlwaysNoticed == Spec => []SilenceNoticed
<1>1. IInv => SilenceNoticed
  <2>1. SUFFICES ASSUME IInv, NEW n \in Node, Idle(n), NEW m \in membership[n]
                 PROVE  m \in DOMAIN heartbeats[n] /\ heartbeats[n][m] < Timeout + Interval
    BY Zenon DEF SilenceNoticed
  <2>2. m \in DOMAIN heartbeats[n]
    BY <2>1, Zenon DEF IInv, Published
  <2>3. heartbeats[n][m] + countdown[n] <= MaxAge
    BY <2>1, <2>2 DEF IInv, Timely, Idle
  <2>4. heartbeats[n][m] \in Nat /\ countdown[n] \in 1 .. Interval
    BY <2>1, <2>2, BeatsFacts, Zenon DEF IInv, TypeOK
  <2>. QED
    BY <2>2, <2>3, <2>4, Times
<1>. QED
  BY <1>1, ClusterInvariant, PTL

-------------------------------------------------------------------------------
(* Responsibility.                                                         *)

\* Node p takes a workload from node n: by a higher score, or by the lower ID.
Outdoes(p, n, w) ==
  \/ Score[w][p] > Score[w][n]
  \/ Score[w][p] = Score[w][n] /\ Rank[p] < Rank[n]

\* That is a strict total order.
LEMMA OutdoesOrder ==
  ASSUME NEW w \in Workload
  PROVE  /\ \A p \in Node : ~Outdoes(p, p, w)
         /\ \A p, q \in Node : p # q => Outdoes(p, q, w) \/ Outdoes(q, p, w)
         /\ \A p, q \in Node : ~(Outdoes(p, q, w) /\ Outdoes(q, p, w))
         /\ \A p, q, n \in Node : Outdoes(p, q, w) /\ Outdoes(q, n, w) => Outdoes(p, n, w)
<1>1. \A p \in Node : Score[w][p] \in Nat /\ Rank[p] \in Nat
  BY ClusterAssumption, Zenon
<1>2. \A p, q \in Node : p # q => Rank[p] # Rank[q]
  BY ClusterAssumption, Zenon DEF IsInjective
<1> DEFINE s == Score[w]
           k == Rank
<1> HIDE DEF s, k
<1>3. /\ \A p \in Node : s[p] \in Nat /\ k[p] \in Nat
      /\ \A p, q \in Node : p # q => k[p] # k[q]
      /\ \A p, q : Outdoes(p, q, w) <=> s[p] > s[q] \/ (s[p] = s[q] /\ k[p] < k[q])
  BY <1>1, <1>2, Zenon DEF Outdoes, s, k
<1>4. \A p \in Node : ~Outdoes(p, p, w)
  BY <1>3
<1>5. \A p, q \in Node : p # q => Outdoes(p, q, w) \/ Outdoes(q, p, w)
  BY <1>3
<1>6. \A p, q \in Node : ~(Outdoes(p, q, w) /\ Outdoes(q, p, w))
  BY <1>3
<1>7. \A p, q, n \in Node : Outdoes(p, q, w) /\ Outdoes(q, n, w) => Outdoes(p, n, w)
  BY <1>3
<1>. QED
  BY <1>4, <1>5, <1>6, <1>7, Zenon

\* LocalNodeIsResponsibleFor: no other node of the view takes the workload.
LEMMA ResponsibleMeans ==
  ASSUME NEW w \in Workload, NEW V \in SUBSET Node, NEW n \in Node
  PROVE  LocalNodeIsResponsibleFor(n, V, w) <=> n \in V /\ \A p \in V : ~Outdoes(p, n, w)
<1>1. \A p \in Node : Score[w][p] \in Nat /\ Rank[p] \in Nat
  BY ClusterAssumption, Zenon
<1>2. \A p \in V : p # n =>
        (~Outdoes(p, n, w) <=> Outdoes(n, p, w))
  BY OutdoesOrder, Zenon
<1>3. \A p \in V : Outdoes(n, p, w) <=>
        (Score[w][p] < Score[w][n] \/ (Score[w][p] = Score[w][n] /\ Rank[p] > Rank[n]))
  BY <1>1 DEF Outdoes
<1>4. ~Outdoes(n, n, w)
  BY OutdoesOrder, Zenon
<1>. QED
  BY <1>2, <1>3, <1>4, Zenon DEF LocalNodeIsResponsibleFor

\* Of every finite view that is not empty, one node is responsible: the one
\* with the fewest nodes that take the workload from it has none.
LEMMA SomeResponsible ==
  ASSUME NEW w \in Workload, NEW V \in SUBSET Node, IsFiniteSet(V), V # {}
  PROVE  \E n \in V : LocalNodeIsResponsibleFor(n, V, w)
<1> DEFINE Better(n) == {p \in V : Outdoes(p, n, w)}
           T == {Better(n) : n \in V}
<1>1. IsWellFoundedOn(StrictSubsetOrdering(V), FiniteSubsetsOf(V))
  BY FS_StrictSubsetOrderingWellFounded, Zenon
<1>2. T \subseteq FiniteSubsetsOf(V) /\ T # {}
  <2>1. \A n \in V : Better(n) \subseteq V /\ IsFiniteSet(Better(n))
    BY FS_Subset, Zenon
  <2>. QED
    BY <2>1, Zenon DEF FiniteSubsetsOf
<1>3. PICK X \in T : \A Y \in T : ~(<<Y, X>> \in StrictSubsetOrdering(V))
  BY <1>1, <1>2, WFMin, Zenon
<1>4. PICK n \in V : X = Better(n)
  BY <1>3, Zenon
<1>5. ASSUME NEW p \in V, Outdoes(p, n, w)
      PROVE  FALSE
  <2>1. Better(p) \subseteq Better(n)
    BY <1>5, OutdoesOrder, Zenon
  <2>2. p \in Better(n) /\ p \notin Better(p)
    BY <1>5, OutdoesOrder, Zenon
  <2>3. <<Better(p), Better(n)>> \in StrictSubsetOrdering(V)
    BY <2>1, <2>2, Zenon DEF StrictSubsetOrdering
  <2>. QED
    BY <1>3, <1>4, <2>3, Zenon
<1>. QED
  BY <1>4, <1>5, ResponsibleMeans, Zenon

\* The first conjunct of WorkloadsSharedOut, without the temporal operator.
NeverBoth ==
  \A w \in Workload : \A n, m \in Node :
    (n # m /\ m \in membership[n] /\ n \in membership[m])
      => ~(IsResponsible(n, w) /\ IsResponsible(m, w))

\* When the nodes of a set agree that they are the live nodes, exactly one of
\* them is responsible for each workload.
OneOfThoseWhoAgree ==
  \A w \in Workload : \A V \in SUBSET Node :
    (IsFiniteSet(V) /\ V # {} /\ \A n \in V : membership[n] = V)
      => \E n \in V : IsResponsible(n, w) /\ \A m \in V : IsResponsible(m, w) => m = n

\* A node that does not run is responsible for nothing.
NoneWhenStopped == \A w \in Workload : \A n \in Node \ Running : ~IsResponsible(n, w)

\* LocalNodeIsResponsibleFor: two nodes that have each other in the membership
\* they have published are never both responsible for a workload, however the
\* memberships differ otherwise and whatever the scores.
THEOREM ResponsibilityExclusive == Spec => []NeverBoth
<1>1. IInv => NeverBoth
  <2>1. SUFFICES ASSUME IInv, NEW w \in Workload, NEW n \in Node, NEW m \in Node, n # m,
                        m \in membership[n], n \in membership[m],
                        IsResponsible(n, w), IsResponsible(m, w)
                 PROVE  FALSE
    BY Zenon DEF NeverBoth
  <2>2. membership[n] \in SUBSET Node /\ membership[m] \in SUBSET Node
    BY <2>1, Zenon DEF IInv, TypeOK
  <2>3. ~Outdoes(m, n, w) /\ ~Outdoes(n, m, w)
    BY <2>1, <2>2, ResponsibleMeans, Zenon DEF IsResponsible
  <2>. QED
    BY <2>1, <2>3, OutdoesOrder, Zenon
<1>. QED
  BY <1>1, ClusterInvariant, PTL

\* When finitely many nodes have published the same membership, the set of them
\* all, each workload is the responsibility of exactly one of them.
THEOREM ResponsibilityAssigned == Spec => []OneOfThoseWhoAgree
<1>1. OneOfThoseWhoAgree
  <2>1. SUFFICES ASSUME NEW w \in Workload, NEW V \in SUBSET Node, IsFiniteSet(V), V # {},
                        \A n \in V : membership[n] = V
                 PROVE  \E n \in V : /\ IsResponsible(n, w)
                                     /\ \A m \in V : IsResponsible(m, w) => m = n
    BY Zenon DEF OneOfThoseWhoAgree
  <2>2. PICK n \in V : LocalNodeIsResponsibleFor(n, V, w)
    BY <2>1, SomeResponsible, Zenon
  <2>3. ASSUME NEW m \in V, IsResponsible(m, w)
        PROVE  m = n
    <3>1. LocalNodeIsResponsibleFor(m, V, w)
      BY <2>1, <2>3, Zenon DEF IsResponsible
    <3>2. ~Outdoes(m, n, w) /\ ~Outdoes(n, m, w)
      BY <2>2, <3>1, ResponsibleMeans, Zenon
    <3>. QED
      BY <3>2, OutdoesOrder, Zenon
  <2>. QED
    BY <2>1, <2>2, <2>3, Zenon DEF IsResponsible
<1>. QED
  BY <1>1, PTL

\* Node.Run publishes a membership without live nodes when it returns: a node
\* that has not started or has stopped is responsible for nothing.
THEOREM StoppedNotResponsible == Spec => []NoneWhenStopped
<1>1. IInv => NoneWhenStopped
  <2>1. SUFFICES ASSUME IInv, NEW w \in Workload, NEW n \in Node \ Running, IsResponsible(n, w)
                 PROVE  FALSE
    BY Zenon DEF NoneWhenStopped
  <2>2. membership[n] = {}
    BY <2>1, Zenon DEF IInv, Published, Running
  <2>. QED
    BY <2>1, <2>2, Zenon DEF IsResponsible, LocalNodeIsResponsibleFor
<1>. QED
  BY <1>1, ClusterInvariant, PTL

==============================================================================
