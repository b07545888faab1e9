------------------------- MODULE ExecuteCommandProofs -------------------------
(***************************************************************************)
(* Proofs about ExecuteCommand, for any callers, keys, streams and bounds. *)
(***************************************************************************)
EXTENDS ExecuteCommand, TLAPS

Labels == {"calling", "added", "duplicate", "failed", "waiting", "satisfied", "unsatisfied"}

TypeOK ==
  /\ keys \in [Key -> Message \union {NoMessage}]
  /\ keyLock \in [Key -> Caller \union {NoCaller}]
  /\ commands \subseteq Message
  /\ recorded \in [Message -> [Stream -> Nat]]
  /\ pc \in [Caller -> Labels]
  /\ attempt \in [Caller -> 1 .. MaxAttempts]
  /\ answer \in [Caller -> Message \union {NoMessage}]

(***************************************************************************)
(* What a caller knows at its label.  A transaction that has inserted its  *)
(* key holds it, and nobody has committed that key.                        *)
(***************************************************************************)
HasAnswer(c) ==
  /\ answer[c] \in commands
  /\ Keyed(c) => keys[KeyOf[c]] = answer[c]

CallOK(c) ==
  /\ pc[c] = "added" =>
       /\ answer[c] = Own(c)
       /\ Keyed(c) => keyLock[KeyOf[c]] = c /\ keys[KeyOf[c]] = NoMessage
  /\ pc[c] = "duplicate" => Keyed(c)
  /\ pc[c] \in {"duplicate", "waiting", "satisfied", "unsatisfied"} => HasAnswer(c)
  /\ pc[c] = "satisfied" => HasSatisfyingEvent(answer[c])

(***************************************************************************)
(* A key belongs to a queued command that was called with it, and every    *)
(* queued command that was called with a key has it.                       *)
(***************************************************************************)
KeysOK ==
  /\ \A k \in Key : keys[k] # NoMessage => keys[k] \in commands /\ KeyOf[keys[k][1]] = k
  /\ \A m \in commands : KeyOf[m[1]] # NoKey => keys[KeyOf[m[1]]] = m

IInv == TypeOK /\ KeysOK /\ \A c \in Caller : CallOK(c)
-------------------------------------------------------------------------------
\* The invariant holds initially.
LEMMA InitIInv == Init => IInv
  BY CallAssumption DEF Init, IInv, TypeOK, KeysOK, CallOK, HasAnswer, Labels, Message

\* A call's message is its own.
LEMMA OwnMessage ==
  ASSUME TypeOK, NEW c \in Caller
  PROVE  Own(c) \in Message /\ Own(c)[1] = c
  BY DEF TypeOK, Own, Message

\* The key of a call that has one.
LEMMA KeyOfCaller ==
  ASSUME NEW c \in Caller
  PROVE  /\ Keyed(c) => KeyOf[c] \in Key
         /\ \A k \in Key : k # NoKey
  BY CallAssumption DEF Keyed

\* The end of a transaction releases its own locks on keys and no others.
LEMMA FreeKeysType ==
  ASSUME TypeOK, NEW c \in Caller
  PROVE  /\ FreeKeys(c) \in [Key -> Caller \union {NoCaller}]
         /\ \A k \in Key, b \in Caller \ {c} : keyLock[k] = b => FreeKeys(c)[k] = b
  BY CallAssumption DEF FreeKeys, TypeOK

(***************************************************************************)
(* A step of one caller leaves what the others know, as long as the        *)
(* queue, the keys and the recorded events only grow and the keys that     *)
(* others hold stay theirs.                                                *)
(***************************************************************************)
LEMMA OthersOK ==
  ASSUME IInv, NEW b \in Caller,
         pc'[b] = pc[b], answer'[b] = answer[b], attempt'[b] = attempt[b],
         commands \subseteq commands',
         \A k \in Key : keys[k] # NoMessage => keys'[k] = keys[k],
         \A k \in Key : keyLock[k] = b => keyLock'[k] = b /\ keys'[k] = keys[k],
         \A m \in Message : HasSatisfyingEvent(m) => HasSatisfyingEvent(m)'
  PROVE  CallOK(b)'
<1>a. TypeOK /\ CallOK(b) /\ KeysOK
  BY DEF IInv
<1>1. HasAnswer(b) => HasAnswer(b)' /\ answer[b] \in Message
  BY <1>a, KeyOfCaller, CallAssumption DEF HasAnswer, TypeOK, Keyed
<1>2. pc[b] = "added" => (answer[b] = Own(b))'
  BY <1>a DEF CallOK, Own
<1>3. pc[b] = "added" => (Keyed(b) => keyLock[KeyOf[b]] = b /\ keys[KeyOf[b]] = NoMessage)'
  BY <1>a, KeyOfCaller DEF CallOK, Keyed
<1>. QED
  BY <1>a, <1>1, <1>2, <1>3 DEF CallOK, Keyed

(***************************************************************************)
(* Recorded events never become fewer, so that an event once seen stays    *)
(* true of its message.                                                    *)
(***************************************************************************)
LEMMA RecordKeeps ==
  ASSUME TypeOK, NEW m \in Message, NEW s \in Stream, Record(m, s),
         NEW n \in Message, HasSatisfyingEvent(n)
  PROVE  HasSatisfyingEvent(n)'
<1>1. PICK e \in Satisfying : e[2] < recorded[n][e[1]]
  BY DEF HasSatisfyingEvent
<1>2. e[1] \in Stream /\ e[2] \in Nat
  BY CallAssumption
<1>3. recorded[n][e[1]] \in Nat /\ recorded'[n][e[1]] \in {recorded[n][e[1]], recorded[n][e[1]] + 1}
  BY <1>2 DEF Record, TypeOK
<1>4. e[2] < recorded'[n][e[1]]
  BY <1>1, <1>2, <1>3
<1>. QED
  BY <1>4 DEF HasSatisfyingEvent

\* Every step keeps the invariant.
LEMMA NextIInv == IInv /\ [Next]_vars => IInv'
<1> SUFFICES ASSUME IInv, [Next]_vars PROVE IInv'
  OBVIOUS
<1>a. TypeOK /\ KeysOK /\ \A c \in Caller : CallOK(c)
  BY DEF IInv
<1>b. UNCHANGED recorded => \A m : HasSatisfyingEvent(m) => HasSatisfyingEvent(m)'
  BY DEF HasSatisfyingEvent
<1>1. ASSUME NEW c \in Caller, Add(c) PROVE IInv'
  <2>1. keyLock' \in [Key -> Caller \union {NoCaller}]
    BY <1>a, <1>1, KeyOfCaller, Zenon DEF Add, TypeOK
  <2>2. TypeOK'
    BY <1>a, <1>1, <2>1, OwnMessage, Zenon DEF Add, TypeOK, Goto, Labels
  <2>3. KeysOK'
    BY <1>a, <1>1 DEF Add, KeysOK
  <2>4. ASSUME NEW b \in Caller, b # c PROVE CallOK(b)'
    <3>1. \A k \in Key : keyLock[k] = b => keyLock'[k] = b
      BY <1>a, <1>1, CallAssumption DEF Add, TypeOK
    <3>. QED
      BY <1>a, <1>b, <1>1, <2>4, <3>1, OthersOK DEF Add, Goto, TypeOK
  <2>5. CallOK(c)'
    BY <1>a, <1>1, KeyOfCaller DEF Add, CallOK, HasAnswer, Keyed, Own, Goto, TypeOK
  <2>. QED
    BY <2>2, <2>3, <2>4, <2>5 DEF IInv
<1>2. ASSUME NEW c \in Caller, AddDuplicate(c) PROVE IInv'
  <2>1. TypeOK'
    BY <1>a, <1>2, KeyOfCaller, Zenon DEF AddDuplicate, TypeOK, Goto, Labels
  <2>2. KeysOK'
    BY <1>a, <1>2 DEF AddDuplicate, KeysOK
  <2>3. ASSUME NEW b \in Caller, b # c PROVE CallOK(b)'
    BY <1>a, <1>b, <1>2, <2>3, OthersOK DEF AddDuplicate, Goto, TypeOK
  <2>4. CallOK(c)'
    BY <1>a, <1>2, KeyOfCaller DEF AddDuplicate, CallOK, HasAnswer, KeysOK, Keyed, Goto, TypeOK
  <2>. QED
    BY <2>1, <2>2, <2>3, <2>4 DEF IInv
<1>3. ASSUME NEW c \in Caller, Commit(c), pc[c] = "added" PROVE IInv'
  <2>a. answer[c] \in Message /\ answer[c][1] = c /\ keyLock' = FreeKeys(c)
    BY <1>a, <1>3, OwnMessage DEF Commit, CallOK
  <2>1. keys' \in [Key -> Message \union {NoMessage}]
    BY <1>a, <1>3, <2>a, KeyOfCaller, Zenon DEF Commit, TypeOK
  <2>2. pc' \in [Caller -> Labels]
    BY <1>a, <1>3, Zenon DEF Commit, TypeOK, Goto, Labels
  <2>3. TypeOK'
    BY <1>a, <1>3, <2>a, <2>1, <2>2, FreeKeysType DEF Commit, TypeOK
  <2>4. KeysOK'
    <3>1. ASSUME NEW k \in Key, keys'[k] # NoMessage
          PROVE  keys'[k] \in commands' /\ KeyOf[keys'[k][1]] = k
      BY <1>a, <1>3, <2>a, <3>1 DEF Commit, KeysOK, Keyed, TypeOK
    <3>2. ASSUME NEW m \in commands', KeyOf[m[1]] # NoKey PROVE keys'[KeyOf[m[1]]] = m
      <4>1. CASE m = answer[c]
        BY <1>a, <1>3, <2>a, <3>2, <4>1, KeyOfCaller DEF Commit, Keyed, TypeOK
      <4>2. CASE m \in commands /\ m # answer[c]
        <5>1. keys[KeyOf[m[1]]] = m /\ m # NoMessage /\ m[1] \in Caller
          BY <1>a, <3>2, <4>2, CallAssumption DEF KeysOK, TypeOK, Message
        <5>2. Keyed(c) => KeyOf[m[1]] # KeyOf[c]
          BY <1>a, <1>3, <5>1 DEF CallOK
        <5>. QED
          BY <1>a, <1>3, <3>2, <5>1, <5>2, KeyOfCaller DEF Commit, Keyed, TypeOK
      <4>. QED
        BY <1>3, <4>1, <4>2 DEF Commit
    <3>. QED
      BY <3>1, <3>2, Zenon DEF KeysOK
  <2>5. ASSUME NEW b \in Caller, b # c PROVE CallOK(b)'
    <3>1. \A k \in Key : keys[k] # NoMessage => keys'[k] = keys[k]
      BY <1>a, <1>3 DEF Commit, CallOK, TypeOK
    <3>2. \A k \in Key : keyLock[k] = b => keyLock'[k] = b /\ keys'[k] = keys[k]
      BY <1>a, <1>3, <2>a, <2>5, FreeKeysType DEF Commit, CallOK, TypeOK
    <3>. QED
      BY <1>a, <1>b, <1>3, <2>5, <3>1, <3>2, OthersOK DEF Commit, Goto, TypeOK
  <2>6. CallOK(c)'
    BY <1>a, <1>3, KeyOfCaller DEF Commit, CallOK, HasAnswer, Keyed, Goto, TypeOK
  <2>. QED
    BY <2>3, <2>4, <2>5, <2>6 DEF IInv
<1>4. ASSUME NEW c \in Caller, Commit(c), pc[c] = "duplicate" PROVE IInv'
  <2>1. UNCHANGED <<commands, keys, keyLock, recorded, attempt, answer>>
    BY <1>4 DEF Commit
  <2>2. TypeOK'
    BY <1>a, <1>4, <2>1, Zenon DEF Commit, TypeOK, Goto, Labels
  <2>3. KeysOK'
    BY <1>a, <2>1 DEF KeysOK
  <2>4. ASSUME NEW b \in Caller, b # c PROVE CallOK(b)'
    BY <1>a, <1>b, <1>4, <2>1, <2>4, OthersOK DEF Commit, Goto, TypeOK
  <2>5. CallOK(c)'
    BY <1>a, <1>4, <2>1 DEF Commit, CallOK, HasAnswer, Keyed, Goto, TypeOK
  <2>. QED
    BY <2>2, <2>3, <2>4, <2>5 DEF IInv
<1>5. ASSUME NEW c \in Caller, Rollback(c) PROVE IInv'
  <2>1. TypeOK'
    BY <1>a, <1>5, FreeKeysType, Zenon DEF Rollback, TypeOK, Goto, Labels
  <2>2. KeysOK'
    BY <1>a, <1>5 DEF Rollback, KeysOK
  <2>3. ASSUME NEW b \in Caller, b # c PROVE CallOK(b)'
    BY <1>a, <1>b, <1>5, <2>3, FreeKeysType, OthersOK DEF Rollback, Goto, TypeOK
  <2>4. CallOK(c)'
    BY <1>a, <1>5 DEF Rollback, CallOK, Goto, TypeOK
  <2>. QED
    BY <2>1, <2>2, <2>3, <2>4 DEF IInv
<1>6. ASSUME NEW c \in Caller, Retry(c) PROVE IInv'
  <2>1. attempt' \in [Caller -> 1 .. MaxAttempts]
    BY <1>a, <1>6, CallAssumption DEF Retry, TypeOK
  <2>2. TypeOK'
    BY <1>a, <1>6, <2>1, Zenon DEF Retry, TypeOK, Goto, Labels
  <2>3. KeysOK'
    BY <1>a, <1>6 DEF Retry, KeysOK
  <2>4. ASSUME NEW b \in Caller, b # c PROVE CallOK(b)'
    BY <1>a, <1>b, <1>6, <2>4, OthersOK DEF Retry, Goto, TypeOK
  <2>5. CallOK(c)'
    BY <1>a, <1>6 DEF Retry, CallOK, Goto, TypeOK
  <2>. QED
    BY <2>2, <2>3, <2>4, <2>5 DEF IInv
<1>7. ASSUME NEW c \in Caller, Poll(c) PROVE IInv'
  <2>1. TypeOK'
    BY <1>a, <1>7, Zenon DEF Poll, TypeOK, Goto, Labels
  <2>2. KeysOK'
    BY <1>a, <1>7 DEF Poll, KeysOK
  <2>3. ASSUME NEW b \in Caller, b # c PROVE CallOK(b)'
    BY <1>a, <1>b, <1>7, <2>3, OthersOK DEF Poll, Goto, TypeOK
  <2>4. HasSatisfyingEvent(answer[c])
    <3>1. PICK e \in Satisfying : e \in Matching(answer[c])
      BY <1>7 DEF Poll, Pages
    <3>. QED
      BY <3>1 DEF Matching, HasSatisfyingEvent
  <2>5. CallOK(c)'
    BY <1>a, <1>b, <1>7, <2>4 DEF Poll, CallOK, HasAnswer, Keyed, Goto, TypeOK
  <2>. QED
    BY <2>1, <2>2, <2>3, <2>5 DEF IInv
<1>8. ASSUME NEW c \in Caller, Timeout(c) PROVE IInv'
  <2>1. TypeOK'
    BY <1>a, <1>8, Zenon DEF Timeout, TypeOK, Goto, Labels
  <2>2. KeysOK'
    BY <1>a, <1>8 DEF Timeout, KeysOK
  <2>3. ASSUME NEW b \in Caller, b # c PROVE CallOK(b)'
    BY <1>a, <1>b, <1>8, <2>3, OthersOK DEF Timeout, Goto, TypeOK
  <2>4. CallOK(c)'
    BY <1>a, <1>8 DEF Timeout, CallOK, HasAnswer, Keyed, Goto, TypeOK
  <2>. QED
    BY <2>1, <2>2, <2>3, <2>4 DEF IInv
<1>9. ASSUME NEW m \in Message, NEW s \in Stream, Record(m, s) PROVE IInv'
  <2>1. TypeOK'
    BY <1>a, <1>9 DEF Record, TypeOK
  <2>2. KeysOK'
    BY <1>a, <1>9 DEF Record, KeysOK
  <2>3. ASSUME NEW b \in Caller PROVE CallOK(b)'
    BY <1>a, <1>9, RecordKeeps, OthersOK, Zenon DEF Record
  <2>. QED
    BY <2>1, <2>2, <2>3 DEF IInv
<1>10. CASE UNCHANGED vars
  <2>1. TypeOK' /\ KeysOK'
    BY <1>a, <1>10, Zenon DEF vars, TypeOK, KeysOK
  <2>2. ASSUME NEW b \in Caller PROVE CallOK(b)'
    BY <1>a, <1>b, <1>10, OthersOK DEF vars
  <2>. QED
    BY <2>1, <2>2 DEF IInv
<1>11. ASSUME NEW c \in Caller, Commit(c) PROVE IInv'
  BY <1>3, <1>4, <1>11 DEF Commit
<1>. QED
  BY <1>1, <1>2, <1>5, <1>6, <1>7, <1>8, <1>9, <1>10, <1>11, Zenon DEF Next, AddStep

(***************************************************************************)
(* The inductive invariant holds in every reachable state.                 *)
(***************************************************************************)
THEOREM InductiveInvariant == Spec => []IInv
  BY InitIInv, NextIInv, PTL DEF Spec
-------------------------------------------------------------------------------
(***************************************************************************)
(* However many callers share an idempotency key, and however often they   *)
(* call again, commandqueue.add() queues one command under it, which is    *)
(* the one they all observe.                                               *)
(***************************************************************************)
THEOREM CommandsOncePerKey == Spec => []OneCommandPerKey
<1>1. IInv => OneCommandPerKey
  <2> SUFFICES ASSUME IInv PROVE OneCommandPerKey
    OBVIOUS
  <2>a. TypeOK /\ KeysOK /\ \A c \in Caller : CallOK(c)
    BY DEF IInv
  <2>1. ASSUME NEW c \in Caller, pc[c] \in {"waiting", "satisfied", "unsatisfied"}
        PROVE  /\ answer[c] \in commands
               /\ Keyed(c) => KeyOf[answer[c][1]] = KeyOf[c] /\ keys[KeyOf[c]] = answer[c]
    BY <2>a, <2>1, KeyOfCaller, CallAssumption DEF CallOK, HasAnswer, KeysOK, TypeOK
  <2>. QED
    BY <2>a, <2>1 DEF KeysOK, OneCommandPerKey
<1>. QED
  BY <1>1, InductiveInvariant, PTL

(***************************************************************************)
(* A key that is taken is never given up or passed on, as the comment on   *)
(* the "write-only list" idempotency_keys says: a later call with it finds *)
(* the same message.                                                       *)
(***************************************************************************)
THEOREM KeysPermanent == Spec => [][\A k \in Key : keys[k] # NoMessage => keys'[k] = keys[k]]_vars
<1> DEFINE Permanent == \A k \in Key : keys[k] # NoMessage => keys'[k] = keys[k]
<1>1. IInv /\ [Next]_vars => [Permanent]_vars
  <2> SUFFICES ASSUME IInv, Next, NEW k \in Key, keys[k] # NoMessage PROVE keys'[k] = keys[k]
    OBVIOUS
  <2>1. ASSUME NEW c \in Caller, Commit(c) PROVE keys'[k] = keys[k]
    BY <2>1 DEF Commit, IInv, TypeOK, CallOK
  <2>2. CASE UNCHANGED keys
    BY <2>2
  <2>. QED
    BY <2>1, <2>2 DEF Next, AddStep, Add, AddDuplicate, Rollback, Retry, Poll, Timeout, Record
<1>. QED
  BY <1>1, InductiveInvariant, PTL DEF Spec

(***************************************************************************)
(* A call is told that its observers are satisfied only if a satisfying    *)
(* event of its command, or of the one queued before under its key, has    *)
(* been recorded (waitForEvents).                                          *)
(***************************************************************************)
THEOREM SatisfiedByAnEvent ==
  Spec => [](\A c \in Caller : pc[c] = "satisfied" => HasSatisfyingEvent(answer[c]))
<1>1. IInv => \A c \in Caller : pc[c] = "satisfied" => HasSatisfyingEvent(answer[c])
  BY DEF IInv, CallOK
<1>. QED
  BY <1>1, InductiveInvariant, PTL
===============================================================================
