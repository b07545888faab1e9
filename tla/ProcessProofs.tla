----------------------------- MODULE ProcessProofs ----------------------------
(***************************************************************************)
(* The safety properties of the process handlers, for any number of        *)
(* consumers, pumps, streams, events, instances and deadlines.             *)
(***************************************************************************)
EXTENDS Process, WellFoundedInduction, TLAPS

Labels == {"idle", "ready", "begun", "routed", "handling", "handled", "done", "failed"}

Row == [ended : BOOLEAN, state : SUBSET Cause]

Effect == [commands : BOOLEAN, mutated : BOOLEAN, ended : BOOLEAN,
           deadline : Deadline \union {NoCause}]

Locks(rows) == [rows -> Tx \union {NoTx}]

TypeOK ==
  /\ checkpoint \in [Stream -> Nat]
  /\ instances \in [Instance -> Row]
  /\ deadlines \in SUBSET Deadline
  /\ target \in [Deadline -> Instance \union {NoInstance}]
  /\ due \in SUBSET Deadline
  /\ failures \in [Deadline -> Nat]
  /\ enqueued \in [Cause -> Nat]
  /\ cpLock \in Locks(Stream)
  /\ instLock \in Locks(Instance)
  /\ dlLock \in Locks(Deadline)
  /\ pc \in [Tx -> Labels]
  /\ cp \in [Consumer -> Nat]
  /\ next \in [Consumer -> Nat]
  /\ cause \in [Tx -> Cause \union {NoCause}]
  /\ out \in [Tx -> Effect]
  /\ root \in [Tx -> SUBSET Cause]
  /\ rollbacks \in Nat
  /\ consumed \in SUBSET Event
  /\ mutations \in [Instance -> SUBSET Cause]

-------------------------------------------------------------------------------
(***************************************************************************)
(* What the invariant claims of a transaction.  Working: it has all the    *)
(* locks that it takes before the instance's.  Owns: it has the instance   *)
(* of its message, which is then as it was when it was loaded.             *)
(***************************************************************************)
Working(t) == pc[t] \in {"routed", "handling", "handled", "done", "failed"}

Owns(t) ==
  /\ cause[t] # NoCause
  /\ Inst(t) \in Instance
  /\ instLock[Inst(t)] = t

(***************************************************************************)
(* A consumer that works on an event has locked a checkpoint that is what  *)
(* it believes it to be, and skips no event by moving it.                  *)
(***************************************************************************)
ConsumerOK(w) ==
  /\ pc[w] # "failed"
  /\ cause[w] \in Event \union {NoCause}
  /\ pc[w] \in {"idle", "ready"} => cause[w] = NoCause
  /\ pc[w] \notin {"idle", "ready"} =>
       /\ cp[w] < next[w]
       /\ cause[w] # NoCause => cause[w] = <<StreamOf[w], next[w] - 1>>
       /\ \A e \in Event : e[1] = StreamOf[w] /\ cp[w] <= e[2] /\ e[2] < next[w] => e = cause[w]
  /\ Working(w) => cpLock[StreamOf[w]] = w /\ checkpoint[StreamOf[w]] = cp[w]
  /\ pc[w] = "routed" => cause[w] # NoCause /\ Inst(w) \in Instance

(***************************************************************************)
(* A deadline pump at work has locked a deadline and its instance.         *)
(***************************************************************************)
PumpOK(p) ==
  /\ pc[p] \notin {"ready", "begun"}
  /\ pc[p] = "idle" => cause[p] = NoCause
  /\ pc[p] # "idle" => cause[p] \in deadlines /\ dlLock[cause[p]] = p /\ Owns(p)

EffectOK(t) ==
  /\ pc[t] \notin {"handled", "done", "failed"} => out[t] = Nothing
  /\ pc[t] \in {"handling", "handled"} \/ out[t] # Nothing =>
       /\ Owns(t)
       /\ root[t] = instances[Inst(t)].state
       /\ ~instances[Inst(t)].ended
  /\ out[t].ended => out[t].deadline = NoCause
  /\ out[t].deadline # NoCause => target[out[t].deadline] = NoInstance
  /\ pc[t] = "failed" /\ out[t].commands => MarshalCanFail

(***************************************************************************)
(* A lock is held only by a transaction that needs it, but for the strays  *)
(* of deadline pumps.                                                      *)
(***************************************************************************)
LocksOK(t) ==
  /\ \A s \in Stream : cpLock[s] = t => t \in Consumer /\ StreamOf[t] = s /\ Working(t)
  /\ \A i \in Instance : instLock[i] = t =>
       /\ Working(t) /\ cause[t] # NoCause /\ Inst(t) = i
       /\ t \in Consumer => pc[t] # "routed"
  /\ \A d \in Deadline : dlLock[d] = t =>
       /\ Working(t)
       /\ t \in Consumer => pc[t] \in {"handled", "done"} /\ Owns(t) /\ target[d] = Inst(t)

TxOK(t) ==
  /\ t \in Consumer => ConsumerOK(t)
  /\ t \in Pump => PumpOK(t)
  /\ EffectOK(t)
  /\ LocksOK(t)

(***************************************************************************)
(* What it claims of the committed rows.                                   *)
(***************************************************************************)
DeadlinesOK ==
  /\ \A d \in deadlines : target[d] \in Instance /\ ~instances[target[d]].ended
  /\ \A d \in Deadline : target[d] = NoInstance => enqueued[d] = 0
  /\ \A t, u \in Tx : out[t].deadline # NoCause /\ out[t].deadline = out[u].deadline => t = u

EffectsCounted ==
  \A d \in Deadline : enqueued[d] <= (IF MarshalCanFail THEN failures[d] ELSE 0)
                                       + (IF d \in deadlines THEN 0 ELSE 1)

TablesOK ==
  /\ EventEffectsOnce
  /\ NoLostMutation
  /\ DeadlinesOK
  /\ EffectsCounted

IInv ==
  /\ TypeOK
  /\ \A t \in Tx : TxOK(t)
  /\ TablesOK

-------------------------------------------------------------------------------
(***************************************************************************)
(* The least of a set of natural numbers, as ConsumeSegment finds the      *)
(* first event of a segment.                                               *)
(***************************************************************************)
LEMMA MinOfNats ==
  ASSUME NEW S \in SUBSET Nat, S # {}
  PROVE  Min(S) \in S /\ \A y \in S : Min(S) <= y
<1> DEFINE R == {ss \in Nat \X Nat : ss[1] < ss[2]}
<1>1. IsWellFoundedOn(R, Nat)
  BY NatLessThanWellFounded, Zenon DEF OpToRel
<1>2. \A x, y \in Nat : y < x => <<y, x>> \in R
  OBVIOUS
<1> HIDE DEF R
<1>3. PICK x \in S : \A y \in S : ~(<<y, x>> \in R)
  BY <1>1, WFMin, Zenon
<1>4. \A y \in S : y \in Nat /\ x \in Nat
  OBVIOUS
<1>5. \A y \in S : ~(y < x)
  BY <1>2, <1>3, <1>4, Zenon
<1>6. \A y \in S : x <= y
  BY <1>4, <1>5
<1>. QED
  BY <1>6, Zenon DEF Min

\* An event is a stream and an offset, and is not a deadline.
LEMMA EventShape ==
  ASSUME NEW e \in Event
  PROVE  /\ e[1] \in Stream /\ e[2] \in Nat /\ e = <<e[1], e[2]>>
         /\ e \in Cause /\ e # NoCause /\ e \notin Deadline
  BY ProcessAssumption DEF Cause

(***************************************************************************)
(* The instance of a transaction's message.                                *)
(***************************************************************************)
LEMMA InstType ==
  ASSUME TypeOK, NEW t \in Tx, cause[t] # NoCause
  PROVE  Inst(t) \in Instance \union {NoInstance}
  BY ProcessAssumption DEF TypeOK, Inst, Cause

\* Taking and releasing locks keeps the type of a table of locks.
LEMMA LockTable ==
  ASSUME NEW rows, NEW locks \in Locks(rows), NEW t \in Tx
  PROVE  /\ Release(locks, t) \in Locks(rows)
         /\ \A r \in rows : Lock(locks, r, t) \in Locks(rows)
  BY DEF Release, Lock, Locks

\* The effect of a message that is ignored.
LEMMA NothingType == Nothing \in Effect
  BY DEF Nothing, Effect

\* Moving to a label keeps the types.
LEMMA GotoType ==
  ASSUME pc \in [Tx -> Labels], NEW t, NEW l \in Labels, Goto(t, l)
  PROVE  pc' \in [Tx -> Labels]
  BY Zenon DEF Goto

\* So does the end of a transaction.
LEMMA EndTransactionType ==
  ASSUME TypeOK, NEW t \in Tx, EndTransaction(t)
  PROVE  /\ cpLock' \in Locks(Stream)
         /\ instLock' \in Locks(Instance)
         /\ dlLock' \in Locks(Deadline)
         /\ cause' \in [Tx -> Cause \union {NoCause}]
         /\ out' \in [Tx -> Effect]
         /\ root' \in [Tx -> SUBSET Cause]
<1>1. /\ cpLock' \in Locks(Stream)
      /\ instLock' \in Locks(Instance)
      /\ dlLock' \in Locks(Deadline)
  BY LockTable, Zenon DEF EndTransaction, TypeOK
<1>. QED
  BY <1>1, NothingType DEF EndTransaction, TypeOK

\* The commit of commands keeps the types.
LEMMA AddCommandsType ==
  ASSUME TypeOK, NEW t \in Tx, AddCommands(t)
  PROVE  enqueued' \in [Cause -> Nat]
<1>1. \A c \in Cause : enqueued[c] + 1 \in Nat
  BY DEF TypeOK
<1>2. CASE out[t].commands
  <2>1. enqueued' = [enqueued EXCEPT ![cause[t]] = enqueued[cause[t]] + 1]
    BY <1>2 DEF AddCommands
  <2>. QED
    BY <1>1, <2>1, Zenon DEF TypeOK
<1>. QED
  BY <1>2 DEF AddCommands, TypeOK

\* So does the commit of the instance.
LEMMA WriteInstanceType ==
  ASSUME TypeOK, NEW t \in Tx, WriteInstance(t), out[t].mutated => cause[t] # NoCause
  PROVE  instances' \in [Instance -> Row] /\ mutations' \in [Instance -> SUBSET Cause]
<1>1. out[t].mutated => root[t] \union {cause[t]} \in SUBSET Cause
  BY DEF TypeOK
<1>2. mutations' \in [Instance -> SUBSET Cause]
  <2>1. CASE out[t].mutated
    <3>1. mutations' = [mutations EXCEPT ![Inst(t)] = mutations[Inst(t)] \union {cause[t]}]
      BY <2>1 DEF WriteInstance
    <3>. QED
      BY <1>1, <2>1, <3>1, Zenon DEF TypeOK
  <2>. QED
    BY <2>1 DEF WriteInstance, TypeOK
<1>3. instances' \in [Instance -> Row]
  <2>1. CASE out[t].ended
    <3>1. [ended |-> TRUE, state |-> {}] \in Row
      BY DEF Row
    <3>. QED
      BY <2>1, <3>1, Zenon DEF WriteInstance, TypeOK
  <2>2. CASE ~out[t].ended /\ out[t].mutated
    <3>1. instances' = [instances EXCEPT ![Inst(t)] =
                          [ended |-> instances[Inst(t)].ended, state |-> root[t] \union {cause[t]}]]
      BY <2>2 DEF WriteInstance
    <3>2. Inst(t) \in Instance =>
            [ended |-> instances[Inst(t)].ended, state |-> root[t] \union {cause[t]}] \in Row
      BY <1>1, <2>2 DEF TypeOK, Row
    <3>. QED
      BY <3>1, <3>2, Zenon DEF TypeOK
  <2>. QED
    BY <2>1, <2>2 DEF WriteInstance, TypeOK
<1>. QED
  BY <1>2, <1>3

\* So does the commit of deadlines.
LEMMA WriteDeadlinesType ==
  ASSUME TypeOK, NEW t \in Tx, NEW removed, WriteDeadlines(t, removed),
         out[t].deadline # NoCause => cause[t] # NoCause
  PROVE  /\ deadlines' \in SUBSET Deadline
         /\ due' \in SUBSET Deadline
         /\ target' \in [Deadline -> Instance \union {NoInstance}]
<1>1. Scheduled(t) \subseteq Deadline
  BY DEF Scheduled, TypeOK, Effect
<1>2. Scheduled(t) # {} => Inst(t) \in Instance \union {NoInstance}
  BY InstType DEF Scheduled
<1>. QED
  BY <1>1, <1>2 DEF WriteDeadlines, TypeOK

-------------------------------------------------------------------------------
(***************************************************************************)
(* What commits of a transaction that has no message: nothing but, for a   *)
(* consumer, the checkpoint.                                               *)
(***************************************************************************)
LEMMA NoMessageNoEffect ==
  ASSUME TypeOK, NEW t \in Tx, TxOK(t), cause[t] = NoCause
  PROVE  /\ ~out[t].commands /\ ~out[t].mutated /\ ~out[t].ended
         /\ out[t].deadline = NoCause
  BY DEF TxOK, EffectOK, Owns, Nothing

\* A commit keeps the types.
LEMMA CommitType ==
  ASSUME TypeOK, NEW t \in Tx, TxOK(t), NEW removed,
         AddCommands(t), WriteInstance(t), WriteDeadlines(t, removed), EndTransaction(t)
  PROVE  /\ instances' \in [Instance -> Row]
         /\ mutations' \in [Instance -> SUBSET Cause]
         /\ deadlines' \in SUBSET Deadline
         /\ due' \in SUBSET Deadline
         /\ target' \in [Deadline -> Instance \union {NoInstance}]
         /\ enqueued' \in [Cause -> Nat]
<1>1. /\ out[t].mutated => cause[t] # NoCause
      /\ out[t].deadline # NoCause => cause[t] # NoCause
  BY NoMessageNoEffect
<1>. QED
  BY <1>1, AddCommandsType, WriteInstanceType, WriteDeadlinesType, Zenon

\* Every step keeps the types.
LEMMA TypeStep ==
  ASSUME TypeOK, \A t \in Tx : TxOK(t), Next
  PROVE  TypeOK'
<1> USE DEF tables, rowLocks, local
<1>1. ASSUME NEW w \in Consumer, CheckpointOffset(w) PROVE TypeOK'
  <2>1. pc' \in [Tx -> Labels]
    BY <1>1, GotoType, Zenon DEF CheckpointOffset, TypeOK, Labels
  <2>. QED
    BY <1>1, <2>1, ProcessAssumption, Zenon DEF CheckpointOffset, TypeOK
<1>2. ASSUME NEW w \in Consumer, ConsumeSegment(w) PROVE TypeOK'
  <2> DEFINE s == StreamOf[w]
  <2>1. PICK end \in cp[w] + 1 .. Length[s] :
          LET wanted == {o \in cp[w] .. end - 1 : <<s, o>> \in Event} IN
          \/ /\ wanted # {}
             /\ cause' = [cause EXCEPT ![w] = <<s, Min(wanted)>>]
             /\ next' = [next EXCEPT ![w] = Min(wanted) + 1]
          \/ /\ wanted = {}
             /\ cause' = [cause EXCEPT ![w] = NoCause]
             /\ next' = [next EXCEPT ![w] = end]
    BY <1>2, Zenon DEF ConsumeSegment
  <2> DEFINE wanted == {o \in cp[w] .. end - 1 : <<s, o>> \in Event}
  <2>2. cp[w] \in Nat /\ s \in Stream /\ Length[s] \in Nat /\ w \in Tx
    BY ProcessAssumption DEF TypeOK
  <2>3. end \in Nat /\ wanted \in SUBSET Nat
    BY <2>2
  <2>4. wanted # {} => Min(wanted) \in Nat /\ <<s, Min(wanted)>> \in Event
    BY <2>3, MinOfNats, Zenon
  <2>5. /\ cause' \in [Tx -> Cause \union {NoCause}]
        /\ next' \in [Consumer -> Nat]
    <3>1. CASE wanted # {}
      <4>1. /\ cause' = [cause EXCEPT ![w] = <<s, Min(wanted)>>]
            /\ next' = [next EXCEPT ![w] = Min(wanted) + 1]
        BY <2>1, <3>1, Zenon
      <4>2. <<s, Min(wanted)>> \in Cause /\ Min(wanted) + 1 \in Nat
        BY <2>4, <3>1, SMTT(30) DEF Cause
      <4> HIDE DEF wanted, s
      <4>. QED
        BY <2>2, <4>1, <4>2, Zenon DEF TypeOK
    <3>2. CASE wanted = {}
      <4>1. /\ cause' = [cause EXCEPT ![w] = NoCause]
            /\ next' = [next EXCEPT ![w] = end]
        BY <2>1, <3>2, Zenon
      <4>. QED
        BY <2>2, <2>3, <4>1, Zenon DEF TypeOK
    <3>. QED
      BY <3>1, <3>2
  <2>6. pc' \in [Tx -> Labels]
    BY <1>2, GotoType, Zenon DEF ConsumeSegment, TypeOK, Labels
  <2>. QED
    BY <1>2, <2>5, <2>6, Zenon DEF ConsumeSegment, TypeOK
<1>3. ASSUME NEW w \in Consumer, LockCheckpoint(w) PROVE TypeOK'
  <2>1. w \in Tx /\ StreamOf[w] \in Stream
    BY ProcessAssumption
  <2>2. cpLock' \in Locks(Stream)
    BY <1>3, <2>1, LockTable, Zenon DEF LockCheckpoint, TypeOK
  <2>3. pc' \in [Tx -> Labels]
    BY <1>3, <2>1 DEF LockCheckpoint, Goto, TypeOK, Labels
  <2>. QED
    BY <1>3, <2>2, <2>3, Zenon DEF LockCheckpoint, TypeOK
<1>4. ASSUME NEW w \in Consumer, CheckpointConflict(w) PROVE TypeOK'
  <2>1. pc' \in [Tx -> Labels]
    BY <1>4, GotoType, Zenon DEF CheckpointConflict, TypeOK, Labels
  <2>. QED
    BY <1>4, <2>1, Zenon DEF CheckpointConflict, TypeOK
<1>5. ASSUME NEW w \in Consumer, CommitEvent(w) PROVE TypeOK'
  <2>1. w \in Tx
    BY ProcessAssumption
  <2>2. /\ AddCommands(w) /\ WriteInstance(w) /\ WriteDeadlines(w, {}) /\ EndTransaction(w)
        /\ Goto(w, "ready")
    BY <1>5 DEF CommitEvent
  <2>3. pc' \in [Tx -> Labels]
    BY <2>2, GotoType, Zenon DEF TypeOK, Labels
  <2>4. consumed' \in SUBSET Event
    <3>1. cause[w] \in Event \union {NoCause}
      BY <1>5, <2>1 DEF TxOK, ConsumerOK
    <3>. QED
      BY <1>5, <3>1, Zenon DEF CommitEvent, TypeOK
  <2>5. checkpoint' \in [Stream -> Nat] /\ cp' \in [Consumer -> Nat]
    BY <1>5, Zenon DEF CommitEvent, TypeOK
  <2>6. /\ instances' \in [Instance -> Row]
        /\ mutations' \in [Instance -> SUBSET Cause]
        /\ deadlines' \in SUBSET Deadline
        /\ due' \in SUBSET Deadline
        /\ target' \in [Deadline -> Instance \union {NoInstance}]
        /\ enqueued' \in [Cause -> Nat]
    BY <2>1, <2>2, CommitType, Zenon
  <2>. QED
    BY <1>5, <2>1, <2>2, <2>3, <2>4, <2>5, <2>6, EndTransactionType, Zenon DEF CommitEvent, TypeOK
<1>6. ASSUME NEW p \in Pump, CommitDeadline(p) PROVE TypeOK'
  <2>1. p \in Tx
    BY ProcessAssumption
  <2>2. /\ AddCommands(p) /\ WriteInstance(p) /\ WriteDeadlines(p, {cause[p]}) /\ EndTransaction(p)
        /\ Goto(p, "idle")
    BY <1>6 DEF CommitDeadline
  <2>3. pc' \in [Tx -> Labels]
    BY <2>2, GotoType, Zenon DEF TypeOK, Labels
  <2>4. /\ instances' \in [Instance -> Row]
        /\ mutations' \in [Instance -> SUBSET Cause]
        /\ deadlines' \in SUBSET Deadline
        /\ due' \in SUBSET Deadline
        /\ target' \in [Deadline -> Instance \union {NoInstance}]
        /\ enqueued' \in [Cause -> Nat]
    BY <2>1, <2>2, CommitType, Zenon
  <2>. QED
    BY <1>6, <2>1, <2>2, <2>3, <2>4, EndTransactionType, Zenon DEF CommitDeadline, TypeOK
<1>7. ASSUME NEW p \in Pump, PostponeDeadline(p) PROVE TypeOK'
  <2>1. p \in Tx
    BY ProcessAssumption
  <2>2. AddCommands(p) /\ EndTransaction(p) /\ Goto(p, "idle")
    BY <1>7 DEF PostponeDeadline
  <2>3. pc' \in [Tx -> Labels]
    BY <2>2, GotoType, Zenon DEF TypeOK, Labels
  <2>4. failures' \in [Deadline -> Nat]
    <3>1. \A d \in Deadline : failures[d] + 1 \in Nat
      BY DEF TypeOK
    <3>2. failures' = [failures EXCEPT ![cause[p]] = failures[cause[p]] + 1]
      BY <1>7 DEF PostponeDeadline
    <3>. QED
      BY <3>1, <3>2, Zenon DEF TypeOK
  <2>5. due' \in SUBSET Deadline
    BY <1>7 DEF PostponeDeadline, TypeOK
  <2>. QED
    BY <1>7, <2>1, <2>2, <2>3, <2>4, <2>5, AddCommandsType, EndTransactionType, Zenon
       DEF PostponeDeadline, TypeOK
<1>8. ASSUME NEW t \in Tx, Rollback(t) PROVE TypeOK'
  <2>1. pc' \in [Tx -> Labels]
    BY <1>8, GotoType, Zenon DEF Rollback, TypeOK, Labels
  <2>2. rollbacks' \in Nat
    BY <1>8 DEF Rollback, TypeOK
  <2>3. EndTransaction(t)
    BY <1>8 DEF Rollback
  <2>. QED
    BY <1>8, <2>1, <2>2, <2>3, EndTransactionType, Zenon DEF Rollback, TypeOK
<1>9. ASSUME NEW p \in Pump, NEW d \in Deadline, AcquireDeadline(p, d) PROVE TypeOK'
  <2>1. p \in Tx
    BY ProcessAssumption
  <2>2. pc' \in [Tx -> Labels]
    BY <1>9, GotoType, Zenon DEF AcquireDeadline, TypeOK, Labels
  <2>3. dlLock' \in Locks(Deadline)
    BY <1>9, <2>1 DEF AcquireDeadline, TypeOK, Locks
  <2>4. instLock' \in Locks(Instance)
    BY <1>9, <2>1, Zenon DEF AcquireDeadline, TypeOK, Locks, Lock
  <2>5. cause' \in [Tx -> Cause \union {NoCause}]
    BY <1>9, Zenon DEF AcquireDeadline, TypeOK, Cause
  <2>. QED
    BY <1>9, <2>2, <2>3, <2>4, <2>5, Zenon DEF AcquireDeadline, TypeOK
<1>10. ASSUME NEW p \in Pump, DeadlineFails(p) \/ SaveInstanceFails(p) PROVE TypeOK'
  <2>1. pc' \in [Tx -> Labels]
    BY <1>10, GotoType, Zenon DEF DeadlineFails, SaveInstanceFails, TypeOK, Labels
  <2>. QED
    BY <1>10, <2>1, Zenon DEF DeadlineFails, SaveInstanceFails, TypeOK
<1>11. ASSUME NEW t \in Tx, LoadInstance(t) PROVE TypeOK'
  <2>1. instLock' \in Locks(Instance)
    BY <1>11, Zenon DEF LoadInstance, TypeOK, Locks, Lock
  <2>2. pc' \in [Tx -> Labels]
    BY <1>11 DEF LoadInstance, Goto, TypeOK, Labels
  <2>3. root' \in [Tx -> SUBSET Cause]
    <3>1. Inst(t) \in Instance
      BY <1>11, ProcessAssumption DEF LoadInstance, At, TxOK, ConsumerOK, PumpOK, Owns
    <3>2. instances[Inst(t)].state \in SUBSET Cause
      BY <3>1 DEF TypeOK, Row
    <3>. QED
      BY <1>11, <3>2 DEF LoadInstance, TypeOK
  <2>. QED
    BY <1>11, <2>1, <2>2, <2>3, Zenon DEF LoadInstance, TypeOK
<1>12. ASSUME NEW t \in Tx, HandleMessage(t) PROVE TypeOK'
  <2>1. pc' \in [Tx -> Labels]
    BY <1>12, GotoType, Zenon DEF HandleMessage, TypeOK, Labels
  <2>2. out' \in [Tx -> Effect]
    <3>1. PICK commands, mutated, ended \in BOOLEAN, deadline \in FreshDeadlines \union {NoCause} :
            out' = [out EXCEPT ![t] = [commands |-> commands, mutated |-> mutated, ended |-> ended,
                                       deadline |-> IF ended THEN NoCause ELSE deadline]]
      BY <1>12, Zenon DEF HandleMessage
    <3>2. (IF ended THEN NoCause ELSE deadline) \in Deadline \union {NoCause}
      BY DEF FreshDeadlines
    <3>3. [commands |-> commands, mutated |-> mutated, ended |-> ended,
           deadline |-> IF ended THEN NoCause ELSE deadline] \in Effect
      BY <3>2, Zenon DEF Effect
    <3>. QED
      BY <3>1, <3>3, Zenon DEF TypeOK
  <2>. QED
    BY <1>12, <2>1, <2>2, Zenon DEF HandleMessage, TypeOK
<1>13. ASSUME NEW t \in Tx, NEW d \in Deadline, LockDoomedDeadline(t, d) PROVE TypeOK'
  BY <1>13, LockTable, Zenon DEF LockDoomedDeadline, TypeOK
<1>14. ASSUME NEW t \in Tx, EndInstance(t) \/ SaveInstance(t) PROVE TypeOK'
  <2>1. pc' \in [Tx -> Labels]
    BY <1>14, GotoType, Zenon DEF EndInstance, SaveInstance, TypeOK, Labels
  <2>. QED
    BY <1>14, <2>1, Zenon DEF EndInstance, SaveInstance, TypeOK
<1>15. ASSUME NEW d \in Deadline, DeadlineBecomesDue(d) PROVE TypeOK'
  BY <1>15, Zenon DEF DeadlineBecomesDue, TypeOK
<1>. QED
  BY <1>1, <1>2, <1>3, <1>4, <1>5, <1>6, <1>7, <1>8, <1>9, <1>10, <1>11, <1>12, <1>13, <1>14,
     <1>15, Zenon DEF Next, Consume, Deliver, Dispatch

-------------------------------------------------------------------------------
(***************************************************************************)
(* A step that leaves a transaction alone: its local state, the locks it   *)
(* holds, and the rows those locks protect are what they were.             *)
(***************************************************************************)
KeepsLocals(u) ==
  /\ pc'[u] = pc[u] /\ cause'[u] = cause[u] /\ out'[u] = out[u] /\ root'[u] = root[u]
  /\ u \in Consumer => cp'[u] = cp[u] /\ next'[u] = next[u]

KeepsLocks(u) ==
  /\ \A s \in Stream : cpLock'[s] = u <=> cpLock[s] = u
  /\ \A i \in Instance : instLock'[i] = u <=> instLock[i] = u
  /\ \A d \in Deadline : dlLock'[d] = u <=> dlLock[d] = u

KeepsRows(u) ==
  /\ \A s \in Stream : cpLock[s] = u => checkpoint'[s] = checkpoint[s]
  /\ \A i \in Instance : instLock[i] = u => instances'[i] = instances[i]
  /\ \A d \in Deadline : target[d] \in Instance => target'[d] = target[d]
  /\ \A d \in Deadline : out[u].deadline = d => target'[d] = target[d]
  /\ \A d \in deadlines : instLock[target[d]] = u /\ dlLock[d] = u => d \in deadlines'

Untouched(u) == KeepsLocals(u) /\ KeepsLocks(u) /\ KeepsRows(u)

\* What holds of a transaction goes on to hold if a step leaves it alone.
LEMMA UntouchedTxOK ==
  ASSUME TypeOK, NEW u \in Tx, TxOK(u), Untouched(u)
  PROVE  TxOK(u)'
<1> USE ProcessAssumption
<1>1. Working(u)' <=> Working(u)
  BY Zenon DEF Working, Untouched, KeepsLocals
<1>2. cause[u] # NoCause /\ Inst(u) \in Instance => Inst(u)' = Inst(u)
  BY Zenon DEF Inst, Untouched, KeepsLocals, KeepsRows, TypeOK, Cause
<1>3. Owns(u) => Owns(u)' /\ instances'[Inst(u)] = instances[Inst(u)]
  BY <1>2 DEF Owns, Untouched, KeepsLocals, KeepsLocks, KeepsRows
<1>4. u \in Consumer => ConsumerOK(u)'
  <2> SUFFICES ASSUME u \in Consumer PROVE ConsumerOK(u)'
    BY Zenon
  <2>1. ConsumerOK(u) /\ StreamOf[u] \in Stream
    BY Zenon DEF TxOK
  <2>2. /\ pc'[u] = pc[u] /\ cause'[u] = cause[u] /\ cp'[u] = cp[u] /\ next'[u] = next[u]
    BY Zenon DEF Untouched, KeepsLocals
  <2>3. Working(u) => cpLock'[StreamOf[u]] = u /\ checkpoint'[StreamOf[u]] = cp[u]
    BY <2>1, Zenon DEF ConsumerOK, Untouched, KeepsLocks, KeepsRows
  <2>. QED
    BY <1>1, <1>2, <2>1, <2>2, <2>3, Zenon DEF ConsumerOK
<1>5. u \in Pump => PumpOK(u)'
  <2> SUFFICES ASSUME u \in Pump PROVE PumpOK(u)'
    BY Zenon
  <2>1. PumpOK(u)
    BY Zenon DEF TxOK
  <2>2. pc'[u] = pc[u] /\ cause'[u] = cause[u]
    BY Zenon DEF Untouched, KeepsLocals
  <2>3. pc[u] # "idle" => cause[u] \in deadlines' /\ dlLock'[cause[u]] = u
    BY <2>1, Zenon DEF PumpOK, Owns, Inst, Untouched, KeepsLocks, KeepsRows, TypeOK
  <2>. QED
    BY <1>3, <2>1, <2>2, <2>3, Zenon DEF PumpOK
<1>6. EffectOK(u)'
  <2>1. EffectOK(u)
    BY Zenon DEF TxOK
  <2>2. pc'[u] = pc[u] /\ out'[u] = out[u] /\ root'[u] = root[u]
    BY Zenon DEF Untouched, KeepsLocals
  <2>3. out[u].deadline # NoCause => target'[out[u].deadline] = target[out[u].deadline]
    BY ZenonT(30) DEF Untouched, KeepsRows, TypeOK, Effect
  <2>. QED
    BY <1>2, <1>3, <2>1, <2>2, <2>3, Zenon DEF EffectOK, Owns
<1>7. LocksOK(u)'
  <2>1. LocksOK(u)
    BY Zenon DEF TxOK
  <2>2. pc'[u] = pc[u] /\ cause'[u] = cause[u]
    BY Zenon DEF Untouched, KeepsLocals
  <2>3. \A d \in Deadline : dlLock[d] = u /\ u \in Consumer => target'[d] = target[d] /\ Inst(u)' = Inst(u)
    BY <1>2, <2>1 DEF LocksOK, Owns, Untouched, KeepsRows
  <2>4. \A i \in Instance : instLock[i] = u => Inst(u)' = i
    BY <1>2, <2>1, Zenon DEF LocksOK
  <2>. QED
    BY <1>1, <1>3, <2>1, <2>2, <2>3, <2>4, Zenon DEF LocksOK, Untouched, KeepsLocks
<1>. QED
  BY <1>4, <1>5, <1>6, <1>7, Zenon DEF TxOK

-------------------------------------------------------------------------------
(***************************************************************************)
(* Releasing one's own locks keeps the locks of the others.                *)
(***************************************************************************)
LEMMA EndTransactionOthers ==
  ASSUME TypeOK, NEW t \in Tx, NEW u \in Tx, t # u, EndTransaction(t)
  PROVE  /\ KeepsLocks(u)
         /\ cause'[u] = cause[u] /\ out'[u] = out[u] /\ root'[u] = root[u]
<1>1. KeepsLocks(u)
  BY TxAssumption, Zenon DEF EndTransaction, KeepsLocks, TypeOK, Locks, Release
<1>. QED
  BY <1>1, Zenon DEF EndTransaction, TypeOK

(***************************************************************************)
(* A commit writes the row of the instance that it has locked, and changes *)
(* no deadline's instance but that of the deadline it schedules.           *)
(***************************************************************************)
LEMMA CommitOthers ==
  ASSUME IInv, NEW t \in Tx, NEW u \in Tx, t # u, NEW removed,
         \A d \in removed : t \in Pump /\ pc[t] # "idle" /\ d = cause[t],
         WriteInstance(t), WriteDeadlines(t, removed)
  PROVE  /\ \A i \in Instance : instLock[i] = u => instances'[i] = instances[i]
         /\ \A d \in Deadline : target[d] \in Instance => target'[d] = target[d]
         /\ \A d \in Deadline : out[u].deadline = d => target'[d] = target[d]
         /\ \A d \in deadlines : instLock[target[d]] = u /\ dlLock[d] = u => d \in deadlines'
<1>a. TypeOK /\ TxOK(t) /\ TxOK(u) /\ DeadlinesOK
  BY Zenon DEF IInv, TablesOK
<1> USE ProcessAssumption
<1>1. out[t].ended \/ out[t].mutated => Owns(t)
  BY <1>a DEF TxOK, EffectOK, Nothing
<1>2. \A i \in Instance : instLock[i] = u => instances'[i] = instances[i]
  <2> SUFFICES ASSUME NEW i \in Instance, instLock[i] = u PROVE instances'[i] = instances[i]
    BY Zenon
  <2>1. out[t].ended \/ out[t].mutated => i # Inst(t)
    BY <1>1, Zenon DEF Owns
  <2>. QED
    BY <1>a, <2>1, Zenon DEF WriteInstance, TypeOK
<1>3. \A d \in Deadline : d \in Scheduled(t) => target[d] = NoInstance /\ out[u].deadline # d
  BY <1>a, Zenon DEF Scheduled, TxOK, EffectOK, DeadlinesOK
<1>4. \A d \in Deadline : d \notin Scheduled(t) => target'[d] = target[d]
  BY <1>a, Zenon DEF WriteDeadlines, TypeOK
<1>5. \A d \in deadlines : instLock[target[d]] = u /\ dlLock[d] = u => d \in deadlines'
  <2> SUFFICES ASSUME NEW d \in deadlines, instLock[target[d]] = u, dlLock[d] = u
               PROVE  d \in deadlines'
    BY Zenon
  <2>1. d \notin removed
    BY <1>a, Zenon DEF TxOK, PumpOK
  <2>2. out[t].ended => d \notin DeadlinesOf(Inst(t))
    BY <1>1, Zenon DEF DeadlinesOf, Owns
  <2>. QED
    BY <2>1, <2>2, Zenon DEF WriteDeadlines
<1>. QED
  BY <1>2, <1>3, <1>4, <1>5, Zenon

(***************************************************************************)
(* No step of one transaction touches another.                             *)
(***************************************************************************)
StepOf(t) ==
  \/ t \in Consumer /\ Consume(t)
  \/ t \in Pump /\ \E d \in Deadline : AcquireDeadline(t, d)
  \/ t \in Pump /\ Deliver(t)
  \/ Dispatch(t)
  \/ Rollback(t)

\* A step of one transaction leaves all others alone.
LEMMA OthersUntouched ==
  ASSUME IInv, NEW t \in Tx, NEW u \in Tx, t # u, StepOf(t)
  PROVE  Untouched(u)
<1>a. TypeOK /\ TxOK(t) /\ TxOK(u)
  BY Zenon DEF IInv
<1> USE ProcessAssumption
<1> USE DEF tables, rowLocks, local
<1>1. CASE t \in Consumer /\ CheckpointOffset(t)
  BY <1>a, <1>1, Zenon DEF CheckpointOffset, Goto, TypeOK, Untouched, KeepsLocals, KeepsLocks, KeepsRows
<1>2. CASE t \in Consumer /\ ConsumeSegment(t)
  <2>1. cause'[u] = cause[u] /\ (u \in Consumer => next'[u] = next[u])
    BY <1>a, <1>2, Zenon DEF ConsumeSegment, TypeOK
  <2>. QED
    BY <1>a, <1>2, <2>1, Zenon DEF ConsumeSegment, Goto, TypeOK, Untouched, KeepsLocals, KeepsLocks, KeepsRows
<1>3. CASE t \in Consumer /\ LockCheckpoint(t)
  <2>1. \A s \in Stream : cpLock'[s] = u <=> cpLock[s] = u
    BY <1>a, <1>3, TxAssumption, Zenon DEF LockCheckpoint, TypeOK, Lock, Locks
  <2>. QED
    BY <1>a, <1>3, <2>1, Zenon DEF LockCheckpoint, Goto, TypeOK, Untouched, KeepsLocals, KeepsLocks, KeepsRows
<1>4. CASE t \in Consumer /\ CheckpointConflict(t)
  BY <1>a, <1>4, Zenon DEF CheckpointConflict, Goto, TypeOK, Untouched, KeepsLocals, KeepsLocks, KeepsRows
<1>5. CASE t \in Consumer /\ CommitEvent(t)
  <2>1. KeepsLocks(u) /\ cause'[u] = cause[u] /\ out'[u] = out[u] /\ root'[u] = root[u]
    BY <1>a, <1>5, EndTransactionOthers, Zenon DEF CommitEvent
  <2>2. KeepsLocals(u)
    BY <1>a, <1>5, <2>1, Zenon DEF CommitEvent, Goto, KeepsLocals, TypeOK
  <2>3. \A s \in Stream : cpLock[s] = u => checkpoint'[s] = checkpoint[s]
    BY <1>a, <1>5, Zenon DEF CommitEvent, TypeOK, TxOK, ConsumerOK, Working, At
  <2>4. WriteInstance(t) /\ WriteDeadlines(t, {})
    BY <1>5, Zenon DEF CommitEvent
  <2>5. KeepsRows(u)
    BY <2>3, <2>4, CommitOthers, ZenonT(40) DEF KeepsRows
  <2>. QED
    BY <2>1, <2>2, <2>5, ZenonT(30) DEF Untouched
<1>6. CASE t \in Pump /\ \E d \in Deadline : AcquireDeadline(t, d)
  <2>1. PICK d \in Deadline : AcquireDeadline(t, d)
    BY <1>6, Zenon
  <2>2. \A i \in Instance : instLock'[i] = u <=> instLock[i] = u
    BY <1>a, <2>1, TxAssumption, Zenon DEF AcquireDeadline, TypeOK, Lock, Locks
  <2>3. \A e \in Deadline : dlLock'[e] = u <=> dlLock[e] = u
    BY <1>a, <2>1, TxAssumption DEF AcquireDeadline, Skipped, TypeOK
  <2>. QED
    BY <1>a, <2>1, <2>2, <2>3, Zenon DEF AcquireDeadline, Goto, TypeOK, Untouched, KeepsLocals, KeepsLocks, KeepsRows
<1>7. CASE t \in Pump /\ (DeadlineFails(t) \/ SaveInstanceFails(t))
  BY <1>a, <1>7, Zenon DEF DeadlineFails, SaveInstanceFails, Goto, TypeOK, Untouched, KeepsLocals, KeepsLocks, KeepsRows
<1>8. CASE t \in Pump /\ CommitDeadline(t)
  <2>1. KeepsLocks(u) /\ cause'[u] = cause[u] /\ out'[u] = out[u] /\ root'[u] = root[u]
    BY <1>a, <1>8, EndTransactionOthers, Zenon DEF CommitDeadline
  <2>2. KeepsLocals(u)
    BY <1>a, <1>8, <2>1, Zenon DEF CommitDeadline, Goto, KeepsLocals, TypeOK
  <2>3. WriteInstance(t) /\ WriteDeadlines(t, {cause[t]}) /\ pc[t] # "idle"
    BY <1>8, Zenon DEF CommitDeadline, At
  <2>4. checkpoint' = checkpoint
    BY <1>8, Zenon DEF CommitDeadline
  <2>5. KeepsRows(u)
    BY <1>8, <2>3, <2>4, CommitOthers, ZenonT(40) DEF KeepsRows
  <2>. QED
    BY <2>1, <2>2, <2>5, ZenonT(30) DEF Untouched
<1>9. CASE t \in Pump /\ PostponeDeadline(t)
  <2>1. KeepsLocks(u) /\ cause'[u] = cause[u] /\ out'[u] = out[u] /\ root'[u] = root[u]
    BY <1>a, <1>9, EndTransactionOthers, Zenon DEF PostponeDeadline
  <2>. QED
    BY <1>a, <1>9, <2>1, Zenon DEF PostponeDeadline, Goto, TypeOK, Untouched, KeepsLocals, KeepsRows
<1>10. CASE LoadInstance(t)
  <2>1. \A i \in Instance : instLock'[i] = u <=> instLock[i] = u
    BY <1>a, <1>10, TxAssumption, Zenon DEF LoadInstance, TypeOK, Lock, Locks
  <2>. QED
    BY <1>a, <1>10, <2>1, Zenon DEF LoadInstance, Goto, TypeOK, Untouched, KeepsLocals, KeepsLocks, KeepsRows
<1>11. CASE HandleMessage(t)
  <2>1. out'[u] = out[u]
    BY <1>a, <1>11, Zenon DEF HandleMessage, TypeOK
  <2>. QED
    BY <1>a, <1>11, <2>1, Zenon DEF HandleMessage, Goto, TypeOK, Untouched, KeepsLocals, KeepsLocks, KeepsRows
<1>12. CASE \E d \in Deadline : LockDoomedDeadline(t, d)
  <2>1. \A e \in Deadline : dlLock'[e] = u <=> dlLock[e] = u
    BY <1>a, <1>12, TxAssumption, Zenon DEF LockDoomedDeadline, TypeOK, Lock, Locks
  <2>. QED
    BY <1>a, <1>12, <2>1, Zenon DEF LockDoomedDeadline, TypeOK, Untouched, KeepsLocals, KeepsLocks, KeepsRows
<1>13. CASE EndInstance(t) \/ SaveInstance(t)
  BY <1>a, <1>13, Zenon DEF EndInstance, SaveInstance, Goto, TypeOK, Untouched, KeepsLocals, KeepsLocks, KeepsRows
<1>14. CASE Rollback(t)
  <2>1. KeepsLocks(u) /\ cause'[u] = cause[u] /\ out'[u] = out[u] /\ root'[u] = root[u]
    BY <1>a, <1>14, EndTransactionOthers, Zenon DEF Rollback
  <2>. QED
    BY <1>a, <1>14, <2>1, Zenon DEF Rollback, Goto, TypeOK, Untouched, KeepsLocals, KeepsRows
<1>. QED
  BY <1>1, <1>2, <1>3, <1>4, <1>5, <1>6, <1>7, <1>8, <1>9, <1>10, <1>11, <1>12, <1>13, <1>14,
     Zenon DEF StepOf, Consume, Deliver, Dispatch

-------------------------------------------------------------------------------
(***************************************************************************)
(* Every step keeps what the invariant claims of the transaction that      *)
(* takes it.                                                               *)
(***************************************************************************)
LEMMA EndedTxOK ==
  ASSUME TypeOK, NEW t \in Tx, EndTransaction(t),
         pc'[t] \in {"idle", "ready"}, t \in Pump => pc'[t] = "idle"
  PROVE  TxOK(t)'
<1>1. cause'[t] = NoCause /\ out'[t] = Nothing
  BY Zenon DEF EndTransaction, TypeOK
<1>2. /\ \A s \in Stream : cpLock'[s] # t
      /\ \A i \in Instance : instLock'[i] # t
      /\ \A d \in Deadline : dlLock'[d] # t
  BY TxAssumption, Zenon DEF EndTransaction, Release, TypeOK, Locks
<1>3. ~Working(t)'
  BY Zenon DEF Working
<1>4. t \in Consumer => ConsumerOK(t)'
  BY <1>1, <1>3, Zenon DEF ConsumerOK
<1>5. t \in Pump => PumpOK(t)'
  BY <1>1, ProcessAssumption, Zenon DEF PumpOK
<1>6. EffectOK(t)'
  BY <1>1 DEF EffectOK, Nothing
<1>7. LocksOK(t)'
  BY <1>2, Zenon DEF LocksOK
<1>. QED
  BY <1>4, <1>5, <1>6, <1>7, Zenon DEF TxOK

(***************************************************************************)
(* Between two of its events a consumer holds nothing, and what it is      *)
(* about to skip holds no event.                                           *)
(***************************************************************************)
LEMMA ConsumeSegmentOK ==
  ASSUME IInv, TypeOK', NEW w \in Consumer, ConsumeSegment(w)
  PROVE  TxOK(w)'
<1> DEFINE s == StreamOf[w]
<1>a. TypeOK /\ w \in Tx /\ w \notin Pump /\ TxOK(w) /\ s \in Stream
  BY ProcessAssumption, Zenon DEF IInv
<1>1. PICK end \in cp[w] + 1 .. Length[s] :
        LET wanted == {o \in cp[w] .. end - 1 : <<s, o>> \in Event} IN
        \/ /\ wanted # {}
           /\ cause' = [cause EXCEPT ![w] = <<s, Min(wanted)>>]
           /\ next' = [next EXCEPT ![w] = Min(wanted) + 1]
        \/ /\ wanted = {}
           /\ cause' = [cause EXCEPT ![w] = NoCause]
           /\ next' = [next EXCEPT ![w] = end]
  BY Zenon DEF ConsumeSegment
<1> DEFINE wanted == {o \in cp[w] .. end - 1 : <<s, o>> \in Event}
<1>2. pc[w] = "ready" /\ pc'[w] = "begun" /\ cp'[w] = cp[w] /\ out'[w] = out[w]
  BY <1>a, Zenon DEF ConsumeSegment, At, Goto, TypeOK
<1>3. cp[w] \in Nat /\ Length[s] \in Nat
  BY <1>a, ProcessAssumption, Zenon DEF TypeOK
<1>4. end \in Nat /\ cp[w] < end /\ wanted \in SUBSET Nat
  BY <1>3
<1>5. /\ cp[w] < next'[w]
      /\ cause'[w] \in Event \union {NoCause}
      /\ cause'[w] # NoCause => cause'[w] = <<s, next'[w] - 1>>
      /\ \A e \in Event : e[1] = s /\ cp[w] <= e[2] /\ e[2] < next'[w] => e = cause'[w]
  <2>1. CASE wanted # {}
    <3> DEFINE m == Min(wanted)
    <3>1. m \in wanted /\ \A y \in wanted : m <= y
      BY <1>4, <2>1, MinOfNats, Zenon
    <3>2. cause'[w] = <<s, m>> /\ next'[w] = m + 1
      BY <1>a, <1>1, <2>1, Zenon DEF TypeOK
    <3>3. m \in Nat /\ cp[w] <= m /\ m < end /\ <<s, m>> \in Event
      BY <1>3, <1>4, <3>1
    <3> HIDE DEF m
    <3>4. ASSUME NEW e \in Event, e[1] = s, cp[w] <= e[2], e[2] < m + 1 PROVE e = <<s, m>>
      <4>1. e[2] \in Nat /\ e = <<s, e[2]>>
        BY <3>4, EventShape, Zenon
      <4>2. e[2] \in wanted
        BY <1>3, <1>4, <3>3, <3>4, <4>1
      <4>3. e[2] = m
        BY <3>1, <3>3, <3>4, <4>1, <4>2
      <4>. QED
        BY <4>1, <4>3, Zenon
    <3>5. cp[w] < m + 1 /\ m + 1 - 1 = m
      BY <1>3, <3>3
    <3>. QED
      BY <3>2, <3>3, <3>4, <3>5
  <2>2. CASE wanted = {}
    <3>1. cause'[w] = NoCause /\ next'[w] = end
      BY <1>a, <1>1, <2>2, Zenon DEF TypeOK
    <3>2. ASSUME NEW e \in Event, e[1] = s, cp[w] <= e[2], e[2] < end PROVE FALSE
      <4>1. e[2] \in Nat /\ e = <<s, e[2]>>
        BY <3>2, EventShape, Zenon
      <4>2. e[2] \in wanted
        BY <1>3, <1>4, <3>2, <4>1
      <4>. QED
        BY <2>2, <4>2, Zenon
    <3>. QED
      BY <1>4, <3>1, <3>2, Zenon
  <2>. QED
    BY <2>1, <2>2, Zenon
<1> HIDE DEF wanted
<1>6. UNCHANGED <<cpLock, instLock, dlLock>>
  BY Zenon DEF ConsumeSegment, rowLocks
<1>7. ConsumerOK(w)'
  BY <1>2, <1>5, Zenon DEF ConsumerOK, Working
<1>8. out'[w] = Nothing
  BY <1>a, <1>2, Zenon DEF TxOK, EffectOK
<1>9. EffectOK(w)'
  BY <1>2, <1>8 DEF EffectOK, Nothing
<1>10. LocksOK(w)'
  BY <1>a, <1>2, <1>6, Zenon DEF TxOK, LocksOK, Working
<1>. QED
  BY <1>a, <1>7, <1>9, <1>10, Zenon DEF TxOK

\* A transaction establishes what is claimed of it at its next label.
LEMMA OwnStepOK ==
  ASSUME IInv, TypeOK', NEW t \in Tx, StepOf(t)
  PROVE  TxOK(t)'
<1>a. TypeOK /\ TxOK(t) /\ DeadlinesOK
  BY Zenon DEF IInv, TablesOK
<1> USE ProcessAssumption
<1> USE DEF tables, rowLocks, local
<1>1. CASE t \in Consumer /\ CheckpointOffset(t)
  <2>1. /\ pc[t] = "idle" /\ pc'[t] = "ready"
        /\ UNCHANGED <<cause, out, root, target, cpLock, instLock, dlLock>>
    BY <1>a, <1>1, Zenon DEF CheckpointOffset, At, Goto, TypeOK
  <2>2. ConsumerOK(t)' /\ EffectOK(t)' /\ LocksOK(t)'
    BY <1>a, <1>1, <2>1, Zenon DEF TxOK, ConsumerOK, EffectOK, LocksOK, Working, Nothing
  <2>. QED
    BY <1>1, <2>2, Zenon DEF TxOK
<1>2. CASE t \in Consumer /\ ConsumeSegment(t)
  BY <1>2, ConsumeSegmentOK, Zenon
<1>3. CASE t \in Consumer /\ LockCheckpoint(t)
  <2>1. /\ pc[t] = "begun" /\ StreamOf[t] \in Stream
        /\ pc'[t] = IF cause[t] = NoCause \/ Inst(t) = NoInstance THEN "done" ELSE "routed"
        /\ cpLock' = [cpLock EXCEPT ![StreamOf[t]] = t]
        /\ checkpoint[StreamOf[t]] = cp[t]
        /\ UNCHANGED <<checkpoint, cp, next, cause, out, root, target, instLock, dlLock>>
    BY <1>a, <1>3, Zenon DEF LockCheckpoint, At, Goto, Lock, TypeOK
  <2>2. Inst(t)' = Inst(t)
    BY <2>1, Zenon DEF Inst
  <2>3. ConsumerOK(t)'
    <3>1. cause[t] # NoCause /\ Inst(t) # NoInstance => Inst(t) \in Instance
      BY <1>a, InstType, Zenon
    <3>2. cpLock'[StreamOf[t]] = t
      BY <1>a, <2>1, Zenon DEF TypeOK, Locks
    <3>. QED
      BY <1>a, <1>3, <2>1, <2>2, <3>1, <3>2, Zenon DEF TxOK, ConsumerOK, Working
  <2>4. EffectOK(t)'
    BY <1>a, <2>1, Zenon DEF TxOK, EffectOK, Nothing
  <2>5. LocksOK(t)'
    <3>1. \A r \in Stream : cpLock[r] # t
      BY <1>a, <2>1, Zenon DEF TxOK, LocksOK, Working
    <3>2. \A r \in Stream : cpLock'[r] = t => r = StreamOf[t]
      BY <1>a, <2>1, <3>1, Zenon DEF TypeOK, Locks
    <3>. QED
      BY <1>a, <1>3, <2>1, <3>2, Zenon DEF TxOK, LocksOK, Working
  <2>. QED
    BY <1>3, <2>3, <2>4, <2>5, Zenon DEF TxOK
<1>4. CASE t \in Consumer /\ CheckpointConflict(t)
  <2>1. /\ pc[t] = "begun" /\ pc'[t] = "idle" /\ cause'[t] = NoCause
        /\ UNCHANGED <<cp, next, out, root, target, cpLock, instLock, dlLock>>
    BY <1>a, <1>4, Zenon DEF CheckpointConflict, At, Goto, TypeOK
  <2>2. ConsumerOK(t)' /\ EffectOK(t)' /\ LocksOK(t)'
    BY <1>a, <1>4, <2>1, Zenon DEF TxOK, ConsumerOK, EffectOK, LocksOK, Working, Nothing
  <2>. QED
    BY <1>4, <2>2, Zenon DEF TxOK
<1>5. CASE t \in Consumer /\ CommitEvent(t)
  <2>1. EndTransaction(t) /\ pc'[t] \in {"idle", "ready"} /\ t \notin Pump
    BY <1>a, <1>5, Zenon DEF CommitEvent, Goto, TypeOK
  <2>. QED
    BY <1>a, <2>1, EndedTxOK, Zenon
<1>6. ASSUME t \in Pump, NEW d \in Deadline, AcquireDeadline(t, d) PROVE TxOK(t)'
  <2>1. /\ pc[t] = "idle" /\ pc'[t] = "routed" /\ cause'[t] = d
        /\ d \in deadlines /\ target[d] \in Instance
        /\ instLock' = [instLock EXCEPT ![target[d]] = t]
        /\ UNCHANGED <<deadlines, target, instances, cpLock, out, root>>
    BY <1>a, <1>6, Zenon DEF AcquireDeadline, At, Goto, Lock, TypeOK, DeadlinesOK
  <2>2. dlLock'[d] = t
    BY <1>a, <1>6, Zenon DEF AcquireDeadline
  <2>3. Inst(t)' = target[d] /\ d # NoCause /\ d \notin Event
    BY <2>1, Zenon DEF Inst
  <2>4. Owns(t)'
    BY <1>a, <2>1, <2>3 DEF Owns, TypeOK, Locks
  <2>5. PumpOK(t)'
    BY <2>1, <2>2, <2>4, Zenon DEF PumpOK
  <2>6. EffectOK(t)'
    BY <1>a, <2>1, Zenon DEF TxOK, EffectOK, Nothing
  <2>7. LocksOK(t)'
    <3>1. /\ \A r \in Stream : cpLock[r] # t
          /\ \A i \in Instance : instLock[i] # t
      BY <1>a, <2>1, Zenon DEF TxOK, LocksOK, Working
    <3>2. \A i \in Instance : instLock'[i] = t => i = target[d]
      BY <1>a, <2>1, <3>1, Zenon DEF TypeOK, Locks
    <3>. QED
      BY <1>6, <2>1, <2>3, <3>1, <3>2, Zenon DEF LocksOK, Working
  <2>. QED
    BY <1>6, <2>5, <2>6, <2>7, Zenon DEF TxOK
<1>7. CASE t \in Pump /\ (DeadlineFails(t) \/ SaveInstanceFails(t))
  <2>1. /\ pc[t] \in {"routed", "handling", "handled"} /\ pc'[t] = "failed"
        /\ pc[t] = "handled" => MarshalCanFail
        /\ UNCHANGED <<cause, out, root, target, deadlines, instances, cpLock, instLock, dlLock>>
    BY <1>a, <1>7, Zenon DEF DeadlineFails, SaveInstanceFails, At, Goto, TypeOK
  <2>2. Inst(t)' = Inst(t) /\ (Owns(t) => Owns(t)')
    BY <2>1, Zenon DEF Inst, Owns
  <2>3. PumpOK(t)'
    BY <1>a, <1>7, <2>1, <2>2, Zenon DEF TxOK, PumpOK
  <2>4. EffectOK(t)'
    BY <1>a, <2>1, <2>2 DEF TxOK, EffectOK, Nothing
  <2>5. LocksOK(t)'
    BY <1>a, <1>7, <2>1, <2>2, Zenon DEF TxOK, LocksOK, Working
  <2>. QED
    BY <1>7, <2>3, <2>4, <2>5, Zenon DEF TxOK
<1>8. CASE t \in Pump /\ (CommitDeadline(t) \/ PostponeDeadline(t))
  <2>1. EndTransaction(t) /\ pc'[t] = "idle" /\ pc'[t] \in {"idle", "ready"}
    BY <1>a, <1>8, Zenon DEF CommitDeadline, PostponeDeadline, Goto, TypeOK
  <2>. QED
    BY <1>a, <2>1, EndedTxOK, Zenon
<1>9. CASE Rollback(t)
  <2>1. EndTransaction(t) /\ pc'[t] = "idle" /\ pc'[t] \in {"idle", "ready"}
    BY <1>a, <1>9, Zenon DEF Rollback, Goto, TypeOK
  <2>. QED
    BY <1>a, <2>1, EndedTxOK, Zenon
<1>10. CASE LoadInstance(t)
  <2>1. /\ pc[t] = "routed" /\ instLock[Inst(t)] \in {NoTx, t}
        /\ pc'[t] = IF ~instances[Inst(t)].ended THEN "handling" ELSE IF t \in Pump THEN "failed" ELSE "done"
        /\ instLock' = [instLock EXCEPT ![Inst(t)] = t]
        /\ root'[t] = instances[Inst(t)].state
        /\ UNCHANGED <<checkpoint, cp, next, cause, out, target, deadlines, instances, cpLock, dlLock>>
    BY <1>a, <1>10, Zenon DEF LoadInstance, At, Goto, Lock, TypeOK
  <2>2. Inst(t)' = Inst(t)
    BY <2>1, Zenon DEF Inst
  <2>3. cause[t] # NoCause /\ Inst(t) \in Instance
    BY <1>a, <2>1, Zenon DEF TxOK, ConsumerOK, PumpOK, Owns
  <2>4. Owns(t)'
    BY <1>a, <2>1, <2>2, <2>3 DEF Owns, TypeOK, Locks
  <2>5. t \in Consumer => ConsumerOK(t)'
    BY <1>a, <2>1, <2>2, Zenon DEF TxOK, ConsumerOK, Working
  <2>6. t \in Pump => PumpOK(t)'
    BY <1>a, <2>1, <2>4, Zenon DEF TxOK, PumpOK
  <2>7. EffectOK(t)'
    <3>1. out'[t] = Nothing
      BY <1>a, <2>1, Zenon DEF TxOK, EffectOK
    <3>. QED
      BY <2>1, <2>2, <2>4, <3>1 DEF EffectOK, Nothing
  <2>8. LocksOK(t)'
    <3>1. \A i \in Instance : instLock'[i] = t => i = Inst(t)
      BY <1>a, <2>1, Zenon DEF TypeOK, Locks, TxOK, LocksOK
    <3>2. \A d \in Deadline : dlLock[d] = t => t \notin Consumer
      BY <1>a, <2>1, Zenon DEF TxOK, LocksOK
    <3>3. Working(t)'
      BY <2>1, Zenon DEF Working
    <3>. QED
      BY <1>a, <2>1, <2>2, <2>3, <3>1, <3>2, <3>3, Zenon DEF TxOK, LocksOK
  <2>. QED
    BY <2>5, <2>6, <2>7, <2>8, Zenon DEF TxOK
<1>11. CASE HandleMessage(t)
  <2>1. PICK commands, mutated, ended \in BOOLEAN, deadline \in FreshDeadlines \union {NoCause} :
          out' = [out EXCEPT ![t] = [commands |-> commands, mutated |-> mutated, ended |-> ended,
                                     deadline |-> IF ended THEN NoCause ELSE deadline]]
    BY <1>11, Zenon DEF HandleMessage
  <2>2. /\ pc[t] = "handling" /\ pc'[t] = "handled"
        /\ UNCHANGED <<checkpoint, cp, next, cause, root, target, deadlines, instances,
                       cpLock, instLock, dlLock>>
    BY <1>a, <1>11, Zenon DEF HandleMessage, At, Goto, TypeOK
  <2>3. /\ out'[t].ended => out'[t].deadline = NoCause
        /\ out'[t].deadline \in FreshDeadlines \union {NoCause}
    BY <1>a, <2>1, Zenon DEF TypeOK
  <2>4. Inst(t)' = Inst(t) /\ (Owns(t) => Owns(t)')
    BY <2>2, Zenon DEF Inst, Owns
  <2>5. t \in Consumer => ConsumerOK(t)'
    BY <1>a, <2>2, <2>4, Zenon DEF TxOK, ConsumerOK, Working
  <2>6. t \in Pump => PumpOK(t)'
    BY <1>a, <2>2, <2>4, Zenon DEF TxOK, PumpOK
  <2>7. EffectOK(t)'
    <3>1. out'[t].deadline # NoCause => target'[out'[t].deadline] = NoInstance
      BY <2>2, <2>3, Zenon DEF FreshDeadlines
    <3>2. Owns(t) /\ root[t] = instances[Inst(t)].state /\ ~instances[Inst(t)].ended
      BY <1>a, <2>2, Zenon DEF TxOK, EffectOK
    <3>. QED
      BY <2>2, <2>3, <2>4, <3>1, <3>2, Zenon DEF EffectOK
  <2>8. LocksOK(t)'
    BY <1>a, <2>2, <2>4, Zenon DEF TxOK, LocksOK, Working
  <2>. QED
    BY <2>5, <2>6, <2>7, <2>8, Zenon DEF TxOK
<1>12. ASSUME NEW d \in Deadline, LockDoomedDeadline(t, d) PROVE TxOK(t)'
  <2>1. /\ pc[t] = "handled" /\ d \in deadlines /\ target[d] = Inst(t)
        /\ dlLock' = [dlLock EXCEPT ![d] = t]
        /\ UNCHANGED <<checkpoint, cp, next, cause, out, root, target, deadlines, instances,
                       cpLock, instLock, pc>>
    BY <1>12, Zenon DEF LockDoomedDeadline, At, Lock, DeadlinesOf
  <2>2. Inst(t)' = Inst(t) /\ (Owns(t) => Owns(t)') /\ Owns(t)
    BY <1>a, <2>1, Zenon DEF Inst, Owns, TxOK, EffectOK
  <2>3. \A e \in Deadline : dlLock'[e] = IF e = d THEN t ELSE dlLock[e]
    BY <1>a, <2>1, Zenon DEF TypeOK, Locks
  <2>4. t \in Consumer => ConsumerOK(t)'
    BY <1>a, <2>1, <2>2, ZenonT(30) DEF TxOK, ConsumerOK, Working
  <2>5. t \in Pump => PumpOK(t)'
    BY <1>a, <2>1, <2>2, <2>3 DEF TxOK, PumpOK, TypeOK
  <2>6. EffectOK(t)'
    BY <1>a, <2>1, <2>2, Zenon DEF TxOK, EffectOK
  <2>7. LocksOK(t)'
    BY <1>a, <2>1, <2>2, <2>3, Zenon DEF TxOK, LocksOK, Working
  <2>. QED
    BY <2>4, <2>5, <2>6, <2>7, Zenon DEF TxOK
<1>13. CASE EndInstance(t) \/ SaveInstance(t)
  <2>1. /\ pc[t] = "handled" /\ pc'[t] = "done"
        /\ UNCHANGED <<checkpoint, cp, next, cause, out, root, target, deadlines, instances,
                       cpLock, instLock, dlLock>>
    BY <1>a, <1>13, Zenon DEF EndInstance, SaveInstance, At, Goto, TypeOK
  <2>2. Inst(t)' = Inst(t) /\ (Owns(t) => Owns(t)')
    BY <2>1, Zenon DEF Inst, Owns
  <2>3. t \in Consumer => ConsumerOK(t)'
    BY <1>a, <2>1, <2>2, Zenon DEF TxOK, ConsumerOK, Working
  <2>4. t \in Pump => PumpOK(t)'
    BY <1>a, <2>1, <2>2, Zenon DEF TxOK, PumpOK
  <2>5. EffectOK(t)'
    BY <1>a, <2>1, <2>2, Zenon DEF TxOK, EffectOK
  <2>6. LocksOK(t)'
    BY <1>a, <2>1, <2>2, Zenon DEF TxOK, LocksOK, Working
  <2>. QED
    BY <2>3, <2>4, <2>5, <2>6, Zenon DEF TxOK
<1>. QED
  BY <1>1, <1>2, <1>3, <1>4, <1>5, <1>6, <1>7, <1>8, <1>9, <1>10, <1>11, <1>12, <1>13,
     Zenon DEF StepOf, Consume, Deliver, Dispatch

-------------------------------------------------------------------------------
(***************************************************************************)
(* Every commit keeps what the invariant claims of the tables.             *)
(***************************************************************************)
ScheduledOnce ==
  \A t, u \in Tx : out[t].deadline # NoCause /\ out[t].deadline = out[u].deadline => t = u

\* No two transactions are about to schedule the same deadline.
LEMMA ScheduledOnceStep ==
  ASSUME IInv, NEW t \in Tx, StepOf(t)
  PROVE  ScheduledOnce'
<1>a. TypeOK /\ ScheduledOnce
  BY Zenon DEF IInv, TablesOK, DeadlinesOK, ScheduledOnce
<1>1. \A u \in Tx : u # t => out'[u] = out[u]
  BY OthersUntouched, Zenon DEF Untouched, KeepsLocals
<1>2. \/ out'[t] = out[t]
      \/ out'[t].deadline = NoCause
      \/ out'[t].deadline \in FreshDeadlines
  <2>1. CASE HandleMessage(t)
    <3>1. PICK commands, mutated, ended \in BOOLEAN, deadline \in FreshDeadlines \union {NoCause} :
            out' = [out EXCEPT ![t] = [commands |-> commands, mutated |-> mutated, ended |-> ended,
                                       deadline |-> IF ended THEN NoCause ELSE deadline]]
      BY <2>1, Zenon DEF HandleMessage
    <3>. QED
      BY <1>a, <3>1, Zenon DEF TypeOK
  <2>2. CASE EndTransaction(t)
    BY <1>a, <2>2, Zenon DEF EndTransaction, TypeOK, Nothing
  <2>3. CASE UNCHANGED out
    BY <2>3, Zenon
  <2>4. HandleMessage(t) \/ EndTransaction(t) \/ UNCHANGED out
    BY Zenon DEF StepOf, Consume, Deliver, Dispatch, CheckpointOffset, ConsumeSegment, LockCheckpoint,
           CheckpointConflict, CommitEvent, AcquireDeadline, DeadlineFails, SaveInstanceFails,
           CommitDeadline, PostponeDeadline, LoadInstance, LockDoomedDeadline, EndInstance,
           SaveInstance, Rollback, local
  <2>. QED
    BY <2>1, <2>2, <2>3, <2>4, Zenon
<1>3. \A u \in Tx : u # t /\ out'[t].deadline # NoCause => out'[u].deadline # out'[t].deadline
  BY <1>a, <1>1, <1>2, Zenon DEF FreshDeadlines, ScheduledOnce
<1>. QED
  BY <1>a, <1>1, <1>3, Zenon DEF ScheduledOnce

(***************************************************************************)
(* Steps that commit nothing leave the tables as they are.                 *)
(***************************************************************************)
LEMMA QuietTablesOK ==
  ASSUME TablesOK, ScheduledOnce',
         UNCHANGED <<checkpoint, instances, deadlines, target, failures, enqueued, consumed, mutations>>
  PROVE  TablesOK'
  BY Zenon DEF TablesOK, EventEffectsOnce, NoLostMutation, DeadlinesOK, ScheduledOnce, EffectsCounted

(***************************************************************************)
(* The instances and deadlines after a commit: a mutation extends the      *)
(* state that was loaded, which is still the instance's state, and no      *)
(* deadline of an instance that ends survives.                             *)
(***************************************************************************)
LEMMA CommitInstances ==
  ASSUME IInv, NEW t \in Tx, NEW removed, WriteInstance(t), WriteDeadlines(t, removed)
  PROVE  /\ NoLostMutation'
         /\ \A d \in deadlines' : target'[d] \in Instance /\ ~instances'[target'[d]].ended
         /\ \A d \in deadlines' : d \in deadlines \ removed \/ target[d] = NoInstance
         /\ \A d \in Deadline : target'[d] = NoInstance => target[d] = NoInstance
<1>a. TypeOK /\ TxOK(t) /\ NoLostMutation /\ DeadlinesOK
  BY Zenon DEF IInv, TablesOK
<1>b. NoInstance \notin Instance
  BY ProcessAssumption, Zenon
<1>1. out[t].ended \/ out[t].mutated \/ out[t].deadline # NoCause =>
        /\ Inst(t) \in Instance
        /\ root[t] = instances[Inst(t)].state
        /\ ~instances[Inst(t)].ended
  <2>1. ~Nothing.ended /\ ~Nothing.mutated /\ Nothing.deadline = NoCause
    BY DEF Nothing
  <2>2. out[t].ended \/ out[t].mutated \/ out[t].deadline # NoCause => out[t] # Nothing
    BY <2>1, Zenon
  <2>. QED
    BY <1>a, <2>2, Zenon DEF TxOK, EffectOK, Owns
<1>2. /\ out[t].ended => out[t].deadline = NoCause
      /\ out[t].deadline # NoCause => target[out[t].deadline] = NoInstance
      /\ out[t].deadline \in Deadline \union {NoCause}
  BY <1>a, Zenon DEF TxOK, EffectOK, TypeOK, Effect
<1>3. ASSUME NEW i \in Instance, i # Inst(t)
      PROVE  instances'[i] = instances[i] /\ mutations'[i] = mutations[i]
  BY <1>a, <1>3, Zenon DEF WriteInstance, TypeOK
<1>4. ASSUME Inst(t) \in Instance
      PROVE  /\ out[t].ended => instances'[Inst(t)].ended
             /\ ~out[t].ended => instances'[Inst(t)].ended = instances[Inst(t)].ended
             /\ ~out[t].ended /\ ~instances[Inst(t)].ended =>
                  instances'[Inst(t)].state = mutations'[Inst(t)]
  <2>1. CASE out[t].ended
    <3>1. instances'[Inst(t)] = [ended |-> TRUE, state |-> {}]
      BY <1>a, <1>4, <2>1, Zenon DEF WriteInstance, TypeOK
    <3>. QED
      BY <2>1, <3>1
  <2>2. CASE ~out[t].ended /\ out[t].mutated
    <3>1. instances'[Inst(t)] = [ended |-> instances[Inst(t)].ended, state |-> root[t] \union {cause[t]}]
      BY <1>a, <1>4, <2>2, Zenon DEF WriteInstance, TypeOK
    <3>2. mutations'[Inst(t)] = mutations[Inst(t)] \union {cause[t]}
      BY <1>a, <1>4, <2>2, Zenon DEF WriteInstance, TypeOK
    <3>3. root[t] = mutations[Inst(t)]
      BY <1>a, <1>1, <1>4, <2>2, Zenon DEF NoLostMutation
    <3>. QED
      BY <2>2, <3>1, <3>2, <3>3
  <2>3. CASE ~out[t].ended /\ ~out[t].mutated
    BY <1>a, <1>4, <2>3, Zenon DEF WriteInstance, NoLostMutation
  <2>. QED
    BY <2>1, <2>2, <2>3, Zenon
<1>5. NoLostMutation'
  <2> SUFFICES ASSUME NEW i \in Instance, ~instances'[i].ended
               PROVE  instances'[i].state = mutations'[i]
    BY Zenon DEF NoLostMutation
  <2>1. CASE i = Inst(t)
    BY <1>4, <2>1, Zenon
  <2>2. CASE i # Inst(t)
    BY <1>a, <1>3, <2>2, Zenon DEF NoLostMutation
  <2>. QED
    BY <2>1, <2>2, Zenon
<1>6. /\ \A d \in deadlines' : \/ d = out[t].deadline /\ d # NoCause
                               \/ /\ d \in deadlines \ removed
                                  /\ ~(out[t].ended /\ target[d] = Inst(t))
      /\ \A d \in Deadline : target'[d] = IF d = out[t].deadline /\ d # NoCause THEN Inst(t) ELSE target[d]
  <2>1. \A d : d \in Scheduled(t) <=> d = out[t].deadline /\ d # NoCause
    BY Zenon DEF Scheduled
  <2>. QED
    BY <2>1, Zenon DEF WriteDeadlines, DeadlinesOf
<1>7. ASSUME NEW d \in deadlines'
      PROVE  /\ target'[d] \in Instance /\ ~instances'[target'[d]].ended
             /\ d \in deadlines \ removed \/ target[d] = NoInstance
  <2>1. CASE d = out[t].deadline /\ d # NoCause
    <3>1. d \in Deadline /\ ~out[t].ended /\ Inst(t) \in Instance /\ ~instances[Inst(t)].ended
      BY <1>1, <1>2, <2>1, Zenon
    <3>2. target'[d] = Inst(t) /\ target[d] = NoInstance
      BY <1>2, <1>6, <2>1, <3>1, Zenon
    <3>. QED
      BY <1>4, <3>1, <3>2, Zenon
  <2>2. CASE d \in deadlines \ removed /\ ~(out[t].ended /\ target[d] = Inst(t))
    <3>1. target[d] \in Instance /\ ~instances[target[d]].ended /\ d \in Deadline
      BY <1>a, <2>2, Zenon DEF DeadlinesOK, TypeOK
    <3>2. target'[d] = target[d]
      BY <1>b, <1>2, <1>6, <3>1, Zenon
    <3>3. ~instances'[target[d]].ended
      BY <1>3, <1>4, <2>2, <3>1, Zenon
    <3>. QED
      BY <2>2, <3>1, <3>2, <3>3, Zenon
  <2>. QED
    BY <1>6, <2>1, <2>2, Zenon
<1>8. \A d \in Deadline : target'[d] = NoInstance => target[d] = NoInstance
  BY <1>b, <1>1, <1>6, Zenon
<1>. QED
  BY <1>7, <1>8, <1>5, Zenon

(***************************************************************************)
(* The commit of an event: it is the next one, and nobody has consumed it. *)
(***************************************************************************)
LEMMA CommitEventTablesOK ==
  ASSUME IInv, TypeOK', ScheduledOnce', NEW w \in Consumer, CommitEvent(w)
  PROVE  TablesOK'
<1> DEFINE s == StreamOf[w]
<1>a. /\ TypeOK /\ w \in Tx /\ ConsumerOK(w) /\ s \in Stream
      /\ EventEffectsOnce /\ DeadlinesOK /\ EffectsCounted
  BY ProcessAssumption, Zenon DEF IInv, TablesOK, TxOK
<1>1. /\ checkpoint[s] = cp[w] /\ cp[w] < next[w]
      /\ cause[w] \in Event \union {NoCause}
      /\ cause[w] # NoCause => cause[w] = <<s, next[w] - 1>>
      /\ \A e \in Event : e[1] = s /\ cp[w] <= e[2] /\ e[2] < next[w] => e = cause[w]
  BY <1>a, Zenon DEF ConsumerOK, Working, CommitEvent, At
<1>2. /\ checkpoint' = [checkpoint EXCEPT ![s] = next[w]]
      /\ consumed' = consumed \union ({cause[w]} \ {NoCause})
      /\ enqueued' = IF out[w].commands THEN [enqueued EXCEPT ![cause[w]] = enqueued[cause[w]] + 1]
                      ELSE enqueued
      /\ failures' = failures
      /\ WriteInstance(w) /\ WriteDeadlines(w, {})
  BY Zenon DEF CommitEvent, AddCommands
<1>3. out[w].commands => cause[w] # NoCause
  BY <1>a, NoMessageNoEffect, Zenon DEF IInv
<1>4. EventEffectsOnce'
  <2> SUFFICES ASSUME NEW e \in Event
               PROVE  /\ enqueued'[e] <= 1
                      /\ enqueued'[e] = 1 => e \in consumed'
                      /\ e \in consumed' <=> e[2] < checkpoint'[e[1]]
    BY Zenon DEF EventEffectsOnce
  <2>a. e[1] \in Stream /\ e[2] \in Nat /\ e = <<e[1], e[2]>> /\ e \in Cause /\ e # NoCause
    BY EventShape, Zenon
  <2>b. /\ enqueued[e] \in Nat /\ enqueued[e] <= 1
        /\ enqueued[e] = 1 => e \in consumed
        /\ e \in consumed <=> e[2] < checkpoint[e[1]]
    BY <1>a, <2>a, Zenon DEF EventEffectsOnce, TypeOK
  <2>c. cp[w] \in Nat /\ next[w] \in Nat
    BY <1>a, Zenon DEF TypeOK
  <2>1. CASE e = cause[w]
    <3>1. e[1] = s /\ e[2] = next[w] - 1
      BY <1>1, <2>a, <2>1
    <3>2. enqueued[e] = 0
      BY <1>1, <2>a, <2>b, <2>c, <3>1
    <3>3. enqueued'[e] <= 1
      BY <1>a, <1>2, <2>a, <2>1, <3>2 DEF TypeOK
    <3>4. e \in consumed'
      BY <1>2, <2>a, <2>1, Zenon
    <3>5. checkpoint'[e[1]] = next[w]
      BY <1>a, <1>2, <3>1, Zenon DEF TypeOK
    <3>. QED
      BY <2>c, <3>1, <3>3, <3>4, <3>5
  <2>2. CASE e # cause[w]
    <3>1. enqueued'[e] = enqueued[e] /\ (e \in consumed' <=> e \in consumed)
      BY <1>a, <1>2, <2>a, <2>2, Zenon DEF TypeOK
    <3>2. CASE e[1] = s
      <4>1. checkpoint'[e[1]] = next[w] /\ checkpoint[e[1]] = cp[w]
        BY <1>a, <1>1, <1>2, <3>2, Zenon DEF TypeOK
      <4>2. e[2] < next[w] <=> e[2] < cp[w]
        BY <1>1, <2>a, <2>c, <2>2, <3>2
      <4>. QED
        BY <2>b, <3>1, <4>1, <4>2, Zenon
    <3>3. CASE e[1] # s
      <4>1. checkpoint'[e[1]] = checkpoint[e[1]]
        BY <1>a, <1>2, <2>a, <3>3, Zenon DEF TypeOK
      <4>. QED
        BY <2>b, <3>1, <4>1, Zenon
    <3>. QED
      BY <3>2, <3>3, Zenon
  <2>. QED
    BY <2>1, <2>2, Zenon
<1>5. /\ NoLostMutation'
      /\ \A d \in deadlines' : target'[d] \in Instance /\ ~instances'[target'[d]].ended
      /\ \A d \in deadlines' : d \in deadlines \/ target[d] = NoInstance
      /\ \A d \in Deadline : target'[d] = NoInstance => target[d] = NoInstance
  BY <1>a, <1>2, CommitInstances, Zenon
<1>6. \A d \in Deadline : enqueued'[d] = enqueued[d] /\ enqueued[d] \in Nat
  <2>1. \A d \in Deadline : d \in Cause /\ d \notin Event
    BY ProcessAssumption, Zenon DEF Cause
  <2>. QED
    BY <1>a, <1>1, <1>2, <1>3, <2>1, Zenon DEF TypeOK
<1>7. DeadlinesOK'
  BY <1>a, <1>5, <1>6, Zenon DEF DeadlinesOK, ScheduledOnce
<1>8. EffectsCounted'
  <2> SUFFICES ASSUME NEW d \in Deadline
               PROVE  enqueued[d] <= (IF MarshalCanFail THEN failures[d] ELSE 0)
                                       + (IF d \in deadlines' THEN 0 ELSE 1)
    BY <1>2, <1>6, Zenon DEF EffectsCounted
  <2>1. /\ failures[d] \in Nat /\ enqueued[d] \in Nat
        /\ enqueued[d] <= (IF MarshalCanFail THEN failures[d] ELSE 0)
                            + (IF d \in deadlines THEN 0 ELSE 1)
        /\ target[d] = NoInstance => enqueued[d] = 0
    BY <1>a, <1>6, Zenon DEF DeadlinesOK, EffectsCounted, TypeOK
  <2>. QED
    BY <1>5, <2>1
<1>. QED
  BY <1>4, <1>5, <1>7, <1>8, Zenon DEF TablesOK

(***************************************************************************)
(* The commit of a deadline, delivered or postponed.                       *)
(***************************************************************************)
LEMMA DeadlineTablesOK ==
  ASSUME IInv, TypeOK', ScheduledOnce', NEW p \in Pump, CommitDeadline(p) \/ PostponeDeadline(p)
  PROVE  TablesOK'
<1> DEFINE c == cause[p]
<1>a. TypeOK /\ p \in Tx /\ TxOK(p) /\ TablesOK
  BY ProcessAssumption, ZenonT(30) DEF IInv
<1>1. /\ c \in deadlines /\ c \in Deadline /\ c \in Cause
      /\ target[c] \in Instance /\ target[c] # NoInstance
  <2>1. pc[p] # "idle"
    BY Zenon DEF CommitDeadline, PostponeDeadline, At
  <2>2. c \in deadlines
    BY <1>a, <2>1, Zenon DEF TxOK, PumpOK
  <2>. QED
    BY <1>a, <2>2, ProcessAssumption DEF TablesOK, DeadlinesOK, TypeOK, Cause
<1>2. \A e \in Event : e \in Cause /\ e # c
  BY <1>1, ProcessAssumption, Zenon DEF Cause
<1>3. enqueued' = IF out[p].commands THEN [enqueued EXCEPT ![c] = enqueued[c] + 1] ELSE enqueued
  BY Zenon DEF CommitDeadline, PostponeDeadline, AddCommands
<1>4. /\ \A d \in Cause : d # c => enqueued'[d] = enqueued[d]
      /\ enqueued'[c] = IF out[p].commands THEN enqueued[c] + 1 ELSE enqueued[c]
      /\ \A d \in Cause : enqueued[d] \in Nat
  BY <1>a, <1>1, <1>3, Zenon DEF TypeOK
<1>5. \A d \in Deadline : d \in Cause
  BY Zenon DEF Cause
<1>6. EventEffectsOnce'
  <2>1. UNCHANGED <<checkpoint, consumed>>
    BY Zenon DEF CommitDeadline, PostponeDeadline
  <2>. QED
    BY <1>a, <1>2, <1>4, <2>1, Zenon DEF TablesOK, EventEffectsOnce
<1>7. CASE CommitDeadline(p)
  <2>1. /\ NoLostMutation'
        /\ \A d \in deadlines' : target'[d] \in Instance /\ ~instances'[target'[d]].ended
        /\ \A d \in deadlines' : d \in deadlines \ {c} \/ target[d] = NoInstance
        /\ \A d \in Deadline : target'[d] = NoInstance => target[d] = NoInstance
    BY <1>a, <1>7, CommitInstances, Zenon DEF CommitDeadline
  <2>2. failures' = failures
    BY <1>7, Zenon DEF CommitDeadline
  <2>3. DeadlinesOK'
    BY <1>a, <1>1, <1>4, <1>5, <2>1, Zenon DEF TablesOK, DeadlinesOK, ScheduledOnce
  <2>4. c \notin deadlines'
    BY <1>1, <2>1, Zenon
  <2>5. EffectsCounted'
    <3> SUFFICES ASSUME NEW d \in Deadline
                 PROVE  enqueued'[d] <= (IF MarshalCanFail THEN failures[d] ELSE 0)
                                          + (IF d \in deadlines' THEN 0 ELSE 1)
      BY <2>2, Zenon DEF EffectsCounted
    <3>1. /\ failures[d] \in Nat /\ enqueued[d] \in Nat
          /\ enqueued[d] <= (IF MarshalCanFail THEN failures[d] ELSE 0)
                              + (IF d \in deadlines THEN 0 ELSE 1)
          /\ target[d] = NoInstance => enqueued[d] = 0
      BY <1>a, <1>4, <1>5, Zenon DEF TablesOK, DeadlinesOK, EffectsCounted, TypeOK
    <3>2. CASE d = c
      BY <1>1, <1>4, <2>4, <3>1, <3>2, SMTT(30)
    <3>3. CASE d # c
      BY <1>4, <1>5, <2>1, <3>1, <3>3
    <3>. QED
      BY <3>2, <3>3, Zenon
  <2>. QED
    BY <1>6, <2>1, <2>3, <2>5, Zenon DEF TablesOK
<1>8. CASE PostponeDeadline(p)
  <2>1. /\ UNCHANGED <<instances, deadlines, target, mutations>>
        /\ failures' = [failures EXCEPT ![c] = failures[c] + 1]
    BY <1>8, Zenon DEF PostponeDeadline
  <2>2. out[p].commands => MarshalCanFail
    BY <1>a, <1>8, Zenon DEF TxOK, EffectOK, PostponeDeadline, At
  <2>3. NoLostMutation' /\ DeadlinesOK'
    BY <1>a, <1>1, <1>4, <1>5, <2>1, Zenon DEF TablesOK, NoLostMutation, DeadlinesOK, ScheduledOnce
  <2>4. EffectsCounted'
    <3> SUFFICES ASSUME NEW d \in Deadline
                 PROVE  enqueued'[d] <= (IF MarshalCanFail THEN failures'[d] ELSE 0)
                                          + (IF d \in deadlines THEN 0 ELSE 1)
      BY <2>1, Zenon DEF EffectsCounted
    <3>1. /\ failures[d] \in Nat /\ enqueued[d] \in Nat
          /\ enqueued[d] <= (IF MarshalCanFail THEN failures[d] ELSE 0)
                              + (IF d \in deadlines THEN 0 ELSE 1)
      BY <1>a, <1>4, <1>5, Zenon DEF TablesOK, EffectsCounted, TypeOK
    <3>2. failures'[d] = IF d = c THEN failures[d] + 1 ELSE failures[d]
      BY <1>a, <2>1, Zenon DEF TypeOK
    <3>3. CASE d = c
      BY <1>4, <2>2, <3>1, <3>2, <3>3
    <3>4. CASE d # c
      BY <1>4, <1>5, <3>1, <3>2, <3>4, Zenon
    <3>. QED
      BY <3>3, <3>4, Zenon
  <2>. QED
    BY <1>6, <2>3, <2>4, Zenon DEF TablesOK
<1>. QED
  BY <1>7, <1>8, Zenon

-------------------------------------------------------------------------------
\* Every step is one of a transaction, or a deadline becomes due.
LEMMA NextIsAStep ==
  ASSUME Next
  PROVE  (\E t \in Tx : StepOf(t)) \/ (\E d \in Deadline : DeadlineBecomesDue(d))
  BY ProcessAssumption, Zenon DEF Next, StepOf

(***************************************************************************)
(* The invariant is inductive.                                             *)
(***************************************************************************)
LEMMA InitIInv == Init => IInv
<1> SUFFICES ASSUME Init PROVE IInv
  BY Zenon
<1>1. TypeOK
  <2>1. /\ cpLock \in Locks(Stream) /\ instLock \in Locks(Instance) /\ dlLock \in Locks(Deadline)
    BY Zenon DEF Init, Unlocked, Locks
  <2>2. instances \in [Instance -> Row]
    BY Zenon DEF Init, Row
  <2>3. out \in [Tx -> Effect]
    BY NothingType, Zenon DEF Init
  <2>. QED
    BY <2>1, <2>2, <2>3, Zenon DEF Init, TypeOK, Labels
<1>2. ASSUME NEW t \in Tx PROVE TxOK(t)
  <2>1. pc[t] = "idle" /\ cause[t] = NoCause /\ out[t] = Nothing
    BY Zenon DEF Init
  <2>2. /\ \A s \in Stream : cpLock[s] # t
        /\ \A i \in Instance : instLock[i] # t
        /\ \A d \in Deadline : dlLock[d] # t
    BY TxAssumption, Zenon DEF Init, Unlocked
  <2>3. ConsumerOK(t) /\ PumpOK(t) /\ EffectOK(t) /\ LocksOK(t)
    BY <2>1, <2>2 DEF ConsumerOK, PumpOK, EffectOK, LocksOK, Working, Nothing
  <2>. QED
    BY <2>3, Zenon DEF TxOK
<1>3. EventEffectsOnce
  <2> SUFFICES ASSUME NEW e \in Event
               PROVE  /\ enqueued[e] <= 1
                      /\ enqueued[e] = 1 => e \in consumed
                      /\ e \in consumed <=> e[2] < checkpoint[e[1]]
    BY Zenon DEF EventEffectsOnce
  <2>. QED
    BY EventShape DEF Init
<1>4. NoLostMutation
  BY Zenon DEF Init, NoLostMutation
<1>5. DeadlinesOK
  BY Zenon DEF Init, DeadlinesOK, Nothing, Cause
<1>6. EffectsCounted
  <2>1. \A d \in Deadline : enqueued[d] = 0 /\ failures[d] = 0
    BY Zenon DEF Init, Cause
  <2>. QED
    BY <2>1 DEF EffectsCounted
<1>. QED
  BY <1>1, <1>2, <1>3, <1>4, <1>5, <1>6, Zenon DEF IInv, TablesOK

\* Every step keeps the invariant.
LEMMA NextIInv ==
  ASSUME IInv, Next
  PROVE  IInv'
<1>a. TypeOK /\ TablesOK /\ \A t \in Tx : TxOK(t)
  BY Zenon DEF IInv
<1>1. TypeOK'
  BY <1>a, TypeStep, Zenon
<1>2. ASSUME NEW t \in Tx, StepOf(t) PROVE IInv'
  <2>1. ASSUME NEW u \in Tx PROVE TxOK(u)'
    <3>1. CASE u = t
      BY <1>1, <1>2, <3>1, OwnStepOK, Zenon
    <3>2. CASE u # t
      BY <1>a, <1>2, <3>2, OthersUntouched, UntouchedTxOK, Zenon
    <3>. QED
      BY <3>1, <3>2, Zenon
  <2>2. ScheduledOnce'
    BY <1>2, ScheduledOnceStep, Zenon
  <2>3. CASE t \in Consumer /\ CommitEvent(t)
    BY <1>1, <2>1, <2>2, <2>3, CommitEventTablesOK, Zenon DEF IInv
  <2>4. CASE t \in Pump /\ (CommitDeadline(t) \/ PostponeDeadline(t))
    BY <1>1, <2>1, <2>2, <2>4, DeadlineTablesOK, Zenon DEF IInv
  <2>5. CASE UNCHANGED <<checkpoint, instances, deadlines, target, failures, enqueued, consumed, mutations>>
    BY <1>a, <1>1, <2>1, <2>2, <2>5, QuietTablesOK, Zenon DEF IInv
  <2>6. \/ t \in Consumer /\ CommitEvent(t)
        \/ t \in Pump /\ (CommitDeadline(t) \/ PostponeDeadline(t))
        \/ UNCHANGED <<checkpoint, instances, deadlines, target, failures, enqueued, consumed, mutations>>
    BY <1>2, Zenon DEF StepOf, Consume, Deliver, Dispatch, CheckpointOffset, ConsumeSegment, LockCheckpoint,
           CheckpointConflict, AcquireDeadline, DeadlineFails, SaveInstanceFails, LoadInstance,
           HandleMessage, LockDoomedDeadline, EndInstance, SaveInstance, Rollback, tables
  <2>. QED
    BY <2>3, <2>4, <2>5, <2>6, Zenon
<1>3. ASSUME NEW d \in Deadline, DeadlineBecomesDue(d) PROVE IInv'
  <2>1. UNCHANGED <<checkpoint, instances, deadlines, target, failures, enqueued, consumed,
                    mutations, cpLock, instLock, dlLock, cp, next, cause, out, root, pc>>
    BY <1>3, Zenon DEF DeadlineBecomesDue, rowLocks, local
  <2>2. ASSUME NEW u \in Tx PROVE TxOK(u)'
    <3>1. Untouched(u)
      BY <2>1, Zenon DEF Untouched, KeepsLocals, KeepsLocks, KeepsRows
    <3>. QED
      BY <1>a, <3>1, UntouchedTxOK, Zenon
  <2>3. ScheduledOnce'
    BY <1>a, <2>1, Zenon DEF TablesOK, DeadlinesOK, ScheduledOnce
  <2>. QED
    BY <1>a, <1>1, <2>1, <2>2, <2>3, QuietTablesOK, Zenon DEF IInv
<1>. QED
  BY <1>2, <1>3, NextIsAStep, Zenon

\* So does a stuttering step.
LEMMA StutterIInv ==
  ASSUME IInv, UNCHANGED vars
  PROVE  IInv'
<1>1. UNCHANGED <<checkpoint, instances, deadlines, target, due, failures, enqueued, consumed,
                  mutations, cpLock, instLock, dlLock, cp, next, cause, out, root, pc, rollbacks>>
  BY Zenon DEF vars, tables, rowLocks, local
<1>2. TypeOK'
  BY <1>1, Zenon DEF IInv, TypeOK
<1>3. ASSUME NEW u \in Tx PROVE TxOK(u)'
  <2>1. Untouched(u)
    BY <1>1, Zenon DEF Untouched, KeepsLocals, KeepsLocks, KeepsRows
  <2>. QED
    BY <2>1, UntouchedTxOK, Zenon DEF IInv
<1>4. ScheduledOnce'
  BY <1>1, Zenon DEF IInv, TablesOK, DeadlinesOK, ScheduledOnce
<1>. QED
  BY <1>1, <1>2, <1>3, <1>4, QuietTablesOK, Zenon DEF IInv

(***************************************************************************)
(* What consumers, deadline pumps and the tables have in common holds in   *)
(* every reachable state, whatever the constants.                          *)
(***************************************************************************)
THEOREM InductiveInvariant == Spec => []IInv
<1>1. IInv /\ [Next]_vars => IInv'
  BY NextIInv, StutterIInv, Zenon
<1>. QED
  BY <1>1, InitIInv, PTL DEF Spec

-------------------------------------------------------------------------------
(***************************************************************************)
(* Every event takes effect once, and the checkpoint of its stream is past *)
(* exactly the events that were dispatched, however many consumers race    *)
(* for a stream, conflict, fail and start over (Sink.ConsumeSegment).      *)
(***************************************************************************)
THEOREM EventsOnce == Spec => []EventEffectsOnce
<1>1. IInv => EventEffectsOnce
  BY Zenon DEF IInv, TablesOK
<1>. QED
  BY <1>1, InductiveInvariant, PTL

(***************************************************************************)
(* No mutation of a live instance is lost to another message that is       *)
(* handled at the same time (loadInstance, saveInstance).                  *)
(***************************************************************************)
THEOREM MutationsKept == Spec => []NoLostMutation
<1>1. IInv => NoLostMutation
  BY Zenon DEF IInv, TablesOK
<1>. QED
  BY <1>1, InductiveInvariant, PTL

(***************************************************************************)
(* The commands of a deadline are added at most once more often than its   *)
(* delivery has failed (DeadlinePump.HandleDelivery).                      *)
(***************************************************************************)
THEOREM DeadlinesCounted == Spec => []DeliveriesCounted
<1>1. IInv => DeliveriesCounted
  <2> SUFFICES ASSUME IInv, NEW d \in Deadline
               PROVE  enqueued[d] <= failures[d] + (IF d \in deadlines THEN 0 ELSE 1)
    BY Zenon DEF DeliveriesCounted
  <2>1. enqueued[d] \in Nat /\ failures[d] \in Nat
    BY Zenon DEF IInv, TypeOK, Cause
  <2>. QED
    BY <2>1 DEF IInv, TablesOK, EffectsCounted
<1>. QED
  BY <1>1, InductiveInvariant, PTL

(***************************************************************************)
(* Where every process root can be marshaled, a deadline's commands are    *)
(* added once, by the commit that deletes it.                              *)
(***************************************************************************)
THEOREM DeadlinesOnceIfMarshaled ==
  ASSUME ~MarshalCanFail
  PROVE  Spec => []DeadlineEffectsOnce
<1>1. IInv => DeadlineEffectsOnce
  <2> SUFFICES ASSUME IInv, NEW d \in Deadline
               PROVE  enqueued[d] <= 1 /\ (enqueued[d] = 1 => d \notin deadlines)
    BY Zenon DEF DeadlineEffectsOnce
  <2>1. enqueued[d] \in Nat
    BY Zenon DEF IInv, TypeOK, Cause
  <2>2. enqueued[d] <= IF d \in deadlines THEN 0 ELSE 1
    BY <2>1 DEF IInv, TablesOK, EffectsCounted
  <2>. QED
    BY <2>1, <2>2
<1>. QED
  BY <1>1, InductiveInvariant, PTL

\* A step leaves the rows of ended instances as they are.
KeepsEnded == \A i \in Instance : instances[i].ended => instances'[i] = instances[i]

\* A transaction writes its instance only if that has not ended.
LEMMA WritesOnlyLive ==
  ASSUME IInv, NEW t \in Tx, WriteInstance(t)
  PROVE  KeepsEnded
<1>1. TypeOK /\ TxOK(t)
  BY Zenon DEF IInv
<1>2. out[t].ended \/ out[t].mutated => ~instances[Inst(t)].ended
  BY <1>1 DEF TxOK, EffectOK, Nothing
<1>. QED
  BY <1>1, <1>2, Zenon DEF WriteInstance, KeepsEnded, TypeOK

(***************************************************************************)
(* An ended instance is never written again and has no deadlines           *)
(* (endInstance, loadInstance).                                            *)
(***************************************************************************)
THEOREM EndedStayEnded == Spec => EndedForGood
<1>1. IInv /\ [Next]_vars => [KeepsEnded]_vars
  <2> SUFFICES ASSUME IInv, Next PROVE KeepsEnded
    BY Zenon
  <2>1. ASSUME NEW t \in Tx, StepOf(t) PROVE KeepsEnded
    <3>1. WriteInstance(t) \/ UNCHANGED instances
      BY <2>1, Zenon DEF StepOf, Consume, Deliver, Dispatch, CheckpointOffset, ConsumeSegment,
         LockCheckpoint, CheckpointConflict, CommitEvent, AcquireDeadline, DeadlineFails,
         SaveInstanceFails, CommitDeadline, PostponeDeadline, LoadInstance, HandleMessage,
         LockDoomedDeadline, EndInstance, SaveInstance, Rollback, tables
    <3>. QED
      BY <3>1, WritesOnlyLive, Zenon DEF KeepsEnded
  <2>2. ASSUME NEW d \in Deadline, DeadlineBecomesDue(d) PROVE KeepsEnded
    BY <2>2, Zenon DEF DeadlineBecomesDue, KeepsEnded
  <2>. QED
    BY <2>1, <2>2, NextIsAStep, Zenon
<1>2. IInv => \A d \in deadlines : ~instances[target[d]].ended
  BY Zenon DEF IInv, TablesOK, DeadlinesOK
<1>. QED
  BY <1>1, <1>2, InductiveInvariant, PTL DEF Spec, EndedForGood, KeepsEnded

-------------------------------------------------------------------------------
(***************************************************************************)
(* Who waits for a transaction that waits itself.  A transaction that      *)
(* waits for a deadline has locked the instance of that deadline, so       *)
(* whoever holds the deadline has not, and holds it as a stray.            *)
(***************************************************************************)
Ending(t) == At(t, "handled") /\ out[t].ended

(***************************************************************************)
(* A transaction that deletes the deadlines of its instance can only wait  *)
(* for a pump that keeps the lock of one it skipped.                       *)
(***************************************************************************)
LEMMA EndingWaitsForStray ==
  ASSUME IInv, NEW t \in Tx, NEW u \in Tx, Ending(t), WaitsFor(t, u)
  PROVE  u \in Pump /\ HoldsStray(u)
<1>a. TypeOK /\ TxOK(t) /\ TxOK(u) /\ t # u
  BY Zenon DEF IInv, WaitsFor
<1>1. Owns(t)
  BY <1>a, Zenon DEF TxOK, EffectOK, Ending, At
<1>2. PICK d \in deadlines : target[d] = Inst(t) /\ dlLock[d] = u
  BY Zenon DEF WaitsFor, Ending, At, DeadlinesOf
<1>3. d \in Deadline /\ instLock[Inst(t)] = t /\ Inst(t) \in Instance
  BY <1>a, <1>1, <1>2, Zenon DEF TypeOK, Owns
<1>4. u \notin Consumer
  BY <1>a, <1>2, <1>3, Zenon DEF TxOK, LocksOK, Owns
<1>5. u \in Pump
  BY <1>4, ProcessAssumption, Zenon
<1>6. instLock[Inst(u)] = u
  BY <1>a, <1>2, <1>3, <1>5, Zenon DEF TxOK, LocksOK, Working, PumpOK, Owns
<1>7. target[d] # Inst(u)
  BY <1>a, <1>2, <1>3, <1>6, Zenon
<1>. QED
  BY <1>2, <1>5, <1>7, Zenon DEF HoldsStray

(***************************************************************************)
(* A pump that has acquired its deadline waits for nothing but deadlines,  *)
(* and neither does whoever has locked an instance.                        *)
(***************************************************************************)
LEMMA OwnerIsEnding ==
  ASSUME IInv, NEW t \in Tx, NEW u \in Tx, WaitsFor(t, u),
         (\E i \in Instance : instLock[i] = t) \/ t \in Pump
  PROVE  Ending(t)
<1>a. TypeOK /\ TxOK(t) /\ t # u
  BY Zenon DEF IInv, WaitsFor
<1>1. ~At(t, "begun")
  BY <1>a, Zenon DEF TxOK, LocksOK, PumpOK, Working, At
<1>2. ~(At(t, "routed") /\ instLock[Inst(t)] = u)
  <2>1. At(t, "routed") => t \in Pump
    BY <1>a, ProcessAssumption, Zenon DEF TxOK, LocksOK, At
  <2>2. At(t, "routed") /\ t \in Pump => instLock[Inst(t)] = t
    BY <1>a, Zenon DEF TxOK, PumpOK, Owns, At
  <2>. QED
    BY <1>a, <2>1, <2>2, Zenon
<1>. QED
  BY <1>1, <1>2, Zenon DEF WaitsFor, Ending

(***************************************************************************)
(* Wherever a chain of waiting starts, it reaches a transaction that is    *)
(* ending its instance.                                                    *)
(***************************************************************************)
LEMMA ChainReachesEnding ==
  ASSUME IInv, NEW S \in SUBSET Tx, Deadlocked(S)
  PROVE  \E t \in S : Ending(t)
<1>1. PICK t \in S : TRUE
  BY Zenon DEF Deadlocked
<1>2. ASSUME NEW r \in S, At(r, "routed") PROVE \E v \in S : Ending(v)
  <2>a. r \in Tx /\ TypeOK /\ TxOK(r)
    BY Zenon DEF IInv
  <2>1. PICK u \in S : WaitsFor(r, u)
    BY Zenon DEF Deadlocked
  <2>2. instLock[Inst(r)] = u
    BY <1>2, <2>1, Zenon DEF WaitsFor, At
  <2>3. Inst(r) \in Instance
    BY <1>2, <2>a, ProcessAssumption, Zenon DEF TxOK, ConsumerOK, PumpOK, Owns, At
  <2>4. PICK v \in S : WaitsFor(u, v)
    BY Zenon DEF Deadlocked
  <2>5. Ending(u)
    BY <2>2, <2>3, <2>4, OwnerIsEnding, Zenon
  <2>. QED
    BY <2>5, Zenon
<1>3. ASSUME NEW b \in S, At(b, "begun") PROVE \E v \in S : Ending(v)
  <2>a. b \in Tx /\ b \in Consumer /\ StreamOf[b] \in Stream
    BY <1>3, ProcessAssumption, Zenon DEF IInv, TxOK, PumpOK, At
  <2>1. PICK u \in S : WaitsFor(b, u)
    BY Zenon DEF Deadlocked
  <2>2. cpLock[StreamOf[b]] = u
    BY <1>3, <2>1, Zenon DEF WaitsFor, At
  <2>3. Working(u)
    BY <2>a, <2>2, Zenon DEF IInv, TxOK, LocksOK
  <2>4. PICK v \in S : WaitsFor(u, v)
    BY Zenon DEF Deadlocked
  <2>5. At(u, "routed") \/ Ending(u)
    BY <2>3, <2>4, Zenon DEF WaitsFor, Ending, Working, At
  <2>. QED
    BY <1>2, <2>5, Zenon
<1>4. PICK u \in S : WaitsFor(t, u)
  BY Zenon DEF Deadlocked
<1>. QED
  BY <1>2, <1>3, <1>4, Zenon DEF WaitsFor, Ending

(***************************************************************************)
(* Every deadlock is one of two deadline pumps with strays: the locks that *)
(* AcquireDelivery keeps on deadlines it skipped are the only ones that    *)
(* are taken out of order.                                                 *)
(***************************************************************************)
THEOREM StraysDeadlock == Spec => []OnlyStraysDeadlock
<1>1. IInv => OnlyStraysDeadlock
  <2> SUFFICES ASSUME IInv, NEW S \in SUBSET Tx, Deadlocked(S)
               PROVE  \E p, q \in S \intersect Pump : p # q /\ HoldsStray(p) /\ HoldsStray(q)
    BY Zenon DEF OnlyStraysDeadlock
  <2>1. PICK t \in S : Ending(t)
    BY ChainReachesEnding, Zenon
  <2>2. PICK p \in S : WaitsFor(t, p)
    BY Zenon DEF Deadlocked
  <2>3. p \in Pump /\ HoldsStray(p)
    BY <2>1, <2>2, EndingWaitsForStray, Zenon
  <2>4. PICK q \in S : WaitsFor(p, q)
    BY Zenon DEF Deadlocked
  <2>5. Ending(p)
    BY <2>3, <2>4, OwnerIsEnding, Zenon
  <2>6. q \in Pump /\ HoldsStray(q)
    BY <2>4, <2>5, EndingWaitsForStray, Zenon
  <2>7. p # q
    BY <2>4, Zenon DEF WaitsFor
  <2>. QED
    BY <2>3, <2>6, <2>7, Zenon
<1>. QED
  BY <1>1, InductiveInvariant, PTL

(***************************************************************************)
(* With one deadline worker there is no deadlock, whatever the number of   *)
(* sinks (PanicOnDeadlock's comment, under this condition).                *)
(***************************************************************************)
THEOREM OnePumpNoDeadlock ==
  ASSUME \A p, q \in Pump : p = q
  PROVE  Spec => []NoDeadlock
<1>1. OnlyStraysDeadlock => NoDeadlock
  BY Zenon DEF OnlyStraysDeadlock, NoDeadlock
<1>. QED
  BY <1>1, StraysDeadlock, PTL
===============================================================================
