-------------------------- MODULE CommandPumpsProofs --------------------------
(***************************************************************************)
(* Proofs that the command pumps keep the event tables consistent and      *)
(* implement CommandHandling, for any number of transactions, commands,    *)
(* instances and streams and any values of the bounds.                     *)
(***************************************************************************)
EXTENDS CommandPumps, TLAPS

(***************************************************************************)
(* The inductive invariant.  TaskOK relates a task's local state to the    *)
(* rows it has locked: what it has read from them is still what they       *)
(* contain.  TablesOK is about committed rows only.                        *)
(***************************************************************************)
HasRow(t) ==
  /\ pc[t] \in {"locked", "loaded", "recorded", "complete"}
  /\ IsAggregate(cmd[t])

TaskOK(t) ==
  /\ pc[t] \in Detached <=> cmd[t] = NoCommand
  /\ pc[t] \notin Detached => cmd[t] \in queue /\ cmdLock[cmd[t]] = t
  /\ pc[t] \in {"absent", "locked", "loaded"} => IsAggregate(cmd[t])
  /\ pc[t] = "calling" => ~IsAggregate(cmd[t])
  /\ HasRow(t) => instLock[Inst(t)] = t
  /\ created[t] => /\ pc[t] \notin Detached
                   /\ IsAggregate(cmd[t])
                   /\ instLock[Inst(t)] = t
                   /\ instances[Inst(t)] = NoRow
  /\ pc[t] = "locked" => /\ bound[t] = instances[Inst(t)].stream
                         /\ from[t] = instances[Inst(t)].snapshotOffset + 1
                         /\ root[t] = instances[Inst(t)].snapshot
  /\ HasRow(t) => \/ bound[t] = instances[Inst(t)].stream
                  \/ pc[t] = "complete" /\ n[t] > 0 /\ instances[Inst(t)].stream = NoStream
  /\ HasRow(t) /\ pc[t] # "locked" => root[t] = Ids(EventsOf(Inst(t)))
  /\ pc[t] \in Detached \union {"acquired", "absent"} => root[t] = {} /\ n[t] = 0
  /\ pc[t] \notin Detached /\ ~IsAggregate(cmd[t]) => root[t] = {}
  /\ n[t] > 0 => pc[t] \in {"recorded", "complete"}
  /\ pc[t] = "recorded" => n[t] > 0
  /\ pc[t] = "complete" /\ n[t] > 0 => /\ bound[t] \in Stream
                                       /\ streamLock[bound[t]] = t
                                       /\ base[t] = nextOffset[bound[t]]
  /\ pc[t] \notin Detached => n[t] \in 0 .. MaxEvents[cmd[t]]

StreamsOK ==
  /\ \A e \in events : e.stream \in streams /\ e.offset < nextOffset[e.stream]
  /\ \A s \in Stream : \A k \in 0 .. nextOffset[s] - 1 :
       \E e \in events : e.stream = s /\ e.offset = k
  /\ \A e, f \in events : e.stream = f.stream /\ e.offset = f.offset => e = f
  /\ \A s \in Stream : s \in streams <=> nextOffset[s] > 0

RowsOK ==
  \A i \in Instance :
    /\ instances[i].snapshotOffset = -1 => instances[i].snapshot = {}
    /\ instances[i].stream # NoStream => instances[i].exists
    /\ ~instances[i].exists => instances[i] = NoRow

EventsOK == \A e \in events : e.inst = InstanceOf[e.cmd]

TablesOK ==
  /\ StreamsOK
  /\ RowsOK
  /\ EventsOK
  /\ HandledOnce
  /\ InstanceInOneStream
  /\ DecidedOnHistory
  /\ SnapshotSound

IInv ==
  /\ TypeOK
  /\ \A t \in Tx : TaskOK(t)
  /\ TablesOK

-------------------------------------------------------------------------------
(***************************************************************************)
(* A task with a transaction has a command, and that command is routed to    *)
(* an instance or to the integration.                                      *)
(***************************************************************************)
LEMMA TaskHasCommand ==
  ASSUME TypeOK, NEW t \in Tx, TaskOK(t), pc[t] \notin Detached
  PROVE  /\ cmd[t] \in Command
         /\ Inst(t) \in Instance \union {NoInstance}
         /\ IsAggregate(cmd[t]) => Inst(t) \in Instance
  BY CommandPumpsAssumption, Zenon DEF TypeOK, TaskOK, Inst, IsAggregate

(***************************************************************************)
(* Taking a lock and releasing a transaction's locks yield lock tables.    *)
(***************************************************************************)
LEMMA LockTable ==
  ASSUME NEW S, NEW locks \in [S -> Tx \union {NoTx}], NEW t \in Tx
  PROVE  /\ Release(locks, t) \in [S -> Tx \union {NoTx}]
         /\ \A r \in S : Lock(locks, r, t) \in [S -> Tx \union {NoTx}]
  BY Zenon DEF Release, Lock

\* Appended rows are rows of the events table.
LEMMA AppendedRowsType ==
  ASSUME NEW s \in Stream, NEW b \in Nat, NEW k \in Nat, NEW c \in Command,
         NEW i \in Instance \union {NoInstance}, NEW seen \in SUBSET EventIds
  PROVE  AppendedRows(s, b, k, c, i, seen) \subseteq EventRow
  BY DEF AppendedRows, EventRow

\* The state of a root is a set of event IDs.
LEMMA IdsType ==
  ASSUME NEW rows \in SUBSET EventRow
  PROVE  Ids(rows) \in SUBSET EventIds
  BY DEF Ids, EventId, EventRow, EventIds

\* The end of a transaction keeps the types.
LEMMA EndTransactionType ==
  ASSUME TypeOK, NEW t \in Tx, EndTransaction(t)
  PROVE  /\ instLock' \in [Instance -> Tx \union {NoTx}]
         /\ streamLock' \in [Stream -> Tx \union {NoTx}]
         /\ advisory' \in Tx \union {NoTx}
         /\ created' \in [Tx -> BOOLEAN]
         /\ bound' \in [Tx -> Stream \union {NoStream}]
         /\ from' \in [Tx -> Nat]
         /\ root' \in [Tx -> SUBSET EventIds]
         /\ n' \in [Tx -> Nat]
         /\ base' \in [Tx -> Nat]
         /\ snap' \in [Tx -> BOOLEAN]
<1>1. /\ instLock' \in [Instance -> Tx \union {NoTx}]
      /\ streamLock' \in [Stream -> Tx \union {NoTx}]
  BY LockTable, Zenon DEF EndTransaction, TypeOK
<1>. QED
  BY <1>1, Zenon DEF EndTransaction, FreeAdvisory, TypeOK

\* So does the end of a task.
LEMMA EndTaskType ==
  ASSUME TypeOK, NEW t \in Tx, NEW l \in Detached, LeaveTransaction(t, l)
  PROVE  /\ cmdLock' \in [Command -> Tx \union {NoTx}]
         /\ cmd' \in [Tx -> Command \union {NoCommand}]
         /\ pc' \in [Tx -> Labels]
<1>1. cmdLock' \in [Command -> Tx \union {NoTx}]
  BY LockTable, Zenon DEF LeaveTransaction, TypeOK
<1>. QED
  BY <1>1, Zenon DEF LeaveTransaction, Detached, Goto, Labels, TypeOK

(***************************************************************************)
(* The rows a committing transaction leaves behind are rows.               *)
(***************************************************************************)
LEMMA RowsType ==
  ASSUME TypeOK, NEW t \in Tx, cmd[t] \in Command, Inst(t) \in Instance,
         bound[t] \in Stream, n[t] > 0
  PROVE  RowWithEvents(t) \in Row
<1>1. instances[Inst(t)] \in Row
  BY Zenon DEF TypeOK
<1>2. NewIds(t) \in SUBSET EventIds
  BY DEF NewIds, EventIds, TypeOK
<1>3. base[t] + n[t] - 1 \in Nat
  BY DEF TypeOK
<1>. QED
  BY <1>1, <1>2, <1>3, Zenon DEF RowWithEvents, Row, TypeOK

(***************************************************************************)
(* Every step keeps the types.                                             *)
(***************************************************************************)
LEMMA TypeStep == IInv /\ [Next]_vars => TypeOK'
<1> SUFFICES ASSUME IInv, [Next]_vars PROVE TypeOK'
  BY Zenon
<1> USE TxAssumption, StreamAssumption, PumpAssumption, CommandPumpsAssumption
<1>a. TypeOK /\ \A t \in Tx : TaskOK(t)
  BY Zenon DEF IInv
<1> USE DEF TaskStep, TaskFails, At, Goto, Labels, streamVars, aggregateVars, taskVars
<1>1. ASSUME NEW t \in Tx, NEW c \in Command, AcquireDelivery(t, c) PROVE TypeOK'
  <2>1. cmdLock' \in [Command -> Tx \union {NoTx}]
    BY <1>a, <1>1, LockTable, Zenon DEF AcquireDelivery, Acquire, TypeOK
  <2>. QED
    BY <1>a, <1>1, <2>1, Zenon DEF AcquireDelivery, Acquire, TypeOK
<1>2. ASSUME NEW t \in Tx, RejectDelivery(t) PROVE TypeOK'
  BY <1>a, <1>2, Zenon DEF RejectDelivery, TypeOK
<1>3. ASSUME NEW t \in Tx, LockInstance(t) PROVE TypeOK'
  <2>1. Inst(t) \in Instance
    BY <1>a, <1>3, TaskHasCommand, Zenon DEF LockInstance, Detached
  <2>2. instLock' \in [Instance -> Tx \union {NoTx}]
    BY <1>a, <1>3, <2>1, LockTable, Zenon DEF LockInstance, TypeOK
  <2>3. instances[Inst(t)] \in Row
    BY <1>a, <2>1, Zenon DEF TypeOK
  <2>4. /\ instances[Inst(t)].stream \in Stream \union {NoStream}
        /\ instances[Inst(t)].snapshotOffset + 1 \in Nat
        /\ instances[Inst(t)].snapshot \in SUBSET EventIds
    BY <2>3, SMTT(30) DEF Row
  <2>. QED
    BY <1>a, <1>3, <2>2, <2>4, Zenon DEF LockInstance, FetchRow, TypeOK
<1>4. ASSUME NEW t \in Tx, InstanceBusy(t) PROVE TypeOK'
  BY <1>a, <1>4, Zenon DEF InstanceBusy, TypeOK
<1>5. ASSUME NEW t \in Tx, InstanceAbsent(t) PROVE TypeOK'
  BY <1>a, <1>5, Zenon DEF InstanceAbsent, TypeOK
<1>6. ASSUME NEW t \in Tx, CreateInstance(t) PROVE TypeOK'
  <2>1. Inst(t) \in Instance
    BY <1>a, <1>6, TaskHasCommand, Zenon DEF CreateInstance, TaskOK, Detached
  <2>2. instLock' \in [Instance -> Tx \union {NoTx}]
    BY <1>a, <1>6, <2>1, LockTable, Zenon DEF CreateInstance, TypeOK
  <2>3. instances[Inst(t)] \in Row
    BY <1>a, <2>1, SMTT(30) DEF TypeOK
  <2>4. /\ instances[Inst(t)].stream \in Stream \union {NoStream}
        /\ instances[Inst(t)].snapshotOffset + 1 \in Nat
        /\ instances[Inst(t)].snapshot \in SUBSET EventIds
    BY <2>3, SMTT(30) DEF Row
  <2>. QED
    BY <1>a, <1>6, <2>2, <2>4, SMTT(30) DEF CreateInstance, FetchRow, TypeOK
<1>7. ASSUME NEW t \in Tx, LoadRoot(t) PROVE TypeOK'
  <2>1. \A o \in Nat : Replay(bound[t], Inst(t), o) \in SUBSET EventIds
    BY <1>a, IdsType, Zenon DEF TypeOK, Replay, EventsOf
  <2>2. root' \in [Tx -> SUBSET EventIds]
    BY <1>a, <1>7, <2>1 DEF LoadRoot, TypeOK
  <2>. QED
    BY <1>a, <1>7, <2>2, Zenon DEF LoadRoot, TypeOK
<1>8. ASSUME NEW t \in Tx, LoadFails(t) PROVE TypeOK'
  BY <1>a, <1>8, Zenon DEF LoadFails, TypeOK
<1>9. ASSUME NEW t \in Tx, HandleCommand(t) PROVE TypeOK'
  BY <1>a, <1>9 DEF HandleCommand, TypeOK
<1>10. ASSUME NEW t \in Tx, HandleCommandPanics(t) PROVE TypeOK'
  BY <1>a, <1>10, Zenon DEF HandleCommandPanics, TypeOK
<1>11. ASSUME NEW t \in Tx, CallIntegration(t) PROVE TypeOK'
  BY <1>a, <1>11, Zenon DEF CallIntegration, TypeOK
<1>12. ASSUME NEW t \in Tx, IntegrationReturns(t) PROVE TypeOK'
  BY <1>a, <1>12 DEF IntegrationReturns, FreeAdvisory, TypeOK
<1>13. ASSUME NEW t \in Tx, IntegrationFails(t) PROVE TypeOK'
  BY <1>a, <1>13, Zenon DEF IntegrationFails, FreeAdvisory, TypeOK
<1>14. ASSUME NEW t \in Tx, CompleteWithEvents(t) PROVE TypeOK'
  <2>1. PICK s \in Stream :
          /\ \/ bound[t] = NoStream /\ AcquireForWrite(t, s)
             \/ bound[t] = s /\ LockForAppend(t, s)
          /\ bound' = [bound EXCEPT ![t] = s]
          /\ base' = [base EXCEPT ![t] = nextOffset[s]]
    BY <1>14, Zenon DEF CompleteWithEvents
  <2>2. streamLock' \in [Stream -> Tx \union {NoTx}]
    <3>1. streamLock' = Lock(streamLock, s, t)
      BY <2>1, Zenon DEF AcquireForWrite, LockForAppend
    <3>. QED
      BY <1>a, <3>1, LockTable, Zenon DEF TypeOK
  <2>3. /\ bound' \in [Tx -> Stream \union {NoStream}]
        /\ base' \in [Tx -> Nat]
        /\ snap' \in [Tx -> BOOLEAN]
    BY <1>a, <1>14, <2>1, ZenonT(40) DEF CompleteWithEvents, TypeOK
  <2>. QED
    BY <1>a, <1>14, <2>2, <2>3, ZenonT(30) DEF CompleteWithEvents, TypeOK
<1>15. ASSUME NEW t \in Tx, CommitCompleted(t) PROVE TypeOK'
  <2>a. TaskOK(t) /\ pc[t] = "complete"
    BY <1>a, <1>15, Zenon DEF CommitCompleted
  <2>b. n[t] > 0 => bound[t] \in Stream
    BY <2>a, Zenon DEF TaskOK
  <2>1. /\ cmd[t] \in Command
        /\ Inst(t) \in Instance \union {NoInstance}
        /\ IsAggregate(cmd[t]) => Inst(t) \in Instance
    BY <1>a, <1>15, TaskHasCommand, Zenon DEF CommitCompleted, Detached
  <2>2. streams' \subseteq Stream /\ nextOffset' \in [Stream -> Nat] /\ events' \subseteq EventRow
    <3>1. CASE n[t] > 0
      <4>1. bound[t] \in Stream /\ base[t] \in Nat /\ n[t] \in Nat /\ root[t] \in SUBSET EventIds
        BY <1>a, <2>b, <3>1, Zenon DEF TypeOK
      <4>2. AppendedRows(bound[t], base[t], n[t], cmd[t], Inst(t), root[t]) \subseteq EventRow
        BY <4>1, <2>1, AppendedRowsType, Zenon
      <4>. QED
        BY <1>a, <1>15, <3>1, <4>1, <4>2, SMTT(30) DEF CommitCompleted, CommitAppend, TypeOK
    <3>2. CASE ~(n[t] > 0)
      BY <1>a, <1>15, <3>2, Zenon DEF CommitCompleted, TypeOK
    <3>. QED
      BY <3>1, <3>2, Zenon
  <2>3. instances' \in [Instance -> Row]
    <3>1. CASE IsAggregate(cmd[t])
      <4>1. n[t] > 0 => RowWithEvents(t) \in Row
        BY <1>a, <2>b, <2>1, <3>1, RowsType, Zenon
      <4>2. RowWithoutEvents(t) \in Row
        BY <1>a, <2>1, <3>1, SMTT(30) DEF RowWithoutEvents, NoRow, Row, TypeOK
      <4>. QED
        BY <1>a, <1>15, <3>1, <4>1, <4>2, SMTT(30) DEF CommitCompleted, TypeOK
    <3>2. CASE ~IsAggregate(cmd[t])
      BY <1>a, <1>15, <3>2, SMTT(30) DEF CommitCompleted, TypeOK
    <3>. QED
      BY <3>1, <3>2, Zenon
  <2>. QED
    BY <1>a, <1>15, <2>2, <2>3, EndTransactionType, EndTaskType, Zenon
    DEF CommitCompleted, CommitHandled, EndTask, Detached, TypeOK
<1>16. ASSUME NEW t \in Tx, PostponeDelivery(t) PROVE TypeOK'
  <2>1. cmd[t] \in Command /\ (created[t] => Inst(t) \in Instance)
    BY <1>a, <1>16, TaskHasCommand, Zenon DEF PostponeDelivery, CommitPostponed, TaskOK, Detached
  <2>2. instances' \in [Instance -> Row]
    <3>1. InsertedRow \in Row
      BY Zenon DEF InsertedRow, Row
    <3>. QED
      BY <1>a, <1>16, <2>1, <3>1, SMTT(30) DEF PostponeDelivery, TypeOK
  <2>3. failures' \in [Command -> Nat] /\ due' \subseteq Command
    BY <1>a, <1>16, <2>1, SMTT(30) DEF PostponeDelivery, CommitPostponed, TypeOK
  <2>. QED
    BY <1>a, <1>16, <2>2, <2>3, EndTransactionType, EndTaskType, Zenon
    DEF PostponeDelivery, CommitPostponed, EndTask, Detached, TypeOK
<1>17. ASSUME NEW t \in Tx, Rollback(t) \/ OrphanCall(t) PROVE TypeOK'
  <2>1. PICK l \in Detached : LoseTransaction(t, l)
    BY <1>17, Zenon DEF Rollback, RollbackTask, OrphanCall, Detached
  <2>2. EndTransaction(t) /\ UNCHANGED <<streams, nextOffset, events, instances>>
    BY <1>17, Zenon DEF Rollback, OrphanCall
  <2>. QED
    BY <1>a, <2>1, <2>2, EndTransactionType, EndTaskType DEF LoseTransaction, TypeOK
<1>18. ASSUME NEW c \in Command, DeliveryBecomesDue(c) PROVE TypeOK'
  BY <1>a, <1>18, Zenon DEF DeliveryBecomesDue, BackoffElapses, TypeOK
<1>19. CASE UNCHANGED vars
  BY <1>a, <1>19, Zenon DEF vars, pumpVars, TypeOK
<1>20. ASSUME NEW t \in Tx, OrphanReturns(t) PROVE TypeOK'
  BY <1>a, <1>20, Zenon DEF OrphanReturns, TypeOK
<1>. QED
  BY <1>1, <1>2, <1>3, <1>4, <1>5, <1>6, <1>7, <1>8, <1>9, <1>10, <1>11, <1>12,
     <1>13, <1>14, <1>15, <1>16, <1>17, <1>18, <1>19, <1>20, Zenon DEF Next, Handle

-------------------------------------------------------------------------------
(***************************************************************************)
(* Every step keeps what the inductive invariant claims of each task: the  *)
(* one that takes the step, and all others.                                *)
(***************************************************************************)

-------------------------------------------------------------------------------
(***************************************************************************)
(* A step that leaves a task alone: its local state, the locks it holds,   *)
(* and the rows and events those locks protect are what they were.         *)
(***************************************************************************)
Untouched(t) ==
  /\ pc'[t] = pc[t] /\ cmd'[t] = cmd[t] /\ created'[t] = created[t]
  /\ bound'[t] = bound[t] /\ from'[t] = from[t] /\ root'[t] = root[t]
  /\ n'[t] = n[t] /\ base'[t] = base[t]
  /\ \A c \in Command : cmdLock[c] = t =>
       cmdLock'[c] = t /\ (c \in queue => c \in queue')
  /\ \A i \in Instance : instLock[i] = t =>
       instLock'[i] = t /\ instances'[i] = instances[i]
       /\ \A e : e \in events' /\ e.inst = i <=> e \in events /\ e.inst = i
  /\ \A s \in Stream : streamLock[s] = t =>
       streamLock'[s] = t /\ nextOffset'[s] = nextOffset[s]

\* What holds of a task goes on to hold if a step leaves it alone.
LEMMA UntouchedTaskOK ==
  ASSUME TypeOK, NEW t \in Tx, TaskOK(t), Untouched(t)
  PROVE  TaskOK(t)'
<1>1. pc[t] \notin Detached => /\ cmd[t] \in Command
                               /\ IsAggregate(cmd[t]) => Inst(t) \in Instance
  BY TaskHasCommand, Zenon
<1>2. HasRow(t)' <=> HasRow(t)
  BY Zenon DEF HasRow, Untouched, IsAggregate
<1>3. Inst(t)' = Inst(t) /\ IsAggregate(cmd[t])' = IsAggregate(cmd[t])
  BY Zenon DEF Inst, IsAggregate, Untouched
<1>4. HasRow(t) \/ created[t] => /\ instLock'[Inst(t)] = t
                                 /\ instances'[Inst(t)] = instances[Inst(t)]
  BY <1>1, Zenon DEF HasRow, TaskOK, Untouched, IsAggregate, Inst, Detached
<1>5. ASSUME HasRow(t) PROVE Ids(EventsOf(Inst(t)))' = Ids(EventsOf(Inst(t)))
  <2>1. \A e : e \in events' /\ e.inst = Inst(t) <=> e \in events /\ e.inst = Inst(t)
    BY <1>1, <1>5, Zenon DEF HasRow, TaskOK, Untouched, IsAggregate, Inst, Detached
  <2>2. EventsOf(Inst(t))' = EventsOf(Inst(t))
    BY <1>3, <2>1, Zenon DEF EventsOf
  <2>. QED
    BY <2>2, Zenon DEF Ids, EventId
<1>. QED
  BY <1>1, <1>2, <1>3, <1>4, <1>5, SMTT(30) DEF TaskOK, Untouched, HasRow, Detached

(***************************************************************************)
(* Releasing one's own locks keeps the locks of the others.                *)
(***************************************************************************)
KeepsLocks(t) ==
  /\ pc'[t] = pc[t] /\ cmd'[t] = cmd[t] /\ created'[t] = created[t]
  /\ bound'[t] = bound[t] /\ from'[t] = from[t] /\ root'[t] = root[t]
  /\ n'[t] = n[t] /\ base'[t] = base[t]
  /\ \A c \in Command : cmdLock[c] = t => cmdLock'[c] = t
  /\ \A i \in Instance : instLock[i] = t => instLock'[i] = t
  /\ \A s \in Stream : streamLock[s] = t => streamLock'[s] = t

\* The end of a transaction keeps the locks and the local state of all others.
LEMMA EndTransactionOthers ==
  ASSUME TypeOK, NEW u \in Tx, NEW t \in Tx, t # u, EndTransaction(u),
         NEW l \in Detached, LeaveTransaction(u, l)
  PROVE  KeepsLocks(t)
<1>1. /\ \A c \in Command : cmdLock[c] = t => cmdLock'[c] = t
      /\ \A i \in Instance : instLock[i] = t => instLock'[i] = t
      /\ \A s \in Stream : streamLock[s] = t => streamLock'[s] = t
  BY TxAssumption DEF EndTransaction, LeaveTransaction, Release, TypeOK
<1>. QED
  BY <1>1, Zenon DEF EndTransaction, LeaveTransaction, Goto, TypeOK, KeepsLocks

(***************************************************************************)
(* What a transaction appends and the row it writes are those of its own   *)
(* instance and of the stream it has locked.                               *)
(***************************************************************************)
LEMMA CommitWrites ==
  ASSUME IInv, NEW u \in Tx, CommitCompleted(u)
  PROVE  /\ \A i \in Instance : i # Inst(u) => instances'[i] = instances[i]
         /\ \A s \in Stream : s # bound[u] \/ n[u] = 0 => nextOffset'[s] = nextOffset[s]
         /\ \A e : e \in events' /\ e.inst # Inst(u) <=> e \in events /\ e.inst # Inst(u)
<1>a. TypeOK /\ TaskOK(u)
  BY Zenon DEF IInv
<1>1. \A i \in Instance : i # Inst(u) => instances'[i] = instances[i]
  BY <1>a, Zenon DEF CommitCompleted, TypeOK
<1>2. CASE n[u] > 0
  <2>1. CommitAppend(bound[u], base[u], n[u], cmd[u], Inst(u), root[u])
    BY <1>2, <1>a DEF CommitCompleted, TypeOK
  <2>2. \A e \in AppendedRows(bound[u], base[u], n[u], cmd[u], Inst(u), root[u]) : e.inst = Inst(u)
    BY DEF AppendedRows
  <2>. QED
    BY <1>1, <1>2, <1>a, <2>1, <2>2 DEF CommitAppend, TypeOK
<1>3. CASE ~(n[u] > 0)
  BY <1>1, <1>3, <1>a, Zenon DEF CommitCompleted, TypeOK
<1>. QED
  BY <1>2, <1>3, Zenon

(***************************************************************************)
(* No step of one task touches another task.                               *)
(***************************************************************************)
StepOf(u) ==
  \/ \E c \in Command : AcquireDelivery(u, c)
  \/ Handle(u)
  \/ Rollback(u)
  \/ OrphanCall(u)

\* A step of one task leaves all others alone.
LEMMA OthersUntouched ==
  ASSUME IInv, NEW u \in Tx, NEW t \in Tx, t # u, StepOf(u)
  PROVE  Untouched(t)
<1>a. TypeOK /\ TaskOK(u) /\ TaskOK(t)
  BY Zenon DEF IInv
<1> USE TxAssumption, StreamAssumption, PumpAssumption, CommandPumpsAssumption
<1> USE DEF TaskStep, TaskFails, At, Goto, streamVars, aggregateVars, taskVars
<1>1. ASSUME NEW c \in Command, AcquireDelivery(u, c) PROVE Untouched(t)
  <2>1. \A d \in Command : cmdLock[d] = t => cmdLock'[d] = t
    BY <1>a, <1>1, Zenon DEF AcquireDelivery, Acquire, Lock, TypeOK
  <2>. QED
    BY <1>a, <1>1, <2>1, Zenon DEF AcquireDelivery, Acquire, TypeOK, Untouched
<1>2. CASE RejectDelivery(u)
  BY <1>a, <1>2, Zenon DEF RejectDelivery, TypeOK, Untouched
<1>3. CASE LockInstance(u)
  <2>1. Inst(u) \in Instance
    BY <1>a, <1>3, TaskHasCommand, Zenon DEF LockInstance, Detached
  <2>2. \A i \in Instance : instLock[i] = t => instLock'[i] = t
    BY <1>a, <1>3, <2>1, Zenon DEF LockInstance, Lock, TypeOK
  <2>. QED
    BY <1>a, <1>3, <2>2, SMTT(30) DEF LockInstance, FetchRow, TypeOK, Untouched
<1>4. CASE InstanceBusy(u)
  BY <1>a, <1>4, Zenon DEF InstanceBusy, TypeOK, Untouched
<1>5. CASE InstanceAbsent(u)
  BY <1>a, <1>5, Zenon DEF InstanceAbsent, TypeOK, Untouched
<1>6. CASE CreateInstance(u)
  <2>1. Inst(u) \in Instance
    BY <1>a, <1>6, TaskHasCommand, Zenon DEF CreateInstance, TaskOK, Detached
  <2>2. \A i \in Instance : instLock[i] = t => instLock'[i] = t
    BY <1>a, <1>6, <2>1, SMTT(30) DEF CreateInstance, Lock, TypeOK
  <2>. QED
    BY <1>a, <1>6, <2>2, SMTT(30) DEF CreateInstance, FetchRow, TypeOK, Untouched
<1>7. CASE LoadRoot(u)
  BY <1>a, <1>7, Zenon DEF LoadRoot, TypeOK, Untouched
<1>8. CASE LoadFails(u)
  BY <1>a, <1>8, Zenon DEF LoadFails, TypeOK, Untouched
<1>9. CASE HandleCommand(u)
  BY <1>a, <1>9, Zenon DEF HandleCommand, TypeOK, Untouched
<1>10. CASE HandleCommandPanics(u)
  BY <1>a, <1>10, Zenon DEF HandleCommandPanics, TypeOK, Untouched
<1>11. CASE CallIntegration(u)
  BY <1>a, <1>11, Zenon DEF CallIntegration, TypeOK, Untouched
<1>12. CASE IntegrationReturns(u)
  BY <1>a, <1>12, Zenon DEF IntegrationReturns, TypeOK, Untouched
<1>13. CASE IntegrationFails(u)
  BY <1>a, <1>13, SMTT(30) DEF IntegrationFails, TypeOK, Untouched
<1>14. CASE CompleteWithEvents(u)
  <2>1. PICK s \in Stream :
          /\ \/ bound[u] = NoStream /\ AcquireForWrite(u, s)
             \/ bound[u] = s /\ LockForAppend(u, s)
          /\ bound' = [bound EXCEPT ![u] = s]
          /\ base' = [base EXCEPT ![u] = nextOffset[s]]
    BY <1>14, Zenon DEF CompleteWithEvents
  <2>2. streamLock[s] = NoTx /\ streamLock' = Lock(streamLock, s, u)
    BY <2>1, Zenon DEF AcquireForWrite, LockForAppend, FreeStreams
  <2>3. \A r \in Stream : streamLock[r] = t => streamLock'[r] = t
    BY <1>a, <2>2, SMTT(30) DEF Lock, TypeOK
  <2>. QED
    BY <1>a, <1>14, <2>1, <2>3, Zenon DEF CompleteWithEvents, TypeOK, Untouched
<1>15. CASE CommitCompleted(u)
  <2>1. EndTask(u) /\ EndTransaction(u)
    BY <1>15, Zenon DEF CommitCompleted, CommitHandled
  <2>2. \A c \in Command : cmdLock[c] = t => (c \in queue => c \in queue')
    BY <1>a, <1>15, Zenon DEF CommitCompleted, CommitHandled, TaskOK, TypeOK
  <2>3. \A i \in Instance : instLock[i] = t => i # Inst(u)
    BY <1>a, <1>15, TaskHasCommand, Zenon DEF CommitCompleted, TaskOK, HasRow, Inst, IsAggregate, Detached
  <2>4. \A s \in Stream : streamLock[s] = t => nextOffset'[s] = nextOffset[s]
    <3>1. n[u] = 0 \/ streamLock[bound[u]] = u
      BY <1>a, <1>15, ZenonT(30) DEF CommitCompleted, TaskOK, TypeOK
    <3>. QED
      BY <1>15, <3>1, CommitWrites, Zenon
  <2>5. KeepsLocks(t)
    BY <1>a, <2>1, EndTransactionOthers, Zenon DEF EndTask, Detached
  <2>6. \A i \in Instance : instLock[i] = t =>
          /\ instances'[i] = instances[i]
          /\ \A e : e \in events' /\ e.inst = i <=> e \in events /\ e.inst = i
    BY <1>15, <2>3, CommitWrites, Zenon
  <2>. QED
    BY <2>2, <2>4, <2>5, <2>6, Zenon DEF KeepsLocks, Untouched
<1>16. CASE PostponeDelivery(u)
  <2>1. EndTask(u) /\ EndTransaction(u) /\ queue' = queue
    BY <1>16, Zenon DEF PostponeDelivery, CommitPostponed
  <2>2. \A i \in Instance : instLock[i] = t => instances'[i] = instances[i]
    BY <1>a, <1>16, Zenon DEF PostponeDelivery, TaskOK, TypeOK
  <2>3. nextOffset' = nextOffset /\ events' = events
    BY <1>16, Zenon DEF PostponeDelivery
  <2>4. KeepsLocks(t)
    BY <1>a, <2>1, EndTransactionOthers, Zenon DEF EndTask, Detached
  <2>. QED
    BY <2>1, <2>2, <2>3, <2>4, Zenon DEF KeepsLocks, Untouched
<1>17. CASE Rollback(u) \/ OrphanCall(u)
  <2>1. PICK l \in Detached : LoseTransaction(u, l)
    BY <1>17, Zenon DEF Rollback, RollbackTask, OrphanCall, Detached
  <2>2. EndTransaction(u) /\ UNCHANGED <<instances, nextOffset, events>>
    BY <1>17, Zenon DEF Rollback, OrphanCall
  <2>3. LeaveTransaction(u, l) /\ queue' = queue
    BY <2>1, Zenon DEF LoseTransaction
  <2>4. KeepsLocks(t)
    BY <1>a, <2>2, <2>3, EndTransactionOthers, Zenon
  <2>. QED
    BY <2>2, <2>3, <2>4, Zenon DEF KeepsLocks, Untouched
<1>18. CASE OrphanReturns(u)
  BY <1>a, <1>18, Zenon DEF OrphanReturns, TypeOK, Untouched
<1>. QED
  BY <1>1, <1>2, <1>3, <1>4, <1>5, <1>6, <1>7, <1>8, <1>9, <1>10, <1>11, <1>12,
     <1>13, <1>14, <1>15, <1>16, <1>17, <1>18, Zenon DEF StepOf, Handle

-------------------------------------------------------------------------------
(***************************************************************************)
(* loadInstance builds the root from all of the instance's events, by way  *)
(* of the snapshot or not.                                                 *)
(***************************************************************************)
LEMMA LoadsHistory ==
  ASSUME IInv, NEW u \in Tx, LoadRoot(u)
  PROVE  root'[u] = Ids(EventsOf(Inst(u)))
<1>a. TypeOK /\ TaskOK(u) /\ SnapshotSound /\ InstanceInOneStream /\ RowsOK
  BY Zenon DEF IInv, TablesOK
<1> DEFINE i == Inst(u)
<1>1. i \in Instance /\ i # NoInstance /\ pc[u] = "locked"
  BY <1>a, TaskHasCommand, Zenon DEF LoadRoot, TaskStep, At, TaskOK, IsAggregate, Inst, Detached
<1>2. /\ bound[u] = instances[i].stream
      /\ from[u] = instances[i].snapshotOffset + 1
      /\ root[u] = instances[i].snapshot
  BY <1>a, <1>1, Zenon DEF TaskOK
<1>3. instances[i] \in Row
  BY <1>a, <1>1, Zenon DEF TypeOK
<1>4. \A e \in EventsOf(i) : e.stream = bound[u] /\ e.offset \in Nat
  BY <1>a, <1>1, <1>2, Zenon DEF EventsOf, InstanceInOneStream, TypeOK, EventRow
<1>5. CASE bound[u] = NoStream
  <2>1. EventsOf(i) = {}
    BY <1>a, <1>4, <1>5, StreamAssumption, Zenon DEF TypeOK, EventsOf, EventRow
  <2>2. Ids(EventsOf(i)) = {}
    BY <2>1, Zenon DEF Ids
  <2>. QED
    BY <1>a, <1>5, <2>2, Zenon DEF LoadRoot, TypeOK
<1>6. Replay(bound[u], i, 0) = Ids(EventsOf(i))
  <2>1. {e \in EventsOf(i) : e.stream = bound[u] /\ e.offset >= 0} = EventsOf(i)
    BY <1>4
  <2>. QED
    BY <2>1, Zenon DEF Replay
<1>7. root[u] \union Replay(bound[u], i, from[u]) = Ids(EventsOf(i))
  <2>1. CASE instances[i].snapshotOffset = -1
    <3>1. from[u] = 0 /\ root[u] = {}
      BY <1>a, <1>1, <1>2, <2>1 DEF RowsOK
    <3>. QED
      BY <1>6, <3>1, Zenon
  <2>2. CASE instances[i].snapshotOffset # -1
    <3>1. instances[i].snapshotOffset \in Nat
      BY <1>3, <2>2, Zenon DEF Row
    <3>2. root[u] = Ids({e \in EventsOf(i) : e.offset <= instances[i].snapshotOffset})
      BY <1>a, <1>1, <1>2, <2>2, Zenon DEF SnapshotSound
    <3>3. \A e \in EventsOf(i) : \/ e.offset <= instances[i].snapshotOffset
                                 \/ e.stream = bound[u] /\ e.offset >= from[u]
      BY <1>2, <1>4, <3>1, SMTT(30)
    <3>. QED
      BY <3>2, <3>3, Zenon DEF Replay, Ids
  <2>. QED
    BY <2>1, <2>2, ZenonT(30)
<1>. QED
  BY <1>a, <1>5, <1>6, <1>7, Zenon DEF LoadRoot, TypeOK

(***************************************************************************)
(* Each step of a task keeps what is claimed of that task.                 *)
(***************************************************************************)
LEMMA EndedTaskOK ==
  ASSUME TypeOK, NEW u \in Tx, NEW l \in Detached, LeaveTransaction(u, l), EndTransaction(u)
  PROVE  TaskOK(u)'
  BY PumpAssumption, CommandPumpsAssumption
  DEF LeaveTransaction, EndTransaction, Goto, TaskOK, HasRow, Detached, TypeOK

\* A task establishes what is claimed of it at its next label.
LEMMA OwnTaskOK ==
  ASSUME IInv, NEW u \in Tx, StepOf(u)
  PROVE  TaskOK(u)'
<1>a. TypeOK /\ TaskOK(u)
  BY Zenon DEF IInv
<1> USE TxAssumption, StreamAssumption, PumpAssumption, CommandPumpsAssumption
<1> USE DEF TaskStep, TaskFails, At, Goto, streamVars, aggregateVars, taskVars,
            TaskOK, HasRow, IsAggregate, Inst, EventsOf, Detached
<1>1. ASSUME NEW c \in Command, AcquireDelivery(u, c) PROVE TaskOK(u)'
  <2>1. 0 \in 0 .. MaxEvents[c]
    BY EventsAssumption
  <2>2. n[u] = 0 /\ n'[u] = 0 /\ cmd'[u] = c
    BY <1>a, <1>1, Zenon DEF AcquireDelivery, Acquire, TypeOK
  <2>. QED
    BY <1>a, <1>1, <2>1, <2>2, Zenon DEF AcquireDelivery, Acquire, Lock, TypeOK
<1>2. CASE RejectDelivery(u)
  BY <1>a, <1>2, Zenon DEF RejectDelivery, TypeOK
<1>3. CASE LockInstance(u)
  BY <1>a, <1>3, Zenon DEF LockInstance, FetchRow, Lock, TypeOK
<1>4. CASE InstanceBusy(u)
  BY <1>a, <1>4, Zenon DEF InstanceBusy, TypeOK
<1>5. CASE InstanceAbsent(u)
  BY <1>a, <1>5, Zenon DEF InstanceAbsent, TypeOK
<1>6. CASE CreateInstance(u)
  <2>1. Inst(u) \in Instance
    BY <1>a, <1>6, TaskHasCommand, Zenon DEF CreateInstance, Detached
  <2>2. ~instances[Inst(u)].exists => instances[Inst(u)] = NoRow
    BY <2>1, Zenon DEF IInv, TablesOK, RowsOK
  <2>. QED
    BY <1>a, <1>6, <2>1, <2>2, Zenon DEF CreateInstance, FetchRow, Lock, TypeOK
<1>7. CASE LoadRoot(u)
  <2>1. root'[u] = Ids(EventsOf(Inst(u)))'
    BY <1>7, LoadsHistory, Zenon DEF LoadRoot, Ids, EventId
  <2>. QED
    BY <1>a, <1>7, <2>1, Zenon DEF LoadRoot, TypeOK
<1>8. CASE LoadFails(u)
  BY <1>a, <1>8, Zenon DEF LoadFails, TypeOK
<1>9. CASE HandleCommand(u)
  <2>1. PICK k \in 0 .. MaxEvents[cmd[u]] :
          /\ n' = [n EXCEPT ![u] = k]
          /\ TaskStep(u, "loaded", IF k = 0 THEN "complete" ELSE "recorded")
    BY <1>9, Zenon DEF HandleCommand
  <2>2. n'[u] = k /\ pc'[u] = IF k = 0 THEN "complete" ELSE "recorded"
    BY <1>a, <2>1, Zenon DEF TypeOK
  <2>3. k > 0 <=> k # 0
    OBVIOUS
  <2>4. CASE k = 0
    BY <1>a, <1>9, <2>1, <2>2, <2>3, <2>4, ZenonT(30) DEF HandleCommand, TypeOK
  <2>5. CASE k # 0
    BY <1>a, <1>9, <2>1, <2>2, <2>3, <2>5, ZenonT(30) DEF HandleCommand, TypeOK
  <2>. QED
    BY <2>4, <2>5, ZenonT(30)
<1>10. CASE HandleCommandPanics(u)
  BY <1>a, <1>10, ZenonT(30) DEF HandleCommandPanics, TypeOK
<1>11. CASE CallIntegration(u)
  BY <1>a, <1>11, Zenon DEF CallIntegration, TypeOK
<1>12. CASE IntegrationReturns(u)
  <2>1. PICK k \in 0 .. MaxEvents[cmd[u]] :
          /\ n' = [n EXCEPT ![u] = k]
          /\ TaskStep(u, "calling", IF k = 0 THEN "complete" ELSE "recorded")
    BY <1>12, Zenon DEF IntegrationReturns
  <2>2. n'[u] = k /\ pc'[u] = IF k = 0 THEN "complete" ELSE "recorded"
    BY <1>a, <2>1, Zenon DEF TypeOK
  <2>3. k > 0 <=> k # 0
    OBVIOUS
  <2>4. CASE k = 0
    BY <1>a, <1>12, <2>1, <2>2, <2>3, <2>4, Zenon DEF IntegrationReturns, TypeOK
  <2>5. CASE k # 0
    BY <1>a, <1>12, <2>1, <2>2, <2>3, <2>5, Zenon DEF IntegrationReturns, TypeOK
  <2>. QED
    BY <2>4, <2>5, Zenon
<1>13. CASE IntegrationFails(u)
  BY <1>a, <1>13, Zenon DEF IntegrationFails, TypeOK
<1>14. CASE CompleteWithEvents(u)
  <2>1. PICK s \in Stream :
          /\ \/ bound[u] = NoStream /\ AcquireForWrite(u, s)
             \/ bound[u] = s /\ LockForAppend(u, s)
          /\ bound' = [bound EXCEPT ![u] = s]
          /\ base' = [base EXCEPT ![u] = nextOffset[s]]
    BY <1>14, Zenon DEF CompleteWithEvents
  <2>2. streamLock'[s] = u
    BY <1>a, <2>1, Zenon DEF AcquireForWrite, LockForAppend, Lock, TypeOK
  <2>3. bound'[u] = s /\ base'[u] = nextOffset'[s] /\ bound[u] \in {s, NoStream}
    BY <1>a, <1>14, <2>1, Zenon DEF CompleteWithEvents, TypeOK
  <2>. QED
    BY <1>a, <1>14, <2>2, <2>3, ZenonT(30) DEF CompleteWithEvents, TypeOK
<1>15. CASE CommitCompleted(u)
  BY <1>a, <1>15, EndedTaskOK, ZenonT(30) DEF CommitCompleted, CommitHandled, EndTask
<1>16. CASE PostponeDelivery(u)
  BY <1>a, <1>16, EndedTaskOK, Zenon DEF PostponeDelivery, CommitPostponed, EndTask
<1>17. CASE Rollback(u) \/ OrphanCall(u)
  <2>1. PICK l \in Detached : LeaveTransaction(u, l)
    BY <1>17, Zenon DEF Rollback, RollbackTask, OrphanCall, LoseTransaction, Detached
  <2> HIDE DEF TaskOK, HasRow, Detached
  <2>. QED
    BY <1>a, <1>17, <2>1, EndedTaskOK, Zenon DEF Rollback, OrphanCall
<1>18. CASE OrphanReturns(u)
  BY <1>a, <1>18, Zenon DEF OrphanReturns, TypeOK
<1>. QED
  BY <1>1, <1>2, <1>3, <1>4, <1>5, <1>6, <1>7, <1>8, <1>9, <1>10, <1>11, <1>12,
     <1>13, <1>14, <1>15, <1>16, <1>17, <1>18, Zenon DEF StepOf, Handle

-------------------------------------------------------------------------------
(***************************************************************************)
(* Every commit keeps what the inductive invariant claims of the tables.   *)
(***************************************************************************)

-------------------------------------------------------------------------------
(***************************************************************************)
(* The rows eventstream.append() inserts.                                  *)
(***************************************************************************)
RowsOfOne(A, s, b, k, c, i, seen) ==
  /\ \A e \in A : /\ e.stream = s /\ e.cmd = c /\ e.inst = i /\ e.seen = seen
                  /\ e.ord \in 0 .. k - 1 /\ e.offset = b + e.ord
  /\ \A j \in 0 .. k - 1 : \E e \in A : e.ord = j /\ e.offset = b + j
  /\ \A e, f \in A : e.ord = f.ord => e = f

(***************************************************************************)
(* They are rows of one command in one stream, with consecutive offsets.   *)
(***************************************************************************)
LEMMA AppendedRowsAre ==
  ASSUME NEW s, NEW b \in Nat, NEW k \in Nat, NEW c, NEW i, NEW seen,
         NEW A, A = AppendedRows(s, b, k, c, i, seen)
  PROVE  RowsOfOne(A, s, b, k, c, i, seen)
<1> DEFINE row(j) == [stream |-> s, offset |-> b + j, cmd |-> c, ord |-> j,
                      inst |-> i, seen |-> seen]
<1>1. \A e : e \in A <=> \E j \in 0 .. k - 1 : e = row(j)
  BY Zenon DEF AppendedRows
<1>2. \A e \in A : /\ e.stream = s /\ e.cmd = c /\ e.inst = i /\ e.seen = seen
                  /\ e.ord \in 0 .. k - 1 /\ e.offset = b + e.ord
  BY <1>1
<1>3. \A j \in 0 .. k - 1 : row(j) \in A /\ row(j).ord = j /\ row(j).offset = b + j
  BY <1>1, Zenon
<1>4. \A e, f \in A : e.ord = f.ord => e = f
  BY <1>1
<1> HIDE DEF row
<1>. QED
  BY <1>2, <1>3, <1>4, Zenon DEF RowsOfOne

(***************************************************************************)
(* Steps that commit nothing leave the tables as they are; a postponed     *)
(* delivery at most leaves a row without a stream.                         *)
(***************************************************************************)
LEMMA QuietTablesOK ==
  ASSUME TablesOK, UNCHANGED <<queue, streams, nextOffset, events, instances>>
  PROVE  TablesOK'
  BY DEF TablesOK, StreamsOK, RowsOK, EventsOK, HandledOnce, InstanceInOneStream,
         DecidedOnHistory, SnapshotSound, EventsOf, Ids, EventId

(***************************************************************************)
(* A postponement keeps the tables consistent, although it commits the row *)
(* of a new instance.                                                      *)
(***************************************************************************)
LEMMA PostponeTablesOK ==
  ASSUME IInv, NEW u \in Tx, PostponeDelivery(u)
  PROVE  TablesOK'
<1>a. TypeOK /\ TaskOK(u) /\ TablesOK
  BY Zenon DEF IInv
<1>1. UNCHANGED <<queue, streams, nextOffset, events>>
  BY Zenon DEF PostponeDelivery, CommitPostponed
<1>2. CASE ~created[u]
  BY <1>a, <1>1, <1>2, QuietTablesOK, Zenon DEF PostponeDelivery
<1>3. CASE created[u]
  <2>1. Inst(u) \in Instance /\ instances[Inst(u)] = NoRow
    BY <1>a, <1>3, TaskHasCommand, Zenon DEF TaskOK, Detached
  <2>2. /\ instances'[Inst(u)] = InsertedRow
        /\ \A i \in Instance : i # Inst(u) => instances'[i] = instances[i]
    BY <1>a, <1>3, <2>1, Zenon DEF PostponeDelivery, TypeOK
  <2>3. StreamsOK' /\ EventsOK' /\ HandledOnce'
    BY <1>a, <1>1, Zenon DEF TablesOK, StreamsOK, EventsOK, HandledOnce
  <2>4. RowsOK'
    BY <1>a, <2>1, <2>2 DEF TablesOK, RowsOK, InsertedRow
  <2>5. InstanceInOneStream'
    <3>1. \A e \in events : e.inst # NoInstance => e.inst \in Instance /\ e.inst # Inst(u)
      BY <1>a, <2>1 DEF TablesOK, InstanceInOneStream, NoRow, TypeOK, EventRow
    <3>. QED
      BY <1>a, <1>1, <2>2, <3>1, Zenon DEF TablesOK, InstanceInOneStream
  <2>6. DecidedOnHistory'
    BY <1>a, <1>1, Zenon DEF TablesOK, DecidedOnHistory, EventsOf, Ids, EventId
  <2>7. SnapshotSound'
    <3> SUFFICES ASSUME NEW i \in Instance, instances'[i].snapshotOffset # -1
                 PROVE  /\ instances'[i].stream # NoStream
                        /\ instances'[i].snapshotOffset < nextOffset'[instances'[i].stream]
                        /\ instances'[i].snapshot =
                             Ids({e \in EventsOf(i) : e.offset <= instances[i].snapshotOffset})'
      BY Zenon DEF SnapshotSound
    <3>1. instances'[i] = instances[i]
      BY <2>2 DEF InsertedRow
    <3>. QED
      BY <1>a, <1>1, <3>1, Zenon DEF TablesOK, SnapshotSound, EventsOf, Ids, EventId
  <2>. QED
    BY <2>3, <2>4, <2>5, <2>6, <2>7, Zenon DEF TablesOK
<1>. QED
  BY <1>2, <1>3, Zenon

(***************************************************************************)
(* The commit of a command that recorded no events.                        *)
(***************************************************************************)
LEMMA CommitNothingTablesOK ==
  ASSUME IInv, NEW u \in Tx, CommitCompleted(u), n[u] = 0
  PROVE  TablesOK'
<1>a. TypeOK /\ TaskOK(u) /\ TablesOK
  BY Zenon DEF IInv
<1>1. UNCHANGED <<streams, nextOffset, events>> /\ queue' \subseteq queue
  BY DEF CommitCompleted, CommitHandled
<1>2. \A i \in Instance : \/ instances'[i] = instances[i]
                          \/ instances[i].stream = NoStream /\ instances'[i] = NoRow
  <2>1. CASE IsAggregate(cmd[u])
    <3>1. instances' = [instances EXCEPT ![Inst(u)] = RowWithoutEvents(u)]
      BY <2>1, <1>a DEF CommitCompleted
    <3>2. \A i \in Instance : instances'[i] = IF i = Inst(u) THEN RowWithoutEvents(u) ELSE instances[i]
      BY <3>1, <1>a, Zenon DEF TypeOK
    <3>. QED
      BY <3>2, Zenon DEF RowWithoutEvents
  <2>2. CASE ~IsAggregate(cmd[u])
    BY <2>2, Zenon DEF CommitCompleted
  <2>. QED
    BY <2>1, <2>2, Zenon
<1>3. StreamsOK' /\ EventsOK' /\ HandledOnce'
  BY <1>a, <1>1, Zenon DEF TablesOK, StreamsOK, EventsOK, HandledOnce
<1>4. RowsOK'
  <2>1. /\ NoRow.snapshotOffset = -1 => NoRow.snapshot = {}
        /\ NoRow.stream # NoStream => NoRow.exists
    BY Zenon DEF NoRow
  <2>. QED
    BY <1>a, <1>2, <2>1, Zenon DEF TablesOK, RowsOK
<1>5. InstanceInOneStream'
  <2>1. \A e \in events : e.inst # NoInstance =>
          e.inst \in Instance /\ instances[e.inst].stream # NoStream
    BY <1>a, StreamAssumption, Zenon DEF TablesOK, InstanceInOneStream, TypeOK, EventRow
  <2>. QED
    BY <1>a, <1>1, <1>2, <2>1, Zenon DEF TablesOK, InstanceInOneStream
<1>6. DecidedOnHistory'
  BY <1>a, <1>1, Zenon DEF TablesOK, DecidedOnHistory, EventsOf, Ids, EventId
<1>7. SnapshotSound'
  <2> SUFFICES ASSUME NEW i \in Instance, instances'[i].snapshotOffset # -1
               PROVE  /\ instances'[i].stream # NoStream
                      /\ instances'[i].snapshotOffset < nextOffset'[instances'[i].stream]
                      /\ instances'[i].snapshot =
                           Ids({e \in EventsOf(i) : e.offset <= instances[i].snapshotOffset})'
    BY SMTT(30) DEF SnapshotSound
  <2>1. instances'[i] = instances[i]
    BY <1>2 DEF NoRow
  <2>. QED
    BY <1>a, <1>1, <2>1, Zenon DEF TablesOK, SnapshotSound, EventsOf, Ids, EventId
<1>. QED
  BY <1>3, <1>4, <1>5, <1>6, <1>7, Zenon DEF TablesOK

\* The columns of an instance's row after complete_with_events.
LEMMA RowFields ==
  ASSUME NEW u \in Tx
  PROVE  /\ RowWithEvents(u).exists /\ RowWithEvents(u).stream = bound[u]
         /\ snap[u] => /\ RowWithEvents(u).snapshotOffset = base[u] + n[u] - 1
                       /\ RowWithEvents(u).snapshot = root[u] \union NewIds(u)
         /\ ~snap[u] => /\ RowWithEvents(u).snapshotOffset = instances[Inst(u)].snapshotOffset
                        /\ RowWithEvents(u).snapshot = instances[Inst(u)].snapshot
  BY Zenon DEF RowWithEvents

(***************************************************************************)
(* The commit of a command that recorded events.  The stream's row is      *)
(* locked, so its offsets end where the new ones begin; the instance's row *)
(* is locked, so the root still stands for all of the instance's events;   *)
(* the command's row is locked, so the command has no events yet.          *)
(***************************************************************************)
LEMMA CommitEventsTablesOK ==
  ASSUME IInv, NEW u \in Tx, CommitCompleted(u), n[u] # 0
  PROVE  TablesOK'
<1>a. TypeOK /\ TaskOK(u) /\ TablesOK
  BY Zenon DEF IInv
<1> USE TxAssumption, StreamAssumption, PumpAssumption, CommandPumpsAssumption
<1> DEFINE s == bound[u]
           b == base[u]
           k == n[u]
           c == cmd[u]
           i == Inst(u)
           A == AppendedRows(s, b, k, c, i, root[u])
<1>1. /\ s \in Stream /\ b \in Nat /\ k \in Nat /\ k > 0
      /\ c \in Command /\ c \in queue /\ i = InstanceOf[c]
      /\ i \in Instance \union {NoInstance}
      /\ b = nextOffset[s]
  BY <1>a, TaskHasCommand, Zenon DEF CommitCompleted, At, TaskOK, TypeOK, Inst, Detached
<1>2. i # NoInstance => /\ i \in Instance
                        /\ root[u] = Ids(EventsOf(i))
                        /\ instances[i].stream \in {s, NoStream}
  BY <1>a, <1>1, Zenon DEF CommitCompleted, At, TaskOK, HasRow, IsAggregate, Inst
<1>3. /\ streams' = streams \union {s}
      /\ nextOffset' = [nextOffset EXCEPT ![s] = b + k]
      /\ events' = events \union A
      /\ queue' = queue \ {c}
  BY <1>1, Zenon DEF CommitCompleted, CommitHandled, CommitAppend
<1>4. /\ i # NoInstance => instances'[i] = RowWithEvents(u)
      /\ \A j \in Instance : j # i => instances'[j] = instances[j]
  BY <1>a, <1>1, <1>2, Zenon DEF CommitCompleted, TypeOK, IsAggregate, Inst
<1>5. /\ \A e \in A : /\ e.stream = s /\ e.cmd = c /\ e.inst = i /\ e.seen = root[u]
                      /\ e.ord \in 0 .. k - 1 /\ e.offset = b + e.ord
      /\ \A j \in 0 .. k - 1 : \E e \in A : e.ord = j /\ e.offset = b + j
      /\ \A e, f \in A : e.ord = f.ord => e = f
  <2>1. s \in Stream /\ b \in Nat /\ k \in Nat
    BY <1>1, Zenon
  <2>2. A = AppendedRows(s, b, k, c, i, root[u])
    BY Zenon
  <2> HIDE DEF s, b, k, c, i, A
  <2>3. RowsOfOne(A, s, b, k, c, i, root[u])
    BY <2>1, <2>2, AppendedRowsAre, ZenonT(30)
  <2>. QED
    BY <2>3, Zenon DEF RowsOfOne
<1>6. \A e \in events :
        /\ e.stream \in Stream /\ e.offset \in Nat /\ e.ord \in Nat
        /\ e.cmd # c
        /\ e.inst \in Instance \union {NoInstance}
        /\ e.stream = s => e.offset < b
        /\ e.inst = i /\ i # NoInstance => e.stream = s
  BY <1>a, <1>1, <1>2 DEF TablesOK, StreamsOK, HandledOnce, InstanceInOneStream, TypeOK, EventRow
<1>7. \A r \in Stream : nextOffset[r] \in Nat /\ nextOffset'[r] = IF r = s THEN b + k ELSE nextOffset[r]
  BY <1>a, <1>1, <1>3, ZenonT(30) DEF TypeOK
<1>8. i # NoInstance => /\ instances'[i].exists /\ instances'[i].stream = s
                        /\ snap[u] => /\ instances'[i].snapshotOffset = b + k - 1
                                      /\ instances'[i].snapshot = root[u] \union NewIds(u)
                        /\ ~snap[u] => /\ instances'[i].snapshotOffset = instances[i].snapshotOffset
                                       /\ instances'[i].snapshot = instances[i].snapshot
  BY <1>4, RowFields, ZenonT(30)
<1> HIDE DEF s, b, k, c, i, A
<1>9. StreamsOK'
  <2>1. \A e \in events' : e.stream \in streams' /\ e.offset < nextOffset'[e.stream]
    BY <1>a, <1>1, <1>3, <1>5, <1>6, <1>7 DEF TablesOK, StreamsOK
  <2>2. ASSUME NEW r \in Stream, NEW j \in 0 .. nextOffset'[r] - 1
        PROVE  \E e \in events' : e.stream = r /\ e.offset = j
    <3>1. CASE r = s /\ j >= b
      <4>1. j - b \in 0 .. k - 1
        BY <1>1, <1>7, <2>2, <3>1
      <4>2. PICK e \in A : e.ord = j - b /\ e.offset = b + (j - b)
        BY <1>5, <4>1, Zenon
      <4>. QED
        BY <1>1, <1>3, <1>5, <2>2, <3>1, <4>2
    <3>2. CASE ~(r = s /\ j >= b)
      <4>1. j \in 0 .. nextOffset[r] - 1
        BY <1>1, <1>7, <2>2, <3>2
      <4>. QED
        BY <1>a, <1>3, <4>1 DEF TablesOK, StreamsOK
    <3>. QED
      BY <3>1, <3>2, Zenon
  <2>3. \A e, f \in events' : e.stream = f.stream /\ e.offset = f.offset => e = f
    <3>1. \A e, f \in events : e.stream = f.stream /\ e.offset = f.offset => e = f
      BY <1>a, Zenon DEF TablesOK, StreamsOK
    <3>2. \A e, f \in A : e.offset = f.offset => e = f
      BY <1>1, <1>5
    <3>3. \A e \in events, f \in A : e.stream = f.stream => e.offset # f.offset
      BY <1>1, <1>5, <1>6
    <3>. QED
      BY <1>3, <3>1, <3>2, <3>3, Zenon
  <2>4. \A r \in Stream : r \in streams' <=> nextOffset'[r] > 0
    BY <1>a, <1>1, <1>3, <1>7 DEF TablesOK, StreamsOK
  <2>. QED
    BY <2>1, <2>2, <2>3, <2>4, Zenon DEF StreamsOK
<1>10. RowsOK'
  <2>1. ASSUME NEW j \in Instance, j # i
        PROVE  instances'[j] = instances[j]
    BY <1>4, <2>1, Zenon
  <2>2. ASSUME i \in Instance
        PROVE  /\ instances'[i].exists
               /\ instances'[i].snapshotOffset = -1 => instances'[i].snapshot = {}
    BY <1>a, <1>1, <1>2, <1>8, <2>2 DEF TablesOK, RowsOK
  <2>. QED
    BY <1>a, <2>1, <2>2, Zenon DEF TablesOK, RowsOK
<1>11. EventsOK' /\ HandledOnce'
  BY <1>a, <1>1, <1>3, <1>5, <1>6 DEF TablesOK, EventsOK, HandledOnce
<1>12. InstanceInOneStream'
  BY <1>a, <1>1, <1>3, <1>4, <1>5, <1>6, <1>8 DEF TablesOK, InstanceInOneStream
<1>13. DecidedOnHistory'
  <2> SUFFICES ASSUME NEW e \in events', e.inst # NoInstance
               PROVE  e.seen = Ids({f \in events' : /\ f.inst = e.inst
                                                   /\ f.offset < e.offset /\ f.cmd # e.cmd})
    BY Zenon DEF DecidedOnHistory, EventsOf, Ids, EventId
  <2>1. CASE e \in A
    <3>1. {f \in events' : f.inst = e.inst /\ f.offset < e.offset /\ f.cmd # e.cmd}
            = {f \in events : f.inst = i}
      BY <1>1, <1>3, <1>5, <1>6, <2>1
    <3>. QED
      BY <1>2, <1>5, <2>1, <3>1, Zenon DEF EventsOf
  <2>2. CASE e \in events
    <3>1. {f \in events' : f.inst = e.inst /\ f.offset < e.offset /\ f.cmd # e.cmd}
            = {f \in EventsOf(e.inst) : f.offset < e.offset /\ f.cmd # e.cmd}
      BY <1>1, <1>3, <1>5, <1>6, <2>2 DEF EventsOf
    <3>. QED
      BY <1>a, <2>2, <3>1, Zenon DEF TablesOK, DecidedOnHistory
  <2>. QED
    BY <1>3, <2>1, <2>2, Zenon
<1>14. SnapshotSound'
  <2> SUFFICES ASSUME NEW j \in Instance, instances'[j].snapshotOffset # -1
               PROVE  /\ instances'[j].stream # NoStream
                      /\ instances'[j].snapshotOffset < nextOffset'[instances'[j].stream]
                      /\ instances'[j].snapshot =
                           Ids({e \in events' : /\ e.inst = j
                                                /\ e.offset <= instances'[j].snapshotOffset})
    BY Zenon DEF SnapshotSound, EventsOf, Ids, EventId
  <2>a. /\ instances[j] \in Row
        /\ instances[j].snapshotOffset # -1 => instances[j].snapshotOffset \in Nat
    BY <1>a, Zenon DEF TypeOK, Row
  <2>1. CASE j # i
    <3>1. {e \in events' : e.inst = j /\ e.offset <= instances'[j].snapshotOffset}
            = {e \in EventsOf(j) : e.offset <= instances[j].snapshotOffset}
      BY <1>3, <1>4, <1>5, <2>1 DEF EventsOf
    <3>2. /\ instances[j].stream # NoStream /\ instances[j].stream \in Stream
          /\ instances[j].snapshotOffset < nextOffset[instances[j].stream]
          /\ instances[j].snapshot =
               Ids({e \in EventsOf(j) : e.offset <= instances[j].snapshotOffset})
      BY <1>a, <1>4, <2>a, <2>1, Zenon DEF TablesOK, SnapshotSound, Row
    <3>3. instances[j].snapshotOffset < nextOffset'[instances[j].stream]
      BY <1>1, <1>4, <1>7, <2>1, <2>a, <3>2
    <3>. QED
      BY <1>4, <2>1, <3>1, <3>2, <3>3, Zenon
  <2>2. CASE j = i /\ snap[u]
    <3>1. {e \in events' : e.inst = j /\ e.offset <= instances'[j].snapshotOffset}
            = EventsOf(j) \union A
      BY <1>1, <1>3, <1>5, <1>6, <1>8, <2>2 DEF EventsOf
    <3>2. Ids(A) = NewIds(u)
      BY <1>5 DEF Ids, EventId, NewIds, c, k
    <3>3. Ids(EventsOf(j) \union A) = Ids(EventsOf(j)) \union Ids(A)
      BY Zenon DEF Ids
    <3>4. instances'[j].stream = s /\ instances'[j].snapshotOffset < nextOffset'[s]
      BY <1>1, <1>7, <1>8, <2>2
    <3>5. instances'[j].snapshot = Ids(EventsOf(j)) \union NewIds(u)
      BY <1>2, <1>8, <2>2, Zenon
    <3>. QED
      BY <1>1, <3>1, <3>2, <3>3, <3>4, <3>5, Zenon
  <2>3. CASE j = i /\ ~snap[u]
    <3>1. /\ i # NoInstance
          /\ instances[j].snapshotOffset = instances'[j].snapshotOffset
          /\ instances[j].snapshot = instances'[j].snapshot
          /\ instances'[j].stream = s
      BY <1>8, <2>3, Zenon
    <3>2. /\ instances[j].stream = s
          /\ instances[j].snapshotOffset < b
          /\ instances[j].snapshot =
               Ids({e \in EventsOf(j) : e.offset <= instances[j].snapshotOffset})
      BY <1>a, <1>1, <1>2, <2>3, <3>1, Zenon DEF TablesOK, SnapshotSound
    <3>3. {e \in events' : e.inst = j /\ e.offset <= instances'[j].snapshotOffset}
            = {e \in EventsOf(j) : e.offset <= instances[j].snapshotOffset}
      BY <1>1, <1>3, <1>5, <2>a, <3>1, <3>2 DEF EventsOf
    <3>4. instances[j].snapshotOffset < nextOffset'[s]
      BY <1>1, <1>7, <2>a, <3>1, <3>2
    <3>. QED
      BY <1>1, <3>1, <3>2, <3>3, <3>4, Zenon
  <2>. QED
    BY <2>1, <2>2, <2>3, Zenon
<1>. QED
  BY <1>9, <1>10, <1>11, <1>12, <1>13, <1>14, Zenon DEF TablesOK

-------------------------------------------------------------------------------
(***************************************************************************)
(* IInv holds initially and is preserved by every step.                    *)
(***************************************************************************)
LEMMA InitIInv == Init => IInv
<1> SUFFICES ASSUME Init PROVE IInv
  BY Zenon
<1> USE TxAssumption, StreamAssumption, PumpAssumption, CommandPumpsAssumption
<1> USE DEF Init, MessagePumpInit, EventStreamInit, Unlocked
<1>1. NoRow \in Row
  BY Zenon DEF NoRow, Row
<1>2. TypeOK
  BY <1>1, ZenonT(30) DEF TypeOK, Labels
<1>3. ASSUME NEW t \in Tx PROVE TaskOK(t)
  <2>1. /\ pc[t] = "idle" /\ cmd[t] = NoCommand /\ created[t] = FALSE
        /\ root[t] = {} /\ n[t] = 0
    BY Zenon
  <2>. QED
    BY <2>1 DEF TaskOK, HasRow, Detached
<1>4. TablesOK
  BY DEF TablesOK, StreamsOK, RowsOK, EventsOK, HandledOnce, InstanceInOneStream,
         DecidedOnHistory, SnapshotSound, NoRow
<1>. QED
  BY <1>2, <1>3, <1>4, Zenon DEF IInv

\* Every step keeps the inductive invariant.
LEMMA NextIInv == IInv /\ [Next]_vars => IInv'
<1> SUFFICES ASSUME IInv, [Next]_vars PROVE IInv'
  BY Zenon
<1>1. TypeOK'
  BY TypeStep, Zenon
<1>2. ASSUME NEW u \in Tx, StepOf(u) PROVE (\A t \in Tx : TaskOK(t))' /\ TablesOK'
  <2>1. ASSUME NEW t \in Tx PROVE TaskOK(t)'
    BY <1>2, OwnTaskOK, OthersUntouched, UntouchedTaskOK, Zenon DEF IInv
  <2>2. CASE CommitCompleted(u)
    BY <2>1, <2>2, CommitNothingTablesOK, CommitEventsTablesOK, Zenon
  <2>3. CASE PostponeDelivery(u)
    BY <2>1, <2>3, PostponeTablesOK, Zenon
  <2>4. CASE ~CommitCompleted(u) /\ ~PostponeDelivery(u)
    <3>1. UNCHANGED <<queue, streams, nextOffset, events, instances>>
      BY <1>2, <2>4, Zenon
      DEF StepOf, Handle, AcquireDelivery, Acquire, RejectDelivery, LockInstance, InstanceBusy,
          InstanceAbsent, CreateInstance, LoadRoot, LoadFails, HandleCommand, HandleCommandPanics,
          CallIntegration, IntegrationReturns, IntegrationFails, CompleteWithEvents, Rollback,
          RollbackTask, OrphanCall, LoseTransaction, OrphanReturns, TaskStep, TaskFails, streamVars, aggregateVars
    <3>. QED
      BY <2>1, <3>1, QuietTablesOK, Zenon DEF IInv
  <2>. QED
    BY <2>2, <2>3, <2>4, Zenon
<1>3. ASSUME UNCHANGED <<queue, streams, nextOffset, events, streamLock, instances, instLock,
                         cmdLock, pc, cmd, taskVars>>
      PROVE  (\A t \in Tx : TaskOK(t))' /\ TablesOK'
  <2>1. ASSUME NEW t \in Tx PROVE TaskOK(t)'
    BY <1>3, UntouchedTaskOK, Zenon DEF IInv, Untouched, taskVars
  <2>. QED
    BY <1>3, <2>1, QuietTablesOK, Zenon DEF IInv
<1>4. ASSUME NEW c \in Command, DeliveryBecomesDue(c) PROVE (\A t \in Tx : TaskOK(t))' /\ TablesOK'
  BY <1>3, <1>4, Zenon DEF DeliveryBecomesDue, BackoffElapses, streamVars, aggregateVars
<1>5. ASSUME UNCHANGED vars PROVE (\A t \in Tx : TaskOK(t))' /\ TablesOK'
  BY <1>3, <1>5, Zenon DEF vars, pumpVars, streamVars, aggregateVars
<1>6. (\A t \in Tx : TaskOK(t))' /\ TablesOK'
  BY <1>2, <1>4, <1>5, Zenon DEF Next, StepOf
<1>. QED
  BY <1>1, <1>6, Zenon DEF IInv

(***************************************************************************)
(* The tables of the engine stay consistent for any number of workers and  *)
(* of messages, whatever fails: the properties of CommandPumps that are    *)
(* about committed rows follow from the inductive invariant.               *)
(***************************************************************************)
LEMMA Invariance == Spec => []IInv
  BY InitIInv, NextIInv, PTL DEF Spec

(***************************************************************************)
(* Type correctness of the pumps and the tables.                           *)
(***************************************************************************)
THEOREM TypeCorrect == Spec => []TypeOK
<1>1. IInv => TypeOK
  BY Zenon DEF IInv
<1>. QED
  BY Invariance, <1>1, PTL

(***************************************************************************)
(* Concurrent appends (eventstream.append under the lock on the stream's   *)
(* row) neither leave a gap in a stream's offsets nor share one.           *)
(***************************************************************************)
THEOREM StreamsContiguous == Spec => []OffsetsContiguous
<1>1. IInv => OffsetsContiguous
  <2> SUFFICES ASSUME IInv PROVE OffsetsContiguous
    BY Zenon
  <2>1. TypeOK /\ StreamsOK
    BY ZenonT(30) DEF IInv, TablesOK
  <2>2. ASSUME NEW s \in Stream
        PROVE  {e.offset : e \in {f \in events : f.stream = s}} = 0 .. nextOffset[s] - 1
    <3>1. nextOffset[s] \in Nat /\ \A e \in events : e.offset \in Nat
      BY <2>1, Zenon DEF TypeOK, EventRow
    <3>2. \A e \in events : e.stream = s => e.offset < nextOffset[s]
      BY <2>1, Zenon DEF StreamsOK
    <3>3. \A k \in 0 .. nextOffset[s] - 1 : \E e \in events : e.stream = s /\ e.offset = k
      BY <2>1, Zenon DEF StreamsOK
    <3>. QED
      BY <3>1, <3>2, <3>3
  <2>. QED
    BY <2>1, <2>2, Zenon DEF OffsetsContiguous, StreamsOK
<1>. QED
  BY Invariance, <1>1, PTL

(***************************************************************************)
(* No committed stream is empty, so phase 2 of acquire_for_write() never   *)
(* finds a row to wait for.                                                *)
(***************************************************************************)
THEOREM StreamsHaveEvents == Spec => []NoEmptyStream
<1>1. IInv => NoEmptyStream
  BY DEF IInv, TablesOK, StreamsOK, TypeOK, NoEmptyStream, EmptyStreams
<1>. QED
  BY Invariance, <1>1, PTL

(***************************************************************************)
(* A command's events are committed at most once, together with its        *)
(* removal from the queue.                                                 *)
(***************************************************************************)
THEOREM CommandsHandledOnce == Spec => []HandledOnce
<1>1. IInv => HandledOnce
  BY Zenon DEF IInv, TablesOK
<1>. QED
  BY Invariance, <1>1, PTL

(***************************************************************************)
(* Racing creators of an aggregate instance end up with one stream.        *)
(***************************************************************************)
THEOREM OneStreamPerInstance == Spec => []InstanceInOneStream
<1>1. IInv => InstanceInOneStream
  BY Zenon DEF IInv, TablesOK
<1>. QED
  BY Invariance, <1>1, PTL

(***************************************************************************)
(* Every event an aggregate recorded was decided on with exactly the       *)
(* earlier events of the instance applied: no update is lost.              *)
(***************************************************************************)
THEOREM NoLostUpdate == Spec => []DecidedOnHistory
<1>1. IInv => DecidedOnHistory
  BY Zenon DEF IInv, TablesOK
<1>. QED
  BY Invariance, <1>1, PTL

(***************************************************************************)
(* A snapshot stands for exactly the events up to its offset.              *)
(***************************************************************************)
THEOREM SnapshotsSound == Spec => []SnapshotSound
<1>1. IInv => SnapshotSound
  BY Zenon DEF IInv, TablesOK
<1>. QED
  BY Invariance, <1>1, PTL

(***************************************************************************)
(* Only the tasks that commit write the tables.                            *)
(***************************************************************************)
LEMMA QuietSteps ==
  ASSUME [Next]_vars, ~\E u \in Tx : CommitCompleted(u) \/ PostponeDelivery(u)
  PROVE  UNCHANGED <<queue, streams, nextOffset, events, instances>>
<1> USE DEF TaskStep, TaskFails, streamVars, aggregateVars
<1>1. ASSUME NEW u \in Tx, Handle(u), ~CommitCompleted(u), ~PostponeDelivery(u)
      PROVE  UNCHANGED <<queue, streams, nextOffset, events, instances>>
  BY <1>1, Zenon
  DEF Handle, RejectDelivery, LockInstance, InstanceBusy, InstanceAbsent, CreateInstance, LoadRoot,
      LoadFails, HandleCommand, HandleCommandPanics, CallIntegration, IntegrationReturns,
      IntegrationFails, CompleteWithEvents, OrphanReturns
<1>2. ASSUME NEW u \in Tx, NEW c \in Command, AcquireDelivery(u, c)
      PROVE  UNCHANGED <<queue, streams, nextOffset, events, instances>>
  BY <1>2, Zenon DEF AcquireDelivery, Acquire
<1>3. ASSUME NEW u \in Tx, Rollback(u) \/ OrphanCall(u)
      PROVE  UNCHANGED <<queue, streams, nextOffset, events, instances>>
  BY <1>3, Zenon DEF Rollback, RollbackTask, OrphanCall, LoseTransaction
<1>4. ASSUME NEW c \in Command, DeliveryBecomesDue(c)
      PROVE  UNCHANGED <<queue, streams, nextOffset, events, instances>>
  BY <1>4, Zenon DEF DeliveryBecomesDue, BackoffElapses
<1>5. ASSUME UNCHANGED vars
      PROVE  UNCHANGED <<queue, streams, nextOffset, events, instances>>
  BY <1>5, Zenon DEF vars, pumpVars
<1>. QED
  BY <1>1, <1>2, <1>3, <1>4, <1>5, Zenon DEF Next

(***************************************************************************)
(* Whatever later commands do, an instance keeps its row and its stream.   *)
(***************************************************************************)
THEOREM BindingsPermanent == Spec => BindingPermanent
<1> DEFINE Keeps == \A i \in Instance : instances[i].stream # NoStream =>
                      instances'[i].exists /\ instances'[i].stream = instances[i].stream
<1>1. IInv /\ [Next]_vars => Keeps
  <2> SUFFICES ASSUME IInv, [Next]_vars,
                      NEW i \in Instance, instances[i].stream # NoStream
               PROVE  instances'[i].exists /\ instances'[i].stream = instances[i].stream
    BY Zenon
  <2>a. TypeOK /\ RowsOK /\ instances[i].exists
    BY Zenon DEF IInv, TablesOK, RowsOK
  <2>1. CASE \E u \in Tx : CommitCompleted(u)
    <3>1. PICK u \in Tx : CommitCompleted(u)
      BY <2>1, Zenon
    <3>2. CASE i # Inst(u)
      BY <2>a, <3>1, <3>2, CommitWrites, Zenon
    <3>3. CASE i = Inst(u)
      <4>1. /\ i # NoInstance
            /\ instances' = [instances EXCEPT ![i] =
                               IF n[u] > 0 THEN RowWithEvents(u) ELSE RowWithoutEvents(u)]
        BY <3>1, <3>3, CommandPumpsAssumption, SMTT(30) DEF CommitCompleted, IsAggregate, Inst
      <4>2. bound[u] = instances[i].stream
        BY <3>1, <3>3, <4>1, Zenon DEF IInv, TaskOK, HasRow, CommitCompleted, At, IsAggregate, Inst
      <4>3. instances'[i] = IF n[u] > 0 THEN RowWithEvents(u) ELSE RowWithoutEvents(u)
        BY <2>a, <4>1, Zenon DEF TypeOK
      <4>. QED
        BY <2>a, <3>3, <4>2, <4>3 DEF RowWithEvents, RowWithoutEvents
    <3>. QED
      BY <3>2, <3>3, Zenon
  <2>2. CASE \E u \in Tx : PostponeDelivery(u)
    <3>1. PICK u \in Tx : PostponeDelivery(u)
      BY <2>2, Zenon
    <3>2. created[u] => instances[Inst(u)].stream = NoStream
      BY DEF IInv, TaskOK, NoRow
    <3>. QED
      BY <2>a, <3>1, <3>2, Zenon DEF PostponeDelivery, TypeOK
  <2>3. CASE ~\E u \in Tx : CommitCompleted(u) \/ PostponeDelivery(u)
    BY <2>a, <2>3, QuietSteps, SMTT(30)
  <2>. QED
    BY <2>1, <2>2, <2>3, Zenon
<1>. QED
  BY Invariance, <1>1, PTL DEF Spec, BindingPermanent

(***************************************************************************)
(* Under minimal concurrency the advisory lock is held by exactly the task *)
(* that is in a call of the integration and has its transaction.           *)
(***************************************************************************)
AdvisoryOK == MinimizeConcurrency => \A t \in Tx : At(t, "calling") <=> advisory = t

\* Every step keeps what is claimed of the advisory lock.
LEMMA AdvisoryStep == IInv /\ AdvisoryOK /\ [Next]_vars => AdvisoryOK'
<1> SUFFICES ASSUME IInv, AdvisoryOK, [Next]_vars, MinimizeConcurrency, NEW t \in Tx
             PROVE  pc'[t] = "calling" <=> advisory' = t
  BY Zenon DEF AdvisoryOK, At
<1> DEFINE Agree == pc'[t] = "calling" <=> advisory' = t
<1>a. /\ pc \in [Tx -> Labels] /\ NoTx \notin Tx
      /\ \A u \in Tx : pc[u] = "calling" <=> advisory = u
  BY TxAssumption, Zenon DEF IInv, TypeOK, AdvisoryOK, At
<1>b. ASSUME NEW u \in Tx, NEW to, to # "calling", pc' = [pc EXCEPT ![u] = to],
             \/ FreeAdvisory(u)
             \/ pc[u] # "calling" /\ advisory' = advisory
      PROVE  Agree
  <2>1. CASE t = u
    BY <1>a, <1>b, <2>1, Zenon DEF FreeAdvisory
  <2>2. CASE t # u
    BY <1>a, <1>b, <2>2, Zenon DEF FreeAdvisory
  <2>. QED
    BY <2>1, <2>2, Zenon
<1> HIDE DEF Agree
<1> USE DEF TaskStep, TaskFails, At, Goto
<1>1. ASSUME NEW u \in Tx, NEW c \in Command, AcquireDelivery(u, c) PROVE Agree
  BY <1>1, <1>b, Zenon DEF AcquireDelivery, Acquire
<1>2. ASSUME NEW u \in Tx, CallIntegration(u) PROVE Agree
  <2>1. advisory = NoTx /\ advisory' = u /\ pc' = [pc EXCEPT ![u] = "calling"]
    BY <1>2, Zenon DEF CallIntegration
  <2>. QED
    BY <1>a, <2>1, Zenon DEF Agree
<1>3. ASSUME NEW u \in Tx, IntegrationReturns(u) \/ IntegrationFails(u) PROVE Agree
  <2>1. FreeAdvisory(u) /\ \E to : to # "calling" /\ pc' = [pc EXCEPT ![u] = to]
    BY <1>3, ZenonT(30) DEF IntegrationReturns, IntegrationFails
  <2>. QED
    BY <1>b, <2>1, Zenon
<1>4. ASSUME NEW u \in Tx,
             CommitCompleted(u) \/ PostponeDelivery(u) \/ Rollback(u) \/ OrphanCall(u)
      PROVE  Agree
  <2>1. FreeAdvisory(u) /\ \E to \in Detached : LeaveTransaction(u, to)
    BY <1>4, Zenon
    DEF CommitCompleted, CommitHandled, PostponeDelivery, CommitPostponed, Rollback, RollbackTask,
        OrphanCall, LoseTransaction, EndTransaction, EndTask, Detached
  <2>. QED
    BY <1>b, <2>1, Zenon DEF LeaveTransaction, Detached
<1>5. ASSUME NEW u \in Tx,
             \/ RejectDelivery(u) \/ LockInstance(u) \/ InstanceBusy(u) \/ InstanceAbsent(u)
             \/ CreateInstance(u) \/ LoadRoot(u) \/ LoadFails(u) \/ HandleCommand(u)
             \/ HandleCommandPanics(u) \/ CompleteWithEvents(u) \/ OrphanReturns(u)
      PROVE  Agree
  <2>1. /\ advisory' = advisory /\ pc[u] # "calling"
        /\ \E to : to # "calling" /\ pc' = [pc EXCEPT ![u] = to]
    <3>1. CASE RejectDelivery(u) \/ LockInstance(u) \/ InstanceBusy(u) \/ InstanceAbsent(u)
      BY <3>1, ZenonT(30) DEF RejectDelivery, LockInstance, InstanceBusy, InstanceAbsent
    <3>2. CASE CreateInstance(u) \/ LoadRoot(u) \/ LoadFails(u) \/ HandleCommandPanics(u)
      BY <3>2, ZenonT(30) DEF CreateInstance, LoadRoot, LoadFails, HandleCommandPanics
    <3>3. CASE HandleCommand(u) \/ CompleteWithEvents(u) \/ OrphanReturns(u)
      BY <3>3, ZenonT(30) DEF HandleCommand, CompleteWithEvents, OrphanReturns
    <3>. QED
      BY <1>5, <3>1, <3>2, <3>3, Zenon
  <2>. QED
    BY <1>b, <2>1, Zenon
<1>6. ASSUME NEW c \in Command, DeliveryBecomesDue(c) PROVE Agree
  BY <1>a, <1>6, Zenon DEF DeliveryBecomesDue, BackoffElapses, Agree
<1>7. ASSUME UNCHANGED vars PROVE Agree
  BY <1>a, <1>7, Zenon DEF vars, pumpVars, Agree
<1>8. Agree
  BY <1>1, <1>2, <1>3, <1>4, <1>5, <1>6, <1>7, Zenon DEF Next, Handle
<1>. QED
  BY <1>8, Zenon DEF Agree

(***************************************************************************)
(* EnforceConcurrencyPreference lets one call of an integration that asks  *)
(* for minimal concurrency at a time have a transaction, and the advisory  *)
(* lock is never held by a task that is not in such a call.  A call whose  *)
(* transaction was lost under it may overlap with the next one.            *)
(***************************************************************************)
THEOREM IntegrationSerialised == Spec => []OneIntegrationAtATime
<1>1. Init => AdvisoryOK
  BY TxAssumption, Zenon DEF Init, MessagePumpInit, AdvisoryOK, At
<1>2. IInv /\ AdvisoryOK => OneIntegrationAtATime
  BY Zenon DEF IInv, TypeOK, AdvisoryOK, OneIntegrationAtATime
<1>. QED
  BY Invariance, AdvisoryStep, <1>1, <1>2, PTL DEF Spec

-------------------------------------------------------------------------------
(***************************************************************************)
(* The commit of a handled command is the abstract HandleOnce: the root it *)
(* decided on is the history of the instance at the time of the commit.    *)
(***************************************************************************)
LEMMA CommitIsHandleOnce ==
  ASSUME IInv, NEW u \in Tx, CommitCompleted(u)
  PROVE  Promise!HandleOnce(cmd[u]) /\ cmd[u] \in Command
<1>a. TypeOK /\ TaskOK(u)
  BY Zenon DEF IInv
<1> DEFINE c == cmd[u]
           entry(j) == [cmd |-> c, ord |-> j, inst |-> InstanceOf[c], seen |-> Promise!Context(c)]
<1>1. c \in Command /\ c \in queue /\ queue' = queue \ {c}
  BY <1>a, Zenon DEF CommitCompleted, CommitHandled, TypeOK
<1>2. root[u] = Promise!Context(c)
  <2>1. \A i : Promise!History(i) = Ids(EventsOf(i))
    <3> TAKE i
    <3>1. \A x : x \in Promise!History(i) <=>
                  \E r \in Recorded : r.inst = i /\ x = <<r.cmd, r.ord>>
      BY Zenon DEF Promise!History
    <3>2. \A x : (\E r \in Recorded : r.inst = i /\ x = <<r.cmd, r.ord>>) <=>
                  \E e \in events : e.inst = i /\ x = <<e.cmd, e.ord>>
      <4> DEFINE public(e) == [cmd |-> e.cmd, ord |-> e.ord, inst |-> e.inst, seen |-> e.seen]
      <4>1. \A r : r \in Recorded <=> \E e \in events : r = public(e)
        BY Zenon DEF Recorded
      <4>2. \A e : public(e).inst = e.inst /\ public(e).cmd = e.cmd /\ public(e).ord = e.ord
        BY Zenon
      <4> HIDE DEF public
      <4>. QED
        BY <4>1, <4>2
    <3>3. \A x : x \in Ids(EventsOf(i)) <=>
                  \E e \in events : e.inst = i /\ x = <<e.cmd, e.ord>>
      BY Zenon DEF Ids, EventId, EventsOf
    <3>. QED
      BY <3>1, <3>2, <3>3, Zenon
  <2>2. CASE IsAggregate(c)
    BY <1>a, <2>1, <2>2, ZenonT(30)
    DEF CommitCompleted, At, TaskOK, HasRow, Inst, IsAggregate, Promise!Context
  <2>3. CASE ~IsAggregate(c)
    BY <1>a, <2>3, ZenonT(30) DEF CommitCompleted, At, TaskOK, IsAggregate, Promise!Context
  <2>. QED
    BY <2>2, <2>3, Zenon
<1>3. n[u] \in 0 .. MaxEvents[c]
  BY <1>a, Zenon DEF TaskOK, CommitCompleted, At, Detached
<1>4. Recorded' = Recorded \union {entry(j) : j \in 0 .. n[u] - 1}
  <2>1. CASE n[u] > 0
    <3>1. events' = events \union AppendedRows(bound[u], base[u], n[u], c, Inst(u), root[u])
      BY <2>1 DEF CommitCompleted, CommitAppend
    <3> DEFINE A == AppendedRows(bound[u], base[u], n[u], c, Inst(u), root[u])
               public(e) == [cmd |-> e.cmd, ord |-> e.ord, inst |-> e.inst, seen |-> e.seen]
               row(j) == [stream |-> bound[u], offset |-> base[u] + j, cmd |-> c, ord |-> j,
                          inst |-> Inst(u), seen |-> root[u]]
    <3>2. {public(e) : e \in A} = {entry(j) : j \in 0 .. n[u] - 1}
      <4>1. A = {row(j) : j \in 0 .. n[u] - 1}
        BY SMTT(30) DEF AppendedRows
      <4>2. \A j : public(row(j)) = entry(j)
        BY <1>2, Zenon DEF Inst
      <4> HIDE DEF A, public, entry, row
      <4>. QED
        BY <4>1, <4>2, SMTT(30)
    <3>3. Recorded' = {public(e) : e \in events'}
      BY Zenon DEF Recorded
    <3>4. Recorded = {public(e) : e \in events}
      BY Zenon DEF Recorded
    <3> HIDE DEF A, public, entry
    <3>. QED
      BY <3>1, <3>2, <3>3, <3>4, SMTT(30) DEF A
  <2>2. CASE ~(n[u] > 0)
    <3>1. events' = events
      BY <2>2, Zenon DEF CommitCompleted
    <3>2. 0 .. n[u] - 1 = {}
      BY <1>3, <2>2
    <3>3. Recorded' = Recorded
      BY <3>1, Zenon DEF Recorded
    <3>. QED
      BY <3>2, <3>3, Zenon
  <2>. QED
    BY <2>1, <2>2, Zenon
<1>. QED
  BY <1>1, <1>3, <1>4, Zenon DEF Promise!HandleOnce

(***************************************************************************)
(* The pumps implement CommandHandling: for whoever executes commands,     *)
(* handling is indivisible, happens at most once, and each aggregate sees  *)
(* its whole history.                                                      *)
(***************************************************************************)
THEOREM Refinement == Spec => ImplementsCommandHandling
<1>1. Init => Promise!Init
  BY Zenon DEF Init, MessagePumpInit, EventStreamInit, Promise!Init, Recorded
<1>2. IInv /\ [Next]_vars => [Promise!Next]_<<queue, Recorded>>
  <2> SUFFICES ASSUME IInv, [Next]_vars
               PROVE  Promise!Next \/ UNCHANGED <<queue, Recorded>>
    BY Zenon
  <2>1. CASE \E u \in Tx : CommitCompleted(u)
    BY <2>1, CommitIsHandleOnce, Zenon DEF Promise!Next
  <2>2. CASE \E u \in Tx : PostponeDelivery(u)
    BY <2>2, Zenon DEF PostponeDelivery, CommitPostponed, Recorded
  <2>3. CASE ~\E u \in Tx : CommitCompleted(u) \/ PostponeDelivery(u)
    BY <2>3, QuietSteps, Zenon DEF Recorded
  <2>. QED
    BY <2>1, <2>2, <2>3, Zenon
<1>. QED
  BY Invariance, <1>1, <1>2, PTL DEF Spec, ImplementsCommandHandling, Promise!Spec
===============================================================================
