----------------------------- MODULE CommandPumps -----------------------------
(***************************************************************************)
(* The aggregate command pumps (internal/aggregate) and the integration    *)
(* command pumps (internal/integration) as drivers of the message pump,    *)
(* composed with the event streams they both append to.                    *)
(*                                                                         *)
(* An aggregate root is modelled by what it knows: the set of the IDs of   *)
(* the events applied to it.  A snapshot is a root that was marshaled.     *)
(* Every event carries the root its command handler saw when it decided to *)
(* record the event ("seen"), since the handler's choice depends on it.    *)
(*                                                                         *)
(* The labels of a task (pc) and the code they stand for:                  *)
(*   acquired   the delivery is locked, HandleDelivery is about to start   *)
(*   absent     tryLockInstance found no row                               *)
(*   locked     the instance row is locked, the root is still to be built  *)
(*   loaded     loadInstance has returned, HandleCommand is to be called   *)
(*   calling    the integration's HandleCommand is running                 *)
(*   orphaned   it is still running, but its transaction is gone           *)
(*   recorded   the handler has recorded events                            *)
(*   complete   the SQL of completeWith(out)Events has run                 *)
(*   failed, busy   HandleDelivery has returned ErrFailed, ErrBusy         *)
(***************************************************************************)
EXTENDS MessagePump, EventStream

CONSTANTS
  Instance,             \* aggregate instances
  NoInstance,           \* marks the commands handled by an integration
  InstanceOf,           \* RouteCommandToInstance()
  MinimizeConcurrency,  \* the integration's concurrency preference
  MaxEvents             \* bound on the events each command records

ASSUME CommandPumpsAssumption ==
  /\ NoInstance \notin Instance
  /\ InstanceOf \in [Command -> Instance \union {NoInstance}]
  /\ MinimizeConcurrency \in BOOLEAN

ASSUME EventsAssumption == MaxEvents \in [Command -> Nat]

VARIABLES
  instances,   \* aggregate.instances: whether the row is there and its columns
  instLock,    \* who holds the lock on an instance's row (or its insertion)
  advisory,    \* who holds the integration's session-level advisory lock
  created,     \* the task's transaction has inserted the instance's row
  bound,       \* the event stream the task will append to, if known
  from,        \* the offset at which the task starts replaying events
  root,        \* the aggregate root (or the snapshot fetched for it)
  n,           \* how many events the handler has recorded
  base,        \* offset of the first of them
  snap         \* a snapshot was marshaled along with them

aggregateVars == <<instances, instLock>>
taskVars == <<created, bound, from, root, n, base, snap>>
vars == <<pumpVars, streamVars, aggregateVars, advisory, taskVars>>

(***************************************************************************)
(* No row, and the row tryCreateInstance inserts: its other columns are    *)
(* NULL (no stream, no snapshot).                                          *)
(***************************************************************************)
NoRow == [exists |-> FALSE, stream |-> NoStream, snapshotOffset |-> -1, snapshot |-> {}]

InsertedRow == [exists |-> TRUE, stream |-> NoStream, snapshotOffset |-> -1, snapshot |-> {}]

IsAggregate(c) == InstanceOf[c] # NoInstance

Inst(t) == InstanceOf[cmd[t]]

(***************************************************************************)
(* The rows of eventstream.events written by an aggregate instance.        *)
(***************************************************************************)
EventsOf(i) == {e \in events : e.inst = i}

(***************************************************************************)
(* The message pump's acquisition, and failures before anything is loaded: *)
(* an envelope that cannot be decoded (doAcquireTask), a message that      *)
(* cannot be unpacked, or a routing error.                                 *)
(***************************************************************************)
AcquireDelivery(t, c) ==
  /\ Acquire(t, c)
  /\ UNCHANGED <<streamVars, aggregateVars, advisory, taskVars>>

RejectDelivery(t) ==
  /\ TaskFails(t, "acquired")
  /\ UNCHANGED <<streamVars, aggregateVars, advisory, taskVars>>

(***************************************************************************)
(* The columns of the instance's row, as the locking statement returns     *)
(* them: the offset is COALESCE(snapshot_offset + 1, 0).                   *)
(***************************************************************************)
FetchRow(t) ==
  /\ bound' = [bound EXCEPT ![t] = instances[Inst(t)].stream]
  /\ from' = [from EXCEPT ![t] = instances[Inst(t)].snapshotOffset + 1]
  /\ root' = [root EXCEPT ![t] = instances[Inst(t)].snapshot]

(***************************************************************************)
(* tryLockInstance: FOR UPDATE SKIP LOCKED.  The row is locked and         *)
(* fetched, or it is locked by someone else, or there is no row.           *)
(***************************************************************************)
LockInstance(t) ==
  /\ TaskStep(t, "acquired", "locked")
  /\ IsAggregate(cmd[t])
  /\ instances[Inst(t)].exists
  /\ instLock[Inst(t)] = NoTx
  /\ instLock' = Lock(instLock, Inst(t), t)
  /\ FetchRow(t)
  /\ UNCHANGED <<streamVars, instances, advisory, created, n, base, snap>>

InstanceBusy(t) ==
  /\ TaskStep(t, "acquired", "busy")
  /\ IsAggregate(cmd[t])
  /\ instances[Inst(t)].exists
  /\ instLock[Inst(t)] # NoTx
  /\ UNCHANGED <<streamVars, aggregateVars, advisory, taskVars>>

InstanceAbsent(t) ==
  /\ TaskStep(t, "acquired", "absent")
  /\ IsAggregate(cmd[t])
  /\ ~instances[Inst(t)].exists
  /\ UNCHANGED <<streamVars, aggregateVars, advisory, taskVars>>

(***************************************************************************)
(* tryCreateInstance: INSERT ... ON CONFLICT DO UPDATE.  It waits for a    *)
(* transaction that is inserting or has locked the same row and then takes *)
(* whatever that one has committed.                                        *)
(***************************************************************************)
\* Seeded fault: the insert assumes that the row is new.
CreateInstanceBlindly(t) ==
  /\ TaskStep(t, "absent", "locked")
  /\ instLock[Inst(t)] = NoTx
  /\ instLock' = Lock(instLock, Inst(t), t)
  /\ created' = [created EXCEPT ![t] = TRUE]
  /\ bound' = [bound EXCEPT ![t] = NoStream]
  /\ from' = [from EXCEPT ![t] = 0]
  /\ root' = [root EXCEPT ![t] = {}]
  /\ UNCHANGED <<streamVars, instances, advisory, n, base, snap>>

\* Seeded fault: the insert does not wait for the lock.
CreateInstanceUnlocked(t) ==
  /\ TaskStep(t, "absent", "locked")
  /\ instLock' = instLock
  /\ created' = [created EXCEPT ![t] = ~instances[Inst(t)].exists]
  /\ FetchRow(t)
  /\ UNCHANGED <<streamVars, instances, advisory, n, base, snap>>

CreateInstance(t) ==
  /\ TaskStep(t, "absent", "locked")
  /\ instLock[Inst(t)] = NoTx
  /\ instLock' = Lock(instLock, Inst(t), t)
  /\ created' = [created EXCEPT ![t] = ~instances[Inst(t)].exists]
  /\ FetchRow(t)
  /\ UNCHANGED <<streamVars, instances, advisory, n, base, snap>>

(***************************************************************************)
(* The rest of loadInstance.  Without a stream binding the root is fresh;  *)
(* otherwise it is the snapshot plus the instance's events from the offset *)
(* after it, or all of the instance's events when there is no snapshot or  *)
(* the snapshot cannot be unmarshaled.                                     *)
(***************************************************************************)
Replay(s, i, offset) == Ids({e \in EventsOf(i) : e.stream = s /\ e.offset >= offset})

\* Seeded fault: replay starts one past the first event after the snapshot.
LoadRootOffByOne(t) ==
  /\ TaskStep(t, "locked", "loaded")
  /\ root' = [root EXCEPT ![t] = @ \union Replay(bound[t], Inst(t), from[t] + 1)]
  /\ UNCHANGED <<streamVars, aggregateVars, advisory, created, bound, from, n, base, snap>>

LoadRoot(t) ==
  /\ TaskStep(t, "locked", "loaded")
  /\ \/ /\ bound[t] = NoStream
        /\ root' = [root EXCEPT ![t] = {}]
     \/ /\ bound[t] # NoStream
        /\ root' = [root EXCEPT ![t] = @ \union Replay(bound[t], Inst(t), from[t])]
     \/ /\ bound[t] # NoStream
        /\ from[t] # 0
        /\ root' = [root EXCEPT ![t] = Replay(bound[t], Inst(t), 0)]
  /\ UNCHANGED <<streamVars, aggregateVars, advisory, created, bound, from, n, base, snap>>

\* newRoot panics, or an event cannot be unmarshaled or applied.
LoadFails(t) ==
  /\ TaskFails(t, "locked")
  /\ UNCHANGED <<streamVars, aggregateVars, advisory, taskVars>>

(***************************************************************************)
(* The aggregate's HandleCommand: it records k events, each applied to the *)
(* root, or it panics.  Without events completeWithoutEvents follows,      *)
(* which needs no further lock.                                            *)
(***************************************************************************)
HandleCommand(t) ==
  /\ At(t, "loaded")
  /\ \E k \in 0 .. MaxEvents[cmd[t]] :
       /\ n' = [n EXCEPT ![t] = k]
       /\ TaskStep(t, "loaded", IF k = 0 THEN "complete" ELSE "recorded")
  /\ UNCHANGED <<streamVars, aggregateVars, advisory, created, bound, from, root, base, snap>>

HandleCommandPanics(t) ==
  /\ TaskFails(t, "loaded")
  /\ UNCHANGED <<streamVars, aggregateVars, advisory, taskVars>>

(***************************************************************************)
(* The integration's HandleCommand, called under the advisory lock of the  *)
(* handler when it asks for minimal concurrency.  The lock is released     *)
(* when the handler returns, before the transaction ends.  Neither root    *)
(* nor stream is involved, so "seen" stays empty.                          *)
(***************************************************************************)
\* Seeded fault: the concurrency preference is ignored.
CallIntegrationUnlocked(t) ==
  /\ TaskStep(t, "acquired", "calling")
  /\ ~IsAggregate(cmd[t])
  /\ UNCHANGED <<streamVars, aggregateVars, advisory, taskVars>>

CallIntegration(t) ==
  /\ TaskStep(t, "acquired", "calling")
  /\ ~IsAggregate(cmd[t])
  /\ \/ /\ MinimizeConcurrency
        /\ advisory = NoTx
        /\ advisory' = t
     \/ /\ ~MinimizeConcurrency
        /\ UNCHANGED advisory
  /\ UNCHANGED <<streamVars, aggregateVars, taskVars>>

FreeAdvisory(t) == advisory' = IF advisory = t THEN NoTx ELSE advisory

IntegrationReturns(t) ==
  /\ At(t, "calling")
  /\ \E k \in 0 .. MaxEvents[cmd[t]] :
       /\ n' = [n EXCEPT ![t] = k]
       /\ TaskStep(t, "calling", IF k = 0 THEN "complete" ELSE "recorded")
  /\ FreeAdvisory(t)
  /\ UNCHANGED <<streamVars, aggregateVars, created, bound, from, root, base, snap>>

\* The handler returns an error, panics or exceeds its timeout.
IntegrationFails(t) ==
  /\ TaskFails(t, "calling")
  /\ FreeAdvisory(t)
  /\ UNCHANGED <<streamVars, aggregateVars, taskVars>>

(***************************************************************************)
(* complete_with_events of either driver.  The stream is the one the       *)
(* instance is bound to, else one from acquire_for_write(); its row is     *)
(* locked and next_offset read.  An aggregate may also have marshaled a    *)
(* snapshot of its root.                                                   *)
(***************************************************************************)
\* Seeded fault: appending to a known stream does not lock its row.
CompleteWithEventsUnlocked(t) ==
  /\ TaskStep(t, "recorded", "complete")
  /\ \E s \in Stream :
       /\ \/ bound[t] = NoStream /\ AcquireForWrite(t, s)
          \/ bound[t] = s /\ UNCHANGED streamLock
       /\ bound' = [bound EXCEPT ![t] = s]
       /\ base' = [base EXCEPT ![t] = nextOffset[s]]
  /\ \E hasSnapshot \in (IF IsAggregate(cmd[t]) THEN BOOLEAN ELSE {FALSE}) :
       snap' = [snap EXCEPT ![t] = hasSnapshot]
  /\ UNCHANGED <<streams, nextOffset, events, aggregateVars, advisory, created, from, root, n>>

CompleteWithEvents(t) ==
  /\ TaskStep(t, "recorded", "complete")
  /\ \E s \in Stream :
       /\ \/ bound[t] = NoStream /\ AcquireForWrite(t, s)
          \/ bound[t] = s /\ LockForAppend(t, s)
       /\ bound' = [bound EXCEPT ![t] = s]
       /\ base' = [base EXCEPT ![t] = nextOffset[s]]
  /\ \E hasSnapshot \in (IF IsAggregate(cmd[t]) THEN BOOLEAN ELSE {FALSE}) :
       snap' = [snap EXCEPT ![t] = hasSnapshot]
  /\ UNCHANGED <<streams, nextOffset, events, aggregateVars, advisory, created, from, root, n>>

(***************************************************************************)
(* The end of a task's transaction releases every lock it holds.  The      *)
(* session-level lock is gone as well: it was released when the handler    *)
(* returned, or it ends with the connection, which database/sql discards.  *)
(***************************************************************************)
\* Seeded fault: the row of the instance stays locked.
EndTransactionKeepsInstance(t) ==
  /\ instLock' = instLock
  /\ streamLock' = Release(streamLock, t)
  /\ FreeAdvisory(t)
  /\ created' = [created EXCEPT ![t] = FALSE]
  /\ bound' = [bound EXCEPT ![t] = NoStream]
  /\ from' = [from EXCEPT ![t] = 0]
  /\ root' = [root EXCEPT ![t] = {}]
  /\ n' = [n EXCEPT ![t] = 0]
  /\ base' = [base EXCEPT ![t] = 0]
  /\ snap' = [snap EXCEPT ![t] = FALSE]

EndTransaction(t) ==
  /\ instLock' = Release(instLock, t)
  /\ streamLock' = Release(streamLock, t)
  /\ FreeAdvisory(t)
  /\ created' = [created EXCEPT ![t] = FALSE]
  /\ bound' = [bound EXCEPT ![t] = NoStream]
  /\ from' = [from EXCEPT ![t] = 0]
  /\ root' = [root EXCEPT ![t] = {}]
  /\ n' = [n EXCEPT ![t] = 0]
  /\ base' = [base EXCEPT ![t] = 0]
  /\ snap' = [snap EXCEPT ![t] = FALSE]

(***************************************************************************)
(* The instance's row after complete_with_events (n > 0: bound to the      *)
(* stream, the snapshot taken at next_offset - 1 if there is one) or       *)
(* complete_without_events (an unbound row is deleted).                    *)
(***************************************************************************)
NewIds(t) == {<<cmd[t], k>> : k \in 0 .. n[t] - 1}

RowWithEvents(t) ==
  [exists         |-> TRUE,
   stream         |-> bound[t],
   snapshotOffset |-> IF snap[t] THEN base[t] + n[t] - 1 ELSE instances[Inst(t)].snapshotOffset,
   snapshot       |-> IF snap[t] THEN root[t] \union NewIds(t) ELSE instances[Inst(t)].snapshot]

RowWithoutEvents(t) == IF instances[Inst(t)].stream = NoStream THEN NoRow ELSE instances[Inst(t)]

CommitCompleted(t) ==
  /\ At(t, "complete")
  /\ cmd[t] \in queue
  /\ CommitHandled(t)
  /\ \/ /\ n[t] > 0
        /\ CommitAppend(bound[t], base[t], n[t], cmd[t], Inst(t), root[t])
     \/ /\ n[t] = 0
        /\ UNCHANGED <<streams, nextOffset, events>>
  /\ \/ /\ IsAggregate(cmd[t])
        /\ instances' = [instances EXCEPT ![Inst(t)] =
                            IF n[t] > 0 THEN RowWithEvents(t) ELSE RowWithoutEvents(t)]
     \/ /\ ~IsAggregate(cmd[t])
        /\ UNCHANGED instances
  /\ EndTransaction(t)

(***************************************************************************)
(* A postponed delivery commits what its transaction has written: the row  *)
(* tryCreateInstance may have inserted stays, without a stream binding.    *)
(***************************************************************************)
PostponeDelivery(t) ==
  /\ CommitPostponed(t)
  /\ \/ /\ created[t]
        /\ instances' = [instances EXCEPT ![Inst(t)] = InsertedRow]
     \/ /\ ~created[t]
        /\ UNCHANGED instances
  /\ UNCHANGED <<streams, nextOffset, events>>
  /\ EndTransaction(t)

Rollback(t) ==
  /\ RollbackTask(t)
  /\ UNCHANGED <<streams, nextOffset, events, instances>>
  /\ EndTransaction(t)

(***************************************************************************)
(* The integration's HandleCommand is running when the pump is cancelled   *)
(* or the connection is lost.  The transaction ends, and the session with  *)
(* the advisory lock too (database/sql discards the connection), but the   *)
(* call goes on until the handler returns.  Then pg_advisory_unlock fails, *)
(* HandleDelivery returns ErrFailed, the delivery cannot be postponed and  *)
(* the worker ends: nothing of the call is recorded.                       *)
(***************************************************************************)
OrphanCall(t) ==
  /\ At(t, "calling")
  /\ LoseTransaction(t, "orphaned")
  /\ UNCHANGED <<streams, nextOffset, events, instances>>
  /\ EndTransaction(t)

OrphanReturns(t) ==
  /\ TaskStep(t, "orphaned", "idle")
  /\ UNCHANGED <<streamVars, aggregateVars, advisory, taskVars>>

DeliveryBecomesDue(c) ==
  /\ BackoffElapses(c)
  /\ UNCHANGED <<streamVars, aggregateVars, advisory, taskVars>>

Init ==
  /\ MessagePumpInit
  /\ EventStreamInit
  /\ instances = [i \in Instance |-> NoRow]
  /\ instLock = Unlocked(Instance)
  /\ advisory = NoTx
  /\ created = [t \in Tx |-> FALSE]
  /\ bound = [t \in Tx |-> NoStream]
  /\ from = [t \in Tx |-> 0]
  /\ root = [t \in Tx |-> {}]
  /\ n = [t \in Tx |-> 0]
  /\ base = [t \in Tx |-> 0]
  /\ snap = [t \in Tx |-> FALSE]

(***************************************************************************)
(* What a worker does with the task it has been given.                     *)
(***************************************************************************)
Handle(t) ==
  \/ RejectDelivery(t)
  \/ LockInstance(t)
  \/ InstanceBusy(t)
  \/ InstanceAbsent(t)
  \/ CreateInstance(t)
  \/ LoadRoot(t)
  \/ LoadFails(t)
  \/ HandleCommand(t)
  \/ HandleCommandPanics(t)
  \/ CallIntegration(t)
  \/ IntegrationReturns(t)
  \/ IntegrationFails(t)
  \/ CompleteWithEvents(t)
  \/ CommitCompleted(t)
  \/ PostponeDelivery(t)
  \/ OrphanReturns(t)

Next ==
  \/ \E t \in Tx, c \in Command : AcquireDelivery(t, c)
  \/ \E t \in Tx : Handle(t)
  \/ \E t \in Tx : Rollback(t) \/ OrphanCall(t)
  \/ \E c \in Command : DeliveryBecomesDue(c)

Spec == Init /\ [][Next]_vars

(***************************************************************************)
(* Dispatchers poll for due commands, workers are never descheduled for    *)
(* good, handlers return (HandleTimeout bounds every call), and backoff    *)
(* delays are finite.  Nothing forces a rollback.                          *)
(***************************************************************************)
Fairness ==
  /\ \A c \in Command : WF_vars(\E t \in Tx : AcquireDelivery(t, c))
  /\ \A t \in Tx : WF_vars(Handle(t))
  /\ \A c \in Command : WF_vars(DeliveryBecomesDue(c))

FairSpec == Spec /\ Fairness
-------------------------------------------------------------------------------
Labels == {"idle", "acquired", "absent", "locked", "loaded", "calling",
           "orphaned", "recorded", "complete", "failed", "busy"}

EventIds == Command \X Nat

Row == [exists : BOOLEAN, stream : Stream \union {NoStream},
        snapshotOffset : Nat \union {-1}, snapshot : SUBSET EventIds]

EventRow == [stream : Stream, offset : Nat, cmd : Command, ord : Nat,
             inst : Instance \union {NoInstance}, seen : SUBSET EventIds]

(***************************************************************************)
(* Every variable of the pumps and of the tables has its type.             *)
(***************************************************************************)
TypeOK ==
  /\ queue \subseteq Command
  /\ due \subseteq Command
  /\ failures \in [Command -> Nat]
  /\ cmdLock \in [Command -> Tx \union {NoTx}]
  /\ pc \in [Tx -> Labels]
  /\ cmd \in [Tx -> Command \union {NoCommand}]
  /\ rollbacks \in Nat
  /\ streams \subseteq Stream
  /\ nextOffset \in [Stream -> Nat]
  /\ events \subseteq EventRow
  /\ streamLock \in [Stream -> Tx \union {NoTx}]
  /\ instances \in [Instance -> Row]
  /\ instLock \in [Instance -> Tx \union {NoTx}]
  /\ advisory \in Tx \union {NoTx}
  /\ created \in [Tx -> BOOLEAN]
  /\ bound \in [Tx -> Stream \union {NoStream}]
  /\ from \in [Tx -> Nat]
  /\ root \in [Tx -> SUBSET EventIds]
  /\ n \in [Tx -> Nat]
  /\ base \in [Tx -> Nat]
  /\ snap \in [Tx -> BOOLEAN]

(***************************************************************************)
(* Redelivery after a failure, a rollback or contention never repeats a    *)
(* command's effect: once its events are committed the command is off the  *)
(* queue, and its events are one unbroken run of one stream, in the order  *)
(* in which the handler recorded them.                                     *)
(***************************************************************************)
HandledOnce ==
  /\ \A e \in events : e.cmd \notin queue
  /\ \A e, f \in events :
       e.cmd = f.cmd => e.stream = f.stream /\ e.offset - e.ord = f.offset - f.ord

(***************************************************************************)
(* All events of an aggregate instance are in the one stream its row is    *)
(* bound to, even if several transactions race to create the instance:     *)
(* loadInstance replays that stream only.                                  *)
(***************************************************************************)
InstanceInOneStream ==
  \A e \in events : e.inst # NoInstance =>
    /\ instances[e.inst].exists
    /\ instances[e.inst].stream = e.stream

(***************************************************************************)
(* Every event of an aggregate was decided upon with exactly the earlier   *)
(* events of its instance applied to the root: no event was missed (lost   *)
(* update), none was applied that comes later or was rolled back.          *)
(***************************************************************************)
DecidedOnHistory ==
  \A e \in events : e.inst # NoInstance =>
    e.seen = Ids({f \in EventsOf(e.inst) : f.offset < e.offset /\ f.cmd # e.cmd})

(***************************************************************************)
(* A stored snapshot stands for exactly the instance's events up to its    *)
(* offset, so replaying from the next offset applies each event once.      *)
(***************************************************************************)
SnapshotSound ==
  \A i \in Instance : instances[i].snapshotOffset # -1 =>
    /\ instances[i].stream # NoStream
    /\ instances[i].snapshotOffset < nextOffset[instances[i].stream]
    /\ instances[i].snapshot = Ids({e \in EventsOf(i) : e.offset <= instances[i].snapshotOffset})

(***************************************************************************)
(* Of the calls of an integration that asked for minimal concurrency, at   *)
(* most one has a transaction, that is, may still take effect; and the     *)
(* advisory lock is never left behind: whoever holds it is in such a call. *)
(* An orphaned call is not covered.  Its session is gone and its lock with *)
(* it, so a second call may start while the first is still running.        *)
(***************************************************************************)
OneIntegrationAtATime ==
  MinimizeConcurrency =>
    /\ \A t, u \in Tx : At(t, "calling") /\ At(u, "calling") => t = u
    /\ advisory # NoTx => At(advisory, "calling")

(***************************************************************************)
(* The row of an instance that has a stream is never deleted and never     *)
(* bound to another stream, whatever later commands do.                    *)
(***************************************************************************)
BindingPermanent ==
  [][\A i \in Instance : instances[i].stream # NoStream =>
       instances'[i].exists /\ instances'[i].stream = instances[i].stream]_vars

(***************************************************************************)
(* Every queued command is handled in the end if each fails a bounded      *)
(* number of times and boundedly many transactions are lost: no set of     *)
(* tasks waits for each other's row locks for ever.                        *)
(***************************************************************************)
EveryCommandHandled == <>(queue = {})

(***************************************************************************)
(* The pumps implement CommandHandling: only the commit of a handled       *)
(* command is a visible step, and it is the whole step.                    *)
(***************************************************************************)
Recorded == {[cmd |-> e.cmd, ord |-> e.ord, inst |-> e.inst, seen |-> e.seen] : e \in events}

Promise == INSTANCE CommandHandling WITH pending <- queue, recorded <- Recorded

ImplementsCommandHandling == Promise!Spec
==============================================================================
