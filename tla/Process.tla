------------------------------- MODULE Process -------------------------------
(***************************************************************************)
(* Process message handlers (internal/process).  Events reach a process    *)
(* through Sink.ConsumeSegment, one transaction per event, guarded by the  *)
(* handler's checkpoint on the event's stream; deadlines reach it through  *)
(* DeadlinePump, a driver of the message pump.  Both load and save the     *)
(* same rows of process.instances, add commands to the queue and schedule  *)
(* deadlines.                                                              *)
(*                                                                         *)
(* A transaction belongs to a consumer (a stream consumer on some node;    *)
(* several nodes may consume one stream while they disagree about the      *)
(* cluster's membership) or to a deadline pump's worker.  The state of a   *)
(* process root is modelled by the set of messages that have mutated it.   *)
(*                                                                         *)
(* The labels of a transaction (pc):                                       *)
(*   idle      no transaction; a consumer has to load its checkpoint       *)
(*   ready     a consumer between two transactions, holding its checkpoint *)
(*   begun     consume() has begun, the checkpoint row is to be locked     *)
(*   routed    the instance is known, loadInstance is next                 *)
(*   handling  the root is loaded, the handler is to be called             *)
(*   handled   the handler has returned and its commands have been added   *)
(*   done      all statements have run, the commit is next                 *)
(*   failed    HandleDelivery has returned ErrFailed                       *)
(***************************************************************************)
EXTENDS Naturals, FiniteSets, FiniteSetsExt, Transactions

CONSTANTS
  Consumer, Pump,     \* the transactions of either kind
  Stream, Length,     \* event streams and how many events each has
  StreamOf,           \* the stream of a consumer
  Event,              \* <<stream, offset>> of the events of routed types
  Instance, NoInstance,
  RouteEvent,         \* RouteEventToInstance(); NoInstance when not routed
  Deadline, NoCause,
  MarshalCanFail,     \* whether a root's MarshalBinary() may fail
  MaxFailures,        \* bound on the failures column of each deadline
  MaxRollbacks        \* bound on the transactions that are rolled back

ASSUME ProcessAssumption ==
  /\ Tx = Consumer \union Pump /\ Consumer \intersect Pump = {}
  /\ Length \in [Stream -> Nat]
  /\ StreamOf \in [Consumer -> Stream]
  /\ Event \subseteq Stream \X Nat
  /\ \A e \in Event : e[2] < Length[e[1]]
  /\ NoInstance \notin Instance
  /\ RouteEvent \in [Event -> Instance \union {NoInstance}]
  /\ NoCause \notin Event \union Deadline
  /\ Event \intersect Deadline = {}
  /\ MarshalCanFail \in BOOLEAN
  /\ MaxFailures \in [Deadline -> Nat]
  /\ MaxRollbacks \in Nat

VARIABLES
  checkpoint,  \* eventstream.handler_checkpoints, 0 without a row
  instances,   \* process.instances: ended and state
  deadlines,   \* committed rows of process.deadlines
  target,      \* their instance_id column
  due,         \* those with deliver_at <= now
  failures,    \* their failures column
  enqueued,    \* how many commits have added the commands of a message
  cpLock, instLock, dlLock,   \* row locks
  pc,
  cp,          \* a consumer's checkpoint, as it believes it to be
  next,        \* what it becomes
  cause,       \* the message a transaction is about
  out,         \* what the handler did
  root,        \* the state loaded from the instance's row
  rollbacks,
  \* History, not in the code: events whose transactions committed, and the
  \* messages whose mutations were committed.
  consumed, mutations

tables == <<checkpoint, instances, deadlines, target, due, failures, enqueued, consumed, mutations>>
rowLocks == <<cpLock, instLock, dlLock>>
local == <<cp, next, cause, out, root>>
vars == <<tables, rowLocks, local, pc, rollbacks>>

Cause == Event \union Deadline

\* What a handler did: commands executed, root mutated, instance ended, the deadline scheduled.
Nothing == [commands |-> FALSE, mutated |-> FALSE, ended |-> FALSE, deadline |-> NoCause]

At(t, l) == pc[t] = l

Goto(t, l) == pc' = [pc EXCEPT ![t] = l]

Inst(t) == IF cause[t] \in Event THEN RouteEvent[cause[t]] ELSE target[cause[t]]

DeadlinesOf(i) == {d \in deadlines : target[d] = i}
-------------------------------------------------------------------------------
(***************************************************************************)
(* A stream consumer starts, or restarts after an error or a conflict, by  *)
(* loading its checkpoint.                                                 *)
(***************************************************************************)
CheckpointOffset(w) ==
  /\ At(w, "idle")
  /\ cp' = [cp EXCEPT ![w] = checkpoint[StreamOf[w]]]
  /\ Goto(w, "ready")
  /\ UNCHANGED <<tables, rowLocks, next, cause, out, root, rollbacks>>

(***************************************************************************)
(* ConsumeSegment on a segment that ends anywhere after the checkpoint:    *)
(* its first event at or after the checkpoint, or the rest of the segment  *)
(* if there is none.                                                       *)
(***************************************************************************)
ConsumeSegment(w) ==
  LET s == StreamOf[w] IN
  /\ At(w, "ready")
  /\ \E end \in cp[w] + 1 .. Length[s] :
       LET wanted == {o \in cp[w] .. end - 1 : <<s, o>> \in Event} IN
       \/ /\ wanted # {}
          /\ cause' = [cause EXCEPT ![w] = <<s, Min(wanted)>>]
          /\ next' = [next EXCEPT ![w] = Min(wanted) + 1]
       \/ /\ wanted = {}
          /\ cause' = [cause EXCEPT ![w] = NoCause]
          /\ next' = [next EXCEPT ![w] = end]
  /\ Goto(w, "begun")
  /\ UNCHANGED <<tables, rowLocks, cp, out, root, rollbacks>>

(***************************************************************************)
(* The upsert in consume() locks the checkpoint row.  If another consumer  *)
(* has moved it the transaction ends without effect, and the consumer      *)
(* starts over.  Otherwise the event is routed.                            *)
(***************************************************************************)
\* Seeded fault: a stale checkpoint is not noticed.
LockCheckpointStale(w) ==
  LET s == StreamOf[w] IN
  /\ At(w, "begun")
  /\ cpLock[s] = NoTx
  /\ cpLock' = Lock(cpLock, s, w)
  /\ Goto(w, IF cause[w] = NoCause \/ Inst(w) = NoInstance THEN "done" ELSE "routed")
  /\ UNCHANGED <<tables, instLock, dlLock, local, rollbacks>>

LockCheckpoint(w) ==
  LET s == StreamOf[w] IN
  /\ At(w, "begun")
  /\ cpLock[s] = NoTx
  /\ checkpoint[s] = cp[w]
  /\ cpLock' = Lock(cpLock, s, w)
  /\ Goto(w, IF cause[w] = NoCause \/ Inst(w) = NoInstance THEN "done" ELSE "routed")
  /\ UNCHANGED <<tables, instLock, dlLock, local, rollbacks>>

CheckpointConflict(w) ==
  LET s == StreamOf[w] IN
  /\ At(w, "begun")
  /\ cpLock[s] = NoTx
  /\ checkpoint[s] # cp[w]
  /\ Goto(w, "idle")
  /\ cause' = [cause EXCEPT ![w] = NoCause]
  /\ UNCHANGED <<tables, rowLocks, cp, next, out, root, rollbacks>>

(***************************************************************************)
(* DeadlinePump.AcquireDelivery: one statement locks a due deadline and    *)
(* the row of its instance, and skips the pairs of which either is locked. *)
(* PostgreSQL locks the rows of a pair in turn, so a deadline that was     *)
(* skipped because of its instance may stay locked (stray).                *)
(***************************************************************************)
Skipped == {d \in deadlines \intersect due : dlLock[d] = NoTx /\ instLock[target[d]] # NoTx}

\* Seeded fault: only the deadline's row is locked.
AcquireDeadlineAlone(p, d) ==
  /\ At(p, "idle")
  /\ d \in deadlines \intersect due
  /\ dlLock[d] = NoTx
  /\ dlLock' = Lock(dlLock, d, p)
  /\ cause' = [cause EXCEPT ![p] = d]
  /\ Goto(p, "routed")
  /\ UNCHANGED <<tables, cpLock, instLock, cp, next, out, root, rollbacks>>

AcquireDeadline(p, d) ==
  /\ At(p, "idle")
  /\ d \in deadlines \intersect due
  /\ dlLock[d] = NoTx
  /\ instLock[target[d]] = NoTx
  /\ \E stray \in SUBSET Skipped :
       dlLock' = [e \in Deadline |-> IF e \in stray \union {d} THEN p ELSE dlLock[e]]
  /\ instLock' = Lock(instLock, target[d], p)
  /\ cause' = [cause EXCEPT ![p] = d]
  /\ Goto(p, "routed")
  /\ UNCHANGED <<tables, cpLock, cp, next, out, root, rollbacks>>

(***************************************************************************)
(* loadInstance: the upsert locks the instance's row, unless a deadline    *)
(* pump has locked it already, and waits for whoever holds it.  An event   *)
(* for an ended instance has no effect; a deadline for one fails.          *)
(***************************************************************************)
\* Seeded fault: the row is read without being locked.
LoadInstanceUnlocked(t) ==
  LET i == Inst(t) IN
  /\ At(t, "routed")
  /\ root' = [root EXCEPT ![t] = instances[i].state]
  /\ Goto(t, IF ~instances[i].ended THEN "handling" ELSE IF t \in Pump THEN "failed" ELSE "done")
  /\ UNCHANGED <<tables, rowLocks, cp, next, cause, out, rollbacks>>

LoadInstance(t) ==
  LET i == Inst(t) IN
  /\ At(t, "routed")
  /\ instLock[i] \in {NoTx, t}
  /\ instLock' = Lock(instLock, i, t)
  /\ root' = [root EXCEPT ![t] = instances[i].state]
  /\ Goto(t, IF ~instances[i].ended THEN "handling" ELSE IF t \in Pump THEN "failed" ELSE "done")
  /\ UNCHANGED <<tables, cpLock, dlLock, cp, next, cause, out, rollbacks>>

(***************************************************************************)
(* HandleDelivery of a deadline pump fails: before the handler is called   *)
(* (the message cannot be unpacked, New() panics, the state cannot be      *)
(* unmarshaled), or because the handler returns an error, panics or        *)
(* exceeds its timeout.  The same errors in a sink roll back (Rollback).   *)
(***************************************************************************)
DeadlineFails(p) ==
  /\ pc[p] \in {"routed", "handling"}
  /\ failures[cause[p]] < MaxFailures[cause[p]]
  /\ Goto(p, "failed")
  /\ UNCHANGED <<tables, rowLocks, local, rollbacks>>

(***************************************************************************)
(* The handler returns without error: it may have executed commands,       *)
(* mutated the root, ended the instance and scheduled a deadline with a    *)
(* message ID of its own.  addCommandsToQueue follows at once.             *)
(***************************************************************************)
FreshDeadlines == {d \in Deadline : target[d] = NoInstance /\ \A t \in Tx : out[t].deadline # d}

HandleMessage(t) ==
  /\ At(t, "handling")
  /\ \E commands, mutated, ended \in BOOLEAN, deadline \in FreshDeadlines \union {NoCause} :
       out' = [out EXCEPT ![t] = [commands |-> commands, mutated |-> mutated, ended |-> ended,
                                  deadline |-> IF ended THEN NoCause ELSE deadline]]
  /\ Goto(t, "handled")
  /\ UNCHANGED <<tables, rowLocks, cp, next, cause, root, rollbacks>>

(***************************************************************************)
(* endInstance deletes the deadlines of the instance, waiting for each     *)
(* row's lock in turn.  A deadline pump then deletes its own deadline,     *)
(* which it has locked.                                                    *)
(***************************************************************************)
LockDoomedDeadline(t, d) ==
  /\ At(t, "handled")
  /\ out[t].ended
  /\ d \in DeadlinesOf(Inst(t))
  /\ dlLock[d] = NoTx
  /\ dlLock' = Lock(dlLock, d, t)
  /\ UNCHANGED <<tables, cpLock, instLock, local, pc, rollbacks>>

EndInstance(t) ==
  /\ At(t, "handled")
  /\ out[t].ended
  /\ \A d \in DeadlinesOf(Inst(t)) : dlLock[d] = t
  /\ Goto(t, "done")
  /\ UNCHANGED <<tables, rowLocks, local, rollbacks>>

(***************************************************************************)
(* saveInstance and persistDeadlines.  In a deadline pump a root that      *)
(* cannot be marshaled makes HandleDelivery return ErrFailed, after the    *)
(* commands have been added.                                               *)
(***************************************************************************)
SaveInstance(t) ==
  /\ At(t, "handled")
  /\ ~out[t].ended
  /\ Goto(t, "done")
  /\ UNCHANGED <<tables, rowLocks, local, rollbacks>>

SaveInstanceFails(p) ==
  /\ MarshalCanFail
  /\ At(p, "handled")
  /\ out[p].mutated /\ ~out[p].ended
  /\ failures[cause[p]] < MaxFailures[cause[p]]
  /\ Goto(p, "failed")
  /\ UNCHANGED <<tables, rowLocks, local, rollbacks>>
-------------------------------------------------------------------------------
(***************************************************************************)
(* The end of a transaction.                                               *)
(***************************************************************************)
\* Seeded fault: the instance's row stays locked.
EndTransactionKeepsInstance(t) ==
  /\ cpLock' = Release(cpLock, t)
  /\ instLock' = instLock
  /\ dlLock' = Release(dlLock, t)
  /\ cause' = [cause EXCEPT ![t] = NoCause]
  /\ out' = [out EXCEPT ![t] = Nothing]
  /\ root' = [root EXCEPT ![t] = {}]

EndTransaction(t) ==
  /\ cpLock' = Release(cpLock, t)
  /\ instLock' = Release(instLock, t)
  /\ dlLock' = Release(dlLock, t)
  /\ cause' = [cause EXCEPT ![t] = NoCause]
  /\ out' = [out EXCEPT ![t] = Nothing]
  /\ root' = [root EXCEPT ![t] = {}]

AddCommands(t) ==
  enqueued' = IF out[t].commands THEN [enqueued EXCEPT ![cause[t]] = @ + 1] ELSE enqueued

WriteInstance(t) ==
  LET i == Inst(t) IN
  /\ instances' =
       IF out[t].ended THEN [instances EXCEPT ![i] = [ended |-> TRUE, state |-> {}]]
       ELSE IF out[t].mutated THEN
         [instances EXCEPT ![i] = [ended |-> instances[i].ended, state |-> root[t] \union {cause[t]}]]
       ELSE instances
  /\ mutations' = IF out[t].mutated THEN [mutations EXCEPT ![i] = @ \union {cause[t]}] ELSE mutations

Scheduled(t) == IF out[t].deadline = NoCause THEN {} ELSE {out[t].deadline}

\* Seeded fault: a delivered deadline is not deleted.
WriteDeadlinesUndelivered(t, removed) ==
  LET gone == IF out[t].ended THEN DeadlinesOf(Inst(t)) ELSE {} IN
  /\ deadlines' = (deadlines \ gone) \union Scheduled(t)
  /\ due' = due \ gone
  /\ target' = [d \in Deadline |-> IF d \in Scheduled(t) THEN Inst(t) ELSE target[d]]

\* Seeded fault: the deadlines of an ended instance are kept.
WriteDeadlinesKept(t, removed) ==
  /\ deadlines' = (deadlines \ removed) \union Scheduled(t)
  /\ due' = due \ removed
  /\ target' = [d \in Deadline |-> IF d \in Scheduled(t) THEN Inst(t) ELSE target[d]]

WriteDeadlines(t, removed) ==
  LET gone == removed \union (IF out[t].ended THEN DeadlinesOf(Inst(t)) ELSE {}) IN
  /\ deadlines' = (deadlines \ gone) \union Scheduled(t)
  /\ due' = due \ gone
  /\ target' = [d \in Deadline |-> IF d \in Scheduled(t) THEN Inst(t) ELSE target[d]]

(***************************************************************************)
(* consume() moves the checkpoint and commits with the event's effects.    *)
(***************************************************************************)
CommitEvent(w) ==
  /\ w \in Consumer
  /\ At(w, "done")
  /\ checkpoint' = [checkpoint EXCEPT ![StreamOf[w]] = next[w]]
  /\ cp' = [cp EXCEPT ![w] = next[w]]
  /\ consumed' = consumed \union ({cause[w]} \ {NoCause})
  /\ AddCommands(w)
  /\ WriteInstance(w)
  /\ WriteDeadlines(w, {})
  /\ EndTransaction(w)
  /\ Goto(w, "ready")
  /\ UNCHANGED <<failures, next, rollbacks>>

(***************************************************************************)
(* doHandle commits a delivered deadline, which is deleted.                *)
(***************************************************************************)
CommitDeadline(p) ==
  /\ p \in Pump
  /\ At(p, "done")
  /\ AddCommands(p)
  /\ WriteInstance(p)
  /\ WriteDeadlines(p, {cause[p]})
  /\ EndTransaction(p)
  /\ Goto(p, "idle")
  /\ UNCHANGED <<checkpoint, failures, consumed, cp, next, rollbacks>>

(***************************************************************************)
(* doHandle after ErrFailed: it postpones the deadline and commits what    *)
(* the transaction has written so far, the commands included.              *)
(***************************************************************************)
PostponeDeadline(p) ==
  /\ At(p, "failed")
  /\ failures' = [failures EXCEPT ![cause[p]] = @ + 1]
  /\ due' = due \ {cause[p]}
  /\ AddCommands(p)
  /\ EndTransaction(p)
  /\ Goto(p, "idle")
  /\ UNCHANGED <<checkpoint, instances, deadlines, target, consumed, mutations, cp, next, rollbacks>>

(***************************************************************************)
(* Any other error, a lost connection, or a crash of the node.             *)
(***************************************************************************)
Rollback(t) ==
  /\ ~At(t, "idle")
  /\ rollbacks < MaxRollbacks
  /\ rollbacks' = rollbacks + 1
  /\ EndTransaction(t)
  /\ Goto(t, "idle")
  /\ UNCHANGED <<tables, cp, next>>

DeadlineBecomesDue(d) ==
  /\ d \in deadlines \ due
  /\ due' = due \union {d}
  /\ UNCHANGED <<checkpoint, instances, deadlines, target, failures, enqueued, consumed,
                 mutations, rowLocks, local, pc, rollbacks>>

Init ==
  /\ checkpoint = [s \in Stream |-> 0]
  /\ instances = [i \in Instance |-> [ended |-> FALSE, state |-> {}]]
  /\ deadlines = {}
  /\ target = [d \in Deadline |-> NoInstance]
  /\ due = {}
  /\ failures = [d \in Deadline |-> 0]
  /\ enqueued = [c \in Cause |-> 0]
  /\ consumed = {}
  /\ mutations = [i \in Instance |-> {}]
  /\ cpLock = Unlocked(Stream)
  /\ instLock = Unlocked(Instance)
  /\ dlLock = Unlocked(Deadline)
  /\ pc = [t \in Tx |-> "idle"]
  /\ cp = [w \in Consumer |-> 0]
  /\ next = [w \in Consumer |-> 0]
  /\ cause = [t \in Tx |-> NoCause]
  /\ out = [t \in Tx |-> Nothing]
  /\ root = [t \in Tx |-> {}]
  /\ rollbacks = 0

(***************************************************************************)
(* The steps of a stream consumer, of a deadline worker, and of both.      *)
(***************************************************************************)
Consume(w) ==
  \/ CheckpointOffset(w)
  \/ ConsumeSegment(w)
  \/ LockCheckpoint(w)
  \/ CheckpointConflict(w)
  \/ CommitEvent(w)

Deliver(p) ==
  \/ DeadlineFails(p)
  \/ SaveInstanceFails(p)
  \/ CommitDeadline(p)
  \/ PostponeDeadline(p)

Dispatch(t) ==
  \/ LoadInstance(t)
  \/ HandleMessage(t)
  \/ \E d \in Deadline : LockDoomedDeadline(t, d)
  \/ EndInstance(t)
  \/ SaveInstance(t)

Next ==
  \/ \E w \in Consumer : Consume(w)
  \/ \E p \in Pump, d \in Deadline : AcquireDeadline(p, d)
  \/ \E p \in Pump : Deliver(p)
  \/ \E t \in Tx : Dispatch(t)
  \/ \E t \in Tx : Rollback(t)
  \/ \E d \in Deadline : DeadlineBecomesDue(d)

Spec == Init /\ [][Next]_vars

(***************************************************************************)
(* Consumers and workers are never descheduled for good and deadlines are  *)
(* reached.  Nothing forces a failure or a rollback.                       *)
(***************************************************************************)
Fairness ==
  /\ \A w \in Consumer : WF_vars(Consume(w))
  /\ \A d \in Deadline : WF_vars(\E p \in Pump : AcquireDeadline(p, d))
  /\ \A p \in Pump : WF_vars(CommitDeadline(p) \/ PostponeDeadline(p))
  /\ \A t \in Tx : WF_vars(Dispatch(t))
  /\ \A d \in Deadline : WF_vars(DeadlineBecomesDue(d))

FairSpec == Spec /\ Fairness
-------------------------------------------------------------------------------
(***************************************************************************)
(* Every event takes effect once: its commands are enqueued at most once,  *)
(* and the checkpoint is past exactly the events that were dispatched,     *)
(* although consumers on several nodes may dispatch an event at the same   *)
(* time, fail and retry (Sink.ConsumeSegment).                             *)
(***************************************************************************)
EventEffectsOnce ==
  \A e \in Event : /\ enqueued[e] <= 1
                   /\ enqueued[e] = 1 => e \in consumed
                   /\ e \in consumed <=> e[2] < checkpoint[e[1]]

(***************************************************************************)
(* A deadline's commands are enqueued at most once, and only by the commit *)
(* that removes the deadline: a delivery that fails has no effect.  Holds  *)
(* only if process roots can be marshaled.                                 *)
(***************************************************************************)
DeadlineEffectsOnce ==
  \A d \in Deadline : /\ enqueued[d] <= 1
                      /\ enqueued[d] = 1 => d \notin deadlines

(***************************************************************************)
(* Whether or not roots can be marshaled, every commit that adds the       *)
(* commands of a deadline is accounted for: it is one of the deliveries    *)
(* that count as failed, or the one that removed the deadline              *)
(* (DeadlinePump.HandleDelivery).                                          *)
(***************************************************************************)
DeliveriesCounted ==
  \A d \in Deadline : enqueued[d] <= failures[d] + (IF d \in deadlines THEN 0 ELSE 1)

(***************************************************************************)
(* The state of a live instance reflects every committed mutation: events  *)
(* and deadlines handled at the same time do not overwrite each other.     *)
(***************************************************************************)
NoLostMutation ==
  \A i \in Instance : ~instances[i].ended => instances[i].state = mutations[i]

(***************************************************************************)
(* Who waits for whom, and the sets of transactions that can only be freed *)
(* by the database breaking a deadlock: each waits for another of them.    *)
(***************************************************************************)
WaitsFor(t, u) ==
  /\ t # u
  /\ \/ At(t, "begun") /\ cpLock[StreamOf[t]] = u
     \/ At(t, "routed") /\ instLock[Inst(t)] = u
     \/ At(t, "handled") /\ out[t].ended /\ \E d \in DeadlinesOf(Inst(t)) : dlLock[d] = u

Deadlocked(S) == S # {} /\ \A t \in S : \E u \in S : WaitsFor(t, u)

(***************************************************************************)
(* "Deadlocks indicate a lock-ordering bug in the engine and should never  *)
(* occur" (PanicOnDeadlock).                                               *)
(***************************************************************************)
NoDeadlock == \A S \in SUBSET Tx : ~Deadlocked(S)

(***************************************************************************)
(* The order in which sinks and deadline pumps lock rows is consistent but *)
(* for one thing: a deadline that AcquireDelivery skipped because of its   *)
(* instance and left locked.  Every deadlock involves two deadline pumps   *)
(* that each hold such a stray; no sink is needed for one, and one pump    *)
(* together with any number of sinks never deadlocks.                      *)
(***************************************************************************)
HoldsStray(p) == \E d \in deadlines : dlLock[d] = p /\ target[d] # Inst(p)

OnlyStraysDeadlock ==
  \A S \in SUBSET Tx : Deadlocked(S) =>
    \E p, q \in S \intersect Pump : p # q /\ HoldsStray(p) /\ HoldsStray(q)

(***************************************************************************)
(* Once ended, an instance is never written again, not even by a message   *)
(* whose handling began before it ended, and it has no deadlines, so that  *)
(* the branch of HandleDelivery for a deadline of an ended instance is     *)
(* unreachable, as its comment hopes.                                      *)
(***************************************************************************)
EndedForGood ==
  /\ [][\A i \in Instance : instances[i].ended => instances'[i] = instances[i]]_vars
  /\ [](\A d \in deadlines : ~instances[target[d]].ended)

(***************************************************************************)
(* Every event is consumed and every deadline is delivered, or dropped     *)
(* with its instance, if failures and rollbacks are bounded.               *)
(***************************************************************************)
EverythingDelivered == <>[](deadlines = {} /\ \A s \in Stream : checkpoint[s] = Length[s])
==============================================================================
