----------------------------- MODULE MessagePump -----------------------------
(***************************************************************************)
(* The message pump (internal/messagepump): a dispatcher acquires pending  *)
(* deliveries, each in a transaction of its own, and hands them to workers *)
(* that handle them and end the transaction.  The pumps of all handlers on *)
(* all nodes share the tables; a member of Tx is one delivery task of one  *)
(* of them, so the number of transactions is the number of workers plus    *)
(* one per dispatcher.                                                     *)
(*                                                                         *)
(* Time is abstract.  A delivery is either due (deliver_at <= now) or not; *)
(* postponing makes it not due and BackoffElapses makes it due again.      *)
(* Which due delivery is acquired first (ORDER BY deliver_at) is left      *)
(* open.  Two bounds keep the instances finite: MaxFailures caps the       *)
(* failures column and MaxRollbacks the number of lost transactions.       *)
(***************************************************************************)
EXTENDS Naturals, Transactions

CONSTANTS
  Command,      \* the message IDs of the queued commands
  NoCommand,    \* an idle task has none
  MaxFailures,  \* bound on the failures column of each command
  MaxRollbacks  \* bound on the transactions that end in a rollback

ASSUME PumpAssumption ==
  /\ NoCommand \notin Command
  /\ MaxRollbacks \in Nat

ASSUME FailuresAssumption == MaxFailures \in [Command -> Nat]

VARIABLES
  queue,      \* committed rows of commandqueue.commands
  due,        \* those with deliver_at <= clock_timestamp()
  failures,   \* their failures column
  cmdLock,    \* who holds the lock on the row of a command
  pc,         \* where the handling of a task has got to
  cmd,        \* the command a task is about
  rollbacks   \* transactions lost so far

pumpVars == <<queue, due, failures, cmdLock, pc, cmd, rollbacks>>

At(t, l) == pc[t] = l

Goto(t, l) == pc' = [pc EXCEPT ![t] = l]

(***************************************************************************)
(* AcquireDelivery: SELECT ... FOR UPDATE SKIP LOCKED of a due command.    *)
(***************************************************************************)
Acquire(t, c) ==
  /\ At(t, "idle")
  /\ c \in queue
  /\ c \in due
  /\ cmdLock[c] = NoTx
  /\ cmdLock' = Lock(cmdLock, c, t)
  /\ cmd' = [cmd EXCEPT ![t] = c]
  /\ Goto(t, "acquired")
  /\ UNCHANGED <<queue, due, failures, rollbacks>>

(***************************************************************************)
(* The task's transaction is over and its locks are free.  The worker is   *)
(* free too, unless it is still in a call of the handler (label l).        *)
(***************************************************************************)
LeaveTransaction(t, l) ==
  /\ cmdLock' = Release(cmdLock, t)
  /\ cmd' = [cmd EXCEPT ![t] = NoCommand]
  /\ Goto(t, l)

EndTask(t) == LeaveTransaction(t, "idle")

\* The labels of a task that has no transaction.
Detached == {"idle", "orphaned"}

(***************************************************************************)
(* doHandle's commit after HandleDelivery returned nil: the driver has     *)
(* removed the command in the same transaction.                            *)
(***************************************************************************)
\* Seeded fault: the command is handled but stays on the queue.
CommitHandledKept(t) ==
  /\ EndTask(t)
  /\ UNCHANGED <<queue, due, failures, rollbacks>>

CommitHandled(t) ==
  /\ queue' = queue \ {cmd[t]}
  /\ due' = due \ {cmd[t]}
  /\ EndTask(t)
  /\ UNCHANGED <<failures, rollbacks>>

(***************************************************************************)
(* doHandle after ErrFailed or ErrBusy, and doAcquireTask after an         *)
(* envelope that cannot be decoded: the delivery is postponed, and the     *)
(* SAME transaction is committed.  Only a failure is counted.              *)
(***************************************************************************)
CommitPostponed(t) ==
  /\ \/ /\ At(t, "failed")
        /\ failures' = [failures EXCEPT ![cmd[t]] = @ + 1]
     \/ /\ At(t, "busy")
        /\ UNCHANGED failures
  /\ due' = due \ {cmd[t]}
  /\ EndTask(t)
  /\ UNCHANGED <<queue, rollbacks>>

(***************************************************************************)
(* Any other error, a failed commit, the pump being cancelled, or a crash. *)
(* The transaction is bound to the context of the pump and to a            *)
(* connection: when that context is cancelled or the connection is lost it *)
(* is rolled back at once, whatever the worker is doing.                   *)
(***************************************************************************)
LoseTransaction(t, l) ==
  /\ pc[t] \notin Detached
  /\ rollbacks < MaxRollbacks
  /\ rollbacks' = rollbacks + 1
  /\ LeaveTransaction(t, l)
  /\ UNCHANGED <<queue, due, failures>>

RollbackTask(t) == LoseTransaction(t, "idle")

BackoffElapses(c) ==
  /\ c \in queue \ due
  /\ due' = due \union {c}
  /\ UNCHANGED <<queue, failures, cmdLock, pc, cmd, rollbacks>>

(***************************************************************************)
(* A step inside HandleDelivery from label l to label m, and one that      *)
(* makes it return ErrFailed (the bound on failures applies).              *)
(***************************************************************************)
TaskStep(t, l, m) ==
  /\ At(t, l)
  /\ Goto(t, m)
  /\ UNCHANGED <<queue, due, failures, cmdLock, cmd, rollbacks>>

TaskFails(t, l) ==
  /\ TaskStep(t, l, "failed")
  /\ failures[cmd[t]] < MaxFailures[cmd[t]]

MessagePumpInit ==
  /\ queue = Command
  /\ due = Command
  /\ failures = [c \in Command |-> 0]
  /\ cmdLock = Unlocked(Command)
  /\ pc = [t \in Tx |-> "idle"]
  /\ cmd = [t \in Tx |-> NoCommand]
  /\ rollbacks = 0
==============================================================================
