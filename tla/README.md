# A TLA+ model of runkit

runkit is a Dogma engine: it runs event-sourced applications on PostgreSQL, on
one node or on several that share a database. This directory holds TLA+ modules
that model its concurrent parts, TLC configurations that check them on small
instances, and TLAPS proofs of the most important results for every instance.

## The system

| part | code | module | status |
|---|---|---|---|
| event stream tables and SQL functions | `internal/schema/ddl/00-eventstream` | `EventStream` | modelled |
| message pump | `internal/messagepump` | `MessagePump` | modelled |
| aggregate command pump | `internal/aggregate`, `ddl/20-aggregate` | `CommandPumps` | modelled |
| integration command pump | `internal/integration`, `internal/concurrency` | `CommandPumps` | modelled |
| process event sink and deadline pump | `internal/process`, `ddl/20-process` | `Process` | modelled |
| signal bus | `internal/signal`, triggers | `SignalBus`, `Cluster` | modelled |
| local event source | `internal/eventstream/source/local.go` | `LocalSource` | one stream, no discovery |
| catalog, feed, cache | `internal/eventstream` | `EventFeed`, `RemoteEngines` | modelled |
| stream consumer | `internal/eventstream/consumer.go` | `RemoteEngines`, `EventFeed`, `Process` | modelled |
| projection sink | `internal/projection/sink.go` | `EventFeed` | modelled |
| command execution, event observers | `execute.go`, `ddl/10-commandqueue` | `ExecuteCommand` | modelled from `commandqueue.add` on |
| transactions, row locks | `internal/x/xsql`, PostgreSQL | `Transactions` | external, as the code uses it |
| cluster node and membership | `internal/cluster` | `Cluster` | modelled |
| remote source, source server, in-memory source | `source/remote.go`, `server.go`, `memory.go` | `RemoteSource` | modelled |
| remote engine connector | `internal/remoteengine`, `remoteengine.go` | `RemoteEngines` | modelled |
| projection compactor, initialisation | `internal/projection`, `ddl/20-projection` | `Compactor` | modelled |
| supervisor | `internal/supervisor` | `Supervisor` | modelled |
| engine lifecycle | `engine.go` | `Engine` | `Run`, `waitUntilReady` and what they start |
| gRPC server, application binding | `internal/grpcserver`, `internal/application` | `Engine` | modelled |
| schema creation, hooks, logging, conversions | | | not modelled: no state or concurrency of their own |

How they interact: `ExecuteCommand` and the process handlers put commands in the
queue. The message pump of every handler on every node takes them off the queue,
each in a transaction that also records events. The follower of each stream is
woken by a signal when events are appended, and passes segments through the
catalog to the caches of feeds. Stream consumers pass them on to projections and
processes, which move a checkpoint. Process handlers queue commands and schedule
deadlines, which a second kind of message pump delivers.

Several nodes do all of this against one database. The only coordination is row
locks, one advisory lock, checkpoints, and lossy signals. Over those signals the
nodes also exchange heartbeats, from which each works out which streams it is to
consume. An engine may serve its streams to engines of other applications over
gRPC, whose catalogs then have feeds of them beside those of their own.

## Modules

`Transactions` holds the row locks: a table's locks are a function from rows to
the transaction that has the row locked. `Lock` and `Release` are PostgreSQL's,
as the statements in the code use them.

### Handling of commands: `EventStream`, `MessagePump`, `CommandPumps`

A member of `Tx` is one delivery task of one pump: a database transaction that
goes through the labels in `pc`. `MessagePump` models acquisition, commit,
postponement and rollback of a task. `EventStream` models the tables of the
event streams with `acquire_for_write()` and `append()`. `CommandPumps` composes
them with the two drivers. There is one action per statement that takes a lock
or reads shared data, and one for the commit; what a transaction writes becomes
visible at its commit.

| action | code |
|---|---|
| `AcquireDelivery`, `RejectDelivery` | `doAcquireTask`, `AcquireCommandDelivery` |
| `LockInstance`, `InstanceBusy`, `InstanceAbsent` | `tryLockInstance` |
| `CreateInstance` | `tryCreateInstance` |
| `LoadRoot`, `LoadFails` | `loadInstance`, `applySnapshot`, `applyHistoricalEvents` |
| `HandleCommand`, `HandleCommandPanics` | `HandleDelivery` of the aggregate pump |
| `CallIntegration`, `IntegrationReturns`, `IntegrationFails` | `HandleDelivery` of the integration pump in `EnforceConcurrencyPreference` |
| `CompleteWithEvents`, `CommitCompleted` | `complete_with_events`, `complete_without_events`, commit in `doHandle` |
| `PostponeDelivery` | `ErrFailed` and `ErrBusy` in `doHandle`, which commits |
| `Rollback` | any other error, cancellation, crash |
| `OrphanCall`, `OrphanReturns` | cancellation or a lost connection during the integration's `HandleCommand`, and the end of that call |

A transaction is bound to the pump's context and to its connection, so it can end
while the worker is in a call of the integration handler. The advisory lock ends
with the session, and the call goes on without either (`orphaned`); when it
returns, nothing of it can be recorded.

The state of an aggregate root is the set of events applied to it. Every event
carries the root's state when it was decided (`seen`), a history variable.

`CommandHandling` is the abstract specification: a pending command is handled in
one step that records its events on the basis of the complete history of its
instance. `ImplementsCommandHandling` says that the pumps implement it.

### Processes: `Process`

Transactions belong to stream consumers (several of which may consume the same
stream, as happens while nodes disagree about the cluster's membership) or to
deadline workers. The state of a process root is the set of messages that have
mutated it. The statement that acquires a deadline locks two tables with
`SKIP LOCKED`; a row of the first that was locked before the second turned out
to be locked may stay locked (`stray`).

### Delivery of events: `SignalBus`, `LocalSource`, `EventFeed`

One stream. `SignalBus` loses notifications while a node does not listen, and
drops them when the subscriber's channel is full. `LocalSource` is the follower
(`deliverStream`) and the call to `Watch` with its bounded channel; loading and
delivering a segment are separate steps. `EventFeed` adds the catalog with one
feed and cache per source, the consumer's loop (`Within`, `Before`, `After`),
reads from the source, and the projection sink. A member of `Node` is one call
to `Catalog.Watch` with the source it watches, so a source that goes away and
comes back is two members. Events are their offsets; message types are the sets
`Wanted`, `Watched` and `AllTypes`. The stream's consumer on another node is the
environment action `HandledElsewhere`, which moves the projection's checkpoint
in order, as this module shows of its own consumer.

Two errors in the code are not actions, because `ReadsServable` shows
that they cannot be reached in the modelled system (the run with two sources
checks it): `ErrOffsetOutOfRange`, and "ends at offset ..., before the cached
segment".

### Submission: `ExecuteCommand`

Concurrent callers, with and without a shared idempotency key, that may retry
after an error that hides whether the commit happened; events recorded for the
command; polling. `nextOffsets` is a zero value passed by value to `pollForEvents`;
the copy shares no storage with it, so `NextOffset` is constantly zero.

### Membership: `Cluster`

The nodes of a cluster with `Node.Run` of each, one action per branch of its
`select` and per signal it handles, so that others act while a node waits for
the database in `sendHeartbeat`. `handleHeartbeat` is `ReceiveHeartbeat` and
`Reply`, or `DrainHeartbeat` and `Answer` when called by `drainHeartbeats`.
Signals go through a bus like `SignalBus`, here with a buffer and node IDs. `Start`
is `Bus.Watch`, which puts a signal without a node ID in the channel at once, and
`Announce` the first heartbeat, which goes out before or after the bus listens.

Time is discrete and what is recorded of an instant is its age, so the state
space is finite without a bound on time. Time passes freely when every running
node is idle and connected; otherwise a step of time is a hold-up of a node and
counts as a fault, of which there are at most `MaxFaults`, together with stops,
crashes, lost connections and heartbeats that cannot be sent. `arrived` is a
history variable: when a heartbeat last entered a node's channel, whether or not
it was read.

### Streams of other engines: `RemoteSource`, `RemoteEngines`

`RemoteSource` is about contents: `Memory` behind `Server`, and `Remote` on the
other side of a gRPC call, which delivers messages in order, holds at most
`Window` of them, and may break. `splitSegment` is an iterator, so a part is made
when the one before it has been sent: `FirstPart` is the part that is sent of a
segment, and `Rest` what is then left of it, with the sizes of headers and bodies
as constants. `Memory` is the source that the tests serve in this way; an engine
serves its local source, which is the subject of `LocalSource` and `EventFeed`.
`changed` is the channel that `Memory.undelivered` returns with the segments: it
is closed by the next append, and a watch waits for nothing else. `Cut` is where the loop of `splitSegment` closes the part;
`PartSize`, in the property `Bounded`, is what a part really weighs. A remote
engine that breaks the protocol (`lying`) sends any member of `Lie`, in any order,
and answers a read with any status; `Parses` is what `parseSegment` accepts. Calls share nothing but the source, so they are made one
after the other, while the source grows. A stream of `Memory` begins where the
first segment appended to it does (`First`).

| action | code |
|---|---|
| `MemoryAppend` | `Memory.Append` |
| `BeginWatch`, `BeginRead` | `Server.WatchEvents`, `Server.ReadEvents` |
| `ServerLoads`, `ReadServerLoads` | `Memory.undelivered`, `Memory.unread` and the loops around them |
| `ServerSends`, `ReadServerSends` | `splitAndSendSegment`, one part at a time |
| `ServerEnds` | the errors of `WatchEvents` |
| `ServerLies`, `ReadServerLies` | a remote engine that breaks the protocol |
| `WatchReceives`, `ReadReceives` | the loops of `Remote.Watch` and `Remote.Read` with `parseSegment` |
| `WatchReturns`, `ReadReturns` | `watchError`, `readError` |

`RemoteEngines` is about lifetimes: the connector's `discover` with a discoverer
that adds and removes connections as it likes, `Catalog.Watch` per connection
with its deferred clean-up, the feeds and the current feed of each stream, and
`Consumer.Run` with a stream consumer per stream. What is delivered is left out.
A consumer keeps the `catalogStream` it looked up; `stale` says that this has
left the catalog meanwhile. A consumer that is canceled may still begin a read,
which counts as one until the source has returned.

### Engines: `Supervisor`, `Compactor`, `Engine`

`Supervisor` holds the arithmetic of `supervisor.Run` (`Backoff`, `Jitter`, the
reset after a long run) on a record that the supervised components contain.
`Compactor` is one compactor per engine and the row of `projection.handlers`.
The lock on the row is lost with the session, which the compactor notices only
when it next uses it. `Engine` is `Engine.Run` from `application.Bind` to the
return of the group, the gRPC server, and callers of `waitUntilReady`, which may
give up waiting; it composes them with the compactors. Ages and delays are as in `Cluster`, but time
may pass at any moment.

## What TLC checks

All runs say `CHECK_DEADLOCK FALSE`: with finitely many commands, events or
calls every instance comes to rest.

| run | instance | shows |
|---|---|---|
| `command_pumps` | 2 transactions, 2 commands for one aggregate instance and 2 for an integration, 2 streams, 1 rollback; the first command of each kind may fail once, the aggregate's first may record 2 events and the others 1 | `OffsetsContiguous`, `NoEmptyStream`, `HandledOnce`, `InstanceInOneStream`, `DecidedOnHistory`, `OneIntegrationAtATime`, `ImplementsCommandHandling`, `EveryCommandHandled` |
| `process` | 2 consumers of one stream, 1 deadline worker, 1 instance; a root may fail to marshal | `EventEffectsOnce`, `NoLostMutation`, `DeliveriesCounted`, `NoDeadlock` (the wait-for relation over row locks has no cycle), `EndedForGood`, `EverythingDelivered` |
| `process_marshal` | as `process`; a root may fail to marshal | violation of `DeadlineEffectsOnce`, see below |
| `process_deadlock` | 1 consumer, 2 deadline workers, 2 instances with 2 deadlines each | violation of `NoDeadlock`, see below |
| `event_feed` | 1 source, 4 offsets, segments, channel and cache of size 1, 2 faults | `WatchContiguous`, `CacheSound`, `HandledOnceInOrder`, `EveryEventHandled` |
| `event_feed_failover` | 2 sources, 2 offsets, 1 fault | `HandledOnceInOrder`, `ReadsServable` with feeds that close and sources that lag |
| `execute_command` | 2 callers that share a key and 1 without, 2 attempts each | `OneCommandPerKey`, `ObserverSatisfied` |
| `execute_command_paging` | 1 caller, 2 events, pages of 1 | violation of `ObserverSatisfied`, see below |
| `cluster` | 2 nodes, a workload on which they tie and one on which they do not, an interval of 1 and a timeout of 2, channels of size 2, 2 faults | `NoHastyRemoval`, `SilenceNoticed`, `WorkloadsSharedOut` |
| `remote_source` | 2 streams, 5 offsets, parts of 8 bytes, segments of 2 events, 2 messages in flight, 1 fault, 126 segments an engine may send against the protocol | `AcceptedWellFormed`, `HonestDelivery`, `PartsBounded`, `QuietMeansCaughtUp` |
| `remote_engines` | 2 connections with the same stream, 2 faults | `NoUseAfterRemove`, `ServedWhileAvailable`, `NeverTwiceOnOneNode`, `ConsumptionFollows`, `TeardownCompletes` |
| `engine` | 2 engines, one of which listens and has a caller waiting and the other of which may be of another application, 1 fault | `OneApplication`, `OncePerInterval`, `CompactionRecurs`, `CallersAnswered`, `CanceledStops`, `WaitSuitsFailure` |

Why these bounds: races in these components are between two transactions over
one row, so two of each are needed, and a third command or transaction lets the
race happen on top of committed state. A command with two events distinguishes
the ordinals within a command from offsets. Segments, channels and caches of size 1
make every overflow, eviction and removal happen within a few events. In
`event_feed` offset 0 is of a type nobody watches and offset 2 of one the
projection does not consume, so a segment can begin and end in events that were
filtered out. In `remote_source` two events fit a part because they share a
header, one is not requested and one is larger than any part. What is sent against
the protocol is every segment with up to two of four events: of the wrong stream,
of a type not requested, in order or not, inside the range claimed or not. Each
conjunct of `Parses`, and each comparison with where the client stands, is needed:
without any one of them `AcceptedWellFormed` fails on this instance. In `cluster` a
timeout of two intervals is the least that differs from the interval, and two
faults are a lost heartbeat and a hold-up, or a crash and a lost reply. In
`engine` the limit for persistent failures is twice the one for transient
failures, which is enough for a backoff to shrink. The bounds `MaxFailures` (per
message), `MaxRollbacks`, `MaxFaults` and `MaxAttempts` only limit how often
things go wrong. A handler's `Compact` may fail any number of times.
`event_feed_failover` uses the symmetry of the two sources, and checks
invariants only. `process_deadlock` looks for one behaviour: its constraint
(`Quiet`) and symmetry only narrow the search for it. With one worker, as in
`process`, there is no deadlock. That two deadlock only by way of strays
(`OnlyStraysDeadlock`) is proved for any number of them; to see it on an instance
where strays do occur, give `MCProcessDeadlock.cfg` the invariant
`OnlyStraysDeadlock` in place of `NoDeadlock` (4,924 states, no error).

Size (distinct states): `command_pumps` 500,334; `process` 550,428;
`event_feed` 289,246; `event_feed_failover` 1,624,389; `execute_command` 61,880;
`cluster` 864,352; `remote_source` 1,791,370; `remote_engines` 286,914; `engine`
160,546. Each takes less than four minutes with two workers.

Every module keeps, next to a definition, the faulty variants used to show that
the properties can fail ("Seeded fault"). They are not part of any `Next`.

### Fairness

* `CommandPumps`: dispatchers poll for due commands (every `PollInterval` in
  `runDispatcher`), workers run, backoff delays are finite. Weak fairness on
  acquisition of each command, on each task, on each delay.
* `Process`: likewise for consumers, workers and deadlines.
* `EventFeed`: weak fairness on the bus, the follower and `Catalog.Watch` of
  each node and on the consumer. Each is a goroutine under a supervisor, which
  restarts it after an error. Nothing is assumed of appends, failures or
  cancellations. `EveryEventHandled` only promises delivery if some call to
  `Catalog.Watch` is never cancelled.
* `ExecuteCommand`: a waiting caller polls on a timer; it is sure to find an
  event only if every page it may get contains one.
* `Cluster`: weak fairness on each running node's loop and on its bus, which
  the supervisor reconnects, and on the passing of time.
* `RemoteEngines`: weak fairness on each goroutine. A call to a source returns
  once canceled, and a discoverer once the engine stops, as
  `RemoteEngineDiscoverer` demands; a read from a source ends in any case, and a
  stream consumer that is canceled does not go on from read to read, since the
  reads are given the canceled context.
* `Engine`: weak fairness on each engine's goroutines and on the passing of
  time, and strong fairness on a call of the handler's `Compact` returning
  without an error: it may fail again and again, but not for ever. Only
  `CompactionRecurs` needs the latter. No caller is assumed to give up.

In all of them failures and rollbacks are never forced and, but for those of
`Compact`, bounded.

### Disagreements between code and comments

* `process_marshal`: `DeadlinePump.HandleDelivery` adds commands to the queue
  before `saveInstance`, which returns `ErrFailed` if the root cannot be
  marshaled. `doHandle` then commits the transaction with the postponement, so
  the commands are queued although the delivery failed, and again on each
  retry. The comment on `doHandle` says it rolls back "if an error occurs".
* `process_deadlock`: `AcquireDelivery` of the deadline pump (`deadlinepump.go:75`)
  selects a deadline joined with its instance `FOR UPDATE SKIP LOCKED`. A pair
  that is skipped because its instance is locked may leave its deadline locked
  until the transaction ends. Two pumps, each of which has acquired a deadline of
  one instance and keeps a stray lock on a deadline of the other's, deadlock if
  both handlers end their instance, which deletes its deadlines. The database
  breaks the deadlock and the delivery is retried, but the comment in
  `xsql/deadlock.go:15` says that deadlocks "should never occur". `StraysDeadlock`
  proves that this is the only way.
* `execute_command_paging`: `waitForEvents` passes `nextOffsets`, a zero value, by
  value, so what a poll stores in it is lost. No poll gets beyond the first page
  (100 events), although the comment says that a poll observes events "since the
  last observed offset on each stream".

A remark without a run: the second phase of `acquire_for_write()` is described
as blocking "until any stream becomes available", but it waits for one given
row. `NoEmptyStream` shows that it never finds a row to wait for.

A limit of `OneIntegrationAtATime`: `EnforceConcurrencyPreference` serialises calls
with a session lock. When the transaction of a call is lost, the lock goes with the
session, and another node may call the handler while the first call still runs. The
property is about the calls that have a live transaction, the only ones that can
take effect, and says that the lock is never left behind. The latter rests on an
assumption about code outside this repository: that `database/sql` closes, and does
not return to the pool, the connection of a transaction whose context is canceled.
A connection that was kept would keep the lock, since `pg_advisory_unlock` is sent
through the transaction that is over.

Two more properties say less than their names may suggest. `WaitSuitsFailure`
bounds the wait after transient failures from above, not from below. `OncePerInterval` is
about compactions that were recorded; one that fails may be tried again within the
interval, after a backoff.

## What is proved

Every safety invariant and safety action property that a passing run checks is
proved for every value of the constants. Each proof rests on an inductive
invariant, `IInv`, which TLC checked on the instances of the runs before it was
proved (for `RemoteSource` with the quantifiers over positions bounded).

| theorem | property | theorem | property |
|---|---|---|---|
| **`CommandPumpsProofs`** | | **`EngineProofs`** | |
| `TypeCorrect` | `TypeOK` | `DatabaseServesOneApplication` | `OneApplication` |
| `StreamsContiguous` | `OffsetsContiguous` | `BoundForGood` | the database's application never changes |
| `StreamsHaveEvents` | `NoEmptyStream` | `CompactedOncePerInterval` | `OncePerInterval` |
| `CommandsHandledOnce` | `HandledOnce` | `OneLiveCompaction` | at most one compaction is in a live transaction |
| `OneStreamPerInstance` | `InstanceInOneStream` | `NothingLeftBehind` | the safety part of `CanceledStops` |
| `NoLostUpdate` | `DecidedOnHistory` | `CallersToldTruthfully` | the safety part of `CallersAnswered` |
| `SnapshotsSound` | `SnapshotSound` | `WaitsSuitFailures` | `WaitSuitsFailure` |
| `BindingsPermanent` | `BindingPermanent` | **`EventFeedProofs`** | |
| `IntegrationSerialised` | `OneIntegrationAtATime` | `WatchesContiguous` | `WatchContiguous` |
| `Refinement` | `ImplementsCommandHandling` | `CachesSound` | `CacheSound` |
| **`ProcessProofs`** | | `ProjectionHandlesOnceInOrder` | `HandledOnceInOrder` |
| `EventsOnce` | `EventEffectsOnce` | `ReadsAreServable` | `ReadsServable` |
| `MutationsKept` | `NoLostMutation` | `CheckpointAdvances` | the checkpoint moves only past the next wanted event |
| `DeadlinesCounted` | `DeliveriesCounted` | **`RemoteEnginesProofs`** | |
| `DeadlinesOnceIfMarshaled` | `DeadlineEffectsOnce`, if roots can be marshaled | `ConnectionsNotUsedAfterRemove` | `NoUseAfterRemove` |
| `EndedStayEnded` | `EndedForGood` | `StreamsServedWhileAvailable` | `ServedWhileAvailable` |
| `StraysDeadlock` | `OnlyStraysDeadlock`: every deadlock has two workers with strays | `ConsumersNeverTwice` | `NeverTwiceOnOneNode` |
| `OnePumpNoDeadlock` | `NoDeadlock`, if there is at most one deadline worker | `ConsumersStartWhereNoneIs` | a stream consumer is started only where none is |
| **`ExecuteCommandProofs`** | | **`ClusterProofs`** | |
| `CommandsOncePerKey` | `OneCommandPerKey` | `HastyRemovalNever` | `NoHastyRemoval` |
| `KeysPermanent` | a key keeps its command | `SilenceAlwaysNoticed` | `SilenceNoticed` |
| `SatisfiedByAnEvent` | the safety part of `ObserverSatisfied` | `ResponsibilityExclusive` | the safety part of `WorkloadsSharedOut` |
| **`RemoteSourceProofs`** | | `ResponsibilityAssigned` | nodes that agree on who is live have one responsible for each workload |
| `AcceptedAlwaysWellFormed` | `AcceptedWellFormed` | `StoppedNotResponsible` | a node that does not run is responsible for nothing |
| `HonestDeliveryAlways` | `HonestDelivery` | `ClusterInvariant` | `IInv` of `Cluster` |
| `PartsAlwaysBounded` | `PartsBounded` | | |
| `QuietAlwaysCaughtUp` | `QuietMeansCaughtUp` | | |
| `RemoteInvariant` | `IInv` of `RemoteSource` | | |

Assumptions. Each module that declares constants has one named assumption
(`TxAssumption`, `StreamAssumption`, `PumpAssumption`, `FailuresAssumption`,
`EventsAssumption`, `CommandPumpsAssumption`, `ProcessAssumption`,
`CallAssumption`, `SupervisorAssumption`, `CompactorAssumption`,
`EngineAssumption`, `SourceAssumption`, `FeedAssumption`,
`RemoteEnginesAssumption`, `ClusterAssumption`, `RemoteAssumption`). They say that
null values are not members of their sets, that bounds are natural numbers and
sizes positive ones, that routing is a function, that the types a projection
wants are among those the catalog watches, and that the supervisor's delays are
in order. `ClusterAssumption` has in addition that node IDs are ordered (`Rank`)
and that the timeout is longer than the interval, as the panic in `Node.Run`
demands; nothing is assumed of the scores. `RemoteAssumption` has that headers
are never empty, since an envelope's header holds its IDs, and that the events of
a stream lie in the offsets from `First` on; bodies may be of any size and a
single event may be larger than `MaxSegmentBytes`. TLC evaluates each assumption
on the runs of its module.

### The arguments

**Command pumps.** None of the safety properties is inductive alone: that a
commit keeps offsets contiguous depends on what the transaction read some steps
before. The invariant has two parts.

* `TaskOK(t)` says, for each label, what a transaction holds and knows: it has
  locked its command; from `locked` on it has locked its instance, and what it
  has fetched is still in the row; from `loaded` on its root is the instance's
  complete history; at `complete` it has locked its stream and `base` is the
  stream's `next_offset`.
* `TablesOK` says what is true of the committed tables: the safety properties,
  and what links them (an instance with events is bound to a stream; a command
  on the queue has no events).

The proof that a step preserves `TaskOK` has two halves. The task that takes the
step moves to a label whose facts it has just established (`OwnTaskOK`). Any
other task is `Untouched`: what its facts speak of is covered by locks it holds,
which the step can therefore not write (`OthersUntouched`). `TablesOK` changes
only at a commit, where `TaskOK` of the committing task gives what is needed
(`CommitEventsTablesOK`, `CommitNothingTablesOK`, `PostponeTablesOK`).
`OneIntegrationAtATime` has an invariant of its own, `AdvisoryOK`: a call with a
live transaction holds the lock, and only such a call does. The
refinement follows from the same facts: the commit of a handled command is a
step of `CommandHandling` (`CommitIsHandleOnce`), all others leave its variables
unchanged (`QuietSteps`).

**Processes.** The same method. `ConsumerOK` says that a consumer at work has
locked a checkpoint that is what it believes it to be, and that no other event
lies between it and the one to be stored; `PumpOK` that a deadline worker has
locked a deadline and its instance; `EffectOK` that the root is still the
committed state while the instance is locked; `LocksOK` that no lock is held
without need, but for strays. `OnlyStraysDeadlock` follows from `LocksOK` and
the order of the statements. In a set of transactions that all wait for each
other, one that waits for a checkpoint waits for a consumer that is further on;
one that waits for an instance waits for its owner; and an owner waits only if
it ends the instance and a deadline of it is locked. Nobody but the owner can
have acquired that deadline, so it is a stray, and its holder is a deadline
worker that in turn waits for another's stray.

**Submission.** A transaction that has inserted its key holds the key's lock, and
nobody has committed the key (`CallOK`); a committed key and a queued command
that was called with it determine each other (`KeysOK`).

**Engine.** A compactor in a live transaction has the row, whose age is the whole
interval; whoever has the row is one (`CompactorOK`). The row's age is therefore
reset only when the interval is over, although a compactor whose session was lost
may still be in the handler. `EngineOK` relates `Run`'s label to what it has
started and published.

**Delivery of events.** The invariant follows an event on its way. What a
follower is about to deliver begins where the last segment ended (`FollowerOK`).
What a watch is yet to pass on has exactly the events of its range, is
contiguous, and while it is registered leads up to the next delivery
(`WatcherOK`). A cache has exactly the watched events of the range it claims
(`CacheOK`). Between segments no wanted event is before the consumer's
checkpoint and after the one last handled, and while it works on a segment what
is left to do is all that is wanted up to its end (`ConsumerFits`). Exactness is
what makes the links compose: a segment taken from a cache or a read has, of the
types the projection wants, all there are, so moving the checkpoint past its end
skips nothing. The lemmas about sequences, least offsets and cardinality
(`MinFacts`, `MaxFacts` and those that follow) are what eviction and splitting
need.

**Connections.** `ConnFits` orders the end of a connection: feeds are open only
until they are removed, calls of `Watch` are made only before that, calls of
`Read` only until `Catalog.Watch` has waited for them, and the connection's
`remove` and `discover` return only after `Catalog.Watch`. A consumer that was
not canceled has an entry in `stopStreamConsumer` (`ConFits`), so `reconcile`,
which waits for those it canceled, finds no other where it starts one.

**Membership.** Whether `expireNodes` is hasty depends on what a node has not read
yet. `Heard` says that what it has recorded of another is no older than what last
reached its channel, unless a heartbeat still waits there; when the channel has
been drained, the age that `expireNodes` compares is therefore that of the last
arrival or less. `Timely` says that, between ticks, no recorded heartbeat will be
older than the timeout and one interval when the next tick is due: the expiry at
the last tick removed those that would be. `Published` says that a membership
holds only nodes of which there is a heartbeat, and none when the node does not
run. Responsibility needs no more than that the highest score, or the lower ID
among equal scores, is a strict total order of the nodes (`OutdoesOrder`), which a
finite set of nodes has a greatest member of.

**Streams of other engines.** `Honest` segments hold exactly the requested events
that the source has of their range (`Lists`, `Chosen`). The lemmas about data come
first: `MemorySegment` is honest, `Unread` keeps it so, and `FirstPart` and `Rest`
of an honest segment are honest and meet, and the part is `Bounded`
(`PartFacts`). The invariant then follows the client's position in a stream
along what is on its way. `Chain` says that the messages on the wire, one after
another, take the client from where it is (`upTo`) to some position, `Resumes`
that what the server and the source still have to send goes on from there, and
`Path` joins the two: they lead, without a gap, to where the server has got. This
is more than contiguity of neighbours, because messages of several streams are
interleaved on one wire and the first segment of a stream may begin anywhere. From
`Path` follow that an honest engine is never rejected and, with an empty wire and
nothing pending, that the client is where the server is. `Received` is the part
that holds whatever is sent: nothing is assumed of `Lie` but that its members are
segments. `Woken` says that while the source has not changed since the server
looked, the server has got to the end of every stream; with `Path` this gives
`QuietMeansCaughtUp`. `ReadServed`, `ReadReports` and `ReadEnded` relate how a read ends
to `target`, the end of the stream when it began, by way of the stream having only
grown since.

`MemorySegment` and `PartSize` are recursive functions, so these lemmas are proved
by induction over data. The induction theorems of the library cannot be used, for
they take an operator as a parameter; `SetInduction` states the principle for a
set instead of a predicate, from the existence of a least counterexample, and
`StepsExist` derives from it that a recursive function has the values its
definition says.

### Only model-checked

Liveness, which is outside the prover's reach: `EveryCommandHandled`,
`EverythingDelivered`, `EveryEventHandled`, `ObserverSatisfied`,
`ConsumptionFollows`, `TeardownCompletes`, `CompactionRecurs`, that the workloads
are all shared out in the end (`WorkloadsSharedOut` beyond
`ResponsibilityExclusive`), and of `CallersAnswered` and `CanceledStops` what they
promise beyond `CallersToldTruthfully` and `NothingLeftBehind`.

Some results are only proved. `TypeOK`, `SnapshotSound` and `BindingPermanent`
are parts of the inductive invariant or follow from it, and a fault that breaks
them shows in `DecidedOnHistory` or `InstanceInOneStream`, which the run checks.
`OnlyStraysDeadlock` needs two workers to mean anything and is no property of a
run; see the bounds above for an instance of it.
The others, whose property the table gives in words, are conditional forms of
what a violation run refutes, safety parts of properties that a run checks, or
further consequences of the inductive invariants.

## Plan

1. `discover` of the local source, with streams appearing while others are
   followed, as a component of its own: within `EventFeed` it multiplies the
   states of an instance by seven.
2. `RemoteSource` as the source behind `EventFeed`, so that a feed's watch is a
   refinement of either.

## Not modelled, and why

* Message contents, encoding, logging, validation of options and the tables of
  routes carry no concurrency and are abstracted to identities and sets.
* The discovery of streams in the local source (`discover`, `loadStreamIDs`):
  `LocalSource` follows one stream that is known from the start. The loop has
  the form of the one that is modelled: a subscription that is full when it
  begins and again when the bus reconnects, followed by a query of what there is.
* `computeBackoff`. Delays of deliveries are abstract: a postponed delivery
  becomes due at any later moment. That its arithmetic cannot go wrong is seen by
  hand: both callers count the failure first, so the shift is at least 1 and the
  random window is not empty. The base is 10^7 ns = 5^7 * 2^7 and the cap
  3 * 10^11 ns. Bits are first lost at a shift of 40 or more, when the result is
  a multiple of 2^47, which is more than the cap, or is not positive; both are
  replaced by the cap.
* The hooks of `ExecuteCommand` before `commandqueue.add`, and the creation of
  the schema, which are sequential.
* PostgreSQL is taken to provide READ COMMITTED visibility, row locks and
  notifications; its deadlock detector and serialisation failures appear as
  rollbacks. gRPC is taken to deliver the messages of a call in order or to break
  it.
* Clocks: the age of what is recorded is measured by one clock. Nodes compare
  only durations of their own; the interval of compaction is measured by the
  database.
