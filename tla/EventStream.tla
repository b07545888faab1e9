----------------------------- MODULE EventStream -----------------------------
(***************************************************************************)
(* The tables of the "eventstream" schema and the SQL functions that write *)
(* them.  Every writer is a database transaction: what it appends becomes  *)
(* visible to the others when it commits, and the row of a stream it has   *)
(* selected FOR UPDATE or updated stays locked until it ends.              *)
(*                                                                         *)
(* An event is identified by the command it was recorded for and by its    *)
(* position among the events of that command (its ordinal).                *)
(***************************************************************************)
EXTENDS Integers, Transactions

CONSTANTS
  Stream,      \* the IDs gen_random_uuid() may hand out
  NoStream     \* SQL NULL in a column that holds a stream ID

ASSUME StreamAssumption == NoStream \notin Stream

VARIABLES
  streams,     \* committed rows of eventstream.streams
  nextOffset,  \* their next_offset column; DEFAULT 0 for a row still to come
  events,      \* committed rows of eventstream.events
  streamLock   \* who holds the lock on the row of a stream

streamVars == <<streams, nextOffset, events, streamLock>>

(***************************************************************************)
(* The IDs of the events found in a set of rows.                           *)
(***************************************************************************)
EventId(e) == <<e.cmd, e.ord>>

Ids(rows) == {EventId(e) : e \in rows}

(***************************************************************************)
(* The rows eventstream.append() inserts for n events: ordinals count from *)
(* zero and are added to the stream's base offset.                         *)
(***************************************************************************)
AppendedRows(s, base, n, cmd, inst, seen) ==
  {[stream |-> s, offset |-> base + k, cmd |-> cmd, ord |-> k,
    inst |-> inst, seen |-> seen] : k \in 0 .. n - 1}

(***************************************************************************)
(* eventstream.acquire_for_write().  Phase 1 takes any committed stream    *)
(* nobody has locked (the order by next_offset is that of a snapshot,      *)
(* which other transactions may have overtaken, so any free stream may be  *)
(* the one).  Phase 3 creates a stream.  Phase 2 blocks instead while a    *)
(* stream without events is committed: the transaction then waits and goes *)
(* on as in phase 1 once a stream is free.                                 *)
(***************************************************************************)
FreeStreams == {s \in streams : streamLock[s] = NoTx}

EmptyStreams == {s \in streams : nextOffset[s] = 0}

AcquireForWrite(t, s) ==
  /\ \/ s \in FreeStreams
     \/ /\ FreeStreams = {}
        /\ EmptyStreams = {}
        /\ s \notin streams
        /\ streamLock[s] = NoTx
  /\ streamLock' = Lock(streamLock, s, t)

(***************************************************************************)
(* The UPDATE in eventstream.append() for a stream that is already known:  *)
(* it waits for the row lock.                                              *)
(***************************************************************************)
LockForAppend(t, s) ==
  /\ streamLock[s] = NoTx
  /\ streamLock' = Lock(streamLock, s, t)

(***************************************************************************)
(* The rows become visible, and a new stream with them, at commit.         *)
(***************************************************************************)
\* Seeded fault: next_offset becomes the offset of the last event.
CommitAppendShort(s, base, n, cmd, inst, seen) ==
  /\ streams' = streams \union {s}
  /\ nextOffset' = [nextOffset EXCEPT ![s] = base + n - 1]
  /\ events' = events \union AppendedRows(s, base, n, cmd, inst, seen)

CommitAppend(s, base, n, cmd, inst, seen) ==
  /\ streams' = streams \union {s}
  /\ nextOffset' = [nextOffset EXCEPT ![s] = base + n]
  /\ events' = events \union AppendedRows(s, base, n, cmd, inst, seen)

EventStreamInit ==
  /\ streams = {}
  /\ nextOffset = [s \in Stream |-> 0]
  /\ events = {}
  /\ streamLock = Unlocked(Stream)

(***************************************************************************)
(* The offsets of a stream are exactly 0 .. next_offset - 1, one event     *)
(* each: concurrent appends neither leave a gap nor share an offset.  The  *)
(* consumers of a stream rely on it, since they resume at the offset after *)
(* the last event they have seen.                                          *)
(***************************************************************************)
OffsetsContiguous ==
  /\ \A s \in Stream : {e.offset : e \in {f \in events : f.stream = s}} = 0 .. nextOffset[s] - 1
  /\ \A e, f \in events : e.stream = f.stream /\ e.offset = f.offset => e = f

(***************************************************************************)
(* A committed stream has events: acquire_for_write() creates a stream     *)
(* only in a transaction that goes on to append to it, so its phase 2      *)
(* never blocks a writer.                                                  *)
(***************************************************************************)
NoEmptyStream == EmptyStreams = {}
==============================================================================
