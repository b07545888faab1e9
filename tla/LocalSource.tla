----------------------------- MODULE LocalSource -----------------------------
(***************************************************************************)
(* The source of an engine's own event streams (source.Local), for one     *)
(* stream, on every node: a goroutine per stream follows its end and       *)
(* delivers segments to the calls to Watch, each through a buffered        *)
(* channel.  There is one call to Watch per node at a time, that of the    *)
(* catalog the node's streams are delivered to.                            *)
(*                                                                         *)
(* An event is its offset.  A segment is a range of offsets with the       *)
(* events of the requested types in it.                                    *)
(*                                                                         *)
(* The labels of the goroutine (follower[n].pc):                           *)
(*   down        watchStream has failed or not begun                       *)
(*   opening     subscribed, about to load the offset to begin at          *)
(*   loading     about to load the segment from next                       *)
(*   delivering  has loaded seg, about to deliver it                       *)
(*   waiting     waiting for a signal                                      *)
(***************************************************************************)
EXTENDS Integers, FiniteSets, FiniteSetsExt, Sequences, SignalBus

CONSTANTS
  SegmentSize,  \* how many events loadSegment reads
  BufferSize,   \* how many segments a watcher's channel holds
  MaxLength,    \* bound on the length of the stream
  NoOffset      \* a node that does not follow the stream has no offset for it

ASSUME SourceAssumption ==
  /\ SegmentSize \in Nat \ {0}
  /\ BufferSize \in Nat \ {0}
  /\ MaxLength \in Nat \ {0}
  /\ NoOffset \notin Nat

VARIABLES
  length,    \* next_offset of the stream
  follower,  \* the goroutine in deliverStream
  offsets,   \* where the next segment begins, if the stream is followed
  watcher    \* the call to Watch: whether it is registered, its opening
             \* segments that are still to be passed on, and its channel

sourceVars == <<length, follower, offsets, watcher>>

AllTypes == 0 .. MaxLength - 1

Segment(b, e, evs) == [begin |-> b, end |-> e, events |-> evs]

(***************************************************************************)
(* loadSegment: one statement reads the stream's length and the first      *)
(* SegmentSize events of the given types.  When there are fewer the stream *)
(* is exhausted, and the segment extends to its end.                       *)
(***************************************************************************)
\* Seeded fault: an exhausted segment ends one past the end of the stream.
LoadSegmentPastEnd(types, begin) ==
  LET found == {o \in types : begin <= o /\ o < length}
      first == {o \in found : Cardinality({p \in found : p < o}) < SegmentSize}
      exhausted == Cardinality(first) < SegmentSize
  IN  [seg |-> Segment(begin, IF exhausted THEN length + 1 ELSE Max(first) + 1, first),
       exhausted |-> exhausted]

LoadSegment(types, begin) ==
  LET found == {o \in types : begin <= o /\ o < length}
      first == {o \in found : Cardinality({p \in found : p < o}) < SegmentSize}
      exhausted == Cardinality(first) < SegmentSize
  IN  [seg |-> Segment(begin, IF exhausted THEN length ELSE Max(first) + 1, first),
       exhausted |-> exhausted]

FilterSegment(seg, types) == [seg EXCEPT !.events = @ \intersect types]

(***************************************************************************)
(* register and unregister: the opening segment of a followed stream is    *)
(* empty and begins where the next one delivered will.                     *)
(***************************************************************************)
NoWatcher == [state |-> "off", openings |-> <<>>, segments |-> <<>>]

Register(n) ==
  /\ watcher[n].state = "off"
  /\ watcher' = [watcher EXCEPT ![n] =
       [state |-> "registered",
        openings |-> IF offsets[n] = NoOffset THEN <<>>
                     ELSE <<Segment(offsets[n], offsets[n], {})>>,
        segments |-> <<>>]]
  /\ UNCHANGED <<length, follower, offsets>>

(***************************************************************************)
(* The order in which Watch passes segments on: the openings, and then     *)
(* what is in the channel, also after the channel has been closed.         *)
(***************************************************************************)
Undelivered(n) == watcher[n].openings \o watcher[n].segments

FirstTaken(w) ==
  IF w.openings # <<>> THEN [w EXCEPT !.openings = Tail(@)]
                       ELSE [w EXCEPT !.segments = Tail(@)]

PassOn(n) ==
  /\ Undelivered(n) # <<>>
  /\ watcher' = [watcher EXCEPT ![n] = FirstTaken(@)]
  /\ UNCHANGED <<length, follower, offsets>>

(***************************************************************************)
(* deliver: the segment goes to the registered watcher, which is removed   *)
(* if its channel is full.                                                 *)
(***************************************************************************)
Removed(w) == IF w.state = "registered" THEN [w EXCEPT !.state = "removed"] ELSE w

\* Seeded fault: a segment that does not fit is dropped, the watcher kept.
DeliveredOrDropped(w, seg) ==
  IF w.state = "registered" /\ Len(w.segments) < BufferSize
  THEN [w EXCEPT !.segments = Append(@, seg)] ELSE w

DeliveredTo(w, seg) ==
  IF w.state = "registered" /\ Len(w.segments) < BufferSize
  THEN [w EXCEPT !.segments = Append(@, seg)] ELSE Removed(w)

(***************************************************************************)
(* deliverStream.  Its subscription is filled when it begins, so that it   *)
(* opens the stream at once.  Each signal makes it load segments until     *)
(* the stream is exhausted.                                                *)
(***************************************************************************)
Idle == [pc |-> "down", next |-> 0, seg |-> Segment(0, 0, {}), more |-> FALSE]

Follow(n) ==
  /\ follower[n].pc = "down"
  /\ Subscribe(n)
  /\ follower' = [follower EXCEPT ![n].pc = "waiting"]
  /\ UNCHANGED <<length, offsets, watcher>>

\* The stream has been opened once its offset is recorded.
Opened(n) == offsets[n] # NoOffset

AwaitSignal(n) ==
  /\ follower[n].pc = "waiting"
  /\ Receive(n)
  /\ follower' = [follower EXCEPT ![n].pc = IF Opened(n) THEN "loading" ELSE "opening"]
  /\ UNCHANGED <<length, offsets, watcher>>

LoadWatchOffset(n) ==
  /\ follower[n].pc = "opening"
  /\ follower' = [follower EXCEPT ![n] =
       [pc |-> "delivering", next |-> length,
        seg |-> Segment(length, length, {}), more |-> TRUE]]
  /\ UNCHANGED <<length, offsets, watcher, busVars>>

LoadNext(n) ==
  /\ follower[n].pc = "loading"
  /\ LET r == LoadSegment(AllTypes, follower[n].next) IN
     follower' = [follower EXCEPT ![n] =
       IF r.seg.end > r.seg.begin
       THEN [pc |-> "delivering", next |-> @.next, seg |-> r.seg, more |-> ~r.exhausted]
       ELSE [@ EXCEPT !.pc = "waiting"]]
  /\ UNCHANGED <<length, offsets, watcher, busVars>>

Deliver(n) ==
  /\ follower[n].pc = "delivering"
  /\ LET seg == follower[n].seg IN
     /\ offsets' = [offsets EXCEPT ![n] = seg.end]
     /\ watcher' = [watcher EXCEPT ![n] = DeliveredTo(@, seg)]
     /\ follower' = [follower EXCEPT ![n] =
          [Idle EXCEPT !.pc = IF follower[n].more THEN "loading" ELSE "waiting",
                       !.next = seg.end]]
  /\ UNCHANGED <<length, busVars>>

(***************************************************************************)
(* watchStream: a query has failed, so every watcher is removed and the    *)
(* stream is not followed until the supervisor restarts it.                *)
(***************************************************************************)
FollowFails(n) ==
  /\ follower[n].pc \in {"opening", "loading"}
  /\ Unsubscribe(n)
  /\ follower' = [follower EXCEPT ![n] = Idle]
  /\ offsets' = [offsets EXCEPT ![n] = NoOffset]
  /\ watcher' = [watcher EXCEPT ![n] = Removed(@)]
  /\ UNCHANGED length

(***************************************************************************)
(* A transaction that appends k events commits; the trigger on the         *)
(* streams table signals it.                                               *)
(***************************************************************************)
AppendEvents(k) ==
  /\ length + k <= MaxLength
  /\ length' = length + k
  /\ Notify
  /\ UNCHANGED <<follower, offsets, watcher>>

FollowerStep(n) ==
  \/ Follow(n)
  \/ AwaitSignal(n)
  \/ LoadWatchOffset(n)
  \/ LoadNext(n)
  \/ Deliver(n)

\* A stream is created with its first event.
SourceInit ==
  /\ BusInit
  /\ length = 1
  /\ follower = [n \in Node |-> Idle]
  /\ offsets = [n \in Node |-> NoOffset]
  /\ watcher = [n \in Node |-> NoWatcher]

(***************************************************************************)
(* What a call to Watch is yet to pass on is contiguous, and while the     *)
(* call is registered it leads up to the offset at which the next segment  *)
(* begins.  A watcher that cannot be given a segment is therefore removed: *)
(* deliver and fail must never leave it registered with a gap.             *)
(***************************************************************************)
WatchContiguous ==
  \A n \in Node :
    LET u == Undelivered(n) IN
    /\ \A i \in 1 .. Len(u) - 1 : u[i].end = u[i + 1].begin
    /\ u # <<>> /\ watcher[n].state = "registered" => u[Len(u)].end = offsets[n]
==============================================================================
