---------------------------- MODULE RemoteSource -----------------------------
(***************************************************************************)
(* The event streams of one engine consumed by another: a source, served   *)
(* by a source.Server over gRPC, and the source.Remote that the consuming  *)
(* engine watches and reads.  The source is source.Memory, which tests     *)
(* serve in place of the source.Local of an engine.  A call delivers       *)
(* messages in order and then a status, and may break at any time.  Calls  *)
(* share nothing but the source, which goes on growing, so they are made   *)
(* one at a time.                                                          *)
(*                                                                         *)
(* An event is identified by its offset; its type, its header and the      *)
(* sizes of header and body are constants.  The remote engine of a call    *)
(* may also break the protocol: it then sends any of the segments Lie.     *)
(***************************************************************************)
EXTENDS Integers, Sequences

CONSTANTS
  Stream,
  MaxLength,       \* bound on the offset at which a stream ends
  First,           \* where the first segment that is appended to each stream begins
  Type,
  TypeOf,          \* the type of the event at each offset
  HeaderOf,        \* its header
  HeaderSize,      \* the size of each header, which is never empty
  BodySize,        \* the size of each body
  Stored,          \* the offsets that hold an event of a type the source keeps
  Requested,       \* the types that are watched and read, or AllTypes
  AllTypes,        \* the filter that matches events of every type
  MaxSegmentBytes,
  SegmentSize,     \* the most events of one segment of Memory.Read, or 0
  Window,          \* how many messages a call holds that were not received
  Lie,             \* what an engine that breaks the protocol may send
  None,            \* no offset
  MaxFaults        \* bound on calls that break or fall behind

Offset == 0 .. MaxLength - 1

\* What a segment may say that arrives over the network.
AnyEnvelope == [stream : Stream, offset : Nat, type : Type]
AnySegment == [stream : Stream, begin : Nat, end : Nat, envelopes : Seq(AnyEnvelope)]

ASSUME RemoteAssumption ==
  /\ MaxLength \in Nat \ {0}
  /\ \A o \in Offset : TypeOf[o] \in Type
  /\ \A o \in Offset : BodySize[o] \in Nat /\ HeaderSize[HeaderOf[o]] \in Nat \ {0}
  /\ Stored \subseteq Offset
  /\ First \in [Stream -> Offset]
  /\ MaxSegmentBytes \in Nat \ {0}
  /\ SegmentSize \in Nat
  /\ Window \in Nat \ {0}
  /\ \A seg \in Lie : seg \in AnySegment
  /\ None \notin Nat
  /\ MaxFaults \in Nat

VARIABLES
  end,     \* where each stream of the Memory source ends, None if it has none
  watch,   \* the call to Watch
  read,    \* the call to Read
  changed, \* whether the source has changed since the watch last looked at it
  lying,   \* whether the remote engine of the call breaks the protocol
  faults

vars == <<end, watch, read, changed, lying, faults>>

Fault == faults < MaxFaults /\ faults' = faults + 1

Matches(type) == Requested = AllTypes \/ type \in Requested

Segment(s, b, e, envelopes) == [stream |-> s, begin |-> b, end |-> e, envelopes |-> envelopes]
Envelope(s, o) == [stream |-> s, offset |-> o, type |-> TypeOf[o]]

-------------------------------------------------------------------------------

(***************************************************************************)
(* Memory.segment: the events of [b, e) of the requested types.            *)
(***************************************************************************)
InSegment(s, o, b, e) ==
  /\ o \in Stored /\ First[s] <= o
  /\ b <= o /\ o < e
  /\ Matches(TypeOf[o])

MemorySegment(s, b, e) ==
  LET envelopes[n \in 0 .. MaxLength] ==
        IF n = 0 THEN <<>>
        ELSE IF InSegment(s, n - 1, b, e) THEN Append(envelopes[n - 1], Envelope(s, n - 1))
        ELSE envelopes[n - 1]
  IN  Segment(s, b, e, envelopes[MaxLength])

(***************************************************************************)
(* Memory.Append, of a segment that begins where the stream ends and that  *)
(* creates the stream if it is the first.  It wakes the watch.             *)
(***************************************************************************)
\* Seeded fault: a stream that is created wakes nobody.
MemoryAppendUnannounced(s, e) ==
  /\ e \in (IF end[s] = None THEN First[s] ELSE end[s]) .. MaxLength
  /\ e # end[s]
  /\ end' = [end EXCEPT ![s] = e]
  /\ changed' = (changed \/ end[s] # None)
  /\ UNCHANGED <<watch, read, lying, faults>>

MemoryAppend(s, e) ==
  /\ e \in (IF end[s] = None THEN First[s] ELSE end[s]) .. MaxLength
  /\ e # end[s]
  /\ end' = [end EXCEPT ![s] = e]
  /\ changed' = TRUE
  /\ UNCHANGED <<watch, read, lying, faults>>

(***************************************************************************)
(* Memory.undelivered: a stream is delivered first with an empty segment   *)
(* at its end, and then whenever it has grown.                             *)
(***************************************************************************)
Undelivered(delivered) == {s \in Stream : end[s] # None /\ delivered[s] # end[s]}

UndeliveredSegment(s, delivered) ==
  MemorySegment(s, IF delivered[s] = None THEN end[s] ELSE delivered[s], end[s])

(***************************************************************************)
(* Memory.unread: limited to SegmentSize events.                           *)
(***************************************************************************)
Unread(s, b) ==
  LET seg == MemorySegment(s, b, end[s]) IN
  IF SegmentSize > 0 /\ Len(seg.envelopes) > SegmentSize
  THEN Segment(s, b, seg.envelopes[SegmentSize].offset + 1,
               SubSeq(seg.envelopes, 1, SegmentSize))
  ELSE seg

-------------------------------------------------------------------------------

(***************************************************************************)
(* The size of the first i events as one part: their bodies, and one       *)
(* header for every run of events that have the same one.                  *)
(***************************************************************************)
HeaderBytes(envelopes, i) == HeaderSize[HeaderOf[envelopes[i].offset]]
BodyBytes(envelopes, i) == BodySize[envelopes[i].offset]

SharesHeader(envelopes, i) ==
  i > 1 /\ HeaderOf[envelopes[i].offset] = HeaderOf[envelopes[i - 1].offset]

PartSize(envelopes) ==
  LET size[i \in 0 .. Len(envelopes)] ==
        IF i = 0 THEN 0
        ELSE size[i - 1] + (IF SharesHeader(envelopes, i) THEN 0 ELSE HeaderBytes(envelopes, i))
                         + BodyBytes(envelopes, i)
  IN  size

(***************************************************************************)
(* splitSegment closes a part before an event that would make it larger    *)
(* than MaxSegmentBytes if the event did not share the header of the one   *)
(* before.  Cut is how many events go to the first part of a segment.      *)
(***************************************************************************)
ClosedBefore(envelopes) ==
  LET size == PartSize(envelopes) IN
  {i \in 1 .. Len(envelopes) :
     /\ size[i - 1] > 0
     /\ size[i - 1] + HeaderBytes(envelopes, i) + BodyBytes(envelopes, i) > MaxSegmentBytes}

FirstClosed(envelopes) ==
  CHOOSE i \in ClosedBefore(envelopes) : \A j \in ClosedBefore(envelopes) : i <= j

\* Seeded fault: the part is closed after the event that makes it too large.
CutLate(envelopes) ==
  IF ClosedBefore(envelopes) = {} THEN Len(envelopes) ELSE FirstClosed(envelopes)

Cut(envelopes) ==
  IF ClosedBefore(envelopes) = {} THEN Len(envelopes) ELSE FirstClosed(envelopes) - 1

(***************************************************************************)
(* The parts of a segment are made one by one as they are sent, and are    *)
(* contiguous: each ends where the first event of the next is, and the     *)
(* last where the segment ends.  Rest is what is left of the segment after *)
(* the first part.                                                         *)
(***************************************************************************)
\* Seeded fault: a part ends after its last event.
FirstPartLeavingGap(seg) ==
  LET n == Cut(seg.envelopes) IN
  IF n >= Len(seg.envelopes) THEN seg
  ELSE Segment(seg.stream, seg.begin, seg.envelopes[n].offset + 1,
               SubSeq(seg.envelopes, 1, n))

FirstPart(seg) ==
  LET n == Cut(seg.envelopes) IN
  IF n >= Len(seg.envelopes) THEN seg
  ELSE Segment(seg.stream, seg.begin, seg.envelopes[n + 1].offset,
               SubSeq(seg.envelopes, 1, n))

Rest(seg) ==
  LET n == Cut(seg.envelopes) IN
  IF n >= Len(seg.envelopes) THEN {}
  ELSE {Segment(seg.stream, seg.envelopes[n + 1].offset, seg.end,
                SubSeq(seg.envelopes, n + 1, Len(seg.envelopes)))}

(***************************************************************************)
(* parseSegment accepts a segment whose events are its own, of the types   *)
(* requested, within it and in the order of their offsets.                 *)
(***************************************************************************)
\* Seeded fault: the order of the events is not looked at.
ParsesUnordered(seg) ==
  /\ seg.begin <= seg.end
  /\ \A i \in DOMAIN seg.envelopes :
       LET env == seg.envelopes[i] IN
       /\ env.stream = seg.stream
       /\ seg.begin <= env.offset /\ env.offset < seg.end
       /\ Matches(env.type)

Parses(seg) ==
  /\ seg.begin <= seg.end
  /\ \A i \in DOMAIN seg.envelopes :
       LET env == seg.envelopes[i] IN
       /\ env.stream = seg.stream
       /\ seg.begin <= env.offset /\ env.offset < seg.end
       /\ i > 1 => env.offset > seg.envelopes[i - 1].offset
       /\ Matches(env.type)

-------------------------------------------------------------------------------

(***************************************************************************)
(* A call.  The source has the segments to pass to the server, one at a    *)
(* time and in any order; rest is what the server has yet to send of the   *)
(* last one, if anything.  The server ends the call with a status; wire    *)
(* holds what was sent and not yet received.  The client has been passed   *)
(* the events got, of the range that begins at from and ends at upTo.      *)
(* outcome is how the call ended.                                          *)
(*                                                                         *)
(* A watch does this for every stream, and delivered is how far its server *)
(* has got.  A read is of one stream, next is how far its server has got,  *)
(* and target is where the stream ended when the read began.               *)
(***************************************************************************)
Nowhere == [s \in Stream |-> None]

NoWatch == [open |-> FALSE, segments |-> {}, rest |-> {}, wire |-> <<>>, status |-> "none",
            delivered |-> Nowhere, from |-> Nowhere, upTo |-> Nowhere,
            got |-> [s \in Stream |-> <<>>], outcome |-> "none"]

NoRead == [open |-> FALSE, segments |-> {}, rest |-> {}, wire |-> <<>>, status |-> "none",
           stream |-> None, next |-> None, from |-> None, upTo |-> None,
           got |-> <<>>, target |-> None, outcome |-> "none"]

Passed(call) == IF call.rest = {} THEN call.segments ELSE call.rest

Loads(call) == call.open /\ call.status = "none" /\ Passed(call) = {}

Sends(call) == call.open /\ Len(call.wire) < Window

Sent(call, seg, part) ==
  [call EXCEPT !.segments = @ \ {seg}, !.rest = Rest(seg), !.wire = Append(@, part)]

-------------------------------------------------------------------------------

(***************************************************************************)
(* Remote.Watch calls WatchEvents, which watches the Memory source.  The   *)
(* source is looked at when the watch begins, and again whenever it has    *)
(* changed.                                                                *)
(***************************************************************************)
BeginWatch ==
  /\ ~watch.open /\ ~read.open
  /\ watch' = [NoWatch EXCEPT !.open = TRUE]
  /\ read' = NoRead
  /\ changed' = TRUE
  /\ lying' \in BOOLEAN
  /\ UNCHANGED <<end, faults>>

ServerLoads ==
  /\ ~lying
  /\ Loads(watch)
  /\ changed
  /\ watch' = [watch EXCEPT
       !.segments = {UndeliveredSegment(s, watch.delivered) : s \in Undelivered(watch.delivered)},
       !.delivered = end]
  /\ changed' = FALSE
  /\ UNCHANGED <<end, read, lying, faults>>

ServerSends ==
  /\ ~lying
  /\ Sends(watch)
  /\ \E seg \in Passed(watch) : watch' = Sent(watch, seg, FirstPart(seg))
  /\ UNCHANGED <<end, read, changed, lying, faults>>

(***************************************************************************)
(* An engine that breaks the protocol.  It sends the next message once the *)
(* last is received: how many are in flight makes no difference to the     *)
(* client, which takes them one by one.                                    *)
(***************************************************************************)
ServerLies ==
  /\ lying
  /\ watch.open /\ watch.wire = <<>> /\ watch.status = "none"
  /\ \E seg \in Lie : watch' = [watch EXCEPT !.wire = <<seg>>]
  /\ UNCHANGED <<end, read, changed, lying, faults>>

(***************************************************************************)
(* The source reports that the consumer is too slow, which the server      *)
(* answers with Aborted; a remote engine without event streams answers     *)
(* with Unimplemented, and one that stops with any other status.           *)
(***************************************************************************)
ServerEnds ==
  /\ watch.open /\ watch.status = "none"
  /\ Fault
  /\ \E status \in {"Aborted", "Unimplemented", "OK"} :
       watch' = [watch EXCEPT !.segments = {}, !.rest = {}, !.status = status]
  /\ UNCHANGED <<end, read, changed, lying>>

(***************************************************************************)
(* Remote.Watch receives a segment, which must be well formed and begin    *)
(* where the one before it of the same stream ended, and passes it on.     *)
(***************************************************************************)
Contiguous(seg) == watch.upTo[seg.stream] \in {None, seg.begin}

WatchReceives ==
  /\ watch.open /\ watch.wire # <<>>
  /\ LET seg == Head(watch.wire) IN
     watch' = IF ~Parses(seg) \/ ~Contiguous(seg)
              THEN [NoWatch EXCEPT !.outcome = "invalid segment"]
              ELSE [watch EXCEPT
                      !.wire = Tail(@),
                      !.from[seg.stream] = IF @ = None THEN seg.begin ELSE @,
                      !.upTo[seg.stream] = seg.end,
                      !.got[seg.stream] = @ \o seg.envelopes]
  /\ UNCHANGED <<end, read, changed, lying, faults>>

(***************************************************************************)
(* Remote.Watch returns: watchError of the status, or of a call that       *)
(* breaks.                                                                 *)
(***************************************************************************)
WatchReturns ==
  /\ watch.open
  /\ \/ /\ watch.wire = <<>> /\ watch.status # "none"
        /\ watch' = [NoWatch EXCEPT !.outcome =
             CASE watch.status = "Aborted" -> "too slow"
               [] watch.status = "Unimplemented" -> "unsupported"
               [] OTHER -> "failed"]
        /\ UNCHANGED faults
     \/ /\ Fault
        /\ watch' = [NoWatch EXCEPT !.outcome = "failed"]
  /\ UNCHANGED <<end, read, changed, lying>>

-------------------------------------------------------------------------------

(***************************************************************************)
(* Remote.Read calls ReadEvents, which reads from the Memory source.       *)
(***************************************************************************)
BeginRead(s, b) ==
  /\ ~watch.open /\ ~read.open
  /\ read' = [NoRead EXCEPT !.open = TRUE, !.stream = s, !.next = b, !.from = b,
                            !.upTo = b, !.target = end[s]]
  /\ watch' = NoWatch
  /\ lying' \in BOOLEAN
  /\ UNCHANGED <<end, changed, faults>>

(***************************************************************************)
(* Memory.Read loads the next segment, or returns because the stream does  *)
(* not exist, the offset is beyond its end, or its end is reached.         *)
(***************************************************************************)
ReadStatus(s, b) ==
  CASE end[s] = None -> "NotFound"
    [] end[s] # None /\ b > end[s] -> "OutOfRange"
    [] end[s] # None /\ b = end[s] -> "OK"
    [] OTHER -> "none"

ReadServerLoads ==
  /\ ~lying
  /\ Loads(read)
  /\ LET status == ReadStatus(read.stream, read.next) IN
     read' = IF status # "none" THEN [read EXCEPT !.status = status]
             ELSE LET seg == Unread(read.stream, read.next) IN
                  [read EXCEPT !.segments = {seg}, !.next = seg.end]
  /\ UNCHANGED <<end, watch, changed, lying, faults>>

ReadServerSends ==
  /\ ~lying
  /\ Sends(read)
  /\ \E seg \in Passed(read) : read' = Sent(read, seg, FirstPart(seg))
  /\ UNCHANGED <<end, watch, changed, lying, faults>>

ReadServerLies ==
  /\ lying
  /\ read.open /\ read.wire = <<>> /\ read.status = "none"
  /\ \/ \E seg \in Lie : read' = [read EXCEPT !.wire = <<seg>>]
     \/ \E status \in {"NotFound", "OutOfRange", "OK"} :
          read' = [read EXCEPT !.segments = {}, !.rest = {}, !.status = status]
  /\ UNCHANGED <<end, watch, changed, lying, faults>>

(***************************************************************************)
(* Remote.Read receives a segment, which must be of the stream requested   *)
(* and begin where the one before it ended, and passes it on.              *)
(***************************************************************************)
ReadReceives ==
  /\ read.open /\ read.wire # <<>>
  /\ LET seg == Head(read.wire) IN
     read' = IF Parses(seg) /\ seg.stream = read.stream /\ seg.begin = read.upTo
             THEN [read EXCEPT !.wire = Tail(@), !.upTo = seg.end, !.got = @ \o seg.envelopes]
             ELSE [NoRead EXCEPT !.outcome = "invalid segment"]
  /\ UNCHANGED <<end, watch, changed, lying, faults>>

(***************************************************************************)
(* Remote.Read returns: readError of the status, or of a call that breaks  *)
(* or is canceled, as feed.read cancels it once it has caught up.          *)
(***************************************************************************)
ReadReturns ==
  /\ read.open
  /\ \/ /\ read.wire = <<>> /\ read.status # "none"
        /\ read' = [read EXCEPT !.open = FALSE, !.next = None, !.status = "none",
                     !.outcome = CASE read.status = "NotFound" -> "unrecognized stream"
                                   [] read.status = "OutOfRange" -> "out of range"
                                   [] OTHER -> "done"]
        /\ UNCHANGED faults
     \/ /\ Fault
        /\ read' = [NoRead EXCEPT !.outcome = "failed"]
  /\ UNCHANGED <<end, watch, changed, lying>>

-------------------------------------------------------------------------------

Init ==
  /\ end = Nowhere
  /\ watch = NoWatch
  /\ read = NoRead
  /\ changed = TRUE
  /\ lying = FALSE
  /\ faults = 0

WatchStep == BeginWatch \/ ServerLoads \/ ServerSends \/ ServerLies \/ WatchReceives \/ WatchReturns
ReadStep == ReadServerLoads \/ ReadServerSends \/ ReadServerLies \/ ReadReceives \/ ReadReturns

Next ==
  \/ \E s \in Stream : \E e \in 0 .. MaxLength : MemoryAppend(s, e)
  \/ WatchStep
  \/ ServerEnds
  \/ \E s \in Stream : \E b \in 0 .. MaxLength : BeginRead(s, b)
  \/ ReadStep

Spec == Init /\ [][Next]_vars

-------------------------------------------------------------------------------

(***************************************************************************)
(* Whatever the remote engine sends, what is passed on of a stream is well *)
(* formed: its events are of that stream and of the types requested, lie   *)
(* within the range claimed, and are in strictly increasing order across   *)
(* all segments of a call.  The caches and consumers rely on it.           *)
(***************************************************************************)
WellFormed(s, from, upTo, got) ==
  \A i \in DOMAIN got :
    /\ got[i].stream = s /\ Matches(got[i].type)
    /\ from <= got[i].offset /\ got[i].offset < upTo
    /\ i > 1 => got[i - 1].offset < got[i].offset

AcceptedWellFormed ==
  /\ \A s \in Stream : WellFormed(s, watch.from[s], watch.upTo[s], watch.got[s])
  /\ WellFormed(read.stream, read.from, read.upTo, read.got)

(***************************************************************************)
(* A remote engine that keeps to the protocol is never taken to break it,  *)
(* and what is passed on is exactly what its source holds: every requested *)
(* event of the range, though segments are filtered, cut short by the      *)
(* source and split for their size on the way.  A read ends as one of the  *)
(* source itself would have: it is done only at or beyond the end that the *)
(* stream had when it began, and reports a stream unrecognized or an       *)
(* offset out of range only when it was.                                   *)
(***************************************************************************)
HonestDelivery ==
  ~lying =>
    /\ "invalid segment" \notin {watch.outcome, read.outcome}
    /\ \A s \in Stream : watch.from[s] # None =>
         watch.got[s] = MemorySegment(s, watch.from[s], watch.upTo[s]).envelopes
    /\ read.from # None =>
         read.got = MemorySegment(read.stream, read.from, read.upTo).envelopes
    /\ (read.outcome = "done" /\ read.target # None) => read.upTo >= read.target
    /\ read.outcome = "unrecognized stream" => read.target = None
    /\ read.outcome = "out of range" => (read.target = None \/ read.from > read.target)

(***************************************************************************)
(* A part that the server sends is no larger than MaxSegmentBytes, with    *)
(* its headers, unless it is a single event (the comment on                *)
(* MaxSegmentBytes).                                                       *)
(***************************************************************************)
Bounded(envelopes) ==
  Len(envelopes) <= 1 \/ PartSize(envelopes)[Len(envelopes)] <= MaxSegmentBytes

PartsBounded ==
  ~lying => \A call \in {watch, read} : \A i \in DOMAIN call.wire :
             Bounded(call.wire[i].envelopes)

(***************************************************************************)
(* A watch goes quiet only once it has caught up: when the server waits    *)
(* for the source to change and nothing is in flight, every stream, also   *)
(* one that appeared during the watch, has been passed on up to its end.   *)
(***************************************************************************)
QuietMeansCaughtUp ==
  (/\ watch.open /\ watch.status = "none"
   /\ ~changed
   /\ Passed(watch) = {} /\ watch.wire = <<>>
   /\ ~lying)
    => \A s \in Stream : watch.upTo[s] = end[s]

==============================================================================
