---------------------------- MODULE EventFeedProofs ---------------------------
(***************************************************************************)
(* The safety properties of the delivery of events, for any number of      *)
(* sources, any length of the stream, any types and any sizes of segments, *)
(* channels and caches.                                                    *)
(***************************************************************************)
EXTENDS EventFeed, FiniteSetTheorems, SequenceTheorems, WellFoundedInduction, TLAPS

SegmentType == [begin : Nat, end : Nat, events : SUBSET AllTypes]

FollowerType == [pc : {"down", "opening", "loading", "delivering", "waiting"},
                 next : Nat, seg : SegmentType, more : BOOLEAN]

WatcherType == [state : {"off", "registered", "removed"},
                openings : Seq(SegmentType), segments : Seq(SegmentType)]

ConsumerType == [pc : {"down", "consume", "read", "handle"}, feed : Node \union {NoFeed},
                 cp : Nat, confirmed : BOOLEAN, from : Nat, behind : BOOLEAN, scp : Nat,
                 todo : SUBSET Wanted, end : Nat, reading : BOOLEAN, exhausted : BOOLEAN]

TypeOK ==
  /\ length \in Nat
  /\ follower \in [Node -> FollowerType]
  /\ offsets \in [Node -> Nat \union {NoOffset}]
  /\ watcher \in [Node -> WatcherType]
  /\ feed \in [Node -> {"none", "open", "closed"}]
  /\ cache \in [Node -> SegmentType]
  /\ current \in Node \union {NoFeed}
  /\ con \in ConsumerType
  /\ stored \in Nat
  /\ handled \in Seq(Nat)

(***************************************************************************)
(* A segment that has exactly the events of its range, within the stream.  *)
(***************************************************************************)
Exact(seg, types) ==
  /\ seg.begin <= seg.end
  /\ seg.end <= length
  /\ seg.events = {o \in types : seg.begin <= o /\ o < seg.end}

(***************************************************************************)
(* What a follower is about to load or deliver begins where the last       *)
(* segment it delivered ended.                                             *)
(***************************************************************************)
FollowerOK(n) ==
  /\ follower[n].next <= length
  /\ follower[n].pc \in {"down", "opening"} => ~Opened(n)
  /\ follower[n].pc = "loading" => Opened(n)
  /\ Opened(n) => offsets[n] = follower[n].next
  /\ follower[n].pc = "delivering" => /\ Exact(follower[n].seg, AllTypes)
                                      /\ follower[n].seg.begin = follower[n].next

\* Each segment begins where the one before it ends.
Contiguous(u) == \A i \in 1 .. Len(u) - 1 : u[i].end = u[i + 1].begin

\* What is yet to be passed on is exact and contiguous, and leads up to what
\* will be delivered next.
WatcherOK(n) ==
  /\ \A i \in 1 .. Len(Undelivered(n)) : Exact(Undelivered(n)[i], AllTypes)
  /\ Contiguous(Undelivered(n))
  /\ Undelivered(n) # <<>> /\ watcher[n].state = "registered" =>
       Undelivered(n)[Len(Undelivered(n))].end = offsets[n]

\* A cache is exact, for the types the catalog watches, and within its capacity.
CacheOK(n) == Exact(cache[n], Watched) /\ Cardinality(cache[n].events) <= Capacity

(***************************************************************************)
(* Between segments no wanted event is before the consumer's checkpoint    *)
(* and after the one it last gave to the handler; while it handles a       *)
(* segment, it is yet to handle all of them up to the segment's end.       *)
(***************************************************************************)
ConsumerFits(c) ==
  /\ c.cp <= length
  /\ c.behind => c.from < length
  /\ c.pc # "down" => c.feed \in Node
  /\ c.pc \in {"consume", "read"} =>
       c.scp <= c.cp /\ \A o \in Wanted : c.scp <= o => c.cp <= o
  /\ c.pc = "handle" =>
       /\ c.scp <= c.end /\ c.end <= length
       /\ c.todo = {o \in Wanted : c.scp <= o /\ o < c.end}

ConsumerOK == ConsumerFits(con)

IInv ==
  /\ TypeOK
  /\ \A n \in Node : FollowerOK(n) /\ WatcherOK(n) /\ CacheOK(n)
  /\ ConsumerOK
  /\ stored <= length
  /\ HandledOnceInOrder

-------------------------------------------------------------------------------
(***************************************************************************)
(* Offsets: least and greatest elements, and finite sets.                  *)
(***************************************************************************)
\* A set of offsets that is not empty has a least element.
LEMMA MinFacts ==
  ASSUME NEW S, S \subseteq Nat, S # {}
  PROVE  Min(S) \in S /\ \A y \in S : Min(S) <= y
<1> DEFINE R == OpToRel(<, Nat)
<1>1. IsWellFoundedOn(R, Nat)
  BY NatLessThanWellFounded, Zenon
<1>2. \A x, y \in Nat : x < y => <<x, y>> \in R
  BY DEF OpToRel
<1> HIDE DEF R
<1>3. PICK x \in S : \A y \in S : ~(<<y, x>> \in R)
  BY <1>1, WFMin, Zenon
<1>4. \A y \in S : y \in Nat /\ x \in Nat
  OBVIOUS
<1>5. \A y \in S : ~(y < x)
  BY <1>2, <1>3, <1>4, Zenon
<1>6. \A y \in S : x <= y
  BY <1>4, <1>5
<1>. QED
  BY <1>6, Zenon DEF Min

\* If it has an upper bound, it has a greatest element.
LEMMA MaxFacts ==
  ASSUME NEW S, S \subseteq Nat, S # {}, NEW b \in Nat, \A y \in S : y <= b
  PROVE  Max(S) \in S /\ \A y \in S : y <= Max(S)
<1> DEFINE T == {b - y : y \in S}
<1>a. \A y \in S : b - y \in Nat
  OBVIOUS
<1>1. T \subseteq Nat /\ T # {}
  BY <1>a, Zenon
<1>2. Min(T) \in T /\ \A z \in T : Min(T) <= z
  BY <1>1, MinFacts, Zenon
<1>3. PICK x \in S : Min(T) = b - x
  BY <1>2, Zenon
<1>4. \A y \in S : b - x <= b - y
  BY <1>2, <1>3
<1>5. \A y \in S : x >= y
  BY <1>4
<1>6. Max(S) \in S /\ \A y \in S : Max(S) >= y
  BY <1>5, Zenon DEF Max
<1>. QED
  BY <1>6

\* Sets of events are finite.
LEMMA OffsetsFinite ==
  ASSUME NEW S, S \subseteq AllTypes
  PROVE  /\ S \subseteq Nat
         /\ IsFiniteSet(S) /\ Cardinality(S) \in Nat
         /\ \A T : T \subseteq S => IsFiniteSet(T) /\ Cardinality(T) \in Nat /\ Cardinality(T) <= Cardinality(S)
<1>1. MaxLength \in Nat /\ MaxLength - 1 \in Int /\ 0 \in Int
  BY SourceAssumption
<1>2. IsFiniteSet(AllTypes)
  BY <1>1, FS_Interval DEF AllTypes
<1>3. IsFiniteSet(S)
  BY <1>2, FS_Subset
<1>4. \A T : T \subseteq S => IsFiniteSet(T) /\ Cardinality(T) <= Cardinality(S)
  BY <1>3, FS_Subset
<1>5. S \subseteq Nat
  BY <1>1 DEF AllTypes
<1>. QED
  BY <1>3, <1>4, <1>5, FS_CardinalityType, Zenon

-------------------------------------------------------------------------------
(***************************************************************************)
(* loadSegment returns exactly the events of the range it claims, although *)
(* it reads only the first SegmentSize of them, and makes progress unless  *)
(* it begins at the end of the stream.                                     *)
(***************************************************************************)
LEMMA LoadSegmentExact ==
  ASSUME length \in Nat, NEW types, types \subseteq AllTypes, NEW b \in Nat, b <= length
  PROVE  /\ LoadSegment(types, b).seg \in SegmentType
         /\ LoadSegment(types, b).exhausted \in BOOLEAN
         /\ LoadSegment(types, b).seg.begin = b
         /\ Exact(LoadSegment(types, b).seg, types)
         /\ b < length => b < LoadSegment(types, b).seg.end
<1> DEFINE found == {o \in types : b <= o /\ o < length}
           Before_(o) == {p \in found : p < o}
           first == {o \in found : Cardinality(Before_(o)) < SegmentSize}
           over == Cardinality(first) < SegmentSize
           upto == IF over THEN length ELSE Max(first) + 1
<1>1. LoadSegment(types, b) = [seg |-> Segment(b, upto, first), exhausted |-> over]
  BY Zenon DEF LoadSegment
<1>2. /\ types \subseteq Nat /\ found \subseteq AllTypes /\ found \subseteq Nat
      /\ first \subseteq AllTypes /\ first \subseteq Nat
      /\ first \subseteq found
  BY OffsetsFinite, Zenon
<1>3. /\ Cardinality(first) \in Nat /\ SegmentSize \in Nat \ {0}
      /\ \A o : Cardinality(Before_(o)) \in Nat
      /\ \A o, q : Before_(o) \subseteq Before_(q) => Cardinality(Before_(o)) <= Cardinality(Before_(q))
      /\ \A o : Before_(o) \subseteq first => Cardinality(Before_(o)) <= Cardinality(first)
  <2>1. \A o : Before_(o) \subseteq AllTypes
    BY <1>2, Zenon
  <2>2. \A S : S \subseteq AllTypes =>
          /\ Cardinality(S) \in Nat
          /\ \A T : T \subseteq S => Cardinality(T) <= Cardinality(S)
    BY OffsetsFinite, Zenon
  <2> HIDE DEF Before_, first, found
  <2>. QED
    BY <1>2, <2>1, <2>2, SourceAssumption, Zenon
<1>4. CASE over
  <2>1. ASSUME found \ first # {} PROVE FALSE
    <3> DEFINE o == Min(found \ first)
    <3>1. o \in found /\ o \notin first /\ \A y \in found \ first : o <= y
      BY <1>2, <2>1, MinFacts, Zenon
    <3>2. \A y \in Before_(o) : y \in found /\ y < o /\ y \in Nat /\ o \in Nat
      BY <1>2, <3>1, Zenon
    <3> HIDE DEF o
    <3>3. Before_(o) \subseteq first
      BY <3>1, <3>2
    <3>4. ~(Cardinality(Before_(o)) < SegmentSize)
      BY <3>1, Zenon
    <3> HIDE DEF Before_, first, found
    <3>. QED
      BY <1>3, <1>4, <3>3, <3>4
  <2>2. first = found
    BY <1>2, <2>1, Zenon
  <2>3. upto = length
    BY <1>4
  <2>4. first = {o \in types : b <= o /\ o < length}
    BY <2>2
  <2> HIDE DEF first, found, upto, over
  <2>. QED
    BY <1>1, <1>2, <1>4, <2>3, <2>4 DEF Segment, SegmentType, Exact
<1>5. CASE ~over
  <2> DEFINE m == Max(first)
  <2>1. first # {}
    <3>1. Cardinality({}) = 0
      BY FS_EmptySet
    <3> HIDE DEF Before_, first, found
    <3>. QED
      BY <1>3, <1>5, <3>1
  <2>2. \A y \in first : y <= length
    BY <1>2
  <2>3. m \in first /\ \A y \in first : y <= m
    BY <1>2, <2>1, <2>2, MaxFacts, Zenon
  <2>4. m \in found /\ m \in Nat /\ b <= m /\ m < length
    BY <1>2, <2>3, Zenon
  <2> HIDE DEF m
  <2>5. ASSUME NEW p \in found, p <= m PROVE p \in first
    <3>1. p \in Nat /\ \A q \in found : q \in Nat
      BY <1>2
    <3>2. \A q \in found : q < p => q < m
      BY <2>4, <2>5, <3>1
    <3>3. Before_(p) \subseteq Before_(m)
      BY <3>2, Zenon
    <3>4. Cardinality(Before_(m)) < SegmentSize
      BY <2>3, Zenon
    <3>5. Cardinality(Before_(p)) < SegmentSize
      <4> HIDE DEF Before_, first, found
      <4>. QED
        BY <1>3, <3>3, <3>4
    <3>. QED
      BY <3>5, Zenon
  <2>6. first = {o \in found : o <= m}
    BY <1>2, <2>3, <2>5, Zenon
  <2>7. first = {o \in types : b <= o /\ o < m + 1}
    <3>1. \A o \in types : (b <= o /\ o < length) /\ o <= m <=> b <= o /\ o < m + 1
      BY <1>2, <2>4
    <3>. QED
      BY <2>6, <3>1, Zenon
  <2>8. upto = m + 1
    BY <1>5 DEF m
  <2> HIDE DEF first, found, upto, over
  <2>9. m + 1 \in Nat /\ b <= m + 1 /\ b < m + 1 /\ m + 1 <= length
    BY <2>4
  <2>10. LoadSegment(types, b) = [seg |-> [begin |-> b, end |-> m + 1, events |-> first], exhausted |-> over]
    BY <1>1, <2>8, Zenon DEF Segment
  <2>11. /\ LoadSegment(types, b).seg = [begin |-> b, end |-> m + 1, events |-> first]
         /\ LoadSegment(types, b).exhausted = over
    BY <2>10
  <2>12. over \in BOOLEAN
    BY <1>5 DEF over
  <2>. QED
    BY <1>2, <2>7, <2>9, <2>11, <2>12 DEF SegmentType, Exact
<1>. QED
  BY <1>4, <1>5

(***************************************************************************)
(* Cache.Append keeps a cache exact when the segment begins where the      *)
(* cache ends: what is left after the eviction of the oldest events fits,  *)
(* and is all there is after the last of them.                             *)
(***************************************************************************)
LEMMA CacheAppendExact ==
  ASSUME length \in Nat, NEW c \in SegmentType, NEW seg \in SegmentType, c.end = seg.begin,
         Exact(c, Watched), Exact(seg, Watched)
  PROVE  /\ CacheAppend(c, seg) \in SegmentType
         /\ Exact(CacheAppend(c, seg), Watched)
         /\ Cardinality(CacheAppend(c, seg).events) <= Capacity
<1> DEFINE all == c.events \union seg.events
           After(o) == {p \in all : p > o}
           evicted == {o \in all : Cardinality(After(o)) >= Capacity}
           kept == all \ evicted
           from == IF evicted = {} THEN c.begin ELSE Max(evicted) + 1
<1>1. CacheAppend(c, seg) = [begin |-> from, end |-> seg.end, events |-> kept]
  BY Zenon DEF CacheAppend, Segment
<1>2. /\ c.begin \in Nat /\ c.end \in Nat /\ seg.end \in Nat /\ Capacity \in Nat \ {0}
      /\ c.begin <= seg.end /\ seg.end <= length
      /\ c.begin <= c.end /\ seg.begin <= seg.end
  BY FeedAssumption DEF SegmentType, Exact
<1>3. Watched \subseteq AllTypes /\ Watched \subseteq Nat
  BY FeedAssumption, OffsetsFinite
<1>4. all = {o \in Watched : c.begin <= o /\ o < seg.end}
  <2>1. /\ c.events = {o \in Watched : c.begin <= o /\ o < c.end}
        /\ seg.events = {o \in Watched : c.end <= o /\ o < seg.end}
    BY Zenon DEF Exact
  <2>2. \A o \in Watched : (c.begin <= o /\ o < c.end) \/ (c.end <= o /\ o < seg.end)
                             <=> c.begin <= o /\ o < seg.end
    BY <1>2, <1>3
  <2>. QED
    BY <2>1, <2>2, Zenon
<1>5. /\ all \subseteq AllTypes /\ all \subseteq Nat /\ evicted \subseteq all /\ kept \subseteq all
      /\ \A y \in all : y <= seg.end
  <2>1. \A y \in Watched : y < seg.end => y <= seg.end
    BY <1>2, <1>3
  <2>. QED
    BY <1>3, <1>4, <2>1, Zenon
<1> HIDE DEF all
<1>6. /\ \A o : IsFiniteSet(After(o)) /\ Cardinality(After(o)) \in Nat
      /\ \A o, q : After(o) \subseteq After(q) => Cardinality(After(o)) <= Cardinality(After(q))
  <2>1. \A o : After(o) \subseteq AllTypes
    BY <1>5, Zenon
  <2>2. \A S : S \subseteq AllTypes =>
          /\ IsFiniteSet(S) /\ Cardinality(S) \in Nat
          /\ \A T : T \subseteq S => Cardinality(T) <= Cardinality(S)
    BY OffsetsFinite, Zenon
  <2> HIDE DEF After
  <2>. QED
    BY <2>1, <2>2, Zenon
<1>7. kept \subseteq AllTypes /\ Cardinality(kept) <= Capacity
  <2>1. CASE kept = {}
    <3>1. Cardinality(kept) = 0
      BY <2>1, FS_EmptySet, Zenon
    <3> HIDE DEF kept
    <3>. QED
      BY <1>2, <2>1, <3>1
  <2>2. CASE kept # {}
    <3> DEFINE q == Min(kept)
    <3>1. q \in kept /\ \A y \in kept : q <= y
      BY <1>5, <2>2, MinFacts, Zenon
    <3> HIDE DEF q
    <3>2. q \in all /\ ~(Cardinality(After(q)) >= Capacity)
      BY <3>1, Zenon
    <3>3. \A y \in kept : y = q \/ y > q
      BY <1>5, <3>1
    <3>4. kept \subseteq After(q) \union {q}
      BY <1>5, <3>3, Zenon
    <3>5. /\ IsFiniteSet(After(q) \union {q})
          /\ Cardinality(After(q) \union {q}) <= Cardinality(After(q)) + 1
      <4> HIDE DEF After
      <4>. QED
        BY <1>6, FS_AddElement, SMTT(30)
    <3>6. Cardinality(kept) <= Cardinality(After(q) \union {q})
      BY <3>4, <3>5, FS_Subset, Zenon
    <3>7. Cardinality(kept) \in Nat /\ Cardinality(After(q) \union {q}) \in Nat
      BY <1>5, <3>5, OffsetsFinite, FS_CardinalityType, Zenon
    <3> HIDE DEF kept, After
    <3>. QED
      BY <1>2, <1>5, <1>6, <3>2, <3>5, <3>6, <3>7
  <2>. QED
    BY <2>1, <2>2
<1>8. CASE evicted = {}
  <2>1. from = c.begin /\ kept = all
    BY <1>8, Zenon
  <2> HIDE DEF from, kept, evicted
  <2>. QED
    BY <1>1, <1>2, <1>4, <1>7, <2>1 DEF SegmentType, Exact
<1>9. CASE evicted # {}
  <2> DEFINE m == Max(evicted)
  <2>1. m \in evicted /\ \A y \in evicted : y <= m
    BY <1>2, <1>5, <1>9, MaxFacts, Zenon
  <2>2. from = m + 1
    BY <1>9, Zenon
  <2> HIDE DEF m
  <2>3. m \in all /\ m \in Nat /\ Cardinality(After(m)) >= Capacity
    BY <1>5, <2>1, Zenon
  <2>4. ASSUME NEW p \in all, p <= m PROVE p \in evicted
    <3>1. \A q \in all : q > m => q > p
      BY <1>5, <2>3, <2>4
    <3>2. After(m) \subseteq After(p)
      BY <3>1, Zenon
    <3>3. Cardinality(After(p)) >= Capacity
      <4> HIDE DEF After
      <4>. QED
        BY <1>2, <1>6, <2>3, <3>2
    <3>. QED
      BY <3>3, Zenon
  <2>5. kept = {o \in all : ~(o <= m)}
    BY <2>1, <2>4, Zenon
  <2>6. c.begin <= m /\ m < seg.end
    BY <1>4, <2>3, Zenon
  <2>7. \A o \in Watched : (c.begin <= o /\ o < seg.end) /\ ~(o <= m) <=> m + 1 <= o /\ o < seg.end
    BY <1>2, <1>3, <2>3, <2>6
  <2>8. kept = {o \in Watched : m + 1 <= o /\ o < seg.end}
    BY <1>4, <2>5, <2>7, Zenon
  <2>9. m + 1 \in Nat /\ m + 1 <= seg.end
    BY <1>2, <2>3, <2>6
  <2> HIDE DEF from, kept, evicted
  <2>. QED
    BY <1>1, <1>2, <1>7, <2>2, <2>8, <2>9 DEF SegmentType, Exact
<1>. QED
  BY <1>8, <1>9, Zenon

\* feed.Append keeps a cache exact, whatever the segment begins at.
LEMMA FeedAppendExact ==
  ASSUME length \in Nat, NEW c \in SegmentType, NEW seg \in SegmentType,
         Exact(c, Watched), Exact(seg, Watched)
  PROVE  /\ FeedAppend(c, seg) \in SegmentType
         /\ Exact(FeedAppend(c, seg), Watched)
         /\ Cardinality(FeedAppend(c, seg).events) <= Capacity
<1> DEFINE d == IF seg.begin # c.end THEN Reset(seg.begin) ELSE c
<1>1. d \in SegmentType /\ d.end = seg.begin /\ Exact(d, Watched)
  <2>1. CASE seg.begin = c.end
    BY <2>1
  <2>2. CASE seg.begin # c.end
    <3>1. d = [begin |-> seg.begin, end |-> seg.begin, events |-> {}]
      BY <2>2, Zenon DEF Reset, Segment
    <3>2. seg.begin \in Nat /\ seg.begin <= length /\ seg.begin <= seg.begin
      BY DEF SegmentType, Exact
    <3>3. \A o \in Watched : ~(seg.begin <= o /\ o < seg.begin)
      BY <3>2, FeedAssumption, OffsetsFinite
    <3>4. {o \in Watched : seg.begin <= o /\ o < seg.begin} = {}
      BY <3>3, Zenon
    <3> HIDE DEF d
    <3>. QED
      BY <3>1, <3>2, <3>4 DEF SegmentType, Exact
  <2>. QED
    BY <2>1, <2>2
<1>2. FeedAppend(c, seg) = CacheAppend(d, seg)
  BY Zenon DEF FeedAppend
<1> HIDE DEF d
<1>. QED
  BY <1>1, <1>2, CacheAppendExact, Zenon

-------------------------------------------------------------------------------
(***************************************************************************)
(* Sequences of segments: adding one at the end and taking the first.      *)
(***************************************************************************)
LEMMA ConcatAppend ==
  ASSUME NEW S, NEW a \in Seq(S), NEW b \in Seq(S), NEW x \in S
  PROVE  a \o Append(b, x) = Append(a \o b, x)
<1>1. /\ Append(b, x) \in Seq(S) /\ Len(Append(b, x)) = Len(b) + 1
      /\ \A i \in 1 .. Len(b) + 1 : Append(b, x)[i] = IF i <= Len(b) THEN b[i] ELSE x
  OBVIOUS
<1>2. /\ a \o b \in Seq(S) /\ Len(a \o b) = Len(a) + Len(b)
      /\ \A i \in 1 .. Len(a) + Len(b) : (a \o b)[i] = IF i <= Len(a) THEN a[i] ELSE b[i - Len(a)]
  BY ConcatProperties
<1>3. /\ a \o Append(b, x) \in Seq(S) /\ Len(a \o Append(b, x)) = Len(a) + Len(b) + 1
      /\ \A i \in 1 .. Len(a) + Len(b) + 1 :
           (a \o Append(b, x))[i] = IF i <= Len(a) THEN a[i] ELSE Append(b, x)[i - Len(a)]
  BY <1>1, ConcatProperties
<1>4. /\ Append(a \o b, x) \in Seq(S) /\ Len(Append(a \o b, x)) = Len(a) + Len(b) + 1
      /\ \A i \in 1 .. Len(a) + Len(b) + 1 :
           Append(a \o b, x)[i] = IF i <= Len(a) + Len(b) THEN (a \o b)[i] ELSE x
  BY <1>2
<1>5. ASSUME NEW i \in 1 .. Len(a) + Len(b) + 1
      PROVE  (a \o Append(b, x))[i] = Append(a \o b, x)[i]
  <2>1. Len(a) \in Nat /\ Len(b) \in Nat
    OBVIOUS
  <2>. QED
    BY <1>1, <1>2, <1>3, <1>4, <2>1
<1>. QED
  BY <1>3, <1>4, <1>5, SeqEqual

LEMMA ConcatTail ==
  ASSUME NEW S, NEW a \in Seq(S), NEW b \in Seq(S), a # <<>>
  PROVE  Tail(a) \o b = Tail(a \o b)
<1>1. /\ Tail(a) \in Seq(S) /\ Len(Tail(a)) = Len(a) - 1
      /\ \A i \in 1 .. Len(a) - 1 : Tail(a)[i] = a[i + 1]
      /\ Len(a) \in Nat /\ Len(b) \in Nat /\ Len(a) > 0
  BY HeadTailProperties
<1>2. /\ a \o b \in Seq(S) /\ Len(a \o b) = Len(a) + Len(b)
      /\ \A i \in 1 .. Len(a) + Len(b) : (a \o b)[i] = IF i <= Len(a) THEN a[i] ELSE b[i - Len(a)]
  BY ConcatProperties
<1>3. /\ Tail(a) \o b \in Seq(S) /\ Len(Tail(a) \o b) = Len(a) + Len(b) - 1
      /\ \A i \in 1 .. Len(a) + Len(b) - 1 :
           (Tail(a) \o b)[i] = IF i <= Len(a) - 1 THEN Tail(a)[i] ELSE b[i - (Len(a) - 1)]
  BY <1>1, ConcatProperties
<1>4. a \o b # <<>>
  BY <1>1, <1>2
<1>5. /\ Tail(a \o b) \in Seq(S) /\ Len(Tail(a \o b)) = Len(a) + Len(b) - 1
      /\ \A i \in 1 .. Len(a) + Len(b) - 1 : Tail(a \o b)[i] = (a \o b)[i + 1]
  BY <1>1, <1>2, <1>4, HeadTailProperties
<1>6. ASSUME NEW i \in 1 .. Len(a) + Len(b) - 1
      PROVE  (Tail(a) \o b)[i] = Tail(a \o b)[i]
  BY <1>1, <1>2, <1>3, <1>5
<1>. QED
  BY <1>3, <1>5, <1>6, SeqEqual

\* A sequence stays contiguous when a segment is added that begins at its end.
LEMMA AppendContiguous ==
  ASSUME NEW u \in Seq(SegmentType), NEW x \in SegmentType, Contiguous(u),
         u # <<>> => u[Len(u)].end = x.begin
  PROVE  /\ Append(u, x) \in Seq(SegmentType) /\ Append(u, x) # <<>>
         /\ Contiguous(Append(u, x))
         /\ Append(u, x)[Len(Append(u, x))] = x
         /\ \A i \in 1 .. Len(Append(u, x)) : Append(u, x)[i] = x \/ \E j \in 1 .. Len(u) : Append(u, x)[i] = u[j]
<1>1. /\ Append(u, x) \in Seq(SegmentType) /\ Len(Append(u, x)) = Len(u) + 1 /\ Len(u) \in Nat
      /\ \A i \in 1 .. Len(u) + 1 : Append(u, x)[i] = IF i <= Len(u) THEN u[i] ELSE x
  OBVIOUS
<1>2. ASSUME NEW i \in 1 .. Len(u) PROVE Append(u, x)[i].end = Append(u, x)[i + 1].begin
  <2>1. CASE i = Len(u)
    <3>1. Append(u, x)[i] = u[Len(u)] /\ Append(u, x)[i + 1] = x /\ u # <<>>
      BY <1>1, <2>1
    <3>. QED
      BY <3>1, Zenon
  <2>2. CASE i # Len(u)
    <3>1. Append(u, x)[i] = u[i] /\ Append(u, x)[i + 1] = u[i + 1] /\ i \in 1 .. Len(u) - 1
      BY <1>1, <2>2
    <3>. QED
      BY <3>1, Zenon DEF Contiguous
  <2>. QED
    BY <2>1, <2>2, Zenon
<1>3. 1 .. Len(Append(u, x)) - 1 = 1 .. Len(u)
  BY <1>1
<1>4. Contiguous(Append(u, x))
  BY <1>2, <1>3, Zenon DEF Contiguous
<1>5. Append(u, x) # <<>> /\ Append(u, x)[Len(Append(u, x))] = x
  BY <1>1
<1>6. \A i \in 1 .. Len(Append(u, x)) : Append(u, x)[i] = x \/ (i \in 1 .. Len(u) /\ Append(u, x)[i] = u[i])
  BY <1>1
<1>. QED
  BY <1>1, <1>4, <1>5, <1>6, Zenon

\* It stays contiguous without its first segment, and has the same end.
LEMMA TailContiguous ==
  ASSUME NEW u \in Seq(SegmentType), Contiguous(u), u # <<>>
  PROVE  /\ Tail(u) \in Seq(SegmentType)
         /\ Contiguous(Tail(u))
         /\ Tail(u) # <<>> => Tail(u)[Len(Tail(u))] = u[Len(u)]
         /\ \A i \in 1 .. Len(Tail(u)) : \E j \in 1 .. Len(u) : Tail(u)[i] = u[j]
         /\ Head(u) \in SegmentType /\ Head(u) = u[1] /\ 1 \in 1 .. Len(u)
<1>1. /\ Tail(u) \in Seq(SegmentType) /\ Len(Tail(u)) = Len(u) - 1
      /\ \A i \in 1 .. Len(u) - 1 : Tail(u)[i] = u[i + 1]
      /\ Len(u) \in Nat /\ Len(u) > 0
      /\ Head(u) \in SegmentType /\ Head(u) = u[1]
  BY HeadTailProperties
<1>2. Contiguous(Tail(u))
  BY <1>1 DEF Contiguous
<1>3. Tail(u) # <<>> => Tail(u)[Len(Tail(u))] = u[Len(u)]
  BY <1>1
<1>4. \A i \in 1 .. Len(Tail(u)) : \E j \in 1 .. Len(u) : Tail(u)[i] = u[j]
  BY <1>1
<1>. QED
  BY <1>1, <1>2, <1>3, <1>4

-------------------------------------------------------------------------------
(***************************************************************************)
(* What a step leaves alone stays as the invariant says.                   *)
(***************************************************************************)
LEMMA FollowerKept ==
  ASSUME NEW n \in Node, FollowerOK(n), length' = length,
         follower'[n] = follower[n], offsets'[n] = offsets[n]
  PROVE  FollowerOK(n)'
  BY Zenon DEF FollowerOK, Opened, Exact, AllTypes

LEMMA WatcherKept ==
  ASSUME NEW n \in Node, WatcherOK(n), length' = length,
         watcher'[n] = watcher[n], offsets'[n] = offsets[n]
  PROVE  WatcherOK(n)'
<1>1. Undelivered(n)' = Undelivered(n)
  BY Zenon DEF Undelivered
<1>. QED
  BY <1>1, Zenon DEF WatcherOK, Contiguous, Exact, AllTypes

LEMMA CacheKept ==
  ASSUME NEW n \in Node, CacheOK(n), length' = length, cache'[n] = cache[n]
  PROVE  CacheOK(n)'
  BY Zenon DEF CacheOK, Exact

LEMMA ConsumerKept ==
  ASSUME ConsumerOK, stored <= length, HandledOnceInOrder,
         length' = length, con' = con, stored' = stored, handled' = handled
  PROVE  ConsumerOK' /\ (stored <= length)' /\ HandledOnceInOrder'
  BY Zenon DEF ConsumerOK, ConsumerFits, HandledOnceInOrder

\* A step of one node keeps the invariant if it does so for that node.
LEMMA NodeMoves ==
  ASSUME IInv, NEW n \in Node, TypeOK', UNCHANGED <<length, con, sinkVars>>,
         \A m \in Node \ {n} : /\ follower'[m] = follower[m] /\ offsets'[m] = offsets[m]
                               /\ watcher'[m] = watcher[m] /\ cache'[m] = cache[m],
         FollowerOK(n)', WatcherOK(n)', CacheOK(n)'
  PROVE  IInv'
<1>1. ASSUME NEW m \in Node PROVE FollowerOK(m)' /\ WatcherOK(m)' /\ CacheOK(m)'
  <2>1. CASE m = n
    BY <2>1, Zenon
  <2>2. CASE m # n
    BY <2>2, FollowerKept, WatcherKept, CacheKept, Zenon DEF IInv
  <2>. QED
    BY <2>1, <2>2, Zenon
<1>2. ConsumerOK' /\ (stored <= length)' /\ HandledOnceInOrder'
  BY ConsumerKept, Zenon DEF IInv, sinkVars
<1>. QED
  BY <1>1, <1>2, Zenon DEF IInv

\* A step of the consumer keeps the invariant if it does so for the consumer.
LEMMA ConsumerMoves ==
  ASSUME IInv, UNCHANGED <<sourceVars, catalogVars>>, con' \in ConsumerType,
         stored' \in Nat, handled' \in Seq(Nat), ConsumerOK', (stored <= length)', HandledOnceInOrder'
  PROVE  IInv'
<1>1. ASSUME NEW m \in Node PROVE FollowerOK(m)' /\ WatcherOK(m)' /\ CacheOK(m)'
  BY FollowerKept, WatcherKept, CacheKept, Zenon DEF IInv, sourceVars, catalogVars
<1>2. TypeOK'
  BY Zenon DEF IInv, TypeOK, sourceVars, catalogVars
<1>. QED
  BY <1>1, <1>2, Zenon DEF IInv

\* The bus has no part in the invariant.
LEMMA UntouchedIInv ==
  ASSUME IInv, UNCHANGED <<sourceVars, catalogVars, con, sinkVars>>
  PROVE  IInv'
<1>1. ConsumerOK' /\ (stored <= length)' /\ HandledOnceInOrder'
  BY ConsumerKept, Zenon DEF IInv, sinkVars, sourceVars
<1>. QED
  BY <1>1, ConsumerMoves, Zenon DEF IInv, TypeOK, sinkVars

\* An exact segment stays exact when the stream grows.
LEMMA StreamGrowsIInv ==
  ASSUME IInv, StreamGrows
  PROVE  IInv'
<1>a. TypeOK /\ \A n \in Node : follower[n] \in FollowerType /\ follower[n].seg \in SegmentType
  BY Zenon DEF IInv, TypeOK, FollowerType
<1>1. PICK k \in 1 .. MaxLength : AppendEvents(k) /\ NotFeed
  BY Zenon DEF StreamGrows
<1>2. /\ follower' = follower /\ offsets' = offsets /\ watcher' = watcher
      /\ cache' = cache /\ feed' = feed /\ current' = current
      /\ con' = con /\ stored' = stored /\ handled' = handled /\ length' = length + k
  BY <1>1, Zenon DEF AppendEvents, NotFeed, catalogVars, sinkVars
<1>3. /\ length' \in Nat /\ length <= length'
      /\ \A x \in Nat : x <= length => x <= length'
      /\ \A x \in Nat : x < length => x < length'
  BY <1>a, <1>2, SourceAssumption DEF TypeOK
<1>4. ASSUME NEW seg \in SegmentType, NEW types, Exact(seg, types)
      PROVE  /\ seg.begin <= seg.end /\ seg.end <= length'
             /\ seg.events = {o \in types : seg.begin <= o /\ o < seg.end}
  BY <1>3, <1>4, Zenon DEF Exact, SegmentType
<1>5. ASSUME NEW n \in Node PROVE FollowerOK(n)' /\ WatcherOK(n)' /\ CacheOK(n)'
  <2>1. FollowerOK(n)'
    BY <1>a, <1>2, <1>3, <1>4, Zenon DEF IInv, FollowerOK, Opened, Exact, AllTypes, FollowerType
  <2>2. Undelivered(n)' = Undelivered(n) /\ Undelivered(n) \in Seq(SegmentType)
    BY <1>a, <1>2, ConcatProperties, Zenon DEF Undelivered, TypeOK, WatcherType
  <2>3. \A i \in 1 .. Len(Undelivered(n)) : Undelivered(n)[i] \in SegmentType
    BY <2>2, ElementOfSeq, Zenon
  <2>4. WatcherOK(n)'
    <3>1. WatcherOK(n)
      BY Zenon DEF IInv
    <3>2. \A i \in 1 .. Len(Undelivered(n)) : Exact(Undelivered(n)[i], AllTypes)'
      BY <1>4, <2>2, <2>3, <3>1, Zenon DEF WatcherOK, Exact, AllTypes
    <3>. QED
      BY <1>2, <2>2, <3>1, <3>2, Zenon DEF WatcherOK, Contiguous
  <2>5. CacheOK(n)'
    BY <1>a, <1>2, <1>4, Zenon DEF IInv, TypeOK, CacheOK, Exact
  <2>. QED
    BY <2>1, <2>4, <2>5
<1>6. TypeOK'
  BY <1>a, <1>2, <1>3, Zenon DEF TypeOK
<1>7. ConsumerOK' /\ (stored <= length)' /\ HandledOnceInOrder'
  <2>1. con.cp \in Nat /\ con.from \in Nat /\ con.end \in Nat /\ stored \in Nat
    BY <1>a, Zenon DEF TypeOK, ConsumerType
  <2>. QED
    BY <1>2, <1>3, <2>1, Zenon DEF IInv, ConsumerOK, ConsumerFits, HandledOnceInOrder
<1>. QED
  BY <1>5, <1>6, <1>7, Zenon DEF IInv

-------------------------------------------------------------------------------
(***************************************************************************)
(* The follower.                                                           *)
(***************************************************************************)
\* A follower may move if what it then has continues what it has delivered.
LEMMA FollowerMoves ==
  ASSUME IInv, NEW n \in Node, NEW f \in FollowerType, follower' = [follower EXCEPT ![n] = f],
         UNCHANGED <<length, offsets, watcher>>, NotFeed,
         f.next <= length,
         f.pc \in {"down", "opening"} => ~Opened(n),
         f.pc = "loading" => Opened(n),
         Opened(n) => offsets[n] = f.next,
         f.pc = "delivering" => Exact(f.seg, AllTypes) /\ f.seg.begin = f.next
  PROVE  IInv'
<1>1. /\ length' = length /\ offsets' = offsets /\ watcher' = watcher
      /\ feed' = feed /\ cache' = cache /\ current' = current
      /\ con' = con /\ stored' = stored /\ handled' = handled
  BY Zenon DEF NotFeed, catalogVars, sinkVars
<1>2. TypeOK'
  BY <1>1, Zenon DEF IInv, TypeOK
<1>3. follower'[n] = f /\ \A m \in Node \ {n} : follower'[m] = follower[m]
  BY Zenon DEF IInv, TypeOK
<1>4. FollowerOK(n)'
  BY <1>1, <1>3, Zenon DEF FollowerOK, Opened, Exact, AllTypes
<1>5. WatcherOK(n)' /\ CacheOK(n)'
  BY <1>1, WatcherKept, CacheKept, Zenon DEF IInv
<1>. QED
  BY <1>1, <1>2, <1>3, <1>4, <1>5, NodeMoves, Zenon DEF sinkVars

\* deliverStream subscribes, and is woken by a signal.
LEMMA WaitIInv ==
  ASSUME IInv, NEW n \in Node, Follow(n) \/ AwaitSignal(n), NotFeed
  PROVE  IInv'
<1>a. follower[n] \in FollowerType /\ FollowerOK(n)
  BY Zenon DEF IInv, TypeOK
<1>1. PICK l \in {"waiting", "loading", "opening"} :
        /\ follower' = [follower EXCEPT ![n] = [@ EXCEPT !.pc = l]]
        /\ UNCHANGED <<length, offsets, watcher>>
        /\ l = "loading" => Opened(n)
        /\ l = "opening" => ~Opened(n)
  <2>1. CASE Follow(n)
    BY <2>1 DEF Follow
  <2>2. CASE AwaitSignal(n)
    BY <2>2, Zenon DEF AwaitSignal
  <2>. QED
    BY <2>1, <2>2
<1> DEFINE f == [follower[n] EXCEPT !.pc = l]
<1>2. f \in FollowerType /\ f.pc = l /\ f.next = follower[n].next
  BY <1>a DEF FollowerType
<1>3. follower' = [follower EXCEPT ![n] = f]
  BY <1>1, Zenon
<1> HIDE DEF f
<1>4. f.next <= length /\ (Opened(n) => offsets[n] = f.next) /\ f.pc \notin {"down", "delivering"}
  BY <1>a, <1>2, Zenon DEF FollowerOK
<1>. QED
  BY <1>1, <1>2, <1>3, <1>4, FollowerMoves, Zenon

\* loadWatchOffset: the stream is opened at its end.
LEMMA LoadWatchOffsetIInv ==
  ASSUME IInv, NEW n \in Node, LoadWatchOffset(n), NotFeed
  PROVE  IInv'
<1> DEFINE f == [pc |-> "delivering", next |-> length, seg |-> Segment(length, length, {}), more |-> TRUE]
<1>1. length \in Nat /\ FollowerOK(n) /\ ~Opened(n)
  BY DEF IInv, TypeOK, FollowerOK, LoadWatchOffset
<1>2. follower' = [follower EXCEPT ![n] = f] /\ UNCHANGED <<length, offsets, watcher>>
  BY Zenon DEF LoadWatchOffset
<1>3. \A o \in AllTypes : ~(length <= o /\ o < length)
  BY <1>1, SourceAssumption DEF AllTypes
<1>4. Segment(length, length, {}) \in SegmentType /\ Exact(Segment(length, length, {}), AllTypes)
  <2>1. {o \in AllTypes : length <= o /\ o < length} = {}
    BY <1>3, Zenon
  <2>. QED
    BY <1>1, <2>1 DEF Segment, SegmentType, Exact
<1>5. f \in FollowerType
  BY <1>1, <1>4, Zenon DEF FollowerType
<1>6. /\ f.pc = "delivering" /\ f.next = length /\ f.seg = Segment(length, length, {})
      /\ Segment(length, length, {}).begin = length
  BY DEF Segment
<1> HIDE DEF f
<1>7. length <= length
  BY <1>1
<1>. QED
  BY <1>1, <1>2, <1>4, <1>5, <1>6, <1>7, FollowerMoves, Zenon

\* The next segment is loaded from where the last one delivered ended.
LEMMA LoadNextIInv ==
  ASSUME IInv, NEW n \in Node, LoadNext(n), NotFeed
  PROVE  IInv'
<1> DEFINE b == follower[n].next
           r == LoadSegment(AllTypes, b)
           f == [pc |-> "delivering", next |-> b, seg |-> r.seg, more |-> ~r.exhausted]
           g == [follower[n] EXCEPT !.pc = "waiting"]
<1>a. follower[n] \in FollowerType /\ FollowerOK(n) /\ follower[n].pc = "loading" /\ length \in Nat
  BY Zenon DEF IInv, TypeOK, LoadNext
<1>b. b \in Nat /\ b <= length /\ offsets[n] = b /\ Opened(n)
  BY <1>a DEF FollowerOK, FollowerType
<1>1. /\ r.seg \in SegmentType /\ r.exhausted \in BOOLEAN
      /\ r.seg.begin = b /\ Exact(r.seg, AllTypes)
  BY <1>a, <1>b, LoadSegmentExact, Zenon
<1>2. UNCHANGED <<length, offsets, watcher>>
  BY Zenon DEF LoadNext
<1>3. \/ follower' = [follower EXCEPT ![n] = f]
      \/ follower' = [follower EXCEPT ![n] = g]
  <2>1. follower' = [follower EXCEPT ![n] = IF r.seg.end > r.seg.begin THEN f ELSE g]
    BY Zenon DEF LoadNext
  <2> HIDE DEF f, g, r
  <2>. QED
    BY <2>1, Zenon
<1> HIDE DEF r
<1>4. f \in FollowerType /\ f.pc = "delivering" /\ f.next = b /\ f.seg = r.seg
  BY <1>b, <1>1 DEF FollowerType
<1>5. g \in FollowerType /\ g.pc = "waiting" /\ g.next = b
  BY <1>a DEF FollowerType
<1> HIDE DEF f, g, b
<1>6. CASE follower' = [follower EXCEPT ![n] = f]
  BY <1>6, <1>b, <1>1, <1>2, <1>4, FollowerMoves, Zenon
<1>7. CASE follower' = [follower EXCEPT ![n] = g]
  BY <1>7, <1>b, <1>2, <1>5, FollowerMoves, Zenon
<1>. QED
  BY <1>3, <1>6, <1>7

\* What it takes for a watcher to be put in another state.
LEMMA WatcherNow ==
  ASSUME TypeOK, NEW n \in Node, NEW w \in WatcherType, NEW u,
         watcher' = [watcher EXCEPT ![n] = w], length' = length, u = w.openings \o w.segments,
         \A i \in 1 .. Len(u) : Exact(u[i], AllTypes), Contiguous(u),
         u # <<>> /\ w.state = "registered" => u[Len(u)].end = offsets'[n]
  PROVE  /\ watcher' \in [Node -> WatcherType] /\ WatcherOK(n)'
         /\ \A m \in Node \ {n} : watcher'[m] = watcher[m]
<1>1. watcher'[n] = w
  BY Zenon DEF TypeOK
<1>2. Undelivered(n)' = u
  BY <1>1, Zenon DEF Undelivered
<1>3. WatcherOK(n)'
  BY <1>1, <1>2, Zenon DEF WatcherOK, Contiguous, Exact, AllTypes
<1>. QED
  BY <1>3, Zenon DEF TypeOK

\* A watcher that is not registered, or not any more, keeps what it has.
LEMMA RemovedKeeps ==
  ASSUME NEW w \in WatcherType
  PROVE  /\ Removed(w) \in WatcherType /\ Removed(w).state # "registered"
         /\ Removed(w).openings = w.openings /\ Removed(w).segments = w.segments
<1>1. CASE w.state = "registered"
  <2>1. Removed(w) = [state |-> "removed", openings |-> w.openings, segments |-> w.segments]
    BY <1>1 DEF Removed, WatcherType
  <2>. QED
    BY <2>1 DEF WatcherType
<1>2. CASE w.state # "registered"
  BY <1>2 DEF Removed
<1>. QED
  BY <1>1, <1>2

\* A follower that has delivered all up to an offset.
IdleAt(l, x) == [Idle EXCEPT !.pc = l, !.next = x]

\* It goes on from there.
LEMMA IdleAtType ==
  ASSUME NEW l \in {"loading", "waiting"}, NEW x \in Nat
  PROVE  IdleAt(l, x) \in FollowerType /\ IdleAt(l, x).pc = l /\ IdleAt(l, x).next = x
<1>1. Segment(0, 0, {}) \in SegmentType
  BY DEF Segment, SegmentType
<1>2. Idle \in FollowerType
  BY <1>1, Zenon DEF Idle, FollowerType
<1>. QED
  BY <1>2, Zenon DEF FollowerType, IdleAt

\* A segment put into the channel is put after all that is to be passed on.
LEMMA SegmentsAppend ==
  \A a, b \in Seq(SegmentType) : \A x \in SegmentType : a \o Append(b, x) = Append(a \o b, x)
<1>. TAKE a, b \in Seq(SegmentType)
<1>. TAKE x \in SegmentType
<1>. QED
  BY ConcatAppend

\* deliver: what the watcher has is extended by the segment, or the watcher
\* is removed.
LEMMA DeliverIInv ==
  ASSUME IInv, NEW n \in Node, Deliver(n), NotFeed
  PROVE  IInv'
<1> DEFINE seg == follower[n].seg
           l == IF follower[n].more THEN "loading" ELSE "waiting"
           f == IdleAt(l, seg.end)
           w == DeliveredTo(watcher[n], seg)
           u == Undelivered(n)
<1>a. /\ TypeOK /\ follower[n] \in FollowerType /\ follower[n].pc = "delivering"
      /\ FollowerOK(n) /\ WatcherOK(n) /\ CacheOK(n) /\ watcher[n] \in WatcherType
  BY Zenon DEF IInv, TypeOK, Deliver
<1>b. /\ seg \in SegmentType /\ seg.end \in Nat /\ seg.begin \in Nat
      /\ Exact(seg, AllTypes) /\ seg.begin = follower[n].next
  BY <1>a DEF FollowerOK, FollowerType, SegmentType
<1>1. /\ offsets' = [offsets EXCEPT ![n] = seg.end]
      /\ watcher' = [watcher EXCEPT ![n] = w]
      /\ follower' = [follower EXCEPT ![n] = f]
      /\ length' = length /\ cache' = cache /\ feed' = feed /\ current' = current
      /\ con' = con /\ stored' = stored /\ handled' = handled
  BY Zenon DEF Deliver, NotFeed, catalogVars, sinkVars, IdleAt
<1>3. f \in FollowerType /\ f.next = seg.end /\ f.pc \in {"loading", "waiting"}
  <2>1. l \in {"loading", "waiting"}
    OBVIOUS
  <2> HIDE DEF l, seg
  <2>. QED
    BY <1>b, <2>1, IdleAtType, Zenon
<1>4. /\ watcher[n].openings \in Seq(SegmentType) /\ watcher[n].segments \in Seq(SegmentType)
      /\ u = watcher[n].openings \o watcher[n].segments
      /\ u \in Seq(SegmentType)
  <2>1. watcher[n].openings \in Seq(SegmentType) /\ watcher[n].segments \in Seq(SegmentType)
    BY <1>a, Zenon DEF WatcherType
  <2>2. u = watcher[n].openings \o watcher[n].segments
    BY Zenon DEF Undelivered
  <2>. QED
    BY <2>1, <2>2, ConcatProperties, Zenon
<1>5. /\ offsets'[n] = seg.end /\ follower'[n] = f
      /\ \A m \in Node \ {n} : offsets'[m] = offsets[m] /\ follower'[m] = follower[m]
      /\ offsets' \in [Node -> Nat \union {NoOffset}] /\ follower' \in [Node -> FollowerType]
  <2> HIDE DEF f
  <2>. QED
    BY <1>a, <1>b, <1>1, <1>3, Zenon DEF TypeOK
<1>6. FollowerOK(n)'
  <2>1. seg.end <= length /\ seg.end # NoOffset
    BY <1>b, SourceAssumption DEF Exact
  <2>2. f.pc # "down" /\ f.pc # "opening" /\ f.pc # "delivering"
    BY <1>3
  <2> HIDE DEF f
  <2>. QED
    BY <1>1, <1>3, <1>5, <2>1, <2>2, SMTT(30) DEF FollowerOK, Opened
<1>7. /\ watcher' \in [Node -> WatcherType] /\ WatcherOK(n)'
      /\ \A m \in Node \ {n} : watcher'[m] = watcher[m]
  <2>1. CASE watcher[n].state = "registered" /\ Len(watcher[n].segments) < BufferSize
    <3> DEFINE v == Append(u, seg)
    <3>1. w = [state |-> "registered", openings |-> watcher[n].openings,
               segments |-> Append(watcher[n].segments, seg)]
      BY <1>a, <2>1, Zenon DEF DeliveredTo, WatcherType
    <3>2. /\ w \in WatcherType /\ w.state = "registered" /\ w.openings = watcher[n].openings
          /\ w.segments = Append(watcher[n].segments, seg)
      BY <1>b, <1>4, <3>1 DEF WatcherType
    <3> HIDE DEF w
    <3>3. v = w.openings \o w.segments
      <4> HIDE DEF u, seg
      <4>1. watcher[n].openings \o Append(watcher[n].segments, seg)
            = Append(watcher[n].openings \o watcher[n].segments, seg)
        BY <1>b, <1>4, SegmentsAppend, Zenon
      <4>. QED
        BY <1>4, <3>2, <4>1, Zenon
    <3>4. u # <<>> => u[Len(u)].end = seg.begin
      <4>1. u # <<>> => u[Len(u)] \in SegmentType
        <5> HIDE DEF u
        <5>1. u # <<>> => Len(u) \in Nat \ {0}
          BY <1>4, EmptySeq, Zenon
        <5>2. \A k \in Nat \ {0} : k \in 1 .. k
          OBVIOUS
        <5>. QED
          BY <1>4, <5>1, <5>2, ElementOfSeq, Zenon
      <4>2. u # <<>> => u[Len(u)].end \in Nat
        BY <4>1, Zenon DEF SegmentType
      <4>3. u # <<>> => u[Len(u)].end = offsets[n]
        BY <1>a, <2>1, Zenon DEF WatcherOK
      <4>4. u # <<>> => Opened(n)
        BY <4>2, <4>3, SourceAssumption DEF Opened
      <4>. QED
        BY <1>a, <1>b, <4>3, <4>4, Zenon DEF FollowerOK
    <3>5. /\ Contiguous(v) /\ v[Len(v)] = seg
          /\ \A i \in 1 .. Len(v) : v[i] = seg \/ \E j \in 1 .. Len(u) : v[i] = u[j]
      BY <1>a, <1>b, <1>4, <3>4, AppendContiguous, Zenon DEF WatcherOK
    <3>6. \A i \in 1 .. Len(v) : Exact(v[i], AllTypes)
      BY <1>a, <1>b, <3>5, Zenon DEF WatcherOK
    <3> HIDE DEF v, u, seg
    <3>. QED
      BY <1>a, <1>1, <1>5, <3>2, <3>3, <3>5, <3>6, WatcherNow, Zenon
  <2>2. CASE ~(watcher[n].state = "registered" /\ Len(watcher[n].segments) < BufferSize)
    <3>1. w = Removed(watcher[n])
      BY <2>2, Zenon DEF DeliveredTo
    <3>2. /\ w \in WatcherType /\ w.state # "registered"
          /\ u = w.openings \o w.segments
      BY <1>a, <1>4, <3>1, RemovedKeeps, Zenon
    <3>3. Contiguous(u) /\ \A i \in 1 .. Len(u) : Exact(u[i], AllTypes)
      BY <1>a, Zenon DEF WatcherOK
    <3> HIDE DEF u, w
    <3>. QED
      BY <1>a, <1>1, <3>2, <3>3, WatcherNow, Zenon
  <2>. QED
    BY <2>1, <2>2, Zenon
<1>8. TypeOK'
  BY <1>a, <1>1, <1>5, <1>7, Zenon DEF TypeOK
<1>. QED
  BY <1>a, <1>1, <1>5, <1>6, <1>7, <1>8, CacheKept, NodeMoves, Zenon DEF sinkVars

\* watchStream fails: a watcher that is removed needs no more segments.
LEMMA FollowFailsIInv ==
  ASSUME IInv, NEW n \in Node, FollowFails(n), NotFeed
  PROVE  IInv'
<1> DEFINE w == Removed(watcher[n])
           u == Undelivered(n)
<1>a. /\ TypeOK /\ watcher[n] \in WatcherType /\ WatcherOK(n) /\ CacheOK(n) /\ length \in Nat
  BY Zenon DEF IInv, TypeOK
<1>1. /\ offsets' = [offsets EXCEPT ![n] = NoOffset]
      /\ watcher' = [watcher EXCEPT ![n] = w]
      /\ follower' = [follower EXCEPT ![n] = Idle]
      /\ length' = length /\ cache' = cache /\ feed' = feed /\ current' = current
      /\ con' = con /\ stored' = stored /\ handled' = handled
  BY Zenon DEF FollowFails, NotFeed, catalogVars, sinkVars
<1>2. Idle \in FollowerType /\ Idle.pc = "down" /\ Idle.next = 0
  <2>1. Segment(0, 0, {}) \in SegmentType
    BY DEF Segment, SegmentType
  <2>2. Idle \in FollowerType
    BY <2>1, Zenon DEF Idle, FollowerType
  <2>. QED
    BY <2>2 DEF Idle
<1>3. /\ offsets'[n] = NoOffset /\ follower'[n] = Idle
      /\ \A m \in Node \ {n} : offsets'[m] = offsets[m] /\ follower'[m] = follower[m]
      /\ offsets' \in [Node -> Nat \union {NoOffset}] /\ follower' \in [Node -> FollowerType]
  BY <1>a, <1>1, <1>2, Zenon DEF TypeOK
<1>4. FollowerOK(n)'
  BY <1>a, <1>1, <1>2, <1>3 DEF FollowerOK, Opened
<1>5. /\ w \in WatcherType /\ w.state # "registered" /\ u = w.openings \o w.segments
  BY <1>a, RemovedKeeps, Zenon DEF Undelivered
<1>6. Contiguous(u) /\ \A i \in 1 .. Len(u) : Exact(u[i], AllTypes)
  BY <1>a, Zenon DEF WatcherOK
<1>7. /\ watcher' \in [Node -> WatcherType] /\ WatcherOK(n)'
      /\ \A m \in Node \ {n} : watcher'[m] = watcher[m]
  <2> HIDE DEF u, w
  <2>. QED
    BY <1>a, <1>1, <1>5, <1>6, WatcherNow, Zenon
<1>8. TypeOK'
  BY <1>a, <1>1, <1>3, <1>7, Zenon DEF TypeOK
<1>. QED
  BY <1>a, <1>1, <1>3, <1>4, <1>7, <1>8, CacheKept, NodeMoves, Zenon DEF sinkVars

-------------------------------------------------------------------------------
(***************************************************************************)
(* The catalog.                                                            *)
(***************************************************************************)
\* What it takes for a step of Catalog.Watch to keep the invariant.
LEMMA CatalogMoves ==
  ASSUME IInv, NEW n \in Node, NEW w \in WatcherType, NEW u,
         watcher' = [watcher EXCEPT ![n] = w], u = w.openings \o w.segments,
         UNCHANGED <<length, follower, offsets, con, sinkVars>>,
         feed' \in [Node -> {"none", "open", "closed"}], current' \in Node \union {NoFeed},
         cache' \in [Node -> SegmentType], CacheOK(n)',
         \A m \in Node \ {n} : cache'[m] = cache[m],
         \A i \in 1 .. Len(u) : Exact(u[i], AllTypes), Contiguous(u),
         u # <<>> /\ w.state = "registered" => u[Len(u)].end = offsets[n]
  PROVE  IInv'
<1>a. TypeOK /\ FollowerOK(n)
  BY Zenon DEF IInv
<1>b. /\ length' = length /\ follower' = follower /\ offsets' = offsets
      /\ con' = con /\ stored' = stored /\ handled' = handled
  BY Zenon DEF sinkVars
<1>1. u # <<>> /\ w.state = "registered" => u[Len(u)].end = offsets'[n]
  BY <1>b, Zenon
<1>2. /\ watcher' \in [Node -> WatcherType] /\ WatcherOK(n)'
      /\ \A m \in Node \ {n} : watcher'[m] = watcher[m]
  BY <1>a, <1>b, <1>1, WatcherNow, Zenon
<1>3. TypeOK'
  BY <1>a, <1>b, <1>2, Zenon DEF TypeOK
<1>4. FollowerOK(n)'
  BY <1>a, <1>b, FollowerKept, Zenon
<1>. QED
  BY <1>b, <1>2, <1>3, <1>4, NodeMoves, Zenon

\* Nothing that is empty has a gap.
LEMMA NothingUndelivered ==
  /\ NoWatcher \in WatcherType /\ NoWatcher.openings \o NoWatcher.segments = <<>>
  /\ Contiguous(<<>>) /\ \A i \in 1 .. Len(<<>>) : Exact(<<>>[i], AllTypes)
<1>1. Len(<<>>) = 0 /\ <<>> \in Seq(SegmentType) /\ <<>> \o <<>> = <<>>
  BY EmptySeq, ConcatEmptySeq
<1>2. NoWatcher \in WatcherType /\ NoWatcher.openings = <<>> /\ NoWatcher.segments = <<>>
  BY <1>1 DEF NoWatcher, WatcherType
<1>3. \A i : ~(i \in 1 .. 0) /\ ~(i \in 1 .. 0 - 1)
  OBVIOUS
<1>. QED
  BY <1>1, <1>2, <1>3, Zenon DEF Contiguous

\* A call to Watch ends, with or without the call to Catalog.Watch: whatever
\* it had not passed on is gone with it.
LEMMA WatchEndsIInv ==
  ASSUME IInv, NEW n \in Node, WatchReturns(n) \/ WatchBreaks(n) \/ EndWatch(n)
  PROVE  IInv'
<1>a. TypeOK /\ CacheOK(n)
  BY Zenon DEF IInv
<1>1. /\ watcher' = [watcher EXCEPT ![n] = NoWatcher]
      /\ length' = length /\ follower' = follower /\ offsets' = offsets
      /\ con' = con /\ stored' = stored /\ handled' = handled /\ cache' = cache
  BY Zenon DEF WatchReturns, WatchBreaks, EndWatch, sinkVars, catalogVars
<1>2. feed' \in [Node -> {"none", "open", "closed"}] /\ current' \in Node \union {NoFeed}
  <2>1. CASE WatchReturns(n) \/ WatchBreaks(n)
    BY <1>a, <2>1, Zenon DEF WatchReturns, WatchBreaks, catalogVars, TypeOK
  <2>2. CASE EndWatch(n)
    <3>1. feed' = [feed EXCEPT ![n] = "closed"]
      BY <2>2, Zenon DEF EndWatch
    <3>2. \/ current' = current
          \/ current' \in {m \in Node \ {n} : feed[m] = "open"}
          \/ current' = NoFeed
      BY <2>2, Zenon DEF EndWatch
    <3>. QED
      BY <1>a, <3>1, <3>2, Zenon DEF TypeOK
  <2>. QED
    BY <2>1, <2>2, Zenon
<1>3. CacheOK(n)' /\ cache' \in [Node -> SegmentType]
  BY <1>a, <1>1, CacheKept, Zenon DEF TypeOK
<1>. QED
  BY <1>1, <1>2, <1>3, NothingUndelivered, CatalogMoves, Zenon DEF sinkVars

\* An empty segment within the stream is exact.
LEMMA EmptyExact ==
  ASSUME length \in Nat, NEW b \in Nat, b <= length, NEW types, types \subseteq AllTypes
  PROVE  /\ Segment(b, b, {}) \in SegmentType /\ Exact(Segment(b, b, {}), types)
         /\ Segment(b, b, {}).begin = b /\ Segment(b, b, {}).end = b
<1>1. \A o \in Nat : ~(b <= o /\ o < b)
  OBVIOUS
<1>2. types \subseteq Nat
  BY OffsetsFinite, Zenon
<1>3. {o \in types : b <= o /\ o < b} = {}
  BY <1>1, <1>2, Zenon
<1>. QED
  BY <1>3 DEF Segment, SegmentType, Exact

\* register: the opening segment leads up to the next one to be delivered.
LEMMA BeginWatchIInv ==
  ASSUME IInv, NEW n \in Node, BeginWatch(n)
  PROVE  IInv'
<1> DEFINE x == Segment(offsets[n], offsets[n], {})
           os == IF offsets[n] = NoOffset THEN <<>> ELSE <<x>>
           w == [state |-> "registered", openings |-> os, segments |-> <<>>]
<1>a. TypeOK /\ CacheOK(n) /\ FollowerOK(n) /\ follower[n] \in FollowerType /\ length \in Nat
  BY Zenon DEF IInv, TypeOK
<1>1. /\ watcher' = [watcher EXCEPT ![n] = w]
      /\ length' = length /\ follower' = follower /\ offsets' = offsets
      /\ con' = con /\ stored' = stored /\ handled' = handled
      /\ cache' = cache /\ feed' = feed /\ current' = current
  BY Zenon DEF BeginWatch, Register, sinkVars, catalogVars
<1>2. /\ CacheOK(n)' /\ cache' \in [Node -> SegmentType]
      /\ feed' \in [Node -> {"none", "open", "closed"}] /\ current' \in Node \union {NoFeed}
  BY <1>a, <1>1, CacheKept, Zenon DEF TypeOK
<1>3. CASE offsets[n] = NoOffset
  <2>1. os = <<>> /\ <<>> \in Seq(SegmentType) /\ <<>> \o <<>> = <<>>
    BY <1>3, EmptySeq, ConcatEmptySeq
  <2> HIDE DEF os
  <2>2. w \in WatcherType /\ w.openings = <<>> /\ w.segments = <<>>
    BY <2>1 DEF WatcherType
  <2>3. w.openings \o w.segments = <<>>
    BY <2>1, <2>2, Zenon
  <2> HIDE DEF w
  <2>. QED
    BY <1>1, <1>2, <2>2, <2>3, NothingUndelivered, CatalogMoves, Zenon DEF sinkVars
<1>4. CASE offsets[n] # NoOffset
  <2>1. offsets[n] \in Nat /\ offsets[n] <= length
    BY <1>a, <1>4 DEF FollowerOK, Opened, TypeOK
  <2>2. x \in SegmentType /\ Exact(x, AllTypes) /\ x.end = offsets[n]
    BY <1>a, <2>1, EmptyExact, Zenon
  <2> HIDE DEF x
  <2>3. /\ os = <<x>> /\ <<x>> \in Seq(SegmentType) /\ <<>> \in Seq(SegmentType)
        /\ Len(<<x>>) = 1 /\ <<x>>[1] = x
    BY <1>4, <2>2
  <2> HIDE DEF os
  <2>4. /\ w \in WatcherType /\ w.openings = <<x>> /\ w.segments = <<>> /\ <<x>> # <<>>
    BY <2>3 DEF WatcherType
  <2>5. <<x>> = w.openings \o w.segments
    BY <2>3, <2>4, ConcatEmptySeq, Zenon
  <2>6. /\ \A i \in 1 .. Len(<<x>>) : Exact(<<x>>[i], AllTypes)
        /\ Contiguous(<<x>>)
        /\ <<x>>[Len(<<x>>)].end = offsets[n]
    <3>1. /\ \A i \in 1 .. 1 : i = 1
          /\ \A i : ~(i \in 1 .. 1 - 1)
      OBVIOUS
    <3>. QED
      BY <2>2, <2>3, <3>1, Zenon DEF Contiguous
  <2> HIDE DEF w
  <2>. QED
    BY <1>1, <1>2, <2>4, <2>5, <2>6, CatalogMoves, Zenon DEF sinkVars
<1>. QED
  BY <1>3, <1>4

\* Passing on the next segment takes it off the front.
LEMMA PassedOn ==
  ASSUME IInv, NEW n \in Node, PassOn(n)
  PROVE  \E w \in WatcherType :
           /\ watcher' = [watcher EXCEPT ![n] = w] /\ w.state = watcher[n].state
           /\ Tail(Undelivered(n)) = w.openings \o w.segments
<1> DEFINE v == watcher[n]
           w == FirstTaken(v)
<1>1. /\ v \in WatcherType /\ v.openings \in Seq(SegmentType) /\ v.segments \in Seq(SegmentType)
      /\ Undelivered(n) = v.openings \o v.segments
  BY Zenon DEF IInv, TypeOK, WatcherType, Undelivered
<1>2. watcher' = [watcher EXCEPT ![n] = w] /\ Undelivered(n) # <<>>
  BY Zenon DEF PassOn
<1> HIDE DEF v
<1>3. CASE v.openings # <<>>
  <2>1. Tail(v.openings) \in Seq(SegmentType)
    BY <1>1, <1>3, HeadTailProperties, Zenon
  <2>2. w = [v EXCEPT !.openings = Tail(v.openings)]
    BY <1>3, Zenon DEF FirstTaken
  <2>3. /\ w \in WatcherType /\ w.state = v.state
        /\ w.openings = Tail(v.openings) /\ w.segments = v.segments
    BY <1>1, <2>1, <2>2, Zenon DEF WatcherType
  <2>4. Tail(v.openings) \o v.segments = Tail(v.openings \o v.segments)
    BY <1>1, <1>3, ConcatTail, Zenon
  <2> HIDE DEF w
  <2>. QED
    BY <1>1, <1>2, <2>3, <2>4, Zenon DEF v
<1>4. CASE v.openings = <<>>
  <2>1. Undelivered(n) = v.segments
    BY <1>1, <1>4, ConcatEmptySeq, Zenon
  <2>2. Tail(v.segments) \in Seq(SegmentType)
    BY <1>1, <1>2, <2>1, HeadTailProperties, Zenon
  <2>3. w = [v EXCEPT !.segments = Tail(v.segments)]
    BY <1>4, Zenon DEF FirstTaken
  <2>4. /\ w \in WatcherType /\ w.state = v.state
        /\ w.openings = <<>> /\ w.segments = Tail(v.segments)
    BY <1>1, <1>4, <2>2, <2>3, Zenon DEF WatcherType
  <2>5. <<>> \o Tail(v.segments) = Tail(v.segments)
    BY <2>2, ConcatEmptySeq
  <2> HIDE DEF w
  <2>. QED
    BY <1>2, <2>1, <2>4, <2>5, Zenon DEF v
<1>. QED
  BY <1>3, <1>4, Zenon

\* filterSegment: what is left is exact for the types that are asked for.
LEMMA FilterExact ==
  ASSUME length \in Nat, NEW seg \in SegmentType, Exact(seg, AllTypes)
  PROVE  /\ FilterSegment(seg, Watched) \in SegmentType
         /\ Exact(FilterSegment(seg, Watched), Watched)
         /\ FilterSegment(seg, Watched).begin = seg.begin
<1> DEFINE f == FilterSegment(seg, Watched)
           evs == seg.events \intersect Watched
<1>1. f = [seg EXCEPT !.events = evs]
  BY Zenon DEF FilterSegment
<1>2. evs \subseteq AllTypes
  BY FeedAssumption, Zenon DEF SegmentType
<1> HIDE DEF evs
<1>3. f \in SegmentType /\ f.begin = seg.begin /\ f.end = seg.end /\ f.events = evs
  BY <1>1, <1>2, Zenon DEF SegmentType
<1>4. evs = {o \in Watched : seg.begin <= o /\ o < seg.end}
  BY FeedAssumption, Zenon DEF evs, Exact
<1> HIDE DEF f
<1>. QED
  BY <1>3, <1>4, Zenon DEF Exact, f

\* The callback of Catalog.Watch: the cache stays exact.
LEMMA WatchSegmentIInv ==
  ASSUME IInv, NEW n \in Node, WatchSegment(n)
  PROVE  IInv'
<1> DEFINE u == Undelivered(n)
           seg == FilterSegment(Head(u), Watched)
           c == IF feed[n] = "none" THEN Reset(seg.begin) ELSE cache[n]
<1>a. /\ TypeOK /\ WatcherOK(n) /\ CacheOK(n) /\ length \in Nat
      /\ cache[n] \in SegmentType /\ watcher[n] \in WatcherType
  BY Zenon DEF IInv, TypeOK
<1>1. /\ PassOn(n) /\ u # <<>>
      /\ length' = length /\ follower' = follower /\ offsets' = offsets
      /\ con' = con /\ stored' = stored /\ handled' = handled
      /\ cache' = [cache EXCEPT ![n] = FeedAppend(c, seg)]
      /\ feed' = [feed EXCEPT ![n] = "open"]
      /\ current' = current \/ current' = n
  <2>1. /\ PassOn(n) /\ u # <<>>
        /\ length' = length /\ follower' = follower /\ offsets' = offsets
        /\ con' = con /\ stored' = stored /\ handled' = handled
        /\ feed' = [feed EXCEPT ![n] = "open"]
        /\ current' = current \/ current' = n
    BY Zenon DEF WatchSegment, PassOn, sinkVars
  <2>2. cache' = [cache EXCEPT ![n] = FeedAppend(c, seg)]
    BY Zenon DEF WatchSegment
  <2>. QED
    BY <2>1, <2>2, Zenon
<1>2. PICK w \in WatcherType :
        /\ watcher' = [watcher EXCEPT ![n] = w] /\ w.state = watcher[n].state
        /\ Tail(u) = w.openings \o w.segments
  BY <1>1, PassedOn, Zenon
<1>3. u \in Seq(SegmentType)
  <2>1. watcher[n].openings \in Seq(SegmentType) /\ watcher[n].segments \in Seq(SegmentType)
    BY <1>a, Zenon DEF WatcherType
  <2>. QED
    BY <2>1, ConcatProperties, Zenon DEF Undelivered
<1>4. /\ Contiguous(u) /\ \A i \in 1 .. Len(u) : Exact(u[i], AllTypes)
      /\ u # <<>> /\ watcher[n].state = "registered" => u[Len(u)].end = offsets[n]
  BY <1>a, Zenon DEF WatcherOK
<1> HIDE DEF u
<1>5. /\ Tail(u) \in Seq(SegmentType)
      /\ Contiguous(Tail(u))
      /\ Tail(u) # <<>> => Tail(u)[Len(Tail(u))] = u[Len(u)]
      /\ \A i \in 1 .. Len(Tail(u)) : \E j \in 1 .. Len(u) : Tail(u)[i] = u[j]
      /\ Head(u) \in SegmentType /\ Head(u) = u[1] /\ 1 \in 1 .. Len(u)
  BY <1>1, <1>3, <1>4, TailContiguous, Zenon
<1>6. \A i \in 1 .. Len(Tail(u)) : Exact(Tail(u)[i], AllTypes)
  BY <1>4, <1>5, Zenon
<1>7. Exact(Head(u), AllTypes)
  BY <1>4, <1>5, Zenon
<1>8. seg \in SegmentType /\ Exact(seg, Watched) /\ seg.begin = Head(u).begin
  BY <1>a, <1>5, <1>7, FilterExact, Zenon
<1> HIDE DEF seg
<1>9. c \in SegmentType /\ Exact(c, Watched)
  <2>1. seg.begin \in Nat /\ seg.begin <= length
    BY <1>a, <1>8 DEF SegmentType, Exact
  <2>2. Reset(seg.begin) \in SegmentType /\ Exact(Reset(seg.begin), Watched)
    BY <1>a, <2>1, FeedAssumption, EmptyExact, Zenon DEF Reset
  <2>. QED
    BY <1>a, <2>2, Zenon DEF CacheOK
<1> HIDE DEF c
<1>10. /\ FeedAppend(c, seg) \in SegmentType
       /\ Exact(FeedAppend(c, seg), Watched)
       /\ Cardinality(FeedAppend(c, seg).events) <= Capacity
  BY <1>a, <1>8, <1>9, FeedAppendExact, Zenon
<1>11. /\ cache'[n] = FeedAppend(c, seg) /\ cache' \in [Node -> SegmentType]
       /\ \A m \in Node \ {n} : cache'[m] = cache[m]
  BY <1>a, <1>1, <1>10, Zenon DEF TypeOK
<1>12. CacheOK(n)'
  BY <1>1, <1>10, <1>11, Zenon DEF CacheOK, Exact
<1>13. feed' \in [Node -> {"none", "open", "closed"}] /\ current' \in Node \union {NoFeed}
  BY <1>a, <1>1, Zenon DEF TypeOK
<1>14. Tail(u) # <<>> /\ w.state = "registered" => Tail(u)[Len(Tail(u))].end = offsets[n]
  BY <1>1, <1>2, <1>4, <1>5, Zenon
<1>. QED
  BY <1>1, <1>2, <1>5, <1>6, <1>11, <1>12, <1>13, <1>14, CatalogMoves, Zenon DEF sinkVars

-------------------------------------------------------------------------------
(***************************************************************************)
(* The consumer.                                                           *)
(***************************************************************************)
\* What it takes for a step that handles no event to keep the invariant.
LEMMA ConsumerNow ==
  ASSUME IInv, NEW c \in ConsumerType, con' = c, ConsumerFits(c),
         UNCHANGED <<sourceVars, catalogVars, sinkVars>>
  PROVE  IInv'
<1>1. length' = length /\ stored' = stored /\ handled' = handled
  BY Zenon DEF sourceVars, sinkVars
<1>2. ConsumerOK'
  BY <1>1, Zenon DEF ConsumerOK, ConsumerFits
<1>3. (stored <= length)' /\ HandledOnceInOrder' /\ stored' \in Nat /\ handled' \in Seq(Nat)
  BY <1>1, Zenon DEF IInv, TypeOK, HandledOnceInOrder
<1>. QED
  BY <1>2, <1>3, ConsumerMoves, Zenon

\* startStreamConsumer begins again.
LEMMA DownFits ==
  ASSUME length \in Nat
  PROVE  /\ Down \in ConsumerType /\ ConsumerFits(Down)
<1>1. Down \in ConsumerType
  <2>1. 0 \in Nat
    OBVIOUS
  <2>. QED
    BY <2>1, Zenon DEF Down, ConsumerType
<1>2. Down.cp = 0 /\ Down.behind = FALSE /\ Down.pc = "down"
  BY Zenon DEF Down
<1>3. 0 <= length
  OBVIOUS
<1>. QED
  BY <1>1, <1>2, <1>3 DEF ConsumerFits

\* A consumer on the current feed, at a checkpoint.
Consuming(cp, scp) == [Down EXCEPT !.pc = "consume", !.feed = current, !.cp = cp, !.scp = scp]

\* Another feed is consumed from the checkpoint the last one had come to.
LEMMA OnCurrentFeedFits ==
  ASSUME IInv, NEW c \in ConsumerType, c.cp <= length, c.scp <= c.cp,
         \A o \in Wanted : c.scp <= o => c.cp <= o
  PROVE  OnCurrentFeed(c) \in ConsumerType /\ ConsumerFits(OnCurrentFeed(c))
<1>a. length \in Nat /\ current \in Node \union {NoFeed}
  BY Zenon DEF IInv, TypeOK
<1>1. CASE current = NoFeed
  BY <1>1, <1>a, DownFits, Zenon DEF OnCurrentFeed
<1>2. CASE current # NoFeed
  <2>1. OnCurrentFeed(c) = Consuming(c.cp, c.scp)
    BY <1>2, Zenon DEF OnCurrentFeed, Consuming
  <2>2. current \in Node
    BY <1>a, <1>2, Zenon
  <2>3. c.cp \in Nat /\ c.scp \in Nat
    BY Zenon DEF ConsumerType
  <2>4. Down \in ConsumerType /\ Down.behind = FALSE
    BY <1>a, DownFits, Zenon DEF Down
  <2> DEFINE d == Consuming(c.cp, c.scp)
  <2>5. /\ d \in ConsumerType /\ d.pc = "consume" /\ d.feed = current
        /\ d.cp = c.cp /\ d.scp = c.scp /\ d.behind = FALSE
    BY <2>2, <2>3, <2>4, Zenon DEF Consuming, ConsumerType
  <2> HIDE DEF d
  <2>6. ConsumerFits(d)
    BY <2>2, <2>5 DEF ConsumerFits
  <2>. QED
    BY <2>1, <2>5, <2>6, Zenon DEF d
<1>. QED
  BY <1>1, <1>2

\* startStreamConsumer begins at the checkpoint the handler has stored.
LEMMA StartConsumerIInv ==
  ASSUME IInv, StartConsumer
  PROVE  IInv'
<1> DEFINE c == [Down EXCEPT !.cp = stored, !.scp = stored]
<1>1. stored \in Nat /\ stored <= length /\ length \in Nat
  BY Zenon DEF IInv, TypeOK
<1>2. con' = OnCurrentFeed(c) /\ UNCHANGED <<sourceVars, catalogVars, sinkVars>>
  BY Zenon DEF StartConsumer, ConsumerFrame
<1>3. c \in ConsumerType /\ c.cp = stored /\ c.scp = stored
  BY <1>1, DownFits, Zenon DEF ConsumerType
<1> HIDE DEF c
<1>4. c.cp <= length /\ c.scp <= c.cp /\ \A o \in Wanted : c.scp <= o => c.cp <= o
  BY <1>1, <1>3
<1>. QED
  BY <1>2, <1>3, <1>4, OnCurrentFeedFits, ConsumerNow, Zenon

\* The consumer between two segments, and the feed it is on.
LEMMA AtCheckpoint ==
  ASSUME IInv, con.pc \in {"consume", "read"}
  PROVE  /\ con \in ConsumerType /\ length \in Nat /\ con.cp \in Nat /\ con.scp \in Nat
         /\ con.feed \in Node /\ con.cp <= length /\ con.scp <= con.cp
         /\ \A o \in Wanted : con.scp <= o => con.cp <= o
         /\ con.behind => con.from < length
         /\ cache[con.feed] \in SegmentType /\ Exact(cache[con.feed], Watched)
<1>1. con \in ConsumerType /\ ConsumerFits(con) /\ cache \in [Node -> SegmentType] /\ length \in Nat
  BY Zenon DEF IInv, TypeOK, ConsumerOK
<1>2. con.cp \in Nat /\ con.scp \in Nat
  BY <1>1, Zenon DEF ConsumerType
<1>3. con.pc # "down"
  OBVIOUS
<1>4. con.feed \in Node /\ con.cp <= length /\ con.scp <= con.cp
      /\ (\A o \in Wanted : con.scp <= o => con.cp <= o)
      /\ (con.behind => con.from < length)
  BY <1>1, <1>3, Zenon DEF ConsumerFits
<1>5. Exact(cache[con.feed], Watched)
  BY <1>4, Zenon DEF IInv, CacheOK
<1>. QED
  BY <1>1, <1>2, <1>4, <1>5, Zenon

\* A segment that contains the checkpoint has all that is to be handled up to
\* its end.
LEMMA ServeFromCacheIInv ==
  ASSUME IInv, ServeFromCache
  PROVE  IInv'
<1> DEFINE s == cache[con.feed]
           t == {o \in s.events \intersect Wanted : o >= con.cp}
           c == [con EXCEPT !.pc = "handle", !.reading = FALSE, !.end = s.end, !.todo = t]
<1>1. /\ con' = c /\ UNCHANGED <<sourceVars, catalogVars, sinkVars>> /\ con.pc = "consume"
      /\ s.begin <= con.cp /\ con.cp < s.end
  BY Zenon DEF ServeFromCache, Within, CachedSegment, ConsumerFrame
<1>2. con.pc \in {"consume", "read"}
  BY <1>1
<1>3. /\ con \in ConsumerType /\ length \in Nat /\ con.cp \in Nat /\ con.scp \in Nat
      /\ con.feed \in Node /\ con.cp <= length /\ con.scp <= con.cp
      /\ \A o \in Wanted : con.scp <= o => con.cp <= o
      /\ con.behind => con.from < length
      /\ s \in SegmentType /\ Exact(s, Watched)
  BY <1>2, AtCheckpoint, Zenon
<1>4. s.begin \in Nat /\ s.end \in Nat /\ s.end <= length
  BY <1>3, Zenon DEF SegmentType, Exact
<1>5. t \subseteq Wanted
  BY Zenon
<1>6. t = {o \in Wanted : con.scp <= o /\ o < s.end}
  <2>1. \A o \in Wanted : (s.begin <= o /\ o < s.end /\ o >= con.cp) <=> (con.scp <= o /\ o < s.end)
    <3>1. Wanted \subseteq Nat
      BY FeedAssumption, OffsetsFinite, Zenon
    <3>. QED
      BY <1>1, <1>3, <1>4, <3>1
  <2>2. s.events = {o \in Watched : s.begin <= o /\ o < s.end} /\ Wanted \subseteq Watched
    BY <1>3, FeedAssumption, Zenon DEF Exact
  <2> HIDE DEF s
  <2>. QED
    BY <2>1, <2>2, Zenon
<1> HIDE DEF t, s
<1>7. /\ c \in ConsumerType /\ c.pc = "handle" /\ c.end = s.end /\ c.todo = t
      /\ c.cp = con.cp /\ c.scp = con.scp /\ c.feed = con.feed
      /\ c.behind = con.behind /\ c.from = con.from
  BY <1>3, <1>4, <1>5, Zenon DEF ConsumerType
<1> HIDE DEF c
<1>8. con.scp <= s.end
  BY <1>1, <1>3, <1>4, SMTT(30)
<1>9. ConsumerFits(c)
  BY <1>3, <1>4, <1>6, <1>7, <1>8, SMTT(30) DEF ConsumerFits
<1>. QED
  BY <1>1, <1>7, <1>9, ConsumerNow, Zenon

\* A read begins at the checkpoint; if the consumer is behind the cached
\* segment, the stream goes on beyond it.
LEMMA StartReadIInv ==
  ASSUME IInv, StartRead
  PROVE  IInv'
<1> DEFINE b == con.cp < cache[con.feed].begin
           c == [con EXCEPT !.pc = "read", !.reading = TRUE, !.from = con.cp, !.behind = b]
<1>1. con' = c /\ UNCHANGED <<sourceVars, catalogVars, sinkVars>> /\ con.pc = "consume"
  BY Zenon DEF StartRead, Before, CachedSegment, ConsumerFrame
<1>2. con.pc \in {"consume", "read"}
  BY <1>1
<1>3. /\ con \in ConsumerType /\ length \in Nat /\ con.cp \in Nat /\ con.scp \in Nat
      /\ con.feed \in Node /\ con.cp <= length /\ con.scp <= con.cp
      /\ \A o \in Wanted : con.scp <= o => con.cp <= o
      /\ cache[con.feed] \in SegmentType /\ Exact(cache[con.feed], Watched)
  BY <1>2, AtCheckpoint, Zenon
<1>4. b => con.cp < length
  BY <1>3 DEF Exact, SegmentType
<1>5. b \in BOOLEAN
  OBVIOUS
<1> HIDE DEF b
<1>6. /\ c \in ConsumerType /\ c.pc = "read" /\ c.from = con.cp /\ c.behind = b
      /\ c.cp = con.cp /\ c.scp = con.scp /\ c.feed = con.feed
  BY <1>3, <1>5, Zenon DEF ConsumerType
<1> HIDE DEF c
<1>7. ConsumerFits(c)
  BY <1>3, <1>4, <1>6 DEF ConsumerFits
<1>. QED
  BY <1>1, <1>6, <1>7, ConsumerNow, Zenon

\* The consumer leaves a feed at its checkpoint.
LEMMA LeaveClosedFeedIInv ==
  ASSUME IInv, LeaveClosedFeed
  PROVE  IInv'
<1>1. /\ con.pc \in {"consume", "read"} /\ con' = OnCurrentFeed(con)
      /\ UNCHANGED <<sourceVars, catalogVars, sinkVars>>
  BY Zenon DEF LeaveClosedFeed, ConsumerFrame
<1>2. OnCurrentFeed(con) \in ConsumerType /\ ConsumerFits(OnCurrentFeed(con))
  BY <1>1, AtCheckpoint, OnCurrentFeedFits, Zenon
<1>. QED
  BY <1>1, <1>2, ConsumerNow, Zenon

\* Source.Read: the segment has all that is to be handled up to its end.
LEMMA ReadSegmentIInv ==
  ASSUME IInv, ReadSegment
  PROVE  IInv'
<1> DEFINE r == LoadSegment(Wanted, con.cp)
           h == [con EXCEPT !.pc = "handle", !.end = r.seg.end, !.todo = r.seg.events,
                            !.exhausted = r.exhausted]
           d == [con EXCEPT !.pc = "consume", !.confirmed = TRUE]
<1>1. /\ con.pc \in {"consume", "read"} /\ UNCHANGED <<sourceVars, catalogVars, sinkVars>>
      /\ con' = h \/ con' = OnCurrentFeed(con) \/ con' = d
  <2>1. con.pc = "read" /\ UNCHANGED <<sourceVars, catalogVars, sinkVars>>
    BY Zenon DEF ReadSegment, ConsumerFrame
  <2>2. con' = IF r.seg.end > r.seg.begin THEN h ELSE IF Closed THEN OnCurrentFeed(con) ELSE d
    BY Zenon DEF ReadSegment
  <2> HIDE DEF r, h, d
  <2>. QED
    BY <2>1, <2>2, Zenon
<1>2. /\ con \in ConsumerType /\ length \in Nat /\ con.cp \in Nat /\ con.scp \in Nat
      /\ con.feed \in Node /\ con.cp <= length /\ con.scp <= con.cp
      /\ \A o \in Wanted : con.scp <= o => con.cp <= o
      /\ con.behind => con.from < length
  BY <1>1, AtCheckpoint, Zenon
<1>3. CASE con' = h
  <2>1. Wanted \subseteq AllTypes /\ Wanted \subseteq Nat
    BY FeedAssumption, OffsetsFinite, Zenon
  <2>2. /\ r.seg \in SegmentType /\ r.exhausted \in BOOLEAN
        /\ r.seg.begin = con.cp /\ Exact(r.seg, Wanted)
    BY <1>2, <2>1, LoadSegmentExact, Zenon
  <2> HIDE DEF r
  <2>3. /\ r.seg.end \in Nat /\ con.cp <= r.seg.end /\ r.seg.end <= length
        /\ r.seg.events = {o \in Wanted : con.cp <= o /\ o < r.seg.end}
    BY <2>2, Zenon DEF SegmentType, Exact
  <2>4. r.seg.events \subseteq Wanted
    BY <2>3, Zenon
  <2>5. r.seg.events = {o \in Wanted : con.scp <= o /\ o < r.seg.end}
    <3>1. \A o \in Wanted : con.cp <= o <=> con.scp <= o
      BY <1>2, <2>1
    <3>. QED
      BY <2>3, <3>1, Zenon
  <2>6. /\ h \in ConsumerType /\ h.pc = "handle" /\ h.end = r.seg.end /\ h.todo = r.seg.events
        /\ h.cp = con.cp /\ h.scp = con.scp /\ h.feed = con.feed
        /\ h.behind = con.behind /\ h.from = con.from
    BY <1>2, <2>2, <2>3, <2>4, Zenon DEF ConsumerType
  <2> HIDE DEF h
  <2>7. con.scp <= r.seg.end
    BY <1>2, <2>3
  <2>8. ConsumerFits(h)
    BY <1>2, <2>3, <2>5, <2>6, <2>7, SMTT(30) DEF ConsumerFits
  <2>. QED
    BY <1>1, <1>3, <2>6, <2>8, ConsumerNow, Zenon
<1>4. CASE con' = OnCurrentFeed(con)
  <2>1. OnCurrentFeed(con) \in ConsumerType /\ ConsumerFits(OnCurrentFeed(con))
    BY <1>2, OnCurrentFeedFits, Zenon
  <2>. QED
    BY <1>1, <1>4, <2>1, ConsumerNow, Zenon
<1>5. CASE con' = d
  <2>1. /\ d \in ConsumerType /\ d.pc = "consume"
        /\ d.cp = con.cp /\ d.scp = con.scp /\ d.feed = con.feed
        /\ d.behind = con.behind /\ d.from = con.from
    BY <1>2, Zenon DEF ConsumerType
  <2> HIDE DEF d
  <2>2. ConsumerFits(d)
    BY <1>2, <2>1 DEF ConsumerFits
  <2>. QED
    BY <1>1, <1>5, <2>1, <2>2, ConsumerNow, Zenon
<1>. QED
  BY <1>1, <1>3, <1>4, <1>5

\* The consumer begins again after a failure or a conflict.
LEMMA BeginAgainIInv ==
  ASSUME IInv, con' = Down, UNCHANGED <<sourceVars, catalogVars, sinkVars>>
  PROVE  IInv'
<1>1. length \in Nat
  BY Zenon DEF IInv, TypeOK
<1>. QED
  BY <1>1, DownFits, ConsumerNow, Zenon

\* The consumer while it handles a segment.
LEMMA InSegment ==
  ASSUME IInv, con.pc = "handle"
  PROVE  /\ con \in ConsumerType /\ length \in Nat /\ con.cp \in Nat /\ con.scp \in Nat
         /\ con.end \in Nat /\ con.feed \in Node /\ con.cp <= length
         /\ con.scp <= con.end /\ con.end <= length
         /\ con.todo = {o \in Wanted : con.scp <= o /\ o < con.end}
         /\ con.behind => con.from < length
<1>1. con \in ConsumerType /\ ConsumerFits(con) /\ length \in Nat
  BY Zenon DEF IInv, TypeOK, ConsumerOK
<1>2. con.cp \in Nat /\ con.scp \in Nat /\ con.end \in Nat
  BY <1>1, Zenon DEF ConsumerType
<1>3. con.pc # "down"
  OBVIOUS
<1>. QED
  BY <1>1, <1>2, <1>3, Zenon DEF ConsumerFits

\* ConsumeSegment has returned: nothing is left to be handled up to the
\* segment's end.
LEMMA SegmentConsumedIInv ==
  ASSUME IInv, SegmentConsumed
  PROVE  IInv'
<1> DEFINE c == [con EXCEPT !.pc = "consume", !.cp = con.end, !.confirmed = TRUE]
           d == [con EXCEPT !.pc = "read", !.cp = con.end]
<1>1. /\ con.pc = "handle" /\ con.todo = {} /\ UNCHANGED <<sourceVars, catalogVars, sinkVars>>
      /\ con' = c \/ con' = d \/ con' = OnCurrentFeed(c)
  <2>1. con.pc = "handle" /\ con.todo = {} /\ UNCHANGED <<sourceVars, catalogVars, sinkVars>>
    BY Zenon DEF SegmentConsumed, ConsumerFrame
  <2>2. con' = IF con.reading /\ con.end < CachedSegment.begin
               THEN IF ~con.exhausted THEN d ELSE IF Closed THEN OnCurrentFeed(c) ELSE c
               ELSE c
    BY Zenon DEF SegmentConsumed
  <2> HIDE DEF c, d
  <2>. QED
    BY <2>1, <2>2, Zenon
<1>2. /\ con \in ConsumerType /\ length \in Nat /\ con.cp \in Nat /\ con.scp \in Nat
      /\ con.end \in Nat /\ con.feed \in Node /\ con.cp <= length
      /\ con.scp <= con.end /\ con.end <= length
      /\ con.todo = {o \in Wanted : con.scp <= o /\ o < con.end}
      /\ con.behind => con.from < length
  BY <1>1, InSegment, Zenon
<1>3. \A o \in Wanted : con.scp <= o => con.end <= o
  <2>1. \A o \in Wanted : ~(con.scp <= o /\ o < con.end)
    BY <1>1, <1>2, Zenon
  <2>2. Wanted \subseteq Nat
    BY FeedAssumption, OffsetsFinite, Zenon
  <2>. QED
    BY <1>2, <2>1, <2>2
<1>4. /\ c \in ConsumerType /\ c.pc = "consume" /\ c.cp = con.end /\ c.scp = con.scp
      /\ c.feed = con.feed /\ c.behind = con.behind /\ c.from = con.from
  BY <1>2, Zenon DEF ConsumerType
<1>5. /\ d \in ConsumerType /\ d.pc = "read" /\ d.cp = con.end /\ d.scp = con.scp
      /\ d.feed = con.feed /\ d.behind = con.behind /\ d.from = con.from
  BY <1>2, Zenon DEF ConsumerType
<1> HIDE DEF c, d
<1>6. ConsumerFits(c) /\ ConsumerFits(d)
  BY <1>2, <1>3, <1>4, <1>5 DEF ConsumerFits
<1>7. OnCurrentFeed(c) \in ConsumerType /\ ConsumerFits(OnCurrentFeed(c))
  BY <1>2, <1>3, <1>4, OnCurrentFeedFits, Zenon
<1>. QED
  BY <1>1, <1>4, <1>5, <1>6, <1>7, ConsumerNow, Zenon

\* The handler applies the first wanted event at or after its checkpoint.
LEMMA HandledNext ==
  ASSUME IInv, NEW o \in Wanted, stored <= o, o < length,
         \A p \in Wanted : stored <= p => o <= p,
         stored' = o + 1, handled' = Append(handled, o), length' = length
  PROVE  /\ stored' \in Nat /\ handled' \in Seq(Nat) /\ (stored <= length)'
         /\ HandledOnceInOrder'
<1>1. /\ stored \in Nat /\ handled \in Seq(Nat) /\ length \in Nat /\ o \in Nat
      /\ Wanted \subseteq Nat
  BY FeedAssumption, OffsetsFinite, Zenon DEF IInv, TypeOK
<1>2. /\ handled' \in Seq(Nat) /\ Len(handled') = Len(handled) + 1 /\ Len(handled) \in Nat
      /\ \A i \in 1 .. Len(handled) + 1 : handled'[i] = IF i <= Len(handled) THEN handled[i] ELSE o
  BY <1>1
<1>3. /\ {handled[i] : i \in 1 .. Len(handled)} = {p \in Wanted : p < stored}
      /\ \A i, j \in 1 .. Len(handled) : i < j => handled[i] < handled[j]
  BY Zenon DEF IInv, HandledOnceInOrder
<1>4. \A i \in 1 .. Len(handled) : handled[i] \in Wanted /\ handled[i] < stored
  BY <1>3, Zenon
<1>5. \A p \in Wanted : p < o + 1 <=> p < stored \/ p = o
  BY <1>1
<1>6. {handled'[i] : i \in 1 .. Len(handled')} = {p \in Wanted : p < o + 1}
  <2>1. ASSUME NEW i \in 1 .. Len(handled) + 1
        PROVE  handled'[i] \in Wanted /\ handled'[i] < o + 1
    <3>1. CASE i <= Len(handled)
      <4>1. i \in 1 .. Len(handled) /\ handled'[i] = handled[i]
        BY <1>2, <3>1
      <4>. QED
        BY <1>4, <1>5, <4>1, Zenon
    <3>2. CASE ~(i <= Len(handled))
      BY <1>1, <1>2, <3>2
    <3>. QED
      BY <3>1, <3>2, Zenon
  <2>2. ASSUME NEW p \in Wanted, p < o + 1
        PROVE  \E i \in 1 .. Len(handled) + 1 : p = handled'[i]
    <3>1. CASE p = o
      <4>1. Len(handled) + 1 \in 1 .. Len(handled) + 1 /\ handled'[Len(handled) + 1] = o
        BY <1>2
      <4>. QED
        BY <3>1, <4>1, Zenon
    <3>2. CASE p < stored
      <4>1. PICK i \in 1 .. Len(handled) : p = handled[i]
        BY <1>3, <3>2, Zenon
      <4>2. i \in 1 .. Len(handled) + 1 /\ handled'[i] = handled[i]
        BY <1>2, <4>1
      <4>. QED
        BY <4>1, <4>2, Zenon
    <3>. QED
      BY <1>5, <2>2, <3>1, <3>2, Zenon
  <2>3. Len(handled') = Len(handled) + 1
    BY <1>2, Zenon
  <2>. QED
    BY <2>1, <2>2, <2>3, ZenonT(30)
<1>7. ASSUME NEW i \in 1 .. Len(handled'), NEW j \in 1 .. Len(handled'), i < j
      PROVE  handled'[i] < handled'[j]
  <2>1. i \in 1 .. Len(handled) /\ handled'[i] = handled[i]
    BY <1>2, <1>7
  <2>2. CASE j <= Len(handled)
    <3>1. j \in 1 .. Len(handled) /\ handled'[j] = handled[j]
      BY <1>2, <2>2
    <3>. QED
      BY <1>3, <1>7, <2>1, <3>1, Zenon
  <2>3. CASE ~(j <= Len(handled))
    <3>1. handled'[j] = o
      BY <1>2, <2>3, SMTT(30)
    <3>2. handled[i] \in Nat /\ handled[i] < stored
      BY <1>1, <1>4, <2>1, Zenon
    <3>. QED
      BY <1>1, <2>1, <3>1, <3>2, SMTT(30)
  <2>. QED
    BY <2>2, <2>3, Zenon
<1>8. stored' \in Nat /\ (stored <= length)'
  BY <1>1
<1>. QED
  BY <1>2, <1>6, <1>7, <1>8, Zenon DEF HandledOnceInOrder

\* The first event that is left of a segment is the first wanted one at or
\* after the stored checkpoint.
LEMMA FirstLeft ==
  ASSUME IInv, con.pc = "handle", con.todo # {}, con.scp = stored
  PROVE  /\ Wanted \subseteq Nat /\ con.todo \subseteq Wanted
         /\ Min(con.todo) \in Wanted /\ Min(con.todo) \in Nat /\ stored <= Min(con.todo)
         /\ Min(con.todo) < con.end /\ Min(con.todo) < length
         /\ \A p \in Wanted : stored <= p => Min(con.todo) <= p
<1> DEFINE o == Min(con.todo)
<1>1. con.todo # {} /\ con.scp = stored
  OBVIOUS
<1>3. /\ con \in ConsumerType /\ length \in Nat /\ con.cp \in Nat /\ con.scp \in Nat
      /\ con.end \in Nat /\ con.feed \in Node /\ con.cp <= length
      /\ con.scp <= con.end /\ con.end <= length
      /\ con.todo = {p \in Wanted : con.scp <= p /\ p < con.end}
  BY InSegment, Zenon
<1>4. Wanted \subseteq Nat /\ con.todo \subseteq Wanted /\ con.todo \subseteq Nat
  <2>1. Wanted \subseteq Nat
    BY FeedAssumption, OffsetsFinite, Zenon
  <2>. QED
    BY <1>3, <2>1, Zenon
<1>5. o \in con.todo /\ \A p \in con.todo : o <= p
  BY <1>1, <1>4, MinFacts, Zenon
<1> HIDE DEF o
<1>6. o \in Wanted /\ o \in Nat /\ con.scp <= o /\ o < con.end /\ o < length
  <2>1. o \in Wanted /\ con.scp <= o /\ o < con.end
    BY <1>3, <1>5, Zenon
  <2>. QED
    BY <1>3, <1>4, <2>1
<1>7. \A p \in Wanted : stored <= p => o <= p
  <2>1. \A p \in Wanted : stored <= p /\ p < con.end => o <= p
    BY <1>1, <1>3, <1>5, Zenon
  <2>2. \A p \in Wanted : ~(p < con.end) => o <= p
    BY <1>3, <1>4, <1>6
  <2>. QED
    BY <2>1, <2>2, Zenon
<1>. QED
  BY <1>1, <1>4, <1>6, <1>7, Zenon DEF o

\* ConsumeSegment hands the first event that is left to the handler.
LEMMA HandleEventIInv ==
  ASSUME IInv, HandleEvent
  PROVE  IInv'
<1> DEFINE o == Min(con.todo)
           c == [con EXCEPT !.todo = con.todo \ {o}, !.scp = o + 1]
<1>1. /\ con.pc = "handle" /\ con.todo # {} /\ con.scp = stored
      /\ stored' = o + 1 /\ handled' = Append(handled, o)
      /\ con' = c \/ con' = Down
      /\ UNCHANGED <<sourceVars, catalogVars>>
  BY Zenon DEF HandleEvent
<1>2. length' = length
  BY <1>1, Zenon DEF sourceVars
<1>3. /\ con \in ConsumerType /\ length \in Nat /\ con.cp \in Nat /\ con.scp \in Nat
      /\ con.end \in Nat /\ con.feed \in Node /\ con.cp <= length
      /\ con.scp <= con.end /\ con.end <= length
      /\ con.todo = {p \in Wanted : con.scp <= p /\ p < con.end}
      /\ con.behind => con.from < length
  BY <1>1, InSegment, Zenon
<1>4. /\ Wanted \subseteq Nat /\ con.todo \subseteq Wanted
      /\ o \in Wanted /\ o \in Nat /\ con.scp <= o /\ o < con.end /\ o < length
      /\ \A p \in Wanted : stored <= p => o <= p
  BY <1>1, FirstLeft, Zenon
<1> HIDE DEF o
<1>8. /\ stored' \in Nat /\ handled' \in Seq(Nat) /\ (stored <= length)'
      /\ HandledOnceInOrder'
  BY <1>1, <1>2, <1>4, HandledNext, Zenon
<1>9. c \in ConsumerType /\ ConsumerFits(c)
  <2>1. \A p \in Wanted : (con.scp <= p /\ p < con.end /\ p # o) <=> (o + 1 <= p /\ p < con.end)
    <3>1. \A p \in Wanted : con.scp <= p => o <= p
      BY <1>1, <1>4, Zenon
    <3>. QED
      BY <1>3, <1>4, <3>1
  <2>2. con.todo \ {o} = {p \in Wanted : o + 1 <= p /\ p < con.end}
    BY <1>3, <2>1, Zenon
  <2>3. o + 1 \in Nat /\ o + 1 <= con.end
    BY <1>3, <1>4
  <2>4. con.todo \ {o} \subseteq Wanted
    BY <1>4, Zenon
  <2>5. /\ c \in ConsumerType /\ c.pc = con.pc /\ c.scp = o + 1 /\ c.todo = con.todo \ {o}
        /\ c.end = con.end /\ c.cp = con.cp /\ c.feed = con.feed
        /\ c.behind = con.behind /\ c.from = con.from
    BY <1>3, <2>3, <2>4, Zenon DEF ConsumerType
  <2> HIDE DEF c
  <2>. QED
    BY <1>1, <1>3, <2>2, <2>3, <2>5, SMTT(30) DEF ConsumerFits
<1> HIDE DEF c
<1>10. con' \in ConsumerType /\ ConsumerFits(con')
  BY <1>1, <1>3, <1>9, DownFits, Zenon
<1>11. ConsumerOK'
  BY <1>2, <1>10, Zenon DEF ConsumerOK, ConsumerFits
<1>. QED
  BY <1>1, <1>8, <1>10, <1>11, ConsumerMoves, Zenon

\* The same of what the stream has at or after the stored checkpoint.
LEMMA FirstRest ==
  ASSUME IInv, NEW rest, rest = {p \in Wanted : stored <= p /\ p < length}, rest # {}
  PROVE  /\ Min(rest) \in Wanted /\ stored <= Min(rest) /\ Min(rest) < length
         /\ \A p \in Wanted : stored <= p => Min(rest) <= p
<1> DEFINE o == Min(rest)
<1>1. Wanted \subseteq Nat /\ rest \subseteq Nat /\ length \in Nat
  <2>1. Wanted \subseteq Nat
    BY FeedAssumption, OffsetsFinite, Zenon
  <2>. QED
    BY <2>1, Zenon DEF IInv, TypeOK
<1>2. o \in rest /\ \A p \in rest : o <= p
  BY <1>1, MinFacts, Zenon
<1> HIDE DEF o
<1>3. o \in Wanted /\ stored <= o /\ o < length
  BY <1>2, Zenon
<1>4. \A p \in Wanted : stored <= p /\ p < length => o <= p
  BY <1>2, Zenon
<1>5. \A p \in Wanted : ~(p < length) => o <= p
  BY <1>1, <1>3
<1>. QED
  BY <1>3, <1>4, <1>5, Zenon DEF o

\* The consumer on another node does the same with the handler.
LEMMA HandledElsewhereIInv ==
  ASSUME IInv, HandledElsewhere
  PROVE  IInv'
<1> DEFINE rest == {p \in Wanted : stored <= p /\ p < length}
           o == Min(rest)
<1>1. /\ rest # {} /\ stored' = o + 1 /\ handled' = Append(handled, o)
      /\ UNCHANGED <<sourceVars, catalogVars, con>>
  BY Zenon DEF HandledElsewhere
<1>2. length' = length /\ con' = con
  BY <1>1, Zenon DEF sourceVars
<1>3. /\ o \in Wanted /\ stored <= o /\ o < length
      /\ \A p \in Wanted : stored <= p => o <= p
  BY <1>1, FirstRest, Zenon
<1>4. /\ stored' \in Nat /\ handled' \in Seq(Nat) /\ (stored <= length)'
      /\ HandledOnceInOrder'
  BY <1>1, <1>2, <1>3, HandledNext, Zenon
<1>5. con' \in ConsumerType /\ ConsumerOK'
  BY <1>2, Zenon DEF IInv, TypeOK, ConsumerOK, ConsumerFits
<1>. QED
  BY <1>1, <1>4, <1>5, ConsumerMoves, Zenon

-------------------------------------------------------------------------------
(***************************************************************************)
(* The invariant and what follows from it.                                 *)
(***************************************************************************)
\* Nothing is followed, watched, cached or handled to begin with.
LEMMA InitIInv == Init => IInv
<1> SUFFICES ASSUME Init PROVE IInv
  OBVIOUS
<1>1. /\ length = 1 /\ follower = [n \in Node |-> Idle]
      /\ offsets = [n \in Node |-> NoOffset] /\ watcher = [n \in Node |-> NoWatcher]
      /\ feed = [n \in Node |-> "none"] /\ cache = [n \in Node |-> Reset(0)]
      /\ current = NoFeed /\ con = Down /\ stored = 0 /\ handled = <<>>
  BY Zenon DEF Init, SourceInit
<1>2. length \in Nat /\ 0 <= length /\ stored \in Nat /\ 0 \in Nat /\ stored <= length
  BY <1>1
<1>3. Idle \in FollowerType /\ Idle.pc = "down" /\ Idle.next = 0
  <2>1. Segment(0, 0, {}) \in SegmentType
    BY DEF Segment, SegmentType
  <2>2. Idle \in FollowerType
    BY <2>1, Zenon DEF Idle, FollowerType
  <2>. QED
    BY <2>2 DEF Idle
<1>4. /\ Reset(0) \in SegmentType /\ Exact(Reset(0), Watched) /\ Reset(0).events = {}
  <2>1. Reset(0) \in SegmentType /\ Exact(Reset(0), Watched)
    BY <1>2, FeedAssumption, EmptyExact, Zenon DEF Reset
  <2>2. Reset(0).events = {}
    BY DEF Reset, Segment
  <2>. QED
    BY <2>1, <2>2, Zenon
<1>5. /\ con \in ConsumerType /\ ConsumerOK
  BY <1>1, <1>2, DownFits, Zenon DEF ConsumerOK
<1>6. handled \in Seq(Nat) /\ Len(handled) = 0
  BY <1>1
<1>7. TypeOK
  BY <1>1, <1>2, <1>3, <1>4, <1>5, <1>6, NothingUndelivered, ZenonT(30) DEF TypeOK
<1>8. ASSUME NEW n \in Node PROVE FollowerOK(n) /\ WatcherOK(n) /\ CacheOK(n)
  <2>1. follower[n] = Idle /\ offsets[n] = NoOffset /\ watcher[n] = NoWatcher /\ cache[n] = Reset(0)
    BY <1>1, Zenon
  <2>2. FollowerOK(n)
    BY <1>2, <1>3, <2>1 DEF FollowerOK, Opened
  <2>3. Undelivered(n) = <<>>
    BY <2>1, NothingUndelivered, Zenon DEF Undelivered
  <2>4. WatcherOK(n)
    BY <2>3, NothingUndelivered, Zenon DEF WatcherOK
  <2>5. Cardinality({}) = 0 /\ 0 <= Capacity
    BY FS_EmptySet, FeedAssumption
  <2>6. CacheOK(n)
    BY <1>4, <2>1, <2>5, Zenon DEF CacheOK
  <2>. QED
    BY <2>2, <2>4, <2>6, Zenon
<1>9. HandledOnceInOrder
  <2>1. \A i : ~(i \in 1 .. Len(handled))
    BY <1>6
  <2>2. \A o \in Wanted : ~(o < stored)
    <3>1. Wanted \subseteq Nat
      BY FeedAssumption, OffsetsFinite, Zenon
    <3>. QED
      BY <1>1, <3>1
  <2>. QED
    BY <2>1, <2>2, Zenon DEF HandledOnceInOrder
<1>. QED
  BY <1>2, <1>5, <1>7, <1>8, <1>9, Zenon DEF IInv

\* A step of a node's bus, source or call to Catalog.Watch.
LEMMA NodeStepIInv ==
  ASSUME IInv, NEW n \in Node,
         \/ BusStep(n) \/ BusFault(n) \/ SourceStep(n) \/ SourceFault(n)
         \/ CatalogStep(n) \/ CatalogFault(n)
  PROVE  IInv'
<1>1. CASE BusStep(n) \/ BusFault(n)
  BY <1>1, UntouchedIInv, Zenon DEF BusStep, BusFault, NotFeed
<1>2. CASE SourceStep(n)
  BY <1>2, WaitIInv, LoadWatchOffsetIInv, LoadNextIInv, DeliverIInv, Zenon DEF SourceStep, FollowerStep
<1>3. CASE SourceFault(n)
  BY <1>3, FollowFailsIInv, Zenon DEF SourceFault
<1>4. CASE CatalogStep(n)
  BY <1>4, BeginWatchIInv, WatchSegmentIInv, WatchEndsIInv, Zenon DEF CatalogStep
<1>5. CASE CatalogFault(n)
  BY <1>5, WatchEndsIInv, Zenon DEF CatalogFault
<1>. QED
  BY <1>1, <1>2, <1>3, <1>4, <1>5, Zenon

\* A step of the stream consumer, here or on another node.
LEMMA ConsumerStepIInv ==
  ASSUME IInv, ConsumerStep \/ ConsumerFails \/ HandledElsewhere
  PROVE  IInv'
<1>1. CASE HandleConflict \/ ConsumerFails
  BY <1>1, BeginAgainIInv, Zenon DEF HandleConflict, ConsumerFails, ConsumerFrame
<1>2. CASE StartConsumer
  BY <1>2, StartConsumerIInv, Zenon
<1>3. CASE ServeFromCache
  BY <1>3, ServeFromCacheIInv, ZenonT(30)
<1>4. CASE StartRead
  BY <1>4, StartReadIInv, Zenon
<1>5. CASE LeaveClosedFeed
  BY <1>5, LeaveClosedFeedIInv, Zenon
<1>6. CASE ReadSegment
  BY <1>6, ReadSegmentIInv, Zenon
<1>7. CASE HandleEvent
  BY <1>7, HandleEventIInv, Zenon
<1>8. CASE SegmentConsumed
  BY <1>8, SegmentConsumedIInv, Zenon
<1>9. CASE HandledElsewhere
  BY <1>9, HandledElsewhereIInv, Zenon
<1>. QED
  BY <1>1, <1>2, <1>3, <1>4, <1>5, <1>6, <1>7, <1>8, <1>9, ZenonT(30) DEF ConsumerStep

\* Every step of the catalog, its sources and the consumer keeps the invariant.
LEMMA NextIInv == IInv /\ [Next]_vars => IInv'
<1> SUFFICES ASSUME IInv, [Next]_vars PROVE IInv'
  OBVIOUS
<1>1. CASE Next
  BY <1>1, StreamGrowsIInv, ConsumerStepIInv, NodeStepIInv, Zenon DEF Next
<1>2. CASE UNCHANGED vars
  BY <1>2, UntouchedIInv, Zenon DEF vars
<1>. QED
  BY <1>1, <1>2, Zenon

(***************************************************************************)
(* What the follower, the watchers, the caches and the consumer hold fits  *)
(* together in every state the system reaches.                             *)
(***************************************************************************)
THEOREM DeliveryInvariant == Spec => []IInv
  BY InitIInv, NextIInv, PTL DEF Spec

(***************************************************************************)
(* A call to Local.Watch never skips or repeats an offset: register gives  *)
(* it an opening segment that leads up to the next one delivered, and      *)
(* deliver and fail remove the watcher whenever they cannot go on.         *)
(***************************************************************************)
THEOREM WatchesContiguous == Spec => []WatchContiguous
<1>1. IInv => WatchContiguous
  BY Zenon DEF IInv, WatcherOK, Contiguous, WatchContiguous
<1>. QED
  BY <1>1, DeliveryInvariant, PTL

(***************************************************************************)
(* Cache.Append never leaves a cache that lacks an event of the range it   *)
(* claims, or exceeds its capacity: eviction moves the beginning of the    *)
(* range past all it evicts, and feed.Append starts over at a gap.         *)
(***************************************************************************)
THEOREM CachesSound == Spec => []CacheSound
<1>1. IInv => CacheSound
  BY Zenon DEF IInv, CacheOK, Exact, CacheSound
<1>. QED
  BY <1>1, DeliveryInvariant, PTL

(***************************************************************************)
(* The projection handles the wanted events of the stream once each and in *)
(* order, whether feed.consume serves them from a cache or feed.read from  *)
(* the source, and however often feeds close, consumers fail or conflict.  *)
(***************************************************************************)
THEOREM ProjectionHandlesOnceInOrder == Spec => []HandledOnceInOrder
<1>1. IInv => HandledOnceInOrder
  BY Zenon DEF IInv
<1>. QED
  BY <1>1, DeliveryInvariant, PTL

(***************************************************************************)
(* feed.read never asks the source for an offset beyond its stream, and    *)
(* when it reads because the consumer is behind the cached segment the     *)
(* source has more to deliver.                                             *)
(***************************************************************************)
THEOREM ReadsAreServable == Spec => []ReadsServable
<1>1. IInv => ReadsServable
  <2> SUFFICES ASSUME IInv, con.pc = "read"
               PROVE  con.cp <= length /\ (con.behind /\ con.cp = con.from => con.cp < length)
    BY Zenon DEF ReadsServable
  <2>1. con.pc \in {"consume", "read"}
    OBVIOUS
  <2>. QED
    BY <2>1, AtCheckpoint, Zenon
<1>. QED
  BY <1>1, DeliveryInvariant, PTL

-------------------------------------------------------------------------------
(***************************************************************************)
(* A step of the projection handler moves its checkpoint forward past the  *)
(* next wanted event and past no other; the checkpoint never goes back,    *)
(* whatever the consumers on this and other nodes do.                      *)
(***************************************************************************)
CheckpointStep ==
  stored' # stored =>
    /\ stored < stored'
    /\ {o \in Wanted : stored <= o /\ o < stored'} = {stored' - 1}
    /\ handled' = Append(handled, stored' - 1)

\* What CheckpointStep says of a step that handles the event o.
LEMMA HandledNextStep ==
  ASSUME IInv, NEW o \in Wanted, stored <= o, \A p \in Wanted : stored <= p => o <= p,
         stored' = o + 1, handled' = Append(handled, o)
  PROVE  CheckpointStep
<1>1. stored \in Nat /\ o \in Nat /\ Wanted \subseteq Nat
  BY FeedAssumption, OffsetsFinite, Zenon DEF IInv, TypeOK
<1>2. stored < o + 1 /\ (o + 1) - 1 = o
  BY <1>1
<1>3. \A p \in Wanted : stored <= p /\ p < o + 1 <=> p = o
  BY <1>1
<1>4. {p \in Wanted : stored <= p /\ p < o + 1} = {o}
  BY <1>3, Zenon
<1>. QED
  BY <1>2, <1>4, Zenon DEF CheckpointStep

\* CheckpointStep, of every step.
THEOREM CheckpointAdvances == Spec => [][CheckpointStep]_vars
<1>1. IInv /\ [Next]_vars => [CheckpointStep]_vars
  <2> SUFFICES ASSUME IInv, Next PROVE CheckpointStep
    BY Zenon
  <2>1. CASE HandleEvent
    <3>1. /\ con.pc = "handle" /\ con.todo # {} /\ con.scp = stored
          /\ stored' = Min(con.todo) + 1 /\ handled' = Append(handled, Min(con.todo))
      BY <2>1, Zenon DEF HandleEvent
    <3>. QED
      BY <3>1, FirstLeft, HandledNextStep, Zenon
  <2>2. CASE HandledElsewhere
    <3> DEFINE rest == {p \in Wanted : stored <= p /\ p < length}
    <3>1. rest # {} /\ stored' = Min(rest) + 1 /\ handled' = Append(handled, Min(rest))
      BY <2>2, Zenon DEF HandledElsewhere
    <3>2. /\ Min(rest) \in Wanted /\ stored <= Min(rest)
          /\ \A p \in Wanted : stored <= p => Min(rest) <= p
      BY <3>1, FirstRest, Zenon
    <3> HIDE DEF rest
    <3>. QED
      BY <3>1, <3>2, HandledNextStep, Zenon
  <2>3. CASE ~HandleEvent /\ ~HandledElsewhere
    <3>1. stored' = stored
      BY <2>3, Zenon DEF Next, StreamGrows, NotFeed, sinkVars, ConsumerStep, ConsumerFails,
         ConsumerFrame, StartConsumer, ServeFromCache, StartRead, LeaveClosedFeed, ReadSegment,
         HandleConflict, SegmentConsumed, BusStep, BusFault, SourceStep, SourceFault,
         CatalogStep, CatalogFault, BeginWatch, WatchSegment, WatchReturns, WatchBreaks, EndWatch
    <3>. QED
      BY <3>1, Zenon DEF CheckpointStep
  <2>. QED
    BY <2>1, <2>2, <2>3, Zenon
<1>. QED
  BY <1>1, DeliveryInvariant, PTL DEF Spec
==============================================================================
