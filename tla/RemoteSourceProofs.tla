-------------------------- MODULE RemoteSourceProofs --------------------------
(***************************************************************************)
(* The properties of RemoteSource, for any streams, events, filters, sizes *)
(* of events and limits on segments, and any number of faults.             *)
(***************************************************************************)
EXTENDS RemoteSource, SequenceTheorems, WellFoundedInduction, TLAPS

-------------------------------------------------------------------------------
(* Induction over data.                                                    *)

\* A set that holds 0, and n + 1 with n, holds every natural number: otherwise
\* it lacks a least one.
LEMMA SetInduction ==
  ASSUME NEW S, 0 \in S, \A n \in Nat : n \in S => n + 1 \in S
  PROVE  \A n \in Nat : n \in S
<1> DEFINE R == OpToRel(<, Nat)
           T == Nat \ S
<1>1. IsWellFoundedOn(R, Nat)
  BY NatLessThanWellFounded, Zenon
<1>2. \A x, y \in Nat : x < y => <<x, y>> \in R
  BY DEF OpToRel
<1> HIDE DEF R
<1>3. SUFFICES ASSUME T # {} PROVE FALSE
  BY Zenon
<1>4. PICK x \in T : \A y \in T : ~(<<y, x>> \in R)
  BY <1>1, <1>3, WFMin, Zenon
<1>5. x \in Nat /\ x # 0
  BY Zenon
<1>6. x - 1 \in Nat /\ x - 1 < x /\ (x - 1) + 1 = x
  BY <1>5
<1>7. x - 1 \in S
  BY <1>2, <1>4, <1>5, <1>6, Zenon
<1>. QED
  BY <1>6, <1>7, Zenon

\* f holds the values that L steps compute from a first one.
Computes(f, L, V, base, step) ==
  f \in [0 .. L -> V] /\ f[0] = base /\ \A i \in 1 .. L : f[i] = step[i][f[i - 1]]

\* L steps, each a function of the values V.
Steps(L, V) == [1 .. L -> [V -> V]]

\* Such values exist, so that a recursive definition defines what it says.
LEMMA StepsExist ==
  ASSUME NEW V, NEW base \in V, NEW L \in Nat, NEW step \in Steps(L, V)
  PROVE  \E f : Computes(f, L, V, base, step)
<1>0. step \in [1 .. L -> [V -> V]]
  BY Zenon DEF Steps
<1> DEFINE Good(n, f) == /\ f \in [0 .. n -> V] /\ f[0] = base
                         /\ \A i \in 1 .. n : f[i] = step[i][f[i - 1]]
           S == {n \in Nat : n <= L => \E f \in [0 .. n -> V] : Good(n, f)}
<1>1. 0 \in S
  <2> DEFINE f == [i \in 0 .. 0 |-> base]
  <2>1. f \in [0 .. 0 -> V] /\ f[0] = base /\ \A i \in 1 .. 0 : f[i] = step[i][f[i - 1]]
    OBVIOUS
  <2> HIDE DEF f
  <2>2. \E h \in [0 .. 0 -> V] : Good(0, h)
    BY <2>1, Zenon
  <2>3. 0 \in Nat
    OBVIOUS
  <2> HIDE DEF Good
  <2>. QED
    BY <2>2, <2>3, Zenon
<1>2. ASSUME NEW n \in Nat, n \in S
      PROVE  n + 1 \in S
  <2>0. n + 1 \in Nat
    OBVIOUS
  <2>1. SUFFICES ASSUME n + 1 <= L
                 PROVE  \E f \in [0 .. n + 1 -> V] : Good(n + 1, f)
    BY <2>0, Zenon
  <2>2. n <= L
    BY <2>1
  <2>3. PICK f \in [0 .. n -> V] : Good(n, f)
    BY <1>2, <2>2, Zenon
  <2> DEFINE v == step[n + 1][f[n]]
             g == [i \in 0 .. n + 1 |-> IF i = n + 1 THEN v ELSE f[i]]
  <2>4. n + 1 \in 1 .. L /\ n \in 0 .. n /\ n + 1 \in 0 .. n + 1 /\ (n + 1) - 1 = n /\ n # n + 1
    BY <2>1
  <2>5. v \in V
    BY <1>0, <2>3, <2>4, Zenon
  <2>6. \A i \in 0 .. n + 1 : i # n + 1 => i \in 0 .. n
    OBVIOUS
  <2> HIDE DEF v
  <2>7. g \in [0 .. n + 1 -> V]
    BY <2>3, <2>5, <2>6, Zenon
  <2>8. \A i \in 0 .. n : i \in 0 .. n + 1 /\ i # n + 1
    OBVIOUS
  <2>9. g[n + 1] = v /\ \A i \in 0 .. n : g[i] = f[i]
    BY <2>4, <2>8, Zenon
  <2> HIDE DEF g
  <2>10. 0 \in 0 .. n
    OBVIOUS
  <2>11. ASSUME NEW i \in 1 .. n + 1
         PROVE  g[i] = step[i][g[i - 1]]
    <3>1. CASE i = n + 1
      BY <2>4, <2>9, <3>1, Zenon DEF v
    <3>2. CASE i # n + 1
      <4>1. i \in 1 .. n /\ i \in 0 .. n /\ i - 1 \in 0 .. n
        BY <3>2
      <4>. QED
        BY <2>3, <2>9, <4>1, Zenon
    <3>. QED
      BY <3>1, <3>2, Zenon
  <2>. QED
    BY <2>3, <2>7, <2>9, <2>10, <2>11, Zenon
<1> HIDE DEF S
<1>3. L \in S
  BY <1>1, <1>2, SetInduction, Zenon
<1>4. L <= L
  OBVIOUS
<1>. QED
  BY <1>3, <1>4, Zenon DEF S, Computes


-------------------------------------------------------------------------------
(* Lists of events.                                                        *)

\* The events of the source.
Env == [stream : Stream, offset : Offset, type : {TypeOf[o] : o \in Offset}]

\* q lists the events of stream s at the offsets of S, in their order.
Lists(q, s, S) ==
  /\ q \in Seq(Env)
  /\ \A i \in 1 .. Len(q) : q[i].offset \in S /\ q[i] = Envelope(s, q[i].offset)
  /\ \A i, j \in 1 .. Len(q) : i < j => q[i].offset < q[j].offset
  /\ \A o \in S : \E i \in 1 .. Len(q) : q[i].offset = o

\* The offsets of a segment's events.
Chosen(s, b, e) == {o \in Offset : InSegment(s, o, b, e)}

\* The offset of an event is a natural number.
LEMMA Offsets ==
  /\ MaxLength \in Nat /\ Offset \subseteq Nat
  /\ \A o \in Offset : o < MaxLength
  BY RemoteAssumption DEF Offset

\* An event of a stream.
LEMMA EnvelopeFacts ==
  ASSUME NEW s \in Stream, NEW o \in Offset
  PROVE  Envelope(s, o) \in Env /\ Envelope(s, o).offset = o
  BY DEF Envelope, Env

\* The elements of a list of events.
LEMMA EnvFacts ==
  ASSUME NEW q \in Seq(Env)
  PROVE  /\ Len(q) \in Nat /\ DOMAIN q = 1 .. Len(q)
         /\ \A i \in 1 .. Len(q) : q[i] \in Env /\ q[i].offset \in Offset /\ q[i].offset \in Nat
<1>1. Len(q) \in Nat /\ DOMAIN q = 1 .. Len(q)
  OBVIOUS
<1>2. \A i \in 1 .. Len(q) : q[i] \in Env
  BY ElementOfSeq
<1>3. \A x \in Env : x.offset \in Offset
  BY DEF Env
<1>. QED
  BY <1>1, <1>2, <1>3, Offsets, Zenon

\* An event of the source is one that may arrive.
LEMMA EnvArrives ==
  ASSUME NEW q \in Seq(Env)
  PROVE  q \in Seq(AnyEnvelope)
<1>1. \A x \in Env : x \in AnyEnvelope
  BY Offsets, RemoteAssumption, Zenon DEF Env, AnyEnvelope
<1>2. \A i \in 1 .. Len(q) : q[i] \in AnyEnvelope
  BY <1>1, EnvFacts, Zenon
<1>3. q = [i \in 1 .. Len(q) |-> q[i]] /\ Len(q) \in Nat
  OBVIOUS
<1>4. [i \in 1 .. Len(q) |-> q[i]] \in Seq(AnyEnvelope)
  BY <1>2, <1>3, IsASeq
<1>. QED
  BY <1>3, <1>4, Zenon

\* The elements of a list of events that arrived.
LEMMA ArrivedFacts ==
  ASSUME NEW q \in Seq(AnyEnvelope)
  PROVE  /\ Len(q) \in Nat /\ DOMAIN q = 1 .. Len(q)
         /\ \A i \in 1 .. Len(q) : q[i].offset \in Nat
<1>1. Len(q) \in Nat /\ DOMAIN q = 1 .. Len(q)
  OBVIOUS
<1>2. \A i \in 1 .. Len(q) : q[i] \in AnyEnvelope
  BY ElementOfSeq
<1>3. \A x \in AnyEnvelope : x.offset \in Nat
  BY DEF AnyEnvelope
<1>. QED
  BY <1>1, <1>2, <1>3, Zenon

\* Two lists of the same events are the same.
LEMMA ListsUnique ==
  ASSUME NEW s, NEW S, NEW q, NEW r, Lists(q, s, S), Lists(r, s, S)
  PROVE  q = r
<1>1. q \in Seq(Env) /\ r \in Seq(Env)
  BY Zenon DEF Lists
<1>2. /\ Len(q) \in Nat /\ \A i \in 1 .. Len(q) : q[i].offset \in Nat
      /\ Len(r) \in Nat /\ \A i \in 1 .. Len(r) : r[i].offset \in Nat
  BY <1>1, EnvFacts, Zenon
<1> DEFINE Same(i) == /\ i \in 1 .. Len(q) <=> i \in 1 .. Len(r)
                      /\ i \in 1 .. Len(q) => q[i] = r[i]
           A == {n \in Nat : \A i \in 1 .. n : Same(i)}
<1>3. ASSUME NEW i \in Nat, \A j \in 1 .. i - 1 : Same(j),
             NEW x, NEW y, Lists(x, s, S), Lists(y, s, S),
             \/ x = q /\ y = r
             \/ x = r /\ y = q,
             i \in 1 .. Len(x)
      PROVE  i \in 1 .. Len(y) /\ y[i].offset <= x[i].offset
  <2>1. PICK j \in 1 .. Len(y) : y[j].offset = x[i].offset
    BY <1>3, Zenon DEF Lists
  <2>2. Len(y) \in Nat /\ \A k \in 1 .. Len(y) : y[k].offset \in Nat
    BY <1>2, <1>3, Zenon
  <2>3. Len(x) \in Nat /\ \A k \in 1 .. Len(x) : x[k].offset \in Nat
    BY <1>2, <1>3, Zenon
  <2>4. ~(j < i)
    <3>1. SUFFICES ASSUME j < i PROVE FALSE
      BY Zenon
    <3>2. j \in 1 .. i - 1 /\ j \in 1 .. Len(x)
      BY <1>3, <2>1, <2>2, <2>3, <3>1
    <3>3. x[j] = y[j]
      BY <1>3, <3>2, Zenon
    <3>4. x[j].offset < x[i].offset
      BY <1>3, <3>1, <3>2, Zenon DEF Lists
    <3>. QED
      BY <2>1, <2>3, <3>2, <3>3, <3>4, <1>3
  <2>5. i \in 1 .. Len(y)
    BY <1>3, <2>1, <2>2, <2>4
  <2>6. CASE j = i
    BY <2>1, <2>2, <2>5, <2>6
  <2>7. CASE i < j
    <3>1. y[i].offset < y[j].offset
      BY <1>3, <2>1, <2>5, <2>7, Zenon DEF Lists
    <3>. QED
      BY <2>1, <2>2, <2>5, <3>1
  <2>. QED
    BY <1>3, <2>1, <2>4, <2>5, <2>6, <2>7, <2>2
<1>4. ASSUME NEW i \in Nat, \A j \in 1 .. i - 1 : Same(j)
      PROVE  Same(i)
  <2>1. i \in 1 .. Len(q) => i \in 1 .. Len(r) /\ r[i].offset <= q[i].offset
    BY <1>3, <1>4, Zenon
  <2>2. i \in 1 .. Len(r) => i \in 1 .. Len(q) /\ q[i].offset <= r[i].offset
    BY <1>3, <1>4, Zenon
  <2>3. i \in 1 .. Len(q) => r[i].offset = q[i].offset
    BY <1>2, <2>1, <2>2
  <2>4. i \in 1 .. Len(q) => q[i] = Envelope(s, q[i].offset)
    BY Zenon DEF Lists
  <2>5. i \in 1 .. Len(r) => r[i] = Envelope(s, r[i].offset)
    BY Zenon DEF Lists
  <2>. QED
    BY <2>1, <2>2, <2>3, <2>4, <2>5, Zenon
<1> HIDE DEF Same
<1>5. 0 \in A
  OBVIOUS
<1>6. ASSUME NEW n \in Nat, n \in A
      PROVE  n + 1 \in A
  <2>1. Same(n + 1)
    BY <1>4, <1>6
  <2>2. \A i \in 1 .. n + 1 : i \in 1 .. n \/ i = n + 1
    OBVIOUS
  <2>. QED
    BY <1>6, <2>1, <2>2
<1> HIDE DEF A
<1>7. \A n \in Nat : n \in A
  BY <1>5, <1>6, SetInduction, Zenon
<1>9. \A i \in 1 .. Len(q) : Same(i)
  BY <1>2, <1>7, Zenon DEF A
<1>10. \A i \in 1 .. Len(r) : Same(i)
  BY <1>2, <1>7, Zenon DEF A
<1>11. Len(q) = Len(r)
  <2>1. Len(q) \in 1 .. Len(q) => Len(q) \in 1 .. Len(r)
    BY <1>9, Zenon DEF Same
  <2>2. Len(r) \in 1 .. Len(r) => Len(r) \in 1 .. Len(q)
    BY <1>10, Zenon DEF Same
  <2>. QED
    BY <1>2, <2>1, <2>2
<1>12. \A i \in 1 .. Len(q) : q[i] = r[i]
  BY <1>9, Zenon DEF Same
<1>. QED
  BY <1>1, <1>11, <1>12, SeqEqual

\* Memory.segment appends an event that follows those of the list.
LEMMA ListsAppend ==
  ASSUME NEW s \in Stream, NEW S, NEW q, Lists(q, s, S), NEW o \in Offset, \A p \in S : p < o
  PROVE  Lists(Append(q, Envelope(s, o)), s, S \union {o})
<1> DEFINE x == Envelope(s, o)
           r == Append(q, x)
<1>1. x \in Env /\ x.offset = o /\ q \in Seq(Env)
  BY EnvelopeFacts, Zenon DEF Lists
<1>2. Len(q) \in Nat
  BY <1>1, EnvFacts, Zenon
<1> HIDE DEF x
<1>3. /\ r \in Seq(Env) /\ Len(r) = Len(q) + 1
      /\ \A i \in 1 .. Len(q) : r[i] = q[i]
      /\ r[Len(q) + 1] = x
  BY <1>1, AppendProperties
<1> HIDE DEF r
<1>4. \A i \in 1 .. Len(r) : i \in 1 .. Len(q) \/ i = Len(q) + 1
  BY <1>2, <1>3
<1>5. \A i \in 1 .. Len(q) : i \in 1 .. Len(r)
  BY <1>2, <1>3
<1>6. Len(q) + 1 \in 1 .. Len(r)
  BY <1>2, <1>3
<1>7. \A i \in 1 .. Len(r) : r[i].offset \in S \union {o} /\ r[i] = Envelope(s, r[i].offset)
  BY <1>1, <1>3, <1>4, Zenon DEF Lists, x
<1>8. ASSUME NEW i \in 1 .. Len(r), NEW j \in 1 .. Len(r), i < j
      PROVE  r[i].offset < r[j].offset
  <2>1. i \in 1 .. Len(q)
    BY <1>2, <1>3, <1>8
  <2>2. CASE j = Len(q) + 1
    <3>1. r[i].offset \in S
      BY <1>3, <2>1, Zenon DEF Lists
    <3>. QED
      BY <1>1, <1>3, <2>2, <3>1, Zenon
  <2>3. CASE j \in 1 .. Len(q)
    BY <1>3, <1>8, <2>1, <2>3, Zenon DEF Lists
  <2>. QED
    BY <1>4, <2>2, <2>3, Zenon
<1>9. \A p \in S \union {o} : \E i \in 1 .. Len(r) : r[i].offset = p
  BY <1>1, <1>3, <1>5, <1>6, Zenon DEF Lists
<1>. QED
  BY <1>3, <1>7, <1>8, <1>9, Zenon DEF Lists, r, x

\* What there is of a set of numbers below each number.
LEMMA Below ==
  ASSUME NEW T, T \subseteq Nat, NEW n \in Nat
  PROVE  /\ {o \in T : o < 0} = {}
         /\ n \in T => {o \in T : o < n + 1} = {o \in T : o < n} \union {n}
         /\ n \notin T => {o \in T : o < n + 1} = {o \in T : o < n}
<1>1. \A o \in T : o \in Nat /\ ~(o < 0) /\ (o < n + 1 <=> o < n \/ o = n)
  OBVIOUS
<1>. QED
  BY <1>1, Zenon

\* Memory.segment lists the events of the segment.
LEMMA MemorySegmentLists ==
  ASSUME NEW s \in Stream, NEW b, NEW e
  PROVE  /\ Lists(MemorySegment(s, b, e).envelopes, s, Chosen(s, b, e))
         /\ MemorySegment(s, b, e) = Segment(s, b, e, MemorySegment(s, b, e).envelopes)
<1> DEFINE V == Seq(Env)
           step == [n \in 1 .. MaxLength |-> [v \in V |->
                      IF InSegment(s, n - 1, b, e) THEN Append(v, Envelope(s, n - 1)) ELSE v]]
           Is(f) == f = [n \in 0 .. MaxLength |->
                           IF n = 0 THEN <<>>
                           ELSE IF InSegment(s, n - 1, b, e)
                                THEN Append(f[n - 1], Envelope(s, n - 1))
                           ELSE f[n - 1]]
           envelopes == CHOOSE f : Is(f)
<1>1. MaxLength \in Nat /\ \A n \in 1 .. MaxLength : n - 1 \in Offset
  BY Offsets DEF Offset
<1>2. step \in Steps(MaxLength, V)
  <2>1. ASSUME NEW n \in 1 .. MaxLength, NEW v \in V
        PROVE  (IF InSegment(s, n - 1, b, e) THEN Append(v, Envelope(s, n - 1)) ELSE v) \in V
    <3>1. Envelope(s, n - 1) \in Env
      BY <1>1, EnvelopeFacts, Zenon
    <3>2. Append(v, Envelope(s, n - 1)) \in V
      BY <3>1, AppendProperties
    <3>. QED
      BY <3>2, Zenon
  <2>. QED
    BY <2>1, Zenon DEF Steps
<1>3. <<>> \in V
  OBVIOUS
<1>c. PICK f : Computes(f, MaxLength, V, <<>>, step)
  <2> HIDE DEF V, step
  <2>. QED
    BY <1>1, <1>2, <1>3, StepsExist, Zenon
<1>4. /\ f \in [0 .. MaxLength -> V] /\ f[0] = <<>>
      /\ \A i \in 1 .. MaxLength : f[i] = step[i][f[i - 1]]
  <2> HIDE DEF V, step
  <2>. QED
    BY <1>c, Zenon DEF Computes
<1>5. \A n \in 0 .. MaxLength : n = 0 \/ (n \in 1 .. MaxLength /\ n - 1 \in 0 .. MaxLength)
  BY <1>1
<1>6. \A n \in 1 .. MaxLength : f[n] = IF InSegment(s, n - 1, b, e)
                                       THEN Append(f[n - 1], Envelope(s, n - 1)) ELSE f[n - 1]
  <2>1. ASSUME NEW n \in 1 .. MaxLength
        PROVE  f[n - 1] \in V /\ n \in 0 .. MaxLength
    BY <1>1, <1>4
  <2>. QED
    BY <1>4, <2>1, Zenon
<1> HIDE DEF V, step
<1>7. \E g : Is(g)
  <2>1. \A n \in 0 .. MaxLength : f[n] = IF n = 0 THEN <<>>
                           ELSE IF InSegment(s, n - 1, b, e)
                                THEN Append(f[n - 1], Envelope(s, n - 1))
                           ELSE f[n - 1]
    BY <1>4, <1>5, <1>6, Zenon
  <2>2. Is(f)
    BY <1>4, <2>1, Zenon
  <2>. QED
    BY <2>2, Zenon
<1>8. Is(envelopes)
  BY <1>7, Zenon
<1>9. MemorySegment(s, b, e) = Segment(s, b, e, envelopes[MaxLength])
  BY Zenon DEF MemorySegment
<1> DEFINE before(n) == {o \in Chosen(s, b, e) : o < n}
           A == {n \in Nat : n <= MaxLength => Lists(envelopes[n], s, before(n))}
<1>a. Chosen(s, b, e) \subseteq Nat /\ \A o \in Chosen(s, b, e) : o < MaxLength
  BY Offsets, Zenon DEF Chosen
<1>10. /\ envelopes[0] = <<>>
       /\ \A n \in 1 .. MaxLength :
            envelopes[n] = IF InSegment(s, n - 1, b, e)
                           THEN Append(envelopes[n - 1], Envelope(s, n - 1)) ELSE envelopes[n - 1]
  <2> DEFINE g == envelopes
  <2>1. Is(g)
    BY <1>8, Zenon
  <2> HIDE DEF g
  <2>2. 0 \in 0 .. MaxLength /\ \A n \in 1 .. MaxLength : n \in 0 .. MaxLength /\ n # 0
    BY <1>1
  <2>3. /\ g[0] = <<>>
        /\ \A n \in 1 .. MaxLength :
            g[n] = IF InSegment(s, n - 1, b, e)
                           THEN Append(g[n - 1], Envelope(s, n - 1)) ELSE g[n - 1]
    BY <2>1, <2>2, Zenon
  <2>. QED
    BY <2>3, Zenon DEF g
<1> HIDE DEF envelopes, Is
<1>11. 0 \in A
  <2>0. 0 \in Nat
    OBVIOUS
  <2>1. before(0) = {}
    BY <1>a, <2>0, Below, Zenon
  <2>2. Lists(<<>>, s, {})
    BY DEF Lists
  <2> HIDE DEF before
  <2>. QED
    BY <1>10, <2>0, <2>1, <2>2, Zenon
<1>12. ASSUME NEW n \in Nat, n \in A
       PROVE  n + 1 \in A
  <2>0. n + 1 \in Nat
    OBVIOUS
  <2>1. SUFFICES ASSUME n + 1 <= MaxLength
                 PROVE  Lists(envelopes[n + 1], s, before(n + 1))
    BY <2>0, Zenon
  <2>2. n <= MaxLength /\ n + 1 \in 1 .. MaxLength /\ (n + 1) - 1 = n
    BY <1>1, <2>1
  <2>3. n \in Offset
    BY <1>1, <2>2, Zenon
  <2>4. Lists(envelopes[n], s, before(n))
    BY <1>12, <2>2, Zenon
  <2>5. CASE InSegment(s, n, b, e)
    <3>1. envelopes[n + 1] = Append(envelopes[n], Envelope(s, n))
      BY <1>10, <2>2, <2>5, Zenon
    <3>2. before(n + 1) = before(n) \union {n}
      <4>1. n \in Chosen(s, b, e)
        BY <2>3, <2>5, Zenon DEF Chosen
      <4>. QED
        BY <1>a, <4>1, Below, Zenon
    <3>3. \A p \in before(n) : p < n
      BY Zenon
    <3> DEFINE B == before(n)
    <3> HIDE DEF before
    <3>4. Lists(envelopes[n], s, B) /\ \A p \in B : p < n
      BY <2>4, <3>3, Zenon
    <3> HIDE DEF B
    <3>5. Lists(Append(envelopes[n], Envelope(s, n)), s, B \union {n})
      BY <2>3, <3>4, ListsAppend, Zenon
    <3>. QED
      BY <3>1, <3>2, <3>5, Zenon DEF B
  <2>6. CASE ~InSegment(s, n, b, e)
    <3>1. envelopes[n + 1] = envelopes[n]
      BY <1>10, <2>2, <2>6, Zenon
    <3>2. before(n + 1) = before(n)
      <4>1. n \notin Chosen(s, b, e)
        BY <2>6, Zenon DEF Chosen
      <4>. QED
        BY <1>a, <4>1, Below, Zenon
    <3>. QED
      BY <2>4, <3>1, <3>2, Zenon
  <2>. QED
    BY <2>5, <2>6, Zenon
<1>13. before(MaxLength) = Chosen(s, b, e)
  BY <1>a, Zenon
<1>14. MaxLength \in A
  <2> HIDE DEF A
  <2>. QED
    BY <1>1, <1>11, <1>12, SetInduction, Zenon
<1>b. MaxLength <= MaxLength
  BY <1>1
<1> HIDE DEF before
<1>15. Lists(envelopes[MaxLength], s, Chosen(s, b, e))
  BY <1>b, <1>13, <1>14, Zenon
<1>16. MemorySegment(s, b, e).envelopes = envelopes[MaxLength]
  BY <1>9 DEF Segment
<1>. QED
  BY <1>9, <1>15, <1>16, Zenon

\* The segments of a client are put together.
LEMMA ListsConcat ==
  ASSUME NEW s, NEW S, NEW T, NEW q, NEW r, Lists(q, s, S), Lists(r, s, T),
         \A x \in S, y \in T : x < y
  PROVE  Lists(q \o r, s, S \union T)
<1>1. q \in Seq(Env) /\ r \in Seq(Env)
  BY Zenon DEF Lists
<1>2. Len(q) \in Nat /\ Len(r) \in Nat
  BY <1>1, EnvFacts, Zenon
<1> DEFINE c == q \o r
<1>3. /\ c \in Seq(Env) /\ Len(c) = Len(q) + Len(r)
      /\ \A i \in 1 .. Len(c) : c[i] = IF i <= Len(q) THEN q[i] ELSE r[i - Len(q)]
  BY <1>1, ConcatProperties
<1> HIDE DEF c
<1>4. ASSUME NEW i \in 1 .. Len(c)
      PROVE  \/ i <= Len(q) /\ i \in 1 .. Len(q) /\ c[i] = q[i]
             \/ i > Len(q) /\ i - Len(q) \in 1 .. Len(r) /\ c[i] = r[i - Len(q)]
  BY <1>2, <1>3
<1>5. \A i \in 1 .. Len(q) : i \in 1 .. Len(c) /\ c[i] = q[i]
  BY <1>2, <1>3
<1>6. ASSUME NEW i \in 1 .. Len(r)
      PROVE  i + Len(q) \in 1 .. Len(c) /\ c[i + Len(q)] = r[i]
  <2>1. /\ i + Len(q) \in 1 .. Len(c) /\ ~(i + Len(q) <= Len(q)) /\ (i + Len(q)) - Len(q) = i
    BY <1>2, <1>3
  <2>. QED
    BY <1>3, <2>1, Zenon
<1>7. \A i \in 1 .. Len(c) : c[i].offset \in S \union T /\ c[i] = Envelope(s, c[i].offset)
  BY <1>4, ZenonT(30) DEF Lists
<1>8. ASSUME NEW i \in 1 .. Len(c), NEW j \in 1 .. Len(c), i < j
      PROVE  c[i].offset < c[j].offset
  <2>1. CASE j <= Len(q)
    <3>1. i \in 1 .. Len(q) /\ j \in 1 .. Len(q) /\ c[i] = q[i] /\ c[j] = q[j]
      BY <1>2, <1>3, <1>8, <2>1
    <3>. QED
      BY <1>8, <3>1, Zenon DEF Lists
  <2>2. CASE i > Len(q)
    <3>1. /\ i - Len(q) \in 1 .. Len(r) /\ j - Len(q) \in 1 .. Len(r) /\ i - Len(q) < j - Len(q)
          /\ c[i] = r[i - Len(q)] /\ c[j] = r[j - Len(q)]
      BY <1>2, <1>3, <1>8, <2>2
    <3>. QED
      BY <3>1, Zenon DEF Lists
  <2>3. CASE i <= Len(q) /\ j > Len(q)
    <3>1. i \in 1 .. Len(q) /\ j - Len(q) \in 1 .. Len(r) /\ c[i] = q[i] /\ c[j] = r[j - Len(q)]
      BY <1>2, <1>3, <2>3
    <3>. QED
      BY <3>1, Zenon DEF Lists
  <2>. QED
    BY <1>2, <1>3, <1>8, <2>1, <2>2, <2>3
<1>9. \A o \in S : \E i \in 1 .. Len(c) : c[i].offset = o
  BY <1>5, Zenon DEF Lists
<1>10. ASSUME NEW o \in T PROVE \E i \in 1 .. Len(c) : c[i].offset = o
  <2>1. PICK i \in 1 .. Len(r) : r[i].offset = o
    BY Zenon DEF Lists
  <2>. QED
    BY <1>6, <2>1, Zenon
<1>11. \A o \in S \union T : \E i \in 1 .. Len(c) : c[i].offset = o
  BY <1>9, <1>10, Zenon
<1>. QED
  BY <1>3, <1>7, <1>8, <1>11, Zenon DEF Lists, c

\* The events of adjacent ranges.
LEMMA ChosenFacts ==
  ASSUME NEW s, NEW b \in Nat, NEW x \in Nat, NEW e \in Nat, b <= x, x <= e
  PROVE  /\ Chosen(s, b, e) = Chosen(s, b, x) \union Chosen(s, x, e)
         /\ \A o \in Chosen(s, b, x), p \in Chosen(s, x, e) : o < p
         /\ \A o \in Chosen(s, b, e) : o \in Nat /\ b <= o /\ o < e
         /\ \A o \in Chosen(s, b, e) : o < x => o \in Chosen(s, b, x)
         /\ \A o \in Chosen(s, b, e) : ~(o < x) => o \in Chosen(s, x, e)
<1>1. \A o \in Offset : o \in Nat
  BY Offsets, Zenon
<1>2. \A o \in Nat : /\ (b <= o /\ o < e) <=> ((b <= o /\ o < x) \/ (x <= o /\ o < e))
                     /\ o < x => o < e
                     /\ ~(o < x) => x <= o /\ b <= o
                     /\ x <= o => b <= o
  OBVIOUS
<1>3. \A o, p \in Nat : o < x /\ x <= p => o < p
  OBVIOUS
<1>4. \A o : o \in Chosen(s, b, e) <=> o \in Chosen(s, b, x) \/ o \in Chosen(s, x, e)
  BY <1>1, <1>2, Zenon DEF Chosen, InSegment
<1>5. \A o \in Chosen(s, b, x), p \in Chosen(s, x, e) : o < p
  BY <1>1, <1>3, Zenon DEF Chosen, InSegment
<1>6. \A o \in Chosen(s, b, e) : o \in Nat /\ b <= o /\ o < e
  BY <1>1, Zenon DEF Chosen, InSegment
<1>7. \A o \in Chosen(s, b, e) : o < x => o \in Chosen(s, b, x)
  BY <1>1, <1>2, Zenon DEF Chosen, InSegment
<1>8. \A o \in Chosen(s, b, e) : ~(o < x) => o \in Chosen(s, x, e)
  BY <1>1, <1>2, Zenon DEF Chosen, InSegment
<1>. QED
  BY <1>4, <1>5, <1>6, <1>7, <1>8, Zenon

\* An empty range has no events.
LEMMA ListsNothing ==
  ASSUME NEW s, NEW b \in Nat
  PROVE  Lists(<<>>, s, Chosen(s, b, b))
<1>1. Chosen(s, b, b) = {}
  <2>1. b <= b /\ \A o \in Nat : ~(b <= o /\ o < b)
    OBVIOUS
  <2>. QED
    BY <2>1, Offsets, Zenon DEF Chosen, InSegment
<1>. QED
  BY <1>1 DEF Lists

\* A list of events is cut after k of them, at an offset between the two that
\* the cut separates.
LEMMA ListsCut ==
  ASSUME NEW s, NEW b \in Nat, NEW x \in Nat, NEW e \in Nat, b <= x, x <= e,
         NEW q, Lists(q, s, Chosen(s, b, e)), NEW k \in 0 .. Len(q),
         k >= 1 => q[k].offset < x,
         k < Len(q) => x <= q[k + 1].offset
  PROVE  /\ Lists(SubSeq(q, 1, k), s, Chosen(s, b, x))
         /\ Lists(SubSeq(q, k + 1, Len(q)), s, Chosen(s, x, e))
<1>1. q \in Seq(Env)
  BY Zenon DEF Lists
<1>2. Len(q) \in Nat /\ \A i \in 1 .. Len(q) : q[i].offset \in Nat
  BY <1>1, EnvFacts, Zenon
<1>3. k \in Nat /\ k <= Len(q)
  BY <1>2
<1>4. /\ \A i \in 1 .. Len(q) : q[i].offset \in Chosen(s, b, e) /\ q[i] = Envelope(s, q[i].offset)
      /\ \A i, j \in 1 .. Len(q) : i < j => q[i].offset < q[j].offset
      /\ \A o \in Chosen(s, b, e) : \E i \in 1 .. Len(q) : q[i].offset = o
  BY Zenon DEF Lists
<1>5. ASSUME NEW i \in 1 .. Len(q)
      PROVE  (i <= k => q[i].offset < x) /\ (i > k => ~(q[i].offset < x))
  <2>1. CASE i < k
    <3>1. k \in 1 .. Len(q) /\ k >= 1
      BY <1>3, <1>2, <2>1
    <3>2. q[i].offset < q[k].offset
      BY <1>4, <2>1, <3>1, Zenon
    <3>. QED
      BY <1>2, <1>3, <2>1, <3>1, <3>2
  <2>2. CASE i = k
    BY <1>2, <1>3, <2>2
  <2>3. CASE i = k + 1
    BY <1>2, <1>3, <2>3
  <2>4. CASE i > k + 1
    <3>1. k + 1 \in 1 .. Len(q) /\ k + 1 < i /\ k < Len(q)
      BY <1>3, <1>2, <2>4
    <3>2. q[k + 1].offset < q[i].offset
      BY <1>4, <3>1, Zenon
    <3>. QED
      BY <1>2, <1>3, <2>4, <3>1, <3>2
  <2>. QED
    BY <1>3, <2>1, <2>2, <2>3, <2>4
<1>6. /\ \A o \in Chosen(s, b, e) : o < x => o \in Chosen(s, b, x)
      /\ \A o \in Chosen(s, b, e) : ~(o < x) => o \in Chosen(s, x, e)
      /\ \A o \in Chosen(s, b, x) : o \in Chosen(s, b, e)
      /\ \A o \in Chosen(s, x, e) : o \in Chosen(s, b, e)
  <2>1. Chosen(s, b, e) = Chosen(s, b, x) \union Chosen(s, x, e)
    BY ChosenFacts, SMT
  <2>2. \A o \in Chosen(s, b, e) : o < x => o \in Chosen(s, b, x)
    BY ChosenFacts, SMT
  <2>3. \A o \in Chosen(s, b, e) : ~(o < x) => o \in Chosen(s, x, e)
    BY <2>1, Zenon DEF Chosen, InSegment
  <2>. QED
    BY <2>1, <2>2, <2>3, Zenon
<1>7. /\ \A o \in Chosen(s, b, x) : o < x
      /\ \A o \in Chosen(s, x, e) : ~(o < x)
  <2>1. \A o \in Nat : x <= o => ~(o < x)
    OBVIOUS
  <2>. QED
    BY <2>1, Offsets, Zenon DEF Chosen, InSegment
<1>8. Lists(SubSeq(q, 1, k), s, Chosen(s, b, x))
  <2> DEFINE p == SubSeq(q, 1, k)
  <2>1. p \in Seq(Env) /\ Len(p) = k /\ \A i \in 1 .. k : p[i] = q[i]
    BY <1>1, <1>2, <1>3, SubSeqProperties
  <2> HIDE DEF p
  <2>2. \A i \in 1 .. k : i \in 1 .. Len(q) /\ i <= k
    BY <1>2, <1>3
  <2>3. \A i \in 1 .. Len(p) : p[i].offset \in Chosen(s, b, x) /\ p[i] = Envelope(s, p[i].offset)
    BY <1>4, <1>5, <1>6, <2>1, <2>2, Zenon
  <2>4. \A i, j \in 1 .. Len(p) : i < j => p[i].offset < p[j].offset
    BY <1>4, <2>1, <2>2, Zenon
  <2>5. ASSUME NEW o \in Chosen(s, b, x)
        PROVE  \E i \in 1 .. Len(p) : p[i].offset = o
    <3>1. PICK i \in 1 .. Len(q) : q[i].offset = o
      BY <1>4, <1>6, Zenon
    <3>2. ~(i > k)
      BY <1>5, <1>7, <3>1, Zenon
    <3>3. i \in 1 .. k
      BY <1>3, <3>2
    <3>. QED
      BY <2>1, <3>1, <3>3, Zenon
  <2>. QED
    BY <2>1, <2>3, <2>4, <2>5, Zenon DEF Lists, p
<1>9. Lists(SubSeq(q, k + 1, Len(q)), s, Chosen(s, x, e))
  <2> DEFINE p == SubSeq(q, k + 1, Len(q))
  <2>1. p \in Seq(Env) /\ Len(p) = Len(q) - k /\ \A i \in 1 .. Len(q) - k : p[i] = q[k + i]
    <3>1. \A i \in k + 1 .. Len(q) : i \in 1 .. Len(q)
      BY <1>2, <1>3
    <3>2. /\ p \in Seq(Env)
          /\ Len(p) = IF k + 1 <= Len(q) THEN Len(q) - (k + 1) + 1 ELSE 0
          /\ \A i \in 1 .. Len(q) - (k + 1) + 1 : p[i] = q[(k + 1) + i - 1]
      BY <1>1, <1>2, <1>3, <3>1, SubSeqProperties
    <3> HIDE DEF p
    <3>3. Len(p) = Len(q) - k
      BY <1>2, <1>3, <3>2
    <3>4. Len(q) - (k + 1) + 1 = Len(q) - k /\ \A i \in 1 .. Len(q) - k : (k + 1) + i - 1 = k + i
      BY <1>2, <1>3
    <3>. QED
      BY <3>2, <3>3, <3>4, Zenon
  <2> HIDE DEF p
  <2>2. \A i \in 1 .. Len(p) : k + i \in 1 .. Len(q) /\ k + i > k /\ p[i] = q[k + i]
    BY <1>2, <1>3, <2>1
  <2>3. \A i \in 1 .. Len(p) : p[i].offset \in Chosen(s, x, e) /\ p[i] = Envelope(s, p[i].offset)
    BY <1>4, <1>5, <1>6, <2>2, Zenon
  <2>4. ASSUME NEW i \in 1 .. Len(p), NEW j \in 1 .. Len(p), i < j
        PROVE  p[i].offset < p[j].offset
    <3>1. k + i < k + j
      BY <1>2, <1>3, <2>4
    <3>. QED
      BY <1>4, <2>2, <3>1, Zenon
  <2>5. ASSUME NEW o \in Chosen(s, x, e)
        PROVE  \E i \in 1 .. Len(p) : p[i].offset = o
    <3>1. PICK i \in 1 .. Len(q) : q[i].offset = o
      BY <1>4, <1>6, Zenon
    <3>2. ~(i <= k)
      BY <1>5, <1>7, <3>1, Zenon
    <3>3. i - k \in 1 .. Len(p) /\ k + (i - k) = i
      BY <1>2, <1>3, <2>1, <3>2
    <3>. QED
      BY <2>2, <3>1, <3>3, Zenon
  <2>. QED
    BY <2>1, <2>3, <2>4, <2>5, Zenon DEF Lists, p
<1>. QED
  BY <1>8, <1>9, Zenon

-------------------------------------------------------------------------------
(* The sizes of parts.                                                     *)

\* What an event adds to the size of a part.
Added(q, i) == IF SharesHeader(q, i) THEN 0 ELSE HeaderBytes(q, i)

\* The sizes of an event.
LEMMA BytesFacts ==
  ASSUME NEW q \in Seq(Env), NEW i \in 1 .. Len(q)
  PROVE  /\ HeaderBytes(q, i) \in Nat /\ HeaderBytes(q, i) > 0
         /\ BodyBytes(q, i) \in Nat
         /\ Added(q, i) \in Nat /\ Added(q, i) <= HeaderBytes(q, i)
<1>1. q[i].offset \in Offset
  BY EnvFacts, Zenon
<1>2. HeaderBytes(q, i) \in Nat \ {0} /\ BodyBytes(q, i) \in Nat
  BY <1>1, RemoteAssumption, Zenon DEF HeaderBytes, BodyBytes
<1>3. Added(q, i) \in {0, HeaderBytes(q, i)}
  BY Zenon DEF Added
<1>. QED
  BY <1>2, <1>3

\* What splitSegment counts, event by event.
LEMMA SizeFacts ==
  ASSUME NEW q \in Seq(Env)
  PROVE  /\ PartSize(q) \in [0 .. Len(q) -> Nat] /\ PartSize(q)[0] = 0
         /\ \A i \in 1 .. Len(q) :
              /\ PartSize(q)[i] = PartSize(q)[i - 1] + Added(q, i) + BodyBytes(q, i)
              /\ PartSize(q)[i] \in Nat /\ PartSize(q)[i - 1] \in Nat
<1> DEFINE L == Len(q)
           step == [i \in 1 .. L |-> [v \in Nat |-> v + Added(q, i) + BodyBytes(q, i)]]
           Is(f) == f = [i \in 0 .. L |->
                           IF i = 0 THEN 0 ELSE f[i - 1] + Added(q, i) + BodyBytes(q, i)]
           size == CHOOSE f : Is(f)
<1>1. L \in Nat
  BY EnvFacts, Zenon
<1>2. PartSize(q) = size
  BY Zenon DEF PartSize, Added
<1>3. \A i \in 1 .. L : Added(q, i) \in Nat /\ BodyBytes(q, i) \in Nat
  BY BytesFacts, Zenon
<1> HIDE DEF L
<1>4. step \in Steps(L, Nat)
  <2>1. \A i \in 1 .. L : \A v \in Nat : v + Added(q, i) + BodyBytes(q, i) \in Nat
    BY <1>3
  <2>. QED
    BY <2>1, Zenon DEF Steps
<1>5. 0 \in Nat
  OBVIOUS
<1>6. PICK f : Computes(f, L, Nat, 0, step)
  <2> HIDE DEF step
  <2>. QED
    BY <1>1, <1>4, <1>5, StepsExist, Zenon
<1>7. f \in [0 .. L -> Nat] /\ f[0] = 0 /\ \A i \in 1 .. L : f[i] = step[i][f[i - 1]]
  <2> HIDE DEF step
  <2>. QED
    BY <1>6, Zenon DEF Computes
<1>8. /\ \A i \in 1 .. L : i - 1 \in 0 .. L /\ i \in 0 .. L /\ i # 0
      /\ \A i \in 0 .. L : i = 0 \/ i \in 1 .. L
      /\ 0 \in 0 .. L
  BY <1>1
<1>9. \A i \in 1 .. L : f[i] = f[i - 1] + Added(q, i) + BodyBytes(q, i)
  <2>1. \A i \in 1 .. L : f[i - 1] \in Nat
    BY <1>7, <1>8, Zenon
  <2>. QED
    BY <1>7, <2>1, Zenon
<1> HIDE DEF step
<1>10. Is(f)
  <2>1. \A i \in 0 .. L : f[i] = IF i = 0 THEN 0 ELSE f[i - 1] + Added(q, i) + BodyBytes(q, i)
    BY <1>7, <1>8, <1>9, Zenon
  <2>. QED
    BY <1>7, <2>1, Zenon
<1>11. Is(size)
  BY <1>10, Zenon
<1> HIDE DEF size
<1>12. /\ size = [i \in 0 .. L |-> size[i]] /\ size[0] = 0
       /\ \A i \in 1 .. L : size[i] = size[i - 1] + Added(q, i) + BodyBytes(q, i)
  BY <1>8, <1>11, Zenon
<1> DEFINE A == {n \in Nat : n <= L => size[n] \in Nat}
<1>13. 0 \in A
  BY <1>12
<1>14. ASSUME NEW n \in Nat, n \in A
       PROVE  n + 1 \in A
  <2>0. n + 1 \in Nat
    OBVIOUS
  <2>1. SUFFICES ASSUME n + 1 <= L PROVE size[n + 1] \in Nat
    BY <2>0, Zenon
  <2>2. n <= L /\ n + 1 \in 1 .. L /\ (n + 1) - 1 = n
    BY <1>1, <2>1
  <2>3. size[n] \in Nat
    BY <1>14, <2>2, Zenon
  <2>4. size[n + 1] = size[n] + Added(q, n + 1) + BodyBytes(q, n + 1)
    BY <1>12, <2>2, Zenon
  <2>. QED
    BY <1>3, <2>2, <2>3, <2>4
<1> HIDE DEF A
<1>15. \A n \in Nat : n \in A
  BY <1>13, <1>14, SetInduction, Zenon
<1>16. \A n \in 0 .. L : n \in Nat /\ n <= L
  BY <1>1
<1>17. \A n \in 0 .. L : size[n] \in Nat
  BY <1>15, <1>16, Zenon DEF A
<1>18. size \in [0 .. L -> Nat]
  BY <1>12, <1>17, Zenon
<1>. QED
  BY <1>2, <1>8, <1>12, <1>17, <1>18, Zenon DEF L

\* A part with an event has a size.
LEMMA SizePositive ==
  ASSUME NEW q \in Seq(Env), NEW i \in 1 .. Len(q)
  PROVE  PartSize(q)[i] > 0
<1> DEFINE A == {n \in Nat : n >= 1 /\ n <= Len(q) => PartSize(q)[n] > 0}
<1>1. 0 \in A
  OBVIOUS
<1>2. ASSUME NEW n \in Nat, n \in A
      PROVE  n + 1 \in A
  <2>0. n + 1 \in Nat /\ Len(q) \in Nat
    OBVIOUS
  <2>1. SUFFICES ASSUME n + 1 <= Len(q) PROVE PartSize(q)[n + 1] > 0
    BY <2>0, Zenon
  <2>2. n + 1 \in 1 .. Len(q) /\ (n + 1) - 1 = n /\ n <= Len(q)
    BY <2>0, <2>1
  <2>3. /\ PartSize(q)[n + 1] = PartSize(q)[n] + Added(q, n + 1) + BodyBytes(q, n + 1)
        /\ PartSize(q)[n] \in Nat
    BY <2>2, SizeFacts, Zenon
  <2>4. /\ HeaderBytes(q, n + 1) \in Nat /\ HeaderBytes(q, n + 1) > 0
        /\ BodyBytes(q, n + 1) \in Nat /\ Added(q, n + 1) \in Nat
    BY <2>2, BytesFacts, Zenon
  <2>5. CASE n = 0
    <3>1. ~(n + 1 > 1)
      BY <2>5
    <3>2. Added(q, n + 1) = HeaderBytes(q, n + 1)
      BY <3>1, Zenon DEF Added, SharesHeader
    <3>. QED
      BY <2>3, <2>4, <3>2
  <2>6. CASE n # 0
    <3>1. n >= 1
      BY <2>6
    <3>2. PartSize(q)[n] > 0
      BY <1>2, <2>2, <3>1, Zenon
    <3>. QED
      BY <2>3, <2>4, <3>2
  <2>. QED
    BY <2>5, <2>6, Zenon
<1> HIDE DEF A
<1>3. i \in Nat /\ i >= 1 /\ i <= Len(q)
  OBVIOUS
<1>4. i \in A
  BY <1>1, <1>2, <1>3, SetInduction, Zenon
<1>. QED
  BY <1>3, <1>4, Zenon DEF A

\* The size of a part depends on its own events only.
LEMMA SizePrefix ==
  ASSUME NEW q \in Seq(Env), NEW k \in 0 .. Len(q)
  PROVE  PartSize(SubSeq(q, 1, k))[k] = PartSize(q)[k]
<1> DEFINE p == SubSeq(q, 1, k)
<1>1. Len(q) \in Nat /\ k \in Nat /\ k <= Len(q)
  BY EnvFacts
<1>2. p \in Seq(Env) /\ Len(p) = k /\ \A i \in 1 .. k : p[i] = q[i]
  <2>1. \A i \in 1 .. k : i \in 1 .. Len(q)
    BY <1>1
  <2>. QED
    BY <1>1, <2>1, SubSeqProperties
<1> HIDE DEF p
<1> DEFINE A == {n \in Nat : n <= k => PartSize(p)[n] = PartSize(q)[n]}
<1>3. 0 \in A
  <2>1. PartSize(p)[0] = 0 /\ PartSize(q)[0] = 0 /\ 0 \in Nat
    BY <1>2, SizeFacts
  <2>. QED
    BY <2>1, Zenon
<1>4. ASSUME NEW n \in Nat, n \in A
      PROVE  n + 1 \in A
  <2>0. n + 1 \in Nat
    OBVIOUS
  <2>1. SUFFICES ASSUME n + 1 <= k PROVE PartSize(p)[n + 1] = PartSize(q)[n + 1]
    BY <2>0, Zenon
  <2>2. n + 1 \in 1 .. k /\ n + 1 \in 1 .. Len(q) /\ (n + 1) - 1 = n /\ n <= k
    BY <1>1, <2>1
  <2>3. PartSize(p)[n] = PartSize(q)[n]
    BY <1>4, <2>2, Zenon
  <2>4. PartSize(p)[n + 1] = PartSize(p)[n] + Added(p, n + 1) + BodyBytes(p, n + 1)
    BY <1>2, <2>2, SizeFacts, Zenon
  <2>5. PartSize(q)[n + 1] = PartSize(q)[n] + Added(q, n + 1) + BodyBytes(q, n + 1)
    BY <2>2, SizeFacts, Zenon
  <2>6. p[n + 1] = q[n + 1]
    BY <1>2, <2>2, Zenon
  <2>7. HeaderBytes(p, n + 1) = HeaderBytes(q, n + 1) /\ BodyBytes(p, n + 1) = BodyBytes(q, n + 1)
    BY <2>6, Zenon DEF HeaderBytes, BodyBytes
  <2>8. SharesHeader(p, n + 1) <=> SharesHeader(q, n + 1)
    <3>1. CASE n + 1 > 1
      <4>1. n \in 1 .. k
        BY <1>1, <2>2, <3>1
      <4>2. p[n] = q[n]
        BY <1>2, <4>1, Zenon
      <4>. QED
        BY <2>2, <2>6, <4>2, Zenon DEF SharesHeader
    <3>2. CASE ~(n + 1 > 1)
      BY <3>2, Zenon DEF SharesHeader
    <3>. QED
      BY <3>1, <3>2, Zenon
  <2>9. Added(p, n + 1) = Added(q, n + 1)
    BY <2>7, <2>8, Zenon DEF Added
  <2>. QED
    BY <2>3, <2>4, <2>5, <2>7, <2>9, Zenon
<1> HIDE DEF A
<1>5. k \in A
  BY <1>1, <1>3, <1>4, SetInduction, Zenon
<1>6. k <= k
  BY <1>1
<1>. QED
  BY <1>5, <1>6, Zenon DEF A, p

\* A set of natural numbers has a least one.
LEMMA LeastFacts ==
  ASSUME NEW S, S \subseteq Nat, S # {}
  PROVE  \E x \in S : \A y \in S : x <= y
<1> DEFINE R == OpToRel(<, Nat)
<1>1. IsWellFoundedOn(R, Nat)
  BY NatLessThanWellFounded, Zenon
<1>2. \A x, y \in Nat : x < y => <<x, y>> \in R
  BY DEF OpToRel
<1> HIDE DEF R
<1>3. PICK x \in S : \A y \in S : ~(<<y, x>> \in R)
  BY <1>1, WFMin, Zenon
<1>4. \A y \in S : y \in Nat /\ x \in Nat
  OBVIOUS
<1>5. \A y \in S : ~(y < x)
  BY <1>2, <1>3, <1>4, Zenon
<1>6. \A y \in S : x <= y
  BY <1>4, <1>5
<1>. QED
  BY <1>6, Zenon

\* The first part takes at least one event, if there is one, and is no larger
\* than allowed unless it takes one alone.
LEMMA CutFacts ==
  ASSUME NEW q \in Seq(Env)
  PROVE  /\ Cut(q) \in 0 .. Len(q)
         /\ Len(q) >= 1 => Cut(q) >= 1
         /\ Cut(q) <= 1 \/ PartSize(q)[Cut(q)] <= MaxSegmentBytes
<1> DEFINE C == ClosedBefore(q)
           k == Cut(q)
           m == FirstClosed(q)
<1>1. Len(q) \in Nat /\ MaxSegmentBytes \in Nat
  BY EnvFacts, RemoteAssumption, Zenon
<1>2. \A i \in 1 .. Len(q) : i \in C <=>
        /\ PartSize(q)[i - 1] > 0
        /\ PartSize(q)[i - 1] + HeaderBytes(q, i) + BodyBytes(q, i) > MaxSegmentBytes
  BY Zenon DEF ClosedBefore
<1>3. C \subseteq 1 .. Len(q)
  BY Zenon DEF ClosedBefore
<1>4. 1 \notin C
  <2>1. PartSize(q)[0] = 0 /\ 1 - 1 = 0
    BY SizeFacts
  <2>2. ~(0 > 0)
    OBVIOUS
  <2>. QED
    BY <1>2, <1>3, <2>1, <2>2, Zenon
<1>5. \/ C = {} /\ k = Len(q)
      \/ C # {} /\ k = m - 1
  BY Zenon DEF Cut
<1>6. C # {} => m \in C /\ \A y \in C : m <= y
  <2>1. C \subseteq Nat
    BY <1>1, <1>3
  <2>. QED
    BY <2>1, LeastFacts, Zenon DEF FirstClosed
<1> HIDE DEF C, m
<1>7. C # {} => m \in 2 .. Len(q)
  <2>1. \A i \in 1 .. Len(q) : i # 1 => i \in 2 .. Len(q)
    BY <1>1
  <2>. QED
    BY <1>3, <1>4, <1>6, <2>1, Zenon
<1> HIDE DEF k
<1>8. k \in 0 .. Len(q) /\ (Len(q) >= 1 => k >= 1)
  BY <1>1, <1>5, <1>7
<1>9. k \notin C
  <2>1. ASSUME C # {}, k \in C PROVE FALSE
    <3>1. m <= k /\ k = m - 1
      BY <1>5, <1>6, <2>1, Zenon
    <3>. QED
      BY <1>7, <2>1, <3>1
  <2>. QED
    BY <2>1, Zenon
<1>10. ASSUME k > 1
       PROVE  PartSize(q)[k] <= MaxSegmentBytes
  <2>1. k \in 1 .. Len(q) /\ k - 1 \in 1 .. Len(q)
    BY <1>1, <1>8, <1>10
  <2>2. PartSize(q)[k - 1] > 0
    BY <2>1, SizePositive, Zenon
  <2>3. ~(PartSize(q)[k - 1] + HeaderBytes(q, k) + BodyBytes(q, k) > MaxSegmentBytes)
    BY <1>2, <1>9, <2>1, <2>2, Zenon
  <2>4. /\ PartSize(q)[k] = PartSize(q)[k - 1] + Added(q, k) + BodyBytes(q, k)
        /\ PartSize(q)[k - 1] \in Nat
    BY <2>1, SizeFacts, Zenon
  <2>5. /\ HeaderBytes(q, k) \in Nat /\ BodyBytes(q, k) \in Nat /\ Added(q, k) \in Nat
        /\ Added(q, k) <= HeaderBytes(q, k)
    BY <2>1, BytesFacts, Zenon
  <2>. QED
    BY <1>1, <2>3, <2>4, <2>5
<1>11. k <= 1 \/ k > 1
  BY <1>1, <1>8
<1>. QED
  BY <1>8, <1>10, <1>11, Zenon DEF k

-------------------------------------------------------------------------------
(* Segments.                                                               *)

\* A segment that holds what the source has of its range.
Honest(seg) ==
  /\ seg \in AnySegment
  /\ seg.begin <= seg.end
  /\ Lists(seg.envelopes, seg.stream, Chosen(seg.stream, seg.begin, seg.end))

\* The types of a segment's fields.
LEMMA SegmentFields ==
  ASSUME NEW seg \in AnySegment
  PROVE  /\ seg.stream \in Stream /\ seg.begin \in Nat /\ seg.end \in Nat
         /\ seg.envelopes \in Seq(AnyEnvelope)
  BY DEF AnySegment

\* The type of a segment that is put together.
LEMMA SegmentType ==
  ASSUME NEW s \in Stream, NEW b \in Nat, NEW e \in Nat, NEW q \in Seq(AnyEnvelope)
  PROVE  Segment(s, b, e, q) \in AnySegment
  BY DEF Segment, AnySegment

\* A segment is honest by its fields.
LEMMA HonestIntro ==
  ASSUME NEW s \in Stream, NEW b \in Nat, NEW e \in Nat, b <= e,
         NEW q, Lists(q, s, Chosen(s, b, e))
  PROVE  Honest(Segment(s, b, e, q))
<1> DEFINE seg == Segment(s, b, e, q)
<1>1. q \in Seq(AnyEnvelope)
  BY EnvArrives, Zenon DEF Lists
<1>2. seg \in AnySegment
  BY <1>1, SegmentType, Zenon
<1>a. seg.stream = s /\ seg.begin = b /\ seg.end = e /\ seg.envelopes = q
  BY DEF Segment
<1> HIDE DEF seg
<1>3. Honest(seg)
  BY <1>2, <1>a, Zenon DEF Honest
<1>. QED
  BY <1>3, Zenon DEF seg

\* Memory.segment returns an honest segment.
LEMMA MemorySegmentHonest ==
  ASSUME NEW s \in Stream, NEW b \in Nat, NEW e \in Nat, b <= e
  PROVE  /\ Honest(MemorySegment(s, b, e))
         /\ MemorySegment(s, b, e).stream = s
         /\ MemorySegment(s, b, e).begin = b
         /\ MemorySegment(s, b, e).end = e
<1> DEFINE m == MemorySegment(s, b, e)
<1>1. Lists(m.envelopes, s, Chosen(s, b, e)) /\ m = Segment(s, b, e, m.envelopes)
  BY MemorySegmentLists, Zenon
<1> HIDE DEF m
<1>2. Honest(Segment(s, b, e, m.envelopes))
  BY <1>1, HonestIntro, Zenon
<1>3. m.stream = s /\ m.begin = b /\ m.end = e
  BY <1>1 DEF Segment
<1>4. Honest(m)
  BY <1>1, <1>2, Zenon
<1>. QED
  BY <1>3, <1>4, Zenon DEF m

\* The part that splitSegment makes of a segment, and what it leaves: both are
\* honest, the part is of bounded size, and the rest begins where it ends.
LEMMA PartFacts ==
  ASSUME NEW seg, Honest(seg)
  PROVE  /\ Honest(FirstPart(seg)) /\ Bounded(FirstPart(seg).envelopes)
         /\ FirstPart(seg).stream = seg.stream /\ FirstPart(seg).begin = seg.begin
         /\ \/ Rest(seg) = {} /\ FirstPart(seg).end = seg.end
            \/ \E r : /\ Rest(seg) = {r} /\ Honest(r)
                      /\ r.stream = seg.stream /\ r.begin = FirstPart(seg).end /\ r.end = seg.end
<1> DEFINE s == seg.stream
           b == seg.begin
           e == seg.end
           q == seg.envelopes
           k == Cut(q)
<1>1. /\ s \in Stream /\ b \in Nat /\ e \in Nat /\ b <= e /\ q \in Seq(Env)
      /\ Lists(q, s, Chosen(s, b, e))
  BY SegmentFields, Zenon DEF Honest, Lists
<1>2. /\ Len(q) \in Nat
      /\ \A i \in 1 .. Len(q) : q[i].offset \in Nat
  BY <1>1, EnvFacts, Zenon
<1>3. /\ k \in 0 .. Len(q) /\ (Len(q) >= 1 => k >= 1)
      /\ k <= 1 \/ PartSize(q)[k] <= MaxSegmentBytes
  BY <1>1, CutFacts, Zenon
<1>4. CASE k >= Len(q)
  <2>1. FirstPart(seg) = seg /\ Rest(seg) = {}
    BY <1>4, Zenon DEF FirstPart, Rest
  <2>2. k = Len(q)
    BY <1>2, <1>3, <1>4
  <2>3. Bounded(q)
    BY <1>3, <2>2, Zenon DEF Bounded
  <2>. QED
    BY <2>1, <2>3, Zenon
<1>5. CASE ~(k >= Len(q))
  <2> DEFINE x == q[k + 1].offset
             p == SubSeq(q, 1, k)
             t == SubSeq(q, k + 1, Len(q))
  <2>1. FirstPart(seg) = Segment(s, b, x, p) /\ Rest(seg) = {Segment(s, x, e, t)}
    BY <1>5, Zenon DEF FirstPart, Rest
  <2>2. /\ k + 1 \in 1 .. Len(q) /\ k \in 1 .. Len(q) /\ k < k + 1 /\ k \in Nat
        /\ k < Len(q)
    BY <1>2, <1>3, <1>5
  <2>3. x \in Nat /\ x \in Chosen(s, b, e) /\ q[k].offset < x
    BY <1>1, <1>2, <2>2, Zenon DEF Lists
  <2>4. b <= x /\ x <= e /\ x <= x
    <3>2. b <= x /\ x < e
      BY <2>3, Zenon DEF Chosen, InSegment
    <3>. QED
      BY <1>1, <2>3, <3>2
  <2>5. Lists(p, s, Chosen(s, b, x)) /\ Lists(t, s, Chosen(s, x, e))
    <3> HIDE DEF s, b, e, q, k
    <3>1. k < Len(q) => x <= q[k + 1].offset
      BY <2>4, Zenon
    <3>. QED
      BY <1>1, <1>3, <2>2, <2>3, <2>4, <3>1, ListsCut, Zenon
  <2>6. Len(p) = k /\ PartSize(p)[k] = PartSize(q)[k]
    <3>1. \A i \in 1 .. k : i \in 1 .. Len(q)
      BY <1>2, <2>2
    <3>2. Len(p) = k
      BY <1>1, <1>2, <2>2, <3>1, SubSeqProperties
    <3>. QED
      BY <1>1, <1>3, <3>2, SizePrefix, Zenon
  <2>7. Bounded(p)
    BY <1>3, <2>6, Zenon DEF Bounded
  <2> HIDE DEF x, p, t, s, b, e, q, k
  <2>8. Honest(Segment(s, b, x, p)) /\ Honest(Segment(s, x, e, t))
    BY <1>1, <2>3, <2>4, <2>5, HonestIntro, Zenon
  <2>9. /\ Segment(s, b, x, p).stream = s /\ Segment(s, b, x, p).begin = b
        /\ Segment(s, b, x, p).end = x /\ Segment(s, b, x, p).envelopes = p
        /\ Segment(s, x, e, t).stream = s /\ Segment(s, x, e, t).begin = x
        /\ Segment(s, x, e, t).end = e
    BY DEF Segment
  <2>. QED
    BY <2>1, <2>7, <2>8, <2>9, Zenon DEF s, b, e
<1>. QED
  BY <1>4, <1>5, Zenon

\* parseSegment accepts an honest segment.
LEMMA HonestParses ==
  ASSUME NEW seg, Honest(seg)
  PROVE  Parses(seg)
<1> DEFINE s == seg.stream
           b == seg.begin
           e == seg.end
           q == seg.envelopes
<1>1. b <= e /\ Lists(q, s, Chosen(s, b, e)) /\ q \in Seq(Env)
  BY Zenon DEF Honest, Lists
<1>2. Len(q) \in Nat /\ DOMAIN q = 1 .. Len(q)
  BY <1>1, EnvFacts, Zenon
<1>3. ASSUME NEW i \in 1 .. Len(q)
      PROVE  /\ q[i].stream = s /\ Matches(q[i].type)
             /\ b <= q[i].offset /\ q[i].offset < e
             /\ i > 1 => q[i].offset > q[i - 1].offset
  <2> DEFINE o == q[i].offset
  <2>1. o \in Chosen(s, b, e) /\ q[i] = Envelope(s, o)
    BY <1>1, Zenon DEF Lists
  <2>2. b <= o /\ o < e /\ Matches(TypeOf[o])
    BY <2>1, Zenon DEF Chosen, InSegment
  <2>3. Envelope(s, o).stream = s /\ Envelope(s, o).type = TypeOf[o]
    BY DEF Envelope
  <2>4. ASSUME i > 1 PROVE q[i].offset > q[i - 1].offset
    <3>1. i - 1 \in 1 .. Len(q) /\ i - 1 < i
      BY <1>2, <2>4
    <3>2. q[i - 1].offset < q[i].offset
      BY <1>1, <3>1, Zenon DEF Lists
    <3>3. q[i - 1].offset \in Nat /\ q[i].offset \in Nat
      BY <1>1, <3>1, EnvFacts, Zenon
    <3>. QED
      BY <3>2, <3>3
  <2> HIDE DEF o, s, b, e, q
  <2>5. q[i].stream = s /\ q[i].type = TypeOf[o]
    BY <2>1, <2>3, Zenon
  <2>. QED
    BY <2>2, <2>4, <2>5, Zenon DEF o
<1>. QED
  BY <1>1, <1>2, <1>3, Zenon DEF Parses

\* Memory.unread returns an honest segment that ends no later than the stream.
LEMMA UnreadFacts ==
  ASSUME NEW s \in Stream, NEW b \in Nat, end[s] \in Nat, b <= end[s]
  PROVE  /\ Honest(Unread(s, b)) /\ Unread(s, b).stream = s /\ Unread(s, b).begin = b
         /\ Unread(s, b).end <= end[s]
<1> DEFINE m == MemorySegment(s, b, end[s])
           q == m.envelopes
<1>1. Honest(m) /\ m.stream = s /\ m.begin = b /\ m.end = end[s]
  <2> DEFINE e == end[s]
  <2>1. e \in Nat /\ b <= e
    OBVIOUS
  <2> HIDE DEF e
  <2>2. /\ Honest(MemorySegment(s, b, e)) /\ MemorySegment(s, b, e).stream = s
        /\ MemorySegment(s, b, e).begin = b /\ MemorySegment(s, b, e).end = e
    BY <2>1, MemorySegmentHonest, SMT
  <2>. QED
    BY <2>2, Zenon DEF e
<1>2. end[s] <= end[s] /\ SegmentSize \in Nat
  BY RemoteAssumption
<1>3. CASE ~(SegmentSize > 0 /\ Len(q) > SegmentSize)
  <2>1. Unread(s, b) = m
    BY <1>3, Zenon DEF Unread
  <2> HIDE DEF m
  <2>. QED
    BY <1>1, <1>2, <2>1, Zenon
<1>4. CASE SegmentSize > 0 /\ Len(q) > SegmentSize
  <2> DEFINE k == SegmentSize
             x == q[k].offset + 1
             p == SubSeq(q, 1, k)
  <2>1. Unread(s, b) = Segment(s, b, x, p)
    BY <1>4, Zenon DEF Unread
  <2> HIDE DEF m
  <2>2. Lists(q, s, Chosen(s, b, end[s])) /\ q \in Seq(Env)
    BY <1>1, Zenon DEF Honest, Lists
  <2>3. /\ Len(q) \in Nat /\ \A i \in 1 .. Len(q) : q[i].offset \in Nat
    BY <2>2, EnvFacts, Zenon
  <2> HIDE DEF q
  <2>4. /\ k \in 1 .. Len(q) /\ k \in 0 .. Len(q) /\ k + 1 \in 1 .. Len(q) /\ k < k + 1
        /\ k < Len(q)
    BY <1>2, <1>4, <2>3
  <2>5. q[k].offset \in Nat /\ q[k].offset \in Chosen(s, b, end[s])
    BY <2>2, <2>3, <2>4, Zenon DEF Lists
  <2>6. b <= q[k].offset /\ q[k].offset < end[s]
    BY <2>5, Zenon DEF Chosen, InSegment
  <2>7. x \in Nat /\ b <= x /\ x <= end[s] /\ q[k].offset < x
    BY <2>5, <2>6
  <2>8. x <= q[k + 1].offset
    <3>1. q[k].offset < q[k + 1].offset /\ q[k + 1].offset \in Nat
      BY <2>2, <2>3, <2>4, Zenon DEF Lists
    <3>. QED
      BY <2>5, <3>1
  <2> HIDE DEF k, x, p
  <2>9. Lists(p, s, Chosen(s, b, x))
    BY <2>2, <2>4, <2>7, <2>8, ListsCut, Zenon DEF p
  <2>10. Honest(Segment(s, b, x, p))
    BY <2>7, <2>9, HonestIntro, Zenon
  <2>11. Segment(s, b, x, p).stream = s /\ Segment(s, b, x, p).begin = b /\ Segment(s, b, x, p).end = x
    BY DEF Segment
  <2>. QED
    BY <2>1, <2>7, <2>10, <2>11, Zenon
<1>. QED
  BY <1>3, <1>4, Zenon

-------------------------------------------------------------------------------
(* Chains.                                                                 *)

(***************************************************************************)
(* The messages w take a client from position a to position z, if each     *)
(* takes it from one of the positions P to the next as R says.             *)
(***************************************************************************)
Links(R, P, w, c) ==
  /\ c \in [0 .. Len(w) -> P]
  /\ \A i \in 1 .. Len(w) : <<w[i], c[i - 1], c[i]>> \in R

Chain(R, P, w, a, z) == \E c : Links(R, P, w, c) /\ c[0] = a /\ c[Len(w)] = z

\* With no messages a client stays where it is.
LEMMA ChainEmpty ==
  ASSUME NEW R, NEW P, NEW a \in P
  PROVE  /\ Chain(R, P, <<>>, a, a)
         /\ \A z : Chain(R, P, <<>>, a, z) => z = a
<1> DEFINE c == [i \in 0 .. 0 |-> a]
<1>1. Len(<<>>) = 0 /\ 0 \in 0 .. 0 /\ ~\E i : i \in 1 .. 0
  OBVIOUS
<1>2. c \in [0 .. 0 -> P] /\ c[0] = a
  BY <1>1, Zenon
<1> HIDE DEF c
<1>3. Links(R, P, <<>>, c)
  BY <1>1, <1>2, Zenon DEF Links
<1>4. Chain(R, P, <<>>, a, a)
  BY <1>1, <1>2, <1>3, Zenon DEF Chain
<1>5. \A z : Chain(R, P, <<>>, a, z) => z = a
  BY <1>1, Zenon DEF Chain
<1>. QED
  BY <1>4, <1>5, Zenon

\* Another message is sent.
LEMMA ChainAppend ==
  ASSUME NEW R, NEW P, NEW T, NEW w \in Seq(T), NEW m \in T, NEW a, NEW y, NEW z \in P,
         Chain(R, P, w, a, y), <<m, y, z>> \in R
  PROVE  Chain(R, P, Append(w, m), a, z)
<1> DEFINE L == Len(w)
           v == Append(w, m)
<1>1. PICK c : Links(R, P, w, c) /\ c[0] = a /\ c[L] = y
  BY Zenon DEF Chain
<1> DEFINE d == [i \in 0 .. L + 1 |-> IF i = L + 1 THEN z ELSE c[i]]
<1>2. L \in Nat /\ Len(v) = L + 1 /\ v[L + 1] = m /\ \A i \in 1 .. L : v[i] = w[i]
  BY AppendProperties
<1>3. c \in [0 .. L -> P] /\ \A i \in 1 .. L : <<w[i], c[i - 1], c[i]>> \in R
  BY <1>1, Zenon DEF Links
<1> HIDE DEF L, v
<1>4. /\ \A i \in 0 .. L + 1 : i # L + 1 => i \in 0 .. L
      /\ \A i \in 0 .. L : i \in 0 .. L + 1 /\ i # L + 1
      /\ L + 1 \in 0 .. L + 1 /\ 0 \in 0 .. L /\ L \in 0 .. L /\ (L + 1) - 1 = L
      /\ \A i \in 1 .. L : i \in 0 .. L /\ i - 1 \in 0 .. L
      /\ \A i \in 1 .. L + 1 : i \in 1 .. L \/ i = L + 1
  BY <1>2
<1>5. d \in [0 .. L + 1 -> P] /\ d[L + 1] = z /\ \A i \in 0 .. L : d[i] = c[i]
  BY <1>3, <1>4, Zenon
<1> HIDE DEF d
<1>6. \A i \in 1 .. L : <<v[i], d[i - 1], d[i]>> \in R
  BY <1>2, <1>3, <1>4, <1>5, Zenon
<1>7. <<v[L + 1], d[(L + 1) - 1], d[L + 1]>> \in R
  BY <1>1, <1>2, <1>4, <1>5, Zenon
<1>8. Links(R, P, v, d)
  BY <1>2, <1>4, <1>5, <1>6, <1>7, Zenon DEF Links
<1>9. d[0] = a /\ d[Len(v)] = z
  BY <1>1, <1>2, <1>4, <1>5, Zenon
<1>. QED
  BY <1>8, <1>9, Zenon DEF Chain, v

\* The first message is received.
LEMMA ChainTail ==
  ASSUME NEW R, NEW P, NEW T, NEW w \in Seq(T), w # <<>>, NEW a, NEW z, Chain(R, P, w, a, z)
  PROVE  \E b \in P : <<Head(w), a, b>> \in R /\ Chain(R, P, Tail(w), b, z)
<1> DEFINE L == Len(w)
           v == Tail(w)
<1>1. PICK c : Links(R, P, w, c) /\ c[0] = a /\ c[L] = z
  BY Zenon DEF Chain
<1> DEFINE d == [i \in 0 .. L - 1 |-> c[i + 1]]
<1>2. L \in Nat /\ L >= 1 /\ Len(v) = L - 1 /\ w[1] = Head(w) /\ \A i \in 1 .. L - 1 : v[i] = w[i + 1]
  BY HeadTailProperties
<1>3. c \in [0 .. L -> P] /\ \A i \in 1 .. L : <<w[i], c[i - 1], c[i]>> \in R
  BY <1>1, Zenon DEF Links
<1> HIDE DEF L, v
<1>4. /\ \A i \in 0 .. L - 1 : i + 1 \in 0 .. L
      /\ \A i \in 1 .. L - 1 : /\ i \in 0 .. L - 1 /\ i - 1 \in 0 .. L - 1
                               /\ i + 1 \in 1 .. L /\ (i - 1) + 1 = i /\ (i + 1) - 1 = i
      /\ 0 \in 0 .. L - 1 /\ L - 1 \in 0 .. L - 1 /\ 0 + 1 = 1 /\ (L - 1) + 1 = L
      /\ 1 \in 1 .. L /\ 1 \in 0 .. L /\ 1 - 1 = 0
  BY <1>2
<1>5. d \in [0 .. L - 1 -> P] /\ \A i \in 0 .. L - 1 : d[i] = c[i + 1]
  BY <1>3, <1>4, Zenon
<1> HIDE DEF d
<1>6. \A i \in 1 .. L - 1 : <<v[i], d[i - 1], d[i]>> \in R
  <2>1. \A i \in 1 .. L - 1 : v[i] = w[i + 1] /\ d[i] = c[i + 1] /\ d[i - 1] = c[i]
    BY <1>2, <1>4, <1>5, Zenon
  <2>2. \A i \in 1 .. L - 1 : <<w[i + 1], c[(i + 1) - 1], c[i + 1]>> \in R
    BY <1>3, <1>4, Zenon
  <2>3. \A i \in 1 .. L - 1 : <<w[i + 1], c[i], c[i + 1]>> \in R
    BY <1>4, <2>2, Zenon
  <2>. QED
    BY <2>1, <2>3, Zenon
<1>7. Links(R, P, v, d)
  BY <1>2, <1>5, <1>6, Zenon DEF Links
<1>8. d[0] = c[1] /\ d[Len(v)] = z
  BY <1>1, <1>2, <1>4, <1>5, Zenon
<1>9. c[1] \in P /\ <<Head(w), a, c[1]>> \in R
  BY <1>1, <1>2, <1>3, <1>4, Zenon
<1>. QED
  BY <1>7, <1>8, <1>9, Zenon DEF Chain, v

-------------------------------------------------------------------------------
(* The inductive invariant.                                                *)

\* Where a client or a server is in a stream, None before the first segment.
Position == Nat \union {None}

\* What a message does to the position of a client in stream s: a segment of
\* the stream follows the one before it, any other leaves it alone.
Move(s, seg, x, y) ==
  IF seg.stream = s THEN x \in {None, seg.begin} /\ y = seg.end ELSE y = x

Moves(s) == {l \in AnySegment \X Position \X Position : Move(s, l[1], l[2], l[3])}

\* What the source and the server have yet to send.
Pending(call) == call.segments \union call.rest

\* It is what the source has, with at most one segment of a stream, and nothing
\* once the call has a status.
Pends(call) ==
  /\ \A seg \in Pending(call) : Honest(seg)
  /\ \A x, y \in Pending(call) : x.stream = y.stream => x = y
  /\ \A x, y \in call.rest : x = y
  /\ call.status # "none" => Pending(call) = {}

\* What is sent of stream s goes on at z: with the pending segment of the
\* stream, if there is one, and where the server has got to otherwise.
Resumes(p, s, d, z) ==
  /\ \A seg \in p : seg.stream = s => z \in {None, seg.begin}
  /\ (\A seg \in p : seg.stream # s) => z = d

\* The wire and what is pending take a client of stream s that is at u to d.
Path(P, wire, p, s, u, d) ==
  \E z \in P : Chain(Moves(s), P, wire, u, z) /\ Resumes(p, s, d, z)

\* The messages of an honest engine: parts of bounded size of what the source
\* has of the streams S.
Carries(wire, S) ==
  \A i \in DOMAIN wire :
    /\ Honest(wire[i]) /\ Bounded(wire[i].envelopes)
    /\ wire[i].stream \in S

\* What a client was passed of a stream, whatever was sent, and if nothing
\* but what the source holds was sent.
Received(s, f, u, g) ==
  /\ f = None <=> u = None
  /\ f = None => g = <<>>
  /\ f # None => s \in Stream /\ f <= u /\ WellFormed(s, f, u, g)

Delivered(s, f, u, g) == f # None => Lists(g, s, Chosen(s, f, u))

WatchType ==
  [open : BOOLEAN, segments : SUBSET AnySegment, rest : SUBSET AnySegment,
   wire : Seq(AnySegment), status : {"none", "Aborted", "Unimplemented", "OK"},
   delivered : [Stream -> Position], from : [Stream -> Position], upTo : [Stream -> Position],
   got : [Stream -> Seq(AnyEnvelope)],
   outcome : {"none", "invalid segment", "too slow", "unsupported", "failed"}]

\* What is under way takes a watch to where its server has got, or, once the
\* server has ended it, to some position.
WatchPath(w, s) ==
  \E d : /\ Path(Position, w.wire, Pending(w), s, w.upTo[s], d)
         /\ w.status = "none" => d = w.delivered[s]

\* A watch of an engine that keeps to the protocol.
WatchHonest(w) ==
  /\ w.outcome # "invalid segment"
  /\ Carries(w.wire, Stream)
  /\ \A s \in Stream : Delivered(s, w.from[s], w.upTo[s], w.got[s]) /\ WatchPath(w, s)

\* A watch of streams that end at e, by an engine that breaks the protocol if l.
WatchOK(w, e, l) ==
  /\ w \in WatchType
  /\ Pends(w)
  /\ \A seg \in Pending(w) : seg.end = w.delivered[seg.stream]
  /\ \A s \in Stream : w.delivered[s] # None => e[s] # None /\ w.delivered[s] <= e[s]
  /\ \A s \in Stream : Received(s, w.from[s], w.upTo[s], w.got[s])
  /\ l # TRUE => WatchHonest(w)

ReadType ==
  [open : BOOLEAN, segments : SUBSET AnySegment, rest : SUBSET AnySegment,
   wire : Seq(AnySegment), status : {"none", "NotFound", "OutOfRange", "OK"},
   stream : Stream \union {None}, next : Position, from : Position, upTo : Position,
   got : Seq(AnyEnvelope), target : Position,
   outcome : {"none", "invalid segment", "unrecognized stream", "out of range", "done",
              "failed"}]

\* A read that goes on: how far its server may have got.
ReadServed(r, e) ==
  /\ r.stream \in Stream /\ r.next \in Nat /\ r.from \in Nat /\ r.outcome = "none"
  /\ r.target # None => e[r.stream] # None /\ r.target <= e[r.stream]
  /\ r.next # r.from => e[r.stream] # None /\ r.next <= e[r.stream]
  /\ \A seg \in Pending(r) : seg.stream = r.stream /\ seg.end = r.next

\* What the status of a read says of the stream.
ReadReports(r) ==
  /\ r.status = "NotFound" => r.target = None
  /\ (r.status = "OutOfRange" /\ r.target # None) => r.from > r.target
  /\ (r.status = "OK" /\ r.target # None) => r.next >= r.target

\* How a read ended.
ReadEnded(r) ==
  /\ (r.outcome = "done" /\ r.target # None) => r.upTo >= r.target
  /\ r.outcome = "unrecognized stream" => r.target = None
  /\ (r.outcome = "out of range" /\ r.target # None) => r.from > r.target

\* A read of an engine that keeps to the protocol.
ReadHonest(r) ==
  /\ r.outcome # "invalid segment"
  /\ Carries(r.wire, {r.stream})
  /\ Delivered(r.stream, r.from, r.upTo, r.got)
  /\ r.open => Path(Nat, r.wire, Pending(r), r.stream, r.upTo, r.next) /\ ReadReports(r)
  /\ ReadEnded(r)

\* A read of streams that end at e, by an engine that breaks the protocol if l.
ReadOK(r, e, l) ==
  /\ r \in ReadType
  /\ Pends(r)
  /\ Received(r.stream, r.from, r.upTo, r.got)
  /\ r.open => ReadServed(r, e)
  /\ l # TRUE => ReadHonest(r)

\* The streams and the two calls.
IInv ==
  /\ end \in [Stream -> Position]
  /\ lying \in BOOLEAN
  /\ WatchOK(watch, end, lying)
  /\ ReadOK(read, end, lying)

-------------------------------------------------------------------------------
(* What is on its way.                                                     *)

\* A message and the positions it takes a client from and to.
LEMMA MovesFacts ==
  ASSUME NEW s, NEW seg \in AnySegment, NEW x \in Position, NEW y \in Position
  PROVE  <<seg, x, y>> \in Moves(s) <=> Move(s, seg, x, y)
  BY DEF Moves

\* Whatever takes a client from one position to another is a segment.
LEMMA MovesMove ==
  ASSUME NEW s, NEW seg, NEW x, NEW y, <<seg, x, y>> \in Moves(s)
  PROVE  Move(s, seg, x, y)
  BY DEF Moves

\* Nothing is on its way.
LEMMA PathNone ==
  ASSUME NEW P, NEW s, NEW u \in P
  PROVE  /\ Path(P, <<>>, {}, s, u, u)
         /\ \A d : Path(P, <<>>, {}, s, u, d) => u = d
  BY ChainEmpty, Zenon DEF Path, Resumes

\* The server sends a part of a pending segment.
LEMMA PathSent ==
  ASSUME NEW P, Nat \subseteq P, P \subseteq Position, NEW wire \in Seq(AnySegment),
         NEW p, NEW s, NEW u, NEW d, Path(P, wire, p, s, u, d),
         \A x, y \in p : x.stream = y.stream => x = y,
         NEW seg \in p, Honest(seg), seg.stream = s => seg.end = d
  PROVE  Path(P, Append(wire, FirstPart(seg)), (p \ {seg}) \union Rest(seg), s, u, d)
<1> DEFINE part == FirstPart(seg)
           v == Append(wire, part)
           q == (p \ {seg}) \union Rest(seg)
<1>1. PICK z \in P : Chain(Moves(s), P, wire, u, z) /\ Resumes(p, s, d, z)
  BY Zenon DEF Path
<1>2. /\ Honest(part) /\ part.stream = seg.stream /\ part.begin = seg.begin
      /\ \/ Rest(seg) = {} /\ part.end = seg.end
         \/ \E r : /\ Rest(seg) = {r}
                   /\ r.stream = seg.stream /\ r.begin = part.end /\ r.end = seg.end
  BY PartFacts, Zenon
<1>3. part \in AnySegment /\ part.end \in Nat
  BY <1>2, SegmentFields, Zenon DEF Honest
<1> HIDE DEF part
<1>4. CASE seg.stream = s
  <2>1. z \in {None, part.begin} /\ part.stream = s
    BY <1>1, <1>2, <1>4, Zenon DEF Resumes
  <2>2. <<part, z, part.end>> \in Moves(s)
    <3>1. z \in Position /\ part.end \in Position
      BY <1>1, <1>3, Zenon DEF Position
    <3>2. Move(s, part, z, part.end)
      BY <2>1, Zenon DEF Move
    <3>. QED
      BY <1>3, <3>1, <3>2, MovesFacts, Zenon
  <2>3. Chain(Moves(s), P, v, u, part.end)
    BY <1>1, <1>3, <2>2, ChainAppend, Zenon
  <2>4. \A x \in p \ {seg} : x.stream # s
    BY <1>4, Zenon
  <2>5. Resumes(q, s, d, part.end)
    BY <1>2, <1>4, <2>4, Zenon DEF Resumes
  <2>. QED
    BY <1>3, <2>3, <2>5, Zenon DEF Path, part
<1>5. CASE seg.stream # s
  <2>1. <<part, z, z>> \in Moves(s)
    BY <1>1, <1>2, <1>3, <1>5, MovesFacts, Zenon DEF Move
  <2>2. Chain(Moves(s), P, v, u, z)
    BY <1>1, <1>3, <2>1, ChainAppend, Zenon
  <2>3. \A x \in q : x.stream = s => x \in p
    BY <1>2, <1>5, Zenon
  <2>4. \A x \in p : x.stream = s => x \in q
    BY <1>5, Zenon
  <2> HIDE DEF q
  <2>5. Resumes(q, s, d, z)
    BY <1>1, <2>3, <2>4, Zenon DEF Resumes
  <2>. QED
    BY <2>2, <2>5, Zenon DEF Path, part, q
<1>. QED
  BY <1>4, <1>5, Zenon

\* The client receives the first message.
LEMMA PathReceived ==
  ASSUME NEW P, NEW wire \in Seq(AnySegment), wire # <<>>,
         NEW p, NEW s, NEW u, NEW d, Path(P, wire, p, s, u, d)
  PROVE  \E b \in P : /\ Move(s, Head(wire), u, b)
                      /\ Path(P, Tail(wire), p, s, b, d)
<1>1. PICK z \in P : Chain(Moves(s), P, wire, u, z) /\ Resumes(p, s, d, z)
  BY Zenon DEF Path
<1>2. PICK b \in P : /\ <<Head(wire), u, b>> \in Moves(s)
                     /\ Chain(Moves(s), P, Tail(wire), b, z)
  BY <1>1, ChainTail, Zenon
<1>3. Move(s, Head(wire), u, b)
  BY <1>2, MovesMove, Zenon
<1>. QED
  BY <1>1, <1>2, <1>3, Zenon DEF Path

\* The source passes new segments when nothing is pending.
LEMMA PathLoaded ==
  ASSUME NEW P, NEW wire, NEW s, NEW u, NEW d, Path(P, wire, {}, s, u, d),
         NEW p, NEW c, Resumes(p, s, c, d)
  PROVE  Path(P, wire, p, s, u, c)
<1>1. PICK z \in P : Chain(Moves(s), P, wire, u, z) /\ Resumes({}, s, d, z)
  BY Zenon DEF Path
<1>2. z = d
  BY <1>1, Zenon DEF Resumes
<1>. QED
  BY <1>1, <1>2, Zenon DEF Path

\* The server ends the call and drops what is pending.
LEMMA PathDropped ==
  ASSUME NEW P, NEW wire, NEW p, NEW s, NEW u, NEW d, Path(P, wire, p, s, u, d)
  PROVE  \E c : Path(P, wire, {}, s, u, c)
<1>1. PICK z \in P : Chain(Moves(s), P, wire, u, z)
  BY Zenon DEF Path
<1>2. Resumes({}, s, z, z)
  BY Zenon DEF Resumes
<1>. QED
  BY <1>1, <1>2, Zenon DEF Path

\* Nothing is on the wire.
LEMMA CarriesNone ==
  ASSUME NEW S
  PROVE  Carries(<<>>, S)
<1>1. ~\E i : i \in DOMAIN <<>>
  OBVIOUS
<1>. QED
  BY <1>1, Zenon DEF Carries

\* One more message is put on the wire.
LEMMA CarriesAppend ==
  ASSUME NEW wire \in Seq(AnySegment), NEW S, Carries(wire, S), NEW part \in AnySegment,
         Honest(part), Bounded(part.envelopes), part.stream \in S
  PROVE  Carries(Append(wire, part), S)
<1> DEFINE v == Append(wire, part)
<1>1. Len(wire) \in Nat /\ DOMAIN wire = 1 .. Len(wire)
  OBVIOUS
<1>2. /\ DOMAIN v = 1 .. Len(wire) + 1 /\ v[Len(wire) + 1] = part
      /\ \A i \in 1 .. Len(wire) : v[i] = wire[i]
  BY AppendProperties
<1>3. \A i \in 1 .. Len(wire) + 1 : i \in 1 .. Len(wire) \/ i = Len(wire) + 1
  BY <1>1
<1> HIDE DEF v
<1>4. \A i \in DOMAIN v : Honest(v[i]) /\ Bounded(v[i].envelopes) /\ v[i].stream \in S
  BY <1>1, <1>2, <1>3, Zenon DEF Carries
<1>. QED
  BY <1>4, Zenon DEF Carries, v

\* The first message is taken from the wire.
LEMMA CarriesTail ==
  ASSUME NEW wire \in Seq(AnySegment), wire # <<>>, NEW S, Carries(wire, S)
  PROVE  Carries(Tail(wire), S) /\ Honest(Head(wire)) /\ Head(wire).stream \in S
<1> DEFINE v == Tail(wire)
<1>1. Len(wire) \in Nat /\ DOMAIN wire = 1 .. Len(wire)
  OBVIOUS
<1>2. /\ DOMAIN v = 1 .. Len(wire) - 1 /\ wire[1] = Head(wire) /\ 1 \in 1 .. Len(wire)
      /\ \A i \in 1 .. Len(wire) - 1 : v[i] = wire[i + 1]
  BY HeadTailProperties
<1>3. \A i \in 1 .. Len(wire) - 1 : i + 1 \in 1 .. Len(wire)
  BY <1>1
<1> HIDE DEF v
<1>4. \A i \in DOMAIN v : Honest(v[i]) /\ Bounded(v[i].envelopes) /\ v[i].stream \in S
  BY <1>1, <1>2, <1>3, Zenon DEF Carries
<1>. QED
  BY <1>1, <1>2, <1>4, Zenon DEF Carries, v

-------------------------------------------------------------------------------
(* What a client receives.                                                 *)

\* A segment that parseSegment accepts goes on from where the last one ended.
LEMMA WellFormedMore ==
  ASSUME NEW seg \in AnySegment, Parses(seg), NEW f \in Nat, NEW g \in Seq(AnyEnvelope),
         f <= seg.begin, WellFormed(seg.stream, f, seg.begin, g)
  PROVE  f <= seg.end /\ WellFormed(seg.stream, f, seg.end, g \o seg.envelopes)
<1> DEFINE s == seg.stream
           b == seg.begin
           e == seg.end
           q == seg.envelopes
           c == g \o q
           L == Len(g)
           Fits(x) == x.stream = s /\ Matches(x.type) /\ f <= x.offset /\ x.offset < e
<1>1. b \in Nat /\ e \in Nat /\ q \in Seq(AnyEnvelope) /\ b <= e
  BY SegmentFields, Zenon DEF Parses
<1>2. /\ L \in Nat /\ DOMAIN g = 1 .. L /\ \A i \in 1 .. L : g[i].offset \in Nat
      /\ Len(q) \in Nat /\ DOMAIN q = 1 .. Len(q) /\ \A i \in 1 .. Len(q) : q[i].offset \in Nat
  BY <1>1, ArrivedFacts, Zenon
<1>3. ASSUME NEW i \in 1 .. L
      PROVE  /\ Fits(g[i]) /\ g[i].offset < b
             /\ i > 1 => g[i - 1].offset < g[i].offset
  <2>1. /\ g[i].stream = s /\ Matches(g[i].type) /\ f <= g[i].offset /\ g[i].offset < b
        /\ i > 1 => g[i - 1].offset < g[i].offset
    BY <1>2, Zenon DEF WellFormed
  <2>2. \A o \in Nat : o < b => o < e
    BY <1>1
  <2>. QED
    BY <1>2, <2>1, <2>2, Zenon
<1>4. ASSUME NEW i \in 1 .. Len(q)
      PROVE  /\ Fits(q[i]) /\ b <= q[i].offset
             /\ i > 1 => q[i].offset > q[i - 1].offset
  <2>1. /\ q[i].stream = s /\ Matches(q[i].type) /\ b <= q[i].offset /\ q[i].offset < e
        /\ i > 1 => q[i].offset > q[i - 1].offset
    BY <1>2, Zenon DEF Parses
  <2>2. \A o \in Nat : b <= o => f <= o
    BY <1>1
  <2>. QED
    BY <1>2, <2>1, <2>2, Zenon
<1>5. /\ Len(c) = L + Len(q) /\ DOMAIN c = 1 .. Len(c)
      /\ \A i \in 1 .. Len(c) : c[i] = IF i <= L THEN g[i] ELSE q[i - L]
  BY <1>1, ConcatProperties
<1>6. f <= e
  BY <1>1
<1> HIDE DEF s, b, e, q, c, L, Fits
<1>7. ASSUME NEW i \in 1 .. Len(c)
      PROVE  Fits(c[i]) /\ (i > 1 => c[i - 1].offset < c[i].offset)
  <2>1. CASE i <= L
    <3>1. i \in 1 .. L /\ (i > 1 => i - 1 \in 1 .. Len(c) /\ i - 1 <= L)
      BY <1>2, <1>5, <2>1
    <3>2. c[i] = g[i] /\ (i > 1 => c[i - 1] = g[i - 1])
      BY <1>5, <2>1, <3>1, Zenon
    <3>. QED
      BY <1>3, <3>1, <3>2, Zenon
  <2>2. CASE i = L + 1
    <3>1. 1 \in 1 .. Len(q) /\ ~(i <= L) /\ i - L = 1 /\ i - 1 = L
          /\ (i > 1 => L \in 1 .. L /\ L \in 1 .. Len(c) /\ L <= L)
      BY <1>2, <1>5, <2>2
    <3>2. c[i] = q[1] /\ (i > 1 => c[i - 1] = g[L])
      BY <1>5, <3>1, Zenon
    <3>3. Fits(q[1]) /\ b <= q[1].offset /\ q[1].offset \in Nat
      BY <1>2, <1>4, <3>1, Zenon
    <3>4. i > 1 => g[L].offset < b /\ g[L].offset \in Nat
      BY <1>2, <1>3, <3>1, Zenon
    <3>5. i > 1 => g[L].offset < q[1].offset
      BY <1>1, <3>3, <3>4, SMTT(30)
    <3>. QED
      BY <3>2, <3>3, <3>5, Zenon
  <2>3. CASE i > L + 1
    <3>1. /\ i - L \in 1 .. Len(q) /\ i - L > 1 /\ ~(i <= L) /\ (i - L) - 1 \in 1 .. Len(q)
          /\ (i - L) - 1 = (i - 1) - L /\ i - 1 \in 1 .. Len(c) /\ ~(i - 1 <= L)
      BY <1>2, <1>5, <2>3
    <3>2. c[i] = q[i - L] /\ c[i - 1] = q[(i - L) - 1]
      BY <1>5, <3>1, Zenon
    <3>3. Fits(q[i - L]) /\ q[i - L].offset > q[(i - L) - 1].offset
      BY <1>4, <3>1, Zenon
    <3>4. q[i - L].offset \in Nat /\ q[(i - L) - 1].offset \in Nat
      BY <1>2, <3>1, Zenon
    <3>5. q[(i - L) - 1].offset < q[i - L].offset
      BY <3>3, <3>4
    <3>. QED
      BY <3>2, <3>3, <3>5, Zenon
  <2>. QED
    BY <1>2, <1>5, <2>1, <2>2, <2>3
<1>8. WellFormed(s, f, e, c)
  BY <1>5, <1>7, Zenon DEF WellFormed, Fits
<1>. QED
  BY <1>6, <1>8, Zenon DEF s, e, c, q

\* Nothing is well formed.
LEMMA WellFormedNone ==
  ASSUME NEW s, NEW f, NEW u
  PROVE  WellFormed(s, f, u, <<>>)
<1>1. ~\E i : i \in DOMAIN <<>>
  OBVIOUS
<1>. QED
  BY <1>1, Zenon DEF WellFormed

\* A list of events is put after nothing.
LEMMA AfterNothing ==
  ASSUME NEW q \in Seq(AnyEnvelope)
  PROVE  <<>> \o q = q
  BY ConcatEmptySeq

\* The client is passed a segment that was accepted.
LEMMA ReceivedMore ==
  ASSUME NEW seg \in AnySegment, Parses(seg), NEW f \in Position, NEW u \in Position,
         NEW g \in Seq(AnyEnvelope), Received(seg.stream, f, u, g), u \in {None, seg.begin}
  PROVE  Received(seg.stream, IF f = None THEN seg.begin ELSE f, seg.end, g \o seg.envelopes)
<1>1. /\ seg.stream \in Stream /\ seg.begin \in Nat /\ seg.end \in Nat
      /\ seg.envelopes \in Seq(AnyEnvelope) /\ None \notin Nat
  BY SegmentFields, RemoteAssumption, Zenon
<1>2. CASE f = None
  <2>1. g = <<>> /\ <<>> \in Seq(AnyEnvelope) /\ seg.begin <= seg.begin
    BY <1>1, <1>2 DEF Received
  <2>3. WellFormed(seg.stream, seg.begin, seg.begin, g)
    BY <2>1, WellFormedNone, Zenon
  <2>2. seg.begin <= seg.end /\ WellFormed(seg.stream, seg.begin, seg.end, g \o seg.envelopes)
    BY <1>1, <2>1, <2>3, WellFormedMore, Zenon
  <2>. QED
    BY <1>1, <1>2, <2>2, Zenon DEF Received
<1>3. CASE f # None
  <2>1. f \in Nat /\ u = seg.begin /\ f <= u /\ WellFormed(seg.stream, f, u, g)
    BY <1>3, Zenon DEF Received, Position
  <2>2. f <= seg.end /\ WellFormed(seg.stream, f, seg.end, g \o seg.envelopes)
    BY <2>1, WellFormedMore, Zenon
  <2>. QED
    BY <1>1, <1>3, <2>2, Zenon DEF Received
<1>. QED
  BY <1>2, <1>3, Zenon

\* The client is passed an honest segment.
LEMMA DeliveredMore ==
  ASSUME NEW seg, Honest(seg), NEW f \in Position, NEW u \in Position,
         NEW g, Received(seg.stream, f, u, g), u \in {None, seg.begin},
         Delivered(seg.stream, f, u, g)
  PROVE  Delivered(seg.stream, IF f = None THEN seg.begin ELSE f, seg.end, g \o seg.envelopes)
<1> DEFINE s == seg.stream
           b == seg.begin
           e == seg.end
           q == seg.envelopes
<1>1. /\ seg \in AnySegment /\ b <= e /\ Lists(q, s, Chosen(s, b, e))
  BY Zenon DEF Honest
<1>2. b \in Nat /\ e \in Nat /\ q \in Seq(AnyEnvelope)
  BY <1>1, SegmentFields, Zenon
<1> HIDE DEF s, b, e, q
<1>3. CASE f = None
  <2>1. g \o q = q
    BY <1>2, <1>3, AfterNothing, Zenon DEF Received
  <2>. QED
    BY <1>1, <1>3, <2>1, Zenon DEF Delivered, s, b, e, q
<1>4. CASE f # None
  <2>1. f \in Nat /\ u = b /\ f <= b /\ Lists(g, s, Chosen(s, f, b))
    BY <1>4, Zenon DEF Received, Delivered, Position, s, b
  <2>2. /\ Chosen(s, f, e) = Chosen(s, f, b) \union Chosen(s, b, e)
        /\ \A o \in Chosen(s, f, b), p \in Chosen(s, b, e) : o < p
    <3>1. b \in Nat /\ e \in Nat /\ b <= e /\ f \in Nat /\ f <= b
      BY <1>1, <1>2, <2>1, Zenon
    <3>2. Chosen(s, f, e) = Chosen(s, f, b) \union Chosen(s, b, e)
      BY <3>1, ChosenFacts, SMTT(30)
    <3>3. \A o \in Chosen(s, f, b), p \in Chosen(s, b, e) : o < p
      BY <3>1, ChosenFacts, SMTT(30)
    <3>. QED
      BY <3>1, <3>2, <3>3, Zenon
  <2>3. Lists(g \o q, s, Chosen(s, f, b) \union Chosen(s, b, e))
    BY <1>1, <2>1, <2>2, ListsConcat, Zenon
  <2>4. Lists(g \o q, s, Chosen(s, f, e))
    BY <2>2, <2>3, Zenon
  <2>. QED
    BY <1>4, <2>4, Zenon DEF Delivered, s, e, q
<1>. QED
  BY <1>3, <1>4, Zenon

-------------------------------------------------------------------------------
(* The server sends.                                                       *)

\* The call x has pending what call had, but for the first part of seg.
PendingAfter(x, call, seg) ==
  /\ seg \in Pending(call) /\ Honest(seg) /\ call.status = "none"
  /\ Pending(x) = (Pending(call) \ {seg}) \union Rest(seg)
  /\ Pends(x)
  /\ \A y \in Pending(x) : \E z \in Pending(call) : y.stream = z.stream /\ y.end = z.end

\* What is pending after a part is sent.
LEMMA PendsSent ==
  ASSUME NEW call, Pends(call), NEW seg \in Passed(call),
         NEW x, x.segments = call.segments \ {seg}, x.rest = Rest(seg), x.status = call.status
  PROVE  PendingAfter(x, call, seg)
<1>1. seg \in Pending(call) /\ (call.rest = {} \/ call.rest = {seg})
  BY Zenon DEF Passed, Pending, Pends
<1>2. Honest(seg) /\ call.status = "none"
  BY <1>1, Zenon DEF Pends
<1>3. Pending(x) = (Pending(call) \ {seg}) \union Rest(seg)
  BY <1>1, Zenon DEF Pending
<1>4. /\ \A r \in Rest(seg) : Honest(r) /\ r.stream = seg.stream /\ r.end = seg.end
      /\ \A r, q \in Rest(seg) : r = q
  BY <1>2, PartFacts, ZenonT(30)
<1>5. \A y \in Pending(x) : Honest(y)
  BY <1>3, <1>4, ZenonT(30) DEF Pends
<1>6. \A y, z \in Pending(x) : y.stream = z.stream => y = z
  BY <1>1, <1>3, <1>4, Zenon DEF Pends
<1>7. Pends(x)
  BY <1>2, <1>4, <1>5, <1>6, Zenon DEF Pends
<1>8. \A y \in Pending(x) : \E z \in Pending(call) : y.stream = z.stream /\ y.end = z.end
  BY <1>1, <1>3, <1>4, Zenon
<1>. QED
  BY <1>1, <1>2, <1>3, <1>7, <1>8, Zenon DEF PendingAfter

\* What is left of a segment is a set of segments.
LEMMA RestTyped ==
  ASSUME NEW seg, Honest(seg)
  PROVE  Rest(seg) \subseteq AnySegment /\ FirstPart(seg) \in AnySegment
  BY PartFacts, Zenon DEF Honest

\* The types of the fields of a watch.
LEMMA WatchFields ==
  ASSUME NEW w \in WatchType
  PROVE  /\ w.open \in BOOLEAN /\ w.segments \subseteq AnySegment /\ w.rest \subseteq AnySegment
         /\ w.wire \in Seq(AnySegment)
         /\ w.delivered \in [Stream -> Position] /\ w.from \in [Stream -> Position]
         /\ w.upTo \in [Stream -> Position] /\ w.got \in [Stream -> Seq(AnyEnvelope)]
  BY Zenon DEF WatchType

\* x is the watch w after part was sent for the first part of seg.
WatchAfter(x, w, seg, part) ==
  /\ x \in WatchType
  /\ x.segments = w.segments \ {seg} /\ x.rest = Rest(seg)
  /\ x.wire = Append(w.wire, part) /\ x.status = w.status
  /\ x.delivered = w.delivered /\ x.from = w.from /\ x.upTo = w.upTo
  /\ x.got = w.got /\ x.outcome = w.outcome

\* The fields of a watch after a part is sent.
LEMMA WatchSentFields ==
  ASSUME NEW w \in WatchType, NEW seg, NEW part \in AnySegment, Rest(seg) \subseteq AnySegment,
         NEW x, x = Sent(w, seg, part)
  PROVE  WatchAfter(x, w, seg, part)
<1> DEFINE S == w.segments \ {seg}
           R == Rest(seg)
           W == Append(w.wire, part)
<1>1. x = [w EXCEPT !.segments = S, !.rest = R, !.wire = W]
  BY Zenon DEF Sent
<1>2. S \subseteq AnySegment /\ R \subseteq AnySegment
  BY WatchFields, Zenon
<1>3. W \in Seq(AnySegment)
  BY WatchFields, AppendProperties
<1> HIDE DEF S, R, W
<1>4. x \in WatchType /\ x.segments = S /\ x.rest = R /\ x.wire = W
  BY <1>1, <1>2, <1>3, ZenonT(30) DEF WatchType
<1>5. /\ x.status = w.status /\ x.delivered = w.delivered /\ x.from = w.from
      /\ x.upTo = w.upTo /\ x.got = w.got /\ x.outcome = w.outcome
  BY <1>1, Zenon DEF WatchType
<1>. QED
  BY <1>4, <1>5, Zenon DEF S, R, W, WatchAfter

\* The server of a watch sends a part.
LEMMA WatchSent ==
  ASSUME NEW w, NEW e, NEW l, WatchOK(w, e, l), NEW seg \in Passed(w)
  PROVE  WatchOK(Sent(w, seg, FirstPart(seg)), e, l)
<1> DEFINE part == FirstPart(seg)
           x == Sent(w, seg, part)
<1>1. w \in WatchType /\ Pends(w)
  BY Zenon DEF WatchOK
<1>2. seg \in Pending(w) /\ Honest(seg)
  BY <1>1, Zenon DEF Passed, Pending, Pends
<1>a. WatchAfter(x, w, seg, part)
  BY <1>1, <1>2, RestTyped, WatchSentFields, Zenon
<1>0. part = FirstPart(seg) /\ part \in AnySegment
  BY <1>2, RestTyped, Zenon
<1> HIDE DEF x, part
<1>3. /\ x \in WatchType
      /\ x.segments = w.segments \ {seg} /\ x.rest = Rest(seg)
      /\ x.wire = Append(w.wire, part) /\ x.status = w.status
      /\ x.delivered = w.delivered /\ x.from = w.from /\ x.upTo = w.upTo
      /\ x.got = w.got /\ x.outcome = w.outcome
  BY <1>a, Zenon DEF WatchAfter
<1>b. PendingAfter(x, w, seg)
  BY <1>1, <1>3, PendsSent, Zenon
<1>4. /\ w.status = "none" /\ Pends(x)
      /\ Pending(x) = (Pending(w) \ {seg}) \union Rest(seg)
      /\ \A y \in Pending(x) : \E z \in Pending(w) : y.stream = z.stream /\ y.end = z.end
  BY <1>b, Zenon DEF PendingAfter
<1>5. \A y \in Pending(x) : y.end = x.delivered[y.stream]
  BY <1>3, <1>4, Zenon DEF WatchOK
<1>6. ASSUME l # TRUE
      PROVE  WatchHonest(x)
  <2>1. WatchHonest(w) /\ part = FirstPart(seg)
    BY <1>0, <1>6, Zenon DEF WatchOK
  <2>2. Honest(part) /\ Bounded(part.envelopes) /\ part.stream \in Stream
    BY <1>0, <1>2, <2>1, PartFacts, SegmentFields, Zenon
  <2>3. w.wire \in Seq(AnySegment)
    BY <1>1, WatchFields, Zenon
  <2>4. Carries(x.wire, Stream)
    <3>1. Carries(w.wire, Stream) /\ x.wire = Append(w.wire, part)
      BY <1>3, <2>1, Zenon DEF WatchHonest
    <3>2. Carries(Append(w.wire, part), Stream)
      BY <1>0, <2>2, <2>3, <3>1, CarriesAppend, Zenon
    <3>. QED
      BY <3>1, <3>2, Zenon
  <2>5. ASSUME NEW s \in Stream
        PROVE  WatchPath(x, s)
    <3>1. PICK d : /\ Path(Position, w.wire, Pending(w), s, w.upTo[s], d)
                   /\ w.status = "none" => d = w.delivered[s]
      BY <2>1, Zenon DEF WatchHonest, WatchPath
    <3>2. seg.stream = s => seg.end = d
      BY <1>2, <1>4, <3>1, Zenon DEF WatchOK
    <3>3. Nat \subseteq Position /\ Position \subseteq Position
      BY Zenon DEF Position
    <3>4. \A y, z \in Pending(w) : y.stream = z.stream => y = z
      BY <1>1, Zenon DEF Pends
    <3>5. Path(Position, Append(w.wire, FirstPart(seg)), (Pending(w) \ {seg}) \union Rest(seg),
               s, w.upTo[s], d)
      BY <1>2, <2>3, <3>1, <3>2, <3>3, <3>4, PathSent, Zenon
    <3>6. Path(Position, x.wire, Pending(x), s, x.upTo[s], d)
      BY <1>3, <1>4, <2>1, <3>5, Zenon
    <3>. QED
      BY <1>3, <1>4, <3>1, <3>6, Zenon DEF WatchPath
  <2>6. x.outcome # "invalid segment"
        /\ \A s \in Stream : Delivered(s, x.from[s], x.upTo[s], x.got[s])
    BY <1>3, <2>1, Zenon DEF WatchHonest
  <2>. QED
    BY <2>4, <2>5, <2>6, Zenon DEF WatchHonest
<1>7. /\ \A s \in Stream : x.delivered[s] # None => e[s] # None /\ x.delivered[s] <= e[s]
      /\ \A s \in Stream : Received(s, x.from[s], x.upTo[s], x.got[s])
  BY <1>3, Zenon DEF WatchOK
<1>8. WatchOK(x, e, l)
  BY <1>3, <1>4, <1>5, <1>6, <1>7, Zenon DEF WatchOK
<1>. QED
  BY <1>8, Zenon DEF x, part

\* The types of the fields of a read.
LEMMA ReadFields ==
  ASSUME NEW r \in ReadType
  PROVE  /\ r.open \in BOOLEAN /\ r.segments \subseteq AnySegment /\ r.rest \subseteq AnySegment
         /\ r.wire \in Seq(AnySegment) /\ r.stream \in Stream \union {None}
         /\ r.next \in Position /\ r.from \in Position /\ r.upTo \in Position
         /\ r.got \in Seq(AnyEnvelope) /\ r.target \in Position
  BY Zenon DEF ReadType

\* x is the read r after part was sent for the first part of seg.
ReadAfter(x, r, seg, part) ==
  /\ x \in ReadType
  /\ x.segments = r.segments \ {seg} /\ x.rest = Rest(seg)
  /\ x.wire = Append(r.wire, part) /\ x.status = r.status
  /\ x.open = r.open /\ x.stream = r.stream /\ x.next = r.next /\ x.from = r.from
  /\ x.upTo = r.upTo /\ x.got = r.got /\ x.target = r.target /\ x.outcome = r.outcome

\* The fields of a read after a part is sent.
LEMMA ReadSentFields ==
  ASSUME NEW r \in ReadType, NEW seg, NEW part \in AnySegment, Rest(seg) \subseteq AnySegment,
         NEW x, x = Sent(r, seg, part)
  PROVE  ReadAfter(x, r, seg, part)
<1> DEFINE S == r.segments \ {seg}
           R == Rest(seg)
           W == Append(r.wire, part)
<1>1. x = [r EXCEPT !.segments = S, !.rest = R, !.wire = W]
  BY Zenon DEF Sent
<1>2. S \subseteq AnySegment /\ R \subseteq AnySegment
  BY ReadFields, Zenon
<1>3. W \in Seq(AnySegment)
  BY ReadFields, AppendProperties
<1> HIDE DEF S, R, W
<1>4. x \in ReadType /\ x.segments = S /\ x.rest = R /\ x.wire = W
  BY <1>1, <1>2, <1>3, ZenonT(30) DEF ReadType
<1>5. /\ x.status = r.status /\ x.open = r.open /\ x.stream = r.stream /\ x.next = r.next
      /\ x.from = r.from /\ x.upTo = r.upTo /\ x.got = r.got /\ x.target = r.target
      /\ x.outcome = r.outcome
  BY <1>1, ZenonT(30) DEF ReadType
<1>. QED
  BY <1>4, <1>5, Zenon DEF S, R, W, ReadAfter

\* The server of a read sends a part.
LEMMA ReadSent ==
  ASSUME NEW r, NEW e, NEW l, ReadOK(r, e, l), r.open, NEW seg \in Passed(r)
  PROVE  ReadOK(Sent(r, seg, FirstPart(seg)), e, l)
<1> DEFINE part == FirstPart(seg)
           x == Sent(r, seg, part)
<1>1. r \in ReadType /\ Pends(r) /\ ReadServed(r, e)
  BY Zenon DEF ReadOK
<1>2. seg \in Pending(r) /\ Honest(seg)
  BY <1>1, Zenon DEF Passed, Pending, Pends
<1>a. ReadAfter(x, r, seg, part)
  BY <1>1, <1>2, RestTyped, ReadSentFields, Zenon
<1>0. part = FirstPart(seg) /\ part \in AnySegment
  BY <1>2, RestTyped, Zenon
<1> HIDE DEF x, part
<1>3. /\ x \in ReadType
      /\ x.segments = r.segments \ {seg} /\ x.rest = Rest(seg)
      /\ x.wire = Append(r.wire, part) /\ x.status = r.status
      /\ x.open = r.open /\ x.stream = r.stream /\ x.next = r.next /\ x.from = r.from
      /\ x.upTo = r.upTo /\ x.got = r.got /\ x.target = r.target /\ x.outcome = r.outcome
  BY <1>a, Zenon DEF ReadAfter
<1>b. PendingAfter(x, r, seg)
  BY <1>1, <1>3, PendsSent, Zenon
<1>4. /\ r.status = "none" /\ Pends(x)
      /\ Pending(x) = (Pending(r) \ {seg}) \union Rest(seg)
      /\ \A y \in Pending(x) : \E z \in Pending(r) : y.stream = z.stream /\ y.end = z.end
  BY <1>b, Zenon DEF PendingAfter
<1>5. \A y \in Pending(x) : y.stream = x.stream /\ y.end = x.next
  <2>1. \A z \in Pending(r) : z.stream = r.stream /\ z.end = r.next
    BY <1>1, Zenon DEF ReadServed
  <2>2. x.stream = r.stream /\ x.next = r.next
    BY <1>3, Zenon
  <2>. QED
    BY <1>4, <2>1, <2>2, Zenon
<1>6. ReadServed(x, e)
  BY <1>1, <1>3, <1>4, <1>5, SMT DEF ReadServed
<1>7. ASSUME l # TRUE
      PROVE  ReadHonest(x)
  <2>1. ReadHonest(r) /\ part = FirstPart(seg)
    BY <1>0, <1>7, Zenon DEF ReadOK
  <2>2. Honest(part) /\ Bounded(part.envelopes) /\ part.stream = r.stream
    BY <1>1, <1>2, <2>1, PartFacts, Zenon DEF ReadServed
  <2>3. r.wire \in Seq(AnySegment)
    BY <1>1, ReadFields, Zenon
  <2>4. Carries(x.wire, {x.stream})
    <3>1. /\ Carries(r.wire, {r.stream}) /\ x.wire = Append(r.wire, part)
          /\ x.stream = r.stream /\ part.stream \in {r.stream}
      BY <1>3, <2>1, <2>2, Zenon DEF ReadHonest
    <3>2. Carries(Append(r.wire, part), {r.stream})
      BY <1>0, <2>2, <2>3, <3>1, CarriesAppend, Zenon
    <3>. QED
      BY <3>1, <3>2, Zenon
  <2>5. Path(Nat, x.wire, Pending(x), x.stream, x.upTo, x.next)
    <3>1. Path(Nat, r.wire, Pending(r), r.stream, r.upTo, r.next)
      BY <2>1, Zenon DEF ReadHonest
    <3>2. seg.end = r.next
      BY <1>1, <1>2, Zenon DEF ReadServed
    <3>3. Nat \subseteq Nat /\ Nat \subseteq Position
      BY Zenon DEF Position
    <3>4. \A y, z \in Pending(r) : y.stream = z.stream => y = z
      BY <1>1, Zenon DEF Pends
    <3>5. Path(Nat, Append(r.wire, FirstPart(seg)), (Pending(r) \ {seg}) \union Rest(seg),
               r.stream, r.upTo, r.next)
      BY <1>2, <2>3, <3>1, <3>2, <3>3, <3>4, PathSent, Zenon
    <3>. QED
      BY <1>3, <1>4, <2>1, <3>5, Zenon
  <2>7. ReadReports(x)
    BY <1>3, <2>1, Zenon DEF ReadHonest, ReadReports
  <2>6. /\ x.outcome # "invalid segment" /\ ReadEnded(x)
        /\ Delivered(x.stream, x.from, x.upTo, x.got)
    BY <1>3, <2>1, Zenon DEF ReadHonest, ReadEnded
  <2>. QED
    BY <2>4, <2>5, <2>6, <2>7, Zenon DEF ReadHonest
<1>8. Received(x.stream, x.from, x.upTo, x.got)
  BY <1>3, Zenon DEF ReadOK
<1>9. ReadOK(x, e, l)
  BY <1>3, <1>4, <1>6, <1>7, <1>8, Zenon DEF ReadOK
<1>. QED
  BY <1>9, Zenon DEF x, part

-------------------------------------------------------------------------------
(* Calls that have just begun, or have ended.                              *)

\* A watch of which nothing was sent, received or loaded.
FreshWatch(w) ==
  /\ w \in WatchType
  /\ w.segments = {} /\ w.rest = {} /\ w.wire = <<>> /\ w.status = "none"
  /\ w.delivered = Nowhere /\ w.from = Nowhere /\ w.upTo = Nowhere
  /\ w.got = [s \in Stream |-> <<>>]

\* The values that a watch starts from.
LEMMA NothingTyped ==
  /\ Nowhere \in [Stream -> Position] /\ [s \in Stream |-> <<>>] \in [Stream -> Seq(AnyEnvelope)]
  /\ <<>> \in Seq(AnySegment) /\ {} \subseteq AnySegment /\ <<>> \in Seq(AnyEnvelope)
  /\ None \in Position /\ None \notin Nat
<1>1. None \in Position
  BY Zenon DEF Position
<1>2. <<>> \in Seq(AnySegment) /\ <<>> \in Seq(AnyEnvelope)
  OBVIOUS
<1>3. None \notin Nat
  BY RemoteAssumption, Zenon
<1>. QED
  BY <1>1, <1>2, <1>3, Zenon DEF Nowhere

\* A watch before the first, one that begins, and one that has ended.
LEMMA FreshWatches ==
  /\ NoWatch.outcome = "none" /\ FreshWatch(NoWatch)
  /\ [NoWatch EXCEPT !.open = TRUE].outcome = "none" /\ FreshWatch([NoWatch EXCEPT !.open = TRUE])
  /\ \A o \in {"none", "invalid segment", "too slow", "unsupported", "failed"} :
       /\ [NoWatch EXCEPT !.outcome = o].outcome = o
       /\ FreshWatch([NoWatch EXCEPT !.outcome = o])
<1>1. NoWatch \in WatchType
  <2>1. Nowhere \in [Stream -> Position] /\ [s \in Stream |-> <<>>] \in [Stream -> Seq(AnyEnvelope)]
    BY NothingTyped, Zenon
  <2>. QED
    BY <2>1, NothingTyped, Zenon DEF NoWatch, WatchType
<1>2. /\ NoWatch.segments = {} /\ NoWatch.rest = {} /\ NoWatch.wire = <<>>
      /\ NoWatch.status = "none" /\ NoWatch.delivered = Nowhere /\ NoWatch.from = Nowhere
      /\ NoWatch.upTo = Nowhere /\ NoWatch.got = [s \in Stream |-> <<>>]
      /\ NoWatch.outcome = "none"
  BY Zenon DEF NoWatch
<1>3. ASSUME NEW w, \/ w = [NoWatch EXCEPT !.open = TRUE]
                    \/ \E o \in {"none", "invalid segment", "too slow", "unsupported", "failed"} :
                         w = [NoWatch EXCEPT !.outcome = o]
      PROVE  /\ w \in WatchType
             /\ w.segments = NoWatch.segments /\ w.rest = NoWatch.rest
             /\ w.wire = NoWatch.wire /\ w.status = NoWatch.status
             /\ w.delivered = NoWatch.delivered /\ w.from = NoWatch.from
             /\ w.upTo = NoWatch.upTo /\ w.got = NoWatch.got
  BY <1>1, <1>3, Zenon DEF WatchType
<1>4. /\ [NoWatch EXCEPT !.open = TRUE].outcome = NoWatch.outcome
      /\ \A o : [NoWatch EXCEPT !.outcome = o].outcome = o
  BY <1>1, Zenon DEF WatchType
<1>5. FreshWatch(NoWatch)
  BY <1>1, <1>2, Zenon DEF FreshWatch
<1>6. ASSUME NEW w, \/ w = [NoWatch EXCEPT !.open = TRUE]
                    \/ \E o \in {"none", "invalid segment", "too slow", "unsupported", "failed"} :
                         w = [NoWatch EXCEPT !.outcome = o]
      PROVE  FreshWatch(w)
  <2>1. /\ w \in WatchType
        /\ w.segments = NoWatch.segments /\ w.rest = NoWatch.rest
        /\ w.wire = NoWatch.wire /\ w.status = NoWatch.status
        /\ w.delivered = NoWatch.delivered /\ w.from = NoWatch.from
        /\ w.upTo = NoWatch.upTo /\ w.got = NoWatch.got
    BY <1>3, <1>6, Zenon
  <2>. QED
    BY <1>2, <2>1, Zenon DEF FreshWatch
<1>. QED
  BY <1>2, <1>4, <1>5, <1>6, Zenon

\* Nothing is known of a watch that has just begun or has ended.
LEMMA FreshWatchOK ==
  ASSUME NEW w, FreshWatch(w), NEW e, NEW l, l # TRUE => w.outcome # "invalid segment"
  PROVE  WatchOK(w, e, l)
<1>1. /\ w \in WatchType /\ Pending(w) = {} /\ w.rest = {} /\ w.wire = <<>> /\ w.status = "none"
      /\ \A s \in Stream : /\ w.delivered[s] = None /\ w.from[s] = None /\ w.upTo[s] = None
                           /\ w.got[s] = <<>>
  BY Zenon DEF FreshWatch, Pending, Nowhere
<1>2. Pends(w)
  BY <1>1, Zenon DEF Pends
<1>3. \A s \in Stream : Received(s, w.from[s], w.upTo[s], w.got[s])
  BY <1>1, Zenon DEF Received
<1>4. Carries(w.wire, Stream)
  BY <1>1, CarriesNone, Zenon
<1>5. \A s \in Stream : Delivered(s, w.from[s], w.upTo[s], w.got[s])
  BY <1>1, Zenon DEF Delivered
<1>6. ASSUME NEW s \in Stream
      PROVE  WatchPath(w, s)
  <2>1. Path(Position, <<>>, {}, s, None, None)
    BY NothingTyped, PathNone, Zenon
  <2>. QED
    BY <1>1, <2>1, Zenon DEF WatchPath
<1>7. l # TRUE => WatchHonest(w)
  BY <1>4, <1>5, <1>6, Zenon DEF WatchHonest
<1>. QED
  BY <1>1, <1>2, <1>3, <1>7, Zenon DEF WatchOK

\* Streams that end at e may grow to end at n.
Growth(e, n) ==
  /\ e \in [Stream -> Position] /\ n \in [Stream -> Position]
  /\ \A s \in Stream : e[s] # None => n[s] # None /\ e[s] <= n[s]

\* The order of offsets.
LEMMA GrowthFacts ==
  ASSUME NEW e, NEW n, Growth(e, n), NEW s \in Stream, NEW x \in Position,
         x # None, e[s] # None, x <= e[s]
  PROVE  n[s] # None /\ x <= n[s]
<1>1. x \in Nat /\ e[s] \in Nat /\ n[s] \in Nat /\ n[s] # None /\ e[s] <= n[s]
  BY Zenon DEF Growth, Position
<1>. QED
  BY <1>1

\* A watch goes on as the streams grow.
LEMMA WatchFrame ==
  ASSUME NEW w, NEW e, NEW l, WatchOK(w, e, l), NEW n, Growth(e, n)
  PROVE  WatchOK(w, n, l)
<1>1. w.delivered \in [Stream -> Position]
  BY WatchFields, Zenon DEF WatchOK
<1>2. ASSUME NEW s \in Stream, w.delivered[s] # None
      PROVE  n[s] # None /\ w.delivered[s] <= n[s]
  <2>1. e[s] # None /\ w.delivered[s] <= e[s] /\ w.delivered[s] \in Position
    BY <1>1, <1>2, Zenon DEF WatchOK
  <2>. QED
    BY <1>2, <2>1, GrowthFacts, Zenon
<1>. QED
  BY <1>2, Zenon DEF WatchOK

\* A read goes on as the streams grow.
LEMMA ReadFrame ==
  ASSUME NEW r, NEW e, NEW l, ReadOK(r, e, l), NEW n, Growth(e, n)
  PROVE  ReadOK(r, n, l)
<1>1. ASSUME r.open
      PROVE  ReadServed(r, n)
  <2>1. ReadServed(r, e) /\ r \in ReadType
    BY <1>1, Zenon DEF ReadOK
  <2>2. r.stream \in Stream /\ r.next \in Position /\ r.next # None /\ r.target \in Position
    BY <2>1, ReadFields, NothingTyped, Zenon DEF ReadServed
  <2>3. r.target # None => n[r.stream] # None /\ r.target <= n[r.stream]
    <3>1. SUFFICES ASSUME r.target # None
                   PROVE  n[r.stream] # None /\ r.target <= n[r.stream]
      BY Zenon
    <3>2. e[r.stream] # None /\ r.target <= e[r.stream]
      BY <2>1, <3>1, Zenon DEF ReadServed
    <3>. QED
      BY <2>2, <3>1, <3>2, GrowthFacts, Zenon
  <2>4. r.next # r.from => n[r.stream] # None /\ r.next <= n[r.stream]
    <3>1. SUFFICES ASSUME r.next # r.from
                   PROVE  n[r.stream] # None /\ r.next <= n[r.stream]
      BY Zenon
    <3>2. e[r.stream] # None /\ r.next <= e[r.stream]
      BY <2>1, <3>1, Zenon DEF ReadServed
    <3>. QED
      BY <2>2, <3>2, GrowthFacts, Zenon
  <2>. QED
    BY <2>1, <2>3, <2>4, Zenon DEF ReadServed
<1>. QED
  BY <1>1, Zenon DEF ReadOK

-------------------------------------------------------------------------------
(* The steps of a watch.                                                   *)

\* Remote.Watch accepts the first message on the wire, seg, that begins where
\* the last segment of its stream ended.
WatchAccepted(x, w) ==
  LET seg == Head(w.wire) IN
  /\ x \in WatchType
  /\ x.segments = w.segments /\ x.rest = w.rest /\ x.wire = Tail(w.wire)
  /\ x.status = w.status /\ x.delivered = w.delivered /\ x.outcome = w.outcome
  /\ x.from = [w.from EXCEPT ![seg.stream] =
                 IF w.from[seg.stream] = None THEN seg.begin ELSE w.from[seg.stream]]
  /\ x.upTo = [w.upTo EXCEPT ![seg.stream] = seg.end]
  /\ x.got = [w.got EXCEPT ![seg.stream] = w.got[seg.stream] \o seg.envelopes]

\* The fields of a watch after a segment is accepted.
LEMMA WatchAcceptedFields ==
  ASSUME NEW w \in WatchType, w.wire # <<>>, NEW seg, seg = Head(w.wire), NEW x,
         x = [w EXCEPT !.wire = Tail(@),
                       !.from[seg.stream] = IF @ = None THEN seg.begin ELSE @,
                       !.upTo[seg.stream] = seg.end,
                       !.got[seg.stream] = @ \o seg.envelopes]
  PROVE  WatchAccepted(x, w)
<1> DEFINE s == seg.stream
           T == Tail(w.wire)
           f == IF w.from[s] = None THEN seg.begin ELSE w.from[s]
           g == w.got[s] \o seg.envelopes
           F == [w.from EXCEPT ![s] = f]
           U == [w.upTo EXCEPT ![s] = seg.end]
           G == [w.got EXCEPT ![s] = g]
<1>0. /\ w.wire \in Seq(AnySegment) /\ w.from \in [Stream -> Position]
      /\ w.upTo \in [Stream -> Position] /\ w.got \in [Stream -> Seq(AnyEnvelope)]
  BY WatchFields, Zenon
<1>1. seg \in AnySegment /\ T \in Seq(AnySegment)
  BY <1>0, HeadTailProperties
<1>2. s \in Stream /\ seg.begin \in Nat /\ seg.end \in Nat /\ seg.envelopes \in Seq(AnyEnvelope)
  BY <1>1, SegmentFields, Zenon
<1>3. f \in Position /\ seg.end \in Position
  BY <1>0, <1>2, Zenon DEF Position
<1>4. g \in Seq(AnyEnvelope)
  <2>1. w.got[s] \in Seq(AnyEnvelope)
    BY <1>0, <1>2, Zenon
  <2>. QED
    BY <1>2, <2>1, ConcatProperties
<1>5. x = [w EXCEPT !.wire = T, !.from = F, !.upTo = U, !.got = G]
  BY Zenon
<1> HIDE DEF s, f, g, T
<1>6. F \in [Stream -> Position] /\ U \in [Stream -> Position] /\ G \in [Stream -> Seq(AnyEnvelope)]
  BY <1>0, <1>2, <1>3, <1>4, Zenon
<1> HIDE DEF F, U, G
<1>7. x \in WatchType
  BY <1>1, <1>5, <1>6, ZenonT(30) DEF WatchType
<1>8. x.wire = T /\ x.from = F /\ x.upTo = U /\ x.got = G
  BY <1>5, ZenonT(30) DEF WatchType
<1>9. /\ x.segments = w.segments /\ x.rest = w.rest /\ x.status = w.status
      /\ x.delivered = w.delivered /\ x.outcome = w.outcome
  BY <1>5, Zenon DEF WatchType
<1>. QED
  BY <1>7, <1>8, <1>9, Zenon DEF WatchAccepted, T, F, U, G, s, f, g

\* What the client has then.
LEMMA WatchAcceptedOK ==
  ASSUME NEW w, NEW e, NEW l, WatchOK(w, e, l), w.wire # <<>>, NEW seg, seg = Head(w.wire),
         Parses(seg), w.upTo[seg.stream] \in {None, seg.begin}, NEW x, WatchAccepted(x, w)
  PROVE  WatchOK(x, e, l)
<1> DEFINE s == seg.stream
<1>1. w \in WatchType
  BY Zenon DEF WatchOK
<1>2. /\ w.wire \in Seq(AnySegment) /\ w.from \in [Stream -> Position]
      /\ w.upTo \in [Stream -> Position] /\ w.got \in [Stream -> Seq(AnyEnvelope)]
  BY <1>1, WatchFields, Zenon
<1>3. seg \in AnySegment
  BY <1>2, HeadTailProperties
<1>4. s \in Stream
  BY <1>3, SegmentFields, Zenon
<1>5. /\ x \in WatchType
      /\ x.segments = w.segments /\ x.rest = w.rest /\ x.wire = Tail(w.wire)
      /\ x.status = w.status /\ x.delivered = w.delivered /\ x.outcome = w.outcome
  BY Zenon DEF WatchAccepted
<1>6. /\ x.from[s] = IF w.from[s] = None THEN seg.begin ELSE w.from[s]
      /\ x.upTo[s] = seg.end /\ x.got[s] = w.got[s] \o seg.envelopes
  BY <1>2, <1>4, Zenon DEF WatchAccepted
<1>7. \A t \in Stream : t # s => x.from[t] = w.from[t] /\ x.upTo[t] = w.upTo[t] /\ x.got[t] = w.got[t]
  BY <1>2, Zenon DEF WatchAccepted
<1>8. Pending(x) = Pending(w)
  BY <1>5, Zenon DEF Pending
<1>9. Pends(x)
  <2>1. Pends(w)
    BY Zenon DEF WatchOK
  <2>. QED
    BY <1>5, <1>8, <2>1, Zenon DEF Pends
<1>10. /\ \A y \in Pending(x) : y.end = x.delivered[y.stream]
       /\ \A t \in Stream : x.delivered[t] # None => e[t] # None /\ x.delivered[t] <= e[t]
  <2>1. /\ \A y \in Pending(w) : y.end = w.delivered[y.stream]
        /\ \A t \in Stream : w.delivered[t] # None => e[t] # None /\ w.delivered[t] <= e[t]
    BY Zenon DEF WatchOK
  <2>2. x.delivered = w.delivered
    BY <1>5, Zenon
  <2>. QED
    BY <1>8, <2>1, <2>2, Zenon
<1>11. w.from[s] \in Position /\ w.upTo[s] \in Position /\ w.got[s] \in Seq(AnyEnvelope)
  BY <1>2, <1>4, Zenon
<1>12. Received(s, w.from[s], w.upTo[s], w.got[s])
  BY <1>4, Zenon DEF WatchOK
<1>13. Received(s, x.from[s], x.upTo[s], x.got[s])
  BY <1>3, <1>6, <1>11, <1>12, ReceivedMore, ZenonT(30)
<1>14. \A t \in Stream : Received(t, x.from[t], x.upTo[t], x.got[t])
  BY <1>7, <1>13, Zenon DEF WatchOK
<1>15. ASSUME l # TRUE
       PROVE  WatchHonest(x)
  <2>1. WatchHonest(w)
    BY <1>15, Zenon DEF WatchOK
  <2>2. Carries(w.wire, Stream)
    BY <2>1, Zenon DEF WatchHonest
  <2>3. Carries(Tail(w.wire), Stream) /\ Honest(seg)
    BY <1>2, <2>2, CarriesTail, Zenon
  <2>4. Delivered(s, w.from[s], w.upTo[s], w.got[s])
    BY <1>4, <2>1, Zenon DEF WatchHonest
  <2>5. Delivered(s, x.from[s], x.upTo[s], x.got[s])
    BY <1>6, <1>11, <1>12, <2>3, <2>4, DeliveredMore, Zenon
  <2>6. \A t \in Stream : Delivered(t, x.from[t], x.upTo[t], x.got[t])
    BY <1>7, <2>1, <2>5, Zenon DEF WatchHonest
  <2>7. ASSUME NEW t \in Stream
        PROVE  WatchPath(x, t)
    <3>1. PICK d : /\ Path(Position, w.wire, Pending(w), t, w.upTo[t], d)
                   /\ w.status = "none" => d = w.delivered[t]
      BY <2>1, Zenon DEF WatchHonest, WatchPath
    <3>2. PICK b \in Position : /\ Move(t, Head(w.wire), w.upTo[t], b)
                                /\ Path(Position, Tail(w.wire), Pending(w), t, b, d)
      BY <1>2, <3>1, PathReceived, Zenon
    <3>3. b = x.upTo[t]
      BY <1>6, <1>7, <3>2, Zenon DEF Move
    <3>4. Path(Position, x.wire, Pending(x), t, x.upTo[t], d)
      BY <1>5, <1>8, <3>2, <3>3, Zenon
    <3>5. x.status = "none" => d = x.delivered[t]
      BY <1>5, <3>1, Zenon
    <3>. QED
      BY <3>4, <3>5, Zenon DEF WatchPath
  <2>8. x.outcome # "invalid segment" /\ Carries(x.wire, Stream)
    BY <1>5, <2>1, <2>3, Zenon DEF WatchHonest
  <2>. QED
    BY <2>6, <2>7, <2>8, Zenon DEF WatchHonest
<1>. QED
  BY <1>5, <1>9, <1>10, <1>14, <1>15, Zenon DEF WatchOK

\* A segment of a remote engine that keeps to the protocol is accepted.
LEMMA WatchAccepts ==
  ASSUME NEW w, NEW e, NEW l, WatchOK(w, e, l), w.wire # <<>>, l # TRUE
  PROVE  Parses(Head(w.wire)) /\ w.upTo[Head(w.wire).stream] \in {None, Head(w.wire).begin}
<1> DEFINE seg == Head(w.wire)
           s == seg.stream
<1>1. w.wire \in Seq(AnySegment) /\ WatchHonest(w)
  BY WatchFields, Zenon DEF WatchOK
<1>2. Honest(seg) /\ s \in Stream
  BY <1>1, CarriesTail, Zenon DEF WatchHonest
<1>3. PICK d : Path(Position, w.wire, Pending(w), s, w.upTo[s], d)
  BY <1>1, <1>2, Zenon DEF WatchHonest, WatchPath
<1>4. \E b \in Position : Move(s, seg, w.upTo[s], b)
  BY <1>1, <1>3, PathReceived, Zenon
<1>5. w.upTo[s] \in {None, seg.begin}
  BY <1>4, Zenon DEF Move
<1>. QED
  BY <1>2, <1>5, HonestParses, Zenon

\* Memory.undelivered returns an honest segment that begins where the last one
\* of the stream ended.
LEMMA UndeliveredFacts ==
  ASSUME end \in [Stream -> Position], NEW d \in [Stream -> Position], NEW s \in Undelivered(d),
         d[s] # None => end[s] # None /\ d[s] <= end[s]
  PROVE  /\ s \in Stream
         /\ Honest(UndeliveredSegment(s, d))
         /\ UndeliveredSegment(s, d).stream = s
         /\ UndeliveredSegment(s, d).end = end[s]
         /\ d[s] \in {None, UndeliveredSegment(s, d).begin}
<1> DEFINE e == end[s]
           b == IF d[s] = None THEN e ELSE d[s]
           m == MemorySegment(s, b, e)
<1>1. s \in Stream /\ e # None
  BY Zenon DEF Undelivered
<1>2. e \in Nat /\ b \in Nat
  BY <1>1, Zenon DEF Position
<1>3. b <= e
  <2>1. e <= e
    BY <1>2
  <2>. QED
    BY <2>1, Zenon
<1>4. UndeliveredSegment(s, d) = m
  BY Zenon DEF UndeliveredSegment
<1>5. d[s] \in {None, b}
  BY Zenon
<1> HIDE DEF e, b
<1>6. Honest(m) /\ m.stream = s /\ m.begin = b /\ m.end = e
  BY <1>1, <1>2, <1>3, MemorySegmentHonest, SMT
<1> HIDE DEF m
<1>. QED
  BY <1>1, <1>4, <1>5, <1>6, Zenon DEF e

\* Memory.Watch passes what is new of every stream.
LEMMA WatchLoaded ==
  ASSUME end \in [Stream -> Position], WatchOK(watch, end, lying), ServerLoads
  PROVE  WatchOK(watch', end, lying)
<1> DEFINE w == watch
           x == watch'
           d == w.delivered
           S == {UndeliveredSegment(s, d) : s \in Undelivered(d)}
<1>1. w \in WatchType /\ w.status = "none" /\ Passed(w) = {}
  BY Zenon DEF WatchOK, ServerLoads, Loads
<1>2. d \in [Stream -> Position]
  BY <1>1, WatchFields, Zenon
<1>3. w.segments = {} /\ w.rest = {} /\ Pending(w) = {}
  BY <1>1, Zenon DEF Passed, Pending
<1>4. \A s \in Stream : d[s] # None => end[s] # None /\ d[s] <= end[s]
  BY Zenon DEF WatchOK
<1>5. \A s \in Undelivered(d) : s \in Stream
  BY Zenon DEF Undelivered
<1>6. ASSUME NEW s \in Undelivered(d)
      PROVE  /\ Honest(UndeliveredSegment(s, d)) /\ UndeliveredSegment(s, d).stream = s
             /\ UndeliveredSegment(s, d).end = end[s]
             /\ d[s] \in {None, UndeliveredSegment(s, d).begin}
  <2>1. d[s] # None => end[s] # None /\ d[s] <= end[s]
    BY <1>4, <1>5, Zenon
  <2> HIDE DEF d
  <2>. QED
    BY <1>2, <2>1, UndeliveredFacts, SMT
<1>7. x = [w EXCEPT !.segments = S, !.delivered = end]
  BY Zenon DEF ServerLoads
<1>8. \A y \in S : /\ Honest(y) /\ y.end = end[y.stream] /\ y.stream \in Undelivered(d)
                   /\ y = UndeliveredSegment(y.stream, d) /\ d[y.stream] \in {None, y.begin}
  <2>1. SUFFICES ASSUME NEW s \in Undelivered(d), NEW y, y = UndeliveredSegment(s, d)
                 PROVE  /\ Honest(y) /\ y.end = end[y.stream] /\ y.stream \in Undelivered(d)
                        /\ y = UndeliveredSegment(y.stream, d)
                        /\ d[y.stream] \in {None, y.begin}
    BY Zenon
  <2> HIDE DEF d
  <2>2. y.stream = s /\ Honest(y) /\ y.end = end[s] /\ d[s] \in {None, y.begin}
    BY <1>6, <2>1, Zenon
  <2>. QED
    BY <2>1, <2>2, Zenon
<1>9. S \subseteq AnySegment
  BY <1>8, Zenon DEF Honest
<1>10. \A s \in Stream : (\A y \in S : y.stream # s) => end[s] = d[s]
  <2>1. \A s \in Undelivered(d) : \E y \in S : y.stream = s
    BY <1>6, Zenon
  <2>2. \A s \in Stream : s \notin Undelivered(d) => end[s] = d[s]
    BY <1>4, Zenon DEF Undelivered
  <2> HIDE DEF S
  <2>. QED
    BY <2>1, <2>2, Zenon
<1> HIDE DEF S, x, w, d
<1>11. /\ x \in WatchType /\ x.segments = S /\ x.delivered = end
  BY <1>1, <1>7, <1>9, Zenon DEF WatchType
<1>12. /\ x.rest = w.rest /\ x.wire = w.wire /\ x.status = w.status /\ x.from = w.from
       /\ x.upTo = w.upTo /\ x.got = w.got /\ x.outcome = w.outcome
  BY <1>1, <1>7, Zenon DEF WatchType
<1>13. Pending(x) = S /\ x.rest = {}
  BY <1>3, <1>11, <1>12, Zenon DEF Pending
<1>14. Pends(x)
  <2>1. \A y, z \in S : y.stream = z.stream => y = z
    BY <1>8, Zenon
  <2>2. \A y \in S : Honest(y)
    BY <1>8, Zenon
  <2>3. x.status = "none"
    BY <1>1, <1>12, Zenon
  <2>. QED
    BY <1>13, <2>1, <2>2, <2>3, Zenon DEF Pends
<1>15. /\ \A y \in Pending(x) : y.end = x.delivered[y.stream]
       /\ \A s \in Stream : x.delivered[s] # None => end[s] # None /\ x.delivered[s] <= end[s]
  <2>1. \A s \in Stream : end[s] # None => end[s] <= end[s]
    <3>1. \A n \in Nat : n <= n
      OBVIOUS
    <3>. QED
      BY <3>1, Zenon DEF Position
  <2>. QED
    BY <1>8, <1>11, <1>13, <2>1, Zenon
<1>16. \A s \in Stream : Received(s, x.from[s], x.upTo[s], x.got[s])
  BY <1>12, Zenon DEF WatchOK, w
<1>17. ASSUME lying # TRUE
       PROVE  WatchHonest(x)
  <2>1. WatchHonest(w)
    BY <1>17, Zenon DEF WatchOK, w
  <2>2. ASSUME NEW s \in Stream
        PROVE  WatchPath(x, s)
    <3>1. Path(Position, w.wire, {}, s, w.upTo[s], d[s])
      BY <1>1, <1>3, <2>1, Zenon DEF WatchHonest, WatchPath, d
    <3>2. Resumes(S, s, end[s], d[s])
      BY <1>8, <1>10, Zenon DEF Resumes
    <3>3. Path(Position, w.wire, S, s, w.upTo[s], end[s])
      BY <3>1, <3>2, PathLoaded, Zenon
    <3>4. Path(Position, x.wire, Pending(x), s, x.upTo[s], x.delivered[s])
      BY <1>11, <1>12, <1>13, <3>3, Zenon
    <3>. QED
      BY <3>4, Zenon DEF WatchPath
  <2>3. /\ x.outcome # "invalid segment" /\ Carries(x.wire, Stream)
        /\ \A s \in Stream : Delivered(s, x.from[s], x.upTo[s], x.got[s])
    BY <1>12, <2>1, Zenon DEF WatchHonest
  <2>. QED
    BY <2>2, <2>3, Zenon DEF WatchHonest
<1>. QED
  BY <1>11, <1>14, <1>15, <1>16, <1>17, Zenon DEF WatchOK, x

\* The server ends a watch.
LEMMA WatchEnded ==
  ASSUME NEW w, NEW e, NEW l, WatchOK(w, e, l),
         NEW status \in {"Aborted", "Unimplemented", "OK"}, NEW x,
         x = [w EXCEPT !.segments = {}, !.rest = {}, !.status = status]
  PROVE  WatchOK(x, e, l)
<1>1. w \in WatchType
  BY Zenon DEF WatchOK
<1>2. x \in WatchType /\ x.segments = {} /\ x.rest = {} /\ x.status # "none"
  BY <1>1, Zenon DEF WatchType
<1>3. /\ x.delivered = w.delivered /\ x.wire = w.wire /\ x.from = w.from
      /\ x.upTo = w.upTo /\ x.got = w.got /\ x.outcome = w.outcome
  BY <1>1, Zenon DEF WatchType
<1>4. Pending(x) = {} /\ Pends(x)
  BY <1>2, Zenon DEF Pending, Pends
<1>5. ASSUME l # TRUE
      PROVE  WatchHonest(x)
  <2>1. WatchHonest(w)
    BY <1>5, Zenon DEF WatchOK
  <2>2. ASSUME NEW s \in Stream
        PROVE  WatchPath(x, s)
    <3>1. PICK d : Path(Position, w.wire, Pending(w), s, w.upTo[s], d)
      BY <2>1, Zenon DEF WatchHonest, WatchPath
    <3>2. PICK c : Path(Position, w.wire, {}, s, w.upTo[s], c)
      BY <3>1, PathDropped, Zenon
    <3>. QED
      BY <1>2, <1>3, <1>4, <3>2, Zenon DEF WatchPath
  <2>. QED
    BY <1>3, <2>1, <2>2, Zenon DEF WatchHonest
<1>6. /\ \A s \in Stream : x.delivered[s] # None => e[s] # None /\ x.delivered[s] <= e[s]
      /\ \A s \in Stream : Received(s, x.from[s], x.upTo[s], x.got[s])
  BY <1>3, Zenon DEF WatchOK
<1>. QED
  BY <1>2, <1>4, <1>5, <1>6, Zenon DEF WatchOK

\* An engine that breaks the protocol sends something.
LEMMA WatchLied ==
  ASSUME NEW w, NEW e, NEW l, WatchOK(w, e, l), l = TRUE, NEW seg \in AnySegment, NEW x,
         x = [w EXCEPT !.wire = <<seg>>]
  PROVE  WatchOK(x, e, l)
<1> DEFINE q == <<seg>>
<1>1. w \in WatchType
  BY Zenon DEF WatchOK
<1>2. q \in Seq(AnySegment)
  OBVIOUS
<1> HIDE DEF q
<1>3. x = [w EXCEPT !.wire = q]
  BY Zenon DEF q
<1>4. /\ x \in WatchType /\ x.segments = w.segments /\ x.rest = w.rest /\ x.status = w.status
      /\ x.delivered = w.delivered /\ x.from = w.from /\ x.upTo = w.upTo /\ x.got = w.got
  BY <1>1, <1>2, <1>3, ZenonT(30) DEF WatchType
<1>5. Pending(x) = Pending(w) /\ Pends(w)
  BY <1>4, Zenon DEF Pending, WatchOK
<1>6. Pends(x)
  BY <1>4, <1>5, Zenon DEF Pends
<1>7. /\ \A y \in Pending(x) : y.end = x.delivered[y.stream]
      /\ \A s \in Stream : x.delivered[s] # None => e[s] # None /\ x.delivered[s] <= e[s]
      /\ \A s \in Stream : Received(s, x.from[s], x.upTo[s], x.got[s])
  BY <1>4, <1>5, Zenon DEF WatchOK
<1>. QED
  BY <1>4, <1>6, <1>7, Zenon DEF WatchOK

-------------------------------------------------------------------------------
(* The steps of a read.                                                    *)

\* A read that has not begun, or that has failed.
IdleRead(r) ==
  /\ r \in ReadType /\ ~r.open
  /\ r.segments = {} /\ r.rest = {} /\ r.wire = <<>> /\ r.status = "none"
  /\ r.from = None /\ r.upTo = None /\ r.got = <<>>
  /\ r.outcome \in {"none", "invalid segment", "failed"}

\* The fields of NoRead.
LEMMA NoReadFields ==
  /\ NoRead \in ReadType /\ NoRead.open = FALSE
  /\ NoRead.segments = {} /\ NoRead.rest = {} /\ NoRead.wire = <<>> /\ NoRead.status = "none"
  /\ NoRead.from = None /\ NoRead.upTo = None /\ NoRead.got = <<>> /\ NoRead.outcome = "none"
<1>1. NoRead \in ReadType
  BY NothingTyped, Zenon DEF NoRead, ReadType
<1>2. /\ NoRead.open = FALSE /\ NoRead.segments = {} /\ NoRead.rest = {} /\ NoRead.wire = <<>>
      /\ NoRead.status = "none" /\ NoRead.from = None /\ NoRead.upTo = None
      /\ NoRead.got = <<>> /\ NoRead.outcome = "none"
  BY Zenon DEF NoRead
<1>. QED
  BY <1>1, <1>2, Zenon

\* A read before the first, and one that ended without a status.
LEMMA IdleReads ==
  /\ NoRead.outcome = "none" /\ IdleRead(NoRead)
  /\ \A o \in {"none", "invalid segment", "failed"} :
       [NoRead EXCEPT !.outcome = o].outcome = o /\ IdleRead([NoRead EXCEPT !.outcome = o])
<1>1. IdleRead(NoRead) /\ NoRead.outcome = "none"
  BY NoReadFields, Zenon DEF IdleRead
<1>2. ASSUME NEW o \in {"none", "invalid segment", "failed"}, NEW r,
             r = [NoRead EXCEPT !.outcome = o]
      PROVE  r.outcome = o /\ IdleRead(r)
  <2>1. NoRead \in ReadType
    BY NoReadFields, Zenon
  <2>2. r \in ReadType
    BY <1>2, <2>1, Zenon DEF ReadType
  <2>3. /\ r.open = NoRead.open /\ r.segments = NoRead.segments /\ r.rest = NoRead.rest
        /\ r.wire = NoRead.wire /\ r.status = NoRead.status /\ r.from = NoRead.from
        /\ r.upTo = NoRead.upTo /\ r.got = NoRead.got
    BY <1>2, <2>1, Zenon DEF ReadType
  <2>4. r.outcome = o
    BY <1>2, <2>1, Zenon DEF ReadType
  <2>. QED
    BY <1>2, <2>2, <2>3, <2>4, NoReadFields, Zenon DEF IdleRead
<1>. QED
  BY <1>1, <1>2, Zenon

\* Nothing is known of a read that ended without a status.
LEMMA IdleReadOK ==
  ASSUME NEW r, IdleRead(r), NEW e, NEW l, l # TRUE => r.outcome # "invalid segment"
  PROVE  ReadOK(r, e, l)
<1>1. Pending(r) = {} /\ Pends(r)
  BY Zenon DEF IdleRead, Pending, Pends
<1>2. Received(r.stream, r.from, r.upTo, r.got) /\ Delivered(r.stream, r.from, r.upTo, r.got)
  BY Zenon DEF IdleRead, Received, Delivered
<1>3. Carries(r.wire, {r.stream})
  BY CarriesNone, Zenon DEF IdleRead
<1>4. ReadEnded(r)
  <2>1. r.outcome \notin {"done", "unrecognized stream", "out of range"}
    BY Zenon DEF IdleRead
  <2>. QED
    BY <2>1, Zenon DEF ReadEnded
<1>5. l # TRUE => ReadHonest(r)
  BY <1>2, <1>3, <1>4, Zenon DEF ReadHonest, IdleRead
<1>. QED
  BY <1>1, <1>2, <1>5, Zenon DEF ReadOK, IdleRead

\* Remote.Read begins.
LEMMA ReadBegun ==
  ASSUME NEW e \in [Stream -> Position], NEW l, NEW s \in Stream, NEW b \in Nat, NEW r,
         r = [NoRead EXCEPT !.open = TRUE, !.stream = s, !.next = b, !.from = b,
                            !.upTo = b, !.target = e[s]]
  PROVE  ReadOK(r, e, l)
<1> DEFINE t == e[s]
<1>0. t \in Position /\ b \in Position
  BY Zenon DEF Position
<1>1. NoRead \in ReadType
  BY NoReadFields, Zenon
<1> HIDE DEF t
<1>2. r = [NoRead EXCEPT !.open = TRUE, !.stream = s, !.next = b, !.from = b,
                         !.upTo = b, !.target = t]
  BY Zenon DEF t
<1>3. r \in ReadType
  BY <1>0, <1>1, <1>2, ZenonT(30) DEF ReadType
<1>4. r.stream = s /\ r.next = b /\ r.from = b /\ r.upTo = b /\ r.target = t
  BY <1>1, <1>2, ZenonT(30) DEF ReadType
<1>5. /\ r.segments = NoRead.segments /\ r.rest = NoRead.rest /\ r.wire = NoRead.wire
      /\ r.status = NoRead.status /\ r.got = NoRead.got /\ r.outcome = NoRead.outcome
  BY <1>1, <1>2, Zenon DEF ReadType
<1>6. /\ r.segments = {} /\ r.rest = {} /\ r.wire = <<>> /\ r.status = "none" /\ r.got = <<>>
      /\ r.outcome = "none"
  BY <1>5, NoReadFields, Zenon
<1>7. b # None /\ b <= b
  <2>1. b <= b
    OBVIOUS
  <2>. QED
    BY <2>1, NothingTyped, Zenon
<1>8. t # None => t <= t
  <2>1. \A n \in Nat : n <= n
    OBVIOUS
  <2>. QED
    BY <1>0, <2>1, Zenon DEF Position
<1>9. Pending(r) = {} /\ Pends(r)
  BY <1>6, Zenon DEF Pending, Pends
<1>10. Received(r.stream, r.from, r.upTo, r.got)
  <2>1. WellFormed(s, b, b, <<>>)
    BY WellFormedNone, Zenon
  <2>. QED
    BY <1>4, <1>6, <1>7, <2>1, Zenon DEF Received
<1>11. ReadServed(r, e)
  BY <1>4, <1>6, <1>8, <1>9, SMT DEF ReadServed, t
<1>12. Delivered(r.stream, r.from, r.upTo, r.got)
  <2>1. Lists(<<>>, s, Chosen(s, b, b))
    BY ListsNothing, Zenon
  <2>. QED
    BY <1>4, <1>6, <2>1, Zenon DEF Delivered
<1>13. Carries(r.wire, {r.stream})
  BY <1>6, CarriesNone, Zenon
<1>14. Path(Nat, r.wire, Pending(r), r.stream, r.upTo, r.next)
  <2>1. Path(Nat, <<>>, {}, s, b, b)
    BY PathNone, Zenon
  <2>. QED
    BY <1>4, <1>6, <1>9, <2>1, Zenon
<1>15. ReadEnded(r)
  BY <1>6, Zenon DEF ReadEnded
<1>17. ReadReports(r)
  BY <1>6, Zenon DEF ReadReports
<1>16. ReadHonest(r)
  BY <1>6, <1>12, <1>13, <1>14, <1>15, <1>17, Zenon DEF ReadHonest
<1>. QED
  BY <1>3, <1>9, <1>10, <1>11, <1>16, Zenon DEF ReadOK

\* x is the read r after Remote.Read accepted the first message on the wire.
ReadAccepted(x, r) ==
  LET seg == Head(r.wire) IN
  /\ x \in ReadType /\ x.open = r.open
  /\ x.segments = r.segments /\ x.rest = r.rest /\ x.wire = Tail(r.wire)
  /\ x.status = r.status /\ x.stream = r.stream /\ x.next = r.next /\ x.from = r.from
  /\ x.target = r.target /\ x.outcome = r.outcome
  /\ x.upTo = seg.end /\ x.got = r.got \o seg.envelopes

\* The fields of a read after a segment is accepted.
LEMMA ReadAcceptedFields ==
  ASSUME NEW r \in ReadType, r.wire # <<>>, NEW seg, seg = Head(r.wire), NEW x,
         x = [r EXCEPT !.wire = Tail(@), !.upTo = seg.end, !.got = @ \o seg.envelopes]
  PROVE  ReadAccepted(x, r)
<1> DEFINE T == Tail(r.wire)
           u == seg.end
           g == r.got \o seg.envelopes
<1>0. r.wire \in Seq(AnySegment) /\ r.got \in Seq(AnyEnvelope)
  BY ReadFields, Zenon
<1>1. seg \in AnySegment /\ T \in Seq(AnySegment)
  BY <1>0, HeadTailProperties
<1>2. u \in Position /\ seg.envelopes \in Seq(AnyEnvelope)
  BY <1>1, SegmentFields, Zenon DEF Position
<1>3. g \in Seq(AnyEnvelope)
  BY <1>0, <1>2, ConcatProperties
<1>4. x = [r EXCEPT !.wire = T, !.upTo = u, !.got = g]
  BY Zenon
<1> HIDE DEF T, u, g
<1>5. x \in ReadType
  BY <1>1, <1>2, <1>3, <1>4, ZenonT(30) DEF ReadType
<1>6. x.wire = T /\ x.upTo = u /\ x.got = g
  BY <1>4, Zenon DEF ReadType
<1>7. /\ x.open = r.open /\ x.segments = r.segments /\ x.rest = r.rest /\ x.status = r.status
      /\ x.stream = r.stream /\ x.next = r.next /\ x.from = r.from /\ x.target = r.target
      /\ x.outcome = r.outcome
  BY <1>4, Zenon DEF ReadType
<1>. QED
  BY <1>5, <1>6, <1>7, Zenon DEF ReadAccepted, T, u, g

\* What the client has then.
LEMMA ReadAcceptedOK ==
  ASSUME NEW r, NEW e, NEW l, ReadOK(r, e, l), r.open, r.wire # <<>>, NEW seg, seg = Head(r.wire),
         Parses(seg), seg.stream = r.stream, seg.begin = r.upTo, NEW x, ReadAccepted(x, r)
  PROVE  ReadOK(x, e, l)
<1>1. r \in ReadType /\ Pends(r) /\ ReadServed(r, e) /\ Received(r.stream, r.from, r.upTo, r.got)
  BY Zenon DEF ReadOK
<1>2. /\ r.wire \in Seq(AnySegment) /\ r.from \in Position /\ r.upTo \in Position
      /\ r.got \in Seq(AnyEnvelope)
  BY <1>1, ReadFields, Zenon
<1>3. seg \in AnySegment
  BY <1>2, HeadTailProperties
<1>4. /\ x \in ReadType /\ x.open = r.open
      /\ x.segments = r.segments /\ x.rest = r.rest /\ x.wire = Tail(r.wire)
      /\ x.status = r.status /\ x.stream = r.stream /\ x.next = r.next /\ x.from = r.from
      /\ x.target = r.target /\ x.outcome = r.outcome
      /\ x.upTo = seg.end /\ x.got = r.got \o seg.envelopes
  BY Zenon DEF ReadAccepted
<1>5. r.from # None
  BY <1>1, NothingTyped, Zenon DEF ReadServed
<1>6. Received(x.stream, x.from, x.upTo, x.got)
  <2>1. Received(seg.stream, IF r.from = None THEN seg.begin ELSE r.from, seg.end,
                 r.got \o seg.envelopes)
    BY <1>1, <1>2, <1>3, ReceivedMore, Zenon
  <2>. QED
    BY <1>4, <1>5, <2>1, Zenon
<1>7. Pending(x) = Pending(r)
  BY <1>4, Zenon DEF Pending
<1>8. Pends(x)
  BY <1>1, <1>4, <1>7, ZenonT(30) DEF Pends
<1>9. ReadServed(x, e)
  BY <1>1, <1>4, <1>7, SMT DEF ReadServed
<1>10. ASSUME l # TRUE
       PROVE  ReadHonest(x)
  <2>1. ReadHonest(r)
    BY <1>10, Zenon DEF ReadOK
  <2>2. Carries(r.wire, {r.stream})
    BY <2>1, Zenon DEF ReadHonest
  <2>3. Carries(Tail(r.wire), {r.stream}) /\ Honest(seg)
    BY <1>2, <2>2, CarriesTail, Zenon
  <2>4. Delivered(seg.stream, r.from, r.upTo, r.got)
    BY <2>1, Zenon DEF ReadHonest
  <2>5. Delivered(seg.stream, IF r.from = None THEN seg.begin ELSE r.from, seg.end,
                  r.got \o seg.envelopes)
    BY <1>1, <1>2, <2>3, <2>4, DeliveredMore, ZenonT(30)
  <2>6. Delivered(x.stream, x.from, x.upTo, x.got)
    BY <1>4, <1>5, <2>5, Zenon
  <2>7. Path(Nat, x.wire, Pending(x), x.stream, x.upTo, x.next)
    <3>1. Path(Nat, r.wire, Pending(r), r.stream, r.upTo, r.next)
      BY <2>1, Zenon DEF ReadHonest
    <3>2. PICK b \in Nat : /\ Move(r.stream, Head(r.wire), r.upTo, b)
                           /\ Path(Nat, Tail(r.wire), Pending(r), r.stream, b, r.next)
      BY <1>2, <3>1, PathReceived, Zenon
    <3>3. b = x.upTo
      BY <1>4, <3>2, Zenon DEF Move
    <3>. QED
      BY <1>4, <1>7, <3>2, <3>3, Zenon
  <2>8. /\ x.outcome # "invalid segment" /\ Carries(x.wire, {x.stream})
    BY <1>4, <2>1, <2>3, Zenon DEF ReadHonest
  <2>9. ReadEnded(x)
    BY <1>1, <1>4, Zenon DEF ReadEnded, ReadServed
  <2>10. ReadReports(x)
    BY <1>4, <2>1, Zenon DEF ReadHonest, ReadReports
  <2>. QED
    BY <2>6, <2>7, <2>8, <2>9, <2>10, Zenon DEF ReadHonest
<1>. QED
  BY <1>4, <1>6, <1>8, <1>9, <1>10, Zenon DEF ReadOK

\* A segment of a remote engine that keeps to the protocol is accepted.
LEMMA ReadAccepts ==
  ASSUME NEW r, NEW e, NEW l, ReadOK(r, e, l), r.open, r.wire # <<>>, l # TRUE
  PROVE  /\ Parses(Head(r.wire)) /\ Head(r.wire).stream = r.stream
         /\ Head(r.wire).begin = r.upTo
<1> DEFINE seg == Head(r.wire)
<1>1. r \in ReadType /\ ReadHonest(r) /\ ReadServed(r, e)
      /\ Received(r.stream, r.from, r.upTo, r.got)
  BY Zenon DEF ReadOK
<1>2. r.wire \in Seq(AnySegment)
  BY <1>1, ReadFields, Zenon
<1>3. Honest(seg) /\ seg.stream \in {r.stream}
  BY <1>1, <1>2, CarriesTail, Zenon DEF ReadHonest
<1>4. Path(Nat, r.wire, Pending(r), r.stream, r.upTo, r.next)
  BY <1>1, Zenon DEF ReadHonest
<1>5. \E b \in Nat : Move(r.stream, seg, r.upTo, b)
  BY <1>2, <1>4, PathReceived, Zenon
<1>6. r.upTo # None
  BY <1>1, NothingTyped, Zenon DEF Received, ReadServed
<1>7. seg.begin = r.upTo
  BY <1>3, <1>5, <1>6, Zenon DEF Move
<1>. QED
  BY <1>3, <1>7, HonestParses, Zenon

\* What Memory.Read finds.
LEMMA ReadStatusFacts ==
  ASSUME end \in [Stream -> Position], NEW s \in Stream, NEW b \in Nat
  PROVE  \/ ReadStatus(s, b) = "NotFound" /\ end[s] = None
         \/ ReadStatus(s, b) = "OutOfRange" /\ end[s] \in Nat /\ b > end[s]
         \/ ReadStatus(s, b) = "OK" /\ end[s] \in Nat /\ b = end[s]
         \/ ReadStatus(s, b) = "none" /\ end[s] \in Nat /\ b < end[s]
<1>1. end[s] = None \/ end[s] \in Nat
  BY Zenon DEF Position
<1>2. CASE end[s] = None
  BY <1>2, Zenon DEF ReadStatus
<1>3. CASE end[s] # None
  <2>1. end[s] \in Nat
    BY <1>1, <1>3, Zenon
  <2>2. CASE b > end[s]
    <3>1. b # end[s]
      BY <2>1, <2>2
    <3>. QED
      BY <1>3, <2>1, <2>2, <3>1, Zenon DEF ReadStatus
  <2>3. CASE b = end[s]
    <3>1. ~(b > end[s])
      BY <2>1, <2>3
    <3>. QED
      BY <1>3, <2>1, <2>3, <3>1, Zenon DEF ReadStatus
  <2>4. CASE b < end[s]
    <3>1. ~(b > end[s]) /\ b # end[s]
      BY <2>1, <2>4
    <3>. QED
      BY <1>3, <2>1, <2>4, <3>1, Zenon DEF ReadStatus
  <2>. QED
    BY <2>1, <2>2, <2>3, <2>4
<1>. QED
  BY <1>2, <1>3, Zenon

\* Memory.Read returns.
LEMMA ReadFound ==
  ASSUME NEW r, NEW e, NEW l, ReadOK(r, e, l), r.open, Pending(r) = {},
         e \in [Stream -> Position],
         NEW f \in {"NotFound", "OutOfRange", "OK"},
         f = "NotFound" => e[r.stream] = None,
         f = "OutOfRange" => e[r.stream] \in Nat /\ r.next > e[r.stream],
         f = "OK" => e[r.stream] \in Nat /\ r.next = e[r.stream],
         NEW x, x = [r EXCEPT !.status = f]
  PROVE  ReadOK(x, e, l)
<1>1. r \in ReadType /\ Pends(r) /\ ReadServed(r, e)
  BY Zenon DEF ReadOK
<1>2. x \in ReadType /\ x.status = f
  BY <1>1, Zenon DEF ReadType
<1>3. /\ x.open = r.open /\ x.segments = r.segments /\ x.rest = r.rest /\ x.wire = r.wire
      /\ x.stream = r.stream /\ x.next = r.next /\ x.from = r.from /\ x.upTo = r.upTo
      /\ x.got = r.got /\ x.target = r.target /\ x.outcome = r.outcome
  BY <1>1, Zenon DEF ReadType
<1>4. Pending(x) = {} /\ x.rest = {}
  BY <1>3, Zenon DEF Pending
<1>5. Pends(x)
  BY <1>4, Zenon DEF Pends
<1>6. r.target # None => e[r.stream] # None /\ r.target <= e[r.stream]
  BY <1>1, Zenon DEF ReadServed
<1>7. r.next \in Nat /\ r.from \in Nat /\ (r.target # None => r.target \in Nat)
  BY <1>1, ReadFields, Zenon DEF ReadServed, Position
<1>8. (f = "OutOfRange" /\ r.target # None) => r.from > r.target
  <2>1. SUFFICES ASSUME f = "OutOfRange", r.target # None PROVE r.from > r.target
    BY Zenon
  <2>2. e[r.stream] \in Nat /\ r.next > e[r.stream] /\ r.target <= e[r.stream]
    BY <1>6, <2>1, Zenon
  <2>3. r.next # r.from => r.next <= e[r.stream]
    BY <1>1, Zenon DEF ReadServed
  <2>. QED
    BY <1>7, <2>1, <2>2, <2>3
<1>9. (f = "OK" /\ r.target # None) => r.next >= r.target
  BY <1>6, <1>7
<1>10. ReadServed(x, e)
  <2>2. \A seg \in Pending(x) : seg.stream = x.stream /\ seg.end = x.next
    BY <1>4, Zenon
  <2>3. /\ x.stream \in Stream /\ x.next \in Nat /\ x.from \in Nat /\ x.outcome = "none"
        /\ x.target # None => e[x.stream] # None /\ x.target <= e[x.stream]
        /\ x.next # x.from => e[x.stream] # None /\ x.next <= e[x.stream]
    BY <1>1, <1>3, SMT DEF ReadServed
  <2>. QED
    BY <2>2, <2>3, Zenon DEF ReadServed
<1>11. ASSUME l # TRUE
       PROVE  ReadHonest(x)
  <2>1. ReadHonest(r)
    BY <1>11, Zenon DEF ReadOK
  <2>2. Path(Nat, x.wire, Pending(x), x.stream, x.upTo, x.next)
    BY <1>3, <1>4, <2>1, Zenon DEF ReadHonest
  <2>3. /\ x.outcome # "invalid segment" /\ Carries(x.wire, {x.stream})
        /\ Delivered(x.stream, x.from, x.upTo, x.got)
    BY <1>3, <2>1, Zenon DEF ReadHonest
  <2>4. ReadEnded(x)
    BY <1>1, <1>3, Zenon DEF ReadEnded, ReadServed
  <2>5. ReadReports(x)
    BY <1>2, <1>3, <1>6, <1>8, <1>9, Zenon DEF ReadReports
  <2>. QED
    BY <2>2, <2>3, <2>4, <2>5, Zenon DEF ReadHonest
<1>12. Received(x.stream, x.from, x.upTo, x.got)
  BY <1>3, Zenon DEF ReadOK
<1>. QED
  BY <1>2, <1>5, <1>10, <1>11, <1>12, Zenon DEF ReadOK

\* Memory.Read passes a segment.
LEMMA ReadPassed ==
  ASSUME NEW r, NEW e, NEW l, ReadOK(r, e, l), r.open, Pending(r) = {}, r.status = "none",
         NEW seg, Honest(seg), seg.stream = r.stream, seg.begin = r.next,
         e[r.stream] # None, seg.end <= e[r.stream],
         NEW x, x = [r EXCEPT !.segments = {seg}, !.next = seg.end]
  PROVE  ReadOK(x, e, l)
<1> DEFINE n == seg.end
           S == {seg}
<1>1. r \in ReadType /\ Pends(r) /\ ReadServed(r, e)
  BY Zenon DEF ReadOK
<1>2. seg \in AnySegment /\ n \in Nat /\ n \in Position /\ S \subseteq AnySegment
  BY SegmentFields, Zenon DEF Honest, Position
<1>3. x = [r EXCEPT !.segments = S, !.next = n]
  BY Zenon
<1> HIDE DEF n, S
<1>4. x \in ReadType /\ x.segments = S /\ x.next = n
  BY <1>1, <1>2, <1>3, Zenon DEF ReadType
<1>5. /\ x.open = r.open /\ x.status = r.status /\ x.rest = r.rest /\ x.wire = r.wire
      /\ x.stream = r.stream /\ x.from = r.from /\ x.upTo = r.upTo
      /\ x.got = r.got /\ x.target = r.target /\ x.outcome = r.outcome
  BY <1>1, <1>3, Zenon DEF ReadType
<1>6. Pending(x) = {seg} /\ x.rest = {} /\ x.status = "none"
  BY <1>4, <1>5, Zenon DEF Pending, S
<1>7. Pends(x)
  BY <1>6, Zenon DEF Pends
<1>8. ReadServed(x, e)
  <2>1. \A y \in Pending(x) : y.stream = x.stream /\ y.end = x.next
    BY <1>4, <1>5, <1>6, Zenon DEF n
  <2>2. /\ x.stream \in Stream /\ x.next \in Nat /\ x.from \in Nat /\ x.outcome = "none"
        /\ x.target # None => e[x.stream] # None /\ x.target <= e[x.stream]
    BY <1>1, <1>2, <1>4, <1>5, SMT DEF ReadServed
  <2>3. e[x.stream] # None /\ x.next <= e[x.stream]
    BY <1>4, <1>5, Zenon DEF n
  <2>. QED
    BY <1>6, <2>1, <2>2, <2>3, Zenon DEF ReadServed
<1>9. ASSUME l # TRUE
      PROVE  ReadHonest(x)
  <2>1. ReadHonest(r)
    BY <1>9, Zenon DEF ReadOK
  <2>2. Path(Nat, x.wire, Pending(x), x.stream, x.upTo, x.next)
    <3>1. Path(Nat, r.wire, {}, r.stream, r.upTo, r.next)
      BY <2>1, Zenon DEF ReadHonest
    <3>2. Resumes({seg}, r.stream, n, r.next)
      BY Zenon DEF Resumes
    <3>3. Path(Nat, r.wire, {seg}, r.stream, r.upTo, n)
      BY <3>1, <3>2, PathLoaded, Zenon
    <3>. QED
      BY <1>4, <1>5, <1>6, <3>3, Zenon
  <2>3. /\ x.outcome # "invalid segment" /\ Carries(x.wire, {x.stream})
        /\ Delivered(x.stream, x.from, x.upTo, x.got)
    BY <1>5, <2>1, Zenon DEF ReadHonest
  <2>4. ReadEnded(x)
    BY <1>1, <1>5, Zenon DEF ReadEnded, ReadServed
  <2>5. ReadReports(x)
    BY <1>6, Zenon DEF ReadReports
  <2>. QED
    BY <2>2, <2>3, <2>4, <2>5, Zenon DEF ReadHonest
<1>10. Received(x.stream, x.from, x.upTo, x.got)
  BY <1>5, Zenon DEF ReadOK
<1>. QED
  BY <1>4, <1>7, <1>8, <1>9, <1>10, Zenon DEF ReadOK

\* Remote.Read returns once the wire is empty and the server has ended the call.
LEMMA ReadDone ==
  ASSUME NEW r, NEW e, NEW l, ReadOK(r, e, l), r.open, r.wire = <<>>, r.status # "none", NEW x,
         x = [r EXCEPT !.open = FALSE, !.next = None, !.status = "none",
                       !.outcome = CASE r.status = "NotFound" -> "unrecognized stream"
                                     [] r.status = "OutOfRange" -> "out of range"
                                     [] OTHER -> "done"]
  PROVE  ReadOK(x, e, l)
<1> DEFINE o == CASE r.status = "NotFound" -> "unrecognized stream"
                  [] r.status = "OutOfRange" -> "out of range"
                  [] OTHER -> "done"
<1>1. r \in ReadType /\ Pends(r) /\ ReadServed(r, e) /\ Received(r.stream, r.from, r.upTo, r.got)
  BY Zenon DEF ReadOK
<1>2. r.status \in {"NotFound", "OutOfRange", "OK"}
  BY <1>1, Zenon DEF ReadType
<1>3. \/ r.status = "NotFound" /\ o = "unrecognized stream"
      \/ r.status = "OutOfRange" /\ o = "out of range"
      \/ r.status = "OK" /\ o = "done"
  BY <1>2, Zenon
<1>4. x = [r EXCEPT !.open = FALSE, !.next = None, !.status = "none", !.outcome = o]
  BY Zenon
<1> HIDE DEF o
<1>5. x \in ReadType
  <2>1. o \in {"none", "invalid segment", "unrecognized stream", "out of range", "done", "failed"}
    BY <1>3, Zenon
  <2>. QED
    BY <1>1, <1>4, <2>1, NothingTyped, ZenonT(30) DEF ReadType
<1>6. x.open = FALSE /\ x.status = "none" /\ x.outcome = o
  BY <1>1, <1>4, ZenonT(30) DEF ReadType
<1>7. /\ x.segments = r.segments /\ x.rest = r.rest /\ x.wire = r.wire /\ x.stream = r.stream
      /\ x.from = r.from /\ x.upTo = r.upTo /\ x.got = r.got /\ x.target = r.target
  BY <1>1, <1>4, ZenonT(30) DEF ReadType
<1>8. Pending(r) = {}
  BY <1>1, Zenon DEF Pends
<1>9. Pending(x) = {} /\ x.rest = {}
  BY <1>7, <1>8, Zenon DEF Pending
<1>10. Pends(x)
  BY <1>9, Zenon DEF Pends
<1>11. ASSUME l # TRUE
       PROVE  ReadHonest(x)
  <2>1. ReadHonest(r)
    BY <1>11, Zenon DEF ReadOK
  <2>2. r.upTo \in Nat
    BY <1>1, ReadFields, NothingTyped, Zenon DEF Received, ReadServed, Position
  <2>3. Path(Nat, <<>>, {}, r.stream, r.upTo, r.next)
    BY <1>8, <2>1, Zenon DEF ReadHonest
  <2>4. r.upTo = r.next
    BY <2>2, <2>3, PathNone, Zenon
  <2>5. /\ r.status = "NotFound" => r.target = None
        /\ (r.status = "OutOfRange" /\ r.target # None) => r.from > r.target
        /\ (r.status = "OK" /\ r.target # None) => r.next >= r.target
    BY <2>1, Zenon DEF ReadHonest, ReadReports
  <2>6. ReadEnded(x)
    BY <1>3, <1>6, <1>7, <2>4, <2>5, Zenon DEF ReadEnded
  <2>7. /\ x.outcome # "invalid segment" /\ Carries(x.wire, {x.stream})
        /\ Delivered(x.stream, x.from, x.upTo, x.got)
    BY <1>3, <1>6, <1>7, <2>1, Zenon DEF ReadHonest
  <2>. QED
    BY <1>6, <2>6, <2>7, Zenon DEF ReadHonest
<1>12. Received(x.stream, x.from, x.upTo, x.got)
  BY <1>1, <1>7, Zenon
<1>. QED
  BY <1>5, <1>6, <1>10, <1>11, <1>12, Zenon DEF ReadOK

\* An engine that breaks the protocol sends something, or ends the call.
LEMMA ReadLied ==
  ASSUME NEW r, NEW e, NEW l, ReadOK(r, e, l), l = TRUE, r.open, NEW x,
         \/ \E seg \in AnySegment : x = [r EXCEPT !.wire = <<seg>>]
         \/ \E f \in {"NotFound", "OutOfRange", "OK"} :
              x = [r EXCEPT !.segments = {}, !.rest = {}, !.status = f]
  PROVE  ReadOK(x, e, l)
<1>1. r \in ReadType /\ Pends(r) /\ ReadServed(r, e)
  BY Zenon DEF ReadOK
<1>2. /\ x \in ReadType
      /\ \/ x.segments = r.segments /\ x.rest = r.rest /\ x.status = r.status
         \/ x.segments = {} /\ x.rest = {}
      /\ x.open = r.open /\ x.stream = r.stream /\ x.next = r.next /\ x.from = r.from
      /\ x.upTo = r.upTo /\ x.got = r.got /\ x.target = r.target /\ x.outcome = r.outcome
  <2>1. ASSUME NEW seg \in AnySegment, NEW q, q = <<seg>>
        PROVE  q \in Seq(AnySegment)
    BY <2>1
  <2>2. CASE \E seg \in AnySegment : x = [r EXCEPT !.wire = <<seg>>]
    <3>1. PICK seg \in AnySegment : x = [r EXCEPT !.wire = <<seg>>]
      BY <2>2, Zenon
    <3> DEFINE q == <<seg>>
    <3>2. q \in Seq(AnySegment) /\ x = [r EXCEPT !.wire = q]
      BY <2>1, <3>1, Zenon
    <3> HIDE DEF q
    <3>3. x \in ReadType
      BY <1>1, <3>2, ZenonT(30) DEF ReadType
    <3>4. /\ x.segments = r.segments /\ x.rest = r.rest /\ x.status = r.status
          /\ x.open = r.open /\ x.stream = r.stream /\ x.next = r.next /\ x.from = r.from
          /\ x.upTo = r.upTo /\ x.got = r.got /\ x.target = r.target /\ x.outcome = r.outcome
      BY <1>1, <3>2, ZenonT(30) DEF ReadType
    <3>. QED
      BY <3>3, <3>4, Zenon
  <2>3. CASE \E f \in {"NotFound", "OutOfRange", "OK"} :
               x = [r EXCEPT !.segments = {}, !.rest = {}, !.status = f]
    <3>1. PICK f \in {"NotFound", "OutOfRange", "OK"} :
            x = [r EXCEPT !.segments = {}, !.rest = {}, !.status = f]
      BY <2>3, Zenon
    <3>3. x \in ReadType /\ x.segments = {} /\ x.rest = {}
      BY <1>1, <3>1, ZenonT(30) DEF ReadType
    <3>4. /\ x.open = r.open /\ x.stream = r.stream /\ x.next = r.next /\ x.from = r.from
          /\ x.upTo = r.upTo /\ x.got = r.got /\ x.target = r.target /\ x.outcome = r.outcome
      BY <1>1, <3>1, ZenonT(30) DEF ReadType
    <3>. QED
      BY <3>3, <3>4, Zenon
  <2>. QED
    BY <2>2, <2>3, Zenon
<1>3. /\ \A seg \in Pending(x) : seg \in Pending(r)
      /\ Pends(x)
  BY <1>1, <1>2, ZenonT(30) DEF Pending, Pends
<1>4. ReadServed(x, e)
  BY <1>1, <1>2, <1>3, SMT DEF ReadServed
<1>5. Received(x.stream, x.from, x.upTo, x.got)
  BY <1>2, Zenon DEF ReadOK
<1>. QED
  BY <1>2, <1>3, <1>4, <1>5, Zenon DEF ReadOK

-------------------------------------------------------------------------------
(* The steps.                                                              *)

\* Nothing grows when nothing is appended.
LEMMA NoGrowth ==
  ASSUME NEW e \in [Stream -> Position]
  PROVE  Growth(e, e)
<1>1. \A n \in Nat : n <= n
  OBVIOUS
<1>2. \A s \in Stream : e[s] # None => e[s] \in Nat
  BY Zenon DEF Position
<1>. QED
  BY <1>1, <1>2, Zenon DEF Growth

\* Initially.
LEMMA InitIInv == Init => IInv
<1> SUFFICES ASSUME Init PROVE IInv
  OBVIOUS
<1>1. end \in [Stream -> Position] /\ lying \in BOOLEAN
  BY NothingTyped, Zenon DEF Init
<1>2. WatchOK(NoWatch, end, lying)
  BY FreshWatches, FreshWatchOK, Zenon
<1>3. ReadOK(NoRead, end, lying)
  BY IdleReads, IdleReadOK, Zenon
<1>. QED
  BY <1>1, <1>2, <1>3, Zenon DEF Init, IInv

\* Memory.Append.
LEMMA MemoryAppendStep ==
  ASSUME IInv, NEW s \in Stream, NEW n \in 0 .. MaxLength, MemoryAppend(s, n)
  PROVE  IInv'
<1>1. end \in [Stream -> Position] /\ WatchOK(watch, end, lying) /\ ReadOK(read, end, lying)
  BY Zenon DEF IInv
<1>2. end' = [end EXCEPT ![s] = n] /\ watch' = watch /\ read' = read /\ lying' = lying
  BY Zenon DEF MemoryAppend
<1>3. n \in Nat /\ n \in Position
  BY Offsets DEF Position
<1>4. end' \in [Stream -> Position]
  BY <1>1, <1>2, <1>3, Zenon
<1>5. end[s] # None => end'[s] # None /\ end[s] <= end'[s]
  <2>1. SUFFICES ASSUME end[s] # None PROVE n # None /\ end[s] <= n
    BY <1>1, <1>2, Zenon
  <2>2. end[s] \in Nat /\ n \in end[s] .. MaxLength
    BY <1>1, <2>1, Zenon DEF MemoryAppend, Position
  <2>3. end[s] <= n
    BY <2>2, Offsets
  <2>. QED
    BY <1>3, <2>3, NothingTyped, Zenon
<1>6. Growth(end, end)
  BY <1>1, NoGrowth, Zenon
<1>7. ASSUME NEW t \in Stream, end[t] # None
      PROVE  end'[t] # None /\ end[t] <= end'[t]
  <2>1. CASE t = s
    BY <1>5, <1>7, <2>1, Zenon
  <2>2. CASE t # s
    <3>1. end'[t] = end[t]
      BY <1>1, <1>2, <2>2, Zenon
    <3>. QED
      BY <1>6, <1>7, <3>1, Zenon DEF Growth
  <2>. QED
    BY <2>1, <2>2, Zenon
<1>8. Growth(end, end')
  BY <1>1, <1>4, <1>7, Zenon DEF Growth
<1>9. WatchOK(watch, end', lying) /\ ReadOK(read, end', lying)
  <2> DEFINE g == end'
  <2>1. Growth(end, g)
    BY <1>8, Zenon
  <2> HIDE DEF g
  <2>2. WatchOK(watch, g, lying)
    BY <1>1, <2>1, WatchFrame, Zenon
  <2>3. ReadOK(read, g, lying)
    BY <1>1, <2>1, ReadFrame, Zenon
  <2>. QED
    BY <2>2, <2>3, Zenon DEF g
<1>. QED
  BY <1>2, <1>4, <1>9, Zenon DEF IInv

\* A watch begins.
LEMMA BeginWatchStep == IInv /\ BeginWatch => IInv'
<1> SUFFICES ASSUME IInv, BeginWatch PROVE IInv'
  OBVIOUS
<1>1. \A l : WatchOK([NoWatch EXCEPT !.open = TRUE], end, l)
  BY FreshWatches, FreshWatchOK, Zenon
<1>2. \A l : ReadOK(NoRead, end, l)
  BY IdleReads, IdleReadOK, Zenon
<1>3. /\ watch' = [NoWatch EXCEPT !.open = TRUE] /\ read' = NoRead /\ end' = end
      /\ lying' \in BOOLEAN
  BY Zenon DEF BeginWatch
<1>4. WatchOK(watch', end', lying') /\ ReadOK(read', end', lying')
  BY <1>1, <1>2, <1>3, Zenon
<1>. QED
  BY <1>3, <1>4, Zenon DEF IInv

\* Memory.Watch passes segments to the server.
LEMMA ServerLoadsStep == IInv /\ ServerLoads => IInv'
<1> SUFFICES ASSUME IInv, ServerLoads PROVE IInv'
  OBVIOUS
<1>1. WatchOK(watch', end, lying)
  BY WatchLoaded, Zenon DEF IInv
<1>. QED
  BY <1>1, Zenon DEF IInv, ServerLoads

\* The server of a watch sends a part.
LEMMA ServerSendsStep == IInv /\ ServerSends => IInv'
<1> SUFFICES ASSUME IInv, ServerSends PROVE IInv'
  OBVIOUS
<1>1. PICK seg \in Passed(watch) : watch' = Sent(watch, seg, FirstPart(seg))
  BY Zenon DEF ServerSends
<1>2. WatchOK(Sent(watch, seg, FirstPart(seg)), end, lying)
  BY WatchSent, Zenon DEF IInv
<1>. QED
  BY <1>1, <1>2, Zenon DEF IInv, ServerSends

\* An engine that breaks the protocol sends something to a watch.
LEMMA ServerLiesStep == IInv /\ ServerLies => IInv'
<1> SUFFICES ASSUME IInv, ServerLies PROVE IInv'
  OBVIOUS
<1>1. PICK seg \in Lie : watch' = [watch EXCEPT !.wire = <<seg>>]
  BY Zenon DEF ServerLies
<1>2. seg \in AnySegment /\ lying = TRUE
  BY RemoteAssumption, Zenon DEF ServerLies, IInv
<1>3. WatchOK(watch', end, lying)
  BY <1>1, <1>2, WatchLied, Zenon DEF IInv
<1>. QED
  BY <1>3, Zenon DEF IInv, ServerLies

\* The server ends a watch.
LEMMA ServerEndsStep == IInv /\ ServerEnds => IInv'
<1> SUFFICES ASSUME IInv, ServerEnds PROVE IInv'
  OBVIOUS
<1>1. PICK status \in {"Aborted", "Unimplemented", "OK"} :
        watch' = [watch EXCEPT !.segments = {}, !.rest = {}, !.status = status]
  BY Zenon DEF ServerEnds
<1>2. WatchOK(watch', end, lying)
  BY <1>1, WatchEnded, Zenon DEF IInv
<1>. QED
  BY <1>2, Zenon DEF IInv, ServerEnds

\* Remote.Watch receives a segment.
LEMMA WatchReceivesStep == IInv /\ WatchReceives => IInv'
<1> SUFFICES ASSUME IInv, WatchReceives PROVE IInv'
  OBVIOUS
<1> DEFINE seg == Head(watch.wire)
<1>1. WatchOK(watch, end, lying) /\ watch \in WatchType
  BY Zenon DEF IInv, WatchOK
<1>2. /\ watch.wire # <<>> /\ end' = end /\ read' = read /\ lying' = lying
  BY Zenon DEF WatchReceives
<1>3. CASE ~Parses(seg) \/ ~Contiguous(seg)
  <2>1. lying
    <3>1. SUFFICES ASSUME lying # TRUE PROVE FALSE
      BY Zenon
    <3>2. Parses(seg) /\ watch.upTo[seg.stream] \in {None, seg.begin}
      BY <1>1, <1>2, <3>1, WatchAccepts, Zenon
    <3>. QED
      BY <1>3, <3>2, Zenon DEF Contiguous
  <2>2. watch' = [NoWatch EXCEPT !.outcome = "invalid segment"]
    BY <1>3, Zenon DEF WatchReceives
  <2>3. FreshWatch(watch')
    BY <2>2, FreshWatches, Zenon
  <2>4. WatchOK(watch', end, lying)
    BY <2>1, <2>3, FreshWatchOK, ZenonT(30)
  <2>. QED
    BY <1>2, <2>4, Zenon DEF IInv
<1>4. CASE ~(~Parses(seg) \/ ~Contiguous(seg))
  <2>1. Parses(seg) /\ watch.upTo[seg.stream] \in {None, seg.begin}
    BY <1>4, Zenon DEF Contiguous
  <2>2. watch' = [watch EXCEPT !.wire = Tail(@),
                               !.from[seg.stream] = IF @ = None THEN seg.begin ELSE @,
                               !.upTo[seg.stream] = seg.end,
                               !.got[seg.stream] = @ \o seg.envelopes]
    BY <1>4, Zenon DEF WatchReceives
  <2>3. WatchAccepted(watch', watch)
    BY <1>1, <1>2, <2>2, WatchAcceptedFields, Zenon
  <2> HIDE DEF seg
  <2>4. WatchOK(watch', end, lying)
    BY <1>1, <1>2, <2>1, <2>3, WatchAcceptedOK, Zenon DEF seg
  <2>. QED
    BY <1>2, <2>4, Zenon DEF IInv
<1>. QED
  BY <1>3, <1>4, Zenon

\* Remote.Watch returns.
LEMMA WatchReturnsStep == IInv /\ WatchReturns => IInv'
<1> SUFFICES ASSUME IInv, WatchReturns PROVE IInv'
  OBVIOUS
<1>1. \E o \in {"too slow", "unsupported", "failed"} : watch' = [NoWatch EXCEPT !.outcome = o]
  BY Zenon DEF WatchReturns
<1>2. PICK o \in {"too slow", "unsupported", "failed"} : watch' = [NoWatch EXCEPT !.outcome = o]
  BY <1>1, Zenon
<1>3. FreshWatch(watch') /\ watch'.outcome = o
  BY <1>2, FreshWatches, Zenon
<1>4. watch'.outcome # "invalid segment"
  BY <1>3, Zenon
<1>5. WatchOK(watch', end, lying)
  BY <1>3, <1>4, FreshWatchOK, Zenon
<1>. QED
  BY <1>5, Zenon DEF IInv, WatchReturns

\* A read begins.
LEMMA BeginReadStep ==
  ASSUME IInv, NEW s \in Stream, NEW b \in 0 .. MaxLength, BeginRead(s, b)
  PROVE  IInv'
<1>1. end \in [Stream -> Position] /\ lying \in BOOLEAN
  BY Zenon DEF IInv
<1>2. b \in Nat
  OBVIOUS
<1>3. read' = [NoRead EXCEPT !.open = TRUE, !.stream = s, !.next = b, !.from = b,
                             !.upTo = b, !.target = end[s]]
  BY Zenon DEF BeginRead
<1>4. \A l : ReadOK(read', end, l)
  BY <1>1, <1>2, <1>3, ReadBegun, Zenon
<1>5. \A l : WatchOK(NoWatch, end, l)
  BY FreshWatches, FreshWatchOK, Zenon
<1>6. watch' = NoWatch /\ end' = end /\ lying' \in BOOLEAN
  BY Zenon DEF BeginRead
<1>7. WatchOK(watch', end', lying') /\ ReadOK(read', end', lying')
  BY <1>4, <1>5, <1>6, Zenon
<1>. QED
  BY <1>1, <1>6, <1>7, Zenon DEF IInv

\* Memory.Read passes a segment to the server, or returns.
LEMMA ReadServerLoadsStep == IInv /\ ReadServerLoads => IInv'
<1> SUFFICES ASSUME IInv, ReadServerLoads PROVE IInv'
  OBVIOUS
<1> DEFINE s == read.stream
           b == read.next
           f == ReadStatus(s, b)
<1>1. end \in [Stream -> Position] /\ ReadOK(read, end, lying)
  BY Zenon DEF IInv
<1>2. read.open /\ read.status = "none" /\ Passed(read) = {}
  BY Zenon DEF ReadServerLoads, Loads
<1>3. Pending(read) = {}
  BY <1>2, Zenon DEF Passed, Pending
<1>4. s \in Stream /\ b \in Nat
  BY <1>1, <1>2, Zenon DEF ReadOK, ReadServed
<1>5. \/ f = "NotFound" /\ end[s] = None
      \/ f = "OutOfRange" /\ end[s] \in Nat /\ b > end[s]
      \/ f = "OK" /\ end[s] \in Nat /\ b = end[s]
      \/ f = "none" /\ end[s] \in Nat /\ b < end[s]
  BY <1>1, <1>4, ReadStatusFacts, Zenon
<1>6. ASSUME ReadOK(read', end, lying)
      PROVE  IInv'
  BY <1>6, Zenon DEF IInv, ReadServerLoads
<1>7. CASE f # "none"
  <2>1. read' = [read EXCEPT !.status = f]
    BY <1>7, Zenon DEF ReadServerLoads
  <2> HIDE DEF f
  <2>2. /\ f \in {"NotFound", "OutOfRange", "OK"}
        /\ f = "NotFound" => end[s] = None
        /\ f = "OutOfRange" => end[s] \in Nat /\ b > end[s]
        /\ f = "OK" => end[s] \in Nat /\ b = end[s]
    BY <1>5, <1>7, Zenon
  <2>3. ReadOK(read', end, lying)
    BY <1>1, <1>2, <1>3, <2>1, <2>2, ReadFound, ZenonT(30)
  <2>. QED
    BY <1>6, <2>3, Zenon
<1>8. CASE f = "none"
  <2> DEFINE seg == Unread(s, b)
  <2>1. read' = [read EXCEPT !.segments = {seg}, !.next = seg.end]
    BY <1>8, Zenon DEF ReadServerLoads
  <2>2. end[s] \in Nat /\ b <= end[s] /\ end[s] # None
    <3>1. end[s] \in Nat /\ b < end[s]
      BY <1>5, <1>8, Zenon
    <3>2. b <= end[s]
      BY <1>4, <3>1
    <3>. QED
      BY <3>1, <3>2, NothingTyped, Zenon
  <2> HIDE DEF s, b
  <2>3. Honest(seg) /\ seg.stream = s /\ seg.begin = b /\ seg.end <= end[s]
    BY <1>4, <2>2, UnreadFacts, Zenon
  <2> HIDE DEF seg
  <2>4. ReadOK(read', end, lying)
    BY <1>1, <1>2, <1>3, <2>1, <2>2, <2>3, ReadPassed, ZenonT(30) DEF s, b
  <2>. QED
    BY <1>6, <2>4, Zenon
<1>. QED
  BY <1>7, <1>8, Zenon

\* The server of a read sends a part.
LEMMA ReadServerSendsStep == IInv /\ ReadServerSends => IInv'
<1> SUFFICES ASSUME IInv, ReadServerSends PROVE IInv'
  OBVIOUS
<1>1. PICK seg \in Passed(read) : read' = Sent(read, seg, FirstPart(seg))
  BY Zenon DEF ReadServerSends
<1>2. ReadOK(Sent(read, seg, FirstPart(seg)), end, lying)
  BY ReadSent, Zenon DEF IInv, ReadServerSends, Sends
<1>. QED
  BY <1>1, <1>2, Zenon DEF IInv, ReadServerSends

\* An engine that breaks the protocol answers a read.
LEMMA ReadServerLiesStep == IInv /\ ReadServerLies => IInv'
<1> SUFFICES ASSUME IInv, ReadServerLies PROVE IInv'
  OBVIOUS
<1>1. lying = TRUE /\ read.open
  BY Zenon DEF ReadServerLies, IInv
<1>2. \/ \E seg \in AnySegment : read' = [read EXCEPT !.wire = <<seg>>]
      \/ \E f \in {"NotFound", "OutOfRange", "OK"} :
           read' = [read EXCEPT !.segments = {}, !.rest = {}, !.status = f]
  BY RemoteAssumption, Zenon DEF ReadServerLies
<1>3. ReadOK(read', end, lying)
  BY <1>1, <1>2, ReadLied, Zenon DEF IInv
<1>. QED
  BY <1>3, Zenon DEF IInv, ReadServerLies

\* Remote.Read receives a segment.
LEMMA ReadReceivesStep == IInv /\ ReadReceives => IInv'
<1> SUFFICES ASSUME IInv, ReadReceives PROVE IInv'
  OBVIOUS
<1> DEFINE seg == Head(read.wire)
           Good == Parses(seg) /\ seg.stream = read.stream /\ seg.begin = read.upTo
<1>1. ReadOK(read, end, lying) /\ read \in ReadType
  BY Zenon DEF IInv, ReadOK
<1>2. /\ read.open /\ read.wire # <<>> /\ end' = end /\ watch' = watch /\ lying' = lying
  BY Zenon DEF ReadReceives
<1>3. CASE ~Good
  <2>1. lying
    <3>1. SUFFICES ASSUME lying # TRUE PROVE FALSE
      BY Zenon
    <3>2. Good
      BY <1>1, <1>2, <3>1, ReadAccepts, Zenon
    <3>. QED
      BY <1>3, <3>2, Zenon
  <2>2. read' = [NoRead EXCEPT !.outcome = "invalid segment"]
    BY <1>3, Zenon DEF ReadReceives
  <2>3. IdleRead(read')
    BY <2>2, IdleReads, ZenonT(30)
  <2>4. ReadOK(read', end, lying)
    BY <2>1, <2>3, IdleReadOK, Zenon
  <2>. QED
    BY <1>2, <2>4, Zenon DEF IInv
<1>4. CASE Good
  <2>1. read' = [read EXCEPT !.wire = Tail(@), !.upTo = seg.end, !.got = @ \o seg.envelopes]
    BY <1>4, Zenon DEF ReadReceives
  <2>2. ReadAccepted(read', read)
    BY <1>1, <1>2, <2>1, ReadAcceptedFields, Zenon
  <2>3. ReadOK(read', end, lying)
    BY <1>1, <1>2, <1>4, <2>2, ReadAcceptedOK, Zenon
  <2>. QED
    BY <1>2, <2>3, Zenon DEF IInv
<1>. QED
  BY <1>3, <1>4, Zenon

\* Remote.Read returns.
LEMMA ReadReturnsStep == IInv /\ ReadReturns => IInv'
<1> SUFFICES ASSUME IInv, ReadReturns PROVE IInv'
  OBVIOUS
<1>1. ReadOK(read, end, lying)
  BY Zenon DEF IInv
<1>2. read.open /\ end' = end /\ watch' = watch /\ lying' = lying
  BY Zenon DEF ReadReturns
<1>3. ASSUME ReadOK(read', end, lying)
      PROVE  IInv'
  BY <1>2, <1>3, ZenonT(30) DEF IInv
<1>4. CASE read' = [NoRead EXCEPT !.outcome = "failed"]
  <2>1. IdleRead(read') /\ read'.outcome = "failed"
    BY <1>4, IdleReads, Zenon
  <2>2. ReadOK(read', end, lying)
    BY <2>1, IdleReadOK, Zenon
  <2>. QED
    BY <1>3, <2>2, Zenon
<1>5. CASE /\ read.wire = <<>> /\ read.status # "none"
           /\ read' = [read EXCEPT !.open = FALSE, !.next = None, !.status = "none",
                        !.outcome = CASE read.status = "NotFound" -> "unrecognized stream"
                                      [] read.status = "OutOfRange" -> "out of range"
                                      [] OTHER -> "done"]
  <2>1. ReadOK(read', end, lying)
    BY <1>1, <1>2, <1>5, ReadDone, Zenon
  <2>. QED
    BY <1>3, <2>1, Zenon
<1>. QED
  BY <1>4, <1>5, Zenon DEF ReadReturns

\* The steps of the calls and of the source preserve the invariant.
LEMMA NextIInv == IInv /\ [Next]_vars => IInv'
<1> SUFFICES ASSUME IInv, [Next]_vars PROVE IInv'
  OBVIOUS
<1>1. CASE UNCHANGED vars
  BY <1>1, Zenon DEF vars, IInv
<1>2. CASE Next
  BY <1>2, MemoryAppendStep, BeginWatchStep, ServerLoadsStep, ServerSendsStep, ServerLiesStep,
     ServerEndsStep, WatchReceivesStep, WatchReturnsStep, BeginReadStep, ReadServerLoadsStep,
     ReadServerSendsStep, ReadServerLiesStep, ReadReceivesStep, ReadReturnsStep, ZenonT(30)
     DEF Next, WatchStep, ReadStep
<1>. QED
  BY <1>1, <1>2, Zenon

-------------------------------------------------------------------------------
(* The theorems.                                                           *)

(***************************************************************************)
(* However calls and appends interleave and whatever a remote engine       *)
(* sends, the server holds what the source has, and as long as the remote  *)
(* engine keeps to the protocol, what is on the wire and what is pending   *)
(* take the client without a gap to where the server has got.              *)
(***************************************************************************)
THEOREM RemoteInvariant == Spec => []IInv
  BY InitIInv, NextIInv, PTL DEF Spec

(***************************************************************************)
(* Whatever a remote engine sends, what Remote.Watch and Remote.Read pass  *)
(* on is well formed and in order across the segments of a call.           *)
(***************************************************************************)
THEOREM AcceptedAlwaysWellFormed == Spec => []AcceptedWellFormed
<1>1. IInv => AcceptedWellFormed
  <2> SUFFICES ASSUME IInv PROVE AcceptedWellFormed
    OBVIOUS
  <2>1. ASSUME NEW s, NEW f, NEW u, NEW g, Received(s, f, u, g)
        PROVE  WellFormed(s, f, u, g)
    BY <2>1, WellFormedNone, Zenon DEF Received
  <2>2. \A s \in Stream : Received(s, watch.from[s], watch.upTo[s], watch.got[s])
    BY Zenon DEF IInv, WatchOK
  <2>3. Received(read.stream, read.from, read.upTo, read.got)
    BY Zenon DEF IInv, ReadOK
  <2>. QED
    BY <2>1, <2>2, <2>3, Zenon DEF AcceptedWellFormed
<1>. QED
  BY <1>1, RemoteInvariant, PTL

\* What was delivered is what Memory.segment returns for the range.
LEMMA DeliveredIs ==
  ASSUME NEW s \in Stream, NEW f \in Position, NEW u \in Position, NEW g, f # None,
         Received(s, f, u, g), Delivered(s, f, u, g)
  PROVE  g = MemorySegment(s, f, u).envelopes
<1>1. f \in Nat /\ u \in Nat /\ f <= u /\ Lists(g, s, Chosen(s, f, u))
  BY Zenon DEF Received, Delivered, Position
<1> DEFINE q == MemorySegment(s, f, u).envelopes
<1>2. Lists(q, s, Chosen(s, f, u))
  BY <1>1, MemorySegmentLists, Zenon
<1> HIDE DEF q
<1>3. g = q
  BY <1>1, <1>2, ListsUnique, Zenon
<1>. QED
  BY <1>3, Zenon DEF q

(***************************************************************************)
(* If the remote engine keeps to the protocol, it is never taken to break  *)
(* it, what a client is passed is exactly what the source holds of the     *)
(* range, and a read ends as one of the source itself would have: for      *)
(* every size limit, segment size and layout of the streams.               *)
(***************************************************************************)
THEOREM HonestDeliveryAlways == Spec => []HonestDelivery
<1>1. IInv => HonestDelivery
  <2> SUFFICES ASSUME IInv, ~lying PROVE HonestDelivery
    BY Zenon DEF HonestDelivery
  <2>1. WatchOK(watch, end, lying) /\ ReadOK(read, end, lying) /\ lying # TRUE
    BY Zenon DEF IInv
  <2>2. WatchHonest(watch) /\ ReadHonest(read) /\ watch \in WatchType /\ read \in ReadType
    BY <2>1, Zenon DEF WatchOK, ReadOK
  <2>3. "invalid segment" \notin {watch.outcome, read.outcome}
    BY <2>2, Zenon DEF WatchHonest, ReadHonest
  <2>4. ASSUME NEW s \in Stream, watch.from[s] # None
        PROVE  watch.got[s] = MemorySegment(s, watch.from[s], watch.upTo[s]).envelopes
    <3>1. watch.from[s] \in Position /\ watch.upTo[s] \in Position
      BY <2>2, WatchFields, Zenon
    <3>2. /\ Received(s, watch.from[s], watch.upTo[s], watch.got[s])
          /\ Delivered(s, watch.from[s], watch.upTo[s], watch.got[s])
      BY <2>1, <2>2, Zenon DEF WatchOK, WatchHonest
    <3>. QED
      BY <2>4, <3>1, <3>2, DeliveredIs, Zenon
  <2>5. ASSUME read.from # None
        PROVE  read.got = MemorySegment(read.stream, read.from, read.upTo).envelopes
    <3>1. read.from \in Position /\ read.upTo \in Position
      BY <2>2, ReadFields, Zenon
    <3>2. /\ Received(read.stream, read.from, read.upTo, read.got)
          /\ Delivered(read.stream, read.from, read.upTo, read.got)
      BY <2>1, <2>2, Zenon DEF ReadOK, ReadHonest
    <3>3. read.stream \in Stream
      BY <2>5, <3>2, Zenon DEF Received
    <3>. QED
      BY <2>5, <3>1, <3>2, <3>3, DeliveredIs, Zenon
  <2>6. ReadEnded(read)
    BY <2>2, Zenon DEF ReadHonest
  <2>. QED
    BY <2>3, <2>4, <2>5, <2>6, Zenon DEF HonestDelivery, ReadEnded
<1>. QED
  BY <1>1, RemoteInvariant, PTL

(***************************************************************************)
(* A part that the server sends is no larger than MaxSegmentBytes, with    *)
(* its headers, unless it is a single event.                               *)
(***************************************************************************)
THEOREM PartsAlwaysBounded == Spec => []PartsBounded
<1>1. IInv => PartsBounded
  <2> SUFFICES ASSUME IInv, ~lying PROVE PartsBounded
    BY Zenon DEF PartsBounded
  <2>1. WatchOK(watch, end, lying) /\ ReadOK(read, end, lying) /\ lying # TRUE
    BY Zenon DEF IInv
  <2>2. Carries(watch.wire, Stream) /\ Carries(read.wire, {read.stream})
    BY <2>1, Zenon DEF WatchOK, ReadOK, WatchHonest, ReadHonest
  <2>. QED
    BY <2>2, Zenon DEF PartsBounded, Carries
<1>. QED
  BY <1>1, RemoteInvariant, PTL

\* The source is looked at again after every change: a watch that no change
\* has woken has been passed all that there is.
Woken ==
  /\ changed \in BOOLEAN
  /\ changed # TRUE => watch.delivered = end \/ watch.open # TRUE

\* A watch that has returned is not open.
LEMMA Closed ==
  NoWatch.open # TRUE /\ \A o : [NoWatch EXCEPT !.outcome = o].open # TRUE
  BY DEF NoWatch

\* No change is lost.
LEMMA WokenStep == IInv /\ Woken /\ [Next]_vars => Woken'
<1> SUFFICES ASSUME IInv, Woken, [Next]_vars PROVE Woken'
  OBVIOUS
<1>1. watch \in WatchType
  BY Zenon DEF IInv, WatchOK
<1>2. ASSUME watch' = watch, end' = end, changed' = changed
      PROVE  Woken'
  BY <1>2, Zenon DEF Woken
<1>3. ASSUME watch.open, watch'.delivered = watch.delivered, end' = end, changed' = changed
      PROVE  Woken'
  BY <1>3, Zenon DEF Woken
<1>4. ASSUME watch'.open # TRUE, changed' = changed
      PROVE  Woken'
  BY <1>4, Zenon DEF Woken
<1>5. CASE UNCHANGED vars
  BY <1>2, <1>5, Zenon DEF vars
<1>6. CASE \E s \in Stream : \E e \in 0 .. MaxLength : MemoryAppend(s, e)
  BY <1>6, Zenon DEF MemoryAppend, Woken
<1>7. CASE BeginWatch
  BY <1>7, Zenon DEF BeginWatch, Woken
<1>8. CASE ServerLoads
  <2>1. watch'.delivered = end /\ end' = end /\ changed' = FALSE
    BY <1>1, <1>8, Zenon DEF ServerLoads, WatchType
  <2>. QED
    BY <2>1, Zenon DEF Woken
<1>9. CASE ServerSends
  <2>1. watch'.delivered = watch.delivered
    BY <1>1, <1>9, Zenon DEF ServerSends, Sent, WatchType
  <2>. QED
    BY <1>3, <1>9, <2>1, Zenon DEF ServerSends, Sends
<1>10. CASE ServerLies
  <2>1. watch'.delivered = watch.delivered
    BY <1>1, <1>10, Zenon DEF ServerLies, WatchType
  <2>. QED
    BY <1>3, <1>10, <2>1, Zenon DEF ServerLies
<1>11. CASE ServerEnds
  <2>1. watch'.delivered = watch.delivered
    BY <1>1, <1>11, Zenon DEF ServerEnds, WatchType
  <2>. QED
    BY <1>3, <1>11, <2>1, Zenon DEF ServerEnds
<1>12. CASE WatchReceives
  <2> DEFINE seg == Head(watch.wire)
             Bad == ~Parses(seg) \/ ~Contiguous(seg)
  <2>0. watch.open /\ end' = end /\ changed' = changed
    BY <1>12, Zenon DEF WatchReceives
  <2>1. CASE Bad
    <3>1. watch' = [NoWatch EXCEPT !.outcome = "invalid segment"]
      BY <1>12, <2>1, Zenon DEF WatchReceives
    <3>. QED
      BY <1>4, <2>0, <3>1, Closed, Zenon
  <2>2. CASE ~Bad
    <3>1. watch'.delivered = watch.delivered
      BY <1>1, <1>12, <2>2, Zenon DEF WatchReceives, WatchType
    <3>. QED
      BY <1>3, <2>0, <3>1, Zenon
  <2>. QED
    BY <2>1, <2>2, Zenon
<1>13. CASE WatchReturns
  <2>1. \E o : watch' = [NoWatch EXCEPT !.outcome = o]
    BY <1>13, Zenon DEF WatchReturns
  <2>. QED
    BY <1>4, <1>13, <2>1, Closed, Zenon DEF WatchReturns
<1>14. CASE \E s \in Stream : \E b \in 0 .. MaxLength : BeginRead(s, b)
  BY <1>4, <1>14, Closed, Zenon DEF BeginRead
<1>15. CASE ReadStep
  BY <1>2, <1>15, Zenon
     DEF ReadStep, ReadServerLoads, ReadServerSends, ReadServerLies, ReadReceives, ReadReturns
<1>. QED
  BY <1>5, <1>6, <1>7, <1>8, <1>9, <1>10, <1>11, <1>12, <1>13, <1>14, <1>15, Zenon
     DEF Next, WatchStep

(***************************************************************************)
(* No wake-up is lost: a watch waits for a change only once every stream   *)
(* of the source, also one that appeared during the watch, has been passed *)
(* on up to its end.                                                       *)
(***************************************************************************)
THEOREM QuietAlwaysCaughtUp == Spec => []QuietMeansCaughtUp
<1>1. IInv /\ Woken => QuietMeansCaughtUp
  <2> SUFFICES ASSUME IInv, Woken, watch.open, watch.status = "none", ~changed,
                      Passed(watch) = {}, watch.wire = <<>>, ~lying,
                      NEW s \in Stream
               PROVE  watch.upTo[s] = end[s]
    BY Zenon DEF QuietMeansCaughtUp
  <2>1. WatchOK(watch, end, lying) /\ lying # TRUE
    BY Zenon DEF IInv
  <2>2. WatchHonest(watch) /\ watch \in WatchType
    BY <2>1, Zenon DEF WatchOK
  <2>3. Pending(watch) = {}
    BY Zenon DEF Passed, Pending
  <2>4. Path(Position, <<>>, {}, s, watch.upTo[s], watch.delivered[s])
    BY <2>2, <2>3, Zenon DEF WatchHonest, WatchPath
  <2>5. watch.upTo[s] \in Position
    BY <2>2, WatchFields, Zenon
  <2>6. watch.upTo[s] = watch.delivered[s]
    BY <2>4, <2>5, PathNone, Zenon
  <2>7. watch.open = TRUE /\ changed # TRUE
    BY <2>2, WatchFields, Zenon
  <2>8. watch.delivered = end
    BY <2>7, Zenon DEF Woken
  <2>. QED
    BY <2>6, <2>8, Zenon
<1>2. Init => Woken
  BY Closed, Zenon DEF Init, Woken
<1>. QED
  BY <1>1, <1>2, WokenStep, RemoteInvariant, PTL DEF Spec

==============================================================================
