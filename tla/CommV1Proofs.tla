----------------------------- MODULE CommV1Proofs -----------------------------
(***************************************************************************)
(* Proofs about CommV1, for every number of frames, faults and sessions,   *)
(* every width of SEQ and every set of payloads and requests: the parser   *)
(* acts on nothing that was not sent, and on nothing twice; and on a link  *)
(* that is fed byte by byte, nothing of the past swallows a whole frame.   *)
(***************************************************************************)
EXTENDS CommV1, SequenceTheorems, TLAPS

Frames ==
    {f \in [seq : Seqs, dst : Range(Destinations), kind : Range(Kinds),
            data : Payloads \cup {<<>>}] :
        IF f.kind \in Bare THEN f.data = <<>> ELSE f.data \in Payloads}
Values == 0 .. ByteMod - 1 \cup {Checksum(Encoded(f)) : f \in Frames}
Bytes == [value : Values, sum : Seq(Values), frame : Nat]
Acts == [number : Nat, seq : Seqs, dst : Range(Destinations), kind : Range(Kinds),
         data : Seq(Values)]
-----------------------------------------------------------------------------
(* What the host makes of a frame is what the parser reads from it.        *)

LEMMA Widths ==
    /\ SeqCount \in Nat \ {0} /\ ByteMod = 4 * SeqCount /\ ByteMod >= 8
    /\ Len(Kinds) = 8 /\ Len(Destinations) = 4 /\ SOP \in Values /\ MaxData \in Nat \ {0}
    /\ MaxData < ByteMod
  BY CommAssumption DEF CommAssumption, ByteMod, Kinds, Destinations, Values

LEMMA DestinationCode ==
    ASSUME NEW name \in Range(Destinations)
    PROVE  Code(name, Destinations) \in 0 .. 3 /\ Destinations[Code(name, Destinations) + 1] = name
<1>1. \E i \in 1 .. 4 : Destinations[i] = name
  BY DEF Range, Destinations
<1>. QED BY <1>1 DEF Code, Destinations

LEMMA KindCode ==
    ASSUME NEW name \in Range(Kinds)
    PROVE  Code(name, Kinds) \in 0 .. 7 /\ Kinds[Code(name, Kinds) + 1] = name
<1>1. \E i \in 1 .. 8 : Kinds[i] = name
  BY DEF Range, Kinds
<1>. QED BY <1>1 DEF Code, Kinds

LEMMA FieldsOfSum ==
    ASSUME NEW n \in Nat \ {0}, NEW low \in 0 .. n - 1, NEW high \in 0 .. 3
    PROVE  /\ (low + n * high) % n = low /\ (low + n * high) \div n = high
           /\ low + n * high \in 0 .. 4 * n - 1
<1>1. n * high \in Nat /\ n * high <= 3 * n
  BY SMT
<1>. DEFINE x == low + n * high
<1>2. x \in Nat
  BY <1>1
<1>3. x = (x \div n) * n + (x % n) /\ x % n \in 0 .. n - 1 /\ x \div n \in Nat
  BY <1>2, SMT
<1>4. x \div n = high
  BY <1>3, SMT
<1>. QED BY <1>1, <1>3, <1>4, SMT

LEMMA EncodedFacts ==
    ASSUME NEW f \in Frames
    PROVE  LET e == Encoded(f)
           IN  /\ e \in Seq(Values) /\ e # <<>>
               /\ SeqField(e[2]) = f.seq /\ DstOf(e[2]) = f.dst /\ KindOf(e[3]) = f.kind
               /\ IF f.kind \in Bare THEN Len(e) = 3 /\ f.data = <<>>
                  ELSE /\ Len(e) = 4 + Len(f.data)
                       /\ \A i \in 1 .. Len(f.data) : e[4 + i] = f.data[i]
               /\ f.data \in Seq(Values)
<1>. DEFINE header == f.seq + SeqCount * Code(f.dst, Destinations)
            code == Code(f.kind, Kinds)
            length == Len(f.data) % MaxData
            e == Encoded(f)
            body == IF f.kind \in Bare THEN <<>> ELSE <<length>> \o f.data
<1>1. /\ f.seq \in Seqs /\ f.dst \in Range(Destinations) /\ f.kind \in Range(Kinds)
      /\ f.data \in Payloads \cup {<<>>} /\ (f.kind \in Bare => f.data = <<>>)
  BY DEF Frames
<1>2. header % SeqCount = f.seq /\ header \div SeqCount = Code(f.dst, Destinations)
      /\ header \in 0 .. ByteMod - 1
  BY <1>1, Widths, DestinationCode, FieldsOfSum DEF Seqs
<1>3. code \in 0 .. 7 /\ code % 8 = code
  BY <1>1, KindCode, SMT
<1>4. f.data \in Seq(0 .. ByteMod - 1)
  <2>1. f.data \in Payloads => f.data \in Seq(0 .. ByteMod - 1)
    BY Zenon, CommAssumption DEF CommAssumption
  <2>2. f.data = <<>> => f.data \in Seq(0 .. ByteMod - 1)
    BY EmptySeq
  <2>3. f.data \in Payloads \/ f.data = <<>>
    BY <1>1, Zenon
  <2>. QED BY <2>1, <2>2, <2>3, Zenon
<1>5. f.data \in Seq(Values)
  BY <1>4, SeqMonotonic DEF Values
<1>6. length \in 0 .. ByteMod - 1
  <2>1. Len(f.data) \in Nat
    BY <1>4
  <2>2. MaxData \in Nat \ {0} /\ MaxData < ByteMod /\ ByteMod \in Nat
    BY Widths
  <2>3. \A m \in Nat, n \in Nat \ {0} : m % n \in 0 .. n - 1
    OBVIOUS
  <2>4. length \in 0 .. MaxData - 1
    BY <2>1, <2>2, <2>3, Zenon
  <2>. HIDE DEF length
  <2>. QED BY <2>2, <2>4
<1>7. header \in Values /\ code \in Values /\ length \in Values /\ SOP \in Values
  <2>1. code \in 0 .. ByteMod - 1
    BY <1>3, Widths
  <2>. HIDE DEF header, code, length
  <2>. QED BY <1>2, <1>6, <2>1, Widths DEF Values
<1>8. e = <<SOP, header, code>> \o body
  BY DEF Encoded
<1>. HIDE DEF header, code, length, e
<1>9. body \in Seq(Values) /\ <<SOP, header, code>> \in Seq(Values)
  BY <1>5, <1>7
<1>10. e \in Seq(Values) /\ Len(e) = 3 + Len(body) /\ e[2] = header /\ e[3] = code
       /\ \A i \in 1 .. Len(body) : e[3 + i] = body[i]
  BY <1>8, <1>9
<1>11. SeqField(e[2]) = f.seq /\ DstOf(e[2]) = f.dst
  BY <1>1, <1>2, <1>10, DestinationCode DEF SeqField, DstOf
<1>12. KindOf(e[3]) = f.kind
  BY <1>1, <1>3, <1>10, Widths, KindCode DEF KindOf, code
<1>13. f.kind \notin Bare => /\ Len(e) = 4 + Len(f.data)
                             /\ \A i \in 1 .. Len(f.data) : e[4 + i] = f.data[i]
  <2>. SUFFICES ASSUME f.kind \notin Bare
                PROVE  /\ Len(e) = 4 + Len(f.data)
                       /\ \A i \in 1 .. Len(f.data) : e[4 + i] = f.data[i]
    OBVIOUS
  <2>1. Len(body) = 1 + Len(f.data) /\ \A i \in 1 .. Len(f.data) : body[1 + i] = f.data[i]
    BY <1>5, <1>7
  <2>. HIDE DEF body
  <2>2. ASSUME NEW i \in 1 .. Len(f.data) PROVE e[4 + i] = f.data[i]
    <3>1. 1 + i \in 1 .. Len(body) /\ 3 + (1 + i) = 4 + i
      BY <1>5, <2>1
    <3>. QED BY <1>10, <2>1, <3>1
  <2>. QED BY <1>5, <1>10, <2>1, <2>2
<1>14. f.kind \in Bare => Len(e) = 3 /\ f.data = <<>>
  BY <1>1, <1>10
<1>15. e # <<>>
  BY <1>9, <1>10
<1>. QED BY <1>5, <1>10, <1>11, <1>12, <1>13, <1>14, <1>15 DEF e
-----------------------------------------------------------------------------
(* The inductive invariant.                                                *)

(* A byte that ends a frame ends one that was sent.                        *)
Ending(w, i) == w[i].sum # <<>>
Genuine(w, s) ==
    \A i \in 1 .. Len(w) :
        Ending(w, i) => w[i].frame \in 1 .. Len(s) /\ w[i].sum = Encoded(s[w[i].frame])
(* Frames end on the wire in the order they were first sent ...            *)
Ordered(w) ==
    \A i, j \in 1 .. Len(w) :
        i < j /\ Ending(w, i) /\ Ending(w, j) => w[i].frame <= w[j].frame
(* ... and none of them was sent before the last one that was acted on.    *)
NoneBefore(w, n) == \A i \in 1 .. Len(w) : Ending(w, i) => n <= w[i].frame
Line(w, s, n) == w \in Seq(Bytes) /\ Genuine(w, s) /\ Ordered(w) /\ NoneBefore(w, n)

(* What the parser has told apart is what stands in its buffer.            *)
Parsed(c) ==
    /\ c \in [status : {"IDLE", "L0", "REST", "LEN", "DATA", "SUM"}, seq : {c.seq},
              dst : {c.dst}, kind : {c.kind}, len : {c.len},
              data : Seq(Values), buffer : Seq(Values)]
    /\ c.status = "IDLE" => c.buffer = <<>>
    /\ c.status = "L0" => Len(c.buffer) = 1
    /\ c.status = "REST" => Len(c.buffer) = 2
    /\ c.status = "LEN" => Len(c.buffer) = 3
    /\ c.status \in {"IDLE", "L0", "REST", "LEN"} => c.data = <<>>
    /\ c.status \in {"REST", "LEN", "DATA", "SUM"} =>
         c.seq = SeqField(c.buffer[2]) /\ c.dst = DstOf(c.buffer[2])
    /\ c.status \in {"LEN", "DATA", "SUM"} => c.kind = KindOf(c.buffer[3])
    /\ c.status \in {"LEN", "DATA"} => c.kind \notin Bare
    /\ c.status \in {"DATA", "SUM"} =>
         IF c.kind \in Bare THEN Len(c.buffer) = 3 /\ c.data = <<>>
         ELSE /\ Len(c.buffer) = 4 + Len(c.data)
              /\ \A i \in 1 .. Len(c.data) : c.buffer[4 + i] = c.data[i]

(* Half a frame has another SEQ than the last frame acted on.              *)
Unrepeated(c, seq) == c.status \in {"REST", "LEN", "DATA", "SUM"} => c.seq # seq

LastNumber == IF acted = <<>> THEN 0 ELSE acted[Len(acted)].number

IInv ==
    /\ sent \in Seq(Frames) /\ acted \in Seq(Acts)
    /\ Line(wire, sent, LastNumber)
    /\ Parsed(ctx) /\ Unrepeated(ctx, lastSeq)
    /\ acted # <<>> => lastSeq = acted[Len(acted)].seq
    /\ ActsExactly
-----------------------------------------------------------------------------
(* The line.                                                               *)

(* Bytes that are lost, altered or read leave the others in their order.   *)
LEMMA PartOfLine ==
    ASSUME NEW w, NEW s, NEW n, Line(w, s, n), NEW v \in Seq(Bytes),
           NEW place \in [1 .. Len(v) -> 1 .. Len(w)],
           \A i, j \in 1 .. Len(v) : i < j => place[i] < place[j],
           \A i \in 1 .. Len(v) : Ending(v, i) => v[i] = w[place[i]]
    PROVE  Line(v, s, n)
<1>. \A i \in 1 .. Len(v) : Ending(v, i) => Ending(w, place[i])
  BY DEF Ending
<1>1. Genuine(v, s)
  BY DEF Line, Genuine
<1>2. Ordered(v)
  <2>. SUFFICES ASSUME NEW i \in 1 .. Len(v), NEW j \in 1 .. Len(v), i < j,
                       Ending(v, i), Ending(v, j)
                PROVE  v[i].frame <= v[j].frame
    BY DEF Ordered
  <2>1. place[i] < place[j]
    OBVIOUS
  <2>. QED BY <2>1 DEF Line, Ordered
<1>3. NoneBefore(v, n)
  BY DEF Line, NoneBefore
<1>. QED BY <1>1, <1>2, <1>3 DEF Line

LEMMA RestOfLine ==
    ASSUME NEW w, NEW s, NEW n, Line(w, s, n), NEW k \in Nat
    PROVE  Line(SubSeq(w, k + 1, Len(w)), s, n)
<1>. DEFINE v == SubSeq(w, k + 1, Len(w))
            place == [i \in 1 .. Len(v) |-> k + i]
<1>1. w \in Seq(Bytes)
  BY DEF Line
<1>2. /\ v \in Seq(Bytes) /\ Len(v) = (IF k < Len(w) THEN Len(w) - k ELSE 0)
      /\ \A i \in 1 .. Len(v) : v[i] = w[k + i]
  BY <1>1
<1>. HIDE DEF v
<1>3. /\ place \in [1 .. Len(v) -> 1 .. Len(w)]
      /\ \A i, j \in 1 .. Len(v) : i < j => place[i] < place[j]
      /\ \A i \in 1 .. Len(v) : v[i] = w[place[i]]
  BY <1>1, <1>2
<1>. HIDE DEF place
<1>4. /\ v \in Seq(Bytes) /\ place \in [1 .. Len(v) -> 1 .. Len(w)]
      /\ \A i, j \in 1 .. Len(v) : i < j => place[i] < place[j]
      /\ \A i \in 1 .. Len(v) : Ending(v, i) => v[i] = w[place[i]]
  BY <1>2, <1>3, Zenon
<1>5. Line(v, s, n)
  BY <1>4, PartOfLine, Zenon
<1>. QED BY <1>5 DEF v

LEMMA LineWithout ==
    ASSUME NEW w, NEW s, NEW n, Line(w, s, n), NEW k \in 1 .. Len(w)
    PROVE  Line(RemoveAt(w, k), s, n)
<1>. DEFINE v == RemoveAt(w, k)
            place == [i \in 1 .. Len(v) |-> IF i < k THEN i ELSE i + 1]
<1>1. w \in Seq(Bytes)
  BY DEF Line
<1>2. /\ v \in Seq(Bytes) /\ Len(v) = Len(w) - 1
      /\ \A i \in 1 .. Len(v) : v[i] = w[IF i < k THEN i ELSE i + 1]
  <2>. DEFINE a == SubSeq(w, 1, k - 1)
              b == SubSeq(w, k + 1, Len(w))
  <2>1. a \in Seq(Bytes) /\ Len(a) = k - 1 /\ \A i \in 1 .. k - 1 : a[i] = w[i]
    BY <1>1
  <2>2. b \in Seq(Bytes) /\ Len(b) = Len(w) - k /\ \A i \in 1 .. Len(b) : b[i] = w[k + i]
    BY <1>1
  <2>3. v = a \o b
    BY DEF RemoveAt
  <2>. HIDE DEF a, b, v
  <2>4. v \in Seq(Bytes) /\ Len(v) = Len(w) - 1
    BY <1>1, <2>1, <2>2, <2>3
  <2>5. ASSUME NEW i \in 1 .. Len(v) PROVE v[i] = w[IF i < k THEN i ELSE i + 1]
    <3>1. CASE i < k
      BY <1>1, <2>1, <2>2, <2>3, <2>4, <3>1
    <3>2. CASE i >= k
      <4>1. i - (k - 1) \in 1 .. Len(b) /\ i \in 1 .. Len(a) + Len(b)
        BY <1>1, <2>1, <2>2, <2>4, <3>2
      <4>3. v[i] = b[i - Len(a)]
        <5>1. i \in 1 .. Len(a) + Len(b) /\ ~(i <= Len(a))
          BY <2>1, <3>2, <4>1
        <5>. QED BY <2>1, <2>2, <2>3, <5>1, ConcatProperties, Zenon
      <4>2. k + (i - (k - 1)) = i + 1
        BY <1>1, <2>4
      <4>. QED BY <2>1, <2>2, <3>2, <4>1, <4>2, <4>3
    <3>. QED BY <1>1, <2>4, <3>1, <3>2
  <2>. QED BY <2>4, <2>5
<1>. HIDE DEF v
<1>3. /\ place \in [1 .. Len(v) -> 1 .. Len(w)]
      /\ \A i, j \in 1 .. Len(v) : i < j => place[i] < place[j]
      /\ \A i \in 1 .. Len(v) : v[i] = w[place[i]]
  BY <1>1, <1>2
<1>. HIDE DEF place
<1>4. /\ v \in Seq(Bytes) /\ place \in [1 .. Len(v) -> 1 .. Len(w)]
      /\ \A i, j \in 1 .. Len(v) : i < j => place[i] < place[j]
      /\ \A i \in 1 .. Len(v) : Ending(v, i) => v[i] = w[place[i]]
  BY <1>2, <1>3, Zenon
<1>5. Line(v, s, n)
  BY <1>4, PartOfLine, Zenon
<1>. QED BY <1>5 DEF v

LEMMA LineAltered ==
    ASSUME NEW w, NEW s, NEW n, Line(w, s, n), NEW k \in 1 .. Len(w), NEW value \in Noise
    PROVE  Line([w EXCEPT ![k] = Plain(value)], s, n)
<1>. DEFINE v == [w EXCEPT ![k] = Plain(value)]
            place == [i \in 1 .. Len(v) |-> i]
<1>1. w \in Seq(Bytes)
  BY DEF Line
<1>2. Plain(value) \in Bytes /\ Plain(value).sum = <<>>
  <2>1. value \in Values
    BY CommAssumption DEF CommAssumption, Values
  <2>. QED BY <2>1 DEF Plain, Bytes
<1>3. /\ v \in Seq(Bytes) /\ Len(v) = Len(w)
      /\ \A i \in 1 .. Len(v) : Ending(v, i) => v[i] = w[i]
  BY <1>1, <1>2 DEF Ending
<1>. HIDE DEF v
<1>4. /\ place \in [1 .. Len(v) -> 1 .. Len(w)]
      /\ \A i, j \in 1 .. Len(v) : i < j => place[i] < place[j]
      /\ \A i \in 1 .. Len(v) : Ending(v, i) => v[i] = w[place[i]]
  BY <1>1, <1>3
<1>. HIDE DEF place
<1>5. Line(v, s, n)
  BY <1>3, <1>4, PartOfLine
<1>. QED BY <1>5 DEF v

LEMMA HeadOfLine ==
    ASSUME NEW w, NEW s, NEW n \in Nat, Line(w, s, n), w # <<>>
    PROVE  /\ Head(w) \in Bytes
           /\ Line(Tail(w), s, n)
           /\ Head(w).sum # <<>> =>
                /\ Head(w).frame \in 1 .. Len(s) /\ Head(w).sum = Encoded(s[Head(w).frame])
                /\ n <= Head(w).frame
                /\ Line(Tail(w), s, Head(w).frame)
<1>1. w \in Seq(Bytes) /\ 1 \in 1 .. Len(w) /\ Head(w) = w[1] /\ w[1] \in Bytes
  BY DEF Line
<1>2. Tail(w) = SubSeq(w, 1 + 1, Len(w))
  BY <1>1, TailIsSubSeq
<1>3. Line(Tail(w), s, n)
  BY <1>2, RestOfLine
<1>4. ASSUME Ending(w, 1)
      PROVE  NoneBefore(Tail(w), w[1].frame)
  <2>1. /\ Tail(w) \in Seq(Bytes) /\ Len(Tail(w)) = Len(w) - 1
        /\ \A i \in 1 .. Len(w) - 1 : Tail(w)[i] = w[i + 1]
    BY <1>1
  <2>2. ASSUME NEW i \in 1 .. Len(Tail(w)), Ending(Tail(w), i)
        PROVE  w[1].frame <= Tail(w)[i].frame
    <3>1. i + 1 \in 1 .. Len(w) /\ 1 < i + 1 /\ Tail(w)[i] = w[i + 1]
      BY <1>1, <2>1
    <3>2. Ending(w, i + 1)
      BY <2>2, <3>1 DEF Ending
    <3>. QED BY <1>1, <1>4, <3>1, <3>2 DEF Line, Ordered
  <2>. QED BY <2>2 DEF NoneBefore
<1>5. Ending(w, 1) => w[1].frame \in 1 .. Len(s) /\ w[1].sum = Encoded(s[w[1].frame])
                        /\ n <= w[1].frame
  BY <1>1 DEF Line, Genuine, NoneBefore
<1>6. Ending(w, 1) => Line(Tail(w), s, w[1].frame)
  BY <1>3, <1>4 DEF Line
<1>. QED BY <1>1, <1>3, <1>5, <1>6 DEF Ending

LEMMA FramedFacts ==
    ASSUME NEW f \in Frames, NEW k \in Nat
    PROVE  LET v == Framed(f, k)
           IN  /\ v \in Seq(Bytes)
               /\ \A i \in 1 .. Len(v) : Ending(v, i) => i = Len(v) /\ v[i].frame = k
                                                           /\ v[i].sum = Encoded(f)
<1>. DEFINE e == Encoded(f)
            a == [i \in 1 .. Len(e) |-> Plain(e[i])]
            last == [value |-> Checksum(e), sum |-> e, frame |-> k]
            v == Framed(f, k)
<1>1. e \in Seq(Values)
  BY EncodedFacts
<1>2. Checksum(e) \in Values
  BY DEF Values
<1>3. v = a \o <<last>>
  BY DEF Framed
<1>4. last \in Bytes /\ last.frame = k /\ last.sum = e
  <2>. HIDE DEF e
  <2>. QED BY <1>1, <1>2 DEF Bytes
<1>. HIDE DEF e
<1>5. a \in Seq(Bytes) /\ Len(a) = Len(e) /\ \A i \in 1 .. Len(e) : a[i].sum = <<>>
  <2>1. ASSUME NEW i \in 1 .. Len(e) PROVE Plain(e[i]) \in Bytes /\ Plain(e[i]).sum = <<>>
    BY <1>1 DEF Plain, Bytes
  <2>2. Len(e) \in Nat
    BY <1>1
  <2>3. a \in [1 .. Len(e) -> Bytes]
    BY <2>1
  <2>. QED BY <2>1, <2>2, <2>3
<1>. HIDE DEF a, last, v
<1>6. /\ v \in Seq(Bytes) /\ Len(v) = Len(a) + 1 /\ v[Len(v)] = last
      /\ \A i \in 1 .. Len(a) : v[i] = a[i]
  BY <1>3, <1>4, <1>5
<1>7. ASSUME NEW i \in 1 .. Len(v), Ending(v, i) PROVE i = Len(v)
  <2>1. i \in 1 .. Len(a) => v[i].sum = <<>>
    BY <1>5, <1>6
  <2>. QED BY <1>5, <1>6, <1>7, <2>1 DEF Ending
<1>. QED BY <1>4, <1>6, <1>7 DEF e, v

(* The host adds its newest frame, or the same once more, at the end.      *)
LEMMA LineExtended ==
    ASSUME NEW w, NEW s \in Seq(Frames), NEW n, Line(w, s, n), s # <<>>,
           n \in Nat, n <= Len(s)
    PROVE  Line(w \o Framed(s[Len(s)], Len(s)), s, n)
<1>. DEFINE k == Len(s)
            v == Framed(s[k], k)
            u == w \o v
<1>1. k \in Nat /\ k \in 1 .. Len(s) /\ s[k] \in Frames
  BY LenProperties
<1>2. /\ v \in Seq(Bytes)
      /\ \A i \in 1 .. Len(v) : Ending(v, i) => i = Len(v) /\ v[i].frame = k
                                                  /\ v[i].sum = Encoded(s[k])
  BY <1>1, FramedFacts
<1>3. w \in Seq(Bytes)
  BY DEF Line
<1>. HIDE DEF v
<1>4. /\ u \in Seq(Bytes) /\ Len(u) = Len(w) + Len(v)
      /\ \A i \in 1 .. Len(u) : u[i] = IF i <= Len(w) THEN w[i] ELSE v[i - Len(w)]
  BY <1>2, <1>3, ConcatProperties
<1>. HIDE DEF u
<1>5. Len(w) \in Nat /\ Len(v) \in Nat
  BY <1>2, <1>3
<1>6. ASSUME NEW i \in 1 .. Len(u), Ending(u, i)
      PROVE  \/ i \in 1 .. Len(w) /\ Ending(w, i) /\ u[i] = w[i]
             \/ i = Len(u) /\ ~(i <= Len(w)) /\ u[i].frame = k /\ u[i].sum = Encoded(s[k])
  <2>1. CASE i <= Len(w)
    BY <1>4, <1>5, <1>6, <2>1 DEF Ending
  <2>2. CASE ~(i <= Len(w))
    <3>1. i - Len(w) \in 1 .. Len(v) /\ u[i] = v[i - Len(w)]
      BY <1>4, <1>5, <2>2
    <3>2. Ending(v, i - Len(w))
      BY <1>6, <3>1 DEF Ending
    <3>3. i - Len(w) = Len(v) /\ u[i].frame = k /\ u[i].sum = Encoded(s[k])
      BY <1>2, <3>1, <3>2
    <3>. QED BY <1>4, <1>5, <2>2, <3>3
  <2>. QED BY <2>1, <2>2
<1>7. Genuine(u, s)
  BY <1>1, <1>6 DEF Line, Genuine
<1>8. NoneBefore(u, n)
  BY <1>6 DEF Line, NoneBefore
<1>9. Ordered(u)
  <2>. SUFFICES ASSUME NEW i \in 1 .. Len(u), NEW j \in 1 .. Len(u), i < j,
                       Ending(u, i), Ending(u, j)
                PROVE  u[i].frame <= u[j].frame
    BY DEF Ordered
  <2>1. i \in 1 .. Len(w) /\ Ending(w, i) /\ u[i] = w[i]
    BY <1>4, <1>5, <1>6
  <2>2. CASE j \in 1 .. Len(w) /\ Ending(w, j) /\ u[j] = w[j]
    BY <2>1, <2>2 DEF Line, Ordered
  <2>3. CASE u[j].frame = k
    BY <2>1, <2>3 DEF Line, Genuine
  <2>. QED BY <1>6, <2>2, <2>3
<1>. QED BY <1>4, <1>7, <1>8, <1>9 DEF Line, u, v

LEMMA LineOfMore ==
    ASSUME NEW w, NEW s \in Seq(Frames), NEW n, Line(w, s, n), NEW f \in Frames
    PROVE  Line(w, Append(s, f), n)
<1>1. /\ Len(Append(s, f)) = Len(s) + 1
      /\ \A i \in 1 .. Len(s) : Append(s, f)[i] = s[i]
  BY AppendProperties
<1>2. Len(s) \in Nat
  OBVIOUS
<1>3. Genuine(w, Append(s, f))
  BY <1>1, <1>2 DEF Line, Genuine
<1>. QED BY <1>3 DEF Line
-----------------------------------------------------------------------------
(* The parser.                                                             *)

LEMMA IdleParsed == \A seq : Parsed(IdleCtx) /\ Unrepeated(IdleCtx, seq)
  BY DEF Parsed, Unrepeated, IdleCtx

LEMMA AwakeParsed ==
    ASSUME Parsed(ctx), Unrepeated(ctx, lastSeq)
    PROVE  Parsed(Awake) /\ Unrepeated(Awake, lastSeq)
  BY IdleParsed DEF Awake

LEMMA BufferGrows ==
    ASSUME NEW buffer \in Seq(Values), NEW x \in Values, NEW n \in Nat, Len(buffer) = n - 1
    PROVE  /\ Append(buffer, x) \in Seq(Values) /\ Len(Append(buffer, x)) = n
           /\ Append(buffer, x)[n] = x
           /\ \A i \in 1 .. n - 1 : Append(buffer, x)[i] = buffer[i]
  BY AppendProperties

LEMMA Joined ==
    ASSUME NEW s \in Seq(Values), NEW t \in Seq(Values)
    PROVE  /\ s \o t \in Seq(Values) /\ Len(s \o t) = Len(s) + Len(t)
           /\ Len(s) \in Nat /\ Len(t) \in Nat
           /\ \A i \in 1 .. Len(s \o t) :
                (s \o t)[i] = IF i <= Len(s) THEN s[i] ELSE t[i - Len(s)]
  BY ConcatProperties

(* The bytes of a payload go to its end and to the end of the buffer.      *)
LEMMA StoredFacts ==
    ASSUME NEW now, Parsed(now), now.status = "DATA", NEW bytes \in Seq(Bytes),
           NEW seq, Unrepeated(now, seq)
    PROVE  Parsed(Stored(now, bytes)) /\ Unrepeated(Stored(now, bytes), seq)
<1>. DEFINE values == [i \in DOMAIN bytes |-> bytes[i].value]
            next == Stored(now, bytes)
            left == now.len - Len(bytes)
<1>1. values \in Seq(Values) /\ Len(values) = Len(bytes)
  <2>1. DOMAIN bytes = 1 .. Len(bytes) /\ Len(bytes) \in Nat
    OBVIOUS
  <2>2. \A i \in 1 .. Len(bytes) : bytes[i].value \in Values
    <3>1. \A i \in 1 .. Len(bytes) : bytes[i] \in Bytes
      OBVIOUS
    <3>2. \A b \in Bytes : b.value \in Values
      BY DEF Bytes
    <3>. QED BY <3>1, <3>2, Zenon
  <2>3. values \in [1 .. Len(bytes) -> Values]
    BY <2>1, <2>2
  <2>. QED BY <2>1, <2>3
<1>. HIDE DEF values
<1>2. /\ now \in [status : {"DATA"}, seq : {now.seq}, dst : {now.dst}, kind : {now.kind},
                  len : {now.len}, data : Seq(Values), buffer : Seq(Values)]
      /\ now.buffer \in Seq(Values) /\ now.data \in Seq(Values)
      /\ now.seq = SeqField(now.buffer[2]) /\ now.dst = DstOf(now.buffer[2])
      /\ now.kind = KindOf(now.buffer[3]) /\ now.kind \notin Bare
      /\ Len(now.buffer) = 4 + Len(now.data)
      /\ \A i \in 1 .. Len(now.data) : now.buffer[4 + i] = now.data[i]
      /\ now.seq # seq
  BY DEF Parsed, Unrepeated
<1>0. now.buffer \in Seq(Values) /\ now.data \in Seq(Values)
      /\ Len(now.buffer) = 4 + Len(now.data)
  BY <1>2, Zenon
<1>3. next \in [status : {IF left = 0 THEN "SUM" ELSE "DATA"}, seq : {now.seq}, dst : {now.dst},
              kind : {now.kind}, len : {left}, data : {now.data \o values},
              buffer : {now.buffer \o values}]
  BY <1>2 DEF Stored, values
<1>. DEFINE data == now.data \o values
            buffer == now.buffer \o values
<1>4. /\ data \in Seq(Values) /\ Len(data) = Len(now.data) + Len(values)
      /\ \A i \in 1 .. Len(data) :
           data[i] = IF i <= Len(now.data) THEN now.data[i] ELSE values[i - Len(now.data)]
  BY <1>0, <1>1, Joined, Zenon
<1>5. /\ buffer \in Seq(Values) /\ Len(buffer) = Len(now.buffer) + Len(values)
      /\ \A i \in 1 .. Len(buffer) :
           buffer[i] = IF i <= Len(now.buffer) THEN now.buffer[i]
                       ELSE values[i - Len(now.buffer)]
  BY <1>0, <1>1, Joined, Zenon
<1>. HIDE DEF data, buffer
<1>6. Len(now.data) \in Nat /\ Len(values) \in Nat
  BY <1>0, <1>1, Joined, Zenon
<1>7. Len(buffer) = 4 + Len(data) /\ buffer[2] = now.buffer[2] /\ buffer[3] = now.buffer[3]
  <2>1. Len(buffer) = 4 + Len(data)
    BY <1>0, <1>4, <1>5, <1>6
  <2>2. 2 \in 1 .. Len(buffer) /\ 2 <= Len(now.buffer)
        /\ 3 \in 1 .. Len(buffer) /\ 3 <= Len(now.buffer)
    BY <1>0, <1>4, <1>6, <2>1
  <2>. QED BY <1>5, <2>1, <2>2, Zenon
<1>8. ASSUME NEW i \in 1 .. Len(data) PROVE buffer[4 + i] = data[i]
  <2>1. 4 + i \in 1 .. Len(buffer)
    BY <1>4, <1>6, <1>7
  <2>2. CASE i <= Len(now.data)
    <3>1. 4 + i <= Len(now.buffer) /\ i \in 1 .. Len(now.data)
      BY <1>0, <1>4, <1>6, <2>2
    <3>2. buffer[4 + i] = now.buffer[4 + i] /\ data[i] = now.data[i]
      BY <1>4, <1>5, <2>1, <2>2, <3>1, Zenon
    <3>. QED BY <1>2, <3>1, <3>2, Zenon
  <2>3. CASE ~(i <= Len(now.data))
    <3>1. ~(4 + i <= Len(now.buffer)) /\ (4 + i) - Len(now.buffer) = i - Len(now.data)
      BY <1>0, <1>4, <1>6, <2>3
    <3>2. buffer[4 + i] = values[(4 + i) - Len(now.buffer)] /\ data[i] = values[i - Len(now.data)]
      BY <1>4, <1>5, <2>1, <2>3, <3>1, Zenon
    <3>. QED BY <3>1, <3>2, Zenon
  <2>. QED BY <2>2, <2>3
<1>9. /\ next.status \in {"DATA", "SUM"} /\ next.seq = now.seq /\ next.dst = now.dst
      /\ next.kind = now.kind /\ next.data = data /\ next.buffer = buffer
      /\ next \in [status : {"DATA", "SUM"}, seq : {next.seq}, dst : {next.dst},
                   kind : {next.kind}, len : {next.len}, data : {data}, buffer : {buffer}]
  BY <1>3 DEF data, buffer
<1>. HIDE DEF next
<1>10. next \in [status : {"IDLE", "L0", "REST", "LEN", "DATA", "SUM"}, seq : {next.seq},
                 dst : {next.dst}, kind : {next.kind}, len : {next.len},
                 data : Seq(Values), buffer : Seq(Values)]
  BY <1>4, <1>5, <1>9
<1>11. Len(next.buffer) = 4 + Len(next.data)
       /\ \A i \in 1 .. Len(next.data) : next.buffer[4 + i] = next.data[i]
  BY <1>7, <1>8, <1>9, Zenon
<1>12. /\ next.seq = SeqField(next.buffer[2]) /\ next.dst = DstOf(next.buffer[2])
       /\ next.kind = KindOf(next.buffer[3]) /\ next.kind \notin Bare
  BY <1>2, <1>7, <1>9, Zenon
<1>13. Parsed(next)
  BY <1>9, <1>10, <1>11, <1>12 DEF Parsed
<1>14. Unrepeated(next, seq)
  BY <1>2, <1>9 DEF Unrepeated
<1>. QED BY <1>13, <1>14 DEF next

LEMMA StartStep ==
    ASSUME NEW now, NEW b \in Bytes, Parsed(now), Start(now, b)
    PROVE  Parsed(ctx') /\ Unrepeated(ctx', lastSeq) /\ UNCHANGED <<lastSeq, acted>>
<1>1. b.value \in Values /\ now.status = "IDLE" /\ now.buffer = <<>>
  BY DEF Bytes, Start, Parsed
<1>2. CASE b.value = SOP
  <2>1. ctx' = [now EXCEPT !.buffer = Append(now.buffer, b.value), !.status = "L0"]
    BY <1>2 DEF Start, Goes, Take
  <2>2. Append(now.buffer, b.value) \in Seq(Values) /\ Len(Append(now.buffer, b.value)) = 1
    <3>1. now.buffer \in Seq(Values) /\ b.value \in Values /\ Len(now.buffer) = 1 - 1 /\ 1 \in Nat
      BY <1>1, EmptySeq
    <3>. QED BY <3>1, BufferGrows
  <2>. QED BY <1>1, <1>2, <2>1, <2>2 DEF Parsed, Unrepeated, Start, Goes
<1>3. CASE b.value # SOP
  BY <1>1, <1>3 DEF Start, Goes, Parsed, Unrepeated
<1>. QED BY <1>2, <1>3

LEMMA ResetStep ==
    ASSUME Reset
    PROVE  Parsed(ctx') /\ Unrepeated(ctx', lastSeq) /\ UNCHANGED <<lastSeq, acted>>
  BY IdleParsed DEF Reset

LEMMA HeaderStep ==
    ASSUME NEW now, NEW b \in Bytes, Parsed(now), Header(now, b)
    PROVE  Parsed(ctx') /\ Unrepeated(ctx', lastSeq) /\ UNCHANGED <<lastSeq, acted>>
<1>. DEFINE seq == SeqField(b.value)
            dst == DstOf(b.value)
            next == [Take(now, b, "REST") EXCEPT !.seq = seq, !.dst = dst]
            buffer == Append(now.buffer, b.value)
<1>1. b.value \in Values /\ now.status = "L0" /\ now.buffer \in Seq(Values) /\ Len(now.buffer) = 1
  BY DEF Bytes, Header, Parsed
<1>2. CASE NewSeq(seq) /\ dst # "foreign"
  <2>1. ctx' = next /\ UNCHANGED <<lastSeq, acted>>
    BY <1>2 DEF Header, Goes
  <2>2. buffer \in Seq(Values) /\ Len(buffer) = 2 /\ buffer[2] = b.value
    <3>1. Len(now.buffer) = 2 - 1 /\ 2 \in Nat
      BY <1>1
    <3>2. now.buffer \in Seq(Values) /\ b.value \in Values
      BY <1>1
    <3>. HIDE DEF next
    <3>. QED BY <3>1, <3>2, BufferGrows
  <2>3. next \in [status : {"REST"}, seq : {seq}, dst : {dst}, kind : {now.kind}, len : {now.len},
                data : {now.data}, buffer : {buffer}]
    BY DEF Take, Parsed
  <2>. HIDE DEF next, buffer
  <2>4. now.data = <<>> /\ now.data \in Seq(Values)
    BY <1>1 DEF Parsed
  <2>5. Parsed(next)
    BY <2>2, <2>3, <2>4 DEF Parsed
  <2>6. Unrepeated(next, lastSeq)
    BY <1>2, <2>3 DEF Unrepeated, NewSeq
  <2>. QED BY <2>1, <2>5, <2>6
<1>3. CASE ~(NewSeq(seq) /\ dst # "foreign")
  BY <1>3, ResetStep DEF Header
<1>. QED BY <1>2, <1>3

LEMMA RestStep ==
    ASSUME NEW now, NEW b \in Bytes, Parsed(now), Unrepeated(now, lastSeq), Rest(now, b)
    PROVE  Parsed(ctx') /\ Unrepeated(ctx', lastSeq) /\ UNCHANGED <<lastSeq, acted>>
<1>. DEFINE kind == KindOf(b.value)
            status == IF kind \in Bare THEN "SUM" ELSE "LEN"
            next == [Take(now, b, status) EXCEPT !.kind = kind]
            buffer == Append(now.buffer, b.value)
<1>1. /\ b.value \in Values /\ now.status = "REST" /\ now.buffer \in Seq(Values)
      /\ Len(now.buffer) = 2 /\ now.data = <<>> /\ now.data \in Seq(Values)
      /\ now.seq = SeqField(now.buffer[2]) /\ now.dst = DstOf(now.buffer[2])
      /\ now.seq # lastSeq
  BY DEF Bytes, Rest, Parsed, Unrepeated
<1>2. CASE ~HeaderRefused(kind, now.dst)
  <2>1. ctx' = next /\ UNCHANGED <<lastSeq, acted>>
    BY <1>2 DEF Rest, Goes
  <2>2. buffer \in Seq(Values) /\ Len(buffer) = 3 /\ buffer[3] = b.value
        /\ buffer[2] = now.buffer[2]
    <3>1. now.buffer \in Seq(Values) /\ b.value \in Values
      BY <1>1
    <3>2. Len(now.buffer) = 3 - 1 /\ 3 \in Nat /\ 2 \in 1 .. 3 - 1
      BY <1>1
    <3>. HIDE DEF next, status, kind
    <3>. QED BY <3>1, <3>2, BufferGrows
  <2>3. next \in [status : {status}, seq : {now.seq}, dst : {now.dst}, kind : {kind},
                len : {now.len}, data : {now.data}, buffer : {buffer}]
    BY DEF Take, Parsed
  <2>. HIDE DEF next, buffer
  <2>4. Parsed(next) /\ Unrepeated(next, lastSeq)
    BY <1>1, <2>2, <2>3 DEF Parsed, Unrepeated
  <2>. QED BY <2>1, <2>4
<1>3. CASE HeaderRefused(kind, now.dst)
  BY <1>3, ResetStep DEF Rest
<1>. QED BY <1>2, <1>3

LEMMA LengthStep ==
    ASSUME NEW now, NEW b \in Bytes, Parsed(now), Unrepeated(now, lastSeq), Length(now, b)
    PROVE  Parsed(ctx') /\ Unrepeated(ctx', lastSeq) /\ UNCHANGED <<lastSeq, acted>>
<1>. DEFINE next == [Take(now, b, "DATA") EXCEPT !.len = LenOf(b.value)]
            buffer == Append(now.buffer, b.value)
<1>1. /\ b.value \in Values /\ now.status = "LEN" /\ now.buffer \in Seq(Values)
      /\ Len(now.buffer) = 3 /\ now.data = <<>> /\ now.data \in Seq(Values)
      /\ now.seq = SeqField(now.buffer[2]) /\ now.dst = DstOf(now.buffer[2])
      /\ now.kind = KindOf(now.buffer[3]) /\ now.kind \notin Bare
      /\ now.seq # lastSeq
  BY DEF Bytes, Length, Parsed, Unrepeated
<1>2. ctx' = next /\ UNCHANGED <<lastSeq, acted>>
  BY DEF Length, Goes
<1>3. /\ buffer \in Seq(Values) /\ Len(buffer) = 4
      /\ buffer[2] = now.buffer[2] /\ buffer[3] = now.buffer[3]
  <2>1. now.buffer \in Seq(Values) /\ b.value \in Values
    BY <1>1
  <2>2. Len(now.buffer) = 4 - 1 /\ 4 \in Nat /\ 2 \in 1 .. 4 - 1 /\ 3 \in 1 .. 4 - 1
    BY <1>1
  <2>. HIDE DEF next
  <2>. QED BY <2>1, <2>2, BufferGrows
<1>4. next \in [status : {"DATA"}, seq : {now.seq}, dst : {now.dst}, kind : {now.kind},
              len : {LenOf(b.value)}, data : {now.data}, buffer : {buffer}]
  BY DEF Take, Parsed
<1>. HIDE DEF next, buffer
<1>5. next.buffer = buffer /\ next.data = <<>> /\ Len(next.buffer) = 4 + Len(next.data)
      /\ 1 .. Len(next.data) = {}
  <2>1. next.buffer = buffer /\ next.data = <<>>
    BY <1>1, <1>4
  <2>. QED BY <1>3, <2>1
<1>6. Parsed(next) /\ Unrepeated(next, lastSeq)
  BY <1>1, <1>3, <1>4, <1>5 DEF Parsed, Unrepeated
<1>. QED BY <1>2, <1>6

LEMMA DataStep ==
    ASSUME NEW now, NEW b \in Bytes, Parsed(now), Unrepeated(now, lastSeq), Data(now, b)
    PROVE  Parsed(ctx') /\ Unrepeated(ctx', lastSeq) /\ UNCHANGED <<lastSeq, acted>>
<1>1. <<b>> \in Seq(Bytes)
  OBVIOUS
<1>. QED BY <1>1, StoredFacts DEF Data, Goes

(* A frame that ends with its own sum has been read as it was sent.        *)
LEMMA ReadExactly ==
    ASSUME NEW now, Parsed(now), now.status = "SUM", NEW f \in Frames,
           now.buffer = Encoded(f)
    PROVE  now.seq = f.seq /\ now.dst = f.dst /\ now.kind = f.kind /\ now.data = f.data
<1>. DEFINE e == Encoded(f)
<1>1. /\ SeqField(e[2]) = f.seq /\ DstOf(e[2]) = f.dst /\ KindOf(e[3]) = f.kind
      /\ IF f.kind \in Bare THEN Len(e) = 3 /\ f.data = <<>>
         ELSE /\ Len(e) = 4 + Len(f.data)
              /\ \A i \in 1 .. Len(f.data) : e[4 + i] = f.data[i]
      /\ f.data \in Seq(Values)
  BY EncodedFacts
<1>2. /\ now.seq = SeqField(e[2]) /\ now.dst = DstOf(e[2]) /\ now.kind = KindOf(e[3])
      /\ IF now.kind \in Bare THEN Len(e) = 3 /\ now.data = <<>>
         ELSE /\ Len(e) = 4 + Len(now.data)
              /\ \A i \in 1 .. Len(now.data) : e[4 + i] = now.data[i]
      /\ now.data \in Seq(Values)
  BY DEF Parsed
<1>. HIDE DEF e
<1>3. now.seq = f.seq /\ now.dst = f.dst /\ now.kind = f.kind
  BY <1>1, <1>2
<1>4. CASE f.kind \in Bare
  BY <1>1, <1>2, <1>3, <1>4
<1>5. CASE f.kind \notin Bare
  <2>1. Len(now.data) = Len(f.data)
    BY <1>1, <1>2, <1>3, <1>5
  <2>2. \A i \in 1 .. Len(f.data) : now.data[i] = f.data[i]
    BY <1>1, <1>2, <1>3, <1>5, <2>1, Zenon
  <2>. QED BY <1>1, <1>2, <1>3, <2>1, <2>2, SeqEqual
<1>. QED BY <1>3, <1>4, <1>5
-----------------------------------------------------------------------------
(* The steps.                                                              *)

LEMMA LastFacts ==
    ASSUME IInv
    PROVE  /\ LastNumber \in Nat /\ LastNumber <= Len(sent)
           /\ acted # <<>> => /\ Len(acted) \in 1 .. Len(acted)
                              /\ LastNumber \in 1 .. Len(sent)
                              /\ lastSeq = sent[LastNumber].seq
<1>1. sent \in Seq(Frames) /\ acted \in Seq(Acts) /\ ActsExactly
      /\ (acted # <<>> => lastSeq = acted[Len(acted)].seq)
  BY DEF IInv
<1>2. CASE acted = <<>>
  BY <1>1, <1>2 DEF LastNumber
<1>3. CASE acted # <<>>
  <2>1. Len(acted) \in 1 .. Len(acted) /\ DOMAIN acted = 1 .. Len(acted)
        /\ DOMAIN sent = 1 .. Len(sent) /\ Len(sent) \in Nat
    BY <1>1, <1>3
  <2>2. acted[Len(acted)].number \in 1 .. Len(sent)
        /\ acted[Len(acted)].seq = sent[acted[Len(acted)].number].seq
    BY <1>1, <2>1 DEF ActsExactly
  <2>. QED BY <1>1, <1>3, <2>1, <2>2 DEF LastNumber
<1>. QED BY <1>2, <1>3

(* A step that acts on nothing, whatever the host sends meanwhile.         *)
LEMMA NothingActed ==
    ASSUME IInv, UNCHANGED <<lastSeq, acted>>,
           Parsed(ctx'), Unrepeated(ctx', lastSeq),
           sent' \in Seq(Frames), Len(sent) <= Len(sent'),
           \A i \in 1 .. Len(sent) : sent'[i] = sent[i],
           Line(wire', sent', LastNumber)
    PROVE  IInv'
<1>1. LastNumber' = LastNumber
  BY DEF LastNumber
<1>2. sent \in Seq(Frames) /\ ActsExactly
  BY DEF IInv
<1>3. DOMAIN sent = 1 .. Len(sent) /\ DOMAIN sent' = 1 .. Len(sent') /\ Len(sent) \in Nat
      /\ Len(sent') \in Nat
  BY <1>2
<1>4. \A n \in DOMAIN sent : n \in DOMAIN sent' /\ sent'[n] = sent[n]
  BY <1>3
<1>5. ActsExactly'
  <2>1. ASSUME NEW i \in DOMAIN acted
        PROVE  acted[i].number \in DOMAIN sent' /\ sent'[acted[i].number] = sent[acted[i].number]
    BY <1>2, <1>4 DEF ActsExactly
  <2>. QED BY <1>2, <2>1 DEF ActsExactly
<1>6. Line(wire, sent, LastNumber)' = Line(wire', sent', LastNumber')
  OBVIOUS
<1>. QED BY <1>1, <1>5, <1>6 DEF IInv

LEMMA SumStep ==
    ASSUME IInv, wire # <<>>, Sum(Awake, Head(wire)), wire' = Tail(wire), UNCHANGED sent
    PROVE  IInv'
<1>. DEFINE now == Awake
            b == Head(wire)
            n == b.frame
            f == sent[n]
            act == Acted(now, b)
<1>1. /\ sent \in Seq(Frames) /\ acted \in Seq(Acts) /\ Line(wire, sent, LastNumber)
      /\ Parsed(now) /\ Unrepeated(now, lastSeq) /\ ActsExactly /\ now.status = "SUM"
  BY AwakeParsed DEF IInv, Sum
<1>2. LastNumber \in Nat
  BY LastFacts
<1>3. Line(wire', sent', LastNumber) /\ Parsed(IdleCtx) /\ Unrepeated(IdleCtx, lastSeq)
  BY <1>1, <1>2, HeadOfLine, IdleParsed
<1>4. CASE ~(Intact(now, b) /\ ~BodyRefused(now.kind, now.dst))
  <2>1. ctx' = IdleCtx /\ UNCHANGED <<lastSeq, acted>>
    BY <1>4 DEF Sum, Reset
  <2>2. Len(sent) <= Len(sent') /\ sent' \in Seq(Frames)
    BY <1>1
  <2>. QED BY <1>3, <2>1, <2>2, NothingActed
<1>5. CASE Intact(now, b) /\ ~BodyRefused(now.kind, now.dst)
  <2>1. ctx' = IdleCtx /\ lastSeq' = now.seq /\ acted' = Append(acted, act)
    BY <1>5 DEF Sum
  <2>2. b.sum = now.buffer /\ now.buffer # <<>>
    <3>1. b.sum = now.buffer
      BY <1>5 DEF Intact
    <3>2. now.buffer \in Seq(Values) /\ Len(now.buffer) >= 3
      BY <1>1 DEF Parsed
    <3>. QED BY <3>1, <3>2
  <2>3. /\ n \in 1 .. Len(sent) /\ b.sum = Encoded(f) /\ LastNumber <= n
        /\ Line(Tail(wire), sent, n)
    BY <1>1, <1>2, <2>2, HeadOfLine
  <2>4. f \in Frames /\ n \in DOMAIN sent /\ n \in Nat
    BY <1>1, <2>3
  <2>5. now.seq = f.seq /\ now.dst = f.dst /\ now.kind = f.kind /\ now.data = f.data
    BY <1>1, <2>2, <2>3, <2>4, ReadExactly
  <2>6. act = [number |-> n, seq |-> f.seq, dst |-> f.dst, kind |-> f.kind, data |-> f.data]
    BY <2>5 DEF Acted
  <2>7. act \in Acts
    <3>1. /\ f.seq \in Seqs /\ f.dst \in Range(Destinations) /\ f.kind \in Range(Kinds)
      BY <2>4 DEF Frames
    <3>2. f.data \in Seq(Values)
      BY <2>4, EncodedFacts
    <3>. HIDE DEF act, f, n
    <3>. QED BY <2>4, <2>6, <3>1, <3>2 DEF Acts
  <2>8. acted # <<>> => LastNumber < n
    <3>. SUFFICES ASSUME acted # <<>>, LastNumber = n
                  PROVE  FALSE
      BY <1>2, <2>3, <2>4
    <3>1. lastSeq = f.seq
      BY LastFacts
    <3>2. now.seq # lastSeq
      BY <1>1 DEF Unrepeated
    <3>. QED BY <2>5, <3>1, <3>2
  <2>. HIDE DEF act, now, b, n, f
  <2>9. /\ acted' \in Seq(Acts) /\ Len(acted') = Len(acted) + 1 /\ acted'[Len(acted')] = act
        /\ \A i \in 1 .. Len(acted) : acted'[i] = acted[i]
        /\ Len(acted) \in Nat /\ acted' # <<>>
    BY <1>1, <2>1, <2>7
  <2>10. act.number = n /\ act.seq = f.seq /\ act.dst = f.dst /\ act.kind = f.kind
         /\ act.data = f.data
    BY <2>6
  <2>11. LastNumber' = n
    BY <2>9, <2>10 DEF LastNumber
  <2>12. ActsExactly'
    <3>1. DOMAIN acted' = 1 .. Len(acted) + 1 /\ DOMAIN acted = 1 .. Len(acted)
      BY <1>1, <2>9
    <3>. DEFINE Faithful(a, k) ==
                  /\ a[k].number \in DOMAIN sent
                  /\ LET frame == sent[a[k].number]
                     IN  a[k] = [number |-> a[k].number, seq |-> frame.seq, dst |-> frame.dst,
                                 kind |-> frame.kind, data |-> frame.data]
                Later(a, k) == k > 1 => a[k - 1].number < a[k].number
    <3>2. \A i \in 1 .. Len(acted) : Faithful(acted, i) /\ Later(acted, i)
      BY <1>1, <3>1 DEF ActsExactly
    <3>3. ASSUME NEW i \in 1 .. Len(acted) + 1
          PROVE  Faithful(acted', i) /\ Later(acted', i)
      <4>1. CASE i \in 1 .. Len(acted)
        <5>1. Faithful(acted', i)
          BY <2>9, <3>2, <4>1
        <5>2. i > 1 => acted'[i - 1] = acted[i - 1]
          BY <2>9, <4>1
        <5>3. Later(acted', i)
          BY <2>9, <3>2, <4>1, <5>2
        <5>. QED BY <5>1, <5>3
      <4>2. CASE i = Len(acted) + 1
        <5>1. acted'[i] = act
          BY <2>9, <4>2
        <5>2. Faithful(acted', i)
          BY <2>4, <2>6, <2>10, <5>1 DEF f
        <5>3. Later(acted', i)
          <6>. SUFFICES ASSUME i > 1 PROVE acted'[i - 1].number < n
            BY <2>10, <5>1
          <6>1. i - 1 = Len(acted) /\ Len(acted) \in 1 .. Len(acted) /\ acted # <<>>
            BY <1>1, <2>9, <4>2
          <6>2. acted'[i - 1].number = LastNumber
            BY <2>9, <6>1 DEF LastNumber
          <6>. QED BY <2>8, <6>1, <6>2
        <5>. QED BY <5>2, <5>3
      <4>. QED BY <2>9, <4>1, <4>2
    <3>. QED BY <3>1, <3>3 DEF ActsExactly
  <2>13. acted' # <<>> /\ lastSeq' = acted'[Len(acted')].seq
    BY <2>1, <2>5, <2>9, <2>10
  <2>14. Parsed(ctx') /\ Unrepeated(ctx', lastSeq')
    BY <2>1, IdleParsed
  <2>15. Line(wire', sent', LastNumber')
    BY <2>3, <2>11
  <2>. QED BY <1>1, <2>9, <2>12, <2>13, <2>14, <2>15 DEF IInv
<1>. QED BY <1>4, <1>5

LEMMA ByteStep == IInv /\ RunByte => IInv'
<1>. SUFFICES ASSUME IInv, RunByte
              PROVE  IInv'
  OBVIOUS
<1>. DEFINE now == Awake
            b == Head(wire)
<1>1. wire # <<>> /\ wire' = Tail(wire) /\ UNCHANGED sent
  BY DEF RunByte
<1>2. /\ sent \in Seq(Frames) /\ Line(wire, sent, LastNumber) /\ LastNumber \in Nat
      /\ Parsed(now) /\ Unrepeated(now, lastSeq)
  BY AwakeParsed, LastFacts DEF IInv
<1>3. b \in Bytes /\ Line(wire', sent', LastNumber)
  BY <1>1, <1>2, HeadOfLine
<1>4. CASE Sum(now, b)
  BY <1>1, <1>4, SumStep
<1>5. CASE Start(now, b) \/ Header(now, b) \/ Rest(now, b) \/ Length(now, b) \/ Data(now, b)
  <2>1. Parsed(ctx') /\ Unrepeated(ctx', lastSeq) /\ UNCHANGED <<lastSeq, acted>>
    BY <1>2, <1>3, <1>5, StartStep, HeaderStep, RestStep, LengthStep, DataStep
  <2>2. Len(sent) <= Len(sent') /\ sent' \in Seq(Frames)
    BY <1>1, <1>2
  <2>. QED BY <1>1, <1>3, <2>1, <2>2, NothingActed
<1>. QED BY <1>4, <1>5 DEF RunByte

(* A step that leaves the parser and what was sent alone.                  *)
LEMMA LineStep ==
    ASSUME IInv, UNCHANGED <<ctx, lastSeq, acted, sent>>, Line(wire', sent, LastNumber)
    PROVE  IInv'
<1>1. Len(sent) <= Len(sent') /\ sent' \in Seq(Frames) /\ Parsed(ctx')
      /\ Unrepeated(ctx', lastSeq)
  BY DEF IInv
<1>. QED BY <1>1, NothingActed

LEMMA BlockStep == IInv /\ RunBlock => IInv'
<1>. SUFFICES ASSUME IInv, RunBlock
              PROVE  IInv'
  OBVIOUS
<1>1. /\ sent \in Seq(Frames) /\ Line(wire, sent, LastNumber) /\ wire \in Seq(Bytes)
      /\ Parsed(ctx) /\ Unrepeated(ctx, lastSeq)
  BY DEF IInv, Line
<1>2. ctx.status = "DATA" /\ UNCHANGED sent
  BY DEF RunBlock
<1>3. PICK n \in 1 .. Len(wire) :
        /\ Goes(Stored(ctx, SubSeq(wire, 1, n)))
        /\ wire' = SubSeq(wire, n + 1, Len(wire))
  BY DEF RunBlock
<1>. DEFINE block == SubSeq(wire, 1, n)
<1>4. n \in Nat
  OBVIOUS
<1>5. block \in Seq(Bytes)
  BY <1>1
<1>6. Line(wire', sent, LastNumber)
  BY <1>1, <1>3, <1>4, RestOfLine
<1>. HIDE DEF block
<1>7. ctx' = Stored(ctx, block) /\ UNCHANGED <<lastSeq, acted>>
  BY <1>3 DEF Goes, block
<1>8. Parsed(ctx') /\ Unrepeated(ctx', lastSeq)
  BY <1>1, <1>2, <1>5, <1>7, StoredFacts
<1>9. Len(sent) <= Len(sent') /\ sent' \in Seq(Frames)
  BY <1>1, <1>2
<1>. QED BY <1>2, <1>6, <1>7, <1>8, <1>9, NothingActed

LEMMA SendStep == IInv /\ Send => IInv'
<1>. SUFFICES ASSUME IInv, Send
              PROVE  IInv'
  OBVIOUS
<1>1. /\ sent \in Seq(Frames) /\ Line(wire, sent, LastNumber)
      /\ Parsed(ctx) /\ Unrepeated(ctx, lastSeq)
  BY DEF IInv
<1>. DEFINE Made(request, data) ==
              [seq |-> (Len(sent) + 1) % SeqCount, dst |-> request.dst,
               kind |-> request.kind,
               data |-> IF request.kind \in Bare THEN <<>> ELSE data]
<1>2. PICK request \in Requests, data \in Payloads :
        /\ sent' = Append(sent, Made(request, data))
        /\ Transmit(Made(request, data), Len(sent) + 1)
  BY DEF Send
<1>. DEFINE f == Made(request, data)
<1>3. f \in Frames
  <2>1. request \in [dst : Range(Destinations), kind : Range(Kinds)]
    BY CommAssumption DEF CommAssumption
  <2>2. (Len(sent) + 1) % SeqCount \in Seqs
    <3>1. Len(sent) + 1 \in Nat /\ SeqCount \in Nat \ {0}
      BY <1>1, Widths
    <3>2. \A m \in Nat, k \in Nat \ {0} : m % k \in 0 .. k - 1
      OBVIOUS
    <3>. QED BY <3>1, <3>2, Zenon DEF Seqs
  <2>. QED BY <2>1, <2>2 DEF Frames
<1>4. wire' = wire \o Framed(f, Len(sent) + 1) /\ UNCHANGED <<ctx, lastSeq, acted>>
  BY <1>2 DEF Transmit, parser
<1>5. sent' = Append(sent, f)
  BY <1>2
<1>. HIDE DEF f
<1>6. /\ sent' \in Seq(Frames) /\ Len(sent') = Len(sent) + 1 /\ sent'[Len(sent')] = f
      /\ \A i \in 1 .. Len(sent) : sent'[i] = sent[i]
      /\ Len(sent) \in Nat /\ sent' # <<>>
  BY <1>1, <1>3, <1>5
<1>7. Line(wire, sent', LastNumber)
  BY <1>1, <1>3, <1>5, LineOfMore
<1>8. LastNumber \in Nat /\ LastNumber <= Len(sent')
  BY <1>6, LastFacts
<1>9. Line(wire', sent', LastNumber)
  <2>1. Line(wire \o Framed(sent'[Len(sent')], Len(sent')), sent', LastNumber)
    BY <1>6, <1>7, <1>8, LineExtended
  <2>. QED BY <1>4, <1>6, <2>1
<1>. QED BY <1>1, <1>4, <1>6, <1>9, NothingActed

LEMMA ResendStep == IInv /\ Resend => IInv'
<1>. SUFFICES ASSUME IInv, Resend
              PROVE  IInv'
  OBVIOUS
<1>1. sent \in Seq(Frames) /\ Line(wire, sent, LastNumber) /\ sent # <<>>
  BY DEF IInv, Resend
<1>2. /\ wire' = wire \o Framed(sent[Len(sent)], Len(sent))
      /\ UNCHANGED <<ctx, lastSeq, acted, sent>>
  BY DEF Resend, Transmit, parser, Last
<1>3. LastNumber \in Nat /\ LastNumber <= Len(sent)
  BY LastFacts
<1>4. Line(wire', sent, LastNumber)
  BY <1>1, <1>2, <1>3, LineExtended
<1>. QED BY <1>2, <1>4, LineStep

LEMMA FaultStep == IInv /\ (Lose \/ Corrupt) => IInv'
<1>. SUFFICES ASSUME IInv, Lose \/ Corrupt
              PROVE  IInv'
  OBVIOUS
<1>1. Line(wire, sent, LastNumber) /\ DOMAIN wire = 1 .. Len(wire)
  BY DEF IInv, Line
<1>2. CASE Lose
  <2>1. PICK i \in 1 .. Len(wire) : Disturbed(RemoveAt(wire, i))
    BY <1>1, <1>2 DEF Lose
  <2>2. wire' = RemoveAt(wire, i) /\ UNCHANGED <<ctx, lastSeq, acted, sent>>
    BY <2>1 DEF Disturbed, parser
  <2>3. Line(wire', sent, LastNumber)
    BY <1>1, <2>2, LineWithout
  <2>. QED BY <2>2, <2>3, LineStep
<1>3. CASE Corrupt
  <2>1. PICK i \in 1 .. Len(wire), value \in Noise : Disturbed([wire EXCEPT ![i] = Plain(value)])
    BY <1>1, <1>3 DEF Corrupt
  <2>2. wire' = [wire EXCEPT ![i] = Plain(value)] /\ UNCHANGED <<ctx, lastSeq, acted, sent>>
    BY <2>1 DEF Disturbed, parser
  <2>3. Line(wire', sent, LastNumber)
    BY <1>1, <2>2, LineAltered
  <2>. QED BY <2>2, <2>3, LineStep
<1>. QED BY <1>2, <1>3

LEMMA QuietStep == IInv /\ (Quiet \/ UNCHANGED vars) => IInv'
<1>. SUFFICES ASSUME IInv, Quiet \/ UNCHANGED vars
              PROVE  IInv'
  OBVIOUS
<1>1. UNCHANGED <<ctx, lastSeq, acted, sent, wire>>
  BY DEF Quiet, vars, parser
<1>2. Line(wire', sent, LastNumber)
  BY <1>1 DEF IInv
<1>. QED BY <1>1, <1>2, LineStep

(* A session starts with nothing on the line and nothing acted on.         *)
LEMMA EmptySession ==
    ASSUME NEW s, s \in Seq(Frames)
    PROVE  Line(<<>>, s, 0) /\ <<>> \in Seq(Acts)
<1>1. <<>> \in Seq(Bytes) /\ 1 .. Len(<<>>) = {}
  OBVIOUS
<1>. QED BY <1>1 DEF Line, Genuine, Ordered, NoneBefore

LEMMA SessionStep == IInv /\ NewSession => IInv'
<1>. SUFFICES ASSUME IInv, NewSession
              PROVE  IInv'
  OBVIOUS
<1>1. ctx' = IdleCtx /\ acted' = <<>> /\ wire' = <<>> /\ UNCHANGED sent
  BY DEF NewSession
<1>2. sent \in Seq(Frames)
  BY DEF IInv
<1>3. LastNumber' = 0
  BY <1>1 DEF LastNumber
<1>4. ActsExactly'
  BY <1>1 DEF ActsExactly
<1>5. Line(wire', sent', LastNumber') /\ acted' \in Seq(Acts)
  BY <1>1, <1>2, <1>3, EmptySession
<1>6. Parsed(ctx') /\ Unrepeated(ctx', lastSeq')
  BY <1>1, IdleParsed
<1>. QED BY <1>1, <1>2, <1>4, <1>5, <1>6 DEF IInv

LEMMA Starts == Init => IInv
<1>. SUFFICES ASSUME Init
              PROVE  IInv
  OBVIOUS
<1>1. ctx = IdleCtx /\ acted = <<>> /\ wire = <<>> /\ sent = <<>>
  BY DEF Init
<1>2. sent \in Seq(Frames)
  BY <1>1
<1>3. LastNumber = 0
  BY <1>1 DEF LastNumber
<1>4. ActsExactly
  BY <1>1 DEF ActsExactly
<1>5. Line(wire, sent, LastNumber) /\ acted \in Seq(Acts)
  BY <1>1, <1>2, <1>3, EmptySession
<1>6. Parsed(ctx) /\ Unrepeated(ctx, lastSeq)
  BY <1>1, IdleParsed
<1>. QED BY <1>1, <1>2, <1>4, <1>5, <1>6 DEF IInv

LEMMA Steps == IInv /\ [Next]_vars => IInv'
  BY ByteStep, BlockStep, SendStep, ResendStep, FaultStep, QuietStep, SessionStep DEF Next
-----------------------------------------------------------------------------
\* What the parser of comm_v1.c has told apart always stands in its wire
\* buffer, no sum byte on the line belongs to a frame older than the last one
\* acted on, and half a frame never has the last SEQ.
THEOREM Invariance == Spec => []IInv
  BY Starts, Steps, PTL DEF Spec

\* However bytes are lost and altered and however often the host repeats a
\* frame, comm_v1_run and comm_v1_run_buffer act on frames exactly as they
\* were sent, in their order, and on none twice in a session.
THEOREM Exactly == Spec => []ActsExactly
<1>1. IInv => ActsExactly
  BY DEF IInv
<1>. QED BY <1>1, Invariance, PTL
-----------------------------------------------------------------------------
(* The line recovers.  The strengthening says where the parser stands in   *)
(* the frame it reads, and what is still to come.                          *)

(* Where the parser stands after k bytes of a frame it reads.              *)
Stage(f, k) ==
    IF k = Len(Encoded(f)) THEN "SUM"
    ELSE CASE k = 0 -> "IDLE" [] k = 1 -> "L0" [] k = 2 -> "REST" [] k = 3 -> "LEN"
           [] OTHER -> "DATA"
Reading(now, f, k) ==
    /\ now.status = Stage(f, k)
    /\ Len(now.buffer) = k /\ \A i \in 1 .. k : now.buffer[i] = Encoded(f)[i]
    /\ now.status = "DATA" => now.len = Len(f.data) - (k - 4)

(* A frame the parser reads to its sum when last_seq is seq, and what      *)
(* last_seq is once it has.                                                *)
Admitted(f, seq) ==
    f.dst # "foreign" /\ ~HeaderRefused(f.kind, f.dst) /\ f.seq # seq
Refused(f) == BodyRefused(f.kind, f.dst)
Following(f, seq) == IF Refused(f) THEN seq ELSE f.seq

(* From place a on, the wire carries the bytes of frame n after the k-th.  *)
Size(f) == Len(Encoded(f)) + 1
Carried(a, n, k) ==
    \A i \in 1 .. Size(sent[n]) - k : wire[a + i] = Framed(sent[n], n)[k + i]

(* The parser has read k bytes of frame m, it will read the rest, and it   *)
(* is owed nothing else that is on the wire ...                            *)
Halfway(m, k) ==
    /\ m \in 1 .. Len(sent) /\ k \in 0 .. Len(Encoded(sent[m]))
    /\ Carried(0, m, k)
    /\ Reading(Awake, sent[m], k) /\ Admitted(sent[m], lastSeq)
    /\ m \in owed => ~Refused(sent[m])
    /\ clear /\ ~Refused(sent[m]) => m \in owed
LastAhead(m, k) ==
    /\ Len(wire) = Size(sent[m]) - k
    /\ owed \subseteq {m}
(* ... but one more frame, for which the same will hold then.              *)
NextAhead(m, k, p) ==
    /\ p \in 1 .. Len(sent)
    /\ Len(wire) = Size(sent[m]) - k + Size(sent[p])
    /\ Carried(Size(sent[m]) - k, p, 0)
    /\ owed \subseteq {m, p}
    /\ clear \/ p \in owed \ {m} => Admitted(sent[p], Following(sent[m], lastSeq))
    /\ p \in owed \ {m} => ~Refused(sent[p])
    /\ clear /\ ~Refused(sent[p]) => p \in owed

(* A byte link that has been quiet, or still owes a frame, has nothing on  *)
(* it and an idle parser, or is halfway through a frame.                   *)
AllRead == wire = <<>> /\ owed = {} /\ Awake.status = "IDLE"
OnTrack ==
    \/ AllRead
    \/ \E m \in 1 .. Len(sent) : \E k \in 0 .. Len(Encoded(sent[m])) :
          Halfway(m, k) /\ (LastAhead(m, k) \/ \E p \in 1 .. Len(sent) : NextAhead(m, k, p))

(* The frames acted on so far are none of those ahead.                     *)
Answered == {acted[i].number : i \in DOMAIN acted}
Behind ==
    /\ acted = <<>> => lastSeq = None
    /\ \A n \in Answered : n <= LastNumber
Recovering ==
    /\ Behind
    /\ ~blocks /\ (clear \/ owed # {}) => OnTrack

(* The frame on the wire, byte for byte.                                   *)
LEMMA WholeFrame ==
    ASSUME NEW f \in Frames, NEW n \in Nat
    PROVE  /\ Len(Encoded(f)) \in Nat /\ Len(Encoded(f)) >= 3 /\ Size(f) = Len(Encoded(f)) + 1
           /\ Framed(f, n) \in Seq(Bytes) /\ Len(Framed(f, n)) = Size(f)
           /\ \A i \in 1 .. Len(Encoded(f)) : Framed(f, n)[i].value = Encoded(f)[i]
           /\ Framed(f, n)[Size(f)].sum = Encoded(f) /\ Framed(f, n)[Size(f)].frame = n
<1>. DEFINE e == Encoded(f)
            a == [i \in 1 .. Len(e) |-> Plain(e[i])]
            last == [value |-> Checksum(e), sum |-> e, frame |-> n]
            v == Framed(f, n)
<1>1. e \in Seq(Values) /\ Len(e) \in Nat /\ Len(e) >= 3
  <2>1. e \in Seq(Values) /\ IF f.kind \in Bare THEN Len(e) = 3 ELSE Len(e) = 4 + Len(f.data)
    BY EncodedFacts
  <2>2. Len(f.data) \in Nat
    BY EncodedFacts
  <2>3. Len(e) = 3 \/ Len(e) = 4 + Len(f.data)
    BY <2>1, Zenon
  <2>4. e \in Seq(Values)
    BY <2>1, Zenon
  <2>. HIDE DEF e, a, last, v
  <2>5. Len(e) \in Nat
    BY <2>4
  <2>6. Len(e) >= 3
    <3>1. \A x, y \in Nat : x = 3 \/ x = 4 + y => x >= 3
      OBVIOUS
    <3>. QED BY <2>2, <2>3, <2>5, <3>1, Zenon
  <2>. QED BY <2>4, <2>5, <2>6
<1>2. v = a \o <<last>>
  BY DEF Framed
<1>3. last \in Bytes /\ last.frame = n /\ last.sum = e
  <2>1. Checksum(e) \in Values
    BY DEF Values
  <2>. HIDE DEF e
  <2>. QED BY <1>1, <2>1 DEF Bytes
<1>. HIDE DEF e
<1>4. a \in Seq(Bytes) /\ Len(a) = Len(e) /\ \A i \in 1 .. Len(e) : a[i].value = e[i]
  <2>1. ASSUME NEW i \in 1 .. Len(e) PROVE Plain(e[i]) \in Bytes /\ Plain(e[i]).value = e[i]
    BY <1>1 DEF Plain, Bytes
  <2>2. a \in [1 .. Len(e) -> Bytes]
    BY <2>1
  <2>. QED BY <1>1, <2>1, <2>2
<1>. HIDE DEF a, last, v
<1>5. /\ v \in Seq(Bytes) /\ Len(v) = Len(a) + 1 /\ v[Len(a) + 1] = last
      /\ \A i \in 1 .. Len(a) : v[i] = a[i]
  BY <1>2, <1>3, <1>4
<1>. QED BY <1>1, <1>3, <1>4, <1>5 DEF Size, e, v

(* The start byte stands first, and LEN says how much DATA there is: the   *)
(* largest payload is sent as 0.                                           *)
LEMMA FrameOpens ==
    ASSUME NEW f \in Frames
    PROVE  /\ Encoded(f)[1] = SOP
           /\ f.kind \notin Bare => Len(f.data) \in Nat \ {0}
                                    /\ LenOf(Encoded(f)[4]) = Len(f.data)
<1>. DEFINE header == f.seq + SeqCount * Code(f.dst, Destinations)
            code == Code(f.kind, Kinds)
            length == Len(f.data) % MaxData
            opening == <<SOP, header, code>>
            body == IF f.kind \in Bare THEN <<>> ELSE <<length>> \o f.data
<1>1. Encoded(f) = opening \o body
  BY DEF Encoded
<1>2. /\ f.kind \in Bare => f.data = <<>>
      /\ f.kind \notin Bare => /\ f.data \in Seq(Values)
                               /\ Len(f.data) \in 1 .. MaxData
  <2>1. f.kind \notin Bare => f.data \in Payloads
    BY DEF Frames
  <2>2. f.data \in Payloads => Len(f.data) \in 1 .. MaxData
    BY CommAssumption, Zenon DEF CommAssumption
  <2>3. f.kind \in Bare => f.data = <<>>
    BY DEF Frames
  <2>. QED BY <2>1, <2>2, <2>3, EncodedFacts
<1>3. CASE f.kind \in Bare
  <2>1. Encoded(f) = opening \o <<>>
    BY <1>1, <1>3
  <2>. HIDE DEF header, code
  <2>2. Encoded(f)[1] = SOP
    BY <2>1
  <2>. QED BY <1>3, <2>2
<1>4. CASE f.kind \notin Bare
  <2>1. Encoded(f) = opening \o (<<length>> \o f.data)
    BY <1>1, <1>4
  <2>2. length \in Nat /\ LenOf(length) = Len(f.data)
    <3>1. MaxData \in Nat \ {0} /\ Len(f.data) \in 1 .. MaxData
      BY <1>2, <1>4, Widths
    <3>2. CASE Len(f.data) = MaxData
      <4>1. length = 0
        BY <3>1, <3>2
      <4>. QED BY <3>2, <4>1 DEF LenOf
    <3>3. CASE Len(f.data) < MaxData
      <4>1. \A x, y \in Nat : x < y => x % y = x
        OBVIOUS
      <4>2. length = Len(f.data)
        <5>1. Len(f.data) \in Nat /\ MaxData \in Nat
          BY <3>1
        <5>. QED BY <3>3, <4>1, <5>1, Zenon
      <4>. HIDE DEF length
      <4>. QED BY <3>1, <3>3, <4>2 DEF LenOf
    <3>4. Len(f.data) = MaxData \/ Len(f.data) < MaxData
      BY <3>1
    <3>. QED BY <3>2, <3>3, <3>4, Zenon
  <2>. HIDE DEF header, code, length
  <2>3. f.data \in Seq(Values)
    BY <1>2, <1>4
  <2>4. Encoded(f)[1] = SOP
    BY <2>1, <2>3
  <2>5. Encoded(f)[4] = length
    BY <2>1, <2>3
  <2>. QED BY <1>2, <1>4, <2>2, <2>4, <2>5
<1>. QED BY <1>3, <1>4

LEMMA StagesOf ==
    ASSUME NEW f \in Frames
    PROVE  LET e == Encoded(f)
           IN  /\ Stage(f, 0) = "IDLE" /\ Stage(f, 1) = "L0" /\ Stage(f, 2) = "REST"
               /\ Stage(f, 3) = (IF f.kind \in Bare THEN "SUM" ELSE "LEN")
               /\ Stage(f, Len(e)) = "SUM"
               /\ \A k \in Nat : k < Len(e) /\ k >= 4 => Stage(f, k) = "DATA"
               /\ f.kind \in Bare => Len(e) = 3
               /\ f.kind \notin Bare => Len(e) = 4 + Len(f.data) /\ Len(e) >= 5
<1>. DEFINE e == Encoded(f)
<1>1. Len(e) \in Nat /\ Len(e) >= 3
  BY WholeFrame
<1>2. f.kind \in Bare => Len(e) = 3
  BY EncodedFacts
<1>3. f.kind \notin Bare => Len(e) = 4 + Len(f.data) /\ Len(e) >= 5
  <2>1. f.kind \notin Bare => Len(e) = 4 + Len(f.data) /\ Len(f.data) \in Nat \ {0}
    BY EncodedFacts, FrameOpens
  <2>2. \A x \in Nat, y \in Nat \ {0} : x = 4 + y => x >= 5
    OBVIOUS
  <2>. HIDE DEF e
  <2>. QED BY <1>1, <2>1, <2>2, Zenon
<1>4. \A n \in Nat : n >= 3 => n # 0 /\ n # 1 /\ n # 2
  OBVIOUS
<1>5. Len(e) # 0 /\ Len(e) # 1 /\ Len(e) # 2
  BY <1>1, <1>4, Zenon
<1>6. /\ Stage(f, 0) = "IDLE" /\ Stage(f, 1) = "L0" /\ Stage(f, 2) = "REST"
      /\ Stage(f, Len(e)) = "SUM"
  BY <1>5 DEF Stage
<1>7. Stage(f, 3) = (IF f.kind \in Bare THEN "SUM" ELSE "LEN")
  <2>1. \A n \in Nat : n >= 5 => n # 3
    OBVIOUS
  <2>2. Len(e) = 3 <=> f.kind \in Bare
    BY <1>1, <1>2, <1>3, <2>1, Zenon
  <2>. QED BY <2>2 DEF Stage
<1>8. \A k \in Nat : k < Len(e) /\ k >= 4 => Stage(f, k) = "DATA"
  <2>1. \A k, n \in Nat : k < n /\ k >= 4 => k # n /\ k # 0 /\ k # 1 /\ k # 2 /\ k # 3
    OBVIOUS
  <2>2. ASSUME NEW k \in Nat, k < Len(e), k >= 4 PROVE Stage(f, k) = "DATA"
    <3>1. k # Len(e) /\ k # 0 /\ k # 1 /\ k # 2 /\ k # 3
      BY <1>1, <2>1, <2>2, Zenon
    <3>. QED BY <3>1 DEF Stage
  <2>. QED BY <2>2
<1>. HIDE DEF e
<1>. QED BY <1>2, <1>3, <1>6, <1>7, <1>8 DEF e

(* The parser keeps what it reads.                                         *)
LEMMA Kept ==
    ASSUME NEW now, Parsed(now), NEW f \in Frames, NEW k \in Nat, k < Len(Encoded(f)),
           Reading(now, f, k)
    PROVE  LET buffer == Append(now.buffer, Encoded(f)[k + 1])
           IN  /\ Len(buffer) = k + 1
               /\ \A i \in 1 .. k + 1 : buffer[i] = Encoded(f)[i]
<1>. DEFINE e == Encoded(f)
            buffer == Append(now.buffer, e[k + 1])
<1>1. e \in Seq(Values) /\ Len(e) \in Nat
  BY EncodedFacts, WholeFrame
<1>2. now.buffer \in Seq(Values)
  BY DEF Parsed
<1>3. Len(now.buffer) = k /\ \A i \in 1 .. k : now.buffer[i] = e[i]
  BY DEF Reading
<1>. HIDE DEF e
<1>4. e[k + 1] \in Values
  BY <1>1 DEF e
<1>5. /\ Len(buffer) = k + 1 /\ buffer[k + 1] = e[k + 1]
      /\ \A i \in 1 .. k : buffer[i] = now.buffer[i]
  <2>1. Len(now.buffer) = (k + 1) - 1 /\ k + 1 \in Nat /\ (k + 1) - 1 = k
    BY <1>3
  <2>. QED BY <1>2, <1>4, <2>1, BufferGrows
<1>. HIDE DEF buffer
<1>6. ASSUME NEW i \in 1 .. k + 1 PROVE buffer[i] = e[i]
  <2>1. i = k + 1 \/ i \in 1 .. k
    OBVIOUS
  <2>. QED BY <1>3, <1>5, <2>1
<1>. QED BY <1>5, <1>6 DEF buffer, e

LEMMA StartReads ==
    ASSUME NEW now, Parsed(now), NEW f \in Frames, Reading(now, f, 0), NEW b \in Bytes,
           b.value = Encoded(f)[1], Start(now, b)
    PROVE  Reading(ctx', f, 1)
<1>1. ctx' = [now EXCEPT !.buffer = Append(now.buffer, b.value), !.status = "L0"]
  BY FrameOpens DEF Start, Goes, Take
<1>2. 0 < Len(Encoded(f)) /\ 0 \in Nat /\ 0 + 1 = 1
  BY WholeFrame
<1>. DEFINE buffer == Append(now.buffer, Encoded(f)[1])
<1>3. Len(buffer) = 1 /\ \A i \in 1 .. 1 : buffer[i] = Encoded(f)[i]
  BY <1>2, Kept
<1>. HIDE DEF buffer
<1>4. ctx'.status = "L0" /\ ctx'.buffer = buffer
  BY <1>1 DEF Parsed, buffer
<1>. QED BY <1>3, <1>4, StagesOf DEF Reading

LEMMA HeaderReads ==
    ASSUME NEW now, Parsed(now), NEW f \in Frames, Reading(now, f, 1), NEW b \in Bytes,
           b.value = Encoded(f)[2], Admitted(f, lastSeq), Header(now, b)
    PROVE  Reading(ctx', f, 2)
<1>1. SeqField(b.value) = f.seq /\ DstOf(b.value) = f.dst
  BY EncodedFacts
<1>2. ctx' = [Take(now, b, "REST") EXCEPT !.seq = f.seq, !.dst = f.dst]
  BY <1>1 DEF Header, Goes, NewSeq, Admitted
<1>3. 1 < Len(Encoded(f)) /\ 1 \in Nat /\ 1 + 1 = 2
  BY WholeFrame
<1>. DEFINE buffer == Append(now.buffer, Encoded(f)[2])
<1>4. Len(buffer) = 2 /\ \A i \in 1 .. 2 : buffer[i] = Encoded(f)[i]
  BY <1>3, Kept
<1>. HIDE DEF buffer
<1>5. ctx'.status = "REST" /\ ctx'.buffer = buffer
  BY <1>2 DEF Parsed, Take, buffer
<1>. QED BY <1>4, <1>5, StagesOf DEF Reading

LEMMA RestReads ==
    ASSUME NEW now, Parsed(now), NEW f \in Frames, Reading(now, f, 2), NEW b \in Bytes,
           b.value = Encoded(f)[3], Admitted(f, lastSeq), Rest(now, b)
    PROVE  Reading(ctx', f, 3)
<1>1. KindOf(b.value) = f.kind
  BY EncodedFacts
<1>2. now.dst = f.dst
  <2>1. now.dst = DstOf(now.buffer[2])
    BY DEF Rest, Parsed
  <2>2. now.buffer[2] = Encoded(f)[2]
    BY DEF Reading
  <2>. QED BY <2>1, <2>2, EncodedFacts
<1>3. ctx' = [Take(now, b, IF f.kind \in Bare THEN "SUM" ELSE "LEN") EXCEPT !.kind = f.kind]
  BY <1>1, <1>2 DEF Rest, Goes, Admitted
<1>4. 2 < Len(Encoded(f)) /\ 2 \in Nat /\ 2 + 1 = 3
  BY WholeFrame
<1>. DEFINE buffer == Append(now.buffer, Encoded(f)[3])
<1>5. Len(buffer) = 3 /\ \A i \in 1 .. 3 : buffer[i] = Encoded(f)[i]
  BY <1>4, Kept
<1>. HIDE DEF buffer
<1>6. ctx'.status = (IF f.kind \in Bare THEN "SUM" ELSE "LEN") /\ ctx'.buffer = buffer
  BY <1>3 DEF Parsed, Take, buffer
<1>. QED BY <1>5, <1>6, StagesOf DEF Reading

LEMMA LengthReads ==
    ASSUME NEW now, Parsed(now), NEW f \in Frames, Reading(now, f, 3), NEW b \in Bytes,
           b.value = Encoded(f)[4], f.kind \notin Bare, Length(now, b)
    PROVE  Reading(ctx', f, 4)
<1>1. LenOf(b.value) = Len(f.data) /\ Len(f.data) \in Nat
  BY FrameOpens
<1>2. ctx' = [Take(now, b, "DATA") EXCEPT !.len = Len(f.data)]
  BY <1>1 DEF Length, Goes
<1>3. 3 < Len(Encoded(f)) /\ 4 < Len(Encoded(f)) /\ 3 \in Nat /\ 3 + 1 = 4
  BY WholeFrame, StagesOf
<1>. DEFINE buffer == Append(now.buffer, Encoded(f)[4])
<1>4. Len(buffer) = 4 /\ \A i \in 1 .. 4 : buffer[i] = Encoded(f)[i]
  BY <1>3, Kept
<1>. HIDE DEF buffer
<1>5. ctx'.status = "DATA" /\ ctx'.buffer = buffer /\ ctx'.len = Len(f.data)
  BY <1>2 DEF Parsed, Take, buffer
<1>6. Stage(f, 4) = "DATA" /\ Len(f.data) = Len(f.data) - (4 - 4)
  BY <1>1, <1>3, StagesOf
<1>. QED BY <1>4, <1>5, <1>6 DEF Reading

LEMMA DataReads ==
    ASSUME NEW now, Parsed(now), NEW f \in Frames, NEW k \in Nat, k >= 4,
           k < Len(Encoded(f)), f.kind \notin Bare, Reading(now, f, k), NEW b \in Bytes,
           b.value = Encoded(f)[k + 1], Data(now, b)
    PROVE  Reading(ctx', f, k + 1)
<1>. DEFINE e == Encoded(f)
            buffer == Append(now.buffer, e[k + 1])
<1>1. /\ now.status = "DATA" /\ now.len = Len(f.data) - (k - 4)
      /\ Len(f.data) \in Nat /\ Len(e) = 4 + Len(f.data) /\ Len(e) \in Nat
  BY StagesOf, FrameOpens, WholeFrame DEF Reading, Data
<1>2. Len(buffer) = k + 1 /\ \A i \in 1 .. k + 1 : buffer[i] = e[i]
  BY Kept
<1>. DEFINE left == now.len - 1
            values == <<b.value>>
<1>3. ctx' = [now EXCEPT !.data = now.data \o values, !.buffer = now.buffer \o values,
                         !.len = left, !.status = IF left = 0 THEN "SUM" ELSE "DATA"]
  <2>1. Len(<<b>>) = 1 /\ [i \in DOMAIN <<b>> |-> <<b>>[i].value] = values
    OBVIOUS
  <2>. QED BY <2>1 DEF Data, Goes, Stored
<1>4. now.buffer \o values = buffer
  <2>1. now.buffer \in Seq(Values) /\ e[k + 1] \in Values
    <3>1. now.buffer \in Seq(Values) /\ e \in Seq(Values) /\ Len(e) \in Nat
      BY EncodedFacts, WholeFrame DEF Parsed
    <3>2. k + 1 \in 1 .. Len(e)
      <4>1. \A x, y \in Nat : x < y => x + 1 \in 1 .. y
        OBVIOUS
      <4>. QED BY <3>1, <4>1, Zenon
    <3>. HIDE DEF e
    <3>. QED BY <3>1, <3>2, ElementOfSeq, Zenon
  <2>. HIDE DEF e
  <2>. QED BY <2>1 DEF e
<1>. HIDE DEF buffer, values
<1>5. /\ ctx'.buffer = buffer /\ ctx'.len = left
      /\ ctx'.status = IF left = 0 THEN "SUM" ELSE "DATA"
  BY <1>3, <1>4 DEF Parsed
<1>. HIDE DEF e
<1>6. left = Len(f.data) - ((k + 1) - 4) /\ (left = 0 <=> k + 1 = Len(e))
  <2>1. \A x, y \in Nat : x - (y - 4) - 1 = x - ((y + 1) - 4)
                          /\ (x - (y - 4) - 1 = 0 <=> y + 1 = 4 + x)
    OBVIOUS
  <2>2. left = Len(f.data) - (k - 4) - 1
    BY <1>1, Zenon
  <2>3. /\ Len(f.data) - (k - 4) - 1 = Len(f.data) - ((k + 1) - 4)
        /\ Len(f.data) - (k - 4) - 1 = 0 <=> k + 1 = 4 + Len(f.data)
    BY <1>1, <2>1, Zenon
  <2>4. Len(e) = 4 + Len(f.data)
    BY <1>1
  <2>. HIDE DEF left
  <2>5. left = Len(f.data) - ((k + 1) - 4)
    BY <2>2, <2>3, Zenon
  <2>6. left = 0 <=> k + 1 = Len(e)
    BY <2>2, <2>3, <2>4, Zenon
  <2>. QED BY <2>5, <2>6
<1>7. Stage(f, k + 1) = IF k + 1 = Len(e) THEN "SUM" ELSE "DATA"
  BY <1>1, StagesOf DEF e
<1>. QED BY <1>2, <1>5, <1>6, <1>7 DEF Reading, e

(* A byte of a frame is taken in and the parser moves on.                  *)
LEMMA ByteReads ==
    ASSUME NEW now, Parsed(now), NEW f \in Frames, NEW k \in Nat, k < Len(Encoded(f)),
           Reading(now, f, k), Admitted(f, lastSeq), NEW b \in Bytes,
           b.value = Encoded(f)[k + 1],
           Start(now, b) \/ Header(now, b) \/ Rest(now, b)
             \/ Length(now, b) \/ Data(now, b) \/ Sum(now, b)
    PROVE  Reading(ctx', f, k + 1) /\ UNCHANGED <<lastSeq, acted>>
<1>. DEFINE e == Encoded(f)
<1>0. Len(e) \in Nat /\ now.status = Stage(f, k)
  BY WholeFrame DEF Reading
<1>1. CASE k = 0
  <2>1. now.status = "IDLE"
    BY <1>0, <1>1, StagesOf
  <2>2. Start(now, b) /\ Reading(now, f, 0) /\ b.value = Encoded(f)[1]
    BY <1>1, <2>1 DEF Header, Rest, Length, Data, Sum
  <2>3. Reading(ctx', f, 1) /\ UNCHANGED <<lastSeq, acted>>
    BY <2>2, StartReads DEF Start, Goes
  <2>. QED BY <1>1, <2>3
<1>2. CASE k = 1
  <2>1. now.status = "L0"
    BY <1>0, <1>2, StagesOf
  <2>2. Header(now, b) /\ Reading(now, f, 1) /\ b.value = Encoded(f)[2]
    BY <1>2, <2>1 DEF Start, Rest, Length, Data, Sum
  <2>3. Reading(ctx', f, 2) /\ UNCHANGED <<lastSeq, acted>>
    BY <2>2, HeaderReads DEF Header, Goes, Reset
  <2>. QED BY <1>2, <2>3
<1>3. CASE k = 2
  <2>1. now.status = "REST"
    BY <1>0, <1>3, StagesOf
  <2>2. Rest(now, b) /\ Reading(now, f, 2) /\ b.value = Encoded(f)[3]
    BY <1>3, <2>1 DEF Start, Header, Length, Data, Sum
  <2>3. Reading(ctx', f, 3) /\ UNCHANGED <<lastSeq, acted>>
    BY <2>2, RestReads DEF Rest, Goes, Reset
  <2>. QED BY <1>3, <2>3
<1>4. CASE k >= 3
  <2>1. f.kind \notin Bare
    <3>1. \A x, y \in Nat : x >= 3 /\ x < y => y # 3
      OBVIOUS
    <3>2. Len(e) # 3
      BY <1>0, <1>4, <3>1, Zenon
    <3>. QED BY <3>2, StagesOf, Zenon
  <2>2. CASE k = 3
    <3>1. now.status = "LEN"
      BY <1>0, <2>1, <2>2, StagesOf
    <3>2. Length(now, b) /\ Reading(now, f, 3) /\ b.value = Encoded(f)[4]
      BY <2>2, <3>1 DEF Start, Header, Rest, Data, Sum
    <3>3. Reading(ctx', f, 4) /\ UNCHANGED <<lastSeq, acted>>
      BY <2>1, <3>2, LengthReads DEF Length, Goes
    <3>. QED BY <2>2, <3>3
  <2>3. CASE k >= 4
    <3>1. now.status = "DATA"
      BY <1>0, <2>3, StagesOf, Zenon
    <3>2. Data(now, b)
      BY <3>1 DEF Start, Header, Rest, Length, Sum
    <3>3. Reading(ctx', f, k + 1)
      BY <2>1, <2>3, <3>2, DataReads
    <3>4. UNCHANGED <<lastSeq, acted>>
      BY <3>2 DEF Data, Goes
    <3>. QED BY <3>3, <3>4
  <2>4. k = 3 \/ k >= 4
    BY <1>4
  <2>. QED BY <2>2, <2>3, <2>4
<1>5. k = 0 \/ k = 1 \/ k = 2 \/ k >= 3
  OBVIOUS
<1>. QED BY <1>1, <1>2, <1>3, <1>4, <1>5

(* At the sum of a frame it has read, the parser acts on it or refuses it. *)
LEMMA SumReads ==
    ASSUME NEW now, Parsed(now), NEW f \in Frames, Reading(now, f, Len(Encoded(f))),
           NEW b \in Bytes, b.sum = Encoded(f),
           Start(now, b) \/ Header(now, b) \/ Rest(now, b)
             \/ Length(now, b) \/ Data(now, b) \/ Sum(now, b)
    PROVE  /\ ctx' = IdleCtx /\ lastSeq' = Following(f, lastSeq)
           /\ Refused(f) => acted' = acted
           /\ ~Refused(f) => acted' = Append(acted, Acted(now, b))
<1>. DEFINE e == Encoded(f)
<1>1. now.status = "SUM"
  BY StagesOf DEF Reading
<1>2. Sum(now, b)
  BY <1>1 DEF Start, Header, Rest, Length, Data
<1>3. now.buffer = e
  <2>1. e \in Seq(Values) /\ now.buffer \in Seq(Values)
    BY EncodedFacts DEF Parsed
  <2>2. Len(now.buffer) = Len(e) /\ \A i \in 1 .. Len(e) : now.buffer[i] = e[i]
    BY DEF Reading
  <2>. HIDE DEF e
  <2>. QED BY <2>1, <2>2, SeqEqual
<1>4. now.seq = f.seq /\ now.dst = f.dst /\ now.kind = f.kind
  BY <1>1, <1>3, ReadExactly
<1>5. Intact(now, b) /\ (BodyRefused(now.kind, now.dst) <=> Refused(f))
  BY <1>3, <1>4 DEF Intact, Refused
<1>. QED BY <1>2, <1>4, <1>5 DEF Sum, Reset, Following

(* What is ahead of a parser that is halfway through frame m.              *)
LEMMA Ahead ==
    ASSUME IInv, NEW m, NEW k, NEW p, Halfway(m, k), LastAhead(m, k) \/ NextAhead(m, k, p)
    PROVE  LET s == Size(sent[m])
           IN  /\ m \in Nat /\ k \in Nat /\ sent[m] \in Frames
               /\ s \in Nat /\ s = Len(Encoded(sent[m])) + 1 /\ k < s
               /\ wire \in Seq(Bytes) /\ Len(wire) \in Nat /\ s - k \in 1 .. Len(wire)
               /\ wire # <<>> /\ Head(wire) = Framed(sent[m], m)[k + 1]
               /\ wire[s - k].sum = Encoded(sent[m]) /\ wire[s - k].frame = m
<1>. DEFINE f == sent[m]
            s == Size(f)
<1>1. sent \in Seq(Frames) /\ wire \in Seq(Bytes)
  BY DEF IInv, Line
<1>2. m \in 1 .. Len(sent) /\ k \in 0 .. Len(Encoded(f)) /\ Carried(0, m, k)
  BY DEF Halfway
<1>3. f \in Frames /\ m \in Nat /\ Len(wire) \in Nat
  BY <1>1, <1>2, ElementOfSeq
<1>4. /\ s = Len(Encoded(f)) + 1 /\ Len(Encoded(f)) \in Nat
      /\ Framed(f, m)[s].sum = Encoded(f) /\ Framed(f, m)[s].frame = m
  BY <1>3, WholeFrame
<1>5. s \in Nat /\ k \in Nat /\ k < s /\ s - k \in Nat \ {0} /\ k + (s - k) = s
  <2>1. \A x \in Nat : \A y \in 0 .. x :
          /\ x + 1 \in Nat /\ y \in Nat /\ y < x + 1
          /\ (x + 1) - y \in Nat \ {0} /\ y + ((x + 1) - y) = x + 1
    OBVIOUS
  <2>. HIDE DEF s, f
  <2>. QED BY <1>2, <1>4, <2>1
<1>6. Len(wire) >= s - k
  <2>1. CASE LastAhead(m, k)
    <3>1. Len(wire) = s - k
      BY <2>1 DEF LastAhead
    <3>. HIDE DEF s
    <3>. QED BY <1>5, <3>1
  <2>2. CASE NextAhead(m, k, p)
    <3>1. Len(wire) = s - k + Size(sent[p]) /\ sent[p] \in Frames
      BY <1>1, <2>2, ElementOfSeq DEF NextAhead
    <3>2. Size(sent[p]) \in Nat
      <4>1. Len(Encoded(sent[p])) \in Nat
        BY <3>1, WholeFrame
      <4>. QED BY <4>1 DEF Size
    <3>. HIDE DEF s
    <3>. QED BY <1>5, <3>1, <3>2
  <2>. QED BY <2>1, <2>2
<1>7. \A i \in 1 .. s - k : wire[0 + i] = Framed(f, m)[k + i]
  BY <1>2 DEF Carried
<1>. HIDE DEF s, f
<1>8. 1 \in 1 .. s - k /\ s - k \in 1 .. s - k /\ s - k \in 1 .. Len(wire)
      /\ 0 + 1 = 1 /\ 0 + (s - k) = s - k
  BY <1>3, <1>5, <1>6
<1>9. wire[1] = Framed(f, m)[k + 1] /\ wire[s - k] = Framed(f, m)[s]
  BY <1>5, <1>7, <1>8
<1>10. wire # <<>> /\ Head(wire) = wire[1]
  BY <1>1, <1>8
<1>. QED BY <1>1, <1>2, <1>3, <1>4, <1>5, <1>8, <1>9, <1>10 DEF s, f

(* A frame whose sum byte is ahead, and which has not the last SEQ or      *)
(* comes after one that has not, has not been acted on.                    *)
LEMMA NotAnswered ==
    ASSUME IInv, Behind, NEW m, NEW j \in 1 .. Len(wire), wire[j].sum # <<>>,
           wire[j].frame = m, m \in 1 .. Len(sent), sent[m].seq # lastSeq
    PROVE  /\ m \notin Answered
           /\ \A i \in 1 .. Len(wire) : j < i /\ wire[i].sum # <<>> =>
                m <= wire[i].frame /\ wire[i].frame \notin Answered
<1>1. acted # <<>> => LastNumber # m
  BY LastFacts
<1>2. LastNumber <= m /\ LastNumber \in Nat
  BY LastFacts DEF IInv, Line, NoneBefore, Ending
<1>3. acted = <<>> => Answered = {}
  BY DEF Answered
<1>4. \A n \in Nat : m <= n => n \notin Answered
  BY <1>1, <1>2, <1>3 DEF Behind
<1>5. ASSUME NEW i \in 1 .. Len(wire), j < i, wire[i].sum # <<>>
      PROVE  m <= wire[i].frame /\ wire[i].frame \in Nat
  <2>1. Ending(wire, i) /\ Ending(wire, j)
    BY <1>5 DEF Ending
  <2>. QED BY <1>5, <2>1 DEF IInv, Line, Ordered, Genuine
<1>. QED BY <1>4, <1>5

(* So what is owed is not changed by what is acted on meanwhile.           *)
LEMMA StillOwed ==
    ASSUME IInv, Behind, NEW m, NEW k, NEW p, Halfway(m, k),
           LastAhead(m, k) \/ NextAhead(m, k, p)
    PROVE  /\ m \notin Answered
           /\ NextAhead(m, k, p) => p \notin Answered /\ p \in Nat
           /\ owed \cap Answered = {}
<1>. DEFINE s == Size(sent[m])
            e == Encoded(sent[m])
<1>1. /\ m \in Nat /\ sent[m] \in Frames /\ s \in Nat /\ k \in Nat /\ k < s
      /\ s - k \in 1 .. Len(wire) /\ Len(wire) \in Nat
      /\ wire[s - k].sum = e /\ wire[s - k].frame = m
  BY Ahead
<1>2. e # <<>>
  BY <1>1, EncodedFacts
<1>3. m \in 1 .. Len(sent) /\ sent[m].seq # lastSeq
  BY DEF Halfway, Admitted
<1>. HIDE DEF e
<1>4. m \notin Answered
  BY <1>1, <1>2, <1>3, NotAnswered
<1>5. ASSUME NextAhead(m, k, p)
      PROVE  p \notin Answered /\ p \in Nat
  <2>. DEFINE t == Size(sent[p])
              j == s - k + t
  <2>1. p \in 1 .. Len(sent) /\ Len(wire) = j /\ Carried(s - k, p, 0)
    BY <1>5 DEF NextAhead
  <2>2. sent[p] \in Frames /\ p \in Nat
    <3>1. sent \in Seq(Frames)
      BY DEF IInv
    <3>. QED BY <2>1, <3>1, ElementOfSeq
  <2>3. /\ t = Len(Encoded(sent[p])) + 1 /\ Len(Encoded(sent[p])) \in Nat
        /\ Framed(sent[p], p)[t].sum = Encoded(sent[p]) /\ Framed(sent[p], p)[t].frame = p
        /\ Encoded(sent[p]) # <<>>
    BY <2>2, WholeFrame, EncodedFacts
  <2>4. \A i \in 1 .. t - 0 : wire[s - k + i] = Framed(sent[p], p)[0 + i]
    BY <2>1 DEF Carried
  <2>5. t \in Nat \ {0}
    <3>1. \A x \in Nat : x + 1 \in Nat \ {0}
      OBVIOUS
    <3>. QED BY <2>3, <3>1, Zenon
  <2>. HIDE DEF s, t
  <2>6. t \in 1 .. t - 0 /\ 0 + t = t /\ j \in 1 .. Len(wire) /\ s - k < j
    BY <1>1, <2>1, <2>5
  <2>7. wire[j].sum # <<>> /\ wire[j].frame = p
    BY <2>3, <2>4, <2>6
  <2>. HIDE DEF j
  <2>. QED BY <1>1, <1>2, <1>3, <2>2, <2>6, <2>7, NotAnswered
<1>6. (owed \subseteq {m}) \/ (NextAhead(m, k, p) /\ owed \subseteq {m, p})
  BY DEF LastAhead, NextAhead
<1>. QED BY <1>4, <1>5, <1>6

(* A byte in the middle of a frame answers nothing.                        *)
LEMMA MiddleStep ==
    ASSUME IInv, Behind, RunByte, ~blocks, NEW m, NEW k, NEW p, Halfway(m, k),
           LastAhead(m, k) \/ NextAhead(m, k, p), k < Len(Encoded(sent[m]))
    PROVE  /\ k + 1 \in 0 .. Len(Encoded(sent'[m])) /\ Halfway(m, k + 1)'
           /\ LastAhead(m, k) => LastAhead(m, k + 1)'
           /\ NextAhead(m, k, p) => NextAhead(m, k + 1, p)'
<1>. DEFINE f == sent[m]
            s == Size(f)
            e == Encoded(f)
            b == Head(wire)
<1>1. /\ m \in Nat /\ k \in Nat /\ f \in Frames /\ s \in Nat /\ s = Len(e) + 1 /\ k < s
      /\ wire \in Seq(Bytes) /\ Len(wire) \in Nat /\ s - k \in 1 .. Len(wire)
      /\ wire # <<>> /\ b = Framed(f, m)[k + 1]
  BY Ahead
<1>2. Len(e) \in Nat /\ b \in Bytes /\ b.value = e[k + 1] /\ k + 1 \in 0 .. Len(e)
  <2>1. Len(e) \in Nat /\ \A i \in 1 .. Len(e) : Framed(f, m)[i].value = e[i]
    BY <1>1, WholeFrame
  <2>2. k + 1 \in 1 .. Len(e) /\ k + 1 \in 0 .. Len(e)
    <3>1. \A x, y \in Nat : x < y => x + 1 \in 1 .. y /\ x + 1 \in 0 .. y
      OBVIOUS
    <3>. QED BY <1>1, <2>1, <3>1, Zenon
  <2>3. b \in Bytes
    BY <1>1
  <2>. HIDE DEF b, e, f
  <2>. QED BY <1>1, <2>1, <2>2, <2>3
<1>3. Parsed(Awake) /\ Reading(Awake, f, k) /\ Admitted(f, lastSeq)
  BY AwakeParsed DEF IInv, Halfway
<1>4. /\ Start(Awake, b) \/ Header(Awake, b) \/ Rest(Awake, b)
           \/ Length(Awake, b) \/ Data(Awake, b) \/ Sum(Awake, b)
      /\ wire' = Tail(wire) /\ late' = FALSE /\ Settled /\ UNCHANGED <<sent, clear>>
  BY DEF RunByte
<1>5. Reading(ctx', f, k + 1) /\ UNCHANGED <<lastSeq, acted>>
  <2>. HIDE DEF b, f
  <2>. QED BY <1>1, <1>2, <1>3, <1>4, ByteReads DEF e
<1>6. Awake' = ctx'
  BY <1>4 DEF Awake
<1>7. owed' = owed
  <2>1. owed' = owed \ Answered
    BY <1>4, <1>5 DEF Settled, Answered
  <2>2. owed \cap Answered = {}
    BY StillOwed
  <2>. QED BY <2>1, <2>2
<1>8. Len(wire') = Len(wire) - 1 /\ \A i \in 1 .. Len(wire) - 1 : wire'[i] = wire[i + 1]
  BY <1>1, <1>4
<1>9. s - (k + 1) \in Nat /\ s - (k + 1) = s - k - 1
  <2>. HIDE DEF s, f
  <2>. QED BY <1>1
<1>10. \A i \in 1 .. s - (k + 1) : wire'[0 + i] = Framed(f, m)[(k + 1) + i]
  <2>1. \A i \in 1 .. s - k : wire[0 + i] = Framed(f, m)[k + i]
    BY DEF Halfway, Carried
  <2>. HIDE DEF s, f
  <2>2. ASSUME NEW i \in 1 .. s - (k + 1)
        PROVE  wire'[0 + i] = Framed(f, m)[(k + 1) + i]
    <3>1. /\ i + 1 \in 1 .. s - k /\ i \in 1 .. Len(wire) - 1 /\ 0 + i = i
          /\ 0 + (i + 1) = i + 1 /\ (k + 1) + i = k + (i + 1)
      BY <1>1
    <3>. QED BY <1>8, <2>1, <3>1
  <2>. QED BY <2>2
<1>11. Halfway(m, k + 1)'
  <2>1. m \in 1 .. Len(sent) /\ (m \in owed => ~Refused(f))
        /\ (clear /\ ~Refused(f) => m \in owed)
    BY DEF Halfway
  <2>2. k + 1 \in 0 .. Len(e)
    BY <1>2
  <2>3. Carried(0, m, k + 1)'
    BY <1>4, <1>10 DEF Carried
  <2>. QED BY <1>3, <1>4, <1>5, <1>6, <1>7, <2>1, <2>2, <2>3 DEF Halfway
<1>12. LastAhead(m, k) => LastAhead(m, k + 1)'
  <2>. SUFFICES ASSUME LastAhead(m, k) PROVE LastAhead(m, k + 1)'
    OBVIOUS
  <2>1. Len(wire) = s - k /\ owed \subseteq {m}
    BY DEF LastAhead
  <2>2. Len(wire') = s - (k + 1)
    <3>. HIDE DEF s, f
    <3>. QED BY <1>8, <1>9, <2>1
  <2>. QED BY <1>4, <1>7, <2>1, <2>2 DEF LastAhead
<1>13. NextAhead(m, k, p) => NextAhead(m, k + 1, p)'
  <2>. SUFFICES ASSUME NextAhead(m, k, p) PROVE NextAhead(m, k + 1, p)'
    OBVIOUS
  <2>. DEFINE t == Size(sent[p])
  <2>1. Len(wire) = s - k + t /\ p \in 1 .. Len(sent)
        /\ \A i \in 1 .. t - 0 : wire[s - k + i] = Framed(sent[p], p)[0 + i]
    BY DEF NextAhead, Carried
  <2>2. t \in Nat
    <3>1. sent[p] \in Frames
      BY <2>1, ElementOfSeq DEF IInv
    <3>2. Len(Encoded(sent[p])) \in Nat /\ t = Len(Encoded(sent[p])) + 1
      BY <3>1, WholeFrame
    <3>. HIDE DEF t
    <3>. QED BY <3>2
  <2>3. Len(wire') = s - (k + 1) + t
    <3>. HIDE DEF s, f, t
    <3>. QED BY <1>1, <1>8, <1>9, <2>1, <2>2
  <2>4. ASSUME NEW i \in 1 .. t - 0
        PROVE  wire'[s - (k + 1) + i] = Framed(sent[p], p)[0 + i]
    <3>1. wire[s - k + i] = Framed(sent[p], p)[0 + i]
      BY <2>1
    <3>. HIDE DEF s, f, t
    <3>2. /\ s - (k + 1) + i \in 1 .. Len(wire) - 1
          /\ (s - (k + 1) + i) + 1 = s - k + i
      BY <1>1, <2>1, <2>2
    <3>. QED BY <1>8, <3>1, <3>2
  <2>5. Carried(s - (k + 1), p, 0)'
    BY <1>4, <2>4 DEF Carried
  <2>. QED BY <1>4, <1>5, <1>7, <2>3, <2>5 DEF NextAhead
<1>. QED BY <1>2, <1>4, <1>11, <1>12, <1>13

(* The sum byte answers the frame, and what is ahead is the next one.      *)
LEMMA EndStep ==
    ASSUME IInv, Behind, RunByte, ~blocks, NEW m, NEW k, NEW p, Halfway(m, k),
           LastAhead(m, k) \/ NextAhead(m, k, p), k = Len(Encoded(sent[m]))
    PROVE  /\ LastAhead(m, k) => AllRead'
           /\ NextAhead(m, k, p) /\ (clear' \/ owed' # {}) =>
                Halfway(p, 0)' /\ LastAhead(p, 0)'
<1>. DEFINE f == sent[m]
            s == Size(f)
            e == Encoded(f)
            b == Head(wire)
<1>1. /\ m \in Nat /\ f \in Frames /\ s = k + 1 /\ k \in Nat
      /\ wire \in Seq(Bytes) /\ Len(wire) \in Nat /\ s - k \in 1 .. Len(wire)
      /\ wire # <<>> /\ b = Framed(f, m)[k + 1]
  BY Ahead
<1>2. b \in Bytes /\ b.sum = e /\ b.frame = m
  <2>1. Framed(f, m)[s].sum = e /\ Framed(f, m)[s].frame = m
    BY <1>1, WholeFrame
  <2>2. b \in Bytes
    BY <1>1
  <2>. HIDE DEF b, e, f, s
  <2>. QED BY <1>1, <2>1, <2>2
<1>3. Parsed(Awake) /\ Reading(Awake, f, Len(e))
  BY AwakeParsed DEF IInv, Halfway
<1>4. /\ Start(Awake, b) \/ Header(Awake, b) \/ Rest(Awake, b)
           \/ Length(Awake, b) \/ Data(Awake, b) \/ Sum(Awake, b)
      /\ wire' = Tail(wire) /\ late' = FALSE /\ Settled /\ UNCHANGED <<sent, clear>>
  BY DEF RunByte
<1>5. /\ ctx' = IdleCtx /\ lastSeq' = Following(f, lastSeq)
      /\ Refused(f) => acted' = acted
      /\ ~Refused(f) => acted' = Append(acted, Acted(Awake, b))
  <2>. HIDE DEF b, f
  <2>. QED BY <1>1, <1>2, <1>3, <1>4, SumReads DEF e
<1>6. Awake' = IdleCtx
  BY <1>4, <1>5 DEF Awake
<1>7. /\ Refused(f) => owed' = owed /\ m \notin owed
      /\ ~Refused(f) => owed' = owed \ {m}
  <2>1. owed \cap Answered = {}
    BY StillOwed
  <2>2. owed' = owed \ {acted'[i].number : i \in DOMAIN acted'}
    BY <1>4 DEF Settled
  <2>3. CASE Refused(f)
    BY <1>5, <2>1, <2>2, <2>3 DEF Answered, Halfway
  <2>4. CASE ~Refused(f)
    <3>1. {acted'[i].number : i \in DOMAIN acted'} = Answered \cup {m}
      <4>. DEFINE a == Acted(Awake, b)
      <4>1. acted' = Append(acted, a) /\ a.number = m /\ acted \in Seq(Acts)
        BY <1>2, <1>5, <2>4 DEF Acted, IInv
      <4>. HIDE DEF a
      <4>2. /\ Len(acted) \in Nat /\ DOMAIN acted = 1 .. Len(acted)
            /\ DOMAIN acted' = 1 .. Len(acted) + 1 /\ acted'[Len(acted) + 1] = a
            /\ \A i \in 1 .. Len(acted) : acted'[i] = acted[i]
        BY <4>1, AppendProperties, LenProperties
      <4>3. \A i \in DOMAIN acted' : acted'[i].number \in Answered \cup {m}
        <5>. SUFFICES ASSUME NEW i \in DOMAIN acted'
                      PROVE  acted'[i].number \in Answered \cup {m}
          OBVIOUS
        <5>1. i \in DOMAIN acted \/ i = Len(acted) + 1
          BY <4>2
        <5>. QED BY <4>1, <4>2, <5>1 DEF Answered
      <4>4. \A i \in DOMAIN acted : i \in DOMAIN acted' /\ acted'[i] = acted[i]
        BY <4>2
      <4>5. Len(acted) + 1 \in DOMAIN acted'
        BY <4>2
      <4>. QED BY <4>1, <4>2, <4>3, <4>4, <4>5 DEF Answered
    <3>. QED BY <2>1, <2>2, <2>4, <3>1
  <2>. QED BY <2>3, <2>4
<1>8. Len(wire') = Len(wire) - 1 /\ \A i \in 1 .. Len(wire) - 1 : wire'[i] = wire[i + 1]
      /\ wire' \in Seq(Bytes)
  BY <1>1, <1>4
<1>9. s - k = 1
  <2>. HIDE DEF s, f
  <2>. QED BY <1>1
<1>10. LastAhead(m, k) => AllRead'
  <2>. SUFFICES ASSUME LastAhead(m, k) PROVE AllRead'
    OBVIOUS
  <2>1. Len(wire) = 1 /\ owed \subseteq {m}
    BY <1>9 DEF LastAhead
  <2>2. wire' = <<>>
    BY <1>8, <2>1
  <2>3. owed' = {}
    BY <1>7, <2>1
  <2>. QED BY <1>6, <2>2, <2>3 DEF AllRead, IdleCtx
<1>11. ASSUME NextAhead(m, k, p), clear' \/ owed' # {}
       PROVE  Halfway(p, 0)' /\ LastAhead(p, 0)'
  <2>. DEFINE g == sent[p]
              t == Size(g)
  <2>1. /\ p \in 1 .. Len(sent) /\ Len(wire) = 1 + t /\ owed \subseteq {m, p}
        /\ \A i \in 1 .. t - 0 : wire[1 + i] = Framed(g, p)[0 + i]
    BY <1>9, <1>11 DEF NextAhead, Carried
  <2>2. g \in Frames
    BY <2>1, ElementOfSeq DEF IInv
  <2>3. t \in Nat /\ t = Len(Encoded(g)) + 1 /\ Len(Encoded(g)) \in Nat
        /\ 0 \in 0 .. Len(Encoded(g))
    <3>1. Len(Encoded(g)) \in Nat /\ t = Len(Encoded(g)) + 1
      BY <2>2, WholeFrame
    <3>2. \A x \in Nat : x + 1 \in Nat /\ 0 \in 0 .. x
      OBVIOUS
    <3>. QED BY <3>1, <3>2, Zenon
  <2>4. owed' \subseteq {p} /\ (m = p => owed' = {})
    BY <1>7, <2>1
  <2>5. p \in owed' => p \in owed \ {m}
    BY <1>7
  <2>6. clear' \/ p \in owed'
    BY <1>11, <2>4
  <2>7. Admitted(g, lastSeq') /\ (p \in owed' => ~Refused(g))
    BY <1>4, <1>5, <1>11, <2>5, <2>6 DEF NextAhead
  <2>8. ASSUME clear', ~Refused(g) PROVE p \in owed'
    <3>1. p \in owed
      BY <1>4, <1>11, <2>8 DEF NextAhead
    <3>2. ~Refused(f) => p # m
      BY <1>5, <2>7 DEF Admitted, Following
    <3>. QED BY <1>7, <3>1, <3>2
  <2>9. Len(wire') = t - 0
    <3>. HIDE DEF t, g
    <3>. QED BY <1>8, <2>1, <2>3
  <2>10. Carried(0, p, 0)'
    <3>1. ASSUME NEW i \in 1 .. t - 0
          PROVE  wire'[0 + i] = Framed(g, p)[0 + i]
      <4>1. wire[1 + i] = Framed(g, p)[0 + i]
        BY <2>1
      <4>. HIDE DEF t, g
      <4>2. i \in 1 .. Len(wire) - 1 /\ 0 + i = i /\ i + 1 = 1 + i
        BY <2>1, <2>3
      <4>. QED BY <1>8, <4>1, <4>2
    <3>. QED BY <1>4, <3>1 DEF Carried
  <2>11. Reading(IdleCtx, g, 0)
    <3>1. Stage(g, 0) = "IDLE"
      BY <2>2, StagesOf
    <3>2. IdleCtx.status = "IDLE" /\ IdleCtx.buffer = <<>>
      BY DEF IdleCtx
    <3>. QED BY <3>1, <3>2 DEF Reading
  <2>12. Halfway(p, 0)'
    BY <1>4, <1>6, <2>1, <2>3, <2>7, <2>8, <2>10, <2>11 DEF Halfway
  <2>13. LastAhead(p, 0)'
    BY <1>4, <2>4, <2>9 DEF LastAhead
  <2>. QED BY <2>12, <2>13
<1>. QED BY <1>10, <1>11

(* The frames acted on stay behind.                                        *)
LEMMA BehindStep == IInv /\ Behind /\ [Next]_vars => Behind'
<1>. SUFFICES ASSUME IInv, Behind, [Next]_vars
              PROVE  Behind'
  OBVIOUS
<1>1. CASE UNCHANGED <<lastSeq, acted>>
  BY <1>1 DEF Behind, Answered, LastNumber
<1>2. CASE NewSession
  <2>1. acted' = <<>> /\ lastSeq' = None
    BY <1>2 DEF NewSession
  <2>. QED BY <2>1 DEF Behind, Answered
<1>3. CASE RunByte /\ Sum(Awake, Head(wire))
  <2>. DEFINE now == Awake
              b == Head(wire)
              a == Acted(now, b)
  <2>1. CASE ~(Intact(now, b) /\ ~BodyRefused(now.kind, now.dst))
    <3>1. UNCHANGED <<lastSeq, acted>>
      BY <1>3, <2>1 DEF Sum, Reset
    <3>. QED BY <1>1, <3>1
  <2>2. CASE Intact(now, b) /\ ~BodyRefused(now.kind, now.dst)
    <3>1. acted' = Append(acted, a) /\ a.number = b.frame /\ b.sum = now.buffer
      BY <1>3, <2>2 DEF Sum, Acted, Intact
    <3>2. now.buffer # <<>>
      <4>1. Parsed(now) /\ now.status = "SUM"
        BY <1>3, AwakeParsed DEF IInv, Sum
      <4>2. Len(now.buffer) >= 3
        BY <4>1 DEF Parsed
      <4>. QED BY <4>2
    <3>3. /\ LastNumber \in Nat /\ LastNumber <= b.frame /\ b.frame \in Nat
      <4>1. Line(wire, sent, LastNumber) /\ wire # <<>> /\ sent \in Seq(Frames)
        BY <1>3 DEF IInv, RunByte
      <4>2. LastNumber \in Nat
        BY LastFacts
      <4>3. b.sum # <<>>
        BY <3>1, <3>2
      <4>4. b.frame \in 1 .. Len(sent) /\ LastNumber <= b.frame
        BY <4>1, <4>2, <4>3, HeadOfLine
      <4>. HIDE DEF b
      <4>. QED BY <4>2, <4>4
    <3>4. acted \in Seq(Acts)
      BY DEF IInv
    <3>. HIDE DEF a, b, now
    <3>5. /\ Len(acted) \in Nat /\ DOMAIN acted = 1 .. Len(acted)
          /\ Len(acted') = Len(acted) + 1 /\ DOMAIN acted' = 1 .. Len(acted) + 1
          /\ acted'[Len(acted) + 1] = a /\ acted' # <<>>
          /\ \A i \in 1 .. Len(acted) : acted'[i] = acted[i]
      <4>1. /\ Len(acted) \in Nat /\ DOMAIN acted = 1 .. Len(acted)
            /\ Len(acted') = Len(acted) + 1 /\ DOMAIN acted' = 1 .. Len(acted) + 1
            /\ acted'[Len(acted) + 1] = a
            /\ \A i \in 1 .. Len(acted) : acted'[i] = acted[i]
        BY <3>1, <3>4, AppendProperties, LenProperties
      <4>2. acted' # <<>>
        BY <3>1, <3>4
      <4>. QED BY <4>1, <4>2
    <3>6. LastNumber' = b.frame
      BY <3>1, <3>5 DEF LastNumber
    <3>7. ASSUME NEW i \in DOMAIN acted' PROVE acted'[i].number <= b.frame
      <4>1. CASE i = Len(acted) + 1
        BY <3>1, <3>3, <3>5, <4>1
      <4>2. CASE i \in DOMAIN acted
        <5>1. acted[i].number <= LastNumber /\ acted[i] \in Acts
          BY <3>4, <4>2, ElementOfSeq, LenProperties DEF Behind, Answered
        <5>2. acted[i].number \in Nat /\ acted'[i] = acted[i]
          BY <3>5, <4>2, <5>1 DEF Acts
        <5>. QED BY <3>3, <5>1, <5>2
      <4>3. i = Len(acted) + 1 \/ i \in DOMAIN acted
        BY <3>5
      <4>. QED BY <4>1, <4>2, <4>3
    <3>. QED BY <3>5, <3>6, <3>7 DEF Behind, Answered
  <2>. QED BY <2>1, <2>2
<1>4. CASE RunByte /\ ~Sum(Awake, Head(wire))
  <2>1. UNCHANGED <<lastSeq, acted>>
    BY <1>4 DEF RunByte, Start, Header, Rest, Length, Data, Goes, Reset
  <2>. QED BY <1>1, <2>1
<1>5. CASE RunBlock
  <2>1. UNCHANGED <<lastSeq, acted>>
    BY <1>5 DEF RunBlock, Goes
  <2>. QED BY <1>1, <2>1
<1>6. CASE Send \/ Resend \/ Lose \/ Corrupt \/ Quiet \/ UNCHANGED vars
  <2>1. UNCHANGED <<lastSeq, acted>>
    BY <1>6 DEF Send, Resend, Lose, Corrupt, Quiet, Transmit, Disturbed, parser, vars
  <2>. QED BY <1>1, <2>1
<1>. QED BY <1>2, <1>3, <1>4, <1>5, <1>6 DEF Next

(* A frame the host adds comes after the rest of the one that is read.     *)
LEMMA TransmitStep ==
    ASSUME IInv, Recovering, ~blocks, CanSend, NEW f \in Frames, NEW n \in Nat,
           Transmit(f, n), sent' \in Seq(Frames), n \in 1 .. Len(sent'), sent'[n] = f,
           Len(sent) <= Len(sent'), \A i \in 1 .. Len(sent) : sent'[i] = sent[i],
           clear' \/ owed' # {}
    PROVE  OnTrack'
<1>. DEFINE t == Size(f)
<1>1. /\ wire \in Seq(Bytes) /\ Len(wire) \in Nat /\ Len(wire) <= 1
      /\ sent \in Seq(Frames) /\ Len(sent) \in Nat /\ Len(sent') \in Nat
  BY LenProperties DEF IInv, Line, CanSend
<1>2. /\ wire' = wire \o Framed(f, n)
      /\ owed' = IF Due(f) THEN owed \cup {n} ELSE owed
      /\ clear' = (clear /\ ReadWhole(f))
      /\ UNCHANGED <<ctx, lastSeq, acted, late>>
  BY DEF Transmit, parser
<1>3. /\ t = Len(Encoded(f)) + 1 /\ Len(Encoded(f)) \in Nat
      /\ Framed(f, n) \in Seq(Bytes) /\ Len(Framed(f, n)) = t
  BY WholeFrame
<1>4. t \in Nat
  BY <1>3, Zenon, LenProperties
<1>5. /\ Len(wire') = Len(wire) + t
      /\ \A i \in 1 .. Len(wire) : wire'[i] = wire[i]
      /\ \A i \in 1 .. t : wire'[Len(wire) + i] = Framed(f, n)[i]
  <2>. DEFINE v == Framed(f, n)
  <2>1. v \in Seq(Bytes) /\ Len(v) = t /\ wire' = wire \o v
    BY <1>2, <1>3
  <2>. HIDE DEF t, v
  <2>. DEFINE u == wire \o v
  <2>2. /\ Len(u) = Len(wire) + Len(v)
        /\ \A i \in 1 .. Len(wire) + Len(v) :
             u[i] = IF i <= Len(wire) THEN wire[i] ELSE v[i - Len(wire)]
    <3>1. wire \in Seq(Bytes) /\ v \in Seq(Bytes)
      BY <1>1, <2>1
    <3>. QED BY <3>1, ConcatProperties
  <2>. HIDE DEF u
  <2>3. ASSUME NEW i \in 1 .. t PROVE u[Len(wire) + i] = v[i]
    <3>1. Len(wire) + i \in 1 .. Len(wire) + Len(v) /\ ~(Len(wire) + i <= Len(wire))
          /\ (Len(wire) + i) - Len(wire) = i
      BY <1>1, <1>4, <2>1
    <3>. QED BY <2>2, <3>1
  <2>4. ASSUME NEW i \in 1 .. Len(wire) PROVE u[i] = wire[i]
    <3>1. i \in 1 .. Len(wire) + Len(v) /\ i <= Len(wire)
      BY <1>1, <1>4, <2>1
    <3>. QED BY <2>2, <3>1
  <2>5. Len(u) = Len(wire) + t
    BY <2>1, <2>2
  <2>. QED BY <2>1, <2>3, <2>4, <2>5 DEF u, v
<1>6. Awake' = Awake
  BY <1>2 DEF Awake
<1>7. Due(f) <=> clear' /\ ~Refused(f)
  BY <1>2 DEF Due, Refused
<1>8. ReadWhole(f) <=> Admitted(f, SeqAhead)
  BY DEF ReadWhole, Admitted
<1>9. clear \/ owed # {}
  BY <1>2, <1>7
<1>10. OnTrack
  BY <1>9 DEF Recovering
<1>11. CASE AllRead
  <2>1. wire = <<>> /\ owed = {} /\ Awake.status = "IDLE"
    BY <1>11 DEF AllRead
  <2>2. clear' /\ ReadWhole(f)
    BY <1>2, <1>7, <2>1
  <2>3. SeqAhead = lastSeq
    BY <2>1 DEF SeqAhead, Last, IInv, Recovering, Behind
  <2>4. Admitted(f, lastSeq) /\ (n \in owed' => ~Refused(f)) /\ (~Refused(f) => n \in owed')
        /\ owed' \subseteq {n}
    BY <1>2, <1>7, <1>8, <2>1, <2>2, <2>3
  <2>5. Len(wire) = 0
    BY <2>1
  <2>6. Len(wire') = t - 0
    <3>. HIDE DEF t
    <3>. QED BY <1>4, <1>5, <2>5
  <2>7. Carried(0, n, 0)'
    <3>1. ASSUME NEW i \in 1 .. t - 0 PROVE wire'[0 + i] = Framed(f, n)[0 + i]
      <4>. HIDE DEF t
      <4>1. i \in 1 .. t /\ Len(wire) + i = 0 + i /\ 0 + i = i
        BY <1>4, <2>5
      <4>. QED BY <1>5, <4>1
    <3>. QED BY <3>1 DEF Carried
  <2>8. Reading(Awake, f, 0)
    <3>1. Parsed(Awake)
      BY AwakeParsed DEF IInv
    <3>2. Awake.buffer = <<>>
      BY <2>1, <3>1 DEF Parsed
    <3>3. Stage(f, 0) = "IDLE"
      BY StagesOf
    <3>. QED BY <2>1, <3>2, <3>3 DEF Reading
  <2>9. 0 \in 0 .. Len(Encoded(f))
    <3>1. \A x \in Nat : 0 \in 0 .. x
      OBVIOUS
    <3>. QED BY <1>3, <3>1, Zenon
  <2>10. Halfway(n, 0)'
    BY <1>2, <1>6, <2>4, <2>7, <2>8, <2>9 DEF Halfway
  <2>11. LastAhead(n, 0)'
    BY <2>4, <2>6 DEF LastAhead
  <2>. QED BY <2>9, <2>10, <2>11 DEF OnTrack
<1>12. ASSUME NEW m \in 1 .. Len(sent), NEW k \in 0 .. Len(Encoded(sent[m])), NEW p,
              Halfway(m, k), LastAhead(m, k) \/ NextAhead(m, k, p)
       PROVE  OnTrack'
  <2>. DEFINE g == sent[m]
              s == Size(g)
  <2>1. /\ m \in Nat /\ k \in Nat /\ g \in Frames /\ s \in Nat /\ k < s
        /\ s = Len(Encoded(g)) + 1 /\ s - k \in 1 .. Len(wire)
    BY <1>12, Ahead
  <2>2. s - k = 1 /\ Len(wire) = 1
    <3>1. \A x \in Nat : x <= 1 => \A y \in 1 .. x : y = 1 /\ x = 1
      OBVIOUS
    <3>. QED BY <1>1, <2>1, <3>1, Zenon
  <2>3. LastAhead(m, k)
    <3>. SUFFICES ASSUME NextAhead(m, k, p) PROVE FALSE
      BY <1>12
    <3>1. Len(wire) = s - k + Size(sent[p]) /\ sent[p] \in Frames
      BY <1>1, ElementOfSeq DEF NextAhead
    <3>2. Size(sent[p]) \in Nat \ {0}
      <4>1. Len(Encoded(sent[p])) \in Nat
        BY <3>1, WholeFrame
      <4>. QED BY <4>1 DEF Size
    <3>. HIDE DEF s, g
    <3>. QED BY <2>2, <3>1, <3>2
  <2>4. owed \subseteq {m} /\ (m \in owed => ~Refused(g)) /\ (clear /\ ~Refused(g) => m \in owed)
        /\ Admitted(g, lastSeq) /\ Reading(Awake, g, k)
    BY <1>12, <2>3 DEF LastAhead, Halfway
  <2>5. sent'[m] = g /\ m \in 1 .. Len(sent')
    BY <1>1
  <2>6. clear => SeqAhead = Following(g, lastSeq)
    <3>. SUFFICES ASSUME clear PROVE SeqAhead = Following(g, lastSeq)
      OBVIOUS
    <3>1. CASE Refused(g)
      <4>1. owed = {}
        BY <2>4, <3>1
      <4>2. SeqAhead = lastSeq
        BY <4>1 DEF SeqAhead, Last, IInv, Recovering, Behind
      <4>. QED BY <3>1, <4>2 DEF Following
    <3>2. CASE ~Refused(g)
      <4>1. owed = {m}
        BY <2>4, <3>2
      <4>2. Max({m}) = m
        BY <2>1 DEF Max
      <4>3. SeqAhead = g.seq
        BY <4>1, <4>2 DEF SeqAhead
      <4>. QED BY <3>2, <4>3 DEF Following
    <3>. QED BY <3>1, <3>2
  <2>7. clear' => Admitted(f, Following(g, lastSeq))
    BY <1>2, <1>8, <2>6
  <2>8. /\ owed' \subseteq {m, n} /\ (n \in owed' \ {m} => clear' /\ ~Refused(f))
        /\ (clear' /\ ~Refused(f) => n \in owed')
    BY <1>2, <1>7, <2>4
  <2>9. (m \in owed' => ~Refused(g)) /\ (clear' /\ ~Refused(g) => m \in owed')
    <3>1. m = n => g = f
      BY <2>5
    <3>. QED BY <1>2, <1>7, <2>4, <3>1
  <2>10. Carried(0, m, k)'
    <3>1. ASSUME NEW i \in 1 .. s - k PROVE wire'[0 + i] = Framed(g, m)[k + i]
      <4>1. wire[0 + i] = Framed(g, m)[k + i]
        BY <1>12 DEF Halfway, Carried
      <4>. HIDE DEF s, g
      <4>2. 0 + i \in 1 .. Len(wire)
        BY <2>2
      <4>. QED BY <1>5, <4>1, <4>2
    <3>. QED BY <2>5, <3>1 DEF Carried
  <2>11. Carried(s - k, n, 0)'
    <3>1. ASSUME NEW i \in 1 .. t - 0 PROVE wire'[s - k + i] = Framed(f, n)[0 + i]
      <4>. HIDE DEF t, s, g
      <4>1. i \in 1 .. t /\ Len(wire) + i = s - k + i /\ 0 + i = i
        BY <1>4, <2>2
      <4>. QED BY <1>5, <4>1
    <3>. QED BY <3>1 DEF Carried
  <2>12. Len(wire') = s - k + t
    <3>. HIDE DEF s, t, g
    <3>. QED BY <1>5, <2>2
  <2>13. Halfway(m, k)'
    BY <1>2, <1>6, <2>4, <2>5, <2>9, <2>10 DEF Halfway
  <2>14. NextAhead(m, k, n)'
    BY <1>2, <2>5, <2>7, <2>8, <2>11, <2>12 DEF NextAhead
  <2>. QED BY <2>5, <2>13, <2>14 DEF OnTrack
<1>. QED BY <1>10, <1>11, <1>12 DEF OnTrack

LEMMA ByteRecovers == IInv /\ Recovering /\ RunByte => Recovering'
<1>. SUFFICES ASSUME IInv, Recovering, RunByte
              PROVE  Recovering'
  OBVIOUS
<1>1. Behind /\ Behind'
  BY BehindStep DEF Recovering, Next
<1>2. UNCHANGED <<blocks, clear, sent>> /\ owed' \subseteq owed /\ wire # <<>>
  BY DEF RunByte, Settled
<1>3. ASSUME ~blocks, clear' \/ owed' # {}
      PROVE  OnTrack'
  <2>1. OnTrack /\ ~AllRead
    BY <1>2, <1>3 DEF Recovering, AllRead
  <2>2. PICK m \in 1 .. Len(sent) : \E k \in 0 .. Len(Encoded(sent[m])) :
          Halfway(m, k) /\ (LastAhead(m, k) \/ \E q \in 1 .. Len(sent) : NextAhead(m, k, q))
    BY <2>1 DEF OnTrack
  <2>3. PICK k \in 0 .. Len(Encoded(sent[m])) :
         Halfway(m, k) /\ (LastAhead(m, k) \/ \E q \in 1 .. Len(sent) : NextAhead(m, k, q))
    BY <2>2
  <2>4. PICK p \in 1 .. Len(sent) : LastAhead(m, k) \/ NextAhead(m, k, p)
    BY <2>3, Zenon
  <2>5. CASE k < Len(Encoded(sent[m]))
    <3>1. /\ k + 1 \in 0 .. Len(Encoded(sent'[m])) /\ Halfway(m, k + 1)'
          /\ LastAhead(m, k) => LastAhead(m, k + 1)'
          /\ NextAhead(m, k, p) => NextAhead(m, k + 1, p)'
      BY <1>1, <1>3, <2>3, <2>4, <2>5, MiddleStep
    <3>2. LastAhead(m, k + 1)' \/ NextAhead(m, k + 1, p)'
      BY <2>4, <3>1, Zenon
    <3>. QED BY <1>2, <3>1, <3>2 DEF OnTrack
  <2>6. CASE k = Len(Encoded(sent[m]))
    <3>1. /\ LastAhead(m, k) => AllRead'
          /\ NextAhead(m, k, p) /\ (clear' \/ owed' # {}) => Halfway(p, 0)' /\ LastAhead(p, 0)'
      BY <1>1, <1>3, <2>3, <2>4, <2>6, EndStep
    <3>2. CASE LastAhead(m, k)
      BY <3>1, <3>2 DEF OnTrack
    <3>3. CASE NextAhead(m, k, p)
      <4>1. 0 \in 0 .. Len(Encoded(sent'[p]))
        BY <1>3, <3>1, <3>3 DEF Halfway
      <4>. QED BY <1>2, <1>3, <3>1, <3>3, <4>1 DEF OnTrack
    <3>. QED BY <2>4, <3>2, <3>3
  <2>7. k < Len(Encoded(sent[m])) \/ k = Len(Encoded(sent[m]))
    <3>1. sent[m] \in Frames
      BY ElementOfSeq DEF IInv
    <3>2. Len(Encoded(sent[m])) \in Nat
      BY <3>1, WholeFrame
    <3>3. \A x \in Nat : \A y \in 0 .. x : y < x \/ y = x
      OBVIOUS
    <3>. QED BY <3>2, <3>3, Zenon
  <2>. QED BY <2>5, <2>6, <2>7
<1>. QED BY <1>1, <1>2, <1>3 DEF Recovering

LEMMA HostRecovers == IInv /\ Recovering /\ (Send \/ Resend) => Recovering'
<1>. SUFFICES ASSUME IInv, Recovering, Send \/ Resend
              PROVE  Recovering'
  OBVIOUS
<1>1. Behind'
  BY BehindStep DEF Recovering, Next
<1>2. sent \in Seq(Frames) /\ IInv'
  BY SendStep, ResendStep DEF IInv
<1>3. sent' \in Seq(Frames) /\ Len(sent) \in Nat /\ Len(sent') \in Nat
  BY <1>2, LenProperties DEF IInv
<1>4. PICK f, n :
        /\ CanSend /\ Transmit(f, n) /\ n \in 1 .. Len(sent') /\ sent'[n] = f
        /\ Len(sent) <= Len(sent') /\ \A i \in 1 .. Len(sent) : sent'[i] = sent[i]
  <2>1. CASE Send
    <3>1. PICK g : sent' = Append(sent, g) /\ Transmit(g, Len(sent) + 1)
      BY <2>1 DEF Send
    <3>2. /\ Len(sent') = Len(sent) + 1 /\ sent'[Len(sent) + 1] = g
          /\ \A i \in 1 .. Len(sent) : sent'[i] = sent[i]
      BY <1>2, <3>1, AppendProperties
    <3>3. Len(sent) + 1 \in 1 .. Len(sent') /\ Len(sent) <= Len(sent')
      BY <1>3, <3>2
    <3>. QED BY <2>1, <3>1, <3>2, <3>3 DEF Send
  <2>2. CASE Resend
    <3>1. /\ CanSend /\ Transmit(sent[Len(sent)], Len(sent)) /\ sent' = sent /\ sent # <<>>
      BY <2>2 DEF Resend, Last
    <3>2. Len(sent) \in 1 .. Len(sent') /\ Len(sent) <= Len(sent')
      BY <1>2, <3>1
    <3>. QED BY <3>1, <3>2
  <2>. QED BY <2>1, <2>2
<1>5. f \in Frames /\ n \in Nat
  BY <1>3, <1>4, ElementOfSeq
<1>6. UNCHANGED blocks
  BY <1>4 DEF Transmit
<1>7. ~blocks' /\ (clear' \/ owed' # {}) => OnTrack'
  BY <1>3, <1>4, <1>5, <1>6, TransmitStep
<1>. QED BY <1>1, <1>7 DEF Recovering

(* With nothing on the wire, nothing is owed.                              *)
LEMMA EmptyWire ==
    ASSUME IInv, Recovering, wire = <<>>, ~blocks
    PROVE  owed = {}
<1>. SUFFICES ASSUME OnTrack, ~AllRead PROVE FALSE
  BY DEF Recovering, AllRead
<1>1. \E m, k, q : Halfway(m, k) /\ (LastAhead(m, k) \/ NextAhead(m, k, q))
  BY DEF OnTrack
<1>2. wire # <<>>
  BY <1>1, Ahead
<1>. QED BY <1>2

LEMMA QuietRecovers == IInv /\ Recovering /\ Quiet => Recovering'
<1>. SUFFICES ASSUME IInv, Recovering, Quiet
              PROVE  Recovering'
  OBVIOUS
<1>1. Behind'
  BY BehindStep DEF Recovering, Next
<1>2. /\ late' = TRUE /\ UNCHANGED <<blocks, wire>>
      /\ clear' = (wire = <<>>) /\ owed' = IF wire = <<>> THEN owed ELSE {}
  BY DEF Quiet
<1>3. Awake' = IdleCtx
  BY <1>2 DEF Awake
<1>4. ASSUME ~blocks, clear' \/ owed' # {}
      PROVE  OnTrack'
  <2>1. wire = <<>>
    BY <1>2, <1>4
  <2>2. owed = {}
    BY <1>4, <2>1, EmptyWire
  <2>. QED BY <1>2, <1>3, <2>1, <2>2 DEF OnTrack, AllRead, IdleCtx
<1>. QED BY <1>1, <1>2, <1>4 DEF Recovering

LEMMA Recovers == IInv /\ Recovering /\ [Next]_vars => Recovering'
<1>. SUFFICES ASSUME IInv, Recovering, [Next]_vars
              PROVE  Recovering'
  OBVIOUS
<1>1. Behind'
  BY BehindStep DEF Recovering
<1>2. CASE RunBlock
  BY <1>1, <1>2 DEF RunBlock, Recovering
<1>3. CASE Lose \/ Corrupt
  <2>1. owed' = {} /\ clear' = FALSE
    BY <1>3 DEF Lose, Corrupt, Disturbed
  <2>. QED BY <1>1, <2>1 DEF Recovering
<1>4. CASE NewSession
  <2>1. wire' = <<>> /\ owed' = {} /\ Awake' = IdleCtx
    BY <1>4 DEF NewSession, Awake
  <2>2. AllRead'
    BY <2>1 DEF AllRead, IdleCtx
  <2>. QED BY <1>1, <2>2 DEF Recovering, OnTrack
<1>5. CASE UNCHANGED vars
  <2>1. /\ UNCHANGED <<blocks, clear, owed, wire, sent, lastSeq>>
        /\ Awake' = Awake
    BY <1>5 DEF vars, parser, Awake
  <2>2. OnTrack => OnTrack'
    BY <2>1 DEF OnTrack, AllRead, Halfway, LastAhead, NextAhead, Carried
  <2>. QED BY <1>1, <2>1, <2>2 DEF Recovering
<1>. QED BY <1>2, <1>3, <1>4, <1>5, ByteRecovers, HostRecovers, QuietRecovers DEF Next

LEMMA StartsOnTrack == Init => Recovering
<1>. SUFFICES ASSUME Init
              PROVE  Recovering
  OBVIOUS
<1>1. wire = <<>> /\ owed = {} /\ Awake = IdleCtx /\ acted = <<>> /\ lastSeq = None
  BY DEF Init, Awake
<1>2. AllRead /\ Answered = {}
  BY <1>1 DEF AllRead, IdleCtx, Answered
<1>. QED BY <1>1, <1>2 DEF Recovering, Behind, OnTrack

\* A link that is fed byte by byte is on track whenever the parser has no
\* excuse: idle with nothing on the line, or at a known byte of a known frame,
\* which it admits, with at most one more frame behind it.
THEOREM StaysOnTrack == Spec => []Recovering
<1>1. IInv /\ Recovering /\ [Next]_vars => IInv' /\ Recovering'
  BY Steps, Recovers
<1>2. Init => IInv /\ Recovering
  BY Starts, StartsOnTrack
<1>. QED BY <1>1, <1>2, PTL DEF Spec

\* However many bytes were lost or altered before, once the line has been
\* quiet for COMM_V1_FRAME_TIMEOUT_TICK comm_v1_run acts on every whole frame
\* with a new SEQ that comes for this node.
THEOREM BytesAreRecovered == Spec => []BytesRecover
<1>1. IInv /\ Recovering => BytesRecover
  BY EmptyWire DEF BytesRecover, RecoversAfterTimeout
<1>. QED BY <1>1, Invariance, StaysOnTrack, PTL
=============================================================================
