------------------------- MODULE SectionStlProofs -------------------------
(***************************************************************************)
(* Proofs about SectionStl for every number of groups, tasks and records,  *)
(* every image and every pattern of calls and interrupts: the operators,   *)
(* the structure of the state, then the safety of the resident scheduler.  *)
(***************************************************************************)
EXTENDS SectionStl, FiniteSetTheorems, FunctionTheorems, SequenceTheorems, TLAPS

----------------------------------------------------------------------------
(* The operators of the model.                                             *)

(* A nonempty set of positions has the minimum that Reaped looks for.      *)
LEMMA MinFacts ==
  ASSUME NEW S \in SUBSET Nat, S # {}
  PROVE  /\ Min(S) \in S
         /\ \A y \in S : Min(S) <= y
<1>. DEFINE R == {p \in Nat \X Nat : p[1] < p[2]}
<1>1. IsWellFoundedOn(R, Nat)
  BY NatLessThanWellFounded DEF OpToRel
<1>2. \A x, y \in Nat : y < x => <<y, x>> \in R
  OBVIOUS
<1>. HIDE DEF R
<1>3. PICK x \in S : \A y \in S : ~(<<y, x>> \in R)
  BY <1>1, WFMin
<1>4. ASSUME NEW y \in S PROVE x <= y
  <2>1. x \in Nat /\ y \in Nat
    OBVIOUS
  <2>2. ~(y < x)
    BY <1>2, <1>3, <2>1
  <2>. QED
    BY <2>1, <2>2
<1>. QED
  BY <1>4 DEF Min

(* In a finite set with a strict total order, the members before an        *)
(* element count its rank, and ranks are distinct.                         *)
LEMMA RankOrder ==
  ASSUME NEW S, IsFiniteSet(S), NEW R,
         \A a \in S : <<a, a>> \notin R,
         \A a, b, c \in S : <<a, b>> \in R /\ <<b, c>> \in R => <<a, c>> \in R,
         NEW a \in S, NEW b \in S, <<a, b>> \in R,
         NEW A, A = {x \in S : <<x, a>> \in R},
         NEW B, B = {x \in S : <<x, b>> \in R}
  PROVE  /\ Cardinality(A) \in Nat /\ Cardinality(B) \in Nat
         /\ Cardinality(A) < Cardinality(B)
<1>1. A \in SUBSET B /\ B \in SUBSET S /\ A # B /\ B # S
  OBVIOUS
<1>2. IsFiniteSet(B) /\ Cardinality(B) <= Cardinality(S)
      /\ (Cardinality(S) = Cardinality(B) => S = B)
  BY <1>1, FS_Subset
<1>3. IsFiniteSet(A) /\ Cardinality(A) <= Cardinality(B)
      /\ (Cardinality(B) = Cardinality(A) => B = A)
  BY <1>1, <1>2, FS_Subset
<1>4. Cardinality(A) \in Nat /\ Cardinality(B) \in Nat
  BY <1>2, <1>3, FS_CardinalityType
<1>. QED
  BY <1>1, <1>3, <1>4

(* InOrder lists every member of the set once, in the order of the         *)
(* relation.                                                               *)
LEMMA InOrderFacts ==
  ASSUME NEW S, IsFiniteSet(S), NEW R,
         \A a \in S : <<a, a>> \notin R,
         \A a, b, c \in S : <<a, b>> \in R /\ <<b, c>> \in R => <<a, c>> \in R,
         \A a, b \in S : a = b \/ <<a, b>> \in R \/ <<b, a>> \in R
  PROVE  /\ Cardinality(S) \in Nat
         /\ InOrder(S, R) \in [1 .. Cardinality(S) -> S]
         /\ \A i, j \in 1 .. Cardinality(S) : i < j => <<InOrder(S, R)[i], InOrder(S, R)[j]>> \in R
         /\ \A i, j \in 1 .. Cardinality(S) : InOrder(S, R)[i] = InOrder(S, R)[j] => i = j
         /\ \A e \in S : \E i \in 1 .. Cardinality(S) : InOrder(S, R)[i] = e
<1>. DEFINE n == Cardinality(S)
            before(e) == {x \in S : <<x, e>> \in R}
            rank == [e \in S |-> Cardinality(before(e)) + 1]
<1>1. n \in Nat /\ IsFiniteSet(1 .. n) /\ Cardinality(1 .. n) = n
  BY FS_CardinalityType, FS_Interval
<1>2. \A a, b \in S : <<a, b>> \in R => rank[a] < rank[b]
  <2>. SUFFICES ASSUME NEW a \in S, NEW b \in S, <<a, b>> \in R PROVE rank[a] < rank[b]
    OBVIOUS
  <2>1. /\ Cardinality(before(a)) \in Nat /\ Cardinality(before(b)) \in Nat
        /\ Cardinality(before(a)) < Cardinality(before(b))
    BY RankOrder
  <2>2. rank[a] = Cardinality(before(a)) + 1 /\ rank[b] = Cardinality(before(b)) + 1
    OBVIOUS
  <2>. HIDE DEF before, rank
  <2>. QED
    BY <2>1, <2>2
<1>3. rank \in [S -> 1 .. n]
  <2>. SUFFICES ASSUME NEW e \in S PROVE rank[e] \in 1 .. n
    OBVIOUS
  <2>1. before(e) \in SUBSET S /\ before(e) # S
    OBVIOUS
  <2>2. /\ IsFiniteSet(before(e)) /\ Cardinality(before(e)) <= Cardinality(S)
        /\ Cardinality(S) = Cardinality(before(e)) => S = before(e)
    BY <2>1, FS_Subset
  <2>3. Cardinality(before(e)) \in Nat
    BY <2>2, FS_CardinalityType
  <2>4. rank[e] = Cardinality(before(e)) + 1
    OBVIOUS
  <2>. HIDE DEF before, rank
  <2>. QED
    BY <1>1, <2>1, <2>2, <2>3, <2>4
<1>. HIDE DEF rank
<1>4. rank \in Injection(S, 1 .. n)
  <2>1. \A a, b \in S : rank[a] = rank[b] => a = b
    <3>. SUFFICES ASSUME NEW a \in S, NEW b \in S, rank[a] = rank[b], a # b PROVE FALSE
      OBVIOUS
    <3>1. rank[a] \in 1 .. n /\ rank[b] \in 1 .. n
      BY <1>3
    <3>2. rank[a] < rank[b] \/ rank[b] < rank[a]
      BY <1>2
    <3>. QED
      BY <1>1, <3>1, <3>2
  <2>. QED
    BY <1>3, <2>1, Fun_IsInj
<1>5. rank \in Surjection(S, 1 .. n)
  BY <1>1, <1>4, FS_Injection
<1>6. \A i \in 1 .. n : \E e \in S : rank[e] = i
  BY <1>5, Fun_SurjectionProperties
<1>. DEFINE g == [i \in 1 .. n |-> CHOOSE e \in S : rank[e] = i]
<1>7. g \in [1 .. n -> S] /\ \A i \in 1 .. n : rank[g[i]] = i
  BY <1>6
<1>. HIDE DEF g
<1>8. \A i, j \in 1 .. n : i < j => <<g[i], g[j]>> \in R
  <2>. SUFFICES ASSUME NEW i \in 1 .. n, NEW j \in 1 .. n, i < j, <<g[i], g[j]>> \notin R
                PROVE FALSE
    OBVIOUS
  <2>1. g[i] = g[j] \/ <<g[j], g[i]>> \in R
    BY <1>7
  <2>2. rank[g[i]] = i /\ rank[g[j]] = j
    BY <1>7
  <2>3. CASE g[i] = g[j]
    BY <2>2, <2>3
  <2>4. CASE <<g[j], g[i]>> \in R
    <3>1. rank[g[j]] < rank[g[i]]
      BY <1>2, <1>7, <2>4
    <3>. QED
      BY <1>1, <2>2, <3>1
  <2>. QED
    BY <2>1, <2>3, <2>4
<1>. DEFINE f == InOrder(S, R)
<1>9. f \in [1 .. n -> S] /\ \A i, j \in 1 .. n : i < j => <<f[i], f[j]>> \in R
  BY <1>7, <1>8 DEF InOrder
<1>. HIDE DEF f
<1>10. \A i, j \in 1 .. n : f[i] = f[j] => i = j
  <2>. SUFFICES ASSUME NEW i \in 1 .. n, NEW j \in 1 .. n, f[i] = f[j], i < j
                PROVE FALSE
    BY <1>1
  <2>. QED
    BY <1>9
<1>11. f \in Injection(1 .. n, S)
  BY <1>9, <1>10, Fun_IsInj
<1>12. f \in Surjection(1 .. n, S)
  BY <1>1, <1>11, FS_Injection
<1>13. \A e \in S : \E i \in 1 .. n : f[i] = e
  BY <1>12, Fun_SurjectionProperties
<1>. QED
  BY <1>1, <1>9, <1>10, <1>13 DEF f

(* Taking tasks out of a queue keeps the others, each as often as before.  *)
LEMMA RemovedFacts ==
  ASSUME NEW T, NEW q \in Seq(T), NEW D
  PROVE  /\ Removed(q, D) \in Seq(T)
         /\ \A e : Contains(Removed(q, D), e) <=> Contains(q, e) /\ e \notin D
         /\ IsInjective(q) => IsInjective(Removed(q, D))
<1>. DEFINE kept == {i \in DOMAIN q : q[i] \notin D}
            R == {p \in kept \X kept : p[1] < p[2]}
            n == Cardinality(kept)
            pos == InOrder(kept, R)
            z == Removed(q, D)
<1>1. Len(q) \in Nat /\ DOMAIN q = 1 .. Len(q) /\ \A i \in 1 .. Len(q) : q[i] \in T
  BY LenProperties, ElementOfSeq
<1>2. kept \in SUBSET (1 .. Len(q))
  BY <1>1
<1>3. IsFiniteSet(kept)
  <2>1. IsFiniteSet(1 .. Len(q))
    BY <1>1, FS_Interval
  <2>. QED
    BY <1>2, <2>1, FS_Subset
<1>4. \A i, j \in kept : <<i, j>> \in R <=> i < j
  BY <1>2
<1>5. z = [i \in 1 .. n |-> q[pos[i]]]
  BY DEF Removed
<1>6. \A e : e \in kept <=> e \in 1 .. Len(q) /\ q[e] \notin D
  BY <1>1
<1>. HIDE DEF kept, R
<1>7. /\ n \in Nat /\ pos \in [1 .. n -> kept]
      /\ \A i, j \in 1 .. n : pos[i] = pos[j] => i = j
      /\ \A e \in kept : \E i \in 1 .. n : pos[i] = e
  <2>1. \A a, b \in kept : a \in Nat /\ b \in Nat
    BY <1>1, <1>2
  <2>2. \A a \in kept : <<a, a>> \notin R
    BY <1>4, <2>1
  <2>3. ASSUME NEW a \in kept, NEW b \in kept, NEW c \in kept, <<a, b>> \in R, <<b, c>> \in R
        PROVE  <<a, c>> \in R
    <3>1. a < b /\ b < c
      BY <1>4, <2>3
    <3>2. a < c
      BY <2>1, <3>1
    <3>. QED
      BY <1>4, <3>2
  <2>4. ASSUME NEW a \in kept, NEW b \in kept
        PROVE  a = b \/ <<a, b>> \in R \/ <<b, a>> \in R
    <3>1. a = b \/ a < b \/ b < a
      BY <2>1
    <3>. QED
      BY <1>4, <3>1
  <2>. QED
    BY <1>3, <2>2, <2>3, <2>4, InOrderFacts
<1>. HIDE DEF n, pos
<1>8. z \in Seq(T) /\ Len(z) = n /\ \A i \in 1 .. n : z[i] = q[pos[i]]
  <2>1. \A i \in 1 .. n : q[pos[i]] \in T
    BY <1>1, <1>6, <1>7
  <2>2. z \in [1 .. n -> T]
    BY <1>5, <2>1
  <2>3. z \in Seq(T)
    BY <1>7, <2>2, IsASeq
  <2>4. Len(z) = n
    BY <1>7, <2>2, <2>3, LenProperties
  <2>. QED
    BY <1>5, <2>3, <2>4
<1>. HIDE DEF z
<1>9. \A e : Contains(z, e) <=> Contains(q, e) /\ e \notin D
  <2>. SUFFICES ASSUME NEW e PROVE Contains(z, e) <=> Contains(q, e) /\ e \notin D
    OBVIOUS
  <2>1. ASSUME Contains(z, e) PROVE Contains(q, e) /\ e \notin D
    BY <1>1, <1>6, <1>7, <1>8, <2>1 DEF Contains
  <2>2. ASSUME Contains(q, e), e \notin D PROVE Contains(z, e)
    <3>1. PICK j \in 1 .. Len(q) : q[j] = e
      BY <2>2 DEF Contains
    <3>2. PICK i \in 1 .. n : pos[i] = j
      BY <1>6, <1>7, <2>2, <3>1
    <3>. QED
      BY <1>8, <3>1, <3>2 DEF Contains
  <2>. QED
    BY <2>1, <2>2
<1>10. ASSUME IsInjective(q) PROVE IsInjective(z)
  <2>1. DOMAIN z = 1 .. n
    BY <1>8, LenProperties
  <2>. SUFFICES ASSUME NEW i \in 1 .. n, NEW j \in 1 .. n, z[i] = z[j] PROVE i = j
    BY <2>1 DEF IsInjective
  <2>2. pos[i] = pos[j]
    <3>1. z[i] = q[pos[i]] /\ z[j] = q[pos[j]]
      BY <1>8
    <3>2. pos[i] \in 1 .. Len(q) /\ pos[j] \in 1 .. Len(q)
      BY <1>6, <1>7
    <3>3. DOMAIN q = 1 .. Len(q)
      BY <1>1
    <3>. QED
      BY <3>1, <3>2, <3>3, <1>10 DEF IsInjective
  <2>. QED
    BY <1>7, <2>2
<1>. QED
  BY <1>8, <1>9, <1>10 DEF z

(* The due tasks go behind the queue, each once; their order is that of    *)
(* the group list, the periods and the slots.                              *)
LEMMA WithDueFacts ==
  ASSUME NEW q \in Seq(Slots), NEW tk,
         group_list \in Seq(GroupIds),
         \A s \in Slots : task[s].period \in Nat,
         \A s \in Slots : Due(tk, s) => Contains(group_list, task[s].owner.id)
  PROVE  /\ WithDue(q, tk) \in Seq(Slots)
         /\ \A s : Contains(WithDue(q, tk), s) <=> Contains(q, s) \/ (s \in Slots /\ Due(tk, s))
         /\ IsInjective(q) /\ (\A s \in Slots : Contains(q, s) => ~Due(tk, s))
              => IsInjective(WithDue(q, tk))
<1>. DEFINE due == {s \in Slots : Due(tk, s)}
            R == {p \in due \X due : Before(p[1], p[2])}
            n == Cardinality(due)
            z == InOrder(due, R)
<1>1. due \in SUBSET Slots /\ \A s : s \in due <=> s \in Slots /\ Due(tk, s)
  OBVIOUS
<1>2. Slots \in SUBSET Nat /\ IsFiniteSet(Slots)
  <2>1. MaxTasks \in Nat
    BY StlAssumption
  <2>. QED
    BY <2>1, FS_Interval DEF Slots
<1>3. IsFiniteSet(due)
  BY <1>1, <1>2, FS_Subset
<1>4. \A s, t \in due : <<s, t>> \in R <=> Before(s, t)
  OBVIOUS
<1>5. \A s \in due : Position(s) \in Nat /\ task[s].period \in Nat /\ s \in Nat
  <2>. SUFFICES ASSUME NEW s \in due PROVE Position(s) \in Nat
    BY <1>1, <1>2
  <2>1. Len(group_list) \in Nat /\ DOMAIN group_list = 1 .. Len(group_list)
    BY LenProperties
  <2>2. \E i \in DOMAIN group_list : group_list[i] = task[s].owner.id
    BY <1>1, <2>1 DEF Contains
  <2>3. Position(s) \in DOMAIN group_list
    BY <2>2 DEF Position
  <2>. QED
    BY <2>1, <2>3
<1>. HIDE DEF due, R
<1>6. /\ n \in Nat /\ z \in [1 .. n -> due]
      /\ \A i, j \in 1 .. n : z[i] = z[j] => i = j
      /\ \A e \in due : \E i \in 1 .. n : z[i] = e
  <2>1. \A s \in due : <<s, s>> \notin R
    BY <1>4, <1>5 DEF Before
  <2>2. ASSUME NEW s \in due, NEW t \in due, NEW u \in due, <<s, t>> \in R, <<t, u>> \in R
        PROVE  <<s, u>> \in R
    <3>1. Before(s, t) /\ Before(t, u)
      BY <1>4, <2>2
    <3>2. Before(s, u)
      BY <1>5, <3>1 DEF Before
    <3>. QED
      BY <1>4, <3>2
  <2>3. ASSUME NEW s \in due, NEW t \in due
        PROVE  s = t \/ <<s, t>> \in R \/ <<t, s>> \in R
    <3>1. s = t \/ Before(s, t) \/ Before(t, s)
      BY <1>5 DEF Before
    <3>. QED
      BY <1>4, <3>1
  <2>. QED
    BY <1>3, <2>1, <2>2, <2>3, InOrderFacts
<1>7. WithDue(q, tk) = q \o z
  BY DEF WithDue, due, R
<1>. HIDE DEF n, z
<1>8. z \in Seq(Slots) /\ Len(z) = n
  <2>1. z \in [1 .. n -> Slots]
    BY <1>1, <1>6
  <2>2. z \in Seq(Slots)
    BY <1>6, <2>1, IsASeq
  <2>. QED
    BY <1>6, <2>1, <2>2, LenProperties
<1>. DEFINE w == q \o z
<1>9. /\ w \in Seq(Slots) /\ Len(w) = Len(q) + n /\ Len(q) \in Nat
      /\ \A i \in 1 .. Len(w) : w[i] = IF i <= Len(q) THEN q[i] ELSE z[i - Len(q)]
  BY <1>8, ConcatProperties, LenProperties
<1>. HIDE DEF w
<1>10. \A s : Contains(w, s) <=> Contains(q, s) \/ (s \in Slots /\ Due(tk, s))
  <2>. SUFFICES ASSUME NEW s PROVE Contains(w, s) <=> Contains(q, s) \/ s \in due
    BY <1>1
  <2>1. ASSUME Contains(w, s) PROVE Contains(q, s) \/ s \in due
    <3>1. PICK i \in 1 .. Len(w) : w[i] = s
      BY <2>1 DEF Contains
    <3>2. CASE i <= Len(q)
      BY <1>9, <3>1, <3>2 DEF Contains
    <3>3. CASE ~(i <= Len(q))
      <4>1. i - Len(q) \in 1 .. n
        BY <1>6, <1>9, <3>3
      <4>. QED
        BY <1>6, <1>9, <3>1, <3>3, <4>1
    <3>. QED
      BY <3>2, <3>3
  <2>2. ASSUME Contains(q, s) PROVE Contains(w, s)
    <3>1. PICK i \in 1 .. Len(q) : q[i] = s
      BY <2>2 DEF Contains
    <3>2. i \in 1 .. Len(w) /\ w[i] = s
      BY <1>6, <1>9, <3>1
    <3>. QED
      BY <3>2 DEF Contains
  <2>3. ASSUME s \in due PROVE Contains(w, s)
    <3>1. PICK i \in 1 .. n : z[i] = s
      BY <1>6, <2>3
    <3>2. i + Len(q) \in 1 .. Len(w) /\ ~(i + Len(q) <= Len(q)) /\ (i + Len(q)) - Len(q) = i
      BY <1>6, <1>9
    <3>3. w[i + Len(q)] = s
      BY <1>9, <3>1, <3>2
    <3>. QED
      BY <3>2, <3>3 DEF Contains
  <2>. QED
    BY <2>1, <2>2, <2>3
<1>11. ASSUME IsInjective(q), \A s \in Slots : Contains(q, s) => ~Due(tk, s)
       PROVE  IsInjective(w)
  <2>1. DOMAIN w = 1 .. Len(w) /\ DOMAIN q = 1 .. Len(q)
    BY <1>9, LenProperties
  <2>. SUFFICES ASSUME NEW i \in 1 .. Len(w), NEW j \in 1 .. Len(w), w[i] = w[j], i < j
                PROVE FALSE
    BY <1>6, <1>9, <2>1 DEF IsInjective
  <2>2. CASE j <= Len(q)
    <3>1. i \in DOMAIN q /\ j \in DOMAIN q /\ q[i] = q[j]
      BY <1>6, <1>9, <2>1, <2>2
    <3>. QED
      BY <1>11, <3>1 DEF IsInjective
  <2>3. CASE ~(i <= Len(q))
    <3>1. i - Len(q) \in 1 .. n /\ j - Len(q) \in 1 .. n /\ i - Len(q) # j - Len(q)
      BY <1>6, <1>9, <2>3
    <3>2. w[i] = z[i - Len(q)] /\ w[j] = z[j - Len(q)]
      BY <1>6, <1>9, <2>3
    <3>. QED
      BY <1>6, <3>1, <3>2
  <2>4. CASE i <= Len(q) /\ ~(j <= Len(q))
    <3>1. j - Len(q) \in 1 .. n /\ w[j] = z[j - Len(q)] /\ w[i] = q[i] /\ i \in 1 .. Len(q)
      BY <1>6, <1>9, <2>4
    <3>2. w[j] \in due /\ Contains(q, w[i])
      BY <1>6, <3>1 DEF Contains
    <3>. QED
      BY <1>1, <1>11, <3>2
  <2>. QED
    BY <1>6, <1>9, <2>2, <2>3, <2>4
<1>. QED
  BY <1>7, <1>9, <1>10, <1>11 DEF w

RecordType == [task : Slots, owner : HandleType, live : BOOLEAN]

(* Reaping drops a prefix of consumed records and nothing else.            *)
LEMMA ReapedFacts ==
  ASSUME NEW r \in Seq(RecordType)
  PROVE  /\ Reaped(r) \in Seq(RecordType)
         /\ Reaped(r) # << >> => Reaped(r)[1].live
         /\ \E k \in Nat :
              /\ k <= Len(r) /\ Len(Reaped(r)) = Len(r) - k
              /\ \A i \in 1 .. Len(Reaped(r)) : i + k \in 1 .. Len(r) /\ Reaped(r)[i] = r[i + k]
              /\ \A i \in 1 .. Len(r) : r[i].live =>
                   i - k \in 1 .. Len(Reaped(r)) /\ Reaped(r)[i - k] = r[i]
<1>. DEFINE live == {i \in DOMAIN r : r[i].live}
            z == Reaped(r)
<1>1. Len(r) \in Nat /\ DOMAIN r = 1 .. Len(r)
  BY LenProperties
<1>2. live \in SUBSET Nat /\ \A i : i \in live <=> i \in 1 .. Len(r) /\ r[i].live
  BY <1>1
<1>3. z = IF live = {} THEN << >> ELSE SubSeq(r, Min(live), Len(r))
  BY DEF Reaped
<1>. HIDE DEF live
<1>4. CASE live = {}
  <2>1. z = << >> /\ z \in Seq(RecordType) /\ Len(z) = 0
    BY <1>3, <1>4, EmptySeq
  <2>. HIDE DEF z
  <2>. DEFINE k == Len(r)
  <2>2. /\ k \in Nat /\ k <= Len(r) /\ Len(z) = Len(r) - k
        /\ \A i \in 1 .. Len(z) : i + k \in 1 .. Len(r) /\ z[i] = r[i + k]
        /\ \A i \in 1 .. Len(r) : ~r[i].live
    BY <1>1, <1>2, <1>4, <2>1
  <2>. HIDE DEF k
  <2>. QED
    BY <2>1, <2>2 DEF z
<1>5. CASE live # {}
  <2>. DEFINE m == Min(live)
              k == m - 1
  <2>1. m \in live /\ \A y \in live : m <= y
    BY <1>2, <1>5, MinFacts
  <2>2. z = SubSeq(r, m, Len(r))
    BY <1>3, <1>5
  <2>. HIDE DEF m, z
  <2>3. m \in 1 .. Len(r) + 1 /\ Len(r) \in m - 1 .. Len(r) /\ m \in 1 .. Len(r)
    BY <1>1, <1>2, <2>1
  <2>4. /\ z \in Seq(RecordType) /\ Len(z) = Len(r) - k
        /\ \A i \in 1 .. Len(r) - k : z[i] = r[m + i - 1]
    <3>1. /\ SubSeq(r, m, Len(r)) \in Seq(RecordType)
          /\ Len(SubSeq(r, m, Len(r))) = IF m <= Len(r) THEN Len(r) - m + 1 ELSE 0
          /\ \A i \in 1 .. Len(r) - m + 1 : SubSeq(r, m, Len(r))[i] = r[m + i - 1]
      BY <2>3, SubSeqProperties
    <3>2. Len(r) - m + 1 = Len(r) - k
      BY <1>1, <2>3
    <3>. QED
      BY <1>1, <2>2, <2>3, <3>1, <3>2
  <2>5. \A i \in 1 .. Len(z) : i + k \in 1 .. Len(r) /\ z[i] = r[i + k]
    <3>. SUFFICES ASSUME NEW i \in 1 .. Len(z) PROVE i + k \in 1 .. Len(r) /\ z[i] = r[i + k]
      OBVIOUS
    <3>1. m + i - 1 = i + k /\ i + k \in 1 .. Len(r) /\ i \in 1 .. Len(r) - k
      BY <1>1, <2>3, <2>4
    <3>. QED
      BY <2>4, <3>1
  <2>6. z[1].live
    <3>1. 1 \in 1 .. Len(z) /\ 1 + k = m
      BY <1>1, <2>3, <2>4
    <3>. QED
      BY <1>2, <2>1, <2>5, <3>1
  <2>7. \A i \in 1 .. Len(r) : r[i].live => i - k \in 1 .. Len(z) /\ z[i - k] = r[i]
    <3>. SUFFICES ASSUME NEW i \in 1 .. Len(r), r[i].live
                  PROVE  i - k \in 1 .. Len(z) /\ z[i - k] = r[i]
      OBVIOUS
    <3>1. m <= i
      BY <1>2, <2>1
    <3>2. i - k \in 1 .. Len(z) /\ (i - k) + k = i
      BY <1>1, <2>3, <2>4, <3>1
    <3>. QED
      BY <2>5, <3>2
  <2>8. k \in Nat /\ k <= Len(r)
    BY <1>1, <2>3
  <2>. HIDE DEF k
  <2>. QED
    BY <2>4, <2>5, <2>6, <2>7, <2>8 DEF z
<1>. QED
  BY <1>4, <1>5

(* The same with some records consumed first.                              *)
LEMMA ConsumedFacts ==
  ASSUME NEW r \in Seq(RecordType), NEW which
  PROVE  /\ Consumed(r, which) \in Seq(RecordType)
         /\ Consumed(r, which) # << >> => Consumed(r, which)[1].live
         /\ \E k \in Nat :
              /\ k <= Len(r) /\ Len(Consumed(r, which)) = Len(r) - k
              /\ \A i \in 1 .. Len(Consumed(r, which)) :
                   /\ i + k \in 1 .. Len(r)
                   /\ Consumed(r, which)[i].task = r[i + k].task
                   /\ Consumed(r, which)[i].owner = r[i + k].owner
                   /\ Consumed(r, which)[i].live <=> r[i + k].live /\ i + k \notin which
              /\ \A i \in 1 .. Len(r) : r[i].live /\ i \notin which =>
                   i - k \in 1 .. Len(Consumed(r, which)) /\ Consumed(r, which)[i - k] = r[i]
<1>. DEFINE rr == [i \in DOMAIN r |-> IF i \in which THEN [r[i] EXCEPT !.live = FALSE] ELSE r[i]]
            z == Consumed(r, which)
<1>1. Len(r) \in Nat /\ DOMAIN r = 1 .. Len(r) /\ \A i \in 1 .. Len(r) : r[i] \in RecordType
  BY LenProperties, ElementOfSeq
<1>2. \A i \in 1 .. Len(r) :
        /\ rr[i] \in RecordType /\ rr[i].task = r[i].task /\ rr[i].owner = r[i].owner
        /\ rr[i].live <=> r[i].live /\ i \notin which
        /\ i \notin which => rr[i] = r[i]
  BY <1>1 DEF RecordType
<1>3. rr \in [1 .. Len(r) -> RecordType]
  BY <1>1, <1>2
<1>4. rr \in Seq(RecordType) /\ Len(rr) = Len(r)
  <2>1. rr \in Seq(RecordType)
    BY <1>1, <1>3, IsASeq
  <2>. QED
    BY <1>1, <1>3, <2>1, LenProperties
<1>5. z = Reaped(rr)
  BY DEF Consumed
<1>. HIDE DEF rr, z
<1>6. PICK k \in Nat :
        /\ k <= Len(rr) /\ Len(z) = Len(rr) - k
        /\ \A i \in 1 .. Len(z) : i + k \in 1 .. Len(rr) /\ z[i] = rr[i + k]
        /\ \A i \in 1 .. Len(rr) : rr[i].live => i - k \in 1 .. Len(z) /\ z[i - k] = rr[i]
  BY <1>4, <1>5, ReapedFacts
<1>7. z \in Seq(RecordType) /\ (z # << >> => z[1].live)
  BY <1>4, <1>5, ReapedFacts
<1>8. \A i \in 1 .. Len(z) :
        /\ i + k \in 1 .. Len(r) /\ z[i].task = r[i + k].task /\ z[i].owner = r[i + k].owner
        /\ z[i].live <=> r[i + k].live /\ i + k \notin which
  BY <1>2, <1>4, <1>6
<1>9. \A i \in 1 .. Len(r) : r[i].live /\ i \notin which => i - k \in 1 .. Len(z) /\ z[i - k] = r[i]
  BY <1>2, <1>4, <1>6
<1>10. k <= Len(r) /\ Len(z) = Len(r) - k
  BY <1>4, <1>6
<1>. QED
  BY <1>7, <1>8, <1>9, <1>10 DEF z

(* What the ends of a queue do to its members.                             *)
LEMMA TailFacts ==
  ASSUME NEW T, NEW q \in Seq(T), q # << >>, IsInjective(q)
  PROVE  /\ Head(q) \in T /\ Contains(q, Head(q))
         /\ Tail(q) \in Seq(T) /\ IsInjective(Tail(q))
         /\ \A e : Contains(Tail(q), e) <=> Contains(q, e) /\ e # Head(q)
<1>. DEFINE z == Tail(q)
<1>1. /\ Len(q) \in Nat /\ Len(q) # 0 /\ DOMAIN q = 1 .. Len(q)
      /\ \A i \in 1 .. Len(q) : q[i] \in T
  BY LenProperties, ElementOfSeq, EmptySeq
<1>2. Head(q) = q[1] /\ 1 \in 1 .. Len(q)
  BY <1>1, HeadTailProperties
<1>3. /\ z \in Seq(T) /\ Len(z) = Len(q) - 1
      /\ \A i \in 1 .. Len(q) - 1 : z[i] = q[i + 1]
  BY HeadTailProperties
<1>4. DOMAIN z = 1 .. Len(q) - 1
  BY <1>3, LenProperties
<1>. HIDE DEF z
<1>5. \A i \in 1 .. Len(q) - 1 : i + 1 \in 1 .. Len(q) /\ i + 1 # 1
  BY <1>1
<1>6. \A i, j \in 1 .. Len(q) : q[i] = q[j] => i = j
  BY <1>1 DEF IsInjective
<1>7. IsInjective(z)
  <2>. SUFFICES ASSUME NEW i \in 1 .. Len(q) - 1, NEW j \in 1 .. Len(q) - 1, z[i] = z[j]
                PROVE  i = j
    BY <1>4 DEF IsInjective
  <2>1. i + 1 = j + 1
    BY <1>3, <1>5, <1>6
  <2>. QED
    BY <2>1
<1>8. \A e : Contains(z, e) <=> Contains(q, e) /\ e # q[1]
  <2>. SUFFICES ASSUME NEW e PROVE Contains(z, e) <=> Contains(q, e) /\ e # q[1]
    OBVIOUS
  <2>1. ASSUME Contains(z, e) PROVE Contains(q, e) /\ e # q[1]
    <3>1. PICK i \in 1 .. Len(q) - 1 : z[i] = e
      BY <1>3, <2>1 DEF Contains
    <3>. QED
      BY <1>2, <1>3, <1>5, <1>6, <3>1 DEF Contains
  <2>2. ASSUME Contains(q, e), e # q[1] PROVE Contains(z, e)
    <3>1. PICK i \in 1 .. Len(q) : q[i] = e
      BY <2>2 DEF Contains
    <3>2. i - 1 \in 1 .. Len(q) - 1 /\ (i - 1) + 1 = i
      BY <1>1, <2>2, <3>1
    <3>3. z[i - 1] = e
      BY <1>3, <3>1, <3>2
    <3>. QED
      BY <1>3, <3>2, <3>3 DEF Contains
  <2>. QED
    BY <2>1, <2>2
<1>. QED
  BY <1>1, <1>2, <1>3, <1>7, <1>8 DEF z, Contains

(* Queueing a task at the back: a preempted or continuing one.             *)
LEMMA AppendFacts ==
  ASSUME NEW T, NEW q \in Seq(T), NEW s \in T, ~Contains(q, s), IsInjective(q)
  PROVE  /\ Append(q, s) \in Seq(T) /\ IsInjective(Append(q, s))
         /\ \A e : Contains(Append(q, s), e) <=> Contains(q, e) \/ e = s
<1>. DEFINE z == Append(q, s)
<1>1. Len(q) \in Nat /\ DOMAIN q = 1 .. Len(q)
  BY LenProperties
<1>2. /\ z \in Seq(T) /\ Len(z) = Len(q) + 1 /\ z[Len(q) + 1] = s
      /\ \A i \in 1 .. Len(q) : z[i] = q[i]
  BY AppendProperties
<1>3. DOMAIN z = 1 .. Len(q) + 1
  BY <1>2, LenProperties
<1>. HIDE DEF z
<1>4. \A i \in 1 .. Len(q) + 1 : i \in 1 .. Len(q) \/ i = Len(q) + 1
  BY <1>1
<1>5. \A i \in 1 .. Len(q) : i \in 1 .. Len(q) + 1
  BY <1>1
<1>6. \A i \in 1 .. Len(q) : q[i] # s
  BY DEF Contains
<1>7. IsInjective(z)
  BY <1>1, <1>2, <1>3, <1>4, <1>6 DEF IsInjective
<1>8. \A e : Contains(z, e) <=> Contains(q, e) \/ e = s
  <2>. SUFFICES ASSUME NEW e PROVE Contains(z, e) <=> Contains(q, e) \/ e = s
    OBVIOUS
  <2>1. ASSUME Contains(z, e) PROVE Contains(q, e) \/ e = s
    BY <1>2, <1>4, <2>1 DEF Contains
  <2>2. ASSUME Contains(q, e) PROVE Contains(z, e)
    BY <1>2, <1>5, <2>2 DEF Contains
  <2>3. Contains(z, s)
    <3>1. Len(q) + 1 \in 1 .. Len(z)
      BY <1>1, <1>2
    <3>. QED
      BY <1>2, <3>1 DEF Contains
  <2>. QED
    BY <2>1, <2>2, <2>3
<1>. QED
  BY <1>2, <1>7, <1>8 DEF z

(* Queueing a task at the head: one that a native request interrupts.      *)
LEMMA ConsFacts ==
  ASSUME NEW T, NEW q \in Seq(T), NEW s \in T, ~Contains(q, s), IsInjective(q)
  PROVE  /\ <<s>> \o q \in Seq(T) /\ IsInjective(<<s>> \o q)
         /\ Len(<<s>> \o q) = Len(q) + 1
         /\ \A e : Contains(<<s>> \o q, e) <=> Contains(q, e) \/ e = s
<1>. DEFINE z == <<s>> \o q
<1>1. Len(q) \in Nat /\ DOMAIN q = 1 .. Len(q)
  BY LenProperties
<1>2. <<s>> \in Seq(T) /\ Len(<<s>>) = 1 /\ <<s>>[1] = s
  OBVIOUS
<1>3. /\ z \in Seq(T) /\ Len(z) = Len(q) + 1
      /\ \A i \in 1 .. Len(q) + 1 : z[i] = IF i <= 1 THEN <<s>>[i] ELSE q[i - 1]
  BY <1>1, <1>2, ConcatProperties
<1>4. DOMAIN z = 1 .. Len(q) + 1
  BY <1>3, LenProperties
<1>5. z[1] = s /\ \A i \in 1 .. Len(q) : i + 1 \in 1 .. Len(q) + 1 /\ z[i + 1] = q[i]
  <2>1. 1 \in 1 .. Len(q) + 1
    BY <1>1
  <2>2. \A i \in 1 .. Len(q) : i + 1 \in 1 .. Len(q) + 1 /\ ~(i + 1 <= 1) /\ (i + 1) - 1 = i
    BY <1>1
  <2>. HIDE DEF z
  <2>. QED
    BY <1>2, <1>3, <2>1, <2>2
<1>. HIDE DEF z
<1>6. \A i \in 1 .. Len(q) + 1 : i = 1 \/ \E j \in 1 .. Len(q) : i = j + 1
  <2>. SUFFICES ASSUME NEW i \in 1 .. Len(q) + 1, i # 1 PROVE \E j \in 1 .. Len(q) : i = j + 1
    OBVIOUS
  <2>1. i - 1 \in 1 .. Len(q) /\ i = (i - 1) + 1
    BY <1>1
  <2>. QED
    BY <2>1
<1>7. \A i \in 1 .. Len(q) : q[i] # s
  BY DEF Contains
<1>8. IsInjective(z)
  <2>. SUFFICES ASSUME NEW i \in 1 .. Len(q) + 1, NEW j \in 1 .. Len(q) + 1, z[i] = z[j]
                PROVE  i = j
    BY <1>4 DEF IsInjective
  <2>. QED
    <3>1. \A k, m \in 1 .. Len(q) : q[k] = q[m] => k = m
      BY <1>1 DEF IsInjective
    <3>2. CASE i = 1 /\ j # 1
      BY <1>5, <1>6, <1>7, <3>2
    <3>3. CASE i # 1 /\ j = 1
      BY <1>5, <1>6, <1>7, <3>3
    <3>4. CASE i # 1 /\ j # 1
      <4>1. PICK k \in 1 .. Len(q), m \in 1 .. Len(q) : i = k + 1 /\ j = m + 1
        BY <1>6, <3>4
      <4>2. z[i] = q[k] /\ z[j] = q[m]
        BY <1>5, <4>1
      <4>. QED
        BY <3>1, <4>1, <4>2
    <3>. QED
      BY <3>2, <3>3, <3>4
<1>9. \A e : Contains(z, e) <=> Contains(q, e) \/ e = s
  <2>. SUFFICES ASSUME NEW e PROVE Contains(z, e) <=> Contains(q, e) \/ e = s
    OBVIOUS
  <2>1. ASSUME Contains(z, e) PROVE Contains(q, e) \/ e = s
    <3>1. PICK i \in 1 .. Len(q) + 1 : z[i] = e
      BY <1>3, <2>1 DEF Contains
    <3>2. CASE i = 1
      BY <1>5, <3>1, <3>2
    <3>3. ASSUME NEW j \in 1 .. Len(q), i = j + 1 PROVE Contains(q, e)
      BY <1>5, <3>1, <3>3 DEF Contains
    <3>. QED
      BY <1>6, <3>1, <3>2, <3>3
  <2>2. ASSUME Contains(q, e) PROVE Contains(z, e)
    BY <1>3, <1>5, <2>2 DEF Contains
  <2>3. Contains(z, s)
    <3>1. 1 \in 1 .. Len(z)
      BY <1>1, <1>3
    <3>. QED
      BY <1>5, <3>1 DEF Contains
  <2>. QED
    BY <2>1, <2>2, <2>3
<1>. QED
  BY <1>3, <1>8, <1>9 DEF z

----------------------------------------------------------------------------
(* The inductive invariant.                                                *)

GroupType == [gen : 0 .. MaxGeneration, state : GroupStates, references : Nat,
              init_busy : BOOLEAN, initialized : BOOLEAN, quiescent : BOOLEAN]
TaskType == [owner : HandleType, state : TaskStates, age : 0 .. TickMod - 1,
             period : Nat \ {0}, step : BOOLEAN, quantum_left : 0 .. SliceTicks]

Types ==
  /\ group \in [GroupIds -> GroupType] /\ group_list \in Seq(GroupIds)
  /\ generation \in 0 .. MaxGeneration
  /\ task \in [Slots -> TaskType] /\ ready \in Seq(Slots)
  /\ records \in Seq(RecordType) /\ Len(records) <= MaxRecords
  /\ current \in Slots \cup {NONE} /\ elapsed \in 0 .. TickMod - 1
  /\ phase \in Phases /\ lease \in [Holders -> HandleType] /\ host_owner \in HandleType
  /\ native_pending \in BOOLEAN /\ pend \in BOOLEAN /\ hold \in BOOLEAN /\ fault \in BOOLEAN

(* Where the CPU is decides whether a task is current, and a fault is      *)
(* noticed before the next switch.                                         *)
Control ==
  /\ phase \in {"thread", "enter", "exit", "finish"} => current # NONE
  /\ phase \in {"native", "svc", "return", "select"} => current = NONE
  /\ phase \in {"svc", "select", "finish", "exit"} => ~fault
  /\ phase = "thread" /\ fault => pend
  /\ phase = "finish" => task[current].state # "RUNNING"

(* Storing one field of a group or of a task keeps its type: the lifecycle *)
(* calls of section.c store a state or a flag of one group, the scheduler  *)
(* a state, an age or a quantum of one task.                               *)
LEMMA GroupStored ==
  ASSUME NEW r \in GroupType, NEW st \in GroupStates
  PROVE  [r EXCEPT !.state = st] \in GroupType
  BY DEF GroupType

LEMMA TaskStored ==
  ASSUME NEW r \in TaskType
  PROVE  /\ \A st \in TaskStates : [r EXCEPT !.state = st] \in TaskType
         /\ \A age \in 0 .. TickMod - 1 : [r EXCEPT !.age = age] \in TaskType
         /\ \A left \in 0 .. SliceTicks : [r EXCEPT !.quantum_left = left] \in TaskType
<1>1. ASSUME NEW st \in TaskStates PROVE [r EXCEPT !.state = st] \in TaskType
  BY DEF TaskType
<1>2. ASSUME NEW age \in 0 .. TickMod - 1 PROVE [r EXCEPT !.age = age] \in TaskType
  BY DEF TaskType
<1>3. ASSUME NEW left \in 0 .. SliceTicks PROVE [r EXCEPT !.quantum_left = left] \in TaskType
  BY DEF TaskType
<1>. QED
  BY <1>1, <1>2, <1>3

(* Every handle kept anywhere names a resident incarnation.                *)
Residence ==
  /\ \A g \in GroupIds : group[g].gen <= generation
  /\ \A g \in GroupIds : group[g].gen # 0 => Contains(group_list, g)
  /\ \A s \in Slots : task[s].state = "FREE" => task[s].owner = NoHandle
  /\ \A s \in Slots : task[s].state # "FREE" => Resident(task[s].owner)
  /\ current # NONE => task[current].state # "FREE"
  /\ \A i \in 1 .. Len(records) : Resident(records[i].owner)
  /\ init # NONE => /\ init.handle \in HandleType /\ Resident(init.handle)
                    /\ group[init.handle.id].init_busy
  /\ \A p \in Holders : lease[p] # NoHandle => Resident(lease[p])

(* references counts the leases that are out.                              *)
LeasesCounted == \A g \in GroupIds :
  group[g].references = Cardinality({p \in Holders : lease[p].id = g})

CurrentIn(g) == current # NONE /\ task[current].owner.id = g

QuiescentRests == \A g \in GroupIds : group[g].quiescent =>
  /\ group[g].state = "REVOKED" /\ ~group[g].init_busy /\ group[g].references = 0
  /\ ~CurrentIn(g) /\ \A i \in 1 .. Len(records) : records[i].owner.id # g

(* The queue holds ready tasks only, each once, whatever has failed; while *)
(* nothing has failed it holds all of them, and each may run.              *)
QueueHoldsReady ==
  /\ IsInjective(ready)
  /\ \A s \in Slots : Contains(ready, s) => task[s].state \in {"NEW", "OLD"}

MayRun(s) ==
  LET state == group[task[s].owner.id].state
  IN state = "ENABLED" \/ (state = "DISABLED" /\ task[s].state = "OLD")

ReadyIsQueued == ~fault => \A s \in Slots :
  /\ task[s].state \in {"NEW", "OLD"} => Contains(ready, s) /\ MayRun(s)
  /\ task[s].state = "RUNNING" => s = current

(* Live records and tasks in TASK_OLD correspond one to one.               *)
RecordsPaired == ~fault =>
  /\ \A i \in 1 .. Len(records) : records[i].live =>
       task[records[i].task].state = "OLD" /\ task[records[i].task].owner = records[i].owner
  /\ \A i, j \in 1 .. Len(records) :
       records[i].live /\ records[j].live /\ records[i].task = records[j].task => i = j
  /\ \A s \in Slots : task[s].state = "OLD" =>
       \E i \in 1 .. Len(records) : records[i].live /\ records[i].task = s
  /\ records # << >> => records[1].live

(* What the states of the groups say about the CPU.                        *)
GroupsSettled == ~fault => \A g \in GroupIds :
  /\ group[g].state \in {"REVOKED", "PAUSED"} => ~group[g].init_busy /\ ~CurrentIn(g)
  /\ group[g].state = "REVOKING" => group[g].init_busy \/ CurrentIn(g)
  /\ group[g].state = "PAUSED" =>
       group[g].references = 0 /\ \A i \in 1 .. Len(records) : records[i].owner.id # g

HostFollows == ~fault =>
  /\ phase \in {"thread", "enter", "exit", "finish"} => host_owner = task[current].owner
  /\ phase \in {"native", "svc", "return"} => host_owner = NoHandle

IInv ==
  /\ Types /\ Control /\ Residence /\ LeasesCounted /\ QuiescentRests
  /\ QueueHoldsReady /\ ReadyIsQueued /\ RecordsPaired /\ GroupsSettled /\ HostFollows

----------------------------------------------------------------------------
(* What the shared parts of the transactions do, under the invariant.      *)

(* Handles and incarnations.                                               *)
LEMMA HandleFacts ==
  ASSUME Types, Residence
  PROVE  /\ \A h \in Handles : /\ h \in HandleType /\ h # NoHandle /\ h.id \in GroupIds
                               /\ h.id # NONE /\ h.gen \in Nat \ {0}
         /\ \A h \in HandleType : Resident(h) =>
              /\ h.id \in GroupIds /\ h.gen = group[h.id].gen /\ h.gen # 0 /\ h = Handle(h.id)
         /\ \A h \in HandleType : h.id \in GroupIds <=> h # NoHandle
<1>1. NONE \notin GroupIds /\ MaxGeneration \in Nat
  BY StlAssumption
<1>2. \A h \in HandleType : h # NoHandle => h \in [id : GroupIds, gen : 1 .. MaxGeneration]
  BY DEF HandleType
<1>3. \A h \in Handles : h \in [id : GroupIds, gen : 1 .. MaxGeneration]
  <2>1. generation \in Nat /\ generation <= MaxGeneration
    BY <1>1 DEF Types
  <2>2. 1 .. generation \subseteq 1 .. MaxGeneration
    BY <1>1, <2>1
  <2>. QED
    BY <2>2 DEF Handles
<1>4. \A h \in [id : GroupIds, gen : 1 .. MaxGeneration] :
        /\ h.id \in GroupIds /\ h # NoHandle /\ h \in HandleType /\ h.gen \in Nat \ {0}
        /\ h = [id |-> h.id, gen |-> h.gen]
  BY <1>1 DEF NoHandle, HandleType
<1>5. NoHandle.id \notin GroupIds
  BY <1>1 DEF NoHandle
<1>. QED
  BY <1>1, <1>2, <1>3, <1>4, <1>5 DEF Resident, Handle

(* Putting tasks to sleep and activating them keep the table well typed.   *)
LEMMA AsleepFacts ==
  ASSUME NEW tk \in [Slots -> TaskType], NEW q, NEW D
  PROVE  /\ Asleep(tk, q, D) \in [Slots -> TaskType]
         /\ \A s \in Slots :
              /\ Asleep(tk, q, D)[s].owner = tk[s].owner
              /\ s \in D /\ Contains(q, s) => Asleep(tk, q, D)[s].state = "SLEEPING"
              /\ ~(s \in D /\ Contains(q, s)) => Asleep(tk, q, D)[s] = tk[s]
<1>1. ASSUME NEW s \in Slots
      PROVE  /\ Asleep(tk, q, D)[s] \in TaskType
             /\ Asleep(tk, q, D)[s].owner = tk[s].owner
             /\ s \in D /\ Contains(q, s) => Asleep(tk, q, D)[s].state = "SLEEPING"
             /\ ~(s \in D /\ Contains(q, s)) => Asleep(tk, q, D)[s] = tk[s]
  BY DEF Asleep, TaskType, TaskStates
<1>2. Asleep(tk, q, D) \in [Slots -> TaskType]
  <2>1. Asleep(tk, q, D) = [s \in Slots |-> Asleep(tk, q, D)[s]]
    BY DEF Asleep
  <2>. QED
    BY <1>1, <2>1
<1>. QED
  BY <1>1, <1>2

(* activate_due starts sleeping tasks and touches no others.               *)
LEMMA ActivatedFacts ==
  ASSUME NEW tk \in [Slots -> TaskType]
  PROVE  /\ Activated(tk) \in [Slots -> TaskType]
         /\ \A s \in Slots :
              /\ Activated(tk)[s].owner = tk[s].owner
              /\ Due(tk, s) => tk[s].state = "SLEEPING" /\ Activated(tk)[s].state = "NEW"
              /\ ~Due(tk, s) => Activated(tk)[s] = tk[s]
<1>1. ASSUME NEW s \in Slots
      PROVE  /\ Activated(tk)[s] \in TaskType
             /\ Activated(tk)[s].owner = tk[s].owner
             /\ Due(tk, s) => tk[s].state = "SLEEPING" /\ Activated(tk)[s].state = "NEW"
             /\ ~Due(tk, s) => Activated(tk)[s] = tk[s]
  <2>1. TickMod \in Nat
    BY StlAssumption
  <2>2. tk[s] \in TaskType
    OBVIOUS
  <2>3. CASE Due(tk, s)
    <3>1. tk[s].age \in 0 .. TickMod - 1 /\ tk[s].period \in Nat \ {0} /\ tk[s].age >= tk[s].period
      BY <2>2, <2>3 DEF TaskType, Due
    <3>2. tk[s].age % tk[s].period \in 0 .. tk[s].period - 1
      BY <2>1, <3>1
    <3>3. tk[s].age % tk[s].period \in 0 .. TickMod - 1
      BY <2>1, <3>1, <3>2
    <3>4. Activated(tk)[s] = [tk[s] EXCEPT !.state = "NEW", !.age = tk[s].age % tk[s].period]
      BY <2>3 DEF Activated
    <3>. QED
      BY <2>2, <2>3, <3>3, <3>4 DEF TaskType, TaskStates, Due
  <2>4. CASE ~Due(tk, s)
    BY <2>2, <2>4 DEF Activated
  <2>. QED
    BY <2>3, <2>4
<1>2. Activated(tk) \in [Slots -> TaskType]
  <2>1. Activated(tk) = [s \in Slots |-> Activated(tk)[s]]
    BY DEF Activated
  <2>. QED
    BY <1>1, <2>1
<1>. QED
  BY <1>1, <1>2

(* The queue with the due tasks behind it, for a task table that differs   *)
(* from the current one in the states of resident tasks only.              *)
LEMMA ActivationFacts ==
  ASSUME Types, Residence, NEW q \in Seq(Slots), NEW tk,
         \A s \in Slots : /\ tk[s].owner = task[s].owner
                          /\ tk[s].state = "SLEEPING" => task[s].state # "FREE"
  PROVE  /\ WithDue(q, tk) \in Seq(Slots)
         /\ \A s : Contains(WithDue(q, tk), s) <=> Contains(q, s) \/ (s \in Slots /\ Due(tk, s))
         /\ IsInjective(q) /\ (\A s \in Slots : Contains(q, s) => tk[s].state # "SLEEPING")
              => IsInjective(WithDue(q, tk))
<1>1. \A s \in Slots : Due(tk, s) => Contains(group_list, task[s].owner.id)
  <2>. SUFFICES ASSUME NEW s \in Slots, Due(tk, s)
                PROVE  Contains(group_list, task[s].owner.id)
    OBVIOUS
  <2>1. task[s].owner \in HandleType /\ Resident(task[s].owner)
    BY DEF Due, Types, TaskType, Residence
  <2>2. task[s].owner.id \in GroupIds /\ group[task[s].owner.id].gen # 0
    BY <2>1, HandleFacts
  <2>. QED
    BY <2>2 DEF Residence
<1>2. \A s \in Slots : task[s].period \in Nat
  BY DEF Types, TaskType
<1>3. group_list \in Seq(GroupIds)
  BY DEF Types
<1>4. (\A s \in Slots : Contains(q, s) => tk[s].state # "SLEEPING")
        => \A s \in Slots : Contains(q, s) => ~Due(tk, s)
  BY DEF Due
<1>. QED
  BY <1>1, <1>2, <1>3, <1>4, WithDueFacts

(* Withdrawing the activations of a group that have not started.           *)
LEMMA WithdrawFacts ==
  ASSUME Types, QueueHoldsReady, NEW h, Withdraw(h)
  PROVE  /\ ready' \in Seq(Slots) /\ IsInjective(ready')
         /\ \A s \in Slots : Contains(ready', s) <=>
              Contains(ready, s) /\ ~(task[s].owner = h /\ task[s].state = "NEW")
         /\ task' \in [Slots -> TaskType]
         /\ \A s \in Slots :
              /\ task'[s].owner = task[s].owner
              /\ task[s].owner = h /\ task[s].state = "NEW" /\ Contains(ready, s)
                   => task'[s].state = "SLEEPING"
              /\ ~(task[s].owner = h /\ task[s].state = "NEW" /\ Contains(ready, s))
                   => task'[s] = task[s]
<1>. DEFINE D == {s \in TasksOf(h) : task[s].state = "NEW"}
<1>1. ready' = Removed(ready, D) /\ task' = Asleep(task, ready, D)
  BY DEF Withdraw
<1>2. \A s \in Slots : s \in D <=> task[s].owner = h /\ task[s].state = "NEW"
  BY DEF TasksOf
<1>. HIDE DEF D
<1>3. ready \in Seq(Slots) /\ task \in [Slots -> TaskType] /\ IsInjective(ready)
  BY DEF Types, QueueHoldsReady
<1>4. /\ Removed(ready, D) \in Seq(Slots) /\ IsInjective(Removed(ready, D))
      /\ \A e : Contains(Removed(ready, D), e) <=> Contains(ready, e) /\ e \notin D
  BY <1>3, RemovedFacts
<1>5. /\ Asleep(task, ready, D) \in [Slots -> TaskType]
      /\ \A s \in Slots :
           /\ Asleep(task, ready, D)[s].owner = task[s].owner
           /\ s \in D /\ Contains(ready, s) => Asleep(task, ready, D)[s].state = "SLEEPING"
           /\ ~(s \in D /\ Contains(ready, s)) => Asleep(task, ready, D)[s] = task[s]
  BY <1>3, AsleepFacts
<1>. QED
  BY <1>1, <1>2, <1>4, <1>5

(* Cancelling a group, over a queue and a task table that the transaction  *)
(* has already changed.                                                    *)
LEMMA CancelFacts ==
  ASSUME Types, NEW h, h.id \in GroupIds,
         NEW q \in Seq(Slots), IsInjective(q), NEW tk \in [Slots -> TaskType],
         NEW cur, CancelGroup(h, q, tk, cur)
  PROVE  /\ ready' \in Seq(Slots) /\ IsInjective(ready')
         /\ \A s \in Slots : Contains(ready', s) <=> Contains(q, s) /\ task[s].owner # h
         /\ task' \in [Slots -> TaskType]
         /\ \A s \in Slots :
              /\ task'[s].owner = tk[s].owner
              /\ task[s].owner = h /\ Contains(q, s) => task'[s].state = "SLEEPING"
              /\ ~(task[s].owner = h /\ Contains(q, s)) => task'[s] = tk[s]
         /\ records' \in Seq(RecordType) /\ Len(records') <= MaxRecords
         /\ group' \in [GroupIds -> GroupType]
         /\ \A g \in GroupIds \ {h.id} : group'[g] = group[g]
         /\ LET executing == group[h.id].init_busy \/ OwnedBy(cur, h)
            IN /\ executing => group'[h.id] = [group[h.id] EXCEPT !.state = "REVOKING"]
               /\ ~executing => group'[h.id] = [group[h.id] EXCEPT !.state = "REVOKED"]
<1>. DEFINE D == TasksOf(h)
<1>1. /\ ready' = Removed(q, D) /\ task' = Asleep(tk, q, D)
      /\ records' = Consumed(records, RecordsOf(h, records))
      /\ group' = [group EXCEPT ![h.id].state =
           IF group[h.id].init_busy \/ OwnedBy(cur, h) THEN "REVOKING" ELSE "REVOKED"]
  BY DEF CancelGroup
<1>2. \A s \in Slots : s \in D <=> task[s].owner = h
  BY DEF TasksOf
<1>. HIDE DEF D
<1>3. /\ Removed(q, D) \in Seq(Slots) /\ IsInjective(Removed(q, D))
      /\ \A e : Contains(Removed(q, D), e) <=> Contains(q, e) /\ e \notin D
  BY RemovedFacts
<1>4. /\ Asleep(tk, q, D) \in [Slots -> TaskType]
      /\ \A s \in Slots :
           /\ Asleep(tk, q, D)[s].owner = tk[s].owner
           /\ s \in D /\ Contains(q, s) => Asleep(tk, q, D)[s].state = "SLEEPING"
           /\ ~(s \in D /\ Contains(q, s)) => Asleep(tk, q, D)[s] = tk[s]
  BY AsleepFacts
<1>5. /\ ready' \in Seq(Slots) /\ IsInjective(ready')
      /\ \A s \in Slots : Contains(ready', s) <=> Contains(q, s) /\ task[s].owner # h
  BY <1>1, <1>2, <1>3
<1>6. /\ task' \in [Slots -> TaskType]
      /\ \A s \in Slots :
           /\ task'[s].owner = tk[s].owner
           /\ task[s].owner = h /\ Contains(q, s) => task'[s].state = "SLEEPING"
           /\ ~(task[s].owner = h /\ Contains(q, s)) => task'[s] = tk[s]
  BY <1>1, <1>2, <1>4
<1>7. records' \in Seq(RecordType) /\ Len(records') <= MaxRecords
  <2>1. records \in Seq(RecordType) /\ Len(records) <= MaxRecords /\ Len(records) \in Nat
    BY LenProperties DEF Types
  <2>2. MaxRecords \in Nat
    BY StlAssumption
  <2>. DEFINE z == Consumed(records, RecordsOf(h, records))
  <2>3. z \in Seq(RecordType) /\ \E k \in Nat : k <= Len(records) /\ Len(z) = Len(records) - k
    BY <2>1, ConsumedFacts
  <2>. HIDE DEF z
  <2>4. Len(z) <= MaxRecords
    BY <2>1, <2>2, <2>3
  <2>. QED
    BY <1>1, <2>3, <2>4 DEF z
<1>8. /\ group' \in [GroupIds -> GroupType]
      /\ \A g \in GroupIds \ {h.id} : group'[g] = group[g]
      /\ LET executing == group[h.id].init_busy \/ OwnedBy(cur, h)
         IN /\ executing => group'[h.id] = [group[h.id] EXCEPT !.state = "REVOKING"]
            /\ ~executing => group'[h.id] = [group[h.id] EXCEPT !.state = "REVOKED"]
  <2>. DEFINE after == IF group[h.id].init_busy \/ OwnedBy(cur, h) THEN "REVOKING" ELSE "REVOKED"
  <2>1. after \in GroupStates
    BY DEF GroupStates
  <2>2. group \in [GroupIds -> GroupType] /\ h.id \in GroupIds
    BY DEF Types
  <2>3. [group[h.id] EXCEPT !.state = after] \in GroupType
    BY <2>1, <2>2, GroupStored
  <2>4. group' = [group EXCEPT ![h.id] = [group[h.id] EXCEPT !.state = after]]
    BY <1>1
  <2>5. group'[h.id] = [group[h.id] EXCEPT !.state = after]
    BY <2>2, <2>4
  <2>. HIDE DEF after
  <2>6. group' \in [GroupIds -> GroupType] /\ \A g \in GroupIds \ {h.id} : group'[g] = group[g]
    BY <2>2, <2>3, <2>4
  <2>. QED
    BY <2>5, <2>6 DEF after
<1>. QED
  BY <1>5, <1>6, <1>7, <1>8

(* A revocation closes the group, empties its part of the queue and        *)
(* consumes its records.                                                   *)
LEMMA RevokeFacts ==
  ASSUME Types, QueueHoldsReady, NEW h, h.id \in GroupIds, Revoke(h)
  PROVE  /\ Resident(h) /\ Unlocked
         /\ ready' \in Seq(Slots) /\ IsInjective(ready')
         /\ \A s \in Slots : Contains(ready', s) <=> Contains(ready, s) /\ task[s].owner # h
         /\ \A s \in Slots :
              /\ task'[s].owner = task[s].owner
              /\ task[s].owner = h /\ Contains(ready, s) => task'[s].state = "SLEEPING"
              /\ ~(task[s].owner = h /\ Contains(ready, s)) => task'[s] = task[s]
         /\ records' = Consumed(records, RecordsOf(h, records))
         /\ \A g \in GroupIds \ {h.id} : group'[g] = group[g]
         /\ \E st \in {"REVOKING", "REVOKED"} :
              /\ group'[h.id] = [group[h.id] EXCEPT !.state = st]
              /\ st = "REVOKING" <=> group[h.id].init_busy \/ OwnedBy(current, h)
         /\ UNCHANGED <<group_list, generation, init, cpuVars, native_pending, phase, lease,
                        hostVars, fault>>
<1>1. CancelGroup(h, ready, task, current) /\ ready \in Seq(Slots) /\ IsInjective(ready)
      /\ task \in [Slots -> TaskType]
  BY DEF Revoke, Types, QueueHoldsReady
<1>2. /\ ready' \in Seq(Slots) /\ IsInjective(ready')
      /\ \A s \in Slots : Contains(ready', s) <=> Contains(ready, s) /\ task[s].owner # h
      /\ task' \in [Slots -> TaskType]
      /\ \A s \in Slots :
           /\ task'[s].owner = task[s].owner
           /\ task[s].owner = h /\ Contains(ready, s) => task'[s].state = "SLEEPING"
           /\ ~(task[s].owner = h /\ Contains(ready, s)) => task'[s] = task[s]
      /\ records' \in Seq(RecordType) /\ Len(records') <= MaxRecords
      /\ group' \in [GroupIds -> GroupType]
      /\ \A g \in GroupIds \ {h.id} : group'[g] = group[g]
      /\ LET executing == group[h.id].init_busy \/ OwnedBy(current, h)
         IN /\ executing => group'[h.id] = [group[h.id] EXCEPT !.state = "REVOKING"]
            /\ ~executing => group'[h.id] = [group[h.id] EXCEPT !.state = "REVOKED"]
  BY <1>1, CancelFacts
<1>3. records' = Consumed(records, RecordsOf(h, records))
  BY <1>1 DEF CancelGroup
<1>4. \E st \in {"REVOKING", "REVOKED"} :
        /\ group'[h.id] = [group[h.id] EXCEPT !.state = st]
        /\ st = "REVOKING" <=> group[h.id].init_busy \/ OwnedBy(current, h)
  BY <1>2
<1>. QED
  BY <1>2, <1>3, <1>4 DEF Revoke

(* One turn of the selection loop.  The head of the queue may always run,  *)
(* so the branch that drops it is never taken.                             *)
Started(s) ==
  /\ current' = s /\ task'[s].state = "RUNNING" /\ host_owner' = task[s].owner
  /\ phase' = IF phase = "svc" THEN "thread" ELSE "exit"
  /\ UNCHANGED <<fault, native_pending, pend>>
NotStarted(s) ==
  /\ current' = NONE /\ task'[s].state \in {"NEW", "OLD"}
  /\ host_owner' \in {NoHandle, host_owner}
  /\ phase' = "return" /\ fault' = TRUE /\ pend' = FALSE /\ native_pending' \in BOOLEAN
SelectionOf(s) ==
  /\ phase \in {"select", "svc"} /\ ~fault /\ current = NONE
  /\ task[s].state # "FREE" /\ MayRun(s)
  /\ task[s].state \in {"NEW", "OLD"} <=> Contains(ready, s)
  /\ task[s].state \in {"NEW", "OLD", "SLEEPING"}
  /\ ready' \in Seq(Slots) /\ IsInjective(ready')
  /\ \A e \in Slots : Contains(ready', e) <=> e # s /\ (Contains(ready, e) \/ Due(task, e))
  /\ task' \in [Slots -> TaskType]
  /\ \A e \in Slots :
       /\ task'[e].owner = task[e].owner
       /\ e # s /\ Due(task, e) => task[e].state = "SLEEPING" /\ task'[e].state = "NEW"
       /\ e # s /\ ~Due(task, e) => task'[e] = task[e]
  /\ Started(s) \/ NotStarted(s)
  /\ elapsed' = 0 /\ records' = History(s)
  /\ UNCHANGED <<group, group_list, generation, init, lease, hold>>

(* The selection loop meets only heads that may run: it dispatches one, or *)
(* returns to native because the host or the history refused.              *)
LEMMA SelectNextFacts ==
  ASSUME IInv, SelectNext
  PROVE  \E s \in Slots : SelectionOf(s)
<1>. DEFINE w == WithDue(ready, task)
            s == Head(w)
<1>1. phase \in {"select", "svc"} /\ ~fault /\ current = NONE /\ w # << >>
  BY DEF IInv, Control, SelectNext, Selecting, Candidates
<1>2. ready \in Seq(Slots) /\ task \in [Slots -> TaskType] /\ IsInjective(ready)
  BY DEF IInv, Types, QueueHoldsReady
<1>3. \A e \in Slots : Contains(ready, e) <=> task[e].state \in {"NEW", "OLD"}
  BY <1>1 DEF IInv, QueueHoldsReady, ReadyIsQueued
<1>4. /\ w \in Seq(Slots) /\ IsInjective(w)
      /\ \A e : Contains(w, e) <=> Contains(ready, e) \/ (e \in Slots /\ Due(task, e))
  BY <1>2, <1>3, ActivationFacts DEF IInv
<1>5. /\ s \in Slots /\ Contains(w, s) /\ Tail(w) \in Seq(Slots) /\ IsInjective(Tail(w))
      /\ \A e : Contains(Tail(w), e) <=> Contains(w, e) /\ e # s
  BY <1>1, <1>4, TailFacts
<1>6. SelectNext <=> /\ Selecting /\ ~native_pending /\ w # << >>
                     /\ IF Admissible(s)
                          THEN ready' = Tail(w) /\ Dispatch(s) /\ UNCHANGED group
                          ELSE /\ IF Resident(Owner(s)) /\ Closed(Owner(s))
                                    THEN CancelGroup(Owner(s), Tail(w), Activated(task), NONE)
                                    ELSE /\ ready' = Tail(w) /\ task' = Activated(task)
                                         /\ records' = Reaped(records) /\ UNCHANGED group
                               /\ UNCHANGED <<cpuVars, switchVars, host_owner, fault>>
                     /\ UNCHANGED <<group_list, generation, init, lease, hold>>
  BY DEF SelectNext, Candidates
<1>. HIDE DEF w, s
<1>7. task[s].state # "FREE" /\ task[s].state \in {"NEW", "OLD", "SLEEPING"} /\ MayRun(s)
  <2>1. CASE Contains(ready, s)
    BY <1>1, <1>3, <1>5, <2>1 DEF IInv, ReadyIsQueued
  <2>2. CASE Due(task, s)
    BY <2>2 DEF Due, MayRun, StateOf
  <2>. QED
    BY <1>4, <1>5, <2>1, <2>2
<1>8. Admissible(s)
  BY <1>5, <1>7 DEF Admissible, IInv, Residence, Owner, MayRun, StateOf
<1>9. /\ ready' = Tail(w) /\ Dispatch(s)
      /\ UNCHANGED <<group, group_list, generation, init, lease, hold>>
  BY <1>6, <1>8
<1>10. /\ Activated(task) \in [Slots -> TaskType]
       /\ \A e \in Slots :
            /\ Activated(task)[e].owner = task[e].owner
            /\ Due(task, e) => task[e].state = "SLEEPING" /\ Activated(task)[e].state = "NEW"
            /\ ~Due(task, e) => Activated(task)[e] = task[e]
  BY <1>2, ActivatedFacts
<1>11. /\ Selected(s) \in [Slots -> TaskType]
       /\ Selected(s)[s].owner = task[s].owner
       /\ Selected(s)[s].state = Activated(task)[s].state
       /\ \A e \in Slots : e # s => Selected(s)[e] = Activated(task)[e]
  <2>. DEFINE act == Activated(task)
              left == IF task[s].state = "OLD" THEN act[s].quantum_left ELSE SliceTicks
  <2>1. SliceTicks \in 0 .. SliceTicks
    BY StlAssumption
  <2>2. act \in [Slots -> TaskType] /\ act[s] \in TaskType /\ s \in Slots
    BY <1>5, <1>10
  <2>3. Selected(s) = [act EXCEPT ![s] = [act[s] EXCEPT !.quantum_left = left]]
    BY DEF Selected
  <2>4. act[s].owner = task[s].owner
    BY <1>10, <2>2
  <2>. HIDE DEF act
  <2>5. left \in 0 .. SliceTicks
    BY <2>1, <2>2 DEF TaskType
  <2>. HIDE DEF left
  <2>6. [act[s] EXCEPT !.quantum_left = left] \in TaskType
    BY <2>2, <2>5, TaskStored
  <2>7. Selected(s)[s] = [act[s] EXCEPT !.quantum_left = left]
        /\ \A e \in Slots : e # s => Selected(s)[e] = act[e]
    BY <2>2, <2>3
  <2>8. Selected(s) \in [Slots -> TaskType]
    BY <2>2, <2>3, <2>6
  <2>9. Selected(s)[s].owner = act[s].owner /\ Selected(s)[s].state = act[s].state
    BY <2>2, <2>7 DEF TaskType
  <2>. QED
    BY <2>4, <2>7, <2>8, <2>9 DEF act
<1>12. Selected(s)[s].state \in {"NEW", "OLD"}
  <2>1. task[s].state = "SLEEPING" => Due(task, s)
    BY <1>3, <1>4, <1>5
  <2>. QED
    BY <1>5, <1>7, <1>10, <1>11, <2>1
<1>13. \/ /\ task' = [Selected(s) EXCEPT ![s].state = "RUNNING"]
          /\ current' = s /\ elapsed' = 0 /\ host_owner' = task[s].owner
          /\ phase' = IF phase = "svc" THEN "thread" ELSE "exit"
          /\ UNCHANGED <<fault, native_pending, pend>>
       \/ task' = Selected(s) /\ NativeReturn(TRUE)
  BY <1>9 DEF Dispatch, Owner
<1>14. CASE task' = Selected(s) /\ NativeReturn(TRUE)
  <2>1. NotStarted(s) /\ elapsed' = 0
    <3>1. native_pending \in BOOLEAN /\ HostCommit \subseteq BOOLEAN
      BY StlAssumption DEF IInv, Types
    <3>. QED
      BY <1>12, <1>14, <3>1 DEF NativeReturn, NotStarted
  <2>2. records' = History(s)
    BY <1>9 DEF Dispatch
  <2>. QED
    BY <1>1, <1>3, <1>4, <1>5, <1>7, <1>9, <1>10, <1>11, <1>14, <2>1, <2>2 DEF SelectionOf
<1>15. CASE /\ task' = [Selected(s) EXCEPT ![s].state = "RUNNING"]
            /\ current' = s /\ elapsed' = 0 /\ host_owner' = task[s].owner
            /\ phase' = IF phase = "svc" THEN "thread" ELSE "exit"
            /\ UNCHANGED <<fault, native_pending, pend>>
  <2>1. /\ task' \in [Slots -> TaskType] /\ task'[s].owner = task[s].owner
        /\ task'[s].state = "RUNNING"
        /\ \A e \in Slots : e # s => task'[e] = Selected(s)[e]
    BY <1>5, <1>11, <1>15 DEF TaskType, TaskStates
  <2>2. Started(s)
    BY <1>15, <2>1 DEF Started
  <2>3. records' = History(s)
    BY <1>9 DEF Dispatch
  <2>. QED
    BY <1>1, <1>3, <1>4, <1>5, <1>7, <1>9, <1>10, <1>11, <1>15, <2>1, <2>2, <2>3 DEF SelectionOf
<1>. QED
  BY <1>13, <1>14, <1>15

(* A timer interrupt ages the tasks and, when no task is current, queues   *)
(* the ones that fall due.                                                 *)
LEMMA TickFacts ==
  ASSUME IInv, NEW d \in TickSteps, Tick(d)
  PROVE  /\ task' \in [Slots -> TaskType] /\ \A s \in Slots : task'[s].owner = task[s].owner
         /\ ready' \in Seq(Slots) /\ IsInjective(ready')
         /\ elapsed' \in 0 .. TickMod - 1 /\ pend' \in BOOLEAN /\ (pend => pend' \/ phase = "native")
         /\ \E D \in SUBSET Slots :
              /\ \A s \in Slots : Contains(ready', s) <=> Contains(ready, s) \/ s \in D
              /\ \A s \in D : /\ task[s].state = "SLEEPING" /\ task'[s].state = "NEW"
                              /\ group[task[s].owner.id].state = "ENABLED"
              /\ \A s \in Slots \ D : task'[s].state = task[s].state
<1>. DEFINE aged == [s \in Slots |->
              IF task[s].state # "FREE" /\ StateOf(task[s].owner) = "ENABLED"
                THEN [task[s] EXCEPT !.age = (@ + d) % TickMod] ELSE task[s]]
            ran == (elapsed + d) % TickMod
            D == {s \in Slots : Due(aged, s)}
<1>1. /\ TickMod \in Nat /\ TickMod > 0 /\ d \in Nat
      /\ task \in [Slots -> TaskType] /\ elapsed \in 0 .. TickMod - 1 /\ pend \in BOOLEAN
      /\ ready \in Seq(Slots) /\ IsInjective(ready)
  BY StlAssumption DEF IInv, Types, QueueHoldsReady
<1>2. ran \in 0 .. TickMod - 1
  BY <1>1
<1>3. ASSUME NEW s \in Slots
      PROVE  /\ aged[s] \in TaskType
             /\ aged[s].owner = task[s].owner /\ aged[s].state = task[s].state
  <2>1. task[s] \in TaskType /\ task[s].age \in 0 .. TickMod - 1
    BY <1>1 DEF TaskType
  <2>2. (task[s].age + d) % TickMod \in 0 .. TickMod - 1
    BY <1>1, <2>1
  <2>. QED
    BY <2>1, <2>2 DEF TaskType
<1>4. aged \in [Slots -> TaskType]
  BY <1>3
<1>5. \A s \in Slots : aged[s].owner = task[s].owner /\ aged[s].state = task[s].state
  BY <1>3
<1>6. IF current = NONE
        THEN /\ task' = Activated(aged) /\ ready' = WithDue(ready, aged)
             /\ UNCHANGED <<elapsed, pend>>
        ELSE /\ task' = aged /\ elapsed' = ran /\ UNCHANGED ready
             /\ IF phase \notin {"enter", "exit"} /\ ran >= task[current].quantum_left
                  THEN RequestSwitch ELSE UNCHANGED pend
  BY DEF Tick
<1>7. \A s : s \in D <=> s \in Slots /\ Due(aged, s)
  OBVIOUS
<1>. HIDE DEF aged, ran, D
<1>8. pend' \in BOOLEAN /\ (pend => pend' \/ phase = "native")
  BY <1>1, <1>6 DEF RequestSwitch, DispatchActive
<1>9. CASE current = NONE
  <2>1. /\ Activated(aged) \in [Slots -> TaskType]
        /\ \A s \in Slots :
             /\ Activated(aged)[s].owner = aged[s].owner
             /\ Due(aged, s) => aged[s].state = "SLEEPING" /\ Activated(aged)[s].state = "NEW"
             /\ ~Due(aged, s) => Activated(aged)[s] = aged[s]
    BY <1>4, ActivatedFacts
  <2>2. \A s \in Slots : Contains(ready, s) => aged[s].state # "SLEEPING"
    BY <1>5 DEF IInv, QueueHoldsReady
  <2>3. /\ WithDue(ready, aged) \in Seq(Slots) /\ IsInjective(WithDue(ready, aged))
        /\ \A s : Contains(WithDue(ready, aged), s) <=> Contains(ready, s) \/ (s \in Slots /\ Due(aged, s))
    BY <1>1, <1>5, <2>2, ActivationFacts DEF IInv
  <2>4. \A s \in Slots : Due(aged, s) => group[task[s].owner.id].state = "ENABLED"
    BY <1>5 DEF Due, StateOf
  <2>5. D \in SUBSET Slots
    BY <1>7
  <2>6. /\ \A s \in Slots : Contains(ready', s) <=> Contains(ready, s) \/ s \in D
        /\ \A s \in D : /\ task[s].state = "SLEEPING" /\ task'[s].state = "NEW"
                        /\ group[task[s].owner.id].state = "ENABLED"
        /\ \A s \in Slots \ D : task'[s].state = task[s].state
    BY <1>5, <1>6, <1>7, <1>9, <2>1, <2>3, <2>4
  <2>7. /\ task' \in [Slots -> TaskType] /\ \A s \in Slots : task'[s].owner = task[s].owner
        /\ ready' \in Seq(Slots) /\ IsInjective(ready') /\ elapsed' \in 0 .. TickMod - 1
    BY <1>1, <1>5, <1>6, <1>9, <2>1, <2>3
  <2>. QED
    BY <1>8, <2>5, <2>6, <2>7
<1>10. CASE current # NONE
  <2>1. {} \in SUBSET Slots
    OBVIOUS
  <2>2. /\ \A s \in Slots : Contains(ready', s) <=> Contains(ready, s) \/ s \in {}
        /\ \A s \in Slots \ {} : task'[s].state = task[s].state
    BY <1>5, <1>6, <1>10
  <2>. QED
    BY <1>1, <1>2, <1>4, <1>5, <1>6, <1>8, <1>10, <2>1, <2>2
<1>. QED
  BY <1>9, <1>10

(* A callback returns.                                                     *)
LEMMA CompleteFacts ==
  ASSUME IInv, Complete
  PROVE  /\ current \in Slots /\ task[current].state = "RUNNING" /\ phase = "thread" /\ ~fault
         /\ task' \in [Slots -> TaskType] /\ \A s \in Slots : task'[s].owner = task[s].owner
         /\ ready' \in Seq(Slots) /\ IsInjective(ready')
         /\ task'[current].state \in {"NEW", "SLEEPING"}
         /\ \A s \in Slots : Contains(ready', s) <=>
              (Contains(ready, s) /\ s # current) \/ (task'[s].state = "NEW" /\ task'[s].state # task[s].state)
         /\ \A s \in Slots :
              \/ s # current /\ task'[s] = task[s]
              \/ s = current /\ task'[s].state = "SLEEPING"
              \/ /\ task[s].state = "SLEEPING" \/ s = current
                 /\ task'[s].state = "NEW"
                 /\ group[task[s].owner.id].state = "ENABLED"
<1>1. /\ current \in Slots /\ task[current].state = "RUNNING" /\ phase = "thread" /\ ~fault
      /\ task \in [Slots -> TaskType] /\ ready \in Seq(Slots) /\ IsInjective(ready)
      /\ ~Contains(ready, current)
  <2>1. phase = "thread" /\ ~pend /\ task[current].state = "RUNNING"
    BY DEF Complete
  <2>. QED
    BY <2>1 DEF IInv, Types, Control, QueueHoldsReady
<1>2. PICK again \in BOOLEAN :
        LET tk == [task EXCEPT ![current].state = IF again THEN "NEW" ELSE "SLEEPING"]
        IN /\ again => StateOf(Owner(current)) = "ENABLED"
           /\ task' = Activated(tk)
           /\ ready' = WithDue(IF again THEN Append(ready, current) ELSE ready, tk)
  <2>1. PICK more \in BOOLEAN :
          LET again == more /\ Resident(Owner(current)) /\ StateOf(Owner(current)) = "ENABLED"
              tk == [task EXCEPT ![current].state = IF again THEN "NEW" ELSE "SLEEPING"]
          IN /\ task' = Activated(tk)
             /\ ready' = WithDue(IF again THEN Append(ready, current) ELSE ready, tk)
    BY DEF Complete
  <2>. DEFINE again == more /\ Resident(Owner(current)) /\ StateOf(Owner(current)) = "ENABLED"
  <2>2. again \in BOOLEAN /\ (again => StateOf(Owner(current)) = "ENABLED")
    OBVIOUS
  <2>. QED
    BY <2>1, <2>2
<1>. DEFINE tk == [task EXCEPT ![current].state = IF again THEN "NEW" ELSE "SLEEPING"]
            q == IF again THEN Append(ready, current) ELSE ready
<1>3. /\ tk \in [Slots -> TaskType] /\ tk[current].state = (IF again THEN "NEW" ELSE "SLEEPING")
      /\ \A s \in Slots : tk[s].owner = task[s].owner /\ (s # current => tk[s] = task[s])
  <2>. DEFINE st == IF again THEN "NEW" ELSE "SLEEPING"
  <2>1. st \in TaskStates
    BY DEF TaskStates
  <2>2. task \in [Slots -> TaskType] /\ current \in Slots /\ task[current] \in TaskType
    BY <1>1
  <2>3. tk = [task EXCEPT ![current] = [task[current] EXCEPT !.state = st]]
    OBVIOUS
  <2>. HIDE DEF st
  <2>4. [task[current] EXCEPT !.state = st] \in TaskType
    BY <2>1, <2>2, TaskStored
  <2>5. [task[current] EXCEPT !.state = st].state = st
        /\ [task[current] EXCEPT !.state = st].owner = task[current].owner
    BY <2>2 DEF TaskType
  <2>. HIDE DEF tk
  <2>6. tk \in [Slots -> TaskType] /\ tk[current] = [task[current] EXCEPT !.state = st]
        /\ \A s \in Slots : s # current => tk[s] = task[s]
    BY <2>2, <2>3, <2>4
  <2>. QED
    BY <2>5, <2>6 DEF st
<1>4. /\ q \in Seq(Slots) /\ IsInjective(q)
      /\ \A s : Contains(q, s) <=> Contains(ready, s) \/ (again /\ s = current)
  <2>1. CASE again
    BY <1>1, <2>1, AppendFacts
  <2>2. CASE ~again
    BY <1>1, <2>2
  <2>. QED
    BY <2>1, <2>2
<1>5. task' = Activated(tk) /\ ready' = WithDue(q, tk) /\ (again => StateOf(Owner(current)) = "ENABLED")
  BY <1>2
<1>. HIDE DEF tk, q
<1>6. \A s \in Slots : tk[s].owner = task[s].owner /\ (tk[s].state = "SLEEPING" => task[s].state # "FREE")
  BY <1>1, <1>3
<1>7. \A s \in Slots : Contains(q, s) => tk[s].state # "SLEEPING"
  BY <1>1, <1>3, <1>4 DEF IInv, QueueHoldsReady
<1>8. /\ WithDue(q, tk) \in Seq(Slots) /\ IsInjective(WithDue(q, tk))
      /\ \A s : Contains(WithDue(q, tk), s) <=> Contains(q, s) \/ (s \in Slots /\ Due(tk, s))
  BY <1>4, <1>6, <1>7, ActivationFacts DEF IInv
<1>9. /\ Activated(tk) \in [Slots -> TaskType]
      /\ \A s \in Slots :
           /\ Activated(tk)[s].owner = tk[s].owner
           /\ Due(tk, s) => tk[s].state = "SLEEPING" /\ Activated(tk)[s].state = "NEW"
           /\ ~Due(tk, s) => Activated(tk)[s] = tk[s]
  BY <1>3, ActivatedFacts
<1>10. \A s \in Slots : Due(tk, s) => group[task[s].owner.id].state = "ENABLED"
  BY <1>3 DEF Due, StateOf
<1>11. again => group[task[current].owner.id].state = "ENABLED"
  BY <1>5 DEF StateOf, Owner
<1>12. ASSUME NEW s \in Slots
       PROVE  /\ \/ s # current /\ task'[s] = task[s]
                 \/ s = current /\ task'[s].state = "SLEEPING"
                 \/ /\ task[s].state = "SLEEPING" \/ s = current
                    /\ task'[s].state = "NEW"
                    /\ group[task[s].owner.id].state = "ENABLED"
              /\ Contains(ready', s) <=>
                   (Contains(ready, s) /\ s # current)
                     \/ (task'[s].state = "NEW" /\ task'[s].state # task[s].state)
  <2>1. Contains(ready, s) => s # current
    BY <1>1
  <2>2. CASE Due(tk, s)
    BY <1>1, <1>3, <1>5, <1>8, <1>9, <1>10, <2>2
  <2>3. CASE ~Due(tk, s) /\ s = current
    BY <1>1, <1>3, <1>4, <1>5, <1>8, <1>9, <1>11, <2>3
  <2>4. CASE ~Due(tk, s) /\ s # current
    BY <1>1, <1>3, <1>4, <1>5, <1>8, <1>9, <2>1, <2>4
  <2>. QED
    BY <2>2, <2>3, <2>4
<1>13. task'[current].state \in {"NEW", "SLEEPING"}
  BY <1>1, <1>12
<1>14. \A s \in Slots : task'[s].owner = task[s].owner
  BY <1>3, <1>5, <1>9
<1>. QED
  BY <1>1, <1>5, <1>8, <1>9, <1>12, <1>13, <1>14

(* A queued task never belongs to a closed group, so cancelling such a     *)
(* group leaves the queue and the tasks in it alone.                       *)
LEMMA CancelClosedFacts ==
  ASSUME IInv, ~fault, NEW h, h \in HandleType, Resident(h), Closed(h),
         NEW q \in Seq(Slots), IsInjective(q), \A s \in Slots : Contains(q, s) => Contains(ready, s),
         NEW tk \in [Slots -> TaskType], NEW cur, CancelGroup(h, q, tk, cur)
  PROVE  /\ ready' \in Seq(Slots) /\ IsInjective(ready')
         /\ \A s \in Slots : Contains(ready', s) <=> Contains(q, s)
         /\ task' = tk
         /\ records' = Consumed(records, RecordsOf(h, records))
         /\ records' \in Seq(RecordType) /\ Len(records') <= MaxRecords
         /\ group' \in [GroupIds -> GroupType]
         /\ \A g \in GroupIds \ {h.id} : group'[g] = group[g]
         /\ LET executing == group[h.id].init_busy \/ OwnedBy(cur, h)
            IN /\ executing => group'[h.id] = [group[h.id] EXCEPT !.state = "REVOKING"]
               /\ ~executing => group'[h.id] = [group[h.id] EXCEPT !.state = "REVOKED"]
<1>1. h.id \in GroupIds /\ Types
  BY HandleFacts DEF IInv
<1>2. \A s \in Slots : Contains(ready, s) => task[s].owner # h
  <2>. SUFFICES ASSUME NEW s \in Slots, Contains(ready, s), task[s].owner = h PROVE FALSE
    OBVIOUS
  <2>1. MayRun(s)
    BY DEF IInv, QueueHoldsReady, ReadyIsQueued
  <2>. QED
    BY <2>1 DEF MayRun, Closed, StateOf
<1>3. /\ ready' \in Seq(Slots) /\ IsInjective(ready')
      /\ \A s \in Slots : Contains(ready', s) <=> Contains(q, s) /\ task[s].owner # h
      /\ task' \in [Slots -> TaskType]
      /\ \A s \in Slots :
           /\ task'[s].owner = tk[s].owner
           /\ task[s].owner = h /\ Contains(q, s) => task'[s].state = "SLEEPING"
           /\ ~(task[s].owner = h /\ Contains(q, s)) => task'[s] = tk[s]
      /\ records' \in Seq(RecordType) /\ Len(records') <= MaxRecords
      /\ group' \in [GroupIds -> GroupType]
      /\ \A g \in GroupIds \ {h.id} : group'[g] = group[g]
      /\ LET executing == group[h.id].init_busy \/ OwnedBy(cur, h)
         IN /\ executing => group'[h.id] = [group[h.id] EXCEPT !.state = "REVOKING"]
            /\ ~executing => group'[h.id] = [group[h.id] EXCEPT !.state = "REVOKED"]
  BY <1>1, CancelFacts
<1>4. \A s \in Slots : task'[s] = tk[s]
  BY <1>2, <1>3
<1>5. task' = tk
  BY <1>3, <1>4
<1>6. records' = Consumed(records, RecordsOf(h, records))
  BY DEF CancelGroup
<1>. QED
  BY <1>2, <1>3, <1>5, <1>6

(* A revoked task leaves the CPU.                                          *)
LEMMA DepartRevokedFacts ==
  ASSUME IInv, DepartRevoked
  PROVE  LET h == task[current].owner
         IN /\ phase = "enter" /\ ~fault /\ current \in Slots
            /\ h \in HandleType /\ Resident(h) /\ Closed(h) /\ h.id \in GroupIds
            /\ task' = [task EXCEPT ![current].state = "SLEEPING"]
            /\ task' \in [Slots -> TaskType]
            /\ ready' \in Seq(Slots) /\ IsInjective(ready')
            /\ \A s \in Slots : Contains(ready', s) <=> Contains(ready, s)
            /\ ~Contains(ready, current)
            /\ records' = Consumed(records, RecordsOf(h, records))
            /\ records' \in Seq(RecordType) /\ Len(records') <= MaxRecords
            /\ group' \in [GroupIds -> GroupType]
            /\ \A g \in GroupIds \ {h.id} : group'[g] = group[g]
            /\ group[h.id].init_busy => group'[h.id] = [group[h.id] EXCEPT !.state = "REVOKING"]
            /\ ~group[h.id].init_busy => group'[h.id] = [group[h.id] EXCEPT !.state = "REVOKED"]
<1>. DEFINE h == task[current].owner
            tk == [task EXCEPT ![current].state = "SLEEPING"]
<1>1. phase = "enter" /\ ~fault /\ current \in Slots /\ task \in [Slots -> TaskType]
      /\ ready \in Seq(Slots) /\ IsInjective(ready)
  BY DEF DepartRevoked, Departing, IInv, Control, Types, QueueHoldsReady
<1>2. h \in HandleType /\ Resident(h)
  BY <1>1 DEF IInv, Types, TaskType, Residence, Control
<1>3. Closed(h)
  BY <1>2 DEF DepartRevoked, Dead, Owner
<1>4. h.id \in GroupIds
  BY <1>2, HandleFacts DEF IInv
<1>5. CancelGroup(h, ready, tk, NONE)
  BY <1>2 DEF DepartRevoked, Owner
<1>6. tk \in [Slots -> TaskType]
  BY <1>1 DEF TaskType, TaskStates
<1>7. ~Contains(ready, current)
  <2>. SUFFICES ASSUME Contains(ready, current) PROVE FALSE
    OBVIOUS
  <2>1. MayRun(current)
    BY <1>1 DEF IInv, QueueHoldsReady, ReadyIsQueued
  <2>. QED
    BY <1>3, <2>1 DEF MayRun, Closed, StateOf
<1>8. ~OwnedBy(NONE, h)
  BY DEF OwnedBy
<1>. HIDE DEF h, tk
<1>9. /\ ready' \in Seq(Slots) /\ IsInjective(ready')
      /\ \A s \in Slots : Contains(ready', s) <=> Contains(ready, s)
      /\ task' = tk
      /\ records' = Consumed(records, RecordsOf(h, records))
      /\ records' \in Seq(RecordType) /\ Len(records') <= MaxRecords
      /\ group' \in [GroupIds -> GroupType]
      /\ \A g \in GroupIds \ {h.id} : group'[g] = group[g]
      /\ LET executing == group[h.id].init_busy \/ OwnedBy(NONE, h)
         IN /\ executing => group'[h.id] = [group[h.id] EXCEPT !.state = "REVOKING"]
            /\ ~executing => group'[h.id] = [group[h.id] EXCEPT !.state = "REVOKED"]
  BY <1>1, <1>2, <1>3, <1>5, <1>6, CancelClosedFacts
<1>. QED
  BY <1>1, <1>2, <1>3, <1>4, <1>6, <1>7, <1>8, <1>9 DEF h, tk

(* A running task leaves the CPU with its frame saved.                     *)
LEMMA DepartSavedFacts ==
  ASSUME IInv, DepartSaved
  PROVE  LET rest == Reaped(records)
             saved == [task |-> current, owner |-> task[current].owner, live |-> TRUE]
         IN /\ phase = "enter" /\ ~fault /\ current \in Slots /\ task[current].state = "RUNNING"
            /\ Resident(task[current].owner) /\ ~Closed(task[current].owner)
            /\ task' \in [Slots -> TaskType] /\ \A s \in Slots : task'[s].owner = task[s].owner
            /\ task'[current].state = "OLD"
            /\ \A s \in Slots : s # current => task'[s] = task[s]
            /\ ready' \in Seq(Slots) /\ IsInjective(ready')
            /\ \A s \in Slots : Contains(ready', s) <=> Contains(ready, s) \/ s = current
            /\ rest \in Seq(RecordType) /\ Len(rest) \in Nat /\ Len(rest) < MaxRecords
            /\ saved \in RecordType /\ records' = Append(rest, saved)
            /\ records' \in Seq(RecordType) /\ Len(records') <= MaxRecords
            /\ current' = NONE /\ elapsed' = 0 /\ phase' = "select"
            /\ UNCHANGED <<groupVars, native_pending, pend, lease, hostVars, fault>>
<1>. DEFINE rest == Reaped(records)
            saved == [task |-> current, owner |-> task[current].owner, live |-> TRUE]
            charged == IF elapsed = 0 THEN 1 ELSE elapsed
            keeps == native_pending /\ charged < task[current].quantum_left
<1>1. /\ phase = "enter" /\ ~fault /\ current \in Slots /\ task[current].state = "RUNNING"
      /\ task \in [Slots -> TaskType] /\ ready \in Seq(Slots) /\ IsInjective(ready)
      /\ ~Contains(ready, current) /\ records \in Seq(RecordType) /\ elapsed \in Nat
  <2>1. phase = "enter" /\ ~fault /\ task[current].state = "RUNNING"
    BY DEF DepartSaved, Departing
  <2>. QED
    <3>1. current \in Slots
      BY <2>1 DEF IInv, Types, Control
    <3>2. ~Contains(ready, current)
      BY <2>1, <3>1 DEF IInv, QueueHoldsReady
    <3>. QED
      BY <2>1, <3>1, <3>2 DEF IInv, Types, QueueHoldsReady
<1>2. /\ Resident(task[current].owner) /\ ~Closed(task[current].owner)
      /\ task[current].owner \in HandleType
  BY <1>1 DEF DepartSaved, Dead, Owner, TaskType
<1>3. /\ task' = [task EXCEPT ![current].state = "OLD", ![current].quantum_left =
                    IF keeps THEN @ - charged ELSE SliceTicks]
      /\ ready' = IF keeps THEN <<current>> \o ready ELSE Append(ready, current)
      /\ records' = Append(rest, saved) /\ Len(rest) < MaxRecords
      /\ current' = NONE /\ elapsed' = 0 /\ phase' = "select"
      /\ UNCHANGED <<groupVars, native_pending, pend, lease, hostVars, fault>>
  BY DEF DepartSaved, Leave, HasRecord, Owner
<1>4. (IF keeps THEN task[current].quantum_left - charged ELSE SliceTicks) \in 0 .. SliceTicks
  <2>1. SliceTicks \in Nat /\ task[current].quantum_left \in 0 .. SliceTicks
        /\ charged \in Nat
    BY <1>1, StlAssumption DEF TaskType
  <2>. HIDE DEF charged
  <2>. QED
    BY <2>1
<1>5. rest \in Seq(RecordType) /\ Len(rest) \in Nat
  BY <1>1, ReapedFacts, LenProperties
<1>6. saved \in RecordType
  BY <1>1, <1>2 DEF RecordType
<1>. HIDE DEF rest, saved, charged
<1>7. /\ records' \in Seq(RecordType) /\ Len(records') <= MaxRecords
  <2>1. MaxRecords \in Nat
    BY StlAssumption
  <2>2. records' \in Seq(RecordType) /\ Len(records') = Len(rest) + 1
    BY <1>3, <1>5, <1>6, AppendProperties
  <2>. QED
    BY <1>3, <1>5, <2>1, <2>2
<1>8. /\ ready' \in Seq(Slots) /\ IsInjective(ready')
      /\ \A s : Contains(ready', s) <=> Contains(ready, s) \/ s = current
  <2>1. CASE keeps
    <3>1. ready' = <<current>> \o ready
      BY <1>3, <2>1
    <3>. QED
      BY <1>1, <3>1, ConsFacts
  <2>2. CASE ~keeps
    <3>1. ready' = Append(ready, current)
      BY <1>3, <2>2
    <3>. QED
      BY <1>1, <3>1, AppendFacts
  <2>. QED
    BY <2>1, <2>2
<1>. HIDE DEF keeps
<1>9. /\ task' \in [Slots -> TaskType] /\ \A s \in Slots : task'[s].owner = task[s].owner
      /\ task'[current].state = "OLD"
      /\ \A s \in Slots : s # current => task'[s] = task[s]
  <2>. DEFINE left == IF keeps THEN task[current].quantum_left - charged ELSE SliceTicks
  <2>1. task' = [task EXCEPT ![current] = [@ EXCEPT !.state = "OLD", !.quantum_left = left]]
    BY <1>1, <1>3
  <2>2. left \in 0 .. SliceTicks
    BY <1>4
  <2>. HIDE DEF left
  <2>3. task[current] \in TaskType
    BY <1>1
  <2>4. [task[current] EXCEPT !.state = "OLD", !.quantum_left = left] \in TaskType
    BY <2>2, <2>3 DEF TaskType, TaskStates
  <2>. QED
    BY <1>1, <2>1, <2>4 DEF TaskType
<1>. QED
  BY <1>1, <1>2, <1>3, <1>5, <1>6, <1>7, <1>8, <1>9 DEF rest, saved

(* The next callback starts on the same stack, or the host refuses it.     *)
InlinedTo(s) ==
  /\ s \in Slots /\ task[s].state = "NEW" /\ group[task[s].owner.id].state = "ENABLED"
  /\ Contains(ready, s)
  /\ current' = s /\ elapsed' = 0 /\ host_owner' = task[s].owner
  /\ task' \in [Slots -> TaskType] /\ task'[s].state = "RUNNING"
  /\ \A e \in Slots : task'[e].owner = task[e].owner /\ (e # s => task'[e] = task[e])
  /\ ready' \in Seq(Slots) /\ IsInjective(ready')
  /\ \A e \in Slots : Contains(ready', e) <=> Contains(ready, e) /\ e # s
  /\ LET h == task[current].owner
     IN /\ group[h.id].state # "REVOKING" => UNCHANGED <<group, records>>
        /\ group[h.id].state = "REVOKING" =>
             /\ records' = Consumed(records, RecordsOf(h, records))
             /\ records' \in Seq(RecordType) /\ Len(records') <= MaxRecords
             /\ group' \in [GroupIds -> GroupType]
             /\ \A g \in GroupIds \ {h.id} : group'[g] = group[g]
             /\ group[h.id].init_busy => group'[h.id] = [group[h.id] EXCEPT !.state = "REVOKING"]
             /\ ~group[h.id].init_busy => group'[h.id] = [group[h.id] EXCEPT !.state = "REVOKED"]
  /\ UNCHANGED <<pend, fault>>

(* An inline completion starts the next task, or latches a fault and       *)
(* changes nothing else.                                                   *)
LEMMA FinishInlineFacts ==
  ASSUME IInv, FinishInline
  PROVE  /\ phase = "finish" /\ phase' = "thread" /\ ~fault /\ current \in Slots
         /\ task[current].owner \in HandleType /\ Resident(task[current].owner)
         /\ task[current].owner.id \in GroupIds
         /\ UNCHANGED <<group_list, generation, init, native_pending, lease, hold>>
         /\ \/ \E s \in Slots : InlinedTo(s)
            \/ fault' = TRUE /\ pend' = TRUE /\ UNCHANGED <<cpuVars, host_owner, queueVars, group>>
<1>. DEFINE s == Head(ready)
            h == task[current].owner
            tk == [task EXCEPT ![s].state = "RUNNING", ![s].quantum_left = SliceTicks]
<1>1. /\ phase = "finish" /\ phase' = "thread" /\ ~fault /\ current \in Slots
      /\ task \in [Slots -> TaskType] /\ ready \in Seq(Slots) /\ IsInjective(ready)
      /\ task[current].state # "FREE"
  BY DEF FinishInline, IInv, Types, Control, QueueHoldsReady, Residence
<1>2. h \in HandleType /\ Resident(h) /\ h.id \in GroupIds
  <2>1. h \in HandleType /\ Resident(h)
    BY <1>1 DEF IInv, Residence, TaskType
  <2>. QED
    BY <2>1, HandleFacts DEF IInv
<1>3. ready # << >> /\ task[s].state = "NEW" /\ group[task[s].owner.id].state = "ENABLED"
  BY DEF FinishInline, Inlinable, StateOf, Owner
<1>4. /\ s \in Slots /\ Contains(ready, s) /\ Tail(ready) \in Seq(Slots) /\ IsInjective(Tail(ready))
      /\ \A e : Contains(Tail(ready), e) <=> Contains(ready, e) /\ e # s
  BY <1>1, <1>3, TailFacts
<1>5. PICK ok \in HostCommit :
        IF ok
          THEN /\ current' = s /\ elapsed' = 0 /\ host_owner' = task[s].owner
               /\ IF Resident(h) /\ StateOf(h) = "REVOKING"
                    THEN CancelGroup(h, Tail(ready), tk, s)
                    ELSE ready' = Tail(ready) /\ task' = tk /\ UNCHANGED <<group, records>>
               /\ UNCHANGED <<pend, fault>>
          ELSE /\ fault' = TRUE /\ RequestSwitch
               /\ UNCHANGED <<cpuVars, host_owner, queueVars, group>>
  BY DEF FinishInline, Owner
<1>6. /\ tk \in [Slots -> TaskType] /\ tk[s].state = "RUNNING"
      /\ \A e \in Slots : tk[e].owner = task[e].owner /\ (e # s => tk[e] = task[e])
  <2>1. SliceTicks \in 0 .. SliceTicks
    BY StlAssumption
  <2>2. tk = [task EXCEPT ![s] = [@ EXCEPT !.state = "RUNNING", !.quantum_left = SliceTicks]]
    BY <1>1, <1>4
  <2>3. [task[s] EXCEPT !.state = "RUNNING", !.quantum_left = SliceTicks] \in TaskType
    BY <1>1, <1>4, <2>1 DEF TaskType, TaskStates
  <2>. QED
    BY <1>1, <1>4, <2>2, <2>3 DEF TaskType
<1>7. UNCHANGED <<group_list, generation, init, native_pending, lease, hold>>
  BY DEF FinishInline
<1>. HIDE DEF s, tk, h
<1>8. CASE ~ok
  <2>1. pend' = TRUE
    BY <1>1, <1>5, <1>8 DEF RequestSwitch, DispatchActive
  <2>. QED
    BY <1>1, <1>2, <1>5, <1>7, <1>8, <2>1 DEF h
<1>9. CASE ok /\ group[h.id].state # "REVOKING"
  <2>1. ready' = Tail(ready) /\ task' = tk /\ UNCHANGED <<group, records, pend, fault>>
        /\ current' = s /\ elapsed' = 0 /\ host_owner' = task[s].owner
    BY <1>5, <1>9 DEF StateOf
  <2>2. InlinedTo(s)
    BY <1>3, <1>4, <1>6, <1>9, <2>1 DEF InlinedTo, h
  <2>. QED
    BY <1>1, <1>2, <1>4, <1>7, <2>2 DEF h
<1>10. CASE ok /\ group[h.id].state = "REVOKING"
  <2>1. CancelGroup(h, Tail(ready), tk, s) /\ UNCHANGED <<pend, fault>>
        /\ current' = s /\ elapsed' = 0 /\ host_owner' = task[s].owner
    BY <1>2, <1>5, <1>10 DEF StateOf
  <2>2. Closed(h)
    BY <1>10 DEF Closed, StateOf
  <2>3. /\ ready' \in Seq(Slots) /\ IsInjective(ready')
        /\ \A e \in Slots : Contains(ready', e) <=> Contains(Tail(ready), e)
        /\ task' = tk
        /\ records' = Consumed(records, RecordsOf(h, records))
        /\ records' \in Seq(RecordType) /\ Len(records') <= MaxRecords
        /\ group' \in [GroupIds -> GroupType]
        /\ \A g \in GroupIds \ {h.id} : group'[g] = group[g]
        /\ LET executing == group[h.id].init_busy \/ OwnedBy(s, h)
           IN /\ executing => group'[h.id] = [group[h.id] EXCEPT !.state = "REVOKING"]
              /\ ~executing => group'[h.id] = [group[h.id] EXCEPT !.state = "REVOKED"]
    BY <1>1, <1>2, <1>4, <1>6, <2>1, <2>2, CancelClosedFacts
  <2>4. ~OwnedBy(s, h)
    BY <1>3, <1>10 DEF OwnedBy
  <2>5. InlinedTo(s)
    BY <1>3, <1>4, <1>6, <1>10, <2>1, <2>3, <2>4 DEF InlinedTo, h
  <2>. QED
    BY <1>1, <1>2, <1>4, <1>7, <2>5 DEF h
<1>. QED
  BY <1>8, <1>9, <1>10

(* Reaping and consuming never lengthen the history.                       *)
LEMMA HistoryTypes ==
  ASSUME Types, NEW which
  PROVE  /\ Reaped(records) \in Seq(RecordType) /\ Len(Reaped(records)) <= MaxRecords
         /\ Consumed(records, which) \in Seq(RecordType)
         /\ Len(Consumed(records, which)) <= MaxRecords
<1>1. records \in Seq(RecordType) /\ Len(records) <= MaxRecords /\ Len(records) \in Nat
      /\ MaxRecords \in Nat
  BY StlAssumption, LenProperties DEF Types
<1>. DEFINE y == Reaped(records)
            z == Consumed(records, which)
<1>2. y \in Seq(RecordType) /\ \E k \in Nat : k <= Len(records) /\ Len(y) = Len(records) - k
  BY <1>1, ReapedFacts
<1>3. z \in Seq(RecordType) /\ \E k \in Nat : k <= Len(records) /\ Len(z) = Len(records) - k
  BY <1>1, ConsumedFacts
<1>. HIDE DEF y, z
<1>4. Len(y) <= MaxRecords /\ Len(z) <= MaxRecords
  BY <1>1, <1>2, <1>3
<1>. QED
  BY <1>2, <1>3, <1>4 DEF y, z

(* A return to native clears the CPU, and the host's owner unless it fails. *)
LEMMA NativeReturnFacts ==
  ASSUME Types, NEW faulty \in BOOLEAN, NativeReturn(faulty)
  PROVE  /\ native_pending' \in BOOLEAN /\ host_owner' \in HandleType /\ fault' \in BOOLEAN
         /\ current' = NONE /\ elapsed' = 0 /\ pend' = FALSE /\ phase' = "return"
         /\ ~fault' => ~faulty /\ host_owner' = NoHandle
<1>1. HostCommit \subseteq BOOLEAN
  BY StlAssumption
<1>. QED
  BY <1>1 DEF NativeReturn, Types, HandleType

----------------------------------------------------------------------------
(* The steps preserve each part of the invariant.                          *)

(* The tables stay well typed.                                             *)
LEMMA TypesStep ==
  ASSUME IInv, [Next]_vars
  PROVE  Types'
<1>. USE DEF groupVars, queueVars, cpuVars, switchVars, hostVars
<1>1. /\ 0 \in 0 .. TickMod - 1 /\ TickMod \in Nat /\ MaxGeneration \in Nat
      /\ NONE \notin GroupIds /\ HostHold \subseteq BOOLEAN
  BY StlAssumption
<1>2. Types /\ Residence
  BY DEF IInv
<1>3. \A h \in Handles : h \in HandleType /\ h.id \in GroupIds
  BY <1>2, HandleFacts
<1>4. CASE UNCHANGED vars
  BY <1>2, <1>4 DEF vars, Types
<1>5. ASSUME NEW g \in GroupIds, Register(g) PROVE Types'
  <2>0. /\ generation < MaxGeneration /\ generation' = generation + 1
        /\ group' = [group EXCEPT ![g] = [Absent EXCEPT !.gen = generation']]
        /\ group_list' = <<g>> \o group_list
        /\ UNCHANGED <<init, ready, records, cpuVars, switchVars, lease, hostVars, fault>>
    BY <1>5 DEF Register
  <2>1. generation' \in 1 .. MaxGeneration /\ generation' \in 0 .. MaxGeneration
    <3>1. generation \in Nat
      BY <1>2 DEF Types
    <3>. QED
      BY <1>1, <2>0, <3>1
  <2>2. [Absent EXCEPT !.gen = generation'] \in GroupType
    BY <2>1 DEF Absent, GroupType, GroupStates
  <2>3. group' \in [GroupIds -> GroupType]
    BY <1>2, <2>0, <2>2 DEF Types
  <2>4. group_list' \in Seq(GroupIds)
    <3>1. <<g>> \in Seq(GroupIds) /\ group_list \in Seq(GroupIds)
      BY <1>2 DEF Types
    <3>. QED
      BY <2>0, <3>1, ConcatProperties
  <2>5. task' \in [Slots -> TaskType]
    <3>. DEFINE pos(s) == Cardinality({f \in FreeSlots : f <= s})
                loaded(i) == [FreeTask EXCEPT !.owner = [id |-> g, gen |-> generation'],
                                !.state = "SLEEPING", !.period = Image[g][i].period,
                                !.step = Image[g][i].step]
    <3>1. \A i \in DOMAIN Image[g] : loaded(i) \in TaskType
      <4>. SUFFICES ASSUME NEW i \in DOMAIN Image[g] PROVE loaded(i) \in TaskType
        OBVIOUS
      <4>1. Image[g] \in Seq([period : Nat \ {0}, step : BOOLEAN])
        BY StlAssumption
      <4>2. Image[g][i] \in [period : Nat \ {0}, step : BOOLEAN]
        BY <4>1, LenProperties, ElementOfSeq
      <4>3. [id |-> g, gen |-> generation'] \in HandleType /\ 0 \in 0 .. SliceTicks
        BY <2>1, StlAssumption DEF HandleType
      <4>. QED
        BY <1>1, <4>2, <4>3 DEF TaskType, TaskStates, FreeTask
    <3>2. task' = [s \in Slots |-> IF s \in FreeSlots /\ pos(s) \in DOMAIN Image[g]
                                     THEN loaded(pos(s)) ELSE task[s]]
      BY <1>5 DEF Register
    <3>. HIDE DEF pos, loaded
    <3>. QED
      BY <1>2, <3>1, <3>2 DEF Types
  <2>. QED
    BY <1>2, <2>0, <2>1, <2>3, <2>4, <2>5 DEF Types
<1>6. ASSUME NEW h \in Handles, InitBegin(h) PROVE Types'
  BY <1>2, <1>3, <1>6 DEF InitBegin, Types, GroupType
<1>7. CASE InitCall
  BY <1>2, <1>7 DEF InitCall, Types
<1>8. CASE InitEnd
  <2>1. init # NONE /\ init.handle.id \in GroupIds
    BY <1>2, <1>8, HandleFacts DEF InitEnd, Residence
  <2>2. group' \in [GroupIds -> GroupType]
    <3>. DEFINE g == init.handle.id
    <3>1. group' = [group EXCEPT ![g] = IF Closed(init.handle)
                      THEN [group[g] EXCEPT !.init_busy = FALSE, !.state = "REVOKED"]
                      ELSE [group[g] EXCEPT !.init_busy = FALSE, !.initialized = TRUE]]
      BY <1>8 DEF InitEnd
    <3>. HIDE DEF g
    <3>2. group[g] \in GroupType
      BY <1>2, <2>1 DEF Types, g
    <3>3. /\ [group[g] EXCEPT !.init_busy = FALSE, !.state = "REVOKED"] \in GroupType
          /\ [group[g] EXCEPT !.init_busy = FALSE, !.initialized = TRUE] \in GroupType
      BY <3>2 DEF GroupType, GroupStates
    <3>. QED
      BY <1>2, <3>1, <3>3 DEF Types
  <2>. QED
    BY <1>2, <1>8, <2>2 DEF InitEnd, Types
<1>9. ASSUME NEW h \in Handles, Quiescent(h) PROVE Types'
  BY <1>2, <1>3, <1>9, HistoryTypes DEF Quiescent, Types, GroupType
<1>10. ASSUME NEW h \in Handles, Forget(h) PROVE Types'
  <2>1. Absent \in GroupType
    BY <1>1 DEF Absent, GroupType, GroupStates
  <2>2. FreeTask \in TaskType
    BY <1>1, StlAssumption DEF FreeTask, TaskType, TaskStates, HandleType
  <2>3. group_list' \in Seq(GroupIds)
    BY <1>2, <1>10, RemovedFacts DEF Forget, Types
  <2>. QED
    BY <1>2, <1>10, <2>1, <2>2, <2>3 DEF Forget, Types
<1>11. ASSUME NEW h \in Handles, Enable(h) PROVE Types'
  <2>1. group' \in [GroupIds -> GroupType]
    <3>1. group' = [group EXCEPT ![h.id] = [group[h.id] EXCEPT !.state = "ENABLED"]]
      BY <1>11 DEF Enable
    <3>2. [group[h.id] EXCEPT !.state = "ENABLED"] \in GroupType
      BY <1>2, <1>3, GroupStored DEF Types, GroupStates
    <3>. QED
      BY <1>2, <1>3, <3>1, <3>2 DEF Types
  <2>2. \A s \in Slots : [task[s] EXCEPT !.age = 0] \in TaskType
    <3>1. 0 \in 0 .. TickMod - 1 /\ \A s \in Slots : task[s] \in TaskType
      BY <1>1, <1>2 DEF Types
    <3>. QED
      BY <3>1, TaskStored
  <2>3. task' \in [Slots -> TaskType]
    BY <1>2, <1>11, <2>2 DEF Enable, Types
  <2>. QED
    BY <1>2, <1>11, <2>1, <2>3 DEF Enable, Types
<1>12. ASSUME NEW h \in Handles, Disable(h) PROVE Types'
  <2>1. Withdraw(h)
    BY <1>12 DEF Disable
  <2>2. ready' \in Seq(Slots) /\ task' \in [Slots -> TaskType]
    BY <2>1, WithdrawFacts DEF IInv
  <2>3. group' \in [GroupIds -> GroupType]
    <3>1. group' = [group EXCEPT ![h.id] = [group[h.id] EXCEPT !.state = "DISABLED"]]
      BY <1>12 DEF Disable
    <3>2. [group[h.id] EXCEPT !.state = "DISABLED"] \in GroupType
      BY <1>2, <1>3, GroupStored DEF Types, GroupStates
    <3>. QED
      BY <1>2, <1>3, <3>1, <3>2 DEF Types
  <2>. QED
    BY <1>2, <2>1, <2>2, <2>3, <1>12 DEF Disable, Withdraw, Types
<1>13. ASSUME NEW h \in Handles, Pause(h) PROVE Types'
  <2>1. Withdraw(h)
    BY <1>13 DEF Pause
  <2>2. ready' \in Seq(Slots) /\ task' \in [Slots -> TaskType]
    BY <2>1, WithdrawFacts DEF IInv
  <2>3. group' \in [GroupIds -> GroupType]
    <3>1. group' = [group EXCEPT ![h.id] = [group[h.id] EXCEPT !.state = "PAUSED"]]
      BY <1>13 DEF Pause
    <3>2. [group[h.id] EXCEPT !.state = "PAUSED"] \in GroupType
      BY <1>2, <1>3, GroupStored DEF Types, GroupStates
    <3>. QED
      BY <1>2, <1>3, <3>1, <3>2 DEF Types
  <2>. QED
    BY <1>2, <2>1, <2>2, <2>3, <1>13 DEF Pause, Withdraw, Types
<1>14. ASSUME NEW h \in Handles, Revoke(h) PROVE Types'
  <2>1. CancelGroup(h, ready, task, current) /\ ready \in Seq(Slots) /\ IsInjective(ready)
        /\ task \in [Slots -> TaskType]
    BY <1>14 DEF Revoke, IInv, Types, QueueHoldsReady
  <2>2. /\ ready' \in Seq(Slots) /\ task' \in [Slots -> TaskType]
        /\ records' \in Seq(RecordType) /\ Len(records') <= MaxRecords
        /\ group' \in [GroupIds -> GroupType]
    BY <1>2, <1>3, <2>1, CancelFacts
  <2>. QED
    BY <1>2, <1>14, <2>2 DEF Revoke, RequestSwitch, DispatchActive, Types
<1>15. ASSUME NEW h \in Handles, NEW p \in Holders, Acquire(p, h) PROVE Types'
  <2>1. group' \in [GroupIds -> GroupType]
    <3>1. group' = [group EXCEPT ![h.id].references = @ + 1]
      BY <1>15 DEF Acquire
    <3>2. group[h.id].references + 1 \in Nat
      BY <1>2, <1>3 DEF Types, GroupType
    <3>. QED
      BY <1>2, <1>3, <3>1, <3>2 DEF Types, GroupType
  <2>2. lease' \in [Holders -> HandleType]
    BY <1>2, <1>3, <1>15 DEF Acquire, Types
  <2>. QED
    BY <1>2, <1>15, <2>1, <2>2 DEF Acquire, Types
<1>16. ASSUME NEW p \in Holders, Release(p) PROVE Types'
  <2>1. NoHandle \in HandleType /\ lease' \in [Holders -> HandleType]
    BY <1>2, <1>16 DEF Release, Types, HandleType
  <2>2. group' \in [GroupIds -> GroupType]
    <3>1. CASE ~(Resident(lease[p]) /\ group[lease[p].id].references > 0)
      BY <1>2, <1>16, <3>1 DEF Release, Types
    <3>2. CASE Resident(lease[p]) /\ group[lease[p].id].references > 0
      <4>1. lease[p].id \in GroupIds
        BY <1>2, <3>2, HandleFacts DEF Types
      <4>2. group[lease[p].id].references - 1 \in Nat
        BY <1>2, <3>2, <4>1 DEF Types, GroupType
      <4>. QED
        BY <1>2, <1>16, <3>2, <4>1, <4>2 DEF Release, Types, GroupType
    <3>. QED
      BY <3>1, <3>2
  <2>. QED
    BY <1>2, <1>16, <2>1, <2>2 DEF Release, Types
<1>17. CASE Yield \/ RequestNative
  BY <1>2, <1>17 DEF Yield, RequestNative, RequestSwitch, DispatchActive, Types
<1>18. CASE HostService
  BY <1>1, <1>2, <1>18 DEF HostService, Types
<1>19. ASSUME NEW d \in TickSteps, Tick(d) PROVE Types'
  <2>1. /\ task' \in [Slots -> TaskType] /\ ready' \in Seq(Slots)
        /\ elapsed' \in 0 .. TickMod - 1 /\ pend' \in BOOLEAN
    BY <1>19, TickFacts
  <2>. QED
    BY <1>2, <1>19, <2>1 DEF Tick, Types
<1>20. CASE Run \/ ReturnDone \/ PendSV \/ PendSVExit \/ DepartHeld \/ FinishSwitch
  BY <1>2, <1>20 DEF Run, ReturnDone, PendSV, PendSVExit, DepartHeld, FinishSwitch, RequestSwitch,
                     DispatchActive, Types, Phases
<1>21. CASE DepartFault
  BY <1>1, <1>2, <1>21, NativeReturnFacts DEF DepartFault, Types, Phases
<1>22. CASE DepartRevoked
  BY <1>1, <1>2, <1>22, DepartRevokedFacts DEF DepartRevoked, Leave, Types, Phases
<1>23. CASE DepartSaved
  BY <1>1, <1>2, <1>23, DepartSavedFacts DEF Types, Phases
<1>24. CASE DepartExhausted
  BY <1>1, <1>2, <1>24, HistoryTypes DEF DepartExhausted, Types, Phases
<1>25. CASE DepartDone
  BY <1>1, <1>2, <1>25 DEF DepartDone, Leave, Types, Phases
<1>26. CASE SelectNative
  BY <1>1, <1>2, <1>26, NativeReturnFacts DEF SelectNative, Types, Phases
<1>27. CASE SelectIdle
  BY <1>1, <1>2, <1>27, NativeReturnFacts, HistoryTypes DEF SelectIdle, Types, Phases
<1>28. CASE SelectNext
  <2>1. PICK s \in Slots : SelectionOf(s)
    BY <1>28, SelectNextFacts
  <2>2. records' \in Seq(RecordType) /\ Len(records') <= MaxRecords
    BY <1>2, <2>1, HistoryTypes DEF SelectionOf, History
  <2>3. task[s].owner \in HandleType /\ NoHandle \in HandleType
    BY <1>2, <2>1 DEF Types, TaskType, HandleType
  <2>. QED
    BY <1>1, <1>2, <2>1, <2>2, <2>3 DEF SelectionOf, Started, NotStarted, Types, Phases
<1>29. CASE Complete
  BY <1>2, <1>29, CompleteFacts DEF Complete, Types, Phases
<1>30. CASE FinishInline
  <2>1. /\ phase' = "thread"
        /\ UNCHANGED <<group_list, generation, init, native_pending, lease, hold>>
        /\ \/ \E s \in Slots : InlinedTo(s)
           \/ fault' = TRUE /\ pend' = TRUE /\ UNCHANGED <<cpuVars, host_owner, queueVars, group>>
    BY <1>30, FinishInlineFacts
  <2>2. ASSUME NEW s \in Slots, InlinedTo(s) PROVE Types'
    <3>1. task[s].owner \in HandleType
      BY <1>2 DEF Types, TaskType
    <3>2. group' \in [GroupIds -> GroupType] /\ records' \in Seq(RecordType) /\ Len(records') <= MaxRecords
      BY <1>2, <2>2 DEF InlinedTo, Types
    <3>. QED
      BY <1>1, <1>2, <2>1, <2>2, <3>1, <3>2 DEF InlinedTo, Types, Phases
  <2>3. ASSUME fault' = TRUE, pend' = TRUE, UNCHANGED <<cpuVars, host_owner, queueVars, group>>
        PROVE  Types'
    BY <1>2, <2>1, <2>3 DEF Types, Phases
  <2>. QED
    BY <2>1, <2>2, <2>3
<1>. QED
  BY <1>4, <1>5, <1>6, <1>7, <1>8, <1>9, <1>10, <1>11, <1>12, <1>13, <1>14, <1>15, <1>16, <1>17,
     <1>18, <1>19, <1>20, <1>21, <1>22, <1>23, <1>24, <1>25, <1>26, <1>27, <1>28, <1>29, <1>30
  DEF Next, Dispatcher, API

(* Outside the transactions of the switch the CPU stays where it is.       *)
LEMMA ControlStep ==
  ASSUME IInv, [Next]_vars
  PROVE  Control'
<1>. USE DEF groupVars, queueVars, cpuVars, switchVars, hostVars
<1>1. Types /\ Control /\ NONE \notin Slots
  BY StlAssumption DEF IInv
<1>2. CASE UNCHANGED vars
  BY <1>1, <1>2 DEF vars, Control
<1>3. ASSUME phase # "finish", UNCHANGED <<phase, current, fault, pend>> PROVE Control'
  BY <1>1, <1>3 DEF Control
<1>4. ASSUME \/ \E g \in GroupIds : Register(g)
             \/ \E h \in Handles : InitBegin(h) \/ Quiescent(h) \/ Forget(h)
             \/ InitCall \/ InitEnd
      PROVE  Control'
  BY <1>3, <1>4 DEF Register, InitBegin, InitCall, InitEnd, Quiescent, Forget
<1>5. ASSUME \/ \E h \in Handles : \/ Enable(h) \/ Disable(h) \/ Pause(h)
                                   \/ \E p \in Holders : Acquire(p, h)
             \/ \E p \in Holders : Release(p)
             \/ HostService
      PROVE  Control'
  <2>1. phase # "finish" /\ UNCHANGED <<phase, current, fault, pend>>
    BY <1>5 DEF Enable, Disable, Pause, Withdraw, Acquire, Release, HostService, Unlocked
  <2>. QED
    BY <1>3, <2>1
<1>6. ASSUME \/ \E h \in Handles : Revoke(h)
             \/ Yield \/ RequestNative
      PROVE  Control'
  <2>1. phase # "finish" /\ UNCHANGED <<phase, current, fault>>
        /\ (pend' = pend \/ pend' = DispatchActive)
    BY <1>6 DEF Revoke, Yield, RequestNative, RequestSwitch, Unlocked
  <2>. QED
    <3>1. phase = "thread" /\ pend => pend'
      BY <1>1, <2>1 DEF DispatchActive
    <3>. QED
      BY <1>1, <2>1, <3>1 DEF Control
<1>7. ASSUME NEW d \in TickSteps, Tick(d) PROVE Control'
  <2>1. phase # "finish" /\ UNCHANGED <<phase, current, fault>> /\ (pend => pend' \/ phase = "native")
    BY <1>7, TickFacts DEF Tick, Unlocked
  <2>. QED
    BY <1>1, <2>1 DEF Control
<1>8. CASE Run \/ ReturnDone \/ PendSV \/ PendSVExit \/ DepartHeld \/ DepartExhausted
  BY <1>1, <1>8 DEF Run, ReturnDone, PendSV, PendSVExit, DepartHeld, DepartExhausted, Departing,
                    Control, Types
<1>9. CASE FinishSwitch
  BY <1>1, <1>9 DEF FinishSwitch, RequestSwitch, DispatchActive, Control
<1>10. CASE DepartFault \/ SelectNative \/ SelectIdle
  <2>1. current' = NONE /\ phase' = "return"
    BY <1>10 DEF DepartFault, SelectNative, SelectIdle, NativeReturn
  <2>. QED
    BY <2>1 DEF Control
<1>11. CASE DepartRevoked \/ DepartDone \/ DepartSaved
  <2>1. current' = NONE /\ phase' = "select" /\ ~fault /\ UNCHANGED fault
    BY <1>11 DEF DepartRevoked, DepartDone, DepartSaved, Departing, Leave
  <2>. QED
    BY <2>1 DEF Control
<1>12. CASE SelectNext
  <2>1. PICK s \in Slots : SelectionOf(s)
    BY <1>12, SelectNextFacts
  <2>. QED
    BY <1>1, <2>1 DEF SelectionOf, Started, NotStarted, Control
<1>13. CASE Complete
  <2>1. /\ current \in Slots /\ task'[current].state \in {"NEW", "SLEEPING"} /\ ~fault
        /\ phase' = "finish" /\ UNCHANGED <<current, fault>>
    BY <1>13, CompleteFacts DEF Complete
  <2>. QED
    BY <1>1, <2>1 DEF Control
<1>14. CASE FinishInline
  <2>1. /\ phase = "finish" /\ phase' = "thread" /\ ~fault /\ current \in Slots
        /\ \/ \E s \in Slots : InlinedTo(s)
           \/ fault' = TRUE /\ pend' = TRUE /\ UNCHANGED <<cpuVars, host_owner, queueVars, group>>
    BY <1>14, FinishInlineFacts
  <2>2. ASSUME NEW s \in Slots, InlinedTo(s) PROVE Control'
    <3>1. current' = s /\ ~fault'
      BY <2>1, <2>2 DEF InlinedTo
    <3>. QED
      BY <1>1, <2>1, <3>1 DEF Control
  <2>3. ASSUME fault' = TRUE, pend' = TRUE, UNCHANGED <<cpuVars, host_owner, queueVars, group>>
        PROVE  Control'
    BY <1>1, <2>1, <2>3 DEF Control
  <2>. QED
    BY <2>1, <2>2, <2>3
<1>. QED
  BY <1>2, <1>4, <1>5, <1>6, <1>7, <1>8, <1>9, <1>10, <1>11, <1>12, <1>13, <1>14
  DEF Next, Dispatcher, API

(* The records that survive a transaction are records of before it.        *)
LEMMA SurvivingRecords ==
  ASSUME Types, NEW which
  PROVE  /\ \A i \in 1 .. Len(Reaped(records)) : \E j \in 1 .. Len(records) :
              Reaped(records)[i] = records[j]
         /\ \A i \in 1 .. Len(Consumed(records, which)) : \E j \in 1 .. Len(records) :
              /\ Consumed(records, which)[i].task = records[j].task
              /\ Consumed(records, which)[i].owner = records[j].owner
<1>1. records \in Seq(RecordType)
  BY DEF Types
<1>2. \A i \in 1 .. Len(Reaped(records)) : \E j \in 1 .. Len(records) : Reaped(records)[i] = records[j]
  BY <1>1, ReapedFacts
<1>3. \A i \in 1 .. Len(Consumed(records, which)) : \E j \in 1 .. Len(records) :
        /\ Consumed(records, which)[i].task = records[j].task
        /\ Consumed(records, which)[i].owner = records[j].owner
  BY <1>1, ConsumedFacts
<1>. QED
  BY <1>2, <1>3

(* What Resident says of the state after a step.                           *)
ResidentAfter(h) == h # NoHandle /\ group'[h.id].gen = h.gen

(* Residence survives whatever keeps the incarnations and the owners.      *)
LEMMA ResidenceKept ==
  ASSUME Types, Types', Residence,
         \A g \in GroupIds : group'[g].gen = group[g].gen,
         UNCHANGED <<group_list, generation>>,
         \A s \in Slots : /\ task'[s].owner = task[s].owner
                          /\ task'[s].state = "FREE" <=> task[s].state = "FREE",
         current' # NONE => task'[current'].state # "FREE",
         \A i \in 1 .. Len(records') : Resident(records'[i].owner),
         init' # NONE => /\ init'.handle \in HandleType /\ Resident(init'.handle)
                         /\ group'[init'.handle.id].init_busy,
         \A p \in Holders : lease'[p] # NoHandle => Resident(lease'[p])
  PROVE  Residence'
<1>1. \A h \in HandleType : Resident(h) => ResidentAfter(h)
  BY HandleFacts DEF Resident, ResidentAfter
<1>2. \A i \in 1 .. Len(records') : records'[i].owner \in HandleType
  <2>1. records' \in Seq(RecordType)
    BY DEF Types
  <2>2. \A i \in 1 .. Len(records') : records'[i] \in RecordType
    BY <2>1, ElementOfSeq
  <2>. QED
    BY <2>2 DEF RecordType
<1>3. \A p \in Holders : lease'[p] \in HandleType
  BY DEF Types
<1>4. \A s \in Slots : task[s].owner \in HandleType
  BY DEF Types, TaskType
<1>5. \A s \in Slots : task'[s].state # "FREE" => ResidentAfter(task'[s].owner)
  BY <1>1, <1>4 DEF Residence
<1>6. \A i \in 1 .. Len(records') : ResidentAfter(records'[i].owner)
  BY <1>1, <1>2
<1>7. \A p \in Holders : lease'[p] # NoHandle => ResidentAfter(lease'[p])
  BY <1>1, <1>3
<1>8. init' # NONE => ResidentAfter(init'.handle)
  BY <1>1
<1>9. /\ \A g \in GroupIds : group'[g].gen <= generation'
      /\ \A g \in GroupIds : group'[g].gen # 0 => Contains(group_list', g)
      /\ \A s \in Slots : task'[s].state = "FREE" => task'[s].owner = NoHandle
  BY DEF Residence
<1>. QED
  BY <1>5, <1>6, <1>7, <1>8, <1>9 DEF Residence, Resident, ResidentAfter

(* Changing the state of one group changes nothing else about any group.   *)
LEMMA StateEdited ==
  ASSUME Types, NEW g \in GroupIds, NEW st, group'[g] = [group[g] EXCEPT !.state = st],
         \A o \in GroupIds \ {g} : group'[o] = group[o]
  PROVE  /\ group'[g].state = st
         /\ \A o \in GroupIds : /\ group'[o].gen = group[o].gen
                                /\ group'[o].references = group[o].references
                                /\ group'[o].init_busy = group[o].init_busy
                                /\ group'[o].quiescent = group[o].quiescent
<1>1. group[g] \in GroupType
  BY DEF Types
<1>2. /\ group'[g].state = st /\ group'[g].gen = group[g].gen
      /\ group'[g].references = group[g].references
      /\ group'[g].init_busy = group[g].init_busy
      /\ group'[g].quiescent = group[g].quiescent
  BY <1>1 DEF GroupType
<1>. QED
  BY <1>2

(* No step leaves a handle to an incarnation that is gone.                 *)
LEMMA ResidenceStep ==
  ASSUME IInv, [Next]_vars
  PROVE  Residence'
<1>. USE DEF groupVars, queueVars, cpuVars, switchVars, hostVars
<1>1. Types /\ Types' /\ Control /\ Residence
  BY TypesStep DEF IInv
<1>2. \A h \in Handles : h \in HandleType /\ h # NoHandle /\ h.id \in GroupIds
  BY <1>1, HandleFacts
<1>3. \A s \in Slots : task[s].state # "FREE" => Resident(task[s].owner)
  BY <1>1 DEF Residence
<1>4. \A i \in 1 .. Len(records) : Resident(records[i].owner)
  BY <1>1 DEF Residence
<1>5. \A which :
        /\ \A i \in 1 .. Len(Reaped(records)) : Resident(Reaped(records)[i].owner)
        /\ \A i \in 1 .. Len(Consumed(records, which)) :
             Resident(Consumed(records, which)[i].owner)
  BY <1>1, <1>4, SurvivingRecords
<1>17. \A i \in 1 .. Len(records) : records[i].owner \in HandleType
  <2>1. records \in Seq(RecordType)
    BY <1>1 DEF Types
  <2>2. \A i \in 1 .. Len(records) : records[i] \in RecordType
    BY <2>1, ElementOfSeq
  <2>. QED
    BY <2>2 DEF RecordType
<1>. DEFINE SameGroups == /\ \A g \in GroupIds : group'[g].gen = group[g].gen
                          /\ UNCHANGED <<group_list, generation>>
            SameTasks == \A s \in Slots :
                           /\ task'[s].owner = task[s].owner
                           /\ task'[s].state = "FREE" <=> task[s].state = "FREE"
            CurrentTaken == current' # NONE => task'[current'].state # "FREE"
            RecordsLive == \A i \in 1 .. Len(records') : Resident(records'[i].owner)
            InitLive == init' # NONE => /\ init'.handle \in HandleType /\ Resident(init'.handle)
                                        /\ group'[init'.handle.id].init_busy
            LeasesLive == \A p \in Holders : lease'[p] # NoHandle => Resident(lease'[p])
<1>6. ASSUME SameGroups, SameTasks, CurrentTaken, RecordsLive, InitLive, LeasesLive
      PROVE  Residence'
  BY <1>1, <1>6, ResidenceKept
<1>7. UNCHANGED records => RecordsLive
  BY <1>4
<1>8. UNCHANGED <<init, group>> => InitLive
  BY <1>1 DEF Residence
<1>9. UNCHANGED lease => LeasesLive
  BY <1>1 DEF Residence
<1>10. SameTasks /\ UNCHANGED current => CurrentTaken
  BY <1>1 DEF Residence, Types
<1>11. UNCHANGED task => SameTasks
  OBVIOUS
<1>12. UNCHANGED <<group, group_list, generation>> => SameGroups
  OBVIOUS
<1>13. current' = NONE => CurrentTaken
  OBVIOUS
<1>14. /\ records' = Reaped(records) => RecordsLive
       /\ \A which : records' = Consumed(records, which) => RecordsLive
  BY <1>5
<1>15. init # NONE => init.handle \in HandleType /\ Resident(init.handle) /\ init.handle.id \in GroupIds
                      /\ group[init.handle.id].init_busy
  BY <1>1, HandleFacts DEF Residence
<1>16. ASSUME UNCHANGED init, \A g \in GroupIds : group'[g].init_busy = group[g].init_busy
       PROVE  InitLive
  BY <1>15, <1>16
<1>. HIDE DEF SameGroups, SameTasks, CurrentTaken, RecordsLive, InitLive, LeasesLive
(* Steps that leave the tables alone.                                      *)
<1>20. ASSUME UNCHANGED <<groupVars, task, lease>>, current' \in {current, NONE},
              records' \in {records, Reaped(records)}
       PROVE  Residence'
  BY <1>6, <1>7, <1>8, <1>9, <1>10, <1>11, <1>12, <1>13, <1>14, <1>20
<1>21. CASE UNCHANGED vars
  BY <1>20, <1>21 DEF vars
<1>22. ASSUME \/ Yield \/ RequestNative \/ HostService \/ Run \/ ReturnDone \/ PendSV \/ PendSVExit
              \/ DepartFault \/ DepartHeld \/ DepartExhausted \/ DepartDone
              \/ SelectNative \/ SelectIdle \/ FinishSwitch
       PROVE  Residence'
  <2>1. /\ UNCHANGED <<groupVars, task, lease>> /\ current' \in {current, NONE}
        /\ records' \in {records, Reaped(records)}
    BY <1>22 DEF Yield, RequestNative, HostService, Run, ReturnDone, PendSV, PendSVExit,
                 DepartFault, DepartHeld, DepartExhausted, DepartDone, Leave,
                 SelectNative, SelectIdle, FinishSwitch, NativeReturn
  <2>. QED
    BY <1>20, <2>1
<1>23. ASSUME NEW g \in GroupIds, Register(g) PROVE Residence'
  <2>1. /\ group[g].gen = 0 /\ phase = "native" /\ generation' = generation + 1
        /\ group' = [group EXCEPT ![g] = [Absent EXCEPT !.gen = generation']]
        /\ group_list' = <<g>> \o group_list
        /\ UNCHANGED <<init, ready, records, cpuVars, switchVars, lease, hostVars, fault>>
    BY <1>23 DEF Register
  <2>2. generation \in Nat /\ current = NONE
    BY <1>1, <2>1 DEF Types, Control
  <2>3. group'[g].gen = generation' /\ \A o \in GroupIds \ {g} : group'[o] = group[o]
    BY <1>1, <2>1 DEF Types, Absent
  <2>4. \A h \in HandleType : Resident(h) => ResidentAfter(h) /\ h.id # g
    BY <1>1, <2>1, <2>3, HandleFacts DEF Resident, ResidentAfter
  <2>5. \A o \in GroupIds : group'[o].gen <= generation'
    <3>1. \A o \in GroupIds : group[o].gen \in Nat /\ group[o].gen <= generation
      BY <1>1 DEF Types, GroupType, Residence
    <3>. QED
      BY <2>1, <2>2, <2>3, <3>1
  <2>6. \A o \in GroupIds : group'[o].gen # 0 => Contains(group_list', o)
    <3>1. <<g>> \in Seq(GroupIds) /\ Len(<<g>>) = 1 /\ <<g>>[1] = g /\ group_list \in Seq(GroupIds)
          /\ Len(group_list) \in Nat
      BY <1>1, LenProperties DEF Types
    <3>2. /\ Len(group_list') = 1 + Len(group_list)
          /\ \A i \in 1 .. 1 + Len(group_list) :
               group_list'[i] = IF i <= 1 THEN <<g>>[i] ELSE group_list[i - 1]
      BY <2>1, <3>1, ConcatProperties
    <3>3. Contains(group_list', g)
      <4>1. 1 \in 1 .. Len(group_list') /\ group_list'[1] = g
        BY <3>1, <3>2
      <4>. QED
        BY <4>1 DEF Contains
    <3>4. ASSUME NEW o \in GroupIds, Contains(group_list, o) PROVE Contains(group_list', o)
      <4>1. PICK i \in 1 .. Len(group_list) : group_list[i] = o
        BY <3>4 DEF Contains
      <4>2. i + 1 \in 1 .. Len(group_list') /\ ~(i + 1 <= 1) /\ (i + 1) - 1 = i
        BY <3>1, <3>2
      <4>3. group_list'[i + 1] = o
        BY <3>2, <4>1, <4>2
      <4>. QED
        BY <4>2, <4>3 DEF Contains
    <3>. QED
      BY <1>1, <2>3, <3>3, <3>4 DEF Residence
  <2>7. ASSUME NEW s \in Slots
        PROVE  /\ task'[s].state = "FREE" => task'[s].owner = NoHandle
               /\ task'[s].state # "FREE" => ResidentAfter(task'[s].owner)
    <3>1. \/ task'[s] = task[s]
          \/ task'[s].state = "SLEEPING" /\ task'[s].owner = [id |-> g, gen |-> generation']
      BY <1>23 DEF Register, FreeTask
    <3>2. CASE task'[s] = task[s]
      BY <1>1, <2>4, <3>2 DEF Residence, Types, TaskType
    <3>3. CASE task'[s].state = "SLEEPING" /\ task'[s].owner = [id |-> g, gen |-> generation']
      <4>1. [id |-> g, gen |-> generation'] # NoHandle
        BY StlAssumption DEF NoHandle
      <4>. QED
        BY <2>3, <3>3, <4>1 DEF ResidentAfter
    <3>. QED
      BY <3>1, <3>2, <3>3
  <2>8. \A i \in 1 .. Len(records') : ResidentAfter(records'[i].owner)
    BY <1>4, <1>17, <2>1, <2>4
  <2>9. init' # NONE => /\ init'.handle \in HandleType /\ ResidentAfter(init'.handle)
                        /\ group'[init'.handle.id].init_busy
    BY <1>15, <2>1, <2>3, <2>4
  <2>10. \A p \in Holders : lease'[p] # NoHandle => ResidentAfter(lease'[p])
    BY <1>1, <2>1, <2>4 DEF Residence, Types
  <2>. QED
    BY <2>1, <2>2, <2>5, <2>6, <2>7, <2>8, <2>9, <2>10
    DEF Residence, Resident, ResidentAfter
<1>24. ASSUME NEW h \in Handles, Forget(h) PROVE Residence'
  <2>1. /\ phase = "native" /\ Retired(h, records) /\ Resident(h)
        /\ group' = [group EXCEPT ![h.id] = Absent]
        /\ group_list' = Removed(group_list, {h.id})
        /\ task' = [s \in Slots |-> IF s \in TasksOf(h) THEN FreeTask ELSE task[s]]
        /\ UNCHANGED <<generation, init, ready, records, cpuVars, switchVars, lease, hostVars, fault>>
    BY <1>24 DEF Forget
  <2>2. current = NONE /\ h \in HandleType /\ h # NoHandle /\ h.id \in GroupIds
    BY <1>1, <1>2, <2>1 DEF Control
  <2>3. group'[h.id].gen = 0 /\ \A g \in GroupIds \ {h.id} : group'[g] = group[g]
    BY <1>1, <2>1, <2>2 DEF Types, Absent
  <2>4. \A o \in HandleType : Resident(o) /\ o # h => ResidentAfter(o) /\ o.id # h.id
    BY <1>1, <2>1, <2>2, <2>3, HandleFacts DEF Resident, ResidentAfter
  <2>5. ~group[h.id].init_busy /\ group[h.id].references = 0 /\ RecordsOf(h, records) = {}
    BY <2>1 DEF Retired, Executing
  <2>6. \A g \in GroupIds : group'[g].gen <= generation' /\ (group'[g].gen # 0 => Contains(group_list', g))
    <3>1. \A e : Contains(group_list', e) <=> Contains(group_list, e) /\ e # h.id
      BY <1>1, <2>1, RemovedFacts DEF Types
    <3>2. 0 <= generation
      BY <1>1 DEF Types
    <3>. QED
      BY <1>1, <2>1, <2>3, <3>1, <3>2 DEF Residence
  <2>7. ASSUME NEW s \in Slots
        PROVE  /\ task'[s].state = "FREE" => task'[s].owner = NoHandle
               /\ task'[s].state # "FREE" => ResidentAfter(task'[s].owner)
    <3>1. CASE task[s].owner = h
      BY <2>1, <3>1 DEF TasksOf, FreeTask
    <3>2. CASE task[s].owner # h
      <4>1. task'[s] = task[s]
        BY <2>1, <3>2 DEF TasksOf
      <4>. QED
        BY <1>1, <2>4, <3>2, <4>1 DEF Residence, Types, TaskType
    <3>. QED
      BY <3>1, <3>2
  <2>8. ASSUME NEW i \in 1 .. Len(records') PROVE ResidentAfter(records'[i].owner)
    <3>1. records \in Seq(RecordType) /\ records' = records
      BY <1>1, <2>1 DEF Types
    <3>2. records[i].owner \in HandleType /\ i \in DOMAIN records
      BY <1>17, <3>1, LenProperties
    <3>3. records[i].owner # h
      BY <2>5, <3>2 DEF RecordsOf
    <3>. QED
      BY <1>4, <2>4, <3>1, <3>2, <3>3
  <2>9. init' # NONE => /\ init'.handle \in HandleType /\ ResidentAfter(init'.handle)
                        /\ group'[init'.handle.id].init_busy
    BY <1>15, <2>1, <2>3, <2>4, <2>5
  <2>10. ASSUME NEW p \in Holders, lease'[p] # NoHandle PROVE ResidentAfter(lease'[p])
    <3>1. lease' = lease /\ lease[p] \in HandleType /\ Resident(lease[p])
      BY <1>1, <2>1, <2>10 DEF Types, Residence
    <3>2. lease[p].id # h.id
      <4>. SUFFICES ASSUME lease[p].id = h.id PROVE FALSE
        OBVIOUS
      <4>. DEFINE L == {q \in Holders : lease[q].id = h.id}
      <4>1. IsFiniteSet(L)
        BY StlAssumption, FS_Subset
      <4>2. Cardinality(L) = 0
        BY <2>2, <2>5 DEF IInv, LeasesCounted
      <4>3. L = {}
        BY <4>1, <4>2, FS_EmptySet
      <4>. QED
        BY <4>3
    <3>3. lease[p] # h
      BY <3>2
    <3>. QED
      BY <2>4, <3>1, <3>3
  <2>. QED
    BY <2>1, <2>2, <2>6, <2>7, <2>8, <2>9, <2>10
    DEF Residence, Resident, ResidentAfter
<1>25. ASSUME NEW h \in Handles, InitBegin(h) PROVE Residence'
  <2>1. UNCHANGED <<group_list, generation, queueVars, cpuVars, switchVars, lease, hostVars, fault>>
        /\ group' = [group EXCEPT ![h.id].init_busy = TRUE] /\ Resident(h)
        /\ init' = [handle |-> h, left |-> InitCalls[h.id]]
    BY <1>25 DEF InitBegin
  <2>2. SameGroups
    BY <1>1, <2>1 DEF SameGroups, Types
  <2>3. InitLive
    BY <1>1, <1>2, <2>1 DEF InitLive, Types, GroupType
  <2>. QED
    BY <1>6, <1>7, <1>9, <1>10, <1>11, <2>1, <2>2, <2>3
<1>26. CASE InitCall
  <2>1. UNCHANGED <<group, group_list, generation, queueVars, cpuVars, switchVars, lease, hostVars, fault>>
        /\ init # NONE /\ init' = [init EXCEPT !.left = @ - 1]
    BY <1>26 DEF InitCall
  <2>2. InitLive
    <3>1. init # NONE /\ init.handle \in HandleType /\ Resident(init.handle)
          /\ group[init.handle.id].init_busy
      BY <1>15, <2>1
    <3>2. init'.handle = init.handle
      BY <2>1
    <3>. QED
      BY <2>1, <3>1, <3>2 DEF InitLive
  <2>. QED
    BY <1>6, <1>7, <1>9, <1>10, <1>11, <1>12, <2>1, <2>2
<1>27. CASE InitEnd
  <2>1. UNCHANGED <<group_list, generation, queueVars, cpuVars, switchVars, lease, hostVars, fault>>
        /\ init # NONE /\ init' = NONE
        /\ group' = [group EXCEPT ![init.handle.id] =
             IF Closed(init.handle)
               THEN [@ EXCEPT !.init_busy = FALSE, !.state = "REVOKED"]
               ELSE [@ EXCEPT !.init_busy = FALSE, !.initialized = TRUE]]
    BY <1>27 DEF InitEnd
  <2>2. SameGroups
    BY <1>1, <1>15, <2>1 DEF SameGroups, Types, GroupType
  <2>3. InitLive
    BY <2>1 DEF InitLive
  <2>. QED
    BY <1>6, <1>7, <1>9, <1>10, <1>11, <2>1, <2>2, <2>3
<1>28. ASSUME NEW h \in Handles, Quiescent(h) PROVE Residence'
  <2>1. UNCHANGED <<group_list, generation, init, task, ready, cpuVars, switchVars, lease, hostVars, fault>>
        /\ group' = [group EXCEPT ![h.id].quiescent = TRUE] /\ records' = Reaped(records)
    BY <1>28 DEF Quiescent
  <2>2. SameGroups /\ \A g \in GroupIds : group'[g].init_busy = group[g].init_busy
    BY <1>1, <2>1 DEF SameGroups, Types, GroupType
  <2>. QED
    BY <1>6, <1>9, <1>10, <1>11, <1>14, <1>16, <2>1, <2>2
<1>29. ASSUME NEW h \in Handles, Enable(h) PROVE Residence'
  <2>1. UNCHANGED <<group_list, generation, init, ready, records, cpuVars, switchVars, lease, hostVars, fault>>
        /\ group' = [group EXCEPT ![h.id].state = "ENABLED"]
    BY <1>29 DEF Enable
  <2>2. SameGroups /\ \A g \in GroupIds : group'[g].init_busy = group[g].init_busy
    BY <1>1, <2>1 DEF SameGroups, Types, GroupType
  <2>3. SameTasks
    BY <1>1, <1>29 DEF Enable, SameTasks, Types, TaskType
  <2>. QED
    BY <1>6, <1>7, <1>9, <1>10, <1>16, <2>1, <2>2, <2>3
<1>30. ASSUME NEW h \in Handles, Disable(h) \/ Pause(h) PROVE Residence'
  <2>1. Withdraw(h)
    BY <1>30 DEF Disable, Pause
  <2>2. UNCHANGED <<group_list, generation, init, records, cpuVars, switchVars, lease, hostVars, fault>>
    BY <2>1 DEF Withdraw
  <2>3. SameGroups /\ \A g \in GroupIds : group'[g].init_busy = group[g].init_busy
    <3>1. \E st \in GroupStates : group' = [group EXCEPT ![h.id].state = st]
      BY <1>30 DEF Disable, Pause, GroupStates
    <3>. QED
      BY <1>1, <2>2, <3>1 DEF SameGroups, Types, GroupType
  <2>4. SameTasks
    BY <2>1, WithdrawFacts DEF SameTasks, IInv
  <2>. QED
    BY <1>6, <1>7, <1>9, <1>10, <1>16, <2>2, <2>3, <2>4
<1>31. ASSUME NEW h \in Handles, Revoke(h) PROVE Residence'
  <2>. QueueHoldsReady
    BY DEF IInv
  <2>1. /\ \A s \in Slots :
             /\ task'[s].owner = task[s].owner
             /\ task[s].owner = h /\ Contains(ready, s) => task'[s].state = "SLEEPING"
             /\ ~(task[s].owner = h /\ Contains(ready, s)) => task'[s] = task[s]
        /\ records' = Consumed(records, RecordsOf(h, records))
        /\ \A g \in GroupIds \ {h.id} : group'[g] = group[g]
        /\ \E st \in {"REVOKING", "REVOKED"} :
             /\ group'[h.id] = [group[h.id] EXCEPT !.state = st]
             /\ st = "REVOKING" <=> group[h.id].init_busy \/ OwnedBy(current, h)
        /\ UNCHANGED <<group_list, generation, init, cpuVars, native_pending, phase, lease,
                       hostVars, fault>>
    BY <1>1, <1>2, <1>31, RevokeFacts
  <2>2. SameTasks
    BY <2>1 DEF SameTasks, IInv, QueueHoldsReady
  <2>3. SameGroups /\ \A g \in GroupIds : group'[g].init_busy = group[g].init_busy
    BY <1>1, <1>2, <2>1, StateEdited DEF SameGroups
  <2>. QED
    BY <1>6, <1>9, <1>10, <1>14, <1>16, <2>1, <2>2, <2>3
<1>32. ASSUME NEW h \in Handles, NEW p \in Holders, Acquire(p, h) PROVE Residence'
  <2>1. UNCHANGED <<group_list, generation, init, queueVars, cpuVars, switchVars, hostVars, fault>>
        /\ group' = [group EXCEPT ![h.id].references = @ + 1] /\ Resident(h)
        /\ lease' = [lease EXCEPT ![p] = h]
    BY <1>32 DEF Acquire
  <2>2. SameGroups /\ \A g \in GroupIds : group'[g].init_busy = group[g].init_busy
    BY <1>1, <2>1 DEF SameGroups, Types, GroupType
  <2>3. LeasesLive
    BY <1>1, <2>1 DEF LeasesLive, Types, Residence
  <2>. QED
    BY <1>6, <1>7, <1>10, <1>11, <1>16, <2>1, <2>2, <2>3
<1>33. ASSUME NEW p \in Holders, Release(p) PROVE Residence'
  <2>1. UNCHANGED <<group_list, generation, init, queueVars, cpuVars, switchVars, hostVars, fault>>
        /\ lease' = [lease EXCEPT ![p] = NoHandle]
        /\ \/ group' = [group EXCEPT ![lease[p].id].references = @ - 1]
           \/ group' = group
    BY <1>33 DEF Release
  <2>2. SameGroups /\ \A g \in GroupIds : group'[g].init_busy = group[g].init_busy
    <3>1. CASE group' = group
      BY <2>1, <3>1 DEF SameGroups
    <3>2. CASE group' = [group EXCEPT ![lease[p].id].references = @ - 1]
      BY <1>1, <2>1, <3>2 DEF SameGroups, Types, GroupType
    <3>. QED
      BY <2>1, <3>1, <3>2
  <2>3. LeasesLive
    BY <1>1, <2>1 DEF LeasesLive, Types, Residence
  <2>. QED
    BY <1>6, <1>7, <1>10, <1>11, <1>16, <2>1, <2>2, <2>3
<1>34. ASSUME NEW d \in TickSteps, Tick(d) PROVE Residence'
  <2>1. UNCHANGED <<groupVars, records, current, lease>>
    BY <1>34 DEF Tick
  <2>2. SameTasks
    <3>1. PICK D \in SUBSET Slots :
            /\ \A s \in D : task[s].state = "SLEEPING" /\ task'[s].state = "NEW"
            /\ \A s \in Slots \ D : task'[s].state = task[s].state
      BY <1>34, TickFacts
    <3>2. \A s \in Slots : task'[s].owner = task[s].owner
      BY <1>34, TickFacts
    <3>. QED
      BY <3>1, <3>2 DEF SameTasks
  <2>. QED
    BY <1>6, <1>7, <1>8, <1>9, <1>10, <1>12, <2>1, <2>2
<1>35. CASE DepartRevoked
  <2>. DEFINE h == task[current].owner
  <2>1. UNCHANGED <<group_list, generation, init, lease>> /\ current' = NONE
    BY <1>35 DEF DepartRevoked, Leave
  <2>2. /\ task' = [task EXCEPT ![current].state = "SLEEPING"] /\ current \in Slots
        /\ records' = Consumed(records, RecordsOf(h, records))
        /\ h.id \in GroupIds /\ \A g \in GroupIds \ {h.id} : group'[g] = group[g]
        /\ group[h.id].init_busy => group'[h.id] = [group[h.id] EXCEPT !.state = "REVOKING"]
        /\ ~group[h.id].init_busy => group'[h.id] = [group[h.id] EXCEPT !.state = "REVOKED"]
    BY <1>35, DepartRevokedFacts
  <2>3. SameGroups /\ \A g \in GroupIds : group'[g].init_busy = group[g].init_busy
    BY <1>1, <2>1, <2>2, StateEdited DEF SameGroups
  <2>4. SameTasks
    <3>1. task[current].state # "FREE"
      BY <1>1, <2>2, StlAssumption DEF Residence
    <3>. QED
      BY <1>1, <2>2, <3>1 DEF SameTasks, Types, TaskType
  <2>. QED
    BY <1>6, <1>9, <1>13, <1>14, <1>16, <2>1, <2>2, <2>3, <2>4
<1>36. CASE DepartSaved
  <2>. DEFINE rest == Reaped(records)
              saved == [task |-> current, owner |-> task[current].owner, live |-> TRUE]
  <2>1. /\ current \in Slots /\ task[current].state = "RUNNING" /\ Resident(task[current].owner)
        /\ \A s \in Slots : task'[s].owner = task[s].owner
        /\ task'[current].state = "OLD"
        /\ \A s \in Slots : s # current => task'[s] = task[s]
        /\ rest \in Seq(RecordType) /\ saved \in RecordType /\ records' = Append(rest, saved)
        /\ current' = NONE /\ UNCHANGED <<groupVars, lease>>
    BY <1>36, DepartSavedFacts
  <2>2. SameTasks
    BY <2>1 DEF SameTasks
  <2>3. RecordsLive
    <3>1. \A i \in 1 .. Len(rest) : Resident(rest[i].owner)
      BY <1>5
    <3>2. saved.owner = task[current].owner
      OBVIOUS
    <3>. HIDE DEF rest, saved
    <3>3. /\ Len(records') = Len(rest) + 1 /\ records'[Len(rest) + 1] = saved
          /\ \A i \in 1 .. Len(rest) : records'[i] = rest[i]
      BY <2>1, AppendProperties
    <3>4. Len(rest) \in Nat
      BY <2>1, LenProperties
    <3>5. \A i \in 1 .. Len(records') : i \in 1 .. Len(rest) \/ i = Len(rest) + 1
      BY <3>3, <3>4
    <3>. QED
      BY <2>1, <3>1, <3>2, <3>3, <3>5 DEF RecordsLive
  <2>. QED
    BY <1>6, <1>8, <1>9, <1>12, <1>13, <2>1, <2>2, <2>3
<1>37. CASE SelectNext
  <2>1. PICK s \in Slots : SelectionOf(s)
    BY <1>37, SelectNextFacts
  <2>2. UNCHANGED <<group, group_list, generation, init, lease>>
    BY <2>1 DEF SelectionOf
  <2>3. /\ task[s].state # "FREE" /\ \A e \in Slots : task'[e].owner = task[e].owner
        /\ \A e \in Slots : e # s => \/ task[e].state = "SLEEPING" /\ task'[e].state = "NEW"
                                     \/ task'[e] = task[e]
    BY <2>1 DEF SelectionOf
  <2>4. \/ current' = s /\ task'[s].state = "RUNNING"
        \/ current' = NONE /\ task'[s].state \in {"NEW", "OLD"}
    BY <2>1 DEF SelectionOf, Started, NotStarted
  <2>5. SameTasks /\ CurrentTaken
    BY <2>3, <2>4 DEF SameTasks, CurrentTaken
  <2>6. RecordsLive
    BY <1>14, <2>1 DEF SelectionOf, History
  <2>. QED
    BY <1>6, <1>8, <1>9, <1>12, <2>2, <2>5, <2>6
<1>38. CASE Complete
  <2>1. UNCHANGED <<groupVars, records, current, lease>>
    BY <1>38 DEF Complete
  <2>2. /\ current \in Slots /\ task[current].state = "RUNNING"
        /\ \A s \in Slots : task'[s].owner = task[s].owner
        /\ \A s \in Slots :
              \/ s # current /\ task'[s] = task[s]
              \/ s = current /\ task'[s].state = "SLEEPING"
              \/ (task[s].state = "SLEEPING" \/ s = current) /\ task'[s].state = "NEW"
    BY <1>38, CompleteFacts
  <2>3. SameTasks
    BY <2>2 DEF SameTasks
  <2>. QED
    BY <1>6, <1>7, <1>8, <1>9, <1>10, <1>12, <2>1, <2>3
<1>39. CASE FinishInline
  <2>. DEFINE h == task[current].owner
  <2>1. /\ h.id \in GroupIds
        /\ UNCHANGED <<group_list, generation, init, native_pending, lease, hold>>
        /\ \/ \E s \in Slots : InlinedTo(s)
           \/ UNCHANGED <<cpuVars, host_owner, queueVars, group>>
    BY <1>39, FinishInlineFacts
  <2>2. ASSUME NEW s \in Slots, InlinedTo(s) PROVE Residence'
    <3>1. SameTasks
      BY <2>2 DEF InlinedTo, SameTasks
    <3>2. CurrentTaken
      BY <2>2 DEF InlinedTo, CurrentTaken
    <3>3. RecordsLive
      BY <1>7, <1>14, <2>2 DEF InlinedTo
    <3>4. SameGroups /\ \A g \in GroupIds : group'[g].init_busy = group[g].init_busy
      <4>1. CASE group[h.id].state = "REVOKING"
        <5>1. /\ \A g \in GroupIds \ {h.id} : group'[g] = group[g]
              /\ \E st : group'[h.id] = [group[h.id] EXCEPT !.state = st]
          BY <2>2, <4>1 DEF InlinedTo
        <5>. QED
          BY <1>1, <2>1, <5>1, StateEdited DEF SameGroups
      <4>2. CASE group[h.id].state # "REVOKING"
        BY <2>1, <2>2, <4>2 DEF InlinedTo, SameGroups
      <4>. QED
        BY <4>1, <4>2
    <3>. QED
      BY <1>6, <1>9, <1>16, <2>1, <3>1, <3>2, <3>3, <3>4
  <2>3. ASSUME UNCHANGED <<cpuVars, host_owner, queueVars, group>> PROVE Residence'
    BY <1>20, <2>1, <2>3
  <2>. QED
    BY <2>1, <2>2, <2>3
<1>. QED
  BY <1>21, <1>22, <1>23, <1>24, <1>25, <1>26, <1>27, <1>28, <1>29, <1>30, <1>31, <1>32, <1>33,
     <1>34, <1>35, <1>36, <1>37, <1>38, <1>39
  DEF Next, Dispatcher, API

----------------------------------------------------------------------------
(* Safety: the parts of the invariant that relate the queue, the history,  *)
(* the groups, the leases and the host, and the properties that follow.    *)

(* What a whole class of steps leaves alone.                               *)

(* A fault, once latched, stays.                                           *)
LEMMA FaultStays ==
  ASSUME IInv, [Next]_vars, ~fault'
  PROVE  ~fault
<1>. USE DEF groupVars, queueVars, cpuVars, switchVars, hostVars
<1>1. CASE UNCHANGED vars
  BY <1>1 DEF vars
<1>2. CASE API \/ InitCall \/ InitEnd \/ Run \/ Complete \/ HostService \/ \E d \in TickSteps : Tick(d)
  <2>1. UNCHANGED fault
    BY <1>2 DEF API, InitBegin, Enable, Disable, Pause, Withdraw, Revoke, Quiescent, Forget,
                Acquire, Release, Register, Yield, RequestNative, InitCall, InitEnd, Run, Complete,
                HostService, Tick
  <2>. QED
    BY <2>1
<1>3. CASE phase \in {"finish", "select", "svc"} \/ Departing
  BY <1>3 DEF Departing, IInv, Control
<1>4. CASE PendSV \/ PendSVExit \/ DepartHeld \/ ReturnDone
  BY <1>4 DEF PendSV, PendSVExit, DepartHeld, ReturnDone
<1>5. CASE DepartFault
  BY <1>5 DEF DepartFault, NativeReturn
<1>6. CASE DepartRevoked \/ DepartSaved \/ DepartExhausted \/ DepartDone
  BY <1>3, <1>6 DEF DepartRevoked, DepartSaved, DepartExhausted, DepartDone
<1>7. CASE SelectNative \/ SelectIdle \/ SelectNext \/ FinishInline \/ FinishSwitch
  BY <1>3, <1>7 DEF SelectNative, SelectIdle, SelectNext, FinishInline, FinishSwitch, Selecting
<1>. QED
  BY <1>1, <1>2, <1>4, <1>5, <1>6, <1>7 DEF Next, Dispatcher

(* A resident handle is determined by its identity.                        *)
LEMMA SameIdentity ==
  ASSUME Types, Residence,
         NEW a \in HandleType, NEW b \in HandleType, Resident(a), Resident(b), a.id = b.id
  PROVE  a = b
<1>1. a = Handle(a.id) /\ b = Handle(b.id)
  BY HandleFacts
<1>. QED
  BY <1>1

(* The owners of the tasks and records are resident handles.               *)
LEMMA Owners ==
  ASSUME Types, Residence
  PROVE  /\ \A s \in Slots : /\ task[s].owner \in HandleType
                             /\ task[s].state # "FREE" =>
                                  Resident(task[s].owner) /\ task[s].owner.id \in GroupIds
         /\ \A i \in 1 .. Len(records) :
              /\ records[i].task \in Slots /\ records[i].owner \in HandleType
              /\ Resident(records[i].owner)
              /\ records[i].live \in BOOLEAN
         /\ current # NONE => current \in Slots /\ task[current].state # "FREE"
<1>1. \A s \in Slots : task[s].owner \in HandleType
  BY DEF Types, TaskType
<1>2. \A i \in 1 .. Len(records) : records[i] \in RecordType
  <2>1. records \in Seq(RecordType)
    BY DEF Types
  <2>. QED
    BY <2>1, ElementOfSeq
<1>3. \A i \in 1 .. Len(records) :
        records[i].task \in Slots /\ records[i].owner \in HandleType /\ records[i].live \in BOOLEAN
  BY <1>2 DEF RecordType
<1>4. \A s \in Slots : task[s].state # "FREE" =>
        Resident(task[s].owner) /\ task[s].owner.id \in GroupIds
  BY <1>1, HandleFacts DEF Residence
<1>. QED
  BY <1>1, <1>3, <1>4 DEF Types, Residence

(* The start of managed init, and the attestation of cleanup.              *)
LEMMA InitBeginFacts ==
  ASSUME Types, NEW h, h.id \in GroupIds, InitBegin(h)
  PROVE  /\ phase = "native" /\ group[h.id].state = "DISABLED"
         /\ \A o \in GroupIds \ {h.id} : group'[o] = group[o]
         /\ group'[h.id].init_busy
         /\ \A o \in GroupIds : /\ group'[o].state = group[o].state
                                /\ group'[o].gen = group[o].gen
                                /\ group'[o].references = group[o].references
                                /\ group'[o].quiescent = group[o].quiescent
<1>1. group' = [group EXCEPT ![h.id].init_busy = TRUE] /\ group[h.id] \in GroupType
  BY DEF InitBegin, Types
<1>2. /\ group'[h.id] = [group[h.id] EXCEPT !.init_busy = TRUE]
      /\ \A o \in GroupIds \ {h.id} : group'[o] = group[o]
  BY <1>1 DEF Types
<1>3. /\ group'[h.id].init_busy /\ group'[h.id].state = group[h.id].state
      /\ group'[h.id].gen = group[h.id].gen /\ group'[h.id].references = group[h.id].references
      /\ group'[h.id].quiescent = group[h.id].quiescent
  BY <1>1, <1>2 DEF GroupType
<1>. QED
  BY <1>2, <1>3 DEF InitBegin, StateOf

(* Attesting changes the attestation and reaps; the group is retired.      *)
LEMMA QuiescentFacts ==
  ASSUME Types, NEW h, h.id \in GroupIds, Quiescent(h)
  PROVE  /\ phase = "native" /\ ~fault /\ Resident(h)
         /\ Retired(h, records') /\ records' = Reaped(records)
         /\ \A o \in GroupIds \ {h.id} : group'[o] = group[o]
         /\ \A o \in GroupIds : /\ group'[o].state = group[o].state
                                /\ group'[o].gen = group[o].gen
                                /\ group'[o].references = group[o].references
                                /\ group'[o].init_busy = group[o].init_busy
<1>1. group' = [group EXCEPT ![h.id].quiescent = TRUE] /\ group[h.id] \in GroupType
  BY DEF Quiescent, Types
<1>2. /\ group'[h.id] = [group[h.id] EXCEPT !.quiescent = TRUE]
      /\ \A o \in GroupIds \ {h.id} : group'[o] = group[o]
  BY <1>1 DEF Types
<1>3. /\ group'[h.id].init_busy = group[h.id].init_busy /\ group'[h.id].state = group[h.id].state
      /\ group'[h.id].gen = group[h.id].gen /\ group'[h.id].references = group[h.id].references
  BY <1>1, <1>2 DEF GroupType
<1>. QED
  BY <1>2, <1>3 DEF Quiescent

(* The end of managed init.                                                *)
LEMMA InitEndFacts ==
  ASSUME Types, Residence, InitEnd
  PROVE  LET g == init.handle.id
         IN /\ g \in GroupIds /\ group[g].init_busy /\ phase = "native"
            /\ \A o \in GroupIds \ {g} : group'[o] = group[o]
            /\ ~group'[g].init_busy /\ group'[g].gen = group[g].gen
            /\ group'[g].references = group[g].references
            /\ group'[g].quiescent = group[g].quiescent
            /\ group[g].state \in {"REVOKING", "REVOKED"} => group'[g].state = "REVOKED"
            /\ group[g].state \notin {"REVOKING", "REVOKED"} => group'[g].state = group[g].state
            /\ UNCHANGED <<group_list, generation, queueVars, cpuVars, switchVars, lease,
                           hostVars, fault>>
<1>. DEFINE g == init.handle.id
<1>1. g \in GroupIds /\ group[g].init_busy /\ group[g] \in GroupType
  BY HandleFacts DEF InitEnd, Residence, Types
<1>2. group' = [group EXCEPT ![g] = IF group[g].state \in {"REVOKING", "REVOKED"}
                  THEN [group[g] EXCEPT !.init_busy = FALSE, !.state = "REVOKED"]
                  ELSE [group[g] EXCEPT !.init_busy = FALSE, !.initialized = TRUE]]
  BY <1>1 DEF InitEnd, Closed, StateOf
<1>. HIDE DEF g
<1>3. \A o \in GroupIds \ {g} : group'[o] = group[o]
  BY <1>2 DEF Types
<1>4. CASE group[g].state \in {"REVOKING", "REVOKED"}
  <2>1. group'[g] = [group[g] EXCEPT !.init_busy = FALSE, !.state = "REVOKED"]
    BY <1>1, <1>2, <1>4 DEF Types
  <2>2. /\ ~group'[g].init_busy /\ group'[g].gen = group[g].gen
        /\ group'[g].references = group[g].references
        /\ group'[g].quiescent = group[g].quiescent /\ group'[g].state = "REVOKED"
    BY <1>1, <2>1 DEF GroupType
  <2>. QED
    BY <1>1, <1>3, <1>4, <2>2 DEF InitEnd, g
<1>5. CASE group[g].state \notin {"REVOKING", "REVOKED"}
  <2>1. group'[g] = [group[g] EXCEPT !.init_busy = FALSE, !.initialized = TRUE]
    BY <1>1, <1>2, <1>5 DEF Types
  <2>2. /\ ~group'[g].init_busy /\ group'[g].gen = group[g].gen
        /\ group'[g].references = group[g].references
        /\ group'[g].quiescent = group[g].quiescent /\ group'[g].state = group[g].state
    BY <1>1, <2>1 DEF GroupType
  <2>. QED
    BY <1>1, <1>3, <1>5, <2>2 DEF InitEnd, g
<1>. QED
  BY <1>4, <1>5

----------------------------------------------------------------------------
(* The leases.                                                             *)

(* Acquiring and releasing keep the count, and no other step changes a     *)
(* lease or a reference.                                                   *)
LEMMA LeasesCountedStep ==
  ASSUME IInv, [Next]_vars
  PROVE  LeasesCounted'
<1>. USE DEF groupVars, queueVars, cpuVars, switchVars, hostVars
<1>1. Types /\ Residence /\ LeasesCounted /\ Control /\ QueueHoldsReady
  BY DEF IInv
<1>2. \A h \in Handles : h \in HandleType /\ h # NoHandle /\ h.id \in GroupIds
  BY <1>1, HandleFacts
<1>3. ASSUME UNCHANGED lease, \A g \in GroupIds : group'[g].references = group[g].references
      PROVE  LeasesCounted'
  BY <1>1, <1>3 DEF LeasesCounted
<1>4. IsFiniteSet(Holders)
  BY StlAssumption
<1>5. ASSUME \/ UNCHANGED vars \/ InitCall \/ Yield \/ RequestNative \/ HostService
             \/ (\E d \in TickSteps : Tick(d)) \/ Run \/ ReturnDone \/ PendSV \/ PendSVExit
             \/ DepartFault \/ DepartHeld \/ DepartSaved \/ DepartExhausted \/ DepartDone
             \/ SelectNative \/ SelectIdle \/ Complete \/ FinishSwitch
      PROVE  LeasesCounted'
  <2>1. UNCHANGED <<group, lease>>
    BY <1>5 DEF vars, InitCall, Yield, RequestNative, HostService, Tick, Run, ReturnDone, PendSV,
                PendSVExit, DepartFault, DepartHeld, DepartSaved, DepartExhausted, DepartDone,
                SelectNative, SelectIdle, Complete, FinishSwitch
  <2>. QED
    BY <1>3, <2>1
<1>6. CASE SelectNext
  <2>1. PICK s \in Slots : SelectionOf(s)
    BY <1>6, SelectNextFacts
  <2>. QED
    BY <1>3, <2>1 DEF SelectionOf
<1>7. ASSUME NEW g \in GroupIds, NEW st, group' = [group EXCEPT ![g].state = st], UNCHANGED lease
      PROVE  LeasesCounted'
  <2>1. group'[g] = [group[g] EXCEPT !.state = st] /\ \A o \in GroupIds \ {g} : group'[o] = group[o]
    BY <1>1, <1>7 DEF Types
  <2>. QED
    BY <1>1, <1>3, <1>7, <2>1, StateEdited
<1>8. ASSUME NEW h \in Handles, InitBegin(h) \/ Quiescent(h) PROVE LeasesCounted'
  <2>1. UNCHANGED lease
    BY <1>8 DEF InitBegin, Quiescent
  <2>2. \A o \in GroupIds : group'[o].references = group[o].references
    BY <1>1, <1>2, <1>8, InitBeginFacts, QuiescentFacts
  <2>. QED
    BY <1>3, <2>1, <2>2
<1>9. CASE InitEnd
  BY <1>1, <1>3, <1>9, InitEndFacts
<1>10. ASSUME NEW h \in Handles, Enable(h) \/ Disable(h) \/ Pause(h) PROVE LeasesCounted'
  <2>1. /\ UNCHANGED lease
        /\ \E st : group' = [group EXCEPT ![h.id].state = st]
    BY <1>10 DEF Enable, Disable, Pause, Withdraw
  <2>. QED
    BY <1>2, <1>7, <2>1
<1>11. ASSUME NEW h \in Handles, Revoke(h) PROVE LeasesCounted'
  <2>1. UNCHANGED lease /\ \E st : group' = [group EXCEPT ![h.id].state = st]
    BY <1>11 DEF Revoke, CancelGroup
  <2>. QED
    BY <1>2, <1>7, <2>1
<1>12. CASE DepartRevoked
  <2>. DEFINE h == task[current].owner
  <2>1. /\ h.id \in GroupIds /\ \A g \in GroupIds \ {h.id} : group'[g] = group[g]
        /\ group[h.id].init_busy => group'[h.id] = [group[h.id] EXCEPT !.state = "REVOKING"]
        /\ ~group[h.id].init_busy => group'[h.id] = [group[h.id] EXCEPT !.state = "REVOKED"]
    BY <1>12, DepartRevokedFacts
  <2>2. UNCHANGED lease
    BY <1>12 DEF DepartRevoked
  <2>. QED
    BY <1>1, <1>3, <2>1, <2>2, StateEdited
<1>13. CASE FinishInline
  <2>. DEFINE h == task[current].owner
  <2>1. /\ h.id \in GroupIds
        /\ UNCHANGED <<group_list, generation, init, native_pending, lease, hold>>
        /\ \/ \E s \in Slots : InlinedTo(s)
           \/ UNCHANGED <<cpuVars, host_owner, queueVars, group>>
    BY <1>13, FinishInlineFacts
  <2>2. \/ UNCHANGED group
        \/ /\ \A g \in GroupIds \ {h.id} : group'[g] = group[g]
           /\ \E st : group'[h.id] = [group[h.id] EXCEPT !.state = st]
    BY <2>1 DEF InlinedTo
  <2>. QED
    BY <1>1, <1>3, <2>1, <2>2, StateEdited
<1>14. ASSUME NEW g \in GroupIds, Register(g) PROVE LeasesCounted'
  <2>1. /\ group[g].gen = 0 /\ UNCHANGED lease
        /\ group' = [group EXCEPT ![g] = [Absent EXCEPT !.gen = generation']]
    BY <1>14 DEF Register
  <2>2. group'[g].references = 0 /\ \A o \in GroupIds \ {g} : group'[o] = group[o]
    BY <1>1, <2>1 DEF Types, Absent
  <2>3. \A p \in Holders : lease[p].id # g
    <3>. SUFFICES ASSUME NEW p \in Holders, lease[p].id = g PROVE FALSE
      OBVIOUS
    <3>1. lease[p] \in HandleType /\ lease[p] # NoHandle
      BY <1>1, StlAssumption DEF Types, NoHandle
    <3>2. Resident(lease[p])
      BY <1>1, <3>1 DEF Residence
    <3>. QED
      BY <1>1, <2>1, <3>1, <3>2, HandleFacts
  <2>4. {p \in Holders : lease[p].id = g} = {}
    BY <2>3
  <2>5. ASSUME NEW o \in GroupIds
        PROVE  group'[o].references = Cardinality({p \in Holders : lease[p].id = o})
    BY <1>1, <2>2, <2>4, FS_EmptySet DEF LeasesCounted
  <2>. QED
    BY <2>1, <2>5 DEF LeasesCounted
<1>15. ASSUME NEW h \in Handles, Forget(h) PROVE LeasesCounted'
  <2>1. /\ group[h.id].references = 0 /\ UNCHANGED lease
        /\ group' = [group EXCEPT ![h.id] = Absent]
    BY <1>15 DEF Forget, Retired
  <2>2. \A o \in GroupIds : group'[o].references = group[o].references
    BY <1>1, <2>1 DEF Types, Absent
  <2>. QED
    BY <1>3, <2>1, <2>2
<1>16. ASSUME NEW h \in Handles, NEW p \in Holders, Acquire(p, h) PROVE LeasesCounted'
  <2>1. /\ lease[p] = NoHandle /\ lease' = [lease EXCEPT ![p] = h]
        /\ group' = [group EXCEPT ![h.id].references = @ + 1]
    BY <1>16 DEF Acquire
  <2>2. /\ lease'[p] = h /\ \A q \in Holders \ {p} : lease'[q] = lease[q]
        /\ group'[h.id].references = group[h.id].references + 1
        /\ \A o \in GroupIds \ {h.id} : group'[o] = group[o]
    BY <1>1, <1>2, <2>1 DEF Types, GroupType
  <2>3. lease[p].id \notin GroupIds
    BY <2>1, StlAssumption DEF NoHandle
  <2>4. ASSUME NEW o \in GroupIds
        PROVE  group'[o].references = Cardinality({q \in Holders : lease'[q].id = o})
    <3>. DEFINE was == {q \in Holders : lease[q].id = o}
                is == {q \in Holders : lease'[q].id = o}
    <3>1. IsFiniteSet(was) /\ group[o].references = Cardinality(was)
      BY <1>1, <1>4, FS_Subset DEF LeasesCounted
    <3>2. CASE o = h.id
      <4>1. is = was \cup {p} /\ p \notin was
        BY <2>2, <2>3, <3>2
      <4>. HIDE DEF is, was
      <4>2. Cardinality(is) = Cardinality(was) + 1
        BY <3>1, <4>1, FS_AddElement
      <4>. QED
        BY <2>2, <3>1, <3>2, <4>2 DEF is
    <3>3. CASE o # h.id
      <4>1. is = was
        BY <2>2, <2>3, <3>3
      <4>. QED
        BY <2>2, <3>1, <3>3, <4>1
    <3>. QED
      BY <3>2, <3>3
  <2>. QED
    BY <2>4 DEF LeasesCounted
<1>17. ASSUME NEW p \in Holders, Release(p) PROVE LeasesCounted'
  <2>. DEFINE h == lease[p]
  <2>1. /\ h # NoHandle /\ lease' = [lease EXCEPT ![p] = NoHandle]
        /\ group' = IF Resident(h) /\ group[h.id].references > 0
                      THEN [group EXCEPT ![h.id].references = @ - 1] ELSE group
    BY <1>17 DEF Release
  <2>2. h \in HandleType /\ Resident(h) /\ h.id \in GroupIds
    BY <1>1, <2>1, HandleFacts DEF Types, Residence
  <2>3. IsFiniteSet({q \in Holders : lease[q].id = h.id}) /\ p \in {q \in Holders : lease[q].id = h.id}
    BY <1>4, FS_Subset
  <2>4. group[h.id].references = Cardinality({q \in Holders : lease[q].id = h.id})
        /\ group[h.id].references \in Nat /\ group[h.id].references > 0
    <3>1. group[h.id].references = Cardinality({q \in Holders : lease[q].id = h.id})
      BY <1>1, <2>2 DEF LeasesCounted
    <3>2. Cardinality({q \in Holders : lease[q].id = h.id}) # 0
      BY <2>3, FS_EmptySet
    <3>3. group[h.id].references \in Nat
      BY <1>1, <2>2 DEF Types, GroupType
    <3>. QED
      BY <3>1, <3>2, <3>3
  <2>5. /\ lease'[p] = NoHandle /\ \A q \in Holders \ {p} : lease'[q] = lease[q]
        /\ group'[h.id].references = group[h.id].references - 1
        /\ \A o \in GroupIds \ {h.id} : group'[o] = group[o]
    BY <1>1, <2>1, <2>2, <2>4 DEF Types, GroupType
  <2>6. NoHandle.id \notin GroupIds
    BY StlAssumption DEF NoHandle
  <2>7. ASSUME NEW o \in GroupIds
        PROVE  group'[o].references = Cardinality({q \in Holders : lease'[q].id = o})
    <3>. DEFINE was == {q \in Holders : lease[q].id = o}
                is == {q \in Holders : lease'[q].id = o}
    <3>1. IsFiniteSet(was) /\ group[o].references = Cardinality(was)
      BY <1>1, <1>4, FS_Subset DEF LeasesCounted
    <3>2. CASE o = h.id
      <4>1. is = was \ {p} /\ p \in was
        BY <2>5, <2>6, <3>2
      <4>. HIDE DEF is, was
      <4>2. Cardinality(is) = Cardinality(was) - 1
        BY <3>1, <4>1, FS_RemoveElement
      <4>. QED
        BY <2>5, <3>1, <3>2, <4>2 DEF is
    <3>3. CASE o # h.id
      <4>1. is = was
        BY <2>5, <2>6, <3>3
      <4>. QED
        BY <2>5, <3>1, <3>3, <4>1
    <3>. QED
      BY <3>2, <3>3
  <2>. QED
    BY <2>7 DEF LeasesCounted
<1>. QED
  BY <1>5, <1>6, <1>8, <1>9, <1>10, <1>11, <1>12, <1>13, <1>14, <1>15, <1>16, <1>17
  DEF Next, Dispatcher, API
----------------------------------------------------------------------------
(* What every step but a few keeps.                                        *)

(* Only the loader changes the owner of a task slot.                       *)
LEMMA OwnersKept ==
  ASSUME IInv, [Next]_vars,
         \A g \in GroupIds : ~Register(g), \A h \in Handles : ~Forget(h)
  PROVE  \A s \in Slots : task'[s].owner = task[s].owner
<1>. USE DEF groupVars, queueVars, cpuVars, switchVars, hostVars
<1>1. Types /\ Residence /\ QueueHoldsReady /\ \A h \in Handles : h.id \in GroupIds
  BY HandleFacts DEF IInv
<1>2. ASSUME \/ UNCHANGED vars \/ InitCall \/ InitEnd \/ Yield \/ RequestNative \/ HostService
             \/ (\E h \in Handles : \/ InitBegin(h) \/ Quiescent(h)
                                    \/ \E p \in Holders : Acquire(p, h))
             \/ (\E p \in Holders : Release(p))
             \/ Run \/ ReturnDone \/ PendSV \/ PendSVExit
             \/ DepartFault \/ DepartHeld \/ DepartExhausted \/ DepartDone
             \/ SelectNative \/ SelectIdle \/ FinishSwitch
      PROVE  \A s \in Slots : task'[s].owner = task[s].owner
  <2>1. UNCHANGED task
    BY <1>2 DEF vars, InitCall, InitEnd, Yield, RequestNative, HostService, InitBegin, Quiescent,
                Acquire, Release, Run, ReturnDone, PendSV, PendSVExit, DepartFault, DepartHeld,
                DepartExhausted, DepartDone, SelectNative, SelectIdle, FinishSwitch
  <2>. QED
    BY <2>1
<1>3. ASSUME NEW h \in Handles, Enable(h) PROVE \A s \in Slots : task'[s].owner = task[s].owner
  BY <1>1, <1>3 DEF Enable, Types, TaskType
<1>4. ASSUME NEW h \in Handles, Disable(h) \/ Pause(h)
      PROVE  \A s \in Slots : task'[s].owner = task[s].owner
  <2>1. Withdraw(h)
    BY <1>4 DEF Disable, Pause
  <2>. QED
    BY <1>1, <2>1, WithdrawFacts
<1>5. ASSUME NEW h \in Handles, Revoke(h) PROVE \A s \in Slots : task'[s].owner = task[s].owner
  BY <1>1, <1>5, RevokeFacts
<1>6. ASSUME NEW d \in TickSteps, Tick(d) PROVE \A s \in Slots : task'[s].owner = task[s].owner
  BY <1>6, TickFacts
<1>7. CASE DepartRevoked
  <2>1. task' = [task EXCEPT ![current].state = "SLEEPING"]
    BY <1>7, DepartRevokedFacts
  <2>. QED
    BY <1>1, <2>1 DEF Types, TaskType
<1>8. CASE DepartSaved
  BY <1>8, DepartSavedFacts
<1>9. CASE SelectNext
  BY <1>9, SelectNextFacts DEF SelectionOf
<1>10. CASE Complete
  BY <1>10, CompleteFacts
<1>11. CASE FinishInline
  <2>1. (\E s \in Slots : InlinedTo(s)) \/ UNCHANGED queueVars
    BY <1>11, FinishInlineFacts
  <2>. QED
    BY <2>1 DEF InlinedTo
<1>. QED
  BY <1>2, <1>3, <1>4, <1>5, <1>6, <1>7, <1>8, <1>9, <1>10, <1>11 DEF Next, Dispatcher, API

(* Only saving a frame adds a record.                                      *)
LEMMA RecordsKept ==
  ASSUME IInv, [Next]_vars, ~DepartSaved
  PROVE  \A i \in 1 .. Len(records') : \E j \in 1 .. Len(records) :
           records'[i].owner = records[j].owner
<1>. USE DEF groupVars, queueVars, cpuVars, switchVars, hostVars
<1>. DEFINE Kept == \A i \in 1 .. Len(records') : \E j \in 1 .. Len(records) :
                      records'[i].owner = records[j].owner
<1>1. Types /\ QueueHoldsReady /\ Residence /\ \A h \in Handles : h.id \in GroupIds
  BY HandleFacts DEF IInv
<1>2. /\ records' = records => Kept
      /\ records' = Reaped(records) => Kept
      /\ \A which : records' = Consumed(records, which) => Kept
  <2>1. /\ \A i \in 1 .. Len(Reaped(records)) : \E j \in 1 .. Len(records) :
             Reaped(records)[i] = records[j]
        /\ \A which : \A i \in 1 .. Len(Consumed(records, which)) : \E j \in 1 .. Len(records) :
             /\ Consumed(records, which)[i].task = records[j].task
             /\ Consumed(records, which)[i].owner = records[j].owner
    BY <1>1, SurvivingRecords
  <2>. QED
    BY <2>1
<1>3. \/ records' = records \/ records' = Reaped(records)
      \/ \E which : records' = Consumed(records, which)
  <2>1. ASSUME \/ UNCHANGED vars \/ InitCall \/ InitEnd \/ Yield \/ RequestNative \/ HostService
               \/ (\E g \in GroupIds : Register(g))
               \/ (\E h \in Handles : \/ InitBegin(h) \/ Quiescent(h) \/ Forget(h) \/ Enable(h)
                                      \/ Disable(h) \/ Pause(h)
                                      \/ \E p \in Holders : Acquire(p, h))
               \/ (\E p \in Holders : Release(p)) \/ (\E d \in TickSteps : Tick(d)) \/ Complete
        PROVE  records' = records \/ records' = Reaped(records)
    BY <2>1 DEF vars, InitCall, InitEnd, Yield, RequestNative, HostService, InitBegin, Quiescent,
                Acquire, Release, Register, Forget, Enable, Disable, Pause, Withdraw, Tick, Complete
  <2>2. ASSUME \/ Run \/ ReturnDone \/ PendSV \/ PendSVExit \/ DepartFault \/ DepartHeld
               \/ DepartExhausted \/ DepartDone \/ SelectNative \/ SelectIdle \/ FinishSwitch
        PROVE  records' = records \/ records' = Reaped(records)
    BY <2>2 DEF Run, ReturnDone, PendSV, PendSVExit, DepartFault, DepartHeld, DepartExhausted,
                DepartDone, SelectNative, SelectIdle, FinishSwitch
  <2>3. ASSUME NEW h \in Handles, Revoke(h) PROVE \E which : records' = Consumed(records, which)
    BY <2>3 DEF Revoke, CancelGroup
  <2>4. CASE DepartRevoked
    BY <2>4, DepartRevokedFacts
  <2>5. CASE SelectNext
    <3>1. \E s \in Slots : records' = History(s)
      BY <2>5, SelectNextFacts DEF SelectionOf
    <3>. QED
      BY <3>1 DEF History
  <2>6. CASE FinishInline
    <3>1. (\E s \in Slots : InlinedTo(s)) \/ UNCHANGED queueVars
      BY <2>6, FinishInlineFacts
    <3>. QED
      BY <3>1 DEF InlinedTo
  <2>. QED
    BY <2>1, <2>2, <2>3, <2>4, <2>5, <2>6 DEF Next, Dispatcher, API
<1>. QED
  BY <1>2, <1>3
(* Only the selection loop and an inline completion put a task on the CPU. *)
LEMMA CurrentKept ==
  ASSUME IInv, [Next]_vars, ~SelectNext, ~FinishInline
  PROVE  current' \in {current, NONE}
<1>. USE DEF groupVars, queueVars, cpuVars, switchVars, hostVars
<1>1. ASSUME \/ UNCHANGED vars \/ InitCall \/ InitEnd \/ Yield \/ RequestNative \/ HostService
             \/ (\E g \in GroupIds : Register(g))
             \/ (\E h \in Handles : \/ InitBegin(h) \/ Quiescent(h) \/ Forget(h) \/ Enable(h)
                                    \/ Disable(h) \/ Pause(h) \/ Revoke(h)
                                    \/ \E p \in Holders : Acquire(p, h))
             \/ (\E p \in Holders : Release(p)) \/ (\E d \in TickSteps : Tick(d)) \/ Complete
      PROVE  current' \in {current, NONE}
  BY <1>1 DEF vars, InitCall, InitEnd, Yield, RequestNative, HostService, InitBegin, Quiescent,
              Acquire, Release, Register, Forget, Enable, Disable, Pause, Withdraw, Revoke, Tick,
              Complete
<1>2. ASSUME \/ Run \/ ReturnDone \/ PendSV \/ PendSVExit \/ DepartFault \/ DepartHeld
             \/ DepartRevoked \/ DepartSaved \/ DepartExhausted \/ DepartDone
             \/ SelectNative \/ SelectIdle \/ FinishSwitch
      PROVE  current' \in {current, NONE}
  BY <1>2 DEF Run, ReturnDone, PendSV, PendSVExit, DepartFault, DepartHeld, DepartRevoked,
              DepartSaved, DepartExhausted, DepartDone, Leave, SelectNative, SelectIdle,
              NativeReturn, FinishSwitch
<1>. QED
  BY <1>1, <1>2 DEF Next, Dispatcher, API

(* The steps that change a group.                                          *)
GroupStep ==
  \/ \E g \in GroupIds : Register(g)
  \/ \E h \in Handles : \/ InitBegin(h) \/ Quiescent(h) \/ Forget(h)
                        \/ Enable(h) \/ Disable(h) \/ Pause(h) \/ Revoke(h)
                        \/ \E p \in Holders : Acquire(p, h)
  \/ \E p \in Holders : Release(p)
  \/ InitEnd \/ DepartRevoked \/ FinishInline

(* No other step changes a group.                                          *)
LEMMA GroupsKept ==
  ASSUME IInv, [Next]_vars, ~GroupStep
  PROVE  UNCHANGED group
<1>. USE DEF groupVars, queueVars, cpuVars, switchVars, hostVars
<1>1. ASSUME \/ UNCHANGED vars \/ InitCall \/ Yield \/ RequestNative \/ HostService
             \/ (\E d \in TickSteps : Tick(d)) \/ Complete
             \/ Run \/ ReturnDone \/ PendSV \/ PendSVExit \/ DepartFault \/ DepartHeld
             \/ DepartSaved \/ DepartExhausted \/ DepartDone
             \/ SelectNative \/ SelectIdle \/ FinishSwitch
      PROVE  UNCHANGED group
  BY <1>1 DEF vars, InitCall, Yield, RequestNative, HostService, Tick, Complete,
              Run, ReturnDone, PendSV, PendSVExit, DepartFault, DepartHeld,
              DepartSaved, DepartExhausted, DepartDone, SelectNative, SelectIdle, FinishSwitch
<1>2. CASE SelectNext
  BY <1>2, SelectNextFacts DEF SelectionOf
<1>. QED
  BY <1>1, <1>2 DEF Next, Dispatcher, API, GroupStep

----------------------------------------------------------------------------
(* A quiescent group stays retired.                                        *)

(* No step makes a retired group execute, hold a record or a lease.        *)
LEMMA QuiescentRestsStep ==
  ASSUME IInv, [Next]_vars
  PROVE  QuiescentRests'
<1>. USE DEF groupVars, queueVars, cpuVars, switchVars, hostVars
<1>1. Types /\ Residence /\ Control /\ QueueHoldsReady /\ QuiescentRests
  BY DEF IInv
<1>2. \A h \in Handles : h \in HandleType /\ h # NoHandle /\ h.id \in GroupIds
  BY <1>1, HandleFacts
<1>3. /\ \A s \in Slots : task[s].owner \in HandleType
      /\ \A i \in 1 .. Len(records) : records[i].owner \in HandleType /\ Resident(records[i].owner)
      /\ current # NONE => /\ current \in Slots /\ Resident(task[current].owner)
                           /\ task[current].owner.id \in GroupIds
  BY <1>1, Owners
<1>. DEFINE StillRetired(g) ==
              group[g].quiescent /\ group'[g].state = "REVOKED"
              /\ ~group'[g].init_busy /\ group'[g].references = 0
            Outside(g) == current' # NONE => task'[current'].owner.id # g
            NoRecord(g) == \A i \in 1 .. Len(records') : records'[i].owner.id # g
<1>4. ASSUME \A g \in GroupIds : group'[g].quiescent => StillRetired(g) /\ Outside(g) /\ NoRecord(g)
      PROVE  QuiescentRests'
  BY <1>4 DEF QuiescentRests, CurrentIn
<1>5. ASSUME \A g \in GroupIds : group'[g].quiescent => StillRetired(g),
             current' \in {current, NONE},
             \A s \in Slots : task'[s].owner = task[s].owner,
             \A i \in 1 .. Len(records') : \E j \in 1 .. Len(records) :
               records'[i].owner = records[j].owner
      PROVE  QuiescentRests'
  <2>1. ASSUME NEW g \in GroupIds, group'[g].quiescent PROVE Outside(g) /\ NoRecord(g)
    <3>1. group[g].quiescent
      BY <1>5, <2>1
    <3>2. Outside(g)
      BY <1>1, <1>3, <1>5, <3>1 DEF QuiescentRests, CurrentIn
    <3>3. NoRecord(g)
      BY <1>1, <1>5, <3>1 DEF QuiescentRests
    <3>. QED
      BY <3>2, <3>3
  <2>. QED
    BY <1>4, <1>5, <2>1
<1>6. UNCHANGED group => \A g \in GroupIds : group'[g].quiescent => StillRetired(g)
  BY <1>1 DEF QuiescentRests
<1>. HIDE DEF StillRetired
<1>7. CASE DepartSaved
  <2>1. /\ current \in Slots /\ Resident(task[current].owner) /\ UNCHANGED group /\ current' = NONE
        /\ records' = Append(Reaped(records),
             [task |-> current, owner |-> task[current].owner, live |-> TRUE])
        /\ Reaped(records) \in Seq(RecordType)
        /\ [task |-> current, owner |-> task[current].owner, live |-> TRUE] \in RecordType
    BY <1>7, DepartSavedFacts
  <2>2. \A i \in 1 .. Len(records') : \/ records'[i].owner = task[current].owner
                                      \/ \E j \in 1 .. Len(records) : records'[i].owner = records[j].owner
    <3>. DEFINE rest == Reaped(records)
                saved == [task |-> current, owner |-> task[current].owner, live |-> TRUE]
    <3>1. \A i \in 1 .. Len(rest) : \E j \in 1 .. Len(records) : rest[i] = records[j]
      BY <1>1, SurvivingRecords
    <3>2. saved.owner = task[current].owner
      OBVIOUS
    <3>. HIDE DEF rest, saved
    <3>3. /\ Len(records') = Len(rest) + 1 /\ records'[Len(rest) + 1] = saved
          /\ \A i \in 1 .. Len(rest) : records'[i] = rest[i]
      BY <2>1, AppendProperties DEF rest, saved
    <3>4. Len(rest) \in Nat
      BY <2>1, LenProperties DEF rest
    <3>5. \A i \in 1 .. Len(records') : i \in 1 .. Len(rest) \/ i = Len(rest) + 1
      BY <3>3, <3>4
    <3>. QED
      BY <3>1, <3>2, <3>3, <3>5
  <2>3. ASSUME NEW g \in GroupIds, group'[g].quiescent
        PROVE  StillRetired(g) /\ Outside(g) /\ NoRecord(g)
    <3>1. group[g].quiescent /\ StillRetired(g)
      BY <1>6, <2>1, <2>3
    <3>2. task[current].owner.id # g
      BY <1>1, <2>1, <3>1, StlAssumption DEF QuiescentRests, CurrentIn
    <3>3. NoRecord(g)
      BY <1>1, <2>2, <3>1, <3>2 DEF QuiescentRests
    <3>. QED
      BY <2>1, <3>1, <3>3
  <2>. QED
    BY <1>4, <2>3
<1>8. CASE SelectNext
  <2>1. PICK s \in Slots : SelectionOf(s)
    BY <1>8, SelectNextFacts
  <2>2. UNCHANGED group /\ MayRun(s) /\ current' \in {s, NONE}
        /\ \A e \in Slots : task'[e].owner = task[e].owner
    BY <2>1 DEF SelectionOf, Started, NotStarted
  <2>3. ~DepartSaved
    BY <1>1, <1>8 DEF DepartSaved, Departing, SelectNext, Selecting
  <2>4. \A i \in 1 .. Len(records') : \E j \in 1 .. Len(records) :
          records'[i].owner = records[j].owner
    BY <2>3, RecordsKept
  <2>5. ASSUME NEW g \in GroupIds, group'[g].quiescent
        PROVE  StillRetired(g) /\ Outside(g) /\ NoRecord(g)
    <3>1. group[g].quiescent /\ StillRetired(g)
      BY <1>6, <2>2, <2>5
    <3>2. Outside(g)
      BY <1>1, <2>2, <3>1 DEF QuiescentRests, MayRun
    <3>3. NoRecord(g)
      BY <1>1, <2>4, <3>1 DEF QuiescentRests
    <3>. QED
      BY <3>1, <3>2, <3>3
  <2>. QED
    BY <1>4, <2>5
<1>9. CASE FinishInline
  <2>. DEFINE h == task[current].owner
  <2>1. /\ phase = "finish" /\ current \in Slots /\ h.id \in GroupIds
        /\ (\E s \in Slots : InlinedTo(s)) \/ UNCHANGED <<cpuVars, host_owner, queueVars, group>>
    BY <1>9, FinishInlineFacts
  <2>2. ~DepartSaved
    BY <2>1 DEF DepartSaved, Departing
  <2>3. \A i \in 1 .. Len(records') : \E j \in 1 .. Len(records) :
          records'[i].owner = records[j].owner
    BY <2>2, RecordsKept
  <2>4. ASSUME NEW s \in Slots, InlinedTo(s) PROVE QuiescentRests'
    <3>1. /\ group[task[s].owner.id].state = "ENABLED" /\ current' = s
          /\ \A e \in Slots : task'[e].owner = task[e].owner
      BY <2>4 DEF InlinedTo
    <3>2. \/ UNCHANGED group
          \/ /\ \A g \in GroupIds \ {h.id} : group'[g] = group[g]
             /\ \E st : group'[h.id] = [group[h.id] EXCEPT !.state = st]
      BY <2>4 DEF InlinedTo
    <3>3. ~group[h.id].quiescent
      BY <1>1, <2>1, StlAssumption DEF QuiescentRests, CurrentIn
    <3>4. ASSUME NEW g \in GroupIds, group'[g].quiescent
          PROVE  group[g].quiescent /\ group'[g] = group[g]
      BY <1>1, <2>1, <3>2, <3>3, <3>4, StateEdited
    <3>5. ASSUME NEW g \in GroupIds, group'[g].quiescent
          PROVE  StillRetired(g) /\ Outside(g) /\ NoRecord(g)
      <4>1. group[g].quiescent /\ StillRetired(g)
        BY <1>1, <3>4, <3>5 DEF QuiescentRests, StillRetired
      <4>2. Outside(g)
        BY <1>1, <3>1, <4>1 DEF QuiescentRests
      <4>3. NoRecord(g)
        BY <1>1, <2>3, <4>1 DEF QuiescentRests
      <4>. QED
        BY <4>1, <4>2, <4>3
    <3>. QED
      BY <1>4, <3>5
  <2>5. ASSUME UNCHANGED <<cpuVars, host_owner, queueVars, group>> PROVE QuiescentRests'
    BY <1>5, <1>6, <2>3, <2>5
  <2>. QED
    BY <2>1, <2>4, <2>5
<1>10. ASSUME ~SelectNext, ~FinishInline, ~DepartSaved,
              \A g \in GroupIds : ~Register(g), \A h \in Handles : ~Forget(h),
              \A g \in GroupIds : group'[g].quiescent => StillRetired(g)
       PROVE  QuiescentRests'
  <2>1. /\ current' \in {current, NONE}
        /\ \A s \in Slots : task'[s].owner = task[s].owner
        /\ \A i \in 1 .. Len(records') : \E j \in 1 .. Len(records) :
             records'[i].owner = records[j].owner
    BY <1>10, CurrentKept, OwnersKept, RecordsKept
  <2>. QED
    BY <1>5, <1>10, <2>1
<1>11. CASE ~GroupStep
  <2>1. UNCHANGED group
    BY <1>11, GroupsKept
  <2>. QED
    BY <1>6, <1>7, <1>8, <1>9, <1>10, <1>11, <2>1 DEF GroupStep
<1>12. ASSUME NEW g \in GroupIds, Register(g) PROVE QuiescentRests'
  <2>1. /\ phase = "native" /\ group[g].gen = 0 /\ UNCHANGED <<records, current>>
        /\ group' = [group EXCEPT ![g] = [Absent EXCEPT !.gen = generation']]
    BY <1>12 DEF Register
  <2>2. ~group'[g].quiescent /\ \A o \in GroupIds \ {g} : group'[o] = group[o]
    BY <1>1, <2>1 DEF Types, Absent
  <2>3. ASSUME NEW o \in GroupIds, group'[o].quiescent
        PROVE  StillRetired(o) /\ Outside(o) /\ NoRecord(o)
    BY <1>1, <2>1, <2>2, <2>3 DEF QuiescentRests, Control, StillRetired
  <2>. QED
    BY <1>4, <2>3
<1>13. ASSUME NEW h \in Handles, Forget(h) PROVE QuiescentRests'
  <2>1. /\ phase = "native" /\ UNCHANGED <<records, current>>
        /\ group' = [group EXCEPT ![h.id] = Absent]
    BY <1>13 DEF Forget
  <2>2. ~group'[h.id].quiescent /\ \A o \in GroupIds \ {h.id} : group'[o] = group[o]
    BY <1>1, <1>2, <2>1 DEF Types, Absent
  <2>3. ASSUME NEW o \in GroupIds, group'[o].quiescent
        PROVE  StillRetired(o) /\ Outside(o) /\ NoRecord(o)
    BY <1>1, <2>1, <2>2, <2>3 DEF QuiescentRests, Control, StillRetired
  <2>. QED
    BY <1>4, <2>3
<1>14. ASSUME NEW h \in Handles, Quiescent(h) PROVE QuiescentRests'
  <2>1. /\ phase = "native" /\ Resident(h) /\ Retired(h, records') /\ records' = Reaped(records)
        /\ \A o \in GroupIds \ {h.id} : group'[o] = group[o]
        /\ \A o \in GroupIds : /\ group'[o].state = group[o].state
                               /\ group'[o].references = group[o].references
                               /\ group'[o].init_busy = group[o].init_busy
    BY <1>1, <1>2, <1>14, QuiescentFacts
  <2>2. current = NONE /\ UNCHANGED current
    BY <1>1, <1>14, <2>1 DEF Control, Quiescent
  <2>3. group[h.id].state = "REVOKED" /\ ~group[h.id].init_busy /\ group[h.id].references = 0
        /\ RecordsOf(h, records') = {}
    BY <2>1 DEF Retired, StateOf, Executing
  <2>4. \A i \in 1 .. Len(records') : \E j \in 1 .. Len(records) : records'[i] = records[j]
    BY <1>1, <2>1, SurvivingRecords
  <2>5. NoRecord(h.id)
    <3>. SUFFICES ASSUME NEW i \in 1 .. Len(records'), records'[i].owner.id = h.id PROVE FALSE
      OBVIOUS
    <3>1. records'[i].owner \in HandleType /\ Resident(records'[i].owner)
      BY <1>3, <2>4
    <3>2. records'[i].owner = h
      BY <1>1, <1>2, <2>1, <3>1, SameIdentity
    <3>3. DOMAIN records' = 1 .. Len(records')
      BY <2>1, <1>1, ReapedFacts, LenProperties DEF Types
    <3>. QED
      BY <2>3, <3>2, <3>3 DEF RecordsOf
  <2>6. ASSUME NEW o \in GroupIds, group'[o].quiescent
        PROVE  StillRetired(o) \/ o = h.id
    BY <1>1, <2>1, <2>6 DEF QuiescentRests, StillRetired
  <2>7. \A o \in GroupIds \ {h.id} : group'[o].quiescent => NoRecord(o)
    BY <1>1, <2>1, <2>4 DEF QuiescentRests
  <2>8. ASSUME NEW o \in GroupIds, group'[o].quiescent
        PROVE  /\ group'[o].state = "REVOKED" /\ ~group'[o].init_busy /\ group'[o].references = 0
    BY <1>1, <2>1, <2>3, <2>8 DEF QuiescentRests
  <2>. QED
    BY <2>2, <2>5, <2>7, <2>8 DEF QuiescentRests, CurrentIn
<1>15. ASSUME NEW h \in Handles,
              InitBegin(h) \/ Enable(h) \/ Disable(h) \/ Pause(h) \/ \E p \in Holders : Acquire(p, h)
       PROVE  \A g \in GroupIds : group'[g].quiescent => StillRetired(g)
  <2>1. group[h.id].state # "REVOKED"
    BY <1>15 DEF InitBegin, Enable, Disable, Pause, Acquire, Closed, StateOf
  <2>2. ~group[h.id].quiescent
    BY <1>1, <1>2, <2>1 DEF QuiescentRests
  <2>3. \/ InitBegin(h)
        \/ \E st : group' = [group EXCEPT ![h.id].state = st]
        \/ group' = [group EXCEPT ![h.id].references = @ + 1]
    BY <1>15 DEF Enable, Disable, Pause, Acquire
  <2>4. ~group'[h.id].quiescent /\ \A o \in GroupIds \ {h.id} : group'[o] = group[o]
    <3>1. CASE InitBegin(h)
      BY <1>1, <1>2, <2>2, <3>1, InitBeginFacts
    <3>2. CASE \E st : group' = [group EXCEPT ![h.id].state = st]
      BY <1>1, <1>2, <2>2, <3>2 DEF Types, GroupType
    <3>3. CASE group' = [group EXCEPT ![h.id].references = @ + 1]
      BY <1>1, <1>2, <2>2, <3>3 DEF Types, GroupType
    <3>. QED
      BY <2>3, <3>1, <3>2, <3>3
  <2>. QED
    BY <1>1, <2>4 DEF QuiescentRests, StillRetired
<1>16. ASSUME InitEnd
       PROVE  \A g \in GroupIds : group'[g].quiescent => StillRetired(g)
  <2>. DEFINE g == init.handle.id
  <2>1. /\ g \in GroupIds /\ group[g].init_busy /\ \A o \in GroupIds \ {g} : group'[o] = group[o]
        /\ group'[g].quiescent = group[g].quiescent
    BY <1>1, <1>16, InitEndFacts
  <2>. QED
    BY <1>1, <2>1 DEF QuiescentRests, StillRetired
<1>17. ASSUME NEW p \in Holders, Release(p)
       PROVE  \A g \in GroupIds : group'[g].quiescent => StillRetired(g)
  <2>. DEFINE h == lease[p]
  <2>1. group' = IF Resident(h) /\ group[h.id].references > 0
                   THEN [group EXCEPT ![h.id].references = @ - 1] ELSE group
    BY <1>17 DEF Release
  <2>2. CASE UNCHANGED group
    BY <1>6, <2>2
  <2>3. CASE group[h.id].references > 0 /\ group' = [group EXCEPT ![h.id].references = @ - 1]
    <3>1. \A o \in GroupIds : group'[o].quiescent = group[o].quiescent
                              /\ (o # h.id => group'[o] = group[o])
      BY <1>1, <2>3 DEF Types, GroupType
    <3>. QED
      BY <1>1, <2>3, <3>1 DEF QuiescentRests, StillRetired
  <2>. QED
    BY <2>1, <2>2, <2>3
<1>18. ASSUME NEW h \in Handles, Revoke(h)
       PROVE  \A g \in GroupIds : group'[g].quiescent => StillRetired(g)
  <2>1. /\ \A g \in GroupIds \ {h.id} : group'[g] = group[g]
        /\ \E st \in {"REVOKING", "REVOKED"} :
             /\ group'[h.id] = [group[h.id] EXCEPT !.state = st]
             /\ st = "REVOKING" <=> group[h.id].init_busy \/ OwnedBy(current, h)
    BY <1>1, <1>2, <1>18, RevokeFacts
  <2>2. group[h.id].quiescent => ~group[h.id].init_busy /\ ~OwnedBy(current, h)
    BY <1>1, <1>2 DEF QuiescentRests, CurrentIn, OwnedBy
  <2>3. \A o \in GroupIds : /\ group'[o].quiescent = group[o].quiescent
                            /\ group'[o].init_busy = group[o].init_busy
                            /\ group'[o].references = group[o].references
    BY <1>1, <1>2, <2>1, StateEdited
  <2>4. group[h.id].quiescent => group'[h.id].state = "REVOKED"
    BY <1>1, <1>2, <2>1, <2>2, StateEdited
  <2>5. ASSUME NEW g \in GroupIds, group'[g].quiescent PROVE StillRetired(g)
    <3>1. /\ group[g].quiescent /\ group[g].state = "REVOKED"
          /\ ~group[g].init_busy /\ group[g].references = 0
      BY <1>1, <2>3, <2>5 DEF QuiescentRests
    <3>2. group'[g].state = "REVOKED"
      BY <2>1, <2>4, <3>1
    <3>. QED
      BY <2>3, <3>1, <3>2 DEF StillRetired
  <2>. QED
    BY <2>5
<1>19. ASSUME DepartRevoked
       PROVE  \A g \in GroupIds : group'[g].quiescent => StillRetired(g)
  <2>. DEFINE h == task[current].owner
  <2>1. /\ current \in Slots /\ h.id \in GroupIds
        /\ \A g \in GroupIds \ {h.id} : group'[g] = group[g]
        /\ group[h.id].init_busy => group'[h.id] = [group[h.id] EXCEPT !.state = "REVOKING"]
        /\ ~group[h.id].init_busy => group'[h.id] = [group[h.id] EXCEPT !.state = "REVOKED"]
    BY <1>19, DepartRevokedFacts
  <2>2. ~group[h.id].quiescent
    BY <1>1, <2>1, StlAssumption DEF QuiescentRests, CurrentIn
  <2>3. group'[h.id].quiescent = group[h.id].quiescent
    BY <1>1, <2>1, StateEdited
  <2>. QED
    BY <1>1, <2>1, <2>2, <2>3 DEF QuiescentRests, StillRetired
<1>20. ASSUME ~SelectNext, ~FinishInline, ~DepartSaved,
              \A g \in GroupIds : ~Register(g), \A h \in Handles : ~Forget(h) /\ ~Quiescent(h),
              GroupStep
       PROVE  QuiescentRests'
  BY <1>10, <1>15, <1>16, <1>17, <1>18, <1>19, <1>20 DEF GroupStep
<1>. QED
  BY <1>7, <1>8, <1>9, <1>11, <1>12, <1>13, <1>14, <1>20
----------------------------------------------------------------------------
(* The ready queue.                                                        *)

(* Enabling a group changes its state and rebases its periods.             *)
LEMMA EnableFacts ==
  ASSUME Types, NEW h, h.id \in GroupIds, Enable(h)
  PROVE  /\ ~fault /\ group[h.id].state \notin {"REVOKING", "REVOKED"}
         /\ group'[h.id] = [group[h.id] EXCEPT !.state = "ENABLED"]
         /\ \A o \in GroupIds \ {h.id} : group'[o] = group[o]
         /\ \A s \in Slots : task'[s].owner = task[s].owner /\ task'[s].state = task[s].state
         /\ UNCHANGED <<group_list, generation, init, ready, records, cpuVars, switchVars, lease,
                        hostVars, fault>>
<1>1. \A s \in Slots : task'[s].owner = task[s].owner /\ task'[s].state = task[s].state
  BY DEF Enable, Types, TaskType
<1>2. /\ group'[h.id] = [group[h.id] EXCEPT !.state = "ENABLED"]
      /\ \A o \in GroupIds \ {h.id} : group'[o] = group[o]
  BY DEF Enable, Types
<1>. QED
  BY <1>1, <1>2 DEF Enable, Closed, StateOf

(* Every step that queues a task makes it ready, and no step queues it     *)
(* twice.                                                                  *)
LEMMA QueueHoldsReadyStep ==
  ASSUME IInv, [Next]_vars
  PROVE  QueueHoldsReady'
<1>. USE DEF groupVars, queueVars, cpuVars, switchVars, hostVars
<1>1. Types /\ Types' /\ Residence /\ Control /\ QueueHoldsReady
  BY TypesStep DEF IInv
<1>2. \A h \in Handles : h \in HandleType /\ h # NoHandle /\ h.id \in GroupIds
  BY <1>1, HandleFacts
<1>3. ASSUME UNCHANGED ready,
             \A s \in Slots : Contains(ready, s) => task'[s].state = task[s].state
      PROVE  QueueHoldsReady'
  BY <1>1, <1>3 DEF QueueHoldsReady
<1>4. ASSUME \/ UNCHANGED vars \/ InitCall \/ InitEnd \/ Yield \/ RequestNative \/ HostService
             \/ (\E h \in Handles : \/ InitBegin(h) \/ Quiescent(h)
                                    \/ \E p \in Holders : Acquire(p, h))
             \/ (\E p \in Holders : Release(p))
             \/ Run \/ ReturnDone \/ PendSV \/ PendSVExit
             \/ DepartFault \/ DepartHeld \/ DepartExhausted \/ DepartDone
             \/ SelectNative \/ SelectIdle \/ FinishSwitch
      PROVE  QueueHoldsReady'
  <2>1. UNCHANGED <<task, ready>>
    BY <1>4 DEF vars, InitCall, InitEnd, Yield, RequestNative, HostService, InitBegin, Quiescent,
                Acquire, Release, Run, ReturnDone, PendSV, PendSVExit, DepartFault, DepartHeld,
                DepartExhausted, DepartDone, SelectNative, SelectIdle, FinishSwitch
  <2>. QED
    BY <1>3, <2>1
<1>5. ASSUME NEW g \in GroupIds, Register(g) PROVE QueueHoldsReady'
  <2>1. UNCHANGED ready /\ \A s \in Slots : task[s].state # "FREE" => task'[s] = task[s]
    BY <1>5 DEF Register, FreeSlots
  <2>. QED
    BY <1>1, <1>3, <2>1 DEF QueueHoldsReady
<1>6. ASSUME NEW h \in Handles, Forget(h) PROVE QueueHoldsReady'
  <2>1. /\ ~fault /\ group[h.id].state = "REVOKED" /\ UNCHANGED ready
        /\ \A s \in Slots : task[s].owner # h => task'[s] = task[s]
    BY <1>6 DEF Forget, Retired, StateOf, TasksOf
  <2>2. \A s \in Slots : Contains(ready, s) => task[s].owner # h
    <3>. SUFFICES ASSUME NEW s \in Slots, Contains(ready, s), task[s].owner = h PROVE FALSE
      OBVIOUS
    <3>1. MayRun(s)
      BY <2>1 DEF IInv, QueueHoldsReady, ReadyIsQueued
    <3>. QED
      BY <2>1, <3>1 DEF MayRun
  <2>. QED
    BY <1>3, <2>1, <2>2
<1>7. ASSUME NEW h \in Handles, Enable(h) PROVE QueueHoldsReady'
  BY <1>1, <1>2, <1>3, <1>7, EnableFacts
<1>8. ASSUME NEW h \in Handles, Disable(h) \/ Pause(h) PROVE QueueHoldsReady'
  <2>1. Withdraw(h)
    BY <1>8 DEF Disable, Pause
  <2>2. /\ IsInjective(ready')
        /\ \A s \in Slots : Contains(ready', s) <=>
             Contains(ready, s) /\ ~(task[s].owner = h /\ task[s].state = "NEW")
        /\ \A s \in Slots : ~(task[s].owner = h /\ task[s].state = "NEW" /\ Contains(ready, s))
             => task'[s] = task[s]
    BY <1>1, <2>1, WithdrawFacts
  <2>. QED
    BY <1>1, <2>2 DEF QueueHoldsReady
<1>9. ASSUME NEW h \in Handles, Revoke(h) PROVE QueueHoldsReady'
  <2>1. /\ IsInjective(ready')
        /\ \A s \in Slots : Contains(ready', s) <=> Contains(ready, s) /\ task[s].owner # h
        /\ \A s \in Slots : ~(task[s].owner = h /\ Contains(ready, s)) => task'[s] = task[s]
    BY <1>1, <1>2, <1>9, RevokeFacts
  <2>. QED
    BY <1>1, <2>1 DEF QueueHoldsReady
<1>10. ASSUME NEW d \in TickSteps, Tick(d) PROVE QueueHoldsReady'
  <2>1. PICK D \in SUBSET Slots :
          /\ \A s \in Slots : Contains(ready', s) <=> Contains(ready, s) \/ s \in D
          /\ \A s \in D : task[s].state = "SLEEPING" /\ task'[s].state = "NEW"
          /\ \A s \in Slots \ D : task'[s].state = task[s].state
    BY <1>10, TickFacts
  <2>2. IsInjective(ready')
    BY <1>10, TickFacts
  <2>. QED
    BY <1>1, <2>1, <2>2 DEF QueueHoldsReady
<1>11. CASE DepartRevoked
  <2>1. /\ task' = [task EXCEPT ![current].state = "SLEEPING"]
        /\ IsInjective(ready') /\ ~Contains(ready, current)
        /\ \A s \in Slots : Contains(ready', s) <=> Contains(ready, s)
    BY <1>11, DepartRevokedFacts
  <2>2. \A s \in Slots : Contains(ready', s) => task'[s] = task[s]
    BY <1>1, <2>1 DEF Types
  <2>. QED
    BY <1>1, <2>1, <2>2 DEF QueueHoldsReady
<1>12. CASE DepartSaved
  <2>1. /\ task'[current].state = "OLD" /\ \A s \in Slots : s # current => task'[s] = task[s]
        /\ IsInjective(ready')
        /\ \A s \in Slots : Contains(ready', s) <=> Contains(ready, s) \/ s = current
    BY <1>12, DepartSavedFacts
  <2>. QED
    BY <1>1, <2>1 DEF QueueHoldsReady
<1>13. CASE SelectNext
  <2>1. PICK s \in Slots : SelectionOf(s)
    BY <1>13, SelectNextFacts
  <2>. QED
    BY <1>1, <2>1 DEF SelectionOf, QueueHoldsReady
<1>14. CASE Complete
  <2>1. /\ IsInjective(ready')
        /\ \A s \in Slots : Contains(ready', s) <=>
             (Contains(ready, s) /\ s # current) \/ (task'[s].state = "NEW" /\ task'[s].state # task[s].state)
        /\ \A s \in Slots :
             \/ s # current /\ task'[s] = task[s]
             \/ s = current /\ task'[s].state = "SLEEPING"
             \/ (task[s].state = "SLEEPING" \/ s = current) /\ task'[s].state = "NEW"
    BY <1>14, CompleteFacts
  <2>. QED
    BY <1>1, <2>1 DEF QueueHoldsReady
<1>15. CASE FinishInline
  <2>1. \/ \E s \in Slots : InlinedTo(s)
        \/ UNCHANGED queueVars
    BY <1>15, FinishInlineFacts
  <2>2. ASSUME NEW s \in Slots, InlinedTo(s) PROVE QueueHoldsReady'
    BY <1>1, <2>2 DEF InlinedTo, QueueHoldsReady
  <2>. QED
    BY <1>3, <2>1, <2>2
<1>. QED
  BY <1>4, <1>5, <1>6, <1>7, <1>8, <1>9, <1>10, <1>11, <1>12, <1>13, <1>14, <1>15
  DEF Next, Dispatcher, API

(* The tasks of a closed group and those of a paused one are not ready.    *)
LEMMA ReadyMayRun ==
  ASSUME IInv, ~fault, NEW s \in Slots, task[s].state \in {"NEW", "OLD"}
  PROVE  /\ Contains(ready, s) /\ MayRun(s) /\ task[s].owner \in HandleType
         /\ Resident(task[s].owner) /\ task[s].owner.id \in GroupIds
         /\ group[task[s].owner.id].state \in {"ENABLED", "DISABLED"}
<1>1. task[s].owner \in HandleType /\ Resident(task[s].owner) /\ task[s].owner.id \in GroupIds
  BY Owners DEF IInv
<1>2. Contains(ready, s) /\ MayRun(s)
  BY DEF IInv, ReadyIsQueued
<1>. QED
  BY <1>1, <1>2 DEF MayRun

(* Every step that makes a task ready queues it, under a group that may run*)
(* it.                                                                     *)
LEMMA ReadyIsQueuedStep ==
  ASSUME IInv, [Next]_vars
  PROVE  ReadyIsQueued'
<1>. USE DEF groupVars, queueVars, cpuVars, switchVars, hostVars
<1>1. Types /\ Types' /\ Residence /\ Control /\ QueueHoldsReady
  BY TypesStep DEF IInv
<1>2. \A h \in Handles : h \in HandleType /\ h # NoHandle /\ h.id \in GroupIds
  BY <1>1, HandleFacts
<1>. SUFFICES ASSUME ~fault' PROVE ReadyIsQueued'
  BY DEF ReadyIsQueued
<1>3. ~fault
  BY FaultStays
<1>4. \A s \in Slots :
        /\ task[s].state \in {"NEW", "OLD"} =>
             /\ Contains(ready, s) /\ MayRun(s)
             /\ task[s].owner \in HandleType /\ Resident(task[s].owner)
             /\ task[s].owner.id \in GroupIds
             /\ group[task[s].owner.id].state \in {"ENABLED", "DISABLED"}
        /\ task[s].state = "RUNNING" => s = current
  BY <1>3, ReadyMayRun DEF IInv, ReadyIsQueued
<1>. DEFINE Runs(s) == LET state == group'[task'[s].owner.id].state
                       IN state = "ENABLED" \/ (state = "DISABLED" /\ task'[s].state = "OLD")
            Good(s) == /\ task'[s].state \in {"NEW", "OLD"} => Contains(ready', s) /\ Runs(s)
                       /\ task'[s].state = "RUNNING" => s = current'
<1>5. ASSUME \A s \in Slots : Good(s) PROVE ReadyIsQueued'
  BY <1>5 DEF ReadyIsQueued, MayRun
(* Steps that leave the ready tasks, their queue and their groups alone.   *)
<1>6. ASSUME \A s \in Slots : task'[s].owner = task[s].owner,
             \A s \in Slots : /\ task[s].state = "RUNNING" => task'[s].state \in {"RUNNING", "SLEEPING"}
                              /\ task[s].state # "RUNNING" => task'[s].state = task[s].state,
             \A s \in Slots : Contains(ready, s) => Contains(ready', s),
             \A s \in Slots : task'[s].state = "RUNNING" => s = current',
             \A g \in GroupIds : group'[g].state = group[g].state
                                 \/ group[g].state \in {"REVOKING", "REVOKED", "PAUSED"}
      PROVE  ReadyIsQueued'
  <2>1. ASSUME NEW s \in Slots PROVE Good(s)
    BY <1>4, <1>6 DEF MayRun
  <2>. QED
    BY <1>5, <2>1
<1>7. ASSUME UNCHANGED <<task, ready, current>>,
             \A g \in GroupIds : group'[g].state = group[g].state
                                 \/ group[g].state \in {"REVOKING", "REVOKED", "PAUSED"}
      PROVE  ReadyIsQueued'
  BY <1>4, <1>6, <1>7
<1>8. ASSUME \/ UNCHANGED vars \/ InitCall \/ Yield \/ RequestNative \/ HostService
             \/ Run \/ ReturnDone \/ PendSV \/ PendSVExit
             \/ DepartHeld \/ DepartExhausted \/ FinishSwitch
      PROVE  ReadyIsQueued'
  <2>1. UNCHANGED <<task, ready, current, group>>
    BY <1>8 DEF vars, InitCall, Yield, RequestNative, HostService, Run, ReturnDone, PendSV,
                PendSVExit, DepartHeld, DepartExhausted, FinishSwitch
  <2>. QED
    BY <1>7, <2>1
<1>9. CASE DepartFault
  BY <1>3, <1>9 DEF DepartFault
<1>10. CASE DepartDone \/ SelectNative \/ SelectIdle
  <2>1. UNCHANGED <<task, ready, group>>
    BY <1>10 DEF DepartDone, SelectNative, SelectIdle
  <2>2. \A s \in Slots : task[s].state # "RUNNING"
    <3>1. CASE DepartDone
      BY <1>4, <3>1 DEF DepartDone
    <3>2. CASE SelectNative \/ SelectIdle
      <4>1. current = NONE
        BY <1>1, <3>2 DEF SelectNative, SelectIdle, Selecting, Control
      <4>. QED
        BY <1>4, <4>1, StlAssumption
    <3>. QED
      BY <1>10, <3>1, <3>2
  <2>. QED
    BY <1>6, <2>1, <2>2
<1>11. ASSUME NEW h \in Handles, InitBegin(h) \/ Quiescent(h) PROVE ReadyIsQueued'
  <2>1. UNCHANGED <<task, ready, current>>
    BY <1>11 DEF InitBegin, Quiescent
  <2>2. \A g \in GroupIds : group'[g].state = group[g].state
    BY <1>1, <1>2, <1>11, InitBeginFacts, QuiescentFacts
  <2>. QED
    BY <1>7, <2>1, <2>2
<1>12. CASE InitEnd
  <2>. DEFINE g == init.handle.id
  <2>1. /\ \A o \in GroupIds \ {g} : group'[o] = group[o]
        /\ group[g].state \notin {"REVOKING", "REVOKED"} => group'[g].state = group[g].state
        /\ UNCHANGED <<group_list, generation, queueVars, cpuVars, switchVars, lease,
                       hostVars, fault>>
    BY <1>1, <1>12, InitEndFacts
  <2>. QED
    BY <1>7, <2>1
<1>13. ASSUME NEW h \in Handles, NEW p \in Holders, Acquire(p, h) PROVE ReadyIsQueued'
  <2>1. UNCHANGED <<task, ready, current>> /\ group' = [group EXCEPT ![h.id].references = @ + 1]
    BY <1>13 DEF Acquire
  <2>2. \A g \in GroupIds : group'[g].state = group[g].state
    BY <1>1, <2>1 DEF Types, GroupType
  <2>. QED
    BY <1>7, <2>1, <2>2
<1>14. ASSUME NEW p \in Holders, Release(p) PROVE ReadyIsQueued'
  <2>1. /\ UNCHANGED <<task, ready, current>>
        /\ group' = group \/ group' = [group EXCEPT ![lease[p].id].references = @ - 1]
    BY <1>14 DEF Release
  <2>2. ASSUME group' = [group EXCEPT ![lease[p].id].references = @ - 1]
        PROVE  \A g \in GroupIds : group'[g].state = group[g].state
    BY <1>1, <2>2 DEF Types, GroupType
  <2>. QED
    BY <1>7, <2>1, <2>2
<1>15. ASSUME NEW g \in GroupIds, Register(g) PROVE ReadyIsQueued'
  <2>1. /\ group[g].gen = 0 /\ UNCHANGED <<ready, current>>
        /\ group' = [group EXCEPT ![g] = [Absent EXCEPT !.gen = generation']]
    BY <1>15 DEF Register
  <2>2. \A o \in GroupIds \ {g} : group'[o] = group[o]
    BY <1>1, <2>1 DEF Types
  <2>3. \A s \in Slots : \/ task'[s] = task[s]
                         \/ task[s].state = "FREE" /\ task'[s].state = "SLEEPING"
    BY <1>15 DEF Register, FreeTask, FreeSlots
  <2>4. ASSUME NEW s \in Slots PROVE Good(s)
    <3>1. task[s].state \in {"NEW", "OLD"} => task[s].owner.id # g
      BY <1>1, <1>4, <2>1, HandleFacts
    <3>. QED
      BY <1>4, <2>1, <2>2, <2>3, <3>1 DEF MayRun
  <2>. QED
    BY <1>5, <2>4
<1>16. ASSUME NEW h \in Handles, Forget(h) PROVE ReadyIsQueued'
  <2>1. /\ group[h.id].state = "REVOKED" /\ UNCHANGED <<ready, current>>
        /\ group' = [group EXCEPT ![h.id] = Absent]
        /\ \A s \in Slots : \/ task[s].owner # h /\ task'[s] = task[s]
                            \/ task'[s].state = "FREE"
    BY <1>16 DEF Forget, Retired, StateOf, TasksOf, FreeTask
  <2>2. \A o \in GroupIds \ {h.id} : group'[o] = group[o]
    BY <1>1, <2>1 DEF Types
  <2>3. ASSUME NEW s \in Slots PROVE Good(s)
    <3>1. task[s].state \in {"NEW", "OLD"} => task[s].owner.id # h.id
      BY <1>4, <2>1
    <3>. QED
      BY <1>4, <2>1, <2>2, <3>1 DEF MayRun
  <2>. QED
    BY <1>5, <2>3
<1>17. ASSUME NEW h \in Handles, Enable(h) PROVE ReadyIsQueued'
  <2>1. /\ group'[h.id] = [group[h.id] EXCEPT !.state = "ENABLED"]
        /\ \A o \in GroupIds \ {h.id} : group'[o] = group[o]
        /\ \A s \in Slots : task'[s].owner = task[s].owner /\ task'[s].state = task[s].state
        /\ UNCHANGED <<group_list, generation, init, ready, records, cpuVars, switchVars, lease,
                       hostVars, fault>>
    BY <1>1, <1>2, <1>17, EnableFacts
  <2>2. group'[h.id].state = "ENABLED"
    BY <1>1, <1>2, <2>1, StateEdited
  <2>3. ASSUME NEW s \in Slots PROVE Good(s)
    <3>1. CASE task[s].owner.id = h.id
      BY <1>4, <2>1, <2>2, <3>1
    <3>2. CASE task[s].owner.id # h.id
      <4>1. task[s].state \in {"NEW", "OLD"} => group'[task[s].owner.id] = group[task[s].owner.id]
        BY <1>4, <2>1, <3>2
      <4>. QED
        BY <1>4, <2>1, <4>1 DEF MayRun
    <3>. QED
      BY <3>1, <3>2
  <2>. QED
    BY <1>5, <2>3
<1>18. ASSUME NEW h \in Handles, Disable(h) \/ Pause(h) PROVE ReadyIsQueued'
  <2>1. Withdraw(h) /\ Resident(h)
    BY <1>18 DEF Disable, Pause
  <2>2. /\ \A s \in Slots : Contains(ready', s) <=>
             Contains(ready, s) /\ ~(task[s].owner = h /\ task[s].state = "NEW")
        /\ \A s \in Slots :
             /\ task'[s].owner = task[s].owner
             /\ task[s].owner = h /\ task[s].state = "NEW" /\ Contains(ready, s)
                  => task'[s].state = "SLEEPING"
             /\ ~(task[s].owner = h /\ task[s].state = "NEW" /\ Contains(ready, s))
                  => task'[s] = task[s]
    BY <1>1, <2>1, WithdrawFacts
  <2>3. UNCHANGED current
    BY <2>1 DEF Withdraw
  <2>4. /\ \A o \in GroupIds \ {h.id} : group'[o] = group[o]
        /\ \/ group'[h.id].state = "DISABLED"
           \/ Pause(h) /\ group'[h.id].state = "PAUSED"
    <3>1. group \in [GroupIds -> GroupType] /\ h.id \in GroupIds /\ group[h.id] \in GroupType
      BY <1>1, <1>2 DEF Types
    <3>2. \/ group' = [group EXCEPT ![h.id] = [group[h.id] EXCEPT !.state = "DISABLED"]]
          \/ Pause(h) /\ group' = [group EXCEPT ![h.id] = [group[h.id] EXCEPT !.state = "PAUSED"]]
      BY <1>18 DEF Disable, Pause
    <3>3. /\ [group[h.id] EXCEPT !.state = "DISABLED"].state = "DISABLED"
          /\ [group[h.id] EXCEPT !.state = "PAUSED"].state = "PAUSED"
      BY <3>1 DEF GroupType
    <3>. QED
      BY <3>1, <3>2, <3>3
  <2>5. ASSUME Pause(h), NEW s \in Slots, task[s].owner = h PROVE task[s].state # "OLD"
    <3>. SUFFICES ASSUME task[s].state = "OLD" PROVE FALSE
      OBVIOUS
    <3>1. PICK i \in 1 .. Len(records) : records[i].live /\ records[i].task = s
      BY <1>3 DEF IInv, RecordsPaired
    <3>2. records[i].owner = h
      BY <1>3, <2>5, <3>1 DEF IInv, RecordsPaired
    <3>3. i \in RecordsOf(h, records)
      BY <1>1, <3>2, LenProperties DEF RecordsOf, Types
    <3>. QED
      BY <2>5, <3>3 DEF Pause
  <2>6. ASSUME NEW s \in Slots PROVE Good(s)
    <3>1. CASE task[s].owner = h /\ task[s].state = "NEW"
      <4>1. task'[s].state = "SLEEPING"
        BY <1>4, <2>2, <3>1
      <4>. QED
        BY <4>1
    <3>2. CASE ~(task[s].owner = h /\ task[s].state = "NEW")
      <4>1. task'[s] = task[s] /\ (Contains(ready', s) <=> Contains(ready, s))
        BY <2>2, <3>2
      <4>2. ASSUME task[s].state \in {"NEW", "OLD"}, task[s].owner.id = h.id
            PROVE  task[s].state = "OLD" /\ group'[h.id].state = "DISABLED"
        <5>1. task[s].owner = h
          BY <1>1, <1>2, <1>4, <2>1, <4>2, SameIdentity
        <5>. QED
          BY <2>4, <2>5, <3>2, <4>2, <5>1
      <4>3. task[s].state \in {"NEW", "OLD"} => Contains(ready', s) /\ Runs(s)
        <5>1. CASE task[s].owner.id = h.id
          BY <1>4, <4>1, <4>2, <5>1
        <5>2. CASE task[s].owner.id # h.id
          BY <1>4, <2>4, <4>1, <5>2 DEF MayRun
        <5>. QED
          BY <5>1, <5>2
      <4>. QED
        BY <1>4, <2>3, <4>1, <4>3
    <3>. QED
      BY <3>1, <3>2
  <2>. QED
    BY <1>5, <2>6
<1>19. ASSUME NEW h \in Handles, Revoke(h) PROVE ReadyIsQueued'
  <2>1. /\ Resident(h)
        /\ \A s \in Slots : Contains(ready', s) <=> Contains(ready, s) /\ task[s].owner # h
        /\ \A s \in Slots :
             /\ task'[s].owner = task[s].owner
             /\ task[s].owner = h /\ Contains(ready, s) => task'[s].state = "SLEEPING"
             /\ ~(task[s].owner = h /\ Contains(ready, s)) => task'[s] = task[s]
        /\ \A g \in GroupIds \ {h.id} : group'[g] = group[g]
        /\ UNCHANGED <<group_list, generation, init, cpuVars, native_pending, phase, lease,
                       hostVars, fault>>
    BY <1>1, <1>2, <1>19, RevokeFacts
  <2>2. ASSUME NEW s \in Slots PROVE Good(s)
    <3>1. CASE task[s].owner = h /\ Contains(ready, s)
      <4>1. task'[s].state = "SLEEPING"
        BY <2>1, <3>1
      <4>. QED
        BY <4>1
    <3>2. CASE ~(task[s].owner = h /\ Contains(ready, s))
      <4>1. task'[s] = task[s]
        BY <2>1, <3>2
      <4>2. task[s].state \in {"NEW", "OLD"} => Contains(ready, s) /\ task[s].owner # h
                                                /\ task[s].owner.id # h.id
        BY <1>1, <1>2, <1>4, <2>1, <3>2, SameIdentity
      <4>. QED
        BY <1>4, <2>1, <4>1, <4>2 DEF MayRun
    <3>. QED
      BY <3>1, <3>2
  <2>. QED
    BY <1>5, <2>2
<1>20. ASSUME NEW d \in TickSteps, Tick(d) PROVE ReadyIsQueued'
  <2>1. PICK D \in SUBSET Slots :
          /\ \A s \in Slots : Contains(ready', s) <=> Contains(ready, s) \/ s \in D
          /\ \A s \in D : /\ task[s].state = "SLEEPING" /\ task'[s].state = "NEW"
                          /\ group[task[s].owner.id].state = "ENABLED"
          /\ \A s \in Slots \ D : task'[s].state = task[s].state
    BY <1>20, TickFacts
  <2>2. \A s \in Slots : task'[s].owner = task[s].owner
    BY <1>20, TickFacts
  <2>3. UNCHANGED <<group, current>>
    BY <1>20 DEF Tick
  <2>4. ASSUME NEW s \in Slots PROVE Good(s)
    BY <1>4, <2>1, <2>2, <2>3 DEF MayRun
  <2>. QED
    BY <1>5, <2>4
<1>21. CASE DepartRevoked
  <2>. DEFINE h == task[current].owner
  <2>1. /\ current \in Slots /\ h.id \in GroupIds
        /\ Closed(h) /\ task' = [task EXCEPT ![current].state = "SLEEPING"]
        /\ \A s \in Slots : Contains(ready', s) <=> Contains(ready, s)
        /\ \A g \in GroupIds \ {h.id} : group'[g] = group[g]
    BY <1>21, DepartRevokedFacts
  <2>2. /\ \A s \in Slots \ {current} : task'[s] = task[s]
        /\ task'[current].state = "SLEEPING" /\ task'[current].owner = task[current].owner
    BY <1>1, <2>1 DEF Types, TaskType
  <2>3. ASSUME NEW s \in Slots PROVE Good(s)
    <3>1. CASE s = current
      BY <2>2, <3>1
    <3>2. CASE s # current
      <4>1. task[s].state \in {"NEW", "OLD"} => task[s].owner.id # h.id
        BY <1>4, <2>1 DEF Closed, StateOf
      <4>2. task'[s] = task[s]
        BY <2>2, <3>2
      <4>. QED
        BY <1>4, <2>1, <3>2, <4>1, <4>2 DEF MayRun
    <3>. QED
      BY <3>1, <3>2
  <2>. QED
    BY <1>5, <2>3
<1>22. CASE DepartSaved
  <2>. DEFINE h == task[current].owner
  <2>1. /\ current \in Slots /\ Resident(h) /\ ~Closed(h)
        /\ \A s \in Slots : task'[s].owner = task[s].owner
        /\ task'[current].state = "OLD"
        /\ \A s \in Slots : s # current => task'[s] = task[s]
        /\ \A s \in Slots : Contains(ready', s) <=> Contains(ready, s) \/ s = current
        /\ current' = NONE /\ UNCHANGED group
    BY <1>22, DepartSavedFacts
  <2>2. h.id \in GroupIds /\ current # NONE
    BY <1>1, <2>1, Owners, StlAssumption
  <2>3. group[h.id].state \in {"ENABLED", "DISABLED"}
    <3>1. group[h.id].state # "PAUSED"
      BY <1>3, <2>2 DEF IInv, GroupsSettled, CurrentIn
    <3>2. group[h.id].state \in GroupStates
      BY <1>1, <2>2 DEF Types, GroupType
    <3>. QED
      BY <2>1, <3>1, <3>2 DEF GroupStates, Closed, StateOf
  <2>4. ASSUME NEW s \in Slots PROVE Good(s)
    BY <1>4, <2>1, <2>3 DEF MayRun
  <2>. QED
    BY <1>5, <2>4
<1>23. CASE SelectNext
  <2>1. PICK s \in Slots : SelectionOf(s)
    BY <1>23, SelectNextFacts
  <2>2. /\ current = NONE /\ UNCHANGED group /\ Started(s)
        /\ \A e \in Slots : Contains(ready', e) <=> e # s /\ (Contains(ready, e) \/ Due(task, e))
        /\ \A e \in Slots :
             /\ task'[e].owner = task[e].owner
             /\ e # s /\ Due(task, e) => task[e].state = "SLEEPING" /\ task'[e].state = "NEW"
             /\ e # s /\ ~Due(task, e) => task'[e] = task[e]
    BY <2>1 DEF SelectionOf, NotStarted
  <2>3. current' = s /\ task'[s].state = "RUNNING"
    BY <2>2 DEF Started
  <2>4. ASSUME NEW e \in Slots PROVE Good(e)
    <3>1. CASE e = s
      BY <2>3, <3>1
    <3>2. CASE e # s /\ Due(task, e)
      BY <2>2, <3>2 DEF Due, StateOf
    <3>3. CASE e # s /\ ~Due(task, e)
      BY <1>4, <2>2, <3>3, StlAssumption DEF MayRun
    <3>. QED
      BY <3>1, <3>2, <3>3
  <2>. QED
    BY <1>5, <2>4
<1>24. CASE Complete
  <2>1. /\ \A s \in Slots : task'[s].owner = task[s].owner
        /\ \A s \in Slots : Contains(ready', s) <=>
             (Contains(ready, s) /\ s # current) \/ (task'[s].state = "NEW" /\ task'[s].state # task[s].state)
        /\ \A s \in Slots :
              \/ s # current /\ task'[s] = task[s]
              \/ s = current /\ task'[s].state = "SLEEPING"
              \/ /\ task[s].state = "SLEEPING" \/ s = current
                 /\ task'[s].state = "NEW"
                 /\ group[task[s].owner.id].state = "ENABLED"
        /\ task[current].state = "RUNNING"
    BY <1>24, CompleteFacts
  <2>2. UNCHANGED <<group, current>>
    BY <1>24 DEF Complete
  <2>3. ASSUME NEW s \in Slots PROVE Good(s)
    BY <1>4, <2>1, <2>2 DEF MayRun
  <2>. QED
    BY <1>5, <2>3
<1>25. CASE FinishInline
  <2>. DEFINE h == task[current].owner
  <2>1. /\ phase = "finish" /\ h.id \in GroupIds /\ \E s \in Slots : InlinedTo(s)
    BY <1>25, FinishInlineFacts
  <2>2. PICK s \in Slots : InlinedTo(s)
    BY <2>1
  <2>3. /\ current' = s /\ task'[s].state = "RUNNING"
        /\ \A e \in Slots : task'[e].owner = task[e].owner /\ (e # s => task'[e] = task[e])
        /\ \A e \in Slots : Contains(ready', e) <=> Contains(ready, e) /\ e # s
    BY <2>2 DEF InlinedTo
  <2>4. \A g \in GroupIds : \/ group'[g] = group[g]
                            \/ group[g].state = "REVOKING"
    BY <2>1, <2>2 DEF InlinedTo
  <2>5. \A e \in Slots : task[e].state # "RUNNING"
    BY <1>1, <1>4, <2>1 DEF Control
  <2>6. ASSUME NEW e \in Slots PROVE Good(e)
    <3>1. CASE e = s
      BY <2>3, <3>1
    <3>2. CASE e # s
      BY <1>4, <2>3, <2>4, <2>5, <3>2 DEF MayRun
    <3>. QED
      BY <3>1, <3>2
  <2>. QED
    BY <1>5, <2>6
<1>. QED
  BY <1>8, <1>9, <1>10, <1>11, <1>12, <1>13, <1>14, <1>15, <1>16, <1>17, <1>18, <1>19, <1>20,
     <1>21, <1>22, <1>23, <1>24, <1>25
  DEF Next, Dispatcher, API
----------------------------------------------------------------------------
(* The allocation history.                                                 *)

(* While its head is live there is nothing to reap.                        *)
LEMMA ReapedWhole ==
  ASSUME IInv, ~fault
  PROVE  Reaped(records) = records
<1>. DEFINE z == Reaped(records)
<1>1. records \in Seq(RecordType) /\ Len(records) \in Nat
      /\ (records # << >> => records[1].live)
  BY LenProperties DEF IInv, Types, RecordsPaired
<1>2. z \in Seq(RecordType)
  BY <1>1, ReapedFacts
<1>3. PICK k \in Nat :
        /\ k <= Len(records) /\ Len(z) = Len(records) - k
        /\ \A i \in 1 .. Len(z) : i + k \in 1 .. Len(records) /\ z[i] = records[i + k]
        /\ \A i \in 1 .. Len(records) : records[i].live => i - k \in 1 .. Len(z) /\ z[i - k] = records[i]
  BY <1>1, ReapedFacts
<1>. HIDE DEF z
<1>4. k = 0
  <2>1. CASE Len(records) = 0
    BY <1>3, <2>1
  <2>2. CASE Len(records) # 0
    <3>1. 1 \in 1 .. Len(records) /\ records # << >>
      BY <1>1, <2>2
    <3>2. 1 - k \in 1 .. Len(z)
      BY <1>1, <1>3, <3>1
    <3>. QED
      BY <3>2
  <2>. QED
    BY <2>1, <2>2
<1>5. Len(z) = Len(records) /\ \A i \in 1 .. Len(z) : z[i] = records[i]
  BY <1>1, <1>3, <1>4
<1>. QED
  BY <1>1, <1>2, <1>5, SeqEqual DEF z

(* Consuming the records of tasks that stop being in TASK_OLD keeps the    *)
(* correspondence.                                                         *)
LEMMA PairedAfterConsuming ==
  ASSUME IInv, ~fault, NEW which, records' = Consumed(records, which),
         \A s \in Slots : task'[s].owner = task[s].owner,
         \A i \in 1 .. Len(records) : records[i].live /\ i \notin which =>
           task'[records[i].task].state = "OLD",
         \A s \in Slots : task'[s].state = "OLD" =>
           /\ task[s].state = "OLD"
           /\ \A i \in 1 .. Len(records) : records[i].live /\ records[i].task = s => i \notin which
  PROVE  RecordsPaired'
<1>1. records \in Seq(RecordType) /\ Len(records) \in Nat
  BY LenProperties DEF IInv, Types
<1>2. /\ \A i \in 1 .. Len(records) : records[i].live => task[records[i].task].owner = records[i].owner
      /\ \A i, j \in 1 .. Len(records) :
           records[i].live /\ records[j].live /\ records[i].task = records[j].task => i = j
      /\ \A s \in Slots : task[s].state = "OLD" =>
           \E i \in 1 .. Len(records) : records[i].live /\ records[i].task = s
  BY DEF IInv, RecordsPaired
<1>3. \A i \in 1 .. Len(records) : records[i].task \in Slots
  BY Owners DEF IInv
<1>. DEFINE z == Consumed(records, which)
<1>4. z # << >> => z[1].live
  BY <1>1, ConsumedFacts
<1>5. PICK k \in Nat :
        /\ k <= Len(records) /\ Len(z) = Len(records) - k
        /\ \A i \in 1 .. Len(z) :
             /\ i + k \in 1 .. Len(records)
             /\ z[i].task = records[i + k].task
             /\ z[i].owner = records[i + k].owner
             /\ z[i].live <=> records[i + k].live /\ i + k \notin which
        /\ \A i \in 1 .. Len(records) : records[i].live /\ i \notin which =>
             i - k \in 1 .. Len(z)
  BY <1>1, ConsumedFacts
<1>6. z = records'
  OBVIOUS
<1>. HIDE DEF z
<1>7. Len(z) \in Nat
  BY <1>1, <1>5
<1>8. ASSUME NEW i \in 1 .. Len(z), z[i].live
      PROVE  task'[z[i].task].state = "OLD" /\ task'[z[i].task].owner = z[i].owner
  BY <1>2, <1>3, <1>5, <1>8
<1>9. ASSUME NEW i \in 1 .. Len(z), NEW j \in 1 .. Len(z),
             z[i].live, z[j].live, z[i].task = z[j].task
      PROVE  i = j
  <2>1. i + k = j + k
    BY <1>2, <1>5, <1>9
  <2>. QED
    BY <1>7, <2>1
<1>10. ASSUME NEW s \in Slots, task'[s].state = "OLD"
       PROVE  \E i \in 1 .. Len(z) : z[i].live /\ z[i].task = s
  <2>1. PICK j \in 1 .. Len(records) : records[j].live /\ records[j].task = s /\ j \notin which
    BY <1>2, <1>10
  <2>2. j - k \in 1 .. Len(z) /\ (j - k) + k = j
    BY <1>5, <2>1
  <2>. QED
    BY <1>5, <2>1, <2>2
<1>. QED
  BY <1>4, <1>6, <1>8, <1>9, <1>10 DEF RecordsPaired

(* Saving adds a record and restoring or cancelling consumes it together   *)
(* with the state of its task.                                             *)
LEMMA RecordsPairedStep ==
  ASSUME IInv, [Next]_vars
  PROVE  RecordsPaired'
<1>. USE DEF groupVars, queueVars, cpuVars, switchVars, hostVars
<1>1. Types /\ Types' /\ Residence /\ Control /\ QueueHoldsReady
  BY TypesStep DEF IInv
<1>2. \A h \in Handles : h \in HandleType /\ h # NoHandle /\ h.id \in GroupIds
  BY <1>1, HandleFacts
<1>. SUFFICES ASSUME ~fault' PROVE RecordsPaired'
  BY DEF RecordsPaired
<1>3. ~fault
  BY FaultStays
<1>4. /\ \A s \in Slots : task[s].state \in {"NEW", "OLD"} =>
           /\ Contains(ready, s) /\ Resident(task[s].owner)
           /\ group[task[s].owner.id].state \in {"ENABLED", "DISABLED"}
      /\ \A s \in Slots : task[s].state = "RUNNING" => s = current
  BY <1>3, ReadyMayRun DEF IInv, ReadyIsQueued
<1>5. Reaped(records) = records
  BY <1>3, ReapedWhole
<1>6. /\ \A i \in 1 .. Len(records) : records[i].task \in Slots /\ records[i].owner \in HandleType
      /\ \A i \in 1 .. Len(records) : records[i].live =>
           task[records[i].task].state = "OLD" /\ task[records[i].task].owner = records[i].owner
      /\ \A i, j \in 1 .. Len(records) :
           records[i].live /\ records[j].live /\ records[i].task = records[j].task => i = j
      /\ \A s \in Slots : task[s].state = "OLD" =>
           \E i \in 1 .. Len(records) : records[i].live /\ records[i].task = s
      /\ records # << >> => records[1].live
  BY <1>1, <1>3, Owners DEF IInv, RecordsPaired
<1>7. DOMAIN records = 1 .. Len(records)
  BY <1>1, LenProperties DEF Types
<1>8. ASSUME records' \in {records, Reaped(records)},
             \A s \in Slots : /\ task'[s].state = "OLD" <=> task[s].state = "OLD"
                              /\ task[s].state = "OLD" => task'[s].owner = task[s].owner
      PROVE  RecordsPaired'
  <2>1. records' = records
    BY <1>5, <1>8
  <2>. QED
    BY <1>6, <1>8, <2>1 DEF RecordsPaired
<1>9. ASSUME \/ UNCHANGED vars \/ InitCall \/ InitEnd \/ Yield \/ RequestNative \/ HostService
             \/ (\E h \in Handles : \/ InitBegin(h) \/ Quiescent(h)
                                    \/ \E p \in Holders : Acquire(p, h))
             \/ (\E p \in Holders : Release(p))
             \/ Run \/ ReturnDone \/ PendSV \/ PendSVExit
             \/ DepartHeld \/ DepartExhausted \/ DepartDone
             \/ SelectNative \/ SelectIdle \/ FinishSwitch
      PROVE  RecordsPaired'
  <2>1. UNCHANGED task /\ records' \in {records, Reaped(records)}
    BY <1>9 DEF vars, InitCall, InitEnd, Yield, RequestNative, HostService, InitBegin, Quiescent,
                Acquire, Release, Run, ReturnDone, PendSV, PendSVExit, DepartHeld,
                DepartExhausted, DepartDone, SelectNative, SelectIdle, FinishSwitch
  <2>. QED
    BY <1>8, <2>1
<1>10. CASE DepartFault
  BY <1>3, <1>10 DEF DepartFault
<1>11. ASSUME NEW g \in GroupIds, Register(g) PROVE RecordsPaired'
  <2>1. /\ UNCHANGED records
        /\ \A s \in Slots : \/ task'[s] = task[s]
                            \/ task[s].state = "FREE" /\ task'[s].state = "SLEEPING"
    BY <1>11 DEF Register, FreeTask, FreeSlots
  <2>. QED
    BY <1>8, <2>1
<1>12. ASSUME NEW h \in Handles, Forget(h) PROVE RecordsPaired'
  <2>1. /\ group[h.id].state = "REVOKED" /\ UNCHANGED records
        /\ \A s \in Slots : \/ task'[s] = task[s]
                            \/ task[s].owner = h /\ task'[s].state = "FREE"
    BY <1>12 DEF Forget, Retired, StateOf, TasksOf, FreeTask
  <2>2. \A s \in Slots : task[s].owner = h => task[s].state # "OLD"
    BY <1>4, <2>1
  <2>. QED
    BY <1>8, <2>1, <2>2
<1>13. ASSUME NEW h \in Handles, Enable(h) PROVE RecordsPaired'
  <2>1. /\ \A s \in Slots : task'[s].owner = task[s].owner /\ task'[s].state = task[s].state
        /\ UNCHANGED <<group_list, generation, init, ready, records, cpuVars, switchVars, lease,
                       hostVars, fault>>
    BY <1>1, <1>2, <1>13, EnableFacts
  <2>. QED
    BY <1>8, <2>1
<1>14. ASSUME NEW h \in Handles, Disable(h) \/ Pause(h) PROVE RecordsPaired'
  <2>1. Withdraw(h)
    BY <1>14 DEF Disable, Pause
  <2>2. \A s \in Slots :
          /\ task'[s].owner = task[s].owner
          /\ task[s].owner = h /\ task[s].state = "NEW" /\ Contains(ready, s)
               => task'[s].state = "SLEEPING"
          /\ ~(task[s].owner = h /\ task[s].state = "NEW" /\ Contains(ready, s))
               => task'[s] = task[s]
    BY <1>1, <2>1, WithdrawFacts
  <2>3. UNCHANGED records
    BY <2>1 DEF Withdraw
  <2>. QED
    BY <1>8, <2>2, <2>3
<1>15. ASSUME NEW h \in Handles, Revoke(h) PROVE RecordsPaired'
  <2>. DEFINE which == RecordsOf(h, records)
  <2>1. /\ \A s \in Slots :
             /\ task'[s].owner = task[s].owner
             /\ task[s].owner = h /\ Contains(ready, s) => task'[s].state = "SLEEPING"
             /\ ~(task[s].owner = h /\ Contains(ready, s)) => task'[s] = task[s]
        /\ records' = Consumed(records, which)
    BY <1>1, <1>2, <1>15, RevokeFacts
  <2>2. \A i \in 1 .. Len(records) : i \in which <=> records[i].owner = h
    BY <1>7 DEF RecordsOf
  <2>. HIDE DEF which
  <2>3. \A i \in 1 .. Len(records) : records[i].live /\ i \notin which =>
          task'[records[i].task].state = "OLD"
    BY <1>6, <2>1, <2>2
  <2>4. ASSUME NEW s \in Slots, task'[s].state = "OLD"
        PROVE  /\ task[s].state = "OLD"
               /\ \A i \in 1 .. Len(records) : records[i].live /\ records[i].task = s => i \notin which
    <3>1. ~(task[s].owner = h /\ Contains(ready, s)) /\ task[s].state = "OLD"
      BY <2>1, <2>4
    <3>2. task[s].owner # h
      BY <1>4, <3>1
    <3>. QED
      BY <1>6, <2>2, <3>1, <3>2
  <2>. QED
    BY <1>3, <2>1, <2>3, <2>4, PairedAfterConsuming
<1>16. ASSUME NEW d \in TickSteps, Tick(d) PROVE RecordsPaired'
  <2>1. PICK D \in SUBSET Slots :
          /\ \A s \in D : task[s].state = "SLEEPING" /\ task'[s].state = "NEW"
          /\ \A s \in Slots \ D : task'[s].state = task[s].state
    BY <1>16, TickFacts
  <2>2. \A s \in Slots : task'[s].owner = task[s].owner
    BY <1>16, TickFacts
  <2>3. UNCHANGED records
    BY <1>16 DEF Tick
  <2>. QED
    BY <1>8, <2>1, <2>2, <2>3
<1>17. CASE DepartRevoked
  <2>. DEFINE h == task[current].owner
              which == RecordsOf(h, records)
  <2>1. /\ current \in Slots /\ Closed(h) /\ task' = [task EXCEPT ![current].state = "SLEEPING"]
        /\ records' = Consumed(records, which)
    BY <1>17, DepartRevokedFacts
  <2>2. /\ \A s \in Slots \ {current} : task'[s] = task[s]
        /\ task'[current].state = "SLEEPING" /\ task'[current].owner = task[current].owner
    BY <1>1, <2>1 DEF Types, TaskType
  <2>3. \A s \in Slots : task[s].owner = h => task[s].state # "OLD"
    BY <1>4, <2>1 DEF Closed, StateOf
  <2>4. \A i \in 1 .. Len(records) : i \in which <=> records[i].owner = h
    BY <1>7 DEF RecordsOf
  <2>. HIDE DEF which
  <2>5. \A i \in 1 .. Len(records) : records[i].live => i \notin which /\ records[i].task # current
    BY <1>6, <2>3, <2>4
  <2>6. /\ \A s \in Slots : task'[s].owner = task[s].owner
        /\ \A i \in 1 .. Len(records) : records[i].live /\ i \notin which =>
             task'[records[i].task].state = "OLD"
    BY <1>6, <2>2, <2>5
  <2>7. \A s \in Slots : task'[s].state = "OLD" =>
          /\ task[s].state = "OLD"
          /\ \A i \in 1 .. Len(records) : records[i].live /\ records[i].task = s => i \notin which
    BY <2>2, <2>5
  <2>. QED
    BY <1>3, <2>1, <2>6, <2>7, PairedAfterConsuming
<1>18. CASE DepartSaved
  <2>. DEFINE saved == [task |-> current, owner |-> task[current].owner, live |-> TRUE]
  <2>1. /\ current \in Slots /\ task[current].state = "RUNNING"
        /\ \A s \in Slots : task'[s].owner = task[s].owner
        /\ task'[current].state = "OLD"
        /\ \A s \in Slots : s # current => task'[s] = task[s]
        /\ saved \in RecordType /\ records' = Append(Reaped(records), saved)
    BY <1>18, DepartSavedFacts
  <2>2. saved.task = current /\ saved.owner = task[current].owner /\ saved.live
    OBVIOUS
  <2>. HIDE DEF saved
  <2>3. /\ Len(records') = Len(records) + 1 /\ records'[Len(records) + 1] = saved
        /\ \A i \in 1 .. Len(records) : records'[i] = records[i]
        /\ Len(records) \in Nat
    BY <1>1, <1>5, <2>1, AppendProperties, LenProperties DEF Types
  <2>4. \A i \in 1 .. Len(records') : i \in 1 .. Len(records) \/ i = Len(records) + 1
    BY <2>3
  <2>5. Len(records) + 1 \in 1 .. Len(records') /\ \A i \in 1 .. Len(records) : i \in 1 .. Len(records')
    BY <2>3
  <2>6. \A i \in 1 .. Len(records) : records[i].live => records[i].task # current
    BY <1>6, <2>1
  <2>7. ASSUME NEW i \in 1 .. Len(records'), records'[i].live
        PROVE  /\ task'[records'[i].task].state = "OLD"
               /\ task'[records'[i].task].owner = records'[i].owner
    <3>1. CASE i \in 1 .. Len(records)
      BY <1>6, <2>1, <2>3, <2>6, <2>7, <3>1
    <3>2. CASE i = Len(records) + 1
      BY <2>1, <2>2, <2>3, <3>2
    <3>. QED
      BY <2>4, <3>1, <3>2
  <2>8. ASSUME NEW i \in 1 .. Len(records'), NEW j \in 1 .. Len(records'),
               records'[i].live, records'[j].live, records'[i].task = records'[j].task
        PROVE  i = j
    <3>1. CASE i \in 1 .. Len(records) /\ j \in 1 .. Len(records)
      BY <1>6, <2>3, <2>8, <3>1
    <3>2. CASE i \in 1 .. Len(records) /\ j = Len(records) + 1
      BY <2>2, <2>3, <2>6, <2>8, <3>2
    <3>3. CASE i = Len(records) + 1 /\ j \in 1 .. Len(records)
      BY <2>2, <2>3, <2>6, <2>8, <3>3
    <3>. QED
      BY <2>4, <3>1, <3>2, <3>3
  <2>9. ASSUME NEW s \in Slots, task'[s].state = "OLD"
        PROVE  \E i \in 1 .. Len(records') : records'[i].live /\ records'[i].task = s
    <3>1. CASE s = current
      BY <2>2, <2>3, <2>5, <3>1
    <3>2. CASE s # current
      <4>1. PICK i \in 1 .. Len(records) : records[i].live /\ records[i].task = s
        BY <1>6, <2>1, <2>9, <3>2
      <4>. QED
        BY <2>3, <2>5, <4>1
    <3>. QED
      BY <3>1, <3>2
  <2>10. records'[1].live
    <3>1. CASE Len(records) = 0
      BY <2>2, <2>3, <3>1
    <3>2. CASE Len(records) # 0
      <4>1. 1 \in 1 .. Len(records) /\ records # << >>
        BY <2>3, <3>2
      <4>. QED
        BY <1>6, <2>3, <4>1
    <3>. QED
      BY <3>1, <3>2
  <2>. QED
    BY <2>7, <2>8, <2>9, <2>10 DEF RecordsPaired
<1>19. CASE SelectNext
  <2>1. PICK s \in Slots : SelectionOf(s)
    BY <1>19, SelectNextFacts
  <2>2. /\ \A e \in Slots :
             /\ task'[e].owner = task[e].owner
             /\ e # s /\ Due(task, e) => task[e].state = "SLEEPING" /\ task'[e].state = "NEW"
             /\ e # s /\ ~Due(task, e) => task'[e] = task[e]
        /\ Started(s) /\ records' = History(s)
    BY <2>1 DEF SelectionOf, NotStarted
  <2>3. task'[s].state = "RUNNING"
    BY <2>2 DEF Started
  <2>4. CASE task[s].state = "OLD"
    <3>. DEFINE which == {i \in DOMAIN records : records[i].task = s}
    <3>1. records' = Consumed(records, which)
      BY <2>2, <2>4 DEF History
    <3>2. \A i \in 1 .. Len(records) : i \in which <=> records[i].task = s
      BY <1>7
    <3>. HIDE DEF which
    <3>3. \A i \in 1 .. Len(records) : records[i].live /\ i \notin which =>
            task'[records[i].task].state = "OLD"
      BY <1>6, <2>2, <3>2
    <3>4. \A e \in Slots : task'[e].state = "OLD" =>
            /\ task[e].state = "OLD"
            /\ \A i \in 1 .. Len(records) : records[i].live /\ records[i].task = e => i \notin which
      BY <2>2, <2>3, <3>2
    <3>. QED
      BY <1>3, <2>2, <3>1, <3>3, <3>4, PairedAfterConsuming
  <2>5. CASE task[s].state # "OLD"
    BY <1>8, <2>2, <2>3, <2>5 DEF History
  <2>. QED
    BY <2>4, <2>5
<1>20. CASE Complete
  <2>1. /\ \A s \in Slots : task'[s].owner = task[s].owner
        /\ \A s \in Slots :
              \/ s # current /\ task'[s] = task[s]
              \/ s = current /\ task'[s].state = "SLEEPING"
              \/ (task[s].state = "SLEEPING" \/ s = current) /\ task'[s].state = "NEW"
        /\ task[current].state = "RUNNING"
    BY <1>20, CompleteFacts
  <2>2. UNCHANGED records
    BY <1>20 DEF Complete
  <2>. QED
    BY <1>8, <2>1, <2>2
<1>21. CASE FinishInline
  <2>. DEFINE h == task[current].owner
              which == RecordsOf(h, records)
  <2>1. \E s \in Slots : InlinedTo(s)
    BY <1>21, FinishInlineFacts
  <2>2. PICK s \in Slots : InlinedTo(s)
    BY <2>1
  <2>3. /\ task[s].state = "NEW" /\ task'[s].state = "RUNNING"
        /\ \A e \in Slots : task'[e].owner = task[e].owner /\ (e # s => task'[e] = task[e])
    BY <2>2 DEF InlinedTo
  <2>4. /\ group[h.id].state # "REVOKING" => UNCHANGED records
        /\ group[h.id].state = "REVOKING" => records' = Consumed(records, which)
    BY <2>2 DEF InlinedTo
  <2>5. CASE group[h.id].state # "REVOKING"
    BY <1>8, <2>3, <2>4, <2>5
  <2>6. CASE group[h.id].state = "REVOKING"
    <3>1. \A e \in Slots : task[e].owner = h => task[e].state # "OLD"
      BY <1>4, <2>6
    <3>2. \A i \in 1 .. Len(records) : i \in which <=> records[i].owner = h
      BY <1>7 DEF RecordsOf
    <3>. HIDE DEF which
    <3>3. \A i \in 1 .. Len(records) : records[i].live => i \notin which /\ records[i].task # s
      BY <1>6, <2>3, <3>1, <3>2
    <3>4. \A i \in 1 .. Len(records) : records[i].live /\ i \notin which =>
            task'[records[i].task].state = "OLD"
      BY <1>6, <2>3, <3>3
    <3>5. \A e \in Slots : task'[e].state = "OLD" =>
            /\ task[e].state = "OLD"
            /\ \A i \in 1 .. Len(records) : records[i].live /\ records[i].task = e => i \notin which
      BY <2>3, <3>3
    <3>. QED
      BY <1>3, <2>3, <2>4, <2>6, <3>4, <3>5, PairedAfterConsuming
  <2>. QED
    BY <2>5, <2>6
<1>. QED
  BY <1>9, <1>10, <1>11, <1>12, <1>13, <1>14, <1>15, <1>16, <1>17, <1>18, <1>19, <1>20, <1>21
  DEF Next, Dispatcher, API
----------------------------------------------------------------------------
(* The states of the groups.                                               *)

(* The state of a group follows what of it is on the CPU.                  *)
LEMMA GroupsSettledStep ==
  ASSUME IInv, [Next]_vars
  PROVE  GroupsSettled'
<1>. USE DEF groupVars, queueVars, cpuVars, switchVars, hostVars
<1>1. Types /\ Types' /\ Residence /\ Control /\ QueueHoldsReady
  BY TypesStep DEF IInv
<1>2. \A h \in Handles : h \in HandleType /\ h # NoHandle /\ h.id \in GroupIds
  BY <1>1, HandleFacts
<1>. SUFFICES ASSUME ~fault' PROVE GroupsSettled'
  BY DEF GroupsSettled
<1>3. ~fault
  BY FaultStays
<1>4. \A g \in GroupIds :
        /\ group[g].state \in {"REVOKED", "PAUSED"} => ~group[g].init_busy /\ ~CurrentIn(g)
        /\ group[g].state = "REVOKING" => group[g].init_busy \/ CurrentIn(g)
        /\ group[g].state = "PAUSED" =>
             group[g].references = 0 /\ \A i \in 1 .. Len(records) : records[i].owner.id # g
  BY <1>3 DEF IInv, GroupsSettled
<1>5. /\ \A i \in 1 .. Len(records) : records[i].owner \in HandleType /\ Resident(records[i].owner)
      /\ current # NONE => /\ current \in Slots /\ Resident(task[current].owner)
                           /\ task[current].owner \in HandleType
                           /\ task[current].owner.id \in GroupIds
  BY <1>1, Owners
<1>. DEFINE Runs(g) == current' # NONE /\ task'[current'].owner.id = g
            NoRecord(g) == \A i \in 1 .. Len(records') : records'[i].owner.id # g
            Settled(g) ==
              /\ group'[g].state \in {"REVOKED", "PAUSED"} => ~group'[g].init_busy /\ ~Runs(g)
              /\ group'[g].state = "REVOKING" => group'[g].init_busy \/ Runs(g)
              /\ group'[g].state = "PAUSED" => group'[g].references = 0 /\ NoRecord(g)
<1>6. ASSUME \A g \in GroupIds : Settled(g) PROVE GroupsSettled'
  BY <1>6 DEF GroupsSettled, CurrentIn
(* Steps that leave the owner on the CPU and add no record.                *)
<1>7. ASSUME ~DepartSaved, ~FinishInline, ~SelectNext, UNCHANGED current,
             \A g \in GroupIds : ~Register(g), \A h \in Handles : ~Forget(h)
      PROVE  /\ \A g \in GroupIds : Runs(g) <=> CurrentIn(g)
             /\ \A g \in GroupIds : (\A i \in 1 .. Len(records) : records[i].owner.id # g) => NoRecord(g)
  <2>1. /\ \A s \in Slots : task'[s].owner = task[s].owner
        /\ \A i \in 1 .. Len(records') : \E j \in 1 .. Len(records) :
             records'[i].owner = records[j].owner
    BY <1>7, OwnersKept, RecordsKept
  <2>. QED
    BY <1>5, <1>7, <2>1 DEF CurrentIn
<1>. HIDE DEF NoRecord
<1>8. CASE DepartFault
  BY <1>3, <1>8 DEF DepartFault
<1>9. CASE DepartRevoked
  <2>. DEFINE h == task[current].owner
  <2>1. /\ phase = "enter" /\ current \in Slots /\ h.id \in GroupIds /\ Closed(h)
        /\ \A g \in GroupIds \ {h.id} : group'[g] = group[g]
        /\ group[h.id].init_busy => group'[h.id] = [group[h.id] EXCEPT !.state = "REVOKING"]
        /\ ~group[h.id].init_busy => group'[h.id] = [group[h.id] EXCEPT !.state = "REVOKED"]
        /\ records' = Consumed(records, RecordsOf(h, records))
    BY <1>9, DepartRevokedFacts
  <2>2. current' = NONE
    BY <1>9 DEF DepartRevoked, Leave
  <2>3. \A g \in GroupIds : g # h.id => ~CurrentIn(g)
    BY DEF CurrentIn
  <2>4. /\ group'[h.id].init_busy = group[h.id].init_busy
        /\ group[h.id].init_busy => group'[h.id].state = "REVOKING"
        /\ ~group[h.id].init_busy => group'[h.id].state = "REVOKED"
    BY <1>1, <2>1, StateEdited
  <2>5. \A i \in 1 .. Len(records') : \E j \in 1 .. Len(records) : records'[i].owner = records[j].owner
    BY <1>1, <2>1, SurvivingRecords
  <2>6. \A g \in GroupIds : (\A i \in 1 .. Len(records) : records[i].owner.id # g) => NoRecord(g)
    BY <2>5 DEF NoRecord
  <2>7. ASSUME NEW g \in GroupIds PROVE Settled(g)
    <3>1. CASE g = h.id
      BY <2>2, <2>4, <3>1
    <3>2. CASE g # h.id
      BY <1>4, <2>1, <2>2, <2>3, <2>6, <3>2
    <3>. QED
      BY <3>1, <3>2
  <2>. QED
    BY <1>6, <2>7
<1>10. CASE DepartSaved
  <2>. DEFINE h == task[current].owner
              saved == [task |-> current, owner |-> h, live |-> TRUE]
  <2>1. /\ current \in Slots /\ ~Closed(h) /\ saved \in RecordType
        /\ records' = Append(Reaped(records), saved)
        /\ current' = NONE /\ UNCHANGED group
    BY <1>10, DepartSavedFacts
  <2>2. \A g \in GroupIds : CurrentIn(g) <=> g = h.id
    BY <2>1, StlAssumption DEF CurrentIn
  <2>3. saved.owner = h /\ Reaped(records) = records
    BY <1>3, ReapedWhole
  <2>. HIDE DEF saved
  <2>4. /\ Len(records') = Len(records) + 1 /\ records'[Len(records) + 1] = saved
        /\ \A i \in 1 .. Len(records) : records'[i] = records[i]
        /\ Len(records) \in Nat
    BY <1>1, <2>1, <2>3, AppendProperties, LenProperties DEF Types
  <2>5. \A i \in 1 .. Len(records') : i \in 1 .. Len(records) \/ i = Len(records) + 1
    BY <2>4
  <2>6. ASSUME NEW g \in GroupIds PROVE Settled(g)
    <3>1. CASE g = h.id
      <4>1. group[g].state \notin {"REVOKED", "PAUSED", "REVOKING"}
        BY <1>4, <2>1, <2>2, <3>1 DEF Closed, StateOf
      <4>. QED
        BY <2>1, <4>1
    <3>2. CASE g # h.id
      <4>1. (\A i \in 1 .. Len(records) : records[i].owner.id # g) => NoRecord(g)
        BY <2>3, <2>4, <2>5, <3>2 DEF NoRecord
      <4>. QED
        BY <1>4, <2>1, <2>2, <3>2, <4>1
    <3>. QED
      BY <3>1, <3>2
  <2>. QED
    BY <1>6, <2>6
<1>11. CASE DepartDone
  <2>. DEFINE h == task[current].owner
  <2>1. phase = "enter" /\ ~Dead(current) /\ current' = NONE /\ UNCHANGED <<group, records>>
    BY <1>11 DEF DepartDone, Departing, Leave
  <2>2. current # NONE /\ ~Closed(h) /\ \A g \in GroupIds : CurrentIn(g) <=> g = h.id
    BY <1>1, <2>1 DEF Control, Dead, Owner, CurrentIn
  <2>3. ASSUME NEW g \in GroupIds PROVE Settled(g)
    <3>1. group[g].state = "REVOKING" => ~CurrentIn(g)
      BY <2>2 DEF Closed, StateOf
    <3>. QED
      BY <1>4, <2>1, <3>1 DEF NoRecord
  <2>. QED
    BY <1>6, <2>3
<1>12. CASE SelectNext
  <2>1. PICK s \in Slots : SelectionOf(s)
    BY <1>12, SelectNextFacts
  <2>2. /\ UNCHANGED group /\ MayRun(s) /\ current = NONE /\ task'[s].owner = task[s].owner
        /\ Started(s)
    BY <2>1 DEF SelectionOf, NotStarted
  <2>3. current' = s
    BY <2>2 DEF Started
  <2>4. ~DepartSaved
    BY <1>1, <1>12 DEF DepartSaved, Departing, SelectNext, Selecting
  <2>5. \A i \in 1 .. Len(records') : \E j \in 1 .. Len(records) : records'[i].owner = records[j].owner
    BY <2>4, RecordsKept
  <2>6. ASSUME NEW g \in GroupIds PROVE Settled(g)
    <3>1. group[g].state \in {"REVOKED", "PAUSED"} => ~Runs(g)
      BY <2>2, <2>3 DEF MayRun
    <3>2. ~CurrentIn(g)
      BY <2>2 DEF CurrentIn
    <3>3. (\A i \in 1 .. Len(records) : records[i].owner.id # g) => NoRecord(g)
      BY <2>5 DEF NoRecord
    <3>. QED
      BY <1>4, <2>2, <3>1, <3>2, <3>3
  <2>. QED
    BY <1>6, <2>6
<1>13. CASE FinishInline
  <2>. DEFINE h == task[current].owner
  <2>1. phase = "finish" /\ current \in Slots /\ h.id \in GroupIds /\ \E s \in Slots : InlinedTo(s)
    BY <1>13, FinishInlineFacts
  <2>2. PICK s \in Slots : InlinedTo(s)
    BY <2>1
  <2>3. /\ group[task[s].owner.id].state = "ENABLED" /\ current' = s /\ s # NONE
        /\ task'[s].owner = task[s].owner
    BY <2>2, StlAssumption DEF InlinedTo
  <2>4. /\ group[h.id].state # "REVOKING" => UNCHANGED group
        /\ group[h.id].state = "REVOKING" =>
             /\ \A g \in GroupIds \ {h.id} : group'[g] = group[g]
             /\ group[h.id].init_busy => group'[h.id] = [group[h.id] EXCEPT !.state = "REVOKING"]
             /\ ~group[h.id].init_busy => group'[h.id] = [group[h.id] EXCEPT !.state = "REVOKED"]
    BY <2>2 DEF InlinedTo
  <2>5. ~DepartSaved
    BY <2>1 DEF DepartSaved, Departing
  <2>6. \A i \in 1 .. Len(records') : \E j \in 1 .. Len(records) : records'[i].owner = records[j].owner
    BY <2>5, RecordsKept
  <2>7. \A g \in GroupIds : (\A i \in 1 .. Len(records) : records[i].owner.id # g) => NoRecord(g)
    BY <2>6 DEF NoRecord
  <2>8. \A g \in GroupIds : CurrentIn(g) => g = h.id
    BY DEF CurrentIn
  <2>9. ASSUME NEW g \in GroupIds PROVE Settled(g)
    <3>1. CASE group[h.id].state = "REVOKING" /\ g = h.id
      <4>1. /\ group'[g].init_busy = group[g].init_busy
            /\ group[g].init_busy => group'[g].state = "REVOKING"
            /\ ~group[g].init_busy => group'[g].state = "REVOKED"
        BY <1>1, <2>1, <2>4, <3>1, StateEdited
      <4>2. ~Runs(g)
        BY <2>3, <3>1
      <4>. QED
        BY <4>1, <4>2
    <3>2. CASE ~(group[h.id].state = "REVOKING" /\ g = h.id)
      <4>1. group'[g] = group[g]
        BY <2>4, <3>2
      <4>2. group[g].state = "REVOKING" => ~CurrentIn(g)
        BY <2>8, <3>2
      <4>3. group[g].state \in {"REVOKED", "PAUSED"} => ~Runs(g)
        BY <2>3
      <4>. QED
        BY <1>4, <2>7, <4>1, <4>2, <4>3
    <3>. QED
      BY <3>1, <3>2
  <2>. QED
    BY <1>6, <2>9
<1>14. CASE SelectNative \/ SelectIdle
  <2>1. UNCHANGED <<group, task>> /\ records' \in {records, Reaped(records)} /\ current' = NONE
        /\ Selecting
    BY <1>14 DEF SelectNative, SelectIdle, NativeReturn
  <2>2. UNCHANGED <<records, current>>
    BY <1>1, <1>3, <2>1, ReapedWhole DEF Selecting, Control
  <2>. QED
    BY <1>4, <1>6, <2>1, <2>2 DEF CurrentIn, NoRecord
<1>15. ASSUME NEW g \in GroupIds, Register(g) PROVE GroupsSettled'
  <2>1. /\ UNCHANGED <<records, current>> /\ phase = "native"
        /\ group' = [group EXCEPT ![g] = [Absent EXCEPT !.gen = generation']]
    BY <1>15 DEF Register
  <2>2. current = NONE /\ \A o \in GroupIds \ {g} : group'[o] = group[o]
    BY <1>1, <2>1 DEF Types, Control
  <2>3. group'[g].state = "DISABLED"
    BY <1>1, <2>1 DEF Types, Absent
  <2>. QED
    BY <1>4, <1>6, <2>1, <2>2, <2>3 DEF CurrentIn, NoRecord
<1>16. ASSUME NEW h \in Handles, Forget(h) PROVE GroupsSettled'
  <2>1. /\ UNCHANGED <<records, current>> /\ phase = "native"
        /\ group' = [group EXCEPT ![h.id] = Absent]
    BY <1>16 DEF Forget
  <2>2. current = NONE /\ \A o \in GroupIds \ {h.id} : group'[o] = group[o]
    BY <1>1, <2>1 DEF Types, Control
  <2>3. group'[h.id].state = "DISABLED"
    BY <1>1, <1>2, <2>1 DEF Types, Absent
  <2>. QED
    BY <1>4, <1>6, <2>1, <2>2, <2>3 DEF CurrentIn, NoRecord
(* The other steps keep the owner on the CPU.                              *)
<1>. DEFINE Plain == /\ ~DepartSaved /\ ~FinishInline /\ ~SelectNext
                     /\ \A g \in GroupIds : ~Register(g)
                     /\ \A h \in Handles : ~Forget(h)
<1>17. ASSUME Plain, UNCHANGED current,
              \A g \in GroupIds : \/ group'[g] = group[g]
                                  \/ group'[g].state \in {"ENABLED", "DISABLED"}
       PROVE  GroupsSettled'
  <2>1. ASSUME NEW g \in GroupIds PROVE Settled(g)
    BY <1>4, <1>7, <1>17
  <2>. QED
    BY <1>6, <2>1
<1>18. ASSUME Plain,
              \/ UNCHANGED vars \/ InitCall \/ Yield \/ RequestNative \/ HostService
              \/ (\E d \in TickSteps : Tick(d)) \/ Complete
              \/ Run \/ ReturnDone \/ PendSV \/ PendSVExit
              \/ DepartHeld \/ DepartExhausted \/ FinishSwitch
       PROVE  GroupsSettled'
  <2>1. UNCHANGED <<group, current>>
    BY <1>18 DEF vars, InitCall, Yield, RequestNative, HostService, Tick, Complete, Run, ReturnDone,
                 PendSV, PendSVExit, DepartHeld, DepartExhausted, FinishSwitch
  <2>. QED
    BY <1>17, <1>18, <2>1
<1>19. ASSUME Plain, NEW h \in Handles, InitBegin(h) PROVE GroupsSettled'
  <2>1. /\ group[h.id].state = "DISABLED"
        /\ \A o \in GroupIds \ {h.id} : group'[o] = group[o]
        /\ \A o \in GroupIds : group'[o].state = group[o].state
    BY <1>1, <1>2, <1>19, InitBeginFacts
  <2>2. UNCHANGED current
    BY <1>19 DEF InitBegin
  <2>. QED
    BY <1>17, <1>19, <2>1, <2>2
<1>20. ASSUME Plain, NEW h \in Handles, Enable(h) \/ Disable(h) PROVE GroupsSettled'
  <2>1. UNCHANGED current /\ \E st \in {"ENABLED", "DISABLED"} : group' = [group EXCEPT ![h.id].state = st]
    BY <1>20 DEF Enable, Disable, Withdraw
  <2>2. /\ group'[h.id].state \in {"ENABLED", "DISABLED"}
        /\ \A o \in GroupIds \ {h.id} : group'[o] = group[o]
    BY <1>1, <1>2, <2>1 DEF Types, GroupType
  <2>. QED
    BY <1>17, <1>20, <2>1, <2>2
<1>21. ASSUME Plain, NEW h \in Handles, NEW p \in Holders, Acquire(p, h) PROVE GroupsSettled'
  <2>1. /\ UNCHANGED current /\ group[h.id].state \in {"ENABLED", "DISABLED"}
        /\ group' = [group EXCEPT ![h.id].references = @ + 1]
    BY <1>21 DEF Acquire, StateOf
  <2>2. /\ group'[h.id].state = group[h.id].state
        /\ \A o \in GroupIds \ {h.id} : group'[o] = group[o]
    BY <1>1, <1>2, <2>1 DEF Types, GroupType
  <2>. QED
    BY <1>17, <1>21, <2>1, <2>2
<1>22. ASSUME Plain, NEW p \in Holders, Release(p) PROVE GroupsSettled'
  <2>. DEFINE h == lease[p]
  <2>1. /\ UNCHANGED current
        /\ group' = IF Resident(h) /\ group[h.id].references > 0
                      THEN [group EXCEPT ![h.id].references = @ - 1] ELSE group
    BY <1>22 DEF Release
  <2>2. CASE UNCHANGED group
    BY <1>17, <1>22, <2>1, <2>2
  <2>3. CASE group[h.id].references > 0 /\ group' = [group EXCEPT ![h.id].references = @ - 1]
    <3>1. \A o \in GroupIds : /\ group'[o].state = group[o].state
                              /\ group'[o].init_busy = group[o].init_busy
                              /\ o # h.id => group'[o] = group[o]
      BY <1>1, <2>3 DEF Types, GroupType
    <3>2. ASSUME NEW g \in GroupIds PROVE Settled(g)
      <4>1. group[g].state = "PAUSED" => g # h.id
        BY <1>4, <2>3
      <4>. QED
        BY <1>4, <1>7, <1>22, <2>1, <3>1, <4>1
    <3>. QED
      BY <1>6, <3>2
  <2>. QED
    BY <2>1, <2>2, <2>3
<1>23. ASSUME Plain, NEW h \in Handles, Quiescent(h) PROVE GroupsSettled'
  <2>1. \A o \in GroupIds : /\ group'[o].state = group[o].state
                            /\ group'[o].references = group[o].references
                            /\ group'[o].init_busy = group[o].init_busy
    BY <1>1, <1>2, <1>23, QuiescentFacts
  <2>2. UNCHANGED current
    BY <1>23 DEF Quiescent
  <2>3. ASSUME NEW g \in GroupIds PROVE Settled(g)
    BY <1>4, <1>7, <1>23, <2>1, <2>2
  <2>. QED
    BY <1>6, <2>3
<1>24. ASSUME Plain, InitEnd PROVE GroupsSettled'
  <2>. DEFINE g == init.handle.id
  <2>1. /\ g \in GroupIds /\ group[g].init_busy /\ phase = "native"
        /\ \A o \in GroupIds \ {g} : group'[o] = group[o]
        /\ ~group'[g].init_busy
        /\ group[g].state \in {"REVOKING", "REVOKED"} => group'[g].state = "REVOKED"
        /\ group[g].state \notin {"REVOKING", "REVOKED"} => group'[g].state = group[g].state
        /\ UNCHANGED <<group_list, generation, queueVars, cpuVars, switchVars, lease,
                       hostVars, fault>>
    BY <1>1, <1>24, InitEndFacts
  <2>2. current = NONE
    BY <1>1, <2>1 DEF Control
  <2>3. ASSUME NEW o \in GroupIds PROVE Settled(o)
    <3>1. CASE o = g
      <4>1. group[g].state # "PAUSED"
        BY <1>4, <2>1
      <4>. QED
        BY <2>1, <2>2, <3>1, <4>1
    <3>2. CASE o # g
      BY <1>4, <1>7, <1>24, <2>1, <3>2
    <3>. QED
      BY <3>1, <3>2
  <2>. QED
    BY <1>6, <2>3
<1>25. ASSUME Plain, NEW h \in Handles, Pause(h) PROVE GroupsSettled'
  <2>1. /\ UNCHANGED <<current, records>> /\ Resident(h) /\ ~Executing(h)
        /\ group[h.id].references = 0 /\ RecordsOf(h, records) = {}
        /\ group' = [group EXCEPT ![h.id].state = "PAUSED"]
    BY <1>25 DEF Pause, Withdraw
  <2>2. /\ group'[h.id] = [group[h.id] EXCEPT !.state = "PAUSED"]
        /\ \A o \in GroupIds \ {h.id} : group'[o] = group[o]
    BY <1>1, <1>2, <2>1 DEF Types
  <2>3. /\ group'[h.id].state = "PAUSED" /\ group'[h.id].init_busy = group[h.id].init_busy
        /\ group'[h.id].references = group[h.id].references
    BY <1>1, <1>2, <2>2, StateEdited
  <2>4. ~CurrentIn(h.id)
    BY <1>1, <1>2, <1>5, <2>1, SameIdentity DEF CurrentIn, Executing, OwnedBy
  <2>5. \A i \in 1 .. Len(records) : records[i].owner.id # h.id
    <3>. SUFFICES ASSUME NEW i \in 1 .. Len(records), records[i].owner.id = h.id PROVE FALSE
      OBVIOUS
    <3>1. records[i].owner = h
      BY <1>1, <1>2, <1>5, <2>1, SameIdentity
    <3>2. i \in RecordsOf(h, records)
      BY <1>1, <3>1, LenProperties DEF RecordsOf, Types
    <3>. QED
      BY <2>1, <3>2
  <2>6. ~group[h.id].init_busy
    BY <2>1 DEF Executing
  <2>7. ASSUME NEW g \in GroupIds PROVE Settled(g)
    <3>1. CASE g = h.id
      BY <1>7, <1>25, <2>1, <2>3, <2>4, <2>5, <2>6, <3>1
    <3>2. CASE g # h.id
      BY <1>4, <1>7, <1>25, <2>1, <2>2, <3>2
    <3>. QED
      BY <3>1, <3>2
  <2>. QED
    BY <1>6, <2>7
<1>26. ASSUME Plain, NEW h \in Handles, Revoke(h) PROVE GroupsSettled'
  <2>1. /\ Resident(h)
        /\ \A g \in GroupIds \ {h.id} : group'[g] = group[g]
        /\ \E st \in {"REVOKING", "REVOKED"} :
             /\ group'[h.id] = [group[h.id] EXCEPT !.state = st]
             /\ st = "REVOKING" <=> group[h.id].init_busy \/ OwnedBy(current, h)
        /\ UNCHANGED <<group_list, generation, init, cpuVars, native_pending, phase, lease,
                       hostVars, fault>>
    BY <1>1, <1>2, <1>26, RevokeFacts
  <2>2. OwnedBy(current, h) <=> CurrentIn(h.id)
    BY <1>1, <1>2, <1>5, <2>1, SameIdentity DEF CurrentIn, OwnedBy
  <2>3. /\ group'[h.id].init_busy = group[h.id].init_busy
        /\ group'[h.id].state \in {"REVOKING", "REVOKED"}
        /\ group'[h.id].state = "REVOKING" <=> group[h.id].init_busy \/ OwnedBy(current, h)
    BY <1>1, <1>2, <2>1, StateEdited
  <2>4. ASSUME NEW g \in GroupIds PROVE Settled(g)
    <3>1. CASE g = h.id
      BY <1>7, <1>26, <2>1, <2>2, <2>3, <3>1
    <3>2. CASE g # h.id
      BY <1>4, <1>7, <1>26, <2>1, <3>2
    <3>. QED
      BY <3>1, <3>2
  <2>. QED
    BY <1>6, <2>4
<1>27. ASSUME Plain, ~DepartFault, ~DepartRevoked, ~DepartDone, ~SelectNative, ~SelectIdle
       PROVE  GroupsSettled'
  BY <1>18, <1>19, <1>20, <1>21, <1>22, <1>23, <1>24, <1>25, <1>26, <1>27 DEF Next, Dispatcher, API
<1>. QED
  BY <1>8, <1>9, <1>10, <1>11, <1>12, <1>13, <1>14, <1>15, <1>16, <1>27

----------------------------------------------------------------------------
(* The host.                                                               *)

(* The host is told before the CPU changes its owner.                      *)
LEMMA HostFollowsStep ==
  ASSUME IInv, [Next]_vars
  PROVE  HostFollows'
<1>. USE DEF groupVars, queueVars, cpuVars, switchVars, hostVars
<1>1. Types /\ Types' /\ Residence /\ Control
  BY TypesStep DEF IInv
<1>. SUFFICES ASSUME ~fault' PROVE HostFollows'
  BY DEF HostFollows
<1>2. ~fault
  BY FaultStays
<1>3. /\ phase \in {"thread", "enter", "exit", "finish"} => host_owner = task[current].owner
      /\ phase \in {"native", "svc", "return"} => host_owner = NoHandle
      /\ phase \in {"thread", "enter", "exit", "finish"} => current \in Slots
  BY <1>1, <1>2 DEF IInv, HostFollows, Control, Types
<1>4. ASSUME UNCHANGED <<host_owner, current>>,
             \/ phase \in {"thread", "enter", "exit", "finish"}
                /\ phase' \in {"thread", "enter", "exit", "finish"}
                /\ task'[current].owner = task[current].owner
             \/ phase \in {"native", "svc", "return"} /\ phase' \in {"native", "svc", "return"}
             \/ phase' = phase /\ phase = "select"
      PROVE  HostFollows'
  BY <1>3, <1>4 DEF HostFollows
<1>5. ASSUME phase' = "select" PROVE HostFollows'
  BY <1>5 DEF HostFollows
<1>6. ASSUME \/ \E g \in GroupIds : Register(g)
             \/ \E h \in Handles : InitBegin(h) \/ Quiescent(h) \/ Forget(h)
             \/ InitCall \/ InitEnd \/ Run \/ ReturnDone
      PROVE  HostFollows'
  <2>1. /\ UNCHANGED <<host_owner, current>> /\ phase \in {"native", "svc", "return"}
        /\ phase' \in {"native", "svc", "return"}
    BY <1>6 DEF Register, InitBegin, Quiescent, Forget, InitCall, InitEnd, Run, ReturnDone
  <2>. QED
    BY <1>4, <2>1
<1>7. CASE DepartFault
  BY <1>2, <1>7 DEF DepartFault
<1>8. CASE DepartRevoked \/ DepartSaved \/ DepartDone
  <2>1. phase' = "select"
    BY <1>8 DEF DepartRevoked, DepartSaved, DepartDone, Leave
  <2>. QED
    BY <1>5, <2>1
<1>9. CASE SelectNative \/ SelectIdle
  <2>1. NativeReturn(FALSE)
    BY <1>9 DEF SelectNative, SelectIdle
  <2>2. phase' = "return" /\ (~fault' => host_owner' = NoHandle)
    BY <1>1, <2>1, NativeReturnFacts
  <2>. QED
    BY <2>2 DEF HostFollows
<1>10. CASE SelectNext
  <2>1. PICK s \in Slots : SelectionOf(s)
    BY <1>10, SelectNextFacts
  <2>2. Started(s) /\ task'[s].owner = task[s].owner
    BY <2>1 DEF SelectionOf, NotStarted
  <2>. QED
    BY <2>2 DEF Started, HostFollows
<1>11. CASE FinishInline
  <2>1. phase' = "thread" /\ \E s \in Slots : InlinedTo(s)
    BY <1>11, FinishInlineFacts
  <2>. QED
    BY <2>1 DEF InlinedTo, HostFollows
<1>12. ASSUME \A g \in GroupIds : ~Register(g), \A h \in Handles : ~Forget(h),
              \/ UNCHANGED vars \/ Yield \/ RequestNative \/ HostService
              \/ (\E h \in Handles : \/ Enable(h) \/ Disable(h) \/ Pause(h) \/ Revoke(h)
                                     \/ \E p \in Holders : Acquire(p, h))
              \/ (\E p \in Holders : Release(p)) \/ (\E d \in TickSteps : Tick(d)) \/ Complete
              \/ PendSV \/ PendSVExit \/ DepartHeld \/ DepartExhausted \/ FinishSwitch
       PROVE  HostFollows'
  <2>1. \A s \in Slots : task'[s].owner = task[s].owner
    BY <1>12, OwnersKept
  <2>2. UNCHANGED <<host_owner, current>> /\ (phase' = phase \/
          (phase \in {"thread", "enter", "exit", "finish"} /\ phase' \in {"thread", "enter", "exit", "finish"}))
    BY <1>12 DEF vars, Yield, RequestNative, HostService, Enable, Disable, Pause, Withdraw, Revoke,
                 Acquire, Release, Tick, Complete, PendSV, PendSVExit, DepartHeld, DepartExhausted,
                 Departing, FinishSwitch
  <2>3. phase \in {"thread", "enter", "exit", "finish", "native", "svc", "return", "select"}
    BY <1>1 DEF Types, Phases
  <2>. QED
    BY <1>3, <1>4, <2>1, <2>2, <2>3
<1>. QED
  BY <1>6, <1>7, <1>8, <1>9, <1>10, <1>11, <1>12 DEF Next, Dispatcher, API

----------------------------------------------------------------------------
(* The invariant.                                                          *)

(* The statics of section.c start with nothing loaded and nothing running. *)
LEMMA InitInv == Init => IInv
<1>. SUFFICES ASSUME Init PROVE IInv
  OBVIOUS
<1>1. /\ NONE \notin Slots /\ NONE \notin GroupIds /\ HostHold \subseteq BOOLEAN
      /\ MaxGeneration \in Nat /\ TickMod \in Nat /\ 0 < TickMod /\ SliceTicks \in Nat
      /\ MaxRecords \in Nat
  BY StlAssumption
<1>2. Types
  <2>1. NoHandle \in HandleType
    BY DEF HandleType
  <2>2. Absent \in GroupType
    BY <1>1 DEF Absent, GroupType, GroupStates
  <2>3. FreeTask \in TaskType
    BY <1>1, <2>1 DEF FreeTask, TaskType, TaskStates
  <2>4. group \in [GroupIds -> GroupType] /\ task \in [Slots -> TaskType]
        /\ lease \in [Holders -> HandleType]
    BY <2>1, <2>2, <2>3 DEF Init
  <2>5. /\ group_list \in Seq(GroupIds) /\ ready \in Seq(Slots) /\ records \in Seq(RecordType)
        /\ Len(records) <= MaxRecords
    BY <1>1 DEF Init
  <2>6. generation \in 0 .. MaxGeneration /\ elapsed \in 0 .. TickMod - 1
    BY <1>1 DEF Init
  <2>. QED
    BY <1>1, <2>1, <2>4, <2>5, <2>6 DEF Types, Init, Phases
<1>3. Control
  BY DEF Init, Control
<1>4. Residence
  BY <1>1 DEF Init, Residence, Absent, FreeTask, NoHandle
<1>5. LeasesCounted
  <2>. SUFFICES ASSUME NEW g \in GroupIds
       PROVE  group[g].references = Cardinality({p \in Holders : lease[p].id = g})
    BY DEF LeasesCounted
  <2>1. {p \in Holders : lease[p].id = g} = {}
    BY <1>1 DEF Init, NoHandle
  <2>2. group[g].references = 0
    BY DEF Init, Absent
  <2>. QED
    BY <2>1, <2>2, FS_EmptySet
<1>6. QuiescentRests
  BY DEF Init, QuiescentRests, Absent
<1>7. QueueHoldsReady
  <2>1. ready = << >>
    BY DEF Init
  <2>2. IsInjective(ready)
    BY <2>1 DEF IsInjective
  <2>3. \A s : ~Contains(ready, s)
    BY <2>1 DEF Contains
  <2>. QED
    BY <2>2, <2>3 DEF QueueHoldsReady
<1>8. ReadyIsQueued
  BY DEF Init, ReadyIsQueued, FreeTask
<1>9. RecordsPaired
  BY DEF Init, RecordsPaired, FreeTask
<1>10. GroupsSettled
  BY DEF Init, GroupsSettled, Absent
<1>11. HostFollows
  BY DEF Init, HostFollows
<1>. QED
  BY <1>2, <1>3, <1>4, <1>5, <1>6, <1>7, <1>8, <1>9, <1>10, <1>11 DEF IInv

(* Every step keeps all the parts.                                         *)
LEMMA NextInv ==
  ASSUME IInv, [Next]_vars
  PROVE  IInv'
BY TypesStep, ControlStep, ResidenceStep, LeasesCountedStep, QuiescentRestsStep,
   QueueHoldsReadyStep, ReadyIsQueuedStep, RecordsPairedStep, GroupsSettledStep, HostFollowsStep
   DEF IInv

(* Whatever the tasks, the interrupts, the native loader and the host do,  *)
(* in whatever order, the tables of section.c stay consistent: the parts   *)
(* above hold in every reachable state.                                    *)
THEOREM Invariance == Spec => []IInv
<1>1. Init => IInv
  BY InitInv
<1>2. IInv /\ [Next]_vars => IInv'
  BY NextInv
<1>. QED
  BY <1>1, <1>2, PTL DEF Spec

----------------------------------------------------------------------------
(* What follows from it.                                                   *)

(* What a task's owner and a group's records say when the group is named   *)
(* by its current handle.                                                  *)
LEMMA LoadedFacts ==
  ASSUME Types, Residence, NEW g \in Loaded
  PROVE  /\ g \in GroupIds /\ Handle(g) \in HandleType /\ Handle(g) # NoHandle
         /\ Handle(g).id = g /\ Resident(Handle(g))
         /\ \A s \in Slots : task[s].owner = Handle(g) =>
              task[s].owner.id = g /\ task[s].state # "FREE"
         /\ \A i \in RecordsOf(Handle(g), records) :
              i \in 1 .. Len(records) /\ records[i].owner.id = g
<1>1. g \in GroupIds /\ group[g].gen \in 1 .. MaxGeneration
  <2>1. g \in GroupIds /\ group[g] \in GroupType /\ group[g].gen # 0
    BY DEF Loaded, Types
  <2>2. MaxGeneration \in Nat
    BY StlAssumption
  <2>. QED
    BY <2>1, <2>2 DEF GroupType
<1>2. Handle(g) \in HandleType /\ Handle(g).id = g /\ Handle(g) # NoHandle
  BY <1>1, StlAssumption DEF Handle, HandleType, NoHandle
<1>3. Resident(Handle(g))
  BY <1>2 DEF Resident, Handle
<1>4. DOMAIN records = 1 .. Len(records)
  BY LenProperties DEF Types
<1>. QED
  BY <1>1, <1>2, <1>3, <1>4 DEF Residence, RecordsOf

(* The resident tables hold what section.c declares them to hold, and no   *)
(* lease is counted twice: references never passes the number of holders.  *)
THEOREM TypeCorrect == Spec => []TypeOK
<1>1. IInv => TypeOK
  <2>. SUFFICES ASSUME IInv PROVE TypeOK
    OBVIOUS
  <2>1. Types /\ LeasesCounted
    BY DEF IInv
  <2>2. IsFiniteSet(Holders)
    BY StlAssumption
  <2>3. \A g \in GroupIds : group[g].references \in 0 .. Cardinality(Holders)
    <3>. SUFFICES ASSUME NEW g \in GroupIds
         PROVE  group[g].references \in 0 .. Cardinality(Holders)
      OBVIOUS
    <3>. DEFINE P == {p \in Holders : lease[p].id = g}
    <3>1. P \in SUBSET Holders
      OBVIOUS
    <3>2. Cardinality(P) <= Cardinality(Holders) /\ IsFiniteSet(P)
      BY <2>2, <3>1, FS_Subset
    <3>3. Cardinality(P) \in Nat /\ Cardinality(Holders) \in Nat
      BY <2>2, <3>2, FS_CardinalityType
    <3>4. group[g].references = Cardinality(P)
      BY <2>1 DEF LeasesCounted
    <3>. HIDE DEF P
    <3>. QED
      BY <3>2, <3>3, <3>4
  <2>4. \A g \in GroupIds : group[g] \in
          [gen : 0 .. MaxGeneration, state : GroupStates, references : 0 .. Cardinality(Holders),
           init_busy : BOOLEAN, initialized : BOOLEAN, quiescent : BOOLEAN]
    <3>1. \A g \in GroupIds : group[g] \in GroupType
      BY <2>1 DEF Types
    <3>. QED
      BY <2>3, <3>1 DEF GroupType
  <2>5. \A s \in Slots : task[s] \in
          [owner : HandleType, state : TaskStates, age : 0 .. TickMod - 1, period : Nat,
           step : BOOLEAN, quantum_left : 0 .. SliceTicks]
    <3>1. \A s \in Slots : task[s] \in TaskType
      BY <2>1 DEF Types
    <3>. QED
      BY <3>1 DEF TaskType
  <2>. QED
    BY <2>1, <2>4, <2>5 DEF Types, TypeOK
<1>. QED
  BY <1>1, Invariance, PTL

(* However disable, pause, revoke, completion and the timer are ordered,   *)
(* no ready task is lost from the FIFO of section.c, none is in it twice,  *)
(* and section_stl_switch never meets a head it must refuse.               *)
THEOREM QueueCorrect == Spec => []QueueSound
<1>1. IInv => QueueSound
  <2>. SUFFICES ASSUME IInv, ~fault PROVE QueueSound
    BY DEF QueueSound
  <2>1. Types /\ Residence /\ QueueHoldsReady /\ ReadyIsQueued
    BY DEF IInv
  <2>2. \A s \in Slots : Contains(ready, s) <=> task[s].state \in {"NEW", "OLD"}
    BY <2>1 DEF QueueHoldsReady, ReadyIsQueued
  <2>3. \A s \in Slots : Contains(ready, s) => Admissible(s)
    <3>. SUFFICES ASSUME NEW s \in Slots, Contains(ready, s) PROVE Admissible(s)
      OBVIOUS
    <3>1. task[s].state \in {"NEW", "OLD"} /\ MayRun(s)
      BY <2>1, <2>2 DEF ReadyIsQueued
    <3>2. Resident(task[s].owner)
      BY <2>1, <3>1 DEF Residence
    <3>. QED
      BY <3>1, <3>2 DEF Admissible, MayRun, StateOf, Owner
  <2>. QED
    BY <2>1, <2>2, <2>3 DEF QueueSound, QueueHoldsReady, ReadyIsQueued
<1>. QED
  BY <1>1, Invariance, PTL

(* A preempted task has exactly one live record in the allocation history, *)
(* so that its frame is restored once and from the right place; a task     *)
(* that is not waiting in TASK_OLD has none.                               *)
THEOREM SnapshotsCorrect == Spec => []SnapshotsMatch
<1>1. IInv => SnapshotsMatch
  <2>. SUFFICES ASSUME IInv, ~fault PROVE SnapshotsMatch
    BY DEF SnapshotsMatch
  <2>1. Types /\ Residence /\ RecordsPaired
    BY DEF IInv
  <2>2. DOMAIN records = 1 .. Len(records)
    BY <2>1, LenProperties DEF Types
  <2>3. \A s \in Slots : Snapshot(s) = {i \in 1 .. Len(records) : records[i].live /\ records[i].task = s}
    <3>1. \A i \in 1 .. Len(records) : records[i].live =>
            task[records[i].task].owner = records[i].owner
      BY <2>1 DEF RecordsPaired
    <3>. QED
      BY <2>2, <3>1 DEF Snapshot, Owner
  <2>4. \A s \in Slots : task[s].state = "OLD" => Cardinality(Snapshot(s)) = 1
    <3>. SUFFICES ASSUME NEW s \in Slots, task[s].state = "OLD"
         PROVE  Cardinality(Snapshot(s)) = 1
      OBVIOUS
    <3>1. PICK i \in 1 .. Len(records) : records[i].live /\ records[i].task = s
      BY <2>1 DEF RecordsPaired
    <3>2. \A j \in 1 .. Len(records) : records[j].live /\ records[j].task = s => j = i
      BY <2>1, <3>1 DEF RecordsPaired
    <3>3. Snapshot(s) = {i}
      BY <2>3, <3>1, <3>2
    <3>. QED
      BY <3>3, FS_Singleton
  <2>5. \A s \in Slots : task[s].state # "OLD" => Cardinality(Snapshot(s)) = 0
    <3>. SUFFICES ASSUME NEW s \in Slots, task[s].state # "OLD"
         PROVE  Cardinality(Snapshot(s)) = 0
      OBVIOUS
    <3>1. \A i \in 1 .. Len(records) : records[i].live => task[records[i].task].state = "OLD"
      BY <2>1 DEF RecordsPaired
    <3>2. Snapshot(s) = {}
      BY <2>3, <3>1
    <3>. QED
      BY <3>2, FS_EmptySet
  <2>. QED
    BY <2>1, <2>2, <2>4, <2>5 DEF SnapshotsMatch, RecordsPaired
<1>. QED
  BY <1>1, Invariance, PTL

(* Where a task of a group that may not run is: asleep, or on the CPU.     *)
LEMMA RestingTasks ==
  ASSUME IInv, ~fault, NEW g \in Loaded, group[g].state \notin {"ENABLED", "DISABLED"}
  PROVE  /\ \A s \in Slots : task[s].owner = Handle(g) =>
              task[s].state = "SLEEPING" \/ s = current
         /\ \A i \in RecordsOf(Handle(g), records) : ~records[i].live
<1>1. Types /\ Residence /\ ReadyIsQueued /\ RecordsPaired
  BY DEF IInv
<1>2. \A s \in Slots : task[s].owner = Handle(g) =>
        task[s].owner.id = g /\ task[s].state \notin {"FREE", "NEW", "OLD"}
  BY <1>1, LoadedFacts DEF ReadyIsQueued, MayRun
<1>3. \A s \in Slots : task[s].state \in TaskStates
  BY <1>1 DEF Types, TaskType
<1>4. \A s \in Slots : task[s].state = "RUNNING" => s = current
  BY <1>1 DEF ReadyIsQueued
<1>5. \A i \in RecordsOf(Handle(g), records) : ~records[i].live
  <2>. SUFFICES ASSUME NEW i \in RecordsOf(Handle(g), records), records[i].live PROVE FALSE
    OBVIOUS
  <2>1. i \in 1 .. Len(records) /\ records[i].owner = Handle(g)
    BY <1>1, LoadedFacts DEF RecordsOf
  <2>2. records[i].task \in Slots /\ task[records[i].task].state = "OLD"
        /\ task[records[i].task].owner = Handle(g)
    BY <1>1, <2>1, Owners DEF RecordsPaired
  <2>. QED
    BY <1>2, <2>2
<1>. QED
  BY <1>2, <1>3, <1>4, <1>5 DEF TaskStates

(* Once section_stl_group_revoke has closed a group, no order of switches, *)
(* completions and inlined callbacks brings its tasks or frames back, and  *)
(* a group in GROUP_REVOKING is executing, so that the end of its init or  *)
(* the next switch is there to finish the revocation.                      *)
THEOREM ClosedCorrect == Spec => []ClosedIsOut
<1>1. IInv => ClosedIsOut
  <2>. SUFFICES ASSUME IInv, ~fault, NEW g \in Loaded
       PROVE  LET h == Handle(g) IN
                /\ group[g].state = "REVOKED" =>
                     /\ ~Executing(h)
                     /\ \A s \in Slots : task[s].owner = h => task[s].state = "SLEEPING"
                /\ group[g].state = "REVOKING" => Executing(h)
                /\ Closed(h) => \A i \in RecordsOf(h, records) : ~records[i].live
    BY DEF ClosedIsOut
  <2>1. Types /\ Residence /\ GroupsSettled
    BY DEF IInv
  <2>2. g \in GroupIds /\ Handle(g).id = g /\ Handle(g) \in HandleType /\ Resident(Handle(g))
    BY <2>1, LoadedFacts
  <2>3. OwnedBy(current, Handle(g)) <=> CurrentIn(g)
    <3>1. current # NONE => /\ current \in Slots /\ task[current].owner \in HandleType
                            /\ Resident(task[current].owner)
      BY <2>1, Owners
    <3>. QED
      BY <2>1, <2>2, <3>1, SameIdentity DEF OwnedBy, CurrentIn
  <2>4. Executing(Handle(g)) <=> group[g].init_busy \/ CurrentIn(g)
    BY <2>2, <2>3 DEF Executing
  <2>5. Closed(Handle(g)) <=> group[g].state \in {"REVOKING", "REVOKED"}
    BY <2>2 DEF Closed, StateOf
  <2>6. \A s \in Slots : task[s].owner = Handle(g) /\ s = current => CurrentIn(g)
    BY <2>2, StlAssumption DEF CurrentIn
  <2>7. group[g].state = "REVOKED" => ~CurrentIn(g) /\ ~group[g].init_busy
    BY <2>1, <2>2 DEF GroupsSettled
  <2>8. group[g].state = "REVOKING" => CurrentIn(g) \/ group[g].init_busy
    BY <2>1, <2>2 DEF GroupsSettled
  <2>. QED
    BY <2>4, <2>5, <2>6, <2>7, <2>8, RestingTasks
<1>. QED
  BY <1>1, Invariance, PTL

(* section_stl_group_pause is refused while anything of the group is       *)
(* pinned, and nothing that happens afterwards pins it again.              *)
THEOREM PausedCorrect == Spec => []PausedIsIdle
<1>1. IInv => PausedIsIdle
  <2>. SUFFICES ASSUME IInv, ~fault, NEW g \in Loaded, group[g].state = "PAUSED"
       PROVE  /\ group[g].references = 0 /\ RecordsOf(Handle(g), records) = {}
              /\ ~Executing(Handle(g))
              /\ \A s \in Slots : task[s].owner = Handle(g) => task[s].state = "SLEEPING"
    BY DEF PausedIsIdle
  <2>1. Types /\ Residence /\ GroupsSettled
    BY DEF IInv
  <2>2. g \in GroupIds /\ Handle(g).id = g
    BY <2>1, LoadedFacts
  <2>3. /\ group[g].references = 0 /\ ~group[g].init_busy /\ ~CurrentIn(g)
        /\ \A i \in 1 .. Len(records) : records[i].owner.id # g
    BY <2>1, <2>2 DEF GroupsSettled
  <2>4. RecordsOf(Handle(g), records) = {}
    BY <2>1, <2>3, LoadedFacts
  <2>5. ~Executing(Handle(g))
    BY <2>2, <2>3 DEF Executing, OwnedBy, CurrentIn
  <2>6. \A s \in Slots : task[s].owner = Handle(g) => s # current
    BY <2>2, <2>3, StlAssumption DEF CurrentIn
  <2>. QED
    BY <2>3, <2>4, <2>5, <2>6, RestingTasks
<1>. QED
  BY <1>1, Invariance, PTL

(* Between section_stl_group_quiescent and section_stl_group_forget no     *)
(* interrupt, lease or switch can take the group out of retirement.        *)
THEOREM QuiescentCorrect == Spec => []QuiescentIsRetired
<1>1. IInv => QuiescentIsRetired
  <2>. SUFFICES ASSUME IInv, NEW g \in Loaded, group[g].quiescent
       PROVE  Retired(Handle(g), records)
    BY DEF QuiescentIsRetired
  <2>1. Types /\ Residence /\ QuiescentRests
    BY DEF IInv
  <2>2. g \in GroupIds /\ Handle(g).id = g
    BY <2>1, LoadedFacts
  <2>3. /\ group[g].state = "REVOKED" /\ ~group[g].init_busy /\ group[g].references = 0
        /\ ~CurrentIn(g) /\ \A i \in 1 .. Len(records) : records[i].owner.id # g
    BY <2>1, <2>2 DEF QuiescentRests
  <2>4. RecordsOf(Handle(g), records) = {}
    BY <2>1, <2>3, LoadedFacts
  <2>. QED
    BY <2>2, <2>3, <2>4 DEF Retired, StateOf, Executing, OwnedBy, CurrentIn
<1>. QED
  BY <1>1, Invariance, PTL

(* section_stl_group_forget leaves no task, record, init transaction or    *)
(* lease that names the incarnation it frees.                              *)
THEOREM ForgetCorrect == Spec => []NothingOutlivesForget
<1>1. IInv => NothingOutlivesForget
  <2>. SUFFICES ASSUME IInv PROVE NothingOutlivesForget
    OBVIOUS
  <2>1. Types /\ Residence
    BY DEF IInv
  <2>2. DOMAIN records = 1 .. Len(records)
    BY <2>1, LenProperties DEF Types
  <2>. QED
    BY <2>1, <2>2 DEF NothingOutlivesForget, Residence, Owner
<1>. QED
  BY <1>1, Invariance, PTL

(* Business code never runs under another owner's host context, nor native *)
(* code under a task's, also across refused commits and inlined callbacks. *)
THEOREM OwnerCorrect == Spec => []OwnerCommitted
<1>1. IInv => OwnerCommitted
  <2>. SUFFICES ASSUME IInv, ~fault PROVE OwnerCommitted
    BY DEF OwnerCommitted
  <2>1. Types /\ Residence /\ Control /\ HostFollows
    BY DEF IInv
  <2>2. current # NONE => Resident(task[current].owner)
    BY <2>1, Owners
  <2>. QED
    BY <2>1, <2>2 DEF OwnerCommitted, Control, HostFollows, Owner
<1>. QED
  BY <1>1, Invariance, PTL

----------------------------------------------------------------------------
(* What a step may do to a group.  That a revoked group is off the CPU     *)
(* holds whatever has failed; the invariant says it of a sound state only. *)

RevokedRests == \A g \in GroupIds :
  group[g].state = "REVOKED" => ~group[g].init_busy /\ ~CurrentIn(g)

StaysClosed(g) ==
  IF group'[g].gen = group[g].gen
    THEN /\ group[g].state \in {"REVOKING", "REVOKED"} => group'[g].state \in {"REVOKING", "REVOKED"}
         /\ group[g].state = "REVOKED" => group'[g].state = "REVOKED"
    ELSE group'[g].gen = 0 \/ group'[g].gen > generation

(* Every step leaves a revoked group off the CPU and a closed one closed.  *)
LEMMA RevokedStep ==
  ASSUME IInv, RevokedRests, [Next]_vars
  PROVE  RevokedRests' /\ \A g \in GroupIds : StaysClosed(g)
<1>. USE DEF groupVars, queueVars, cpuVars, switchVars, hostVars
<1>1. Types /\ Residence /\ Control /\ QueueHoldsReady
  BY DEF IInv
<1>2. \A h \in Handles : h \in HandleType /\ h # NoHandle /\ h.id \in GroupIds
  BY <1>1, HandleFacts
<1>3. \A g \in GroupIds : group[g].state = "REVOKED" => ~group[g].init_busy /\ ~CurrentIn(g)
  BY DEF RevokedRests
<1>4. current # NONE => /\ current \in Slots /\ Resident(task[current].owner)
                        /\ task[current].owner \in HandleType
                        /\ task[current].owner.id \in GroupIds
  BY <1>1, Owners
<1>. DEFINE Runs(g) == current' # NONE /\ task'[current'].owner.id = g
            Fine(g) == /\ group'[g].state = "REVOKED" => ~group'[g].init_busy /\ ~Runs(g)
                       /\ StaysClosed(g)
            Goal == RevokedRests' /\ \A g \in GroupIds : StaysClosed(g)
<1>5. ASSUME \A g \in GroupIds : Fine(g) PROVE Goal
  BY <1>5 DEF RevokedRests, CurrentIn
<1>6. ASSUME NEW g \in GroupIds, group'[g] = group[g], Runs(g) => CurrentIn(g) PROVE Fine(g)
  BY <1>3, <1>6 DEF StaysClosed
<1>7. current' = NONE => \A g \in GroupIds : ~Runs(g)
  OBVIOUS
<1>8. phase = "native" => current = NONE
  BY <1>1 DEF Control
(* Steps that keep the owner of the task on the CPU.                       *)
<1>9. ASSUME ~SelectNext, ~FinishInline,
             \A g \in GroupIds : ~Register(g), \A h \in Handles : ~Forget(h)
      PROVE  \A g \in GroupIds : Runs(g) => CurrentIn(g)
  <2>1. (\A s \in Slots : task'[s].owner = task[s].owner) /\ current' \in {current, NONE}
    BY <1>9, OwnersKept, CurrentKept
  <2>. QED
    BY <1>4, <2>1 DEF CurrentIn
<1>10. CASE SelectNext
  <2>1. PICK s \in Slots : SelectionOf(s)
    BY <1>10, SelectNextFacts
  <2>2. UNCHANGED group /\ MayRun(s) /\ task'[s].owner = task[s].owner /\ current' \in {s, NONE}
    BY <2>1 DEF SelectionOf, Started, NotStarted
  <2>3. ASSUME NEW g \in GroupIds PROVE Fine(g)
    <3>1. Runs(g) => group[g].state # "REVOKED"
      BY <2>2 DEF MayRun
    <3>. QED
      BY <1>3, <2>2, <3>1 DEF StaysClosed
  <2>. QED
    BY <1>5, <2>3
<1>11. CASE FinishInline
  <2>. DEFINE h == task[current].owner
  <2>1. /\ current \in Slots /\ h.id \in GroupIds /\ current # NONE
        /\ \/ \E s \in Slots : InlinedTo(s)
           \/ UNCHANGED <<cpuVars, queueVars, group>>
    BY <1>11, FinishInlineFacts, StlAssumption
  <2>2. CASE UNCHANGED <<cpuVars, queueVars, group>>
    BY <1>5, <1>6, <2>2 DEF CurrentIn
  <2>3. ASSUME NEW s \in Slots, InlinedTo(s) PROVE Goal
    <3>1. /\ group[task[s].owner.id].state = "ENABLED" /\ current' = s
          /\ task'[s].owner = task[s].owner
          /\ group[h.id].state # "REVOKING" => UNCHANGED group
          /\ group[h.id].state = "REVOKING" =>
               /\ \A g \in GroupIds \ {h.id} : group'[g] = group[g]
               /\ group[h.id].init_busy => group'[h.id] = [group[h.id] EXCEPT !.state = "REVOKING"]
               /\ ~group[h.id].init_busy => group'[h.id] = [group[h.id] EXCEPT !.state = "REVOKED"]
      BY <2>3 DEF InlinedTo
    <3>2. \A g \in GroupIds : Runs(g) => group[g].state = "ENABLED"
      BY <3>1
    <3>3. ASSUME NEW g \in GroupIds PROVE Fine(g)
      <4>1. CASE group[h.id].state = "REVOKING" /\ g = h.id
        <5>1. /\ group'[g].init_busy = group[g].init_busy
              /\ group'[g].gen = group[g].gen
              /\ group[g].init_busy => group'[g].state = "REVOKING"
              /\ ~group[g].init_busy => group'[g].state = "REVOKED"
          BY <1>1, <2>1, <3>1, <4>1, StateEdited
        <5>. QED
          BY <3>2, <4>1, <5>1 DEF StaysClosed
      <4>2. CASE ~(group[h.id].state = "REVOKING" /\ g = h.id)
        <5>1. group'[g] = group[g]
          BY <3>1, <4>2
        <5>. QED
          BY <1>3, <3>2, <5>1 DEF StaysClosed
      <4>. QED
        BY <4>1, <4>2
    <3>. QED
      BY <1>5, <3>3
  <2>. QED
    BY <2>1, <2>2, <2>3
<1>12. CASE DepartRevoked
  <2>. DEFINE h == task[current].owner
  <2>1. /\ h.id \in GroupIds /\ Closed(h)
        /\ \A g \in GroupIds \ {h.id} : group'[g] = group[g]
        /\ group[h.id].init_busy => group'[h.id] = [group[h.id] EXCEPT !.state = "REVOKING"]
        /\ ~group[h.id].init_busy => group'[h.id] = [group[h.id] EXCEPT !.state = "REVOKED"]
    BY <1>12, DepartRevokedFacts
  <2>2. current' = NONE /\ group[h.id].state \in {"REVOKING", "REVOKED"}
    BY <1>12, <2>1 DEF DepartRevoked, Leave, Closed, StateOf
  <2>3. /\ group'[h.id].init_busy = group[h.id].init_busy
        /\ group'[h.id].gen = group[h.id].gen
        /\ group[h.id].init_busy => group'[h.id].state = "REVOKING"
        /\ ~group[h.id].init_busy => group'[h.id].state = "REVOKED"
    BY <1>1, <2>1, StateEdited
  <2>4. ASSUME NEW g \in GroupIds PROVE Fine(g)
    <3>1. CASE g = h.id
      BY <1>3, <2>2, <2>3, <3>1 DEF StaysClosed
    <3>2. CASE g # h.id
      BY <1>6, <2>1, <2>2, <3>2
    <3>. QED
      BY <3>1, <3>2
  <2>. QED
    BY <1>5, <2>4
<1>13. ASSUME NEW h \in GroupIds, Register(h) PROVE Goal
  <2>1. /\ UNCHANGED current /\ phase = "native" /\ group[h].gen = 0
        /\ generation' = generation + 1
        /\ group' = [group EXCEPT ![h] = [Absent EXCEPT !.gen = generation']]
    BY <1>13 DEF Register
  <2>2. /\ group'[h].state = "DISABLED" /\ group'[h].gen = generation + 1
        /\ generation \in Nat /\ \A g \in GroupIds \ {h} : group'[g] = group[g]
    BY <1>1, <2>1 DEF Types, Absent
  <2>3. ASSUME NEW g \in GroupIds PROVE Fine(g)
    <3>1. CASE g = h
      BY <2>1, <2>2, <3>1 DEF StaysClosed
    <3>2. CASE g # h
      BY <1>6, <1>8, <2>1, <2>2, <3>2
    <3>. QED
      BY <3>1, <3>2
  <2>. QED
    BY <1>5, <2>3
<1>14. ASSUME NEW h \in Handles, Forget(h) PROVE Goal
  <2>1. /\ UNCHANGED current /\ phase = "native" /\ Resident(h)
        /\ group' = [group EXCEPT ![h.id] = Absent]
    BY <1>14 DEF Forget
  <2>2. /\ group'[h.id].state = "DISABLED" /\ group'[h.id].gen = 0 /\ group[h.id].gen # 0
        /\ \A g \in GroupIds \ {h.id} : group'[g] = group[g]
    BY <1>1, <1>2, <2>1, HandleFacts DEF Types, Absent
  <2>3. ASSUME NEW g \in GroupIds PROVE Fine(g)
    <3>1. CASE g = h.id
      BY <2>2, <3>1 DEF StaysClosed
    <3>2. CASE g # h.id
      BY <1>6, <1>8, <2>1, <2>2, <3>2
    <3>. QED
      BY <3>1, <3>2
  <2>. QED
    BY <1>5, <2>3
<1>. DEFINE Plain == /\ ~FinishInline /\ ~SelectNext
                     /\ \A g \in GroupIds : ~Register(g)
                     /\ \A h \in Handles : ~Forget(h)
<1>15. CASE Plain /\ UNCHANGED group
  BY <1>5, <1>6, <1>9, <1>15
<1>16. ASSUME Plain, \A g \in GroupIds : /\ group'[g].gen = group[g].gen
                                         /\ group'[g].state = group[g].state
                                         /\ group'[g].init_busy = group[g].init_busy
       PROVE  Goal
  BY <1>3, <1>5, <1>9, <1>16 DEF StaysClosed
<1>17. ASSUME Plain, NEW h \in Handles, Quiescent(h) \/ \E p \in Holders : Acquire(p, h)
       PROVE  Goal
  <2>1. \/ group' = [group EXCEPT ![h.id].quiescent = TRUE]
        \/ group' = [group EXCEPT ![h.id].references = @ + 1]
    BY <1>17 DEF Quiescent, Acquire
  <2>2. \A g \in GroupIds : /\ group'[g].gen = group[g].gen
                            /\ group'[g].state = group[g].state
                            /\ group'[g].init_busy = group[g].init_busy
    <3>1. CASE group' = [group EXCEPT ![h.id].quiescent = TRUE]
      BY <1>1, <1>2, <3>1 DEF Types, GroupType
    <3>2. CASE group' = [group EXCEPT ![h.id].references = @ + 1]
      BY <1>1, <1>2, <3>2 DEF Types, GroupType
    <3>. QED
      BY <2>1, <3>1, <3>2
  <2>. QED
    BY <1>16, <1>17, <2>2
<1>18. ASSUME Plain, NEW p \in Holders, Release(p) PROVE Goal
  <2>. DEFINE h == lease[p]
  <2>1. \/ UNCHANGED group
        \/ group' = [group EXCEPT ![h.id].references = @ - 1]
    BY <1>18 DEF Release
  <2>2. \A g \in GroupIds : /\ group'[g].gen = group[g].gen
                            /\ group'[g].state = group[g].state
                            /\ group'[g].init_busy = group[g].init_busy
    <3>1. CASE group' = [group EXCEPT ![h.id].references = @ - 1]
      BY <1>1, <3>1 DEF Types, GroupType
    <3>. QED
      BY <2>1, <3>1
  <2>. QED
    BY <1>16, <1>18, <2>2
<1>19. ASSUME Plain, NEW h \in Handles, InitBegin(h) PROVE Goal
  <2>1. /\ group[h.id].state = "DISABLED"
        /\ \A o \in GroupIds \ {h.id} : group'[o] = group[o]
        /\ \A o \in GroupIds : /\ group'[o].state = group[o].state
                               /\ group'[o].gen = group[o].gen
    BY <1>1, <1>2, <1>19, InitBeginFacts
  <2>2. ASSUME NEW g \in GroupIds PROVE Fine(g)
    <3>1. CASE g = h.id
      BY <2>1, <3>1 DEF StaysClosed
    <3>2. CASE g # h.id
      BY <1>6, <1>9, <1>19, <2>1, <3>2
    <3>. QED
      BY <3>1, <3>2
  <2>. QED
    BY <1>5, <2>2
<1>20. ASSUME Plain, InitEnd PROVE Goal
  <2>. DEFINE g == init.handle.id
  <2>1. /\ g \in GroupIds /\ group[g].init_busy /\ phase = "native"
        /\ \A o \in GroupIds \ {g} : group'[o] = group[o]
        /\ ~group'[g].init_busy /\ group'[g].gen = group[g].gen
        /\ group[g].state \in {"REVOKING", "REVOKED"} => group'[g].state = "REVOKED"
        /\ group[g].state \notin {"REVOKING", "REVOKED"} => group'[g].state = group[g].state
        /\ UNCHANGED <<group_list, generation, queueVars, cpuVars, switchVars, lease,
                       hostVars, fault>>
    BY <1>1, <1>20, InitEndFacts
  <2>2. ASSUME NEW o \in GroupIds PROVE Fine(o)
    <3>1. CASE o = g
      <4>1. ~Runs(g)
        BY <1>8, <2>1
      <4>. QED
        BY <2>1, <3>1, <4>1 DEF StaysClosed
    <3>2. CASE o # g
      BY <1>6, <1>9, <1>20, <2>1, <3>2
    <3>. QED
      BY <3>1, <3>2
  <2>. QED
    BY <1>5, <2>2
<1>21. ASSUME Plain, NEW h \in Handles, Enable(h) \/ Disable(h) \/ Pause(h) PROVE Goal
  <2>1. /\ ~Closed(h)
        /\ \E st \in {"ENABLED", "DISABLED", "PAUSED"} : group' = [group EXCEPT ![h.id].state = st]
    BY <1>21 DEF Enable, Disable, Pause
  <2>2. PICK st \in {"ENABLED", "DISABLED", "PAUSED"} :
          /\ group'[h.id] = [group[h.id] EXCEPT !.state = st]
          /\ \A o \in GroupIds \ {h.id} : group'[o] = group[o]
    BY <1>1, <1>2, <2>1 DEF Types
  <2>3. group'[h.id].state = st /\ group'[h.id].gen = group[h.id].gen
    BY <1>1, <1>2, <2>2, StateEdited
  <2>4. group[h.id].state \notin {"REVOKING", "REVOKED"}
    BY <2>1 DEF Closed, StateOf
  <2>5. ASSUME NEW g \in GroupIds PROVE Fine(g)
    <3>1. CASE g = h.id
      BY <2>3, <2>4, <3>1 DEF StaysClosed
    <3>2. CASE g # h.id
      BY <1>6, <1>9, <1>21, <2>2, <3>2
    <3>. QED
      BY <3>1, <3>2
  <2>. QED
    BY <1>5, <2>5
<1>22. ASSUME Plain, NEW h \in Handles, Revoke(h) PROVE Goal
  <2>1. /\ Resident(h)
        /\ \A g \in GroupIds \ {h.id} : group'[g] = group[g]
        /\ \E st \in {"REVOKING", "REVOKED"} :
             /\ group'[h.id] = [group[h.id] EXCEPT !.state = st]
             /\ st = "REVOKING" <=> group[h.id].init_busy \/ OwnedBy(current, h)
        /\ UNCHANGED <<group_list, generation, init, cpuVars, native_pending, phase, lease,
                       hostVars, fault>>
    BY <1>1, <1>2, <1>22, RevokeFacts
  <2>2. OwnedBy(current, h) <=> CurrentIn(h.id)
    BY <1>1, <1>2, <1>4, <2>1, SameIdentity DEF CurrentIn, OwnedBy
  <2>3. /\ group'[h.id].init_busy = group[h.id].init_busy
        /\ group'[h.id].gen = group[h.id].gen
        /\ group'[h.id].state \in {"REVOKING", "REVOKED"}
        /\ group'[h.id].state = "REVOKING" <=> group[h.id].init_busy \/ OwnedBy(current, h)
    BY <1>1, <1>2, <2>1, StateEdited
  <2>4. ASSUME NEW g \in GroupIds PROVE Fine(g)
    <3>1. CASE g = h.id
      BY <1>2, <1>3, <1>9, <1>22, <2>2, <2>3, <3>1 DEF StaysClosed
    <3>2. CASE g # h.id
      BY <1>6, <1>9, <1>22, <2>1, <3>2
    <3>. QED
      BY <3>1, <3>2
  <2>. QED
    BY <1>5, <2>4
<1>23. CASE Plain /\ ~DepartRevoked
  <2>1. CASE GroupStep
    BY <1>17, <1>18, <1>19, <1>20, <1>21, <1>22, <1>23, <2>1 DEF GroupStep
  <2>2. CASE ~GroupStep
    BY <1>15, <1>23, <2>2, GroupsKept
  <2>. QED
    BY <2>1, <2>2
<1>. QED
  BY <1>10, <1>11, <1>12, <1>13, <1>14, <1>23

(* Neither enable, disable, pause nor a late switch reopens an incarnation *)
(* that section_stl_group_revoke has closed, and section_stl_group_register *)
(* never gives a generation out again, so that a stale handle stays stale. *)
THEOREM ClosedStaysClosed == Spec => ClosedIsFinal
<1>1. Init => IInv /\ RevokedRests
  <2>1. Init => RevokedRests
    BY DEF Init, RevokedRests, Absent
  <2>. QED
    BY <2>1, InitInv
<1>2. IInv /\ RevokedRests /\ [Next]_vars => IInv' /\ RevokedRests'
  BY NextInv, RevokedStep
<1>3. IInv /\ RevokedRests /\ [Next]_vars =>
        [\A g \in GroupIds :
           IF group'[g].gen = group[g].gen
             THEN /\ Closed(Handle(g)) => group'[g].state \in {"REVOKING", "REVOKED"}
                  /\ group[g].state = "REVOKED" => group'[g].state = "REVOKED"
             ELSE group'[g].gen = 0 \/ group'[g].gen > generation]_vars
  BY RevokedStep DEF StaysClosed, Closed, StateOf, Handle
<1>. QED
  BY <1>1, <1>2, <1>3, PTL DEF Spec, ClosedIsFinal

(* section_stl_run returns with work left only when native work was asked  *)
(* for, the host forbids switching, or a fault was latched: the selection  *)
(* loop activates every due task before it finds the queue empty.          *)
THEOREM ReturnsIdle == Spec => ReturnsOnlyWhenIdle
<1>. USE DEF groupVars, queueVars, cpuVars, switchVars, hostVars
<1>1. ASSUME IInv, [Next]_vars, phase # "return", phase' = "return",
             ~native_pending, ~hold, ~fault'
      PROVE  ready' = << >> /\ \A s \in Slots : ~Due(task', s)
  <2>1. Types /\ Residence /\ Control
    BY <1>1 DEF IInv
  <2>2. CASE SelectIdle
    <3>1. /\ WithDue(ready, task) = << >> /\ UNCHANGED <<task, ready>> /\ ready \in Seq(Slots)
      BY <2>1, <2>2 DEF SelectIdle, Candidates, Types
    <3>2. \A s : Contains(WithDue(ready, task), s)
                   <=> Contains(ready, s) \/ (s \in Slots /\ Due(task, s))
      BY <2>1, <3>1, ActivationFacts
    <3>3. \A s : ~Contains(WithDue(ready, task), s)
      BY <3>1 DEF Contains
    <3>4. ready = << >>
      <4>. SUFFICES ASSUME ready # << >> PROVE FALSE
        OBVIOUS
      <4>1. 1 \in 1 .. Len(ready)
        BY <3>1, LenProperties, EmptySeq
      <4>. QED
        BY <3>2, <3>3, <4>1 DEF Contains
    <3>. QED
      BY <3>1, <3>2, <3>3, <3>4
  <2>3. ~SelectNext
    <3>. SUFFICES ASSUME SelectNext PROVE FALSE
      OBVIOUS
    <3>1. PICK s \in Slots : SelectionOf(s)
      BY <1>1, SelectNextFacts
    <3>. QED
      BY <1>1, <3>1 DEF SelectionOf, Started, NotStarted
  <2>4. ~DepartFault
    BY <1>1, <2>1, NativeReturnFacts DEF DepartFault
  <2>5. ~(API \/ InitCall \/ InitEnd \/ Complete \/ HostService \/ (\E d \in TickSteps : Tick(d))
          \/ UNCHANGED vars)
    BY <1>1 DEF vars, API, InitBegin, Enable, Disable, Pause, Withdraw, Revoke, Quiescent, Forget,
                Acquire, Release, Register, Yield, RequestNative, InitCall, InitEnd, Complete,
                HostService, Tick
  <2>6. ~(Run \/ ReturnDone \/ PendSV \/ PendSVExit \/ DepartHeld \/ DepartRevoked \/ DepartSaved
          \/ DepartExhausted \/ DepartDone \/ SelectNative \/ FinishInline \/ FinishSwitch)
    BY <1>1 DEF Run, ReturnDone, PendSV, PendSVExit, DepartHeld, DepartRevoked, DepartSaved,
                DepartExhausted, DepartDone, Leave, SelectNative, FinishInline, FinishSwitch
  <2>. QED
    BY <1>1, <2>2, <2>3, <2>4, <2>5, <2>6 DEF Next, Dispatcher
<1>2. IInv /\ [Next]_vars =>
        [phase # "return" /\ phase' = "return" /\ ~native_pending /\ ~hold /\ ~fault'
           => ready' = << >> /\ \A s \in Slots : ~Due(task', s)]_vars
  BY <1>1
<1>. QED
  BY <1>2, Invariance, PTL DEF Spec, ReturnsOnlyWhenIdle
=============================================================================
