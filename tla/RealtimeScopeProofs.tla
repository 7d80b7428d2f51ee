------------------------ MODULE RealtimeScopeProofs ------------------------
(***************************************************************************)
(* Proofs about RealtimeScope, for every set of channels and widths, every *)
(* ring, frame budget and request depth, and any number of acquisitions,   *)
(* samples and sessions: wherever manage() and the link task preempt each  *)
(* other, a client gets whole frames, each laid out as it was told, every  *)
(* sample in order with none missing, and nothing of an acquisition older  *)
(* than its own session; and no read overruns the room it was offered.     *)
(***************************************************************************)
EXTENDS RealtimeScope, FiniteSetTheorems, SequenceTheorems,
        WellFoundedInduction, TLAPS

----------------------------------------------------------------------------
(* The size of a frame.  The layout's width is a fold over its channels;   *)
(* the fold is a recursive function over the subsets of the channels, so   *)
(* what it returns rests on that recursion having a solution, and every    *)
(* solution being a natural number.  Both go by least counterexample.      *)

(* A non-empty set of naturals has a least member.                         *)
LEMMA LeastNat ==
  ASSUME NEW T \in SUBSET Nat, T # {}
  PROVE  \E n \in T : \A m \in T : n <= m
<1>1. PICK n \in T : \A m \in T : <<m, n>> \notin OpToRel(<, Nat)
  BY WFMin, NatLessThanWellFounded
<1>2. \A m \in T : m \in Nat /\ n \in Nat /\ ~ (m < n)
  BY <1>1 DEF OpToRel
<1>3. \A m \in T : n <= m
  BY <1>2
<1>. QED
  BY <1>3

Picked(s) == CHOOSE x \in s : TRUE
Unfolded(S, f, g) ==
    [s \in SUBSET S |-> IF s = {} THEN 0 ELSE f[Picked(s)] + g[s \ {Picked(s)}]]

(* The fold of PayloadSize is a fixpoint of its own unfolding.             *)
LEMMA FoldIsFixpoint ==
  ASSUME NEW S, NEW f, f = [s \in S |-> f[s]]
  PROVE  FoldFunction(+, 0, f) = (CHOOSE g : g = Unfolded(S, f, g))[S]
  BY DEF FoldFunction, FoldFunctionOnSet, MapThenFoldSet, Unfolded, Picked

(* Taking the picked member leaves a smaller subset.                       *)
LEMMA FewerLeft ==
  ASSUME NEW S, IsFiniteSet(S), NEW s \in SUBSET S, s # {}
  PROVE  /\ Picked(s) \in s /\ s \ {Picked(s)} \in SUBSET S
         /\ Cardinality(s) \in Nat /\ Cardinality(s \ {Picked(s)}) \in Nat
         /\ Cardinality(s \ {Picked(s)}) < Cardinality(s)
<1>1. Picked(s) \in s
  BY DEF Picked
<1>2. IsFiniteSet(s)
  BY FS_Subset
<1>3. IsFiniteSet(s \ {Picked(s)}) /\ Cardinality(s \ {Picked(s)}) = Cardinality(s) - 1
  BY <1>1, <1>2, FS_RemoveElement
<1>. QED
  BY <1>1, <1>2, <1>3, FS_CardinalityType

(* The recursion has a solution: unfolding n times from zero is right on   *)
(* every subset of at most n members.                                      *)
LEMMA FixpointExists ==
  ASSUME NEW S, IsFiniteSet(S), NEW f \in [S -> Nat]
  PROVE  \E g : g = Unfolded(S, f, g)
<1>. DEFINE Right(n, g) == \A s \in SUBSET S : Cardinality(s) <= n => g[s] = Unfolded(S, f, g)[s]
            Wrong == {n \in Nat : ~ \E g \in [SUBSET S -> Nat] : Right(n, g)}
<1>1. \A g \in [SUBSET S -> Nat] : Unfolded(S, f, g) \in [SUBSET S -> Nat]
  <2>1. ASSUME NEW g \in [SUBSET S -> Nat], NEW s \in SUBSET S, s # {}
        PROVE  f[Picked(s)] + g[s \ {Picked(s)}] \in Nat
    <3>1. f[Picked(s)] \in Nat /\ g[s \ {Picked(s)}] \in Nat
      BY <2>1, FewerLeft
    <3>. QED
      BY <3>1
  <2>. QED
    BY <2>1 DEF Unfolded
<1>2. \E g \in [SUBSET S -> Nat] : Right(0, g)
  <2>1. [s \in SUBSET S |-> 0] \in [SUBSET S -> Nat]
    OBVIOUS
  <2>2. \A s \in SUBSET S : Cardinality(s) <= 0 => s = {}
    <3>1. ASSUME NEW s \in SUBSET S, Cardinality(s) <= 0, s # {} PROVE FALSE
      <4>1. /\ Cardinality(s) \in Nat /\ Cardinality(s \ {Picked(s)}) \in Nat
            /\ Cardinality(s \ {Picked(s)}) < Cardinality(s)
        BY <3>1, FewerLeft
      <4>. QED
        BY <3>1, <4>1
    <3>. QED
      BY <3>1
  <2>. QED
    BY <2>1, <2>2 DEF Unfolded
<1>3. ASSUME NEW n \in Nat, NEW g \in [SUBSET S -> Nat], Right(n, g)
      PROVE  Right(n + 1, Unfolded(S, f, g))
  <2>. DEFINE h == Unfolded(S, f, g)
  <2>1. SUFFICES ASSUME NEW s \in SUBSET S, Cardinality(s) <= n + 1
                 PROVE  h[s] = Unfolded(S, f, h)[s]
    OBVIOUS
  <2>2. CASE s = {}
    BY <2>2 DEF Unfolded
  <2>3. CASE s # {}
    <3>. DEFINE r == s \ {Picked(s)}
    <3>1. r \in SUBSET S /\ Cardinality(r) <= n
      BY <2>1, <2>3, FewerLeft
    <3>2. g[r] = h[r]
      BY <1>3, <3>1
    <3>. QED
      BY <2>3, <3>1, <3>2 DEF Unfolded
  <2>. QED
    BY <2>2, <2>3
<1>4. Wrong = {}
  <2>. SUFFICES ASSUME Wrong # {} PROVE FALSE
    OBVIOUS
  <2>1. PICK n \in Wrong : \A m \in Wrong : n <= m
    BY LeastNat
  <2>2. n # 0
    BY <2>1, <1>2
  <2>3. n - 1 \in Nat /\ n - 1 \notin Wrong
    <3>1. n \in Nat /\ n # 0
      BY <2>1, <2>2
    <3>2. n - 1 \in Nat /\ ~ (n <= n - 1)
      BY <3>1
    <3>. QED
      BY <2>1, <3>2
  <2>4. PICK g \in [SUBSET S -> Nat] : Right(n - 1, g)
    BY <2>3
  <2>5. Right(n - 1 + 1, Unfolded(S, f, g))
    BY <2>3, <2>4, <1>3
  <2>6. n - 1 + 1 = n
    BY <2>1
  <2>. HIDE DEF Right
  <2>. QED
    BY <2>1, <2>4, <2>5, <2>6, <1>1
<1>5. PICK g \in [SUBSET S -> Nat] : Right(Cardinality(S), g)
  BY <1>4, FS_CardinalityType
<1>6. \A s \in SUBSET S : g[s] = Unfolded(S, f, g)[s]
  BY <1>5, FS_Subset
<1>7. g = Unfolded(S, f, g)
  <2>1. Unfolded(S, f, g) = [s \in SUBSET S |-> Unfolded(S, f, g)[s]]
    BY <1>1
  <2>2. g = [s \in SUBSET S |-> g[s]]
    OBVIOUS
  <2>. QED
    BY <1>6, <2>1, <2>2
<1>. QED
  BY <1>7

(* Every solution is a natural number on every subset of the channels.     *)
LEMMA FixpointNat ==
  ASSUME NEW S, IsFiniteSet(S), NEW f \in [S -> Nat], NEW g, g = Unfolded(S, f, g)
  PROVE  \A s \in SUBSET S : g[s] \in Nat
<1>. DEFINE Wrong == {Cardinality(s) : s \in {t \in SUBSET S : g[t] \notin Nat}}
<1>1. Wrong \subseteq Nat
  BY FS_Subset, FS_CardinalityType
<1>2. SUFFICES ASSUME Wrong # {} PROVE FALSE
  OBVIOUS
<1>3. PICK n \in Wrong : \A m \in Wrong : n <= m
  BY <1>1, <1>2, LeastNat
<1>4. PICK s \in SUBSET S : g[s] \notin Nat /\ n = Cardinality(s)
  BY <1>3
<1>5. g[s] = IF s = {} THEN 0 ELSE f[Picked(s)] + g[s \ {Picked(s)}]
  BY DEF Unfolded
<1>6. s # {}
  BY <1>4, <1>5
<1>7. g[s \ {Picked(s)}] \in Nat
  <2>. DEFINE r == s \ {Picked(s)}
  <2>1. r \in SUBSET S /\ Cardinality(r) \in Nat /\ n \in Nat /\ Cardinality(r) < n
    BY <1>4, <1>6, FewerLeft
  <2>2. Cardinality(r) \notin Wrong
    BY <1>3, <2>1
  <2>. QED
    BY <2>1, <2>2
<1>8. f[Picked(s)] \in Nat
  BY <1>6, FewerLeft
<1>. QED
  BY <1>4, <1>5, <1>6, <1>7, <1>8

(* A sum over finitely many channels of natural numbers is a natural one.  *)
LEMMA SumNat ==
  ASSUME NEW S, IsFiniteSet(S), NEW f \in [S -> Nat]
  PROVE  FoldFunction(+, 0, f) \in Nat
<1>1. \E g : g = Unfolded(S, f, g)
  BY FixpointExists
<1>. DEFINE h == CHOOSE g : g = Unfolded(S, f, g)
<1>2. h = Unfolded(S, f, h)
  BY <1>1
<1>3. h[S] \in Nat
  BY <1>2, FixpointNat
<1>. QED
  BY <1>3, FoldIsFixpoint

LEMMA BanksAreNat == Banks \subseteq [Channels -> Nat] /\ NoChannel \in Banks
<1>1. Widths \cup {0} \subseteq Nat
  BY ScopeAssumption DEF ScopeAssumption
<1>. QED
  BY <1>1 DEF Banks, NoChannel

(* A frame of any layout has its five bytes of framing.                    *)
LEMMA FrameSizeNat ==
  ASSUME NEW bank \in Banks
  PROVE  FrameSize(bank) \in Nat /\ FrameSize(bank) >= 5
<1>1. IsFiniteSet(Channels) /\ bank \in [Channels -> Nat]
  BY BanksAreNat, ScopeAssumption DEF ScopeAssumption
<1>2. PayloadSize(bank) \in Nat
  BY <1>1, SumNat DEF PayloadSize
<1>. QED
  BY <1>2 DEF FrameSize

----------------------------------------------------------------------------
(* The inductive invariant.                                                *)

Frames ==
    [start : Nat, sample : Nat, index : Nat, layout : Banks]
Managers ==
    [at : {"idle"}]
        \cup [at : {"look", "orphan", "adopt"}, seen : Nat]
        \cup [at : {"serve", "process", "stopLink", "stopQueue"}, left : Nat]
Readers ==
    [at : {"idle", "accept"}]
        \cup [at : {"link", "session"}, for : Nat, left : Nat]
        \cup [at : {"loadActive", "loadSession"}, for : Nat, left : Nat, seen : Nat]
        \cup [at : {"loop", "check", "stage"}, for : Nat, left : Nat, frames : Seq(Frames)]

ScopeTypes ==
    /\ active \in Banks /\ config \in Banks
    /\ ring = [i \in 0 .. Capacity - 1 |-> ring[i]]
    /\ frameSize \in Nat /\ queueLimit \in Nat
    /\ head \in Nat /\ tail \in Nat /\ count \in Nat
    /\ running \in BOOLEAN /\ samples \in Nat
    /\ layout \in Banks /\ prepared \in Seq(Banks)
LinkTypes ==
    /\ requests \in Nat
    /\ activeSession \in Nat /\ manager \in Managers
    /\ session \in Nat /\ connected \in BOOLEAN /\ opened \in Nat
ReaderTypes == reader \in Readers /\ stream \in Seq(Frames)

\* An acquisition is alive while it runs or has frames left in the ring.
Alive == running \/ count # 0

\* The interrupt samples the layout the client was last told, which is the one
\* it was told before this acquisition was started.
LayoutTold ==
    /\ layout = active
    /\ Alive => starts # 0 /\ prepared[starts] = layout

\* The j-th queued frame, counted from slot h of k, is in this slot.
Slot(h, k, j) == IF h + j < k THEN h + j ELSE h + j - k

FrameOf(n) ==
    [start |-> starts, sample |-> n, index |-> n % IndexMod, layout |-> layout]

Holds(slot, frame) ==
    \A i \in 0 .. frameSize - 1 :
        ring[slot * frameSize + i] = [frame |-> frame, at |-> i]

\* The ring of k slots, read from slot h: stride and limit fit the ring, the
\* write position is behind the last queued frame, and each queued slot holds
\* the whole frame of its sample.
Geometry(h, k) ==
    /\ queueLimit = k * frameSize /\ queueLimit <= Capacity
    /\ h < k \/ h = 0
    /\ head = h * frameSize
    /\ count <= k
    /\ running => tail = Slot(h, k, count) * frameSize
Contents(h, k) ==
    \A j \in 0 .. count - 1 : Holds(Slot(h, k, j), FrameOf(samples - count + j))

QueueSound ==
    Alive =>
        /\ frameSize = FrameSize(layout)
        /\ count <= samples
        /\ \E h, k \in 0 .. Capacity : Geometry(h, k) /\ Contents(h, k)

\* The session of the client accepted last; retiring it moves the session on.
Client == IF connected THEN session ELSE session - 1

\* Sessions only move forward, and no one has read one that is yet to come.
SessionsForward ==
    /\ activeSession <= session
    /\ At("look") \/ At("orphan") \/ At("adopt") =>
          activeSession <= manager.seen /\ manager.seen <= session
    /\ opened <= starts

\* A session is adopted with its own acquisition, or with none; so one that
\* has had no client yet has no acquisition.
AdoptsClean ==
    /\ At("adopt") => manager.seen = activeSession \/ ~Alive
    /\ At("stopQueue") => ~Alive
    /\ ~connected /\ activeSession = session => ~Alive

\* The link task has a read under way.
Busy == ~Reading("idle") /\ ~Reading("accept")

\* A read is for the last client all along, whatever manage() does to the
\* link meanwhile.  Once it has compared the sessions, the queue it copies
\* from is of that client, or empty until the read is over.
ReadsForClient ==
    /\ Busy => reader.for = Client
    /\ Reading("loadActive") =>
          reader.seen = reader.for \/ (~connected /\ reader.seen = session)
    /\ Reading("loadSession") => reader.seen <= activeSession
    /\ Reading("loop") => activeSession = reader.for \/ (~connected /\ ~Alive)

\* The link task begins no read on a link it is asked to reset, and a reset
\* during the read disconnects it.
ReadsUnreset == Busy /\ connected => ~resetRequested

\* What the client has been or may yet be sent: the staged frames, and the
\* ones the read under way has collected.
Collecting == Reading("loop") \/ Reading("check") \/ Reading("stage")
Held == IF Collecting THEN reader.frames ELSE <<>>
Sent == stream \o Held

\* Frames as StreamExact wants them, of acquisitions after number floor that
\* were told these layouts.
Exact(frames, floor, told) ==
    \A i \in DOMAIN frames :
        /\ frames[i].start > floor /\ frames[i].start <= Len(told)
        /\ frames[i].layout = told[frames[i].start]
        /\ frames[i].index = frames[i].sample % IndexMod
        /\ \/ frames[i].sample = 0 /\ (i > 1 => frames[i - 1].start < frames[i].start)
           \/ /\ i > 1
              /\ frames[i - 1].start = frames[i].start
              /\ frames[i - 1].sample = frames[i].sample - 1
SentExact ==
    Exact(stream, opened, prepared) /\ Exact(Sent, opened, prepared)

\* These frames end where the given sample of the given acquisition begins.
Precede(frames, start, sample) ==
    \/ sample = 0 /\ (frames # <<>> => frames[Len(frames)].start < start)
    \/ /\ frames # <<>>
       /\ frames[Len(frames)].start = start
       /\ frames[Len(frames)].sample = sample - 1

\* The next frame of the ring is the one to follow what was sent, as long as
\* a read may still take it for this client.
Wanted == activeSession = Client /\ (connected \/ Busy)
Expected ==
    Wanted /\ Alive => opened < starts /\ Precede(Sent, starts, samples - count)

IInv ==
    /\ ScopeTypes /\ LinkTypes /\ ReaderTypes
    /\ LayoutTold /\ QueueSound
    /\ SessionsForward /\ AdoptsClean /\ ReadsForClient /\ ReadsUnreset
    /\ SentExact /\ Expected
----------------------------------------------------------------------------
(* Arithmetic of the ring: a position is a slot times the stride, plus an  *)
(* offset inside the frame.                                                *)

LEMMA TimesMonotone ==
  ASSUME NEW a \in Nat, NEW b \in Nat, NEW c \in Nat, a <= b
  PROVE  a * c <= b * c /\ a * c \in Nat /\ b * c \in Nat
<1>1. PICK d \in Nat : b = a + d
  BY b - a \in Nat
<1>2. b * c = a * c + d * c /\ d * c \in Nat /\ a * c \in Nat
  BY <1>1
<1>. QED
  BY <1>2

(* Two slots never share a byte, and one slot no byte twice.               *)
LEMMA SlotsApart ==
  ASSUME NEW a \in Nat, NEW b \in Nat, NEW c \in Nat \ {0},
         NEW i \in 0 .. c - 1, NEW j \in 0 .. c - 1, a * c + i = b * c + j
  PROVE  a = b /\ i = j
<1>1. ASSUME NEW x \in Nat, NEW y \in Nat, x < y, NEW n \in 0 .. c - 1, NEW m \in 0 .. c - 1
      PROVE  x * c + n < y * c + m
  <2>1. (x + 1) * c <= y * c /\ x * c \in Nat /\ y * c \in Nat
    BY <1>1, TimesMonotone
  <2>2. (x + 1) * c = x * c + c
    OBVIOUS
  <2>. QED
    BY <2>1, <2>2
<1>2. ~ (a < b)
  BY <1>1, TimesMonotone
<1>3. ~ (b < a)
  BY <1>1, TimesMonotone
<1>4. a = b
  BY <1>2, <1>3
<1>. QED
  BY <1>4, TimesMonotone

(* The number of slots of a ring of k strides is k.                        *)
LEMMA WholeStrides ==
  ASSUME NEW k \in Nat, NEW c \in Nat \ {0}
  PROVE  (k * c) \div c = k
  BY SMT

(* A slot lies inside the ring, and stepping over it wraps at the limit.   *)
LEMMA NextSlot ==
  ASSUME NEW k \in Nat, NEW h \in Nat, h < k, NEW c \in Nat \ {0}
  PROVE  /\ h * c \in Nat /\ k * c \in Nat /\ h * c + c <= k * c
         /\ h * c + c = (h + 1) * c
         /\ (h * c + c = k * c) <=> (h + 1 = k)
<1>1. h * c + c = (h + 1) * c
  OBVIOUS
<1>2. (h + 1) * c <= k * c /\ h * c \in Nat /\ k * c \in Nat
  BY TimesMonotone
<1>3. ASSUME h + 1 < k PROVE (h + 1) * c + c <= k * c
  <2>1. (h + 2) * c <= k * c
    BY <1>3, TimesMonotone
  <2>2. (h + 2) * c = (h + 1) * c + c
    OBVIOUS
  <2>. QED
    BY <2>1, <2>2
<1>4. h + 1 = k => h * c + c = k * c
  BY <1>1
<1>5. h + 1 # k => h * c + c # k * c
  BY <1>1, <1>2, <1>3
<1>. QED
  BY <1>1, <1>2, <1>4, <1>5

(* The slots of the queued frames are slots of the ring, all different.    *)
LEMMA SlotFacts ==
  ASSUME NEW h \in Nat, NEW k \in Nat, h < k, NEW j \in 0 .. k
  PROVE  /\ Slot(h, k, j) \in 0 .. k - 1
         /\ Slot(h, k, 0) = h
         /\ \A i \in 0 .. k - 1 : Slot(h, k, i) = Slot(h, k, j) => i = j \/ (i = 0 /\ j = k)
         /\ Slot(Slot(h, k, 1), k, 0) = Slot(h, k, 1)
         /\ j > 0 => Slot(h, k, j) = Slot(Slot(h, k, 1), k, j - 1)
         /\ j < k => Slot(h, k, j + 1) = IF Slot(h, k, j) + 1 = k THEN 0 ELSE Slot(h, k, j) + 1
  BY DEF Slot
----------------------------------------------------------------------------
(* The steps of manage() are told apart by where it is.                    *)

(* What manage() has read is there at the places that use it.              *)
LEMMA ManagerFacts ==
  ASSUME manager \in Managers
  PROVE  /\ At("look") \/ At("orphan") \/ At("adopt") =>
              /\ manager.seen \in Nat
              /\ \A p \in {"look", "orphan", "adopt"} :
                    [manager EXCEPT !.at = p] = [at |-> p, seen |-> manager.seen]
         /\ At("serve") \/ At("process") \/ At("stopLink") \/ At("stopQueue") =>
              /\ manager.left \in Nat
              /\ \A p \in {"process", "stopLink", "stopQueue"} :
                    [manager EXCEPT !.at = p] = [at |-> p, left |-> manager.left]
<1>1. CASE manager \in [at : {"idle"}]
  BY <1>1 DEF At
<1>2. CASE manager \in [at : {"look", "orphan", "adopt"}, seen : Nat]
  BY <1>2 DEF At
<1>3. CASE manager \in [at : {"serve", "process", "stopLink", "stopQueue"}, left : Nat]
  BY <1>3 DEF At
<1>. QED
  BY <1>1, <1>2, <1>3 DEF Managers


(* The places manage() moves between, as values of its record.             *)
LEMMA ManagersBuilt ==
  /\ Idle \in Managers
  /\ \A n \in Nat : \A p \in {"look", "orphan", "adopt"} : [at |-> p, seen |-> n] \in Managers
  /\ \A n \in Nat : \A p \in {"serve", "process", "stopLink", "stopQueue"} :
        [at |-> p, left |-> n] \in Managers
<1>1. Idle \in Managers
  BY DEF Idle, Managers
<1>2. ASSUME NEW n \in Nat, NEW p \in {"look", "orphan", "adopt"}
      PROVE  [at |-> p, seen |-> n] \in Managers
  BY DEF Managers
<1>3. ASSUME NEW n \in Nat, NEW p \in {"serve", "process", "stopLink", "stopQueue"}
      PROVE  [at |-> p, left |-> n] \in Managers
  BY DEF Managers
<1>. QED
  BY <1>1, <1>2, <1>3

(* What a read has noted and collected is there at the places that use it. *)
LEMMA ReaderFacts ==
  ASSUME reader \in Readers
  PROVE  /\ Reading("link") =>
              [reader EXCEPT !.at = "session"]
                = [at |-> "session", for |-> reader.for, left |-> reader.left]
         /\ Busy => reader.for \in Nat /\ reader.left \in Nat
         /\ Reading("loadActive") \/ Reading("loadSession") => reader.seen \in Nat
         /\ Collecting => reader.frames \in Seq(Frames)
         /\ Collecting => \A p \in {"loop", "check", "stage"} :
              [reader EXCEPT !.at = p]
                = [at |-> p, for |-> reader.for, left |-> reader.left, frames |-> reader.frames]
<1>1. CASE reader \in [at : {"idle", "accept"}]
  BY <1>1 DEF Reading, Collecting, Busy
<1>2. CASE reader \in [at : {"link", "session"}, for : Nat, left : Nat]
  BY <1>2 DEF Reading, Collecting, Busy
<1>3. CASE reader \in [at : {"loadActive", "loadSession"}, for : Nat, left : Nat, seen : Nat]
  BY <1>3 DEF Reading, Collecting, Busy
<1>4. CASE reader \in [at : {"loop", "check", "stage"}, for : Nat, left : Nat,
                       frames : Seq(Frames)]
  BY <1>4 DEF Reading, Collecting, Busy
<1>. QED
  BY <1>1, <1>2, <1>3, <1>4 DEF Readers

(* The places a read moves between, as values of its record.               *)
LEMMA ReadersBuilt ==
  /\ Idle \in Readers /\ [at |-> "accept"] \in Readers
  /\ \A n, m \in Nat : \A p \in {"link", "session"} :
        [at |-> p, for |-> n, left |-> m] \in Readers
  /\ \A n, m, s \in Nat : \A p \in {"loadActive", "loadSession"} :
        [at |-> p, for |-> n, left |-> m, seen |-> s] \in Readers
  /\ \A n, m \in Nat, f \in Seq(Frames) : \A p \in {"loop", "check", "stage"} :
        [at |-> p, for |-> n, left |-> m, frames |-> f] \in Readers
<1>1. Idle \in Readers /\ [at |-> "accept"] \in Readers
  BY DEF Idle, Readers
<1>2. ASSUME NEW n \in Nat, NEW m \in Nat, NEW p \in {"link", "session"}
      PROVE  [at |-> p, for |-> n, left |-> m] \in Readers
  BY DEF Readers
<1>3. ASSUME NEW n \in Nat, NEW m \in Nat, NEW s \in Nat, NEW p \in {"loadActive", "loadSession"}
      PROVE  [at |-> p, for |-> n, left |-> m, seen |-> s] \in Readers
  BY DEF Readers
<1>4. ASSUME NEW n \in Nat, NEW m \in Nat, NEW f \in Seq(Frames),
             NEW p \in {"loop", "check", "stage"}
      PROVE  [at |-> p, for |-> n, left |-> m, frames |-> f] \in Readers
  BY DEF Readers
<1>. QED
  BY <1>1, <1>2, <1>3, <1>4

(* The number of acquisitions follows the list of their layouts.           *)
LEMMA StartsFacts ==
  ASSUME ScopeTypes
  PROVE  /\ starts \in Nat
         /\ DOMAIN prepared = 1 .. starts
         /\ Append(prepared, layout) \in Seq(Banks)
         /\ Len(Append(prepared, layout)) = starts + 1
         /\ Append(prepared, layout)[starts + 1] = layout
<1>1. prepared \in Seq(Banks) /\ layout \in Banks
  BY Zenon DEF ScopeTypes
<1>. QED
  BY <1>1, LenProperties, AppendProperties DEF starts

(* The steps of the link task that leave the queue alone.                  *)
ReaderStep ==
    \/ \E room \in Rooms : ReadBegin(room)
    \/ ReadLink \/ ReadSession \/ ReadCompare \/ ReadEnd
    \/ LinkCheck \/ LinkStage \/ AcceptCheck

\* The steps of the port that accept and lose peers.
Port == PeerLost \/ LinkDown \/ Teardown \/ AcceptPeer

\* What the service and its reads see of the link.
OfLink == <<session, connected, opened>>

(* Leaving the acquisition and the bank alone is what most steps do.       *)
OfScope == <<scope, layout, prepared, starts>>

(* What each step does to the acquisition: the interrupt publishes a frame *)
(* or stops on a full queue, a read pops one, manage() stops, edits, swaps *)
(* or starts, and nothing else touches it.                                 *)
LEMMA ScopeSteps ==
  ASSUME [Next]_vars
  PROVE  \/ Overflow /\ UNCHANGED <<layout, prepared, starts>>
         \/ Publish /\ UNCHANGED <<layout, prepared, starts>>
         \/ ReadPop /\ UNCHANGED <<layout, prepared, starts>>
         \/ Stopped /\ UNCHANGED <<layout, prepared, starts>>
         \/ (ServeClear \/ ServeSet) /\ UNCHANGED <<layout, prepared, starts>>
         \/ ServeSwap /\ UNCHANGED <<prepared, starts>>
         \/ ServeStart
         \/ UNCHANGED OfScope
<1>1. CASE Sample
  BY <1>1 DEF Sample, starts
<1>2. CASE ReadPop
  BY <1>2 DEF ReadPop, starts
<1>3. CASE Port \/ Request
  BY <1>3 DEF Port, PeerLost, LinkDown, Teardown, AcceptPeer, Request, OfScope, starts
<1>4. CASE ManageBegin \/ ManageLook \/ ManageAdopt \/ ManageTake \/ ServeQuery
  BY <1>4 DEF ManageBegin, ManageLook, ManageAdopt, ManageTake, ServeQuery, OfScope, starts
<1>5. CASE ServeStop \/ ServeStopSession
  BY <1>5 DEF ServeStop, ServeStopSession, OfScope, starts
<1>6. CASE ManageOrphan \/ ServeStopQueue
  BY <1>6 DEF ManageOrphan, ServeStopQueue, starts
<1>7. CASE UNCHANGED vars
  BY <1>7 DEF vars, OfScope, starts
<1>8. CASE ReaderStep
  BY <1>8 DEF ReaderStep, ReadBegin, ReadLink, ReadSession, ReadCompare, ReadEnd,
              LinkCheck, LinkStage, AcceptCheck, OfScope, starts
<1>9. CASE ServeClear \/ ServeSet \/ ServeSwap
  BY <1>9 DEF ServeClear, ServeSet, ServeSwap, starts
<1>. QED
  BY <1>1, <1>2, <1>3, <1>4, <1>5, <1>6, <1>7, <1>8, <1>9
     DEF Next, Manage, Pass, ReaderStep, Port
----------------------------------------------------------------------------
(* The ring.                                                               *)

(* What a live acquisition leaves to read off its invariant: a stride, a   *)
(* ring of k slots read from h, and the queued frames in it.               *)
LEMMA AliveFacts ==
  ASSUME IInv, Alive
  PROVE  /\ frameSize \in Nat /\ frameSize >= 5 /\ frameSize = FrameSize(layout)
         /\ frameSize = FrameSize(active)
         /\ count \in Nat /\ samples \in Nat /\ count <= samples
         /\ \E h, k \in 0 .. Capacity :
              /\ Geometry(h, k) /\ Contents(h, k) /\ QueueFrames = k
              /\ h \in Nat /\ k \in Nat
<1>1. ScopeTypes /\ LayoutTold /\ QueueSound
  BY DEF IInv
<1>2. /\ frameSize \in Nat /\ frameSize = FrameSize(layout) /\ layout \in Banks
      /\ count \in Nat /\ samples \in Nat /\ count <= samples /\ layout = active
  BY <1>1 DEF ScopeTypes, QueueSound, LayoutTold
<1>3. frameSize >= 5
  BY <1>2, FrameSizeNat
<1>4. PICK h, k \in 0 .. Capacity : Geometry(h, k) /\ Contents(h, k)
  BY <1>1 DEF QueueSound
<1>5. h \in Nat /\ k \in Nat
  BY <1>4, ScopeAssumption DEF ScopeAssumption
<1>6. QueueFrames = k
  <2>1. queueLimit = k * frameSize
    BY <1>4 DEF Geometry
  <2>. QED
    BY <1>2, <1>3, <1>5, <2>1, WholeStrides DEF QueueFrames
<1>. QED
  BY <1>2, <1>3, <1>4, <1>5, <1>6

(* The bytes service_read copies are one whole frame, the oldest queued,   *)
(* laid out as the client was told.                                        *)
LEMMA PoppedIsOldest ==
  ASSUME IInv, count # 0
  PROVE  Popped = FrameOf(samples - count)
<1>1. Alive
  BY DEF Alive
<1>2. PICK h, k \in 0 .. Capacity :
        /\ Geometry(h, k) /\ Contents(h, k) /\ h \in Nat /\ k \in Nat
  BY <1>1, AliveFacts
<1>3. /\ frameSize \in Nat /\ frameSize >= 5 /\ frameSize = FrameSize(layout)
      /\ count \in Nat /\ samples \in Nat /\ count <= samples
  BY <1>1, AliveFacts
<1>4. head = h * frameSize /\ count <= k /\ h < k
  BY <1>2, <1>3 DEF Geometry
<1>5. Slot(h, k, 0) = h
  BY <1>2, <1>4, SlotFacts
<1>. DEFINE oldest == FrameOf(samples - count)
<1>6. Holds(h, oldest)
  <2>1. 0 \in 0 .. count - 1
    BY <1>3
  <2>2. Holds(Slot(h, k, 0), FrameOf(samples - count + 0))
    BY <1>2, <2>1 DEF Contents
  <2>3. samples - count + 0 = samples - count
    BY <1>3
  <2>. QED
    BY <1>5, <2>2, <2>3
<1>7. oldest.layout = layout
  BY DEF FrameOf
<1>. HIDE DEF oldest
<1>. DEFINE bytes == [i \in 0 .. frameSize - 1 |-> ring[head + i]]
<1>8. DOMAIN bytes = 0 .. frameSize - 1 /\ 0 \in 0 .. frameSize - 1
  BY <1>3
<1>9. \A i \in 0 .. frameSize - 1 : bytes[i] = [frame |-> oldest, at |-> i]
  BY <1>4, <1>6 DEF Holds
<1>10. bytes[0].frame = oldest
  <2>1. bytes[0] = [frame |-> oldest, at |-> 0]
    BY <1>8, <1>9
  <2>2. [frame |-> oldest, at |-> 0].frame = oldest
    OBVIOUS
  <2>. HIDE DEF bytes
  <2>. QED
    BY <2>1, <2>2
<1>11. Popped = IF /\ frameSize = FrameSize(bytes[0].frame.layout)
                   /\ \A i \in DOMAIN bytes :
                         bytes[i] = [frame |-> bytes[0].frame, at |-> i]
                THEN bytes[0].frame ELSE Garbage
  BY DEF Popped
<1>. HIDE DEF bytes
<1>. QED
  BY <1>3, <1>7, <1>8, <1>9, <1>10, <1>11 DEF oldest

(* Sampling writes its frame into the slot at tail and no other slot.      *)
LEMMA SampledFacts ==
  ASSUME ScopeTypes, frameSize = FrameSize(active), layout = active,
         frameSize >= 5, NEW k \in Nat, k * frameSize <= Capacity,
         NEW t \in 0 .. k - 1, tail = t * frameSize
  PROVE  /\ Sampled = [i \in 0 .. Capacity - 1 |-> Sampled[i]]
         /\ \A i \in 0 .. frameSize - 1 :
               Sampled[t * frameSize + i] = [frame |-> FrameOf(samples), at |-> i]
         /\ \A s \in 0 .. k - 1 : s # t => \A i \in 0 .. frameSize - 1 :
               Sampled[s * frameSize + i] = ring[s * frameSize + i]
<1>1. frameSize \in Nat \ {0} /\ Capacity \in Nat
  BY ScopeAssumption DEF ScopeTypes, ScopeAssumption
<1>2. DOMAIN ring = 0 .. Capacity - 1
  BY DEF ScopeTypes
<1>3. Sampled = [i \in 0 .. Capacity - 1 |->
                   IF i \in tail .. tail + frameSize - 1
                   THEN [frame |-> FrameOf(samples), at |-> i - tail] ELSE ring[i]]
  BY <1>2 DEF Sampled, FrameOf
<1>4. ASSUME NEW s \in 0 .. k - 1, NEW i \in 0 .. frameSize - 1
      PROVE  /\ s * frameSize + i \in 0 .. Capacity - 1
             /\ s * frameSize \in Nat
  <2>1. s * frameSize \in Nat /\ s * frameSize + frameSize <= k * frameSize /\ k * frameSize \in Nat
    BY <1>1, NextSlot
  <2>. QED
    BY <1>1, <2>1
<1>5. ASSUME NEW i \in 0 .. frameSize - 1
      PROVE  Sampled[t * frameSize + i] = [frame |-> FrameOf(samples), at |-> i]
  <2>1. t * frameSize + i \in 0 .. Capacity - 1 /\ t * frameSize \in Nat
    BY <1>4
  <2>2. t * frameSize + i \in tail .. tail + frameSize - 1 /\ t * frameSize + i - tail = i
    BY <1>1, <2>1
  <2>. QED
    BY <1>3, <2>1, <2>2
<1>6. ASSUME NEW s \in 0 .. k - 1, s # t, NEW i \in 0 .. frameSize - 1
      PROVE  Sampled[s * frameSize + i] = ring[s * frameSize + i]
  <2>1. s * frameSize + i \in 0 .. Capacity - 1 /\ s * frameSize \in Nat
    BY <1>4
  <2>2. ASSUME s * frameSize + i \in tail .. tail + frameSize - 1 PROVE FALSE
    <3>1. t * frameSize \in Nat
      BY <1>1, <1>4
    <3>. DEFINE j == s * frameSize + i - t * frameSize
    <3>2. j \in 0 .. frameSize - 1 /\ s * frameSize + i = t * frameSize + j
      BY <1>1, <2>1, <2>2, <3>1
    <3>. HIDE DEF j
    <3>3. s = t
      <4>1. s \in Nat /\ t \in Nat /\ frameSize \in Nat \ {0}
        BY <1>1, <1>6
      <4>. QED
        BY <1>6, <3>2, <4>1, SlotsApart
    <3>. QED
      BY <1>6, <3>3
  <2>. QED
    BY <1>3, <2>1, <2>2
<1>. QED
  BY <1>3, <1>5, <1>6
(* Publishing: the frame of this sample joins the queued ones behind the   *)
(* last of them.                                                           *)
LEMMA PublishQueue ==
  ASSUME IInv, Publish, UNCHANGED <<layout, prepared, starts>>
  PROVE  QueueSound'
<1>1. Alive
  BY DEF Publish, Alive
<1>2. PICK h, k \in 0 .. Capacity :
        Geometry(h, k) /\ Contents(h, k) /\ QueueFrames = k /\ h \in Nat /\ k \in Nat
  BY <1>1, AliveFacts
<1>3. /\ frameSize \in Nat /\ frameSize >= 5 /\ frameSize = FrameSize(layout)
      /\ frameSize = FrameSize(active)
      /\ count \in Nat /\ samples \in Nat /\ count <= samples
  BY <1>1, AliveFacts
<1>4. ScopeTypes /\ layout = active
  BY DEF IInv, LayoutTold
<1>5. count < k /\ h < k
  BY <1>2, <1>3 DEF Publish, Full, Geometry
<1>. DEFINE t == Slot(h, k, count)
<1>6. t \in 0 .. k - 1 /\ tail = t * frameSize /\ queueLimit = k * frameSize
      /\ k * frameSize <= Capacity /\ running
  BY <1>2, <1>3, <1>5, SlotFacts DEF Publish, Geometry
<1>7. /\ ring' = Sampled /\ tail' = Wrapped(tail + frameSize) /\ count' = count + 1
      /\ samples' = samples + 1
      /\ UNCHANGED <<frameSize, queueLimit, head, running, layout, starts>>
  BY DEF Publish
<1>8. \A j \in 0 .. count : Slot(h, k, j) \in 0 .. k - 1 /\ (j # count => Slot(h, k, j) # t)
  BY <1>2, <1>3, <1>5 DEF Slot
<1>9. Slot(h, k, count + 1) = IF t + 1 = k THEN 0 ELSE t + 1
  BY <1>2, <1>3, <1>5, SlotFacts
<1>. HIDE DEF t
<1>10. /\ \A i \in 0 .. frameSize - 1 :
             Sampled[t * frameSize + i] = [frame |-> FrameOf(samples), at |-> i]
       /\ \A s \in 0 .. k - 1 : s # t => \A i \in 0 .. frameSize - 1 :
             Sampled[s * frameSize + i] = ring[s * frameSize + i]
  BY <1>2, <1>3, <1>4, <1>6, SampledFacts
<1>11. tail' = Slot(h, k, count + 1) * frameSize
  <2>1. /\ t * frameSize + frameSize = (t + 1) * frameSize
        /\ (t * frameSize + frameSize = k * frameSize) <=> (t + 1 = k)
    <3>1. t \in Nat /\ t < k /\ frameSize \in Nat \ {0}
      BY <1>3, <1>6
    <3>. QED
      BY <1>2, <3>1, NextSlot
  <2>2. 0 * frameSize = 0
    BY <1>3
  <2>. QED
    BY <1>6, <1>7, <1>9, <2>1, <2>2 DEF Wrapped
<1>12. Geometry(h, k)'
  BY <1>2, <1>3, <1>5, <1>7, <1>11 DEF Geometry
<1>13. Contents(h, k)'
  <2>. SUFFICES ASSUME NEW j \in 0 .. count, NEW i \in 0 .. frameSize - 1
                PROVE  ring'[Slot(h, k, j) * frameSize + i]
                         = [frame |-> FrameOf(samples - count + j)', at |-> i]
    BY <1>3, <1>7 DEF Contents, Holds
  <2>1. samples' - count' + j = samples - count + j
    BY <1>3, <1>7
  <2>2. FrameOf(samples - count + j)' = FrameOf(samples - count + j)
    BY <1>7, <2>1 DEF FrameOf
  <2>3. CASE j = count
    <3>1. samples - count + j = samples
      BY <1>3, <2>3
    <3>. QED
      BY <1>7, <1>10, <2>2, <2>3, <3>1 DEF t
  <2>4. CASE j # count
    <3>1. j \in 0 .. count - 1
      BY <1>3, <2>4
    <3>2. ring[Slot(h, k, j) * frameSize + i]
            = [frame |-> FrameOf(samples - count + j), at |-> i]
      BY <1>2, <3>1 DEF Contents, Holds
    <3>. QED
      BY <1>7, <1>8, <1>10, <2>2, <2>4, <3>2
  <2>. QED
    BY <2>3, <2>4
<1>. QED
  BY <1>2, <1>3, <1>7, <1>12, <1>13 DEF QueueSound

(* Popping: the queue loses its oldest frame and keeps the others.         *)
LEMMA ReadQueue ==
  ASSUME IInv, ReadPop, UNCHANGED <<layout, prepared, starts>>
  PROVE  QueueSound'
<1>1. Alive
  BY DEF ReadPop, Alive
<1>2. PICK h, k \in 0 .. Capacity :
        Geometry(h, k) /\ Contents(h, k) /\ QueueFrames = k /\ h \in Nat /\ k \in Nat
  BY <1>1, AliveFacts
<1>3. /\ frameSize \in Nat /\ frameSize >= 5 /\ frameSize = FrameSize(layout)
      /\ count \in Nat /\ samples \in Nat /\ count <= samples
  BY <1>1, AliveFacts
<1>4. /\ count # 0 /\ head' = Wrapped(head + frameSize) /\ count' = count - 1
      /\ UNCHANGED <<ring, frameSize, queueLimit, tail, running, samples, layout, starts>>
  BY DEF ReadPop, Pop
<1>5. count <= k /\ h < k /\ head = h * frameSize /\ queueLimit = k * frameSize
      /\ queueLimit <= Capacity /\ (running => tail = Slot(h, k, count) * frameSize)
  BY <1>2, <1>3, <1>4 DEF Geometry
<1>. DEFINE n == Slot(h, k, 1)
<1>6. n \in 0 .. k - 1 /\ n = IF h + 1 = k THEN 0 ELSE h + 1
  BY <1>2, <1>5 DEF Slot
<1>7. \A j \in 1 .. count : Slot(h, k, j) = Slot(n, k, j - 1)
  BY <1>2, <1>3, <1>5, SlotFacts
<1>8. n \in 0 .. Capacity /\ n < k /\ n \in Nat
  BY <1>2, <1>6, ScopeAssumption DEF ScopeAssumption
<1>. HIDE DEF n
<1>9. head' = n * frameSize
  <2>1. /\ h * frameSize + frameSize = (h + 1) * frameSize
        /\ (h * frameSize + frameSize = k * frameSize) <=> (h + 1 = k)
    <3>1. frameSize \in Nat \ {0}
      BY <1>3
    <3>. QED
      BY <1>2, <1>5, <3>1, NextSlot
  <2>2. 0 * frameSize = 0
    BY <1>3
  <2>. QED
    BY <1>4, <1>5, <1>6, <2>1, <2>2 DEF Wrapped
<1>10. Geometry(n, k)'
  <2>1. running => tail' = Slot(n, k, count - 1) * frameSize
    BY <1>3, <1>4, <1>5, <1>7
  <2>. QED
    BY <1>3, <1>4, <1>5, <1>8, <1>9, <2>1 DEF Geometry
<1>11. Contents(n, k)'
  <2>. SUFFICES ASSUME NEW j \in 0 .. count - 2, NEW i \in 0 .. frameSize - 1
                PROVE  ring'[Slot(n, k, j) * frameSize + i]
                         = [frame |-> FrameOf(samples - count + j)', at |-> i]
    BY <1>3, <1>4 DEF Contents, Holds
  <2>1. samples' - count' + j = samples - count + (j + 1)
    BY <1>3, <1>4
  <2>2. FrameOf(samples - count + j)' = FrameOf(samples - count + (j + 1))
    BY <1>4, <2>1 DEF FrameOf
  <2>3. Slot(h, k, j + 1) = Slot(n, k, j)
    <3>1. j + 1 \in 1 .. count /\ (j + 1) - 1 = j
      BY <1>3
    <3>. QED
      BY <1>7, <3>1
  <2>4. Holds(Slot(n, k, j), FrameOf(samples - count + (j + 1)))
    <3>1. j + 1 \in 0 .. count - 1
      BY <1>3
    <3>. QED
      BY <1>2, <2>3, <3>1 DEF Contents
  <2>. QED
    BY <1>4, <2>2, <2>4 DEF Holds
<1>. QED
  BY <1>3, <1>4, <1>8, <1>2, <1>10, <1>11 DEF QueueSound

(* Starting: an empty ring of as many whole frames as fit.                 *)
LEMMA StartQueue ==
  ASSUME IInv, Started, count = 0, UNCHANGED layout
  PROVE  QueueSound'
<1>1. ScopeTypes /\ layout = active
  BY DEF IInv, LayoutTold
<1>. DEFINE size == FrameSize(active)
<1>2. /\ samples' = 0 /\ frameSize' = size /\ queueLimit' = (Capacity \div size) * size
      /\ head' = 0 /\ tail' = 0 /\ running' /\ count' = 0
  BY DEF Started
<1>3. size \in Nat /\ size >= 5 /\ Capacity \in Nat
  BY <1>1, FrameSizeNat, ScopeAssumption DEF ScopeTypes, ScopeAssumption
<1>4. size = FrameSize(layout')
  BY <1>1
<1>. HIDE DEF size
<1>5. PICK k \in 0 .. Capacity : k = Capacity \div size /\ k * size <= Capacity
  <2>1. Capacity \div size \in 0 .. Capacity /\ (Capacity \div size) * size <= Capacity
    BY <1>3, SMT
  <2>. QED
    BY <2>1
<1>6. 0 \in 0 .. Capacity /\ Slot(0, k, 0) = 0 /\ 0 * size = 0 /\ k \in Nat
  BY <1>3, <1>5 DEF Slot
<1>7. Geometry(0, k)'
  <2>1. Slot(0, k, count') * frameSize' = 0
    BY <1>2, <1>6
  <2>2. queueLimit' = k * frameSize' /\ queueLimit' <= Capacity /\ head' = 0 * frameSize'
        /\ count' <= k
    BY <1>2, <1>5, <1>6
  <2>. QED
    BY <1>2, <2>1, <2>2 DEF Geometry
<1>8. Contents(0, k)'
  BY <1>2 DEF Contents
<1>. QED
  <2>1. frameSize' = FrameSize(layout') /\ count' <= samples'
    BY <1>2, <1>4
  <2>2. \E h1, k1 \in 0 .. Capacity : Geometry(h1, k1)' /\ Contents(h1, k1)'
    BY <1>5, <1>6, <1>7, <1>8
  <2>. QED
    BY <2>1, <2>2 DEF QueueSound

(* The ring survives every step: what stops, swaps or edits leaves it be.  *)
LEMMA QueueStep ==
  ASSUME IInv, [Next]_vars
  PROVE  QueueSound'
<1>1. QueueSound /\ ScopeTypes
  BY DEF IInv
<1>2. ASSUME UNCHANGED <<ring, frameSize, queueLimit, head, tail, count, samples,
                         layout, starts>>,
             running' => running
      PROVE  QueueSound'
  <2>1. Alive' => Alive
    BY <1>2 DEF Alive
  <2>2. \A h, k \in 0 .. Capacity :
          Geometry(h, k) /\ Contents(h, k) => Geometry(h, k)' /\ Contents(h, k)'
    BY <1>2 DEF Geometry, Contents, Holds, FrameOf
  <2>. QED
    BY <1>1, <1>2, <2>1, <2>2 DEF QueueSound
<1>3. CASE Overflow /\ UNCHANGED <<layout, prepared, starts>>
  BY <1>2, <1>3 DEF Overflow
<1>4. CASE Publish /\ UNCHANGED <<layout, prepared, starts>>
  BY <1>4, PublishQueue
<1>5. CASE ReadPop /\ UNCHANGED <<layout, prepared, starts>>
  BY <1>5, ReadQueue
<1>6. CASE Stopped
  BY <1>6 DEF Stopped, QueueSound, Alive
<1>7. CASE (ServeClear \/ ServeSet) /\ UNCHANGED <<layout, prepared, starts>>
  BY <1>2, <1>7 DEF ServeClear, ServeSet, Edited
<1>8. CASE ServeSwap /\ UNCHANGED <<prepared, starts>>
  <2>1. CASE Swappable
    BY <1>8, <2>1 DEF ServeSwap, Swappable, QueueSound, Alive
  <2>2. CASE ~Swappable
    BY <1>2, <1>8, <2>2 DEF ServeSwap
  <2>. QED
    BY <2>1, <2>2
<1>9. CASE ServeStart
  <2>1. CASE Affordable /\ Startable
    BY <1>9, <2>1, StartQueue DEF ServeStart, Startable
  <2>2. CASE ~ (Affordable /\ Startable)
    BY <1>2, <1>9, <2>2 DEF ServeStart, scope, starts
  <2>. QED
    BY <2>1, <2>2
<1>10. CASE UNCHANGED OfScope
  BY <1>2, <1>10 DEF OfScope, scope
<1>. QED
  BY <1>3, <1>4, <1>5, <1>6, <1>7, <1>8, <1>9, <1>10, ScopeSteps
----------------------------------------------------------------------------
(* Types.                                                                  *)

LEMMA ScopeTypesStep ==
  ASSUME IInv, [Next]_vars
  PROVE  ScopeTypes'
<1>1. ScopeTypes
  BY DEF IInv
<1>2. active \in Banks /\ config \in Banks
  BY <1>1 DEF ScopeTypes
<1>3. CASE Overflow /\ UNCHANGED <<layout, prepared, starts>>
  BY <1>1, <1>3 DEF Overflow, ScopeTypes
<1>4. CASE Publish /\ UNCHANGED <<layout, prepared, starts>>
  <2>1. Alive
    BY <1>4 DEF Publish, Alive
  <2>2. frameSize = FrameSize(active)
    BY <2>1, AliveFacts
  <2>3. ring' = [i \in 0 .. Capacity - 1 |-> ring'[i]]
    BY <1>1, <1>4 DEF Publish, Sampled, ScopeTypes
  <2>4. tail' \in Nat /\ count' \in Nat /\ samples' \in Nat
    BY <1>1, <1>4 DEF Publish, ScopeTypes, Wrapped
  <2>. QED
    BY <1>1, <1>4, <2>3, <2>4 DEF Publish, ScopeTypes
<1>5. CASE ReadPop /\ UNCHANGED <<layout, prepared, starts>>
  <2>1. head' \in Nat /\ count' \in Nat
    BY <1>1, <1>5 DEF ReadPop, Pop, ScopeTypes, Wrapped
  <2>. QED
    BY <1>1, <1>5, <2>1 DEF ReadPop, Pop, ScopeTypes
<1>6. CASE Stopped /\ UNCHANGED <<layout, prepared, starts>>
  BY <1>1, <1>6 DEF Stopped, ScopeTypes
<1>7. ASSUME NEW bank \in Banks, Edited(bank), UNCHANGED <<layout, prepared, starts>>
      PROVE  ScopeTypes'
  BY <1>1, <1>2, <1>7 DEF Edited, ScopeTypes
<1>8. CASE (ServeClear \/ ServeSet) /\ UNCHANGED <<layout, prepared, starts>>
  <2>1. CASE ServeClear
    BY <1>7, <1>8, <2>1, BanksAreNat DEF ServeClear
  <2>2. CASE ServeSet
    <3>1. PICK channel \in Channels, width \in Widths \cup {0} :
            Edited([config EXCEPT ![channel] = width])
      BY <2>2 DEF ServeSet
    <3>2. [config EXCEPT ![channel] = width] \in Banks
      BY <1>2 DEF Banks
    <3>. QED
      BY <1>7, <1>8, <3>1, <3>2
  <2>. QED
    BY <1>8, <2>1, <2>2
<1>9. CASE ServeSwap
  BY <1>1, <1>2, <1>9 DEF ServeSwap, ScopeTypes
<1>10. CASE ServeStart
  <2>1. CASE Affordable /\ Startable
    <3>. DEFINE size == FrameSize(active)
    <3>1. Started /\ prepared' = Append(prepared, layout) /\ UNCHANGED layout
      BY <1>10, <2>1 DEF ServeStart
    <3>2. size \in Nat /\ size >= 5 /\ Capacity \in Nat
      BY <1>2, FrameSizeNat, ScopeAssumption DEF ScopeAssumption
    <3>3. frameSize' = size /\ queueLimit' = (Capacity \div size) * size
          /\ samples' = 0 /\ head' = 0 /\ tail' = 0 /\ running' = TRUE
          /\ UNCHANGED <<active, config, ring, count>>
      BY <3>1 DEF Started
    <3>. HIDE DEF size
    <3>4. (Capacity \div size) * size \in Nat
      BY <3>2, SMT
    <3>5. prepared' \in Seq(Banks)
      BY <1>1, <3>1, StartsFacts
    <3>. QED
      BY <1>1, <3>1, <3>2, <3>3, <3>4, <3>5 DEF ScopeTypes
  <2>2. CASE ~ (Affordable /\ Startable)
    BY <1>1, <1>10, <2>2 DEF ServeStart, scope, ScopeTypes
  <2>. QED
    BY <2>1, <2>2
<1>11. CASE UNCHANGED OfScope
  BY <1>1, <1>11 DEF OfScope, scope, ScopeTypes
<1>. QED
  BY <1>3, <1>4, <1>5, <1>6, <1>8, <1>9, <1>10, <1>11, ScopeSteps

(* The frames of an acquisition are typed.                                 *)
LEMMA FrameOfType ==
  ASSUME ScopeTypes, NEW n \in Nat
  PROVE  FrameOf(n) \in Frames
<1>1. n % IndexMod \in Nat
  BY ScopeAssumption DEF ScopeAssumption
<1>2. starts \in Nat /\ layout \in Banks
  BY StartsFacts, Zenon DEF ScopeTypes
<1>. QED
  BY <1>1, <1>2 DEF FrameOf, Frames

(* The steps of the link task and of the peers leave manage() alone.       *)
LEMMA ReaderStepFrame ==
  ASSUME ReaderStep
  PROVE  UNCHANGED <<scope, requests, activeSession, manager, OfLink, layout, prepared>>
<1>1. CASE \E room \in Rooms : ReadBegin(room)
  BY <1>1 DEF ReadBegin, link, OfLink
<1>2. CASE ReadLink \/ ReadSession \/ ReadCompare \/ ReadEnd
  BY <1>2 DEF ReadLink, ReadSession, ReadCompare, ReadEnd, link, OfLink
<1>3. CASE LinkCheck \/ LinkStage \/ AcceptCheck
  BY <1>3 DEF LinkCheck, LinkStage, AcceptCheck, link, OfLink
<1>. QED
  BY <1>1, <1>2, <1>3 DEF ReaderStep

(* The steps of manage(), as values of where it is.                        *)
LEMMA ManagerSteps ==
  ASSUME LinkTypes, [Next]_vars
  PROVE  /\ manager' \in Managers
         /\ requests' \in Nat
<1>1. manager \in Managers /\ requests \in Nat
  BY DEF LinkTypes
<1>2. CASE UNCHANGED <<manager, requests>>
  BY <1>1, <1>2
<1>3. CASE Sample \/ ReadPop \/ ReaderStep \/ Port \/ UNCHANGED vars
  BY <1>2, <1>3, ReaderStepFrame
     DEF Sample, ReadPop, Port, PeerLost, LinkDown, Teardown, AcceptPeer, vars
<1>4. CASE Request
  BY <1>1, <1>4 DEF Request
<1>5. CASE ManageBegin
  BY <1>1, <1>5, ManagersBuilt DEF ManageBegin, LinkTypes
<1>6. CASE ManageLook \/ ManageOrphan
  <2>1. PICK p \in {"look", "orphan", "adopt"} :
          manager' = [manager EXCEPT !.at = p] /\ (At("look") \/ At("orphan"))
    BY <1>6 DEF ManageLook, ManageOrphan
  <2>2. manager' = [at |-> p, seen |-> manager.seen] /\ manager.seen \in Nat
    BY <1>1, <2>1, ManagerFacts
  <2>. QED
    BY <1>1, <1>6, <2>2, ManagersBuilt DEF ManageLook, ManageOrphan
<1>7. CASE ManageAdopt
  BY <1>1, <1>7, ManagersBuilt, ScopeAssumption DEF ManageAdopt, ScopeAssumption
<1>8. CASE ManageTake
  <2>1. CASE requests = 0 \/ manager.left = 0
    BY <1>1, <1>8, <2>1, ManagersBuilt DEF ManageTake
  <2>2. CASE ~ (requests = 0 \/ manager.left = 0)
    <3>1. manager.left \in Nat
      BY <1>1, <1>8, ManagerFacts DEF ManageTake
    <3>2. manager.left - 1 \in Nat
      BY <2>2, <3>1
    <3>3. requests - 1 \in Nat
      BY <1>1, <2>2
    <3>4. /\ manager' = [at |-> "process", left |-> manager.left - 1]
          /\ requests' = requests - 1
      BY <1>8, <2>2 DEF ManageTake
    <3>. QED
      BY <3>2, <3>3, <3>4, ManagersBuilt
  <2>. QED
    BY <2>1, <2>2
<1>9. CASE ServeStop \/ ServeStopQueue
  <2>1. PICK p \in {"stopLink", "stopQueue"} :
          manager' = [manager EXCEPT !.at = p] /\ (At("process") \/ At("stopLink"))
    BY <1>9 DEF ServeStop, ServeStopQueue
  <2>2. manager' = [at |-> p, left |-> manager.left] /\ manager.left \in Nat
    BY <1>1, <2>1, ManagerFacts
  <2>. QED
    BY <1>1, <1>9, <2>2, ManagersBuilt DEF ServeStop, ServeStopQueue
<1>10. CASE ServeQuery \/ ServeStopSession \/ ServeClear \/ ServeSet \/ ServeSwap \/ ServeStart
  <2>1. Answered /\ UNCHANGED requests /\ (At("process") \/ At("stopQueue"))
    BY <1>10 DEF ServeQuery, ServeStopSession, ServeClear, ServeSet, ServeSwap, ServeStart
  <2>2. manager.left \in Nat
    BY <1>1, <2>1, ManagerFacts
  <2>. QED
    BY <1>1, <2>1, <2>2, ManagersBuilt DEF Answered
<1>. QED
  BY <1>3, <1>4, <1>5, <1>6, <1>7, <1>8, <1>9, <1>10
     DEF Next, Manage, Pass, ReaderStep, Port

(* What each step does to the link, the read and the stream: losing the    *)
(* peer or stopping moves the session on; accepting one opens a session at *)
(* the acquisitions made so far and forgets the stream; manage() adopts a  *)
(* session in two places; and only the link task reads.                    *)
LEMMA LinkSteps ==
  ASSUME [Next]_vars
  PROVE  \/ /\ Retired
            /\ UNCHANGED <<scope, layout, prepared, opened, activeSession, reader, stream>>
         \/ /\ AcceptPeer
            /\ UNCHANGED <<scope, layout, prepared, activeSession>>
         \/ (ManageAdopt \/ ServeStopSession)
            /\ UNCHANGED <<scope, layout, prepared, OfLink, reader, stream>>
         \/ ReadPop /\ UNCHANGED <<layout, prepared, OfLink, activeSession, stream>>
         \/ ReaderStep /\ UNCHANGED <<scope, layout, prepared, OfLink, activeSession>>
         \/ UNCHANGED <<OfLink, activeSession, reader, stream>>
<1>1. CASE Sample \/ UNCHANGED vars \/ Request
  BY <1>1 DEF Sample, Request, vars, link, OfLink
<1>2. CASE Port \/ ServeStop
  BY <1>2 DEF Port, PeerLost, LinkDown, Teardown, AcceptPeer, ServeStop, OfLink
<1>3. CASE ManageAdopt \/ ServeStopSession
  BY <1>3 DEF ManageAdopt, ServeStopSession, link, OfLink
<1>4. CASE ManageBegin \/ ManageLook \/ ManageOrphan \/ ManageTake \/ ServeQuery \/ ServeStopQueue
  BY <1>4 DEF ManageBegin, ManageLook, ManageOrphan, ManageTake, ServeQuery, ServeStopQueue,
              link, OfLink
<1>5. CASE ServeClear \/ ServeSet \/ ServeSwap \/ ServeStart
  BY <1>5 DEF ServeClear, ServeSet, ServeSwap, ServeStart, link, OfLink
<1>6. CASE ReadPop
  BY <1>6 DEF ReadPop, link, OfLink
<1>7. CASE ReaderStep
  BY <1>7, ReaderStepFrame
<1>. QED
  BY <1>1, <1>2, <1>3, <1>4, <1>5, <1>6, <1>7 DEF Next, Manage, Pass, ReaderStep, Port

(* Retiring the link: a client that is lost keeps its number.              *)
LEMMA RetiredFacts ==
  ASSUME LinkTypes, Retired
  PROVE  /\ session' \in Nat /\ connected' = FALSE /\ session <= session'
         /\ Client' = Client
         /\ connected => session' = session + 1
         /\ ~connected => session' = session
<1>1. session \in Nat /\ connected \in BOOLEAN
  BY DEF LinkTypes
<1>2. CASE connected
  BY <1>1, <1>2 DEF Retired, Client
<1>3. CASE ~connected
  BY <1>1, <1>3 DEF Retired, Client
<1>. QED
  BY <1>2, <1>3

LEMMA LinkTypesStep ==
  ASSUME IInv, [Next]_vars
  PROVE  LinkTypes'
<1>1. LinkTypes /\ ScopeTypes
  BY DEF IInv
<1>2. manager' \in Managers /\ requests' \in Nat
  BY <1>1, ManagerSteps
<1>3. /\ session \in Nat /\ connected \in BOOLEAN /\ opened \in Nat /\ activeSession \in Nat
      /\ starts \in Nat
  BY <1>1, StartsFacts DEF LinkTypes
<1>. SUFFICES /\ session' \in Nat /\ connected' \in BOOLEAN /\ opened' \in Nat
              /\ activeSession' \in Nat
  BY <1>2 DEF LinkTypes
<1>4. CASE Retired /\ UNCHANGED <<opened, activeSession>>
  BY <1>1, <1>3, <1>4, RetiredFacts
<1>5. CASE AcceptPeer /\ UNCHANGED activeSession
  BY <1>3, <1>5 DEF AcceptPeer
<1>6. CASE ManageAdopt /\ UNCHANGED OfLink
  <2>1. manager.seen \in Nat /\ activeSession' = manager.seen
    BY <1>1, <1>6, ManagerFacts DEF ManageAdopt, LinkTypes
  <2>. QED
    BY <1>3, <1>6, <2>1 DEF link, OfLink
<1>7. CASE ServeStopSession /\ UNCHANGED OfLink
  BY <1>3, <1>7 DEF ServeStopSession, link, OfLink
<1>8. CASE UNCHANGED <<OfLink, activeSession>>
  BY <1>3, <1>8 DEF link, OfLink
<1>. QED
  BY <1>4, <1>5, <1>6, <1>7, <1>8, LinkSteps

(* What a read copies: a frame of the acquisition that is alive, of the    *)
(* size the room was tested for.                                           *)
LEMMA ReadPopFacts ==
  ASSUME IInv, ReadPop
  PROVE  /\ Alive /\ count \in Nat /\ samples \in Nat /\ count # 0 /\ count <= samples
         /\ Reading("loop") /\ reader.frames \in Seq(Frames)
         /\ reader.for \in Nat
         /\ reader.left \in Nat /\ reader.left - frameSize \in Nat
         /\ Popped = FrameOf(samples - count) /\ Popped \in Frames
         /\ reader' = [at |-> "loop", for |-> reader.for, left |-> reader.left - frameSize,
                       frames |-> Append(reader.frames, Popped)]
<1>1. ScopeTypes /\ reader \in Readers
  BY DEF IInv, ReaderTypes
<1>2. Alive /\ count # 0 /\ Reading("loop")
  BY DEF ReadPop, Alive
<1>3. /\ frameSize \in Nat /\ frameSize = FrameSize(active)
      /\ count \in Nat /\ samples \in Nat /\ count <= samples
  BY <1>2, AliveFacts
<1>4. Popped = FrameOf(samples - count) /\ samples - count \in Nat
  BY <1>2, <1>3, PoppedIsOldest
<1>5. Popped \in Frames
  BY <1>1, <1>4, FrameOfType
<1>6. reader.frames \in Seq(Frames) /\ reader.left \in Nat /\ reader.for \in Nat
  BY <1>1, <1>2, ReaderFacts DEF Collecting, Reading, Busy
<1>7. reader.left - frameSize \in Nat
  BY <1>3, <1>6 DEF ReadPop, Fits
<1>. QED
  BY <1>2, <1>3, <1>4, <1>5, <1>6, <1>7 DEF ReadPop

(* The places of a read are told apart, and a read that goes on keeps who  *)
(* it is for.                                                              *)
LEMMA ReaderTypesStep ==
  ASSUME IInv, [Next]_vars
  PROVE  ReaderTypes'
<1>1. ReaderTypes /\ LinkTypes /\ reader \in Readers /\ stream \in Seq(Frames)
  BY DEF IInv, ReaderTypes
<1>2. session \in Nat /\ activeSession \in Nat
  BY <1>1 DEF LinkTypes
<1>3. CASE UNCHANGED <<reader, stream>>
  BY <1>1, <1>3 DEF ReaderTypes
<1>4. CASE AcceptPeer
  BY <1>4, ReadersBuilt DEF AcceptPeer, ReaderTypes
<1>5. CASE ReadPop
  <2>1. Append(reader.frames, Popped) \in Seq(Frames)
    BY <1>5, ReadPopFacts, AppendProperties
  <2>2. reader' \in Readers
    BY <1>5, <2>1, ReadPopFacts, ReadersBuilt
  <2>. QED
    BY <1>1, <1>5, <2>2 DEF ReadPop, ReaderTypes
<1>6. CASE ReaderStep
  <2>1. CASE \E room \in Rooms : ReadBegin(room)
    BY <1>1, <1>2, <2>1, ReadersBuilt, ScopeAssumption
       DEF ReadBegin, ReaderTypes, ScopeAssumption
  <2>2. CASE ReadLink
    <3>1. reader.for \in Nat /\ reader.left \in Nat
      BY <1>1, <2>2, ReaderFacts DEF ReadLink, Reading, Busy
    <3>2. reader' = Idle \/ reader' = [at |-> "session", for |-> reader.for, left |-> reader.left]
      BY <1>1, <2>2, ReaderFacts DEF ReadLink
    <3>3. reader' \in Readers
      BY <3>1, <3>2, ReadersBuilt
    <3>. QED
      BY <1>1, <2>2, <3>3 DEF ReadLink, ReaderTypes
  <2>3. CASE ReadSession
    <3>1. reader.for \in Nat /\ reader.left \in Nat
      BY <1>1, <2>3, ReaderFacts DEF ReadSession, Reading, Busy
    <3>2. PICK p \in {"loadActive", "loadSession"}, s \in {session, activeSession} :
            reader' = [at |-> p, for |-> reader.for, left |-> reader.left, seen |-> s]
      BY <2>3 DEF ReadSession
    <3>3. reader' \in Readers
      BY <1>2, <3>1, <3>2, ReadersBuilt
    <3>. QED
      BY <1>1, <2>3, <3>3 DEF ReadSession, ReaderTypes
  <2>4. CASE ReadCompare
    <3>1. reader.for \in Nat /\ reader.left \in Nat
      BY <1>1, <2>4, ReaderFacts DEF ReadCompare, Reading, Busy
    <3>2. \/ reader' = Idle
          \/ reader' = [at |-> "loop", for |-> reader.for, left |-> reader.left, frames |-> <<>>]
      BY <2>4 DEF ReadCompare
    <3>3. <<>> \in Seq(Frames)
      OBVIOUS
    <3>4. reader' \in Readers
      BY <3>1, <3>2, <3>3, ReadersBuilt
    <3>. QED
      BY <1>1, <2>4, <3>4 DEF ReadCompare, ReaderTypes
  <2>5. CASE ReadEnd \/ LinkCheck
    <3>1. Collecting /\ Busy
      BY <2>5 DEF ReadEnd, LinkCheck, Collecting, Reading, Busy
    <3>2. \/ reader' = Idle
          \/ \E p \in {"check", "stage"} : reader' = [reader EXCEPT !.at = p]
      BY <2>5 DEF ReadEnd, LinkCheck
    <3>3. reader' \in Readers
      BY <1>1, <3>1, <3>2, ReaderFacts, ReadersBuilt
    <3>. QED
      BY <1>1, <2>5, <3>3 DEF ReadEnd, LinkCheck, ReaderTypes
  <2>6. CASE LinkStage
    <3>1. reader.frames \in Seq(Frames)
      BY <1>1, <2>6, ReaderFacts DEF LinkStage, Collecting
    <3>2. stream' \in Seq(Frames)
      BY <1>1, <2>6, <3>1, ConcatProperties DEF LinkStage
    <3>. QED
      BY <2>6, <3>2, ReadersBuilt DEF LinkStage, ReaderTypes
  <2>7. CASE AcceptCheck
    BY <1>1, <2>7, ReadersBuilt DEF AcceptCheck, ReaderTypes
  <2>. QED
    BY <1>6, <2>1, <2>2, <2>3, <2>4, <2>5, <2>6, <2>7 DEF ReaderStep
<1>. QED
  BY <1>3, <1>4, <1>5, <1>6, LinkSteps
----------------------------------------------------------------------------
(* Sessions.                                                               *)

(* Where manage() stands after each step.                                  *)
LEMMA ManagerMoves ==
  ASSUME LinkTypes, [Next]_vars
  PROVE  \/ manager' = manager /\ activeSession' = activeSession
         \/ /\ ManageBegin /\ manager' = [at |-> "look", seen |-> session]
            /\ activeSession' = activeSession
         \/ /\ ManageLook /\ activeSession' = activeSession
            /\ manager' = [at |-> IF Orphaned(manager.seen) THEN "orphan" ELSE "adopt",
                           seen |-> manager.seen]
         \/ /\ ManageOrphan /\ Stopped /\ activeSession' = activeSession
            /\ manager' = [at |-> "adopt", seen |-> manager.seen]
         \/ /\ ServeStopQueue /\ Stopped /\ manager'.at = "stopQueue"
            /\ activeSession' = activeSession
         \/ manager'.at \in {"idle", "serve", "process", "stopLink"}
<1>1. manager \in Managers
  BY DEF LinkTypes
<1>2. CASE \/ Sample \/ ReadPop \/ ReaderStep \/ Port \/ UNCHANGED vars
           \/ Request
  BY <1>2, ReaderStepFrame
     DEF Sample, ReadPop, Port, PeerLost, LinkDown, Teardown, AcceptPeer, Request, vars
<1>3. CASE ManageBegin
  BY <1>3 DEF ManageBegin
<1>4. CASE ManageLook
  <2>. DEFINE p == IF Orphaned(manager.seen) THEN "orphan" ELSE "adopt"
  <2>1. p \in {"look", "orphan", "adopt"}
    OBVIOUS
  <2>2. manager' = [manager EXCEPT !.at = p] /\ At("look") /\ activeSession' = activeSession
    BY <1>4 DEF ManageLook
  <2>. HIDE DEF p
  <2>3. manager' = [at |-> p, seen |-> manager.seen]
    BY <1>1, <2>1, <2>2, ManagerFacts
  <2>. QED
    BY <1>4, <2>2, <2>3 DEF p
<1>5. CASE ManageOrphan
  <2>1. manager' = [manager EXCEPT !.at = "adopt"] /\ At("orphan") /\ Stopped
        /\ activeSession' = activeSession
    BY <1>5 DEF ManageOrphan
  <2>2. manager' = [at |-> "adopt", seen |-> manager.seen]
    BY <1>1, <2>1, ManagerFacts
  <2>. QED
    BY <1>5, <2>1, <2>2
<1>6. CASE ManageAdopt \/ ManageTake
  BY <1>6 DEF ManageAdopt, ManageTake, Idle
<1>7. CASE ServeStop \/ ServeStopQueue
  <2>1. \E p \in {"stopLink", "stopQueue"} :
          /\ manager' = [manager EXCEPT !.at = p] /\ (At("process") \/ At("stopLink"))
          /\ p = "stopLink" \/ (ServeStopQueue /\ Stopped /\ activeSession' = activeSession)
    BY <1>7 DEF ServeStop, ServeStopQueue
  <2>2. PICK p \in {"stopLink", "stopQueue"} :
          /\ manager' = [manager EXCEPT !.at = p] /\ (At("process") \/ At("stopLink"))
          /\ p = "stopLink" \/ (ServeStopQueue /\ Stopped /\ activeSession' = activeSession)
    BY <2>1
  <2>3. manager' = [at |-> p, left |-> manager.left]
    BY <1>1, <2>2, ManagerFacts
  <2>. QED
    BY <2>2, <2>3
<1>8. CASE ServeQuery \/ ServeStopSession \/ ServeClear \/ ServeSet \/ ServeSwap \/ ServeStart
  <2>1. Answered
    BY <1>8 DEF ServeQuery, ServeStopSession, ServeClear, ServeSet, ServeSwap, ServeStart
  <2>. QED
    BY <2>1 DEF Answered
<1>. QED
  BY <1>2, <1>3, <1>4, <1>5, <1>6, <1>7, <1>8 DEF Next, Manage, Pass, ReaderStep, Port

(* An acquisition comes to life only by being started, for a connected     *)
(* client, and the list of layouts grows with it.                          *)
LEMMA AliveSteps ==
  ASSUME ScopeTypes, [Next]_vars
  PROVE  \/ /\ Alive' => Alive
            /\ UNCHANGED <<prepared, starts>>
         \/ /\ ServeStart /\ Startable /\ Started /\ connected /\ UNCHANGED <<OfLink, reader>>
            /\ UNCHANGED <<activeSession, stream, layout>>
            /\ prepared' = Append(prepared, layout) /\ starts' = starts + 1
            /\ samples' = 0 /\ count' = 0
<1>1. CASE (Overflow \/ Publish) /\ UNCHANGED <<prepared, starts>>
  BY <1>1 DEF Overflow, Publish, Alive
<1>2. CASE ReadPop /\ UNCHANGED <<prepared, starts>>
  BY <1>2 DEF ReadPop, Pop, Alive
<1>3. CASE Stopped /\ UNCHANGED <<prepared, starts>>
  BY <1>3 DEF Stopped, Alive
<1>4. CASE (ServeClear \/ ServeSet \/ ServeSwap) /\ UNCHANGED <<prepared, starts>>
  BY <1>4 DEF ServeClear, ServeSet, ServeSwap, Edited, Alive
<1>5. CASE ServeStart
  <2>1. CASE Affordable /\ Startable
    <3>1. /\ Started /\ prepared' = Append(prepared, layout) /\ connected
          /\ UNCHANGED <<OfLink, reader, activeSession, stream, layout>>
      BY <1>5, <2>1 DEF ServeStart, Startable, link, OfLink
    <3>2. starts' = starts + 1
      BY <3>1, StartsFacts DEF starts
    <3>3. samples' = 0 /\ count' = 0
      BY <2>1, <3>1 DEF Started, Startable
    <3>. QED
      BY <1>5, <2>1, <3>1, <3>2, <3>3
  <2>2. CASE ~ (Affordable /\ Startable)
    BY <1>5, <2>2 DEF ServeStart, scope, Alive, starts
  <2>. QED
    BY <2>1, <2>2
<1>6. CASE UNCHANGED OfScope
  BY <1>6 DEF OfScope, scope, Alive
<1>. QED
  BY <1>1, <1>2, <1>3, <1>4, <1>5, <1>6, ScopeSteps

(* Acquisitions are only ever started, and sessions only ever move on.     *)
LEMMA NumbersGrow ==
  ASSUME ScopeTypes, LinkTypes, [Next]_vars
  PROVE  /\ starts \in Nat /\ starts' \in Nat /\ starts <= starts'
         /\ session \in Nat /\ session' \in Nat /\ session <= session'
<1>1. starts \in Nat /\ session \in Nat
  BY StartsFacts DEF LinkTypes
<1>2. starts' = starts \/ starts' = starts + 1
  BY AliveSteps
<1>3. session' \in Nat /\ session <= session'
  <2>1. CASE Retired
    BY <2>1, RetiredFacts
  <2>2. CASE AcceptPeer
    BY <1>1, <2>2 DEF AcceptPeer
  <2>3. CASE UNCHANGED OfLink
    BY <1>1, <2>3 DEF link, OfLink
  <2>. QED
    BY <2>1, <2>2, <2>3, LinkSteps
<1>. QED
  BY <1>1, <1>2, <1>3

LEMMA SessionsStep ==
  ASSUME IInv, [Next]_vars
  PROVE  SessionsForward' /\ activeSession <= activeSession'
<1>1. ScopeTypes /\ LinkTypes /\ SessionsForward
  BY DEF IInv
<1>2. /\ session' \in Nat /\ session <= session' /\ starts' \in Nat /\ starts <= starts'
      /\ session \in Nat /\ starts \in Nat /\ opened \in Nat /\ activeSession \in Nat
  BY <1>1, NumbersGrow DEF LinkTypes
<1>3. /\ activeSession <= session /\ opened <= starts
      /\ At("look") \/ At("orphan") \/ At("adopt") =>
            activeSession <= manager.seen /\ manager.seen <= session /\ manager.seen \in Nat
  BY <1>1, ManagerFacts DEF SessionsForward, LinkTypes
<1>4. opened' <= starts'
  <2>1. opened' = opened \/ (opened' = starts /\ starts' = starts)
    BY LinkSteps DEF AcceptPeer, link, OfLink, starts
  <2>. QED
    BY <1>2, <1>3, <2>1
<1>5. activeSession' <= session' /\ activeSession <= activeSession'
  <2>1. CASE activeSession' = activeSession
    BY <1>2, <1>3, <2>1
  <2>2. CASE ManageAdopt
    BY <1>2, <1>3, <2>2 DEF ManageAdopt, link, OfLink
  <2>3. CASE ServeStopSession
    BY <1>2, <1>3, <2>3 DEF ServeStopSession, link, OfLink
  <2>. QED
    BY <2>1, <2>2, <2>3, LinkSteps
<1>6. ASSUME (At("look") \/ At("orphan") \/ At("adopt"))'
      PROVE  activeSession' <= manager'.seen /\ manager'.seen <= session'
  <2>1. CASE manager' = manager /\ activeSession' = activeSession
    BY <1>2, <1>3, <1>6, <2>1 DEF At
  <2>2. CASE manager' = [at |-> "look", seen |-> session] /\ activeSession' = activeSession
    BY <1>2, <1>3, <2>2
  <2>3. CASE ManageLook /\ manager'.seen = manager.seen /\ activeSession' = activeSession
    BY <1>2, <1>3, <2>3 DEF ManageLook
  <2>4. CASE ManageOrphan /\ manager'.seen = manager.seen /\ activeSession' = activeSession
    BY <1>2, <1>3, <2>4 DEF ManageOrphan
  <2>5. CASE manager'.at \in {"idle", "serve", "process", "stopLink", "stopQueue"}
    BY <1>6, <2>5 DEF At
  <2>. QED
    BY <1>1, <2>1, <2>2, <2>3, <2>4, <2>5, ManagerMoves
<1>. QED
  BY <1>4, <1>5, <1>6 DEF SessionsForward

(* A session is adopted with its own acquisition or with none: between the *)
(* check of the link and the adoption the interrupt may stop the queue or  *)
(* fill it and a read may drain it, but no acquisition is started.         *)
LEMMA AdoptsStep ==
  ASSUME IInv, [Next]_vars
  PROVE  AdoptsClean'
<1>1. LinkTypes /\ AdoptsClean /\ ScopeTypes
  BY DEF IInv
<1>2. /\ session \in Nat /\ activeSession \in Nat /\ connected \in BOOLEAN
      /\ activeSession <= session
  BY <1>1 DEF LinkTypes, IInv, SessionsForward
<1>3. At("adopt") /\ manager' = manager => (Alive' => Alive)
  BY <1>1, AliveSteps DEF ServeStart, At
<1>4. At("stopQueue") /\ manager' = manager => (Alive' => Alive)
  BY <1>1, AliveSteps DEF ServeStart, At
<1>5. /\ At("adopt")' => manager'.seen = activeSession' \/ ~Alive'
      /\ At("stopQueue")' => ~Alive'
  <2>1. CASE manager' = manager /\ activeSession' = activeSession
    BY <1>1, <1>3, <1>4, <2>1 DEF AdoptsClean, At
  <2>2. CASE ManageLook /\ activeSession' = activeSession
             /\ manager' = [at |-> IF Orphaned(manager.seen) THEN "orphan" ELSE "adopt",
                            seen |-> manager.seen]
    BY <2>2 DEF At, Orphaned
  <2>3. CASE Stopped
    BY <2>3 DEF Stopped, Alive
  <2>4. CASE manager'.at \in {"idle", "serve", "process", "stopLink", "look"}
    BY <2>4 DEF At
  <2>. QED
    BY <1>1, <2>1, <2>2, <2>3, <2>4, ManagerMoves
<1>6. ASSUME ~connected', activeSession' = session' PROVE ~Alive'
  <2>1. CASE Retired /\ UNCHANGED <<scope, activeSession>>
    <3>1. ~connected
      BY <1>1, <1>2, <1>6, <2>1, RetiredFacts
    <3>2. session' = session
      BY <1>1, <2>1, <3>1, RetiredFacts
    <3>. QED
      BY <1>1, <1>6, <2>1, <3>1, <3>2 DEF AdoptsClean, scope, Alive
  <2>2. CASE AcceptPeer
    BY <1>6, <2>2 DEF AcceptPeer
  <2>3. CASE ManageAdopt
    BY <1>1, <1>6, <2>3 DEF ManageAdopt, AdoptsClean, scope, link, OfLink, Alive
  <2>4. CASE ServeStopSession
    BY <1>1, <2>4 DEF ServeStopSession, AdoptsClean, scope, Alive
  <2>5. CASE UNCHANGED <<OfLink, activeSession>>
    <3>1. ~connected /\ activeSession = session
      BY <1>6, <2>5 DEF link, OfLink
    <3>2. Alive' => Alive
      BY <1>1, <3>1, AliveSteps
    <3>. QED
      BY <1>1, <3>1, <3>2 DEF AdoptsClean
  <2>. QED
    BY <2>1, <2>2, <2>3, <2>4, <2>5, LinkSteps
<1>. QED
  BY <1>5, <1>6 DEF AdoptsClean

(* The read: it stays with the last client, and what it has compared keeps *)
(* true of the queue while manage() stops or adopts under it.              *)
LEMMA ReadsStep ==
  ASSUME IInv, [Next]_vars
  PROVE  ReadsForClient'
<1>1. /\ ScopeTypes /\ LinkTypes /\ ReaderTypes /\ SessionsForward /\ AdoptsClean
      /\ ReadsForClient
  BY DEF IInv
<1>2. /\ session \in Nat /\ activeSession \in Nat /\ connected \in BOOLEAN
      /\ activeSession <= session /\ activeSession <= activeSession'
      /\ activeSession' \in Nat
  BY <1>1, SessionsStep, LinkTypesStep DEF LinkTypes, SessionsForward
<1>3. /\ Busy => reader.for \in Nat
      /\ Reading("loadActive") \/ Reading("loadSession") => reader.seen \in Nat
  BY <1>1, ReaderFacts DEF ReaderTypes
<1>4. ASSUME UNCHANGED <<reader, OfLink, activeSession>> PROVE ReadsForClient'
  <2>1. ~connected => (Alive' => Alive)
    BY <1>1, AliveSteps
  <2>. QED
    BY <1>1, <1>4, <2>1 DEF ReadsForClient, Reading, Busy, Client, link, OfLink
<1>5. CASE Retired /\ UNCHANGED <<scope, activeSession, reader>>
  <2>1. Client' = Client /\ connected' = FALSE /\ (~connected => session' = session)
    BY <1>1, <1>5, RetiredFacts
  <2>2. Alive' <=> Alive
    BY <1>5 DEF scope, Alive
  <2>. QED
    BY <1>1, <1>5, <2>1, <2>2 DEF ReadsForClient, Reading, Busy
<1>6. CASE AcceptPeer
  BY <1>6 DEF AcceptPeer, ReadsForClient, Reading, Busy, Idle
<1>7. CASE (ManageAdopt \/ ServeStopSession) /\ UNCHANGED <<scope, OfLink, reader>>
  <2>1. /\ UNCHANGED <<session, connected, reader>> /\ Client' = Client /\ (Alive' <=> Alive)
    BY <1>7 DEF link, OfLink, Client, scope, Alive
  <2>2. ASSUME Reading("loop")
        PROVE  activeSession' = reader.for \/ (~connected /\ ~Alive)
    <3>1. activeSession' <= session /\ (activeSession' = activeSession \/ ~Alive)
      BY <1>1, <1>2, <1>7 DEF ManageAdopt, ServeStopSession, AdoptsClean, SessionsForward
    <3>2. reader.for = Client /\ (activeSession = reader.for \/ (~connected /\ ~Alive))
      BY <1>1, <2>2 DEF ReadsForClient, Reading, Busy
    <3>3. CASE connected
      BY <1>2, <3>1, <3>2, <3>3 DEF Client
    <3>4. CASE ~connected
      BY <3>1, <3>2, <3>4
    <3>. QED
      BY <3>3, <3>4
  <2>3. Reading("loadSession") => reader.seen <= activeSession'
    BY <1>1, <1>2, <1>3 DEF ReadsForClient
  <2>. QED
    BY <1>1, <2>1, <2>2, <2>3 DEF ReadsForClient, Reading, Busy
<1>8. CASE ReadPop /\ UNCHANGED <<OfLink, activeSession>>
  <2>1. reader'.at = "loop" /\ reader'.for = reader.for /\ Reading("loop")
    BY <1>8, ReadPopFacts
  <2>2. Client' = Client /\ connected' = connected
    BY <1>8 DEF link, OfLink, Client
  <2>3. Alive
    BY <1>8, ReadPopFacts
  <2>. QED
    BY <1>1, <1>8, <2>1, <2>2, <2>3 DEF ReadsForClient, Reading, Busy
<1>9. CASE ReaderStep /\ UNCHANGED <<scope, OfLink, activeSession>>
  <2>. DEFINE unchanged == UNCHANGED <<session, connected, activeSession>>
  <2>1. unchanged /\ Client' = Client /\ (Alive' <=> Alive)
    BY <1>9 DEF link, OfLink, Client, scope, Alive
  <2>2. CASE \E room \in Rooms : ReadBegin(room)
    BY <2>1, <2>2 DEF ReadBegin, ReadsForClient, Reading, Busy, Client
  <2>3. CASE ReadLink
    <3>1. \/ reader' = Idle
          \/ reader' = [at |-> "session", for |-> reader.for, left |-> reader.left]
      BY <1>1, <2>3, ReaderFacts DEF ReadLink, ReaderTypes
    <3>. QED
      BY <1>1, <2>1, <2>3, <3>1 DEF ReadLink, ReadsForClient, Reading, Busy, Idle
  <2>4. CASE ReadSession
    <3>1. \/ /\ reader' = [at |-> "loadActive", for |-> reader.for, left |-> reader.left,
                           seen |-> session]
             /\ Reading("session")
          \/ /\ reader' = [at |-> "loadSession", for |-> reader.for, left |-> reader.left,
                           seen |-> activeSession]
             /\ Reading("session")
      BY <2>4 DEF ReadSession
    <3>2. reader.for = Client
      BY <1>1, <3>1 DEF ReadsForClient, Reading, Busy
    <3>. QED
      BY <1>2, <2>1, <3>1, <3>2 DEF ReadsForClient, Reading, Busy, Client
  <2>5. CASE ReadCompare
    <3>1. reader.for = Client /\ (Reading("loadActive") \/ Reading("loadSession"))
      BY <1>1, <2>5 DEF ReadCompare, ReadsForClient, Reading, Busy
    <3>2. CASE reader' = Idle
      BY <3>2 DEF ReadsForClient, Reading, Busy, Idle
    <3>3. CASE reader' # Idle
      <4>1. /\ reader' = [at |-> "loop", for |-> reader.for, left |-> reader.left,
                          frames |-> <<>>]
            /\ reader.seen = IF Reading("loadActive") THEN activeSession ELSE session
        BY <2>5, <3>3 DEF ReadCompare
      <4>2. activeSession = reader.for \/ (~connected /\ activeSession = session)
        <5>1. CASE Reading("loadActive")
          BY <1>1, <4>1, <5>1 DEF ReadsForClient
        <5>2. CASE Reading("loadSession") /\ ~Reading("loadActive")
          <6>1. activeSession = session
            BY <1>1, <1>2, <1>3, <4>1, <5>2 DEF ReadsForClient
          <6>. QED
            BY <3>1, <6>1 DEF Client
        <5>. QED
          BY <3>1, <5>1, <5>2
      <4>3. activeSession = reader.for \/ (~connected /\ ~Alive)
        BY <1>1, <4>2 DEF AdoptsClean
      <4>. QED
        BY <2>1, <3>1, <4>1, <4>3 DEF ReadsForClient, Reading, Busy
    <3>. QED
      BY <3>2, <3>3
  <2>6. CASE ReadEnd \/ LinkCheck
    <3>1. Collecting /\ Busy /\ reader.for = Client
      BY <1>1, <2>6 DEF ReadEnd, LinkCheck, Collecting, ReadsForClient, Reading, Busy
    <3>2. \/ reader' = Idle
          \/ \E p \in {"check", "stage"} : reader' = [reader EXCEPT !.at = p]
      BY <2>6 DEF ReadEnd, LinkCheck
    <3>3. \/ reader' = Idle
          \/ reader'.for = reader.for /\ reader'.at \in {"check", "stage"}
      BY <1>1, <3>1, <3>2, ReaderFacts DEF ReaderTypes
    <3>. QED
      BY <2>1, <3>1, <3>3 DEF ReadsForClient, Reading, Busy, Idle
  <2>7. CASE LinkStage
    BY <2>7 DEF LinkStage, ReadsForClient, Reading, Busy, Idle
  <2>8. CASE AcceptCheck
    BY <2>8 DEF AcceptCheck, ReadsForClient, Reading, Busy
  <2>. QED
    BY <1>9, <2>2, <2>3, <2>4, <2>5, <2>6, <2>7, <2>8 DEF ReaderStep
<1>. QED
  BY <1>4, <1>5, <1>6, <1>7, <1>8, <1>9, LinkSteps

(* A read is not under way on a connected link that is asked to end.       *)
LEMMA ReadsUnresetStep ==
  ASSUME IInv, [Next]_vars
  PROVE  ReadsUnreset'
<1>1. ReadsUnreset
  BY DEF IInv
<1>2. CASE Retired \/ LinkDown \/ Teardown
  <2>1. connected' = FALSE \/ resetRequested' = FALSE
    BY <1>2 DEF Retired, LinkDown, Teardown
  <2>. QED
    BY <2>1 DEF ReadsUnreset
<1>3. CASE AcceptPeer
  BY <1>3 DEF AcceptPeer, ReadsUnreset, Busy, Reading, Idle
<1>4. CASE \E room \in Rooms : ReadBegin(room)
  BY <1>4 DEF ReadBegin, ReadsUnreset, link
<1>5. CASE AcceptCheck
  BY <1>5 DEF AcceptCheck, ReadsUnreset, Busy, Reading
<1>6. CASE ReadLink \/ ReadSession \/ ReadCompare \/ ReadPop \/ ReadEnd \/ LinkCheck \/ LinkStage
  <2>1. UNCHANGED link
    BY <1>6 DEF ReadLink, ReadSession, ReadCompare, ReadPop, ReadEnd, LinkCheck, LinkStage
  <2>2. Busy
    BY <1>6 DEF ReadLink, ReadSession, ReadCompare, ReadPop, ReadEnd, LinkCheck, LinkStage,
                Busy, Reading
  <2>. QED
    BY <1>1, <2>1, <2>2 DEF ReadsUnreset, link
<1>7. CASE \/ Sample \/ UNCHANGED vars \/ Request
           \/ Manage /\ ~ServeStop
  <2>1. UNCHANGED <<link, reader>>
    BY <1>7 DEF Sample, vars, Request, Manage, ManageBegin, ManageLook, ManageOrphan,
                ManageAdopt, ManageTake, ServeQuery, ServeStopQueue, ServeStopSession,
                ServeClear, ServeSet, ServeSwap, ServeStart
  <2>. QED
    BY <1>1, <2>1 DEF ReadsUnreset, Busy, Reading, link
<1>. QED
  BY <1>2, <1>3, <1>4, <1>5, <1>6, <1>7 DEF Next, Manage, Pass, PeerLost, ServeStop
----------------------------------------------------------------------------
(* The stream.                                                             *)

(* What was sent stays exact when an acquisition is started.               *)
LEMMA ExactGrows ==
  ASSUME NEW frames \in Seq(Frames), NEW floor \in Nat, NEW told \in Seq(Banks),
         NEW bank \in Banks, Exact(frames, floor, told)
  PROVE  Exact(frames, floor, Append(told, bank))
<1>1. ASSUME NEW i \in DOMAIN frames
      PROVE  frames[i].start \in Nat
  <2>1. frames[i] \in Frames
    BY <1>1, ElementOfSeq, LenProperties
  <2>. QED
    BY <2>1 DEF Frames
<1>2. /\ Len(told) \in Nat /\ Len(Append(told, bank)) = Len(told) + 1
      /\ \A i \in 1 .. Len(told) : Append(told, bank)[i] = told[i]
  BY LenProperties, AppendProperties
<1>3. ASSUME NEW i \in DOMAIN frames
      PROVE  /\ frames[i].start <= Len(Append(told, bank))
             /\ frames[i].layout = Append(told, bank)[frames[i].start]
  <2>1. frames[i].start \in 1 .. Len(told) /\ frames[i].layout = told[frames[i].start]
    BY <1>1, <1>2 DEF Exact
  <2>. QED
    BY <1>2, <2>1
<1>. QED
  BY <1>3 DEF Exact

(* A frame that what was sent precedes may be sent next.                   *)
LEMMA ExactAppends ==
  ASSUME NEW frames \in Seq(Frames), NEW floor \in Nat, NEW told \in Seq(Banks),
         NEW frame \in Frames, Exact(frames, floor, told),
         frame.start > floor, frame.start <= Len(told), frame.layout = told[frame.start],
         frame.index = frame.sample % IndexMod,
         Precede(frames, frame.start, frame.sample)
  PROVE  Exact(Append(frames, frame), floor, told)
<1>. DEFINE s == Append(frames, frame)
            n == Len(frames) + 1
<1>1. /\ Len(frames) \in Nat /\ DOMAIN frames = 1 .. Len(frames) /\ DOMAIN s = 1 .. n
      /\ (\A i \in 1 .. Len(frames) : s[i] = frames[i]) /\ s[n] = frame
      /\ frames # <<>> <=> n > 1
  BY LenProperties, AppendProperties, EmptySeq
<1>. HIDE DEF s
<1>2. n > 1 => n - 1 = Len(frames) /\ s[n - 1] = frames[Len(frames)]
  BY <1>1
<1>. HIDE DEF n
<1>. DEFINE Right(f, i) ==
       /\ f[i].start > floor /\ f[i].start <= Len(told)
       /\ f[i].layout = told[f[i].start]
       /\ f[i].index = f[i].sample % IndexMod
       /\ \/ f[i].sample = 0 /\ (i > 1 => f[i - 1].start < f[i].start)
          \/ /\ i > 1
             /\ f[i - 1].start = f[i].start
             /\ f[i - 1].sample = f[i].sample - 1
<1>3. ASSUME NEW i \in DOMAIN s, i # n PROVE Right(s, i)
  <2>1. /\ i \in DOMAIN frames /\ s[i] = frames[i]
        /\ (i > 1 => s[i - 1] = frames[i - 1])
    <3>1. i \in 1 .. Len(frames)
      BY <1>1, <1>3 DEF n
    <3>2. i > 1 => i - 1 \in 1 .. Len(frames)
      BY <1>1, <3>1
    <3>. QED
      BY <1>1, <3>1, <3>2
  <2>2. Right(frames, i)
    BY <2>1 DEF Exact
  <2>. QED
    BY <2>1, <2>2
<1>4. Right(s, n)
  <2>1. CASE frame.sample = 0 /\ (frames # <<>> => frames[Len(frames)].start < frame.start)
    BY <1>1, <1>2, <2>1
  <2>2. CASE /\ frames # <<>>
             /\ frames[Len(frames)].start = frame.start
             /\ frames[Len(frames)].sample = frame.sample - 1
    BY <1>1, <1>2, <2>2
  <2>. QED
    BY <2>1, <2>2 DEF Precede
<1>. QED
  BY <1>3, <1>4 DEF Exact, s

(* A frame a read copies is the next to be sent.                           *)
LEMMA PopSent ==
  ASSUME ReaderTypes, ReadPop, Popped \in Frames
  PROVE  Sent' = Append(Sent, Popped)
<1>1. reader \in Readers /\ stream \in Seq(Frames)
  BY DEF ReaderTypes
<1>2. /\ Collecting /\ Collecting' /\ reader'.frames = Append(reader.frames, Popped)
      /\ stream' = stream
  BY DEF ReadPop, Collecting, Reading
<1>3. Sent = stream \o reader.frames /\ Sent' = stream \o Append(reader.frames, Popped)
  BY <1>2 DEF Sent, Held
<1>4. reader.frames \in Seq(Frames) /\ <<Popped>> \in Seq(Frames)
  BY <1>1, <1>2, ReaderFacts
<1>5. Append(reader.frames, Popped) = reader.frames \o <<Popped>>
  BY <1>4, AppendIsConcat
<1>6. stream \o (reader.frames \o <<Popped>>) = (stream \o reader.frames) \o <<Popped>>
  <2>1. \A a, b, c \in Seq(Frames) : (a \o b) \o c = a \o (b \o c)
    BY ConcatAssociative
  <2>. QED
    BY <1>1, <1>4, <2>1, Zenon
<1>7. Append(stream \o reader.frames, Popped) = (stream \o reader.frames) \o <<Popped>>
  <2>1. stream \o reader.frames \in Seq(Frames)
    BY <1>1, <1>4, ConcatProperties
  <2>. QED
    BY <2>1, AppendIsConcat
<1>. QED
  BY <1>3, <1>5, <1>6, <1>7

(* The other steps of the link task send nothing new; the port throws away *)
(* what was copied when its client is gone.                                *)
LEMMA SentSteps ==
  ASSUME ReaderTypes, ReaderStep
  PROVE  \/ /\ LinkCheck /\ reader' = Idle
            /\ ~(connected /\ ~resetRequested /\ session = reader.for)
            /\ Sent' = stream /\ stream' = stream
         \/ Sent' = Sent /\ (stream' = stream \/ stream' = Sent)
<1>1. reader \in Readers /\ stream \in Seq(Frames)
  BY DEF ReaderTypes
<1>2. stream \o <<>> = stream
  BY <1>1, ConcatEmptySeq
<1>3. Collecting => reader.frames \in Seq(Frames)
  BY <1>1, ReaderFacts
<1>4. ~Collecting => Sent = stream
  BY <1>2 DEF Sent, Held
<1>5. Collecting => Sent = stream \o reader.frames
  BY DEF Sent, Held
<1>6. ASSUME ~Collecting, ~Collecting' \/ reader'.frames = <<>>, stream' = stream
      PROVE  Sent' = Sent
  BY <1>2, <1>4, <1>6 DEF Sent, Held
<1>7. CASE \/ \E room \in Rooms : ReadBegin(room)
           \/ ReadLink \/ ReadSession \/ AcceptCheck
  <2>1. ~Collecting /\ stream' = stream
    BY <1>7 DEF ReadBegin, ReadLink, ReadSession, AcceptCheck, Collecting, Reading
  <2>2. ~Collecting'
    <3>1. CASE \E room \in Rooms : ReadBegin(room)
      BY <3>1 DEF ReadBegin, Collecting, Reading
    <3>2. CASE ReadLink
      <4>1. \/ reader' = Idle
            \/ reader' = [at |-> "session", for |-> reader.for, left |-> reader.left]
        BY <1>1, <3>2, ReaderFacts DEF ReadLink
      <4>. QED
        BY <4>1 DEF Collecting, Reading, Idle
    <3>3. CASE ReadSession
      BY <3>3 DEF ReadSession, Collecting, Reading
    <3>4. CASE AcceptCheck
      BY <3>4 DEF AcceptCheck, Collecting, Reading
    <3>. QED
      BY <1>7, <3>1, <3>2, <3>3, <3>4
  <2>. QED
    BY <1>6, <2>1, <2>2
<1>8. CASE ReadCompare
  <2>1. ~Collecting /\ stream' = stream
    BY <1>8 DEF ReadCompare, Collecting, Reading
  <2>2. \/ reader' = Idle
        \/ reader' = [at |-> "loop", for |-> reader.for, left |-> reader.left, frames |-> <<>>]
    BY <1>8 DEF ReadCompare
  <2>3. ~Collecting' \/ reader'.frames = <<>>
    BY <2>2 DEF Collecting, Reading, Idle
  <2>. QED
    BY <1>6, <2>1, <2>3
<1>9. CASE ReadEnd \/ LinkCheck
  <2>1. Collecting /\ stream' = stream
    BY <1>9 DEF ReadEnd, LinkCheck, Collecting
  <2>2. CASE \E p \in {"check", "stage"} : reader' = [reader EXCEPT !.at = p]
    <3>1. reader'.frames = reader.frames /\ reader'.at \in {"check", "stage"}
      BY <1>1, <2>1, <2>2, ReaderFacts
    <3>2. Collecting'
      BY <3>1 DEF Collecting, Reading
    <3>. QED
      BY <2>1, <3>1, <3>2 DEF Sent, Held
  <2>3. CASE LinkCheck /\ reader' = Idle /\ ~(connected /\ ~resetRequested /\ session = reader.for)
    <3>1. ~Collecting'
      BY <2>3 DEF Collecting, Reading, Idle
    <3>. QED
      BY <1>2, <2>1, <2>3, <3>1 DEF Sent, Held
  <2>. QED
    BY <1>9, <2>2, <2>3 DEF ReadEnd, LinkCheck
<1>10. CASE LinkStage
  <2>1. Collecting /\ ~Collecting' /\ stream' = stream \o reader.frames
    BY <1>10 DEF LinkStage, Collecting, Reading, Idle
  <2>2. stream' \in Seq(Frames)
    BY <1>1, <1>3, <2>1, ConcatProperties
  <2>3. Sent' = stream' \o <<>>
    BY <2>1 DEF Sent, Held
  <2>. QED
    BY <1>5, <2>1, <2>2, <2>3, ConcatEmptySeq
<1>. QED
  BY <1>7, <1>8, <1>9, <1>10 DEF ReaderStep

(* What was sent is a sequence of frames.                                  *)
LEMMA SentType ==
  ASSUME ReaderTypes
  PROVE  Sent \in Seq(Frames)
<1>1. reader \in Readers /\ stream \in Seq(Frames)
  BY DEF ReaderTypes
<1>2. Held \in Seq(Frames)
  BY <1>1, ReaderFacts DEF Held
<1>. QED
  BY <1>1, <1>2, ConcatProperties DEF Sent

(* The frame a read copies is the one the client is to get next: the read  *)
(* has found the acquisition its client's, or the queue empty.             *)
LEMMA PoppedIsNext ==
  ASSUME IInv, ReadPop
  PROVE  /\ Popped.start = starts /\ Popped.sample = samples - count
         /\ Popped.layout = layout /\ Popped.index = (samples - count) % IndexMod
         /\ opened < starts /\ starts # 0 /\ prepared[starts] = layout
         /\ Precede(Sent, starts, samples - count)
<1>1. Alive /\ Reading("loop") /\ Popped = FrameOf(samples - count)
  BY ReadPopFacts
<1>2. ReadsForClient /\ Expected /\ LayoutTold
  BY DEF IInv
<1>3. Wanted
  BY <1>1, <1>2 DEF ReadsForClient, Wanted, Reading, Busy
<1>. QED
  BY <1>1, <1>2, <1>3 DEF Expected, LayoutTold, FrameOf

LEMMA SentExactStep ==
  ASSUME IInv, [Next]_vars
  PROVE  SentExact'
<1>1. /\ ScopeTypes /\ LinkTypes /\ ReaderTypes /\ SentExact
      /\ stream \in Seq(Frames) /\ Sent \in Seq(Frames)
      /\ Exact(stream, opened, prepared) /\ Exact(Sent, opened, prepared)
  BY SentType DEF IInv, ReaderTypes, SentExact
<1>2. /\ opened \in Nat /\ prepared \in Seq(Banks) /\ layout \in Banks
  BY <1>1, Zenon DEF ScopeTypes, LinkTypes
<1>. SUFFICES Exact(stream', opened', prepared') /\ Exact(Sent', opened', prepared')
  BY DEF SentExact, Exact
<1>3. ASSUME stream' \in {stream, Sent}, Sent' \in {stream, Sent},
             opened' = opened, prepared' \in {prepared, Append(prepared, layout)}
      PROVE  Exact(stream', opened', prepared') /\ Exact(Sent', opened', prepared')
  BY <1>1, <1>2, <1>3, ExactGrows
<1>4. prepared' \in {prepared, Append(prepared, layout)}
  BY <1>1, AliveSteps
<1>5. CASE UNCHANGED <<reader, stream, opened>>
  <2>1. Sent' = Sent
    BY <1>5 DEF Sent, Held, Collecting, Reading
  <2>. QED
    BY <1>3, <1>4, <1>5, <2>1
<1>6. CASE AcceptPeer
  <2>1. stream' = <<>> /\ ~Collecting'
    BY <1>6 DEF AcceptPeer, Collecting, Reading, Idle
  <2>2. Sent' = <<>>
    BY <2>1 DEF Sent, Held
  <2>. QED
    BY <2>1, <2>2 DEF Exact
<1>7. CASE ReadPop /\ UNCHANGED <<prepared, OfLink>>
  <2>1. Popped \in Frames
    BY <1>7, ReadPopFacts
  <2>2. Sent' = Append(Sent, Popped) /\ stream' = stream /\ UNCHANGED <<opened, prepared>>
    BY <1>1, <1>7, <2>1, PopSent DEF ReadPop, link, OfLink
  <2>3. Exact(Append(Sent, Popped), opened, prepared)
    <3>1. /\ Popped.start = starts /\ Popped.sample = samples - count
          /\ Popped.layout = prepared[Popped.start]
          /\ Popped.index = Popped.sample % IndexMod
          /\ opened < starts /\ Precede(Sent, starts, samples - count)
      BY <1>7, PoppedIsNext
    <3>2. Popped.start <= Len(prepared) /\ Popped.start > opened
      BY <1>1, <1>2, <3>1, StartsFacts DEF starts
    <3>3. Precede(Sent, Popped.start, Popped.sample)
      BY <3>1
    <3>. QED
      BY <1>1, <1>2, <2>1, <3>1, <3>2, <3>3, ExactAppends
  <2>. QED
    BY <1>1, <2>2, <2>3
<1>8. CASE ReaderStep /\ UNCHANGED <<prepared, OfLink>>
  <2>1. opened' = opened /\ prepared' = prepared
    BY <1>8 DEF link, OfLink
  <2>2. stream' \in {stream, Sent} /\ Sent' \in {stream, Sent}
    BY <1>1, <1>8, SentSteps
  <2>. QED
    BY <1>3, <2>1, <2>2
<1>. QED
  BY <1>5, <1>6, <1>7, <1>8, LinkSteps DEF link, OfLink

(* The next frame is the expected one again: a step of the interrupt or of *)
(* a read moves both ends together, a start begins at sample 0, and a      *)
(* change of session finds nothing alive that is not its own.              *)
LEMMA ExpectedStep ==
  ASSUME IInv, [Next]_vars
  PROVE  Expected'
<1>1. /\ ScopeTypes /\ LinkTypes /\ ReaderTypes /\ SessionsForward /\ AdoptsClean
      /\ ReadsForClient /\ ReadsUnreset /\ SentExact /\ Expected
  BY DEF IInv
<1>2. /\ session \in Nat /\ activeSession \in Nat /\ connected \in BOOLEAN
      /\ starts \in Nat /\ opened \in Nat
      /\ activeSession <= session /\ opened <= starts /\ samples \in Nat /\ count \in Nat
  BY <1>1, StartsFacts DEF ScopeTypes, LinkTypes, SessionsForward
<1>3. ASSUME ~Alive' \/ ~Wanted' PROVE Expected'
  BY <1>3 DEF Expected
<1>4. ASSUME Alive' => Alive, Wanted' => Wanted, samples' - count' = samples - count,
             UNCHANGED <<starts, opened>>, Sent' = Sent
      PROVE  Expected'
  BY <1>1, <1>4 DEF Expected, Precede
<1>5. ASSUME UNCHANGED <<OfLink, activeSession, reader, stream>> PROVE Expected'
  <2>1. /\ opened' = opened /\ (Wanted' <=> Wanted) /\ Sent' = Sent
    BY <1>5 DEF link, OfLink, Wanted, Busy, Client, Reading, Sent, Held, Collecting
  <2>2. CASE ServeStart /\ starts' = starts + 1 /\ samples' = 0 /\ count' = 0
    <3>1. ASSUME Sent # <<>> PROVE Sent[Len(Sent)].start < starts + 1
      <4>1. Sent \in Seq(Frames)
        BY <1>1, SentType
      <4>2. Len(Sent) \in DOMAIN Sent /\ Sent[Len(Sent)] \in Frames
        BY <3>1, <4>1, EmptySeq, LenProperties, ElementOfSeq
      <4>3. Sent[Len(Sent)].start \in Nat
        BY <4>2 DEF Frames
      <4>4. Sent[Len(Sent)].start <= starts
        BY <1>1, <4>2 DEF SentExact, Exact, starts
      <4>. QED
        BY <1>2, <4>3, <4>4
    <3>2. opened < starts + 1 /\ samples' - count' = 0
      BY <1>2, <2>2
    <3>3. Precede(Sent, starts + 1, 0)
      BY <3>1 DEF Precede
    <3>4. Precede(Sent', starts', samples' - count')
      BY <2>1, <2>2, <3>2, <3>3
    <3>5. opened' < starts'
      BY <2>1, <2>2, <3>2
    <3>. QED
      BY <3>4, <3>5 DEF Expected, Precede
  <2>3. CASE (Alive' => Alive) /\ starts' = starts
    <3>1. CASE Publish
      <4>1. samples' - count' = samples - count
        BY <1>2, <3>1 DEF Publish
      <4>. QED
        BY <1>4, <2>1, <2>3, <4>1
    <3>2. CASE Stopped
      BY <1>3, <3>2 DEF Stopped, Alive
    <3>3. CASE UNCHANGED <<samples, count>>
      BY <1>4, <2>1, <2>3, <3>3
    <3>4. CASE ReadPop
      <4>1. reader' = reader /\ stream' = stream
        BY <1>5
      <4>2. Len(Append(reader.frames, Popped)) = Len(reader.frames) + 1
            /\ Len(reader.frames) \in Nat
        BY <3>4, ReadPopFacts, AppendProperties, LenProperties
      <4>3. reader'.frames = Append(reader.frames, Popped)
        BY <3>4, ReadPopFacts
      <4>. QED
        BY <4>1, <4>2, <4>3
    <3>. QED
      <4>1. CASE ServeStart
        BY <2>3, <1>1, <1>2, <3>3, <4>1 DEF ServeStart, scope, starts, Started
      <4>. QED
        BY <3>1, <3>2, <3>3, <3>4, <4>1, ScopeSteps
           DEF Overflow, ServeClear, ServeSet, ServeSwap, Edited, OfScope, scope
  <2>. QED
    BY <1>1, <2>2, <2>3, AliveSteps
<1>6. CASE Retired /\ UNCHANGED <<scope, prepared, opened, activeSession, reader, stream>>
  <2>1. Client' = Client /\ connected' = FALSE
    BY <1>1, <1>6, RetiredFacts
  <2>2. Wanted' => Wanted
    BY <1>6, <2>1 DEF Wanted, Reading, Busy
  <2>3. /\ Sent' = Sent /\ UNCHANGED <<starts, opened, samples, count>> /\ (Alive' => Alive)
    BY <1>6 DEF Sent, Held, Collecting, Reading, starts, scope, Alive
  <2>. QED
    BY <1>4, <2>2, <2>3
<1>7. CASE AcceptPeer /\ UNCHANGED activeSession
  <2>1. Client' = session + 1
    BY <1>7 DEF AcceptPeer, Client
  <2>2. activeSession' # Client'
    BY <1>2, <1>7, <2>1
  <2>. QED
    BY <1>3, <2>2 DEF Wanted
<1>8. CASE /\ ManageAdopt \/ ServeStopSession
           /\ UNCHANGED <<scope, prepared, OfLink, reader, stream>>
  <2>1. activeSession' = activeSession \/ ~Alive
    BY <1>1, <1>8 DEF ManageAdopt, ServeStopSession, AdoptsClean
  <2>2. Alive' <=> Alive
    BY <1>8 DEF scope, Alive
  <2>. QED
    BY <1>3, <1>5, <1>8, <2>1, <2>2
<1>9. CASE ReadPop /\ UNCHANGED <<layout, prepared, OfLink, activeSession>>
  <2>1. Popped \in Frames
    BY <1>9, ReadPopFacts
  <2>2. Sent' = Append(Sent, Popped)
    BY <1>1, <1>9, <2>1, PopSent
  <2>3. /\ Sent' # <<>> /\ Sent'[Len(Sent')] = Popped
    BY <1>1, <2>1, <2>2, SentType, AppendProperties
  <2>4. /\ Popped.start = starts /\ Popped.sample = samples - count /\ opened < starts
    BY <1>9, PoppedIsNext
  <2>5. samples' - count' - 1 = samples - count
    BY <1>2, <1>9 DEF ReadPop, Pop
  <2>6. starts' = starts /\ opened' = opened
    BY <1>9 DEF starts, link, OfLink
  <2>. QED
    BY <2>3, <2>4, <2>5, <2>6 DEF Expected, Precede
<1>10. CASE ReaderStep /\ UNCHANGED <<scope, layout, prepared, OfLink, activeSession>>
  <2>1. /\ UNCHANGED <<session, connected, starts, opened, samples, count>>
        /\ (Alive' => Alive) /\ Client' = Client
    BY <1>10 DEF scope, link, OfLink, starts, Alive, Client
  <2>2. Wanted' => Wanted
    <3>1. CASE \E room \in Rooms : ReadBegin(room)
      BY <1>10, <2>1, <3>1 DEF ReadBegin, Wanted
    <3>2. CASE AcceptCheck
      BY <1>10, <2>1, <3>2 DEF AcceptCheck, Wanted, Busy, Reading
    <3>3. CASE ~AcceptCheck /\ ~ \E room \in Rooms : ReadBegin(room)
      <4>1. Busy
        BY <1>10, <3>3 DEF ReaderStep, ReadLink, ReadSession, ReadCompare, ReadEnd,
                           LinkCheck, LinkStage, Reading, Busy
      <4>. QED
        BY <1>10, <2>1, <4>1 DEF Wanted
    <3>. QED
      BY <3>1, <3>2, <3>3
  <2>3. CASE LinkCheck /\ reader' = Idle /\ ~(connected /\ ~resetRequested /\ session = reader.for)
    <3>1. reader.for = Client /\ (connected => ~resetRequested)
      BY <1>1, <2>3 DEF LinkCheck, ReadsForClient, ReadsUnreset, Reading, Busy
    <3>2. ~connected
      BY <2>3, <3>1 DEF Client
    <3>3. ~Wanted'
      BY <2>1, <2>3, <3>2 DEF Wanted, Reading, Busy, Idle
    <3>. QED
      BY <1>3, <3>3
  <2>4. CASE Sent' = Sent
    BY <1>4, <2>1, <2>2, <2>4
  <2>. QED
    BY <1>1, <1>10, <2>3, <2>4, SentSteps
<1>. QED
  BY <1>5, <1>6, <1>7, <1>8, <1>9, <1>10, LinkSteps

----------------------------------------------------------------------------
(* The layout the client was told is changed only with nothing alive, and  *)
(* noted for the acquisition that a start brings to life.                  *)
LEMMA LayoutStep ==
  ASSUME IInv, [Next]_vars
  PROVE  LayoutTold'
<1>1. LayoutTold /\ ScopeTypes
  BY DEF IInv, ScopeTypes
<1>2. ASSUME layout' = active', UNCHANGED layout PROVE LayoutTold'
  <2>1. CASE UNCHANGED <<prepared, starts>> /\ (Alive' => Alive)
    BY <1>1, <1>2, <2>1 DEF LayoutTold
  <2>2. CASE prepared' = Append(prepared, layout) /\ starts' = starts + 1
    BY <1>1, <1>2, <2>2, StartsFacts DEF LayoutTold
  <2>. QED
    BY <1>1, <2>1, <2>2, AliveSteps
<1>3. CASE UNCHANGED <<active, layout>>
  BY <1>1, <1>2, <1>3 DEF LayoutTold
<1>4. ASSUME NEW bank, Edited(bank), UNCHANGED layout PROVE LayoutTold'
  <2>1. layout' = active'
    BY <1>1, <1>4 DEF Edited, LayoutTold
  <2>. QED
    BY <1>2, <1>4, <2>1
<1>5. CASE ServeSwap
  <2>1. CASE Swappable
    BY <1>5, <2>1 DEF ServeSwap, Swappable, LayoutTold, Alive
  <2>2. CASE ~Swappable
    BY <1>3, <1>5, <2>2 DEF ServeSwap
  <2>. QED
    BY <2>1, <2>2
<1>6. CASE (ServeClear \/ ServeSet) /\ UNCHANGED <<layout, prepared, starts>>
  BY <1>4, <1>6 DEF ServeClear, ServeSet
<1>7. CASE ServeStart
  BY <1>3, <1>7 DEF ServeStart, Started, scope
<1>. QED
  BY <1>3, <1>5, <1>6, <1>7, ScopeSteps
     DEF Overflow, Publish, ReadPop, Pop, Stopped, OfScope, scope

(* At power-up there is no acquisition, no session and nothing sent.       *)
LEMMA InitIInv == Init => IInv
<1>. SUFFICES ASSUME Init PROVE IInv
  OBVIOUS
<1>1. ScopeTypes /\ LinkTypes /\ ReaderTypes
  <2>1. ring = [i \in 0 .. Capacity - 1 |-> ring[i]]
    BY DEF Init
  <2>2. active \in Banks /\ config \in Banks /\ layout \in Banks
    BY BanksAreNat DEF Init
  <2>3. requests \in Nat /\ stream \in Seq(Frames) /\ prepared \in Seq(Banks)
    BY DEF Init
  <2>4. manager \in Managers /\ reader \in Readers
    BY ManagersBuilt, ReadersBuilt DEF Init
  <2>5. ScopeTypes
    <3>1. /\ frameSize = 0 /\ queueLimit = 0 /\ head = 0 /\ tail = 0
          /\ count = 0 /\ samples = 0
      BY DEF Init
    <3>2. running \in BOOLEAN
      BY DEF Init
    <3>3. /\ frameSize \in Nat /\ queueLimit \in Nat /\ head \in Nat
          /\ tail \in Nat /\ count \in Nat /\ samples \in Nat
      BY <3>1
    <3>. QED
      BY <2>1, <2>2, <2>3, <3>2, <3>3 DEF ScopeTypes
  <2>6. LinkTypes
    BY <2>3, <2>4 DEF Init, LinkTypes
  <2>. QED
    BY <2>3, <2>4, <2>5, <2>6 DEF ReaderTypes
<1>2. ~Alive /\ starts = 0
  BY DEF Init, Alive, starts
<1>3. LayoutTold /\ QueueSound
  BY <1>2 DEF Init, LayoutTold, QueueSound
<1>4. SessionsForward /\ AdoptsClean /\ ReadsForClient /\ ReadsUnreset
  BY <1>2 DEF Init, SessionsForward, AdoptsClean, ReadsForClient, ReadsUnreset, At, Reading,
              Busy, Idle
<1>5. SentExact /\ Expected
  <2>1. stream = <<>> /\ Sent = <<>>
    BY DEF Init, Sent, Held, Collecting, Reading, Idle
  <2>. QED
    BY <1>2, <2>1 DEF SentExact, Exact, Expected
<1>. QED
  BY <1>1, <1>3, <1>4, <1>5 DEF IInv

(* The invariant of the scope and its link: an acquisition owns a ring of  *)
(* whole frames, sampled by the layout the client was told before it was   *)
(* started; it belongs to the session it was adopted with; and a read that *)
(* manage() interrupts anywhere stays with its client.                     *)
THEOREM Invariance == Spec => []IInv
<1>1. Init => IInv
  BY InitIInv
<1>2. IInv /\ [Next]_vars => IInv'
  BY ScopeTypesStep, LinkTypesStep, ReaderTypesStep, LayoutStep, QueueStep, SessionsStep,
     AdoptsStep, ReadsStep, ReadsUnresetStep, SentExactStep, ExpectedStep DEF IInv
<1>. QED
  BY <1>1, <1>2, PTL DEF Spec

(* StreamExact, checked by run scope: from the bytes the link task pops    *)
(* and stages while manage() runs between any two of its steps, a client   *)
(* is sent whole frames, each laid out as the device had reported before   *)
(* that acquisition started, every sample of an acquisition in order, and  *)
(* nothing of an acquisition that was started before the client was        *)
(* accepted.                                                               *)
THEOREM StreamIsExact == Spec => []StreamExact
<1>1. IInv => StreamExact
  BY DEF IInv, SentExact, Exact, StreamExact
<1>. QED
  BY <1>1, Invariance, PTL

(* ReadFits, checked by run scope: a read tests the room by the            *)
(* layout of the active bank, and what it then copies by the stride of the *)
(* acquisition never overruns it, whatever manage() swaps or starts while  *)
(* the read is under way.                                                  *)
THEOREM ReadsFit == Spec => []ReadFits
<1>1. ASSUME IInv PROVE ReadFits
  <2>1. reader \in Readers
    BY <1>1 DEF IInv, ReaderTypes
  <2>2. Reading("loop") \/ Reading("check") \/ Reading("stage") => reader.left \in Nat
    BY <2>1, ReaderFacts DEF Reading, Busy
  <2>. QED
    BY <2>2 DEF ReadFits
<1>. QED
  BY <1>1, Invariance, PTL
=============================================================================
