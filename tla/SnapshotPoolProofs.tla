------------------------- MODULE SnapshotPoolProofs -------------------------
(***************************************************************************)
(* Proofs about SnapshotPool for every pool size, every number of records  *)
(* and every set of tasks, groups and frames.                              *)
(***************************************************************************)
EXTENDS SnapshotPool, TLAPS

(* The inductive invariant: the ring accounting, what the records say of   *)
(* the tasks, and the fact that corruption is never latched.               *)
IInv ==
  /\ TypeOK
  /\ RecordsMatchTasks
  /\ RingInv
  /\ OldestIsLive
  /\ NeverCorrupt

(* The distance around a ring of PoolWords words from position h to the    *)
(* end e of a span, and what moving h past the end of a nearer span does.  *)
Distance(h, e) == IF e > h THEN e - h ELSE e + PoolWords - h

LEMMA DistanceShift ==
  ASSUME NEW h \in Cells, NEW near \in 1 .. PoolWords, NEW far \in 1 .. PoolWords,
         Distance(h, near) < Distance(h, far)
  PROVE  /\ WrapEnd(near) \in Cells
         /\ Distance(WrapEnd(near), far) = Distance(h, far) - Distance(h, near)
BY PoolAssumption DEF Distance, WrapEnd, Cells

LEMMA DistanceRange ==
  ASSUME NEW h \in Cells, NEW e \in 1 .. PoolWords
  PROVE  Distance(h, e) \in 1 .. PoolWords
BY PoolAssumption DEF Distance, Cells

(* Moving record_head on by one slot moves every other slot one position   *)
(* nearer and makes the retired slot the farthest.                         *)
LEMMA PositionShift ==
  ASSUME NEW h \in Slots, NEW i \in Slots,
         NEW p, p = (IF i >= h THEN i - h ELSE i + MaxRecords - h),
         NEW q, q = (IF i >= NextSlot(h) THEN i - NextSlot(h)
                                         ELSE i + MaxRecords - NextSlot(h))
  PROVE  /\ NextSlot(h) \in Slots
         /\ p \in 0 .. MaxRecords - 1
         /\ (i = h) <=> (p = 0)
         /\ q = IF i = h THEN MaxRecords - 1 ELSE p - 1
BY PoolAssumption DEF NextSlot, Slots

LEMMA ReachInt ==
  ASSUME TypeOK, NEW i \in Slots
  PROVE  records[i].charge \in Nat /\ Reach(records[i]) \in Int
<1>1. records[i] \in RecordType
  BY DEF TypeOK
<1>2. /\ records[i].offset \in Nat /\ records[i].words \in Nat
      /\ records[i].charge \in Nat
  BY <1>1 DEF RecordType
<1>3. pool_head \in Int /\ PoolWords \in Int
  BY PoolAssumption DEF TypeOK, Cells
<1> QED BY <1>2, <1>3 DEF Reach

THEOREM InitInv == Init => IInv
<1> SUFFICES ASSUME Init PROVE IInv
  OBVIOUS
<1> USE PoolAssumption DEF Init
<1>1. TypeOK
  <2>1. records \in [Slots -> RecordType]
    BY DEF RecordType, ZeroRecord
  <2>2. LockType
    BY DEF LockType, Free
  <2>3. pool \in [Cells -> Word \cup {NONE}] /\ record \in [Tasks -> Slots \cup {NONE}]
    OBVIOUS
  <2>4. 0 \in Slots /\ 0 \in Cells /\ 0 \in 0 .. MaxRecords /\ 0 \in 0 .. PoolWords
    BY DEF Slots, Cells
  <2> QED BY <2>1, <2>2, <2>3, <2>4 DEF TypeOK
<1>2. \A i \in Slots : ~InWindow(i) /\ Position(i) + 1 # record_count
  BY DEF InWindow, Position, Slots
<1>3. RecordsMatchTasks
  BY <1>2 DEF RecordsMatchTasks
<1>4. RingInv
  BY <1>2 DEF RingInv, ChargesAdjacent, LastReachesTail, Position
<1> QED BY <1>1, <1>3, <1>4 DEF IInv, OldestIsLive, HeadConsumed, NeverCorrupt

----------------------------------------------------------------------------
(* Steps that leave the records and the ring alone keep the accounting.    *)

LEMMA FrameRing ==
  ASSUME RingInv, UNCHANGED <<ringVars, spaceVars>>,
         record_count = 0 /\ lock'.op \in {"free", "place"} => pool_head = 0 /\ pool_tail = 0
  PROVE  RingInv'
BY DEF RingInv, ringVars, spaceVars, Position, InWindow, RecordFits, Reach,
       ChargesAdjacent, LastReachesTail

LEMMA FrameTasks ==
  ASSUME RecordsMatchTasks, UNCHANGED <<ringVars, taskVars>>
  PROVE  RecordsMatchTasks'
BY DEF RecordsMatchTasks, ringVars, taskVars, InWindow, Position

(* Between operations an empty history has rewound the pool.               *)
LEMMA BeginInv ==
  ASSUME IInv, lock = Free,
         UNCHANGED <<ringVars, spaceVars, taskVars, pool, runtime, fault>>, LockType',
         lock'.op \in {"save", "reap"}
  PROVE  IInv'
<1>1. TypeOK'
  BY DEF IInv, TypeOK, ringVars, spaceVars, taskVars
<1>2. RecordsMatchTasks'
  BY FrameTasks DEF IInv
<1>3. RingInv'
  BY FrameRing DEF IInv
<1> QED BY <1>1, <1>2, <1>3 DEF IInv, OldestIsLive, NeverCorrupt

LEMMA SaveBeginInv ==
  ASSUME IInv, NEW t \in Tasks, NEW f \in Frames, SaveBegin(t, f)
  PROVE  IInv'
<1>1. LockType'
  BY DEF SaveBegin, LockType, taskVars
<1> QED BY <1>1, BeginInv DEF SaveBegin

LEMMA ReapBeginInv ==
  ASSUME IInv, ReapBegin
  PROVE  IInv'
<1>1. LockType'
  BY DEF ReapBegin, LockType, Free
<1> QED BY <1>1, BeginInv DEF ReapBegin, Free

LEMMA SaveRejectInv ==
  ASSUME IInv, SaveReject
  PROVE  IInv'
<1>1. LockType'
  BY DEF SaveReject, LockType, Free
<1>2. TypeOK'
  BY <1>1 DEF SaveReject, IInv, TypeOK, ringVars, spaceVars, taskVars
<1>3. RecordsMatchTasks'
  BY FrameTasks DEF SaveReject, IInv
<1>4. RingInv'
  BY FrameRing DEF SaveReject, IInv, RingInv
<1>5. OldestIsLive'
  BY DEF SaveReject, IInv, OldestIsLive, HeadConsumed, ringVars
<1> QED BY <1>2, <1>3, <1>4, <1>5 DEF IInv, NeverCorrupt, SaveReject

----------------------------------------------------------------------------
(* records_reap.  Rewinding an empty pool keeps the accounting, and an     *)
(* empty history never finds a charged word.                               *)
LEMMA ReapEndInv ==
  ASSUME IInv, ReapEnd
  PROVE  IInv'
<1> USE PoolAssumption
<1>1. fault' = FALSE /\ pool_used' = pool_used
  BY DEF ReapEnd, IInv, RingInv
<1>2. /\ pool_head' \in Cells /\ pool_tail' \in Cells
      /\ record_count # 0 => pool_head' = pool_head /\ pool_tail' = pool_tail
      /\ record_count = 0 => pool_head' = 0 /\ pool_tail' = 0
  BY DEF ReapEnd, IInv, TypeOK, Cells
<1>3. LockType' /\ lock'.op \in {"free", "place"}
  BY <1>1 DEF ReapEnd, IInv, TypeOK, LockType, Free, taskVars
<1>4. TypeOK'
  BY <1>1, <1>2, <1>3 DEF ReapEnd, IInv, TypeOK, ringVars, taskVars
<1>5. RecordsMatchTasks'
  BY FrameTasks DEF ReapEnd, IInv
<1>6. CASE record_count = 0
  <2>1. \A i \in Slots : ~InWindow(i)' /\ Position(i)' + 1 # record_count'
    BY <1>6 DEF IInv, TypeOK, ReapEnd, ringVars, InWindow, Position, Slots
  <2>2. RingInv'
    BY <1>1, <1>2, <1>6, <2>1
       DEF RingInv, ChargesAdjacent, LastReachesTail, IInv, ReapEnd, ringVars, Position
  <2> QED BY <1>1, <1>4, <1>5, <1>6, <2>2
          DEF IInv, OldestIsLive, HeadConsumed, NeverCorrupt, ReapEnd, ringVars
<1>7. CASE record_count # 0
  <2>1. UNCHANGED <<ringVars, spaceVars>>
    BY <1>1, <1>2, <1>7 DEF ReapEnd, spaceVars
  <2>2. RingInv'
    BY <1>7, <2>1, FrameRing DEF IInv
  <2> QED BY <1>1, <1>4, <1>5, <2>2
          DEF IInv, OldestIsLive, HeadConsumed, NeverCorrupt, ReapEnd, ringVars
<1> QED BY <1>6, <1>7

(* Popping the consumed head record returns exactly its charge and moves   *)
(* pool_head to its end.                                                   *)
LEMMA ReapPopInv ==
  ASSUME IInv, ReapPop
  PROVE  IInv'
<1> USE PoolAssumption
<1> DEFINE r == records[record_head]
<1> DEFINE P(i) == Position(i)
<1>0. /\ TypeOK /\ RecordsMatchTasks /\ RingInv /\ OldestIsLive /\ ~fault
      /\ record_head \in Slots /\ record_count \in 1 .. MaxRecords
      /\ records \in [Slots -> RecordType]
      /\ pool_head \in Cells /\ pool_used \in 0 .. PoolWords
      /\ r.consumed
  BY DEF IInv, TypeOK, ReapPop, HeadConsumed, NeverCorrupt
<1>1. Position(record_head) = 0 /\ InWindow(record_head)
  BY <1>0 DEF Position, InWindow, Slots
<1>2. /\ RecordFits(r) /\ r.charge = Reach(r)
      /\ r.offset \in Nat /\ r.words \in Nat /\ r.charge \in Nat
      /\ r.offset + r.words \in 1 .. PoolWords
  BY <1>0, <1>1 DEF RingInv, ChargesAdjacent, RecordFits, RecordType
<1>3. Reapable(r)
  BY <1>0, <1>2 DEF Reapable, RecordFits
<1>4. /\ pool_head' = WrapEnd(r.offset + r.words)
      /\ pool_used' = pool_used - Reach(r)
      /\ records' = [records EXCEPT ![record_head] = ZeroRecord]
      /\ record_head' = NextSlot(record_head)
      /\ record_count' = record_count - 1
      /\ UNCHANGED <<lock, fault, record_tail, pool_tail, record, old, pool, runtime>>
  BY <1>2, <1>3 DEF ReapPop, taskVars
<1>5. \A i \in Slots :
        /\ Position(i) \in 0 .. MaxRecords - 1
        /\ i = record_head <=> Position(i) = 0
        /\ Position(i)' = IF i = record_head THEN MaxRecords - 1 ELSE Position(i) - 1
  BY <1>0, <1>4, PositionShift DEF Position
<1>6. \A i \in Slots :
        InWindow(i)' => /\ i # record_head /\ InWindow(i) /\ records'[i] = records[i]
                        /\ Position(i)' = Position(i) - 1
  BY <1>0, <1>4, <1>5 DEF InWindow
<1>7. \A i \in Slots : InWindow(i) /\ i # record_head => InWindow(i)'
  BY <1>0, <1>4, <1>5 DEF InWindow
(* Seen from the new head every later record is nearer by the charge of    *)
(* the retired one.                                                        *)
<1>8. \A i \in Slots :
        InWindow(i)' => /\ Reach(records[i])' = Reach(records[i]) - Reach(r)
                        /\ Reach(r) + records[i].charge <= Reach(records[i])
  <2> SUFFICES ASSUME NEW i \in Slots, InWindow(i)'
               PROVE  /\ Reach(records[i])' = Reach(records[i]) - Reach(r)
                      /\ Reach(r) + records[i].charge <= Reach(records[i])
    OBVIOUS
  <2> DEFINE s == records[i]
  <2>1. /\ RecordFits(s) /\ s.offset \in Nat /\ s.words \in Nat /\ s.charge \in Nat
        /\ s.offset + s.words \in 1 .. PoolWords /\ s.charge > 0
    BY <1>0, <1>6 DEF RingInv, RecordFits, RecordType
  <2>2. Reach(r) + s.charge <= Reach(s)
    BY <1>0, <1>1, <1>5, <1>6 DEF RingInv, ChargesAdjacent
  <2>3. /\ Reach(r) = Distance(pool_head, r.offset + r.words)
        /\ Reach(s) = Distance(pool_head, s.offset + s.words)
    BY DEF Reach, Distance
  <2>4. Distance(pool_head, r.offset + r.words) \in Int
        /\ Distance(pool_head, s.offset + s.words) \in Int
    BY <1>0, <1>2, <2>1, DistanceRange
  <2>5. Distance(pool_head', s.offset + s.words) = Reach(s) - Reach(r)
    BY <1>0, <1>2, <1>4, <2>1, <2>2, <2>3, <2>4, DistanceShift
  <2>6. Reach(records[i])' = Distance(pool_head', s.offset + s.words)
    BY <1>6 DEF Reach, Distance
  <2> QED BY <2>2, <2>5, <2>6
<1>9. TypeOK'
  <2>1. records' \in [Slots -> RecordType]
    BY <1>0, <1>4 DEF RecordType, ZeroRecord
  <2>2. record_head' \in Slots /\ record_count' \in 0 .. MaxRecords
    BY <1>0, <1>4, PositionShift DEF Position
  <2>3. pool_head' \in Cells /\ pool_used' \in 0 .. PoolWords
    BY <1>0, <1>2, <1>4 DEF WrapEnd, Cells, RecordFits
  <2>4. LockType'
    BY <1>0, <1>4 DEF TypeOK, LockType
  <2> QED BY <1>0, <1>4, <2>1, <2>2, <2>3, <2>4 DEF TypeOK
<1>10. RecordsMatchTasks'
  BY <1>0, <1>4, <1>6, <1>7 DEF RecordsMatchTasks
<1>11. RingInv'
  <2>1. \A i \in Slots : InWindow(i)' => RecordFits(records[i])'
    <3> SUFFICES ASSUME NEW i \in Slots, InWindow(i)' PROVE RecordFits(records[i])'
      OBVIOUS
    <3>1. RecordFits(records[i])
      BY <1>0, <1>6 DEF RingInv
    <3>2. /\ Reach(records[i])' = Reach(records[i]) - Reach(r)
          /\ Reach(r) + records[i].charge <= Reach(records[i])
          /\ records'[i] = records[i]
      BY <1>6, <1>8
    <3>3. records[i].charge \in Nat /\ Reach(records[i]) \in Int /\ Reach(r) \in Int
      BY <1>0, ReachInt
    <3> QED BY <1>0, <1>4, <3>1, <3>2, <3>3 DEF RecordFits, Reach
  <2>2. ChargesAdjacent'
    <3> SUFFICES ASSUME NEW i \in Slots, NEW j \in Slots, InWindow(i)', InWindow(j)'
                 PROVE  /\ Position(i)' = 0 => records'[i].charge = Reach(records[i])'
                        /\ Position(j)' = Position(i)' + 1 =>
                             records'[j].charge = Reach(records[j])' - Reach(records[i])'
                        /\ Position(i)' < Position(j)' =>
                             Reach(records[i])' + records'[j].charge <= Reach(records[j])'
      BY DEF ChargesAdjacent
    <3>1. /\ Position(i)' = Position(i) - 1 /\ Position(j)' = Position(j) - 1
          /\ Position(i) \in Int /\ Position(j) \in Int
          /\ records'[i] = records[i] /\ records'[j] = records[j]
      BY <1>5, <1>6
    <3>2. /\ Position(i) = 1 => records[i].charge = Reach(records[i]) - Reach(r)
          /\ Position(j) = Position(i) + 1 =>
               records[j].charge = Reach(records[j]) - Reach(records[i])
          /\ Position(i) < Position(j) =>
               Reach(records[i]) + records[j].charge <= Reach(records[j])
      BY <1>0, <1>1, <1>6 DEF RingInv, ChargesAdjacent
    <3>3. /\ Reach(records[i])' = Reach(records[i]) - Reach(r)
          /\ Reach(records[j])' = Reach(records[j]) - Reach(r)
      BY <1>8
    <3>4. /\ records[j].charge \in Nat /\ Reach(r) \in Int
          /\ Reach(records[i]) \in Int /\ Reach(records[j]) \in Int
      BY <1>0, ReachInt
    <3>5. Position(i)' = 0 => records'[i].charge = Reach(records[i])'
      BY <3>1, <3>2, <3>3
    <3>6. Position(j)' = Position(i)' + 1 =>
            records'[j].charge = Reach(records[j])' - Reach(records[i])'
      BY <3>1, <3>2, <3>3, <3>4
    <3>7. Position(i)' < Position(j)' =>
            Reach(records[i])' + records'[j].charge <= Reach(records[j])'
      BY <3>1, <3>2, <3>3, <3>4
    <3> QED BY <3>5, <3>6, <3>7
  <2>3. LastReachesTail'
    <3> SUFFICES ASSUME NEW i \in Slots, Position(i)' + 1 = record_count'
                 PROVE  /\ Reach(records[i])' = pool_used'
                        /\ pool_tail' = WrapEnd(records'[i].offset + records'[i].words)
      BY DEF LastReachesTail
    <3>1. InWindow(i)' /\ Position(i) + 1 = record_count
      BY <1>0, <1>4, <1>5 DEF InWindow
    <3>2. Reach(records[i]) = pool_used
          /\ pool_tail = WrapEnd(records[i].offset + records[i].words)
      BY <1>0, <3>1 DEF RingInv, LastReachesTail
    <3> QED BY <1>4, <1>6, <1>8, <3>1, <3>2
  <2>4. Position(record_tail)' = IF record_count' = MaxRecords THEN 0 ELSE record_count'
    BY <1>0, <1>4, <1>5 DEF RingInv, TypeOK
  <2>5. record_count' = 0 => pool_used' = 0
    <3> SUFFICES ASSUME record_count' = 0 PROVE pool_used' = 0
      OBVIOUS
    <3>1. Reach(r) = pool_used
      BY <1>0, <1>1, <1>4 DEF RingInv, LastReachesTail
    <3> QED BY <1>0, <1>4, <3>1
  <2>6. lock'.op \notin {"free", "place"}
    BY <1>4 DEF ReapPop
  <2> QED BY <2>1, <2>2, <2>3, <2>4, <2>5, <2>6 DEF RingInv
<1> QED BY <1>0, <1>4, <1>9, <1>10, <1>11 DEF IInv, OldestIsLive, NeverCorrupt, ReapPop

----------------------------------------------------------------------------
(* Consuming records changes neither their spans nor the accounting.       *)
LEMMA TombstoneRing ==
  ASSUME RingInv, lock'.op = "reap",
         UNCHANGED <<record_head, record_tail, record_count, spaceVars>>,
         \A i \in Slots :
           /\ records'[i].owner = records[i].owner /\ records'[i].task = records[i].task
           /\ records'[i].offset = records[i].offset
           /\ records'[i].words = records[i].words
           /\ records'[i].charge = records[i].charge
  PROVE  RingInv'
<1>1. UNCHANGED <<pool_head, pool_tail, pool_used>>
  BY DEF spaceVars
<1>2. \A i \in Slots : /\ Position(i)' = Position(i) /\ InWindow(i)' = InWindow(i)
                        /\ Reach(records[i])' = Reach(records[i])
  BY <1>1 DEF Position, InWindow, Reach
<1>3. \A i \in Slots : RecordFits(records[i]) => RecordFits(records[i])'
  BY <1>1, <1>2 DEF RecordFits
<1>4. ChargesAdjacent'
  BY <1>2 DEF RingInv, ChargesAdjacent
<1>5. LastReachesTail'
  BY <1>1, <1>2 DEF RingInv, LastReachesTail
<1>6. Position(record_tail)' = Position(record_tail)
  BY DEF Position
<1> QED BY <1>1, <1>2, <1>3, <1>4, <1>5, <1>6 DEF RingInv

(* snapshot_restore of a task in TASK_OLD always finds a usable record.    *)
LEMMA OldIsRestorable ==
  ASSUME IInv, NEW t \in old
  PROVE  Restorable(t)
<1> DEFINE r == records[record[t]]
<1>1. record[t] \in Slots /\ InWindow(record[t]) /\ r.task = t /\ ~r.consumed
  BY DEF IInv, RecordsMatchTasks
<1>2. RecordFits(r) /\ r \in RecordType
  BY <1>1 DEF IInv, RingInv, TypeOK
<1>3. r.offset \in Nat /\ r.words \in Nat /\ PoolWords \in Nat
  BY <1>2, PoolAssumption DEF RecordType
<1>4. r.words <= PoolWords /\ r.offset <= PoolWords - r.words /\ r.owner = Group[t]
  BY <1>1, <1>2, <1>3 DEF RecordFits
<1> QED BY <1>1, <1>4 DEF Restorable

LEMMA RestoreInv ==
  ASSUME IInv, NEW t \in Tasks, Restore(t)
  PROVE  IInv'
<1> USE PoolAssumption
<1>0. TypeOK /\ RecordsMatchTasks /\ RingInv /\ ~fault /\ t \in old
  BY DEF IInv, Restore
<1>1. record[t] \in Slots /\ records \in [Slots -> RecordType]
  BY <1>0 DEF RecordsMatchTasks, TypeOK
<1>2. /\ records' = [records EXCEPT ![record[t]].consumed = TRUE]
      /\ record' = [record EXCEPT ![t] = NONE]
      /\ old' = old \ {t}
      /\ lock' = [Free EXCEPT !.op = "reap"]
      /\ UNCHANGED <<fault, record_head, record_tail, record_count, spaceVars, pool>>
  BY <1>0, OldIsRestorable DEF Restore
<1>3. \A i \in Slots :
        records'[i] = IF i = record[t] THEN [records[i] EXCEPT !.consumed = TRUE] ELSE records[i]
  BY <1>1, <1>2
<1>4. \A i \in Slots :
        /\ records'[i] \in RecordType
        /\ records'[i].owner = records[i].owner /\ records'[i].task = records[i].task
        /\ records'[i].offset = records[i].offset
        /\ records'[i].words = records[i].words /\ records'[i].charge = records[i].charge
        /\ records'[i].consumed <=> (records[i].consumed \/ i = record[t])
  <2> TAKE i \in Slots
  <2>1. CASE i = record[t]
    <3>1. records[i] \in RecordType /\ records'[i] = [records[i] EXCEPT !.consumed = TRUE]
      BY <1>1, <1>3, <2>1
    <3> QED BY <2>1, <3>1 DEF RecordType
  <2>2. CASE i # record[t]
    BY <1>1, <1>3, <2>2
  <2> QED BY <2>1, <2>2
<1>5. TypeOK'
  <2>1. records' \in [Slots -> RecordType]
    BY <1>1, <1>2, <1>4
  <2>2. LockType'
    BY <1>2 DEF LockType, Free
  <2>3. record' \in [Tasks -> Slots \cup {NONE}] /\ old' \in SUBSET Tasks
    BY <1>0, <1>2 DEF TypeOK
  <2> QED BY <1>0, <1>2, <2>1, <2>2, <2>3 DEF TypeOK, spaceVars
<1>6. \A i \in Slots : InWindow(i)' = InWindow(i)
  BY <1>2 DEF InWindow, Position
<1>7. RecordsMatchTasks'
  <2>1. ASSUME NEW s \in old'
        PROVE  /\ record'[s] \in Slots /\ InWindow(record[s])'
               /\ records'[record'[s]].task = s /\ ~records'[record'[s]].consumed
    <3>1. s \in old /\ s # t /\ record'[s] = record[s]
      BY <1>0, <1>2, <2>1 DEF TypeOK
    <3>2. /\ record[s] \in Slots /\ InWindow(record[s])
          /\ records[record[s]].task = s /\ ~records[record[s]].consumed
      BY <1>0, <3>1 DEF RecordsMatchTasks
    <3>3. record[s] # record[t]
      BY <1>0, <3>1, <3>2 DEF RecordsMatchTasks
    <3>4. InWindow(record[s])'
      BY <1>2, <3>1, <3>2 DEF InWindow, Position
    <3> QED BY <1>4, <3>1, <3>2, <3>3, <3>4
  <2>2. ASSUME NEW i \in Slots, InWindow(i)', ~records'[i].consumed
        PROVE  records'[i].task \in old' /\ record'[records'[i].task] = i
    <3>1. InWindow(i) /\ ~records[i].consumed /\ i # record[t] /\ records'[i].task = records[i].task
      BY <1>4, <1>6, <2>2
    <3>2. records[i].task \in old /\ record[records[i].task] = i
      BY <1>0, <3>1 DEF RecordsMatchTasks
    <3> QED BY <1>0, <1>2, <3>1, <3>2 DEF TypeOK
  <2> QED BY <2>1, <2>2 DEF RecordsMatchTasks
<1>8. RingInv'
  <2>1. lock'.op = "reap"
    BY <1>2 DEF Free
  <2> QED BY <1>0, <1>2, <1>4, <2>1, TombstoneRing
<1> QED BY <1>0, <1>2, <1>5, <1>7, <1>8 DEF IInv, OldestIsLive, NeverCorrupt, Free

(* group_cancel tombstones exactly the records of the group's tasks.       *)
LEMMA CancelInv ==
  ASSUME IInv, NEW o \in Owners, Cancel(o)
  PROVE  IInv'
<1> USE PoolAssumption
<1>0. TypeOK /\ RecordsMatchTasks /\ RingInv /\ ~fault /\ records \in [Slots -> RecordType]
  BY DEF IInv, Cancel, TypeOK
<1>1. /\ record' = [s \in Tasks |-> IF Group[s] = o THEN NONE ELSE record[s]]
      /\ old' = {s \in old : Group[s] # o}
      /\ lock' = [Free EXCEPT !.op = "reap"]
      /\ UNCHANGED <<fault, record_head, record_tail, record_count, spaceVars, pool>>
  BY DEF Cancel
<1>2. \A i \in Slots :
        /\ records'[i] \in RecordType
        /\ records'[i].owner = records[i].owner /\ records'[i].task = records[i].task
        /\ records'[i].offset = records[i].offset
        /\ records'[i].words = records[i].words /\ records'[i].charge = records[i].charge
        /\ records'[i].consumed <=> (records[i].consumed \/ (InWindow(i) /\ records[i].owner = o))
  BY <1>0 DEF Cancel, RecordType
<1>3. \A i \in Slots : InWindow(i)' = InWindow(i)
  BY <1>1 DEF InWindow, Position
<1>4. \A i \in Slots : InWindow(i) => records[i].task \in Tasks
                                      /\ records[i].owner = Group[records[i].task]
  BY <1>0 DEF RingInv, RecordFits
<1>5. TypeOK'
  <2>1. records' \in [Slots -> RecordType]
    BY <1>2 DEF Cancel
  <2>2. LockType'
    BY <1>1 DEF LockType, Free
  <2>3. record' \in [Tasks -> Slots \cup {NONE}] /\ old' \in SUBSET Tasks
    BY <1>0, <1>1 DEF TypeOK
  <2> QED BY <1>0, <1>1, <2>1, <2>2, <2>3 DEF TypeOK, spaceVars
<1>6. RecordsMatchTasks'
  <2>1. ASSUME NEW s \in old'
        PROVE  /\ record'[s] \in Slots /\ InWindow(record[s])'
               /\ records'[record'[s]].task = s /\ ~records'[record'[s]].consumed
    <3>1. s \in old /\ s \in Tasks /\ Group[s] # o /\ record'[s] = record[s]
      BY <1>0, <1>1, <2>1 DEF TypeOK
    <3>2. /\ record[s] \in Slots /\ InWindow(record[s])
          /\ records[record[s]].task = s /\ ~records[record[s]].consumed
      BY <1>0, <3>1 DEF RecordsMatchTasks
    <3>3. InWindow(record[s])'
      BY <1>1, <3>1, <3>2 DEF InWindow, Position
    <3> QED BY <1>2, <1>4, <3>1, <3>2, <3>3
  <2>2. ASSUME NEW i \in Slots, InWindow(i)', ~records'[i].consumed
        PROVE  records'[i].task \in old' /\ record'[records'[i].task] = i
    <3>1. /\ InWindow(i) /\ ~records[i].consumed /\ records'[i].task = records[i].task
          /\ records[i].owner # o
      BY <1>2, <1>3, <2>2
    <3>2. /\ records[i].task \in old /\ record[records[i].task] = i
          /\ Group[records[i].task] # o /\ records[i].task \in Tasks
      BY <1>0, <1>4, <3>1 DEF RecordsMatchTasks
    <3> QED BY <1>1, <3>1, <3>2
  <2> QED BY <2>1, <2>2 DEF RecordsMatchTasks
<1>7. RingInv'
  <2>1. lock'.op = "reap"
    BY <1>1 DEF Free
  <2> QED BY <1>0, <1>1, <1>2, <2>1, TombstoneRing
<1> QED BY <1>0, <1>1, <1>5, <1>6, <1>7 DEF IInv, OldestIsLive, NeverCorrupt, Free

----------------------------------------------------------------------------
(* snapshot_save.  Where the tail stands, read off the newest record.      *)
LEMMA LastExists ==
  ASSUME TypeOK, record_count > 0
  PROVE  \E i \in Slots : Position(i) + 1 = record_count
<1> USE PoolAssumption
<1> DEFINE k == record_head + record_count - 1
           i == IF k < MaxRecords THEN k ELSE k - MaxRecords
<1>1. record_head \in 0 .. MaxRecords - 1 /\ record_count \in 1 .. MaxRecords
  BY DEF TypeOK, Slots
<1>2. i \in Slots /\ Position(i) + 1 = record_count
  BY <1>1 DEF Position, Slots
<1> QED BY <1>2

LEMMA TailPosition ==
  ASSUME TypeOK, RingInv
  PROVE  \/ record_count = 0 /\ pool_used = 0
         \/ \E e \in 1 .. PoolWords : /\ pool_used = Distance(pool_head, e)
                                      /\ pool_tail = WrapEnd(e)
<1> USE PoolAssumption
<1>1. CASE record_count = 0
  BY <1>1 DEF RingInv
<1>2. CASE record_count # 0
  <2>1. record_count > 0
    BY <1>2 DEF TypeOK
  <2>2. PICK i \in Slots : Position(i) + 1 = record_count
    BY <2>1, LastExists
  <2> DEFINE e == records[i].offset + records[i].words
  <2>3. pool_used = Reach(records[i]) /\ pool_tail = WrapEnd(e)
    BY <2>2 DEF RingInv, LastReachesTail
  <2>4. Position(i) \in Int
    BY DEF Position, TypeOK, Slots
  <2>5. InWindow(i)
    BY <2>2, <2>4 DEF InWindow, TypeOK
  <2>6. RecordFits(records[i]) /\ records[i] \in RecordType
    BY <2>5 DEF RingInv, TypeOK
  <2>7. e \in 1 .. PoolWords
    BY <2>6 DEF RecordFits, RecordType
  <2> QED BY <2>3, <2>7 DEF Reach, Distance
<1> QED BY <1>1, <1>2

(* An accepted frame ends exactly its charge beyond the words in use.      *)
LEMMA PlaceReach ==
  ASSUME IInv, lock.op = "place", NEW words \in Nat \ {0}, HasRoom(words)
  PROVE  /\ Offset(words) \in Nat /\ Gap(words) \in Nat
         /\ Offset(words) + words \in 1 .. PoolWords
         /\ Distance(pool_head, Offset(words) + words) = pool_used + words + Gap(words)
         /\ pool_used + words + Gap(words) <= PoolWords
<1> USE PoolAssumption
<1>1. /\ pool_head \in 0 .. PoolWords - 1 /\ pool_tail \in 0 .. PoolWords - 1
      /\ pool_used \in 0 .. PoolWords
  BY DEF IInv, TypeOK, Cells
<1>2. /\ words <= PoolWords - pool_used
      /\ IF Wraps(words)
           THEN words <= pool_head /\ Gap(words) <= PoolWords - pool_used - words
           ELSE pool_tail >= pool_head \/ words <= pool_head - pool_tail
  BY DEF HasRoom
<1>3. CASE record_count = 0
  <2>1. pool_head = 0 /\ pool_tail = 0 /\ pool_used = 0
    BY <1>3 DEF IInv, RingInv
  <2>2. ~Wraps(words)
    BY <1>2, <2>1 DEF Wraps
  <2> QED BY <1>2, <2>1, <2>2 DEF Offset, Gap, Distance
<1>4. CASE record_count # 0
  <2>1. PICK e \in 1 .. PoolWords :
          pool_used = Distance(pool_head, e) /\ pool_tail = WrapEnd(e)
    <3>1. TypeOK /\ RingInv
      BY DEF IInv
    <3> QED BY <1>4, <3>1, TailPosition
  <2>2. CASE Wraps(words)
    <3>1. Offset(words) = 0 /\ Gap(words) = PoolWords - pool_tail
      BY <2>2 DEF Offset, Gap
    <3>2. words <= pool_head /\ Gap(words) <= PoolWords - pool_used - words
      BY <1>2, <2>2
    <3>3. pool_tail >= pool_head
      BY <2>2 DEF Wraps
    <3>4. e = pool_tail /\ e > pool_head
      BY <1>1, <1>2, <2>1, <3>3 DEF Distance, WrapEnd
    <3>5. pool_used = pool_tail - pool_head
      BY <2>1, <3>4 DEF Distance
    <3>6. Offset(words) \in Nat /\ Gap(words) \in Nat /\ Offset(words) + words = words
      BY <1>1, <3>1
    <3>7. words \in 1 .. PoolWords /\ ~(words > pool_head)
      BY <1>1, <3>2
    <3>8. Distance(pool_head, words) = words + PoolWords - pool_head
      BY <3>7 DEF Distance
    <3>9. words + PoolWords - pool_head = pool_used + words + Gap(words)
      BY <1>1, <3>1, <3>5
    <3>10. pool_used + words + Gap(words) <= PoolWords
      BY <1>1, <3>2, <3>6
    <3> QED BY <3>6, <3>7, <3>8, <3>9, <3>10
  <2>3. CASE ~Wraps(words)
    <3>1. Offset(words) = pool_tail /\ Gap(words) = 0
      BY <2>3 DEF Offset, Gap
    <3>2. pool_tail < pool_head \/ words <= PoolWords - pool_tail
      BY <1>1, <2>3 DEF Wraps
    <3>3. pool_tail >= pool_head \/ words <= pool_head - pool_tail
      BY <1>2, <2>3
    <3>4. CASE pool_tail >= pool_head
      <4>1. e = pool_tail /\ e > pool_head
        BY <1>1, <1>2, <2>1, <3>4 DEF Distance, WrapEnd
      <4>2. words <= PoolWords - pool_tail
        BY <1>1, <3>2, <3>4
      <4>3. pool_used = pool_tail - pool_head
        BY <2>1, <4>1 DEF Distance
      <4>4. pool_tail + words > pool_head
        BY <1>1, <3>4
      <4>5. Distance(pool_head, pool_tail + words) = pool_used + words
        BY <1>1, <4>3, <4>4 DEF Distance
      <4>6. pool_tail + words \in 1 .. PoolWords /\ pool_used + words <= PoolWords
        BY <1>1, <4>2, <4>3
      <4> QED BY <1>1, <3>1, <4>5, <4>6
    <3>5. CASE pool_tail < pool_head
      <4>1. pool_used = pool_tail + PoolWords - pool_head
        BY <1>1, <2>1, <3>5 DEF Distance, WrapEnd
      <4>2. words <= pool_head - pool_tail
        BY <1>1, <3>3, <3>5
      <4>3. ~(pool_tail + words > pool_head) /\ pool_tail + words <= PoolWords
        BY <1>1, <4>2
      <4>4. Distance(pool_head, pool_tail + words) = pool_used + words
        BY <1>1, <4>1, <4>3 DEF Distance
      <4>5. pool_used + words <= PoolWords
        BY <1>1, <1>2
      <4>6. Offset(words) \in Nat /\ Gap(words) \in Nat
        BY <1>1, <3>1
      <4>7. Offset(words) + words \in 1 .. PoolWords
        BY <1>1, <3>1, <4>3
      <4>8. pool_used + words + Gap(words) = pool_used + words
        BY <1>1, <3>1
      <4> QED BY <3>1, <4>4, <4>5, <4>6, <4>7, <4>8
    <3> QED BY <1>1, <3>4, <3>5
  <2> QED BY <2>2, <2>3
<1> QED BY <1>3, <1>4

LEMMA Positions ==
  ASSUME TypeOK, NEW i \in Slots, NEW j \in Slots
  PROVE  /\ Position(i) \in 0 .. MaxRecords - 1
         /\ (Position(i) = Position(j)) <=> (i = j)
BY PoolAssumption DEF TypeOK, Position, Slots

(* The tail slot is outside the window, one position behind the newest.    *)
LEMMA TailSlot ==
  ASSUME TypeOK, RingInv, record_count # MaxRecords
  PROVE  /\ record_tail \in Slots /\ NextSlot(record_tail) \in Slots
         /\ Position(record_tail) = record_count
         /\ ~InWindow(record_tail)
         /\ LET n == NextSlot(record_tail) IN
              (IF n >= record_head THEN n - record_head ELSE n + MaxRecords - record_head)
                = IF record_count + 1 = MaxRecords THEN 0 ELSE record_count + 1
<1> USE PoolAssumption
<1>1. /\ record_tail \in 0 .. MaxRecords - 1 /\ record_head \in 0 .. MaxRecords - 1
      /\ record_count \in 0 .. MaxRecords
  BY DEF TypeOK, Slots
<1>2. Position(record_tail) = record_count
  BY DEF RingInv
<1>3. ~InWindow(record_tail)
  BY <1>1, <1>2 DEF InWindow
<1>4. NextSlot(record_tail) \in 0 .. MaxRecords - 1
  BY <1>1 DEF NextSlot
<1>5. LET n == NextSlot(record_tail) IN
        (IF n >= record_head THEN n - record_head ELSE n + MaxRecords - record_head)
          = IF record_count + 1 = MaxRecords THEN 0 ELSE record_count + 1
  BY <1>1, <1>2 DEF NextSlot, Position
<1> QED BY <1>1, <1>2, <1>3, <1>4, <1>5 DEF Slots

LEMMA SavePlaceInv ==
  ASSUME IInv, SavePlace
  PROVE  IInv'
<1> USE PoolAssumption
<1> DEFINE task == lock.task
           words == Len(lock.frame)
           offset == Offset(words)
           charge == words + Gap(words)
           new == [owner |-> Group[task], task |-> task, offset |-> offset,
                   words |-> words, charge |-> charge, consumed |-> FALSE]
<1>1. TypeOK /\ RingInv /\ RecordsMatchTasks /\ OldestIsLive /\ NeverCorrupt
  BY DEF IInv
<1>2. task \in Tasks /\ task \notin old /\ lock.frame \in Frames
  BY <1>1 DEF TypeOK, LockType, SavePlace
<1>3. words \in Nat \ {0} /\ lock.frame \in Seq(Word)
  BY <1>2
<1>4. /\ HasRoom(words) /\ lock.op = "place"
      /\ records' = [records EXCEPT ![record_tail] = new]
      /\ pool_tail' = WrapEnd(offset + words)
      /\ pool_used' = pool_used + charge
      /\ record' = [record EXCEPT ![task] = record_tail]
      /\ old' = old \cup {task}
      /\ record_tail' = NextSlot(record_tail)
      /\ record_count' = record_count + 1
      /\ lock' = Free
      /\ UNCHANGED <<record_head, pool_head, runtime, fault>>
  BY DEF SavePlace
<1>5. /\ offset \in Nat /\ Gap(words) \in Nat
      /\ offset + words \in 1 .. PoolWords
      /\ Distance(pool_head, offset + words) = pool_used + words + Gap(words)
      /\ pool_used + words + Gap(words) <= PoolWords
  BY <1>3, <1>4, PlaceReach
<1>6. /\ pool_used \in Nat /\ charge \in Nat /\ words <= charge
      /\ pool_used + charge <= PoolWords
      /\ pool_used + words + Gap(words) = pool_used + charge
  BY <1>1, <1>3, <1>5 DEF TypeOK
<1>7. record_count \in 0 .. MaxRecords - 1 /\ record_count # MaxRecords
  BY <1>1, <1>4 DEF TypeOK, HasRoom
<1>8. /\ record_tail \in Slots /\ NextSlot(record_tail) \in Slots
      /\ Position(record_tail) = record_count
      /\ ~InWindow(record_tail)
  BY <1>1, <1>7, TailSlot
<1>9. \A i \in Slots : Position(i)' = Position(i)
  BY <1>4 DEF Position
<1>10. \A i \in Slots : InWindow(i)' <=> (InWindow(i) \/ i = record_tail)
  <2> TAKE i \in Slots
  <2>1. Position(i) \in Int /\ ((Position(i) = record_count) <=> (i = record_tail))
    BY <1>1, <1>8, Positions
  <2>2. InWindow(i)' <=> (Position(i) < record_count + 1)
    BY <1>4, <1>9 DEF InWindow
  <2>3. InWindow(i) <=> (Position(i) < record_count)
    BY DEF InWindow
  <2> QED BY <1>7, <2>1, <2>2, <2>3
<1>11. records'[record_tail] = new /\ new \in RecordType
  <2>1. records \in [Slots -> RecordType]
    BY <1>1 DEF TypeOK
  <2>2. new \in RecordType
    BY <1>2, <1>3, <1>5, <1>6 DEF RecordType
  <2> QED BY <1>4, <1>8, <2>1, <2>2
<1>19. /\ records'[record_tail].offset = offset /\ records'[record_tail].words = words
       /\ records'[record_tail].charge = charge
  BY <1>11
<1>20. pool_used' = pool_used + charge /\ pool_tail' = WrapEnd(offset + words)
  BY <1>4
<1>12. \A i \in Slots : i # record_tail =>
         records[i]' = records[i] /\ Reach(records[i])' = Reach(records[i])
  <2> SUFFICES ASSUME NEW i \in Slots, i # record_tail
               PROVE  records[i]' = records[i] /\ Reach(records[i])' = Reach(records[i])
    OBVIOUS
  <2>1. records[i]' = records[i]
    BY <1>1, <1>4 DEF TypeOK
  <2> QED BY <1>4, <2>1 DEF Reach
<1>13. \A i \in Slots : i = record_tail => Reach(records[i])' = pool_used'
  <2> SUFFICES ASSUME NEW i \in Slots, i = record_tail PROVE Reach(records[i])' = pool_used'
    OBVIOUS
  <2>1. records'[i].offset = offset /\ records'[i].words = words
    BY <1>11
  <2>2. Reach(records[i])' = Distance(pool_head, offset + words)
    BY <1>4, <2>1 DEF Reach, Distance
  <2> QED BY <1>4, <1>5, <1>6, <2>2
<1>14. TypeOK'
  <2>1. records' \in [Slots -> RecordType]
    BY <1>1, <1>4, <1>11 DEF TypeOK
  <2>2. record_head' \in Slots /\ record_tail' \in Slots /\ record_count' \in 0 .. MaxRecords
    BY <1>1, <1>4, <1>7, <1>8 DEF TypeOK
  <2>3. pool' \in [Cells -> Word \cup {NONE}]
    <3>1. pool' = [i \in Cells |->
            IF i \in offset .. offset + words - 1 THEN lock.frame[i - offset + 1] ELSE pool[i]]
      BY DEF SavePlace
    <3>2. \A i \in Cells : i \in offset .. offset + words - 1 =>
            lock.frame[i - offset + 1] \in Word
      <4> SUFFICES ASSUME NEW i \in Cells, i \in offset .. offset + words - 1
                   PROVE  lock.frame[i - offset + 1] \in Word
        OBVIOUS
      <4>1. i - offset + 1 \in 1 .. words
        BY <1>3, <1>5
      <4> HIDE DEF words, offset
      <4>2. words = Len(lock.frame)
        BY DEF words
      <4> QED BY <1>3, <4>1, <4>2
    <3>3. \A i \in Cells : pool[i] \in Word \cup {NONE}
      BY <1>1 DEF TypeOK
    <3> QED BY <3>1, <3>2, <3>3
  <2>4. pool_head' \in Cells /\ pool_used' \in 0 .. PoolWords
    BY <1>1, <1>4, <1>6 DEF TypeOK
  <2>5. pool_tail' \in Cells
    BY <1>4, <1>5 DEF WrapEnd, Cells
  <2>6. record' \in [Tasks -> Slots \cup {NONE}] /\ old' \in SUBSET Tasks
    BY <1>1, <1>2, <1>4, <1>8 DEF TypeOK
  <2>7. LockType' /\ fault' \in BOOLEAN
    BY <1>1, <1>4 DEF TypeOK, LockType, Free
  <2> QED BY <2>1, <2>2, <2>3, <2>4, <2>5, <2>6, <2>7 DEF TypeOK
<1>15. RecordsMatchTasks'
  <2>1. \A t \in old' :
          /\ record[t]' \in Slots /\ InWindow(record[t])'
          /\ records[record[t]]'.task = t /\ ~records[record[t]]'.consumed
    <3> SUFFICES ASSUME NEW t \in old'
                 PROVE  /\ record[t]' \in Slots /\ InWindow(record[t])'
                        /\ records'[record'[t]].task = t /\ ~records'[record'[t]].consumed
      OBVIOUS
    <3>0. record \in [Tasks -> Slots \cup {NONE}] /\ old \subseteq Tasks
      BY <1>1 DEF TypeOK
    <3>1. CASE t = task
      <4>1. record'[t] = record_tail
        BY <1>2, <1>4, <3>0, <3>1
      <4>2. InWindow(record[t])'
        BY <1>4, <1>7, <1>8, <4>1 DEF InWindow, Position
      <4> QED BY <1>8, <1>11, <3>1, <4>1, <4>2
    <3>2. CASE t # task
      <4>1. t \in old /\ record'[t] = record[t]
        BY <1>2, <1>4, <3>0, <3>2
      <4>2. /\ record[t] \in Slots /\ InWindow(record[t])
            /\ records[record[t]].task = t /\ ~records[record[t]].consumed
        BY <1>1, <4>1 DEF RecordsMatchTasks
      <4>3. record[t] # record_tail
        BY <1>8, <4>2
      <4>4. records'[record[t]] = records[record[t]]
        BY <1>12, <4>2, <4>3
      <4>5. InWindow(record[t])'
        <5>1. Position(record[t]) \in Int
          BY <1>1, <4>2, Positions
        <5>2. Position(record[t])' = Position(record[t])
          BY <1>4, <4>1 DEF Position
        <5> QED BY <1>4, <1>7, <4>2, <5>1, <5>2 DEF InWindow
      <4> QED BY <4>1, <4>2, <4>4, <4>5
    <3> QED BY <3>1, <3>2
  <2>2. \A i \in Slots : InWindow(i)' /\ ~records[i]'.consumed =>
          records[i]'.task \in old' /\ record'[records[i]'.task] = i
    <3> SUFFICES ASSUME NEW i \in Slots, InWindow(i)', ~records'[i].consumed
                 PROVE  records'[i].task \in old' /\ record'[records'[i].task] = i
      OBVIOUS
    <3>0. record \in [Tasks -> Slots \cup {NONE}] /\ old \subseteq Tasks
      BY <1>1 DEF TypeOK
    <3>1. CASE i = record_tail
      BY <1>2, <1>4, <1>11, <3>0, <3>1
    <3>2. CASE i # record_tail
      <4>1. InWindow(i) /\ records'[i] = records[i]
        BY <1>10, <1>12, <3>2
      <4>2. records[i].task \in old /\ record[records[i].task] = i
        BY <1>1, <4>1 DEF RecordsMatchTasks
      <4>3. records[i].task # task
        BY <1>2, <4>2
      <4> QED BY <1>4, <3>0, <4>1, <4>2, <4>3
    <3> QED BY <3>1, <3>2
  <2> QED BY <2>1, <2>2 DEF RecordsMatchTasks
<1>16. RingInv'
  <2>1. Position(record_tail)' = IF record_count' = MaxRecords THEN 0 ELSE record_count'
    BY <1>1, <1>4, <1>7, TailSlot DEF Position
  <2>2. \A i \in Slots : InWindow(i)' => RecordFits(records[i])'
    <3> SUFFICES ASSUME NEW i \in Slots, InWindow(i)' PROVE RecordFits(records[i])'
      OBVIOUS
    <3>1. CASE i = record_tail
      <4>1. Reach(records[i])' = pool_used + charge
        BY <1>4, <1>13, <3>1
      <4>2. records[i]' = new
        BY <1>11, <3>1
      <4>3. words > 0 /\ offset + words <= PoolWords
        BY <1>3, <1>5
      <4>4. charge <= pool_used + charge
        BY <1>6
      <4> QED BY <1>2, <1>4, <1>6, <4>1, <4>2, <4>3, <4>4 DEF RecordFits
    <3>2. CASE i # record_tail
      <4>1. /\ InWindow(i) /\ records[i]' = records[i]
            /\ Reach(records[i])' = Reach(records[i])
        BY <1>10, <1>12, <3>2
      <4>2. RecordFits(records[i])
        BY <1>1, <4>1 DEF RingInv
      <4>3. Reach(records[i]) \in Int
        BY <1>1, ReachInt
      <4>4. Reach(records[i])' <= pool_used'
        BY <1>4, <1>6, <4>1, <4>2, <4>3 DEF RecordFits
      <4> QED BY <4>1, <4>2, <4>4 DEF RecordFits
    <3> QED BY <3>1, <3>2
  <2>3. ChargesAdjacent'
    <3> SUFFICES ASSUME NEW i \in Slots, NEW j \in Slots, InWindow(i)', InWindow(j)'
                 PROVE /\ Position(i)' = 0 => records'[i].charge = Reach(records[i])'
                       /\ Position(j)' = Position(i)' + 1 =>
                            records'[j].charge = Reach(records[j])' - Reach(records[i])'
                       /\ Position(i)' < Position(j)' =>
                            Reach(records[i])' + records'[j].charge <= Reach(records[j])'
      BY DEF ChargesAdjacent
    <3>1. Position(i)' = Position(i) /\ Position(j)' = Position(j)
      BY <1>9
    <3>2. /\ Position(i) \in Nat /\ Position(j) \in Nat
          /\ Position(i) <= record_count /\ Position(j) <= record_count
      BY <1>1, <1>7, <1>8, <1>10, Positions DEF InWindow
    <3>3. CASE i = record_tail
      <4>1. Position(i) = record_count
        BY <1>8, <3>3
      <4>2. ASSUME Position(i) = 0 PROVE records'[i].charge = Reach(records[i])'
        <5>1. pool_used = 0
          BY <1>1, <4>1, <4>2 DEF RingInv
        <5>2. pool_used + charge = charge
          BY <1>6, <5>1
        <5>3. records'[i].charge = charge /\ Reach(records[i])' = pool_used'
          BY <1>13, <1>19, <3>3
        <5> HIDE DEF charge
        <5> QED BY <1>20, <5>2, <5>3
      <4>3. ~(Position(j) = Position(i) + 1) /\ ~(Position(i) < Position(j))
        BY <1>7, <3>2, <4>1
      <4> QED BY <3>1, <4>2, <4>3
    <3>4. CASE i # record_tail
      <4>1. /\ InWindow(i) /\ records[i]' = records[i]
            /\ Reach(records[i])' = Reach(records[i])
        BY <1>10, <1>12, <3>4
      <4>2. Reach(records[i]) \in Int /\ RecordFits(records[i])
        BY <1>1, <4>1, ReachInt DEF RingInv
      <4>3. CASE j = record_tail
        <5>1. records'[j].charge = charge /\ Reach(records[j])' = pool_used + charge
          <6>1. records'[j].charge = charge /\ Reach(records[j])' = pool_used'
            BY <1>13, <1>19, <4>3
          <6> HIDE DEF charge
          <6> QED BY <1>20, <6>1
        <5>2. Position(j) = Position(i) + 1 => Reach(records[i]) = pool_used
          <6>1. Position(j) = record_count
            BY <1>8, <4>3
          <6>2. \A k \in Slots : Position(k) + 1 = record_count => Reach(records[k]) = pool_used
            BY <1>1 DEF RingInv, LastReachesTail
          <6> QED BY <6>1, <6>2
        <5>3. Reach(records[i]) + charge <= pool_used + charge
          BY <1>6, <4>2 DEF RecordFits
        <5>4. Position(i) = 0 => records[i].charge = Reach(records[i])
          BY <1>1, <4>1 DEF RingInv, ChargesAdjacent
        <5>5. Reach(records[i]) = pool_used => charge = (pool_used + charge) - Reach(records[i])
          BY <1>6
        <5> QED BY <3>1, <4>1, <5>1, <5>2, <5>3, <5>4, <5>5
      <4>4. CASE j # record_tail
        <5>1. /\ InWindow(j) /\ records[j]' = records[j]
              /\ Reach(records[j])' = Reach(records[j])
          BY <1>10, <1>12, <4>4
        <5> QED BY <1>1, <3>1, <4>1, <5>1 DEF RingInv, ChargesAdjacent
      <4> QED BY <4>3, <4>4
    <3> QED BY <3>3, <3>4
  <2>4. LastReachesTail'
    <3> SUFFICES ASSUME NEW i \in Slots, Position(i)' + 1 = record_count'
                 PROVE  /\ Reach(records[i])' = pool_used'
                        /\ pool_tail' = WrapEnd(records'[i].offset + records'[i].words)
      BY DEF LastReachesTail
    <3>1. i = record_tail
      <4>1. Position(i) \in Int /\ ((Position(i) = record_count) <=> (i = record_tail))
        BY <1>1, <1>8, Positions
      <4> QED BY <1>4, <1>7, <1>9, <4>1
    <3>2. Reach(records[i])' = pool_used'
      BY <1>13, <3>1
    <3>3. records'[i].offset = offset /\ records'[i].words = words
      BY <1>19, <3>1
    <3> HIDE DEF offset, words
    <3> QED BY <1>20, <3>2, <3>3
  <2>5. record_count' # 0
    BY <1>4, <1>7
  <2> QED BY <2>1, <2>2, <2>3, <2>4, <2>5 DEF RingInv
<1>17. OldestIsLive'
  <2>1. record_head \in Slots /\ Position(record_head) = 0
    BY <1>1 DEF TypeOK, Position, Slots
  <2>2. CASE record_head = record_tail
    BY <1>4, <1>11, <2>2 DEF OldestIsLive, HeadConsumed
  <2>3. CASE record_head # record_tail
    <3>1. record_count # 0
      BY <1>1, <1>8, <2>1, <2>3, Positions
    <3>2. ~records[record_head].consumed
      BY <1>1, <1>4, <1>7, <3>1 DEF OldestIsLive, HeadConsumed
    <3> QED BY <1>4, <1>12, <2>1, <2>3, <3>2 DEF OldestIsLive, HeadConsumed
  <2> QED BY <2>2, <2>3
<1>18. NeverCorrupt'
  BY <1>1, <1>4 DEF NeverCorrupt
<1> QED BY <1>14, <1>15, <1>16, <1>17, <1>18 DEF IInv

----------------------------------------------------------------------------
(* Every operation, the failing ones included, keeps the whole accounting. *)
THEOREM NextInv == IInv /\ [Next]_vars => IInv'
<1> SUFFICES ASSUME IInv, [Next]_vars PROVE IInv'
  OBVIOUS
<1>1. CASE UNCHANGED vars
  <2>1. TypeOK'
    BY <1>1 DEF IInv, TypeOK, LockType, vars, ringVars, spaceVars, taskVars
  <2>2. RecordsMatchTasks'
    BY <1>1, FrameTasks DEF IInv, vars
  <2>3. RingInv'
    BY <1>1, FrameRing DEF IInv, RingInv, vars
  <2> QED BY <1>1, <2>1, <2>2, <2>3
        DEF IInv, OldestIsLive, HeadConsumed, NeverCorrupt, vars, ringVars
<1>2. CASE Next
  <2>1. CASE ReapPop          BY <2>1, ReapPopInv
  <2>2. CASE ReapEnd          BY <2>2, ReapEndInv
  <2>3. CASE ReapBegin        BY <2>3, ReapBeginInv
  <2>4. CASE SavePlace        BY <2>4, SavePlaceInv
  <2>5. CASE SaveReject       BY <2>5, SaveRejectInv
  <2>6. CASE \E t \in Tasks : Restore(t)
    BY <2>6, RestoreInv
  <2>7. CASE \E t \in Tasks, f \in Frames : SaveBegin(t, f)
    BY <2>7, SaveBeginInv
  <2>8. CASE \E o \in Owners : Cancel(o)
    BY <2>8, CancelInv
  <2> QED BY <1>2, <2>1, <2>2, <2>3, <2>4, <2>5, <2>6, <2>7, <2>8 DEF Next
<1> QED BY <1>1, <1>2

(* The inductive invariant holds in every reachable state.                 *)
THEOREM Safety == Spec => []IInv
<1>1. Init => IInv
  BY InitInv
<1>2. IInv /\ [Next]_vars => IInv'
  BY NextInv
<1> QED BY <1>1, <1>2, PTL DEF Spec

(* Type correctness of the resident tables, for pools of every size.       *)
THEOREM TypeCorrect == Spec => []TypeOK
<1>1. IInv => TypeOK
  BY DEF IInv
<1> QED BY <1>1, Safety, PTL

(* The ring accounting of the pool never loses or double-counts a word.    *)
THEOREM RingCorrect == Spec => []RingInv
<1>1. IInv => RingInv
  BY DEF IInv
<1> QED BY <1>1, Safety, PTL

(* A live record and the task in TASK_OLD that owns it never disagree.     *)
THEOREM RecordsCorrect == Spec => []RecordsMatchTasks
<1>1. IInv => RecordsMatchTasks
  BY DEF IInv
<1> QED BY <1>1, Safety, PTL

(* No sequence of operations makes the pool latch SECTION_STL_CORRUPT.     *)
THEOREM Uncorrupted == Spec => []NeverCorrupt
<1>1. IInv => NeverCorrupt
  BY DEF IInv
<1> QED BY <1>1, Safety, PTL

(* No consumed record is left at the head when an operation ends.          *)
THEOREM PrefixReclaimed == Spec => []OldestIsLive
<1>1. IInv => OldestIsLive
  BY DEF IInv
<1> QED BY <1>1, Safety, PTL

(* Two spans of a ring, the second ending at least its own length farther  *)
(* from the head than the first.                                           *)
LEMMA RingSpansApart ==
  ASSUME NEW h \in Cells, NEW a \in Nat, NEW m \in Nat, NEW b \in Nat, NEW n \in Nat,
         a + m <= PoolWords, b + n <= PoolWords,
         m <= Distance(h, a + m), Distance(h, a + m) + n <= Distance(h, b + n),
         Distance(h, b + n) <= PoolWords
  PROVE  a + m <= b \/ b + n <= a
<1> USE PoolAssumption
<1>1. h \in 0 .. PoolWords - 1
  BY DEF Cells
<1>2. CASE a + m > h /\ b + n > h
  BY <1>1, <1>2 DEF Distance
<1>3. CASE a + m > h /\ ~(b + n > h)
  <2>1. b + n <= h /\ h <= a
    BY <1>1, <1>3 DEF Distance
  <2> QED BY <1>1, <2>1
<1>4. CASE ~(a + m > h) /\ b + n > h
  BY <1>1, <1>4 DEF Distance
<1>5. CASE ~(a + m > h) /\ ~(b + n > h)
  BY <1>1, <1>5 DEF Distance
<1> QED BY <1>1, <1>2, <1>3, <1>4, <1>5

LEMMA SpansApart ==
  ASSUME TypeOK, NEW r \in RecordType, NEW s \in RecordType,
         RecordFits(r), RecordFits(s), Reach(r) + s.charge <= Reach(s)
  PROVE  Span(r) \cap Span(s) = {}
<1>1. /\ r.offset \in Nat /\ r.words \in Nat /\ r.charge \in Nat
      /\ s.offset \in Nat /\ s.words \in Nat /\ s.charge \in Nat
  BY DEF RecordType
<1>2. /\ pool_head \in Cells /\ pool_head \in Int /\ PoolWords \in Int
      /\ pool_used \in Int /\ pool_used <= PoolWords
  BY PoolAssumption DEF TypeOK, Cells
<1>3. /\ Reach(r) = Distance(pool_head, r.offset + r.words) /\ Reach(r) \in Int
      /\ Reach(s) = Distance(pool_head, s.offset + s.words) /\ Reach(s) \in Int
  BY <1>1, <1>2 DEF Reach, Distance
<1>4. r.offset + r.words <= PoolWords /\ s.offset + s.words <= PoolWords
  BY DEF RecordFits
<1>5. r.words <= Reach(r)
  BY <1>1, <1>3 DEF RecordFits
<1>6. Reach(r) + s.words <= Reach(s)
  <2>1. s.words <= s.charge
    BY DEF RecordFits
  <2> QED BY <1>1, <1>3, <2>1
<1>7. Reach(s) <= PoolWords
  <2>1. Reach(s) <= pool_used
    BY DEF RecordFits
  <2> QED BY <1>2, <1>3, <2>1
<1>8. r.offset + r.words <= s.offset \/ s.offset + s.words <= r.offset
  BY <1>1, <1>2, <1>3, <1>4, <1>5, <1>6, <1>7, RingSpansApart
<1> QED BY <1>1, <1>8 DEF Span

LEMMA IInvDisjoint == IInv => SpansDisjoint
<1> SUFFICES ASSUME IInv, NEW i \in Slots, NEW j \in Slots,
                    InWindow(i), InWindow(j), i # j
             PROVE  Span(records[i]) \cap Span(records[j]) = {}
  BY DEF SpansDisjoint
<1>1. TypeOK /\ RingInv
  BY DEF IInv
<1>2. records[i] \in RecordType /\ records[j] \in RecordType
  BY <1>1 DEF TypeOK
<1>3. RecordFits(records[i]) /\ RecordFits(records[j])
  BY <1>1 DEF RingInv
<1>4. Position(i) < Position(j) \/ Position(j) < Position(i)
  <2>1. /\ Position(i) \in Int /\ Position(j) \in Int /\ Position(i) # Position(j)
    BY <1>1, Positions
  <2> QED BY <2>1
<1>5. CASE Position(i) < Position(j)
  <2>1. Reach(records[i]) + records[j].charge <= Reach(records[j])
    BY <1>1, <1>5 DEF RingInv, ChargesAdjacent
  <2> QED BY <1>1, <1>2, <1>3, <2>1, SpansApart
<1>6. CASE Position(j) < Position(i)
  <2>1. Reach(records[j]) + records[i].charge <= Reach(records[i])
    BY <1>1, <1>6 DEF RingInv, ChargesAdjacent
  <2>2. Span(records[j]) \cap Span(records[i]) = {}
    BY <1>1, <1>2, <1>3, <2>1, SpansApart
  <2> QED BY <2>2
<1> QED BY <1>4, <1>5, <1>6

LEMMA IInvDisjointNext == IInv' => SpansDisjoint'
BY IInvDisjoint, PTL

(* No two allocation records ever describe the same pool word.             *)
THEOREM Disjointness == Spec => []SpansDisjoint
<1>1. IInv => SpansDisjoint
  BY IInvDisjoint
<1> QED BY <1>1, Safety, PTL

----------------------------------------------------------------------------
(* snapshot_save refuses nothing it could have placed.  What that needs    *)
(* beyond IInv: every word between pool_head and pool_tail is reserved by  *)
(* some record, the words a frame skipped included, and only a record at   *)
(* the start of the pool has skipped any.                                  *)
GapsLead ==
  \A i \in Slots : InWindow(i) =>
    records[i].charge = records[i].words \/ records[i].offset = 0

Covered ==
  \A c \in Cells : Distance(pool_head, c + 1) <= pool_used =>
    \E i \in Slots : InWindow(i) /\ c \in Reserved(records[i])

CoverInv == GapsLead /\ Covered

(* Past the end of a farther span, what was nearer is a whole ring away.   *)
LEMMA DistanceBehind ==
  ASSUME NEW h \in Cells, NEW near \in 1 .. PoolWords, NEW far \in 1 .. PoolWords,
         Distance(h, far) <= Distance(h, near)
  PROVE  Distance(WrapEnd(near), far) = Distance(h, far) - Distance(h, near) + PoolWords
BY PoolAssumption DEF Distance, WrapEnd, Cells

(* The oldest record reserves nothing beyond its own end.                  *)
LEMMA ReservedReach ==
  ASSUME TypeOK, NEW r \in RecordType, RecordFits(r), r.charge = Reach(r),
         r.charge = r.words \/ r.offset = 0, NEW c \in Cells, c \in Reserved(r)
  PROVE  Distance(pool_head, c + 1) <= Reach(r)
<1>1. /\ r.offset \in Nat /\ r.words \in Nat /\ r.charge \in Nat /\ c \in Nat
      /\ c < PoolWords /\ pool_head \in 0 .. PoolWords - 1 /\ PoolWords \in Nat
  BY PoolAssumption DEF RecordType, TypeOK, Cells
<1>2. r.words > 0 /\ r.offset + r.words <= PoolWords /\ r.words <= r.charge
  BY DEF RecordFits
<1>3. CASE r.offset + r.words > pool_head
  <2>1. r.charge = r.offset + r.words - pool_head
    BY <1>1, <1>3 DEF Reach
  <2>2. r.charge = r.words
    <3>1. r.offset = 0 => r.charge = r.words - pool_head
      BY <1>1, <2>1
    <3>2. r.offset = 0 => pool_head = 0
      BY <1>1, <1>2, <3>1
    <3>3. r.offset = 0 => r.charge = r.words
      BY <1>1, <3>1, <3>2
    <3> QED BY <3>3
  <2>3. c \in r.offset .. r.offset + r.words - 1
    BY <2>2 DEF Reserved, Span
  <2>4. r.offset = pool_head
    BY <1>1, <2>1, <2>2
  <2>5. c + 1 > pool_head /\ c + 1 - pool_head <= r.words
    BY <1>1, <2>3, <2>4
  <2> QED BY <1>3, <2>1, <2>5, <2>4, <1>1 DEF Distance, Reach
<1>4. CASE ~(r.offset + r.words > pool_head)
  <2>1. r.charge = r.offset + r.words + PoolWords - pool_head
    BY <1>1, <1>4 DEF Reach
  <2>2. CASE c \in r.offset .. r.offset + r.words - 1
    BY <1>1, <1>2, <1>4, <2>1, <2>2 DEF Distance
  <2>3. CASE c \notin r.offset .. r.offset + r.words - 1
    <3>1. r.charge # r.words /\ c \in PoolWords - (r.charge - r.words) .. PoolWords - 1
      BY <2>3 DEF Reserved, Span
    <3>2. r.offset = 0 /\ r.charge - r.words = PoolWords - pool_head
      BY <1>1, <2>1, <3>1
    <3>3. c >= pool_head
      BY <1>1, <3>1, <3>2
    <3> QED BY <1>1, <1>2, <2>1, <3>3 DEF Distance
  <2> QED BY <2>2, <2>3
<1> QED BY <1>3, <1>4

(* A pop uncovers exactly the words of the record it retires.              *)
LEMMA ReapPopCover ==
  ASSUME IInv, CoverInv, ReapPop
  PROVE  CoverInv'
<1> USE PoolAssumption
<1> DEFINE r == records[record_head]
           e == r.offset + r.words
<1>0. /\ TypeOK /\ RingInv
      /\ record_head \in Slots /\ record_count \in 1 .. MaxRecords
      /\ records \in [Slots -> RecordType]
      /\ pool_head \in Cells /\ pool_used \in 0 .. PoolWords
  BY DEF IInv, TypeOK, ReapPop, HeadConsumed
<1>1. Position(record_head) = 0 /\ InWindow(record_head)
  BY <1>0 DEF Position, InWindow, Slots
<1>2. /\ RecordFits(r) /\ r.charge = Reach(r) /\ r \in RecordType
      /\ r.offset \in Nat /\ r.words \in Nat /\ r.charge \in Nat /\ e \in 1 .. PoolWords
  BY <1>0, <1>1 DEF RingInv, ChargesAdjacent, RecordFits, RecordType
<1>3. Reapable(r)
  BY <1>0, <1>2 DEF Reapable, RecordFits
<1>4. /\ pool_head' = WrapEnd(e) /\ pool_used' = pool_used - Reach(r)
      /\ records' = [records EXCEPT ![record_head] = ZeroRecord]
      /\ record_head' = NextSlot(record_head) /\ record_count' = record_count - 1
  BY <1>2, <1>3 DEF ReapPop
<1>5. \A i \in Slots :
        /\ Position(i) \in 0 .. MaxRecords - 1
        /\ i = record_head <=> Position(i) = 0
        /\ Position(i)' = IF i = record_head THEN MaxRecords - 1 ELSE Position(i) - 1
  BY <1>0, <1>4, PositionShift DEF Position
<1>6. \A i \in Slots : InWindow(i)' <=> InWindow(i) /\ i # record_head
  BY <1>0, <1>4, <1>5 DEF InWindow
<1>7. \A i \in Slots : i # record_head => records'[i] = records[i]
  BY <1>0, <1>4
<1>8. GapsLead'
  BY <1>6, <1>7 DEF CoverInv, GapsLead
<1>9. Covered'
  <2> SUFFICES ASSUME NEW c \in Cells, Distance(pool_head', c + 1) <= pool_used'
               PROVE  \E i \in Slots : InWindow(i)' /\ c \in Reserved(records'[i])
    BY <1>4 DEF Covered, Distance, Reserved, Span
  <2>1. c + 1 \in 1 .. PoolWords
    BY DEF Cells
  <2>2. Reach(r) = Distance(pool_head, e)
    BY DEF Reach, Distance
  <2>3. Distance(pool_head, e) \in 1 .. PoolWords /\ Distance(pool_head, c + 1) \in 1 .. PoolWords
    BY <1>0, <1>2, <2>1, DistanceRange
  <2>4. Distance(pool_head, e) < Distance(pool_head, c + 1)
    <3> SUFFICES ASSUME Distance(pool_head, c + 1) <= Distance(pool_head, e) PROVE FALSE
      BY <2>3
    <3> HIDE DEF e, r
    <3>1. Distance(WrapEnd(e), c + 1)
            = Distance(pool_head, c + 1) - Distance(pool_head, e) + PoolWords
      BY <1>0, <1>2, <2>1, DistanceBehind
    <3>2. Distance(WrapEnd(e), c + 1) <= pool_used - Distance(pool_head, e)
      BY <1>4, <2>2
    <3> HIDE DEF Distance
    <3> QED BY <1>0, <2>3, <3>1, <3>2
  <2>5. Distance(pool_head, c + 1) <= pool_used
    <3> HIDE DEF e, r
    <3>1. Distance(WrapEnd(e), c + 1) = Distance(pool_head, c + 1) - Distance(pool_head, e)
      BY <1>0, <1>2, <2>1, <2>4, DistanceShift
    <3>2. Distance(WrapEnd(e), c + 1) <= pool_used - Distance(pool_head, e)
      BY <1>4, <2>2
    <3> QED BY <1>0, <2>3, <3>1, <3>2
  <2>6. PICK i \in Slots : InWindow(i) /\ c \in Reserved(records[i])
    BY <2>5 DEF CoverInv, Covered
  <2>7. i # record_head
    <3> SUFFICES ASSUME i = record_head PROVE FALSE
      OBVIOUS
    <3>1. c \in Reserved(r) /\ (r.charge = r.words \/ r.offset = 0)
      BY <1>1, <1>0, <2>6 DEF CoverInv, GapsLead
    <3>2. Distance(pool_head, c + 1) <= Reach(r)
      BY <1>0, <1>2, <3>1, ReservedReach
    <3> QED BY <2>2, <2>3, <2>4, <3>2
  <2> QED BY <1>6, <1>7, <2>6, <2>7
<1> QED BY <1>8, <1>9 DEF CoverInv

(* A new record reserves all it is charged for: the words in use end where *)
(* it begins, or where the words it skips begin.                           *)
LEMMA PlaceReserves ==
  ASSUME IInv, lock.op = "place", NEW words \in Nat \ {0}, HasRoom(words),
         NEW c \in Cells, pool_used < Distance(pool_head, c + 1),
         Distance(pool_head, c + 1) <= pool_used + words + Gap(words)
  PROVE  \/ c \in Offset(words) .. Offset(words) + words - 1
         \/ Gap(words) # 0 /\ c \in PoolWords - Gap(words) .. PoolWords - 1
<1> USE PoolAssumption
<1>1. /\ pool_head \in 0 .. PoolWords - 1 /\ pool_tail \in 0 .. PoolWords - 1
      /\ pool_used \in 0 .. PoolWords /\ c \in 0 .. PoolWords - 1 /\ PoolWords \in Nat
  BY DEF IInv, TypeOK, Cells
<1>2. /\ Offset(words) \in Nat /\ Gap(words) \in Nat
      /\ Offset(words) + words \in 1 .. PoolWords
      /\ Distance(pool_head, Offset(words) + words) = pool_used + words + Gap(words)
  BY PlaceReach
<1>3. CASE Wraps(words)
  <2>1. Offset(words) = 0 /\ Gap(words) = PoolWords - pool_tail /\ words <= pool_head
    BY <1>3 DEF Offset, Gap, HasRoom
  <2>2. words + PoolWords - pool_head = pool_used + words + (PoolWords - pool_tail)
    BY <1>1, <1>2, <2>1 DEF Distance
  <2>3. CASE c + 1 > pool_head
    BY <1>1, <2>1, <2>2, <2>3 DEF Distance
  <2>4. CASE ~(c + 1 > pool_head)
    BY <1>1, <2>1, <2>2, <2>4 DEF Distance
  <2> QED BY <2>3, <2>4
<1>4. CASE ~Wraps(words)
  <2> DEFINE o == Offset(words)
  <2>1. Gap(words) = 0
    BY <1>4 DEF Gap
  <2>2. o \in Nat /\ o + words <= PoolWords /\ Distance(pool_head, o + words) = pool_used + words
    BY <1>1, <1>2, <2>1
  <2>3. Distance(pool_head, c + 1) <= pool_used + words
    BY <1>1, <2>1
  <2> HIDE DEF o
  <2>4. c >= o /\ c <= o + words - 1
    <3>1. CASE o + words > pool_head
      BY <1>1, <2>2, <2>3, <3>1 DEF Distance
    <3>2. CASE ~(o + words > pool_head)
      BY <1>1, <2>2, <2>3, <3>2 DEF Distance
    <3> QED BY <3>1, <3>2
  <2>5. c \in o .. o + words - 1
    BY <1>1, <2>2, <2>4
  <2> QED BY <2>5 DEF o
<1> QED BY <1>3, <1>4

LEMMA SavePlaceCover ==
  ASSUME IInv, CoverInv, SavePlace
  PROVE  CoverInv'
<1> USE PoolAssumption
<1> DEFINE words == Len(lock.frame)
           offset == Offset(words)
           charge == words + Gap(words)
           new == [owner |-> Group[lock.task], task |-> lock.task, offset |-> offset,
                   words |-> words, charge |-> charge, consumed |-> FALSE]
<1>1. TypeOK /\ RingInv
  BY DEF IInv
<1>2. words \in Nat \ {0} /\ lock.op = "place" /\ HasRoom(words)
  <2>1. lock.op = "place" /\ HasRoom(words)
    BY DEF SavePlace
  <2>2. lock.frame \in Frames
    BY <1>1, <2>1 DEF TypeOK, LockType
  <2> QED BY <2>1, <2>2
<1>3. /\ records' = [records EXCEPT ![record_tail] = new]
      /\ pool_used' = pool_used + charge
      /\ record_count' = record_count + 1
      /\ UNCHANGED <<record_head, pool_head>>
  BY DEF SavePlace
<1>4. /\ offset \in Nat /\ Gap(words) \in Nat
      /\ pool_used + words + Gap(words) <= PoolWords
  BY <1>2, PlaceReach
<1>5. record_count \in 0 .. MaxRecords - 1 /\ record_count # MaxRecords
  BY <1>1, <1>2 DEF TypeOK, HasRoom
<1>6. record_tail \in Slots /\ Position(record_tail) = record_count /\ ~InWindow(record_tail)
  BY <1>1, <1>5, TailSlot
<1>7. \A i \in Slots : InWindow(i)' <=> (InWindow(i) \/ i = record_tail)
  <2> TAKE i \in Slots
  <2>1. Position(i) \in Int /\ ((Position(i) = record_count) <=> (i = record_tail))
    BY <1>1, <1>6, Positions
  <2>2. InWindow(i)' <=> (Position(i) < record_count + 1)
    BY <1>3 DEF InWindow, Position
  <2>3. InWindow(i) <=> (Position(i) < record_count)
    BY DEF InWindow
  <2> QED BY <1>5, <2>1, <2>2, <2>3
<1>8. /\ records'[record_tail].offset = offset /\ records'[record_tail].words = words
      /\ records'[record_tail].charge = charge
      /\ \A i \in Slots : i # record_tail => records'[i] = records[i]
  <2>1. records \in [Slots -> RecordType]
    BY <1>1 DEF TypeOK
  <2>2. records'[record_tail] = new
    BY <1>3, <1>6, <2>1
  <2> QED BY <1>3, <2>1, <2>2
<1>9. GapsLead'
  <2>1. charge = words \/ offset = 0
    BY <1>2 DEF Gap, Offset
  <2> HIDE DEF charge, words, offset
  <2> QED BY <1>7, <1>8, <2>1 DEF CoverInv, GapsLead
<1>10. Covered'
  <2> SUFFICES ASSUME NEW c \in Cells, Distance(pool_head, c + 1) <= pool_used + charge
               PROVE  \E i \in Slots : InWindow(i)' /\ c \in Reserved(records'[i])
    BY <1>3 DEF Covered, Distance, Reserved, Span
  <2>1. CASE Distance(pool_head, c + 1) <= pool_used
    <3>1. PICK i \in Slots : InWindow(i) /\ c \in Reserved(records[i])
      BY <2>1 DEF CoverInv, Covered
    <3>2. i # record_tail
      BY <1>6, <3>1
    <3> QED BY <1>7, <1>8, <3>1, <3>2
  <2>2. CASE ~(Distance(pool_head, c + 1) <= pool_used)
    <3>1. /\ Distance(pool_head, c + 1) \in Int /\ pool_used \in Int
      BY <1>1 DEF Distance, TypeOK, Cells
    <3>2. /\ pool_used < Distance(pool_head, c + 1)
          /\ Distance(pool_head, c + 1) <= pool_used + words + Gap(words)
      BY <1>2, <1>4, <2>2, <3>1
    <3>3. \/ c \in offset .. offset + words - 1
          \/ Gap(words) # 0 /\ c \in PoolWords - Gap(words) .. PoolWords - 1
      BY <1>2, <3>2, PlaceReserves
    <3>4. Gap(words) # 0 => charge # words
      BY <1>2, <1>4
    <3>5. charge - words = Gap(words)
      BY <1>2, <1>4
    <3> HIDE DEF charge, offset, words
    <3>6. c \in Reserved(records'[record_tail])
      BY <1>8, <3>3, <3>4, <3>5 DEF Reserved, Span
    <3> QED BY <1>6, <1>7, <3>6
  <2> QED BY <2>1, <2>2
<1> QED BY <1>9, <1>10 DEF CoverInv

(* Steps that move no record and charge or return no word.                 *)
LEMMA FrameCover ==
  ASSUME CoverInv, UNCHANGED <<record_head, record_count, pool_used>>,
         pool_used # 0 => UNCHANGED pool_head, pool_head' \in Cells, pool_used \in Nat,
         \A i \in Slots : /\ records'[i].offset = records[i].offset
                          /\ records'[i].words = records[i].words
                          /\ records'[i].charge = records[i].charge
  PROVE  CoverInv'
<1>1. \A i \in Slots : InWindow(i)' = InWindow(i)
  BY DEF InWindow, Position
<1>2. GapsLead'
  BY <1>1 DEF CoverInv, GapsLead
<1>3. Covered'
  <2> SUFFICES ASSUME NEW c \in Cells, Distance(pool_head', c + 1) <= pool_used
               PROVE  \E i \in Slots : InWindow(i)' /\ c \in Reserved(records'[i])
    BY DEF Covered, Distance, Reserved, Span
  <2>1. Distance(pool_head', c + 1) \in 1 .. PoolWords
    <3>1. c + 1 \in 1 .. PoolWords
      BY PoolAssumption DEF Cells
    <3> QED BY <3>1, DistanceRange
  <2>2. pool_used # 0
    BY <2>1
  <2>3. PICK i \in Slots : InWindow(i) /\ c \in Reserved(records[i])
    BY <2>2 DEF CoverInv, Covered
  <2>4. Reserved(records'[i]) = Reserved(records[i])
    BY DEF Reserved, Span
  <2> QED BY <1>1, <2>3, <2>4
<1> QED BY <1>2, <1>3 DEF CoverInv

LEMMA CoverNext ==
  ASSUME IInv, CoverInv, [Next]_vars
  PROVE  CoverInv'
<1> USE PoolAssumption
<1>0. /\ TypeOK /\ RingInv /\ records \in [Slots -> RecordType]
      /\ pool_used \in Nat /\ pool_head \in Cells
      /\ record_count = 0 => pool_used = 0
  BY DEF IInv, TypeOK, RingInv
<1>1. CASE ReapPop
  BY <1>1, ReapPopCover
<1>2. CASE SavePlace
  BY <1>2, SavePlaceCover
<1>3. CASE ReapEnd
  <2>1. pool_head' \in Cells
    BY <1>0, <1>3 DEF ReapEnd, Cells
  <2> QED BY <1>0, <1>3, <2>1, FrameCover DEF ReapEnd, ringVars
<1>4. CASE \/ UNCHANGED vars \/ ReapBegin \/ SaveReject
           \/ \E t \in Tasks, f \in Frames : SaveBegin(t, f)
  <2>1. UNCHANGED <<ringVars, spaceVars>>
    BY <1>4 DEF vars, ReapBegin, SaveReject, SaveBegin
  <2> QED BY <1>0, <2>1, FrameCover DEF ringVars, spaceVars
<1>5. ASSUME NEW t \in Tasks, Restore(t) PROVE CoverInv'
  <2>1. t \in old /\ Restorable(t)
    BY <1>5, OldIsRestorable DEF Restore
  <2>2. record[t] \in Slots
    BY <2>1 DEF Restorable
  <2>3. /\ records' = [records EXCEPT ![record[t]].consumed = TRUE]
        /\ UNCHANGED <<record_head, record_count, pool_used, pool_head>>
    BY <1>5, <2>1 DEF Restore, spaceVars
  <2>4. \A i \in Slots : /\ records'[i].offset = records[i].offset
                         /\ records'[i].words = records[i].words
                         /\ records'[i].charge = records[i].charge
    <3> TAKE i \in Slots
    <3>1. records[i] \in RecordType
      BY <1>0
    <3>2. records'[i] = records[i] \/ records'[i] = [records[i] EXCEPT !.consumed = TRUE]
      BY <1>0, <2>2, <2>3
    <3> QED BY <3>1, <3>2 DEF RecordType
  <2> QED BY <1>0, <2>3, <2>4, FrameCover
<1>6. ASSUME NEW o \in Owners, Cancel(o) PROVE CoverInv'
  <2>1. UNCHANGED <<record_head, record_count, pool_used, pool_head>>
    BY <1>6 DEF Cancel, spaceVars
  <2>2. \A i \in Slots : /\ records'[i].offset = records[i].offset
                         /\ records'[i].words = records[i].words
                         /\ records'[i].charge = records[i].charge
    <3> TAKE i \in Slots
    <3>1. records[i] \in RecordType
      BY <1>0
    <3>2. records'[i] = records[i] \/ records'[i] = [records[i] EXCEPT !.consumed = TRUE]
      BY <1>6 DEF Cancel
    <3> QED BY <3>1, <3>2 DEF RecordType
  <2> QED BY <1>0, <2>1, <2>2, FrameCover
<1> QED BY <1>1, <1>2, <1>3, <1>4, <1>5, <1>6 DEF Next

(* A run of words that meets nothing between head and tail lies wholly on  *)
(* one side of it, where the comparisons of snapshot_save look.            *)
LEMMA FreeRunFits ==
  ASSUME IInv, CoverInv, lock.op = "place", NEW n \in Nat \ {0},
         record_count # MaxRecords, NEW o \in 0 .. PoolWords - n,
         o .. o + n - 1 \subseteq FreeCells
  PROVE  HasRoom(n)
<1> USE PoolAssumption
<1>1. /\ pool_head \in 0 .. PoolWords - 1 /\ pool_tail \in 0 .. PoolWords - 1
      /\ pool_used \in 0 .. PoolWords /\ PoolWords \in Nat
  BY DEF IInv, TypeOK, Cells
<1>2. o \in Nat /\ n > 0 /\ o + n <= PoolWords
  BY <1>1
<1>3. ASSUME NEW c \in o .. o + n - 1
      PROVE  pool_used < Distance(pool_head, c + 1)
  <2>1. c \in Cells /\ \A i \in Slots : InWindow(i) => c \notin Reserved(records[i])
    BY DEF FreeCells
  <2>2. ~(Distance(pool_head, c + 1) <= pool_used)
    BY <2>1 DEF CoverInv, Covered
  <2>3. Distance(pool_head, c + 1) \in Int
    BY <1>1, <2>1 DEF Distance, Cells
  <2> QED BY <1>1, <2>2, <2>3
<1>4. CASE record_count = 0
  <2>1. pool_head = 0 /\ pool_tail = 0 /\ pool_used = 0
    BY <1>4 DEF IInv, RingInv
  <2>2. ~Wraps(n)
    BY <1>1, <1>2, <2>1 DEF Wraps
  <2> QED BY <1>1, <1>2, <2>1, <2>2 DEF HasRoom
<1>5. CASE record_count # 0
  <2>1. PICK e \in 1 .. PoolWords :
          pool_used = Distance(pool_head, e) /\ pool_tail = WrapEnd(e)
    <3>1. TypeOK /\ RingInv
      BY DEF IInv
    <3> QED BY <1>5, <3>1, TailPosition
  <2>2. pool_used >= 1
    BY <1>1, <2>1 DEF Distance
  <2>3. pool_used < Distance(pool_head, o + 1)
    <3>1. o \in o .. o + n - 1
      BY <1>2
    <3> QED BY <1>3, <3>1
  <2>4. o > pool_head \/ o + n <= pool_head
    <3> SUFFICES ASSUME o <= pool_head, pool_head < o + n PROVE FALSE
      BY <1>1, <1>2
    <3>1. pool_head \in o .. o + n - 1
      BY <1>1, <1>2
    <3>2. pool_used < Distance(pool_head, pool_head + 1)
      BY <1>3, <3>1
    <3> QED BY <1>1, <2>2, <3>2 DEF Distance
  <2>5. CASE o > pool_head
    <3>1. o >= pool_head + pool_used
      BY <1>1, <1>2, <2>3, <2>5 DEF Distance
    <3>2. pool_head + pool_used < PoolWords
      BY <1>1, <1>2, <3>1
    <3>3. pool_tail = pool_head + pool_used
      BY <1>1, <2>1, <3>2 DEF Distance, WrapEnd
    <3>4. n <= PoolWords - pool_tail /\ n <= PoolWords - pool_used /\ pool_tail >= pool_head
      BY <1>1, <1>2, <3>1, <3>3
    <3>5. ~Wraps(n)
      BY <1>1, <1>2, <3>4 DEF Wraps
    <3> QED BY <3>4, <3>5 DEF HasRoom
  <2>6. CASE o + n <= pool_head
    <3>1. o + PoolWords >= pool_head + pool_used
      BY <1>1, <1>2, <2>3, <2>6 DEF Distance
    <3>2. n <= PoolWords - pool_used
      BY <1>1, <1>2, <2>6, <3>1
    <3>3. CASE pool_head + pool_used < PoolWords
      <4>1. pool_tail = pool_head + pool_used
        BY <1>1, <2>1, <3>3 DEF Distance, WrapEnd
      <4>2. pool_tail >= pool_head /\ n <= pool_head
        BY <1>1, <1>2, <2>6, <4>1
      <4>3. Wraps(n) => Gap(n) <= PoolWords - pool_used - n
        BY <1>1, <1>2, <4>1, <4>2 DEF Gap
      <4> QED BY <3>2, <4>2, <4>3 DEF HasRoom
    <3>4. CASE ~(pool_head + pool_used < PoolWords)
      <4>1. pool_tail = pool_head + pool_used - PoolWords
        BY <1>1, <1>2, <2>1, <3>2, <3>4 DEF Distance, WrapEnd
      <4>2. n <= pool_head - pool_tail /\ ~(pool_tail >= pool_head)
        BY <1>1, <1>2, <2>6, <3>1, <4>1
      <4>3. ~Wraps(n)
        BY <4>2 DEF Wraps
      <4> QED BY <3>2, <4>2, <4>3 DEF HasRoom
    <3> QED BY <3>3, <3>4
  <2> QED BY <2>4, <2>5, <2>6
<1> QED BY <1>4, <1>5

(* snapshot_save refuses a frame only when the records are used up or no   *)
(* run of unreserved words could have held it.                             *)
THEOREM NothingWasted == Spec => RejectsOnlyWhenFull
<1>1. Init => CoverInv
  <2> SUFFICES ASSUME Init PROVE CoverInv
    OBVIOUS
  <2>1. \A i \in Slots : ~InWindow(i)
    BY PoolAssumption DEF Init, InWindow, Position, Slots
  <2>2. \A c \in Cells : ~(Distance(pool_head, c + 1) <= pool_used)
    BY PoolAssumption DEF Init, Distance, Cells
  <2> QED BY <2>1, <2>2 DEF CoverInv, GapsLead, Covered
<1>2. IInv /\ CoverInv /\ [Next]_vars => CoverInv'
  BY CoverNext
<1>3. IInv /\ CoverInv /\ SaveReject =>
        \/ record_count = MaxRecords
        \/ \A o \in 0 .. PoolWords - Len(lock.frame) :
             ~(o .. o + Len(lock.frame) - 1 \subseteq FreeCells)
  <2> SUFFICES ASSUME IInv, CoverInv, SaveReject, record_count # MaxRecords,
                      NEW o \in 0 .. PoolWords - Len(lock.frame),
                      o .. o + Len(lock.frame) - 1 \subseteq FreeCells
               PROVE  FALSE
    OBVIOUS
  <2>1. lock.op = "place" /\ ~HasRoom(Len(lock.frame))
    BY DEF SaveReject
  <2>2. lock.frame \in Frames
    BY <2>1 DEF IInv, TypeOK, LockType
  <2>3. Len(lock.frame) \in Nat \ {0}
    BY <2>2, PoolAssumption
  <2> QED BY <2>1, <2>3, FreeRunFits
<1> QED BY <1>1, <1>2, <1>3, Safety, PTL DEF Spec, RejectsOnlyWhenFull

----------------------------------------------------------------------------
(* The refinement.  View is the abstract store's saved, and FramesKept the *)
(* extra invariant a Resume step needs: what is kept is always a frame.    *)
View == [t \in Tasks |-> IF t \in old THEN Contents(records[record[t]]) ELSE NONE]
FramesKept == \A t \in old : View[t] \in Frames

(* A record that keeps its place, in a pool whose words under it do not    *)
(* change, keeps its contents.                                             *)
LEMMA SameContents ==
  ASSUME NEW r, NEW s, s.offset = r.offset, s.words = r.words,
         r.offset \in Nat, r.words \in Nat,
         \A i \in Span(r) : pool'[i] = pool[i]
  PROVE  [i \in 1 .. s.words |-> pool'[s.offset + i - 1]] = Contents(r)
<1>1. \A i \in 1 .. r.words : r.offset + i - 1 \in Span(r)
  BY DEF Span
<1> QED BY <1>1 DEF Contents

(* The record of a preempted task, and its span inside the pool.           *)
LEMMA OldRecord ==
  ASSUME IInv, NEW t \in old
  PROVE  /\ t \in Tasks /\ record[t] \in Slots /\ InWindow(record[t])
         /\ records[record[t]].task = t /\ ~records[record[t]].consumed
         /\ records[record[t]].offset \in Nat /\ records[record[t]].words \in Nat
         /\ Span(records[record[t]]) \subseteq Cells
<1> DEFINE r == records[record[t]]
<1>1. /\ t \in Tasks /\ record[t] \in Slots /\ InWindow(record[t])
      /\ r.task = t /\ ~r.consumed
  BY DEF IInv, RecordsMatchTasks, TypeOK
<1>2. RecordFits(r) /\ r \in RecordType
  BY <1>1 DEF IInv, RingInv, TypeOK
<1>3. r.offset \in Nat /\ r.words \in Nat /\ r.offset + r.words <= PoolWords
  BY <1>2 DEF RecordFits, RecordType
<1>4. Span(r) \subseteq Cells
  BY <1>3, PoolAssumption DEF Span, Cells
<1> QED BY <1>1, <1>3, <1>4

(* A step that moves no live record and writes no pool word is invisible   *)
(* but for the tasks that leave TASK_OLD.                                  *)
LEMMA ViewKept ==
  ASSUME IInv, UNCHANGED pool, old' \subseteq old,
         \A t \in old' : record'[t] = record[t],
         \A t \in old' : /\ records'[record[t]].offset = records[record[t]].offset
                         /\ records'[record[t]].words = records[record[t]].words
  PROVE  View' = [t \in Tasks |-> IF t \in old' THEN View[t] ELSE NONE]
<1>1. ASSUME NEW t \in Tasks, t \in old'
      PROVE  Contents(records[record[t]])' = View[t]
  <2>1. t \in old
    BY <1>1
  <2>2. records[record[t]].offset \in Nat /\ records[record[t]].words \in Nat
    BY <2>1, OldRecord
  <2>3. \A i \in Span(records[record[t]]) : pool'[i] = pool[i]
    OBVIOUS
  <2>4. /\ records'[record'[t]].offset = records[record[t]].offset
        /\ records'[record'[t]].words = records[record[t]].words
    BY <1>1
  <2>5. [i \in 1 .. records'[record'[t]].words |->
           pool'[records'[record'[t]].offset + i - 1]] = Contents(records[record[t]])
    BY <2>2, <2>3, <2>4, SameContents
  <2>6. Contents(records[record[t]])' = Contents(records[record[t]])
    BY <2>5 DEF Contents
  <2> QED BY <2>1, <2>6 DEF View
<1> QED BY <1>1 DEF View

LEMMA ViewSame ==
  ASSUME IInv, UNCHANGED <<pool, taskVars>>,
         \A t \in old : /\ records'[record[t]].offset = records[record[t]].offset
                        /\ records'[record[t]].words = records[record[t]].words
  PROVE  View' = View
<1>1. View' = [t \in Tasks |-> IF t \in old' THEN View[t] ELSE NONE]
  BY ViewKept DEF taskVars
<1> QED BY <1>1 DEF View, taskVars

LEMMA ReapPopView ==
  ASSUME IInv, ReapPop
  PROVE  View' = View
<1>1. \A t \in old : record[t] # record_head
  BY OldRecord DEF ReapPop, HeadConsumed
<1>2. \A t \in old : records'[record[t]] = records[record[t]]
  <2>1. \A t \in old : record[t] \in Slots
    BY OldRecord
  <2>2. records \in [Slots -> RecordType]
    BY DEF IInv, TypeOK
  <2>3. records' = records \/ records' = [records EXCEPT ![record_head] = ZeroRecord]
    BY DEF ReapPop
  <2> QED BY <1>1, <2>1, <2>2, <2>3
<1> QED BY <1>2, ViewSame DEF ReapPop

LEMMA RestoreView ==
  ASSUME IInv, NEW t \in Tasks, Restore(t)
  PROVE  /\ t \in old /\ runtime' = View[t]
         /\ View' = [View EXCEPT ![t] = NONE]
         /\ old' = old \ {t}
<1>1. t \in old /\ Restorable(t)
  BY OldIsRestorable DEF Restore
<1>2. /\ runtime' = Contents(records[record[t]])
      /\ records' = [records EXCEPT ![record[t]].consumed = TRUE]
      /\ record' = [record EXCEPT ![t] = NONE]
      /\ old' = old \ {t}
      /\ UNCHANGED pool
  BY <1>1 DEF Restore
<1>3. record \in [Tasks -> Slots \cup {NONE}] /\ records \in [Slots -> RecordType]
      /\ old \subseteq Tasks
  BY DEF IInv, TypeOK
<1>4. \A u \in old' : record'[u] = record[u] /\ record[u] \in Slots
  BY <1>2, <1>3, OldRecord
<1>5. \A i \in Slots : /\ records'[i].offset = records[i].offset
                       /\ records'[i].words = records[i].words
  <2> TAKE i \in Slots
  <2>1. CASE i = record[t]
    <3>1. records[i] \in RecordType /\ records'[i] = [records[i] EXCEPT !.consumed = TRUE]
      BY <1>2, <1>3, <2>1
    <3> QED BY <3>1 DEF RecordType
  <2>2. CASE i # record[t]
    BY <1>2, <1>3, <2>2
  <2> QED BY <2>1, <2>2
<1>6. View' = [u \in Tasks |-> IF u \in old' THEN View[u] ELSE NONE]
  BY <1>2, <1>4, <1>5, ViewKept
<1>7. View' = [View EXCEPT ![t] = NONE]
  <2>1. \A u \in Tasks : u \notin old => View[u] = NONE
    BY DEF View
  <2>2. View = [u \in Tasks |-> View[u]]
    BY DEF View
  <2> HIDE DEF View
  <2> QED BY <1>2, <1>6, <2>1, <2>2
<1> QED BY <1>1, <1>2, <1>7 DEF View

LEMMA CancelView ==
  ASSUME IInv, NEW o \in Owners, Cancel(o)
  PROVE  View' = [t \in Tasks |-> IF Group[t] = o THEN NONE ELSE View[t]]
<1>1. /\ record' = [t \in Tasks |-> IF Group[t] = o THEN NONE ELSE record[t]]
      /\ old' = {t \in old : Group[t] # o}
      /\ UNCHANGED pool
  BY DEF Cancel
<1>2. old \subseteq Tasks /\ records \in [Slots -> RecordType]
  BY DEF IInv, TypeOK
<1>3. \A t \in old' : record'[t] = record[t] /\ record[t] \in Slots
  BY <1>1, <1>2, OldRecord
<1>4. \A i \in Slots : /\ records'[i].offset = records[i].offset
                       /\ records'[i].words = records[i].words
  <2> TAKE i \in Slots
  <2>1. records[i] \in RecordType
    BY <1>2
  <2>2. records'[i] = records[i] \/ records'[i] = [records[i] EXCEPT !.consumed = TRUE]
    BY DEF Cancel
  <2> QED BY <2>1, <2>2 DEF RecordType
<1>5. View' = [t \in Tasks |-> IF t \in old' THEN View[t] ELSE NONE]
  BY <1>1, <1>3, <1>4, ViewKept
<1> QED BY <1>1, <1>5 DEF View

(* The new span is disjoint from every live one, so an accepted frame      *)
(* overwrites no other task's words.                                       *)
LEMMA SavePlaceView ==
  ASSUME IInv, SavePlace
  PROVE  /\ lock.task \in Tasks \ old /\ lock.frame \in Frames
         /\ View' = [View EXCEPT ![lock.task] = lock.frame]
         /\ old' = old \cup {lock.task}
<1> USE PoolAssumption
<1> DEFINE words == Len(lock.frame)
           offset == Offset(words)
<1>0. PICK task : task = lock.task
  OBVIOUS
<1>1. TypeOK /\ RingInv /\ IInv'
  BY SavePlaceInv DEF IInv
<1>2. task \in Tasks /\ task \notin old /\ lock.frame \in Frames
  BY <1>0, <1>1 DEF TypeOK, LockType, SavePlace
<1>3. words \in Nat \ {0} /\ lock.frame \in Seq(Word)
  BY <1>2
<1>4. HasRoom(words) /\ lock.op = "place"
  BY DEF SavePlace
<1>5. offset \in Nat /\ offset + words \in 1 .. PoolWords
  BY <1>3, <1>4, PlaceReach
<1>6. /\ record' = [record EXCEPT ![task] = record_tail]
      /\ old' = old \cup {task}
      /\ pool' = [i \in Cells |->
           IF i \in offset .. offset + words - 1 THEN lock.frame[i - offset + 1] ELSE pool[i]]
  BY <1>0 DEF SavePlace
<1>7. record_tail \in Slots /\ ~InWindow(record_tail)
  <2>1. record_count # MaxRecords
    BY <1>4 DEF HasRoom
  <2> QED BY <1>1, <2>1, TailSlot
<1>8. record \in [Tasks -> Slots \cup {NONE}] /\ records \in [Slots -> RecordType]
  BY <1>1 DEF TypeOK
<1>9. /\ record'[task] = record_tail
      /\ records'[record_tail].offset = offset /\ records'[record_tail].words = words
      /\ \A i \in Slots : i # record_tail => records'[i] = records[i]
  BY <1>0, <1>2, <1>7, <1>8 DEF SavePlace
<1>10. Contents(records[record[task]])' = lock.frame
  <2>1. Contents(records[record[task]])'
          = [i \in 1 .. words |-> pool'[offset + i - 1]]
    BY <1>9 DEF Contents
  <2>2. \A i \in 1 .. words : pool'[offset + i - 1] = lock.frame[i]
    <3> SUFFICES ASSUME NEW i \in 1 .. words PROVE pool'[offset + i - 1] = lock.frame[i]
      OBVIOUS
    <3> HIDE DEF words, offset
    <3>1. offset + i - 1 \in Cells /\ offset + i - 1 \in offset .. offset + words - 1
      BY <1>3, <1>5 DEF Cells
    <3>2. (offset + i - 1) - offset + 1 = i
      BY <1>5
    <3> QED BY <1>6, <3>1, <3>2
  <2>3. lock.frame = [i \in 1 .. words |-> lock.frame[i]]
    BY <1>3
  <2> HIDE DEF words, offset
  <2> QED BY <2>1, <2>2, <2>3
<1>11. ASSUME NEW t \in old
       PROVE  Contents(records[record[t]])' = View[t]
  <2> DEFINE r == records[record[t]]
  <2>1. /\ t \in Tasks /\ t # task /\ record[t] \in Slots /\ InWindow(record[t])
        /\ r.offset \in Nat /\ r.words \in Nat /\ Span(r) \subseteq Cells
    BY <1>2, OldRecord
  <2>2. record[t] # record_tail /\ record'[t] = record[t] /\ records'[record[t]] = r
    BY <1>6, <1>7, <1>8, <1>9, <2>1
  <2>3. Span(r) \cap (offset .. offset + words - 1) = {}
    <3>1. SpansDisjoint'
      BY <1>1, IInvDisjointNext
    <3>2. t \in old' /\ task \in old'
      BY <1>6
    <3>3. \A u \in old' : record'[u] \in Slots /\ InWindow(record[u])'
      BY <1>1 DEF IInv, RecordsMatchTasks
    <3>4. InWindow(record[t])' /\ InWindow(record[task])'
      BY <1>1, <3>2, <3>3
    <3>5. Span(records'[record'[t]]) \cap Span(records'[record'[task]]) = {}
      BY <1>7, <1>9, <2>1, <2>2, <3>1, <3>4 DEF SpansDisjoint, InWindow, Position
    <3>6. Span(records'[record'[task]]) = offset .. offset + words - 1
      BY <1>9 DEF Span
    <3> QED BY <2>2, <3>5, <3>6
  <2>4. \A i \in Span(r) : pool'[i] = pool[i]
    BY <1>6, <2>1, <2>3
  <2>5. [i \in 1 .. r.words |-> pool'[r.offset + i - 1]] = Contents(r)
    BY <2>1, <2>4, SameContents
  <2>6. Contents(records[record[t]])' = Contents(r)
    BY <2>2, <2>5 DEF Contents
  <2> QED BY <2>1, <2>6 DEF View
<1>12. View' = [View EXCEPT ![task] = lock.frame]
  <2>1. View = [u \in Tasks |-> View[u]]
    BY DEF View
  <2>2. ASSUME NEW u \in Tasks
        PROVE  (IF u \in old' THEN Contents(records[record[u]])' ELSE NONE)
                 = IF u = task THEN lock.frame ELSE View[u]
    <3>1. CASE u = task
      BY <1>6, <1>10, <3>1
    <3>2. CASE u # task /\ u \in old
      BY <1>6, <1>11, <3>2
    <3>3. CASE u # task /\ u \notin old
      BY <1>6, <3>3 DEF View
    <3> QED BY <3>1, <3>2, <3>3
  <2>3. View' = [u \in Tasks |-> IF u = task THEN lock.frame ELSE View[u]]
    BY <2>2 DEF View
  <2> HIDE DEF View
  <2> QED BY <1>2, <2>1, <2>3
<1> QED BY <1>0, <1>2, <1>6, <1>12

----------------------------------------------------------------------------
(* Every step keeps, resumes or drops frames as the abstract store may, or *)
(* is invisible to it.                                                     *)
LEMMA StoreStep ==
  ASSUME IInv, FramesKept, [Next]_vars
  PROVE  FramesKept' /\ [Store!StoreNext]_(Store!storeVars)
<1> USE PoolAssumption
<1>0. /\ View = [t \in Tasks |-> View[t]]
      /\ \A t \in Tasks : t \notin old => View[t] = NONE
      /\ old \subseteq Tasks
  BY DEF View, IInv, TypeOK
<1>1. ASSUME View' = View, UNCHANGED <<old, runtime>>
      PROVE  FramesKept' /\ [Store!StoreNext]_(Store!storeVars)
  BY <1>1 DEF FramesKept, Store!storeVars, View
<1>2. CASE UNCHANGED vars
  <2>1. View' = View
    BY <1>2 DEF View, Contents, vars, taskVars, ringVars
  <2> QED BY <1>1, <1>2, <2>1 DEF vars, taskVars
<1>3. CASE ReapPop
  BY <1>1, <1>3, ReapPopView DEF ReapPop, taskVars
<1>4. CASE ReapEnd \/ ReapBegin \/ SaveReject \/ \E t \in Tasks, f \in Frames : SaveBegin(t, f)
  <2>1. UNCHANGED <<ringVars, pool, taskVars, runtime>>
    BY <1>4 DEF ReapEnd, ReapBegin, SaveReject, SaveBegin
  <2>2. View' = View
    BY <2>1 DEF View, Contents, taskVars, ringVars
  <2> QED BY <1>1, <2>1, <2>2 DEF taskVars
<1>5. CASE SavePlace
  <2>1. PICK t \in Tasks, f \in Frames :
          t \notin old /\ View' = [View EXCEPT ![t] = f] /\ old' = old \cup {t}
    BY <1>5, SavePlaceView
  <2>2. UNCHANGED runtime
    BY <1>5 DEF SavePlace
  <2>3. FramesKept'
    <3> HIDE DEF View
    <3> QED BY <1>0, <2>1 DEF FramesKept
  <2>4. Store!Keep(t, f)
    BY <1>0, <2>1, <2>2 DEF Store!Keep, View
  <2> QED BY <2>3, <2>4 DEF Store!StoreNext
<1>6. ASSUME NEW t \in Tasks, Restore(t)
      PROVE  FramesKept' /\ [Store!StoreNext]_(Store!storeVars)
  <2>1. /\ t \in old /\ runtime' = View[t]
        /\ View' = [View EXCEPT ![t] = NONE] /\ old' = old \ {t}
    BY <1>6, RestoreView
  <2>2. FramesKept'
    <3> HIDE DEF View
    <3> QED BY <1>0, <2>1 DEF FramesKept
  <2>3. View[t] # NONE
    BY <2>1 DEF FramesKept
  <2>4. Store!Resume(t)
    BY <2>1, <2>3 DEF Store!Resume, View
  <2> QED BY <2>2, <2>4 DEF Store!StoreNext
<1>7. ASSUME NEW o \in Owners, Cancel(o)
      PROVE  FramesKept' /\ [Store!StoreNext]_(Store!storeVars)
  <2>1. View' = [t \in Tasks |-> IF Group[t] = o THEN NONE ELSE View[t]]
    BY <1>7, CancelView
  <2>2. old' = {t \in old : Group[t] # o} /\ UNCHANGED runtime
    BY <1>7 DEF Cancel
  <2>3. FramesKept'
    <3> HIDE DEF View
    <3> QED BY <1>0, <2>1, <2>2 DEF FramesKept
  <2>4. Store!Drop(o)
    BY <2>1, <2>2 DEF Store!Drop, View
  <2> QED BY <2>3, <2>4 DEF Store!StoreNext
<1> QED BY <1>2, <1>3, <1>4, <1>5, <1>6, <1>7 DEF Next

(* The ring implements the abstract store: whatever the sizes of the pool  *)
(* and of the record history, snapshot_restore gives back the very frame   *)
(* that snapshot_save accepted.                                            *)
THEOREM Refinement == Spec => ImplementsStore
<1>1. Init => Store!StoreInit /\ FramesKept
  BY DEF Init, Store!StoreInit, FramesKept
<1>2. IInv /\ FramesKept /\ [Next]_vars => FramesKept' /\ [Store!StoreNext]_(Store!storeVars)
  BY StoreStep
<1> QED BY <1>1, <1>2, Safety, PTL DEF Spec, ImplementsStore, Store!StoreSpec
=============================================================================
