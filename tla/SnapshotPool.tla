---------------------------- MODULE SnapshotPool ----------------------------
(***************************************************************************)
(* The snapshot pool of code/section/srtos_stl/core/section.c.  Tasks      *)
(* share one executable stack; a preempted task's words are copied into a  *)
(* ring of pool words and described by a record in a ring of records.      *)
(* Only the consumed prefix of the records is ever reclaimed.              *)
(*                                                                         *)
(* Every operation runs under the port lock.  The loop of records_reap is  *)
(* modelled one iteration at a time: lock says which operation holds the   *)
(* lock, and no other operation starts until it is "free" again.           *)
(***************************************************************************)
EXTENDS Integers, Sequences

CONSTANTS
  PoolWords,   (* SECTION_STL_POOL_WORDS                                   *)
  MaxRecords,  (* SECTION_STL_MAX_RECORDS                                  *)
  Tasks,       (* resident task slots                                      *)
  Owners,      (* loaded groups                                            *)
  Group,       (* the group that owns each task slot                       *)
  Word,        (* what a stack word can hold                               *)
  Frames,      (* the stack images a task can be preempted with            *)
  NONE         (* STL_NONE, and the absent task, group or frame            *)

Slots == 0 .. MaxRecords - 1
Cells == 0 .. PoolWords - 1

ASSUME PoolAssumption ==
  /\ PoolWords \in Nat \ {0}
  /\ MaxRecords \in Nat \ {0}
  /\ Group \in [Tasks -> Owners]
  /\ Frames \subseteq Seq(Word) \ {<< >>}
  /\ NONE \notin Tasks /\ NONE \notin Owners /\ NONE \notin Slots /\ NONE \notin Frames

VARIABLES
  records,      (* the ring of allocation records                          *)
  record_head,  (* oldest unretired record                                 *)
  record_tail,  (* next free metadata slot                                 *)
  record_count,
  pool,         (* the snapshot words                                      *)
  pool_head,    (* first charged position                                  *)
  pool_tail,    (* next allocation position                                *)
  pool_used,    (* charged words                                           *)
  record,       (* resident_task_t.record of every task                    *)
  old,          (* the tasks in TASK_OLD                                   *)
  runtime,      (* the frame last copied back to runtime_stack             *)
  lock,         (* the operation that holds the port lock                  *)
  fault         (* SECTION_STL_CORRUPT is latched                          *)

ringVars == <<records, record_head, record_tail, record_count>>
spaceVars == <<pool_head, pool_tail, pool_used>>
taskVars == <<record, old>>
vars == <<ringVars, spaceVars, taskVars, pool, runtime, lock, fault>>

ZeroRecord == [owner |-> NONE, task |-> NONE, offset |-> 0, words |-> 0,
               charge |-> 0, consumed |-> FALSE]
Free == [op |-> "free", task |-> NONE, frame |-> NONE]

(* The two ring successors: (i + 1) % MaxRecords for a record index, and   *)
(* (offset + words) % PoolWords for the end of a span that fits the pool.  *)
NextSlot(i) == IF i + 1 = MaxRecords THEN 0 ELSE i + 1
WrapEnd_NoModulo(e) == e
WrapEnd(e) == IF e = PoolWords THEN 0 ELSE e

Init ==
  /\ records = [i \in Slots |-> ZeroRecord]
  /\ record_head = 0 /\ record_tail = 0 /\ record_count = 0
  /\ pool = [i \in Cells |-> NONE]
  /\ pool_head = 0 /\ pool_tail = 0 /\ pool_used = 0
  /\ record = [t \in Tasks |-> NONE]
  /\ old = {}
  /\ runtime = NONE
  /\ lock = Free
  /\ fault = FALSE

----------------------------------------------------------------------------
(* records_reap.                                                           *)

HeadConsumed == record_count > 0 /\ records[record_head].consumed

(* The three bounds that latch corruption instead of popping a record.     *)
Reapable_Strict(r) ==
  r.charge < pool_used /\ r.words <= PoolWords /\ r.offset <= PoolWords - r.words
Reapable(r) ==
  /\ r.charge <= pool_used
  /\ r.words <= PoolWords
  /\ r.offset <= PoolWords - r.words

ReapPop ==
  /\ lock.op \in {"save", "reap"} /\ HeadConsumed
  /\ LET r == records[record_head] IN
       IF Reapable(r)
         THEN /\ pool_head' = WrapEnd(r.offset + r.words)
              /\ pool_used' = pool_used - r.charge
              /\ records' = [records EXCEPT ![record_head] = ZeroRecord]
              /\ record_head' = NextSlot(record_head)
              /\ record_count' = record_count - 1
              /\ UNCHANGED <<lock, fault>>
         ELSE /\ fault' = TRUE /\ lock' = Free
              /\ UNCHANGED <<pool_head, pool_used, records, record_head, record_count>>
  /\ UNCHANGED <<record_tail, pool_tail, taskVars, pool, runtime>>

(* The loop exits.  An empty history rewinds the pool, and must not leave  *)
(* a word charged; a save goes on to place its frame.                      *)
ReapEnd_NoRewind ==
  /\ lock.op \in {"save", "reap"} /\ ~HeadConsumed
  /\ lock' = IF lock.op = "save" THEN [lock EXCEPT !.op = "place"] ELSE Free
  /\ UNCHANGED <<ringVars, spaceVars, taskVars, pool, runtime, fault>>
ReapEnd ==
  /\ lock.op \in {"save", "reap"} /\ ~HeadConsumed
  /\ pool_head' = IF record_count = 0 THEN 0 ELSE pool_head
  /\ pool_tail' = IF record_count = 0 THEN 0 ELSE pool_tail
  /\ fault' = (record_count = 0 /\ pool_used # 0)
  /\ lock' = IF lock.op = "save" /\ ~fault'
               THEN [lock EXCEPT !.op = "place"] ELSE Free
  /\ UNCHANGED <<ringVars, pool_used, taskVars, pool, runtime>>

----------------------------------------------------------------------------
(* snapshot_save.  The caller is a preempted task: it is running, so it is *)
(* not in TASK_OLD.                                                        *)

SaveBegin(t, f) ==
  /\ lock = Free /\ ~fault /\ t \notin old
  /\ lock' = [op |-> "save", task |-> t, frame |-> f]
  /\ UNCHANGED <<ringVars, spaceVars, taskVars, pool, runtime, fault>>

(* The frame does not fit behind pool_tail, so the words up to the end of  *)
(* the pool are charged to it as well.                                     *)
Wraps(words) == pool_tail >= pool_head /\ words > PoolWords - pool_tail

Gap_NotCharged(words) == 0
Gap(words) == IF Wraps(words) THEN PoolWords - pool_tail ELSE 0
Offset(words) == IF Wraps(words) THEN 0 ELSE pool_tail

HasRoom_CrossesHead(words) ==
  /\ record_count # MaxRecords
  /\ words <= PoolWords - pool_used
  /\ Wraps(words) \/ pool_tail >= pool_head \/ words <= pool_head - pool_tail
HasRoom_Strict(words) ==
  /\ record_count # MaxRecords
  /\ words <= PoolWords - pool_used
  /\ IF Wraps(words)
       THEN words < pool_head
       ELSE pool_tail >= pool_head \/ words < pool_head - pool_tail
HasRoom(words) ==
  /\ record_count # MaxRecords
  /\ words <= PoolWords - pool_used
  /\ IF Wraps(words)
       THEN words <= pool_head /\ Gap(words) <= PoolWords - pool_used - words
       ELSE pool_tail >= pool_head \/ words <= pool_head - pool_tail

SavePlace ==
  /\ lock.op = "place"
  /\ LET f == lock.frame
         words == Len(f)
         offset == Offset(words)
         charge == words + Gap(words)
     IN /\ HasRoom(words)
        /\ records' = [records EXCEPT ![record_tail] =
             [owner |-> Group[lock.task], task |-> lock.task, offset |-> offset,
              words |-> words, charge |-> charge, consumed |-> FALSE]]
        /\ pool' = [i \in Cells |->
             IF i \in offset .. offset + words - 1 THEN f[i - offset + 1] ELSE pool[i]]
        /\ pool_tail' = WrapEnd(offset + words)
        /\ pool_used' = pool_used + charge
  /\ record' = [record EXCEPT ![lock.task] = record_tail]
  /\ old' = old \cup {lock.task}
  /\ record_tail' = NextSlot(record_tail)
  /\ record_count' = record_count + 1
  /\ lock' = Free
  /\ UNCHANGED <<record_head, pool_head, runtime, fault>>

(* Exhaustion: nothing is reserved and the task keeps running.             *)
SaveReject ==
  /\ lock.op = "place" /\ ~HasRoom(Len(lock.frame))
  /\ lock' = Free
  /\ UNCHANGED <<ringVars, spaceVars, taskVars, pool, runtime, fault>>

----------------------------------------------------------------------------
(* snapshot_restore of a task in TASK_OLD.                                 *)

Restorable(t) ==
  /\ record[t] \in Slots
  /\ LET r == records[record[t]] IN
       /\ ~r.consumed
       /\ r.owner = Group[t]
       /\ r.task = t
       /\ r.words <= PoolWords
       /\ r.offset <= PoolWords - r.words

Contents(r) == [i \in 1 .. r.words |-> pool[r.offset + i - 1]]

Restore_NoReap(t) ==
  /\ lock = Free /\ ~fault /\ t \in old /\ Restorable(t)
  /\ runtime' = Contents(records[record[t]])
  /\ records' = [records EXCEPT ![record[t]].consumed = TRUE]
  /\ record' = [record EXCEPT ![t] = NONE]
  /\ old' = old \ {t}
  /\ UNCHANGED <<record_head, record_tail, record_count, spaceVars, pool, lock, fault>>
Restore(t) ==
  /\ lock = Free /\ ~fault /\ t \in old
  /\ IF Restorable(t)
       THEN /\ runtime' = Contents(records[record[t]])
            /\ records' = [records EXCEPT ![record[t]].consumed = TRUE]
            /\ record' = [record EXCEPT ![t] = NONE]
            /\ old' = old \ {t}
            /\ lock' = [Free EXCEPT !.op = "reap"]
            /\ UNCHANGED fault
       ELSE /\ fault' = TRUE
            /\ UNCHANGED <<runtime, records, record, old, lock>>
  /\ UNCHANGED <<record_head, record_tail, record_count, spaceVars, pool>>

(* group_cancel: every unconsumed record in the window becomes a tombstone *)
(* and the group's tasks forget their record.                              *)
Position(i) == IF i >= record_head THEN i - record_head
                                   ELSE i + MaxRecords - record_head
InWindow(i) == Position(i) < record_count

Cancel_LeavesRecords(o) ==
  /\ lock = Free /\ ~fault
  /\ record' = [t \in Tasks |-> IF Group[t] = o THEN NONE ELSE record[t]]
  /\ old' = {t \in old : Group[t] # o}
  /\ lock' = [Free EXCEPT !.op = "reap"]
  /\ UNCHANGED <<ringVars, spaceVars, pool, runtime, fault>>
Cancel(o) ==
  /\ lock = Free /\ ~fault
  /\ records' = [i \in Slots |->
       IF InWindow(i) /\ records[i].owner = o
         THEN [records[i] EXCEPT !.consumed = TRUE] ELSE records[i]]
  /\ record' = [t \in Tasks |-> IF Group[t] = o THEN NONE ELSE record[t]]
  /\ old' = {t \in old : Group[t] # o}
  /\ lock' = [Free EXCEPT !.op = "reap"]
  /\ UNCHANGED <<record_head, record_tail, record_count, spaceVars, pool,
                 runtime, fault>>

(* The reap of section_stl_group_quiescent and of section_stl_switch.      *)
ReapBegin ==
  /\ lock = Free /\ ~fault
  /\ lock' = [Free EXCEPT !.op = "reap"]
  /\ UNCHANGED <<ringVars, spaceVars, taskVars, pool, runtime, fault>>

----------------------------------------------------------------------------
Next ==
  \/ ReapPop \/ ReapEnd \/ ReapBegin
  \/ SavePlace \/ SaveReject
  \/ \E t \in Tasks : Restore(t)
  \/ \E t \in Tasks, f \in Frames : SaveBegin(t, f)
  \/ \E o \in Owners : Cancel(o)

Spec == Init /\ [][Next]_vars

----------------------------------------------------------------------------
(* Properties.                                                             *)

RecordType == [owner : Owners \cup {NONE}, task : Tasks \cup {NONE}, offset : Nat,
               words : Nat, charge : Nat, consumed : BOOLEAN]

LockType ==
  \/ lock \in [op : {"free", "reap"}, task : {NONE}, frame : {NONE}]
  \/ lock \in [op : {"save", "place"}, task : Tasks \ old, frame : Frames]

(* The resident tables hold what section.c declares them to hold.          *)
TypeOK ==
  /\ records \in [Slots -> RecordType]
  /\ record_head \in Slots /\ record_tail \in Slots
  /\ record_count \in 0 .. MaxRecords
  /\ pool \in [Cells -> Word \cup {NONE}]
  /\ pool_head \in Cells /\ pool_tail \in Cells
  /\ pool_used \in 0 .. PoolWords
  /\ record \in [Tasks -> Slots \cup {NONE}]
  /\ old \in SUBSET Tasks
  /\ LockType
  /\ fault \in BOOLEAN

(* A record names a task exactly while that task is in TASK_OLD: what      *)
(* group_cancel and snapshot_restore leave in records, task and state      *)
(* never disagrees, so that no tombstone can become a CPU frame.           *)
RecordsMatchTasks ==
  /\ \A t \in old :
       /\ record[t] \in Slots /\ InWindow(record[t])
       /\ records[record[t]].task = t /\ ~records[record[t]].consumed
  /\ \A i \in Slots : InWindow(i) /\ ~records[i].consumed =>
       /\ records[i].task \in old
       /\ record[records[i].task] = i

(* The end of a record, as a distance around the ring from pool_head.      *)
Reach(r) ==
  LET end == r.offset + r.words IN
    IF end > pool_head THEN end - pool_head ELSE end + PoolWords - pool_head

RecordFits(r) ==
  /\ r.task \in Tasks /\ r.owner = Group[r.task]
  /\ r.words > 0 /\ r.offset + r.words <= PoolWords
  /\ r.words <= r.charge /\ r.charge <= Reach(r) /\ Reach(r) <= pool_used

(* Each record is charged for exactly the ring from the end of the record  *)
(* before it, a skipped pool end included, to its own end.                 *)
ChargesAdjacent ==
  \A i, j \in Slots : InWindow(i) /\ InWindow(j) =>
    /\ Position(i) = 0 => records[i].charge = Reach(records[i])
    /\ Position(j) = Position(i) + 1 =>
         records[j].charge = Reach(records[j]) - Reach(records[i])
    /\ Position(i) < Position(j) =>
         Reach(records[i]) + records[j].charge <= Reach(records[j])

LastReachesTail ==
  \A i \in Slots : Position(i) + 1 = record_count =>
    /\ Reach(records[i]) = pool_used
    /\ pool_tail = WrapEnd(records[i].offset + records[i].words)

(* The ring accounting of section.c: the inductive part of why the pool    *)
(* never latches SECTION_STL_CORRUPT and never reuses a live word.         *)
RingInv ==
  /\ Position(record_tail) = IF record_count = MaxRecords THEN 0 ELSE record_count
  /\ \A i \in Slots : InWindow(i) => RecordFits(records[i])
  /\ ChargesAdjacent
  /\ LastReachesTail
  /\ record_count = 0 => pool_used = 0
  /\ record_count = 0 /\ lock.op \in {"free", "place"} => pool_head = 0 /\ pool_tail = 0

(* Between operations the oldest record is a live one: a tombstone behind  *)
(* it may wait, a consumed prefix may not (records_reap).                  *)
OldestIsLive ==
  lock.op \in {"free", "place"} => ~HeadConsumed

(* The pool's own bookkeeping never latches SECTION_STL_CORRUPT.           *)
NeverCorrupt == ~fault

Span(r) == r.offset .. r.offset + r.words - 1

(* No two records share a pool word, whether or not they are consumed.     *)
SpansDisjoint ==
  \A i, j \in Slots :
    InWindow(i) /\ InWindow(j) /\ i # j => Span(records[i]) \cap Span(records[j]) = {}

(* The cells a record is charged for: its span, and the end of the pool    *)
(* when it was skipped.                                                    *)
Reserved(r) ==
  Span(r) \cup IF r.charge = r.words THEN {}
               ELSE PoolWords - (r.charge - r.words) .. PoolWords - 1

FreeCells == Cells \ UNION {Reserved(records[i]) : i \in {j \in Slots : InWindow(j)}}

(* snapshot_save refuses a frame only when the records are used up or when *)
(* no run of unreserved pool words is long enough: the cheap head and tail *)
(* comparisons give away no usable space.                                  *)
RejectsOnlyWhenFull ==
  [][SaveReject =>
       \/ record_count = MaxRecords
       \/ \A o \in 0 .. PoolWords - Len(lock.frame) :
            ~(o .. o + Len(lock.frame) - 1 \subseteq FreeCells)]_vars

(* The ring implements the abstract store: a task resumes from the frame   *)
(* it was preempted with.                                                  *)
Store == INSTANCE SnapshotStore WITH
  saved <- [t \in Tasks |-> IF t \in old THEN Contents(records[record[t]]) ELSE NONE]

ImplementsStore == Store!StoreSpec
=============================================================================
