-------------------------- MODULE DemoStorageProofs --------------------------
(***************************************************************************)
(* Proofs about DemoStorage, for every layout of the zones, every number   *)
(* of log blocks, faults and requests, and every modulus of the sequence   *)
(* numbers: the parameter slots of a device are one durable register, the  *)
(* log loses only the block it reuses, and what is reported is true.       *)
(***************************************************************************)
EXTENDS DemoStorage, FalProofs

----------------------------------------------------------------------------
(* The inductive invariant.                                                *)

Outcomes == {"OK", "OFFLINE", "SCAN_FAILED", "NO_RECORD", "MISMATCH",
             "SUCCESS", "DRIVER_ERROR", "CONFIG_ERROR", "IN_PROGRESS"}
Sequences == 0 .. SequenceMod - 1
WritePhases == {"ERASE", "WRITE", "VERIFY", "COMMIT", "VERIFY_COMMIT"}
ScanPhases == {"SCAN_DATA", "SCAN_COMMIT", "DECIDE"}

CellsType == [Addresses -> Pages \cup {Erased, Torn}]
RequestType ==
  [id : Sequences, device : Devices, params : Params,
   command : {"SCAN", "SAVE", "LOAD", "LOG", "TEST", "DEFAULTS"}]
PoolType ==
  [params : Params, busy : BOOLEAN, taken : BOOLEAN, request : RequestType,
   request_id : Sequences, completed_id : Sequences, result : Outcomes]
WorkerType ==
  [phase : {"IDLE", "FINISH"} \cup ScanPhases \cup WritePhases, request : RequestType,
   scan_slot : 0 .. LogBlocks + 2, scan_failed : BOOLEAN, waiting : BOOLEAN,
   booting : BOOLEAN, restore : BOOLEAN, target_zone : Zones, target_offset : Nat,
   next_sequence : Sequences, outcome : Outcomes]
ViewType ==
  [online : BOOLEAN, valid : BOOLEAN, sequence : Sequences, active_slot : ParamSlots,
   recovered : Params, log_sequence : Sequences, log_slot : LogSlots]

StorageTypeOK ==
  /\ flash \in [Devices -> CellsType] /\ pool \in PoolType /\ worker \in WorkerType
  /\ view \in [Devices -> ViewType] /\ kept \in [Devices -> Seq(Pages)]

(* The parameter slots and the log are rings of blocks; a block holds the  *)
(* record a scan would find in it, or NONE.                                *)
Entry(cells, kind, a) ==
  IF DataValid(cells[a], kind) /\ Matches(cells[a], cells[a + 1]) THEN cells[a] ELSE NONE
ParamBlock(slot) == ZoneStart[ParamZone(slot)]
LogBlock(slot) == ZoneStart[LogZone] + BlockCells * slot
ParamRing(cells) == [s \in ParamSlots |-> Entry(cells, "params", ParamBlock(s))]
LogRing(cells) == [s \in LogSlots |-> Entry(cells, "log", LogBlock(s))]

(* The block after b, the one j before h, and the sequence number j before *)
(* n: numbers start again at 1.                                            *)
Around(b, size) == IF b + 1 = size THEN 0 ELSE b + 1
Behind(h, j, size) == IF j <= h THEN h - j ELSE h - j + size
Earlier(n, j) == IF j < n THEN n - j ELSE n - j + SequenceMod - 1

(* A ring in order: the entries are in its blocks, the last one, with      *)
(* number n, in block h, the ones before it in the blocks behind; and what *)
(* other block holds a record is the one to be used next, once all others  *)
(* have been used.                                                         *)
Ordered(ring, size, entries, h, n) ==
  /\ h \in 0 .. size - 1 /\ n \in Sequences /\ Len(entries) < size
  /\ \A j \in 0 .. size - 1 :
       LET found == ring[Behind(h, j, size)]
       IN /\ j < Len(entries) => found = entries[Len(entries) - j]
          /\ found # NONE =>
               /\ n # 0 /\ found.sequence = Earlier(n, j)
               /\ j < Len(entries) \/ Len(entries) = size - 1

(* The newest of the records in the first k blocks.                        *)
Seen(ring, k, sequence, slot) ==
  IF sequence = 0 THEN \A b \in 0 .. k - 1 : ring[b] = NONE
  ELSE /\ slot \in 0 .. k - 1 /\ ring[slot] # NONE /\ ring[slot].sequence = sequence
       /\ \A b \in 0 .. k - 1 : ring[b] # NONE => b = slot \/ Newer(sequence, ring[b].sequence)

(* Both rings of every device are in order at any time, and the entries of *)
(* the log are the ones that must not be lost.                             *)
Held(ring, h) == IF ring[h] = NONE THEN << >> ELSE <<ring[h]>>
ParamsInOrder(cells) ==
  \E h \in ParamSlots, n \in Sequences :
    Ordered(ParamRing(cells), 2, Held(ParamRing(cells), h), h, n)
LogInOrder(cells, entries) ==
  \E h \in LogSlots, n \in Sequences : Ordered(LogRing(cells), LogBlocks, entries, h, n)
RingsInv == \A d \in Devices : ParamsInOrder(flash[d]) /\ LogInOrder(flash[d], kept[d])

(* The operation the service waits for is the one of its phase, and when   *)
(* it has ended well it has taken effect.                                  *)
Target == ZoneStart[worker.target_zone] + worker.target_offset
JobOfPhase(job) ==
  CASE Phase("ERASE") /\ worker.request.command # "TEST" ->
         job = Job("ERASE", Target, BlockCells, << >>)
    [] Phase("ERASE") /\ worker.request.command = "TEST" ->
         job = Job("ERASE", ZoneStart[TestZone], 2 * BlockCells, << >>)
    [] Phase("WRITE") -> job = Job("WRITE", Target, 1, <<DataPage>>)
    [] Phase("COMMIT") -> job = Job("WRITE", Target + 1, 1, <<CommitPage>>)
    [] OTHER -> job.kind = "READ"
TransferInv ==
  /\ \A d \in Devices : Busy(d) => worker.waiting /\ d = Device
  /\ worker.waiting =>
       /\ worker.phase \in WritePhases \cup {"SCAN_DATA", "SCAN_COMMIT"}
       /\ JobOfPhase(asked[Device])
       /\ ~Busy(Device) /\ Succeeded => TookEffect(flash[Device], asked[Device])

(* What a scan without a failure has found so far.                         *)
ScanInv ==
  LET k == worker.scan_slot
      v == view[Device]
      cells == flash[Device]
  IN worker.phase \in ScanPhases =>
       /\ worker.request.command \notin {"TEST", "DEFAULTS"}
       /\ Phase("SCAN_DATA") \/ Phase("SCAN_COMMIT") => k < LogBlocks + 2
       /\ Phase("SCAN_COMMIT") => DataValid(Page(ScanZone, ScanOffset), ScanKind)
       /\ ~worker.scan_failed =>
            /\ Seen(ParamRing(cells), Smaller(k, 2), v.sequence, v.active_slot)
            /\ v.valid <=> v.sequence # 0
            /\ v.valid => v.recovered = ParamRing(cells)[v.active_slot].params
            /\ Seen(LogRing(cells), IF k < 2 THEN 0 ELSE k - 2, v.log_sequence, v.log_slot)
            /\ v.log_sequence = 0 => v.log_slot = LogBlocks - 1
            /\ IF v.online THEN Phase("DECIDE") => k = LogBlocks + 2
               ELSE k = 0 /\ ~worker.waiting /\ ~Phase("SCAN_COMMIT")

(* A write goes to the block after the newest entry.  It lands when the    *)
(* commit page does, which is programmed once.                             *)
Committing == worker.phase \in {"COMMIT", "VERIFY_COMMIT"}
Writes(cells, ring, size, before, after, h, n) ==
  LET t == Around(h, size)
  IN /\ worker.next_sequence = After(n)
     /\ Phase("WRITE") \/ Phase("VERIFY") => cells[Target + 1] = Erased
     /\ Committing => cells[Target] = DataPage
     /\ IF Committing /\ ring[t] # NONE THEN Ordered(ring, size, after, t, worker.next_sequence)
        ELSE Ordered(ring, size, before, h, n)

ParamHead == IF view[Device].valid THEN view[Device].active_slot ELSE 1
SaveShape(cells) ==
  LET v == view[Device]
      ring == ParamRing(cells)
  IN /\ worker.target_zone = ParamZone(Around(ParamHead, 2)) /\ worker.target_offset = 0
     /\ IF v.valid THEN ring[ParamHead] # NONE /\ ring[ParamHead].sequence = v.sequence
        ELSE v.sequence = 0
     /\ Writes(cells, ring, 2, Held(ring, ParamHead), <<DataPage>>, ParamHead, v.sequence)
LogShape(cells, entries) ==
  LET v == view[Device]
  IN /\ worker.target_zone = LogZone
     /\ worker.target_offset = BlockCells * Around(v.log_slot, LogBlocks)
     /\ Writes(cells, LogRing(cells), LogBlocks, entries, entries, v.log_slot, v.log_sequence)

Writing(command) == worker.phase \in WritePhases /\ worker.request.command = command
SaveInv == Writing("SAVE") => SaveShape(flash[Device])
LogInv == Writing("LOG") => LogShape(flash[Device], kept[Device])
CommitInv ==
  Phase("COMMIT") /\ worker.request.command # "TEST" =>
    \/ flash[Device][Target + 1] = Erased
    \/ /\ worker.waiting /\ Instance.state # "WRITE"
       /\ ~(chip[Device].state = "BUSY" /\ chip[Device].job.kind = "WRITE")
TestInv ==
  worker.phase \in WritePhases =>
    /\ ~worker.booting /\ worker.request.command \in {"SAVE", "LOG", "TEST"}
    /\ worker.request.command = "TEST" =>
         worker.target_zone = TestZone /\ worker.target_offset = BlockCells - 1

(* What the service is about to report.                                    *)
FinishInv ==
  LET r == worker.request
  IN Phase("FINISH") /\ ~worker.booting /\ worker.outcome = "OK" =>
       /\ r.command = "SAVE" => Stored(r.device).params = r.params
       /\ r.command = "LOG" => Newest(LogRecords(flash[r.device])).params = r.params
       /\ r.command = "LOAD" /\ ~worker.scan_failed =>
            worker.restore /\ view[r.device].recovered = Stored(r.device).params

StorageInv ==
  /\ IInv /\ StorageTypeOK /\ RingsInv /\ TransferInv /\ ScanInv
  /\ SaveInv /\ LogInv /\ CommitInv /\ TestInv /\ FinishInv
----------------------------------------------------------------------------
(* The constants and the layout.                                           *)

LEMMA Constants ==
  /\ SequenceMod \in Nat /\ SequenceMod > 2 * LogBlocks /\ SequenceMod > 2 * 2
  /\ LogBlocks \in Nat \ {0} /\ BlockCells = 2 /\ PageCells = 1 /\ Devices = {0, 1}
  /\ Zones = 0 .. 4 /\ ParamSlots = 0 .. 1 /\ Defaults \in Params
  /\ Erased \notin Pages /\ Torn \notin Pages /\ NONE \notin Pages
  BY StorageAssumption, PageAssumption DEF StorageAssumption, PageAssumption, Zones, ParamSlots

LEMMA Layout ==
  /\ \A i \in 0 .. 5 : ZoneStart[i] \in Nat
  /\ ParamBlock(0) \in Nat /\ ParamBlock(0) + 2 <= ParamBlock(1)
  /\ ParamBlock(1) \in Nat /\ ParamBlock(1) + 2 <= ZoneStart[TestZone]
  /\ ZoneStart[TestZone] \in Nat /\ ZoneStart[TestZone] + 4 = ZoneStart[LogZone]
  /\ ZoneStart[LogZone] \in Nat /\ ZoneStart[LogZone] + 2 * LogBlocks = Capacity
<1>1. ZoneCount = 5 /\ BlockCells \in Nat \ {0} /\ BlockCells = 2 /\ LogBlocks \in Nat
  BY Constants, StorageAssumption, Sizes DEF StorageAssumption
<1>2. \A i \in 0 .. 5 : ZoneStart[i] \in Nat /\ ZoneStart[i] % BlockCells = 0
  BY <1>1, FalAssumption DEF FalAssumption
<1>3. \A i \in 0 .. 4 : ZoneStart[i] < ZoneStart[i + 1]
  BY <1>1, FalAssumption DEF FalAssumption, Zones
<1>4. \A i \in 0 .. 4 : ZoneStart[i] + 2 <= ZoneStart[i + 1]
  <2>. TAKE i \in 0 .. 4
  <2>1. i \in 0 .. 5 /\ i + 1 \in 0 .. 5
    OBVIOUS
  <2>. QED BY <1>1, <1>2, <1>3, <2>1, MultipleDifference
<1>5. /\ Size(LogZone) = 2 * LogBlocks /\ Size(LogZone) = ZoneStart[5] - ZoneStart[4]
      /\ Size(TestZone) = 4 /\ Size(TestZone) = ZoneStart[4] - ZoneStart[3]
      /\ Capacity = ZoneStart[5]
  BY <1>1, StorageAssumption DEF StorageAssumption, Size, Capacity, LogZone, TestZone
<1>6. /\ ZoneStart[1] \in Nat /\ ZoneStart[2] \in Nat /\ ZoneStart[3] \in Nat
      /\ ZoneStart[4] \in Nat /\ ZoneStart[5] \in Nat
  BY <1>2
<1>7. ZoneStart[1] + 2 <= ZoneStart[2] /\ ZoneStart[2] + 2 <= ZoneStart[3]
  <2>1. ZoneStart[1] + 2 <= ZoneStart[1 + 1] /\ ZoneStart[2] + 2 <= ZoneStart[2 + 1]
    BY <1>4
  <2>. QED BY <2>1
<1>8. /\ ParamBlock(0) = ZoneStart[1] /\ ParamBlock(1) = ZoneStart[2]
      /\ TestZone = 3 /\ LogZone = 4
  BY DEF ParamBlock, ParamZone, TestZone, LogZone
<1>. QED BY <1>1, <1>2, <1>5, <1>6, <1>7, <1>8

(* The blocks of the parameters and of the log are inside and apart.       *)
LEMMA ParamBlocks ==
  ASSUME NEW s \in ParamSlots
  PROVE  /\ ParamBlock(s) \in Nat /\ {ParamBlock(s), ParamBlock(s) + 1} \subseteq Addresses
         /\ ParamBlock(s) + 2 <= ZoneStart[TestZone]
         /\ \A t \in ParamSlots : t # s =>
              ParamBlock(t) + 2 <= ParamBlock(s) \/ ParamBlock(s) + 2 <= ParamBlock(t)
<1>1. s = 0 \/ s = 1
  BY DEF ParamSlots
<1>. DEFINE p == ParamBlock(0)
            q == ParamBlock(1)
            r == ZoneStart[TestZone]
            l == ZoneStart[LogZone]
<1>2. /\ p \in Nat /\ q \in Nat /\ r \in Nat /\ l \in Nat /\ LogBlocks \in Nat
      /\ p + 2 <= q /\ q + 2 <= r /\ r + 4 = l /\ l + 2 * LogBlocks = Capacity
  BY Layout, Constants
<1>3. Addresses = 0 .. Capacity - 1
  BY DEF Addresses
<1>. HIDE DEF p, q, r, l
<1>4. p + 2 <= r /\ {p, p + 1, q, q + 1} \subseteq 0 .. Capacity - 1
  BY <1>2
<1>5. \A t \in ParamSlots : t = 0 \/ t = 1
  BY DEF ParamSlots
<1>. QED BY <1>1, <1>2, <1>3, <1>4, <1>5 DEF p, q, r

LEMMA LogBlocksApart ==
  ASSUME NEW s \in LogSlots
  PROVE  /\ LogBlock(s) \in Nat /\ {LogBlock(s), LogBlock(s) + 1} \subseteq Addresses
         /\ ZoneStart[LogZone] <= LogBlock(s)
         /\ \A t \in LogSlots : t # s =>
              LogBlock(t) + 2 <= LogBlock(s) \/ LogBlock(s) + 2 <= LogBlock(t)
<1>. DEFINE l == ZoneStart[LogZone]
<1>1. l \in Nat /\ LogBlocks \in Nat /\ l + 2 * LogBlocks = Capacity
  BY Layout, Constants
<1>2. \A t \in LogSlots : t \in 0 .. LogBlocks - 1 /\ LogBlock(t) = l + 2 * t
  BY Constants DEF LogBlock, LogSlots
<1>3. Addresses = 0 .. Capacity - 1
  BY DEF Addresses
<1>. HIDE DEF l
<1>4. LogBlock(s) \in Nat /\ l <= LogBlock(s) /\ {LogBlock(s), LogBlock(s) + 1} \subseteq 0 .. Capacity - 1
  BY <1>1, <1>2
<1>5. \A t \in LogSlots : t # s =>
        LogBlock(t) + 2 <= LogBlock(s) \/ LogBlock(s) + 2 <= LogBlock(t)
  BY <1>1, <1>2
<1>. QED BY <1>3, <1>4, <1>5 DEF l
----------------------------------------------------------------------------
(* Sequence numbers.                                                       *)

LEMMA Modulo ==
  ASSUME NEW M \in Nat, M > 0, NEW x \in Int, -M < x, x < M
  PROVE  x % M = IF x >= 0 THEN x ELSE x + M
  BY SMT

LEMMA EarlierFacts ==
  ASSUME NEW n \in 1 .. SequenceMod - 1, NEW j \in Nat, 2 * j < SequenceMod
  PROVE  Earlier(n, j) \in 1 .. SequenceMod - 1
  BY Constants DEF Earlier

LEMMA AfterFacts ==
  ASSUME NEW n \in Sequences
  PROVE  /\ After(n) \in 1 .. SequenceMod - 1 /\ Earlier(After(n), 0) = After(n)
         /\ \A j \in Nat : n # 0 /\ 2 * (j + 1) < SequenceMod =>
              Earlier(After(n), j + 1) = Earlier(n, j)
  BY Constants DEF After, Earlier, Sequences

(* Of two records in one ring, the younger is the newer, by the modular    *)
(* comparison of demo_storage_record_newer.                                *)
LEMMA NewerByAge ==
  ASSUME NEW n \in 1 .. SequenceMod - 1, NEW size \in Nat, 2 * size < SequenceMod,
         NEW i \in 0 .. size - 1, NEW j \in 0 .. size - 1
  PROVE  /\ Newer(Earlier(n, i), Earlier(n, j)) <=> i < j
         /\ Earlier(n, i) = Earlier(n, j) => i = j
<1>. DEFINE x == Earlier(n, i)
            y == Earlier(n, j)
            M == SequenceMod
<1>1. M \in Nat /\ M > 4 /\ n \in Nat /\ 1 <= n /\ n <= M - 1
  BY Constants
<1>2. /\ x = IF i < n THEN n - i ELSE n - i + M - 1
      /\ y = IF j < n THEN n - j ELSE n - j + M - 1
  BY DEF Earlier
<1>3. /\ 2 * i < M /\ 2 * j < M /\ i \in Nat /\ j \in Nat
      /\ 2 * (i + 1) < M /\ 2 * (j + 1) < M
  BY <1>1
<1>. HIDE DEF M
<1>4. x \in 1 .. M - 1 /\ y \in 1 .. M - 1
  BY <1>1, <1>2, <1>3
<1>5. (x - y) % M = IF x - y >= 0 THEN x - y ELSE x - y + M
  BY <1>1, <1>4, Modulo
<1>6. Newer(x, y) <=> (x - y) % M # 0 /\ 2 * ((x - y) % M) < M
  <2>1. x # 0 /\ y # 0
    BY <1>1, <1>4
  <2>. QED BY <2>1, Zenon DEF Newer, M
<1>. DEFINE distance == (x - y) % M
<1>. HIDE DEF x, y, distance
<1>7. i < j => distance # 0 /\ 2 * distance < M
  BY <1>1, <1>2, <1>3, <1>5 DEF distance
<1>8. j < i => ~(2 * distance < M)
  BY <1>1, <1>2, <1>3, <1>5 DEF distance
<1>9. i = j => distance = 0
  BY <1>1, <1>2, <1>3, <1>5 DEF distance
<1>10. x = y => i = j
  BY <1>1, <1>2, <1>3
<1>. QED BY <1>3, <1>6, <1>7, <1>8, <1>9, <1>10 DEF x, y, distance
----------------------------------------------------------------------------
(* Rings of blocks.                                                        *)

RingType(ring, size) ==
  /\ size \in Nat \ {0} /\ 2 * size < SequenceMod
  /\ \A b \in 0 .. size - 1 :
       ring[b] = NONE \/ (ring[b] \in Pages /\ ring[b].sequence \in 1 .. SequenceMod - 1)

LEMMA BehindFacts ==
  ASSUME NEW size \in Nat \ {0}, NEW h \in 0 .. size - 1
  PROVE  /\ \A j \in 0 .. size - 1 : Behind(h, j, size) \in 0 .. size - 1
         /\ \A b \in 0 .. size - 1 : \E j \in 0 .. size - 1 : b = Behind(h, j, size)
         /\ Behind(h, 0, size) = h
         /\ \A j \in 1 .. size - 1 : Behind(h, j, size) # h
<1>1. /\ \A j \in 0 .. size - 1 : Behind(h, j, size) \in 0 .. size - 1
      /\ Behind(h, 0, size) = h
      /\ \A j \in 1 .. size - 1 : Behind(h, j, size) # h
  BY DEF Behind
<1>2. ASSUME NEW b \in 0 .. size - 1
      PROVE  \E j \in 0 .. size - 1 : b = Behind(h, j, size)
  <2>1. CASE b <= h
    <3>1. h - b \in 0 .. size - 1 /\ b = Behind(h, h - b, size)
      BY <2>1 DEF Behind
    <3>. QED BY <3>1
  <2>2. CASE ~(b <= h)
    <3>1. h - b + size \in 0 .. size - 1 /\ b = Behind(h, h - b + size, size)
      BY <2>2 DEF Behind
    <3>. QED BY <3>1
  <2>. QED BY <2>1, <2>2
<1>. QED BY <1>1, <1>2

LEMMA AroundFacts ==
  ASSUME NEW size \in Nat \ {0}, NEW h \in 0 .. size - 1
  PROVE  /\ Around(h, size) \in 0 .. size - 1
         /\ \A j \in 1 .. size - 1 :
              /\ j - 1 \in 0 .. size - 1
              /\ Behind(Around(h, size), j, size) = Behind(h, j - 1, size)
              /\ Behind(Around(h, size), j, size) # Around(h, size)
         /\ \A j \in 0 .. size - 1 : Behind(h, j, size) = Around(h, size) => j = size - 1
  BY DEF Around, Behind

(* Records of an ordered ring, by their age.                               *)
LEMMA Ages ==
  ASSUME NEW ring, NEW size, RingType(ring, size), NEW e \in Seq(Pages), NEW h, NEW n,
         Ordered(ring, size, e, h, n), NEW b \in 0 .. size - 1, ring[b] # NONE
  PROVE  \E j \in 0 .. size - 1 :
           /\ b = Behind(h, j, size) /\ n \in 1 .. SequenceMod - 1
           /\ ring[b].sequence = Earlier(n, j)
<1>1. size \in Nat \ {0} /\ h \in 0 .. size - 1 /\ n \in Sequences
  BY DEF RingType, Ordered
<1>2. PICK j \in 0 .. size - 1 : b = Behind(h, j, size)
  BY <1>1, BehindFacts
<1>3. n # 0 /\ ring[b].sequence = Earlier(n, j)
  BY <1>2 DEF Ordered
<1>4. n \in 1 .. SequenceMod - 1
  BY <1>1, <1>3, Constants DEF Sequences
<1>. QED BY <1>2, <1>3, <1>4

LEMMA EarlierIsNow == \A n \in Sequences : n # 0 => Earlier(n, 0) = n
  BY Constants DEF Earlier, Sequences

(* If a block holds a record, then so does the newest one.                 *)
LEMMA HeadFilled ==
  ASSUME NEW ring, NEW size, RingType(ring, size), NEW e \in Seq(Pages), NEW h, NEW n,
         Ordered(ring, size, e, h, n), NEW b \in 0 .. size - 1, ring[b] # NONE
  PROVE  h \in 0 .. size - 1 /\ ring[h] # NONE /\ ring[h].sequence = n
<1>1. size \in Nat \ {0} /\ h \in 0 .. size - 1 /\ n \in Sequences /\ Len(e) < size
  BY DEF RingType, Ordered
<1>2. PICK j \in 0 .. size - 1 : b = Behind(h, j, size)
  BY <1>1, BehindFacts
<1>3. j < Len(e) \/ Len(e) = size - 1
  BY <1>2 DEF Ordered
<1>4. Len(e) \in Nat /\ Behind(h, 0, size) = h /\ 0 \in 0 .. size - 1
  BY <1>1, BehindFacts
<1>5. CASE Len(e) = 0
  <2>1. j = 0
    BY <1>1, <1>3, <1>5
  <2>. QED BY <1>1, <1>2, <1>4, <2>1, Ages, EarlierIsNow DEF Ordered
<1>6. CASE Len(e) # 0
  <2>1. 0 < Len(e) /\ ring[h] = e[Len(e) - 0]
    BY <1>4, <1>6 DEF Ordered
  <2>2. Len(e) - 0 \in 1 .. Len(e)
    BY <1>4, <1>6
  <2>3. ring[h] \in Pages
    BY <2>1, <2>2
  <2>4. ring[h] # NONE
    BY <2>3, Constants
  <2>. QED BY <1>1, <1>4, <2>4, EarlierIsNow DEF Ordered
<1>. QED BY <1>5, <1>6

(* The newest record of a ring is the one in block h, and no other.        *)
LEMMA NewestIsHead ==
  ASSUME NEW ring, NEW size, RingType(ring, size), NEW e \in Seq(Pages), NEW h, NEW n,
         Ordered(ring, size, e, h, n), ring[h] # NONE,
         NEW records, records = {ring[b] : b \in 0 .. size - 1} \ {NONE}
  PROVE  Newest(records) = ring[h]
<1>. DEFINE Best(r) == \A q \in records : q = r \/ Newer(r.sequence, q.sequence)
<1>1. size \in Nat \ {0} /\ 2 * size < SequenceMod /\ h \in 0 .. size - 1 /\ n \in Sequences
  BY DEF RingType, Ordered
<1>2. ring[h] \in records /\ Behind(h, 0, size) = h /\ 0 \in 0 .. size - 1
  <2>1. ring[h] \in records /\ 0 \in 0 .. size - 1
    BY <1>1
  <2>. QED BY <1>1, <2>1, BehindFacts, Zenon
<1>3. n \in 1 .. SequenceMod - 1 /\ ring[h].sequence = Earlier(n, 0)
  BY <1>1, <1>2, Ages, EarlierIsNow, HeadFilled
<1>4. ASSUME NEW r \in records
      PROVE  \E j \in 0 .. size - 1 :
               r.sequence = Earlier(n, j) /\ (j = 0 => r = ring[h])
  <2>1. PICK b \in 0 .. size - 1 : r = ring[b] /\ ring[b] # NONE
    OBVIOUS
  <2>2. PICK j \in 0 .. size - 1 : b = Behind(h, j, size) /\ ring[b].sequence = Earlier(n, j)
    BY <2>1, Ages
  <2>. QED BY <1>2, <2>1, <2>2
<1>5. Best(ring[h])
  <2>. SUFFICES ASSUME NEW q \in records, q # ring[h]
                PROVE  Newer(ring[h].sequence, q.sequence)
    OBVIOUS
  <2>1. PICK j \in 0 .. size - 1 : q.sequence = Earlier(n, j) /\ j # 0
    BY <1>4
  <2>2. 0 < j
    BY <2>1
  <2>. QED BY <1>1, <1>2, <1>3, <2>1, <2>2, NewerByAge
<1>6. ASSUME NEW r \in records, Best(r)
      PROVE  r = ring[h]
  <2>1. PICK j \in 0 .. size - 1 : r.sequence = Earlier(n, j) /\ (j = 0 => r = ring[h])
    BY <1>4
  <2>2. r = ring[h] \/ Newer(Earlier(n, j), Earlier(n, 0))
    BY <1>2, <1>3, <1>6, <2>1
  <2>3. ~(j < 0)
    BY <2>1
  <2>. QED BY <1>1, <1>2, <1>3, <2>2, <2>3, NewerByAge
<1>7. Newest(records) = CHOOSE r \in records : Best(r)
  BY <1>2, Zenon DEF Newest
<1>. HIDE DEF Best
<1>. QED BY <1>2, <1>5, <1>6, <1>7

(* The block after the newest may lose its record...                       *)
LEMMA OrderedForget ==
  ASSUME NEW ring, NEW size, RingType(ring, size), NEW e \in Seq(Pages), NEW h, NEW n,
         Ordered(ring, size, e, h, n), NEW after, after[Around(h, size)] = NONE,
         \A b \in 0 .. size - 1 : b # Around(h, size) => after[b] = ring[b]
  PROVE  Ordered(after, size, e, h, n)
<1>1. size \in Nat \ {0} /\ h \in 0 .. size - 1 /\ n \in Sequences /\ Len(e) < size /\ Len(e) \in Nat
  BY DEF RingType, Ordered
<1>. SUFFICES ASSUME NEW j \in 0 .. size - 1
              PROVE  LET found == after[Behind(h, j, size)]
                     IN /\ j < Len(e) => found = e[Len(e) - j]
                        /\ found # NONE =>
                             /\ n # 0 /\ found.sequence = Earlier(n, j)
                             /\ j < Len(e) \/ Len(e) = size - 1
  BY <1>1 DEF Ordered
<1>2. Behind(h, j, size) \in 0 .. size - 1
  BY <1>1, BehindFacts
<1>3. CASE Behind(h, j, size) = Around(h, size)
  <2>1. j = size - 1
    BY <1>1, <1>3, AroundFacts
  <2>2. ~(j < Len(e))
    BY <1>1, <2>1
  <2>. QED BY <1>3, <2>2
<1>4. CASE Behind(h, j, size) # Around(h, size)
  <2>1. after[Behind(h, j, size)] = ring[Behind(h, j, size)]
    BY <1>2, <1>4
  <2>. QED BY <2>1 DEF Ordered
<1>. QED BY <1>3, <1>4

(* ... and get the next one; the last size - 1 entries are kept.           *)
Kept(all, size) == SubSeq(all, IF Len(all) < size THEN 1 ELSE Len(all) - size + 2, Len(all))

LEMMA KeptFacts ==
  ASSUME NEW all \in Seq(Pages), NEW size \in Nat \ {0}, Len(all) <= size
  PROVE  /\ Kept(all, size) \in Seq(Pages)
         /\ Len(Kept(all, size)) = IF Len(all) < size THEN Len(all) ELSE size - 1
         /\ \A j \in 0 .. Len(Kept(all, size)) - 1 :
              Kept(all, size)[Len(Kept(all, size)) - j] = all[Len(all) - j]
<1>. DEFINE low == IF Len(all) < size THEN 1 ELSE Len(all) - size + 2
            kept2 == SubSeq(all, low, Len(all))
<1>1. Len(all) \in Nat /\ low \in 1 .. Len(all) + 1 /\ low \in Int /\ Len(all) \in Int
  OBVIOUS
<1>2. \A i \in low .. Len(all) : all[i] \in Pages
  <2>1. \A i \in low .. Len(all) : i \in 1 .. Len(all)
    BY <1>1
  <2>. QED BY <2>1
<1>3. /\ kept2 \in Seq(Pages)
      /\ Len(kept2) = IF low <= Len(all) THEN Len(all) - low + 1 ELSE 0
      /\ \A i \in 1 .. Len(all) - low + 1 : kept2[i] = all[low + i - 1]
  <2>. DEFINE last == Len(all)
  <2>1. low \in Int /\ last \in Int /\ \A i \in low .. last : all[i] \in Pages
    BY <1>1, <1>2
  <2>. HIDE DEF low, last
  <2>2. /\ SubSeq(all, low, last) \in Seq(Pages)
        /\ Len(SubSeq(all, low, last)) = IF low <= last THEN last - low + 1 ELSE 0
        /\ \A i \in 1 .. last - low + 1 : SubSeq(all, low, last)[i] = all[low + i - 1]
    BY <2>1, SubSeqProperties
  <2>. QED BY <2>2 DEF last
<1>4. Len(kept2) = Len(all) - low + 1
  <2>. HIDE DEF kept2, low
  <2>. QED BY <1>1, <1>3
<1>5. Len(kept2) = IF Len(all) < size THEN Len(all) ELSE size - 1
  <2>1. low = IF Len(all) < size THEN 1 ELSE Len(all) - size + 2
    OBVIOUS
  <2>. HIDE DEF kept2, low
  <2>. QED BY <1>1, <1>4, <2>1
<1>6. ASSUME NEW j \in 0 .. Len(kept2) - 1
      PROVE  kept2[Len(kept2) - j] = all[Len(all) - j]
  <2>. HIDE DEF kept2, low
  <2>1. /\ Len(kept2) - j \in 1 .. Len(all) - low + 1
        /\ low + (Len(kept2) - j) - 1 = Len(all) - j
    BY <1>1, <1>4
  <2>. QED BY <1>3, <2>1
<1>. QED BY <1>3, <1>5, <1>6 DEF Kept

LEMMA OrderedAppend ==
  ASSUME NEW ring, NEW size, RingType(ring, size), NEW e \in Seq(Pages), NEW h, NEW n,
         Ordered(ring, size, e, h, n), NEW r \in Pages, r.sequence = After(n),
         NEW after, after[Around(h, size)] = r,
         \A b \in 0 .. size - 1 : b # Around(h, size) => after[b] = ring[b]
  PROVE  Ordered(after, size, Kept(Append(e, r), size), Around(h, size), After(n))
<1>. DEFINE all == Append(e, r)
            e2 == Kept(all, size)
            t == Around(h, size)
            m == After(n)
<1>1. /\ size \in Nat \ {0} /\ 2 * size < SequenceMod /\ h \in 0 .. size - 1 /\ n \in Sequences
      /\ Len(e) < size /\ Len(e) \in Nat
  BY DEF RingType, Ordered
<1>2. /\ all \in Seq(Pages) /\ Len(all) = Len(e) + 1 /\ all[Len(e) + 1] = r
      /\ \A i \in 1 .. Len(e) : all[i] = e[i]
  OBVIOUS
<1>3. Len(all) <= size
  BY <1>1, <1>2
<1>. HIDE DEF all, e2
<1>4. /\ Len(e2) = IF Len(e) + 1 < size THEN Len(e) + 1 ELSE size - 1
      /\ \A j \in 0 .. Len(e2) - 1 : e2[Len(e2) - j] = all[Len(e) + 1 - j]
  <2>1. /\ Len(e2) = IF Len(all) < size THEN Len(all) ELSE size - 1
        /\ \A j \in 0 .. Len(e2) - 1 : e2[Len(e2) - j] = all[Len(all) - j]
    BY <1>1, <1>2, <1>3, KeptFacts, Zenon DEF e2
  <2>. QED BY <1>2, <2>1
<1>5. m \in 1 .. SequenceMod - 1 /\ m \in Sequences /\ m # 0 /\ Earlier(m, 0) = m
  BY <1>1, AfterFacts, Constants DEF Sequences
<1>6. t \in 0 .. size - 1 /\ Len(e2) < size /\ Len(e2) \in Nat
  <2>1. t \in 0 .. size - 1
    BY <1>1, AroundFacts, Zenon
  <2>. QED BY <1>1, <1>4, <2>1
<1>7. after[t] = r /\ r # NONE
  BY Constants
<1>. SUFFICES ASSUME NEW j \in 0 .. size - 1
              PROVE  LET found == after[Behind(t, j, size)]
                     IN /\ j < Len(e2) => found = e2[Len(e2) - j]
                        /\ found # NONE =>
                             /\ m # 0 /\ found.sequence = Earlier(m, j)
                             /\ j < Len(e2) \/ Len(e2) = size - 1
  BY <1>5, <1>6 DEF Ordered, e2, all
<1>8. CASE j = 0
  <2>1. Behind(t, 0, size) = t
    BY <1>1, <1>6, BehindFacts
  <2>2. 0 < Len(e2) => e2[Len(e2) - 0] = all[Len(e) + 1 - 0]
    <3>1. 0 < Len(e2) => 0 \in 0 .. Len(e2) - 1
      BY <1>6
    <3>. QED BY <1>4, <3>1, Zenon
  <2>3. 0 < Len(e2) => e2[Len(e2) - 0] = r
    BY <1>1, <1>2, <2>2
  <2>4. 0 < Len(e2) \/ Len(e2) = size - 1
    BY <1>1, <1>4
  <2>. QED BY <1>5, <1>7, <1>8, <2>1, <2>3, <2>4
<1>9. CASE j # 0
  <2>0. j \in 1 .. size - 1 /\ j - 1 \in 0 .. size - 1 /\ j - 1 \in Nat /\ (j - 1) + 1 = j
    BY <1>1, <1>9
  <2>. DEFINE b == Behind(h, j - 1, size)
  <2>1. Behind(t, j, size) = b /\ b # t /\ b \in 0 .. size - 1
    <3>1. Behind(t, j, size) = b /\ b # t
      BY <1>1, <2>0, AroundFacts, Zenon
    <3>2. b \in 0 .. size - 1
      BY <1>1, <2>0, BehindFacts, Zenon
    <3>. QED BY <3>1, <3>2
  <2>2. after[b] = ring[b]
    BY <2>1
  <2>3. /\ j - 1 < Len(e) => ring[b] = e[Len(e) - (j - 1)]
        /\ ring[b] # NONE =>
             /\ n # 0 /\ ring[b].sequence = Earlier(n, j - 1)
             /\ j - 1 < Len(e) \/ Len(e) = size - 1
    BY <2>0 DEF Ordered
  <2>. HIDE DEF b
  <2>4. j < Len(e2) => /\ j - 1 < Len(e) /\ e2[Len(e2) - j] = all[Len(e) + 1 - j]
                       /\ Len(e) + 1 - j = Len(e) - (j - 1) /\ Len(e) - (j - 1) \in 1 .. Len(e)
    <3>1. j < Len(e2) => j \in 0 .. Len(e2) - 1
      BY <1>6, <2>0
    <3>2. j < Len(e2) => j - 1 < Len(e) /\ Len(e) + 1 - j = Len(e) - (j - 1) /\ Len(e) - (j - 1) \in 1 .. Len(e)
      BY <1>1, <1>4, <2>0
    <3>. QED BY <1>4, <3>1, <3>2
  <2>5. j < Len(e2) => ring[b] = e2[Len(e2) - j]
    BY <1>2, <2>3, <2>4
  <2>6. j - 1 < Len(e) \/ Len(e) = size - 1 => j < Len(e2) \/ Len(e2) = size - 1
    BY <1>1, <1>4, <2>0
  <2>7. n # 0 => Earlier(m, j) = Earlier(n, j - 1)
    <3>1. 2 * ((j - 1) + 1) < SequenceMod
      BY <1>1, <2>0, Constants
    <3>. QED BY <1>1, <2>0, <3>1, AfterFacts
  <2>. QED BY <1>5, <2>1, <2>2, <2>3, <2>5, <2>6, <2>7
<1>. QED BY <1>8, <1>9

(* The scan adopts a record that is newer than the newest so far.          *)
LEMMA SeenNext ==
  ASSUME NEW ring, NEW size, RingType(ring, size), NEW e \in Seq(Pages), NEW h, NEW n,
         Ordered(ring, size, e, h, n), NEW k \in 0 .. size - 1,
         NEW sequence \in Sequences, NEW slot, Seen(ring, k, sequence, slot)
  PROVE  /\ ring[k] = NONE \/ ~Newer(ring[k].sequence, sequence) => Seen(ring, k + 1, sequence, slot)
         /\ ring[k] # NONE /\ Newer(ring[k].sequence, sequence) =>
              Seen(ring, k + 1, ring[k].sequence, k)
<1>1. /\ size \in Nat \ {0} /\ 2 * size < SequenceMod /\ k \in Nat
      /\ \A b \in 0 .. (k + 1) - 1 : b = k \/ b \in 0 .. k - 1
      /\ 0 .. k - 1 \subseteq 0 .. (k + 1) - 1 /\ k \in 0 .. (k + 1) - 1 /\ k \notin 0 .. k - 1
      /\ 0 .. k - 1 \subseteq 0 .. size - 1
  BY DEF RingType
<1>2. CASE ring[k] = NONE
  BY <1>1, <1>2 DEF Seen
<1>3. CASE ring[k] # NONE /\ sequence = 0
  <2>1. ring[k].sequence # 0 /\ Newer(ring[k].sequence, sequence)
    BY <1>3 DEF RingType, Newer
  <2>2. Seen(ring, k + 1, ring[k].sequence, k)
    BY <1>1, <1>3, <2>1 DEF Seen
  <2>. QED BY <1>3, <2>1, <2>2
<1>4. CASE ring[k] # NONE /\ sequence # 0
  <2>1. slot \in 0 .. k - 1 /\ slot \in 0 .. size - 1 /\ ring[slot] # NONE /\ slot # k
        /\ ring[slot].sequence = sequence
    BY <1>1, <1>4 DEF Seen
  <2>2. PICK i \in 0 .. size - 1 : slot = Behind(h, i, size) /\ ring[slot].sequence = Earlier(n, i)
    BY <2>1, Ages
  <2>3. PICK j \in 0 .. size - 1 : /\ k = Behind(h, j, size) /\ ring[k].sequence = Earlier(n, j)
                                   /\ n \in 1 .. SequenceMod - 1
    BY <1>4, Ages
  <2>4. i # j /\ (i < j \/ j < i)
    BY <2>1, <2>2, <2>3
  <2>5. CASE i < j
    <3>1. Newer(sequence, ring[k].sequence) /\ ~Newer(ring[k].sequence, sequence)
      <4>1. ~(j < i)
        BY <2>5
      <4>. QED BY <1>1, <2>1, <2>2, <2>3, <2>5, <4>1, NewerByAge
    <3>. QED BY <1>1, <1>4, <3>1 DEF Seen
  <2>6. CASE j < i
    <3>1. Newer(ring[k].sequence, sequence)
      BY <1>1, <2>1, <2>2, <2>3, <2>6, NewerByAge
    <3>2. ASSUME NEW b \in 0 .. k - 1, ring[b] # NONE
          PROVE  Newer(ring[k].sequence, ring[b].sequence)
      <4>1. b = slot \/ Newer(sequence, ring[b].sequence)
        BY <1>4, <3>2 DEF Seen
      <4>2. b \in 0 .. size - 1
        BY <1>1
      <4>3. PICK l \in 0 .. size - 1 : ring[b].sequence = Earlier(n, l) /\ b = Behind(h, l, size)
        BY <3>2, <4>2, Ages
      <4>4. i < l \/ b = slot
        <5>1. Newer(sequence, ring[b].sequence) <=> i < l
          <6>1. sequence = Earlier(n, i)
            BY <2>1, <2>2
          <6>2. Newer(Earlier(n, i), Earlier(n, l)) <=> i < l
            <7>1. size \in Nat
              BY <1>1
            <7>. QED BY <1>1, <2>3, <7>1, NewerByAge
          <6>. QED BY <4>3, <6>1, <6>2, Zenon
        <5>. QED BY <4>1, <5>1
      <4>5. j < l \/ b = slot
        BY <2>6, <4>4
      <4>. QED BY <1>1, <2>1, <2>3, <3>1, <4>3, <4>5, NewerByAge
    <3>3. ring[k].sequence # 0
      BY <1>4 DEF RingType
    <3>4. Seen(ring, k + 1, ring[k].sequence, k)
      BY <1>1, <1>4, <3>2, <3>3 DEF Seen
    <3>. QED BY <1>4, <3>1, <3>4
  <2>. QED BY <2>4, <2>5, <2>6
<1>. QED BY <1>2, <1>3, <1>4

(* A scan of all blocks finds the newest entry, or that there is none.     *)
LEMMA SeenAll ==
  ASSUME NEW ring, NEW size, RingType(ring, size), NEW e \in Seq(Pages), NEW h, NEW n,
         Ordered(ring, size, e, h, n), NEW sequence \in Sequences, NEW slot,
         Seen(ring, size, sequence, slot)
  PROVE  IF sequence = 0 THEN e = << >> /\ Ordered(ring, size, e, size - 1, 0)
                              /\ \A b \in 0 .. size - 1 : ring[b] = NONE
         ELSE slot = h /\ sequence = n /\ ring[slot] # NONE
<1>1. /\ size \in Nat \ {0} /\ 2 * size < SequenceMod /\ h \in 0 .. size - 1
      /\ Len(e) < size /\ Len(e) \in Nat /\ n \in Sequences
  BY DEF RingType, Ordered
<1>2. CASE sequence = 0
  <2>1. \A b \in 0 .. size - 1 : ring[b] = NONE
    BY <1>2 DEF Seen
  <2>2. Len(e) = 0
    <3>. SUFFICES ASSUME 0 < Len(e) PROVE FALSE
      BY <1>1
    <3>1. Behind(h, 0, size) = h /\ 0 \in 0 .. size - 1
      <4>1. 0 \in 0 .. size - 1
        BY <1>1
      <4>. QED BY <1>1, <4>1, BehindFacts, Zenon
    <3>2. ring[h] = e[Len(e) - 0] /\ Len(e) - 0 \in 1 .. Len(e)
      BY <1>1, <3>1 DEF Ordered
    <3>. QED BY <1>1, <2>1, <3>2, Constants
  <2>3. e = << >>
    BY <2>2
  <2>4. size - 1 \in 0 .. size - 1 /\ 0 \in Sequences
    BY <1>1, Constants DEF Sequences
  <2>5. \A j \in 0 .. size - 1 : Behind(size - 1, j, size) \in 0 .. size - 1 /\ ~(j < Len(e))
    <3>1. \A j \in 0 .. size - 1 : Behind(size - 1, j, size) \in 0 .. size - 1
      BY <1>1, <2>4, BehindFacts, Zenon
    <3>2. \A j \in 0 .. size - 1 : ~(j < Len(e))
      BY <1>1, <2>2
    <3>. QED BY <3>1, <3>2
  <2>6. \A j \in 0 .. size - 1 : ring[Behind(size - 1, j, size)] = NONE
    BY <2>1, <2>5, Zenon
  <2>7. Ordered(ring, size, e, size - 1, 0)
    BY <1>1, <2>4, <2>5, <2>6 DEF Ordered
  <2>. QED BY <1>2, <2>1, <2>3, <2>7
<1>3. CASE sequence # 0
  <2>1. /\ slot \in 0 .. size - 1 /\ ring[slot] # NONE /\ ring[slot].sequence = sequence
        /\ \A b \in 0 .. size - 1 : ring[b] # NONE => b = slot \/ Newer(sequence, ring[b].sequence)
    BY <1>3 DEF Seen
  <2>2. h \in 0 .. size - 1 /\ ring[h] # NONE /\ ring[h].sequence = n
    BY <2>1, HeadFilled
  <2>3. PICK j \in 0 .. size - 1 : /\ sequence = Earlier(n, j) /\ n \in 1 .. SequenceMod - 1
    BY <2>1, Ages
  <2>4. h = slot
    <3>. SUFFICES ASSUME h # slot PROVE FALSE
      OBVIOUS
    <3>1. Newer(Earlier(n, j), Earlier(n, 0))
      BY <1>1, <2>1, <2>2, <2>3, EarlierIsNow, Constants DEF Sequences
    <3>2. 0 \in 0 .. size - 1 /\ ~(j < 0)
      BY <1>1
    <3>. QED BY <1>1, <2>3, <3>1, <3>2, NewerByAge
  <2>. QED BY <1>3, <2>1, <2>2, <2>4
<1>. QED BY <1>2, <1>3
----------------------------------------------------------------------------
(* What a step of a device does to the cells.                              *)

LEMMA CellByCell ==
  ASSUME IInv, NEW d \in Devices, NEW after \in Interrupted(flash[d], chip[d].job),
         NEW a \in Addresses, after[a] # flash[d][a]
  PROVE  LET job == asked[d]
         IN /\ Busy(d) /\ Covers(job, a) /\ chip[d].state = "BUSY" /\ chip[d].job.kind = job.kind
            /\ \/ job.kind = "ERASE" /\ after[a] \in {Erased, Torn}
               \/ job.kind = "WRITE" /\ after[a] \in {Torn, job.data[a - job.first + 1]}
<1>. DEFINE f == fal[d]
            c == chip[d]
            job == asked[d]
            cells == flash[d]
<1>1. Busy(d) /\ Covers(c.job, a) /\ Covers(job, a)
  BY OnlyWhatIsAsked
<1>2. /\ f \in Fals /\ c \in Chips /\ job \in Jobs /\ f.operation \in Operations
      /\ Underway(f, c, job, cells)
  BY <1>1, DeviceFacts
<1>3. /\ c.state = "BUSY" /\ Chunked(f) /\ c.job = Submission(f)
      /\ f.address <= a /\ a < f.address + f.chunk_length
  BY <1>1, <1>2, AssignedCovers
<1>4. Remainder(f, job)
  BY <1>2 DEF Underway
<1>5. c.job.kind = job.kind
  BY <1>3, <1>4 DEF Remainder, Submission, Job
<1>6. Holds(Worked(cells, c.job), job, a)
  BY <1>2, <1>3, <1>4, ChunkTakesEffect
<1>7. c.job.kind \in {"WRITE", "ERASE"}
  <2>1. CASE after = Worked(cells, c.job)
    BY <2>1 DEF Worked
  <2>2. CASE after # Worked(cells, c.job)
    BY <2>2 DEF Interrupted
  <2>. QED BY <2>1, <2>2
<1>8. after = Worked(cells, c.job) \/ after[a] = Torn
  <2>. SUFFICES ASSUME after # Worked(cells, c.job)
                PROVE  after[a] = Torn
    OBVIOUS
  <2>1. PICK spoilt \in SUBSET {b \in Addresses : Covers(c.job, b)} : after = Spoiled(cells, spoilt)
    BY DEF Interrupted
  <2>. QED BY <2>1 DEF Spoiled
<1>. HIDE DEF f, c, cells
<1>. QED BY <1>1, <1>3, <1>5, <1>6, <1>7, <1>8 DEF Holds, c

LEMMA CellsKeepTheirDomain ==
  ASSUME NEW cells, cells = [a \in Addresses |-> cells[a]], NEW job,
         NEW after \in Interrupted(cells, job)
  PROVE  after = [a \in Addresses |-> after[a]]
<1>1. CASE after \in {cells, Worked(cells, job)}
  BY <1>1 DEF Worked
<1>2. CASE after \notin {cells, Worked(cells, job)}
  <2>1. PICK spoilt \in SUBSET {b \in Addresses : Covers(job, b)} : after = Spoiled(cells, spoilt)
    BY <1>2 DEF Interrupted
  <2>. QED BY <2>1 DEF Spoiled
<1>. QED BY <1>1, <1>2
----------------------------------------------------------------------------
(* The rings of a device.                                                  *)

LEMMA EntryFacts ==
  ASSUME NEW cells \in CellsType, NEW kind, NEW a \in Addresses
  PROVE  /\ Entry(cells, kind, a) # NONE <=>
              DataValid(cells[a], kind) /\ Matches(cells[a], cells[a + 1])
         /\ Entry(cells, kind, a) # NONE =>
              /\ Entry(cells, kind, a) = cells[a] /\ cells[a] \in Pages
              /\ cells[a].sequence \in 1 .. SequenceMod - 1
<1>1. cells[a] \in Pages \cup {Erased, Torn}
  BY DEF CellsType
<1>2. ASSUME DataValid(cells[a], kind)
      PROVE  cells[a] \in Pages /\ cells[a].sequence \in 1 .. SequenceMod - 1 /\ cells[a] # NONE
  <2>1. cells[a] \in Pages /\ cells[a].sequence # 0
    BY <1>1, <1>2 DEF DataValid, Written
  <2>2. cells[a].sequence \in 0 .. SequenceMod - 1
    BY <2>1 DEF Pages
  <2>. QED BY <2>1, <2>2, Constants
<1>. QED BY <1>2 DEF Entry

LEMMA ParamRingFacts ==
  ASSUME NEW cells \in CellsType
  PROVE  /\ RingType(ParamRing(cells), 2)
         /\ ParamRecords(cells) = {ParamRing(cells)[b] : b \in 0 .. 2 - 1} \ {NONE}
         /\ \A s \in ParamSlots : /\ ParamRing(cells)[s] = Entry(cells, "params", ParamBlock(s))
                                  /\ ParamRing(cells)[s] # NONE =>
                                       ParamRing(cells)[s] = cells[ParamBlock(s)]
<1>1. ParamSlots = 0 .. 2 - 1
  BY DEF ParamSlots
<1>2. \A s \in ParamSlots : ParamBlock(s) \in Addresses
  BY ParamBlocks
<1>3. \A s \in ParamSlots : ParamRing(cells)[s] = Entry(cells, "params", ParamBlock(s))
  BY DEF ParamRing
<1>4. RingType(ParamRing(cells), 2)
  BY <1>1, <1>2, <1>3, EntryFacts, Constants DEF RingType
<1>5. ParamRecords(cells) = {ParamRing(cells)[b] : b \in ParamSlots} \ {NONE}
  BY <1>2, <1>3, EntryFacts DEF ParamRecords, Intact, ParamBlock
<1>. QED BY <1>1, <1>2, <1>3, <1>4, <1>5, EntryFacts

LEMMA LogRingFacts ==
  ASSUME NEW cells \in CellsType
  PROVE  /\ RingType(LogRing(cells), LogBlocks)
         /\ LogRecords(cells) = {LogRing(cells)[b] : b \in 0 .. LogBlocks - 1} \ {NONE}
         /\ \A s \in LogSlots : /\ LogRing(cells)[s] = Entry(cells, "log", LogBlock(s))
                                /\ LogRing(cells)[s] # NONE => LogRing(cells)[s] = cells[LogBlock(s)]
<1>1. LogSlots = 0 .. LogBlocks - 1
  BY DEF LogSlots
<1>2. \A s \in LogSlots : LogBlock(s) \in Addresses
  BY LogBlocksApart
<1>3. \A s \in LogSlots : LogRing(cells)[s] = Entry(cells, "log", LogBlock(s))
  BY DEF LogRing
<1>4. RingType(LogRing(cells), LogBlocks)
  BY <1>1, <1>2, <1>3, EntryFacts, Constants DEF RingType
<1>5. LogRecords(cells) = {LogRing(cells)[b] : b \in LogSlots} \ {NONE}
  BY <1>2, <1>3, EntryFacts DEF LogRecords, Intact, LogBlock
<1>. QED BY <1>1, <1>2, <1>3, <1>4, <1>5, EntryFacts

(* Only the block that is written changes.                                 *)
Changes(cells, after, first, length) ==
  \A a \in Addresses : after[a] # cells[a] => first <= a /\ a < first + length

LEMMA ParamWrite ==
  ASSUME NEW cells, NEW after, NEW s \in ParamSlots, Changes(cells, after, ParamBlock(s), 2)
  PROVE  /\ \A t \in ParamSlots : t # s =>
              /\ ParamRing(after)[t] = ParamRing(cells)[t]
              /\ after[ParamBlock(t)] = cells[ParamBlock(t)]
         /\ LogRing(after) = LogRing(cells)
<1>1. \A t \in ParamSlots : t # s =>
        /\ after[ParamBlock(t)] = cells[ParamBlock(t)]
        /\ after[ParamBlock(t) + 1] = cells[ParamBlock(t) + 1]
  <2>. SUFFICES ASSUME NEW t \in ParamSlots, t # s
                PROVE  /\ after[ParamBlock(t)] = cells[ParamBlock(t)]
                       /\ after[ParamBlock(t) + 1] = cells[ParamBlock(t) + 1]
    OBVIOUS
  <2>. DEFINE x == ParamBlock(t)
              y == ParamBlock(s)
  <2>1. x \in Nat /\ y \in Nat /\ x \in Addresses /\ x + 1 \in Addresses
        /\ (x + 2 <= y \/ y + 2 <= x)
    BY ParamBlocks
  <2>. HIDE DEF x, y
  <2>2. ~(y <= x /\ x < y + 2) /\ ~(y <= x + 1 /\ x + 1 < y + 2)
    BY <2>1
  <2>. QED BY <2>1, <2>2 DEF Changes, x, y
<1>2. \A t \in LogSlots : /\ after[LogBlock(t)] = cells[LogBlock(t)]
                          /\ after[LogBlock(t) + 1] = cells[LogBlock(t) + 1]
  <2>. TAKE t \in LogSlots
  <2>. DEFINE x == LogBlock(t)
              y == ParamBlock(s)
  <2>1. /\ x \in Nat /\ y \in Nat /\ x \in Addresses /\ x + 1 \in Addresses
        /\ y + 2 <= ZoneStart[TestZone] /\ ZoneStart[TestZone] \in Nat
        /\ ZoneStart[TestZone] + 4 = ZoneStart[LogZone] /\ ZoneStart[LogZone] <= x
    BY ParamBlocks, LogBlocksApart, Layout
  <2>. HIDE DEF x, y
  <2>2. ~(x < y + 2) /\ ~(x + 1 < y + 2)
    BY <2>1
  <2>. QED BY <2>1, <2>2 DEF Changes, x, y
<1>. QED BY <1>1, <1>2 DEF ParamRing, LogRing, Entry

LEMMA LogWrite ==
  ASSUME NEW cells, NEW after, NEW s \in LogSlots, Changes(cells, after, LogBlock(s), 2)
  PROVE  /\ \A t \in LogSlots : t # s => LogRing(after)[t] = LogRing(cells)[t]
         /\ ParamRing(after) = ParamRing(cells)
         /\ \A t \in ParamSlots : after[ParamBlock(t)] = cells[ParamBlock(t)]
<1>1. \A t \in LogSlots : t # s =>
        /\ after[LogBlock(t)] = cells[LogBlock(t)]
        /\ after[LogBlock(t) + 1] = cells[LogBlock(t) + 1]
  <2>. SUFFICES ASSUME NEW t \in LogSlots, t # s
                PROVE  /\ after[LogBlock(t)] = cells[LogBlock(t)]
                       /\ after[LogBlock(t) + 1] = cells[LogBlock(t) + 1]
    OBVIOUS
  <2>. DEFINE x == LogBlock(t)
              y == LogBlock(s)
  <2>1. x \in Nat /\ y \in Nat /\ x \in Addresses /\ x + 1 \in Addresses
        /\ (x + 2 <= y \/ y + 2 <= x)
    BY LogBlocksApart
  <2>. HIDE DEF x, y
  <2>2. ~(y <= x /\ x < y + 2) /\ ~(y <= x + 1 /\ x + 1 < y + 2)
    BY <2>1
  <2>. QED BY <2>1, <2>2 DEF Changes, x, y
<1>2. \A t \in ParamSlots : /\ after[ParamBlock(t)] = cells[ParamBlock(t)]
                            /\ after[ParamBlock(t) + 1] = cells[ParamBlock(t) + 1]
  <2>. TAKE t \in ParamSlots
  <2>. DEFINE x == ParamBlock(t)
              y == LogBlock(s)
  <2>1. /\ x \in Nat /\ y \in Nat /\ x \in Addresses /\ x + 1 \in Addresses
        /\ x + 2 <= ZoneStart[TestZone] /\ ZoneStart[TestZone] \in Nat
        /\ ZoneStart[TestZone] + 4 = ZoneStart[LogZone] /\ ZoneStart[LogZone] <= y
    BY ParamBlocks, LogBlocksApart, Layout
  <2>. HIDE DEF x, y
  <2>2. ~(y <= x) /\ ~(y <= x + 1)
    BY <2>1
  <2>. QED BY <2>1, <2>2 DEF Changes, x, y
<1>. QED BY <1>1, <1>2 DEF ParamRing, LogRing, Entry

LEMMA TestWrite ==
  ASSUME NEW cells, NEW after, Changes(cells, after, ZoneStart[TestZone], 4)
  PROVE  /\ ParamRing(after) = ParamRing(cells) /\ LogRing(after) = LogRing(cells)
         /\ \A t \in ParamSlots : after[ParamBlock(t)] = cells[ParamBlock(t)]
<1>. DEFINE y == ZoneStart[TestZone]
<1>1. \A t \in ParamSlots : /\ after[ParamBlock(t)] = cells[ParamBlock(t)]
                            /\ after[ParamBlock(t) + 1] = cells[ParamBlock(t) + 1]
  <2>. TAKE t \in ParamSlots
  <2>. DEFINE x == ParamBlock(t)
  <2>1. x \in Nat /\ y \in Nat /\ x \in Addresses /\ x + 1 \in Addresses /\ x + 2 <= y
    BY ParamBlocks, Layout
  <2>. HIDE DEF x, y
  <2>2. ~(y <= x) /\ ~(y <= x + 1)
    BY <2>1
  <2>. QED BY <2>1, <2>2 DEF Changes, x, y
<1>2. \A t \in LogSlots : /\ after[LogBlock(t)] = cells[LogBlock(t)]
                          /\ after[LogBlock(t) + 1] = cells[LogBlock(t) + 1]
  <2>. TAKE t \in LogSlots
  <2>. DEFINE x == LogBlock(t)
  <2>1. x \in Nat /\ y \in Nat /\ x \in Addresses /\ x + 1 \in Addresses /\ y + 4 <= x
    BY LogBlocksApart, Layout
  <2>. HIDE DEF x, y
  <2>2. ~(x < y + 4) /\ ~(x + 1 < y + 4)
    BY <2>1
  <2>. QED BY <2>1, <2>2 DEF Changes, x, y
<1>. QED BY <1>1, <1>2 DEF ParamRing, LogRing, Entry
----------------------------------------------------------------------------
(* A device at work.                                                       *)

LEMMA Types ==
  ASSUME StorageTypeOK
  PROVE  /\ Device \in Devices /\ worker \in WorkerType /\ worker.request \in RequestType
         /\ view[Device] \in ViewType /\ worker.next_sequence \in Sequences
         /\ \A d \in Devices : /\ flash[d] \in CellsType /\ kept[d] \in Seq(Pages)
                               /\ view[d] \in ViewType
  BY DEF StorageTypeOK, WorkerType, RequestType, Device

LEMMA PageTypes ==
  ASSUME StorageTypeOK
  PROVE  /\ DataPage \in Pages /\ CommitPage \in Pages
         /\ {DataPage, CommitPage} \cap {Erased, Torn, NONE} = {}
         /\ DataPage.sequence = worker.next_sequence /\ DataPage.params = Content
         /\ DataPage.kind = Kind
         /\ worker.next_sequence # 0 =>
              DataValid(DataPage, Kind) /\ Matches(DataPage, CommitPage)
<1>1. Content \in Params
  BY Types, Constants DEF Content, RequestType
<1>2. Kind \in {"params", "log", "test"}
  BY DEF Kind
<1>3. worker.next_sequence \in 0 .. SequenceMod - 1
  BY Types DEF Sequences
<1>. DEFINE k == Kind
            c == Content
            q == worker.next_sequence
<1>4. DataPage = Record("data", k, q, c) /\ CommitPage = Record("commit", k, q, c)
  BY DEF DataPage, CommitPage
<1>. HIDE DEF k, c, q
<1>5. DataPage \in Pages /\ CommitPage \in Pages
  BY <1>1, <1>2, <1>3, <1>4 DEF Pages, Record, k, c, q
<1>6. {DataPage, CommitPage} \cap {Erased, Torn, NONE} = {}
  BY <1>5, Constants
<1>7. q # 0 => DataValid(DataPage, k) /\ Matches(DataPage, CommitPage)
  BY <1>4, <1>6 DEF DataValid, Matches, Written, Record
<1>8. DataPage.sequence = q /\ DataPage.params = c /\ DataPage.kind = k
  BY <1>4 DEF Record
<1>. QED BY <1>5, <1>6, <1>7, <1>8 DEF k, c, q

LEMMA RememberedSame ==
  ASSUME NEW entries \in Seq(Pages), Len(entries) < LogBlocks, NEW cells, NEW after,
         LogRecords(after) \subseteq LogRecords(cells)
  PROVE  Remembered(entries, cells, after) = entries
<1>1. entries \o << >> = entries
  OBVIOUS
<1>2. Remembered(entries, cells, after) = SubSeq(entries, 1, Len(entries))
  BY <1>1 DEF Remembered
<1>3. SubSeq(entries, 1, Len(entries)) = entries
  OBVIOUS
<1>. QED BY <1>2, <1>3

LEMMA RememberedMore ==
  ASSUME NEW entries \in Seq(Pages), NEW cells, NEW after, NEW r \in Pages,
         LogRecords(after) = LogRecords(cells) \cup {r}, r \notin LogRecords(cells)
  PROVE  Remembered(entries, cells, after) = Kept(Append(entries, r), LogBlocks)
<1>1. (CHOOSE q \in LogRecords(after) : q \notin LogRecords(cells)) = r
  OBVIOUS
<1>2. ~(LogRecords(after) \subseteq LogRecords(cells))
  OBVIOUS
<1>3. entries \o <<r>> = Append(entries, r)
  OBVIOUS
<1>. QED BY <1>1, <1>2, <1>3 DEF Remembered, Kept

(* The cells that change are those of the phase's operation.               *)
LEMMA DiskStep ==
  ASSUME StorageInv, NEW d \in Devices, NEW after \in Interrupted(flash[d], chip[d].job)
  PROVE  /\ after \in CellsType
         /\ after # flash[d] =>
              /\ worker.waiting /\ d = Device /\ worker.phase \in {"ERASE", "WRITE", "COMMIT"}
              /\ chip[d].state = "BUSY"
              /\ Phase("COMMIT") => chip[d].job.kind = "WRITE"
         /\ Phase("ERASE") /\ worker.request.command # "TEST" => Changes(flash[d], after, Target, 2)
         /\ Phase("ERASE") /\ worker.request.command = "TEST" =>
              Changes(flash[d], after, ZoneStart[TestZone], 4)
         /\ Phase("ERASE") => \A a \in Addresses : after[a] \in {flash[d][a], Erased, Torn}
         /\ Phase("WRITE") => Changes(flash[d], after, Target, 1)
         /\ Phase("COMMIT") =>
              /\ Changes(flash[d], after, Target + 1, 1)
              /\ Target + 1 \in Addresses => after[Target + 1] \in {flash[d][Target + 1], Torn, CommitPage}
<1>. DEFINE cells == flash[d]
            job == asked[d]
<1>1. IInv /\ StorageTypeOK /\ TransferInv
  BY DEF StorageInv
<1>2. cells \in CellsType /\ cells = [a \in Addresses |-> cells[a]]
  BY <1>1, Types DEF CellsType
<1>3. after = [a \in Addresses |-> after[a]]
  BY <1>2, CellsKeepTheirDomain
<1>4. ASSUME NEW a \in Addresses, after[a] # cells[a]
      PROVE  /\ worker.waiting /\ d = Device /\ JobOfPhase(job)
             /\ Covers(job, a) /\ chip[d].state = "BUSY" /\ chip[d].job.kind = job.kind
             /\ \/ job.kind = "ERASE" /\ after[a] \in {Erased, Torn}
                \/ job.kind = "WRITE" /\ after[a] \in {Torn, job.data[a - job.first + 1]}
  <2>1. /\ Busy(d) /\ Covers(job, a) /\ chip[d].state = "BUSY" /\ chip[d].job.kind = job.kind
        /\ \/ job.kind = "ERASE" /\ after[a] \in {Erased, Torn}
           \/ job.kind = "WRITE" /\ after[a] \in {Torn, job.data[a - job.first + 1]}
    BY <1>1, <1>4, CellByCell
  <2>. QED BY <1>1, <2>1 DEF TransferInv
<1>5. ASSUME NEW a \in Addresses, after[a] # cells[a]
      PROVE  \/ /\ Phase("ERASE") /\ worker.request.command # "TEST"
                /\ Target <= a /\ a < Target + 2 /\ after[a] \in {Erased, Torn}
             \/ /\ Phase("ERASE") /\ worker.request.command = "TEST"
                /\ ZoneStart[TestZone] <= a /\ a < ZoneStart[TestZone] + 4
                /\ after[a] \in {Erased, Torn}
             \/ /\ Phase("WRITE") /\ Target <= a /\ a < Target + 1 /\ job.kind = "WRITE"
                /\ after[a] \in {Torn, <<DataPage>>[a - Target + 1]}
             \/ /\ Phase("COMMIT") /\ Target + 1 <= a /\ a < Target + 1 + 1 /\ job.kind = "WRITE"
                /\ after[a] \in {Torn, <<CommitPage>>[a - (Target + 1) + 1]}
  <2>1. Covers(job, a) /\ JobOfPhase(job) /\ job.kind \in {"WRITE", "ERASE"}
        /\ \/ job.kind = "ERASE" /\ after[a] \in {Erased, Torn}
           \/ job.kind = "WRITE" /\ after[a] \in {Torn, job.data[a - job.first + 1]}
    BY <1>4, <1>5
  <2>2. BlockCells = 2 /\ 2 * BlockCells = 4
    BY Constants
  <2>. HIDE DEF job, cells
  <2>3. Phase("ERASE") \/ Phase("WRITE") \/ Phase("COMMIT")
    BY <2>1 DEF JobOfPhase
  <2>4. CASE Phase("ERASE") /\ worker.request.command # "TEST"
    <3>1. job = Job("ERASE", Target, 2, << >>)
      BY <2>1, <2>2, <2>4 DEF JobOfPhase, Phase
    <3>. QED BY <2>1, <2>4, <3>1 DEF Job, Covers
  <2>5. CASE Phase("ERASE") /\ worker.request.command = "TEST"
    <3>1. job = Job("ERASE", ZoneStart[TestZone], 4, << >>)
      BY <2>1, <2>2, <2>5 DEF JobOfPhase, Phase
    <3>. QED BY <2>1, <2>5, <3>1 DEF Job, Covers
  <2>6. CASE Phase("WRITE")
    <3>1. job = Job("WRITE", Target, 1, <<DataPage>>)
      BY <2>1, <2>6 DEF JobOfPhase, Phase
    <3>. QED BY <2>1, <2>6, <3>1 DEF Job, Covers
  <2>7. CASE Phase("COMMIT")
    <3>1. job = Job("WRITE", Target + 1, 1, <<CommitPage>>)
      BY <2>1, <2>7 DEF JobOfPhase, Phase
    <3>. QED BY <2>1, <2>7, <3>1 DEF Job, Covers
  <2>. QED BY <2>3, <2>4, <2>5, <2>6, <2>7
<1>6. Addresses \subseteq Nat /\ Target \in Nat /\ ZoneStart[TestZone] \in Nat
  <2>1. worker.target_zone \in 0 .. 5 /\ worker.target_offset \in Nat
    BY <1>1, Types, Constants DEF WorkerType
  <2>. QED BY <2>1, Layout, AddressesAreNat DEF Target
<1>7. ASSUME NEW a \in Addresses
      PROVE  after[a] \in Pages \cup {Erased, Torn}
  <2>1. CASE after[a] = cells[a]
    BY <1>2, <2>1 DEF CellsType
  <2>2. CASE after[a] # cells[a]
    <3>. DEFINE t == Target
    <3>1. Phase("WRITE") /\ t <= a /\ a < t + 1 => a - t + 1 = 1
      <4>. HIDE DEF t
      <4>. QED BY <1>6 DEF t
    <3>2. Phase("COMMIT") /\ t + 1 <= a /\ a < t + 1 + 1 => a - (t + 1) + 1 = 1
      <4>. HIDE DEF t
      <4>. QED BY <1>6 DEF t
    <3>3. after[a] \in {Erased, Torn, <<DataPage>>[1], <<CommitPage>>[1]}
      BY <1>5, <2>2, <3>1, <3>2
    <3>. QED BY <1>1, <3>3, PageTypes
  <2>. QED BY <2>1, <2>2
<1>8. after \in CellsType
  BY <1>3, <1>7 DEF CellsType
<1>9. after # cells =>
        /\ worker.waiting /\ d = Device /\ worker.phase \in {"ERASE", "WRITE", "COMMIT"}
        /\ chip[d].state = "BUSY" /\ (Phase("COMMIT") => chip[d].job.kind = "WRITE")
  <2>. SUFFICES ASSUME after # cells
                PROVE  /\ worker.waiting /\ d = Device /\ worker.phase \in {"ERASE", "WRITE", "COMMIT"}
                       /\ chip[d].state = "BUSY" /\ (Phase("COMMIT") => chip[d].job.kind = "WRITE")
    OBVIOUS
  <2>1. PICK a \in Addresses : after[a] # cells[a]
    BY <1>2, <1>3
  <2>. QED BY <1>4, <1>5, <2>1 DEF Phase
<1>. HIDE DEF cells, job
<1>10. Phase("COMMIT") /\ Target + 1 \in Addresses =>
         after[Target + 1] \in {cells[Target + 1], Torn, CommitPage}
  <2>. DEFINE a == Target + 1
  <2>1. a - (Target + 1) + 1 = 1
    BY <1>6
  <2>. HIDE DEF a
  <2>. QED BY <1>5, <2>1 DEF Phase, a
<1>11. Phase("ERASE") => \A a \in Addresses : after[a] \in {cells[a], Erased, Torn}
  BY <1>5 DEF Phase
<1>12. /\ Phase("ERASE") /\ worker.request.command # "TEST" => Changes(cells, after, Target, 2)
       /\ Phase("ERASE") /\ worker.request.command = "TEST" =>
            Changes(cells, after, ZoneStart[TestZone], 4)
       /\ Phase("WRITE") => Changes(cells, after, Target, 1)
       /\ Phase("COMMIT") => Changes(cells, after, Target + 1, 1)
  BY <1>5 DEF Changes, Phase
<1>. QED BY <1>8, <1>9, <1>10, <1>11, <1>12 DEF cells

(* Erasing a block loses its record; programming the commit page makes the *)
(* new one valid; nothing else changes what a scan finds in the block.     *)
LEMMA BlockStep ==
  ASSUME StorageInv, worker.phase \in WritePhases, worker.request.command # "TEST",
         Target \in Addresses, Target + 1 \in Addresses, worker.next_sequence # 0,
         Phase("WRITE") \/ Phase("VERIFY") => flash[Device][Target + 1] = Erased,
         Committing => flash[Device][Target] = DataPage,
         NEW after \in Interrupted(flash[Device], chip[Device].job)
  PROVE  LET cells == flash[Device]
         IN /\ after \in CellsType /\ Changes(cells, after, Target, 2)
            /\ Phase("WRITE") \/ Phase("VERIFY") => after[Target + 1] = Erased
            /\ Committing => after[Target] = DataPage
            /\ \/ Entry(after, Kind, Target) = Entry(cells, Kind, Target)
               \/ Phase("ERASE") /\ Entry(after, Kind, Target) = NONE
               \/ /\ Phase("COMMIT") /\ Entry(cells, Kind, Target) = NONE
                  /\ Entry(after, Kind, Target) = DataPage
<1>. DEFINE cells == flash[Device]
            a == Target
            b == Target + 1
<1>1. StorageTypeOK /\ Device \in Devices /\ CommitInv
  BY Types DEF StorageInv
<1>2. /\ after \in CellsType
      /\ after # cells =>
           /\ worker.waiting /\ worker.phase \in {"ERASE", "WRITE", "COMMIT"}
           /\ chip[Device].state = "BUSY"
           /\ Phase("COMMIT") => chip[Device].job.kind = "WRITE"
  BY <1>1, DiskStep
<1>3. a \in Nat /\ b \in Nat /\ b = a + 1
  BY AddressesAreNat
<1>4. ~DataValid(Erased, Kind) /\ ~DataValid(Torn, Kind)
  BY DEF DataValid, Written
<1>5. \A c : ~Matches(c, Erased) /\ ~Matches(c, Torn)
  BY DEF Matches, Written
<1>6. CASE Phase("ERASE")
  <2>1. Changes(cells, after, Target, 2) /\ \A c \in Addresses : after[c] \in {cells[c], Erased, Torn}
    BY <1>1, <1>6, DiskStep
  <2>2. CASE after[a] = cells[a] /\ after[b] = cells[b]
    <3>1. Entry(after, Kind, Target) = Entry(cells, Kind, Target)
      BY <2>2 DEF Entry
    <3>. QED BY <1>2, <1>6, <2>1, <3>1 DEF Phase, Committing
  <2>3. CASE ~(after[a] = cells[a] /\ after[b] = cells[b])
    <3>1. after[a] \in {Erased, Torn} \/ after[b] \in {Erased, Torn}
      BY <2>1, <2>3
    <3>2. Entry(after, Kind, Target) = NONE
      BY <1>4, <1>5, <3>1 DEF Entry
    <3>. QED BY <1>2, <1>6, <2>1, <3>2 DEF Phase, Committing
  <2>. QED BY <2>2, <2>3
<1>7. CASE Phase("WRITE")
  <2>1. Changes(cells, after, a, 1)
    BY <1>1, <1>7, DiskStep
  <2>2. \A c \in Addresses : a <= c /\ c < a + 1 => c < a + 2 /\ c # b
    BY <1>3, AddressesAreNat
  <2>3. after[b] = cells[b] /\ cells[b] = Erased
    BY <1>7, <2>1, <2>2 DEF Changes
  <2>4. Changes(cells, after, Target, 2)
    BY <2>1, <2>2 DEF Changes
  <2>5. Entry(after, Kind, Target) = Entry(cells, Kind, Target)
    BY <1>5, <2>3 DEF Entry
  <2>. QED BY <1>2, <1>7, <2>3, <2>4, <2>5 DEF Phase, Committing
<1>8. CASE Phase("VERIFY") \/ Phase("VERIFY_COMMIT")
  <2>1. after = cells
    BY <1>2, <1>8 DEF Phase
  <2>2. Changes(cells, after, Target, 2)
    BY <2>1 DEF Changes
  <2>. QED BY <1>2, <2>1, <2>2
<1>9. CASE Phase("COMMIT")
  <2>1. Changes(cells, after, b, 1) /\ after[b] \in {cells[b], Torn, CommitPage}
    BY <1>1, <1>9, DiskStep
  <2>2. \A c \in Addresses : b <= c /\ c < b + 1 => a <= c /\ c < a + 2 /\ c # a
    BY <1>3, AddressesAreNat
  <2>3. after[a] = cells[a] /\ cells[a] = DataPage
    BY <1>9, <2>1, <2>2 DEF Changes, Committing, Phase
  <2>4. Changes(cells, after, Target, 2)
    BY <2>1, <2>2 DEF Changes
  <2>5. CASE after[b] = cells[b]
    <3>1. Entry(after, Kind, Target) = Entry(cells, Kind, Target)
      BY <2>3, <2>5 DEF Entry
    <3>. QED BY <1>2, <1>9, <2>3, <2>4, <3>1 DEF Phase, Committing
  <2>6. CASE after[b] # cells[b]
    <3>1. cells[b] = Erased
      BY <1>1, <1>2, <1>9, <2>6 DEF CommitInv, Phase
    <3>2. Entry(cells, Kind, Target) = NONE
      BY <1>5, <3>1 DEF Entry
    <3>3. CASE after[b] = Torn
      <4>1. Entry(after, Kind, Target) = NONE
        BY <1>5, <3>3 DEF Entry
      <4>. QED BY <1>2, <1>9, <2>3, <2>4, <3>2, <4>1 DEF Phase, Committing
    <3>4. CASE after[b] = CommitPage
      <4>1. DataValid(DataPage, Kind) /\ Matches(DataPage, CommitPage)
        BY <1>1, PageTypes
      <4>2. Entry(after, Kind, Target) = DataPage
        BY <2>3, <3>4, <4>1 DEF Entry
      <4>. QED BY <1>2, <1>9, <2>3, <2>4, <3>2, <4>2 DEF Phase, Committing
    <3>. QED BY <2>1, <2>6, <3>3, <3>4
  <2>. QED BY <2>5, <2>6
<1>. QED BY <1>6, <1>7, <1>8, <1>9 DEF WritePhases, Phase

LEMMA HeldFacts ==
  ASSUME NEW cells \in CellsType, NEW h \in ParamSlots
  PROVE  /\ Held(ParamRing(cells), h) \in Seq(Pages)
         /\ \A r \in Pages : Kept(Append(Held(ParamRing(cells), h), r), 2) = <<r>>
<1>1. ParamRing(cells)[h] = NONE \/ ParamRing(cells)[h] \in Pages
  BY ParamRingFacts, ParamBlocks DEF RingType, ParamSlots
<1>2. ASSUME NEW e \in Seq(Pages), Len(e) < 2, NEW r \in Pages
      PROVE  Kept(Append(e, r), 2) = <<r>>
  <2>. DEFINE all == Append(e, r)
              s == Kept(all, 2)
  <2>1. all \in Seq(Pages) /\ Len(all) = Len(e) + 1 /\ all[Len(all)] = r /\ Len(e) \in Nat
    BY <1>2
  <2>2. 2 \in Nat \ {0} /\ Len(all) <= 2 /\ Len(all) \in 1 .. 2
    BY <1>2, <2>1
  <2>. HIDE DEF all
  <2>3. /\ s \in Seq(Pages) /\ Len(s) = IF Len(all) < 2 THEN Len(all) ELSE 2 - 1
        /\ \A j \in 0 .. Len(s) - 1 : s[Len(s) - j] = all[Len(all) - j]
    BY <2>1, <2>2, KeptFacts, Zenon
  <2>. HIDE DEF s
  <2>4. Len(s) = 1
    <3>1. \A x \in 1 .. 2 : (IF x < 2 THEN x ELSE 2 - 1) = 1
      OBVIOUS
    <3>. QED BY <2>2, <2>3, <3>1, Zenon
  <2>5. s[1] = r
    <3>1. 0 \in 0 .. Len(s) - 1 /\ Len(s) - 0 = 1 /\ Len(all) - 0 = Len(all)
      BY <2>2, <2>4
    <3>2. s[Len(s) - 0] = all[Len(all) - 0]
      BY <2>3, <3>1
    <3>. QED BY <2>1, <3>1, <3>2
  <2>6. s = <<r>>
    BY <2>3, <2>4, <2>5
  <2>. QED BY <2>6 DEF s, all
<1>3. ASSUME NEW q \in Pages
      PROVE  <<q>> \in Seq(Pages) /\ Len(<<q>>) < 2
  OBVIOUS
<1>4. << >> \in Seq(Pages) /\ Len(<< >>) < 2
  OBVIOUS
<1>5. Held(ParamRing(cells), h) \in Seq(Pages) /\ Len(Held(ParamRing(cells), h)) < 2
  BY <1>1, <1>3, <1>4 DEF Held
<1>. QED BY <1>2, <1>5

LEMMA ParamTarget ==
  ASSUME StorageTypeOK, NEW cells \in CellsType, SaveShape(cells), Writing("SAVE")
  PROVE  LET s == Around(ParamHead, 2)
         IN /\ ParamHead \in ParamSlots /\ s \in ParamSlots /\ s # ParamHead
            /\ Target = ParamBlock(s) /\ Target \in Addresses /\ Target + 1 \in Addresses
            /\ Kind = "params" /\ worker.next_sequence \in 1 .. SequenceMod - 1
            /\ worker.next_sequence = After(view[Device].sequence)
            /\ view[Device].sequence \in Sequences
<1>. DEFINE s == Around(ParamHead, 2)
<1>1. view[Device].active_slot \in {0, 1} /\ view[Device].sequence \in Sequences
  BY Types DEF ViewType, ParamSlots
<1>2. ParamHead \in {0, 1}
  BY <1>1 DEF ParamHead
<1>3. s \in {0, 1} /\ s # ParamHead
  BY <1>2 DEF Around
<1>4. worker.target_zone = ParamZone(s) /\ worker.target_offset = 0
      /\ worker.next_sequence = After(view[Device].sequence)
  BY DEF SaveShape, Writes
<1>5. ParamBlock(s) \in Nat /\ {ParamBlock(s), ParamBlock(s) + 1} \subseteq Addresses
  BY <1>3, ParamBlocks DEF ParamSlots
<1>6. Target = ParamBlock(s) + 0
  BY <1>4 DEF Target, ParamBlock
<1>7. Kind = "params"
  BY DEF Kind, Writing
<1>8. After(view[Device].sequence) \in 1 .. SequenceMod - 1
  BY <1>1, AfterFacts
<1>. HIDE DEF s
<1>. QED BY <1>1, <1>2, <1>3, <1>4, <1>5, <1>6, <1>7, <1>8 DEF ParamSlots, s

(* Saving leaves the active slot alone and the parameter ring in order.    *)
LEMMA SaveDisk ==
  ASSUME StorageInv, Writing("SAVE"), NEW after \in Interrupted(flash[Device], chip[Device].job)
  PROVE  /\ SaveShape(after) /\ ParamsInOrder(after)
         /\ LogRing(after) = LogRing(flash[Device])
         /\ after[ParamBlock(ParamHead)] = flash[Device][ParamBlock(ParamHead)]
<1>. DEFINE cells == flash[Device]
            s == Around(ParamHead, 2)
            n == view[Device].sequence
            ring == ParamRing(cells)
            ring2 == ParamRing(after)
            before == Held(ring, ParamHead)
<1>1. StorageTypeOK /\ Device \in Devices /\ cells \in CellsType /\ SaveShape(cells)
  BY Types DEF StorageInv, SaveInv
<1>2. /\ ParamHead \in ParamSlots /\ s \in ParamSlots /\ s # ParamHead
      /\ Target = ParamBlock(s) /\ Target \in Addresses /\ Target + 1 \in Addresses
      /\ Kind = "params" /\ worker.next_sequence # 0 /\ worker.next_sequence = After(n)
      /\ n \in Sequences /\ After(n) \in Sequences
  BY <1>1, ParamTarget DEF Sequences
<1>3. Writes(cells, ring, 2, before, <<DataPage>>, ParamHead, n)
  BY <1>1 DEF SaveShape
<1>4. /\ after \in CellsType /\ Changes(cells, after, Target, 2)
      /\ Phase("WRITE") \/ Phase("VERIFY") => after[Target + 1] = Erased
      /\ Committing => after[Target] = DataPage
      /\ \/ Entry(after, Kind, Target) = Entry(cells, Kind, Target)
         \/ Phase("ERASE") /\ Entry(after, Kind, Target) = NONE
         \/ /\ Phase("COMMIT") /\ Entry(cells, Kind, Target) = NONE
            /\ Entry(after, Kind, Target) = DataPage
  BY <1>2, <1>3, BlockStep DEF Writes, Writing
<1>5. /\ \A t \in ParamSlots : t # s => ring2[t] = ring[t]
      /\ LogRing(after) = LogRing(cells)
      /\ after[ParamBlock(ParamHead)] = cells[ParamBlock(ParamHead)]
  BY <1>2, <1>4, ParamWrite
<1>6. /\ RingType(ring, 2) /\ RingType(ring2, 2)
      /\ ring[s] = Entry(cells, Kind, Target) /\ ring2[s] = Entry(after, Kind, Target)
      /\ ring2[s] # NONE => ring2[s] = after[Target]
  BY <1>1, <1>2, <1>4, ParamRingFacts
<1>7. ring2[ParamHead] = ring[ParamHead] /\ Held(ring2, ParamHead) = before
  BY <1>2, <1>5 DEF Held
<1>8. before \in Seq(Pages) /\ DataPage \in Pages /\ DataPage # NONE
      /\ DataPage.sequence = After(n)
      /\ Kept(Append(before, DataPage), 2) = <<DataPage>>
  BY <1>1, <1>2, HeldFacts, PageTypes
<1>9. \A t \in 0 .. 2 - 1 : t # Around(ParamHead, 2) => ring2[t] = ring[t]
  BY <1>5 DEF ParamSlots
<1>10. IF Committing /\ ring2[s] # NONE THEN Ordered(ring2, 2, <<DataPage>>, s, worker.next_sequence)
       ELSE Ordered(ring2, 2, before, ParamHead, n)
  <2>. HIDE DEF before, ring, ring2, n
  <2>1. CASE ring2[s] = ring[s]
    <3>1. ring2 = ring
      BY <1>5, <2>1 DEF ParamRing, ring, ring2
    <3>. QED BY <1>3, <3>1 DEF Writes
  <2>2. CASE Phase("ERASE") /\ ring2[s] = NONE
    <3>1. ~Committing
      BY <2>2 DEF Committing, Phase
    <3>2. Ordered(ring, 2, before, ParamHead, n)
      BY <1>3, <3>1 DEF Writes
    <3>3. Ordered(ring2, 2, before, ParamHead, n)
      BY <1>6, <1>8, <1>9, <2>2, <3>2, OrderedForget
    <3>. QED BY <2>2, <3>3
  <2>3. CASE Phase("COMMIT") /\ ring[s] = NONE /\ ring2[s] = DataPage
    <3>1. Ordered(ring, 2, before, ParamHead, n)
      BY <1>3, <2>3 DEF Writes
    <3>2. Ordered(ring2, 2, <<DataPage>>, s, After(n))
      BY <1>6, <1>8, <1>9, <2>3, <3>1, OrderedAppend
    <3>. QED BY <1>2, <1>8, <2>3, <3>2 DEF Committing, Phase
  <2>. QED BY <1>4, <1>6, <2>1, <2>2, <2>3
<1>11. Writes(after, ring2, 2, Held(ring2, ParamHead), <<DataPage>>, ParamHead, n)
  BY <1>2, <1>4, <1>7, <1>10 DEF Writes
<1>12. SaveShape(after)
  BY <1>1, <1>7, <1>11 DEF SaveShape
<1>13. ParamsInOrder(after)
  <2>1. CASE Committing /\ ring2[s] # NONE
    <3>1. Held(ring2, s) = <<DataPage>>
      BY <1>4, <1>6, <2>1 DEF Held
    <3>. QED BY <1>2, <1>10, <2>1, <3>1 DEF ParamsInOrder
  <2>2. CASE ~(Committing /\ ring2[s] # NONE)
    BY <1>2, <1>7, <1>10, <2>2 DEF ParamsInOrder
  <2>. QED BY <2>1, <2>2
<1>. QED BY <1>5, <1>12, <1>13

LEMMA LogTarget ==
  ASSUME StorageTypeOK, NEW cells \in CellsType, NEW entries, LogShape(cells, entries), Writing("LOG")
  PROVE  LET s == Around(view[Device].log_slot, LogBlocks)
         IN /\ view[Device].log_slot \in LogSlots /\ s \in LogSlots
            /\ Target = LogBlock(s) /\ Target \in Addresses /\ Target + 1 \in Addresses
            /\ Kind = "log" /\ worker.next_sequence \in 1 .. SequenceMod - 1
            /\ worker.next_sequence = After(view[Device].log_sequence)
            /\ view[Device].log_sequence \in Sequences
<1>. DEFINE s == Around(view[Device].log_slot, LogBlocks)
<1>1. view[Device].log_slot \in LogSlots /\ view[Device].log_sequence \in Sequences
  BY Types DEF ViewType
<1>2. s \in LogSlots
  BY <1>1, AroundFacts, Constants DEF LogSlots
<1>3. worker.target_zone = LogZone /\ worker.target_offset = BlockCells * s
      /\ worker.next_sequence = After(view[Device].log_sequence)
  BY DEF LogShape, Writes
<1>4. LogBlock(s) \in Nat /\ {LogBlock(s), LogBlock(s) + 1} \subseteq Addresses
  BY <1>2, LogBlocksApart
<1>5. Target = LogBlock(s)
  BY <1>3 DEF Target, LogBlock
<1>6. Kind = "log"
  BY DEF Kind, Writing
<1>7. After(view[Device].log_sequence) \in 1 .. SequenceMod - 1
  BY <1>1, AfterFacts
<1>. HIDE DEF s
<1>. QED BY <1>1, <1>2, <1>3, <1>4, <1>5, <1>6, <1>7 DEF s

(* Logging appends at the end of the ring, and what is remembered is the   *)
(* ring's entries.                                                         *)
LEMMA LogDisk ==
  ASSUME StorageInv, Writing("LOG"), NEW after \in Interrupted(flash[Device], chip[Device].job)
  PROVE  LET entries == Remembered(kept[Device], flash[Device], after)
         IN /\ LogShape(after, entries) /\ LogInOrder(after, entries) /\ entries \in Seq(Pages)
            /\ ParamRing(after) = ParamRing(flash[Device])
<1>. DEFINE cells == flash[Device]
            h == view[Device].log_slot
            s == Around(h, LogBlocks)
            n == view[Device].log_sequence
            ring == LogRing(cells)
            ring2 == LogRing(after)
            before == kept[Device]
            entries == Remembered(before, cells, after)
<1>1. StorageTypeOK /\ Device \in Devices /\ cells \in CellsType /\ before \in Seq(Pages)
      /\ LogShape(cells, before)
  BY Types DEF StorageInv, LogInv
<1>2. /\ h \in LogSlots /\ s \in LogSlots
      /\ Target = LogBlock(s) /\ Target \in Addresses /\ Target + 1 \in Addresses
      /\ Kind = "log" /\ worker.next_sequence # 0 /\ worker.next_sequence = After(n)
      /\ n \in Sequences /\ After(n) \in Sequences
  BY <1>1, LogTarget DEF Sequences
<1>3. Writes(cells, ring, LogBlocks, before, before, h, n)
  BY <1>1 DEF LogShape
<1>4. /\ after \in CellsType /\ Changes(cells, after, Target, 2)
      /\ Phase("WRITE") \/ Phase("VERIFY") => after[Target + 1] = Erased
      /\ Committing => after[Target] = DataPage
      /\ \/ Entry(after, Kind, Target) = Entry(cells, Kind, Target)
         \/ Phase("ERASE") /\ Entry(after, Kind, Target) = NONE
         \/ /\ Phase("COMMIT") /\ Entry(cells, Kind, Target) = NONE
            /\ Entry(after, Kind, Target) = DataPage
  BY <1>2, <1>3, BlockStep DEF Writes, Writing
<1>5. /\ \A t \in LogSlots : t # s => ring2[t] = ring[t]
      /\ ParamRing(after) = ParamRing(cells)
  BY <1>2, <1>4, LogWrite
<1>6. /\ RingType(ring, LogBlocks) /\ RingType(ring2, LogBlocks)
      /\ ring[s] = Entry(cells, Kind, Target) /\ ring2[s] = Entry(after, Kind, Target)
      /\ LogRecords(cells) = {ring[b] : b \in LogSlots} \ {NONE}
      /\ LogRecords(after) = {ring2[b] : b \in LogSlots} \ {NONE}
  BY <1>1, <1>2, <1>4, LogRingFacts DEF LogSlots
<1>7. DataPage \in Pages /\ DataPage # NONE /\ DataPage.sequence = After(n)
  BY <1>1, <1>2, PageTypes
<1>8. \A t \in 0 .. LogBlocks - 1 : t # s => ring2[t] = ring[t]
  BY <1>5 DEF LogSlots
<1>9. Len(before) < LogBlocks
  BY <1>3 DEF Writes, Ordered
<1>10. /\ entries \in Seq(Pages)
       /\ IF Committing /\ ring2[s] # NONE THEN Ordered(ring2, LogBlocks, entries, s, worker.next_sequence)
          ELSE Ordered(ring2, LogBlocks, entries, h, n)
  <2>. HIDE DEF before, ring, ring2, n, cells, s, h
  <2>1. CASE ring2[s] = ring[s]
    <3>1. ring2 = ring
      BY <1>5, <2>1 DEF LogRing, ring, ring2
    <3>2. entries = before
      BY <1>1, <1>6, <1>9, <3>1, RememberedSame
    <3>. HIDE DEF entries
    <3>. QED BY <1>1, <1>3, <3>1, <3>2 DEF Writes, s
  <2>2. CASE Phase("ERASE") /\ ring2[s] = NONE
    <3>1. ~Committing
      BY <2>2 DEF Committing, Phase
    <3>2. Ordered(ring, LogBlocks, before, h, n)
      BY <1>3, <3>1 DEF Writes
    <3>3. Ordered(ring2, LogBlocks, before, h, n)
      BY <1>1, <1>6, <1>8, <2>2, <3>2, OrderedForget DEF s
    <3>4. LogRecords(after) \subseteq LogRecords(cells)
      BY <1>5, <1>6, <2>2
    <3>5. entries = before
      BY <1>1, <1>9, <3>4, RememberedSame
    <3>. QED BY <1>1, <2>2, <3>3, <3>5
  <2>3. CASE Phase("COMMIT") /\ ring[s] = NONE /\ ring2[s] = DataPage
    <3>1. Ordered(ring, LogBlocks, before, h, n)
      BY <1>3, <2>3 DEF Writes, s
    <3>2. Ordered(ring2, LogBlocks, Kept(Append(before, DataPage), LogBlocks), s, After(n))
      BY <1>1, <1>6, <1>7, <1>8, <2>3, <3>1, OrderedAppend DEF s
    <3>3. Kept(Append(before, DataPage), LogBlocks) \in Seq(Pages)
      <4>1. Append(before, DataPage) \in Seq(Pages) /\ Len(Append(before, DataPage)) = Len(before) + 1
            /\ Len(before) \in Nat
        BY <1>1, <1>7
      <4>2. Len(Append(before, DataPage)) <= LogBlocks
        BY <1>9, <4>1, Constants
      <4>. QED BY <4>1, <4>2, KeptFacts, Constants
    <3>4. \A t \in LogSlots : t # s => ring2[t] # DataPage
      <4>. SUFFICES ASSUME NEW t \in LogSlots, t # s, ring2[t] = DataPage
                    PROVE  FALSE
        OBVIOUS
      <4>1. s \in 0 .. LogBlocks - 1 /\ t \in 0 .. LogBlocks - 1
        BY <1>2 DEF LogSlots
      <4>2. PICK i \in 0 .. LogBlocks - 1 :
              /\ s = Behind(s, i, LogBlocks) /\ After(n) \in 1 .. SequenceMod - 1
              /\ ring2[s].sequence = Earlier(After(n), i)
        BY <1>6, <1>7, <2>3, <3>2, <3>3, <4>1, Ages
      <4>3. PICK j \in 0 .. LogBlocks - 1 :
              /\ t = Behind(s, j, LogBlocks) /\ ring2[t].sequence = Earlier(After(n), j)
        BY <1>6, <1>7, <3>2, <3>3, <4>1, Ages
      <4>4. Earlier(After(n), i) = Earlier(After(n), j)
        BY <2>3, <4>2, <4>3
      <4>5. i = j
        BY <4>2, <4>4, NewerByAge, Constants
      <4>. QED BY <4>2, <4>3, <4>5
    <3>5. DataPage \notin LogRecords(cells) /\ LogRecords(after) = LogRecords(cells) \cup {DataPage}
      BY <1>2, <1>5, <1>6, <1>7, <2>3, <3>4
    <3>6. entries = Kept(Append(before, DataPage), LogBlocks)
      BY <1>1, <1>7, <3>5, RememberedMore
    <3>. QED BY <1>2, <1>7, <2>3, <3>2, <3>3, <3>6 DEF Committing, Phase, n
  <2>. QED BY <1>4, <1>6, <2>1, <2>2, <2>3
<1>. HIDE DEF entries
<1>11. Writes(after, ring2, LogBlocks, entries, entries, h, n)
  BY <1>2, <1>4, <1>10 DEF Writes
<1>12. LogShape(after, entries)
  BY <1>1, <1>11 DEF LogShape
<1>13. LogInOrder(after, entries)
  BY <1>2, <1>10 DEF LogInOrder
<1>. QED BY <1>5, <1>10, <1>12, <1>13 DEF entries
----------------------------------------------------------------------------
(* The invariant holds at the start and is kept by the devices.            *)

LEMMA TestTarget ==
  ASSUME StorageTypeOK, TestInv, worker.phase \in WritePhases, worker.request.command = "TEST"
  PROVE  Target = ZoneStart[TestZone] + 1 /\ ZoneStart[TestZone] \in Nat
<1>1. worker.target_zone = TestZone /\ worker.target_offset = 2 - 1
  BY Constants DEF TestInv
<1>. QED BY <1>1, Layout DEF Target

LEMMA TestDisk ==
  ASSUME StorageInv, Writing("TEST"), NEW after \in Interrupted(flash[Device], chip[Device].job)
  PROVE  /\ ParamRing(after) = ParamRing(flash[Device]) /\ LogRing(after) = LogRing(flash[Device])
         /\ \A t \in ParamSlots : after[ParamBlock(t)] = flash[Device][ParamBlock(t)]
<1>. DEFINE cells == flash[Device]
            y == ZoneStart[TestZone]
<1>1. StorageTypeOK /\ Device \in Devices /\ TestInv
  BY Types DEF StorageInv
<1>2. Target = y + 1 /\ y \in Nat
  BY <1>1, TestTarget DEF Writing
<1>3. \/ Changes(cells, after, y, 4) \/ Changes(cells, after, y + 1, 1)
      \/ Changes(cells, after, y + 1 + 1, 1) \/ after = cells
  BY <1>1, <1>2, DiskStep DEF Writing, Phase
<1>4. Addresses \subseteq Nat
  BY AddressesAreNat
<1>. HIDE DEF y
<1>5. \A a \in Nat : (y + 1 <= a /\ a < y + 1 + 1) \/ (y + 1 + 1 <= a /\ a < y + 1 + 1 + 1) =>
        y <= a /\ a < y + 4
  BY <1>2
<1>6. Changes(cells, after, y, 4)
  BY <1>3, <1>4, <1>5 DEF Changes
<1>. QED BY <1>6, TestWrite DEF y

LEMMA SameRecords ==
  ASSUME NEW cells \in CellsType, NEW after \in CellsType
  PROVE  /\ LogRing(after) = LogRing(cells) => LogRecords(after) = LogRecords(cells)
         /\ ParamRing(after) = ParamRing(cells) => ParamRecords(after) = ParamRecords(cells)
<1>1. /\ LogRecords(cells) = {LogRing(cells)[b] : b \in 0 .. LogBlocks - 1} \ {NONE}
      /\ LogRecords(after) = {LogRing(after)[b] : b \in 0 .. LogBlocks - 1} \ {NONE}
  BY LogRingFacts
<1>2. /\ ParamRecords(cells) = {ParamRing(cells)[b] : b \in 0 .. 2 - 1} \ {NONE}
      /\ ParamRecords(after) = {ParamRing(after)[b] : b \in 0 .. 2 - 1} \ {NONE}
  BY ParamRingFacts
<1>. QED BY <1>1, <1>2, Zenon

LEMMA DiskInOrder ==
  ASSUME StorageInv, NEW d \in Devices, NEW after \in Interrupted(flash[d], chip[d].job)
  PROVE  LET entries == Remembered(kept[d], flash[d], after)
         IN /\ after \in CellsType /\ entries \in Seq(Pages)
            /\ ParamsInOrder(after) /\ LogInOrder(after, entries)
<1>. DEFINE entries == Remembered(kept[d], flash[d], after)
<1>1. /\ flash[d] \in CellsType /\ kept[d] \in Seq(Pages) /\ after \in CellsType
      /\ ParamsInOrder(flash[d]) /\ LogInOrder(flash[d], kept[d])
  BY Types, DiskStep DEF StorageInv, RingsInv
<1>2. Len(kept[d]) < LogBlocks
  BY <1>1 DEF LogInOrder, Ordered
<1>3. CASE ParamRing(after) = ParamRing(flash[d]) /\ LogRing(after) = LogRing(flash[d])
  <2>1. LogRecords(after) = LogRecords(flash[d])
    BY <1>1, <1>3, SameRecords
  <2>2. entries = kept[d]
    BY <1>1, <1>2, <2>1, RememberedSame
  <2>. QED BY <1>1, <1>3, <2>2 DEF ParamsInOrder, LogInOrder
<1>4. CASE after # flash[d]
  <2>1. d = Device /\ worker.phase \in WritePhases /\ worker.request.command \in {"SAVE", "LOG", "TEST"}
    BY <1>4, DiskStep DEF StorageInv, TestInv, WritePhases
  <2>2. CASE worker.request.command = "SAVE"
    <3>1. ParamsInOrder(after) /\ LogRing(after) = LogRing(flash[d])
      BY <2>1, <2>2, SaveDisk DEF Writing
    <3>2. LogRecords(after) = LogRecords(flash[d])
      BY <1>1, <3>1, SameRecords
    <3>3. entries = kept[d]
      BY <1>1, <1>2, <3>2, RememberedSame
    <3>. QED BY <1>1, <3>1, <3>3 DEF LogInOrder
  <2>3. CASE worker.request.command = "LOG"
    <3>1. /\ LogInOrder(after, entries) /\ entries \in Seq(Pages)
          /\ ParamRing(after) = ParamRing(flash[d])
      BY <2>1, <2>3, LogDisk DEF Writing
    <3>. QED BY <1>1, <3>1 DEF ParamsInOrder
  <2>4. CASE worker.request.command = "TEST"
    BY <1>3, <2>1, <2>4, TestDisk DEF Writing
  <2>. QED BY <2>1, <2>2, <2>3, <2>4
<1>. QED BY <1>3, <1>4

(* A device that ends or fails an operation.                               *)
LEMMA ChipKeeps ==
  ASSUME StorageInv, NEW d \in Devices, ChipStep(d)
  PROVE  StorageInv'
<1>1. /\ IInv /\ StorageTypeOK /\ RingsInv /\ TransferInv /\ ScanInv
      /\ SaveInv /\ LogInv /\ CommitInv /\ TestInv /\ FinishInv
  BY DEF StorageInv
<1>2. PICK after \in Interrupted(flash[d], chip[d].job) : flash' = [flash EXCEPT ![d] = after]
  BY WorkedIsInterrupted DEF ChipStep, ChipDone, ChipFails
<1>3. /\ chip[d].state = "BUSY" /\ chip'[d].state # "BUSY" /\ UNCHANGED <<fal, asked>>
      /\ UNCHANGED <<worker, view, pool, requests>> /\ Remember
  BY <1>1 DEF ChipStep, ChipDone, ChipFails, Working, Ready, workerVars, IInv, TypeOK
<1>4. Busy(d) /\ d = Device /\ worker.waiting
  BY <1>1, <1>3, DeviceFacts DEF Resting, TransferInv
<1>5. fal[d].state = "WAIT_DEVICE"
  BY <1>1, <1>3, <1>4, DeviceFacts DEF Underway, Assigned, Chunked, Synchronising
<1>6. IInv'
  BY <1>1, DeviceStep DEF ChipStep
<1>7. /\ flash'[d] = after /\ \A e \in Devices : e # d => flash'[e] = flash[e]
      /\ \A e \in Devices : flash[e] \in CellsType /\ kept[e] \in Seq(Pages)
      /\ flash \in [Devices -> CellsType]
  BY <1>1, <1>2 DEF StorageTypeOK
<1>8. /\ kept' = [e \in Devices |-> kept'[e]]
      /\ kept'[d] = Remembered(kept[d], flash[d], after)
      /\ \A e \in Devices : e # d => kept'[e] = kept[e]
  <2>1. \A e \in Devices : kept'[e] = Remembered(kept[e], flash[e], flash'[e])
    BY <1>3 DEF Remember
  <2>2. ASSUME NEW e \in Devices, e # d
        PROVE  kept'[e] = kept[e]
    <3>1. Len(kept[e]) < LogBlocks
      BY <1>1 DEF RingsInv, LogInOrder, Ordered
    <3>2. kept'[e] = Remembered(kept[e], flash[e], flash[e])
      BY <1>7, <2>1, <2>2
    <3>. QED BY <1>7, <3>1, <3>2, RememberedSame
  <2>. QED BY <1>3, <1>7, <2>1, <2>2 DEF Remember
<1>9. /\ after \in CellsType /\ kept'[d] \in Seq(Pages)
      /\ ParamsInOrder(after) /\ LogInOrder(after, kept'[d])
  BY <1>8, DiskInOrder
<1>10. StorageTypeOK'
  <2>1. flash' \in [Devices -> CellsType]
    BY <1>2, <1>7, <1>9
  <2>2. kept' \in [Devices -> Seq(Pages)]
    BY <1>7, <1>8, <1>9
  <2>. QED BY <1>1, <1>3, <2>1, <2>2 DEF StorageTypeOK
<1>11. RingsInv'
  <2>1. ASSUME NEW e \in Devices
        PROVE  ParamsInOrder(flash'[e]) /\ LogInOrder(flash'[e], kept'[e])
    BY <1>1, <1>7, <1>8, <1>9 DEF RingsInv
  <2>. QED BY <2>1 DEF RingsInv
<1>12. after # flash[d] => worker.phase \in {"ERASE", "WRITE", "COMMIT"}
  BY DiskStep
<1>13. Device' = Device /\ Target' = Target
  BY <1>3 DEF Device, Target
<1>14. TransferInv'
  BY <1>1, <1>3, <1>4, <1>13 DEF TransferInv, Busy, JobOfPhase, Phase, Instance, Succeeded, DataPage,
     CommitPage, Kind, Content
<1>15. ScanInv'
  <2>1. worker.phase \in ScanPhases => flash' = flash
    BY <1>2, <1>7, <1>12 DEF ScanPhases
  <2>. QED BY <1>1, <1>3, <1>13, <2>1 DEF ScanInv, Phase, Page, ScanZone, ScanOffset, ScanKind
<1>16. SaveInv'
  <2>1. Writing("SAVE") => SaveShape(after)
    BY <1>2, <1>4, SaveDisk
  <2>2. SaveShape(after)' <=> SaveShape(after)
    BY <1>3, <1>13 DEF SaveShape, Writes, ParamHead, Committing, Phase, DataPage, Kind, Content
  <2>. QED BY <1>3, <1>4, <1>7, <1>13, <2>1, <2>2 DEF SaveInv, Writing
<1>17. LogInv'
  <2>1. Writing("LOG") => LogShape(after, kept'[d])
    BY <1>2, <1>4, <1>8, LogDisk
  <2>. QED BY <1>3, <1>4, <1>7, <1>13, <2>1 DEF LogInv, Writing, LogShape, Writes, Committing, Phase,
       DataPage, Kind, Content
<1>18. CommitInv'
  BY <1>3, <1>4, <1>5, <1>13 DEF CommitInv, Instance, Phase
<1>19. TestInv'
  BY <1>1, <1>3 DEF TestInv
<1>20. FinishInv'
  <2>1. Phase("FINISH") => flash' = flash
    BY <1>2, <1>7, <1>12 DEF Phase
  <2>. QED BY <1>1, <1>3, <2>1 DEF FinishInv, Phase, Stored
<1>. QED BY <1>6, <1>10, <1>11, <1>14, <1>15, <1>16, <1>17, <1>18, <1>19, <1>20 DEF StorageInv
----------------------------------------------------------------------------
(* The service before its first scan, at the start or after a reset.       *)

BootState ==
  /\ IInv /\ flash \in [Devices -> CellsType] /\ kept \in [Devices -> Seq(Pages)] /\ RingsInv
  /\ \A d \in Devices : ~Busy(d)
  /\ pool = BootPool /\ worker = Booting /\ view = BootView(fal)

LEMMA BootKeeps == BootState => StorageInv
<1>. SUFFICES ASSUME BootState
              PROVE  StorageInv
  OBVIOUS
<1>1. /\ LogBlocks \in Nat \ {0} /\ SequenceMod \in Nat /\ SequenceMod > 0 /\ Defaults \in Params
      /\ 0 \in Devices /\ 0 \in Zones /\ 0 \in ParamSlots /\ Devices = {0, 1}
  BY Constants
<1>2. 0 \in Sequences /\ 0 \in LogSlots /\ LogBlocks - 1 \in LogSlots /\ 0 \in 0 .. LogBlocks + 2
  BY <1>1 DEF Sequences, LogSlots
<1>3. NoRequest \in RequestType
  BY <1>1, <1>2 DEF NoRequest, RequestType
<1>4. pool \in PoolType
  BY <1>1, <1>2, <1>3 DEF BootState, BootPool, PoolType, Outcomes
<1>5. /\ worker.phase = "SCAN_DATA" /\ worker.request = NoRequest /\ worker.scan_slot = 0
      /\ worker.scan_failed = FALSE /\ worker.waiting = FALSE /\ worker.booting = TRUE
  BY DEF BootState, Booting, Scanning, Idle
<1>6. worker \in WorkerType
  <2>1. worker = [phase |-> "SCAN_DATA", request |-> NoRequest, scan_slot |-> 0,
                  scan_failed |-> FALSE, waiting |-> FALSE, booting |-> TRUE, restore |-> FALSE,
                  target_zone |-> 0, target_offset |-> 0, next_sequence |-> 0, outcome |-> "OK"]
    BY DEF BootState, Booting, Scanning, Idle
  <2>. QED BY <1>1, <1>2, <1>3, <2>1 DEF WorkerType, ScanPhases, Outcomes
<1>7. \A o \in BOOLEAN : [Fresh EXCEPT !.online = o] \in ViewType
                         /\ ScanBegun([Fresh EXCEPT !.online = o]) \in ViewType
  BY <1>1, <1>2 DEF Fresh, ScanBegun, ViewType
<1>8. view \in [Devices -> ViewType]
  BY <1>7 DEF BootState, BootView
<1>9. Device = 0
  BY <1>5 DEF Device, NoRequest
<1>10. /\ view[Device].valid = FALSE /\ view[Device].sequence = 0
       /\ view[Device].log_sequence = 0 /\ view[Device].log_slot = LogBlocks - 1
  BY <1>1, <1>9 DEF BootState, BootView, ScanBegun, Fresh
<1>11. StorageTypeOK
  BY <1>4, <1>6, <1>8 DEF BootState, StorageTypeOK
<1>12. TransferInv
  BY <1>5 DEF BootState, TransferInv
<1>13. ScanInv
  <2>1. \A ring, slot : Seen(ring, 0, 0, slot)
    BY DEF Seen
  <2>2. Smaller(0, 2) = 0
    BY DEF Smaller
  <2>3. worker.request.command = "SCAN"
    BY <1>5 DEF NoRequest
  <2>4. 0 < LogBlocks + 2
    BY <1>1
  <2>. QED BY <1>5, <1>10, <2>1, <2>2, <2>3, <2>4 DEF ScanInv, Phase
<1>14. SaveInv /\ LogInv /\ CommitInv /\ TestInv /\ FinishInv
  BY <1>5 DEF SaveInv, LogInv, CommitInv, TestInv, FinishInv, Writing, WritePhases, Phase
<1>. QED BY <1>11, <1>12, <1>13, <1>14 DEF BootState, StorageInv

LEMMA ResetKeeps ==
  ASSUME StorageInv, Reset
  PROVE  StorageInv'
<1>1. IInv /\ StorageTypeOK /\ RingsInv
  BY DEF StorageInv
<1>2. IInv'
  BY <1>1, PowerStep DEF Reset
<1>3. /\ flash' = [d \in Devices |-> flash'[d]]
      /\ \A d \in Devices : flash'[d] \in Interrupted(flash[d], chip[d].job)
  BY DEF Reset, PowerLoss
<1>4. /\ kept' = [d \in Devices |-> kept'[d]]
      /\ \A d \in Devices : kept'[d] = Remembered(kept[d], flash[d], flash'[d])
  BY DEF Reset, Remember
<1>5. \A d \in Devices :
        /\ flash'[d] \in CellsType /\ kept'[d] \in Seq(Pages)
        /\ ParamsInOrder(flash'[d]) /\ LogInOrder(flash'[d], kept'[d])
  BY <1>3, <1>4, DiskInOrder
<1>6. flash' \in [Devices -> CellsType] /\ kept' \in [Devices -> Seq(Pages)]
  BY <1>3, <1>4, <1>5
<1>7. \A d \in Devices : ~Busy(d)'
  <2>1. fal' \in [Devices -> {Mounted, MountFailed}]
    BY DEF Reset, PowerLoss
  <2>. QED BY <2>1, StartFacts DEF Busy
<1>8. BootState'
  BY <1>2, <1>5, <1>6, <1>7 DEF BootState, RingsInv, Reset
<1>. QED BY <1>8, BootKeeps, PTL

LEMMA BlankInOrder ==
  /\ Blank \in CellsType /\ ParamsInOrder(Blank) /\ LogInOrder(Blank, << >>)
<1>1. Blank \in CellsType
  BY DEF Blank, CellsType
<1>2. \A kind : \A a \in Addresses : Entry(Blank, kind, a) = NONE
  BY DEF Entry, DataValid, Written, Blank
<1>3. \A s \in ParamSlots : ParamRing(Blank)[s] = NONE
  BY <1>1, <1>2, ParamRingFacts, ParamBlocks
<1>4. \A s \in LogSlots : LogRing(Blank)[s] = NONE
  BY <1>1, <1>2, LogRingFacts, LogBlocksApart
<1>5. ASSUME NEW ring, NEW size \in Nat \ {0}, \A b \in 0 .. size - 1 : ring[b] = NONE
      PROVE  Ordered(ring, size, << >>, 0, 0)
  <2>1. 0 \in 0 .. size - 1 /\ 0 \in Sequences /\ Len(<< >>) = 0
    BY Constants DEF Sequences
  <2>2. \A j \in 0 .. size - 1 : Behind(0, j, size) \in 0 .. size - 1
    BY <2>1, BehindFacts
  <2>3. \A j \in 0 .. size - 1 : ring[Behind(0, j, size)] = NONE
    BY <1>5, <2>2
  <2>. QED BY <2>1, <2>3 DEF Ordered
<1>6. 0 \in ParamSlots /\ ParamSlots = 0 .. 2 - 1 /\ 0 \in Sequences /\ 0 \in LogSlots
      /\ LogSlots = 0 .. LogBlocks - 1 /\ LogBlocks \in Nat \ {0} /\ 2 \in Nat \ {0}
  BY Constants DEF Sequences, LogSlots
<1>7. ParamsInOrder(Blank)
  <2>1. Held(ParamRing(Blank), 0) = << >>
    BY <1>3, <1>6 DEF Held
  <2>2. Ordered(ParamRing(Blank), 2, << >>, 0, 0)
    BY <1>3, <1>5, <1>6
  <2>. QED BY <1>6, <2>1, <2>2 DEF ParamsInOrder
<1>8. LogInOrder(Blank, << >>)
  <2>1. Ordered(LogRing(Blank), LogBlocks, << >>, 0, 0)
    BY <1>4, <1>5, <1>6
  <2>. QED BY <1>6, <2>1 DEF LogInOrder
<1>. QED BY <1>1, <1>7, <1>8

LEMMA WornFacts ==
  /\ \A s \in ParamSlots :
       /\ Worn[ParamBlock(s)] = Record("data", "params", SequenceMod - 1 - s, Defaults)
       /\ Worn[ParamBlock(s) + 1] = Record("commit", "params", SequenceMod - 1 - s, Defaults)
  /\ \A s \in LogSlots :
       /\ Worn[LogBlock(s)] = Record("data", "log", SequenceMod - LogBlocks + s, Defaults)
       /\ Worn[LogBlock(s) + 1] = Record("commit", "log", SequenceMod - LogBlocks + s, Defaults)
  /\ Worn \in CellsType
<1>. DEFINE z == ZoneStart[LogZone]
            p == ZoneStart[ParamZone(0)]
            q == ZoneStart[ParamZone(1)]
            At(a, b) == a \in {b, b + 1}
            Part(a) == IF a % 2 = 0 THEN "data" ELSE "commit"
            Block(a) == (a - z) \div 2
            M == SequenceMod
            L == LogBlocks
<1>1. /\ p \in Nat /\ q \in Nat /\ z \in Nat /\ p + 2 <= q /\ q + 2 <= z /\ z + 2 * L = Capacity
      /\ M \in Nat /\ L \in Nat /\ M > 2 * L /\ M > 4
  <2>1. ParamBlock(0) = p /\ ParamBlock(1) = q
    BY DEF ParamBlock
  <2>2. ZoneStart[TestZone] \in Nat /\ ZoneStart[TestZone] + 4 = z
    BY Layout
  <2>. HIDE DEF p, q, z
  <2>. QED BY <2>1, <2>2, Layout, Constants DEF z
<1>2. p % 2 = 0 /\ q % 2 = 0 /\ z % 2 = 0
  <2>1. \A i \in 0 .. ZoneCount : ZoneStart[i] % BlockCells = 0
    BY FalAssumption DEF FalAssumption
  <2>2. ZoneCount = 5 /\ BlockCells = 2
    BY StorageAssumption DEF StorageAssumption
  <2>. QED BY <2>1, <2>2 DEF ParamZone, LogZone
<1>3. \A a \in Addresses :
        Worn[a] = CASE At(a, p) -> Record(Part(a), "params", M - 1, Defaults)
                    [] At(a, q) -> Record(Part(a), "params", M - 2, Defaults)
                    [] a >= z -> Record(Part(a), "log", M - L + Block(a), Defaults)
                    [] OTHER -> Erased
  BY Constants DEF Worn
<1>4. /\ \A x \in {p, q, z} : x \in Nat /\ x % 2 = 0
      /\ \A x \in Nat : x % 2 = 0 => (x + 1) % 2 = 1
      /\ \A x \in Nat, s \in Nat : x % 2 = 0 => (x + 2 * s) % 2 = 0
  BY <1>1, <1>2
<1>5. \A s \in Nat : (2 * s) \div 2 = s /\ (2 * s + 1) \div 2 = s
  OBVIOUS
<1>6. Addresses \subseteq Nat
  BY AddressesAreNat
<1>. HIDE DEF p, q, z
<1>7. ASSUME NEW s \in ParamSlots
      PROVE  /\ Worn[ParamBlock(s)] = Record("data", "params", M - 1 - s, Defaults)
             /\ Worn[ParamBlock(s) + 1] = Record("commit", "params", M - 1 - s, Defaults)
  <2>1. ParamBlock(0) = p /\ ParamBlock(1) = q
    BY DEF ParamBlock, p, q
  <2>2. ParamBlock(s) \in Addresses /\ ParamBlock(s) + 1 \in Addresses
    BY ParamBlocks
  <2>3. s = 0 \/ s = 1
    BY DEF ParamSlots
  <2>4. CASE s = 0
    <3>1. Part(p) = "data" /\ Part(p + 1) = "commit" /\ At(p, p) /\ At(p + 1, p)
          /\ ~At(p, q) /\ ~At(p + 1, q) /\ ~(p >= z) /\ ~(p + 1 >= z)
      BY <1>1, <1>4
    <3>2. M - 1 - s = M - 1
      BY <1>1, <2>4
    <3>. HIDE DEF Part, At, Block
    <3>. QED BY <1>3, <2>1, <2>2, <2>4, <3>1, <3>2
  <2>5. CASE s = 1
    <3>1. Part(q) = "data" /\ Part(q + 1) = "commit" /\ At(q, q) /\ At(q + 1, q)
          /\ ~At(q, p) /\ ~At(q + 1, p) /\ ~(q >= z) /\ ~(q + 1 >= z)
      BY <1>1, <1>4
    <3>2. M - 1 - s = M - 2
      BY <1>1, <2>5
    <3>. HIDE DEF Part, At, Block
    <3>. QED BY <1>3, <2>1, <2>2, <2>5, <3>1, <3>2
  <2>. QED BY <2>3, <2>4, <2>5
<1>8. ASSUME NEW s \in LogSlots
      PROVE  /\ Worn[LogBlock(s)] = Record("data", "log", M - L + s, Defaults)
             /\ Worn[LogBlock(s) + 1] = Record("commit", "log", M - L + s, Defaults)
  <2>1. LogBlock(s) = z + 2 * s /\ s \in Nat
    BY Constants DEF LogBlock, z, LogSlots
  <2>2. LogBlock(s) \in Addresses /\ LogBlock(s) + 1 \in Addresses
    BY LogBlocksApart
  <2>. DEFINE x == z + 2 * s
  <2>3. x % 2 = 0 /\ (x + 1) % 2 = 1 /\ x \in Nat
    BY <1>1, <1>4, <2>1
  <2>4. x >= z /\ x + 1 >= z /\ x - z = 2 * s /\ (x + 1) - z = 2 * s + 1
        /\ ~At(x, p) /\ ~At(x + 1, p) /\ ~At(x, q) /\ ~At(x + 1, q)
    BY <1>1, <2>1
  <2>5. Block(x) = s /\ Block(x + 1) = s
    BY <1>5, <2>1, <2>4
  <2>6. Part(x) = "data" /\ Part(x + 1) = "commit"
    BY <2>3
  <2>. HIDE DEF Part, At, x
  <2>7. /\ Worn[x] = Record(Part(x), "log", M - L + Block(x), Defaults)
        /\ Worn[x + 1] = Record(Part(x + 1), "log", M - L + Block(x + 1), Defaults)
    <3>1. \A a \in Addresses : ~At(a, p) /\ ~At(a, q) /\ a >= z =>
            Worn[a] = Record(Part(a), "log", M - L + Block(a), Defaults)
      BY <1>3
    <3>2. x \in Addresses /\ x + 1 \in Addresses
      BY <2>1, <2>2 DEF x
    <3>. HIDE DEF Block
    <3>. QED BY <2>4, <3>1, <3>2
  <2>8. LogBlock(s) = x
    BY <2>1 DEF x
  <2>. QED BY <2>5, <2>6, <2>7, <2>8
<1>9. Worn \in CellsType
  <2>. SUFFICES ASSUME NEW a \in Addresses
                PROVE  Worn[a] \in Pages \cup {Erased, Torn}
    BY DEF CellsType, Worn
  <2>1. \A t \in {"params", "log"}, k \in 0 .. M - 1 : Record(Part(a), t, k, Defaults) \in Pages
    BY Constants DEF Record, Pages
  <2>2. M - 1 \in 0 .. M - 1 /\ M - 2 \in 0 .. M - 1
    BY <1>1
  <2>3. a >= z => M - L + Block(a) \in 0 .. M - 1
    <3>1. a \in Nat /\ a < z + 2 * L
      BY <1>1, <1>6 DEF Addresses
    <3>2. a >= z => a - z \in Nat /\ a - z < 2 * L
      BY <1>1, <3>1
    <3>3. \A x \in Nat : x < 2 * L => (x \div 2) \in Nat /\ (x \div 2) < L
      BY <1>1
    <3>4. a >= z => Block(a) \in Nat /\ Block(a) < L
      BY <3>2, <3>3
    <3>. HIDE DEF Block
    <3>. QED BY <1>1, <3>4
  <2>. HIDE DEF Part, At, Block
  <2>. QED BY <1>3, <2>1, <2>2, <2>3
<1>. QED BY <1>7, <1>8, <1>9

LEMMA WornInOrder ==
  /\ Worn \in CellsType /\ WornLog \in Seq(Pages)
  /\ ParamsInOrder(Worn) /\ LogInOrder(Worn, WornLog)
<1>. DEFINE M == SequenceMod
            L == LogBlocks
<1>1. /\ M \in Nat /\ L \in Nat \ {0} /\ M > 2 * L /\ M > 4 /\ Worn \in CellsType
      /\ ParamSlots = 0 .. 2 - 1 /\ LogSlots = 0 .. L - 1
  BY Constants, WornFacts DEF LogSlots
<1>2. \A kind \in {"params", "log"}, k \in 1 .. M - 1 :
        LET data == Record("data", kind, k, Defaults)
            commit == Record("commit", kind, k, Defaults)
        IN /\ data \in Pages /\ data.sequence = k
           /\ DataValid(data, kind) /\ Matches(data, commit)
  <2>. TAKE kind \in {"params", "log"}, k \in 1 .. M - 1
  <2>1. Record("data", kind, k, Defaults) \in Pages /\ Record("commit", kind, k, Defaults) \in Pages
    BY <1>1, Constants DEF Record, Pages
  <2>2. {Record("data", kind, k, Defaults), Record("commit", kind, k, Defaults)} \cap {Erased, Torn} = {}
    BY <2>1, Constants
  <2>. DEFINE data == Record("data", kind, k, Defaults)
              commit == Record("commit", kind, k, Defaults)
  <2>3. /\ data.part = "data" /\ data.kind = kind /\ data.sequence = k /\ data.params = Defaults
        /\ commit.part = "commit" /\ commit.kind = kind /\ commit.sequence = k
        /\ commit.params = Defaults
    BY DEF Record
  <2>4. k # 0
    BY <1>1
  <2>. HIDE DEF data, commit
  <2>5. DataValid(data, kind) /\ Matches(data, commit)
    BY <2>2, <2>3, <2>4 DEF DataValid, Matches, Written, data, commit
  <2>. QED BY <2>1, <2>3, <2>5 DEF data, commit
<1>3. \A s \in ParamSlots : ParamRing(Worn)[s] = Record("data", "params", M - 1 - s, Defaults)
  <2>. TAKE s \in ParamSlots
  <2>1. M - 1 - s \in 1 .. M - 1
    BY <1>1
  <2>2. Entry(Worn, "params", ParamBlock(s)) = Record("data", "params", M - 1 - s, Defaults)
    BY <1>2, <2>1, WornFacts DEF Entry
  <2>. QED BY <1>1, <2>2, ParamRingFacts
<1>4. \A s \in LogSlots :
        /\ LogRing(Worn)[s] = Record("data", "log", M - L + s, Defaults)
        /\ Worn[LogBlock(s)] = LogRing(Worn)[s]
        /\ LogRing(Worn)[s] \in Pages /\ LogRing(Worn)[s].sequence = M - L + s
  <2>. TAKE s \in LogSlots
  <2>1. M - L + s \in 1 .. M - 1
    BY <1>1
  <2>2. Entry(Worn, "log", LogBlock(s)) = Record("data", "log", M - L + s, Defaults)
    BY <1>2, <2>1, WornFacts DEF Entry
  <2>3. LogRing(Worn)[s] = Record("data", "log", M - L + s, Defaults)
    BY <1>1, <2>2, LogRingFacts
  <2>. QED BY <1>2, <2>1, <2>3, WornFacts
<1>5. /\ M - 1 \in Sequences /\ M - 1 # 0
      /\ \A j \in Nat : j < M - 1 => Earlier(M - 1, j) = M - 1 - j
  BY <1>1 DEF Sequences, Earlier
<1>6. ParamsInOrder(Worn)
  <2>. DEFINE ring == ParamRing(Worn)
  <2>1. /\ ring[0] = Record("data", "params", M - 1 - 0, Defaults)
        /\ ring[1] = Record("data", "params", M - 1 - 1, Defaults)
        /\ 0 \in ParamSlots
    BY <1>1, <1>3
  <2>2. M - 1 - 0 \in 1 .. M - 1 /\ M - 1 - 1 \in 1 .. M - 1
    BY <1>1
  <2>3. ring[0] \in Pages /\ ring[0].sequence = M - 1 - 0 /\ ring[1].sequence = M - 1 - 1
        /\ ring[0] # NONE
    BY <1>2, <2>1, <2>2, Constants
  <2>4. Held(ring, 0) = <<ring[0]>>
    BY <2>3 DEF Held
  <2>5. /\ Behind(0, 0, 2) = 0 /\ Behind(0, 1, 2) = 1
        /\ Earlier(M - 1, 0) = M - 1 - 0 /\ Earlier(M - 1, 1) = M - 1 - 1
    BY <1>1, <1>5 DEF Behind
  <2>. DEFINE e == <<ring[0]>>
  <2>6. Len(e) = 1 /\ e[1] = ring[0]
    OBVIOUS
  <2>. HIDE DEF ring, e
  <2>7. ASSUME NEW j \in 0 .. 2 - 1
        PROVE  LET found == ring[Behind(0, j, 2)]
               IN /\ j < Len(e) => found = e[Len(e) - j]
                  /\ found # NONE =>
                       /\ M - 1 # 0 /\ found.sequence = Earlier(M - 1, j)
                       /\ j < Len(e) \/ Len(e) = 2 - 1
    <3>1. j = 0 \/ j = 1
      OBVIOUS
    <3>. QED BY <1>5, <2>3, <2>5, <2>6, <3>1
  <2>8. Ordered(ring, 2, e, 0, M - 1)
    BY <1>1, <1>5, <2>1, <2>6, <2>7 DEF Ordered
  <2>9. Ordered(ring, 2, Held(ring, 0), 0, M - 1)
    BY <2>4, <2>8 DEF e
  <2>. QED BY <1>5, <2>1, <2>9 DEF ParamsInOrder, ring
<1>7. /\ WornLog = [i \in 1 .. L - 1 |-> LogRing(Worn)[i]]
      /\ WornLog \in Seq(Pages) /\ Len(WornLog) = L - 1
  <2>1. \A i \in 1 .. L - 1 : i \in LogSlots /\ Worn[ZoneStart[LogZone] + BlockCells * i] = LogRing(Worn)[i]
                              /\ LogRing(Worn)[i] \in Pages
    BY <1>1, <1>4 DEF LogBlock
  <2>2. WornLog = [i \in 1 .. L - 1 |-> LogRing(Worn)[i]]
    BY <2>1 DEF WornLog
  <2>3. L - 1 \in Nat
    BY <1>1
  <2>. QED BY <2>1, <2>2, <2>3
<1>8. LogInOrder(Worn, WornLog)
  <2>. DEFINE ring == LogRing(Worn)
              e == WornLog
  <2>1. \A j \in 0 .. L - 1 : Behind(L - 1, j, L) = L - 1 - j /\ L - 1 - j \in LogSlots
    BY <1>1 DEF Behind
  <2>2. ASSUME NEW j \in 0 .. L - 1
        PROVE  LET found == ring[Behind(L - 1, j, L)]
               IN /\ j < Len(e) => found = e[Len(e) - j]
                  /\ found # NONE =>
                       /\ M - 1 # 0 /\ found.sequence = Earlier(M - 1, j)
                       /\ j < Len(e) \/ Len(e) = L - 1
    <3>1. Behind(L - 1, j, L) = L - 1 - j /\ L - 1 - j \in LogSlots
      BY <2>1
    <3>2. ring[L - 1 - j].sequence = M - L + (L - 1 - j)
      BY <1>4, <3>1
    <3>3. j \in Nat /\ j < M - 1 /\ M - L + (L - 1 - j) = M - 1 - j
      BY <1>1
    <3>4. j < L - 1 => e[L - 1 - j] = ring[L - 1 - j]
      <4>1. j < L - 1 => L - 1 - j \in 1 .. L - 1
        BY <1>1
      <4>. QED BY <1>7, <4>1
    <3>. HIDE DEF ring, e
    <3>. QED BY <1>5, <1>7, <3>1, <3>2, <3>3, <3>4 DEF e
  <2>3. L - 1 \in 0 .. L - 1 /\ L - 1 < L
    BY <1>1
  <2>4. Ordered(ring, L, e, L - 1, M - 1)
    BY <1>5, <1>7, <2>2, <2>3 DEF Ordered
  <2>. QED BY <1>1, <1>5, <2>3, <2>4 DEF LogInOrder
<1>. QED BY <1>1, <1>6, <1>7, <1>8

LEMMA StorageStart == StorageInit => StorageInv
<1>. SUFFICES ASSUME StorageInit
              PROVE  BootState
  BY BootKeeps
<1>1. PICK cells \in [Devices -> {Blank, Worn}] :
        /\ FalInit(cells)
        /\ kept = [d \in Devices |-> IF cells[d] = Blank THEN << >> ELSE WornLog]
  BY DEF StorageInit
<1>2. IInv
  <2>1. cells = [d \in Devices |-> cells[d]]
    OBVIOUS
  <2>. QED BY <1>1, <2>1, StartsRight
<1>3. ASSUME NEW d \in Devices
      PROVE  /\ flash[d] \in CellsType /\ kept[d] \in Seq(Pages)
             /\ ParamsInOrder(flash[d]) /\ LogInOrder(flash[d], kept[d])
  <2>1. flash[d] = cells[d] /\ cells[d] \in {Blank, Worn}
    BY <1>1 DEF FalInit
  <2>2. CASE cells[d] = Blank
    <3>1. kept[d] = << >>
      BY <1>1, <2>2
    <3>. QED BY <2>1, <2>2, <3>1, BlankInOrder
  <2>3. CASE cells[d] # Blank
    <3>1. kept[d] = WornLog /\ cells[d] = Worn
      BY <1>1, <2>1, <2>3
    <3>. QED BY <2>1, <3>1, WornInOrder
  <2>. QED BY <2>2, <2>3
<1>4. flash \in [Devices -> CellsType] /\ kept \in [Devices -> Seq(Pages)]
  <2>1. flash = [d \in Devices |-> flash[d]] /\ kept = [d \in Devices |-> kept[d]]
    BY <1>1 DEF FalInit
  <2>. QED BY <1>3, <2>1
<1>5. \A d \in Devices : ~Busy(d)
  BY <1>1 DEF FalInit, Busy, Mounted
<1>6. pool = BootPool /\ worker = Booting /\ view = BootView(fal)
  BY DEF StorageInit
<1>. QED BY <1>2, <1>3, <1>4, <1>5, <1>6 DEF BootState, RingsInv

(* An instance that advances its request.                                  *)
LEMMA ProcessFacts ==
  ASSUME IInv, NEW d \in Devices, Process(d)
  PROVE  /\ Busy(d) /\ UNCHANGED <<flash, asked>>
         /\ \A e \in Devices : e # d => fal'[e] = fal[e] /\ chip'[e] = chip[e]
         /\ \/ fal'[d].operation = "NONE" /\ fal'[d].state # "WRITE" /\ chip'[d] = chip[d]
            \/ fal[d].state = fal[d].operation /\ fal'[d].state = "WAIT_DEVICE"
            \/ /\ Chunked(fal[d]) /\ fal[d].remaining - Chunk(fal[d]) # 0 /\ chip'[d] = chip[d]
            \/ fal'[d].state = "WAIT_DEVICE" /\ chip'[d].job.kind = "NONE"
<1>1. /\ fal = [fal EXCEPT ![d] = fal[d]] /\ chip = [chip EXCEPT ![d] = chip[d]]
      /\ Busy(d) => Underway(fal[d], chip[d], asked[d], flash[d])
      /\ fal[d] \in Fals
  BY DeviceFacts
<1>2. fal \in [Devices -> Fals] /\ chip \in [Devices -> Chips]
  BY DEF IInv, TypeOK
<1>3. \A f, result : Finished(f, result).operation = "NONE" /\ Finished(f, result).state # "WRITE"
  BY DEF Finished, Mounted
<1>4. CASE DeviceError(d) \/ IssueRefused(d) \/ SyncRefused(d) \/ SyncDone(d)
  <2>1. /\ Busy(d) /\ UNCHANGED <<flash, chip, asked>>
        /\ \E result : fal' = [fal EXCEPT ![d] = Finished(fal[d], result)]
    BY <1>4 DEF DeviceError, IssueRefused, SyncRefused, SyncDone, Issuing, Waited
  <2>. QED BY <1>2, <1>3, <2>1
<1>5. CASE Issue(d)
  BY <1>2, <1>5 DEF Issue, Issuing
<1>6. CASE ChunkDone(d)
  <2>. DEFINE f == fal[d]
  <2>1. Busy(d) /\ f.state = "WAIT_DEVICE" /\ f.chunk_length # 0 /\ UNCHANGED <<flash, asked>>
    BY <1>6 DEF ChunkDone, Waited
  <2>2. Chunked(f)
    BY <1>1, <2>1 DEF Underway, Issues, Synchronising, Busy
  <2>3. f.chunk_length = Chunk(f) /\ Committed(f).state = "WAIT_DEVICE"
        /\ Committed(f).remaining = f.remaining - f.chunk_length
    BY <1>1, <2>1, <2>2 DEF Chunked, Committed, Fals
  <2>4. CASE /\ Committed(f).remaining # 0 /\ UNCHANGED chip
             /\ fal' = [fal EXCEPT ![d] = [Committed(f) EXCEPT !.state = Committed(f).operation]]
    BY <1>2, <2>1, <2>2, <2>3, <2>4
  <2>5. CASE /\ fal' = [fal EXCEPT ![d] = [Committed(f) EXCEPT !.sync_issued = TRUE]]
             /\ chip' = [chip EXCEPT ![d] = [state |-> "BUSY", job |-> NoJob]]
    <3>1. fal'[d].state = "WAIT_DEVICE"
      BY <1>2, <2>3, <2>5 DEF Committed
    <3>2. chip'[d].job.kind = "NONE"
      BY <1>2, <2>5 DEF NoJob, Job
    <3>. QED BY <1>2, <2>1, <2>5, <3>1, <3>2
  <2>6. CASE fal' = [fal EXCEPT ![d] = Finished(Committed(f), "SUCCESS")] /\ UNCHANGED chip
    BY <1>2, <1>3, <2>1, <2>6
  <2>. QED BY <1>6, <2>4, <2>5, <2>6 DEF ChunkDone
<1>. QED BY <1>4, <1>5, <1>6 DEF Process

LEMMA FalKeeps ==
  ASSUME StorageInv, NEW d \in Devices, FalProcess(d)
  PROVE  StorageInv'
<1>1. /\ IInv /\ StorageTypeOK /\ RingsInv /\ TransferInv /\ ScanInv
      /\ SaveInv /\ LogInv /\ CommitInv /\ TestInv /\ FinishInv
  BY DEF StorageInv
<1>2. Process(d) /\ UNCHANGED <<worker, view, pool, kept, requests>>
  BY DEF FalProcess, workerVars
<1>3. IInv'
  BY <1>1, <1>2, RefusedStep, IssueStep, ChunkStep DEF Process
<1>4. /\ Busy(d) /\ UNCHANGED <<flash, asked>>
      /\ \A e \in Devices : e # d => fal'[e] = fal[e] /\ chip'[e] = chip[e]
      /\ \/ fal'[d].operation = "NONE" /\ fal'[d].state # "WRITE" /\ chip'[d] = chip[d]
         \/ fal[d].state = fal[d].operation /\ fal'[d].state = "WAIT_DEVICE"
         \/ /\ Chunked(fal[d]) /\ fal[d].remaining - Chunk(fal[d]) # 0 /\ chip'[d] = chip[d]
         \/ fal'[d].state = "WAIT_DEVICE" /\ chip'[d].job.kind = "NONE"
  BY <1>1, <1>2, ProcessFacts
<1>5. worker.waiting /\ d = Device
  BY <1>1, <1>4 DEF TransferInv
<1>6. Device' = Device /\ Target' = Target
  BY <1>2 DEF Device, Target
<1>7. StorageTypeOK' /\ RingsInv'
  BY <1>1, <1>2, <1>4 DEF StorageTypeOK, RingsInv
<1>8. TransferInv'
  <2>1. \A e \in Devices : Busy(e)' => worker.waiting /\ e = Device
    BY <1>1, <1>4, <1>5 DEF TransferInv, Busy
  <2>2. /\ worker.phase \in WritePhases \cup {"SCAN_DATA", "SCAN_COMMIT"}
        /\ JobOfPhase(asked[d])
    BY <1>1, <1>5 DEF TransferInv
  <2>3. JobOfPhase(asked[Device])'
    BY <1>2, <1>4, <1>5, <1>6, <2>2 DEF JobOfPhase, Phase, DataPage, CommitPage, Kind, Content
  <2>4. Succeeded' => TookEffect(flash[d], asked[d])
    BY <1>1, <1>2, <1>4, <1>5, <1>6, SuccessTells DEF Succeeded, Instance
  <2>. QED BY <1>2, <1>4, <1>5, <1>6, <2>1, <2>2, <2>3, <2>4 DEF TransferInv
<1>9. CommitInv'
  <2>. SUFFICES ASSUME Phase("COMMIT"), worker.request.command # "TEST",
                       flash[Device][Target + 1] # Erased
                PROVE  /\ fal'[d].state # "WRITE"
                       /\ ~(chip'[d].state = "BUSY" /\ chip'[d].job.kind = "WRITE")
    BY <1>2, <1>4, <1>5, <1>6 DEF CommitInv, Phase, Instance
  <2>1. fal[d].state # "WRITE" /\ ~(chip[d].state = "BUSY" /\ chip[d].job.kind = "WRITE")
    BY <1>1, <1>5 DEF CommitInv, Instance
  <2>2. asked[d] = Job("WRITE", Target + 1, 1, <<CommitPage>>)
    BY <1>1, <1>5 DEF TransferInv, JobOfPhase, Phase
  <2>3. asked[d].kind = "WRITE" /\ asked[d].length = 1 /\ asked[d].first = Target + 1
    BY <2>2 DEF Job
  <2>4. /\ fal[d] \in Fals /\ asked[d] \in Jobs /\ fal[d].operation \in Operations
        /\ Remainder(fal[d], asked[d])
    BY <1>1, <1>4, DeviceFacts DEF Underway
  <2>5. fal[d].operation = "WRITE"
    BY <2>3, <2>4 DEF Remainder
  <2>6. Chunked(fal[d]) => fal[d].remaining - Chunk(fal[d]) = 0
    <3>. SUFFICES ASSUME Chunked(fal[d])
                  PROVE  fal[d].remaining - Chunk(fal[d]) = 0
      OBVIOUS
    <3>. DEFINE r == fal[d].remaining
                k == Chunk(fal[d])
                a == fal[d].address
                b == asked[d].first
    <3>1. k \in Nat /\ 0 < k /\ k <= r
      BY <2>4, ChunkFacts DEF Chunked
    <3>2. b <= a /\ a + r = b + 1 /\ a \in Nat /\ b \in Nat /\ r \in Nat
      BY <2>3, <2>4 DEF Remainder, Fals, Jobs
    <3>. HIDE DEF r, k, a, b
    <3>3. r - k = 0
      BY <3>1, <3>2
    <3>. QED BY <3>3 DEF r, k
  <2>. QED BY <1>4, <2>1, <2>5, <2>6
<1>10. ScanInv' /\ FinishInv' /\ TestInv'
  <2>1. ScanInv'
    BY <1>1, <1>2, <1>4, <1>6 DEF ScanInv, Phase, Page, ScanZone, ScanOffset, ScanKind
  <2>2. FinishInv' /\ TestInv'
    BY <1>1, <1>2, <1>4, <1>6 DEF FinishInv, TestInv, Phase, Stored
  <2>. QED BY <2>1, <2>2
<1>11. SaveInv' /\ LogInv'
  BY <1>1, <1>2, <1>4, <1>6 DEF SaveInv, LogInv, Writing, SaveShape, LogShape, Writes, ParamHead,
     Committing, Phase, DataPage, Kind, Content
<1>. QED BY <1>3, <1>7, <1>8, <1>9, <1>10, <1>11 DEF StorageInv

(* Business code touches the pool only.                                    *)
LEMMA BusinessKeeps ==
  ASSUME StorageInv, Business
  PROVE  StorageInv'
<1>1. /\ IInv /\ StorageTypeOK /\ RingsInv /\ TransferInv /\ ScanInv
      /\ SaveInv /\ LogInv /\ CommitInv /\ TestInv /\ FinishInv
  BY DEF StorageInv
<1>2. UNCHANGED <<flash, chip, fal, asked, faults, worker, view, kept>>
  BY DEF Business, Configure, RequestCommand, workerVars, falVars
<1>3. pool' \in PoolType
  <2>1. pool \in PoolType
    BY <1>1 DEF StorageTypeOK
  <2>2. CASE \E params \in Params : Configure(params)
    BY <2>1, <2>2 DEF Configure, PoolType
  <2>3. ASSUME NEW d \in Devices, NEW command \in Commands, RequestCommand(d, command)
        PROVE  pool' \in PoolType
    <3>. DEFINE id == IF pool.request_id + 1 = SequenceMod THEN 1 ELSE pool.request_id + 1
    <3>1. id \in Sequences
      <4>1. pool.request_id \in 0 .. SequenceMod - 1 /\ SequenceMod \in Nat /\ SequenceMod > 4
        BY <2>1, StorageAssumption DEF PoolType, Sequences, StorageAssumption
      <4>. QED BY <4>1 DEF Sequences
    <3>2. command \in {"SCAN", "SAVE", "LOAD", "LOG", "TEST", "DEFAULTS"}
      BY StorageAssumption DEF StorageAssumption
    <3>3. pool' = [pool EXCEPT !.request_id = id, !.busy = TRUE, !.taken = FALSE,
                     !.request = [id |-> id, device |-> d, command |-> command,
                                  params |-> pool.params]]
      BY <2>3 DEF RequestCommand
    <3>. HIDE DEF id
    <3>4. [id |-> id, device |-> d, command |-> command, params |-> pool.params] \in RequestType
      BY <2>1, <3>1, <3>2 DEF PoolType, RequestType
    <3>. QED BY <2>1, <3>1, <3>3, <3>4 DEF PoolType
  <2>. QED BY <2>2, <2>3 DEF Business
<1>4. IInv'
  BY <1>1, <1>2 DEF IInv, TypeOK, DeviceInv, Busy
<1>5. StorageTypeOK' /\ RingsInv'
  BY <1>1, <1>2, <1>3 DEF StorageTypeOK, RingsInv
<1>6. Device' = Device /\ Target' = Target
  BY <1>2 DEF Device, Target
<1>7. TransferInv'
  BY <1>1, <1>2, <1>6 DEF TransferInv, Busy, JobOfPhase, Phase, Instance, Succeeded, DataPage,
     CommitPage, Kind, Content
<1>8. ScanInv'
  BY <1>1, <1>2, <1>6 DEF ScanInv, Phase, Page, ScanZone, ScanOffset, ScanKind
<1>9. SaveInv' /\ LogInv'
  BY <1>1, <1>2, <1>6 DEF SaveInv, LogInv, Writing, SaveShape, LogShape, Writes, ParamHead,
     Committing, Phase, DataPage, Kind, Content
<1>10. CommitInv' /\ TestInv' /\ FinishInv'
  BY <1>1, <1>2, <1>6 DEF CommitInv, TestInv, FinishInv, Phase, Stored, Instance
<1>. QED BY <1>4, <1>5, <1>7, <1>8, <1>9, <1>10 DEF StorageInv
----------------------------------------------------------------------------
(* The service submits an operation.                                       *)

LEMMA SubmitKeeps ==
  ASSUME StorageInv, NEW operation \in Operations, NEW zone \in Zones, NEW offset \in Nat,
         NEW length \in Nat, NEW data \in Seq(Values), operation = "WRITE" => length = Len(data),
         Submits(operation, zone, offset, length, data), Service,
         worker.phase \in WritePhases \cup {"SCAN_DATA", "SCAN_COMMIT"},
         worker.phase \in WritePhases \/ view[Device].online \/ Phase("SCAN_COMMIT"),
         JobOfPhase(Extent(operation, zone, offset, length, data))
  PROVE  StorageInv'
<1>. DEFINE job == Extent(operation, zone, offset, length, data)
<1>1. /\ IInv /\ StorageTypeOK /\ RingsInv /\ TransferInv /\ ScanInv
      /\ SaveInv /\ LogInv /\ CommitInv /\ TestInv /\ FinishInv
  BY DEF StorageInv
<1>2. Device \in Devices /\ worker \in WorkerType
  BY <1>1, Types
<1>3. /\ ~worker.waiting /\ worker' = [worker EXCEPT !.waiting = TRUE]
      /\ fal' = [fal EXCEPT ![Device] = Begun(@, job)]
      /\ asked' = [asked EXCEPT ![Device] = job]
      /\ Request(Device, operation, zone, offset, length, data)
      /\ UNCHANGED <<flash, chip, faults, view, pool, kept, requests>>
  BY DEF Submits, Request, Service
<1>4. IInv'
  BY <1>1, <1>2, <1>3, RequestStep
<1>5. /\ worker' \in WorkerType /\ worker'.waiting = TRUE
      /\ worker'.phase = worker.phase /\ worker'.request = worker.request
      /\ worker'.scan_slot = worker.scan_slot /\ worker'.scan_failed = worker.scan_failed
      /\ worker'.booting = worker.booting /\ worker'.target_zone = worker.target_zone
      /\ worker'.target_offset = worker.target_offset
      /\ worker'.next_sequence = worker.next_sequence
  BY <1>2, <1>3 DEF WorkerType
<1>6. Device' = Device /\ Target' = Target
  BY <1>5 DEF Device, Target
<1>7. StorageTypeOK' /\ RingsInv'
  BY <1>1, <1>3, <1>5 DEF StorageTypeOK, RingsInv
<1>8. \A d \in Devices : d # Device => ~Busy(d)'
  <2>1. \A d \in Devices : ~Busy(d)
    BY <1>1, <1>3 DEF TransferInv
  <2>. QED BY <1>3, <2>1 DEF Busy
<1>9. /\ Busy(Device)' /\ fal'[Device].operation = job.kind /\ asked'[Device] = job
  <2>1. fal \in [Devices -> Fals] /\ asked \in [Devices -> Jobs]
    BY <1>1 DEF IInv, TypeOK
  <2>2. asked'[Device] = job /\ fal'[Device] = Begun(fal[Device], job)
    BY <1>2, <1>3, <2>1
  <2>3. Begun(fal[Device], job).operation = job.kind
    BY <1>2, <2>1 DEF Begun, Fals
  <2>4. job.kind = operation
    BY DEF Extent, Job
  <2>5. operation # "NONE"
    BY DEF Operations
  <2>. QED BY <1>6, <2>2, <2>3, <2>4, <2>5 DEF Busy
<1>. HIDE DEF job
<1>10. TransferInv'
  <2>1. JobOfPhase(job)
    BY DEF job
  <2>2. JobOfPhase(asked[Device])'
    BY <1>5, <1>6, <1>9, <2>1 DEF JobOfPhase, Phase, DataPage, CommitPage, Kind, Content
  <2>. QED BY <1>5, <1>6, <1>8, <1>9, <2>2 DEF TransferInv
<1>11. ScanInv'
  <2>1. worker.phase \in WritePhases => worker.phase \notin ScanPhases
    BY DEF WritePhases, ScanPhases
  <2>2. worker.phase \in ScanPhases /\ ~worker.scan_failed => view[Device].online
    BY <1>1, <2>1 DEF ScanInv
  <2>. QED BY <1>1, <1>3, <1>5, <1>6, <2>2 DEF ScanInv, Phase, Page, ScanZone, ScanOffset, ScanKind
<1>12. SaveInv' /\ LogInv'
  BY <1>1, <1>3, <1>5, <1>6 DEF SaveInv, LogInv, Writing, SaveShape, LogShape, Writes, ParamHead,
     Committing, Phase, DataPage, Kind, Content
<1>13. CommitInv' /\ TestInv'
  BY <1>1, <1>3, <1>5, <1>6 DEF CommitInv, TestInv, Phase
<1>14. FinishInv'
  BY <1>5 DEF FinishInv, Phase, WritePhases
<1>. QED BY <1>4, <1>7, <1>10, <1>11, <1>12, <1>13, <1>14 DEF StorageInv

LEMMA ScanSubmitKeeps ==
  ASSUME StorageInv, ScanSubmit
  PROVE  StorageInv'
<1>1. StorageTypeOK /\ worker.scan_slot \in 0 .. LogBlocks + 2
  BY Types DEF StorageInv, WorkerType
<1>2. ScanZone \in Zones /\ ScanOffset \in Nat /\ ScanOffset + 1 \in Nat
  BY <1>1, Constants DEF ScanZone, ScanOffset, ParamZone, LogZone
<1>3. \A zone, offset, length : JobOfPhase(Extent("READ", zone, offset, length, << >>))
       \/ ~(Phase("SCAN_DATA") \/ Phase("SCAN_COMMIT"))
  BY DEF JobOfPhase, Extent, Job, Phase
<1>4. << >> \in Seq(Values) /\ "READ" \in Operations /\ 1 \in Nat
  BY DEF Operations
<1>5. CASE /\ Phase("SCAN_DATA") /\ view[Device].online
           /\ Submits("READ", ScanZone, ScanOffset, 1, << >>)
  BY <1>2, <1>3, <1>4, <1>5, SubmitKeeps DEF ScanSubmit, Phase
<1>6. CASE Phase("SCAN_COMMIT") /\ Submits("READ", ScanZone, ScanOffset + 1, 1, << >>)
  BY <1>2, <1>3, <1>4, <1>6, SubmitKeeps DEF ScanSubmit, Phase
<1>. QED BY <1>5, <1>6 DEF ScanSubmit

LEMMA WriteSubmitKeeps ==
  ASSUME StorageInv, WriteSubmit
  PROVE  StorageInv'
<1>. DEFINE z == worker.target_zone
            o == worker.target_offset
<1>1. /\ StorageTypeOK /\ SaveInv /\ LogInv /\ TestInv /\ Service
      /\ z \in Zones /\ o \in Nat /\ o + 1 \in Nat /\ TestZone \in Zones
  BY Types, Constants DEF StorageInv, WorkerType, WriteSubmit, TestZone
<1>2. /\ << >> \in Seq(Values) /\ <<DataPage>> \in Seq(Values) /\ <<CommitPage>> \in Seq(Values)
      /\ Len(<<DataPage>>) = 1 /\ Len(<<CommitPage>>) = 1
  <2>1. DataPage \in Pages /\ CommitPage \in Pages
    BY <1>1, PageTypes
  <2>2. ASSUME NEW page \in Pages
        PROVE  page \in Values
    <3>. DEFINE data == <<page>>
    <3>1. data \in Payloads
      BY PageAssumption DEF PageAssumption
    <3>2. data[1] = page /\ 1 \in DOMAIN data
      OBVIOUS
    <3>. HIDE DEF data
    <3>3. page \in {data[i] : i \in DOMAIN data}
      BY <3>2
    <3>. DEFINE content == {data[i] : i \in DOMAIN data}
    <3>4. content \in {{d[i] : i \in DOMAIN d} : d \in Payloads}
      BY <3>1
    <3>. HIDE DEF content
    <3>5. content \in {{d[i] : i \in DOMAIN d} : d \in Payloads} => content \subseteq Values
      BY DEF Values
    <3>. QED BY <3>3, <3>4, <3>5 DEF content
  <2>. QED BY <2>1, <2>2
<1>3. ZoneStart[z] \in Nat /\ Target = ZoneStart[z] + o /\ ZoneStart[z] + (o + 1) = Target + 1
  <2>1. ZoneStart[z] \in Nat
    BY <1>1, Constants, FalAssumption DEF FalAssumption, Zones
  <2>. QED BY <1>1, <2>1 DEF Target
<1>4. \A operation, offset, length, data :
        /\ operation # "ERASE" =>
             Extent(operation, z, offset, length, data) = Job(operation, ZoneStart[z] + offset, length, data)
        /\ Extent(operation, z, offset, length, data).kind = operation
  BY DEF Extent, Job
<1>5. BlockCells = 2
  BY Constants
<1>. HIDE DEF z, o
<1>6. CASE Phase("ERASE") /\ worker.request.command # "TEST"
           /\ Submits("ERASE", z, o, BlockCells, << >>)
  <2>1. \E s \in Nat : o = 2 * s
    <3>1. CASE Writing("SAVE")
      <4>1. o = 0
        BY <1>1, <3>1 DEF SaveInv, SaveShape, o
      <4>. QED BY <4>1
    <3>2. CASE Writing("LOG")
      <4>1. o = 2 * Around(view[Device].log_slot, LogBlocks)
        BY <1>1, <1>5, <3>2 DEF LogInv, LogShape, o
      <4>2. Around(view[Device].log_slot, LogBlocks) \in 0 .. LogBlocks - 1
        BY <1>1, Types, AroundFacts, Constants DEF ViewType, LogSlots
      <4>. QED BY <4>1, <4>2, Constants
    <3>. QED BY <1>1, <1>6, <3>1, <3>2 DEF TestInv, Writing, WritePhases, Phase
  <2>2. o % 2 = 0 /\ (o + 2) % 2 = 0 /\ o \in Nat
    BY <2>1
  <2>3. RoundDown(o) = o /\ RoundUp(o + BlockCells) = o + 2 /\ (o + 2) - o = 2
    BY <1>5, <2>2 DEF RoundDown, RoundUp
  <2>4. Extent("ERASE", z, o, BlockCells, << >>) = Job("ERASE", Target, BlockCells, << >>)
    BY <1>3, <1>5, <2>3 DEF Extent
  <2>5. JobOfPhase(Extent("ERASE", z, o, BlockCells, << >>))
    BY <1>6, <2>4 DEF JobOfPhase, Phase
  <2>6. "ERASE" \in Operations /\ BlockCells \in Nat /\ worker.phase \in WritePhases
    BY <1>5, <1>6 DEF Operations, WritePhases, Phase
  <2>. QED BY <1>1, <1>2, <1>6, <2>5, <2>6, SubmitKeeps DEF z, o
<1>7. CASE Phase("ERASE") /\ worker.request.command = "TEST"
           /\ Submits("ERASE", z, 0, 2 * BlockCells, << >>)
  <2>1. z = TestZone
    BY <1>1, <1>7 DEF TestInv, WritePhases, Phase, z
  <2>2. 0 % 2 = 0 /\ 4 % 2 = 0 /\ 0 - 0 = 0 /\ 4 - 0 = 4 /\ 0 + 4 = 4 /\ 2 * 2 = 4
    OBVIOUS
  <2>3. RoundDown(0) = 0 /\ RoundUp(0 + 2 * BlockCells) = 4
    BY <1>5, <2>2 DEF RoundDown, RoundUp
  <2>4. Extent("ERASE", z, 0, 2 * BlockCells, << >>) = Job("ERASE", ZoneStart[TestZone], 2 * BlockCells, << >>)
    BY <1>3, <1>5, <2>1, <2>2, <2>3 DEF Extent
  <2>5. JobOfPhase(Extent("ERASE", z, 0, 2 * BlockCells, << >>))
    BY <1>7, <2>4 DEF JobOfPhase, Phase
  <2>6. "ERASE" \in Operations /\ 2 * BlockCells \in Nat /\ worker.phase \in WritePhases /\ 0 \in Nat
    BY <1>5, <1>7 DEF Operations, WritePhases, Phase
  <2>. QED BY <1>1, <1>2, <1>7, <2>5, <2>6, SubmitKeeps DEF z, o
<1>8. CASE Phase("WRITE") /\ Submits("WRITE", z, o, 1, <<DataPage>>)
  <2>1. JobOfPhase(Extent("WRITE", z, o, 1, <<DataPage>>))
    BY <1>3, <1>4, <1>8 DEF JobOfPhase, Phase
  <2>2. "WRITE" \in Operations /\ 1 \in Nat /\ worker.phase \in WritePhases
    BY <1>8 DEF Operations, WritePhases, Phase
  <2>. QED BY <1>1, <1>2, <1>8, <2>1, <2>2, SubmitKeeps DEF z, o
<1>9. CASE Phase("VERIFY") /\ Submits("READ", z, o, 1, << >>)
  <2>1. JobOfPhase(Extent("READ", z, o, 1, << >>))
    BY <1>4, <1>9 DEF JobOfPhase, Phase
  <2>2. "READ" \in Operations /\ 1 \in Nat /\ worker.phase \in WritePhases
    BY <1>9 DEF Operations, WritePhases, Phase
  <2>. QED BY <1>1, <1>2, <1>9, <2>1, <2>2, SubmitKeeps DEF z, o
<1>10. CASE Phase("COMMIT") /\ Submits("WRITE", z, o + 1, 1, <<CommitPage>>)
  <2>1. JobOfPhase(Extent("WRITE", z, o + 1, 1, <<CommitPage>>))
    BY <1>3, <1>4, <1>10 DEF JobOfPhase, Phase
  <2>2. "WRITE" \in Operations /\ 1 \in Nat /\ worker.phase \in WritePhases
    BY <1>10 DEF Operations, WritePhases, Phase
  <2>. QED BY <1>1, <1>2, <1>10, <2>1, <2>2, SubmitKeeps DEF z, o
<1>11. CASE Phase("VERIFY_COMMIT") /\ Submits("READ", z, o + 1, 1, << >>)
  <2>1. JobOfPhase(Extent("READ", z, o + 1, 1, << >>))
    BY <1>4, <1>11 DEF JobOfPhase, Phase
  <2>2. "READ" \in Operations /\ 1 \in Nat /\ worker.phase \in WritePhases
    BY <1>11 DEF Operations, WritePhases, Phase
  <2>. QED BY <1>1, <1>2, <1>11, <2>1, <2>2, SubmitKeeps DEF z, o
<1>. QED BY <1>6, <1>7, <1>8, <1>9, <1>10, <1>11 DEF WriteSubmit, z, o
----------------------------------------------------------------------------
(* The steps of the service while no operation is under way.               *)

LEMMA AtRest ==
  ASSUME StorageInv, ~worker.waiting \/ Transferred
  PROVE  \A d \in Devices : ~Busy(d)
  BY DEF StorageInv, TransferInv, Transferred

LEMMA WaitingPhases ==
  ASSUME StorageInv, worker.waiting
  PROVE  worker.phase \in WritePhases \cup {"SCAN_DATA", "SCAN_COMMIT"}
  BY DEF StorageInv, TransferInv

LEMMA ServiceKeeps ==
  ASSUME StorageInv, UNCHANGED <<flash, kept>>,
         UNCHANGED falVars \/ \E d \in Devices : Mount(d) \/ MountFails(d),
         \A d \in Devices : ~Busy(d), worker'.waiting = FALSE,
         pool' \in PoolType, worker' \in WorkerType, view' \in [Devices -> ViewType],
         ScanInv', SaveInv', LogInv', CommitInv', TestInv', FinishInv'
  PROVE  StorageInv'
<1>1. IInv /\ StorageTypeOK /\ RingsInv
  BY DEF StorageInv
<1>2. IInv'
  <2>1. CASE UNCHANGED falVars
    BY <1>1, <2>1 DEF IInv, TypeOK, DeviceInv, Busy, falVars
  <2>2. CASE \E d \in Devices : Mount(d) \/ MountFails(d)
    BY <1>1, <2>2, MountStep
  <2>. QED BY <2>1, <2>2
<1>3. StorageTypeOK' /\ RingsInv'
  BY <1>1 DEF StorageTypeOK, RingsInv
<1>4. \A e \in Devices : ~Busy(e)'
  <2>1. CASE UNCHANGED falVars
    BY <2>1 DEF falVars, Busy
  <2>2. ASSUME NEW d \in Devices, Mount(d) \/ MountFails(d)
        PROVE  \A e \in Devices : ~Busy(e)'
    <3>1. fal \in [Devices -> Fals]
      BY <1>1 DEF IInv, TypeOK
    <3>2. \E f \in {Mounted, MountFailed} : fal' = [fal EXCEPT ![d] = f]
      BY <2>2 DEF Mount, MountFails
    <3>. QED BY <3>1, <3>2, StartFacts DEF Busy
  <2>. QED BY <2>1, <2>2
<1>5. TransferInv'
  BY <1>4 DEF TransferInv
<1>. QED BY <1>2, <1>3, <1>5 DEF StorageInv

Phases == {"IDLE", "FINISH"} \cup ScanPhases \cup WritePhases

LEMMA EndedWorker ==
  ASSUME NEW w \in WorkerType, NEW phase \in Phases
  PROVE  LET e == Ended(w, phase)
         IN /\ e \in WorkerType /\ e.phase = phase /\ e.waiting = FALSE
            /\ e.request = w.request /\ e.scan_slot = w.scan_slot /\ e.scan_failed = w.scan_failed
            /\ e.booting = w.booting /\ e.restore = w.restore /\ e.target_zone = w.target_zone
            /\ e.target_offset = w.target_offset /\ e.next_sequence = w.next_sequence
            /\ e.outcome = w.outcome
<1>1. Ended(w, phase) = [w EXCEPT !.waiting = FALSE, !.phase = phase]
  BY DEF Ended
<1>. QED BY <1>1 DEF WorkerType, Phases

LEMMA IdleWorker ==
  ASSUME NEW r \in RequestType
  PROVE  LET w == [Idle EXCEPT !.request = r]
         IN /\ w \in WorkerType /\ w.phase = "IDLE" /\ w.request = r /\ w.scan_slot = 0
            /\ w.scan_failed = FALSE /\ w.waiting = FALSE /\ w.booting = FALSE
            /\ w.restore = FALSE /\ w.outcome = "OK"
<1>1. 0 \in Zones /\ 0 \in Sequences /\ 0 \in 0 .. LogBlocks + 2 /\ NoRequest \in RequestType
  BY Constants DEF Sequences, NoRequest, RequestType
<1>2. Idle \in WorkerType
  BY <1>1 DEF Idle, WorkerType, Outcomes
<1>3. /\ Idle.phase = "IDLE" /\ Idle.scan_slot = 0 /\ Idle.scan_failed = FALSE
      /\ Idle.waiting = FALSE /\ Idle.booting = FALSE /\ Idle.restore = FALSE /\ Idle.outcome = "OK"
  BY DEF Idle
<1>. QED BY <1>2, <1>3 DEF WorkerType

LEMMA TakeKeeps ==
  ASSUME StorageInv, Take
  PROVE  StorageInv'
<1>. DEFINE r == pool.request
            w == [Idle EXCEPT !.request = r]
            v == view[r.device]
<1>1. /\ StorageTypeOK /\ pool \in PoolType /\ view \in [Devices -> ViewType] /\ r \in RequestType
      /\ r.device \in Devices /\ r.id \in Sequences /\ v \in ViewType
  BY DEF StorageInv, StorageTypeOK, PoolType, RequestType
<1>2. pool' \in PoolType
  BY <1>1 DEF Take, PoolType
<1>3. \A d \in Devices : ~Busy(d)
  <2>1. ~worker.waiting
    BY WaitingPhases DEF Take, Phase, WritePhases
  <2>. QED BY <2>1, AtRest
<1>4. UNCHANGED kept
  BY DEF Take
<1>5. /\ LogBlocks \in Nat \ {0} /\ SequenceMod \in Nat /\ SequenceMod > 0
      /\ 0 \in Zones /\ TestZone \in Zones /\ Defaults \in Params
      /\ 0 \in Sequences /\ LogBlocks - 1 \in LogSlots /\ 0 \in 0 .. LogBlocks + 2
      /\ BlockCells - 1 \in Nat
  BY Constants DEF Sequences, LogSlots, TestZone
<1>6. /\ w \in WorkerType /\ w.phase = "IDLE" /\ w.request = r /\ w.scan_slot = 0
      /\ w.scan_failed = FALSE /\ w.waiting = FALSE /\ w.booting = FALSE
      /\ w.restore = FALSE /\ w.outcome = "OK"
  BY <1>1, IdleWorker
<1>. HIDE DEF w
<1>7. \A p \in Phases :
        LET e == Ended(w, p)
        IN e \in WorkerType /\ e.phase = p /\ e.waiting = FALSE /\ e.request = r /\ e.booting = FALSE
  BY <1>6, EndedWorker
<1>8. CASE /\ r.command = "DEFAULTS" /\ worker' = [Ended(w, "FINISH") EXCEPT !.restore = TRUE]
           /\ view' = [view EXCEPT ![r.device].recovered = Defaults] /\ UNCHANGED falVars
  <2>1. LET e == Ended(w, "FINISH")
        IN e \in WorkerType /\ e.phase = "FINISH" /\ e.waiting = FALSE /\ e.request = r
    BY <1>7 DEF Phases
  <2>2. /\ worker' \in WorkerType /\ worker'.waiting = FALSE /\ worker'.phase = "FINISH"
        /\ worker'.request = r
    BY <1>8, <2>1 DEF WorkerType
  <2>3. view' \in [Devices -> ViewType]
    BY <1>1, <1>5, <1>8 DEF ViewType
  <2>4. ScanInv' /\ SaveInv' /\ LogInv' /\ CommitInv' /\ TestInv'
    BY <2>2 DEF ScanInv, SaveInv, LogInv, CommitInv, TestInv, Phase, Writing, ScanPhases, WritePhases
  <2>5. FinishInv'
    BY <1>8, <2>2 DEF FinishInv
  <2>. QED BY <1>2, <1>3, <1>4, <1>8, <2>2, <2>3, <2>4, <2>5, ServiceKeeps DEF falVars
<1>9. CASE /\ r.command = "TEST" /\ UNCHANGED <<view, falVars>> /\ v.online
           /\ worker' = [Ended(w, "ERASE") EXCEPT !.target_zone = TestZone,
                           !.target_offset = BlockCells - 1, !.next_sequence = r.id]
  <2>1. LET e == Ended(w, "ERASE")
        IN /\ e \in WorkerType /\ e.phase = "ERASE" /\ e.waiting = FALSE /\ e.request = r
           /\ e.booting = FALSE
    BY <1>7 DEF Phases, WritePhases
  <2>2. /\ worker' \in WorkerType /\ worker'.waiting = FALSE /\ worker'.phase = "ERASE"
        /\ worker'.request = r /\ worker'.target_zone = TestZone /\ worker'.booting = FALSE
        /\ worker'.target_offset = BlockCells - 1
    BY <1>1, <1>5, <1>9, <2>1 DEF WorkerType
  <2>3. view' \in [Devices -> ViewType]
    BY <1>1, <1>9
  <2>4. ScanInv' /\ SaveInv' /\ LogInv' /\ CommitInv' /\ TestInv' /\ FinishInv'
    BY <1>9, <2>2 DEF ScanInv, SaveInv, LogInv, CommitInv, TestInv, FinishInv, Phase, Writing,
       ScanPhases, WritePhases
  <2>. QED BY <1>2, <1>3, <1>4, <1>9, <2>2, <2>3, <2>4, ServiceKeeps DEF falVars
<1>10. CASE r.command = "TEST" /\ UNCHANGED <<view, falVars>> /\ worker' = Ends(w, "OFFLINE")
  <2>1. LET e == Ended(w, "FINISH")
        IN e \in WorkerType /\ e.phase = "FINISH" /\ e.waiting = FALSE
    BY <1>7 DEF Phases
  <2>2. /\ worker' \in WorkerType /\ worker'.waiting = FALSE /\ worker'.phase = "FINISH"
        /\ worker'.outcome = "OFFLINE"
    BY <1>10, <2>1 DEF Ends, WorkerType, Outcomes
  <2>3. view' \in [Devices -> ViewType]
    BY <1>1, <1>10
  <2>4. ScanInv' /\ SaveInv' /\ LogInv' /\ CommitInv' /\ TestInv' /\ FinishInv'
    BY <2>2 DEF ScanInv, SaveInv, LogInv, CommitInv, TestInv, FinishInv, Phase, Writing,
       ScanPhases, WritePhases
  <2>. QED BY <1>2, <1>3, <1>4, <1>10, <2>2, <2>3, <2>4, ServiceKeeps DEF falVars
<1>11. ASSUME NEW o \in BOOLEAN, r.command \notin {"DEFAULTS", "TEST"}, worker' = Scanning(w),
              Mount(r.device) \/ MountFails(r.device),
              view' = [view EXCEPT ![r.device] = ScanBegun([@ EXCEPT !.online = o])]
       PROVE  StorageInv'
  <2>1. worker' = [w EXCEPT !.phase = "SCAN_DATA", !.scan_slot = 0, !.scan_failed = FALSE]
    BY <1>11 DEF Scanning
  <2>2. /\ worker' \in WorkerType /\ worker'.waiting = FALSE /\ worker'.phase = "SCAN_DATA"
        /\ worker'.request = r /\ worker'.scan_slot = 0
    BY <1>5, <1>6, <2>1 DEF WorkerType, ScanPhases
  <2>3. ScanBegun([v EXCEPT !.online = o]) \in ViewType
    BY <1>1, <1>5 DEF ScanBegun, ViewType
  <2>4. view' \in [Devices -> ViewType] /\ view'[r.device] = ScanBegun([v EXCEPT !.online = o])
    BY <1>1, <1>11, <2>3
  <2>5. Device' = r.device
    BY <2>2 DEF Device
  <2>6. /\ view'[r.device].valid = FALSE /\ view'[r.device].sequence = 0
        /\ view'[r.device].log_sequence = 0 /\ view'[r.device].log_slot = LogBlocks - 1
    BY <1>1, <2>4 DEF ScanBegun, ViewType
  <2>7. ScanInv'
    <3>1. \A ring, slot : Seen(ring, 0, 0, slot)
      BY DEF Seen
    <3>2. Smaller(0, 2) = 0 /\ 0 < LogBlocks + 2
      BY <1>5 DEF Smaller
    <3>. QED BY <1>11, <2>2, <2>5, <2>6, <3>1, <3>2 DEF ScanInv, Phase
  <2>8. SaveInv' /\ LogInv' /\ CommitInv' /\ TestInv' /\ FinishInv'
    BY <2>2 DEF SaveInv, LogInv, CommitInv, TestInv, FinishInv, Phase, Writing, WritePhases
  <2>9. UNCHANGED flash
    BY <1>11 DEF Mount, MountFails
  <2>. QED BY <1>1, <1>2, <1>3, <1>4, <1>11, <2>2, <2>4, <2>7, <2>8, <2>9, ServiceKeeps
<1>. QED BY <1>8, <1>9, <1>10, <1>11 DEF Take, w
----------------------------------------------------------------------------
(* The scan.                                                               *)

(* The record in the slot that is scanned, and what the service makes of   *)
(* it.                                                                     *)
Found ==
  LET k == worker.scan_slot
  IN IF k \in ParamSlots THEN ParamRing(flash[Device])[k] ELSE LogRing(flash[Device])[k - 2]
Learnt == IF Found = NONE THEN view[Device] ELSE Adopted(view[Device], worker.scan_slot, Found)

LEMMA FoundFacts ==
  ASSUME StorageTypeOK, worker.scan_slot < LogBlocks + 2
  PROVE  LET data == Page(ScanZone, ScanOffset)
             commit == Page(ScanZone, ScanOffset + 1)
             k == worker.scan_slot
         IN /\ Found # NONE <=> DataValid(data, ScanKind) /\ Matches(data, commit)
            /\ Found # NONE => Found = data /\ data \in Pages
            /\ DataValid(data, ScanKind) => data \in Pages
            /\ k \in ParamSlots \/ (k \notin ParamSlots /\ k - 2 \in LogSlots)
<1>. DEFINE k == worker.scan_slot
            cells == flash[Device]
            data == Page(ScanZone, ScanOffset)
            commit == Page(ScanZone, ScanOffset + 1)
<1>1. cells \in CellsType /\ k \in Nat /\ k < LogBlocks + 2 /\ LogBlocks \in Nat \ {0}
      /\ BlockCells = 2
  BY Types, Constants DEF WorkerType
<1>2. k \in ParamSlots \/ (k \notin ParamSlots /\ k - 2 \in LogSlots)
  BY <1>1 DEF ParamSlots, LogSlots
<1>3. \A kind : \A a \in Addresses :
        /\ DataValid(cells[a], kind) => cells[a] \in Pages
        /\ Entry(cells, kind, a) # NONE <=>
             DataValid(cells[a], kind) /\ Matches(cells[a], cells[a + 1])
        /\ Entry(cells, kind, a) # NONE => Entry(cells, kind, a) = cells[a]
  <2>1. \A a \in Addresses : cells[a] \in Pages \cup {Erased, Torn}
    BY <1>1 DEF CellsType
  <2>2. \A kind : \A a \in Addresses : DataValid(cells[a], kind) => cells[a] \in Pages
    BY <2>1 DEF DataValid, Written
  <2>. QED BY <1>1, <2>2, EntryFacts
<1>4. CASE k \in ParamSlots
  <2>1. /\ ScanZone = ParamZone(k) /\ ScanOffset = 0 /\ ScanKind = "params"
        /\ Found = ParamRing(cells)[k]
    BY <1>4 DEF ScanZone, ScanOffset, ScanKind, Found
  <2>2. ParamBlock(k) \in Addresses /\ ParamBlock(k) \in Nat
    BY <1>4, ParamBlocks
  <2>3. ZoneStart[ParamZone(k)] + 0 = ParamBlock(k) /\ ZoneStart[ParamZone(k)] + (0 + 1) = ParamBlock(k) + 1
    BY <2>2 DEF ParamBlock
  <2>4. data = cells[ParamBlock(k)] /\ commit = cells[ParamBlock(k) + 1]
    BY <2>1, <2>3 DEF Page
  <2>5. Found = Entry(cells, "params", ParamBlock(k))
    BY <1>1, <1>4, <2>1, ParamRingFacts
  <2>. HIDE DEF data, commit
  <2>6. /\ Found # NONE <=> DataValid(data, ScanKind) /\ Matches(data, commit)
        /\ Found # NONE => Found = data /\ data \in Pages
        /\ DataValid(data, ScanKind) => data \in Pages
    BY <1>3, <2>1, <2>2, <2>4, <2>5
  <2>. QED BY <1>2, <2>6 DEF data, commit
<1>5. CASE k \notin ParamSlots
  <2>. DEFINE b == k - 2
  <2>1. /\ ScanZone = LogZone /\ ScanOffset = b * 2 /\ ScanKind = "log"
        /\ Found = LogRing(cells)[b]
    BY <1>1, <1>5 DEF ScanZone, ScanOffset, ScanKind, Found
  <2>2. b \in LogSlots /\ b \in Nat
    BY <1>2, <1>5, Constants DEF LogSlots
  <2>3. LogBlock(b) \in Addresses /\ LogBlock(b) \in Nat /\ LogBlock(b) = ZoneStart[LogZone] + 2 * b
        /\ ZoneStart[LogZone] \in Nat
    BY <1>1, <2>2, LogBlocksApart, Layout DEF LogBlock
  <2>. HIDE DEF b
  <2>4. /\ ZoneStart[LogZone] + b * 2 = LogBlock(b)
        /\ ZoneStart[LogZone] + (b * 2 + 1) = LogBlock(b) + 1
    BY <2>2, <2>3
  <2>5. data = cells[LogBlock(b)] /\ commit = cells[LogBlock(b) + 1]
    BY <2>1, <2>4 DEF Page
  <2>6. Found = Entry(cells, "log", LogBlock(b))
    BY <1>1, <2>1, <2>2, LogRingFacts
  <2>. HIDE DEF data, commit
  <2>7. /\ Found # NONE <=> DataValid(data, ScanKind) /\ Matches(data, commit)
        /\ Found # NONE => Found = data /\ data \in Pages
        /\ DataValid(data, ScanKind) => data \in Pages
    BY <1>3, <2>1, <2>3, <2>5, <2>6
  <2>. QED BY <1>2, <2>7 DEF data, commit
<1>. QED BY <1>4, <1>5

LEMMA AdoptedType ==
  ASSUME NEW v \in ViewType, NEW k, k \in ParamSlots \/ k - 2 \in LogSlots, NEW data \in Pages
  PROVE  Adopted(v, k, data) \in ViewType /\ Adopted(v, k, data).online = v.online
<1>1. data.sequence \in Sequences /\ data.params \in Params
  BY DEF Pages, Sequences
<1>2. CASE k \in ParamSlots
  BY <1>1, <1>2 DEF Adopted, ViewType
<1>3. CASE k \notin ParamSlots
  BY <1>1, <1>3 DEF Adopted, ViewType
<1>. QED BY <1>2, <1>3

(* What the scan knows after one more slot.                                *)
LEMMA Learns ==
  ASSUME StorageInv, worker.phase \in {"SCAN_DATA", "SCAN_COMMIT"}, ~worker.scan_failed
  PROVE  LET k == worker.scan_slot + 1
             cells == flash[Device]
             v == Learnt
         IN /\ Seen(ParamRing(cells), Smaller(k, 2), v.sequence, v.active_slot)
            /\ v.valid <=> v.sequence # 0
            /\ v.valid => v.recovered = ParamRing(cells)[v.active_slot].params
            /\ Seen(LogRing(cells), IF k < 2 THEN 0 ELSE k - 2, v.log_sequence, v.log_slot)
            /\ v.log_sequence = 0 => v.log_slot = LogBlocks - 1
<1>. DEFINE k == worker.scan_slot
            cells == flash[Device]
            v == view[Device]
            params == ParamRing(cells)
            log == LogRing(cells)
<1>1. /\ StorageTypeOK /\ Device \in Devices /\ cells \in CellsType /\ v \in ViewType
      /\ kept[Device] \in Seq(Pages) /\ k \in Nat /\ LogBlocks \in Nat \ {0}
      /\ v.sequence \in Sequences /\ v.log_sequence \in Sequences
  BY Types, Constants DEF StorageInv, WorkerType, ViewType
<1>2. /\ k < LogBlocks + 2
      /\ Seen(params, Smaller(k, 2), v.sequence, v.active_slot)
      /\ v.valid <=> v.sequence # 0
      /\ v.valid => v.recovered = params[v.active_slot].params
      /\ Seen(log, IF k < 2 THEN 0 ELSE k - 2, v.log_sequence, v.log_slot)
      /\ v.log_sequence = 0 => v.log_slot = LogBlocks - 1
  BY DEF StorageInv, ScanInv, ScanPhases, Phase
<1>3. k \in ParamSlots \/ (k \notin ParamSlots /\ k - 2 \in LogSlots)
  BY <1>1, <1>2, FoundFacts
<1>4. RingType(params, 2) /\ RingType(log, LogBlocks)
  BY <1>1, ParamRingFacts, LogRingFacts
<1>5. CASE k \in ParamSlots
  <2>1. /\ k \in 0 .. 2 - 1 /\ Smaller(k, 2) = k /\ Smaller(k + 1, 2) = k + 1
        /\ k < 2 /\ (IF k + 1 < 2 THEN 0 ELSE (k + 1) - 2) = 0
    BY <1>5 DEF ParamSlots, Smaller
  <2>2. PICK h \in ParamSlots, n \in Sequences : Ordered(params, 2, Held(params, h), h, n)
    BY <1>1 DEF StorageInv, RingsInv, ParamsInOrder
  <2>3. Held(params, h) \in Seq(Pages)
    BY <1>1, HeldFacts
  <2>. DEFINE found == params[k]
  <2>4. /\ found = NONE \/ ~Newer(found.sequence, v.sequence) =>
             Seen(params, k + 1, v.sequence, v.active_slot)
        /\ found # NONE /\ Newer(found.sequence, v.sequence) =>
             Seen(params, k + 1, found.sequence, k)
    BY <1>1, <1>2, <1>4, <2>1, <2>2, <2>3, SeenNext
  <2>5. Found = found
    BY <1>5 DEF Found
  <2>6. found # NONE => found.sequence # 0
    BY <1>4, <2>1 DEF RingType
  <2>. HIDE DEF found
  <2>7. CASE found = NONE \/ ~Newer(found.sequence, v.sequence)
    <3>1. Learnt = v
      BY <1>5, <2>5, <2>7 DEF Learnt, Adopted
    <3>. QED BY <1>2, <2>1, <2>4, <2>7, <3>1
  <2>8. CASE found # NONE /\ Newer(found.sequence, v.sequence)
    <3>1. Learnt = [v EXCEPT !.sequence = found.sequence, !.valid = TRUE, !.active_slot = k,
                             !.recovered = found.params]
      BY <1>5, <2>5, <2>8 DEF Learnt, Adopted
    <3>2. /\ Learnt.sequence = found.sequence /\ Learnt.valid = TRUE /\ Learnt.active_slot = k
          /\ Learnt.recovered = found.params /\ Learnt.log_sequence = v.log_sequence
          /\ Learnt.log_slot = v.log_slot
      BY <1>1, <3>1 DEF ViewType
    <3>3. Learnt.recovered = params[Learnt.active_slot].params
      BY <3>2 DEF found
    <3>. QED BY <1>2, <2>1, <2>4, <2>6, <2>8, <3>2, <3>3
  <2>. QED BY <2>7, <2>8
<1>6. CASE k \notin ParamSlots
  <2>. DEFINE b == k - 2
              found == log[b]
  <2>1. /\ b \in 0 .. LogBlocks - 1 /\ ~(k < 2) /\ ~(k + 1 < 2) /\ (k + 1) - 2 = b + 1
        /\ Smaller(k, 2) = 2 /\ Smaller(k + 1, 2) = 2
    <3>1. b \in 0 .. LogBlocks - 1
      BY <1>3, <1>6 DEF LogSlots
    <3>2. ~(k < 2)
      BY <1>1, <1>6 DEF ParamSlots
    <3>. QED BY <1>1, <3>1, <3>2 DEF Smaller
  <2>2. PICK h \in LogSlots, n \in Sequences : Ordered(log, LogBlocks, kept[Device], h, n)
    BY <1>1 DEF StorageInv, RingsInv, LogInOrder
  <2>3. Found = found
    BY <1>6 DEF Found
  <2>. HIDE DEF b
  <2>4. /\ found = NONE \/ ~Newer(found.sequence, v.log_sequence) =>
             Seen(log, b + 1, v.log_sequence, v.log_slot)
        /\ found # NONE /\ Newer(found.sequence, v.log_sequence) =>
             Seen(log, b + 1, found.sequence, b)
    <3>1. Seen(log, b, v.log_sequence, v.log_slot)
      BY <1>2, <2>1 DEF b
    <3>. QED BY <1>1, <1>4, <2>1, <2>2, <3>1, SeenNext
  <2>5. found # NONE => found.sequence # 0
    BY <1>4, <2>1 DEF RingType
  <2>. HIDE DEF found
  <2>6. CASE found = NONE \/ ~Newer(found.sequence, v.log_sequence)
    <3>1. Learnt = v
      BY <1>6, <2>3, <2>6 DEF Learnt, Adopted
    <3>. QED BY <1>2, <2>1, <2>4, <2>6, <3>1
  <2>7. CASE found # NONE /\ Newer(found.sequence, v.log_sequence)
    <3>1. Learnt = [v EXCEPT !.log_sequence = found.sequence, !.log_slot = b]
      BY <1>6, <2>3, <2>7 DEF Learnt, Adopted, b
    <3>2. /\ Learnt.sequence = v.sequence /\ Learnt.valid = v.valid
          /\ Learnt.active_slot = v.active_slot /\ Learnt.recovered = v.recovered
          /\ Learnt.log_sequence = found.sequence /\ Learnt.log_slot = b
      BY <1>1, <3>1 DEF ViewType
    <3>. QED BY <1>2, <2>1, <2>4, <2>5, <2>7, <3>2
  <2>. QED BY <2>6, <2>7
<1>. QED BY <1>3, <1>5, <1>6

LEMMA AdvancedWorker ==
  ASSUME StorageTypeOK, worker.scan_slot < LogBlocks + 2
  PROVE  LET e == Advanced(worker)
             k == worker.scan_slot + 1
         IN /\ e \in WorkerType /\ e.phase = IF k < LogBlocks + 2 THEN "SCAN_DATA" ELSE "DECIDE"
            /\ e.waiting = FALSE /\ e.request = worker.request /\ e.scan_slot = k
            /\ e.scan_failed = worker.scan_failed /\ k \in 0 .. LogBlocks + 2
<1>. DEFINE p == IF worker.scan_slot + 1 < LogBlocks + 2 THEN "SCAN_DATA" ELSE "DECIDE"
<1>1. worker \in WorkerType /\ worker.scan_slot \in 0 .. LogBlocks + 2 /\ LogBlocks \in Nat
  BY Types, Constants DEF WorkerType
<1>2. worker.scan_slot + 1 \in 0 .. LogBlocks + 2
  BY <1>1
<1>3. p \in Phases
  BY DEF Phases, ScanPhases
<1>4. LET e == Ended(worker, p)
      IN /\ e \in WorkerType /\ e.phase = p /\ e.waiting = FALSE /\ e.request = worker.request
         /\ e.scan_slot = worker.scan_slot /\ e.scan_failed = worker.scan_failed
  BY <1>1, <1>3, EndedWorker
<1>5. Advanced(worker) = [Ended(worker, p) EXCEPT !.scan_slot = @ + 1]
  BY DEF Advanced
<1>. HIDE DEF p
<1>6. LET e == Advanced(worker)
      IN /\ e \in WorkerType /\ e.phase = p /\ e.waiting = FALSE /\ e.request = worker.request
         /\ e.scan_slot = worker.scan_slot + 1 /\ e.scan_failed = worker.scan_failed
  BY <1>2, <1>4, <1>5 DEF WorkerType
<1>. QED BY <1>2, <1>6 DEF p

LEMMA ScanOfflineKeeps ==
  ASSUME StorageInv, ScanOffline
  PROVE  StorageInv'
<1>1. /\ StorageTypeOK /\ ScanInv /\ worker \in WorkerType /\ pool \in PoolType
      /\ view \in [Devices -> ViewType]
  BY DEF StorageInv, StorageTypeOK
<1>2. /\ Phase("SCAN_DATA") /\ ~view[Device].online /\ ~worker.waiting
      /\ worker' = [worker EXCEPT !.phase = "DECIDE"]
      /\ UNCHANGED <<flash, view, pool, kept>> /\ UNCHANGED falVars
  BY DEF ScanOffline, Service, falVars
<1>3. /\ worker' \in WorkerType /\ worker'.phase = "DECIDE" /\ worker'.waiting = FALSE
      /\ worker'.request = worker.request /\ worker'.scan_slot = worker.scan_slot
      /\ worker'.scan_failed = worker.scan_failed
  BY <1>1, <1>2 DEF WorkerType, ScanPhases
<1>4. Device' = Device
  BY <1>3 DEF Device
<1>5. ScanInv'
  BY <1>1, <1>2, <1>3, <1>4 DEF ScanInv, Phase, ScanPhases
<1>6. SaveInv' /\ LogInv' /\ CommitInv' /\ TestInv' /\ FinishInv'
  BY <1>3 DEF SaveInv, LogInv, CommitInv, TestInv, FinishInv, Phase, Writing, WritePhases
<1>7. \A d \in Devices : ~Busy(d)
  BY <1>2, AtRest
<1>. QED BY <1>1, <1>2, <1>3, <1>5, <1>6, <1>7, ServiceKeeps

(* The scan goes on to the next slot, or ends.                             *)
LEMMA ScanOn ==
  ASSUME StorageInv, worker.phase \in {"SCAN_DATA", "SCAN_COMMIT"}, worker.waiting,
         NEW failed \in BOOLEAN, NEW v \in ViewType,
         worker' = [Advanced(worker) EXCEPT !.scan_failed = failed],
         view' = [view EXCEPT ![Device] = v], UNCHANGED <<flash, pool, kept>>,
         UNCHANGED falVars \/ (\E d \in Devices : Mount(d) \/ MountFails(d)),
         ~Busy(Device), failed \/ (v = Learnt /\ v.online = view[Device].online /\ ~worker.scan_failed)
  PROVE  StorageInv'
<1>1. /\ StorageTypeOK /\ ScanInv /\ worker \in WorkerType /\ pool \in PoolType
      /\ view \in [Devices -> ViewType] /\ Device \in Devices
  BY Types DEF StorageInv, StorageTypeOK
<1>2. worker.scan_slot < LogBlocks + 2 /\ worker.request.command \notin {"TEST", "DEFAULTS"}
  BY <1>1 DEF ScanInv, ScanPhases, Phase
<1>. DEFINE k == worker.scan_slot + 1
<1>3. /\ worker' \in WorkerType /\ worker'.waiting = FALSE /\ worker'.request = worker.request
      /\ worker'.phase = (IF k < LogBlocks + 2 THEN "SCAN_DATA" ELSE "DECIDE")
      /\ worker'.scan_slot = k /\ worker'.scan_failed = failed /\ k \in 0 .. LogBlocks + 2
  BY <1>1, <1>2, AdvancedWorker DEF WorkerType
<1>4. Device' = Device /\ view'[Device] = v /\ view' \in [Devices -> ViewType]
  BY <1>1, <1>3 DEF Device
<1>5. worker'.phase \in {"SCAN_DATA", "DECIDE"}
  BY <1>3
<1>6. SaveInv' /\ LogInv' /\ CommitInv' /\ TestInv' /\ FinishInv'
  BY <1>5 DEF SaveInv, LogInv, CommitInv, TestInv, FinishInv, Phase, Writing, WritePhases
<1>7. k < LogBlocks + 2 \/ k = LogBlocks + 2
  BY <1>3, Constants
<1>8. ScanInv'
  <2>1. CASE failed
    BY <1>2, <1>3, <2>1 DEF ScanInv, Phase
  <2>2. CASE ~failed
    <3>1. v = Learnt /\ v.online = view[Device].online /\ ~worker.scan_failed
      BY <2>2
    <3>2. view[Device].online
      BY <1>1, <3>1 DEF ScanInv, ScanPhases, Phase
    <3>3. /\ Seen(ParamRing(flash[Device]), Smaller(k, 2), v.sequence, v.active_slot)
          /\ v.valid <=> v.sequence # 0
          /\ v.valid => v.recovered = ParamRing(flash[Device])[v.active_slot].params
          /\ Seen(LogRing(flash[Device]), IF k < 2 THEN 0 ELSE k - 2, v.log_sequence, v.log_slot)
          /\ v.log_sequence = 0 => v.log_slot = LogBlocks - 1
      BY <3>1, Learns
    <3>. HIDE DEF k
    <3>4. Phase("DECIDE")' => k = LogBlocks + 2
      BY <1>3, <1>7 DEF Phase
    <3>5. (Phase("SCAN_DATA") \/ Phase("SCAN_COMMIT"))' => k < LogBlocks + 2
      BY <1>3, <1>7 DEF Phase
    <3>6. ~Phase("SCAN_COMMIT")'
      BY <1>5 DEF Phase
    <3>. QED BY <1>2, <1>3, <1>4, <3>1, <3>2, <3>3, <3>4, <3>5, <3>6 DEF ScanInv
  <2>. QED BY <2>1, <2>2
<1>9. \A d \in Devices : ~Busy(d)
  BY AtRest DEF Transferred
<1>. QED BY <1>1, <1>3, <1>4, <1>6, <1>8, <1>9, ServiceKeeps

LEMMA ScanDataKeeps ==
  ASSUME StorageInv, ScanData
  PROVE  StorageInv'
<1>1. /\ StorageTypeOK /\ ScanInv /\ worker \in WorkerType /\ pool \in PoolType
      /\ view \in [Devices -> ViewType] /\ Device \in Devices /\ view[Device] \in ViewType
  BY Types DEF StorageInv, StorageTypeOK
<1>2. /\ worker.phase = "SCAN_DATA" /\ worker.waiting /\ ~Busy(Device)
      /\ UNCHANGED <<flash, view, pool, kept>> /\ UNCHANGED falVars
  BY DEF ScanData, Service, falVars, Phase, Transferred
<1>3. worker.scan_slot < LogBlocks + 2
  BY <1>1, <1>2 DEF ScanInv, ScanPhases, Phase
<1>4. CASE DataValid(Page(ScanZone, ScanOffset), ScanKind)
  <2>1. worker' = Ended(worker, "SCAN_COMMIT")
    BY <1>4 DEF ScanData
  <2>2. /\ worker' \in WorkerType /\ worker'.phase = "SCAN_COMMIT" /\ worker'.waiting = FALSE
        /\ worker'.request = worker.request /\ worker'.scan_slot = worker.scan_slot
        /\ worker'.scan_failed = worker.scan_failed
    BY <1>1, <2>1, EndedWorker DEF Phases, ScanPhases
  <2>3. Device' = Device
    BY <2>2 DEF Device
  <2>4. ScanInv'
    BY <1>1, <1>2, <1>4, <2>2, <2>3 DEF ScanInv, Phase, ScanPhases, Page, ScanZone, ScanOffset, ScanKind
  <2>5. SaveInv' /\ LogInv' /\ CommitInv' /\ TestInv' /\ FinishInv'
    BY <2>2 DEF SaveInv, LogInv, CommitInv, TestInv, FinishInv, Phase, Writing, WritePhases
  <2>6. \A d \in Devices : ~Busy(d)
    BY <1>2, AtRest DEF Transferred
  <2>. QED BY <1>1, <1>2, <2>2, <2>4, <2>5, <2>6, ServiceKeeps
<1>5. CASE ~DataValid(Page(ScanZone, ScanOffset), ScanKind)
  <2>1. worker' = Advanced(worker) /\ worker.scan_failed \in BOOLEAN
    BY <1>1, <1>5 DEF ScanData, WorkerType
  <2>2. worker' = [Advanced(worker) EXCEPT !.scan_failed = worker.scan_failed]
    <3>1. Advanced(worker) \in WorkerType /\ Advanced(worker).scan_failed = worker.scan_failed
      BY <1>1, <1>3, AdvancedWorker
    <3>. QED BY <2>1, <3>1 DEF WorkerType
  <2>3. Found = NONE
    BY <1>1, <1>3, <1>5, FoundFacts
  <2>4. Learnt = view[Device] /\ view' = [view EXCEPT ![Device] = view[Device]]
    BY <1>1, <1>2, <2>3 DEF Learnt
  <2>. QED BY <1>1, <1>2, <2>1, <2>2, <2>4, ScanOn
<1>. QED BY <1>4, <1>5

LEMMA ScanCommitKeeps ==
  ASSUME StorageInv, ScanCommit
  PROVE  StorageInv'
<1>. DEFINE data == Page(ScanZone, ScanOffset)
            commit == Page(ScanZone, ScanOffset + 1)
<1>1. /\ StorageTypeOK /\ ScanInv /\ worker \in WorkerType /\ pool \in PoolType
      /\ view \in [Devices -> ViewType] /\ Device \in Devices /\ view[Device] \in ViewType
  BY Types DEF StorageInv, StorageTypeOK
<1>2. /\ worker.phase = "SCAN_COMMIT" /\ worker.waiting /\ ~Busy(Device)
      /\ UNCHANGED <<flash, pool, kept>> /\ UNCHANGED falVars /\ worker' = Advanced(worker)
      /\ view' = IF Matches(data, commit)
                 THEN [view EXCEPT ![Device] = Adopted(@, worker.scan_slot, data)] ELSE view
  BY DEF ScanCommit, Service, falVars, Phase, Transferred
<1>3. worker.scan_slot < LogBlocks + 2 /\ DataValid(data, ScanKind)
  BY <1>1, <1>2 DEF ScanInv, ScanPhases, Phase
<1>4. /\ Found # NONE <=> Matches(data, commit)
      /\ Found # NONE => Found = data
      /\ data \in Pages /\ (worker.scan_slot \in ParamSlots \/ worker.scan_slot - 2 \in LogSlots)
  BY <1>1, <1>3, FoundFacts
<1>. HIDE DEF data, commit
<1>5. /\ Learnt \in ViewType /\ Learnt.online = view[Device].online
      /\ view' = [view EXCEPT ![Device] = Learnt]
  <2>1. CASE Found = NONE
    BY <1>1, <1>2, <1>4, <2>1 DEF Learnt
  <2>2. CASE Found # NONE
    <3>1. Learnt = Adopted(view[Device], worker.scan_slot, data)
      BY <1>4, <2>2 DEF Learnt
    <3>2. Learnt \in ViewType /\ Learnt.online = view[Device].online
      BY <1>1, <1>4, <3>1, AdoptedType
    <3>. QED BY <1>1, <1>2, <1>4, <2>2, <3>1, <3>2
  <2>. QED BY <2>1, <2>2
<1>6. worker' = [Advanced(worker) EXCEPT !.scan_failed = worker.scan_failed]
      /\ worker.scan_failed \in BOOLEAN
  <2>1. Advanced(worker) \in WorkerType /\ Advanced(worker).scan_failed = worker.scan_failed
    BY <1>1, <1>3, AdvancedWorker
  <2>. QED BY <1>1, <1>2, <2>1 DEF WorkerType
<1>. QED BY <1>2, <1>5, <1>6, ScanOn

LEMMA ScanErrorKeeps ==
  ASSUME StorageInv, ScanError
  PROVE  StorageInv'
<1>1. /\ worker.phase \in {"SCAN_DATA", "SCAN_COMMIT"} /\ worker.waiting /\ ~Busy(Device)
      /\ worker' = [Advanced(worker) EXCEPT !.scan_failed = TRUE] /\ UNCHANGED <<pool, kept>>
      /\ Mount(Device) \/ MountFails(Device)
  BY DEF ScanError, Phase, Transferred, Service
<1>2. Device \in Devices /\ view \in [Devices -> ViewType] /\ view[Device] \in ViewType
  BY Types DEF StorageInv, StorageTypeOK
<1>3. UNCHANGED flash
  BY <1>1 DEF Mount, MountFails
<1>4. PICK o \in BOOLEAN : view' = [view EXCEPT ![Device].online = o]
  BY DEF ScanError
<1>5. [view[Device] EXCEPT !.online = o] \in ViewType
  BY <1>2 DEF ViewType
<1>6. view' = [view EXCEPT ![Device] = [view[Device] EXCEPT !.online = o]]
  BY <1>2, <1>4
<1>. QED BY <1>1, <1>2, <1>3, <1>5, <1>6, ScanOn
----------------------------------------------------------------------------
(* The decision.                                                           *)

LEMMA BootDecideKeeps ==
  ASSUME StorageInv, BootDecide
  PROVE  StorageInv'
<1>1. /\ StorageTypeOK /\ ScanInv /\ worker \in WorkerType /\ worker.request \in RequestType
      /\ pool \in PoolType /\ view \in [Devices -> ViewType] /\ 0 \in Devices /\ 1 \in Devices
      /\ view[0] \in ViewType /\ view[1] \in ViewType
      /\ LogBlocks \in Nat \ {0} /\ 0 \in Sequences /\ LogBlocks - 1 \in LogSlots
      /\ 0 \in 0 .. LogBlocks + 2
  BY Types, Constants DEF StorageInv, StorageTypeOK, Sequences, LogSlots
<1>2. /\ worker.phase = "DECIDE" /\ worker.booting /\ UNCHANGED <<flash, pool, kept>>
      /\ UNCHANGED falVars
  BY DEF BootDecide, Service, falVars, Phase
<1>3. ~worker.waiting
  BY <1>2, WaitingPhases DEF WritePhases
<1>4. \A d \in Devices : ~Busy(d)
  BY <1>3, AtRest
<1>5. worker.request.command \notin {"TEST", "DEFAULTS"}
  BY <1>1, <1>2 DEF ScanInv, ScanPhases
<1>6. worker.waiting = FALSE
  BY <1>1, <1>3 DEF WorkerType
<1>7. CASE /\ worker' = [Scanning(worker) EXCEPT !.request.device = 1]
           /\ view' = [view EXCEPT ![1] = ScanBegun(@)]
  <2>. DEFINE w == Scanning(worker)
  <2>1. /\ w \in WorkerType /\ w.phase = "SCAN_DATA" /\ w.scan_slot = 0 /\ w.waiting = FALSE
        /\ w.request = worker.request
    BY <1>1, <1>6 DEF Scanning, WorkerType, ScanPhases
  <2>. HIDE DEF w
  <2>2. [worker.request EXCEPT !.device = 1] \in RequestType
        /\ [worker.request EXCEPT !.device = 1].command = worker.request.command
        /\ [worker.request EXCEPT !.device = 1].device = 1
    BY <1>1 DEF RequestType
  <2>3. worker' = [w EXCEPT !.request = [worker.request EXCEPT !.device = 1]]
    BY <1>7, <2>1 DEF w
  <2>4. /\ worker' \in WorkerType /\ worker'.phase = "SCAN_DATA" /\ worker'.scan_slot = 0
        /\ worker'.waiting = FALSE /\ worker'.request.device = 1
        /\ worker'.request.command \notin {"TEST", "DEFAULTS"}
    BY <1>5, <2>1, <2>2, <2>3 DEF WorkerType
  <2>5. ScanBegun(view[1]) \in ViewType
    BY <1>1 DEF ScanBegun, ViewType
  <2>6. view' \in [Devices -> ViewType] /\ view'[1] = ScanBegun(view[1])
    BY <1>1, <1>7, <2>5
  <2>7. /\ view'[1].valid = FALSE /\ view'[1].sequence = 0
        /\ view'[1].log_sequence = 0 /\ view'[1].log_slot = LogBlocks - 1
    BY <1>1, <2>6 DEF ScanBegun, ViewType
  <2>8. Device' = 1
    BY <2>4 DEF Device
  <2>9. ScanInv'
    <3>1. \A ring, slot : Seen(ring, 0, 0, slot)
      BY DEF Seen
    <3>2. Smaller(0, 2) = 0 /\ 0 < LogBlocks + 2
      BY <1>1 DEF Smaller
    <3>. QED BY <2>4, <2>7, <2>8, <3>1, <3>2 DEF ScanInv, Phase
  <2>10. SaveInv' /\ LogInv' /\ CommitInv' /\ TestInv' /\ FinishInv'
    BY <2>4 DEF SaveInv, LogInv, CommitInv, TestInv, FinishInv, Phase, Writing, WritePhases
  <2>. QED BY <1>1, <1>2, <1>4, <2>4, <2>6, <2>9, <2>10, ServiceKeeps
<1>8. CASE /\ worker' = [worker EXCEPT !.phase = "FINISH", !.request.device = 0,
                                       !.restore = view[0].valid]
           /\ UNCHANGED view
  <2>1. [worker.request EXCEPT !.device = 0] \in RequestType
    BY <1>1 DEF RequestType
  <2>2. view[0].valid \in BOOLEAN
    BY <1>1 DEF ViewType
  <2>3. worker' = [worker EXCEPT !.phase = "FINISH",
                                 !.request = [worker.request EXCEPT !.device = 0],
                                 !.restore = view[0].valid]
    BY <1>1, <1>8
  <2>4. /\ worker' \in WorkerType /\ worker'.phase = "FINISH" /\ worker'.waiting = FALSE
        /\ worker'.booting
    BY <1>1, <1>2, <1>6, <2>1, <2>2, <2>3 DEF WorkerType
  <2>5. ScanInv' /\ SaveInv' /\ LogInv' /\ CommitInv' /\ TestInv' /\ FinishInv'
    BY <2>4 DEF ScanInv, SaveInv, LogInv, CommitInv, TestInv, FinishInv, Phase, Writing, WritePhases,
       ScanPhases
  <2>. QED BY <1>1, <1>2, <1>4, <1>8, <2>4, <2>5, ServiceKeeps
<1>. QED BY <1>7, <1>8 DEF BootDecide

(* A complete scan without a failure knows both rings.                     *)
LEMMA ScanComplete ==
  ASSUME StorageInv, Phase("DECIDE"), ~worker.scan_failed, view[Device].online \/ view[Device].valid
  PROVE  LET v == view[Device]
             params == ParamRing(flash[Device])
             log == LogRing(flash[Device])
         IN /\ IF v.valid
               THEN /\ params[ParamHead] # NONE /\ params[ParamHead].sequence = v.sequence
                    /\ v.recovered = params[ParamHead].params
                    /\ Stored(Device) = params[ParamHead]
               ELSE v.sequence = 0
            /\ Ordered(params, 2, Held(params, ParamHead), ParamHead, v.sequence)
            /\ Ordered(log, LogBlocks, kept[Device], v.log_slot, v.log_sequence)
<1>. DEFINE v == view[Device]
            cells == flash[Device]
            params == ParamRing(cells)
            log == LogRing(cells)
            k == worker.scan_slot
<1>1. /\ StorageTypeOK /\ Device \in Devices /\ cells \in CellsType /\ v \in ViewType
      /\ kept[Device] \in Seq(Pages) /\ LogBlocks \in Nat \ {0}
      /\ v.sequence \in Sequences /\ v.log_sequence \in Sequences /\ v.active_slot \in ParamSlots
  BY Types, Constants DEF StorageInv, ViewType
<1>2. /\ Seen(params, Smaller(k, 2), v.sequence, v.active_slot)
      /\ v.valid <=> v.sequence # 0
      /\ v.valid => v.recovered = params[v.active_slot].params
      /\ Seen(log, IF k < 2 THEN 0 ELSE k - 2, v.log_sequence, v.log_slot)
      /\ v.log_sequence = 0 => v.log_slot = LogBlocks - 1
      /\ IF v.online THEN k = LogBlocks + 2 ELSE k = 0
  BY DEF StorageInv, ScanInv, ScanPhases, Phase
<1>. HIDE DEF k
<1>3. k = LogBlocks + 2
  <2>. SUFFICES ASSUME ~v.online
                PROVE  FALSE
    BY <1>2
  <2>1. k = 0 /\ v.sequence # 0
    BY <1>2
  <2>2. Smaller(k, 2) = 0
    BY <2>1 DEF Smaller
  <2>3. v.active_slot \in 0 .. 0 - 1
    BY <1>2, <2>1, <2>2 DEF Seen
  <2>. QED BY <2>3
<1>4. Seen(params, 2, v.sequence, v.active_slot) /\ Seen(log, LogBlocks, v.log_sequence, v.log_slot)
  <2>1. Smaller(k, 2) = 2 /\ (IF k < 2 THEN 0 ELSE k - 2) = LogBlocks
    BY <1>1, <1>3 DEF Smaller
  <2>. QED BY <1>2, <2>1
<1>5. RingType(params, 2) /\ RingType(log, LogBlocks)
  BY <1>1, ParamRingFacts, LogRingFacts
<1>6. PICK h \in ParamSlots, n \in Sequences : Ordered(params, 2, Held(params, h), h, n)
  BY <1>1 DEF StorageInv, RingsInv, ParamsInOrder
<1>7. PICK hl \in LogSlots, nl \in Sequences : Ordered(log, LogBlocks, kept[Device], hl, nl)
  BY <1>1 DEF StorageInv, RingsInv, LogInOrder
<1>8. Held(params, h) \in Seq(Pages)
  BY <1>1, HeldFacts
<1>9. IF v.sequence = 0
      THEN Held(params, h) = << >> /\ Ordered(params, 2, Held(params, h), 2 - 1, 0)
           /\ \A b \in 0 .. 2 - 1 : params[b] = NONE
      ELSE v.active_slot = h /\ v.sequence = n /\ params[v.active_slot] # NONE
  BY <1>1, <1>4, <1>5, <1>6, <1>8, SeenAll
<1>10. IF v.log_sequence = 0
       THEN kept[Device] = << >> /\ Ordered(log, LogBlocks, kept[Device], LogBlocks - 1, 0)
       ELSE v.log_slot = hl /\ v.log_sequence = nl
  BY <1>1, <1>4, <1>5, <1>7, SeenAll
<1>11. Ordered(log, LogBlocks, kept[Device], v.log_slot, v.log_sequence)
  BY <1>2, <1>7, <1>10
<1>12. CASE v.sequence = 0
  <2>1. ~v.valid /\ ParamHead = 1
    BY <1>2, <1>12 DEF ParamHead
  <2>2. Held(params, 1) = << >>
    BY <1>9, <1>12 DEF Held
  <2>3. Ordered(params, 2, Held(params, ParamHead), ParamHead, v.sequence)
    BY <1>9, <1>12, <2>1, <2>2
  <2>. QED BY <1>11, <1>12, <2>1, <2>3
<1>13. CASE v.sequence # 0
  <2>1. /\ v.valid /\ ParamHead = h /\ v.active_slot = h /\ params[h] # NONE /\ v.sequence = n
    BY <1>2, <1>9, <1>13 DEF ParamHead
  <2>2. params[h].sequence = n
    BY <1>4, <1>13, <2>1 DEF Seen
  <2>3. Stored(Device) = params[h]
    <3>1. ParamRecords(cells) = {params[b] : b \in 0 .. 2 - 1} \ {NONE}
      BY <1>1, ParamRingFacts
    <3>. HIDE DEF params
    <3>2. Newest(ParamRecords(cells)) = params[h]
      BY <1>5, <1>6, <1>8, <2>1, <3>1, NewestIsHead
    <3>. QED BY <3>2 DEF Stored
  <2>. QED BY <1>2, <1>6, <1>11, <2>1, <2>2, <2>3
<1>. QED BY <1>12, <1>13

LEMMA DecideKeeps ==
  ASSUME StorageInv, Decide
  PROVE  StorageInv'
<1>. DEFINE v == view[Device]
            c == worker.request.command
            u == Unwritable(worker, v)
<1>1. /\ StorageTypeOK /\ ScanInv /\ worker \in WorkerType /\ worker.request \in RequestType
      /\ pool \in PoolType /\ view \in [Devices -> ViewType] /\ Device \in Devices /\ v \in ViewType
      /\ flash[Device] \in CellsType
  BY Types DEF StorageInv, StorageTypeOK
<1>2. /\ Phase("DECIDE") /\ worker.booting = FALSE /\ UNCHANGED <<flash, pool, kept, view>>
      /\ UNCHANGED falVars
  BY <1>1 DEF Decide, Service, falVars, WorkerType
<1>3. worker.waiting = FALSE
  BY <1>1, <1>2, WaitingPhases DEF WritePhases, Phase, WorkerType
<1>4. \A d \in Devices : ~Busy(d)
  BY <1>3, AtRest
<1>5. c \in {"SCAN", "SAVE", "LOAD", "LOG"}
  BY <1>1, <1>2 DEF ScanInv, ScanPhases, RequestType, Phase
<1>6. ASSUME NEW outcome \in Outcomes, NEW restore \in BOOLEAN,
             worker' = [Ends(worker, outcome) EXCEPT !.restore = restore],
             outcome = "OK" => c \in {"SCAN", "LOAD"},
             outcome = "OK" /\ c = "LOAD" => restore /\ v.valid
      PROVE  StorageInv'
  <2>1. LET e == Ended(worker, "FINISH")
        IN /\ e \in WorkerType /\ e.phase = "FINISH" /\ e.waiting = FALSE
           /\ e.request = worker.request /\ e.scan_failed = worker.scan_failed
           /\ e.booting = FALSE
    BY <1>1, <1>2, EndedWorker DEF Phases
  <2>2. /\ worker' \in WorkerType /\ worker'.phase = "FINISH" /\ worker'.waiting = FALSE
        /\ worker'.request = worker.request /\ worker'.scan_failed = worker.scan_failed
        /\ worker'.outcome = outcome /\ worker'.restore = restore
    BY <1>6, <2>1 DEF Ends, WorkerType
  <2>3. ScanInv' /\ SaveInv' /\ LogInv' /\ CommitInv' /\ TestInv'
    BY <2>2 DEF ScanInv, SaveInv, LogInv, CommitInv, TestInv, Phase, Writing, WritePhases, ScanPhases
  <2>4. outcome = "OK" /\ c = "LOAD" /\ ~worker.scan_failed => v.recovered = Stored(Device).params
    BY <1>2, <1>6, ScanComplete
  <2>5. Stored(Device)' = Stored(Device) /\ Device' = Device
    BY <1>2, <2>2 DEF Stored, Device
  <2>6. FinishInv'
    BY <1>2, <1>6, <2>2, <2>4, <2>5 DEF FinishInv, Phase, Device, Stored
  <2>. QED BY <1>1, <1>2, <1>4, <2>2, <2>3, <2>6, ServiceKeeps
<1>7. \A outcome \in Outcomes :
        Ends(worker, outcome) = [Ends(worker, outcome) EXCEPT !.restore = worker.restore]
  <2>. TAKE outcome \in Outcomes
  <2>1. Ended(worker, "FINISH") \in WorkerType /\ Ended(worker, "FINISH").restore = worker.restore
    BY <1>1, EndedWorker DEF Phases
  <2>2. Ends(worker, outcome) \in WorkerType /\ Ends(worker, outcome).restore = worker.restore
    BY <2>1 DEF Ends, WorkerType
  <2>. QED BY <2>2 DEF WorkerType
<1>8. worker.restore \in BOOLEAN /\ v.valid \in BOOLEAN
  BY <1>1 DEF WorkerType, ViewType
<1>9. CASE c = "SCAN"
  <2>1. PICK outcome \in {"OK", "OFFLINE"} : worker' = Ends(worker, outcome)
    BY <1>9 DEF Decide
  <2>2. outcome \in Outcomes
    BY DEF Outcomes
  <2>. QED BY <1>6, <1>7, <1>8, <1>9, <2>1, <2>2
<1>10. CASE c = "LOAD"
  <2>1. PICK outcome \in {"OK", "NO_RECORD", "OFFLINE"} :
          /\ worker' = [Ends(worker, outcome) EXCEPT !.restore = v.valid]
          /\ outcome = "OK" => v.valid
    BY <1>10 DEF Decide
  <2>2. outcome \in Outcomes
    BY DEF Outcomes
  <2>. QED BY <1>6, <1>8, <1>10, <2>1, <2>2
<1>11. CASE u # "OK" /\ c \in {"SAVE", "LOG"}
  <2>1. worker' = Ends(worker, u)
    BY <1>11 DEF Decide
  <2>2. u \in Outcomes
    BY DEF Outcomes, Unwritable
  <2>. QED BY <1>6, <1>7, <1>8, <1>11, <2>1, <2>2
<1>12. u = "OK" => v.online /\ ~worker.scan_failed
  BY DEF Unwritable
<1>. HIDE DEF u
(* The write begins, at the block after the newest record.                 *)
<1>13. ASSUME u = "OK", NEW zone \in Zones, NEW offset \in Nat, NEW sequence \in Sequences,
              worker' = [worker EXCEPT !.phase = "ERASE", !.target_zone = zone,
                           !.target_offset = offset, !.next_sequence = sequence],
              c \in {"SAVE", "LOG"},
              c = "SAVE" => /\ zone = ParamZone(Around(ParamHead, 2)) /\ offset = 0
                            /\ sequence = After(v.sequence),
              c = "LOG" => /\ zone = LogZone /\ offset = BlockCells * Around(v.log_slot, LogBlocks)
                           /\ sequence = After(v.log_sequence)
       PROVE  StorageInv'
  <2>1. /\ worker' \in WorkerType /\ worker'.phase = "ERASE" /\ worker'.waiting = FALSE
        /\ worker'.request = worker.request /\ worker'.booting = FALSE
        /\ worker'.target_zone = zone /\ worker'.target_offset = offset
        /\ worker'.next_sequence = sequence
    BY <1>1, <1>2, <1>3, <1>13 DEF WorkerType, WritePhases
  <2>2. /\ ScanInv' /\ CommitInv' /\ TestInv' /\ FinishInv'
    BY <1>13, <2>1 DEF ScanInv, CommitInv, TestInv, FinishInv, Phase, Writing, WritePhases, ScanPhases
  <2>3. Device' = Device /\ ParamHead' = ParamHead
    BY <1>2, <2>1 DEF Device, ParamHead
  <2>4. ~Phase("WRITE")' /\ ~Phase("VERIFY")' /\ ~Committing'
    BY <2>1 DEF Phase, Committing
  <2>5. /\ IF v.valid
           THEN /\ ParamRing(flash[Device])[ParamHead] # NONE
                /\ ParamRing(flash[Device])[ParamHead].sequence = v.sequence
           ELSE v.sequence = 0
        /\ Ordered(ParamRing(flash[Device]), 2, Held(ParamRing(flash[Device]), ParamHead), ParamHead,
                   v.sequence)
        /\ Ordered(LogRing(flash[Device]), LogBlocks, kept[Device], v.log_slot, v.log_sequence)
    BY <1>2, <1>12, <1>13, ScanComplete
  <2>6. SaveInv'
    BY <1>2, <1>13, <2>1, <2>3, <2>4, <2>5 DEF SaveInv, Writing, SaveShape, Writes
  <2>7. LogInv'
    BY <1>2, <1>13, <2>1, <2>3, <2>4, <2>5 DEF LogInv, Writing, LogShape, Writes
  <2>. QED BY <1>1, <1>2, <1>4, <2>1, <2>2, <2>6, <2>7, ServiceKeeps
<1>14. v.sequence \in Sequences /\ v.log_sequence \in Sequences /\ v.active_slot \in ParamSlots
       /\ v.log_slot \in LogSlots
  BY <1>1 DEF ViewType
<1>15. After(v.sequence) \in Sequences /\ After(v.log_sequence) \in Sequences
  <2>1. \A n \in 1 .. SequenceMod - 1 : n \in Sequences
    BY Constants DEF Sequences
  <2>. QED BY <1>14, <2>1, AfterFacts
<1>16. CASE u = "OK" /\ c = "SAVE"
  <2>1. worker' = [worker EXCEPT !.phase = "ERASE", !.target_zone = ParamZone(TargetSlot(v)),
                     !.target_offset = 0, !.next_sequence = After(v.sequence)]
    BY <1>16 DEF Decide, u
  <2>2. TargetSlot(v) = Around(ParamHead, 2)
    <3>1. v.active_slot = 0 \/ v.active_slot = 1
      BY <1>14 DEF ParamSlots
    <3>. QED BY <3>1 DEF TargetSlot, Around, ParamHead
  <2>3. ParamZone(TargetSlot(v)) \in Zones
    <3>1. TargetSlot(v) = 0 \/ TargetSlot(v) = 1
      BY <1>14 DEF TargetSlot, ParamSlots
    <3>. QED BY <3>1, Constants DEF ParamZone
  <2>. QED BY <1>13, <1>15, <1>16, <2>1, <2>2, <2>3
<1>17. CASE u = "OK" /\ c = "LOG"
  <2>. DEFINE offset == ((v.log_slot + 1) % LogBlocks) * BlockCells
  <2>1. worker' = [worker EXCEPT !.phase = "ERASE", !.target_zone = LogZone,
                     !.target_offset = offset, !.next_sequence = After(v.log_sequence)]
    BY <1>17 DEF Decide, u
  <2>2. /\ LogBlocks \in Nat \ {0} /\ BlockCells = 2 /\ LogZone \in Zones
        /\ v.log_slot \in 0 .. LogBlocks - 1
    BY <1>14, Constants DEF LogSlots, LogZone
  <2>3. (v.log_slot + 1) % LogBlocks = Around(v.log_slot, LogBlocks)
        /\ Around(v.log_slot, LogBlocks) \in Nat
    <3>. DEFINE x == v.log_slot
    <3>. HIDE DEF x
    <3>1. x + 1 = LogBlocks \/ (x + 1 < LogBlocks /\ x + 1 \in Nat /\ x \in Nat)
      BY <2>2 DEF x
    <3>2. LogBlocks % LogBlocks = 0
      BY <2>2, MultipleMod, 1 * LogBlocks = LogBlocks
    <3>3. x + 1 < LogBlocks => (x + 1) % LogBlocks = x + 1
      BY <2>2, <3>1, Modulo
    <3>. QED BY <2>2, <3>1, <3>2, <3>3 DEF Around, x
  <2>4. offset = BlockCells * Around(v.log_slot, LogBlocks) /\ offset \in Nat
    BY <2>2, <2>3
  <2>. HIDE DEF offset
  <2>. QED BY <1>13, <1>15, <1>17, <2>1, <2>2, <2>4
<1>. QED BY <1>5, <1>9, <1>10, <1>11, <1>16, <1>17
----------------------------------------------------------------------------
(* The write.                                                              *)

LEMMA TargetFacts ==
  ASSUME StorageInv, worker.phase \in WritePhases
  PROVE  /\ Target \in Addresses /\ Target \in Nat
         /\ worker.request.command # "TEST" => Target + 1 \in Addresses
         /\ Page(worker.target_zone, worker.target_offset) = flash[Device][Target]
         /\ Page(worker.target_zone, worker.target_offset + 1) = flash[Device][Target + 1]
<1>1. /\ StorageTypeOK /\ SaveInv /\ LogInv /\ TestInv /\ Device \in Devices
      /\ flash[Device] \in CellsType
      /\ worker.target_zone \in Zones /\ worker.target_offset \in Nat
  BY Types DEF StorageInv, WorkerType
<1>2. ZoneStart[worker.target_zone] \in Nat
  BY <1>1, Constants, FalAssumption DEF FalAssumption, Zones
<1>3. /\ Page(worker.target_zone, worker.target_offset) = flash[Device][Target]
      /\ Page(worker.target_zone, worker.target_offset + 1) = flash[Device][Target + 1]
  <2>1. Target = ZoneStart[worker.target_zone] + worker.target_offset
    BY DEF Target
  <2>2. ZoneStart[worker.target_zone] + (worker.target_offset + 1) = Target + 1
    BY <1>1, <1>2, <2>1
  <2>. QED BY <2>1, <2>2 DEF Page
<1>4. Target \in Addresses /\ (worker.request.command # "TEST" => Target + 1 \in Addresses)
  <2>1. CASE worker.request.command = "SAVE"
    BY <1>1, <2>1, ParamTarget DEF SaveInv, Writing
  <2>2. CASE worker.request.command = "LOG"
    BY <1>1, <2>2, LogTarget DEF LogInv, Writing
  <2>3. CASE worker.request.command = "TEST"
    <3>1. Target = ZoneStart[TestZone] + 1 /\ ZoneStart[TestZone] \in Nat
      BY <1>1, <2>3, TestTarget
    <3>2. ZoneStart[TestZone] + 4 = ZoneStart[LogZone] /\ ZoneStart[LogZone] \in Nat
          /\ ZoneStart[LogZone] + 2 * LogBlocks = Capacity /\ LogBlocks \in Nat
      BY Layout, Constants
    <3>. QED BY <2>3, <3>1, <3>2 DEF Addresses
  <2>. QED BY <1>1, <2>1, <2>2, <2>3 DEF TestInv
<1>. QED BY <1>3, <1>4, AddressesAreNat

(* A write goes on to its next phase.                                      *)
LEMMA WriteOn ==
  ASSUME StorageInv, worker.phase \in WritePhases, Transferred, UNCHANGED <<flash, pool, kept, view>>,
         UNCHANGED falVars, NEW phase \in WritePhases, worker' = Ended(worker, phase),
         phase \in {"WRITE", "VERIFY"} /\ worker.request.command # "TEST" =>
           flash[Device][Target + 1] = Erased,
         phase = "COMMIT" => /\ flash[Device][Target] = DataPage /\ Phase("VERIFY"),
         phase = "VERIFY_COMMIT" => Phase("COMMIT"),
         phase \in {"WRITE", "VERIFY"} => Phase("ERASE") \/ Phase("WRITE"),
         phase # "ERASE"
  PROVE  StorageInv'
<1>1. /\ StorageTypeOK /\ SaveInv /\ LogInv /\ TestInv /\ CommitInv /\ worker \in WorkerType
      /\ pool \in PoolType /\ view \in [Devices -> ViewType] /\ Device \in Devices
      /\ flash[Device] \in CellsType
  BY Types DEF StorageInv, StorageTypeOK
<1>2. /\ worker' \in WorkerType /\ worker'.phase = phase /\ worker'.waiting = FALSE
      /\ worker'.request = worker.request /\ worker'.booting = worker.booting
      /\ worker'.target_zone = worker.target_zone /\ worker'.target_offset = worker.target_offset
      /\ worker'.next_sequence = worker.next_sequence
  BY <1>1, EndedWorker DEF Phases
<1>3. \A d \in Devices : ~Busy(d)
  BY AtRest
<1>4. /\ Device' = Device /\ Target' = Target /\ ParamHead' = ParamHead
      /\ DataPage' = DataPage
  BY <1>2 DEF Device, Target, ParamHead, DataPage, Kind, Content
<1>5. phase = "COMMIT" /\ worker.request.command # "TEST" => flash[Device][Target + 1] = Erased
  <2>. SUFFICES ASSUME Phase("VERIFY"), worker.request.command # "TEST"
                PROVE  flash[Device][Target + 1] = Erased
    OBVIOUS
  <2>1. CASE worker.request.command = "SAVE"
    BY <1>1, <2>1 DEF SaveInv, Writing, SaveShape, Writes
  <2>2. CASE worker.request.command = "LOG"
    BY <1>1, <2>2 DEF LogInv, Writing, LogShape, Writes
  <2>. QED BY <1>1, <2>1, <2>2 DEF TestInv
<1>6. ASSUME NEW ring, NEW size, NEW before, NEW after, NEW h, NEW n,
             Writes(flash[Device], ring, size, before, after, h, n),
             worker.request.command # "TEST", phase = "COMMIT" => ring[Around(h, size)] = NONE
      PROVE  /\ worker.next_sequence = After(n)
             /\ phase \in {"WRITE", "VERIFY"} => flash[Device][Target + 1] = Erased
             /\ phase \in {"COMMIT", "VERIFY_COMMIT"} => flash[Device][Target] = DataPage
             /\ IF phase \in {"COMMIT", "VERIFY_COMMIT"} /\ ring[Around(h, size)] # NONE
                THEN Ordered(ring, size, after, Around(h, size), worker.next_sequence)
                ELSE Ordered(ring, size, before, h, n)
  <2>1. CASE phase \in {"WRITE", "VERIFY"}
    <3>1. ~Committing
      BY <2>1 DEF Committing, Phase
    <3>. QED BY <1>6, <2>1, <3>1 DEF Writes
  <2>2. CASE phase = "COMMIT"
    <3>1. ~Committing
      BY <2>2 DEF Committing, Phase
    <3>. QED BY <1>6, <2>2, <3>1 DEF Writes
  <2>3. CASE phase = "VERIFY_COMMIT"
    <3>1. Committing
      BY <2>3 DEF Committing, Phase
    <3>. QED BY <1>6, <2>3, <3>1 DEF Writes
  <2>. QED BY <2>1, <2>2, <2>3 DEF WritePhases
(* While the second page is erased, the block holds no record.             *)
<1>7. \A kind : flash[Device][Target + 1] = Erased => Entry(flash[Device], kind, Target) = NONE
  BY DEF Entry, Matches, Written
<1>8. SaveInv'
  <2>. SUFFICES ASSUME Writing("SAVE")
                PROVE  SaveShape(flash[Device])'
    BY <1>2 DEF SaveInv, Writing
  <2>. DEFINE ring == ParamRing(flash[Device])
              v == view[Device]
              s == Around(ParamHead, 2)
  <2>1. SaveShape(flash[Device]) /\ worker.request.command = "SAVE"
    BY <1>1 DEF SaveInv, Writing
  <2>2. s \in ParamSlots /\ Target = ParamBlock(s)
    BY <1>1, <2>1, ParamTarget
  <2>3. phase = "COMMIT" => ring[s] = NONE
    BY <1>1, <1>5, <1>7, <2>1, <2>2, ParamRingFacts
  <2>4. Writes(flash[Device], ring, 2, Held(ring, ParamHead), <<DataPage>>, ParamHead, v.sequence)
    BY <2>1 DEF SaveShape
  <2>. DEFINE before == Held(ring, ParamHead)
              after == <<DataPage>>
              h == ParamHead
              n == v.sequence
  <2>. HIDE DEF ring, before, after, h, n
  <2>5. /\ worker.next_sequence = After(n)
        /\ phase \in {"WRITE", "VERIFY"} => flash[Device][Target + 1] = Erased
        /\ phase \in {"COMMIT", "VERIFY_COMMIT"} => flash[Device][Target] = DataPage
        /\ IF phase \in {"COMMIT", "VERIFY_COMMIT"} /\ ring[Around(h, 2)] # NONE
           THEN Ordered(ring, 2, after, Around(h, 2), worker.next_sequence)
           ELSE Ordered(ring, 2, before, h, n)
    <3>1. Writes(flash[Device], ring, 2, before, after, h, n) /\ worker.request.command # "TEST"
          /\ (phase = "COMMIT" => ring[Around(h, 2)] = NONE)
      BY <2>1, <2>3, <2>4 DEF ring, before, after, h, n
    <3>. QED BY <1>6, <3>1
  <2>. USE DEF ring, before, after, h, n
  <2>. QED BY <1>2, <1>4, <2>1, <2>5 DEF SaveShape, Writes, Committing, Phase
<1>9. LogInv'
  <2>. SUFFICES ASSUME Writing("LOG")
                PROVE  LogShape(flash[Device], kept[Device])'
    BY <1>2 DEF LogInv, Writing
  <2>. DEFINE ring == LogRing(flash[Device])
              v == view[Device]
              s == Around(v.log_slot, LogBlocks)
  <2>1. LogShape(flash[Device], kept[Device]) /\ worker.request.command = "LOG"
    BY <1>1 DEF LogInv, Writing
  <2>2. s \in LogSlots /\ Target = LogBlock(s)
    BY <1>1, <2>1, LogTarget
  <2>3. phase = "COMMIT" => ring[s] = NONE
    BY <1>1, <1>5, <1>7, <2>1, <2>2, LogRingFacts
  <2>4. Writes(flash[Device], ring, LogBlocks, kept[Device], kept[Device], v.log_slot, v.log_sequence)
    BY <2>1 DEF LogShape
  <2>. DEFINE before == kept[Device]
              h == v.log_slot
              n == v.log_sequence
  <2>. HIDE DEF ring, before, h, n
  <2>5. /\ worker.next_sequence = After(n)
        /\ phase \in {"WRITE", "VERIFY"} => flash[Device][Target + 1] = Erased
        /\ phase \in {"COMMIT", "VERIFY_COMMIT"} => flash[Device][Target] = DataPage
        /\ IF phase \in {"COMMIT", "VERIFY_COMMIT"} /\ ring[Around(h, LogBlocks)] # NONE
           THEN Ordered(ring, LogBlocks, before, Around(h, LogBlocks), worker.next_sequence)
           ELSE Ordered(ring, LogBlocks, before, h, n)
    <3>1. Writes(flash[Device], ring, LogBlocks, before, before, h, n)
          /\ worker.request.command # "TEST"
          /\ (phase = "COMMIT" => ring[Around(h, LogBlocks)] = NONE)
      BY <2>1, <2>3, <2>4 DEF ring, before, h, n
    <3>. QED BY <1>6, <3>1
  <2>. USE DEF ring, before, h, n
  <2>. QED BY <1>2, <1>4, <2>1, <2>5 DEF LogShape, Writes, Committing, Phase
<1>10. CommitInv'
  BY <1>2, <1>4, <1>5 DEF CommitInv, Phase
<1>11. ScanInv' /\ FinishInv' /\ TestInv'
  BY <1>1, <1>2 DEF ScanInv, FinishInv, TestInv, Phase, ScanPhases, WritePhases
<1>. QED BY <1>1, <1>2, <1>3, <1>8, <1>9, <1>10, <1>11, ServiceKeeps

LEMMA WriteStepKeeps ==
  ASSUME StorageInv, WriteStep
  PROVE  StorageInv'
<1>1. /\ worker.phase \in {"ERASE", "WRITE", "COMMIT"} /\ Transferred /\ Succeeded
      /\ worker' = Ended(worker, NextPhase[worker.phase])
      /\ UNCHANGED <<flash, pool, kept, view>> /\ UNCHANGED falVars
  BY DEF WriteStep, NextPhase, Service, falVars
<1>2. worker.phase \in WritePhases /\ Device \in Devices
  BY <1>1, Types DEF WritePhases, StorageInv
<1>3. CASE worker.phase = "ERASE"
  <2>1. NextPhase[worker.phase] = "WRITE"
    BY <1>3 DEF NextPhase
  <2>2. worker.request.command # "TEST" => flash[Device][Target + 1] = Erased
    <3>. SUFFICES ASSUME worker.request.command # "TEST"
                  PROVE  flash[Device][Target + 1] = Erased
      OBVIOUS
    <3>1. /\ asked[Device] = Job("ERASE", Target, 2, << >>)
          /\ TookEffect(flash[Device], asked[Device])
      BY <1>1, <1>3, Constants DEF StorageInv, TransferInv, Transferred, JobOfPhase, Phase
    <3>2. Target + 1 \in Addresses /\ Target \in Nat
      BY <1>2, TargetFacts
    <3>3. asked[Device].kind = "ERASE" /\ asked[Device].first = Target /\ asked[Device].length = 2
      BY <3>1 DEF Job
    <3>4. Covers(asked[Device], Target + 1)
      BY <3>2, <3>3 DEF Covers
    <3>. QED BY <3>1, <3>2, <3>3, <3>4 DEF TookEffect, Holds
  <2>. QED BY <1>1, <1>2, <1>3, <2>1, <2>2, WriteOn DEF Phase, WritePhases
<1>4. CASE worker.phase = "WRITE"
  <2>1. NextPhase[worker.phase] = "VERIFY"
    BY <1>4 DEF NextPhase
  <2>2. worker.request.command # "TEST" => flash[Device][Target + 1] = Erased
    BY <1>4 DEF StorageInv, SaveInv, LogInv, TestInv, Writing, WritePhases, SaveShape, LogShape,
       Writes, Phase
  <2>. QED BY <1>1, <1>2, <1>4, <2>1, <2>2, WriteOn DEF Phase, WritePhases
<1>5. CASE worker.phase = "COMMIT"
  <2>1. NextPhase[worker.phase] = "VERIFY_COMMIT"
    BY <1>5 DEF NextPhase
  <2>. QED BY <1>1, <1>2, <1>5, <2>1, WriteOn DEF Phase, WritePhases
<1>. QED BY <1>1, <1>3, <1>4, <1>5

(* A step that ends the transaction.                                       *)
LEMMA EndsKeeps ==
  ASSUME StorageInv, worker.phase \in WritePhases, Transferred, UNCHANGED <<flash, pool, kept>>,
         UNCHANGED falVars, NEW outcome \in Outcomes, worker' = Ends(worker, outcome),
         view' \in [Devices -> ViewType],
         outcome = "OK" => LET r == worker.request
                           IN /\ r.command = "SAVE" => Stored(r.device).params = r.params
                              /\ r.command = "LOG" =>
                                   Newest(LogRecords(flash[r.device])).params = r.params
  PROVE  StorageInv'
<1>1. worker \in WorkerType /\ pool \in PoolType /\ TestInv
  BY DEF StorageInv, StorageTypeOK
<1>2. LET e == Ended(worker, "FINISH")
      IN e \in WorkerType /\ e.phase = "FINISH" /\ e.waiting = FALSE /\ e.request = worker.request
  BY <1>1, EndedWorker DEF Phases
<1>3. /\ worker' \in WorkerType /\ worker'.phase = "FINISH" /\ worker'.waiting = FALSE
      /\ worker'.request = worker.request /\ worker'.outcome = outcome
  BY <1>2 DEF Ends, WorkerType
<1>4. \A d \in Devices : ~Busy(d)
  BY AtRest
<1>5. ScanInv' /\ SaveInv' /\ LogInv' /\ CommitInv' /\ TestInv'
  BY <1>3 DEF ScanInv, SaveInv, LogInv, CommitInv, TestInv, Phase, Writing, WritePhases, ScanPhases
<1>6. worker.request.command \in {"SAVE", "LOG", "TEST"}
  BY <1>1 DEF TestInv
<1>7. FinishInv'
  BY <1>3, <1>6 DEF FinishInv, Stored
<1>. QED BY <1>1, <1>3, <1>4, <1>5, <1>7, ServiceKeeps

LEMMA VerifyKeeps ==
  ASSUME StorageInv, Verify
  PROVE  StorageInv'
<1>1. /\ Phase("VERIFY") /\ worker.phase \in WritePhases /\ Transferred
      /\ UNCHANGED <<flash, pool, kept, view>> /\ UNCHANGED falVars
  BY DEF Verify, Service, falVars, WritePhases, Phase
<1>2. CASE Page(worker.target_zone, worker.target_offset) = DataPage
  <2>1. worker' = Ended(worker, "COMMIT")
    BY <1>2 DEF Verify
  <2>2. flash[Device][Target] = DataPage
    BY <1>1, <1>2, TargetFacts
  <2>. QED BY <1>1, <2>1, <2>2, WriteOn DEF WritePhases
<1>3. CASE Page(worker.target_zone, worker.target_offset) # DataPage
  <2>1. worker' = Ends(worker, "MISMATCH") /\ "MISMATCH" \in Outcomes
    BY <1>3 DEF Verify, Outcomes
  <2>2. view' \in [Devices -> ViewType]
    BY <1>1 DEF StorageInv, StorageTypeOK
  <2>. QED BY <1>1, <2>1, <2>2, EndsKeeps
<1>. QED BY <1>2, <1>3

(* A record whose two pages were read back is the newest on its device.    *)
LEMMA Landed ==
  ASSUME StorageInv, Phase("VERIFY_COMMIT"),
         Page(worker.target_zone, worker.target_offset + 1) = CommitPage
  PROVE  /\ worker.request.command = "SAVE" =>
              /\ Stored(Device) = DataPage /\ Stored(Device).params = worker.request.params
              /\ flash[Device][Target] = DataPage
         /\ worker.request.command = "LOG" =>
              Newest(LogRecords(flash[Device])).params = worker.request.params
<1>. DEFINE cells == flash[Device]
<1>1. /\ StorageTypeOK /\ SaveInv /\ LogInv /\ Device \in Devices /\ cells \in CellsType
      /\ kept[Device] \in Seq(Pages) /\ worker.phase \in WritePhases /\ Committing
      /\ ~Phase("WRITE") /\ ~Phase("VERIFY")
  BY Types DEF StorageInv, WritePhases, Phase, Committing
<1>2. cells[Target + 1] = CommitPage /\ Target \in Addresses
  BY <1>1, TargetFacts
<1>3. DataPage \in Pages /\ DataPage # NONE /\ DataPage.params = Content
      /\ (worker.next_sequence # 0 => DataValid(DataPage, Kind) /\ Matches(DataPage, CommitPage))
  BY <1>1, PageTypes
<1>4. cells[Target] = DataPage /\ worker.next_sequence # 0 => Entry(cells, Kind, Target) = DataPage
  BY <1>2, <1>3 DEF Entry
<1>5. ASSUME worker.request.command = "SAVE"
      PROVE  /\ Stored(Device) = DataPage /\ Stored(Device).params = worker.request.params
             /\ cells[Target] = DataPage
  <2>. DEFINE ring == ParamRing(cells)
              s == Around(ParamHead, 2)
  <2>1. SaveShape(cells)
    BY <1>1, <1>5 DEF SaveInv, Writing
  <2>2. /\ s \in ParamSlots /\ Target = ParamBlock(s) /\ Kind = "params"
        /\ worker.next_sequence # 0
    BY <1>1, <1>5, <2>1, ParamTarget DEF Writing
  <2>3. Writes(cells, ring, 2, Held(ring, ParamHead), <<DataPage>>, ParamHead, view[Device].sequence)
    BY <2>1 DEF SaveShape
  <2>4. cells[Target] = DataPage
    BY <1>1, <2>3 DEF Writes
  <2>5. RingType(ring, 2) /\ ring[s] = DataPage
        /\ ParamRecords(cells) = {ring[b] : b \in 0 .. 2 - 1} \ {NONE}
    BY <1>1, <1>4, <2>2, <2>4, ParamRingFacts
  <2>. HIDE DEF ring, s
  <2>6. Ordered(ring, 2, <<DataPage>>, s, worker.next_sequence)
    BY <1>1, <1>3, <2>3, <2>5 DEF Writes, s
  <2>7. <<DataPage>> \in Seq(Pages)
    BY <1>3
  <2>8. Newest(ParamRecords(cells)) = DataPage
    BY <1>3, <2>5, <2>6, <2>7, NewestIsHead
  <2>9. Content = worker.request.params
    BY <1>5 DEF Content
  <2>. QED BY <1>3, <2>4, <2>8, <2>9 DEF Stored
<1>6. ASSUME worker.request.command = "LOG"
      PROVE  Newest(LogRecords(cells)).params = worker.request.params
  <2>. DEFINE ring == LogRing(cells)
              s == Around(view[Device].log_slot, LogBlocks)
  <2>1. LogShape(cells, kept[Device])
    BY <1>1, <1>6 DEF LogInv, Writing
  <2>2. /\ s \in LogSlots /\ Target = LogBlock(s) /\ Kind = "log"
        /\ worker.next_sequence # 0
    BY <1>1, <1>6, <2>1, LogTarget DEF Writing
  <2>3. Writes(cells, ring, LogBlocks, kept[Device], kept[Device], view[Device].log_slot,
               view[Device].log_sequence)
    BY <2>1 DEF LogShape
  <2>4. cells[Target] = DataPage
    BY <1>1, <2>3 DEF Writes
  <2>5. RingType(ring, LogBlocks) /\ ring[s] = DataPage
        /\ LogRecords(cells) = {ring[b] : b \in 0 .. LogBlocks - 1} \ {NONE}
    BY <1>1, <1>4, <2>2, <2>4, LogRingFacts
  <2>. HIDE DEF ring, s
  <2>6. Ordered(ring, LogBlocks, kept[Device], s, worker.next_sequence)
    BY <1>1, <1>3, <2>3, <2>5 DEF Writes, s
  <2>7. Newest(LogRecords(cells)) = DataPage
    BY <1>1, <1>3, <2>5, <2>6, NewestIsHead
  <2>8. Content = worker.request.params
    BY <1>6 DEF Content
  <2>. QED BY <1>3, <2>7, <2>8
<1>. QED BY <1>5, <1>6

LEMMA VerifyCommitKeeps ==
  ASSUME StorageInv, VerifyCommit
  PROVE  StorageInv'
<1>. DEFINE matches == Page(worker.target_zone, worker.target_offset + 1) = CommitPage
<1>1. /\ Phase("VERIFY_COMMIT") /\ worker.phase \in WritePhases /\ Transferred
      /\ UNCHANGED <<flash, pool, kept>> /\ UNCHANGED falVars
      /\ worker' = Ends(worker, IF matches THEN "OK" ELSE "MISMATCH")
  BY DEF VerifyCommit, Service, falVars, WritePhases, Phase
<1>2. view' \in [Devices -> ViewType]
  <2>1. /\ view \in [Devices -> ViewType] /\ worker.next_sequence \in Sequences /\ StorageTypeOK
        /\ Device \in Devices /\ view[Device] \in ViewType /\ flash[Device] \in CellsType
    BY Types DEF StorageInv, StorageTypeOK
  <2>2. CASE view' = view
    BY <2>1, <2>2
  <2>3. CASE /\ worker.request.command = "SAVE"
             /\ view' = [view EXCEPT ![Device].valid = TRUE,
                                     ![Device].sequence = worker.next_sequence,
                                     ![Device].active_slot = worker.target_zone - 1]
    <3>1. SaveShape(flash[Device])
      BY <1>1, <2>3 DEF StorageInv, SaveInv, Writing
    <3>2. /\ worker.target_zone = ParamZone(Around(ParamHead, 2))
          /\ Around(ParamHead, 2) \in ParamSlots
      BY <1>1, <2>1, <2>3, <3>1, ParamTarget DEF SaveShape, Writing
    <3>3. worker.target_zone - 1 \in ParamSlots
      BY <3>2 DEF ParamZone, ParamSlots
    <3>4. [view[Device] EXCEPT !.valid = TRUE, !.sequence = worker.next_sequence,
                               !.active_slot = worker.target_zone - 1] \in ViewType
      BY <2>1, <3>3 DEF ViewType
    <3>5. view' = [view EXCEPT ![Device] =
                     [view[Device] EXCEPT !.valid = TRUE, !.sequence = worker.next_sequence,
                                          !.active_slot = worker.target_zone - 1]]
      BY <2>1, <2>3
    <3>. QED BY <2>1, <3>4, <3>5
  <2>. QED BY <2>2, <2>3 DEF VerifyCommit
<1>3. CASE matches
  <2>1. worker' = Ends(worker, "OK") /\ "OK" \in Outcomes
    BY <1>1, <1>3 DEF Outcomes
  <2>2. /\ worker.request.command = "SAVE" => Stored(Device).params = worker.request.params
        /\ worker.request.command = "LOG" =>
             Newest(LogRecords(flash[Device])).params = worker.request.params
    BY <1>1, <1>3, Landed
  <2>. QED BY <1>1, <1>2, <2>1, <2>2, EndsKeeps DEF Device
<1>4. CASE ~matches
  <2>1. worker' = Ends(worker, "MISMATCH") /\ "MISMATCH" \in Outcomes
    BY <1>1, <1>4 DEF Outcomes
  <2>. QED BY <1>1, <1>2, <2>1, EndsKeeps
<1>. QED BY <1>3, <1>4

LEMMA WriteErrorKeeps ==
  ASSUME StorageInv, WriteError
  PROVE  StorageInv'
<1>1. /\ worker.phase \in WritePhases /\ Transferred
      /\ UNCHANGED <<flash, pool, kept>> /\ UNCHANGED falVars
      /\ worker' = Ends(worker, Instance.result)
      /\ view' = [view EXCEPT ![Device].online = FALSE]
  BY DEF WriteError, IoFails, Service, falVars, WritePhases
<1>2. Device \in Devices /\ view \in [Devices -> ViewType] /\ view[Device] \in ViewType
  BY Types DEF StorageInv, StorageTypeOK
<1>3. view' \in [Devices -> ViewType]
  BY <1>1, <1>2 DEF ViewType
<1>4. Instance.result \in Outcomes /\ Instance.result # "OK"
  <2>1. Instance \in Fals
    BY <1>2 DEF StorageInv, IInv, TypeOK, Instance
  <2>. QED BY <2>1 DEF Fals, Outcomes
<1>. QED BY <1>1, <1>3, <1>4, EndsKeeps

LEMMA FinishKeeps ==
  ASSUME StorageInv, Finish
  PROVE  StorageInv'
<1>1. /\ worker \in WorkerType /\ worker.request \in RequestType /\ pool \in PoolType
      /\ view \in [Devices -> ViewType] /\ Device \in Devices /\ view[Device] \in ViewType
  BY Types DEF StorageInv, StorageTypeOK
<1>2. /\ Phase("FINISH") /\ UNCHANGED <<flash, view, kept>> /\ UNCHANGED falVars
      /\ worker' = [worker EXCEPT !.phase = "IDLE", !.booting = FALSE]
  BY DEF Finish, falVars
<1>3. worker.waiting = FALSE
  BY <1>1, <1>2, WaitingPhases DEF WritePhases, Phase, WorkerType
<1>4. \A d \in Devices : ~Busy(d)
  BY <1>3, AtRest
<1>5. worker' \in WorkerType /\ worker'.phase = "IDLE" /\ worker'.waiting = FALSE
  BY <1>1, <1>2, <1>3 DEF WorkerType
<1>6. pool' \in PoolType
  <2>1. /\ view[Device].recovered \in Params /\ worker.outcome \in Outcomes
        /\ worker.request.id \in Sequences
    BY <1>1 DEF ViewType, WorkerType, RequestType
  <2>. QED BY <1>1, <2>1 DEF Finish, PoolType
<1>7. ScanInv' /\ SaveInv' /\ LogInv' /\ CommitInv' /\ TestInv' /\ FinishInv'
  BY <1>5 DEF ScanInv, SaveInv, LogInv, CommitInv, TestInv, FinishInv, Phase, Writing, WritePhases,
     ScanPhases
<1>. QED BY <1>1, <1>2, <1>4, <1>5, <1>6, <1>7, ServiceKeeps

LEMMA Stuttering ==
  ASSUME StorageInv, UNCHANGED vars
  PROVE  StorageInv'
<1>1. /\ IInv /\ StorageTypeOK /\ RingsInv /\ TransferInv /\ ScanInv
      /\ SaveInv /\ LogInv /\ CommitInv /\ TestInv /\ FinishInv
  BY DEF StorageInv
<1>2. UNCHANGED <<flash, chip, fal, asked, faults, pool, worker, view, kept, requests>>
  BY DEF vars, falVars
<1>3. IInv' /\ StorageTypeOK' /\ RingsInv'
  BY <1>1, <1>2 DEF IInv, TypeOK, DeviceInv, Busy, StorageTypeOK, RingsInv
<1>4. Device' = Device /\ Target' = Target
  BY <1>2 DEF Device, Target
<1>5. TransferInv'
  BY <1>1, <1>2, <1>4 DEF TransferInv, Busy, JobOfPhase, Phase, Instance, Succeeded, DataPage,
     CommitPage, Kind, Content
<1>6. ScanInv'
  BY <1>1, <1>2, <1>4 DEF ScanInv, Phase, Page, ScanZone, ScanOffset, ScanKind
<1>7. SaveInv' /\ LogInv'
  BY <1>1, <1>2, <1>4 DEF SaveInv, LogInv, Writing, SaveShape, LogShape, Writes, ParamHead,
     Committing, Phase, DataPage, Kind, Content
<1>8. CommitInv' /\ TestInv' /\ FinishInv'
  BY <1>1, <1>2, <1>4 DEF CommitInv, TestInv, FinishInv, Phase, Stored, Instance
<1>. QED BY <1>3, <1>5, <1>6, <1>7, <1>8 DEF StorageInv

LEMMA StorageStep == StorageInv /\ [Next]_vars => StorageInv'
<1>1. StorageInv /\ ServiceProcess => StorageInv'
  BY TakeKeeps, ScanSubmitKeeps, ScanOfflineKeeps, ScanDataKeeps, ScanCommitKeeps, ScanErrorKeeps,
     BootDecideKeeps, DecideKeeps, WriteSubmitKeeps, WriteStepKeeps, VerifyKeeps,
     VerifyCommitKeeps, WriteErrorKeeps, FinishKeeps DEF ServiceProcess
<1>. QED BY <1>1, BusinessKeeps, ResetKeeps, FalKeeps, ChipKeeps, Stuttering DEF Next
----------------------------------------------------------------------------
(* The two parameter slots are one register.                               *)

Acknowledged(d) ==
  IF Saving(d) THEN (IF view[d].valid THEN Slot(d) ELSE NONE) ELSE Stored(d)
Proposal(d) == IF Saving(d) THEN DataPage ELSE NONE

LEMMA RegisterSteps ==
  ASSUME NEW d \in Devices,
         \/ UNCHANGED <<Acknowledged(d), Stored(d), Proposal(d)>>
         \/ /\ Proposal(d) # NONE /\ Stored(d)' \in {Proposal(d), Acknowledged(d)}
            /\ UNCHANGED <<Acknowledged(d), Proposal(d)>>
         \/ /\ \/ Stored(d)' = Stored(d)
               \/ Proposal(d) # NONE /\ Stored(d)' \in {Proposal(d), Acknowledged(d)}
            /\ Acknowledged(d)' = Stored(d)' /\ Proposal(d)' = NONE
         \/ /\ Proposal(d) = NONE /\ UNCHANGED <<Acknowledged(d), Stored(d)>>
            /\ Proposal(d)' \in [part : {"data"}, kind : {"params"}, sequence : 1 .. SequenceMod - 1,
                                 params : Params]
  PROVE  Register(d)!Step
  BY DEF Acknowledged, Proposal, Register!Step, Register!Next, Register!Settle, Register!Restart,
     Register!Propose

LEMMA SaveOutcome ==
  ASSUME StorageTypeOK, NEW cells \in CellsType, SaveShape(cells), Writing("SAVE")
  PROVE  LET stored == Newest(ParamRecords(cells))
             v == view[Device]
             acknowledged == IF v.valid THEN cells[ParamBlock(v.active_slot)] ELSE NONE
         IN stored \in {DataPage, acknowledged} /\ (~Committing => stored = acknowledged)
<1>. DEFINE v == view[Device]
            h == ParamHead
            s == Around(h, 2)
            ring == ParamRing(cells)
            n == v.sequence
            acknowledged == IF v.valid THEN cells[ParamBlock(v.active_slot)] ELSE NONE
<1>1. /\ h \in ParamSlots /\ s \in ParamSlots /\ ParamSlots = 0 .. 2 - 1
  BY ParamTarget DEF ParamSlots
<1>2. /\ RingType(ring, 2) /\ ParamRecords(cells) = {ring[b] : b \in 0 .. 2 - 1} \ {NONE}
      /\ \A t \in ParamSlots : ring[t] # NONE => ring[t] = cells[ParamBlock(t)]
  BY ParamRingFacts
<1>3. /\ IF v.valid THEN ring[h] # NONE /\ h = v.active_slot ELSE n = 0
      /\ Writes(cells, ring, 2, Held(ring, h), <<DataPage>>, h, n)
  BY DEF SaveShape, ParamHead
<1>4. DataPage \in Pages /\ DataPage # NONE /\ <<DataPage>> \in Seq(Pages)
  <2>1. DataPage \in Pages /\ DataPage # NONE
    BY PageTypes
  <2>. QED BY <2>1
<1>5. Held(ring, h) \in Seq(Pages)
  BY <1>1, HeldFacts
<1>. HIDE DEF ring, h, n
<1>6. CASE Committing /\ ring[s] # NONE
  <2>1. Ordered(ring, 2, <<DataPage>>, s, worker.next_sequence)
    BY <1>3, <1>6 DEF Writes
  <2>2. ring[s] = DataPage
    <3>1. s \in 0 .. 2 - 1 /\ 2 \in Nat \ {0} /\ 0 \in 0 .. 2 - 1
      BY <1>1
    <3>2. Behind(s, 0, 2) = s
      BY <3>1, BehindFacts
    <3>3. \A r : Len(<<r>>) = 1 /\ <<r>>[Len(<<r>>) - 0] = r
      OBVIOUS
    <3>4. ring[Behind(s, 0, 2)] = <<DataPage>>[Len(<<DataPage>>) - 0]
      <4>1. 0 < Len(<<DataPage>>)
        BY <3>3
      <4>. QED BY <2>1, <3>1, <4>1 DEF Ordered
    <3>. QED BY <3>2, <3>3, <3>4
  <2>. HIDE DEF s
  <2>3. Newest(ParamRecords(cells)) = DataPage
    <3>1. /\ RingType(ring, 2) /\ ring[s] # NONE /\ <<DataPage>> \in Seq(Pages)
          /\ ParamRecords(cells) = {ring[b] : b \in 0 .. 2 - 1} \ {NONE}
      BY <1>2, <1>4, <1>6
    <3>2. Newest(ParamRecords(cells)) = ring[s]
      BY <2>1, <3>1, NewestIsHead
    <3>. QED BY <2>2, <3>2
  <2>. QED BY <1>6, <2>3
<1>7. CASE ~(Committing /\ ring[s] # NONE)
  <2>1. Ordered(ring, 2, Held(ring, h), h, n)
    BY <1>3, <1>7 DEF Writes
  <2>2. CASE v.valid
    <3>1. Newest(ParamRecords(cells)) = ring[h]
      BY <1>2, <1>3, <1>5, <2>1, <2>2, NewestIsHead
    <3>2. ring[h] = cells[ParamBlock(v.active_slot)]
      BY <1>1, <1>2, <1>3, <2>2
    <3>. QED BY <2>2, <3>1, <3>2
  <2>3. CASE ~v.valid
    <3>1. \A b \in 0 .. 2 - 1 : ring[b] = NONE
      <4>. SUFFICES ASSUME NEW b \in 0 .. 2 - 1, ring[b] # NONE
                    PROVE  FALSE
        OBVIOUS
      <4>1. n \in 1 .. SequenceMod - 1
        BY <1>2, <1>5, <2>1, Ages
      <4>. QED BY <1>3, <2>3, <4>1
    <3>2. ParamRecords(cells) = {}
      BY <1>2, <3>1
    <3>. QED BY <2>3, <3>2 DEF Newest
  <2>. QED BY <2>2, <2>3
<1>. QED BY <1>6, <1>7

(* Before and after a step.                                                *)
SaveSettles ==
  \A d \in Devices : Saving(d) =>
    /\ d = Device /\ Writing("SAVE")
    /\ Stored(d) \in {DataPage, Acknowledged(d)} /\ (~Committing => Stored(d) = Acknowledged(d))
    /\ DataPage \in [part : {"data"}, kind : {"params"}, sequence : 1 .. SequenceMod - 1,
                     params : Params]

LEMMA SavesSettle == StorageInv => SaveSettles
<1>. SUFFICES ASSUME StorageInv, NEW d \in Devices, Saving(d)
              PROVE  /\ d = Device /\ Writing("SAVE")
                     /\ Stored(d) \in {DataPage, Acknowledged(d)}
                     /\ ~Committing => Stored(d) = Acknowledged(d)
                     /\ DataPage \in [part : {"data"}, kind : {"params"},
                                      sequence : 1 .. SequenceMod - 1, params : Params]
  BY DEF SaveSettles
<1>1. d = Device /\ Writing("SAVE")
  BY DEF Saving, Writing, WritePhases
<1>2. StorageTypeOK /\ SaveShape(flash[Device]) /\ flash[Device] \in CellsType
  BY <1>1, Types DEF StorageInv, SaveInv
<1>3. Acknowledged(d) = IF view[Device].valid THEN flash[Device][ParamBlock(view[Device].active_slot)]
                        ELSE NONE
  BY <1>1 DEF Acknowledged, Slot, ParamBlock
<1>4. Stored(d) \in {DataPage, Acknowledged(d)} /\ (~Committing => Stored(d) = Acknowledged(d))
  BY <1>1, <1>2, <1>3, SaveOutcome DEF Stored
<1>5. /\ Kind = "params" /\ worker.next_sequence \in 1 .. SequenceMod - 1
  BY <1>1, <1>2, ParamTarget
<1>6. Content \in Params
  BY <1>2, Types, Constants DEF Content, RequestType
<1>. QED BY <1>1, <1>4, <1>5, <1>6 DEF DataPage, Record

(* A device at work changes the register only while it is written.         *)
LEMMA DeviceSettles ==
  ASSUME StorageInv, NEW d \in Devices, NEW after \in Interrupted(flash[d], chip[d].job)
  PROVE  LET stored == Newest(ParamRecords(after))
         IN /\ ~Saving(d) => stored = Stored(d)
            /\ Saving(d) => stored \in {DataPage, Acknowledged(d)}
            /\ Saving(d) /\ view[d].valid =>
                 after[ParamBlock(view[d].active_slot)] = flash[d][ParamBlock(view[d].active_slot)]
<1>1. /\ StorageTypeOK /\ TestInv /\ flash[d] \in CellsType /\ after \in CellsType
  BY Types, DiskStep DEF StorageInv
<1>2. ASSUME ~Saving(d)
      PROVE  Newest(ParamRecords(after)) = Stored(d)
  <2>1. CASE after = flash[d]
    BY <2>1 DEF Stored
  <2>2. CASE after # flash[d]
    <3>1. d = Device /\ worker.phase \in WritePhases
      BY <2>2, DiskStep DEF WritePhases
    <3>2. Writing("LOG") \/ Writing("TEST")
      BY <1>1, <1>2, <3>1 DEF TestInv, Saving, Writing, WritePhases
    <3>3. ParamRing(after) = ParamRing(flash[d])
      BY <3>1, <3>2, LogDisk, TestDisk
    <3>. QED BY <1>1, <3>3, SameRecords DEF Stored
  <2>. QED BY <2>1, <2>2
<1>3. ASSUME Saving(d)
      PROVE  /\ Newest(ParamRecords(after)) \in {DataPage, Acknowledged(d)}
             /\ view[d].valid =>
                  after[ParamBlock(view[d].active_slot)] = flash[d][ParamBlock(view[d].active_slot)]
  <2>1. d = Device /\ Writing("SAVE")
    BY <1>3 DEF Saving, Writing, WritePhases
  <2>2. SaveShape(after) /\ after[ParamBlock(ParamHead)] = flash[d][ParamBlock(ParamHead)]
    BY <2>1, SaveDisk
  <2>3. view[d].valid =>
          after[ParamBlock(view[d].active_slot)] = flash[d][ParamBlock(view[d].active_slot)]
    BY <2>1, <2>2 DEF ParamHead
  <2>4. Acknowledged(d) = IF view[d].valid THEN flash[d][ParamBlock(view[d].active_slot)] ELSE NONE
    BY <1>3 DEF Acknowledged, Slot, ParamBlock
  <2>5. Newest(ParamRecords(after)) \in
          {DataPage, IF view[d].valid THEN after[ParamBlock(view[d].active_slot)] ELSE NONE}
    BY <1>1, <2>1, <2>2, SaveOutcome
  <2>. QED BY <2>3, <2>4, <2>5
<1>. QED BY <1>2, <1>3

(* A step that neither begins nor ends a save, by what it does to flash.   *)
LEMMA SavesOn ==
  ASSUME NEW d \in Devices, UNCHANGED <<Saving(d), view>>, flash'[d] = flash[d],
         Saving(d) => UNCHANGED DataPage
  PROVE  Register(d)!Step
<1>1. Stored(d)' = Stored(d) /\ Slot(d)' = Slot(d)
  BY DEF Stored, Slot
<1>2. UNCHANGED <<Acknowledged(d), Stored(d), Proposal(d)>>
  BY <1>1 DEF Acknowledged, Proposal
<1>. QED BY <1>2, RegisterSteps

LEMMA NothingSaved ==
  ASSUME NEW d \in Devices, ~Saving(d), ~Saving(d)', flash'[d] = flash[d]
  PROVE  Register(d)!Step
<1>1. Stored(d)' = Stored(d)
  BY DEF Stored
<1>2. UNCHANGED <<Acknowledged(d), Stored(d), Proposal(d)>>
  BY <1>1 DEF Acknowledged, Proposal
<1>. QED BY <1>2, RegisterSteps

LEMMA SaveEnds ==
  ASSUME NEW d \in Devices, ~Saving(d)', flash'[d] = flash[d]
  PROVE  Register(d)!Step
<1>1. Stored(d)' = Stored(d)
  BY DEF Stored
<1>2. Acknowledged(d)' = Stored(d) /\ Proposal(d)' = NONE
  BY <1>1 DEF Acknowledged, Proposal
<1>. QED BY <1>1, <1>2, RegisterSteps

(* A device at work, alone or interrupted by a power loss.                 *)
LEMMA DeviceSaves ==
  ASSUME StorageInv, NEW d \in Devices, flash'[d] \in Interrupted(flash[d], chip[d].job),
         \/ UNCHANGED <<Saving(d), view, DataPage>>
         \/ ~Saving(d)'
  PROVE  Register(d)!Step
<1>1. /\ ~Saving(d) => Stored(d)' = Stored(d)
      /\ Saving(d) => Stored(d)' \in {DataPage, Acknowledged(d)}
      /\ Saving(d) /\ view[d].valid =>
           flash'[d][ParamBlock(view[d].active_slot)] = flash[d][ParamBlock(view[d].active_slot)]
  BY DeviceSettles DEF Stored
<1>2. Proposal(d) = IF Saving(d) THEN DataPage ELSE NONE
  BY DEF Proposal
<1>3. DataPage # NONE
  BY PageTypes DEF StorageInv
<1>4. CASE ~Saving(d)'
  <2>1. Acknowledged(d)' = Stored(d)' /\ Proposal(d)' = NONE
    BY <1>4 DEF Acknowledged, Proposal
  <2>2. Stored(d)' = Stored(d) \/ (Proposal(d) # NONE /\ Stored(d)' \in {Proposal(d), Acknowledged(d)})
    BY <1>1, <1>2, <1>3
  <2>. QED BY <2>1, <2>2, RegisterSteps
<1>5. CASE Saving(d) /\ UNCHANGED <<Saving(d), view, DataPage>>
  <2>1. Proposal(d)' = Proposal(d) /\ Proposal(d) # NONE
    BY <1>3, <1>5 DEF Proposal
  <2>2. Acknowledged(d)' = Acknowledged(d)
    BY <1>1, <1>5 DEF Acknowledged, Slot, ParamBlock
  <2>3. Stored(d)' \in {Proposal(d), Acknowledged(d)}
    BY <1>1, <1>2, <1>5
  <2>. QED BY <2>1, <2>2, <2>3, RegisterSteps
<1>6. CASE ~Saving(d) /\ UNCHANGED <<Saving(d), view, DataPage>>
  <2>1. UNCHANGED <<Acknowledged(d), Stored(d), Proposal(d)>>
    BY <1>1, <1>6 DEF Acknowledged, Proposal
  <2>. QED BY <2>1, RegisterSteps
<1>. QED BY <1>4, <1>5, <1>6

LEMMA SaveBegins ==
  ASSUME StorageInv, StorageInv', Decide, NEW d \in Devices, Saving(d)'
  PROVE  Register(d)!Step
<1>1. SaveSettles'
  BY SavesSettle, PTL
<1>2. /\ Stored(d)' \in {DataPage', Acknowledged(d)'}
      /\ ~Committing' => Stored(d)' = Acknowledged(d)'
      /\ DataPage' \in [part : {"data"}, kind : {"params"}, sequence : 1 .. SequenceMod - 1,
                        params : Params]
  BY <1>1 DEF SaveSettles
<1>3. ~Saving(d) /\ flash'[d] = flash[d]
  BY DEF Decide, Saving, Phase, falVars
<1>4. ~Committing'
  <2>1. worker.request.command \in {"SCAN", "SAVE", "LOAD", "LOG"}
    BY DEF Decide, StorageInv, ScanInv, StorageTypeOK, WorkerType, RequestType, ScanPhases, Phase
  <2>2. worker \in WorkerType /\ Phase("DECIDE")
    BY DEF Decide, StorageInv, StorageTypeOK
  <2>3. worker'.phase \in {"FINISH", "ERASE"}
    BY <2>1, <2>2 DEF Decide, Ends, Ended, WorkerType
  <2>. QED BY <2>3 DEF Committing, Phase
<1>5. Stored(d)' = Stored(d) /\ Acknowledged(d) = Stored(d) /\ Proposal(d) = NONE
      /\ Proposal(d)' = DataPage'
  BY <1>3 DEF Stored, Acknowledged, Proposal
<1>. QED BY <1>2, <1>4, <1>5, RegisterSteps

LEMMA ServiceReads == ServiceProcess => UNCHANGED flash
  BY DEF ServiceProcess, Take, ScanSubmit, ScanOffline, ScanData, ScanCommit, ScanError, BootDecide,
     Decide, WriteSubmit, WriteStep, Verify, VerifyCommit, WriteError, Finish, IoFails, Submits,
     Request, Mount, MountFails, falVars

(* Only a device at work, or the power it loses, changes its flash.        *)
LEMMA FlashMoves ==
  ASSUME StorageInv, [Next]_vars, NEW d \in Devices
  PROVE  flash'[d] \in Interrupted(flash[d], chip[d].job)
<1>. SUFFICES ASSUME flash' # flash
              PROVE  flash'[d] \in Interrupted(flash[d], chip[d].job)
  BY DEF Interrupted
<1>1. ASSUME NEW e \in Devices, ChipStep(e)
      PROVE  flash'[d] \in Interrupted(flash[d], chip[d].job)
  <2>1. flash \in [Devices -> CellsType] /\ flash[d] \in Interrupted(flash[d], chip[d].job)
        /\ Worked(flash[e], chip[e].job) \in Interrupted(flash[e], chip[e].job)
    BY DEF StorageInv, StorageTypeOK, Interrupted
  <2>2. \E cells \in Interrupted(flash[e], chip[e].job) : flash' = [flash EXCEPT ![e] = cells]
    BY <1>1, <2>1 DEF ChipStep, ChipDone, ChipFails
  <2>. QED BY <2>1, <2>2
<1>2. Reset => flash'[d] \in Interrupted(flash[d], chip[d].job)
  BY DEF Reset, PowerLoss
<1>3. \A e \in Devices : ~FalProcess(e)
  BY ProcessFacts DEF FalProcess, StorageInv
<1>4. ~Business /\ ~(UNCHANGED vars) /\ ~ServiceProcess
  BY ServiceReads DEF Business, Configure, RequestCommand, vars, falVars
<1>. QED BY <1>1, <1>2, <1>3, <1>4 DEF Next

LEMMA ServiceSaves ==
  ASSUME StorageInv, StorageInv', ServiceProcess, NEW d \in Devices
  PROVE  Register(d)!Step
<1>1. flash' = flash
  BY ServiceReads
<1>2. /\ worker \in WorkerType /\ worker.request \in RequestType /\ TestInv /\ Device \in Devices
  BY Types DEF StorageInv, StorageTypeOK
<1>3. CASE ~Saving(d)'
  BY <1>1, <1>3, SaveEnds
<1>4. CASE Saving(d)' /\ Decide
  BY <1>4, SaveBegins
<1>5. CASE WriteSubmit
  <2>1. worker' = [worker EXCEPT !.waiting = TRUE] /\ view' = view
    BY <1>5 DEF WriteSubmit, Submits
  <2>2. UNCHANGED <<Saving(d), view, DataPage>>
    BY <1>2, <2>1 DEF Saving, Device, DataPage, Kind, Content, WorkerType
  <2>. QED BY <1>1, <2>2, SavesOn
<1>6. CASE Saving(d)' /\ (WriteStep \/ Verify)
  <2>1. worker.phase \in WritePhases /\ view' = view
    BY <1>6 DEF WriteStep, Verify, NextPhase, Phase, WritePhases
  <2>2. PICK phase \in {"WRITE", "VERIFY", "VERIFY_COMMIT", "COMMIT"} : worker' = Ended(worker, phase)
    <3>1. CASE WriteStep
      BY <3>1 DEF WriteStep, NextPhase
    <3>2. CASE Verify
      <4>1. Ends(worker, "MISMATCH").phase = "FINISH"
        BY <1>2 DEF Ends, Ended, WorkerType
      <4>. QED BY <1>6, <3>2, <4>1 DEF Verify, Saving
    <3>. QED BY <1>6, <3>1, <3>2
  <2>3. /\ worker'.phase = phase /\ worker'.request = worker.request
        /\ worker'.booting = worker.booting /\ worker'.next_sequence = worker.next_sequence
    BY <1>2, <2>2 DEF Ended, WorkerType
  <2>4. UNCHANGED <<Saving(d), view, DataPage>>
    BY <2>1, <2>3 DEF Saving, Device, DataPage, Kind, Content, WritePhases
  <2>. QED BY <1>1, <2>4, SavesOn
<1>7. Take => ~Saving(d)'
  <2>. SUFFICES ASSUME Take
                PROVE  ~Saving(d)'
    OBVIOUS
  <2>. DEFINE r == pool.request
              w == [Idle EXCEPT !.request = r]
  <2>1. w.phase = "IDLE" /\ w.request = r
    BY DEF Idle
  <2>2. CASE worker'.phase \in {"FINISH", "SCAN_DATA"}
    BY <2>2 DEF Saving
  <2>3. CASE worker'.request.command = "TEST"
    BY <2>3 DEF Saving
  <2>4. \/ worker' = [Ended(w, "FINISH") EXCEPT !.restore = TRUE]
        \/ /\ r.command = "TEST"
           /\ worker' = IF view[r.device].online
                        THEN [Ended(w, "ERASE") EXCEPT !.target_zone = TestZone,
                                !.target_offset = BlockCells - 1, !.next_sequence = r.id]
                        ELSE Ends(w, "OFFLINE")
        \/ worker' = Scanning(w)
    BY DEF Take
  <2>5. \/ worker'.phase \in {"FINISH", "SCAN_DATA"}
        \/ worker'.request.command = "TEST"
    BY <2>4 DEF Idle, Ended, Ends, Scanning
  <2>. QED BY <2>2, <2>3, <2>5
<1>8. ScanSubmit \/ ScanOffline \/ ScanData \/ ScanCommit \/ ScanError => ~Saving(d)'
  <2>. SUFFICES ASSUME ScanSubmit \/ ScanOffline \/ ScanData \/ ScanCommit \/ ScanError
                PROVE  worker'.phase \in ScanPhases
    BY DEF Saving, ScanPhases
  <2>1. Advanced(worker).phase \in ScanPhases /\ [Advanced(worker) EXCEPT !.scan_failed = TRUE].phase \in ScanPhases
    BY <1>2 DEF Advanced, Ended, WorkerType, ScanPhases
  <2>2. CASE ScanSubmit
    BY <1>2, <2>2 DEF ScanSubmit, Submits, Phase, WorkerType, ScanPhases
  <2>3. CASE ScanOffline
    BY <1>2, <2>3 DEF ScanOffline, WorkerType, ScanPhases
  <2>4. CASE ScanData
    <3>1. Ended(worker, "SCAN_COMMIT").phase = "SCAN_COMMIT"
      BY <1>2 DEF Ended, WorkerType
    <3>. QED BY <2>1, <2>4, <3>1 DEF ScanData, ScanPhases
  <2>5. CASE ScanCommit
    BY <2>1, <2>5 DEF ScanCommit
  <2>6. CASE ScanError
    BY <2>1, <2>6 DEF ScanError
  <2>. QED BY <2>2, <2>3, <2>4, <2>5, <2>6
<1>9. BootDecide => ~Saving(d)'
  <2>. SUFFICES ASSUME BootDecide
                PROVE  worker'.booting = TRUE
    BY DEF Saving
  <2>. QED BY <1>2 DEF BootDecide, Scanning, WorkerType
<1>10. VerifyCommit \/ WriteError => ~Saving(d)'
  <2>1. \A outcome : Ends(worker, outcome).phase = "FINISH"
    BY <1>2 DEF Ends, Ended, WorkerType
  <2>. QED BY <2>1 DEF VerifyCommit, WriteError, IoFails, Saving
<1>11. Finish => ~Saving(d)'
  <2>1. Finish => worker'.phase = "IDLE"
    BY <1>2 DEF Finish, WorkerType
  <2>. QED BY <2>1 DEF Saving
<1>. QED BY <1>3, <1>4, <1>5, <1>6, <1>7, <1>8, <1>9, <1>10, <1>11 DEF ServiceProcess

LEMMA SavesStep ==
  ASSUME StorageInv, StorageInv', [Next]_vars, NEW d \in Devices
  PROVE  Register(d)!Step
<1>1. CASE ServiceProcess
  BY <1>1, ServiceSaves
<1>2. CASE UNCHANGED <<worker, view, flash>>
  <2>1. UNCHANGED <<Saving(d), view, DataPage>> /\ flash'[d] = flash[d]
    BY <1>2 DEF Saving, Device, DataPage, Kind, Content
  <2>. QED BY <2>1, SavesOn
<1>3. ASSUME NEW e \in Devices, ChipStep(e)
      PROVE  Register(d)!Step
  <2>1. UNCHANGED <<Saving(d), view, DataPage>>
    BY <1>3 DEF ChipStep, workerVars, Saving, Device, DataPage, Kind, Content
  <2>. QED BY <2>1, FlashMoves, DeviceSaves
<1>4. CASE Reset
  <2>1. ~Saving(d)'
    BY <1>4 DEF Reset, Booting, Scanning, Idle, Saving
  <2>. QED BY <2>1, FlashMoves, DeviceSaves
<1>5. ASSUME NEW e \in Devices, FalProcess(e)
      PROVE  UNCHANGED <<worker, view, flash>>
  <2>1. UNCHANGED flash
    BY <1>5, ProcessFacts DEF FalProcess, StorageInv
  <2>. QED BY <1>5, <2>1 DEF FalProcess, workerVars
<1>6. Business \/ UNCHANGED vars => UNCHANGED <<worker, view, flash>>
  BY DEF Business, Configure, RequestCommand, vars, falVars, workerVars
<1>. QED BY <1>1, <1>2, <1>3, <1>4, <1>5, <1>6 DEF Next

(* What is reported.                                                       *)
LEMMA ReportsStep ==
  ASSUME StorageInv, Finish, pool'.result = "OK", worker.booting = FALSE
  PROVE  LET r == worker.request
         IN /\ r.command = "SAVE" => Stored(r.device).params = r.params
            /\ r.command = "LOG" => Newest(LogRecords(flash[r.device])).params = r.params
            /\ r.command = "LOAD" /\ ~worker.scan_failed => pool'.params = Stored(r.device).params
<1>1. pool \in PoolType /\ Phase("FINISH")
  BY DEF StorageInv, StorageTypeOK, Finish
<1>2. /\ pool'.result = worker.outcome
      /\ pool'.params = IF worker.restore THEN view[Device].recovered ELSE pool.params
  BY <1>1 DEF Finish, PoolType
<1>. QED BY <1>1, <1>2 DEF StorageInv, FinishInv, Device

(* The entries of a log in order are in flash, the last of them newest.    *)
LEMMA KeptInOrder ==
  ASSUME NEW cells \in CellsType, NEW entries \in Seq(Pages), LogInOrder(cells, entries)
  PROVE  /\ \A i \in DOMAIN entries : entries[i] \in LogRecords(cells)
         /\ entries # << >> => Newest(LogRecords(cells)) = entries[Len(entries)]
<1>. DEFINE ring == LogRing(cells)
            count == Len(entries)
<1>1. PICK h \in LogSlots, n \in Sequences : Ordered(ring, LogBlocks, entries, h, n)
  BY DEF LogInOrder
<1>2. /\ RingType(ring, LogBlocks) /\ LogSlots = 0 .. LogBlocks - 1 /\ LogBlocks \in Nat \ {0}
      /\ LogRecords(cells) = {ring[b] : b \in 0 .. LogBlocks - 1} \ {NONE}
  BY LogRingFacts, Constants DEF LogSlots
<1>. HIDE DEF ring
<1>3. count \in Nat /\ count < LogBlocks /\ DOMAIN entries = 1 .. count
      /\ \A i \in 1 .. count : entries[i] \in Pages
  BY <1>1 DEF Ordered
<1>4. ASSUME NEW j \in 0 .. LogBlocks - 1, j < count
      PROVE  /\ ring[Behind(h, j, LogBlocks)] = entries[count - j]
             /\ Behind(h, j, LogBlocks) \in 0 .. LogBlocks - 1
  <2>1. ring[Behind(h, j, LogBlocks)] = entries[count - j]
    BY <1>1, <1>4 DEF Ordered
  <2>. QED BY <1>2, <2>1, BehindFacts
<1>5. ASSUME NEW i \in 1 .. count
      PROVE  entries[i] \in LogRecords(cells)
  <2>1. /\ count - i \in 0 .. LogBlocks - 1 /\ count - i < count
        /\ count - (count - i) = i
    BY <1>2, <1>3
  <2>2. \E b \in 0 .. LogBlocks - 1 : ring[b] = entries[i]
    BY <1>4, <2>1
  <2>3. entries[i] # NONE
    BY <1>3, Constants
  <2>. QED BY <1>2, <2>2, <2>3
<1>6. ASSUME entries # << >>
      PROVE  Newest(LogRecords(cells)) = entries[count]
  <2>1. count # 0
    BY <1>6
  <2>2. 0 \in 0 .. LogBlocks - 1 /\ 0 < count /\ count - 0 = count /\ count \in 1 .. count
    BY <1>2, <1>3, <2>1
  <2>3. Behind(h, 0, LogBlocks) = h
    BY <1>2, BehindFacts
  <2>4. ring[h] = entries[count] /\ ring[h] # NONE
    <3>1. ring[h] = entries[count]
      BY <1>4, <2>2, <2>3
    <3>. QED BY <1>3, <2>2, <3>1, Constants
  <2>5. Newest(LogRecords(cells)) = ring[h]
    BY <1>1, <1>2, <2>4, NewestIsHead
  <2>. QED BY <2>4, <2>5
<1>. QED BY <1>3, <1>5, <1>6

----------------------------------------------------------------------------
(* The theorems.                                                           *)

(* Both stores are in order, and the transaction is what flash and the     *)
(* instances make of it, for every zone layout, number of log blocks,      *)
(* sequence range and choice of failures: demo_storage_service_process     *)
(* with fal_process under it.                                              *)
THEOREM StorageInvariance == StorageSpec => []StorageInv
  BY StorageStart, StorageStep, PTL DEF StorageSpec

(* The last LogBlocks - 1 entries that became valid are in flash, and the  *)
(* newest is the one the scan would find, whatever fails or loses power.   *)
THEOREM LogIsKept == StorageSpec => []LogKept
<1>1. StorageInv => LogKept
  <2>. SUFFICES ASSUME StorageInv, NEW d \in Devices
                PROVE  /\ \A i \in DOMAIN kept[d] : kept[d][i] \in LogRecords(flash[d])
                       /\ kept[d] # << >> => Newest(LogRecords(flash[d])) = kept[d][Len(kept[d])]
    BY DEF LogKept
  <2>1. /\ flash[d] \in CellsType /\ kept[d] \in Seq(Pages) /\ LogInOrder(flash[d], kept[d])
    BY Types DEF StorageInv, RingsInv
  <2>. QED BY <2>1, KeptInOrder
<1>. QED BY <1>1, StorageInvariance, PTL

(* The two parameter slots of a device are one durable register: every     *)
(* step of the store, a failed operation and a power loss included, is a   *)
(* step of DurableRegister or leaves it alone.                             *)
THEOREM SavesHold == StorageSpec => SavesAreAtomic
<1>1. StorageInv /\ StorageInv' /\ [Next]_vars => [\A d \in Devices : Register(d)!Step]_vars
  BY SavesStep
<1>. QED BY <1>1, StorageInvariance, PTL DEF StorageSpec, SavesAreAtomic

(* What demo_storage_exchange_finish reports is true of the flash then.    *)
THEOREM ReportsHold == StorageSpec => ReportsAreTrue
<1>. DEFINE True == Finish /\ pool'.result = "OK" /\ worker.booting = FALSE =>
       LET r == worker.request
       IN /\ r.command = "SAVE" => Stored(r.device).params = r.params
          /\ r.command = "LOG" => Newest(LogRecords(flash[r.device])).params = r.params
          /\ r.command = "LOAD" /\ ~worker.scan_failed => pool'.params = Stored(r.device).params
<1>1. StorageInv => True
  <2>. SUFFICES ASSUME StorageInv, Finish, pool'.result = "OK", worker.booting = FALSE
                PROVE  LET r == worker.request
                       IN /\ r.command = "SAVE" => Stored(r.device).params = r.params
                          /\ r.command = "LOG" =>
                               Newest(LogRecords(flash[r.device])).params = r.params
                          /\ r.command = "LOAD" /\ ~worker.scan_failed =>
                               pool'.params = Stored(r.device).params
    OBVIOUS
  <2>. QED BY ReportsStep
<1>2. StorageInv => [True]_vars
  BY <1>1
<1>. HIDE DEF True
<1>3. []StorageInv => [][True]_vars
  BY <1>2, PTL
<1>4. [][True]_vars => ReportsAreTrue
  BY DEF True, ReportsAreTrue
<1>. QED BY <1>3, <1>4, StorageInvariance, PTL

(* Under the storage task too, a request that is answered SUCCESS has      *)
(* taken effect, and no cell changes that the one request under way is not *)
(* about: what the store needs of fal_process, for the requests it makes.  *)
THEOREM StoreIsServed == StorageSpec => DoesWhatIsAsked
<1>1. StorageInv /\ [Next]_vars =>
        [\A d \in Devices :
           /\ Busy(d) /\ fal'[d].result = "SUCCESS" /\ Process(d) => TookEffect(flash[d], asked[d])
           /\ flash'[d] # flash[d] =>
                \A a \in Addresses : flash'[d][a] # flash[d][a] => Covers(asked[d], a)]_falVars
  <2>. SUFFICES ASSUME StorageInv, [Next]_vars, NEW d \in Devices
                PROVE  /\ Busy(d) /\ fal'[d].result = "SUCCESS" /\ Process(d) =>
                            TookEffect(flash[d], asked[d])
                       /\ \A a \in Addresses : flash'[d][a] # flash[d][a] => Covers(asked[d], a)
    OBVIOUS
  <2>1. IInv /\ flash'[d] \in Interrupted(flash[d], chip[d].job)
    BY FlashMoves DEF StorageInv
  <2>. QED BY <2>1, SuccessTells, OnlyWhatIsAsked
<1>. QED BY <1>1, StorageInvariance, PTL DEF StorageSpec, DoesWhatIsAsked
=============================================================================
