------------------------------ MODULE FalProofs ------------------------------
(***************************************************************************)
(* Proofs about Fal, for every number of devices, every layout of zones    *)
(* and every page, block, unit and read size: a request stays inside its   *)
(* zone, and it does what was asked whatever fails on the way.             *)
(***************************************************************************)
EXTENDS Fal, SequenceTheorems, TLAPS

LEMMA Sizes == {PageCells, BlockCells, UnitCells, MaxRead} \subseteq Nat \ {0}
  BY FalAssumption DEF FalAssumption

LEMMA AddressesAreNat == Capacity \in Nat /\ Addresses \subseteq Nat
  BY FalAssumption DEF FalAssumption, Capacity, Addresses
----------------------------------------------------------------------------
(* Division with remainder.                                                *)

LEMMA DivMod ==
  ASSUME NEW x \in Nat, NEW B \in Nat \ {0}
  PROVE  x = (x \div B) * B + (x % B) /\ x % B \in 0 .. B - 1 /\ x \div B \in Nat
  BY SMT

LEMMA MultipleMod ==
  ASSUME NEW q \in Nat, NEW B \in Nat \ {0}
  PROVE  (q * B) % B = 0
  BY SMT

LEMMA ModMultiple ==
  ASSUME NEW x \in Nat, NEW B \in Nat \ {0}, x % B = 0
  PROVE  \E q \in Nat : x = q * B
<1>1. x = (x \div B) * B /\ x \div B \in Nat
  BY DivMod
<1>. QED BY <1>1

LEMMA MultipleSum ==
  ASSUME NEW x \in Nat, NEW y \in Nat, NEW B \in Nat \ {0}, x % B = 0, y % B = 0
  PROVE  (x + y) % B = 0
<1>1. PICK q \in Nat : x = q * B BY ModMultiple
<1>2. PICK r \in Nat : y = r * B BY ModMultiple
<1>3. x + y = (q + r) * B /\ q + r \in Nat BY <1>1, <1>2, SMT
<1>. QED BY <1>3, MultipleMod

LEMMA MultipleOrder ==
  ASSUME NEW q \in Nat, NEW r \in Nat, NEW B \in Nat \ {0}, q * B < r * B
  PROVE  q < r /\ (q + 1) * B <= r * B
  BY SMT

LEMMA MultipleDifference ==
  ASSUME NEW x \in Nat, NEW y \in Nat, NEW B \in Nat \ {0}, x % B = 0, y % B = 0, x < y
  PROVE  (y - x) % B = 0 /\ x + B <= y
<1>1. PICK q \in Nat : x = q * B BY ModMultiple
<1>2. PICK r \in Nat : y = r * B BY ModMultiple
<1>3. q < r /\ (q + 1) * B <= r * B BY <1>1, <1>2, MultipleOrder
<1>4. y - x = (r - q) * B /\ r - q \in Nat BY <1>1, <1>2, <1>3, SMT
<1>5. x + B = (q + 1) * B BY <1>1, SMT
<1>. QED BY <1>2, <1>3, <1>4, <1>5, MultipleMod

(* An erase rounded outwards to blocks covers what was asked and stays     *)
(* below any multiple of the block size that bounded it.                   *)
LEMMA RoundDownFacts ==
  ASSUME NEW x \in Nat
  PROVE  /\ RoundDown(x) \in Nat /\ RoundDown(x) <= x /\ RoundDown(x) % BlockCells = 0
         /\ x < RoundDown(x) + BlockCells
<1>. DEFINE q == x \div BlockCells
<1>1. BlockCells \in Nat \ {0}
  BY Sizes
<1>2. x = q * BlockCells + (x % BlockCells) /\ x % BlockCells \in 0 .. BlockCells - 1 /\ q \in Nat
  BY <1>1, DivMod
<1>3. q * BlockCells \in Nat /\ RoundDown(x) = q * BlockCells
  BY <1>1, <1>2, SMT DEF RoundDown
<1>4. (q * BlockCells) % BlockCells = 0
  BY <1>1, <1>2, MultipleMod
<1>5. q * BlockCells <= x /\ x < q * BlockCells + BlockCells
  BY <1>1, <1>2, <1>3, SMT
<1>. QED BY <1>3, <1>4, <1>5

LEMMA RoundUpFacts ==
  ASSUME NEW x \in Nat, NEW S \in Nat, x <= S, S % BlockCells = 0
  PROVE  RoundUp(x) \in Nat /\ x <= RoundUp(x) /\ RoundUp(x) <= S /\ RoundUp(x) % BlockCells = 0
<1>. BlockCells \in Nat \ {0}
  BY Sizes
<1>1. CASE x % BlockCells = 0
  BY <1>1 DEF RoundUp
<1>2. CASE x % BlockCells # 0
  <2>. DEFINE low == RoundDown(x)
  <2>1. low \in Nat /\ low % BlockCells = 0 /\ low < x
    <3>1. x % BlockCells \in 0 .. BlockCells - 1
      BY DivMod
    <3>2. low = x - (x % BlockCells)
      BY DEF RoundDown
    <3>3. low \in Nat /\ low % BlockCells = 0
      BY RoundDownFacts
    <3>4. low < x
      BY <1>2, <3>1, <3>2, SMT
    <3>. QED BY <3>3, <3>4
  <2>2. RoundUp(x) = low + BlockCells
    BY <1>2, DivMod DEF RoundUp, RoundDown
  <2>3. low + BlockCells <= S
    BY <2>1, MultipleDifference
  <2>4. BlockCells % BlockCells = 0
    BY MultipleMod, 1 * BlockCells = BlockCells
  <2>5. (low + BlockCells) % BlockCells = 0
    BY <2>1, <2>4, MultipleSum
  <2>6. x <= low + BlockCells
    BY RoundDownFacts
  <2>. QED BY <2>1, <2>2, <2>3, <2>5, <2>6
<1>. QED BY <1>1, <1>2
----------------------------------------------------------------------------
(* The inductive invariant.                                                *)

Jobs == [kind : Operations \cup {"NONE"}, first : Nat, length : Nat, data : Seq(Values)]
Chips == [state : {"READY", "BUSY", "ERROR"}, job : Jobs]
Fals ==
  [state : Operations \cup {"IDLE", "STOPPED", "ERROR", "WAIT_DEVICE"},
   operation : Operations \cup {"NONE"}, address : Nat, remaining : Nat, chunk_length : Nat,
   data : Seq(Values), stop_requested : BOOLEAN, sync_issued : BOOLEAN,
   result : {"SUCCESS", "DRIVER_ERROR", "CONFIG_ERROR", "IN_PROGRESS"}]

TypeOK ==
  /\ flash = [d \in Devices |-> flash[d]]
  /\ chip \in [Devices -> Chips]
  /\ fal \in [Devices -> Fals]
  /\ asked \in [Devices -> Jobs]

(* What is left of the request f, and the part of the caller's data that   *)
(* goes with it.                                                           *)
Remainder(f, job) ==
  /\ job.kind = f.operation /\ InOneZone(job)
  /\ job.first <= f.address /\ f.address + f.remaining = job.first + job.length
  /\ f.operation = "ERASE" => f.address % BlockCells = 0 /\ f.remaining % BlockCells = 0
  /\ f.operation = "WRITE" =>
       /\ Len(f.data) = f.remaining /\ Len(job.data) = job.length
       /\ \A i \in 1 .. f.remaining : f.data[i] = job.data[(f.address - job.first) + i]

(* A request is about to issue a chunk, waits for it, or waits for the     *)
(* synchronisation.                                                        *)
Issues(f) == f.state = f.operation /\ f.chunk_length = 0 /\ f.remaining # 0 /\ ~f.sync_issued
Chunked(f) ==
  f.state = "WAIT_DEVICE" /\ f.remaining # 0 /\ f.chunk_length = Chunk(f) /\ ~f.sync_issued
Synchronising(f) ==
  f.state = "WAIT_DEVICE" /\ f.chunk_length = 0 /\ f.remaining = 0 /\ f.sync_issued

(* The device works on the chunk or the synchronisation, or on nothing.    *)
Assigned(f, c) ==
  IF c.state = "BUSY"
    THEN \/ Chunked(f) /\ c.job = Submission(f)
         \/ Synchronising(f) /\ c.job = NoJob
    ELSE c.job = NoJob

(* The cells before the address have what was asked, and so has a chunk    *)
(* the device has ended.                                                   *)
Achieved(f, c) ==
  f.address + (IF Chunked(f) /\ c.state = "READY" THEN f.chunk_length ELSE 0)
Effective(f, c, job, cells) ==
  \A a \in Addresses : job.first <= a /\ a < Achieved(f, c) => Holds(cells, job, a)

Underway(f, c, job, cells) ==
  /\ f.result = "IN_PROGRESS"
  /\ Remainder(f, job)
  /\ Issues(f) \/ Chunked(f) \/ Synchronising(f)
  /\ Assigned(f, c)
  /\ Effective(f, c, job, cells)

Resting(f, c) == c.state # "BUSY" /\ c.job = NoJob

DeviceInv(d) ==
  IF Busy(d) THEN Underway(fal[d], chip[d], asked[d], flash[d]) ELSE Resting(fal[d], chip[d])

IInv == TypeOK /\ \A d \in Devices : DeviceInv(d)
----------------------------------------------------------------------------
(* Chunks.                                                                 *)

LEMMA ChunkFacts ==
  ASSUME NEW f \in Fals, NEW job \in Jobs, Remainder(f, job),
         f.operation \in Operations, f.remaining # 0
  PROVE  /\ Chunk(f) \in Nat /\ 0 < Chunk(f) /\ Chunk(f) <= f.remaining
         /\ f.operation = "WRITE" => (f.address % PageCells) + Chunk(f) <= PageCells
         /\ f.operation = "ERASE" => Chunk(f) = BlockCells
<1>. USE DEF Fals, Operations
<1>0. {PageCells, BlockCells, MaxRead} \subseteq Nat \ {0} /\ {f.remaining, f.address} \subseteq Nat
  BY Sizes
<1>1. CASE f.operation = "READ"
  BY <1>0, <1>1 DEF Chunk, Smaller
<1>2. CASE f.operation = "WRITE"
  <2>. DEFINE m == f.address % PageCells
  <2>1. m \in 0 .. PageCells - 1
    BY <1>0, DivMod
  <2>2. Chunk(f) = IF f.remaining < PageCells - m THEN f.remaining ELSE PageCells - m
    BY <1>2 DEF Chunk, Smaller
  <2>. HIDE DEF m
  <2>3. Chunk(f) \in Nat /\ 0 < Chunk(f) /\ Chunk(f) <= f.remaining /\ m + Chunk(f) <= PageCells
    BY <1>0, <2>1, <2>2
  <2>. QED BY <1>2, <2>3 DEF m
<1>3. CASE f.operation = "ERASE"
  <2>1. f.remaining % BlockCells = 0
    BY <1>3 DEF Remainder
  <2>2. 0 % BlockCells = 0
    BY <1>0, MultipleMod, 0 * BlockCells = 0
  <2>3. 0 + BlockCells <= f.remaining
    BY <1>0, <2>1, <2>2, MultipleDifference
  <2>. QED BY <1>0, <1>3, <2>3 DEF Chunk
<1>. QED BY <1>1, <1>2, <1>3

LEMMA SubmissionFacts ==
  ASSUME NEW f \in Fals, NEW job \in Jobs, Remainder(f, job),
         f.operation \in Operations, f.remaining # 0
  PROVE  /\ Submission(f) \in Jobs
         /\ Submission(f).kind = f.operation /\ Submission(f).first = f.address
         /\ Submission(f).length = Chunk(f)
         /\ f.operation = "WRITE" =>
              \A i \in 1 .. Chunk(f) :
                Submission(f).data[i] = job.data[(f.address - job.first) + i]
<1>. DEFINE n == Smaller(Chunk(f), Len(f.data))
            part == SubSeq(f.data, 1, n)
<1>0. /\ f.data \in Seq(Values) /\ Len(f.data) \in Nat /\ f.address \in Nat
      /\ Chunk(f) \in Nat /\ Chunk(f) <= f.remaining /\ f.remaining \in Nat
  BY ChunkFacts DEF Fals
<1>1. n \in Nat /\ n <= Len(f.data) /\ \A i \in 1 .. n : f.data[i] \in Values
  BY <1>0 DEF Smaller
<1>2. part \in Seq(Values) /\ \A i \in 1 .. n - 1 + 1 : part[i] = f.data[1 + i - 1]
  <2>. HIDE DEF n
  <2>. QED BY <1>1, SubSeqProperties
<1>3. Submission(f) = [kind |-> f.operation, first |-> f.address, length |-> Chunk(f), data |-> part]
  BY DEF Submission, Job
<1>4. Submission(f) \in Jobs
  <2>. HIDE DEF part
  <2>. QED BY <1>0, <1>2, <1>3 DEF Jobs
<1>5. ASSUME f.operation = "WRITE", NEW i \in 1 .. Chunk(f)
      PROVE  part[i] = job.data[(f.address - job.first) + i]
  <2>1. n = Chunk(f) /\ f.data[i] = job.data[(f.address - job.first) + i]
    BY <1>0, <1>5 DEF Remainder, Smaller
  <2>. QED BY <1>0, <1>2, <2>1
<1>. HIDE DEF part
<1>6. /\ Submission(f).kind = f.operation /\ Submission(f).first = f.address
      /\ Submission(f).length = Chunk(f) /\ Submission(f).data = part
  BY <1>3
<1>. QED BY <1>4, <1>5, <1>6
----------------------------------------------------------------------------
(* What the steps make of one device: its fal_t f, the chip c, the job it  *)
(* was asked for and its cells.                                            *)

(* An accepted request, an erase rounded to blocks included, stays in its  *)
(* zone.                                                                   *)
LEMMA ExtentFacts ==
  ASSUME NEW z \in Zones, NEW operation \in Operations, NEW data \in Seq(Values),
         NEW offset \in Nat, NEW length \in Nat,
         offset <= Size(z), length <= Size(z) - offset, length # 0
  PROVE  LET job == Extent(operation, z, offset, length, data)
         IN  /\ job \in Jobs /\ InOneZone(job) /\ job.kind = operation
             /\ operation = "WRITE" => job.data = data
             /\ job.length \in Nat \ {0} /\ (operation = "WRITE" => job.length = length)
             /\ operation = "ERASE" => job.first % BlockCells = 0 /\ job.length % BlockCells = 0
<1>. DEFINE job == Extent(operation, z, offset, length, data)
            start == ZoneStart[z]
            next == ZoneStart[z + 1]
<1>. USE DEF Zones
<1>0. BlockCells \in Nat \ {0} /\ ZoneCount \in Nat
  BY Sizes, FalAssumption DEF FalAssumption
<1>1. z \in 0 .. ZoneCount /\ z + 1 \in 0 .. ZoneCount
  BY <1>0
<1>2. start \in Nat /\ next \in Nat /\ start < next /\ Size(z) = next - start
  BY <1>1, FalAssumption DEF FalAssumption, Size
<1>3. start % BlockCells = 0 /\ next % BlockCells = 0
  BY <1>1, FalAssumption DEF FalAssumption
<1>. HIDE DEF start, next
<1>4. CASE operation # "ERASE"
  <2>1. job = [kind |-> operation, first |-> start + offset, length |-> length, data |-> data]
    BY <1>4 DEF Extent, Job, start
  <2>2. start + offset \in Nat /\ start + offset + length <= next
    BY <1>2
  <2>3. InOneZone(job)
    BY <1>2, <2>1, <2>2 DEF InOneZone, start, next
  <2>. HIDE DEF job
  <2>. QED BY <1>4, <2>1, <2>2, <2>3 DEF Jobs, job
<1>5. CASE operation = "ERASE"
  <2>. DEFINE low == RoundDown(offset)
              high == RoundUp(offset + length)
  <2>1. job = [kind |-> "ERASE", first |-> start + low, length |-> high - low, data |-> << >>]
    BY <1>5 DEF Extent, Job, start
  <2>2. low \in Nat /\ low <= offset /\ low % BlockCells = 0
    BY RoundDownFacts
  <2>3. Size(z) \in Nat /\ Size(z) % BlockCells = 0
    <3>1. (next - start) % BlockCells = 0
      BY <1>0, <1>2, <1>3, MultipleDifference
    <3>. QED BY <1>2, <3>1
  <2>4. offset + length \in Nat /\ offset + length <= Size(z)
    BY <2>3
  <2>5. high \in Nat /\ offset + length <= high /\ high <= Size(z) /\ high % BlockCells = 0
    BY <2>3, <2>4, RoundUpFacts
  <2>. HIDE DEF low, high
  <2>6. low < high
    BY <2>2, <2>5
  <2>7. (high - low) % BlockCells = 0 /\ (start + low) % BlockCells = 0
    BY <1>0, <1>2, <1>3, <2>2, <2>5, <2>6, MultipleDifference, MultipleSum
  <2>8. start + low \in Nat /\ high - low \in Nat \ {0} /\ start + low + (high - low) <= next
    BY <1>2, <2>2, <2>5, <2>6
  <2>9. InOneZone(job)
    BY <1>2, <2>1, <2>2, <2>8 DEF InOneZone, start, next
  <2>10. job \in Jobs
    <3>. HIDE DEF job
    <3>. QED BY <2>1, <2>8 DEF Jobs, Operations
  <2>. HIDE DEF job
  <2>. QED BY <1>5, <2>1, <2>7, <2>8, <2>9, <2>10 DEF job
<1>. QED BY <1>4, <1>5

(* The request it starts is underway, and has achieved nothing yet.        *)
LEMMA BegunFacts ==
  ASSUME NEW f \in Fals, NEW c, NEW cells, NEW job \in Jobs,
         Resting(f, c), InOneZone(job), job.kind \in Operations, job.length # 0,
         job.kind = "WRITE" => job.length = Len(job.data),
         job.kind = "ERASE" => job.first % BlockCells = 0 /\ job.length % BlockCells = 0
  PROVE  Begun(f, job) \in Fals /\ Underway(Begun(f, job), c, job, cells)
<1>. DEFINE g == Begun(f, job)
<1>1. /\ job.first \in Nat /\ job.length \in Nat /\ job.data \in Seq(Values)
      /\ job.kind \in Operations
  BY DEF Jobs
<1>2. /\ g.state = job.kind /\ g.operation = job.kind /\ g.address = job.first
      /\ g.remaining = job.length /\ g.chunk_length = 0 /\ g.data = job.data
      /\ g.sync_issued = FALSE /\ g.result = "IN_PROGRESS"
  BY DEF Begun, Fals
<1>3. g \in Fals
  BY <1>1 DEF Begun, Fals
<1>. HIDE DEF g
<1>4. Remainder(g, job)
  BY <1>1, <1>2 DEF Remainder
<1>5. Issues(g) /\ ~Chunked(g)
  BY <1>1, <1>2 DEF Issues, Chunked, Operations
<1>6. Assigned(g, c)
  BY DEF Assigned, Resting
<1>7. Effective(g, c, job, cells)
  BY <1>1, <1>2, <1>5, AddressesAreNat DEF Effective, Achieved
<1>. QED BY <1>2, <1>3, <1>4, <1>5, <1>6, <1>7 DEF Underway, g

(* Issuing a chunk: the chunk is counted and the device works on it.       *)
LEMMA IssuedFacts ==
  ASSUME NEW f \in Fals, NEW c \in Chips, NEW cells, NEW job \in Jobs,
         f.operation \in Operations, Underway(f, c, job, cells),
         f.state = f.operation, c.state = "READY"
  PROVE  LET g == [f EXCEPT !.chunk_length = Chunk(f), !.state = "WAIT_DEVICE"]
             k == [state |-> "BUSY", job |-> Submission(f)]
         IN  g \in Fals /\ k \in Chips /\ Underway(g, k, job, cells)
<1>. DEFINE g == [f EXCEPT !.chunk_length = Chunk(f), !.state = "WAIT_DEVICE"]
            k == [state |-> "BUSY", job |-> Submission(f)]
<1>1. Issues(f) /\ Remainder(f, job) /\ Effective(f, c, job, cells) /\ f.result = "IN_PROGRESS"
  BY DEF Underway, Chunked, Synchronising, Operations
<1>2. f.remaining # 0 /\ ~f.sync_issued
  BY <1>1 DEF Issues
<1>3. Chunk(f) \in Nat /\ 0 < Chunk(f) /\ Submission(f) \in Jobs
  BY <1>1, <1>2, ChunkFacts, SubmissionFacts
<1>4. g \in Fals /\ k \in Chips
  BY <1>3 DEF Fals, Chips
<1>5. /\ g.operation = f.operation /\ g.address = f.address /\ g.remaining = f.remaining
      /\ g.data = f.data /\ g.chunk_length = Chunk(f) /\ g.state = "WAIT_DEVICE"
      /\ g.sync_issued = f.sync_issued /\ g.result = f.result
  BY DEF Fals
<1>6. k.state = "BUSY" /\ k.job = Submission(f)
  OBVIOUS
<1>. HIDE DEF g, k
<1>7. Chunk(g) = Chunk(f)
  BY <1>5 DEF Chunk
<1>8. Submission(g) = Submission(f)
  BY <1>5, <1>7 DEF Submission
<1>9. Remainder(g, job)
  BY <1>1, <1>5 DEF Remainder
<1>10. Chunked(g)
  BY <1>2, <1>5, <1>7 DEF Chunked
<1>11. Assigned(g, k)
  BY <1>6, <1>8, <1>10 DEF Assigned
<1>12. Effective(g, k, job, cells)
  <2>1. f.state # "WAIT_DEVICE"
    BY DEF Operations
  <2>2. Achieved(f, c) = f.address + 0 /\ Achieved(g, k) = f.address + 0
    BY <1>5, <1>6, <2>1 DEF Achieved, Chunked
  <2>. QED BY <1>1, <2>2 DEF Effective
<1>. QED BY <1>1, <1>4, <1>5, <1>9, <1>10, <1>11, <1>12 DEF Underway, g, k

(* Committing a chunk that the device has ended.                           *)
LEMMA CommittedFacts ==
  ASSUME NEW f \in Fals, NEW job \in Jobs, Remainder(f, job),
         f.operation \in Operations, Chunked(f)
  PROVE  LET g == Committed(f)
         IN  /\ g \in Fals /\ Remainder(g, job)
             /\ g.operation = f.operation /\ g.state = f.state /\ g.result = f.result
             /\ g.sync_issued = f.sync_issued /\ g.chunk_length = 0
             /\ g.address = f.address + f.chunk_length
<1>. DEFINE g == Committed(f)
            n == f.chunk_length
            rest == SubSeq(f.data, n + 1, Len(f.data))
<1>1. /\ n \in Nat /\ f.address \in Nat /\ f.remaining \in Nat /\ n <= f.remaining
      /\ f.data \in Seq(Values) /\ Len(f.data) \in Nat
      /\ (f.operation = "ERASE" => n = BlockCells)
  <2>1. f.remaining # 0 /\ n = Chunk(f)
    BY DEF Chunked
  <2>. QED BY <2>1, ChunkFacts DEF Fals
<1>. HIDE DEF n
<1>2. /\ rest \in Seq(Values)
      /\ Len(rest) = (IF n + 1 <= Len(f.data) THEN Len(f.data) - (n + 1) + 1 ELSE 0)
      /\ \A i \in 1 .. Len(f.data) - (n + 1) + 1 : rest[i] = f.data[n + 1 + i - 1]
  <2>1. \A i \in n + 1 .. Len(f.data) : f.data[i] \in Values
    BY <1>1
  <2>. QED BY <1>1, <2>1, SubSeqProperties
<1>. HIDE DEF rest
<1>3. /\ g.operation = f.operation /\ g.state = f.state /\ g.result = f.result
      /\ g.sync_issued = f.sync_issued /\ g.chunk_length = 0
      /\ g.address = f.address + n /\ g.remaining = f.remaining - n /\ g.data = rest
  BY DEF Committed, Fals, rest, n
<1>4. g \in Fals
  <2>1. g = [f EXCEPT !.address = f.address + n, !.remaining = f.remaining - n,
                      !.data = rest, !.chunk_length = 0]
    BY DEF Committed, rest, n
  <2>2. f.address + n \in Nat /\ f.remaining - n \in Nat
    BY <1>1
  <2>. HIDE DEF g
  <2>. QED BY <1>2, <2>1, <2>2 DEF Fals
<1>. HIDE DEF g
<1>5. Remainder(g, job)
  <2>1. job.kind = g.operation /\ InOneZone(job)
    BY <1>3 DEF Remainder
  <2>2. job.first \in Nat /\ job.length \in Nat
    BY DEF Jobs
  <2>3. job.first <= g.address /\ g.address + g.remaining = job.first + job.length
    BY <1>1, <1>3, <2>2 DEF Remainder
  <2>4. ASSUME g.operation = "ERASE"
        PROVE  g.address % BlockCells = 0 /\ g.remaining % BlockCells = 0
    <3>1. f.address % BlockCells = 0 /\ f.remaining % BlockCells = 0 /\ n = BlockCells
      BY <1>1, <1>3, <2>4 DEF Remainder
    <3>2. BlockCells \in Nat \ {0} /\ BlockCells % BlockCells = 0 /\ 0 % BlockCells = 0
      BY Sizes, MultipleMod, 1 * BlockCells = BlockCells, 0 * BlockCells = 0
    <3>3. (f.address + BlockCells) % BlockCells = 0
      BY <1>1, <3>1, <3>2, MultipleSum
    <3>4. (f.remaining - BlockCells) % BlockCells = 0
      <4>1. CASE f.remaining = BlockCells
        BY <3>2, <4>1
      <4>2. CASE f.remaining # BlockCells
        BY <1>1, <3>1, <3>2, <4>2, MultipleDifference
      <4>. QED BY <4>1, <4>2
    <3>. QED BY <1>3, <3>1, <3>3, <3>4
  <2>5. ASSUME g.operation = "WRITE"
        PROVE  /\ Len(g.data) = g.remaining /\ Len(job.data) = job.length
               /\ \A i \in 1 .. g.remaining : g.data[i] = job.data[(g.address - job.first) + i]
    <3>1. /\ Len(f.data) = f.remaining /\ Len(job.data) = job.length
          /\ \A i \in 1 .. f.remaining : f.data[i] = job.data[(f.address - job.first) + i]
      BY <1>3, <2>5 DEF Remainder
    <3>2. Len(g.data) = g.remaining
      BY <1>1, <1>2, <1>3, <3>1
    <3>3. ASSUME NEW i \in 1 .. g.remaining
          PROVE  g.data[i] = job.data[(g.address - job.first) + i]
      <4>1. g.data[i] = f.data[n + i] /\ n + i \in 1 .. f.remaining
        BY <1>1, <1>2, <1>3, <3>1
      <4>2. f.data[n + i] = job.data[(f.address - job.first) + (n + i)]
        BY <3>1, <4>1
      <4>3. (f.address - job.first) + (n + i) = (g.address - job.first) + i
        BY <1>1, <1>3, <2>2
      <4>. QED BY <4>1, <4>2, <4>3
    <3>. QED BY <3>1, <3>2, <3>3
  <2>. QED BY <2>1, <2>3, <2>4, <2>5 DEF Remainder
<1>. QED BY <1>3, <1>4, <1>5 DEF g, n
----------------------------------------------------------------------------
(* What the device does to the cells.                                      *)

LEMMA OutsideUnchanged ==
  ASSUME NEW cells, NEW job, NEW after \in Interrupted(cells, job), NEW a \in Addresses,
         ~Covers(job, a)
  PROVE  after[a] = cells[a]
<1>1. Worked(cells, job)[a] = cells[a]
  BY DEF Worked
<1>2. CASE after \in {cells, Worked(cells, job)}
  BY <1>1, <1>2
<1>3. CASE after \notin {cells, Worked(cells, job)}
  <2>1. PICK spoilt \in SUBSET {b \in Addresses : Covers(job, b)} : after = Spoiled(cells, spoilt)
    BY <1>3 DEF Interrupted
  <2>2. a \notin spoilt
    BY <2>1
  <2>. QED BY <2>1, <2>2 DEF Spoiled
<1>. QED BY <1>2, <1>3

LEMMA WorkedIsInterrupted ==
  ASSUME NEW cells, NEW job
  PROVE  Worked(cells, job) \in Interrupted(cells, job)
  BY DEF Interrupted

(* The device works only on cells of the request that have no effect yet.  *)
LEMMA AssignedCovers ==
  ASSUME NEW f \in Fals, NEW c \in Chips, NEW cells, NEW job \in Jobs,
         f.operation \in Operations, Underway(f, c, job, cells),
         NEW a \in Addresses, Covers(c.job, a)
  PROVE  /\ c.state = "BUSY" /\ Chunked(f) /\ c.job = Submission(f)
         /\ f.address <= a /\ a < f.address + f.chunk_length /\ Covers(job, a)
<1>. USE AddressesAreNat
<1>1. ~Covers(NoJob, a)
  BY DEF Covers, NoJob, Job
<1>2. c.state = "BUSY" /\ Chunked(f) /\ c.job = Submission(f)
  BY <1>1 DEF Underway, Assigned
<1>3. f.remaining # 0 /\ f.chunk_length = Chunk(f) /\ Remainder(f, job)
  BY <1>2 DEF Chunked, Underway
<1>4. c.job.first = f.address /\ c.job.length = f.chunk_length /\ f.chunk_length <= f.remaining
  BY <1>2, <1>3, ChunkFacts, SubmissionFacts
<1>5. /\ f.address \in Nat /\ f.chunk_length \in Nat /\ f.remaining \in Nat
      /\ job.first \in Nat /\ job.length \in Nat
  BY DEF Fals, Jobs
<1>6. job.first <= f.address /\ f.address + f.remaining = job.first + job.length
  BY <1>3 DEF Remainder
<1>7. f.address <= a /\ a < f.address + f.chunk_length
  BY <1>4, <1>5 DEF Covers
<1>8. Covers(job, a)
  BY <1>4, <1>5, <1>6, <1>7 DEF Covers
<1>. QED BY <1>2, <1>7, <1>8

LEMMA ChunkTakesEffect ==
  ASSUME NEW f \in Fals, NEW job \in Jobs, NEW cells, Remainder(f, job),
         f.operation \in Operations, Chunked(f), NEW a \in Addresses,
         f.address <= a, a < f.address + f.chunk_length
  PROVE  Holds(Worked(cells, Submission(f)), job, a)
<1>. DEFINE s == Submission(f)
            after == Worked(cells, s)
<1>. USE AddressesAreNat
<1>1. f.remaining # 0 /\ f.chunk_length = Chunk(f)
  BY DEF Chunked
<1>2. /\ s.kind = f.operation /\ s.first = f.address /\ s.length = f.chunk_length
      /\ f.operation = "WRITE" =>
           \A i \in 1 .. f.chunk_length : s.data[i] = job.data[(f.address - job.first) + i]
  BY <1>1, SubmissionFacts
<1>3. /\ f.address \in Nat /\ f.chunk_length \in Nat /\ job.first \in Nat
      /\ job.kind = f.operation /\ a \in Nat
  BY DEF Fals, Jobs, Remainder
<1>4. Covers(s, a)
  BY <1>2, <1>3 DEF Covers
<1>. HIDE DEF s
<1>5. CASE f.operation = "READ"
  BY <1>3, <1>5 DEF Holds
<1>6. CASE f.operation = "ERASE"
  <2>1. after[a] = Erased
    BY <1>2, <1>4, <1>6 DEF Worked
  <2>. QED BY <1>3, <1>6, <2>1 DEF Holds, s
<1>7. CASE f.operation = "WRITE"
  <2>1. after[a] = IF cells[a] = Erased THEN s.data[a - s.first + 1] ELSE Torn
    BY <1>2, <1>4, <1>7 DEF Worked
  <2>2. a - f.address + 1 \in 1 .. f.chunk_length
    BY <1>3
  <2>3. (f.address - job.first) + (a - f.address + 1) = a - job.first + 1
    BY <1>3
  <2>4. s.data[a - s.first + 1] = job.data[a - job.first + 1]
    BY <1>2, <1>7, <2>2, <2>3
  <2>5. after[a] \in {job.data[a - job.first + 1], Torn}
    BY <2>1, <2>4
  <2>. QED BY <1>3, <1>7, <2>5 DEF Holds, s
<1>. QED BY <1>5, <1>6, <1>7 DEF Operations

(* The device ends its operation: the chunk has the effect asked for.      *)
LEMMA EndedFacts ==
  ASSUME NEW f \in Fals, NEW c \in Chips, NEW cells, NEW job \in Jobs,
         f.operation \in Operations, Underway(f, c, job, cells), c.state = "BUSY"
  PROVE  Underway(f, Ready, job, Worked(cells, c.job))
<1>. DEFINE after == Worked(cells, c.job)
<1>. USE AddressesAreNat
<1>1. Ready.state = "READY" /\ Ready.job = NoJob
  BY DEF Ready
<1>2. Assigned(f, Ready)
  BY <1>1 DEF Assigned
<1>3. Effective(f, Ready, job, after)
  <2>. SUFFICES ASSUME NEW a \in Addresses, job.first <= a, a < Achieved(f, Ready)
                PROVE  Holds(after, job, a)
    BY DEF Effective
  <2>1. f.address \in Nat /\ f.chunk_length \in Nat
    BY DEF Fals
  <2>2. CASE a < f.address
    <3>1. Achieved(f, c) = f.address + 0
      BY DEF Achieved
    <3>2. Holds(cells, job, a)
      BY <2>1, <2>2, <3>1 DEF Underway, Effective
    <3>3. ~Covers(c.job, a)
      <4>1. Covers(c.job, a) => f.address <= a
        BY AssignedCovers
      <4>. QED BY <2>1, <2>2, <4>1
    <3>4. after[a] = cells[a]
      BY <3>3, WorkedIsInterrupted, OutsideUnchanged
    <3>. HIDE DEF after
    <3>. QED BY <3>2, <3>4 DEF Holds
  <2>3. CASE ~(a < f.address)
    <3>1. Chunked(f) /\ a < f.address + f.chunk_length
      BY <1>1, <2>1, <2>3 DEF Achieved
    <3>2. c.job = Submission(f)
      BY <3>1 DEF Underway, Assigned, Synchronising, Chunked
    <3>. QED BY <2>1, <2>3, <3>1, <3>2, ChunkTakesEffect DEF Underway
  <2>. QED BY <2>2, <2>3
<1>. QED BY <1>2, <1>3 DEF Underway

(* It fails: what had taken effect before stays.                           *)
LEMMA FailedFacts ==
  ASSUME NEW f \in Fals, NEW c \in Chips, NEW cells, NEW job \in Jobs,
         f.operation \in Operations, Underway(f, c, job, cells), c.state = "BUSY",
         NEW after \in Interrupted(cells, c.job)
  PROVE  Underway(f, [state |-> "ERROR", job |-> NoJob], job, after)
<1>. DEFINE k == [state |-> "ERROR", job |-> NoJob]
<1>. USE AddressesAreNat
<1>1. Assigned(f, k)
  BY DEF Assigned
<1>2. Effective(f, k, job, after)
  <2>0. Achieved(f, k) = f.address + 0
    BY DEF Achieved
  <2>. SUFFICES ASSUME NEW a \in Addresses, job.first <= a, a < f.address + 0
                PROVE  Holds(after, job, a)
    BY <2>0 DEF Effective
  <2>1. f.address \in Nat
    BY DEF Fals
  <2>2. Achieved(f, c) = f.address + 0
    BY DEF Achieved
  <2>3. Holds(cells, job, a)
    BY <2>1, <2>2 DEF Underway, Effective
  <2>4. ~Covers(c.job, a)
    BY <2>1, AssignedCovers
  <2>5. after[a] = cells[a]
    BY <2>4, OutsideUnchanged
  <2>. QED BY <2>3, <2>5 DEF Holds
<1>. QED BY <1>1, <1>2 DEF Underway
----------------------------------------------------------------------------
(* Every step preserves the invariant.                                     *)

LEMMA StartFacts ==
  /\ NoJob \in Jobs /\ Ready \in Chips /\ \A f : Resting(f, Ready)
  /\ {Mounted, MountFailed} \subseteq Fals
  /\ Mounted.operation = "NONE" /\ MountFailed.operation = "NONE"
<1>0. << >> \in Seq(Values)
  BY EmptySeq
<1>1. NoJob \in Jobs
  BY <1>0 DEF NoJob, Job, Jobs
<1>2. Ready \in Chips /\ \A f : Resting(f, Ready)
  BY <1>1 DEF Ready, Chips, Resting
<1>3. Mounted \in Fals /\ Mounted.operation = "NONE"
  BY <1>0 DEF Mounted, Fals
<1>4. MountFailed \in Fals /\ MountFailed.operation = "NONE"
  BY <1>3 DEF MountFailed, Fals
<1>. QED BY <1>1, <1>2, <1>3, <1>4

LEMMA FinishedFacts ==
  ASSUME NEW f \in Fals, NEW result \in {"SUCCESS", "DRIVER_ERROR", "CONFIG_ERROR"}
  PROVE  /\ Finished(f, result) \in Fals /\ Finished(f, result).operation = "NONE"
         /\ Finished(f, result).result = result
<1>1. f.stop_requested \in BOOLEAN
  BY DEF Fals
<1>2. Mounted \in Fals /\ Mounted.operation = "NONE"
  BY StartFacts
<1>. QED BY <1>1, <1>2 DEF Finished, Fals

(* The step makes device d's variables f, c, job and cells, and no others. *)
Becomes(d, f, c, job, cells) ==
  /\ fal' = [fal EXCEPT ![d] = f] /\ chip' = [chip EXCEPT ![d] = c]
  /\ asked' = [asked EXCEPT ![d] = job] /\ flash' = [flash EXCEPT ![d] = cells]

LEMMA OneDevice ==
  ASSUME IInv, NEW d \in Devices,
         NEW f \in Fals, NEW c \in Chips, NEW job \in Jobs, NEW cells,
         Becomes(d, f, c, job, cells),
         IF f.operation # "NONE" THEN Underway(f, c, job, cells) ELSE Resting(f, c)
  PROVE  IInv'
<1>1. TypeOK'
  <2>1. fal' \in [Devices -> Fals] /\ chip' \in [Devices -> Chips] /\ asked' \in [Devices -> Jobs]
    BY DEF IInv, TypeOK, Becomes
  <2>2. flash' = [e \in Devices |-> flash'[e]]
    BY DEF IInv, TypeOK, Becomes
  <2>. QED BY <2>1, <2>2 DEF TypeOK
<1>2. ASSUME NEW e \in Devices PROVE DeviceInv(e)'
  <2>1. CASE e = d
    <3>1. fal'[e] = f /\ chip'[e] = c /\ asked'[e] = job /\ flash'[e] = cells
      BY <2>1 DEF IInv, TypeOK, Becomes
    <3>. QED BY <3>1 DEF DeviceInv, Busy
  <2>2. CASE e # d
    <3>1. fal'[e] = fal[e] /\ chip'[e] = chip[e] /\ asked'[e] = asked[e] /\ flash'[e] = flash[e]
      BY <2>2 DEF IInv, TypeOK, Becomes
    <3>2. DeviceInv(e)
      BY DEF IInv
    <3>. QED BY <3>1, <3>2 DEF DeviceInv, Busy
  <2>. QED BY <2>1, <2>2
<1>. QED BY <1>1, <1>2 DEF IInv

(* What the invariant says of one device, and its untouched variables.     *)
LEMMA DeviceFacts ==
  ASSUME IInv, NEW d \in Devices
  PROVE  /\ fal[d] \in Fals /\ chip[d] \in Chips /\ asked[d] \in Jobs
         /\ Busy(d) => /\ Underway(fal[d], chip[d], asked[d], flash[d])
                       /\ fal[d].operation \in Operations
         /\ ~Busy(d) => Resting(fal[d], chip[d])
         /\ fal = [fal EXCEPT ![d] = fal[d]] /\ chip = [chip EXCEPT ![d] = chip[d]]
         /\ asked = [asked EXCEPT ![d] = asked[d]] /\ flash = [flash EXCEPT ![d] = flash[d]]
<1>1. fal[d] \in Fals /\ chip[d] \in Chips /\ asked[d] \in Jobs
  BY DEF IInv, TypeOK
<1>2. fal = [fal EXCEPT ![d] = fal[d]] /\ chip = [chip EXCEPT ![d] = chip[d]]
      /\ asked = [asked EXCEPT ![d] = asked[d]]
  BY DEF IInv, TypeOK
<1>3. flash = [flash EXCEPT ![d] = flash[d]]
  BY DEF IInv, TypeOK
<1>4. Busy(d) => fal[d].operation \in Operations
  BY <1>1 DEF Busy, Fals
<1>. QED BY <1>1, <1>2, <1>3, <1>4 DEF IInv, DeviceInv

(* A request: accepted, answered at once, or refused.                      *)
LEMMA RequestStep ==
  ASSUME IInv, NEW d \in Devices, NEW operation \in Operations, NEW z \in Zones,
         NEW offset \in Nat, NEW length \in Nat, NEW data \in Seq(Values),
         operation = "WRITE" => length = Len(data),
         Request(d, operation, z, offset, length, data)
  PROVE  IInv'
<1>. DEFINE verdict == Verdict(d, operation, z, offset, length)
            job == Extent(operation, z, offset, length, data)
<1>1. CASE verdict = "IN_PROGRESS"
  <2>1. /\ ~Busy(d) /\ offset <= Size(z) /\ length <= Size(z) - offset /\ length # 0
    <3>1. z \in Nat /\ z + 1 \in 0 .. ZoneCount /\ z \in 0 .. ZoneCount
      BY Sizes, FalAssumption DEF FalAssumption, Zones
    <3>2. Size(z) \in Int
      <4>1. ZoneStart[z] \in Nat /\ ZoneStart[z + 1] \in Nat
        BY <3>1, FalAssumption DEF FalAssumption
      <4>. QED BY <4>1 DEF Size
    <3>3. Verdict(d, operation, z, offset, length) = "IN_PROGRESS"
      BY <1>1
    <3>4. ~Busy(d)
      BY <3>3 DEF Verdict
    <3>5. ~(offset > Size(z) \/ length > Size(z) - offset) /\ length # 0
      BY <3>3 DEF Verdict
    <3>. QED BY <3>2, <3>4, <3>5
  <2>2. /\ job \in Jobs /\ InOneZone(job) /\ job.kind = operation /\ job.length # 0
        /\ job.kind = "WRITE" => job.length = Len(job.data)
        /\ job.kind = "ERASE" => job.first % BlockCells = 0 /\ job.length % BlockCells = 0
    BY <2>1, ExtentFacts
  <2>3. Becomes(d, Begun(fal[d], job), chip[d], job, flash[d])
    BY <1>1, DeviceFacts DEF Request, Becomes
  <2>. HIDE DEF job
  <2>4. Begun(fal[d], job) \in Fals /\ Underway(Begun(fal[d], job), chip[d], job, flash[d])
    BY <2>1, <2>2, BegunFacts, DeviceFacts
  <2>5. Begun(fal[d], job).operation # "NONE"
    BY <2>2, DeviceFacts DEF Begun, Fals, Operations
  <2>. QED BY <2>2, <2>3, <2>4, <2>5, DeviceFacts, OneDevice
<1>2. CASE verdict = "SUCCESS"
  <2>. DEFINE f == [fal[d] EXCEPT !.result = "SUCCESS"]
  <2>1. ~Busy(d)
    BY <1>2 DEF Verdict
  <2>2. f \in Fals /\ f.operation = "NONE"
    BY <2>1, DeviceFacts DEF Busy, Fals
  <2>3. Becomes(d, f, chip[d], asked[d], flash[d])
    BY <1>2, DeviceFacts DEF Request, Becomes
  <2>4. Resting(f, chip[d])
    BY <2>1, DeviceFacts DEF Resting
  <2>. HIDE DEF f
  <2>. QED BY <2>2, <2>3, <2>4, DeviceFacts, OneDevice
<1>3. CASE verdict \notin {"IN_PROGRESS", "SUCCESS"}
  BY <1>3 DEF Request, IInv, TypeOK, DeviceInv, Busy
<1>. QED BY <1>1, <1>2, <1>3

LEMMA StopStep ==
  ASSUME IInv, NEW d \in Devices, StopRequest(d)
  PROVE  IInv'
<1>. DEFINE f == [fal[d] EXCEPT !.stop_requested = TRUE,
                                !.state = IF Busy(d) THEN @ ELSE "STOPPED"]
<1>1. Becomes(d, f, chip[d], asked[d], flash[d])
  BY DeviceFacts DEF StopRequest, Becomes
<1>2. f \in Fals /\ f.operation = fal[d].operation
  BY DeviceFacts DEF Fals
<1>3. CASE Busy(d)
  <2>1. /\ f.state = fal[d].state /\ f.operation = fal[d].operation /\ f.address = fal[d].address
        /\ f.remaining = fal[d].remaining /\ f.chunk_length = fal[d].chunk_length
        /\ f.data = fal[d].data /\ f.sync_issued = fal[d].sync_issued /\ f.result = fal[d].result
    BY <1>3, DeviceFacts DEF Fals
  <2>. HIDE DEF f
  <2>2. Chunk(f) = Chunk(fal[d])
    BY <2>1 DEF Chunk
  <2>3. Submission(f) = Submission(fal[d])
    BY <2>1, <2>2 DEF Submission
  <2>4. /\ Issues(f) = Issues(fal[d]) /\ Chunked(f) = Chunked(fal[d])
        /\ Synchronising(f) = Synchronising(fal[d])
    BY <2>1, <2>2 DEF Issues, Chunked, Synchronising
  <2>5. Remainder(f, asked[d]) = Remainder(fal[d], asked[d])
    BY <2>1 DEF Remainder
  <2>6. Assigned(f, chip[d]) = Assigned(fal[d], chip[d]) /\ Achieved(f, chip[d]) = Achieved(fal[d], chip[d])
    BY <2>1, <2>3, <2>4 DEF Assigned, Achieved
  <2>7. Underway(f, chip[d], asked[d], flash[d])
    BY <1>3, <2>1, <2>4, <2>5, <2>6, DeviceFacts DEF Underway, Effective
  <2>8. f.operation # "NONE"
    BY <1>3, <2>1 DEF Busy
  <2>. QED BY <1>1, <1>2, <2>7, <2>8, DeviceFacts, OneDevice
<1>4. CASE ~Busy(d)
  <2>. HIDE DEF f
  <2>1. f.operation = "NONE" /\ Resting(f, chip[d])
    BY <1>2, <1>4, DeviceFacts DEF Busy, Resting
  <2>. QED BY <1>1, <1>2, <2>1, DeviceFacts, OneDevice
<1>. QED BY <1>3, <1>4

LEMMA MountStep ==
  ASSUME IInv, NEW d \in Devices, Mount(d) \/ MountFails(d)
  PROVE  IInv'
<1>1. CASE Mount(d)
  <2>1. Becomes(d, Mounted, Ready, asked[d], flash[d])
    BY <1>1, DeviceFacts DEF Mount, Becomes
  <2>. QED BY <2>1, StartFacts, DeviceFacts, OneDevice
<1>2. CASE MountFails(d)
  <2>1. ~Busy(d) /\ Becomes(d, MountFailed, chip[d], asked[d], flash[d])
    BY <1>2, DeviceFacts DEF MountFails, Becomes
  <2>2. Resting(MountFailed, chip[d])
    BY <2>1, DeviceFacts DEF Resting
  <2>. QED BY <2>1, <2>2, StartFacts, DeviceFacts, OneDevice
<1>. QED BY <1>1, <1>2

(* A request ends only while the device works on nothing.                  *)
LEMMA EndStep ==
  ASSUME IInv, NEW d \in Devices, Busy(d), chip[d].state # "BUSY", NEW f \in Fals,
         NEW result \in {"SUCCESS", "DRIVER_ERROR", "CONFIG_ERROR"},
         Becomes(d, Finished(f, result), chip[d], asked[d], flash[d])
  PROVE  IInv'
<1>1. Finished(f, result) \in Fals /\ Finished(f, result).operation = "NONE"
  BY FinishedFacts
<1>2. Resting(Finished(f, result), chip[d])
  BY DeviceFacts DEF Underway, Assigned, Resting
<1>. QED BY <1>1, <1>2, DeviceFacts, OneDevice

(* fal_process.                                                            *)
LEMMA RefusedStep ==
  ASSUME IInv, NEW d \in Devices, DeviceError(d) \/ IssueRefused(d) \/ SyncRefused(d) \/ SyncDone(d)
  PROVE  IInv'
<1>1. Busy(d) /\ chip[d].state # "BUSY"
  BY DEF DeviceError, IssueRefused, Issuing, SyncRefused, SyncDone, Waited
<1>2. PICK result \in {"SUCCESS", "DRIVER_ERROR", "CONFIG_ERROR"} :
        Becomes(d, Finished(fal[d], result), chip[d], asked[d], flash[d])
  BY DeviceFacts DEF DeviceError, IssueRefused, SyncRefused, SyncDone, Becomes
<1>. QED BY <1>1, <1>2, DeviceFacts, EndStep

LEMMA IssueStep ==
  ASSUME IInv, NEW d \in Devices, Issue(d)
  PROVE  IInv'
<1>. DEFINE f == fal[d]
            g == [f EXCEPT !.chunk_length = Chunk(f), !.state = "WAIT_DEVICE"]
            k == [state |-> "BUSY", job |-> Submission(f)]
<1>1. Becomes(d, g, k, asked[d], flash[d])
  BY DeviceFacts DEF Issue, Becomes
<1>2. g \in Fals /\ k \in Chips /\ Underway(g, k, asked[d], flash[d])
  BY DeviceFacts, IssuedFacts DEF Issue, Issuing
<1>3. g.operation # "NONE"
  BY DeviceFacts DEF Issue, Issuing, Busy, Fals
<1>. HIDE DEF g, k
<1>. QED BY <1>1, <1>2, <1>3, DeviceFacts, OneDevice

LEMMA ChunkStep ==
  ASSUME IInv, NEW d \in Devices, ChunkDone(d)
  PROVE  IInv'
<1>. DEFINE f == fal[d]
            g == Committed(f)
            c == chip[d]
<1>1. /\ f \in Fals /\ c \in Chips /\ asked[d] \in Jobs /\ f.operation \in Operations
      /\ Underway(f, c, asked[d], flash[d]) /\ c.state = "READY" /\ Chunked(f) /\ Busy(d)
  <2>1. Waited(d) /\ f.chunk_length # 0
    BY DEF ChunkDone
  <2>2. f.operation \in Operations /\ Underway(f, c, asked[d], flash[d])
    BY <2>1, DeviceFacts DEF Waited
  <2>3. f.state = "WAIT_DEVICE" /\ c.state = "READY"
    BY <2>1 DEF Waited
  <2>4. Chunked(f)
    BY <2>1, <2>2, <2>3 DEF Underway, Issues, Synchronising, Operations
  <2>. QED BY <2>1, <2>2, <2>3, <2>4, DeviceFacts DEF Waited
<1>2. /\ g \in Fals /\ Remainder(g, asked[d])
      /\ g.operation = f.operation /\ g.state = f.state /\ g.result = f.result
      /\ g.sync_issued = f.sync_issued /\ g.chunk_length = 0
      /\ g.address = f.address + f.chunk_length
  BY <1>1, CommittedFacts DEF Underway
<1>3. Achieved(f, c) = g.address + 0
  BY <1>1, <1>2 DEF Achieved, Fals
<1>4. f.result = "IN_PROGRESS" /\ ~f.sync_issued /\ f.operation # "NONE" /\ f.operation # "WAIT_DEVICE"
  BY <1>1 DEF Underway, Chunked, Operations
<1>5. CASE g.remaining # 0 /\ fal' = [fal EXCEPT ![d] = [g EXCEPT !.state = g.operation]] /\ chip' = chip
  <2>. DEFINE h == [g EXCEPT !.state = g.operation]
  <2>. HIDE DEF g
  <2>1. Becomes(d, h, c, asked[d], flash[d])
    BY <1>5, DeviceFacts DEF ChunkDone, Becomes
  <2>2. /\ h \in Fals /\ h.operation = f.operation /\ h.state = f.operation /\ h.result = f.result
        /\ h.sync_issued = f.sync_issued /\ h.chunk_length = 0
        /\ h.address = g.address /\ h.remaining = g.remaining /\ h.data = g.data
    BY <1>1, <1>2 DEF Fals
  <2>. HIDE DEF h
  <2>3. Remainder(h, asked[d])
    BY <1>2, <2>2 DEF Remainder
  <2>4. Issues(h) /\ ~Chunked(h)
    BY <1>4, <1>5, <2>2 DEF Issues, Chunked
  <2>5. Assigned(h, c)
    BY <1>1 DEF Underway, Assigned
  <2>6. Achieved(h, c) = g.address + 0
    BY <2>2, <2>4 DEF Achieved
  <2>7. Underway(h, c, asked[d], flash[d])
    BY <1>1, <1>3, <1>4, <2>2, <2>3, <2>4, <2>5, <2>6 DEF Underway, Effective
  <2>. QED BY <1>1, <1>4, <2>1, <2>2, <2>7, OneDevice
<1>6. CASE /\ g.remaining = 0 /\ fal' = [fal EXCEPT ![d] = [g EXCEPT !.sync_issued = TRUE]]
           /\ chip' = [chip EXCEPT ![d] = [state |-> "BUSY", job |-> NoJob]]
  <2>. DEFINE h == [g EXCEPT !.sync_issued = TRUE]
              k == [state |-> "BUSY", job |-> NoJob]
  <2>. HIDE DEF g
  <2>1. Becomes(d, h, k, asked[d], flash[d])
    BY <1>6, DeviceFacts DEF ChunkDone, Becomes
  <2>2. /\ h \in Fals /\ h.operation = f.operation /\ h.state = f.state /\ h.result = f.result
        /\ h.sync_issued = TRUE /\ h.chunk_length = 0
        /\ h.address = g.address /\ h.remaining = g.remaining /\ h.data = g.data
    BY <1>1, <1>2 DEF Fals
  <2>3. k \in Chips /\ k.state = "BUSY" /\ k.job = NoJob
    BY StartFacts DEF Chips
  <2>. HIDE DEF h, k
  <2>4. Remainder(h, asked[d])
    BY <1>2, <2>2 DEF Remainder
  <2>5. Synchronising(h) /\ ~Chunked(h)
    BY <1>1, <1>6, <2>2 DEF Synchronising, Chunked
  <2>6. Assigned(h, k) /\ Achieved(h, k) = g.address + 0
    BY <2>2, <2>3, <2>5 DEF Assigned, Achieved
  <2>7. Underway(h, k, asked[d], flash[d])
    BY <1>1, <1>3, <1>4, <2>2, <2>4, <2>5, <2>6 DEF Underway, Effective
  <2>. QED BY <1>1, <1>4, <2>1, <2>2, <2>3, <2>7, OneDevice
<1>7. CASE g.remaining = 0 /\ fal' = [fal EXCEPT ![d] = Finished(g, "SUCCESS")] /\ chip' = chip
  <2>1. Becomes(d, Finished(g, "SUCCESS"), c, asked[d], flash[d])
    BY <1>7, DeviceFacts DEF ChunkDone, Becomes
  <2>. HIDE DEF g
  <2>. QED BY <1>1, <1>2, <2>1, EndStep
<1>. QED BY <1>5, <1>6, <1>7 DEF ChunkDone

(* The device.                                                             *)
LEMMA DeviceStep ==
  ASSUME IInv, NEW d \in Devices, ChipDone(d) \/ ChipFails(d)
  PROVE  IInv'
<1>1. Busy(d) /\ chip[d].state = "BUSY" /\ fal[d].operation # "NONE"
  BY DeviceFacts DEF ChipDone, ChipFails, Working, Resting, Busy
<1>2. CASE ChipDone(d)
  <2>. DEFINE after == Worked(flash[d], chip[d].job)
  <2>1. Becomes(d, fal[d], Ready, asked[d], after)
    BY <1>2, DeviceFacts DEF ChipDone, Becomes
  <2>2. Underway(fal[d], Ready, asked[d], after)
    BY <1>1, DeviceFacts, EndedFacts
  <2>. HIDE DEF after
  <2>. QED BY <1>1, <2>1, <2>2, StartFacts, DeviceFacts, OneDevice
<1>3. CASE ChipFails(d)
  <2>. DEFINE k == [state |-> "ERROR", job |-> NoJob]
  <2>1. PICK after \in Interrupted(flash[d], chip[d].job) : flash' = [flash EXCEPT ![d] = after]
    BY <1>3 DEF ChipFails
  <2>2. Becomes(d, fal[d], k, asked[d], after)
    BY <1>3, <2>1, DeviceFacts DEF ChipFails, Becomes
  <2>3. k \in Chips
    BY StartFacts DEF Chips
  <2>4. Underway(fal[d], k, asked[d], after)
    BY <1>1, DeviceFacts, FailedFacts
  <2>. HIDE DEF k
  <2>. QED BY <1>1, <2>2, <2>3, <2>4, DeviceFacts, OneDevice
<1>. QED BY <1>2, <1>3

LEMMA PowerStep ==
  ASSUME IInv, PowerLoss
  PROVE  IInv'
<1>1. flash' = [d \in Devices |-> flash'[d]]
  BY DEF PowerLoss
<1>2. /\ chip' \in [Devices -> Chips] /\ asked' \in [Devices -> Jobs]
      /\ \A d \in Devices : chip'[d] = Ready
  BY StartFacts DEF PowerLoss
<1>3. fal' \in [Devices -> Fals] /\ \A d \in Devices : fal'[d].operation = "NONE"
  BY StartFacts DEF PowerLoss
<1>4. ASSUME NEW d \in Devices PROVE DeviceInv(d)'
  BY <1>2, <1>3, StartFacts DEF DeviceInv, Busy
<1>. QED BY <1>1, <1>2, <1>3, <1>4 DEF IInv, TypeOK

LEMMA UserStep ==
  ASSUME IInv, NEW d \in Devices, User(d)
  PROVE  IInv'
<1>1. 0 .. Capacity \subseteq Nat
  BY AddressesAreNat
<1>2. CASE \E operation \in {"READ", "ERASE"}, z \in Zones, offset, length \in 0 .. Capacity :
             Request(d, operation, z, offset, length, << >>)
  <2>1. PICK operation \in {"READ", "ERASE"}, z \in Zones, offset \in 0 .. Capacity,
             length \in 0 .. Capacity : Request(d, operation, z, offset, length, << >>)
    BY <1>2
  <2>2. << >> \in Seq(Values)
    BY EmptySeq
  <2>3. operation \in Operations /\ operation # "WRITE" /\ offset \in Nat /\ length \in Nat
    BY <1>1 DEF Operations
  <2>. QED BY <2>1, <2>2, <2>3, RequestStep
<1>3. CASE \E z \in Zones, offset \in 0 .. Capacity, data \in Payloads :
             Request(d, "WRITE", z, offset, Len(data), data)
  <2>1. PICK z \in Zones, offset \in 0 .. Capacity, data \in Payloads :
               Request(d, "WRITE", z, offset, Len(data), data)
    BY <1>3
  <2>2. data \in Seq(Values) /\ Len(data) \in Nat
    BY PayloadAssumption
  <2>3. "WRITE" \in Operations /\ offset \in Nat
    BY <1>1 DEF Operations
  <2>. QED BY <2>1, <2>2, <2>3, RequestStep
<1>4. CASE StopRequest(d)
  BY <1>4, StopStep
<1>5. CASE Mount(d) \/ MountFails(d)
  BY <1>5, MountStep
<1>. QED BY <1>2, <1>3, <1>4, <1>5 DEF User

LEMMA StartsRight ==
  ASSUME NEW cells, cells = [d \in Devices |-> cells[d]], FalInit(cells)
  PROVE  IInv
<1>1. TypeOK
  BY StartFacts DEF FalInit, TypeOK
<1>2. ASSUME NEW d \in Devices PROVE DeviceInv(d)
  <2>1. fal[d] = Mounted /\ chip[d] = Ready
    BY DEF FalInit
  <2>. QED BY <2>1, StartFacts DEF DeviceInv, Busy
<1>. QED BY <1>1, <1>2 DEF IInv

LEMMA Start == FalInit([d \in Devices |-> Blank]) => IInv
  BY StartsRight

LEMMA Step == IInv /\ [FalNext]_falVars => IInv'
<1>. SUFFICES ASSUME IInv, [FalNext]_falVars
              PROVE  IInv'
  OBVIOUS
<1>1. CASE UNCHANGED falVars
  BY <1>1 DEF falVars, IInv, TypeOK, DeviceInv, Busy
<1>2. CASE PowerLoss
  BY <1>2, PowerStep
<1>3. ASSUME NEW d \in Devices, User(d)
      PROVE  IInv'
  BY <1>3, UserStep
<1>4. ASSUME NEW d \in Devices, Process(d)
      PROVE  IInv'
  BY <1>4, RefusedStep, IssueStep, ChunkStep DEF Process
<1>5. ASSUME NEW d \in Devices, ChipDone(d) \/ ChipFails(d)
      PROVE  IInv'
  BY <1>5, DeviceStep
<1>. QED BY <1>1, <1>2, <1>3, <1>4, <1>5 DEF FalNext

(* The invariant holds in every reachable state: the request under way is  *)
(* the end of the one asked for, the device carries out its next chunk or  *)
(* nothing, and what has been committed has taken effect.                  *)
THEOREM Invariance == FalSpec => []IInv
  BY Start, Step, PTL DEF FalSpec
----------------------------------------------------------------------------
(* The properties.                                                         *)

(* A request stays in its zone, and its chunks inside a page or a block.   *)
(* This is fal_core.c: the range check of request_validate, the rounding of   *)
(* fal_erase and the chunk lengths of operation_issue.                     *)
THEOREM InBounds == FalSpec => []RequestInBounds
<1>1. IInv => RequestInBounds
  <2>. SUFFICES ASSUME IInv, NEW d \in Devices, Busy(d)
                PROVE  /\ InOneZone(asked[d]) /\ asked[d].first <= fal[d].address
                       /\ fal[d].address + fal[d].remaining = asked[d].first + asked[d].length
                       /\ fal[d].chunk_length <= fal[d].remaining
                       /\ fal[d].operation = "WRITE" /\ fal[d].chunk_length # 0 =>
                            (fal[d].address % PageCells) + fal[d].chunk_length <= PageCells
                       /\ fal[d].operation = "ERASE" => fal[d].address % BlockCells = 0
    BY DEF RequestInBounds
  <2>. DEFINE f == fal[d]
  <2>1. /\ f \in Fals /\ asked[d] \in Jobs /\ f.operation \in Operations
        /\ Underway(f, chip[d], asked[d], flash[d])
    BY DeviceFacts
  <2>2. Remainder(f, asked[d]) /\ f.remaining \in Nat
    BY <2>1 DEF Underway, Fals
  <2>3. f.chunk_length # 0 => Chunked(f)
    BY <2>1 DEF Underway, Issues, Synchronising
  <2>. HIDE DEF f
  <2>4. /\ f.chunk_length <= f.remaining
        /\ f.operation = "WRITE" /\ f.chunk_length # 0 =>
             (f.address % PageCells) + f.chunk_length <= PageCells
    <3>1. CASE f.chunk_length = 0
      BY <2>2, <3>1
    <3>2. CASE f.chunk_length # 0
      <4>1. f.remaining # 0 /\ f.chunk_length = Chunk(f)
        BY <2>3, <3>2 DEF Chunked
      <4>. QED BY <2>1, <2>2, <4>1, ChunkFacts
    <3>. QED BY <3>1, <3>2
  <2>. QED BY <2>2, <2>4 DEF Remainder, f
<1>. QED BY <1>1, Invariance, PTL

(* A request answered SUCCESS has taken effect on every cell it was about. *)
LEMMA SuccessTells ==
  ASSUME IInv, NEW d \in Devices, Busy(d), fal'[d].result = "SUCCESS", Process(d)
  PROVE  TookEffect(flash[d], asked[d])
<1>. DEFINE f == fal[d]
            c == chip[d]
            job == asked[d]
<1>1. /\ f \in Fals /\ job \in Jobs /\ f.operation \in Operations
      /\ Underway(f, c, job, flash[d])
  BY DeviceFacts
<1>2. f.result = "IN_PROGRESS" /\ Remainder(f, job)
  BY <1>1 DEF Underway
<1>3. /\ f.address \in Nat /\ f.chunk_length \in Nat /\ f.remaining \in Nat
      /\ job.first \in Nat /\ job.length \in Nat
      /\ job.first <= f.address /\ f.address + f.remaining = job.first + job.length
  BY <1>1, <1>2 DEF Fals, Jobs, Remainder
<1>4. CASE Achieved(f, c) = job.first + job.length
  <2>1. \A a \in Addresses : Covers(job, a) => Holds(flash[d], job, a)
    BY <1>1, <1>4 DEF Underway, Effective, Covers
  <2>. QED BY <2>1 DEF TookEffect
<1>5. CASE DeviceError(d) \/ IssueRefused(d) \/ SyncRefused(d)
  <2>1. fal'[d] = Finished(f, "DRIVER_ERROR")
    BY <1>5 DEF DeviceError, IssueRefused, SyncRefused, IInv, TypeOK
  <2>. QED BY <1>1, <2>1, FinishedFacts
<1>6. CASE Issue(d)
  <2>1. fal'[d].result = f.result
    BY <1>1, <1>6 DEF Issue, Fals, IInv, TypeOK
  <2>. QED BY <1>2, <2>1
<1>7. CASE ChunkDone(d)
  <2>1. Waited(d) /\ f.chunk_length # 0
    BY <1>7 DEF ChunkDone
  <2>2. Chunked(f) /\ c.state = "READY"
    BY <1>1, <2>1 DEF Waited, Underway, Issues, Synchronising, Operations
  <2>. DEFINE g == Committed(f)
  <2>3. g \in Fals /\ g.result = f.result
    BY <1>1, <1>2, <2>2, CommittedFacts
  <2>4. g.remaining = f.remaining - f.chunk_length
    BY <1>1 DEF Committed, Fals
  <2>5. CASE g.remaining = 0
    <3>1. Achieved(f, c) = f.address + f.chunk_length
      BY <2>2 DEF Achieved
    <3>. HIDE DEF g
    <3>2. Achieved(f, c) = job.first + job.length
      BY <1>3, <2>4, <2>5, <3>1
    <3>. QED BY <1>4, <3>2
  <2>6. CASE g.remaining # 0
    <3>1. fal'[d] = [g EXCEPT !.state = g.operation]
      BY <1>7, <2>6 DEF ChunkDone, IInv, TypeOK
    <3>2. fal'[d].result = g.result
      <4>. HIDE DEF g
      <4>. QED BY <2>3, <3>1 DEF Fals
    <3>. QED BY <1>2, <2>3, <3>2
  <2>. QED BY <2>5, <2>6
<1>8. CASE SyncDone(d)
  <2>1. f.chunk_length = 0 /\ f.state = "WAIT_DEVICE" /\ c.state = "READY"
    BY <1>8 DEF SyncDone, Waited
  <2>2. Synchronising(f) \/ Chunked(f)
    BY <1>1, <2>1 DEF Underway, Issues, Operations
  <2>3. Synchronising(f)
    <3>1. Chunked(f) => Chunk(f) # 0 /\ f.chunk_length = Chunk(f)
      BY <1>1, <1>2, ChunkFacts DEF Chunked
    <3>. QED BY <2>1, <2>2, <3>1
  <2>4. Achieved(f, c) = f.address + 0 /\ f.remaining = 0
    BY <2>3 DEF Achieved, Chunked, Synchronising
  <2>5. Achieved(f, c) = job.first + job.length
    BY <1>3, <2>4
  <2>. QED BY <1>4, <2>5
<1>. QED BY <1>5, <1>6, <1>7, <1>8 DEF Process

(* Whatever becomes of the operation a device is carrying out, only cells  *)
(* of the request under way change.                                        *)
LEMMA OnlyWhatIsAsked ==
  ASSUME IInv, NEW d \in Devices, NEW after \in Interrupted(flash[d], chip[d].job),
         NEW a \in Addresses, after[a] # flash[d][a]
  PROVE  Busy(d) /\ Covers(chip[d].job, a) /\ Covers(asked[d], a)
<1>1. Covers(chip[d].job, a)
  BY OutsideUnchanged
<1>2. Busy(d)
  <2>1. ~Covers(NoJob, a)
    BY AddressesAreNat DEF Covers, NoJob, Job
  <2>. QED BY <1>1, <2>1, DeviceFacts DEF Resting
<1>. QED BY <1>1, <1>2, DeviceFacts, AssignedCovers

(* A request that is answered SUCCESS has taken effect on every cell it    *)
(* was about, and no step of anyone, a failing device and a power loss     *)
(* included, changes a cell that the request under way is not about.       *)
THEOREM Effect == FalSpec => DoesWhatIsAsked
<1>. DEFINE Tells(d) == Busy(d) /\ fal'[d].result = "SUCCESS" /\ Process(d) => TookEffect(flash[d], asked[d])
            Spares(d) == flash'[d] # flash[d] =>
                           \A a \in Addresses : flash'[d][a] # flash[d][a] => Covers(asked[d], a)
<1>1. ASSUME IInv, NEW d \in Devices
      PROVE  Tells(d)
  BY <1>1, SuccessTells
<1>2. ASSUME IInv, [FalNext]_falVars, NEW d \in Devices
      PROVE  Spares(d)
  <2>. SUFFICES ASSUME IInv, [FalNext]_falVars, NEW a \in Addresses, flash'[d][a] # flash[d][a]
                PROVE  Covers(asked[d], a)
    BY <1>2
  <2>1. flash' # flash
    OBVIOUS
  <2>2. \/ flash'[d] = flash[d]
        \/ flash'[d] = Worked(flash[d], chip[d].job)
        \/ flash'[d] \in Interrupted(flash[d], chip[d].job)
    <3>1. CASE PowerLoss
      BY <3>1 DEF PowerLoss
    <3>2. ASSUME NEW e \in Devices, ChipDone(e) \/ ChipFails(e)
          PROVE  \/ flash'[d] = flash[d]
                 \/ flash'[d] = Worked(flash[d], chip[d].job)
                 \/ flash'[d] \in Interrupted(flash[d], chip[d].job)
      <4>1. PICK cells : /\ flash' = [flash EXCEPT ![e] = cells]
                         /\ \/ cells = Worked(flash[e], chip[e].job)
                            \/ cells \in Interrupted(flash[e], chip[e].job)
        BY <3>2 DEF ChipDone, ChipFails
      <4>. QED BY <4>1 DEF IInv, TypeOK
    <3>3. ASSUME NEW e \in Devices, User(e) \/ Process(e)
          PROVE  FALSE
      BY <2>1, <3>3 DEF User, Request, StopRequest, Mount, MountFails, Process, DeviceError, Issue,
           IssueRefused, ChunkDone, SyncRefused, SyncDone
    <3>. QED BY <2>1, <3>1, <3>2, <3>3 DEF FalNext, falVars
  <2>3. flash'[d] \in Interrupted(flash[d], chip[d].job)
    BY <2>2, WorkedIsInterrupted DEF Interrupted
  <2>. QED BY <2>3, OnlyWhatIsAsked
<1>3. IInv /\ [FalNext]_falVars =>
        [\A d \in Devices :
           /\ Busy(d) /\ fal'[d].result = "SUCCESS" /\ Process(d) => TookEffect(flash[d], asked[d])
           /\ flash'[d] # flash[d] =>
                \A a \in Addresses : flash'[d][a] # flash[d][a] => Covers(asked[d], a)]_falVars
  BY <1>1, <1>2
<1>. QED BY <1>3, Invariance, PTL DEF FalSpec, DoesWhatIsAsked
=============================================================================
