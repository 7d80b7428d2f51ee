-------------------------------- MODULE Fal ---------------------------------
(***************************************************************************)
(* The flash abstraction layer of code/lib/fal: one asynchronous request   *)
(* at a time per instance, validated against a zone, cut into chunks that  *)
(* the device accepts, and advanced by fal_process polling the device.     *)
(*                                                                         *)
(* Addresses count cells: a cell is the smallest unit the properties tell  *)
(* apart.  Every instance manages one device and all have the same layout, *)
(* as in the demo's configuration.  The device is external: it accepts one *)
(* operation, is busy, and ends it or fails; a failure lasts until it is   *)
(* initialised again.                                                      *)
(***************************************************************************)
EXTENDS Integers, Sequences

CONSTANTS
  Devices,
  ZoneCount,
  ZoneStart,    (* start of each zone; [ZoneCount] is the capacity         *)
  Permissions,  (* operations each zone allows                             *)
  PageCells,    (* program_page_size                                       *)
  BlockCells,   (* erase_block_size                                        *)
  UnitCells,    (* program_unit_size                                       *)
  MaxRead,      (* max_read_size                                           *)
  SyncDevices,  (* devices with p_sync                                     *)
  Failing,      (* kinds of failure considered                             *)
  MaxFaults,    (* bound: failures and power losses in a behaviour         *)
  Erased, Torn, NONE

Zones == 0 .. ZoneCount - 1
Capacity == ZoneStart[ZoneCount]
Addresses == 0 .. Capacity - 1
Operations == {"READ", "WRITE", "ERASE"}

(* device_validate and zone_validate; the start of a zone is accumulated   *)
(* from the sizes of those before it.                                      *)
ASSUME FalAssumption ==
  /\ {ZoneCount, PageCells, BlockCells, UnitCells, MaxRead} \subseteq Nat \ {0}
  /\ ZoneStart \in [0 .. ZoneCount -> Nat] /\ ZoneStart[0] = 0
  /\ \A z \in Zones : ZoneStart[z] < ZoneStart[z + 1]
  /\ \A z \in 0 .. ZoneCount : ZoneStart[z] % BlockCells = 0
  /\ PageCells % UnitCells = 0 /\ BlockCells % UnitCells = 0
  /\ Permissions \in [Zones -> SUBSET Operations]
  /\ MaxFaults \in Nat

VARIABLES
  flash,  (* cells of each device                                          *)
  chip,   (* device state and the operation it is carrying out             *)
  fal,    (* fal_t of each instance                                        *)
  asked,  (* history: the cells the last accepted request is about         *)
  faults

falVars == <<flash, chip, fal, asked, faults>>

Job(kind, first, length, data) ==
  [kind |-> kind, first |-> first, length |-> length, data |-> data]
NoJob == Job("NONE", 0, 0, << >>)
Ready == [state |-> "READY", job |-> NoJob]

Mounted == [state |-> "IDLE", operation |-> "NONE", address |-> 0, remaining |-> 0,
            chunk_length |-> 0, data |-> << >>, stop_requested |-> FALSE,
            sync_issued |-> FALSE, result |-> "SUCCESS"]
MountFailed == [Mounted EXCEPT !.state = "ERROR", !.result = "DRIVER_ERROR"]

Blank == [a \in Addresses |-> Erased]
FalInit(cells) ==
  /\ flash = cells
  /\ chip = [d \in Devices |-> Ready]
  /\ fal = [d \in Devices |-> Mounted]
  /\ asked = [d \in Devices |-> NoJob]
  /\ faults = 0

Fault(kind) == kind \in Failing /\ faults < MaxFaults /\ faults' = faults + 1
----------------------------------------------------------------------------
(* Requests.                                                               *)

Busy(d) == fal[d].operation # "NONE"
Size(z) == ZoneStart[z + 1] - ZoneStart[z]

(* What a request returns, in the order of the checks.  Zones are whole    *)
(* blocks, so an erase rounded to blocks stays inside.                     *)
Verdict(d, operation, z, offset, length) ==
  CASE fal[d].state = "STOPPED" -> "STOPPED"
    [] fal[d].state = "ERROR" -> "CONFIG_ERROR"
    [] fal[d].state \notin {"STOPPED", "ERROR"} /\ Busy(d) -> "BUSY"
    [] OTHER ->
         IF operation \notin Permissions[z] THEN "PERMISSION_DENIED"
         ELSE IF offset > Size(z) \/ length > Size(z) - offset THEN "OUT_OF_RANGE"
         ELSE IF length = 0 THEN "SUCCESS"
         ELSE IF operation = "WRITE" /\ ( \/ (ZoneStart[z] + offset) % UnitCells # 0
                                          \/ length % UnitCells # 0)
         THEN "INVALID_ARGUMENT"
         ELSE "IN_PROGRESS"

(* An erase covers every block it touches.                                 *)
RoundDown(cell) == cell - (cell % BlockCells)
RoundUp(cell) ==
  IF cell % BlockCells = 0 THEN cell ELSE cell + (BlockCells - (cell % BlockCells))

Extent(operation, z, offset, length, data) ==
  IF operation = "ERASE"
    THEN Job("ERASE", ZoneStart[z] + RoundDown(offset),
             RoundUp(offset + length) - RoundDown(offset), << >>)
    ELSE Job(operation, ZoneStart[z] + offset, length, data)

Begun(f, job) ==
  [f EXCEPT !.state = job.kind, !.operation = job.kind, !.address = job.first,
            !.remaining = job.length, !.chunk_length = 0, !.data = job.data,
            !.sync_issued = FALSE, !.result = "IN_PROGRESS"]

(* fal_read, fal_write, fal_erase: only an accepted request changes state, *)
(* and an empty one the result.                                            *)
Request(d, operation, z, offset, length, data) ==
  LET verdict == Verdict(d, operation, z, offset, length)
      job == Extent(operation, z, offset, length, data)
  IN /\ fal' = CASE verdict = "IN_PROGRESS" -> [fal EXCEPT ![d] = Begun(@, job)]
                 [] verdict = "SUCCESS" -> [fal EXCEPT ![d].result = "SUCCESS"]
                 [] OTHER -> fal
     /\ asked' = IF verdict = "IN_PROGRESS" THEN [asked EXCEPT ![d] = job] ELSE asked
     /\ UNCHANGED <<flash, chip, faults>>

StopRequest(d) ==
  /\ fal[d].state # "ERROR"
  /\ fal' = [fal EXCEPT ![d].stop_requested = TRUE,
                        ![d].state = IF Busy(d) THEN @ ELSE "STOPPED"]
  /\ UNCHANGED <<flash, chip, asked, faults>>

(* fal_runtime_mount: refused while a request is active, it forgets        *)
(* everything else, a stop included, and initialises the device.           *)
Mount(d) ==
  /\ ~Busy(d)
  /\ fal' = [fal EXCEPT ![d] = Mounted] /\ chip' = [chip EXCEPT ![d] = Ready]
  /\ UNCHANGED <<flash, asked, faults>>

MountFails(d) ==
  /\ ~Busy(d) /\ Fault("mount")
  /\ fal' = [fal EXCEPT ![d] = MountFailed]
  /\ UNCHANGED <<flash, chip, asked>>
----------------------------------------------------------------------------
(* fal_process on one instance.                                            *)

Finished(f, result) ==
  [Mounted EXCEPT !.result = result, !.stop_requested = f.stop_requested,
                  !.state = IF f.stop_requested THEN "STOPPED" ELSE "IDLE"]

(* A failed device ends the request whatever it was doing.                 *)
DeviceError(d) ==
  /\ Busy(d) /\ chip[d].state = "ERROR"
  /\ fal' = [fal EXCEPT ![d] = Finished(@, "DRIVER_ERROR")]
  /\ UNCHANGED <<flash, chip, asked, faults>>

(* A read is cut at max_read_size, a write at the end of a page, and an    *)
(* erase takes one block at a time.                                        *)
Smaller(m, n) == IF m < n THEN m ELSE n
Chunk(f) ==
  CASE f.operation = "READ"  -> Smaller(f.remaining, MaxRead)
    [] f.operation = "WRITE" -> Smaller(f.remaining, PageCells - (f.address % PageCells))
    [] f.operation = "ERASE" -> BlockCells
Submission(f) == Job(f.operation, f.address, Chunk(f), SubSeq(f.data, 1, Smaller(Chunk(f), Len(f.data))))

Issuing(d) == Busy(d) /\ fal[d].state = fal[d].operation /\ chip[d].state = "READY"

Issue(d) ==
  /\ Issuing(d)
  /\ chip' = [chip EXCEPT ![d] = [state |-> "BUSY", job |-> Submission(fal[d])]]
  /\ fal' = [fal EXCEPT ![d].chunk_length = Chunk(fal[d]), ![d].state = "WAIT_DEVICE"]
  /\ UNCHANGED <<flash, asked, faults>>

IssueRefused(d) ==
  /\ Issuing(d) /\ Fault("submit")
  /\ fal' = [fal EXCEPT ![d] = Finished(@, "DRIVER_ERROR")]
  /\ UNCHANGED <<flash, chip, asked>>

Waited(d) == Busy(d) /\ fal[d].state = "WAIT_DEVICE" /\ chip[d].state = "READY"

(* completed_chunk_commit.                                                 *)
Committed_Stuck(f) == [f EXCEPT !.chunk_length = 0]
Committed_InPlace(f) == [f EXCEPT !.remaining = @ - f.chunk_length, !.chunk_length = 0]
Committed(f) ==
  [f EXCEPT !.address = @ + f.chunk_length, !.remaining = @ - f.chunk_length,
            !.data = SubSeq(@, f.chunk_length + 1, Len(@)), !.chunk_length = 0]

(* A device with p_sync is synchronised once after the last chunk.         *)
Syncs(d) == d \in SyncDevices /\ ~fal[d].sync_issued

ChunkDone(d) ==
  /\ Waited(d) /\ fal[d].chunk_length # 0
  /\ LET f == Committed(fal[d])
     IN \/ /\ f.remaining # 0
           /\ fal' = [fal EXCEPT ![d] = [f EXCEPT !.state = f.operation]]
           /\ UNCHANGED chip
        \/ /\ f.remaining = 0 /\ Syncs(d)
           /\ fal' = [fal EXCEPT ![d] = [f EXCEPT !.sync_issued = TRUE]]
           /\ chip' = [chip EXCEPT ![d] = [state |-> "BUSY", job |-> NoJob]]
        \/ /\ f.remaining = 0 /\ ~Syncs(d)
           /\ fal' = [fal EXCEPT ![d] = Finished(f, "SUCCESS")]
           /\ UNCHANGED chip
  /\ UNCHANGED <<flash, asked, faults>>

SyncRefused(d) ==
  /\ Waited(d) /\ fal[d].chunk_length # 0 /\ Committed(fal[d]).remaining = 0 /\ Syncs(d)
  /\ Fault("submit")
  /\ fal' = [fal EXCEPT ![d] = Finished(@, "DRIVER_ERROR")]
  /\ UNCHANGED <<flash, chip, asked>>

SyncDone(d) ==
  /\ Waited(d) /\ fal[d].chunk_length = 0
  /\ fal' = [fal EXCEPT ![d] = Finished(@, IF fal[d].sync_issued THEN "SUCCESS"
                                           ELSE "CONFIG_ERROR")]
  /\ UNCHANGED <<flash, chip, asked, faults>>

Process(d) ==
  \/ DeviceError(d) \/ Issue(d) \/ IssueRefused(d)
  \/ ChunkDone(d) \/ SyncRefused(d) \/ SyncDone(d)
----------------------------------------------------------------------------
(* The device.  A cell that is not erased is torn by a program; a failed   *)
(* or interrupted operation leaves each of its cells as it was or torn, or *)
(* did everything.                                                         *)

Covers(job, a) == job.first <= a /\ a < job.first + job.length
Worked(cells, job) ==
  [a \in Addresses |->
     IF ~Covers(job, a) \/ job.kind \notin {"WRITE", "ERASE"} THEN cells[a]
     ELSE IF job.kind = "ERASE" THEN Erased
     ELSE IF cells[a] = Erased THEN job.data[a - job.first + 1] ELSE Torn]
Spoiled(cells, spoilt) == [a \in Addresses |-> IF a \in spoilt THEN Torn ELSE cells[a]]
Interrupted(cells, job) ==
  {cells, Worked(cells, job)} \cup
  IF job.kind \in {"WRITE", "ERASE"}
    THEN {Spoiled(cells, spoilt) : spoilt \in SUBSET {a \in Addresses : Covers(job, a)}}
    ELSE {}

Working(d) == chip[d].state = "BUSY"

ChipDone(d) ==
  /\ Working(d)
  /\ flash' = [flash EXCEPT ![d] = Worked(@, chip[d].job)]
  /\ chip' = [chip EXCEPT ![d] = Ready]
  /\ UNCHANGED <<fal, asked, faults>>

ChipFails(d) ==
  /\ Working(d) /\ Fault(chip[d].job.kind)
  /\ \E cells \in Interrupted(flash[d], chip[d].job) : flash' = [flash EXCEPT ![d] = cells]
  /\ chip' = [chip EXCEPT ![d] = [state |-> "ERROR", job |-> NoJob]]
  /\ UNCHANGED <<fal, asked>>

(* A reset loses every fal_t; the instances are mounted again at startup.  *)
PowerLoss ==
  /\ Fault("power")
  /\ \E cells \in [Devices -> UNION {Interrupted(flash[d], chip[d].job) : d \in Devices}] :
       /\ \A d \in Devices : cells[d] \in Interrupted(flash[d], chip[d].job)
       /\ flash' = cells
  /\ chip' = [d \in Devices |-> Ready]
  /\ fal' \in [Devices -> {Mounted} \cup (IF "mount" \in Failing THEN {MountFailed} ELSE {})]
  /\ asked' = [d \in Devices |-> NoJob]
----------------------------------------------------------------------------
(* Any user of the instances.                                              *)

CONSTANT Payloads  (* sequences of cells a user writes                     *)

Values == UNION {{data[i] : i \in DOMAIN data} : data \in Payloads}
ASSUME PayloadAssumption == Payloads \subseteq Seq(Values)

User(d) ==
  \/ \E operation \in {"READ", "ERASE"}, z \in Zones, offset, length \in 0 .. Capacity :
       Request(d, operation, z, offset, length, << >>)
  \/ \E z \in Zones, offset \in 0 .. Capacity, data \in Payloads :
       Request(d, "WRITE", z, offset, Len(data), data)
  \/ StopRequest(d) \/ Mount(d) \/ MountFails(d)

FalNext ==
  \/ \E d \in Devices : User(d) \/ Process(d) \/ ChipDone(d) \/ ChipFails(d)
  \/ PowerLoss

FalSpec == FalInit([d \in Devices |-> Blank]) /\ [][FalNext]_falVars
----------------------------------------------------------------------------
(* Properties.                                                             *)

(* What is left of a request is the end of what was asked for, inside one  *)
(* zone, the chunk under way is its beginning, and no program crosses a    *)
(* page nor an erase a block, whatever the layout and the chunk sizes.     *)
InOneZone(job) ==
  \E z \in Zones : ZoneStart[z] <= job.first /\ job.first + job.length <= ZoneStart[z + 1]
RequestInBounds ==
  \A d \in Devices : Busy(d) =>
    /\ InOneZone(asked[d]) /\ asked[d].first <= fal[d].address
    /\ fal[d].address + fal[d].remaining = asked[d].first + asked[d].length
    /\ fal[d].chunk_length <= fal[d].remaining
    /\ fal[d].operation = "WRITE" /\ fal[d].chunk_length # 0 =>
         (fal[d].address % PageCells) + fal[d].chunk_length <= PageCells
    /\ fal[d].operation = "ERASE" => fal[d].address % BlockCells = 0

(* A request that ends well has taken effect on all of its cells, however  *)
(* many chunks it took, and no request, failed or interrupted ones         *)
(* included, changes a cell it was not about.                              *)
Holds(cells, job, a) ==
  CASE job.kind = "ERASE" -> cells[a] = Erased
    [] job.kind = "WRITE" -> cells[a] \in {job.data[a - job.first + 1], Torn}
    [] OTHER -> TRUE
TookEffect(cells, job) == \A a \in Addresses : Covers(job, a) => Holds(cells, job, a)
DoesWhatIsAsked ==
  [][\A d \in Devices :
       /\ Busy(d) /\ fal'[d].result = "SUCCESS" /\ Process(d) => TookEffect(flash[d], asked[d])
       /\ flash'[d] # flash[d] =>
            \A a \in Addresses : flash'[d][a] # flash[d][a] => Covers(asked[d], a)]_falVars
=============================================================================
