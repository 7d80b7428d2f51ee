---------------------------- MODULE DemoStorage -----------------------------
(***************************************************************************)
(* The parameter and log store of the FAL demo: the storage task, which    *)
(* polls the instances of Fal and then runs demo_storage_service_process,  *)
(* and the data pool through which business code gives it one request at a *)
(* time.  Power may fail at any point; only the flash survives.            *)
(*                                                                         *)
(* A cell of flash is a page; a block has its two pages that matter.  The  *)
(* two pages of a record are a data page and a commit page; a CRC is the   *)
(* content it is taken over.  The task owns the instances, so what it has  *)
(* read is still what flash holds and its page buffers are left out.       *)
(***************************************************************************)
EXTENDS Fal, FiniteSets

CONSTANTS
  LogBlocks,    (* DEMO_FAL_LOG_BLOCKS                                     *)
  SequenceMod,  (* 2^32                                                    *)
  Params, Defaults,
  Commands,     (* commands the business code gives                        *)
  MaxRequests   (* bound: requests in a behaviour                          *)

VARIABLES
  pool,     (* the data pool and its command slot                          *)
  worker,   (* the transaction                                             *)
  view,     (* what the service knows of each device                       *)
  kept,     (* history: the last entries that became valid in each log     *)
  requests  (* number of requests so far                                   *)

vars == <<falVars, pool, worker, view, kept, requests>>
workerVars == <<worker, view>>

(* Zones in the order of nor_zones and nand_zones.                         *)
ParamSlots == {0, 1}
LogSlots == 0 .. LogBlocks - 1
ParamZone(slot) == slot + 1
TestZone == 3
LogZone == 4

ASSUME StorageAssumption ==
  /\ Devices = {0, 1} /\ ZoneCount = 5 /\ PageCells = 1 /\ BlockCells = 2
  /\ LogBlocks \in Nat \ {0} /\ Size(LogZone) = 2 * LogBlocks /\ Size(TestZone) = 4
  /\ SequenceMod \in Nat /\ SequenceMod > 2 * LogBlocks /\ SequenceMod > 4
  /\ Defaults \in Params /\ MaxRequests \in Nat
  /\ Commands \subseteq {"SCAN", "SAVE", "LOAD", "LOG", "TEST", "DEFAULTS"}
----------------------------------------------------------------------------
(* demo_storage_record.                                                    *)

Record(part, kind, sequence, params) ==
  [part |-> part, kind |-> kind, sequence |-> sequence, params |-> params]
Pages == [part : {"data", "commit"}, kind : {"params", "log", "test"},
          sequence : 0 .. SequenceMod - 1, params : Params]
ASSUME PageAssumption ==
  {Erased, Torn, NONE} \cap Pages = {} /\ {<<page>> : page \in Pages} \subseteq Payloads

Written(cell, part, kind) == cell \notin {Erased, Torn} /\ cell.part = part /\ cell.kind = kind

Newer_Unsigned(candidate, current) == candidate > current
Newer(candidate, current) ==
  LET distance == (candidate - current) % SequenceMod
  IN candidate # 0 /\ (current = 0 \/ (distance # 0 /\ 2 * distance < SequenceMod))
After_Zero(sequence) == (sequence + 1) % SequenceMod
After(sequence) == IF sequence + 1 = SequenceMod THEN 1 ELSE sequence + 1

DataValid(cell, kind) == Written(cell, "data", kind) /\ cell.sequence # 0
Matches(data, commit) ==
  /\ Written(commit, "commit", data.kind)
  /\ commit.sequence = data.sequence /\ commit.params = data.params
----------------------------------------------------------------------------
(* The service.                                                            *)

NoRequest == [id |-> 0, device |-> 0, command |-> "SCAN", params |-> Defaults]
Fresh == [online |-> FALSE, valid |-> FALSE, sequence |-> 0, active_slot |-> 0,
          recovered |-> Defaults, log_sequence |-> 0, log_slot |-> 0]

ScanBegun(v) == [v EXCEPT !.valid = FALSE, !.sequence = 0, !.log_sequence = 0,
                          !.log_slot = LogBlocks - 1]
Scanning(w) == [w EXCEPT !.phase = "SCAN_DATA", !.scan_slot = 0, !.scan_failed = FALSE]

Idle == [phase |-> "IDLE", request |-> NoRequest, scan_slot |-> 0, scan_failed |-> FALSE,
         waiting |-> FALSE, booting |-> FALSE, restore |-> FALSE, target_zone |-> 0,
         target_offset |-> 0, next_sequence |-> 0, outcome |-> "OK"]

(* demo_storage_service_init and boot_begin: the instances are mounted, and *)
(* the service owns the pool until both devices are scanned.               *)
Booting == [Scanning(Idle) EXCEPT !.booting = TRUE]
BootPool == [params |-> Defaults, busy |-> TRUE, taken |-> TRUE, request |-> NoRequest,
             request_id |-> 0, completed_id |-> 0, result |-> "OK"]
BootView(instances) ==
  [d \in Devices |-> LET v == [Fresh EXCEPT !.online = instances[d].state = "IDLE"]
                     IN IF d = 0 THEN ScanBegun(v) ELSE v]

Device == worker.request.device
Instance == fal[Device]
Page(zone, offset) == flash[Device][ZoneStart[zone] + offset]
Phase(p) == worker.phase = p
Service == UNCHANGED <<pool, kept, requests>>

(* transfer: submitted by one call, and over when FAL is idle again.       *)
Submits(operation, zone, offset, length, data) ==
  /\ ~worker.waiting
  /\ Verdict(Device, operation, zone, offset, length) = "IN_PROGRESS"
  /\ Request(Device, operation, zone, offset, length, data)
  /\ worker' = [worker EXCEPT !.waiting = TRUE]
  /\ UNCHANGED view
Transferred == worker.waiting /\ ~Busy(Device)
Succeeded == Instance.result = "SUCCESS"
Ended(w, phase) == [w EXCEPT !.waiting = FALSE, !.phase = phase]
Ends(w, outcome) == [Ended(w, "FINISH") EXCEPT !.outcome = outcome]

(* Any failed operation ends the transaction and takes the device offline. *)
IoFails ==
  /\ worker' = Ends(worker, Instance.result)
  /\ view' = [view EXCEPT ![Device].online = FALSE]
  /\ UNCHANGED falVars

Take ==
  /\ Phase("IDLE") /\ pool.busy /\ ~pool.taken
  /\ pool' = [pool EXCEPT !.taken = TRUE]
  /\ LET r == pool.request
         w == [Idle EXCEPT !.request = r]
         v == view[r.device]
     IN \/ /\ r.command = "DEFAULTS"
           /\ worker' = [Ended(w, "FINISH") EXCEPT !.restore = TRUE]
           /\ view' = [view EXCEPT ![r.device].recovered = Defaults]
           /\ UNCHANGED falVars
        \/ /\ r.command = "TEST" /\ UNCHANGED <<view, falVars>>
           /\ worker' = IF v.online
                        THEN [Ended(w, "ERASE") EXCEPT !.target_zone = TestZone,
                                !.target_offset = BlockCells - 1, !.next_sequence = r.id]
                        ELSE Ends(w, "OFFLINE")
        \/ /\ r.command \notin {"DEFAULTS", "TEST"} /\ worker' = Scanning(w)
           /\ \/ /\ Mount(r.device)
                 /\ view' = [view EXCEPT ![r.device] = ScanBegun([@ EXCEPT !.online = TRUE])]
              \/ /\ MountFails(r.device)
                 /\ view' = [view EXCEPT ![r.device] = ScanBegun([@ EXCEPT !.online = FALSE])]
  /\ UNCHANGED <<kept, requests>>

(* The scan: parameter slots 0 and 1, then the blocks of the log.          *)
ScanZone == IF worker.scan_slot \in ParamSlots THEN ParamZone(worker.scan_slot) ELSE LogZone
ScanOffset == IF worker.scan_slot \in ParamSlots THEN 0 ELSE (worker.scan_slot - 2) * BlockCells
ScanKind == IF worker.scan_slot \in ParamSlots THEN "params" ELSE "log"

ScanSubmit ==
  /\ \/ Phase("SCAN_DATA") /\ view[Device].online
        /\ Submits("READ", ScanZone, ScanOffset, 1, << >>)
     \/ Phase("SCAN_COMMIT") /\ Submits("READ", ScanZone, ScanOffset + 1, 1, << >>)
  /\ Service

ScanOffline ==
  /\ Phase("SCAN_DATA") /\ ~view[Device].online /\ ~worker.waiting
  /\ worker' = [worker EXCEPT !.phase = "DECIDE"]
  /\ UNCHANGED <<falVars, view>> /\ Service

Advanced(w) ==
  [Ended(w, IF w.scan_slot + 1 < LogBlocks + 2 THEN "SCAN_DATA" ELSE "DECIDE")
     EXCEPT !.scan_slot = @ + 1]

ScanData ==
  /\ Phase("SCAN_DATA") /\ Transferred /\ Succeeded
  /\ worker' = IF DataValid(Page(ScanZone, ScanOffset), ScanKind)
               THEN Ended(worker, "SCAN_COMMIT") ELSE Advanced(worker)
  /\ UNCHANGED <<falVars, view>> /\ Service

(* A record counts if its two pages belong together and it is newer than   *)
(* the newest so far.                                                      *)
Adopted(v, slot, data) ==
  IF slot \in ParamSlots
    THEN IF ~Newer(data.sequence, v.sequence) THEN v
         ELSE [v EXCEPT !.sequence = data.sequence, !.valid = TRUE, !.active_slot = slot,
                        !.recovered = data.params]
    ELSE IF ~Newer(data.sequence, v.log_sequence) THEN v
         ELSE [v EXCEPT !.log_sequence = data.sequence, !.log_slot = slot - 2]

ScanCommit ==
  /\ Phase("SCAN_COMMIT") /\ Transferred /\ Succeeded
  /\ LET data == Page(ScanZone, ScanOffset)
     IN view' = IF Matches(data, Page(ScanZone, ScanOffset + 1))
                THEN [view EXCEPT ![Device] = Adopted(@, worker.scan_slot, data)] ELSE view
  /\ worker' = Advanced(worker)
  /\ UNCHANGED falVars /\ Service

(* A slot that cannot be read is noted, and the device mounted again.      *)
ScanError ==
  /\ Phase("SCAN_DATA") \/ Phase("SCAN_COMMIT")
  /\ Transferred /\ ~Succeeded
  /\ worker' = [Advanced(worker) EXCEPT !.scan_failed = TRUE]
  /\ \/ Mount(Device) /\ view' = [view EXCEPT ![Device].online = TRUE]
     \/ MountFails(Device) /\ view' = [view EXCEPT ![Device].online = FALSE]
  /\ Service

(* decide.                                                                 *)
BootDecide ==
  /\ Phase("DECIDE") /\ worker.booting
  /\ \/ /\ Device = 0
        /\ worker' = [Scanning(worker) EXCEPT !.request.device = 1]
        /\ view' = [view EXCEPT ![1] = ScanBegun(@)]
     \/ /\ Device = 1
        /\ worker' = [worker EXCEPT !.phase = "FINISH", !.request.device = 0,
                                    !.restore = view[0].valid]
        /\ UNCHANGED view
  /\ UNCHANGED falVars /\ Service

Unwritable_IgnoresScan(w, v) == IF ~v.online THEN "OFFLINE" ELSE "OK"
Unwritable(w, v) ==
  CASE ~v.online -> "OFFLINE" [] v.online /\ w.scan_failed -> "SCAN_FAILED" [] OTHER -> "OK"

TargetSlot_Active(v) == v.active_slot
TargetSlot(v) == IF v.valid THEN 1 - v.active_slot ELSE 0

Decide ==
  /\ Phase("DECIDE") /\ ~worker.booting
  /\ LET v == view[Device]
         unwritable == Unwritable(worker, v)
     IN worker' =
          CASE worker.request.command = "SCAN" ->
                 Ends(worker, IF v.online /\ ~worker.scan_failed THEN "OK" ELSE "OFFLINE")
            [] worker.request.command = "LOAD" ->
                 [Ends(worker, IF v.valid THEN "OK" ELSE IF v.online THEN "NO_RECORD" ELSE "OFFLINE")
                    EXCEPT !.restore = v.valid]
            [] worker.request.command = "SAVE" ->
                 IF unwritable # "OK" THEN Ends(worker, unwritable)
                 ELSE [worker EXCEPT !.phase = "ERASE", !.target_zone = ParamZone(TargetSlot(v)),
                         !.target_offset = 0, !.next_sequence = After(v.sequence)]
            [] worker.request.command = "LOG" ->
                 IF unwritable # "OK" THEN Ends(worker, unwritable)
                 ELSE [worker EXCEPT !.phase = "ERASE", !.target_zone = LogZone,
                         !.target_offset = ((v.log_slot + 1) % LogBlocks) * BlockCells,
                         !.next_sequence = After(v.log_sequence)]
  /\ UNCHANGED <<view, falVars>> /\ Service

(* The write: erase, data page, read it back, commit page, read it back.   *)
Kind == CASE worker.request.command = "SAVE" -> "params"
          [] worker.request.command = "LOG" -> "log"
          [] OTHER -> "test"
Content == IF worker.request.command = "TEST" THEN Defaults ELSE worker.request.params
DataPage == Record("data", Kind, worker.next_sequence, Content)
CommitPage == Record("commit", Kind, worker.next_sequence, Content)

WriteSubmit ==
  /\ \/ /\ Phase("ERASE") /\ worker.request.command # "TEST"
        /\ Submits("ERASE", worker.target_zone, worker.target_offset, BlockCells, << >>)
     \/ /\ Phase("ERASE") /\ worker.request.command = "TEST"
        /\ Submits("ERASE", worker.target_zone, 0, 2 * BlockCells, << >>)
     \/ /\ Phase("WRITE")
        /\ Submits("WRITE", worker.target_zone, worker.target_offset, 1, <<DataPage>>)
     \/ /\ Phase("VERIFY")
        /\ Submits("READ", worker.target_zone, worker.target_offset, 1, << >>)
     \/ /\ Phase("COMMIT")
        /\ Submits("WRITE", worker.target_zone, worker.target_offset + 1, 1, <<CommitPage>>)
     \/ /\ Phase("VERIFY_COMMIT")
        /\ Submits("READ", worker.target_zone, worker.target_offset + 1, 1, << >>)
  /\ Service

NextPhase == [ERASE |-> "WRITE", WRITE |-> "VERIFY", COMMIT |-> "VERIFY_COMMIT"]
WriteStep ==
  /\ worker.phase \in DOMAIN NextPhase /\ Transferred /\ Succeeded
  /\ worker' = Ended(worker, NextPhase[worker.phase])
  /\ UNCHANGED <<falVars, view>> /\ Service

Verify ==
  /\ Phase("VERIFY") /\ Transferred /\ Succeeded
  /\ worker' = IF Page(worker.target_zone, worker.target_offset) = DataPage
               THEN Ended(worker, "COMMIT") ELSE Ends(worker, "MISMATCH")
  /\ UNCHANGED <<falVars, view>> /\ Service

VerifyCommit ==
  /\ Phase("VERIFY_COMMIT") /\ Transferred /\ Succeeded
  /\ LET matches == Page(worker.target_zone, worker.target_offset + 1) = CommitPage
     IN /\ worker' = Ends(worker, IF matches THEN "OK" ELSE "MISMATCH")
        /\ view' = IF matches /\ worker.request.command = "SAVE"
                   THEN [view EXCEPT ![Device].valid = TRUE,
                                     ![Device].sequence = worker.next_sequence,
                                     ![Device].active_slot = worker.target_zone - 1]
                   ELSE view
  /\ UNCHANGED falVars /\ Service

WriteError ==
  /\ worker.phase \in {"ERASE", "WRITE", "VERIFY", "COMMIT", "VERIFY_COMMIT"}
  /\ Transferred /\ ~Succeeded
  /\ IoFails /\ Service

(* demo_storage_exchange_finish.                                           *)
Finish ==
  /\ Phase("FINISH") /\ pool.busy /\ pool.taken /\ pool.request.id = worker.request.id
  /\ pool' = [pool EXCEPT !.params = IF worker.restore THEN view[Device].recovered ELSE @,
                !.result = worker.outcome, !.completed_id = worker.request.id,
                !.busy = FALSE, !.taken = FALSE]
  /\ worker' = [worker EXCEPT !.phase = "IDLE", !.booting = FALSE]
  /\ UNCHANGED <<falVars, view, kept, requests>>

ServiceProcess ==
  \/ Take \/ ScanSubmit \/ ScanOffline \/ ScanData \/ ScanCommit \/ ScanError
  \/ BootDecide \/ Decide \/ WriteSubmit \/ WriteStep \/ Verify \/ VerifyCommit \/ WriteError
  \/ Finish
----------------------------------------------------------------------------
(* The business side.  A call that finds the pool locked does nothing.     *)

Configure(params) ==
  /\ ~pool.busy
  /\ pool' = [pool EXCEPT !.params = params]
  /\ UNCHANGED <<falVars, workerVars, kept, requests>>

RequestCommand(device, command) ==
  /\ ~pool.busy /\ requests < MaxRequests /\ requests' = requests + 1
  /\ LET id == IF pool.request_id + 1 = SequenceMod THEN 1 ELSE pool.request_id + 1
     IN pool' = [pool EXCEPT !.request_id = id, !.busy = TRUE, !.taken = FALSE,
                   !.request = [id |-> id, device |-> device, command |-> command,
                                params |-> pool.params]]
  /\ UNCHANGED <<falVars, workerVars, kept>>

Business ==
  \/ \E params \in Params : Configure(params)
  \/ \E d \in Devices, command \in Commands : RequestCommand(d, command)
----------------------------------------------------------------------------
(* Flash, seen as records.                                                 *)

Intact(cells, kind, starts) ==
  {cells[a] : a \in {b \in starts : DataValid(cells[b], kind) /\ Matches(cells[b], cells[b + 1])}}
ParamRecords(cells) == Intact(cells, "params", {ZoneStart[ParamZone(s)] : s \in ParamSlots})
LogRecords(cells) == Intact(cells, "log", {ZoneStart[LogZone] + BlockCells * s : s \in LogSlots})
Newest(records) ==
  IF records = {} THEN NONE
  ELSE CHOOSE r \in records : \A q \in records : q = r \/ Newer(r.sequence, q.sequence)

(* The entries a log must not have lost: all that became valid, but for    *)
(* the one block being rewritten.                                          *)
Remembered(entries, cells, cellsNext) ==
  LET all == entries \o (IF LogRecords(cellsNext) \subseteq LogRecords(cells) THEN << >>
                         ELSE <<CHOOSE r \in LogRecords(cellsNext) : r \notin LogRecords(cells)>>)
  IN SubSeq(all, IF Len(all) < LogBlocks THEN 1 ELSE Len(all) - LogBlocks + 2, Len(all))

Remember == kept' = [d \in Devices |-> Remembered(kept[d], flash[d], flash'[d])]

ChipStep(d) ==
  /\ ChipDone(d) \/ ChipFails(d)
  /\ Remember /\ UNCHANGED <<workerVars, pool, requests>>

FalProcess(d) == Process(d) /\ UNCHANGED <<workerVars, pool, kept, requests>>

Reset ==
  /\ PowerLoss /\ Remember
  /\ pool' = BootPool /\ worker' = Booting /\ view' = BootView(fal') /\ UNCHANGED requests

(* A device is blank, or has served until its sequence numbers wrap.       *)
Worn ==
  LET At(a, zone) == a \in {ZoneStart[zone], ZoneStart[zone] + 1}
      Part(a) == IF a % BlockCells = 0 THEN "data" ELSE "commit"
      Block(a) == (a - ZoneStart[LogZone]) \div BlockCells
  IN [a \in Addresses |->
        CASE At(a, ParamZone(0)) -> Record(Part(a), "params", SequenceMod - 1, Defaults)
          [] At(a, ParamZone(1)) -> Record(Part(a), "params", SequenceMod - 2, Defaults)
          [] a >= ZoneStart[LogZone] ->
               Record(Part(a), "log", SequenceMod - LogBlocks + Block(a), Defaults)
          [] OTHER -> Erased]
WornLog == [i \in 1 .. LogBlocks - 1 |-> Worn[ZoneStart[LogZone] + BlockCells * i]]

StorageInit ==
  /\ \E cells \in [Devices -> {Blank, Worn}] :
       /\ FalInit(cells)
       /\ kept = [d \in Devices |-> IF cells[d] = Blank THEN << >> ELSE WornLog]
  /\ pool = BootPool /\ worker = Booting /\ view = BootView(fal) /\ requests = 0

Next ==
  \/ ServiceProcess \/ Business \/ Reset
  \/ \E d \in Devices : FalProcess(d) \/ ChipStep(d)

StorageSpec == StorageInit /\ [][Next]_vars

(* The task runs every millisecond, and the devices end what they began.   *)
Fairness ==
  /\ WF_vars(ServiceProcess)
  /\ \A d \in Devices : WF_vars(FalProcess(d)) /\ WF_vars(ChipStep(d))
----------------------------------------------------------------------------
(* Properties.                                                             *)

(* On each device the two parameter slots are one register: whatever fails *)
(* or loses power, the newest record is the last one saved or the one then *)
(* being saved; an unreadable slot is never overwritten.                   *)
Saving(d) == Device = d /\ worker.request.command = "SAVE" /\ ~worker.booting
             /\ worker.phase \in {"ERASE", "WRITE", "VERIFY", "COMMIT", "VERIFY_COMMIT"}
Stored(d) == Newest(ParamRecords(flash[d]))
Slot(d) == flash[d][ZoneStart[ParamZone(view[d].active_slot)]]
Register(d) == INSTANCE DurableRegister WITH
  Records <- [part : {"data"}, kind : {"params"}, sequence : 1 .. SequenceMod - 1,
              params : Params],
  acknowledged <- IF Saving(d) THEN (IF view[d].valid THEN Slot(d) ELSE NONE) ELSE Stored(d),
  value <- Stored(d),
  proposal <- IF Saving(d) THEN DataPage ELSE NONE
SavesAreAtomic == [][\A d \in Devices : Register(d)!Step]_vars

(* The log loses only the block it is about to reuse: the last LogBlocks-1 *)
(* entries that became valid are in flash at every moment, and the scan's  *)
(* rule finds the last of them.                                            *)
LogKept ==
  \A d \in Devices :
    /\ \A i \in DOMAIN kept[d] : kept[d][i] \in LogRecords(flash[d])
    /\ kept[d] # << >> => Newest(LogRecords(flash[d])) = kept[d][Len(kept[d])]

(* A result reported to the pool is true of the flash: a saved or logged   *)
(* record is the newest on its device, and a load that could read          *)
(* everything gives back the newest, although faults, a remount or a power *)
(* loss may have come between.                                             *)
ReportsAreTrue ==
  [][Finish /\ pool'.result = "OK" /\ worker.booting = FALSE =>
       LET r == worker.request
       IN /\ r.command = "SAVE" => Stored(r.device).params = r.params
          /\ r.command = "LOG" => Newest(LogRecords(flash[r.device])).params = r.params
          /\ r.command = "LOAD" /\ ~worker.scan_failed => pool'.params = Stored(r.device).params]_vars

(* A request is always completed, whatever fails on the way.               *)
RequestCompletes == pool.busy ~> ~pool.busy
=============================================================================
