----------------------------- MODULE Bootloader -----------------------------
(***************************************************************************)
(* The boot and installation state machine of code/app/bootloader/core:    *)
(* bootloader_process polled by the main loop, the three session calls of  *)
(* the protocol layer, asynchronous flash with failures, and power losses  *)
(* at any point.  Persistent state is the flash and the retained request;  *)
(* everything in bootloader_t is lost at a reset.                          *)
(*                                                                         *)
(* Data are abstracted to chunks: a packet, a copied block and a verified  *)
(* block are one chunk each, a cell is the package it came from, and the   *)
(* CRC of a byte string is the string itself, that is, CRC collisions are  *)
(* left out.  The image header is chunk 1, the footer the last chunk.      *)
(***************************************************************************)
EXTENDS Integers, Sequences, FiniteSets

CONSTANTS
  Packages,      (* firmware packages a host may send                      *)
  Chunks,        (* chunks of a package                                    *)
  Modes,         (* upgrade modes a host asks for                          *)
  DefaultMode,   (* config.default_mode, for a request of the application  *)
  MaxRetries,    (* automatic recoveries of an install, 3 in the code      *)
  SequenceMod,   (* 2^32, the modulus of metadata sequence numbers         *)
  Failing,       (* kinds of flash operation that may fail                 *)
  MaxFaults,     (* bound: flash faults and power losses in a behaviour    *)
  Erased, Corrupt, NONE

Offsets == 1 .. Chunks
Cells == Packages \cup {Erased, Corrupt}
ImageZones == {"IAP", "STAGING"}
MetaZones == {"META_A", "META_B"}
RecordStates == {"DOWNLOAD_DIRECT", "DOWNLOAD_STAGED", "INSTALL_PENDING", "COPYING", "VALID"}

Blank == [i \in Offsets |-> Erased]
Whole(p) == [i \in Offsets |-> p]

(* A metadata record, the same without its sequence number, and what the   *)
(* core asks of the flash.  NONE stands for the absence of each.           *)
Digests == {<< >>} \cup {Whole(p) : p \in Packages}
RecordType == [state : RecordStates, mode : {"DIRECT", "STAGED"}, retry_count : 0 .. MaxRetries,
               sequence : 0 .. SequenceMod - 1, info : Packages, expected_crc : Digests]
ContentType == [state : RecordStates, mode : {"DIRECT", "STAGED"}, retry_count : 0 .. MaxRetries,
                info : Packages, expected_crc : Digests]
OperationType == [kind : {"metadata_read", "read", "program", "erase"},
                  zone : ImageZones \cup MetaZones, at : Offsets,
                  data : Cells \cup RecordType \cup {NONE}]

ASSUME BootAssumption ==
  /\ Chunks \in Nat \ {0} /\ MaxRetries \in Nat /\ MaxFaults \in Nat
  /\ SequenceMod \in Nat /\ SequenceMod >= 3
  /\ Modes \cup {DefaultMode} \subseteq {"DIRECT", "STAGED"}
  /\ Failing \subseteq {"read", "metadata_read", "program", "erase", "silent", "platform"}
  /\ {Erased, Corrupt, NONE} \cap Packages = {} /\ Cardinality({Erased, Corrupt, NONE}) = 3
  /\ NONE \notin RecordType /\ NONE \notin ContentType /\ NONE \notin OperationType

VARIABLES
  flash,   (* contents of the logical zones; a torn record is NONE         *)
  request, (* boot reason and upgrade info retained across resets          *)
  core,    (* bootloader_t                                                 *)
  op,      (* flash operation in progress, or NONE                         *)
  result,  (* p_result_get: the last operation succeeded                   *)
  copies,  (* history: IAP erases for the package last downloaded          *)
  faults   (* number of faults so far                                      *)

vars == <<flash, request, core, op, result, copies, faults>>

NoRequest == [reason |-> "POWER_ON", info |-> NONE]

(* bootloader_init.  Everything but the retained request is lost; the core *)
(* reads the request once, at startup, so it is read from there directly.  *)
Booted == [
  state |-> "META_A_READ", mode |-> DefaultMode, upgrade_info |-> NONE,
  session_active |-> FALSE, running_crc |-> << >>, pending_packet |-> NONE,
  expected_crc |-> << >>, copy_offset |-> 0, copy_chunk_crc |-> NONE,
  verify_crc |-> << >>, jump_called |-> FALSE,
  metadata_next_state |-> "META_A_READ", metadata_source_zone |-> "META_B",
  metadata_sequence |-> 0, metadata_state |-> "VALID", metadata_retry_count |-> 0]

(* A device leaves the factory blank or with an image and no metadata.     *)
Init ==
  /\ \E iap \in {Blank} \cup {Whole(p) : p \in Packages} :
       flash = [IAP |-> iap, STAGING |-> Blank, META_A |-> NONE, META_B |-> NONE]
  /\ request = NoRequest /\ core = Booted
  /\ op = NONE /\ result = TRUE /\ copies = 0 /\ faults = 0

----------------------------------------------------------------------------
(* Metadata: two copies, the newer valid one counts.                       *)

SequenceNewer_Unsigned(c, r) == c > r
SequenceNewer(c, r) ==
  LET difference == (c - r) % SequenceMod
  IN difference # 0 /\ 2 * difference < SequenceMod

(* bootloader_metadata_select over the zones f.                            *)
Selected(f) ==
  IF f.META_B # NONE /\ (f.META_A = NONE \/ SequenceNewer(f.META_B.sequence, f.META_A.sequence))
    THEN "META_B" ELSE "META_A"
Newest(f) == f[Selected(f)]

Encoded(c) == [state |-> c.metadata_state, mode |-> c.mode, retry_count |-> c.metadata_retry_count,
               sequence |-> (c.metadata_sequence + 1) % SequenceMod,
               info |-> c.upgrade_info, expected_crc |-> c.expected_crc]

(* metadata_commit_start: the copy that is not the source gets the record. *)
Target_Source(c) == c.metadata_source_zone
Target(c) == IF c.metadata_source_zone = "META_A" THEN "META_B" ELSE "META_A"
CommitStart(c, record_state, next) ==
  [c EXCEPT !.metadata_state = record_state, !.metadata_next_state = next,
            !.state = "METADATA_ERASE"]

Resident(c) == [c EXCEPT !.session_active = FALSE, !.pending_packet = NONE,
                         !.copy_chunk_crc = NONE, !.state = "WAIT_UPGRADE"]

DownloadState(mode) == IF mode = "STAGED" THEN "DOWNLOAD_STAGED" ELSE "DOWNLOAD_DIRECT"
DownloadZone_Iap(c) == "IAP"
DownloadZone(c) == IF c.mode = "STAGED" THEN "STAGING" ELSE "IAP"

(* bootloader_upgrade_begin once the arguments and zones are accepted.     *)
Session(c, p, mode) ==
  [c EXCEPT !.upgrade_info = p, !.mode = mode, !.running_crc = << >>,
            !.pending_packet = NONE, !.copy_offset = 0, !.copy_chunk_crc = NONE,
            !.verify_crc = << >>, !.expected_crc = << >>, !.session_active = TRUE,
            !.jump_called = FALSE, !.metadata_retry_count = 0]
Begun_NoCommit(c, p, mode) == [Session(c, p, mode) EXCEPT !.state = "DOWNLOAD_ERASE"]
Begun(c, p, mode) == CommitStart(Session(c, p, mode), DownloadState(mode), "DOWNLOAD_ERASE")

----------------------------------------------------------------------------
(* Flash operations: submitted by one call, finished by the hardware, and  *)
(* observed by a later poll.                                               *)

WaitState == [META_A_READ |-> "META_A_WAIT", META_B_READ |-> "META_B_WAIT",
  STARTUP_READ |-> "STARTUP_WAIT", DOWNLOAD_ERASE |-> "DOWNLOAD_ERASE_WAIT",
  COPY_ERASE |-> "COPY_ERASE_WAIT", COPY_READ |-> "COPY_READ_WAIT",
  COPY_WRITE |-> "COPY_WRITE_WAIT", COPY_VERIFY_READ |-> "COPY_VERIFY_READ_WAIT",
  VERIFY_READ |-> "VERIFY_READ_WAIT", FINAL_READ |-> "FINAL_READ_WAIT",
  METADATA_ERASE |-> "METADATA_ERASE_WAIT", METADATA_WRITE |-> "METADATA_WRITE_WAIT"]
WaitStates == {WaitState[s] : s \in DOMAIN WaitState} \cup {"PACKET_WRITE_WAIT"}

Operation(kind, zone, at, data) == [kind |-> kind, zone |-> zone, at |-> at, data |-> data]

(* The operation bootloader_process submits in each of its submit states.  *)
Submission(c) ==
  CASE c.state = "META_A_READ"  -> Operation("metadata_read", "META_A", 1, NONE)
    [] c.state = "META_B_READ"  -> Operation("metadata_read", "META_B", 1, NONE)
    [] c.state \in {"STARTUP_READ", "FINAL_READ"} -> Operation("read", "IAP", 1, NONE)
    [] c.state = "DOWNLOAD_ERASE" -> Operation("erase", DownloadZone(c), 1, NONE)
    [] c.state = "COPY_ERASE"   -> Operation("erase", "IAP", 1, NONE)
    [] c.state = "COPY_READ"    -> Operation("read", "STAGING", c.copy_offset + 1, NONE)
    [] c.state = "COPY_WRITE"   -> Operation("program", "IAP", c.copy_offset + 1, c.copy_chunk_crc)
    [] c.state = "COPY_VERIFY_READ" -> Operation("read", "IAP", c.copy_offset + 1, NONE)
    [] c.state = "VERIFY_READ"  -> Operation("read", "IAP", Len(c.verify_crc) + 1, NONE)
    [] c.state = "METADATA_ERASE" -> Operation("erase", Target(c), 1, NONE)
    [] c.state = "METADATA_WRITE" -> Operation("program", Target(c), 1, Encoded(c))

Submit ==
  /\ core.state \in DOMAIN WaitState /\ op = NONE
  /\ op' = Submission(core)
  /\ core' = [core EXCEPT !.state = WaitState[@]]
  /\ copies' = IF core.state = "COPY_ERASE" THEN copies + 1 ELSE copies
  /\ UNCHANGED <<flash, request, result, faults>>

SubmitRefused ==
  /\ core.state \in DOMAIN WaitState /\ op = NONE
  /\ Submission(core).kind \in Failing /\ faults < MaxFaults
  /\ faults' = faults + 1
  /\ core' = Resident(core)
  /\ UNCHANGED <<flash, request, op, result, copies>>

(* What a zone holds once the operation o has been carried out, and what   *)
(* it may hold when o has failed or lost power half-way: a cell it was to  *)
(* change is as before or unusable.                                        *)
Done(o) ==
  CASE o.kind = "erase" -> IF o.zone \in ImageZones THEN Blank ELSE NONE
    [] o.kind = "program" -> IF o.zone \in ImageZones
                               THEN [flash[o.zone] EXCEPT ![o.at] = o.data] ELSE o.data
    [] OTHER -> flash[o.zone]
Touched(o) == IF o.kind = "erase" THEN Offsets ELSE {o.at}
Spoiled(o, cells) == [i \in Offsets |-> IF i \in cells THEN Corrupt ELSE flash[o.zone][i]]
Partial(o) == {flash[o.zone], Done(o)} \cup
  IF o.kind \in {"erase", "program"} /\ o.zone \in ImageZones
    THEN {Spoiled(o, cells) : cells \in SUBSET Touched(o)} ELSE {}

FlashDone ==
  /\ op # NONE
  /\ flash' = [flash EXCEPT ![op.zone] = Done(op)]
  /\ op' = NONE /\ result' = TRUE
  /\ UNCHANGED <<request, core, copies, faults>>

FlashFailed ==
  /\ op # NONE /\ op.kind \in Failing /\ faults < MaxFaults
  /\ \E z \in Partial(op) : flash' = [flash EXCEPT ![op.zone] = z]
  /\ op' = NONE /\ result' = FALSE /\ faults' = faults + 1
  /\ UNCHANGED <<request, core, copies>>

(* A programmed chunk is wrong although the driver reports success.        *)
FlashSpoiled ==
  /\ op # NONE /\ op.kind = "program" /\ op.zone \in ImageZones
  /\ "silent" \in Failing /\ faults < MaxFaults
  /\ flash' = [flash EXCEPT ![op.zone] = Spoiled(op, {op.at})]
  /\ op' = NONE /\ result' = TRUE /\ faults' = faults + 1
  /\ UNCHANGED <<request, core, copies>>

(* Power loss or watchdog: the retained request may survive it or not.     *)
Reset ==
  /\ faults < MaxFaults /\ faults' = faults + 1
  /\ IF op = NONE THEN UNCHANGED flash
                  ELSE \E z \in Partial(op) : flash' = [flash EXCEPT ![op.zone] = z]
  /\ request' \in {request, NoRequest}
  /\ core' = Booted
  /\ op' = NONE /\ result' = TRUE
  /\ UNCHANGED copies

----------------------------------------------------------------------------
(* storage_wait_handle: the poll that finds the operation finished.        *)

Finished_AnyResult(state) == core.state = state /\ op = NONE
Finished(state) == core.state = state /\ op = NONE /\ result
Keep == UNCHANGED <<flash, request, op, result, copies, faults>>

OperationFailed ==
  /\ core.state \in WaitStates /\ op = NONE /\ ~result
  /\ core' = Resident(core) /\ Keep

MetaARead ==
  /\ Finished("META_A_WAIT")
  /\ core' = [core EXCEPT !.state = "META_B_READ"] /\ Keep

(* metadata_startup_evaluate.  The record's progress fields are reset      *)
(* before they are used again, so they are not loaded here.                *)
Adopted(c, zone, r) ==
  [c EXCEPT !.metadata_source_zone = zone, !.metadata_sequence = r.sequence,
            !.metadata_state = r.state, !.metadata_retry_count = r.retry_count,
            !.mode = r.mode, !.upgrade_info = r.info, !.expected_crc = r.expected_crc]
Found == Newest(flash)
Loaded == IF Found = NONE THEN core ELSE Adopted(core, Selected(flash), Found)

Unfinished_Copying(r) == r # NONE /\ r.state = "COPYING" /\ r.mode = "STAGED"
Unfinished(r) == r # NONE /\ r.state \in {"INSTALL_PENDING", "COPYING"} /\ r.mode = "STAGED"
Exhausted_Late(r) == r.retry_count > MaxRetries
Exhausted(r) == r.retry_count >= MaxRetries
Interrupted(r) == r # NONE /\ r.state \in {"DOWNLOAD_DIRECT", "DOWNLOAD_STAGED"}
Requested == request.reason = "IAP_REQUEST" /\ request.info # NONE

Recovered_NoCount(c) ==
  CommitStart([c EXCEPT !.copy_offset = 0], "COPYING", "COPY_ERASE")
Recovered(c) ==
  CommitStart([c EXCEPT !.metadata_retry_count = @ + 1, !.copy_offset = 0],
              "COPYING", "COPY_ERASE")

EvaluateInstall ==
  /\ Finished("META_B_WAIT") /\ Unfinished(Found)
  /\ core' = IF Exhausted(Found) THEN Resident(Loaded) ELSE Recovered(Loaded)
  /\ Keep

EvaluateInterrupted ==
  /\ Finished("META_B_WAIT") /\ Interrupted(Found) /\ ~Requested
  /\ core' = Resident(Loaded) /\ Keep

(* A retained request opens a session if the core accepts it; any other    *)
(* request stays resident; otherwise the installed image is tried.         *)
EvaluateBoot ==
  /\ Finished("META_B_WAIT") /\ ~Unfinished(Found)
  /\ Interrupted(Found) => Requested
  /\ \/ /\ Requested
        /\ core' = Begun(Loaded, request.info, DefaultMode)
     \/ Requested /\ core' = Resident(Loaded)
     \/ /\ request.reason = "IAP_REQUEST" /\ ~Requested
        /\ core' = [Loaded EXCEPT !.state = "WAIT_UPGRADE"]
     \/ /\ request.reason = "POWER_ON"
        /\ core' = [Loaded EXCEPT !.state = "STARTUP_READ"]
  /\ IF core'.session_active THEN copies' = 0 ELSE UNCHANGED copies
  /\ UNCHANGED <<flash, request, op, result, faults>>

(* installed_header_evaluate: the platform checks the first chunk only.    *)
HeaderValid == flash.IAP[1] \in Packages

StartupChecked ==
  /\ Finished("STARTUP_WAIT")
  /\ core' = IF HeaderValid THEN [core EXCEPT !.state = "JUMP_PENDING"] ELSE Resident(core)
  /\ Keep

DownloadErased ==
  /\ Finished("DOWNLOAD_ERASE_WAIT")
  /\ core' = CommitStart(core, DownloadState(core.mode), "DOWNLOAD_READY")
  /\ Keep

PacketWritten ==
  /\ Finished("PACKET_WRITE_WAIT")
  /\ core' = [core EXCEPT !.running_crc = Append(@, core.pending_packet),
                !.pending_packet = NONE,
                !.state = "DOWNLOAD_READY"]
  /\ Keep

CopyErased ==
  /\ Finished("COPY_ERASE_WAIT")
  /\ core' = [core EXCEPT !.copy_offset = 0, !.state = "COPY_READ"] /\ Keep

CopyRead ==
  /\ Finished("COPY_READ_WAIT")
  /\ core' = [core EXCEPT !.copy_chunk_crc = flash.STAGING[core.copy_offset + 1],
                          !.state = "COPY_WRITE"]
  /\ Keep

CopyWritten ==
  /\ Finished("COPY_WRITE_WAIT")
  /\ core' = [core EXCEPT !.state = "COPY_VERIFY_READ"] /\ Keep

Copied(c) == [c EXCEPT !.copy_offset = @ + 1, !.copy_chunk_crc = NONE]

CopyVerified ==
  /\ Finished("COPY_VERIFY_READ_WAIT")
  /\ core' = IF flash.IAP[core.copy_offset + 1] # core.copy_chunk_crc THEN Resident(core)
             ELSE IF Copied(core).copy_offset < Chunks
             THEN CommitStart(Copied(core), "COPYING", "COPY_READ")
             ELSE CommitStart([Copied(core) EXCEPT !.verify_crc = << >>], "COPYING", "VERIFY_READ")
  /\ Keep

Verified(crc) == crc = core.expected_crc

TargetRead ==
  /\ Finished("VERIFY_READ_WAIT")
  /\ LET crc == Append(core.verify_crc, flash.IAP[Len(core.verify_crc) + 1])
         next == [core EXCEPT !.verify_crc = crc]
     IN core' = IF Len(crc) < Chunks THEN [next EXCEPT !.state = "VERIFY_READ"]
                ELSE IF Verified(crc) THEN [next EXCEPT !.state = "FINAL_READ"]
                ELSE Resident(next)
  /\ Keep

FinalChecked ==
  /\ Finished("FINAL_READ_WAIT")
  /\ core' = IF HeaderValid
               THEN CommitStart([core EXCEPT !.metadata_retry_count = 0], "VALID", "JUMP_PENDING")
               ELSE Resident(core)
  /\ Keep

MetadataErased ==
  /\ Finished("METADATA_ERASE_WAIT")
  /\ core' = [core EXCEPT !.state = "METADATA_WRITE"] /\ Keep

MetadataWritten ==
  /\ Finished("METADATA_WRITE_WAIT")
  /\ core' = [core EXCEPT !.metadata_sequence = (@ + 1) % SequenceMod,
                !.metadata_source_zone = Target(core),
                !.state = core.metadata_next_state]
  /\ Keep

(* The request is cleared before the jump; either call may fail.           *)
Jump ==
  /\ core.state = "JUMP_PENDING" /\ ~core.jump_called
  /\ request' = NoRequest
  /\ core' = [core EXCEPT !.jump_called = TRUE, !.state = "IAP"]
  /\ UNCHANGED <<flash, op, result, copies, faults>>

JumpFailed ==
  /\ core.state = "JUMP_PENDING" /\ ~core.jump_called
  /\ "platform" \in Failing /\ faults < MaxFaults /\ faults' = faults + 1
  /\ \/ UNCHANGED request /\ core' = Resident(core)
     \/ request' = NoRequest /\ core' = Resident([core EXCEPT !.jump_called = TRUE])
  /\ UNCHANGED <<flash, op, result, copies>>

----------------------------------------------------------------------------
(* The host, through the protocol layer, and the running application.      *)

HostBegin(p, mode) ==
  /\ core.state = "WAIT_UPGRADE" /\ op = NONE
  /\ core' = Begun(core, p, mode)
  /\ copies' = 0
  /\ UNCHANGED <<flash, request, op, result, faults>>

(* A packet is new if it continues the prefix; the last packet again is    *)
(* confirmed without effect, any other offset is refused.                  *)
InSession == core.state = "DOWNLOAD_READY" /\ core.session_active

Accepted_Repeated(offset, data) == offset \in {Len(core.running_crc), Len(core.running_crc) + 1}
Accepted(offset, data) == offset = Len(core.running_crc) + 1

HostData(offset, data) ==
  /\ InSession /\ Accepted(offset, data) /\ offset <= Chunks
  /\ op' = Operation("program", DownloadZone(core), offset, data)
  /\ core' = [core EXCEPT !.pending_packet = data, !.state = "PACKET_WRITE_WAIT"]
  /\ UNCHANGED <<flash, request, result, copies, faults>>

HostDataRefused ==
  /\ InSession /\ Len(core.running_crc) < Chunks
  /\ "program" \in Failing /\ faults < MaxFaults /\ faults' = faults + 1
  /\ core' = Resident(core)
  /\ UNCHANGED <<flash, request, op, result, copies>>

(* The whole length, the CRC the host declares, and the footer.            *)
EndAccepted(crc) == core.running_crc = crc /\ crc[Chunks] = core.upgrade_info

HostEnd(crc) ==
  /\ InSession
  /\ LET ended == [core EXCEPT !.expected_crc = crc, !.session_active = FALSE]
     IN core' =
          IF ~EndAccepted(crc) THEN Resident(core)
          ELSE IF core.mode = "STAGED" THEN CommitStart(ended, "INSTALL_PENDING", "COPY_ERASE")
          ELSE [ended EXCEPT !.verify_crc = << >>, !.state = "VERIFY_READ"]
  /\ Keep

(* iap_update_service: the application leaves a request and resets.        *)
IapUpdate(info) ==
  /\ core.state = "IAP"
  /\ request' = [reason |-> "IAP_REQUEST", info |-> info]
  /\ core' = Booted
  /\ UNCHANGED <<flash, op, result, copies, faults>>

----------------------------------------------------------------------------
Process ==
  \/ Submit \/ SubmitRefused \/ OperationFailed
  \/ MetaARead \/ EvaluateInstall \/ EvaluateInterrupted \/ EvaluateBoot \/ StartupChecked
  \/ DownloadErased \/ PacketWritten
  \/ CopyErased \/ CopyRead \/ CopyWritten \/ CopyVerified
  \/ TargetRead \/ FinalChecked \/ MetadataErased \/ MetadataWritten
  \/ Jump \/ JumpFailed

Flash == FlashDone \/ FlashFailed \/ FlashSpoiled

Host ==
  \/ \E p \in Packages, mode \in Modes : HostBegin(p, mode)
  \/ \E offset \in Offsets, data \in Packages : HostData(offset, data)
  \/ HostDataRefused
  \/ \E p \in Packages : HostEnd(Whole(p))

Next ==
  \/ Process \/ Flash \/ Host \/ Reset
  \/ \E info \in Packages \cup {NONE} : IapUpdate(info)

Spec == Init /\ [][Next]_vars
----------------------------------------------------------------------------
(* Properties.                                                             *)

Complete == \E p \in Packages : flash.IAP = Whole(p)
Committing == core.state \in {"METADATA_ERASE", "METADATA_ERASE_WAIT", "METADATA_WRITE",
                              "METADATA_WRITE_WAIT"}

(* The zones and the core's variables hold what bootloader_core.h declares.*)
TypeOK ==
  /\ \A z \in ImageZones : flash[z] \in [Offsets -> Cells]
  /\ \A z \in MetaZones : flash[z] \in RecordType \cup {NONE}
  /\ core.state \in DOMAIN WaitState \cup WaitStates
                     \cup {"WAIT_UPGRADE", "DOWNLOAD_READY", "JUMP_PENDING", "IAP"}
  /\ core.metadata_retry_count \in 0 .. MaxRetries /\ core.copy_offset \in 0 .. Chunks
  /\ Len(core.running_crc) <= Chunks /\ Len(core.verify_crc) <= Chunks
  /\ core.mode \in {"DIRECT", "STAGED"} /\ core.upgrade_info \in Packages \cup {NONE}
  /\ result \in BOOLEAN /\ faults \in 0 .. MaxFaults

(* Only a complete image gets the CPU, whatever interrupted the downloads, *)
(* copies and commits that led to it ("only a fully verified IAP image may *)
(* be executed; otherwise stay resident").                                 *)
BootsOnlyComplete == core.state \in {"JUMP_PENDING", "IAP"} => Complete

(* At every moment, so after a power loss at any moment, what the copies   *)
(* say protects the image: VALID vouches for exactly the installed image,  *)
(* and without a record nothing half-written has a valid header.           *)
ImageGuarded ==
  /\ Found # NONE /\ Found.state = "VALID" => flash.IAP = Found.expected_crc
  /\ Found = NONE /\ HeaderValid => Complete

(* The old application is not touched before a record says that it may be  *)
(* lost: a staged download leaves it alone until the candidate is complete.*)
OldImageKept ==
  [][flash'.IAP # flash.IAP =>
       Found.state \in {"DOWNLOAD_DIRECT", "INSTALL_PENDING", "COPYING"}]_vars

(* An install that is interrupted again and again is given up, and one     *)
(* whose target does not verify is not begun again without the host: the   *)
(* package costs at most MaxRetries + 1 erases of the application zone.    *)
InstallBounded == copies <= MaxRetries + 1

(* Flash is programmed only where it is erased, repeated packets, retried  *)
(* sessions and restarted copies included.                                 *)
ProgramsErasedOnly ==
  op # NONE /\ op.kind = "program" =>
    IF op.zone \in ImageZones THEN flash[op.zone][op.at] = Erased ELSE flash[op.zone] = NONE

(* The two copies implement one atomically written register: a power loss  *)
(* or a failed commit leaves the old record or the new one, and the record *)
(* the core knows to be written survives until its successor is written    *)
(* ("the old copy still exists until the new copy is completely written"). *)
Reading == core.state \in {"META_A_READ", "META_A_WAIT", "META_B_READ", "META_B_WAIT"}
Fields(r) == IF r = NONE THEN NONE ELSE [f \in DOMAIN r \ {"sequence"} |-> r[f]]
Register == INSTANCE DurableRegister WITH
  Records <- ContentType,
  acknowledged <- Fields(IF Reading THEN Found ELSE flash[core.metadata_source_zone]),
  value <- Fields(Found),
  proposal <- IF Committing THEN Fields(Encoded(core)) ELSE NONE
CommitsAreAtomic == Register!Spec

(* A recovery that is not disturbed again ends with the new application    *)
(* running, whatever the interruptions before it left in the zones.        *)
Recoverable ==
  /\ Found # NONE /\ Found.state \in {"INSTALL_PENDING", "COPYING"}
  /\ Found.retry_count < MaxRetries /\ flash.STAGING = Found.expected_crc
RecoveryCompletes ==
  faults = MaxFaults /\ core.state = "META_A_READ" /\ Recoverable
  ~> core.state = "IAP" /\ flash.IAP = flash.STAGING
=============================================================================
