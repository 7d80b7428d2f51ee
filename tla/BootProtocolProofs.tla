-------------------------- MODULE BootProtocolProofs --------------------------
(***************************************************************************)
(* Proofs about BootProtocol: under the protocol handlers, the lossy link, *)
(* the host and the application's update service the bootloader is still   *)
(* the one of Bootloader, so that everything proved of it holds of whole   *)
(* uploads; and an upload that is answered with success is in flash.       *)
(***************************************************************************)
EXTENDS BootProtocol, BootloaderProofs

(* What EndMeansStored assumes of the flash on top of MetadataReadable: a  *)
(* program operation that reports success has taken effect.                *)
ReportsFailures == "silent" \notin Failing
-----------------------------------------------------------------------------
(* A session's prefix is in flash.                                         *)

(* The chunks whose CRC has been run are in the zone of the download.      *)
Holds(f, c) == \A i \in 1 .. Len(c.running_crc) : f[DownloadZone(c)][i] = c.running_crc[i]
Kept(s, f, c) == s \in DownloadStates => Holds(f, c)

(* The packet being written is the one that will be added to the CRC, and  *)
(* once it is reported written it is there.                                *)
Landing(f, c, o, res) ==
  c.state = "PACKET_WRITE_WAIT" =>
    /\ o # NONE => o.data = c.pending_packet
    /\ o = NONE /\ res => f[DownloadZone(c)][Len(c.running_crc) + 1] = c.pending_packet

Stored(f, c, o, res) ==
  /\ c.state \in CommitStates => Kept(c.metadata_next_state, f, c)
  /\ Clean(c) => Kept(c.state, f, c)
  /\ Landing(f, c, o, res)

LEMMA NothingStored ==
    ASSUME NEW f, NEW c, NEW o, NEW res, c.state \notin DownloadStates,
           c.state \in CommitStates => c.metadata_next_state \notin DownloadStates
    PROVE  Stored(f, c, o, res)
  BY DEF Stored, Kept, Landing, DownloadStates

LEMMA CommitStored ==
    ASSUME NEW f, NEW c, NEW o, NEW res, c.state \in CommitStates,
           Kept(c.metadata_next_state, f, c)
    PROVE  Stored(f, c, o, res)
<1>1. c.state # "PACKET_WRITE_WAIT"
  BY DEF CommitStates
<1>. QED BY <1>1 DEF Stored, Clean, Landing

LEMMA BegunStored ==
    ASSUME NEW c \in CoreType, NEW p \in Packages, NEW mode \in {"DIRECT", "STAGED"},
           core' = Begun(c, p, mode)
    PROVE  Stored(flash', core', op', result')
<1>1. core'.state = "METADATA_ERASE" /\ core'.running_crc = << >>
  BY SessionMoves
<1>2. Holds(flash', core')
  BY <1>1 DEF Holds
<1>. QED BY <1>1, <1>2, CommitStored DEF CommitStates, Kept

LEMMA ResidentStored ==
    ASSUME NEW c \in CoreType, core' = Resident(c)
    PROVE  Stored(flash', core', op', result')
<1>1. core'.state = "WAIT_UPGRADE"
  BY DEF Resident, CoreType
<1>. QED BY <1>1, NothingStored DEF DownloadStates, CommitStates

(* A step that leaves the prefix, its zone and the flash alone.            *)
LEMMA SameHolds ==
    ASSUME NEW f, NEW c, NEW d, d.running_crc = c.running_crc, d.mode = c.mode, Holds(f, c)
    PROVE  Holds(f, d)
  BY DEF Holds, DownloadZone

LEMMA ScanStored ==
    ASSUME IInv, MetaARead \/ EvaluateInstall \/ EvaluateInterrupted \/ EvaluateBoot
    PROVE  Stored(flash', core', op', result')
<1>1. CASE MetaARead
  <2>1. core'.state = "META_B_READ"
    BY <1>1, Given DEF MetaARead, CoreType
  <2>. QED BY <2>1, NothingStored DEF DownloadStates, CommitStates
<1>2. CASE EvaluateInstall \/ EvaluateInterrupted \/ EvaluateBoot
  <2>1. core.state = "META_B_WAIT"
    BY <1>2 DEF EvaluateInstall, EvaluateInterrupted, EvaluateBoot, Finished
  <2>2. Loaded \in CoreType
    BY <2>1, LoadedFacts
  <2>3. CASE core' = Resident(Loaded)
    BY <2>2, <2>3, ResidentStored
  <2>4. CASE core' = Recovered(Loaded)
    <3>1. core'.state = "METADATA_ERASE" /\ core'.metadata_next_state = "COPY_ERASE"
      BY <2>2, <2>4 DEF Recovered, CommitStart, CoreType
    <3>. QED BY <3>1, NothingStored DEF DownloadStates
  <2>5. CASE Requested /\ core' = Begun(Loaded, request.info, DefaultMode)
    <3>1. request.info \in Packages
      BY <2>5, Given DEF Requested, RequestType
    <3>. QED BY <2>2, <2>5, <3>1, Constants, BegunStored
  <2>6. CASE core' \in {[Loaded EXCEPT !.state = "WAIT_UPGRADE"],
                        [Loaded EXCEPT !.state = "STARTUP_READ"]}
    <3>1. core'.state \in {"WAIT_UPGRADE", "STARTUP_READ"}
      BY <2>2, <2>6 DEF CoreType
    <3>. QED BY <3>1, NothingStored DEF DownloadStates, CommitStates
  <2>. QED BY <1>2, <2>3, <2>4, <2>5, <2>6 DEF EvaluateInstall, EvaluateInterrupted, EvaluateBoot
<1>. QED BY <1>1, <1>2

LEMMA SubmitStored ==
    ASSUME IInv, Stored(flash, core, op, result), Submit
    PROVE  Stored(flash', core', op', result')
<1>. DEFINE s == WaitState[core.state]
<1>1. /\ core.state \in DOMAIN WaitState /\ core' = [core EXCEPT !.state = s] /\ UNCHANGED flash
  BY DEF Submit
<1>2. s \in States
  BY <1>1, StatesAre DEF WaitStates
<1>3. /\ core'.state = s /\ core'.metadata_next_state = core.metadata_next_state
      /\ core'.running_crc = core.running_crc /\ core'.mode = core.mode
  BY <1>1, <1>2, Given, WaitAdvances DEF SameData
<1>4. Holds(flash, core) => Holds(flash', core')
  BY <1>1, <1>3, SameHolds
<1>5. CASE core.state \in CommitStates
  <2>1. s \in CommitStates
    BY <1>1, <1>5, Waiting DEF CommitStates
  <2>2. Kept(core'.metadata_next_state, flash', core')
    BY <1>3, <1>4, <1>5 DEF Stored, Kept
  <2>. QED BY <1>3, <2>1, <2>2, CommitStored
<1>6. CASE core.state = "DOWNLOAD_ERASE"
  <2>1. s = "DOWNLOAD_ERASE_WAIT"
    BY <1>6, Waiting
  <2>2. Clean(core) /\ core.state \in DownloadStates
    BY <1>6 DEF Clean, ReadingStates, CommitStates, DownloadStates
  <2>3. Holds(flash', core')
    BY <1>4, <2>2 DEF Stored, Kept
  <2>. QED BY <1>3, <2>1, <2>3 DEF Stored, Kept, Landing, CommitStates
<1>7. CASE core.state \notin CommitStates \cup {"DOWNLOAD_ERASE"}
  <2>1. s \notin DownloadStates /\ s \notin CommitStates
    BY <1>1, <1>7, Waiting DEF DownloadStates, CommitStates
  <2>. QED BY <1>3, <2>1, NothingStored
<1>. QED BY <1>5, <1>6, <1>7

LEMMA PacketStored ==
    ASSUME IInv, Stored(flash, core, op, result), PacketWritten
    PROVE  Stored(flash', core', op', result')
<1>0. core \in CoreType /\ UNCHANGED flash
  BY Given DEF PacketWritten, Keep
<1>1. core.state = "PACKET_WRITE_WAIT" /\ op = NONE /\ result
  BY DEF PacketWritten, Finished
<1>2. Clean(core) /\ core.pending_packet \in Packages /\ core.running_crc \in Seq(Packages)
  BY <1>0, <1>1, Given DEF Clean, ReadingStates, CommitStates, Fit, CoreType
<1>3. /\ core'.state = "DOWNLOAD_READY" /\ core'.mode = core.mode
      /\ core'.running_crc = Append(core.running_crc, core.pending_packet)
  BY <1>0 DEF PacketWritten, CoreType
<1>. DEFINE n == Len(core.running_crc)
<1>4. /\ n \in Nat /\ Len(core'.running_crc) = n + 1
      /\ core'.running_crc[n + 1] = core.pending_packet
      /\ \A i \in 1 .. n : core'.running_crc[i] = core.running_crc[i]
  BY <1>2, <1>3
<1>5. DownloadZone(core') = DownloadZone(core)
  BY <1>3 DEF DownloadZone
<1>6. \A i \in 1 .. n : flash[DownloadZone(core)][i] = core.running_crc[i]
  BY <1>1, <1>2 DEF Stored, Kept, Holds, DownloadStates
<1>7. flash[DownloadZone(core)][n + 1] = core.pending_packet
  BY <1>1 DEF Stored, Landing
<1>. HIDE DEF n
<1>8. ASSUME NEW i \in 1 .. n + 1
      PROVE  flash[DownloadZone(core)][i] = core'.running_crc[i]
  <2>1. i = n + 1 \/ i \in 1 .. n
    BY <1>4
  <2>. QED BY <1>4, <1>6, <1>7, <2>1
<1>9. Holds(flash', core')
  BY <1>0, <1>4, <1>5, <1>8 DEF Holds
<1>. QED BY <1>3, <1>9 DEF Stored, Kept, Landing, CommitStates

LEMMA OthersStored ==
    ASSUME IInv, Stored(flash, core, op, result), Others
    PROVE  Stored(flash', core', op', result')
<1>0. core \in CoreType /\ UNCHANGED flash
  BY Given, OthersMove DEF Moved
<1>1. CASE StartupChecked \/ TargetRead \/ Jump \/ JumpFailed
  <2>1. core'.state \in {"JUMP_PENDING", "IAP", "WAIT_UPGRADE", "VERIFY_READ", "FINAL_READ"}
    BY <1>0, <1>1 DEF StartupChecked, TargetRead, Jump, JumpFailed, Resident, CoreType
  <2>. QED BY <2>1, NothingStored DEF DownloadStates, CommitStates
<1>2. CASE FinalChecked
  <2>1. \/ core'.state = "WAIT_UPGRADE"
        \/ core'.state = "METADATA_ERASE" /\ core'.metadata_next_state = "JUMP_PENDING"
    BY <1>0, <1>2 DEF FinalChecked, Resident, CommitStart, CoreType
  <2>. QED BY <2>1, NothingStored DEF DownloadStates, CommitStates
<1>3. CASE DownloadErased
  <2>1. core.state = "DOWNLOAD_ERASE_WAIT"
    BY <1>3 DEF DownloadErased, Finished
  <2>2. /\ core'.state = "METADATA_ERASE"
        /\ core'.running_crc = core.running_crc /\ core'.mode = core.mode
    BY <1>0, <1>3 DEF DownloadErased, CommitStart, CoreType
  <2>3. Holds(flash, core)
    BY <2>1 DEF Stored, Kept, DownloadStates, Clean, ReadingStates, CommitStates
  <2>4. Holds(flash', core')
    BY <1>0, <2>2, <2>3, SameHolds
  <2>. QED BY <2>2, <2>4, CommitStored DEF CommitStates, Kept
<1>4. CASE PacketWritten
  BY <1>4, PacketStored
<1>5. CASE \E offset \in Offsets, data \in Packages : HostData(offset, data)
  <2>1. PICK offset \in Offsets, data \in Packages : HostData(offset, data)
    BY <1>5
  <2>2. core.state = "DOWNLOAD_READY" /\ op' = Operation("program", DownloadZone(core), offset, data)
    BY <2>1 DEF HostData, InSession
  <2>3. /\ core'.state = "PACKET_WRITE_WAIT" /\ core'.running_crc = core.running_crc
        /\ core'.mode = core.mode /\ core'.pending_packet = data
    BY <1>0, <2>1 DEF HostData, CoreType
  <2>4. Holds(flash, core)
    BY <2>2 DEF Stored, Kept, DownloadStates, Clean, ReadingStates, CommitStates
  <2>5. Holds(flash', core')
    BY <1>0, <2>3, <2>4, SameHolds
  <2>6. op' # NONE
    <3>1. op' \in OperationType
      BY <2>2 DEF Operation, OperationType, DownloadZone, ImageZones, Cells
    <3>. QED BY <3>1, Constants
  <2>7. op'.data = core'.pending_packet
    BY <2>2, <2>3 DEF Operation
  <2>. QED BY <2>3, <2>5, <2>6, <2>7 DEF Stored, Kept, Landing, CommitStates
<1>6. CASE CopyErased \/ CopyRead \/ CopyWritten
  <2>1. core'.state \in {"COPY_READ", "COPY_WRITE", "COPY_VERIFY_READ"}
    BY <1>0, <1>6 DEF CopyErased, CopyRead, CopyWritten, CoreType
  <2>. QED BY <2>1, NothingStored DEF DownloadStates, CommitStates
<1>7. CASE CopyVerified
  <2>1. \/ core'.state = "WAIT_UPGRADE"
        \/ /\ core'.state = "METADATA_ERASE"
           /\ core'.metadata_next_state \in {"COPY_READ", "VERIFY_READ"}
    BY <1>0, <1>7 DEF CopyVerified, Copied, Resident, CommitStart, CoreType
  <2>. QED BY <2>1, NothingStored DEF DownloadStates, CommitStates
<1>8. CASE MetadataErased
  <2>1. core.state = "METADATA_ERASE_WAIT"
    BY <1>8 DEF MetadataErased, Finished
  <2>2. /\ core'.state = "METADATA_WRITE" /\ core'.running_crc = core.running_crc
        /\ core'.mode = core.mode /\ core'.metadata_next_state = core.metadata_next_state
    BY <1>0, <1>8 DEF MetadataErased, CoreType
  <2>3. Kept(core.metadata_next_state, flash, core)
    BY <2>1 DEF Stored, CommitStates
  <2>4. Kept(core'.metadata_next_state, flash', core')
    BY <1>0, <2>2, <2>3, SameHolds DEF Kept
  <2>. QED BY <2>2, <2>4, CommitStored DEF CommitStates
<1>9. ASSUME NEW p \in Packages, NEW mode \in Modes, HostBegin(p, mode)
      PROVE  Stored(flash', core', op', result')
  <2>1. core' = Begun(core, p, mode)
    BY <1>9 DEF HostBegin
  <2>. QED BY <1>0, <2>1, Constants, BegunStored
<1>10. ASSUME NEW p \in Packages, HostEnd(Whole(p))
       PROVE  Stored(flash', core', op', result')
  <2>1. \/ core'.state \in {"WAIT_UPGRADE", "VERIFY_READ"}
        \/ core'.state = "METADATA_ERASE" /\ core'.metadata_next_state = "COPY_ERASE"
    BY <1>0, <1>10 DEF HostEnd, Resident, CommitStart, CoreType
  <2>. QED BY <2>1, NothingStored DEF DownloadStates, CommitStates
<1>. QED BY <1>1, <1>2, <1>3, <1>4, <1>5, <1>6, <1>7, <1>8, <1>9, <1>10 DEF Others

LEMMA WrittenStored ==
    ASSUME IInv, Stored(flash, core, op, result), MetadataWritten
    PROVE  Stored(flash', core', op', result')
<1>1. /\ core.state = "METADATA_WRITE_WAIT" /\ UNCHANGED flash
      /\ core' = [core EXCEPT !.metadata_sequence = (@ + 1) % SequenceMod,
                    !.metadata_source_zone = Target(core), !.state = core.metadata_next_state]
  BY DEF MetadataWritten, Finished, Keep
<1>2. /\ core'.state = core.metadata_next_state /\ core'.running_crc = core.running_crc
      /\ core'.mode = core.mode
  BY <1>1, Given DEF CoreType
<1>3. core.state \in CommitStates
  BY <1>1 DEF CommitStates
<1>4. core.metadata_next_state \in EnteredStates
  BY <1>3, Given DEF Agree, Proposed
<1>5. Kept(core'.state, flash', core')
  BY <1>1, <1>2, <1>3, SameHolds DEF Stored, Kept
<1>. QED BY <1>2, <1>4, <1>5 DEF Stored, Landing, EnteredStates, CommitStates

(* Nothing in flash moves under a prefix, and a packet that is reported    *)
(* written is the one that was submitted.                                  *)
LEMMA FlashStored ==
    ASSUME ReportsFailures, IInv, Roomy(flash, core, op, result),
           Stored(flash, core, op, result), Flash
    PROVE  Stored(flash', core', op', result')
<1>1. PICK z : op # NONE /\ Outcome(op, z) /\ flash' = [flash EXCEPT ![op.zone] = z]
  BY DEF Flash, FlashDone, FlashFailed, FlashSpoiled, Outcome, Partial
<1>2. core' = core /\ op' = NONE
  BY DEF Flash, FlashDone, FlashFailed, FlashSpoiled
<1>3. /\ op \in OperationType /\ Carried(op, core) /\ core.state \in WaitStates
      /\ flash \in FlashType /\ op.zone \in ImageZones \cup MetaZones
  BY <1>1 DEF IInv, Typed, Sound, Carried, OperationType
<1>4. flash'[op.zone] = z /\ \A zone \in ImageZones : zone # op.zone => flash'[zone] = flash[zone]
  BY <1>1, <1>3 DEF FlashType, ImageZones, MetaZones
<1>5. DownloadZone(core) \in ImageZones
  BY DEF DownloadZone, ImageZones
<1>6. CASE core.state \in CommitStates
  <2>1. op.zone \notin ImageZones
    BY <1>3, <1>6, WaitStatesAre, Given, Zones DEF Carried, CommitStates, MetaZones, ImageZones
  <2>2. flash'[DownloadZone(core)] = flash[DownloadZone(core)]
    BY <1>4, <1>5, <2>1
  <2>3. Kept(core.metadata_next_state, flash', core)
    BY <1>6, <2>2 DEF Stored, Kept, Holds
  <2>. QED BY <1>2, <1>6, <2>3, CommitStored
<1>7. CASE core.state = "DOWNLOAD_ERASE_WAIT"
  <2>1. Len(core.running_crc) = 0
    BY <1>7 DEF Roomy, Room, Clean, ReadingStates, CommitStates
  <2>2. Holds(flash', core)
    BY <2>1 DEF Holds
  <2>. QED BY <1>2, <1>7, <2>2 DEF Stored, Kept, Landing, CommitStates
<1>8. CASE core.state = "PACKET_WRITE_WAIT"
  <2>. DEFINE zone == DownloadZone(core)
              n == Len(core.running_crc)
  <2>1. op.kind = "program" /\ op.zone = zone /\ zone \in ImageZones
    BY <1>3, <1>5, <1>8 DEF Carried
  <2>2. op.at = n + 1 /\ n \in Nat /\ n <= Chunks
    BY <1>1, <1>8, Given DEF Roomy, Readied, CoreType
  <2>3. op.data = core.pending_packet
    BY <1>1, <1>8 DEF Stored, Landing
  <2>4. \A i \in 1 .. n : flash[zone][i] = core.running_crc[i]
    BY <1>8 DEF Stored, Kept, Holds, DownloadStates, Clean, ReadingStates, CommitStates
  <2>. HIDE DEF zone, n
  <2>5. \A i \in 1 .. n : i \in Offsets /\ i # op.at
    BY <2>2, Constants DEF Offsets
  <2>6. \A i \in Offsets : i # op.at => z[i] = flash[op.zone][i]
    BY <1>1, <1>3, <2>1, OneCell
  <2>7. \A i \in 1 .. n : flash'[zone][i] = core.running_crc[i]
    BY <1>4, <2>1, <2>4, <2>5, <2>6
  <2>8. Holds(flash', core)
    BY <2>7 DEF Holds, zone, n
  <2>9. result' => flash'[zone][n + 1] = core.pending_packet
    <3>. SUFFICES ASSUME result' PROVE flash'[zone][n + 1] = core.pending_packet
      OBVIOUS
    <3>1. flash' = [flash EXCEPT ![op.zone] = Done(op)]
      BY DEF Flash, FlashDone, FlashFailed, FlashSpoiled, ReportsFailures
    <3>2. flash'[zone] = [flash[zone] EXCEPT ![op.at] = op.data]
      BY <1>3, <2>1, <3>1 DEF Done, FlashType, ImageZones
    <3>3. flash[zone] \in Image
      BY <1>3, <2>1 DEF FlashType, ImageZones
    <3>4. op.at \in Offsets
      BY <1>3 DEF OperationType
    <3>. QED BY <2>2, <2>3, <3>2, <3>3, <3>4 DEF Image
  <2>10. Landing(flash', core, NONE, result')
    BY <2>9 DEF Landing, zone, n
  <2>. QED BY <1>2, <1>8, <2>8, <2>10 DEF Stored, Kept, CommitStates
<1>9. CASE core.state \notin CommitStates \cup {"DOWNLOAD_ERASE_WAIT", "PACKET_WRITE_WAIT"}
  <2>1. core.state \notin DownloadStates
    BY <1>3, <1>9, WaitStatesAre DEF DownloadStates
  <2>. QED BY <1>2, <1>9, <2>1, NothingStored
<1>. QED BY <1>6, <1>7, <1>8, <1>9

LEMMA StoredStep ==
    ASSUME ReportsFailures, IInv, Roomy(flash, core, op, result),
           Stored(flash, core, op, result), [Next]_vars
    PROVE  Stored(flash', core', op', result')
<1>1. CASE Reset \/ \E info \in Packages \cup {NONE} : IapUpdate(info)
  <2>1. core'.state = "META_A_READ"
    BY <1>1, BootedFacts DEF Reset, IapUpdate
  <2>. QED BY <2>1, NothingStored DEF DownloadStates, CommitStates
<1>2. CASE OperationFailed \/ SubmitRefused \/ HostDataRefused
  <2>1. core' = Resident(core)
    BY <1>2 DEF OperationFailed, SubmitRefused, HostDataRefused
  <2>. QED BY <2>1, Given, ResidentStored
<1>3. CASE UNCHANGED vars
  BY <1>3 DEF vars
<1>4. CASE Next
  BY <1>1, <1>2, <1>4, FlashStored, ScanStored, SubmitStored, OthersStored, WrittenStored
     DEF Next, Process, Host, Others
<1>. QED BY <1>3, <1>4
-----------------------------------------------------------------------------
(* Every step of an upload is a step of the bootloader.                    *)

HostType == [step : {"info", "ready", "data", "end", "done"}, offset : Nat, package : Packages,
             restarts : Nat]
AppType == [transfer_pending : BOOLEAN, prepare_ready : BOOLEAN, reset_delay_ms : Nat,
            upgrade_info : Packages \cup {NONE}]

(* Whatever host, link and application carry is a package: a frame that    *)
(* names one outlives the upload it was sent in.                           *)
Couriers ==
  /\ host \in HostType /\ app \in AppType
  /\ link # NONE /\ link.cmd # "READY" => link.package \in Packages

LEMMA CouriersStart == ProtocolInit => Couriers
<1>. SUFFICES ASSUME ProtocolInit PROVE Couriers
  OBVIOUS
<1>1. host \in HostType
  BY ProtocolAssumption DEF ProtocolInit, HostType
<1>2. app \in AppType
  BY DEF ProtocolInit, AppStarted, AppType
<1>. QED BY <1>1, <1>2 DEF ProtocolInit, Couriers

(* What the host sends, and where an answer takes it.                      *)
LEMMA HostFacts ==
    ASSUME Couriers
    PROVE  /\ host.step # "done" /\ Current.cmd # "READY" => Current.package \in Packages
           /\ host.step # "done" => Advanced \in HostType
<1>. USE DEF Couriers
<1>1. host.step # "done" /\ Current.cmd # "READY" => Current.package \in Packages
  BY DEF HostType, Current, Frame
<1>2. host \in HostType /\ OnReject \in {"info", "ready"}
  BY ProtocolAssumption
<1>3. ASSUME NEW s \in {"info", "ready", "data", "end", "done"}, NEW n \in Nat
      PROVE  /\ [host EXCEPT !.step = s] \in HostType
             /\ [host EXCEPT !.step = s, !.offset = n] \in HostType
             /\ [host EXCEPT !.offset = n] \in HostType
  BY <1>2 DEF HostType
<1>4. host.offset + 1 \in Nat /\ [host EXCEPT !.offset = @ + 1] = [host EXCEPT !.offset = host.offset + 1]
  BY <1>2 DEF HostType
<1>5. host.step \in {"info", "ready", "data", "end", "done"}
  BY <1>2 DEF HostType
<1>6. CASE host.step = "info"
  <2>1. Advanced \in {[host EXCEPT !.step = "ready"], [host EXCEPT !.step = OnReject]}
    BY <1>6 DEF Advanced
  <2>2. [host EXCEPT !.step = "ready"] \in HostType /\ [host EXCEPT !.step = OnReject] \in HostType
    BY <1>2, <1>3
  <2>. QED BY <1>1, <2>1, <2>2
<1>7. CASE host.step = "ready"
  <2>1. Advanced \in {host, [host EXCEPT !.step = "data", !.offset = 1]}
    BY <1>7 DEF Advanced
  <2>2. [host EXCEPT !.step = "data", !.offset = 1] \in HostType
    BY <1>3
  <2>. QED BY <1>1, <1>2, <2>1, <2>2
<1>8. CASE host.step = "data"
  <2>1. Advanced \in {host, [host EXCEPT !.offset = host.offset + 1], [host EXCEPT !.step = "end"]}
    BY <1>4, <1>8 DEF Advanced
  <2>2. [host EXCEPT !.offset = host.offset + 1] \in HostType
    BY <1>3, <1>4
  <2>3. [host EXCEPT !.step = "end"] \in HostType
    BY <1>3
  <2>. QED BY <1>1, <1>2, <2>1, <2>2, <2>3
<1>9. CASE host.step = "end"
  <2>1. Advanced \in {host, [host EXCEPT !.step = "done"]}
    BY <1>9 DEF Advanced
  <2>2. [host EXCEPT !.step = "done"] \in HostType
    BY <1>3
  <2>. QED BY <1>1, <1>2, <2>1, <2>2
<1>. QED BY <1>1, <1>5, <1>6, <1>7, <1>8, <1>9

LEMMA CouriersStep ==
    ASSUME Couriers, [ProtocolNext]_allVars
    PROVE  Couriers'
<1>1. CASE UNCHANGED allVars
  BY <1>1 DEF Couriers, allVars
<1>2. CASE HostSend
  BY <1>2, HostFacts DEF HostSend, Couriers
<1>3. CASE HostReceive
  <2>1. host' \in HostType
    BY <1>3, HostFacts DEF HostReceive, Couriers
  <2>. QED BY <1>3, <2>1 DEF HostReceive, Couriers
<1>4. CASE HostRestart
  <2>1. host' \in HostType
    BY <1>4, ProtocolAssumption DEF HostRestart, HostType, Couriers
  <2>. QED BY <1>4, <2>1 DEF HostRestart, Couriers
<1>5. CASE Lose
  BY <1>5 DEF Lose, Couriers
<1>6. CASE InfoHandle \/ ReadyHandle \/ DataHandle \/ EndHandle
  <2>1. link' = NONE /\ UNCHANGED <<host, app>>
    BY <1>6 DEF InfoHandle, ReadyHandle, DataHandle, EndHandle, Replied
  <2>. QED BY <2>1 DEF Couriers
<1>7. CASE Unregistered
  BY <1>7 DEF Unregistered, Couriers
<1>8. CASE UpdateInfoAct
  <2>1. link.package \in Packages
    BY <1>8 DEF UpdateInfoAct, Received, Couriers
  <2>2. app' \in AppType
    BY <1>8, <2>1 DEF UpdateInfoAct, Couriers, AppType, AppStarted
  <2>. QED BY <1>8, <2>2 DEF UpdateInfoAct, Couriers
<1>9. CASE Prepared \/ PrepareFailed \/ Drain
  <2>1. app' \in AppType /\ UNCHANGED <<host, link>>
    <3>1. app \in AppType
      BY DEF Couriers
    <3>2. CASE Prepared
      BY <3>1, <3>2 DEF Prepared, AppType
    <3>3. CASE PrepareFailed
      BY <3>1, <3>3 DEF PrepareFailed, AppType
    <3>4. CASE Drain
      BY <3>1, <3>4 DEF Drain, AppType
    <3>. QED BY <1>9, <3>2, <3>3, <3>4
  <2>. QED BY <2>1 DEF Couriers
<1>10. CASE HandOver \/ CoreProcess \/ CoreFlash \/ PowerLoss
  <2>1. app' \in {app, AppStarted} /\ UNCHANGED <<host, link>>
    BY <1>10 DEF HandOver, CoreProcess, CoreFlash, PowerLoss
  <2>2. AppStarted \in AppType
    BY DEF AppStarted, AppType
  <2>. QED BY <2>1, <2>2 DEF Couriers
<1>. QED BY <1>1, <1>2, <1>3, <1>4, <1>5, <1>6, <1>7, <1>8, <1>9, <1>10 DEF ProtocolNext, Handle

(* A prepare hook that fails leaves the bootloader as it is.               *)
HookFailed ==
  faults' \in 0 .. MaxFaults /\ UNCHANGED <<flash, request, core, op, result, copies>>

LEMMA ProtocolMoves ==
    ASSUME IInv, Couriers, [ProtocolNext]_allVars
    PROVE  [Next]_vars \/ HookFailed
<1>1. CASE \/ UNCHANGED allVars \/ HostSend \/ HostReceive \/ HostRestart \/ Lose \/ ReadyHandle
           \/ Unregistered \/ UpdateInfoAct \/ Prepared \/ Drain
  BY <1>1 DEF allVars, HostSend, HostReceive, HostRestart, Lose, ReadyHandle, Unregistered,
     UpdateInfoAct, Prepared, Drain
<1>2. CASE InfoHandle
  <2>1. link.package \in Packages
    BY <1>2 DEF InfoHandle, Received, Couriers
  <2>2. CASE HostBegin(link.package, UpgradeMode)
    <3>1. \E p \in Packages, mode \in Modes : HostBegin(p, mode)
      BY <2>1, <2>2, ProtocolAssumption
    <3>. QED BY <3>1 DEF Next, Host
  <2>. QED BY <1>2, <2>2 DEF InfoHandle
<1>3. CASE DataHandle
  <2>1. link.package \in Packages
    BY <1>3 DEF DataHandle, Received, Couriers
  <2>2. CASE HostData(link.offset, link.package)
    <3>1. Len(core.running_crc) \in Nat
      BY Given DEF CoreType
    <3>2. link.offset \in Offsets
      BY <2>2, <3>1, Constants DEF HostData, Accepted, Offsets
    <3>3. \E offset \in Offsets, data \in Packages : HostData(offset, data)
      BY <2>1, <2>2, <3>2
    <3>. QED BY <3>3 DEF Next, Host
  <2>3. CASE HostDataRefused
    BY <2>3 DEF Next, Host
  <2>. QED BY <1>3, <2>2, <2>3 DEF DataHandle
<1>4. CASE EndHandle
  <2>1. link.package \in Packages
    BY <1>4 DEF EndHandle, Received, Couriers
  <2>2. CASE HostEnd(Whole(link.package))
    <3>1. \E p \in Packages : HostEnd(Whole(p))
      BY <2>1, <2>2
    <3>. QED BY <3>1 DEF Next, Host
  <2>. QED BY <1>4, <2>2 DEF EndHandle
<1>5. CASE PrepareFailed
  <2>1. faults \in 0 .. MaxFaults
    BY DEF IInv, Typed
  <2>. QED BY <1>5, <2>1, Constants DEF PrepareFailed, HookFailed
<1>6. CASE HandOver
  <2>1. app.upgrade_info \in Packages \cup {NONE} /\ IapUpdate(app.upgrade_info)
    BY <1>6 DEF HandOver, Couriers, AppType
  <2>2. \E info \in Packages \cup {NONE} : IapUpdate(info)
    BY <2>1
  <2>. QED BY <2>2 DEF Next
<1>7. CASE CoreProcess \/ CoreFlash \/ PowerLoss
  BY <1>7 DEF CoreProcess, CoreFlash, PowerLoss, Next
<1>. QED BY <1>1, <1>2, <1>3, <1>4, <1>5, <1>6, <1>7 DEF ProtocolNext, Handle

LEMMA HookStep == IInv /\ HookFailed => IInv'
  BY DEF HookFailed, IInv, Typed
-----------------------------------------------------------------------------
(* What holds throughout an upload.                                        *)

PInv ==
  /\ IInv /\ Couriers
  /\ Roomy(flash, core, op, result) /\ Budget(flash, core, copies)

LEMMA UploadStarts == MetadataReadable /\ ProtocolInit => PInv
  BY Starts, CouriersStart, RoomStart, BudgetStart DEF ProtocolInit, PInv

LEMMA UploadStep == PInv /\ [ProtocolNext]_allVars => PInv'
<1>. SUFFICES ASSUME PInv, [ProtocolNext]_allVars
              PROVE  PInv'
  OBVIOUS
<1>0. /\ IInv /\ Couriers
      /\ Roomy(flash, core, op, result) /\ Budget(flash, core, copies)
  BY DEF PInv
<1>1. Couriers'
  BY <1>0, CouriersStep
<1>2. CASE [Next]_vars
  <2>1. IInv'
    BY <1>0, <1>2, Steps
  <2>2. Roomy(flash', core', op', result')
    BY <1>0, <1>2, RoomStep
  <2>3. Budget(flash', core', copies')
    BY <1>0, <1>2, <2>1, BudgetStep
  <2>. QED BY <1>1, <2>1, <2>2, <2>3 DEF PInv
<1>3. CASE HookFailed
  <2>1. IInv'
    BY <1>0, <1>3, HookStep
  <2>2. Roomy(flash', core', op', result') /\ Budget(flash', core', copies')
    BY <1>0, <1>3 DEF HookFailed
  <2>. QED BY <1>1, <2>1, <2>2 DEF PInv
<1>. QED BY <1>0, <1>2, <1>3, ProtocolMoves

\* Whatever frames and answers the link loses, whatever the host abandons and
\* wherever the application hands over, flash and core agree: the protocol
\* handlers give bootloader_core.c nothing that its invariant does not expect.
THEOREM UploadInvariance == MetadataReadable /\ ProtocolSpec => []PInv
  BY UploadStarts, UploadStep, PTL DEF ProtocolSpec

\* During uploads too, only a complete image gets the CPU, the newest record
\* tells the truth about the application, only erased flash is programmed and
\* an install is given up in time.
THEOREM UploadsAreSafe ==
  MetadataReadable /\ ProtocolSpec =>
    [](BootsOnlyComplete /\ ImageGuarded /\ ProgramsErasedOnly /\ InstallBounded)
<1>1. PInv => BootsOnlyComplete /\ ImageGuarded /\ ProgramsErasedOnly /\ InstallBounded
  BY RunsComplete, RecordsTell, RoomMeans DEF PInv, Budget, InstallBounded
<1>. QED BY <1>1, UploadInvariance, PTL

\* No handler, no timeout and no hand-over touches the application before a
\* record says that it may be lost.
THEOREM UploadsKeepOldImage == MetadataReadable /\ ProtocolSpec => OldImageKept
<1>1. PInv /\ [ProtocolNext]_allVars =>
        [flash'.IAP # flash.IAP =>
           Found.state \in {"DOWNLOAD_DIRECT", "INSTALL_PENDING", "COPYING"}]_vars
  <2>. SUFFICES ASSUME PInv, [ProtocolNext]_allVars, flash'.IAP # flash.IAP
                PROVE  Found.state \in {"DOWNLOAD_DIRECT", "INSTALL_PENDING", "COPYING"}
    OBVIOUS
  <2>1. [Next]_vars
    BY ProtocolMoves DEF PInv, HookFailed
  <2>. QED BY <2>1, OldImageStep DEF PInv, vars
<1>. QED BY <1>1, UploadInvariance, PTL DEF ProtocolSpec, OldImageKept

\* During uploads too the two metadata copies behave as one record that is
\* written at once.
THEOREM UploadsCommitAtomically == MetadataReadable /\ ProtocolSpec => CommitsAreAtomic
<1>1. ProtocolInit => Register!Init
  BY RegisterStart DEF ProtocolInit
<1>2. PInv /\ PInv' /\ [ProtocolNext]_allVars => Register!Step
  <2>. SUFFICES ASSUME PInv, PInv', [ProtocolNext]_allVars
                PROVE  Register!Step
    OBVIOUS
  <2>1. CASE [Next]_vars
    BY <2>1, RegisterStep DEF PInv
  <2>2. CASE HookFailed
    BY <2>2 DEF HookFailed, Register!Step, Found, Newest, Selected, Reading,
       Committing, Encoded
  <2>. QED BY <2>1, <2>2, ProtocolMoves DEF PInv
<1>. QED BY <1>1, <1>2, UploadInvariance, PTL
     DEF ProtocolSpec, CommitsAreAtomic, Register!Spec, Register!Step

LEMMA StoredStart == ProtocolInit => Stored(flash, core, op, result)
<1>1. ProtocolInit => core.state = "META_A_READ"
  BY BootedFacts DEF ProtocolInit, Init
<1>. QED BY <1>1, NothingStored DEF DownloadStates, CommitStates

LEMMA UploadStoredStep ==
    ReportsFailures /\ PInv /\ Stored(flash, core, op, result) /\ [ProtocolNext]_allVars
      => Stored(flash', core', op', result')
<1>. SUFFICES ASSUME ReportsFailures, PInv, Stored(flash, core, op, result),
                     [ProtocolNext]_allVars
              PROVE  Stored(flash', core', op', result')
  OBVIOUS
<1>1. CASE [Next]_vars
  BY <1>1, StoredStep DEF PInv
<1>2. CASE HookFailed
  BY <1>2 DEF HookFailed
<1>. QED BY <1>1, <1>2, ProtocolMoves DEF PInv

(* The declared length and CRC match what has been stored.                 *)
LEMMA EndStored ==
    ASSUME PInv, Stored(flash, core, op, result), EndHandle, ack'.ok
    PROVE  flash[DownloadZone(core)] = Whole(link.package)
<1>. DEFINE zone == DownloadZone(core)
            n == Len(core.running_crc)
            crc == Whole(link.package)
<1>1. InSession /\ core.running_crc = crc
  <2>1. InSession /\ ack'.ok = EndAccepted(crc)
    <3>1. InSession
      <4>. SUFFICES ASSUME ~InSession PROVE FALSE
        OBVIOUS
      <4>1. ack' = [to |-> link, ok |-> FALSE]
        BY DEF EndHandle, Replied, Answer
      <4>. QED BY <4>1
    <3>2. ack' = [to |-> link, ok |-> EndAccepted(crc)]
      BY <3>1 DEF EndHandle, Replied, Answer
    <3>. QED BY <3>1, <3>2
  <2>. QED BY <2>1 DEF EndAccepted
<1>2. core \in CoreType /\ flash \in FlashType
  BY Given DEF PInv
<1>3. \A i \in 1 .. n : flash[zone][i] = core.running_crc[i]
  BY <1>1 DEF InSession, Stored, Kept, Holds, Clean, ReadingStates, CommitStates, DownloadStates
<1>4. crc = [i \in Offsets |-> crc[i]] /\ DOMAIN crc = 1 .. Chunks
  BY DEF Whole, Offsets
<1>5. DOMAIN core.running_crc = 1 .. n
  BY <1>2 DEF CoreType
<1>6. 1 .. n = Offsets
  BY <1>1, <1>4, <1>5 DEF Offsets
<1>7. flash[zone] = [i \in Offsets |-> flash[zone][i]]
  BY <1>2 DEF FlashType, Image, DownloadZone
<1>. HIDE DEF zone, n, crc
<1>8. \A i \in Offsets : flash[zone][i] = crc[i]
  BY <1>1, <1>3, <1>6
<1>9. flash[zone] = crc
  BY <1>4, <1>7, <1>8
<1>. QED BY <1>9 DEF zone, crc

\* An 0x0B that bootloader_protocol.c answers with success finds exactly what
\* the host sent in the download zone: packets answered before they were
\* written, repeated or left over from an earlier upload have not changed it.
THEOREM SuccessMeansStored ==
  MetadataReadable /\ ReportsFailures /\ ProtocolSpec => EndMeansStored
<1>. DEFINE SInv == ReportsFailures /\ Stored(flash, core, op, result)
<1>1. PInv /\ SInv =>
        [EndHandle /\ ack'.ok => flash[DownloadZone(core)] = Whole(link.package)]_allVars
  BY EndStored
<1>2. PInv /\ SInv /\ [ProtocolNext]_allVars => SInv'
  BY UploadStoredStep
<1>3. ReportsFailures /\ ProtocolInit => SInv
  BY StoredStart
<1>. HIDE DEF SInv
<1>. QED BY <1>1, <1>2, <1>3, UploadInvariance, PTL DEF ProtocolSpec, EndMeansStored
=============================================================================
