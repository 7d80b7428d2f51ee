----------------------------- MODULE BootProtocol -----------------------------
(***************************************************************************)
(* An upgrade from the host's first frame to the new application running:  *)
(* the FRAME handlers of code/app/bootloader/protocol on top of the core   *)
(* of Bootloader, the update service of the application that hands over    *)
(* to it, and a link that loses frames and acknowledgements.  Handlers run *)
(* in the main loop, serialised with bootloader_process, so each is one    *)
(* step.  The host is external: stop-and-wait, as the usage document asks. *)
(***************************************************************************)
EXTENDS Bootloader

CONSTANTS
  Uploads,      (* packages the host sends                                 *)
  UpgradeMode,  (* p_protocol->upgrade_mode                                *)
  OnReject,     (* step of the host after a rejected 0x08                  *)
  MaxRestarts,  (* bound: uploads a host gives up and begins again         *)
  MaxDelay      (* IAP_UPDATE_RESET_DELAY_MS                               *)

ASSUME ProtocolAssumption ==
  /\ Uploads \subseteq Packages /\ UpgradeMode \in Modes
  /\ OnReject \in {"info", "ready"} /\ MaxRestarts \in Nat /\ MaxDelay \in Nat

VARIABLES
  host,  (* step of the upload, next offset, times it was begun again      *)
  link,  (* the frame on its way to the device, or NONE                    *)
  ack,   (* the acknowledgement on its way to the host, or NONE            *)
  app    (* static variables of iap_update_service.c                       *)

allVars == <<vars, host, link, ack, app>>

Frame(cmd, offset, package) == [cmd |-> cmd, offset |-> offset, package |-> package]
(* The answer carries the sequence number of its frame.                    *)
Answer(frame, ok) == [to |-> frame, ok |-> ok]

AppStarted == [transfer_pending |-> FALSE, prepare_ready |-> FALSE, reset_delay_ms |-> 0,
               upgrade_info |-> NONE]

ProtocolInit ==
  /\ Init
  /\ \E p \in Uploads :
       host = [step |-> "info", offset |-> 1, package |-> p, restarts |-> 0]
  /\ link = NONE /\ ack = NONE /\ app = AppStarted
----------------------------------------------------------------------------
(* The host.                                                               *)

Current ==
  CASE host.step = "info"  -> Frame("INFO", 0, host.package)
    [] host.step = "ready" -> Frame("READY", 0, NONE)
    [] host.step = "data"  -> Frame("DATA", host.offset, host.package)
    [] host.step = "end"   -> Frame("END", 0, host.package)

(* First transmission or timeout: a timeout may also come too early.       *)
HostSend ==
  /\ host.step # "done" /\ link = NONE
  /\ link' = Current
  /\ UNCHANGED <<vars, host, ack, app>>

Advanced ==
  CASE host.step = "info"  -> [host EXCEPT !.step = IF ack.ok THEN "ready" ELSE OnReject]
    [] host.step = "ready" -> IF ack.ok THEN [host EXCEPT !.step = "data", !.offset = 1] ELSE host
    [] host.step = "data"  -> IF ~ack.ok THEN host
                              ELSE IF host.offset < Chunks THEN [host EXCEPT !.offset = @ + 1]
                              ELSE [host EXCEPT !.step = "end"]
    [] host.step = "end"   -> IF ack.ok THEN [host EXCEPT !.step = "done"] ELSE host

HostReceive ==
  /\ ack # NONE /\ ack' = NONE
  /\ host' = IF host.step # "done" /\ ack.to = Current THEN Advanced ELSE host
  /\ UNCHANGED <<vars, link, app>>

HostRestart ==
  /\ host.restarts < MaxRestarts
  /\ \E p \in Uploads :
       host' = [step |-> "info", offset |-> 1, package |-> p, restarts |-> host.restarts + 1]
  /\ UNCHANGED <<vars, link, ack, app>>

Lose ==
  /\ \/ link # NONE /\ link' = NONE /\ UNCHANGED ack
     \/ ack # NONE /\ ack' = NONE /\ UNCHANGED link
  /\ UNCHANGED <<vars, host, app>>
----------------------------------------------------------------------------
(* Handlers of the bootloader.  A frame is consumed and answered at once;  *)
(* the answer waits for no flash operation.                                *)

InBootloader == core.state # "IAP"
Received(cmd) == link # NONE /\ link.cmd = cmd /\ ack = NONE
Replied(ok) == link' = NONE /\ ack' = Answer(link, ok) /\ UNCHANGED <<host, app>>

(* info_handle: allowed exactly if bootloader_upgrade_begin succeeds.      *)
InfoHandle ==
  /\ InBootloader /\ Received("INFO")
  /\ \/ HostBegin(link.package, UpgradeMode) /\ Replied(TRUE)
     \/ ~(core.state = "WAIT_UPGRADE" /\ op = NONE) /\ UNCHANGED vars /\ Replied(FALSE)

ReadyHandle ==
  /\ InBootloader /\ Received("READY")
  /\ UNCHANGED vars /\ Replied(core.state = "DOWNLOAD_READY")

(* bootloader_packet_submit confirms the last packet again without effect, *)
(* refuses any other offset, and refuses everything while it is busy.      *)
Repeated_Never(frame) == FALSE
Repeated(frame) ==
  /\ InSession /\ core.running_crc # << >>
  /\ frame.offset = Len(core.running_crc) /\ core.running_crc[frame.offset] = frame.package

DataHandle ==
  /\ InBootloader /\ Received("DATA")
  /\ IF Repeated(link) THEN UNCHANGED vars /\ Replied(TRUE)
     ELSE IF InSession /\ Accepted(link.offset, link.package)
     THEN \/ HostData(link.offset, link.package) /\ Replied(TRUE)
          \/ HostDataRefused /\ Replied(FALSE)
     ELSE UNCHANGED vars /\ Replied(FALSE)

EndHandle ==
  /\ InBootloader /\ Received("END")
  /\ IF InSession THEN HostEnd(Whole(link.package)) /\ Replied(EndAccepted(Whole(link.package)))
                  ELSE UNCHANGED vars /\ Replied(FALSE)

(* Commands nothing is registered for are dropped.                         *)
Unregistered ==
  /\ ~InBootloader /\ link # NONE /\ link.cmd # "INFO" /\ link' = NONE
  /\ UNCHANGED <<vars, host, ack, app>>
----------------------------------------------------------------------------
(* The update service of the running application.                          *)

UpdateInfoAct ==
  /\ ~InBootloader /\ Received("INFO")
  /\ link' = NONE /\ ack' = Answer(link, ~app.transfer_pending)
  /\ app' = IF app.transfer_pending THEN app
            ELSE [AppStarted EXCEPT !.transfer_pending = TRUE, !.upgrade_info = link.package]
  /\ UNCHANGED <<vars, host>>

Pending == ~InBootloader /\ app.transfer_pending
Prepared ==
  /\ Pending /\ ~app.prepare_ready
  /\ app' = [app EXCEPT !.prepare_ready = TRUE]
  /\ UNCHANGED <<vars, host, link, ack>>

PrepareFailed ==
  /\ Pending /\ ~app.prepare_ready
  /\ "platform" \in Failing /\ faults < MaxFaults /\ faults' = faults + 1
  /\ app' = [app EXCEPT !.transfer_pending = FALSE]
  /\ UNCHANGED <<flash, request, core, op, result, copies, host, link, ack>>

Drain ==
  /\ Pending /\ app.prepare_ready /\ app.reset_delay_ms < MaxDelay
  /\ app' = [app EXCEPT !.reset_delay_ms = @ + 1]
  /\ UNCHANGED <<vars, host, link, ack>>

(* boot_request_set and SYSTEM_RESET.                                      *)
HandOver ==
  /\ Pending /\ app.prepare_ready /\ app.reset_delay_ms = MaxDelay
  /\ IapUpdate(app.upgrade_info) /\ app' = AppStarted
  /\ UNCHANGED <<host, link, ack>>

(* The core accepts what the host or the application asks for: module,     *)
(* size and zones are as configured.                                       *)
CoreProcess ==
  /\ Process /\ (EvaluateBoot /\ Requested => core'.session_active)
  /\ UNCHANGED <<host, link, ack, app>>

CoreFlash == Flash /\ UNCHANGED <<host, link, ack, app>>
PowerLoss == Reset /\ app' = AppStarted /\ UNCHANGED <<host, link, ack>>

Handle ==
  \/ InfoHandle \/ ReadyHandle \/ DataHandle \/ EndHandle \/ Unregistered \/ UpdateInfoAct

ProtocolNext ==
  \/ HostSend \/ HostReceive \/ HostRestart \/ Lose \/ Handle
  \/ Prepared \/ PrepareFailed \/ Drain \/ HandOver
  \/ CoreProcess \/ CoreFlash \/ PowerLoss

ProtocolSpec == ProtocolInit /\ [][ProtocolNext]_allVars

(* The main loops poll, the flash ends what it began, the host repeats its *)
(* frame, and the link does not lose everything.                           *)
Fairness ==
  /\ WF_allVars(CoreProcess) /\ WF_allVars(CoreFlash)
  /\ WF_allVars(Prepared \/ Drain \/ HandOver)
  /\ WF_allVars(HostSend) /\ SF_allVars(Handle) /\ SF_allVars(HostReceive)
----------------------------------------------------------------------------
(* Properties.                                                             *)

(* An 0x0B is answered with success only if the download zone holds exactly *)
(* what this host sent for its package, although frames and answers were   *)
(* lost, repeated, left over from an upload given up before, and answers   *)
(* to packets were sent before the flash had taken them.                   *)
EndMeansStored ==
  [][EndHandle /\ ack'.ok => flash[DownloadZone(core)] = Whole(link.package)]_allVars

(* A host that keeps repeating its frame gets the new application running, *)
(* whichever frames and answers are lost, from the bootloader or from the  *)
(* running application: an answer lost after the packet was taken must not *)
(* leave host and device waiting for different packets.                    *)
Fresh ==
  /\ faults = MaxFaults /\ host.restarts = MaxRestarts /\ host.step = "info"
  /\ core.state \in {"WAIT_UPGRADE", "IAP"} /\ ~app.transfer_pending
  /\ link = NONE /\ ack = NONE
UploadCompletes == Fresh ~> core.state = "IAP" /\ flash.IAP = Whole(host.package)

(* A host that begins again after an interrupted download gets a session   *)
(* ("a download interruption" enters the resident state, and there "a new  *)
(* legal 0x08 can rebuild the upgrade session").                           *)
InterruptedRestarts ==
  faults = MaxFaults /\ host.restarts = MaxRestarts /\ host.step = "info"
    /\ core.state = "DOWNLOAD_READY"
  ~> host.step = "ready"
=============================================================================
