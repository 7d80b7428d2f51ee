--------------------------- MODULE MCBootProtocol ---------------------------
(* Small instances of BootProtocol.                                        *)
EXTENDS BootProtocol

CONSTANTS p1, p2

(* The device runs the old application p1, or is blank, and is sent p2;    *)
(* an upload begun again may be of either package.                         *)
UploadInit == ProtocolInit /\ host.package = p2 /\ flash.IAP # Whole(p2)
UploadSpec == UploadInit /\ [][ProtocolNext]_allVars /\ Fairness
=============================================================================
