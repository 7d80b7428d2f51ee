---------------------------- MODULE MCBootloader ----------------------------
(* Small instances of Bootloader.                                          *)
EXTENDS Bootloader, TLC

CONSTANTS p1, p2

(* Packages are interchangeable; used for safety only.                     *)
Interchangeable == Permutations({p1, p2})

(* A fingerprint without what is always overwritten before it is read: the *)
(* session's variables once it is over, the result of an operation already *)
(* observed, the erases of a package no longer being installed.  Used for  *)
(* safety only.                                                            *)
AtRest == core.state \in {"WAIT_UPGRADE", "IAP"}
LiveCore ==
  IF AtRest THEN <<core.state, core.metadata_source_zone, core.metadata_sequence>>
  ELSE [core EXCEPT !.running_crc = IF core.session_active THEN @ ELSE << >>]
Live == <<flash, request, LiveCore, op, result \/ core.state \notin WaitStates \/ op # NONE,
          IF AtRest /\ ~Unfinished(Found) THEN 0 ELSE copies, faults>>
=============================================================================
