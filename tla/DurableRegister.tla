-------------------------- MODULE DurableRegister ---------------------------
(***************************************************************************)
(* What two copies of a record promise together, the bootloader's metadata *)
(* and the demo's parameters alike: one register that a power loss or a    *)
(* flash failure can leave at the last acknowledged record or at the       *)
(* record then being written, and at nothing else.  A record whose write   *)
(* was reported as failed may have landed all the same; the next write may *)
(* take it back, but never goes behind the acknowledged record.            *)
(***************************************************************************)
CONSTANTS Records, NONE

VARIABLES
  acknowledged, (* the last record known to be written                     *)
  value,        (* the record a power-on would find                        *)
  proposal      (* the record being committed, or NONE                     *)

Init ==
  /\ acknowledged \in Records \cup {NONE} /\ value = acknowledged
  /\ proposal = NONE

Propose(r) == proposal = NONE /\ proposal' = r /\ UNCHANGED <<acknowledged, value>>

(* The write takes effect all at once, or a landed one is taken back.      *)
Settle ==
  /\ proposal # NONE /\ value' \in {proposal, acknowledged}
  /\ UNCHANGED <<acknowledged, proposal>>

Acknowledge ==
  /\ proposal # NONE /\ value = proposal
  /\ acknowledged' = proposal /\ proposal' = NONE /\ UNCHANGED value

Fail == proposal # NONE /\ proposal' = NONE /\ UNCHANGED <<acknowledged, value>>

(* A restart, or a fresh scan, adopts what it finds, whatever was being    *)
(* written.                                                                *)
Restart ==
  /\ value' = value \/ (proposal # NONE /\ value' \in {proposal, acknowledged})
  /\ acknowledged' = value' /\ proposal' = NONE

Next == Settle \/ Acknowledge \/ Fail \/ Restart \/ \E r \in Records : Propose(r)

Step == [Next]_<<acknowledged, value, proposal>>

Spec == Init /\ [][Next]_<<acknowledged, value, proposal>>
=============================================================================
