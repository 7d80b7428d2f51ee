------------------------------ MODULE MCCommV1 ------------------------------
(* Instances of CommV1 for TLC: payloads that contain the start byte, and one
   request of each kind the parser treats differently. *)
EXTENDS CommV1

PayloadSet == {<<SOP>>, <<SOP, SOP>>}

RequestSet ==
    {[dst |-> "local", kind |-> k] : k \in {"data", "unknown", "select"}}
        \cup {[dst |-> "routed", kind |-> "unknown"], [dst |-> "foreign", kind |-> "data"],
              [dst |-> "broadcast", kind |-> "elsewhere"]}
=============================================================================
