---------------------------- MODULE MCSectionStl ----------------------------
(* Small instances of SectionStl; each configuration says which calls the  *)
(* surroundings of the scheduler make.                                     *)
EXTENDS SectionStl, TLC

CONSTANTS g1, g2, dma

StepTask == [period |-> 1, step |-> TRUE]
PlainTask == [period |-> 1, step |-> FALSE]
SlowTask == [period |-> 2, step |-> FALSE]

OneEach == g1 :> <<StepTask>> @@ g2 :> <<PlainTask>>
TwoInOne == g1 :> <<StepTask, SlowTask>>
InitOnce == g1 :> 1 @@ g2 :> 0
NoInit == [g \in GroupIds |-> 0]
=============================================================================
