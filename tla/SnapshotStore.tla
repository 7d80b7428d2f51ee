--------------------------- MODULE SnapshotStore ---------------------------
(***************************************************************************)
(* What the snapshot pool of code/section/srtos_stl promises the scheduler *)
(* of a shared task stack: the frame a task resumes from is, word for      *)
(* word, the frame it was preempted with.  Where a frame is kept, when its *)
(* words are reused and what the allocation history looks like are not     *)
(* visible here; SnapshotPool shows how the code provides it.              *)
(***************************************************************************)
CONSTANTS
  Tasks,   (* resident task slots                                         *)
  Owners,  (* loaded groups                                               *)
  Group,   (* the group that owns each task slot                          *)
  Frames,  (* the stack images a task can be preempted with               *)
  NONE

VARIABLES
  saved,   (* the frame kept for each task, NONE when there is none        *)
  runtime  (* the frame last copied back to the one executable stack       *)

storeVars == <<saved, runtime>>

StoreInit == saved = [t \in Tasks |-> NONE] /\ runtime = NONE

Keep(t, f) ==
  /\ saved[t] = NONE
  /\ saved' = [saved EXCEPT ![t] = f]
  /\ UNCHANGED runtime

Resume(t) ==
  /\ saved[t] # NONE
  /\ runtime' = saved[t]
  /\ saved' = [saved EXCEPT ![t] = NONE]

(* Revoking a group drops the frames of its tasks and of no other.         *)
Drop(o) ==
  /\ saved' = [t \in Tasks |-> IF Group[t] = o THEN NONE ELSE saved[t]]
  /\ UNCHANGED runtime

StoreNext ==
  \/ \E t \in Tasks, f \in Frames : Keep(t, f)
  \/ \E t \in Tasks : Resume(t)
  \/ \E o \in Owners : Drop(o)

StoreSpec == StoreInit /\ [][StoreNext]_storeVars
=============================================================================
