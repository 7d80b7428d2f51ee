--------------------------- MODULE MCSnapshotPool ---------------------------
(* A pool of five words and three records, shared by three tasks of two    *)
(* groups; frames of one, two and three words whose words tell their       *)
(* position apart.                                                         *)
EXTENDS SnapshotPool, TLC

CONSTANTS t1, t2, t3, o1, o2, a, b

MCGroup == t1 :> o1 @@ t2 :> o1 @@ t3 :> o2
MCFrames == {<<a>>, <<b, a>>, <<a, b, b>>}
=============================================================================
