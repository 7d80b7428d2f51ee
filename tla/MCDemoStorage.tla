--------------------------- MODULE MCDemoStorage ----------------------------
(* Small instances of DemoStorage.                                         *)
EXTENDS DemoStorage

CONSTANTS x, y

(* protected, A, B, test, log of LogBlocks blocks.                         *)
Starts == [i \in 0 .. 5 |-> <<0, 2, 4, 6, 10, 10 + 2 * LogBlocks>>[i + 1]]
Rights == [z \in 0 .. 4 |-> IF z = 0 THEN {"READ"} ELSE {"READ", "WRITE", "ERASE"}]

Programs == {<<page>> : page \in Pages}

(* One device of each kind.                                                *)
OneWornInit == StorageInit /\ flash[0] = Worn /\ flash[1] = Blank
OneWorn == OneWornInit /\ [][Next]_vars /\ Fairness
=============================================================================
