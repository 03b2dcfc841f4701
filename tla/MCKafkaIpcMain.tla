--------------------------- MODULE MCKafkaIpcMain ---------------------------
(* Small instances of KafkaIpcMain: the keys are settings of one target. *)
EXTENDS KafkaIpcMain, TLC

MCTargetOf == [k \in Key |-> CHOOSE t \in Target : TRUE]

Symmetry == Permutations(Request) \cup Permutations(Conn) \cup Permutations(Key)
=============================================================================
