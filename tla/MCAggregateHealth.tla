-------------------------- MODULE MCAggregateHealth --------------------------
(* Small instances of AggregateHealth: the keys are security generations of one target. *)
EXTENDS AggregateHealth, TLC

MCTargetOf == [k \in Key |-> CHOOSE t \in Target : TRUE]

Symmetry == Permutations(Key) \cup Permutations(Request) \cup Permutations(Worker)
=============================================================================
