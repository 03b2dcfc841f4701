---------------------------- MODULE KafkaTargets -----------------------------
(* The Kafka targets of a frame, which its pages name by id. *)

CONSTANTS
  Cluster,  \* Kafka targets
  Nothing   \* what stands for undefined: no cluster, no topic, no data

ASSUME TargetsAssumption == Nothing \notin Cluster

=============================================================================
