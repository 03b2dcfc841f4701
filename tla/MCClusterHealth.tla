--------------------------- MODULE MCClusterHealth ---------------------------
(* Partitions for small instances of a health worker. *)
EXTENDS ClusterHealth

MCPart == {<<"t1", 1>>, <<"t1", 2>>, <<"t2", 1>>}

=============================================================================
