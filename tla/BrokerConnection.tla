-------------------------- MODULE BrokerConnection --------------------------
(***************************************************************************)
(* One KafkaConnection (src/main/kafka/kafka-connection.ts) from its       *)
(* connect, in two phases through port-forwards or directly                *)
(* (connect-discovered.ts, port-forward-manager.ts, redirect.ts), over the *)
(* operations that use it, to its disconnect.                              *)
(*                                                                         *)
(* KafkaJS is external: its admins and the shared read cluster connect,    *)
(* fail and disconnect as the code asks them to.                           *)
(***************************************************************************)
EXTENDS FiniteSets, Naturals

CONSTANTS
  Brokers,  \* how many brokers the metadata names
  Use,      \* uses of the connection by operations
  Closer    \* calls of disconnect()

ASSUME ConnectionAssumption == Brokers \in Nat \ {0}

VARIABLES
  stage,     \* "seed", "metadata", "brokers", "open", "failed"
  direct,    \* no port-forwards are used
  seed,      \* the listener to the seed broker is open
  servers,   \* brokers whose local listener is open
  tunnels,   \* the forwarder of the session: "open", "closing", "closed"
  hooked,    \* forwarder.close is registered with onDisconnect()
  gone,      \* disconnected
  cluster,   \* the read cluster: "none", "connecting", "ready", "quitting", "closing"
  closings,  \* how often a read cluster was told to disconnect while connected
  use,       \* use[u].of: the operation, .at: where it is
  closer     \* closer[d]: "none", "waits", "cluster", "hooks", "done"

connectionVars == <<stage, direct, seed, servers, tunnels, hooked, gone, cluster, closings, use,
                    closer>>
lifeVars == <<stage, direct, seed, servers, tunnels, hooked>>

-----------------------------------------------------------------------------
(* What the operations use: an admin of their own, the shared read cluster, or both; those with
   a signal disconnect their admin early when it is aborted. *)
Admin == [admin |-> TRUE, cluster |-> FALSE, signal |-> FALSE]
Cluster == [admin |-> FALSE, cluster |-> TRUE, signal |-> FALSE]

Snapshot == [overview |-> Admin]
Health == [health |-> [admin |-> TRUE, cluster |-> TRUE, signal |-> TRUE]]
TopicMetadata == [topicDetail |-> Admin, topicConfig |-> Admin]
Consumers == [topicConsumers |-> [admin |-> TRUE, cluster |-> TRUE, signal |-> TRUE]]
AdminReads == [brokerConfig |-> Admin, acls |-> Admin]
ClusterReads == [browseMessages |-> Cluster, topicSizes |-> Cluster]
GroupOperations == [listGroups |-> Admin, groupDetail |-> Admin]
Produces == [produce |-> Admin]
AdminWrites == [deleteTopic |-> Admin, deleteTopics |-> Admin, resetOffsets |-> Admin]

OperationSets == {Snapshot, Health, TopicMetadata, Consumers, AdminReads, ClusterReads,
                  GroupOperations, Produces, AdminWrites}
Needs == UNION {{operations[o] : o \in DOMAIN operations} : operations \in OperationSets}

Idle == [of |-> Admin, at |-> "none"]

ConnectionTypeOK ==
  /\ stage \in {"seed", "metadata", "brokers", "open", "failed"} /\ direct \in BOOLEAN
  /\ seed \in BOOLEAN /\ servers \subseteq 1..Brokers /\ hooked \in BOOLEAN /\ gone \in BOOLEAN
  /\ tunnels \in {"open", "closing", "closed"} /\ closings \in Nat
  /\ cluster \in {"none", "connecting", "ready", "quitting", "closing"}
  /\ \A u \in Use : use[u].at \in {"none", "admin", "cluster", "works", "leaves", "done"}
  /\ closer \in [Closer -> {"none", "waits", "cluster", "hooks", "done"}]

ConnectionInit ==
  /\ direct \in BOOLEAN /\ stage = (IF direct THEN "open" ELSE "seed") /\ seed = FALSE
  /\ servers = {} /\ tunnels = (IF direct THEN "closed" ELSE "open") /\ hooked = FALSE
  /\ gone = FALSE /\ cluster = "none" /\ closings = 0
  /\ use = [u \in Use |-> Idle] /\ closer = [d \in Closer |-> "none"]

-----------------------------------------------------------------------------
(* connectDiscovered()                                                     *)

(* What fails before the connection exists closes the tunnels; the listeners that the second phase
   had opened belong to a connection that nobody gets. *)
FailsToConnect ==
  /\ stage' = "failed" /\ tunnels' = "closed" /\ seed' = FALSE
  /\ UNCHANGED <<direct, servers, hooked>>

OpensSeed ==
  /\ stage = "seed"
  /\ \/ FailsToConnect
     \/ /\ stage' = "metadata" /\ seed' = TRUE
        /\ UNCHANGED <<direct, servers, tunnels, hooked>>
  /\ UNCHANGED <<gone, cluster, closings, use, closer>>

(* describeCluster() through the seed, whose listener is closed either way; a broker without a pod
   fails the connect. *)
ReadsMetadata ==
  /\ stage = "metadata"
  /\ \/ FailsToConnect
     \/ stage' = "brokers" /\ seed' = FALSE /\ UNCHANGED <<direct, servers, tunnels, hooked>>
  /\ UNCHANGED <<gone, cluster, closings, use, closer>>

(* open(): one listener after the other. *)
OpensBroker ==
  /\ stage = "brokers"
  /\ \/ FailsToConnect
     \/ /\ servers' = servers \cup {Cardinality(servers) + 1}
        /\ IF Cardinality(servers') = Brokers
           THEN stage' = "open" /\ hooked' = TRUE ELSE UNCHANGED <<stage, hooked>>
        /\ UNCHANGED <<direct, seed, tunnels>>
  /\ UNCHANGED <<gone, cluster, closings, use, closer>>

-----------------------------------------------------------------------------
(* Operations.                                                             *)

To(u, at) == use' = [use EXCEPT ![u].at = at]

Begins(u) ==
  /\ stage = "open" /\ use[u].at = "none"
  /\ \E needs \in Needs :
       use' = [use EXCEPT ![u] = [of |-> needs, at |-> IF needs.admin THEN "admin" ELSE "cluster"]]
  /\ UNCHANGED <<lifeVars, gone, cluster, closings, closer>>

(* An admin that does not connect fails its operation. *)
AdminConnects(u) ==
  /\ use[u].at = "admin"
  /\ \/ To(u, "done") \/ To(u, IF use[u].of.cluster THEN "cluster" ELSE "works")
  /\ UNCHANGED <<lifeVars, gone, cluster, closings, closer>>

(* getMessageCluster(): shared, connected once, refused after the disconnect. *)
GetsCluster(u) ==
  /\ use[u].at = "cluster"
  /\ \/ gone /\ To(u, "leaves") /\ UNCHANGED cluster
     \/ ~gone /\ cluster = "ready" /\ To(u, "works") /\ UNCHANGED cluster
     \/ ~gone /\ cluster = "none" /\ cluster' = "connecting" /\ UNCHANGED use
  /\ UNCHANGED <<lifeVars, gone, closings, closer>>

(* The read cluster has connected; after a disconnect it is closed here. *)
Rejects == [u \in Use |-> IF use[u].at = "cluster" THEN [use[u] EXCEPT !.at = "leaves"] ELSE use[u]]

Quits ==
  IF gone THEN cluster' = "quitting" /\ closings' = closings + 1
          ELSE cluster' = "ready" /\ UNCHANGED closings

ClusterConnects ==
  /\ cluster = "connecting" /\ Quits
  /\ UNCHANGED <<lifeVars, gone, use, closer>>

(* Its promise is rejected, and the operations that share it with it. *)
ClusterFails ==
  /\ cluster \in {"connecting", "quitting"}
  /\ cluster' = "none" /\ use' = Rejects
  /\ UNCHANGED <<lifeVars, gone, closings, closer>>

(* The work is done, has failed, or an abort has disconnected the admin; the admin is disconnected
   in the end. *)
WorkEnds(u) ==
  /\ use[u].at = "works" \/ (use[u].of.signal /\ use[u].at = "cluster")
  /\ To(u, IF use[u].of.admin THEN "leaves" ELSE "done")
  /\ UNCHANGED <<lifeVars, gone, cluster, closings, closer>>

LeavesUse(u) ==
  /\ use[u].at = "leaves" /\ To(u, "done")
  /\ UNCHANGED <<lifeVars, gone, cluster, closings, closer>>

-----------------------------------------------------------------------------
(* disconnect()                                                            *)

(* The read cluster is closed by whoever finds it ready; one that is connecting is waited for. *)
Unwaited(d) == closer' = [closer EXCEPT ![d] = "hooks"]
AwaitsCluster(d) == closer' = [closer EXCEPT ![d] = "waits"]

Disconnects(d) ==
  /\ stage = "open" /\ closer[d] = "none"
  /\ gone' = TRUE
  /\ IF cluster = "ready"
     THEN /\ cluster' = "closing" /\ closings' = closings + 1
          /\ closer' = [closer EXCEPT ![d] = "cluster"]
     ELSE /\ UNCHANGED <<cluster, closings>>
          /\ IF cluster \in {"connecting", "quitting"}
             THEN AwaitsCluster(d) ELSE closer' = [closer EXCEPT ![d] = "hooks"]
  /\ UNCHANGED <<lifeVars, use>>

(* The promise of the connect has settled without a cluster. *)
WaitEnds(d) ==
  /\ closer[d] = "waits" /\ cluster \notin {"connecting", "quitting"}
  /\ closer' = [closer EXCEPT ![d] = "hooks"]
  /\ UNCHANGED <<lifeVars, gone, cluster, closings, use>>

ClusterClosed(d) ==
  /\ closer[d] = "cluster"
  /\ cluster' = "none" /\ closer' = [closer EXCEPT ![d] = "hooks"]
  /\ UNCHANGED <<lifeVars, gone, closings, use>>

(* closeAll(), and the listeners of the disconnect, which close the tunnels. *)
ClosesPorts(d) ==
  /\ closer[d] = "hooks" /\ tunnels # "closing"
  /\ servers' = {} /\ hooked' = FALSE
  /\ tunnels' = IF hooked THEN "closing" ELSE tunnels
  /\ closer' = IF hooked THEN closer ELSE [closer EXCEPT ![d] = "done"]
  /\ UNCHANGED <<stage, direct, seed, gone, cluster, closings, use>>

TunnelsClose ==
  /\ tunnels = "closing" /\ tunnels' = "closed"
  /\ UNCHANGED <<stage, direct, seed, servers, hooked, gone, cluster, closings, use, closer>>

UseMoves(u) == AdminConnects(u) \/ GetsCluster(u) \/ WorkEnds(u) \/ LeavesUse(u)
CloserMoves(d) == WaitEnds(d) \/ ClusterClosed(d) \/ ClosesPorts(d)
ConnectMoves == OpensSeed \/ ReadsMetadata \/ OpensBroker

ConnectionNext ==
  \/ ConnectMoves \/ ClusterConnects \/ ClusterFails \/ TunnelsClose
  \/ \E u \in Use : Begins(u) \/ UseMoves(u)
  \/ \E d \in Closer : Disconnects(d) \/ CloserMoves(d)

ConnectionSpec == ConnectionInit /\ [][ConnectionNext]_connectionVars

-----------------------------------------------------------------------------
(* Properties.                                                             *)

(* When every disconnect has returned nothing of the connection is left: no listener, no tunnel and
   no read cluster, whatever was connecting meanwhile (SPEC-019, REQ-229). *)
NothingLeft ==
  gone /\ (\A d \in Closer : closer[d] \in {"none", "done"}) =>
    cluster = "none" /\ servers = {} /\ ~seed /\ tunnels = "closed"

(* The disconnect and the late connect never both close the read cluster, and an operation that
   comes after it opens no other. *)
ClosedByOne == closings <= 1

(* Both: what a connection has opened is closed, and once. *)
ClosedOnceAndAll == NothingLeft /\ ClosedByOne

=============================================================================
