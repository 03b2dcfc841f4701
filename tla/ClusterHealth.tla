---------------------------- MODULE ClusterHealth ---------------------------
(***************************************************************************)
(* What one health worker computes (src/main/kafka/cluster-health.ts,      *)
(* fetchClusterHealth): the topology, the offsets of all consumer groups   *)
(* (GroupScan), the high watermarks, read from each leader                 *)
(* (src/main/kafka/offset-batch.ts) or else topic by topic, and the lag,   *)
(* with what is missing from it.                                           *)
(*                                                                         *)
(* Every group that has committed an offset in a partition lags by one     *)
(* record there.  A group's offsets are read wholly, in part or not at     *)
(* all; what was read in part of a group stays, and the group counts as    *)
(* unavailable.  The count is not part of what the worker was handed: it   *)
(* is asked of the index at the end, and the index is the connection's,    *)
(* which others scan and clear in the meantime.                            *)
(***************************************************************************)
EXTENDS FiniteSets, Naturals

CONSTANTS
  Consumer,  \* consumer groups
  Part,      \* partitions, as pairs of a topic and a number
  Node       \* brokers

ASSUME HealthAssumption == IsFiniteSet(Consumer) /\ IsFiniteSet(Part)

Leaderless == "none"
Topics == {part[1] : part \in Part}

VARIABLES
  committed,  \* committed[g]: the partitions in which g has committed an offset
  indexed,    \* indexed[g]: those of them that the scan has read
  leaderOf,   \* leaderOf[part] in the metadata that was read
  step,       \* where the worker is
  batch,      \* .left: leaders that are still to be asked, .high: partitions read
  topics,     \* topics whose lag is still to be measured
  measured,   \* measured[t]: the partitions whose watermark was there, or the failure
  aborted,    \* the worker's signal is aborted
  status,     \* what scanStatus() would say, .own: of the scan whose offsets the worker has
  health      \* what it reports last, .own: with the status of its own scan

healthVars ==
  <<committed, indexed, leaderOf, step, batch, topics, measured, aborted, status, health>>

Steps == {"topology", "groups", "watermarks", "topics", "done", "failed"}
Outcome == {"none", "unavailable", "minimum", "complete"}

HealthTypeOK ==
  /\ committed \in [Consumer -> SUBSET Part] /\ indexed \in [Consumer -> SUBSET Part]
  /\ leaderOf \in [Part -> Node \cup {Leaderless}] /\ step \in Steps /\ topics \subseteq Topics
  /\ batch.left \subseteq Node /\ batch.high \subseteq Part /\ aborted \in BOOLEAN
  /\ \A t \in Topics : measured[t].failed \in BOOLEAN /\ measured[t].high \subseteq Part
  /\ status.missing \subseteq Consumer /\ health.lag \in Outcome

Unmeasured == [failed |-> FALSE, high |-> {}]
NoBatch == [left |-> {}, high |-> {}]

HealthInit ==
  /\ committed \in [Consumer -> SUBSET Part] /\ indexed = [g \in Consumer |-> {}]
  /\ leaderOf = [part \in Part |-> Leaderless] /\ step = "topology" /\ batch = NoBatch
  /\ topics = {} /\ measured = [t \in Topics |-> Unmeasured] /\ aborted = FALSE
  /\ status = [missing |-> {}, own |-> FALSE]
  /\ health = [lag |-> "none", known |-> 0, own |-> FALSE]

-----------------------------------------------------------------------------
(* The consumers in the index, and the topics they have offsets of.        *)
Committed(g) == indexed[g]
Used == UNION {Committed(g) : g \in Consumer}
Unavailable == status.missing
Asked(how, n) == {part \in how : leaderOf[part] = n}
Leaders(how) == {leaderOf[part] : part \in how} \ {Leaderless}

HealthEnds(how) == step' = how /\ UNCHANGED <<batch, topics, measured>>

(* describeCluster() and fetchTopicMetadata() *)
MeasuresTopology ==
  /\ step = "topology"
  /\ \/ /\ ~aborted /\ leaderOf' \in [Part -> Node \cup {Leaderless}] /\ HealthEnds("groups")
     \/ leaderOf' = leaderOf /\ HealthEnds("failed")
  /\ UNCHANGED <<committed, indexed, aborted, status, health>>

(* all() rejects: without an abort, broker and partition health stays. *)
GroupsFail ==
  /\ step = "groups"
  /\ IF aborted THEN HealthEnds("failed") /\ health' = health
     ELSE HealthEnds("done") /\ health' = [lag |-> "unavailable", known |-> 0, own |-> FALSE]
  /\ UNCHANGED <<committed, indexed, leaderOf, aborted, status>>

(* all() hands over the offsets of a scan that has ended, in which some groups were unavailable.
   All leaders are asked for the partitions in use, one after the other (fetchHighWatermarks()). *)
GroupsRead ==
  /\ step = "groups"
  /\ \E read \in [Consumer -> SUBSET Part], missing \in SUBSET Consumer :
       /\ \A g \in Consumer : read[g] \subseteq committed[g]
       /\ \A g \in Consumer \ missing : read[g] = committed[g]
       /\ indexed' = read /\ status' = [missing |-> missing, own |-> TRUE]
       /\ batch' = [left |-> Leaders(UNION {read[g] : g \in Consumer}), high |-> {}]
  /\ step' = "watermarks"
  /\ UNCHANGED <<committed, leaderOf, topics, measured, aborted, health>>

(* In the index another scan takes the place of that: the offsets kept have become older than ttlMs
   and another caller of all() starts a new one, in which nothing is unavailable at first; or they
   are cleared, by a refresh of another request on the connection or by its disconnect().  The worker
   awaits the read cluster, a leader or a topic. *)
IndexReplaced ==
  /\ step = "watermarks" \/ (step = "topics" /\ topics # {})
  /\ \E missing \in SUBSET Consumer : status' = [missing |-> missing, own |-> FALSE]
  /\ UNCHANGED <<committed, indexed, leaderOf, step, batch, topics, measured, aborted, health>>

LeaderAnswers(n) ==
  /\ step = "watermarks" /\ n \in batch.left /\ ~aborted
  /\ batch' = [left |-> batch.left \ {n}, high |-> batch.high \cup Asked(Used, n)]
  /\ UNCHANGED <<committed, indexed, leaderOf, step, topics, measured, aborted, status, health>>

(* Those of the topics with no partition in the answers are read on their own; the others have what
   the leaders said, and a partition without a leader has nothing. *)
InBatch(t, high) == \E part \in high : part[1] = t
Batched(high) ==
  /\ step' = "topics"
  /\ topics' = {t \in {part[1] : part \in Used} : ~InBatch(t, high)}
  /\ measured' = [t \in Topics |-> [failed |-> FALSE, high |-> {part \in high : part[1] = t}]]

WatermarksRead ==
  /\ step = "watermarks" /\ batch.left = {} /\ ~aborted
  /\ Batched(batch.high) /\ batch' = NoBatch
  /\ UNCHANGED <<committed, indexed, leaderOf, aborted, status, health>>

(* A leader fails: every topic is read on its own. *)
WatermarksFail ==
  /\ step = "watermarks"
  /\ IF aborted THEN HealthEnds("failed") ELSE Batched({}) /\ batch' = NoBatch
  /\ UNCHANGED <<committed, indexed, leaderOf, aborted, status, health>>

(* fetchTopicOffsets() of a topic *)
TopicRead(t) ==
  /\ step = "topics" /\ t \in topics /\ topics' = topics \ {t}
  /\ \E high \in {{}, {part \in Part : part[1] = t}} :
       measured' = [measured EXCEPT ![t] = [failed |-> high = {}, high |-> high]]
  /\ UNCHANGED <<committed, indexed, leaderOf, step, batch, aborted, status, health>>

(* A topic is complete if all its offsets have a watermark to be compared with. *)
FailedOnly(t) == ~measured[t].failed
EveryOffset(t) ==
  /\ ~measured[t].failed
  /\ \A g \in Consumer : \A part \in Committed(g) : part[1] = t => part \in measured[t].high

KnownLag ==
  Cardinality({pair \in Consumer \X Part : pair[2] \in indexed[pair[1]] /\
                                        pair[2] \in measured[pair[2][1]].high})

ReportsHealth ==
  /\ step = "topics" /\ topics = {}
  /\ HealthEnds("done")
  /\ health' = [known |-> KnownLag, own |-> status.own,
                lag |-> IF Unavailable = {} /\ \A t \in Topics : EveryOffset(t)
                        THEN "complete" ELSE "minimum"]
  /\ UNCHANGED <<committed, indexed, leaderOf, aborted, status>>

HealthAborts ==
  /\ step \notin {"done", "failed"} /\ ~aborted /\ aborted' = TRUE
  /\ UNCHANGED <<committed, indexed, leaderOf, step, batch, topics, measured, status, health>>

HealthNext ==
  \/ MeasuresTopology \/ GroupsFail \/ GroupsRead \/ WatermarksRead \/ WatermarksFail
  \/ ReportsHealth \/ HealthAborts \/ IndexReplaced
  \/ \E n \in Node : LeaderAnswers(n)
  \/ \E t \in Topics : TopicRead(t)

HealthSpec == HealthInit /\ [][HealthNext]_healthVars

-----------------------------------------------------------------------------
(* Properties.                                                             *)

TrueLag == Cardinality({pair \in Consumer \X Part : pair[2] \in committed[pair[1]]})
ReadLag == Cardinality({pair \in Consumer \X Part : pair[2] \in indexed[pair[1]]})

(* The lag shown is at most the true one.  One that is not marked as a minimum is that of all the
   offsets the worker was handed, whichever partitions, topics and leaders could not be read, and
   the true one if no other scan and no clear() has taken the place of its own in the index. *)
LagIsMinimum ==
  step = "done" => /\ health.known <= TrueLag
                   /\ health.lag = "complete" => health.known = ReadLag
                   /\ health.lag = "complete" /\ health.own => health.known = TrueLag

(* "Only 100% coverage may be presented as an exact global lag" (SPEC-014, REQ-187).  The code asks
   the shared index for the coverage after it has awaited the watermarks (cluster-health.ts:152):
   the answer may be of another scan than the offsets are of, or of none. *)
CompleteIsExact == step = "done" /\ health.lag = "complete" => health.known = TrueLag

=============================================================================
