----------------------------- MODULE TopicSizes -----------------------------
(***************************************************************************)
(* The sizes of topics on disk (src/main/kafka/log-dirs.ts,                *)
(* fetchTopicSizes and aggregateTopicSizes, with the request of            *)
(* log-dirs-protocol.ts): the metadata of the connection's read cluster,   *)
(* which its other reads share, then one request to each broker.           *)
(*                                                                         *)
(* KafkaJS and brokers are external: a refresh of the metadata takes the   *)
(* topics the cluster targets when it is sent, and fails if one of them    *)
(* does not exist.  A topic has one partition of one byte on each broker.  *)
(***************************************************************************)
EXTENDS FiniteSets, Naturals

CONSTANTS
  Topic,      \* topics that exist at first
  LogBroker,  \* brokers
  Reader,     \* reads of sizes
  Workers     \* brokers asked at a time: 8 in the code

ASSUME SizesAssumption == Workers \in Nat \ {0}

NoLeader == "none"

VARIABLES
  exists,    \* the topics that exist
  leader,    \* leader[t]: the broker that leads the partition of t, or none
  target,    \* targetTopics of the read cluster
  metadata,  \* the topics that the cluster's metadata has
  reader,    \* the reads, see SizesTypeOK
  disturbed  \* reads during which a topic was deleted or another read ran

sizesVars == <<exists, leader, target, metadata, reader, disturbed>>

SizesTypeOK ==
  /\ {exists, target, metadata} \subseteq SUBSET Topic /\ disturbed \subseteq Reader
  /\ leader \in [Topic -> LogBroker \cup {NoLeader}]
  /\ \A r \in Reader :
       /\ reader[r].at \in {"none", "adds", "refreshes", "retries", "broker", "collects", "done",
                            "unsupported", "failed"}
       /\ {reader[r].wanted, reader[r].known} \subseteq SUBSET Topic
       /\ {reader[r].left, reader[r].asked, reader[r].had, reader[r].lost}
            \subseteq SUBSET LogBroker

NoRead == [at |-> "none", wanted |-> {}, known |-> {}, sent |-> {}, left |-> {}, asked |-> {},
           had |-> {}, lost |-> {}]

SizesInit ==
  /\ exists = Topic /\ leader \in [Topic -> LogBroker \cup {NoLeader}]
  /\ target = {} /\ metadata = {}
  /\ reader = [r \in Reader |-> NoRead] /\ disturbed = {}

-----------------------------------------------------------------------------
Becomes(r, how) == reader' = [reader EXCEPT ![r] = how]
Reading == {r \in Reader : reader[r].at \notin {"none", "done", "unsupported", "failed"}}

(* fetchTopicSizes() up to its first await. *)
AsksSizes(r) ==
  /\ reader[r].at = "none"
  /\ \E wanted \in SUBSET exists :
       /\ Becomes(r, [NoRead EXCEPT !.wanted = wanted,
                                    !.at = IF wanted = {} THEN "done" ELSE "adds"])
       /\ target' = target \cup wanted
       /\ disturbed' = IF wanted = {} \/ Reading = {} THEN disturbed
                       ELSE disturbed \cup Reading \cup {r}
  /\ UNCHANGED <<exists, leader, metadata>>

(* The topics are added: the metadata is refreshed. *)
Refreshing(r) ==
  /\ reader[r].at = "adds"
  /\ Becomes(r, [reader[r] EXCEPT !.at = "refreshes", !.sent = target])
  /\ UNCHANGED <<exists, leader, target, metadata, disturbed>>

(* It answers: the read takes the partitions of its topics that the metadata has. *)
Refreshed(r) ==
  /\ reader[r].at \in {"refreshes", "retries"} /\ reader[r].sent \subseteq exists
  /\ metadata' = reader[r].sent
  /\ Becomes(r, [reader[r] EXCEPT !.at = "broker", !.known = reader[r].wanted \cap reader[r].sent])
  /\ UNCHANGED <<exists, leader, target, disturbed>>

(* It fails: once, the topics that others have left behind are dropped. *)
Retargeted(wanted) == target \cap wanted

RefreshFails(r) ==
  /\ reader[r].at = "refreshes" /\ ~(reader[r].sent \subseteq exists)
  /\ target' = Retargeted(reader[r].wanted)
  /\ Becomes(r, [reader[r] EXCEPT !.at = "retries", !.sent = Retargeted(reader[r].wanted)])
  /\ UNCHANGED <<exists, leader, metadata, disturbed>>

RetryFails(r) ==
  /\ reader[r].at = "retries" /\ ~(reader[r].sent \subseteq exists)
  /\ Becomes(r, [reader[r] EXCEPT !.at = "failed"])
  /\ UNCHANGED <<exists, leader, target, metadata, disturbed>>

(* The first broker has the versions of the API, or not. *)
FindsFirst(r, able) ==
  /\ reader[r].at = "broker"
  /\ Becomes(r, IF able THEN [reader[r] EXCEPT !.at = "collects", !.left = LogBroker]
              ELSE [reader[r] EXCEPT !.at = "unsupported"])
  /\ UNCHANGED <<exists, leader, target, metadata, disturbed>>

(* A worker takes the next broker. *)
AsksNode(r, n) ==
  /\ reader[r].at = "collects" /\ n \in reader[r].left
  /\ Cardinality(reader[r].asked) < Workers
  /\ Becomes(r, [reader[r] EXCEPT !.left = @ \ {n}, !.asked = @ \cup {n}])
  /\ UNCHANGED <<exists, leader, target, metadata, disturbed>>

ReadingEnded(how) == IF how.left \cup how.asked = {} THEN [how EXCEPT !.at = "done"] ELSE how

NodeAnswers(r, n) ==
  /\ n \in reader[r].asked
  /\ \/ Becomes(r, ReadingEnded([reader[r] EXCEPT !.asked = @ \ {n}, !.had = @ \cup {n}]))
     \/ Becomes(r, ReadingEnded([reader[r] EXCEPT !.asked = @ \ {n}, !.lost = @ \cup {n}]))
  /\ UNCHANGED <<exists, leader, target, metadata, disturbed>>

Deletes(t) ==
  /\ t \in exists /\ exists' = exists \ {t}
  /\ disturbed' = disturbed \cup Reading
  /\ UNCHANGED <<leader, target, metadata, reader>>

SizesNext ==
  \/ \E r \in Reader : \/ AsksSizes(r) \/ Refreshing(r) \/ Refreshed(r) \/ RefreshFails(r)
                       \/ RetryFails(r) \/ \E able \in BOOLEAN : FindsFirst(r, able)
                       \/ \E n \in LogBroker : AsksNode(r, n) \/ NodeAnswers(r, n)
  \/ \E t \in Topic : Deletes(t)

SizesSpec == SizesInit /\ [][SizesNext]_sizesVars

-----------------------------------------------------------------------------
(* aggregateTopicSizes(): what the page gets of a topic.                   *)

Known(how, t) == t \in how.known
LeaderSeen(how, t) == Known(how, t) /\ leader[t] \in how.had

Sizes(how, t) ==
  [leaderBytes |-> IF LeaderSeen(how, t) THEN 1 ELSE 0,
   replicaBytes |-> IF Known(how, t) THEN Cardinality(how.had) ELSE 0,
   exact |-> Known(how, t) => LeaderSeen(how, t)]

-----------------------------------------------------------------------------
(* Properties.                                                             *)

(* Unless a topic is deleted or another read runs meanwhile, a read does not fail, whatever topics
   deleted before the shared cluster still targets, and a size said to be exact is: "otherwise its
   leader size is a lower bound" (src/main/kafka/log-dirs.ts L29-32). *)
Exact(r) ==
  reader[r].at = "done" =>
    \A t \in reader[r].wanted : Sizes(reader[r], t).exact => Sizes(reader[r], t).leaderBytes = 1

OldTargetsForgiven == \A r \in Reader \ disturbed : reader[r].at # "failed" /\ Exact(r)

=============================================================================
