--------------------------- MODULE TopicWorkspace ---------------------------
(***************************************************************************)
(* What the Topics page of a frame reads and shows                         *)
(* (src/renderer/kafka-topic-pages.tsx): the sizes of the listed topics,   *)
(* and of the open topic its partitions, its configuration and its         *)
(* consumers, each loaded with an operation of its own, while the selected *)
(* cluster, its list of topics, the open topic and the tab change.         *)
(*                                                                         *)
(* One step is an event with the renders and effects React runs before the *)
(* next event.  Data is the cluster and the topic it was read for.  What   *)
(* loadTopic() finds in the renderer's cache is data of what it asks for   *)
(* (FrameCaches), or nothing.                                              *)
(***************************************************************************)
EXTENDS KafkaTargets, FiniteSets, Naturals

CONSTANTS
  Topic,   \* topic names, which clusters may share
  MaxAsks  \* bounds the calls that are under way at a time

ASSUME WorkspaceAssumption == Nothing \notin Topic /\ MaxAsks \in Nat

VARIABLES
  onCluster,  \* the selected cluster
  inList,     \* the topics of its metadata, {} while there is none
  openTopic,  \* the open topic
  tab,        \* the tab of the workspace
  panel,      \* panel[k]: the state of what is loaded by operation k
  asks        \* the calls that are not answered yet

workspaceVars == <<onCluster, inList, openTopic, tab, panel, asks>>

PanelKinds == {"topic", "topicConfig", "topicConsumers", "sizes"}
Tabs == {"overview", "consumers", "configuration"}
TabOf == [topicConfig |-> "configuration", topicConsumers |-> "consumers"]

Data == [cluster : Cluster, topic : Topic \cup {Nothing}]

(* A panel names the topic it is for (sizes: the cluster), may be loading, and has data or not. *)
TopicPanels ==
  [of : Topic \cup Cluster \cup {Nothing}, loading : BOOLEAN, data : Data \cup {Nothing}]
BlankPanel == [of |-> Nothing, loading |-> FALSE, data |-> Nothing]

(* A call is current while its operation ID is the one its panel waits for, or its effect was not
   cleaned up. *)
PanelCalls == [kind : PanelKinds, for : Data, current : BOOLEAN]

WorkspaceTypeOK ==
  /\ onCluster \in Cluster /\ inList \subseteq Topic
  /\ openTopic \in Topic \cup {Nothing} /\ tab \in Tabs
  /\ panel \in [PanelKinds -> TopicPanels] /\ asks \subseteq PanelCalls

WorkspaceInit ==
  /\ onCluster \in Cluster /\ inList = {} /\ openTopic = Nothing /\ tab = "overview"
  /\ panel = [k \in PanelKinds |-> BlankPanel] /\ asks = {}

-----------------------------------------------------------------------------
(* Loads.                                                                  *)

For(k, c, t) == [cluster |-> c, topic |-> IF k = "sizes" THEN Nothing ELSE t]

(* What a load finds at once: cached partitions if there is a hit, the sizes of the same cluster, or
   nothing. *)
AtOnce(k, c, t, hit) ==
  IF k = "topic" /\ hit THEN For(k, c, t)
  ELSE IF k = "sizes" /\ panel[k].of = c THEN panel[k].data
  ELSE Nothing

(* loadTopic(), loadTopicConfig(), loadTopicConsumers() and the effect of the sizes, for cluster c
   with list l and topic t. *)
NeedsLoad(k, l, t) == IF k = "sizes" THEN l # {} ELSE t \in l

Loaded(k, c, l, t, hit) ==
  IF NeedsLoad(k, l, t)
  THEN [of |-> IF k = "sizes" THEN c ELSE t, loading |-> TRUE, data |-> AtOnce(k, c, t, hit)]
  ELSE IF k = "sizes" THEN panel[k]
  ELSE [BlankPanel EXCEPT !.of = IF l = {} THEN Nothing ELSE t]

(* The effects run for the operations ks; their earlier calls are not current any longer. *)
Runs(ks, c, l, t) ==
  /\ \E hit \in BOOLEAN :
       panel' = [k \in PanelKinds |-> IF k \in ks THEN Loaded(k, c, l, t, hit) ELSE panel[k]]
  /\ asks' = {[q EXCEPT !.current = @ /\ q.kind \notin ks] : q \in asks}
              \cup {[kind |-> k, for |-> For(k, c, t), current |-> TRUE] :
                      k \in {j \in ks : NeedsLoad(j, l, t)}}
  /\ Cardinality(asks') <= MaxAsks

(* A tab loads what it shows unless its panel is for the open topic already. *)
OnTab(t, v) ==
  {k \in DOMAIN TabOf : t # Nothing /\ TabOf[k] = v /\ panel[k].of # t}

-----------------------------------------------------------------------------
(* Events.                                                                 *)

(* Another cluster is selected: the open topic is left, and the new metadata comes later. *)
SwitchesCluster(c) ==
  /\ c # onCluster
  /\ onCluster' = c /\ inList' = {} /\ openTopic' = Nothing /\ tab' = "overview"
  /\ Runs({"topic", "sizes"}, c, {}, Nothing)

(* The metadata is read, or read again, or could not be read. *)
MetadataArrives(l) ==
  /\ inList' = l /\ (l = {} => inList # {})
  /\ Runs({"topic", "sizes"} \cup OnTab(openTopic, tab), onCluster, l, openTopic)
  /\ UNCHANGED <<onCluster, openTopic, tab>>

(* A row is clicked; the topic of a link need not be listed. *)
OpensWorkspace(t) ==
  /\ openTopic = Nothing
  /\ openTopic' = t /\ tab' = "overview"
  /\ Runs({"topic"}, onCluster, inList, t)
  /\ UNCHANGED <<onCluster, inList>>

LeavesWorkspace ==
  /\ openTopic # Nothing
  /\ openTopic' = Nothing /\ tab' = "overview"
  /\ Runs({"topic"}, onCluster, inList, Nothing)
  /\ UNCHANGED <<onCluster, inList>>

OpensTab(v) ==
  /\ openTopic # Nothing /\ inList # {} /\ v # tab
  /\ tab' = v
  /\ Runs(OnTab(openTopic, v), onCluster, inList, openTopic)
  /\ UNCHANGED <<onCluster, inList, openTopic>>

(* The button of a panel that shows an error or nothing. *)
Retries(k) ==
  /\ openTopic # Nothing /\ inList # {} /\ ~panel[k].loading
  /\ k = "topic" \/ (k \in DOMAIN TabOf /\ TabOf[k] = tab)
  /\ Runs({k}, onCluster, inList, openTopic)
  /\ UNCHANGED <<onCluster, inList, openTopic, tab>>

(* An answer is shown if it is that of the current operation; a failure leaves the cached partitions
   of a topic and nothing else. *)
PanelHeeded(q) == q.current

Shows(q) == [of |-> IF q.kind = "sizes" THEN q.for.cluster ELSE q.for.topic, loading |-> FALSE,
             data |-> q.for]

PanelAnswers(q) ==
  /\ asks' = asks \ {q}
  /\ panel' = IF PanelHeeded(q) THEN [panel EXCEPT ![q.kind] = Shows(q)] ELSE panel
  /\ UNCHANGED <<onCluster, inList, openTopic, tab>>

PanelFails(q) ==
  /\ asks' = asks \ {q}
  /\ panel' = IF ~PanelHeeded(q) THEN panel ELSE
       [panel EXCEPT ![q.kind] = [Shows(q) EXCEPT !.data =
          IF q.kind = "topic" THEN panel["topic"].data ELSE Nothing]]
  /\ UNCHANGED <<onCluster, inList, openTopic, tab>>

(* Progress with one group of the consumers, or the first of them. *)
PartAnswers(q) ==
  /\ q.kind = "topicConsumers" /\ PanelHeeded(q)
  /\ panel' = [panel EXCEPT ![q.kind].data = q.for]
  /\ UNCHANGED <<onCluster, inList, openTopic, tab, asks>>

WorkspaceNext ==
  \/ \E c \in Cluster : SwitchesCluster(c)
  \/ \E l \in SUBSET Topic : MetadataArrives(l)
  \/ \E t \in Topic : OpensWorkspace(t)
  \/ LeavesWorkspace
  \/ \E v \in Tabs : OpensTab(v)
  \/ \E k \in PanelKinds : Retries(k)
  \/ \E q \in asks : PanelAnswers(q) \/ PanelFails(q) \/ PartAnswers(q)

WorkspaceSpec == WorkspaceInit /\ [][WorkspaceNext]_workspaceVars

-----------------------------------------------------------------------------
(* Properties.                                                             *)

OfContext(d) == d # Nothing => d.cluster = onCluster /\ d.topic \in {openTopic, Nothing}

(* "Responses ... from a previous cluster or entity MUST be ... ignored before rendering" (SPEC-004,
   REQ-041): the partitions of the open topic, and the sizes, are those of the selected cluster; and
   what is shown as loading will be answered. *)
ShowsWhatIsOpen ==
  /\ OfContext(panel["topic"].data)
  /\ panel["sizes"].of = onCluster => OfContext(panel["sizes"].data)
  /\ \A k \in PanelKinds \ {"sizes"} :
       panel[k].loading => \E q \in asks : q.kind = k /\ q.current /\ q.for.topic = panel[k].of

=============================================================================
