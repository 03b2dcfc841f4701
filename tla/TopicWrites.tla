---------------------------- MODULE TopicWrites -----------------------------
(***************************************************************************)
(* What a user writes from the Topics page of a frame                      *)
(* (src/renderer/kafka-topic-pages.tsx): the compose panel and the         *)
(* deletion of the open topic, the selection of topics in the list and its *)
(* batch deletion (src/renderer/kafka-topic-selection.ts), each behind a   *)
(* confirmation that is locked to the cluster and the names it was opened  *)
(* for (src/renderer/kafka-write-policy.ts), while the selected cluster,   *)
(* the open topic, the list and the write mode change under it.            *)
(*                                                                         *)
(* One step is an event with the renders and effects React runs before the *)
(* next event.  The typed confirmation and its switch are one step.        *)
(***************************************************************************)
EXTENDS KafkaTargets, FiniteSets, Naturals

CONSTANTS
  Name,     \* topic names, on any of the clusters
  Internal  \* the names that begin with "__"

ASSUME WritesAssumption == Internal \subseteq Name /\ Nothing \notin Name

VARIABLES
  selected,   \* the selected cluster
  workspace,  \* workspaceTargetId: the last selected cluster
  opened,     \* the topic whose workspace is open
  listed,     \* the topics the list has, {} with no metadata
  writable,   \* the clusters whose write mode is on
  ticked,     \* selectedTopics
  dialog,     \* dialog[k]: the confirmation of kind k, and the context it is locked to
  sending,    \* the requests that are not answered yet
  left        \* the dialogs whose context has changed since they were opened, for the properties

writesVars == <<selected, workspace, opened, listed, writable, ticked, dialog, sending, left>>

WriteKinds == {"produce", "delete", "batch"}

(* The cluster and the topics a dialog is locked to, and whether its name or count is typed. *)
Dialogs == [open : BOOLEAN, cluster : Cluster \cup {Nothing}, topics : SUBSET Name, typed : BOOLEAN]
Closed == [open |-> FALSE, cluster |-> Nothing, topics |-> {}, typed |-> FALSE]
Requests == [kind : WriteKinds, cluster : Cluster, topics : SUBSET Name]

WritesTypeOK ==
  /\ {selected, workspace} \subseteq Cluster \cup {Nothing}
  /\ opened \in Name \cup {Nothing}
  /\ listed \subseteq Name /\ writable \subseteq Cluster /\ ticked \subseteq Name
  /\ dialog \in [WriteKinds -> Dialogs] /\ sending \subseteq Requests /\ left \subseteq WriteKinds

WritesInit ==
  /\ selected \in Cluster /\ workspace = selected /\ opened = Nothing
  /\ listed = {} /\ writable \in SUBSET Cluster
  /\ ticked = {}
  /\ dialog = [k \in WriteKinds |-> Closed] /\ sending = {} /\ left = {}

(* The dialog is on the page: inside the workspace, or above the list. *)
OnPage(k) ==
  dialog[k].open /\ selected # Nothing /\ listed # {} /\ (k = "batch" <=> opened = Nothing)
Mounted == OnPage("produce")

(* A request keeps its dialog busy, and the answer of a compose panel that is gone does nothing. *)
Busy(kind) == \E r \in sending : r.kind = kind
Heard(requests) == sending' = {r \in requests : r.kind = "produce" => Mounted'}

CanWrite == selected \in writable
OpenTopics(topic) == IF topic = Nothing THEN {} ELSE {topic}

-----------------------------------------------------------------------------
(* The effects.                                                            *)

(* A dialog closes when its locked context is not the page's any longer: cluster c with write mode
   w, and topic t. *)
NeverOff(k, c, t, w) == FALSE
Off(k, c, t, w) ==
  \/ dialog[k].cluster # c
  \/ k = "batch" /\ (t # Nothing \/ ~w)
  \/ k # "batch" /\ dialog[k].topics # OpenTopics(t)
  \/ k = "produce" /\ ~w

(* What cancels a write: another cluster or another topic (SPEC-009, REQ-106), for a batch an opened
   topic or the end of the write mode (REQ-204), and for a message the end of the write mode.  The
   end of the write mode does not cancel the deletion of a single topic: its effect compares the
   cluster and the topic only (kafka-topic-pages.tsx:944), which is not what REQ-102 wants. *)
ContextLeft(k, c, t, w) ==
  \/ c # selected
  \/ k # "batch" /\ t # opened
  \/ k = "batch" /\ (t # Nothing \/ ~w)
  \/ k = "produce" /\ ~w

(* The ticks outlive neither a change of the cluster nor the loss of the write mode. *)
TicksKept(c, w) == c = selected /\ (CanWrite => w)

(* The page shows cluster c with its topic t, after the step that leads there has changed the
   dialogs to `now` and the ticks to `ticks`. *)
PageSettles(c, t, w, now, ticks) ==
  LET closed(k) == now[k].open /\ Off(k, c, t, w) IN
  /\ dialog' = [k \in WriteKinds |-> IF closed(k) THEN Closed ELSE now[k]]
  /\ left' = {k \in WriteKinds : dialog'[k].open /\ (k \in left \/ ContextLeft(k, c, t, w))}
  /\ ticked' = IF TicksKept(c, w) THEN ticks ELSE {}

-----------------------------------------------------------------------------
(* What moves the page.                                                    *)

(* Another cluster is selected, or the selected one is not among the clusters any longer and then
   may come back.  An open topic is left when the cluster is not the one it was opened on. *)
SelectsCluster(c, t) ==
  /\ c # selected
  /\ t \in {opened, Nothing} /\ (c = Nothing => t = opened)
  /\ (t # Nothing => c \in {Nothing, workspace})
  /\ selected' = c /\ opened' = t
  /\ workspace' = IF c = Nothing THEN workspace ELSE c
  /\ listed' = {}
  /\ PageSettles(c, t, c \in writable, dialog, ticked)
  /\ Heard(sending)
  /\ UNCHANGED writable

(* A row is clicked, or the button that leads back to the list. *)
OpensTopic(t) ==
  /\ opened = Nothing /\ t \in listed
  /\ opened' = t
  /\ PageSettles(selected, t, CanWrite, dialog, ticked)
  /\ UNCHANGED <<selected, workspace, listed, writable, sending>>

LeavesTopic ==
  /\ opened # Nothing
  /\ opened' = Nothing
  /\ PageSettles(selected, Nothing, CanWrite, dialog, ticked)
  /\ UNCHANGED <<selected, workspace, listed, writable>>
  /\ Heard(sending)

(* Write mode is switched for a cluster, in this frame or another. *)
SwitchesWriteMode(c) ==
  LET switched == IF c \in writable THEN writable \ {c} ELSE writable \cup {c} IN
  /\ writable' = switched
  /\ PageSettles(selected, opened, selected \in switched, dialog, ticked)
  /\ UNCHANGED <<selected, workspace, opened, listed>>
  /\ Heard(sending)

(* The metadata is read, or read again: ticks of names that are gone are dropped. *)
Pruned(names) == ticked \cap names

ListArrives(names) ==
  /\ selected # Nothing /\ names # {} /\ names # listed
  /\ listed' = names
  /\ ticked' = Pruned(names)
  /\ UNCHANGED <<selected, workspace, opened, writable, dialog, sending, left>>

(* A read that fails leaves the page without metadata, and so without its workspace. *)
ListFails ==
  /\ listed # {}
  /\ listed' = {}
  /\ dialog' = [dialog EXCEPT !["produce"].typed = FALSE]
  /\ UNCHANGED <<selected, workspace, opened, writable, ticked, left>>
  /\ Heard(sending)

-----------------------------------------------------------------------------
(* The selection: only with write mode, and frozen while a batch is confirmed or under way.       *)

OnList == opened = Nothing /\ listed # {} /\ CanWrite
Ticking == OnList /\ ~dialog["batch"].open /\ ~Busy("batch")

(* toggleTopicSelection(), selectVisibleTopics() and the button that clears all. *)
Ticks(names) ==
  /\ Ticking
  /\ ticked' = names /\ names # ticked
  /\ UNCHANGED <<selected, workspace, opened, listed, writable, dialog, sending, left>>

TicksOne(t) ==
  /\ t \in listed \ Internal
  /\ Ticks(IF t \in ticked THEN ticked \ {t} ELSE ticked \cup {t})

TicksPage ==
  LET page == listed \ Internal IN
  /\ page # {}
  /\ Ticks(IF page \subseteq ticked THEN ticked \ page ELSE ticked \cup page)

ClearsTicks == ticked # {} /\ Ticks({})

-----------------------------------------------------------------------------
(* The dialogs.                                                            *)

(* One confirmation at a time: the compose panel and the deletion of a topic close each other. *)
OpensDialog(k, topics, closes) ==
  /\ dialog' = [j \in WriteKinds |->
       IF j = k THEN [open |-> TRUE, cluster |-> selected, topics |-> topics,
                      typed |-> k = "produce" /\ Mounted /\ dialog[k].typed]
       ELSE IF j \in closes THEN Closed ELSE dialog[j]]
  /\ left' = left \ {k}
  /\ UNCHANGED <<selected, workspace, opened, listed, writable, ticked>>
  /\ Heard(sending)

(* openProduce() and openDeleteTopic(). *)
OpensTopicDialog(k) ==
  /\ k \in {"produce", "delete"} /\ CanWrite /\ opened # Nothing
  /\ OpensDialog(k, {opened}, {"produce", "delete"} \ {k})

(* openDeleteTopics(). *)
OpensBatch ==
  /\ Ticking /\ ticked # {}
  /\ OpensDialog("batch", ticked, {})

(* The name or the number of topics is typed and the switch is on. *)
Confirms(k) ==
  /\ OnPage(k) /\ ~dialog[k].typed
  /\ dialog' = [dialog EXCEPT ![k].typed = TRUE]
  /\ UNCHANGED <<selected, workspace, opened, listed, writable, ticked, sending, left>>

Cancels(k) ==
  /\ OnPage(k)
  /\ dialog' = [dialog EXCEPT ![k] = Closed]
  /\ UNCHANGED <<selected, workspace, opened, listed, writable, ticked, left>>
  /\ Heard(sending)

(* sendProduce(), submitDeleteTopic() and submitDeleteTopics(): the lock is compared once more. *)
InContext(k) ==
  dialog[k].cluster = selected /\ (k # "batch" => dialog[k].topics = {opened})

Submits(k) ==
  /\ OnPage(k) /\ dialog[k].typed /\ InContext(k) /\ ~Busy(k)
  /\ sending' = sending \cup {[kind |-> k, cluster |-> selected, topics |-> dialog[k].topics]}
  /\ UNCHANGED <<selected, workspace, opened, listed, writable, ticked, dialog, left>>

-----------------------------------------------------------------------------
(* The answers of main, which come to whatever the page shows by then.     *)

(* The compose panel shows the result and asks for another confirmation. *)
ProduceAnswers(r) ==
  /\ r.kind = "produce" /\ sending' = sending \ {r}
  /\ dialog' = [dialog EXCEPT !["produce"].typed = FALSE]
  /\ UNCHANGED <<selected, workspace, opened, listed, writable, ticked, left>>

(* The workspace is left for the list. *)
DeleteAnswers(r) ==
  /\ r.kind = "delete"
  /\ opened' = Nothing
  /\ PageSettles(selected, Nothing, CanWrite, [dialog EXCEPT !["delete"] = Closed], ticked)
  /\ UNCHANGED <<selected, workspace, listed, writable>>
  /\ Heard(sending \ {r})

(* The topics that could not be deleted stay ticked. *)
BatchAnswers(r, failed) ==
  /\ r.kind = "batch" /\ failed \subseteq r.topics /\ sending' = sending \ {r}
  /\ dialog' = [dialog EXCEPT !["batch"] = Closed]
  /\ ticked' = failed
  /\ UNCHANGED <<selected, workspace, opened, listed, writable, left>>

(* The dialog shows the error. *)
WriteFails(r) ==
  /\ sending' = sending \ {r}
  /\ UNCHANGED <<selected, workspace, opened, listed, writable, ticked, dialog, left>>

-----------------------------------------------------------------------------
WriteAnswers ==
  \E r \in sending :
    \/ ProduceAnswers(r) \/ DeleteAnswers(r) \/ WriteFails(r)
    \/ \E failed \in SUBSET r.topics : BatchAnswers(r, failed)

WritesNext ==
  \/ \E c \in Cluster \cup {Nothing}, t \in Name \cup {Nothing} : SelectsCluster(c, t)
  \/ \E c \in Cluster : SwitchesWriteMode(c)
  \/ \E t \in Name : OpensTopic(t) \/ TicksOne(t)
  \/ \E names \in SUBSET Name : ListArrives(names)
  \/ LeavesTopic \/ ListFails \/ TicksPage \/ ClearsTicks \/ OpensBatch \/ WriteAnswers
  \/ \E k \in WriteKinds : OpensTopicDialog(k) \/ Confirms(k) \/ Cancels(k) \/ Submits(k)

WritesSpec == WritesInit /\ [][WritesNext]_writesVars

-----------------------------------------------------------------------------
(* Properties.                                                             *)

(* A write is sent only from a dialog whose context has not changed since it was opened, not even to
   change back: the cluster and, but for a batch, the topic; and for a message or a batch that the
   write mode is on.  Such a change cancels it (SPEC-009, REQ-106, REQ-204). *)
SentInItsContext ==
  [][\A r \in sending' \ sending :
       r.kind \notin left /\ r.cluster = selected /\ r.topics = dialog[r.kind].topics]_writesVars

(* The boxes are frozen while the batch is confirmed (REQ-204): no name is ticked that the dialog
   does not list; nor are two dialogs of a topic open. *)
FrozenWhileOpen ==
  /\ dialog["batch"].open => ticked \subseteq dialog["batch"].topics
  /\ ~(dialog["produce"].open /\ dialog["delete"].open)

(* Both: what a user has confirmed is what is written. *)
WritesWhatWasConfirmed == SentInItsContext /\ []FrozenWhileOpen

=============================================================================
