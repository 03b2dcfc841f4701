--------------------------- MODULE GroupWorkspace ----------------------------
(***************************************************************************)
(* The Consumer Groups page of a frame                                     *)
(* (src/renderer/kafka-group-pages.tsx): the list of groups, the detail of *)
(* the open group, and the drawer that resets the offsets of that group,   *)
(* while the selected cluster and the open group change under them.        *)
(*                                                                         *)
(* One step is an event with the renders and effects React runs before the *)
(* next event.  The typed confirmation and its switch are one step.        *)
(***************************************************************************)
EXTENDS KafkaTargets, FiniteSets, Naturals

CONSTANTS
  GroupId,  \* group names, on any of the clusters
  MaxReads  \* bounds the reads that are under way at a time

ASSUME GroupAssumption == Nothing \notin GroupId /\ MaxReads \in Nat

VARIABLES
  chosen,      \* the selected cluster
  lastChosen,  \* workspaceTargetId: the cluster the workspace was last shown for
  group,       \* the open group
  view,        \* groupsState and detailState: what is loading, and of which context the data is
  reads,       \* the reads that are not answered yet
  writing,     \* the write mode of the clusters
  drawer,      \* the reset drawer, which outlives the group it was opened for
  resets       \* the resets that are not answered yet

groupVars == <<chosen, lastChosen, group, view, reads, writing, drawer, resets>>

Contexts == [cluster : Cluster, group : GroupId \cup {Nothing}]
Views == [loading : BOOLEAN, data : Contexts \cup {Nothing}]
EmptyView == [loading |-> FALSE, data |-> Nothing]

(* A read is current while its operation ID is the one its state waits for. *)
PageReads == [kind : {"groups", "detail"}, of : Contexts, current : BOOLEAN]

(* The name typed and confirmed in the drawer, and the cluster that was selected then. *)
Drawers == [open : BOOLEAN, typed : Contexts \cup {Nothing}]

GroupTypeOK ==
  /\ {chosen, lastChosen} \subseteq Cluster \cup {Nothing} /\ group \in GroupId \cup {Nothing}
  /\ view \in [{"groups", "detail"} -> Views] /\ reads \subseteq PageReads
  /\ writing \subseteq Cluster
  /\ drawer \in Drawers /\ resets \subseteq Contexts

GroupInit ==
  /\ chosen = Nothing /\ lastChosen = Nothing /\ group \in GroupId \cup {Nothing}
  /\ view = [k \in {"groups", "detail"} |-> EmptyView] /\ reads = {}
  /\ writing \in SUBSET Cluster
  /\ drawer = [open |-> FALSE, typed |-> Nothing] /\ resets = {}

-----------------------------------------------------------------------------
(* Loads.                                                                  *)

Context(c, g) == [cluster |-> c, group |-> g]
ReadOf(k, c, g) ==
  [kind |-> k, of |-> Context(c, IF k = "groups" THEN Nothing ELSE g), current |-> TRUE]

(* loadGroups() needs a cluster, loadDetail() an open group too. *)
Readable(k, c, g) == c # Nothing /\ (k = "groups" \/ g # Nothing)

(* The loads of ks run for cluster c and group g, and what they replace is not current any longer.
   The list begins with the cached groups of its cluster, if there is a hit. *)
ReadsAgain(ks, c, g) ==
  LET read == {k \in ks : Readable(k, c, g)} IN
  /\ reads' = {[r EXCEPT !.current = @ /\ r.kind \notin ks] : r \in reads}
              \cup {ReadOf(k, c, g) : k \in read}
  /\ Cardinality(reads') <= MaxReads
  /\ \E hit \in BOOLEAN :
       view' = [k \in {"groups", "detail"} |->
                 IF k \notin ks THEN view[k]
                 ELSE IF k \notin read THEN EmptyView
                 ELSE [loading |-> TRUE,
                       data |-> IF k = "groups" /\ hit THEN Context(c, Nothing) ELSE Nothing]]

-----------------------------------------------------------------------------
(* Events of the page.                                                     *)

(* The selected cluster changes, is gone, comes back or is listed anew: an open group is left when
   the workspace was last shown for another cluster, or when the user selects one. *)
Stays(c) == c = Nothing \/ lastChosen \in {Nothing, c}

ChoosesCluster(c) ==
  LET g == IF Stays(c) THEN group ELSE Nothing IN
  /\ chosen' = c /\ group' = g
  /\ lastChosen' = IF c = Nothing THEN lastChosen ELSE c
  /\ ReadsAgain({"groups", "detail"}, c, g)
  /\ UNCHANGED <<writing, drawer, resets>>

(* A row of the list is clicked, or the button that leads back to the list. *)
OpensGroup(g) ==
  /\ group = Nothing /\ chosen # Nothing /\ view["groups"].data # Nothing
  /\ group' = g
  /\ ReadsAgain({"detail"}, chosen, g)
  /\ UNCHANGED <<chosen, lastChosen, writing, drawer, resets>>

LeavesGroup ==
  /\ group # Nothing
  /\ group' = Nothing
  /\ ReadsAgain({"detail"}, chosen, Nothing)
  /\ UNCHANGED <<chosen, lastChosen, writing, drawer, resets>>

(* The button of a view that shows an error. *)
RetriesRead(k) ==
  /\ Readable(k, chosen, group) /\ ~view[k].loading
  /\ (k = "detail") <=> (group # Nothing)
  /\ ReadsAgain({k}, chosen, group)
  /\ UNCHANGED <<chosen, lastChosen, group, writing, drawer, resets>>

(* An answer is shown if it is that of the current operation; after a failure the list stays. *)
CurrentRead(r) == r.current

ReadShown(r) ==
  IF CurrentRead(r) THEN [view EXCEPT ![r.kind] = [loading |-> FALSE, data |-> r.of]] ELSE view

ReadEnds(r) ==
  /\ reads' = reads \ {r}
  /\ \/ view' = ReadShown(r)
     \/ view' = IF ~CurrentRead(r) THEN view ELSE
          [view EXCEPT ![r.kind].loading = FALSE,
                       ![r.kind].data = IF r.kind = "groups" THEN @ ELSE Nothing]
  /\ UNCHANGED <<chosen, lastChosen, group, writing, drawer, resets>>

-----------------------------------------------------------------------------
(* The reset of the offsets.                                               *)

SwitchesWriting(c) ==
  /\ writing' = IF c \in writing THEN writing \ {c} ELSE writing \cup {c}
  /\ UNCHANGED <<chosen, lastChosen, group, view, reads, drawer, resets>>

(* The button in the workspace, which forgets what was typed before. *)
OpensDrawer ==
  /\ group # Nothing /\ chosen \in writing
  /\ drawer' = [open |-> TRUE, typed |-> Nothing]
  /\ UNCHANGED <<chosen, lastChosen, group, view, reads, writing, resets>>

DrawerShown == drawer.open /\ group # Nothing /\ chosen # Nothing

TypesName(g) ==
  /\ DrawerShown
  /\ drawer' = [drawer EXCEPT !.typed = Context(chosen, g)]
  /\ UNCHANGED <<chosen, lastChosen, group, view, reads, writing, resets>>

CancelsReset ==
  /\ DrawerShown
  /\ drawer' = [drawer EXCEPT !.open = FALSE]
  /\ UNCHANGED <<chosen, lastChosen, group, view, reads, writing, resets>>

(* resetOffsetsTarget(): the first partition of the loaded detail; a group may have no offsets. *)
HasTarget == ~view["detail"].loading /\ view["detail"].data # Nothing

SubmitsReset ==
  /\ DrawerShown /\ HasTarget
  /\ drawer.typed # Nothing /\ drawer.typed.group = group
  /\ resets' = resets \cup {Context(chosen, group)}
  /\ UNCHANGED <<chosen, lastChosen, group, view, reads, writing, drawer>>

(* The answer is kept in the drawer, whatever is open then. *)
ResetEnds(c) ==
  /\ resets' = resets \ {c}
  /\ UNCHANGED <<chosen, lastChosen, group, view, reads, writing, drawer>>

GroupNext ==
  \/ \E c \in Cluster \cup {Nothing} : ChoosesCluster(c)
  \/ \E g \in GroupId : OpensGroup(g) \/ TypesName(g)
  \/ LeavesGroup
  \/ \E k \in {"groups", "detail"} : RetriesRead(k)
  \/ \E r \in reads : ReadEnds(r)
  \/ \E c \in Cluster : SwitchesWriting(c)
  \/ OpensDrawer \/ CancelsReset \/ SubmitsReset
  \/ \E c \in resets : ResetEnds(c)

GroupSpec == GroupInit /\ [][GroupNext]_groupVars

-----------------------------------------------------------------------------
(* Properties.                                                             *)

(* The first partition a reset is sent for is read from what is shown as the detail: it is always
   that of the open group on the selected cluster, and the list that of the cluster, whichever
   answers come late; and a view that is loading waits for a read that will be answered. *)
ShowsOpenGroup ==
  /\ view["groups"].data \in {Nothing, Context(chosen, Nothing)}
  /\ view["detail"].data \in {Nothing, Context(chosen, group)}
  /\ \A k \in DOMAIN view : view[k].loading <=> \E r \in reads : r.kind = k /\ r.current

(* "The destination cluster and resource MUST be locked at compose time. If the active cluster or
   page context changes before confirmation, the pending operation MUST be cancelled" (SPEC-009,
   REQ-106): offsets are reset of the group and on the cluster for which this was confirmed. *)
ResetsWhatWasConfirmed == [][\A c \in resets' \ resets : c = drawer.typed]_groupVars

=============================================================================
