-------------------------- MODULE ConnectionDrawer ---------------------------
(***************************************************************************)
(* The drawer with the connection settings of a target on the Clusters     *)
(* page (src/renderer/kafka-overview.tsx): a user applies security         *)
(* settings, and the page connects again with them to show what it finds.  *)
(* The settings of a target are told apart by a number                     *)
(* (src/renderer/kafka-connection-settings.ts).                            *)
(*                                                                         *)
(* One step is an event with the renders and effects React runs before the *)
(* next event.                                                             *)
(***************************************************************************)
EXTENDS KafkaTargets, FiniteSets, Naturals

CONSTANTS
  MaxApplies,  \* bounds how often settings are applied
  MaxLooks     \* bounds the overviews that are under way at a time

ASSUME DrawerAssumption == {MaxApplies, MaxLooks} \subseteq Nat

VARIABLES
  drawerOf,   \* settingsTarget: the target whose drawer is open
  settings,   \* settings[t]: the settings in effect, 0 for those that are detected
  applies,    \* how many settings were applied
  reconnect,  \* the target of reconnectRequest
  found,      \* detail: what the last reconnect has found, and whether it is under way
  looks       \* the overviews that are not answered yet

drawerVars == <<drawerOf, settings, applies, reconnect, found, looks>>

Facts == [target : Cluster, settings : 0..MaxApplies]
NothingFound == [loading |-> FALSE, facts |-> Nothing]

(* An overview is live until its effect is cleaned up. *)
Looks == [of : Facts, live : BOOLEAN]

DrawerTypeOK ==
  /\ {drawerOf, reconnect} \subseteq Cluster \cup {Nothing}
  /\ settings \in [Cluster -> 0..MaxApplies] /\ applies \in 0..MaxApplies
  /\ found \in [loading : BOOLEAN, facts : Facts \cup {Nothing}] /\ looks \subseteq Looks

DrawerInit ==
  /\ drawerOf = Nothing /\ reconnect = Nothing
  /\ settings = [t \in Cluster |-> 0] /\ applies = 0
  /\ found = NothingFound /\ looks = {}

-----------------------------------------------------------------------------

(* The effect that reconnects is cleaned up: its overview is not heeded any longer. *)
Abandoned == {[q EXCEPT !.live = FALSE] : q \in looks}

(* The drawer of t is opened, or with Nothing closed. *)
OpensDrawerOf(t) ==
  /\ t # drawerOf
  /\ drawerOf' = t /\ found' = NothingFound /\ looks' = Abandoned
  /\ reconnect' = IF t = Nothing THEN reconnect ELSE Nothing
  /\ UNCHANGED <<settings, applies>>

(* applySecurity(): the settings are stored, and the effect asks for an overview with them. *)
AppliesSettings(chosen) ==
  LET facts == [target |-> drawerOf, settings |-> chosen] IN
  /\ drawerOf # Nothing
  /\ settings' = [settings EXCEPT ![drawerOf] = chosen]
  /\ reconnect' = drawerOf
  /\ found' = [loading |-> TRUE, facts |-> Nothing]
  /\ looks' = Abandoned \cup {[of |-> facts, live |-> TRUE]}
  /\ Cardinality(looks') <= MaxLooks
  /\ UNCHANGED drawerOf

AppliesNew ==
  /\ applies < MaxApplies /\ applies' = applies + 1
  /\ AppliesSettings(applies + 1)

(* "auto" for both choices removes the override. *)
AppliesDetected == AppliesSettings(0) /\ UNCHANGED applies

(* removeManualEndpoint() closes the drawer too. *)
RemovesTarget ==
  /\ drawerOf # Nothing
  /\ settings' = [settings EXCEPT ![drawerOf] = 0]
  /\ drawerOf' = Nothing /\ found' = NothingFound /\ looks' = Abandoned
  /\ UNCHANGED <<applies, reconnect>>

LiveLook(q) == q.live

LookEnds(q) ==
  /\ looks' = looks \ {q}
  /\ found' \in IF LiveLook(q) THEN {[loading |-> FALSE, facts |-> q.of], NothingFound} ELSE {found}
  /\ UNCHANGED <<drawerOf, settings, applies, reconnect>>

DrawerNext ==
  \/ \E t \in Cluster \cup {Nothing} : OpensDrawerOf(t)
  \/ AppliesNew \/ AppliesDetected \/ RemovesTarget
  \/ \E q \in looks : LookEnds(q)

DrawerSpec == DrawerInit /\ [][DrawerNext]_drawerVars

-----------------------------------------------------------------------------

(* What the drawer shows as found, such as the security in effect, was found on its target with
   the settings that were applied last; and while it connects, an answer will come. *)
FoundWithSettings ==
  /\ found.facts # Nothing => found.facts = [target |-> drawerOf, settings |-> settings[drawerOf]]
  /\ found.loading <=> \E q \in looks : q.live

=============================================================================
