----------------------------- MODULE TargetPage -----------------------------
(***************************************************************************)
(* What every page of a frame shows of the selected Kafka cluster          *)
(* (useKafkaResourcePage() of src/renderer/kafka-resource-pages.tsx): its  *)
(* metadata, whether it can be reached from this machine, and its health,  *)
(* each taken from the frame's cache or loaded, while clusters are         *)
(* selected, refreshed by hand or by a timer, and lost.                    *)
(*                                                                         *)
(* One step is an event with the renders and effects React runs before the *)
(* next event.  The cache is external to the page: an answer makes its     *)
(* entry fresh, or not when the entry was invalidated (FrameCaches).       *)
(***************************************************************************)
EXTENDS KafkaTargets, FiniteSets, Naturals

CONSTANT
  MaxInquiries  \* bounds the calls that are under way at a time

ASSUME PageAssumption == MaxInquiries \in Nat

VARIABLES
  atCluster,  \* the selected cluster
  cache,      \* cache[k][c]: what the frame's cache has for operation k of cluster c
  persisted,  \* the clusters whose last health main has saved
  section,    \* section[k]: the state of the metadata or of the health
  reach,      \* the cluster whose reachability is shown
  frame,      \* the cluster whose health is asked for with the next animation frame
  inquiries   \* the calls that are not answered yet

pageVars == <<atCluster, cache, persisted, section, reach, frame, inquiries>>

Sections == {"overview", "health"}
SectionKinds == Sections \cup {"reachability"}
BlankSection == [of |-> Nothing, loading |-> FALSE, data |-> Nothing, failed |-> FALSE]

PageTypeOK ==
  /\ {atCluster, reach, frame} \subseteq Cluster \cup {Nothing} /\ persisted \subseteq Cluster
  /\ cache \in [SectionKinds -> [Cluster -> {"none", "stale", "fresh"}]]
  /\ section \in [Sections -> [of : Cluster \cup {Nothing}, loading : BOOLEAN,
                           data : Cluster \cup {Nothing}, failed : BOOLEAN]]
  /\ inquiries \subseteq [kind : SectionKinds, of : Cluster, current : BOOLEAN]

PageInit ==
  /\ atCluster = Nothing /\ persisted \in SUBSET Cluster
  /\ cache = [k \in SectionKinds |-> [c \in Cluster |-> "none"]]
  /\ section = [k \in Sections |-> BlankSection]
  /\ reach = Nothing /\ frame = Nothing /\ inquiries = {}

-----------------------------------------------------------------------------
(* The effects, for cluster c and what `has` then has for it.              *)

SectionOf(c, loading, data) == [of |-> c, loading |-> loading, data |-> data, failed |-> FALSE]

Metadata(c, has) ==
  IF c = Nothing THEN BlankSection
  ELSE IF has["overview"][c] = "fresh" THEN SectionOf(c, FALSE, c)
  ELSE SectionOf(c, TRUE, IF has["overview"][c] = "none" THEN Nothing ELSE c)

(* Nothing resets the reachability of another cluster when the metadata is fresh. *)
Reachable(c, has) ==
  IF c = Nothing THEN Nothing
  ELSE IF has["reachability"][c] = "fresh" THEN c
  ELSE IF has["overview"][c] = "fresh" THEN reach ELSE Nothing

MetadataAsks(c, has) ==
  IF c = Nothing THEN {}
  ELSE IF has["overview"][c] # "fresh" THEN {"overview", "reachability"}
  ELSE IF has["reachability"][c] # "fresh" THEN {"reachability"} ELSE {}

Health(c, has) ==
  IF c = Nothing THEN BlankSection
  ELSE IF has["health"][c] = "fresh" THEN SectionOf(c, FALSE, c)
  ELSE SectionOf(c, TRUE, IF has["health"][c] = "none" /\ c \notin persisted THEN Nothing ELSE c)

HealthAsks(c, has) == c # Nothing /\ has["health"][c] # "fresh"

(* What was called for by an effect that runs again is answered in vain. *)
Called(kinds, c, over) ==
  /\ inquiries' = {[q EXCEPT !.current = @ /\ q.kind \notin over] : q \in inquiries}
              \cup {[kind |-> k, of |-> c, current |-> TRUE] : k \in kinds}
  /\ Cardinality(inquiries') <= MaxInquiries

(* A health that is shown already is asked for after it was painted. *)
Framed(c, has) == IF HealthAsks(c, has) /\ Health(c, has).data # Nothing THEN c ELSE Nothing
HealthCalls(c, has) ==
  IF HealthAsks(c, has) /\ Health(c, has).data = Nothing THEN {"health"} ELSE {}

AllRuns(c, has) ==
  /\ section' = [overview |-> Metadata(c, has), health |-> Health(c, has)]
  /\ reach' = Reachable(c, has)
  /\ frame' = Framed(c, has)
  /\ Called(MetadataAsks(c, has) \cup HealthCalls(c, has), c, SectionKinds)

(* invalidateTarget(), and invalidateHealth() with ks = {"health"}. *)
Invalidated(ks, c) ==
  [k \in SectionKinds |-> IF k \in ks /\ c # Nothing /\ cache[k][c] = "fresh"
                   THEN [cache[k] EXCEPT ![c] = "stale"] ELSE cache[k]]

-----------------------------------------------------------------------------
(* Events.                                                                 *)

(* selectCluster() invalidates what is kept of another cluster, a link or the history does not;
   the selected cluster may also have gone from the list. *)
SelectsTargetOf(c, byHand) ==
  /\ c # atCluster /\ atCluster' = c
  /\ cache' = IF byHand THEN Invalidated(SectionKinds, c) ELSE cache
  /\ AllRuns(c, cache')
  /\ UNCHANGED persisted

Refreshes ==
  /\ atCluster # Nothing
  /\ cache' = Invalidated(SectionKinds, atCluster)
  /\ AllRuns(atCluster, cache')
  /\ UNCHANGED <<atCluster, persisted>>

(* refreshHealth(), by the timer of the Overview page. *)
RefreshesHealth ==
  /\ atCluster # Nothing /\ ~section["health"].loading
  /\ cache' = Invalidated({"health"}, atCluster)
  /\ section' = [section EXCEPT !["health"] = Health(atCluster, cache')]
  /\ frame' = Framed(atCluster, cache')
  /\ Called(HealthCalls(atCluster, cache'), atCluster, {"health"})
  /\ UNCHANGED <<atCluster, persisted, reach>>

Paints ==
  /\ frame # Nothing /\ frame' = Nothing
  /\ Called({"health"}, frame, {})
  /\ UNCHANGED <<atCluster, cache, persisted, section, reach>>

SnapshotAges(k, c) ==
  /\ cache[k][c] = "fresh" /\ cache' = [cache EXCEPT ![k][c] = "stale"]
  /\ UNCHANGED <<atCluster, persisted, section, reach, frame, inquiries>>

(* Answers count unless their effect was cleaned up. *)
SectionHeeded(q) == q.current

SectionAnswers(q, stored) ==
  /\ inquiries' = inquiries \ {q}
  /\ cache' = IF stored THEN [cache EXCEPT ![q.kind][q.of] = "fresh"] ELSE cache
  /\ persisted' = IF q.kind = "health" THEN persisted \cup {q.of} ELSE persisted
  /\ section' = IF SectionHeeded(q) /\ q.kind \in Sections
              THEN [section EXCEPT ![q.kind] = SectionOf(q.of, FALSE, q.of)] ELSE section
  /\ reach' = IF SectionHeeded(q) /\ q.kind = "reachability" THEN q.of ELSE reach
  /\ UNCHANGED <<atCluster, frame>>

(* A failure of the metadata shows the error only, one of the health keeps what was measured. *)
Left(q) ==
  IF q.kind = "health" /\ section["health"].of = q.of THEN section["health"].data ELSE Nothing

SectionFails(q) ==
  /\ inquiries' = inquiries \ {q}
  /\ section' = IF SectionHeeded(q) /\ q.kind \in Sections
              THEN [section EXCEPT
                ![q.kind] = [SectionOf(q.of, FALSE, Left(q)) EXCEPT !.failed = TRUE]]
              ELSE section
  /\ UNCHANGED <<atCluster, cache, persisted, reach, frame>>

(* Progress of the current health operation with what is measured so far. *)
PartArrives(q) ==
  /\ q.kind = "health" /\ SectionHeeded(q)
  /\ section' = [section EXCEPT !["health"].data = q.of]
  /\ UNCHANGED <<atCluster, cache, persisted, reach, frame, inquiries>>

SectionSettles(q) == SectionFails(q) \/ \E stored \in BOOLEAN : SectionAnswers(q, stored)

PageNext ==
  \/ \E c \in Cluster \cup {Nothing}, byHand \in BOOLEAN : SelectsTargetOf(c, byHand)
  \/ Refreshes \/ RefreshesHealth \/ Paints
  \/ \E k \in SectionKinds, c \in Cluster : SnapshotAges(k, c)
  \/ \E q \in inquiries : SectionSettles(q) \/ PartArrives(q)

PageSpec == PageInit /\ [][PageNext]_pageVars

-----------------------------------------------------------------------------
(* Properties.                                                             *)

(* The page of the selected cluster shows its metadata and its health or waits for them, and what
   it waits for is under way: no late answer for another cluster takes its place (SPEC-004,
   REQ-041). *)
ShownOrComing ==
  \A k \in Sections : atCluster # Nothing =>
    /\ section[k].of = atCluster /\ section[k].data \in {atCluster, Nothing}
    /\ section[k].loading => \/ k = "health" /\ frame = atCluster
                           \/ \E q \in inquiries : q.kind = k /\ q.of = atCluster /\ q.current

(* "A refresh failure MUST retain stale data ... MUST NOT replace a populated view with an empty
   state" (SPEC-014, REQ-166), of the health. *)
FailureKeepsHealth ==
  [][LET now == section["health"]
         next == section'["health"]
     IN  next.failed /\ ~now.failed /\ now.data # Nothing => next.data = now.data]_pageVars

=============================================================================
