-------------------------- MODULE FramePartsProofs ---------------------------
(***************************************************************************)
(* What the parts of a frame that share no state guarantee, for every      *)
(* value of their constants: an inductive invariant for each part, and     *)
(* that a behaviour of the small instance (MCFrameParts) is one of each.   *)
(***************************************************************************)
EXTENDS MCFrameParts, FiniteSetTheorems, SequenceTheorems, WellFoundedInduction, TLAPS

-----------------------------------------------------------------------------
(* ConnectionDrawer.                                                       *)

(* What the drawer waits for is of its target and the settings now in effect, and it waits once. *)
Awaited(q) == q.of = [target |-> drawerOf, settings |-> settings[drawerOf]]

DrawerInv ==
  /\ DrawerTypeOK
  /\ FoundWithSettings
  /\ \A q \in looks : q.live => Awaited(q)

LEMMA DrawerInitInv == DrawerInit => DrawerInv
<1>. SUFFICES ASSUME DrawerInit PROVE DrawerInv
  OBVIOUS
<1>1. NothingFound \in [loading : BOOLEAN, facts : Facts \cup {Nothing}]
  BY DEF NothingFound
<1>2. 0 \in 0..MaxApplies
  BY DrawerAssumption
<1>. QED
  BY <1>1, <1>2 DEF DrawerInit, DrawerInv, DrawerTypeOK, FoundWithSettings, NothingFound

LEMMA AbandonedType ==
  ASSUME looks \subseteq Looks
  PROVE  Abandoned \subseteq Looks /\ \A q \in Abandoned : q.live = FALSE
<1>1. \A q \in looks : [q EXCEPT !.live = FALSE] \in Looks /\ [q EXCEPT !.live = FALSE].live = FALSE
  BY DEF Looks
<1>. QED
  BY <1>1 DEF Abandoned

LEMMA DrawerStep == DrawerInv /\ [DrawerNext]_drawerVars => DrawerInv'
<1>. SUFFICES ASSUME DrawerInv, [DrawerNext]_drawerVars PROVE DrawerInv'
  OBVIOUS
<1>1. /\ looks \subseteq Looks /\ settings \in [Cluster -> 0..MaxApplies] /\ applies \in 0..MaxApplies
      /\ drawerOf \in Cluster \cup {Nothing} /\ reconnect \in Cluster \cup {Nothing}
      /\ found \in [loading : BOOLEAN, facts : Facts \cup {Nothing}] /\ MaxApplies \in Nat
  BY DrawerAssumption DEF DrawerInv, DrawerTypeOK
<1>2. Abandoned \subseteq Looks /\ \A q \in Abandoned : q.live = FALSE
  BY <1>1, AbandonedType
<1>3. NothingFound \in [loading : BOOLEAN, facts : Facts \cup {Nothing}]
      /\ NothingFound.loading = FALSE /\ NothingFound.facts = Nothing
  BY DEF NothingFound
<1>4. ASSUME NEW t \in Cluster \cup {Nothing}, OpensDrawerOf(t) PROVE DrawerInv'
  <2>1. /\ drawerOf' = t /\ found' = NothingFound /\ looks' = Abandoned
        /\ reconnect' \in Cluster \cup {Nothing} /\ UNCHANGED <<settings, applies>>
    BY <1>1, <1>4 DEF OpensDrawerOf
  <2>. QED
    BY <1>1, <1>2, <1>3, <2>1 DEF DrawerInv, DrawerTypeOK, FoundWithSettings
<1>5. ASSUME NEW chosenSettings \in 0..MaxApplies, AppliesSettings(chosenSettings),
             applies' \in 0..MaxApplies
      PROVE  DrawerInv'
  <2>. DEFINE facts == [target |-> drawerOf, settings |-> chosenSettings]
              look == [of |-> facts, live |-> TRUE]
  <2>1. /\ drawerOf \in Cluster /\ drawerOf' = drawerOf /\ reconnect' = drawerOf
        /\ settings' = [settings EXCEPT ![drawerOf] = chosenSettings]
        /\ found' = [loading |-> TRUE, facts |-> Nothing]
        /\ looks' = Abandoned \cup {look}
    BY <1>1, <1>5 DEF AppliesSettings
  <2>2. facts \in Facts
    BY <2>1 DEF Facts
  <2>3. look \in Looks /\ look.live = TRUE /\ look.of = facts
    BY <2>2 DEF Looks
  <2>4. settings' \in [Cluster -> 0..MaxApplies] /\ settings'[drawerOf] = chosenSettings
    BY <1>1, <2>1
  <2>5. facts = [target |-> drawerOf', settings |-> settings'[drawerOf']]
    BY <2>1, <2>4
  <2>6. found' \in [loading : BOOLEAN, facts : Facts \cup {Nothing}] /\ found'.loading = TRUE
        /\ found'.facts = Nothing
    BY <2>1
  <2>. HIDE DEF facts, look
  <2>7. \A q \in looks' : q.live => q = look
    BY <1>2, <2>1
  <2>8. look \in looks' /\ looks' \subseteq Looks
    BY <1>2, <2>1, <2>3
  <2>9. DrawerTypeOK'
    BY <1>1, <1>5, <2>1, <2>4, <2>6, <2>8 DEF DrawerTypeOK
  <2>10. FoundWithSettings'
    BY <2>3, <2>6, <2>8 DEF FoundWithSettings
  <2>11. \A q \in looks' : q.live => q.of = [target |-> drawerOf', settings |-> settings'[drawerOf']]
    BY <2>3, <2>5, <2>7
  <2>. QED
    BY <2>9, <2>10, <2>11 DEF DrawerInv, Awaited
<1>6. CASE AppliesNew
  BY <1>1, <1>5, <1>6 DEF AppliesNew
<1>7. CASE AppliesDetected
  BY <1>1, <1>5, <1>7 DEF AppliesDetected
<1>8. CASE RemovesTarget
  <2>1. /\ drawerOf \in Cluster /\ drawerOf' = Nothing /\ found' = NothingFound /\ looks' = Abandoned
        /\ settings' \in [Cluster -> 0..MaxApplies] /\ UNCHANGED <<applies, reconnect>>
    BY <1>1, <1>8 DEF RemovesTarget
  <2>. QED
    BY <1>1, <1>2, <1>3, <2>1 DEF DrawerInv, DrawerTypeOK, FoundWithSettings
<1>9. ASSUME NEW q \in looks, LookEnds(q) PROVE DrawerInv'
  <2>1. looks' = looks \ {q} /\ UNCHANGED <<drawerOf, settings, applies, reconnect>>
    BY <1>9 DEF LookEnds
  <2>2. CASE ~q.live
    <3>1. found' = found
      BY <1>9, <2>2 DEF LookEnds, LiveLook
    <3>2. (\E r \in looks : r.live) <=> (\E r \in looks' : r.live)
      BY <2>1, <2>2
    <3>. QED
      BY <2>1, <3>1, <3>2 DEF DrawerInv, DrawerTypeOK, FoundWithSettings, Awaited
  <2>3. CASE q.live
    <3>1. found' \in {[loading |-> FALSE, facts |-> q.of], NothingFound}
      BY <1>9, <2>3 DEF LookEnds, LiveLook
    <3>2. Awaited(q) /\ q \in Looks
      BY <1>1, <2>3 DEF DrawerInv
    <3>3. \A r \in looks' : ~r.live
      <4>. SUFFICES ASSUME NEW r \in looks, r.live PROVE r = q
        BY <2>1
      <4>1. Awaited(r) /\ r \in Looks
        BY <1>1 DEF DrawerInv
      <4>2. r = [of |-> r.of, live |-> r.live] /\ q = [of |-> q.of, live |-> q.live]
        BY <3>2, <4>1 DEF Looks
      <4>3. r.live = TRUE /\ q.live = TRUE
        BY <2>3, <3>2, <4>1 DEF Looks
      <4>. QED
        BY <3>2, <4>1, <4>2, <4>3 DEF Awaited
    <3>4. q.of \in Facts
      BY <3>2 DEF Looks
    <3>5. [loading |-> FALSE, facts |-> q.of] \in [loading : BOOLEAN, facts : Facts \cup {Nothing}]
      BY <3>4
    <3>6. found' \in [loading : BOOLEAN, facts : Facts \cup {Nothing}] /\ found'.loading = FALSE
          /\ (found'.facts = Nothing \/ found'.facts = q.of)
      <4>1. CASE found' = NothingFound
        BY <1>3, <4>1
      <4>2. CASE found' = [loading |-> FALSE, facts |-> q.of]
        BY <3>5, <4>2
      <4>. QED
        BY <3>1, <4>1, <4>2
    <3>7. DrawerTypeOK'
      BY <1>1, <2>1, <3>6 DEF DrawerTypeOK
    <3>8. FoundWithSettings'
      BY <2>1, <3>2, <3>3, <3>6 DEF FoundWithSettings, Awaited
    <3>. QED
      BY <3>3, <3>7, <3>8 DEF DrawerInv
  <2>. QED
    BY <2>2, <2>3
<1>10. CASE UNCHANGED drawerVars
  BY <1>10 DEF drawerVars, DrawerInv, DrawerTypeOK, FoundWithSettings, Awaited
<1>. QED
  BY <1>4, <1>6, <1>7, <1>8, <1>9, <1>10 DEF DrawerNext

(* For any clusters and settings: what the drawer shows was found with the settings in effect. *)
THEOREM DrawerShowsItsSettings == DrawerSpec => [](DrawerTypeOK /\ FoundWithSettings)
<1>1. DrawerInv => DrawerTypeOK /\ FoundWithSettings
  BY DEF DrawerInv
<1>. QED
  BY <1>1, DrawerInitInv, DrawerStep, PTL DEF DrawerSpec

-----------------------------------------------------------------------------
(* ClusterCatalog.                                                         *)

(* A page that is on the screen shows the catalog it has in memory. *)
CatalogInv ==
  /\ CatalogTypeOK
  /\ \A p \in onScreen : rows[p] = Targets(Own(p))

LEMMA CatalogInitInv == CatalogInit => CatalogInv
<1>. SUFFICES ASSUME CatalogInit PROVE CatalogInv
  OBVIOUS
<1>1. EmptyCatalog \in Catalog
  BY DEF EmptyCatalog, Catalog
<1>. QED
  BY <1>1 DEF CatalogInit, CatalogInv, CatalogTypeOK

(* A page changes its own catalog, and saves all it has. *)
LEMMA PersistsKeeps ==
  ASSUME CatalogTypeOK, NEW p \in Page, NEW c \in Catalog, Persists(p, c), UNCHANGED pageOf
  PROVE  /\ catalogs' \in [Page -> [Kubernetes -> Catalog]] /\ saved' \in [Kubernetes -> Catalog]
         /\ Own(p)' = c /\ \A q \in Page : q # p => Own(q)' = Own(q)
<1>1. catalogs \in [Page -> [Kubernetes -> Catalog]] /\ pageOf \in [Page -> Kubernetes]
  BY DEF CatalogTypeOK
<1>2. catalogs' = [catalogs EXCEPT ![p] = [catalogs[p] EXCEPT ![pageOf[p]] = c]]
  BY DEF Persists
<1>3. [catalogs[p] EXCEPT ![pageOf[p]] = c] \in [Kubernetes -> Catalog]
  BY <1>1
<1>4. catalogs' \in [Page -> [Kubernetes -> Catalog]]
      /\ catalogs'[p] = [catalogs[p] EXCEPT ![pageOf[p]] = c]
      /\ \A q \in Page : q # p => catalogs'[q] = catalogs[q]
  BY <1>1, <1>2, <1>3
<1>. QED
  BY <1>1, <1>3, <1>4 DEF Persists, Own

RowsStay == \A p \in onScreen \cap onScreen' : rows[p] \subseteq rows'[p]

(* What a page in memory forgets, its rows do not: a scan moves what it did not find to what is
   missing. *)
LEMMA CatalogStep ==
  CatalogInv /\ [CatalogNext]_catalogVars =>
    CatalogInv' /\ \A p \in onScreen \cap onScreen' : rows[p] \subseteq rows'[p]
<1>. SUFFICES ASSUME CatalogInv, [CatalogNext]_catalogVars
              PROVE  CatalogInv' /\ \A p \in onScreen \cap onScreen' : rows[p] \subseteq rows'[p]
  OBVIOUS
<1>1. /\ saved \in [Kubernetes -> Catalog] /\ catalogs \in [Page -> [Kubernetes -> Catalog]]
      /\ savedManual \subseteq Endpoint /\ manual \in [Page -> SUBSET Endpoint]
      /\ remembered \in [Kubernetes -> Found \cup Endpoint \cup {Nothing}]
      /\ pageOf \in [Page -> Kubernetes] /\ onScreen \subseteq Page /\ scanning \subseteq onScreen
      /\ rows \in [Page -> SUBSET Found] /\ scans \in [Page -> SUBSET Scans]
      /\ CatalogTypeOK
  BY DEF CatalogInv, CatalogTypeOK
<1>2. \A p \in Page : Own(p) \in Catalog
  BY <1>1 DEF Own
<1>3. \A c \in Catalog : Targets(c) \subseteq Found
  BY DEF Catalog, Targets
<1>4. ASSUME NEW p \in Page, OpensClusters(p) PROVE CatalogInv' /\ RowsStay
  <2>1. /\ p \notin onScreen /\ onScreen' = onScreen \cup {p}
        /\ catalogs' = [catalogs EXCEPT ![p] = saved]
        /\ rows' = [rows EXCEPT ![p] = Targets(saved[pageOf[p]])]
        /\ manual' = [manual EXCEPT ![p] = savedManual]
        /\ scans' = [scans EXCEPT ![p] = IF saved[pageOf[p]].autoScan THEN {"auto"} ELSE {}]
        /\ scanning' = IF saved[pageOf[p]].autoScan THEN scanning \cup {p} ELSE scanning
        /\ UNCHANGED <<saved, savedManual, remembered, pageOf>>
    BY <1>4 DEF OpensClusters
  <2>2. saved[pageOf[p]] \in Catalog
    BY <1>1
  <2>3. /\ catalogs' \in [Page -> [Kubernetes -> Catalog]] /\ catalogs'[p] = saved
        /\ \A q \in Page : q # p => catalogs'[q] = catalogs[q]
    BY <1>1, <2>1
  <2>4. /\ rows' \in [Page -> SUBSET Found] /\ rows'[p] = Targets(saved[pageOf[p]])
        /\ \A q \in Page : q # p => rows'[q] = rows[q]
    <3>1. Targets(saved[pageOf[p]]) \in SUBSET Found
      BY <1>3, <2>2
    <3>. QED
      BY <1>1, <2>1, <3>1
  <2>5. manual' \in [Page -> SUBSET Endpoint] /\ onScreen' \subseteq Page
    BY <1>1, <2>1
  <2>6. scans' \in [Page -> SUBSET Scans]
    BY <1>1, <2>1 DEF Scans
  <2>7. scanning' \subseteq onScreen'
    BY <1>1, <2>1
  <2>8. CatalogTypeOK'
    BY <1>1, <2>1, <2>3, <2>4, <2>5, <2>6, <2>7 DEF CatalogTypeOK
  <2>9. \A q \in onScreen' : rows'[q] = Targets(Own(q)')
    BY <1>1, <2>1, <2>3, <2>4 DEF CatalogInv, Own
  <2>. QED
    BY <1>1, <2>1, <2>4, <2>8, <2>9 DEF CatalogInv, RowsStay
<1>5. ASSUME NEW p \in Page, p \in onScreen, Closes(p), UNCHANGED <<saved, savedManual, pageOf, catalogs, rows, manual>>,
             remembered' \in [Kubernetes -> Found \cup Endpoint \cup {Nothing}]
      PROVE  CatalogInv' /\ RowsStay
  <2>1. /\ onScreen' = onScreen \ {p} /\ scanning' = scanning \ {p}
        /\ scans' = [scans EXCEPT ![p] = @ \ {"auto"}]
    BY <1>5 DEF Closes
  <2>2. scans' \in [Page -> SUBSET Scans]
    BY <1>1, <2>1
  <2>3. CatalogTypeOK'
    BY <1>1, <1>5, <2>1, <2>2 DEF CatalogTypeOK
  <2>. QED
    BY <1>5, <2>1, <2>3 DEF CatalogInv, RowsStay, Own
<1>6. ASSUME NEW p \in Page, StartsScan(p) PROVE CatalogInv' /\ RowsStay
  <2>1. /\ p \in onScreen /\ scans' = [scans EXCEPT ![p] = @ \cup {"forced"}]
        /\ scanning' = scanning \cup {p}
        /\ UNCHANGED <<saved, savedManual, remembered, pageOf, onScreen, catalogs, rows, manual>>
    BY <1>6 DEF StartsScan
  <2>2. scans' \in [Page -> SUBSET Scans]
    BY <1>1, <2>1 DEF Scans
  <2>3. CatalogTypeOK'
    BY <1>1, <2>1, <2>2 DEF CatalogTypeOK
  <2>. QED
    BY <2>1, <2>3 DEF CatalogInv, RowsStay, Own
<1>7. ASSUME NEW p \in Page, NEW k \in Scans, ScanFails(p, k) PROVE CatalogInv' /\ RowsStay
  <2>1. /\ scans' = [scans EXCEPT ![p] = @ \ {k}] /\ scanning' = scanning \ {p}
        /\ UNCHANGED <<saved, savedManual, remembered, pageOf, onScreen, catalogs, rows, manual>>
    BY <1>7 DEF ScanFails
  <2>2. scans' \in [Page -> SUBSET Scans]
    BY <1>1, <2>1
  <2>3. CatalogTypeOK'
    BY <1>1, <2>1, <2>2 DEF CatalogTypeOK
  <2>. QED
    BY <2>1, <2>3 DEF CatalogInv, RowsStay, Own
<1>8. ASSUME NEW p \in Page, NEW k \in Scans, NEW now \in SUBSET Found, ScanFinds(p, k, now)
      PROVE  CatalogInv' /\ RowsStay
  <2>. DEFINE c == Discovered(Own(p), now)
  <2>1. /\ scans' = [scans EXCEPT ![p] = @ \ {k}] /\ scanning' = scanning \ {p}
        /\ Persists(p, c)
        /\ rows' = IF p \notin onScreen THEN rows ELSE [rows EXCEPT ![p] = Targets(c)]
        /\ UNCHANGED <<savedManual, remembered, pageOf, onScreen, manual>>
    BY <1>8 DEF ScanFinds
  <2>2. c \in Catalog /\ Targets(Own(p)) \subseteq Targets(c)
    <3>1. PICK own \in Catalog : own = Own(p)
      BY <1>2
    <3>2. PICK d : d = [own EXCEPT !.discovered = now, !.missing = Targets(own) \ now]
      OBVIOUS
    <3>3. own = [discovered |-> own.discovered, missing |-> own.missing, autoScan |-> own.autoScan]
          /\ own.autoScan \in BOOLEAN
      BY DEF Catalog
    <3>4. d = [discovered |-> now, missing |-> Targets(own) \ now, autoScan |-> own.autoScan]
      BY <3>2, <3>3
    <3>5. d \in Catalog
      BY <1>3, <3>3, <3>4 DEF Catalog
    <3>6. Targets(own) \subseteq Targets(d)
      BY <3>4 DEF Targets
    <3>7. c = d
      BY <3>1, <3>2 DEF Discovered, Previous
    <3>. QED
      BY <3>1, <3>5, <3>6, <3>7
  <2>. HIDE DEF c
  <2>3. /\ catalogs' \in [Page -> [Kubernetes -> Catalog]] /\ saved' \in [Kubernetes -> Catalog]
        /\ Own(p)' = c /\ \A q \in Page : q # p => Own(q)' = Own(q)
    BY <1>1, <2>1, <2>2, PersistsKeeps
  <2>4. /\ rows' \in [Page -> SUBSET Found]
        /\ p \in onScreen => rows'[p] = Targets(c)
        /\ \A q \in Page : q # p => rows'[q] = rows[q]
    <3>1. Targets(c) \in SUBSET Found
      BY <1>3, <2>2
    <3>. QED
      BY <1>1, <2>1, <3>1
  <2>5. scans' \in [Page -> SUBSET Scans]
    BY <1>1, <2>1
  <2>6. CatalogTypeOK'
    BY <1>1, <2>1, <2>3, <2>4, <2>5 DEF CatalogTypeOK
  <2>7. \A q \in onScreen : rows'[q] = Targets(Own(q)')
    <3>. TAKE q \in onScreen
    <3>1. CASE q = p
      BY <2>3, <2>4, <3>1
    <3>2. CASE q # p
      BY <1>1, <2>3, <2>4, <3>2 DEF CatalogInv
    <3>. QED
      BY <3>1, <3>2
  <2>8. \A q \in onScreen : rows[q] \subseteq rows'[q]
    <3>. TAKE q \in onScreen
    <3>1. CASE q = p
      BY <2>2, <2>4, <3>1 DEF CatalogInv
    <3>2. CASE q # p
      BY <1>1, <2>4, <3>2
    <3>. QED
      BY <3>1, <3>2
  <2>. QED
    BY <2>1, <2>6, <2>7, <2>8 DEF CatalogInv, RowsStay
<1>9. ASSUME NEW p \in Page, SwitchesAutoScan(p) PROVE CatalogInv' /\ RowsStay
  <2>. DEFINE c == [Own(p) EXCEPT !.autoScan = ~@]
  <2>1. Persists(p, c)
        /\ UNCHANGED <<savedManual, remembered, pageOf, onScreen, rows, manual, scans, scanning>>
    BY <1>9 DEF SwitchesAutoScan
  <2>2. c \in Catalog /\ Targets(c) = Targets(Own(p))
    <3>1. PICK own \in Catalog : own = Own(p)
      BY <1>2
    <3>2. PICK d : d = [own EXCEPT !.autoScan = ~@]
      OBVIOUS
    <3>3. d \in Catalog /\ d.discovered = own.discovered /\ d.missing = own.missing
      BY <3>2 DEF Catalog
    <3>4. c = d
      BY <3>1, <3>2
    <3>. QED
      BY <3>1, <3>3, <3>4 DEF Targets
  <2>. HIDE DEF c
  <2>3. /\ catalogs' \in [Page -> [Kubernetes -> Catalog]] /\ saved' \in [Kubernetes -> Catalog]
        /\ Own(p)' = c /\ \A q \in Page : q # p => Own(q)' = Own(q)
    BY <1>1, <2>1, <2>2, PersistsKeeps
  <2>4. CatalogTypeOK'
    BY <1>1, <2>1, <2>3 DEF CatalogTypeOK
  <2>5. \A q \in onScreen : rows'[q] = Targets(Own(q)')
    BY <1>1, <2>1, <2>2, <2>3 DEF CatalogInv
  <2>. QED
    BY <2>1, <2>4, <2>5 DEF CatalogInv, RowsStay
<1>10. ASSUME NEW p \in Page, NEW e \in Endpoint, AddsEndpoint(p, e) \/ RemovesEndpoint(p, e)
       PROVE  CatalogInv' /\ RowsStay
  <2>1. /\ UNCHANGED <<saved, pageOf, onScreen, catalogs, rows, scans, scanning>>
        /\ \E s \in SUBSET Endpoint : manual' = [manual EXCEPT ![p] = s] /\ savedManual' = s
    BY <1>1, <1>10 DEF AddsEndpoint, RemovesEndpoint, SavesManual
  <2>2. remembered' \in [Kubernetes -> Found \cup Endpoint \cup {Nothing}]
    BY <1>1, <1>10 DEF AddsEndpoint, RemovesEndpoint
  <2>3. CatalogTypeOK'
    BY <1>1, <2>1, <2>2 DEF CatalogTypeOK
  <2>. QED
    BY <2>1, <2>3 DEF CatalogInv, RowsStay, Own
<1>11. ASSUME NEW p \in Page, NEW t \in Found \cup Endpoint, SelectsTarget(p, t)
       PROVE  CatalogInv' /\ RowsStay
  <2>1. remembered' \in [Kubernetes -> Found \cup Endpoint \cup {Nothing}]
    BY <1>1, <1>11 DEF SelectsTarget
  <2>. QED
    BY <1>5, <1>11, <2>1 DEF SelectsTarget
<1>12. ASSUME NEW p \in Page, ClosesClusters(p) PROVE CatalogInv' /\ RowsStay
  BY <1>1, <1>5, <1>12 DEF ClosesClusters
<1>13. CASE UNCHANGED catalogVars
  BY <1>13 DEF catalogVars, CatalogInv, CatalogTypeOK, RowsStay, Own
<1>. QED
  BY <1>4, <1>6, <1>7, <1>8, <1>9, <1>10, <1>11, <1>12, <1>13 DEF CatalogNext, RowsStay

(* For any frames, pages and scans that find anything: a cluster that a page shows stays there. *)
THEOREM RowsAlwaysKept == CatalogSpec => []CatalogTypeOK /\ RowsKept
<1>1. CatalogInv => CatalogTypeOK
  BY DEF CatalogInv
<1>2. CatalogInv /\ [CatalogNext]_catalogVars =>
        CatalogInv' /\ [\A p \in onScreen \cap onScreen' : rows[p] \subseteq rows'[p]]_catalogVars
  BY CatalogStep
<1>. QED
  BY <1>1, <1>2, CatalogInitInv, PTL DEF CatalogSpec, RowsKept

-----------------------------------------------------------------------------
(* GroupWorkspace.                                                         *)

(* A current read is of the open group on the selected cluster, or of the list of that cluster. *)
OfChosen(r) == r.of = Context(chosen, IF r.kind = "groups" THEN Nothing ELSE group)

GroupInv ==
  /\ GroupTypeOK
  /\ ShowsOpenGroup
  /\ \A r \in reads : r.current => OfChosen(r)

LEMMA GroupInitInv == GroupInit => GroupInv
<1>. SUFFICES ASSUME GroupInit PROVE GroupInv
  OBVIOUS
<1>1. EmptyView \in Views /\ EmptyView.data = Nothing /\ EmptyView.loading = FALSE
  BY DEF EmptyView, Views
<1>2. drawer \in Drawers
  BY DEF GroupInit, Drawers
<1>3. GroupTypeOK
  BY <1>1, <1>2 DEF GroupInit, GroupTypeOK
<1>4. ShowsOpenGroup
  BY <1>1 DEF GroupInit, ShowsOpenGroup
<1>. QED
  BY <1>3, <1>4 DEF GroupInit, GroupInv

(* Reads of cluster c and group g in place of those of ks: what is not read anew was of them. *)
LEMMA ReadsAgainInv ==
  ASSUME GroupInv, NEW ks \in SUBSET {"groups", "detail"}, NEW c \in Cluster \cup {Nothing},
         NEW g \in GroupId \cup {Nothing}, ReadsAgain(ks, c, g), chosen' = c, group' = g,
         "groups" \notin ks => c = chosen,
         "detail" \notin ks => c = chosen /\ g = group
  PROVE  /\ view' \in [{"groups", "detail"} -> Views] /\ reads' \subseteq PageReads
         /\ ShowsOpenGroup'
         /\ \A r \in reads' : r.current => r.of = Context(c, IF r.kind = "groups" THEN Nothing ELSE g)
<1>. DEFINE read == {k \in ks : Readable(k, c, g)}
            old == {[r EXCEPT !.current = @ /\ r.kind \notin ks] : r \in reads}
            new == {ReadOf(k, c, g) : k \in read}
<1>1. PICK hit \in BOOLEAN :
         view' = [k \in {"groups", "detail"} |->
                    IF k \notin ks THEN view[k]
                    ELSE IF k \notin read THEN EmptyView
                    ELSE [loading |-> TRUE,
                          data |-> IF k = "groups" /\ hit THEN Context(c, Nothing) ELSE Nothing]]
  BY DEF ReadsAgain
<1>2. reads' = old \cup new
  BY DEF ReadsAgain
<1>3. /\ view \in [{"groups", "detail"} -> Views] /\ reads \subseteq PageReads
      /\ chosen \in Cluster \cup {Nothing} /\ group \in GroupId \cup {Nothing}
  BY DEF GroupInv, GroupTypeOK
<1>4. Nothing \notin Cluster /\ Nothing \notin GroupId
  BY TargetsAssumption, GroupAssumption
<1>5. \A k \in read : /\ ReadOf(k, c, g) \in PageReads /\ ReadOf(k, c, g).kind = k
                      /\ ReadOf(k, c, g).current = TRUE
                      /\ ReadOf(k, c, g).of = Context(c, IF k = "groups" THEN Nothing ELSE g)
  BY <1>4 DEF Readable, ReadOf, PageReads, Context, Contexts
<1>6. \A r \in reads : \E o \in old :
        /\ o.kind = r.kind /\ o.of = r.of /\ (o.current <=> r.current /\ r.kind \notin ks)
  <2>. SUFFICES ASSUME NEW r \in reads
                PROVE  \E o \in old :
                         /\ o.kind = r.kind /\ o.of = r.of
                         /\ (o.current <=> r.current /\ r.kind \notin ks)
    OBVIOUS
  <2>1. r \in PageReads
    BY <1>3
  <2>2. PICK o : o = [r EXCEPT !.current = @ /\ r.kind \notin ks]
    OBVIOUS
  <2>3. r = [kind |-> r.kind, of |-> r.of, current |-> r.current]
    BY <2>1 DEF PageReads
  <2>4. o = [kind |-> r.kind, of |-> r.of, current |-> (r.current /\ r.kind \notin ks)]
    BY <2>2, <2>3
  <2>5. o \in old
    BY <2>2
  <2>. QED
    BY <2>4, <2>5
<1>7. \A o \in old : o \in PageReads /\ \E r \in reads :
        /\ o.kind = r.kind /\ o.of = r.of /\ (o.current <=> r.current /\ r.kind \notin ks)
  <2>. SUFFICES ASSUME NEW r \in reads, NEW o, o = [r EXCEPT !.current = @ /\ r.kind \notin ks]
                PROVE  /\ o \in PageReads
                       /\ o.kind = r.kind /\ o.of = r.of
                       /\ (o.current <=> r.current /\ r.kind \notin ks)
    OBVIOUS
  <2>1. r \in PageReads
    BY <1>3
  <2>3. r = [kind |-> r.kind, of |-> r.of, current |-> r.current]
    BY <2>1 DEF PageReads
  <2>4. o = [kind |-> r.kind, of |-> r.of, current |-> (r.current /\ r.kind \notin ks)]
    BY <2>3
  <2>5. o \in PageReads
    BY <2>1, <2>4 DEF PageReads
  <2>. QED
    BY <2>4, <2>5
<1>. HIDE DEF old
<1>8. reads' \subseteq PageReads
  BY <1>2, <1>5, <1>7
<1>9. Context(c, Nothing) \in Contexts \/ c = Nothing
  BY DEF Context, Contexts
<1>10. EmptyView \in Views /\ EmptyView.data = Nothing /\ EmptyView.loading = FALSE
  BY DEF EmptyView, Views
<1>11. view' \in [{"groups", "detail"} -> Views]
  <2>1. \A k \in read : c # Nothing
    BY DEF Readable
  <2>2. \A k \in read : [loading |-> TRUE,
                         data |-> IF k = "groups" /\ hit THEN Context(c, Nothing) ELSE Nothing] \in Views
    BY <1>9, <2>1 DEF Views
  <2>. HIDE DEF read
  <2>. QED
    BY <1>1, <1>3, <1>10, <2>2
<1>12. \A r \in reads' : r.current => r.of = Context(c, IF r.kind = "groups" THEN Nothing ELSE g)
  <2>. SUFFICES ASSUME NEW r \in reads', r.current
                PROVE  r.of = Context(c, IF r.kind = "groups" THEN Nothing ELSE g)
    OBVIOUS
  <2>1. CASE r \in new
    BY <1>5, <2>1
  <2>2. CASE r \in old
    <3>1. PICK q \in reads : r.kind = q.kind /\ r.of = q.of /\ (r.current <=> q.current /\ q.kind \notin ks)
      BY <1>7, <2>2
    <3>2. q.current /\ q.kind \notin ks /\ OfChosen(q) /\ q.kind \in {"groups", "detail"}
      BY <1>3, <3>1 DEF GroupInv, PageReads
    <3>. QED
      BY <3>1, <3>2 DEF OfChosen
  <2>. QED
    BY <1>2, <2>1, <2>2
<1>13. view'["groups"].data \in {Nothing, Context(c, Nothing)}
  <2>1. view["groups"].data \in {Nothing, Context(chosen, Nothing)}
    BY DEF GroupInv, ShowsOpenGroup
  <2>. HIDE DEF read
  <2>. QED
    BY <1>1, <1>10, <2>1
<1>14. view'["detail"].data \in {Nothing, Context(c, g)}
  <2>1. view["detail"].data \in {Nothing, Context(chosen, group)}
    BY DEF GroupInv, ShowsOpenGroup
  <2>. HIDE DEF read
  <2>. QED
    BY <1>1, <1>10, <2>1
<1>15. ASSUME NEW k \in {"groups", "detail"}
       PROVE  view'[k].loading <=> \E r \in reads' : r.kind = k /\ r.current
  <2>1. CASE k \notin ks
    <3>1. view'[k] = view[k]
      BY <1>1, <2>1
    <3>2. view[k].loading <=> \E r \in reads : r.kind = k /\ r.current
      BY <1>3 DEF GroupInv, ShowsOpenGroup
    <3>3. (\E r \in reads : r.kind = k /\ r.current) <=> (\E r \in old : r.kind = k /\ r.current)
      BY <1>6, <1>7, <2>1
    <3>4. \A r \in new : r.kind # k
      BY <1>5, <2>1
    <3>. QED
      BY <1>2, <3>1, <3>2, <3>3, <3>4
  <2>2. CASE k \in ks
    <3>1. \A r \in old : ~(r.kind = k /\ r.current)
      BY <1>7, <2>2
    <3>2. (\E r \in new : r.kind = k /\ r.current) <=> k \in read
      BY <1>5
    <3>3. view'[k].loading <=> k \in read
      <4>. HIDE DEF read
      <4>. QED
        BY <1>1, <1>10, <2>2
    <3>. QED
      BY <1>2, <3>1, <3>2, <3>3
  <2>. QED
    BY <2>1, <2>2
<1>16. ShowsOpenGroup'
  <2>1. DOMAIN view' = {"groups", "detail"}
    BY <1>11
  <2>. QED
    BY <1>13, <1>14, <1>15, <2>1 DEF ShowsOpenGroup
<1>. QED
  BY <1>8, <1>11, <1>12, <1>16

LEMMA GroupStep == GroupInv /\ [GroupNext]_groupVars => GroupInv'
<1>. SUFFICES ASSUME GroupInv, [GroupNext]_groupVars PROVE GroupInv'
  OBVIOUS
<1>1. /\ chosen \in Cluster \cup {Nothing} /\ lastChosen \in Cluster \cup {Nothing}
      /\ group \in GroupId \cup {Nothing} /\ view \in [{"groups", "detail"} -> Views]
      /\ reads \subseteq PageReads /\ writing \subseteq Cluster /\ drawer \in Drawers
      /\ resets \subseteq Contexts
  BY DEF GroupInv, GroupTypeOK
<1>2. ASSUME NEW ks \in SUBSET {"groups", "detail"}, NEW c \in Cluster \cup {Nothing},
             NEW g \in GroupId \cup {Nothing}, ReadsAgain(ks, c, g), chosen' = c, group' = g,
             "groups" \notin ks => c = chosen, "detail" \notin ks => c = chosen /\ g = group,
             lastChosen' \in Cluster \cup {Nothing}, UNCHANGED <<writing, drawer, resets>>
      PROVE  GroupInv'
  <2>1. /\ view' \in [{"groups", "detail"} -> Views] /\ reads' \subseteq PageReads
        /\ ShowsOpenGroup'
        /\ \A r \in reads' : r.current => r.of = Context(c, IF r.kind = "groups" THEN Nothing ELSE g)
    BY <1>2, ReadsAgainInv
  <2>2. GroupTypeOK'
    BY <1>1, <1>2, <2>1 DEF GroupTypeOK
  <2>. QED
    BY <1>2, <2>1, <2>2 DEF GroupInv, OfChosen
<1>3. ASSUME NEW c \in Cluster \cup {Nothing}, ChoosesCluster(c) PROVE GroupInv'
  <2>. DEFINE g == IF Stays(c) THEN group ELSE Nothing
  <2>1. g \in GroupId \cup {Nothing}
    BY <1>1
  <2>2. chosen' = c /\ group' = g /\ ReadsAgain({"groups", "detail"}, c, g)
        /\ lastChosen' \in Cluster \cup {Nothing} /\ UNCHANGED <<writing, drawer, resets>>
    BY <1>1, <1>3 DEF ChoosesCluster
  <2>. HIDE DEF g
  <2>. QED
    BY <1>2, <2>1, <2>2
<1>4. ASSUME NEW g \in GroupId, OpensGroup(g) PROVE GroupInv'
  <2>1. chosen' = chosen /\ group' = g /\ ReadsAgain({"detail"}, chosen, g)
        /\ lastChosen' = lastChosen /\ UNCHANGED <<writing, drawer, resets>>
    BY <1>4 DEF OpensGroup
  <2>. QED
    BY <1>1, <1>2, <2>1
<1>5. CASE LeavesGroup
  <2>1. chosen' = chosen /\ group' = Nothing /\ ReadsAgain({"detail"}, chosen, Nothing)
        /\ lastChosen' = lastChosen /\ UNCHANGED <<writing, drawer, resets>>
    BY <1>5 DEF LeavesGroup
  <2>. QED
    BY <1>1, <1>2, <2>1
<1>6. ASSUME NEW k \in {"groups", "detail"}, RetriesRead(k) PROVE GroupInv'
  <2>1. chosen' = chosen /\ group' = group /\ ReadsAgain({k}, chosen, group)
        /\ lastChosen' = lastChosen /\ UNCHANGED <<writing, drawer, resets>>
    BY <1>6 DEF RetriesRead
  <2>. QED
    BY <1>1, <1>2, <2>1
<1>7. ASSUME NEW r \in reads, ReadEnds(r) PROVE GroupInv'
  <2>1. reads' = reads \ {r} /\ UNCHANGED <<chosen, lastChosen, group, writing, drawer, resets>>
    BY <1>7 DEF ReadEnds
  <2>2. r \in PageReads
    BY <1>1
  <2>3. CASE ~r.current
    <3>1. view' = view
      BY <1>7, <2>3 DEF ReadEnds, ReadShown, CurrentRead
    <3>2. \A k \in DOMAIN view :
            (\E q \in reads : q.kind = k /\ q.current) <=> (\E q \in reads' : q.kind = k /\ q.current)
      BY <2>1, <2>3
    <3>3. ShowsOpenGroup'
      BY <2>1, <3>1, <3>2 DEF GroupInv, ShowsOpenGroup
    <3>4. GroupTypeOK'
      BY <1>1, <2>1, <3>1 DEF GroupTypeOK
    <3>. QED
      BY <2>1, <3>3, <3>4 DEF GroupInv, OfChosen
  <2>4. CASE r.current
    <3>1. \A q \in reads : q.current /\ q.kind = r.kind => q = r
      <4>. SUFFICES ASSUME NEW q \in reads, q.current, q.kind = r.kind PROVE q = r
        OBVIOUS
      <4>1. q \in PageReads /\ OfChosen(q) /\ OfChosen(r)
        BY <1>1, <2>4 DEF GroupInv
      <4>2. q.of = r.of
        BY <4>1 DEF OfChosen
      <4>3. q.current = TRUE /\ r.current = TRUE
        BY <2>2, <2>4, <4>1 DEF PageReads
      <4>4. q = [kind |-> q.kind, of |-> q.of, current |-> q.current]
            /\ r = [kind |-> r.kind, of |-> r.of, current |-> r.current]
        BY <2>2, <4>1 DEF PageReads
      <4>. QED
        BY <4>2, <4>3, <4>4
    <3>2. r.kind \in {"groups", "detail"} /\ r.of \in Contexts
      BY <2>2 DEF PageReads
    <3>3. \E v \in Views : /\ view' = [view EXCEPT ![r.kind] = v] /\ v.loading = FALSE
                           /\ v.data \in {Nothing, r.of, view[r.kind].data}
      <4>1. CASE view' = ReadShown(r)
        <5>1. [loading |-> FALSE, data |-> r.of] \in Views
          BY <3>2 DEF Views
        <5>. QED
          BY <2>4, <4>1, <5>1 DEF ReadShown, CurrentRead
      <4>2. CASE view' = [view EXCEPT ![r.kind].loading = FALSE,
                                      ![r.kind].data = IF r.kind = "groups" THEN @ ELSE Nothing]
        <5>1. PICK v : v = [view[r.kind] EXCEPT !.loading = FALSE,
                                               !.data = IF r.kind = "groups" THEN @ ELSE Nothing]
          OBVIOUS
        <5>2. view[r.kind] \in Views
          BY <1>1, <3>2
        <5>3. view[r.kind] = [loading |-> view[r.kind].loading, data |-> view[r.kind].data]
          BY <5>2 DEF Views
        <5>4. v = [loading |-> FALSE, data |-> IF r.kind = "groups" THEN view[r.kind].data ELSE Nothing]
          BY <5>1, <5>3
        <5>5. v \in Views
          BY <5>2, <5>4 DEF Views
        <5>6. view' = [view EXCEPT ![r.kind] = v]
          BY <1>1, <3>2, <4>2, <5>1
        <5>. QED
          BY <5>4, <5>5, <5>6
      <4>. QED
        BY <1>7, <2>4, <4>1, <4>2 DEF ReadEnds, CurrentRead
    <3>4. PICK v \in Views : /\ view' = [view EXCEPT ![r.kind] = v] /\ v.loading = FALSE
                             /\ v.data \in {Nothing, r.of, view[r.kind].data}
      BY <3>3
    <3>5. view' \in [{"groups", "detail"} -> Views] /\ view'[r.kind] = v
          /\ \A k \in {"groups", "detail"} : k # r.kind => view'[k] = view[k]
      BY <1>1, <3>2, <3>4
    <3>6. OfChosen(r)
      BY <2>4 DEF GroupInv
    <3>7. view'["groups"].data \in {Nothing, Context(chosen, Nothing)}
          /\ view'["detail"].data \in {Nothing, Context(chosen, group)}
      BY <3>2, <3>4, <3>5, <3>6 DEF OfChosen, GroupInv, ShowsOpenGroup
    <3>8. ASSUME NEW k \in {"groups", "detail"}
          PROVE  view'[k].loading <=> \E q \in reads' : q.kind = k /\ q.current
      <4>1. CASE k = r.kind
        BY <2>1, <3>1, <3>4, <3>5, <4>1
      <4>2. CASE k # r.kind
        <5>1. view[k].loading <=> \E q \in reads : q.kind = k /\ q.current
          BY <1>1 DEF GroupInv, ShowsOpenGroup
        <5>. QED
          BY <2>1, <3>5, <4>2, <5>1
      <4>. QED
        BY <4>1, <4>2
    <3>9. ShowsOpenGroup'
      <4>1. DOMAIN view' = {"groups", "detail"}
        BY <3>5
      <4>. QED
        BY <2>1, <3>7, <3>8, <4>1 DEF ShowsOpenGroup
    <3>10. GroupTypeOK'
      BY <1>1, <2>1, <3>5 DEF GroupTypeOK
    <3>. QED
      BY <2>1, <3>9, <3>10 DEF GroupInv, OfChosen
  <2>. QED
    BY <2>3, <2>4
<1>8. ASSUME UNCHANGED <<chosen, lastChosen, group, view, reads>>,
             writing' \subseteq Cluster, drawer' \in Drawers, resets' \subseteq Contexts
      PROVE  GroupInv'
  BY <1>1, <1>8 DEF GroupInv, GroupTypeOK, ShowsOpenGroup, OfChosen
<1>9. ASSUME NEW c \in Cluster, SwitchesWriting(c) PROVE GroupInv'
  BY <1>1, <1>8, <1>9 DEF SwitchesWriting
<1>10. CASE OpensDrawer
  <2>1. [open |-> TRUE, typed |-> Nothing] \in Drawers
    BY DEF Drawers
  <2>. QED
    BY <1>1, <1>8, <1>10, <2>1 DEF OpensDrawer
<1>11. ASSUME NEW g \in GroupId, TypesName(g) PROVE GroupInv'
  <2>1. Context(chosen, g) \in Contexts
    BY <1>1, <1>11 DEF TypesName, DrawerShown, Context, Contexts
  <2>2. drawer' \in Drawers
    BY <1>1, <1>11, <2>1 DEF TypesName, Drawers
  <2>. QED
    BY <1>1, <1>8, <1>11, <2>2 DEF TypesName
<1>12. CASE CancelsReset
  <2>1. drawer' \in Drawers
    BY <1>1, <1>12 DEF CancelsReset, Drawers
  <2>. QED
    BY <1>1, <1>8, <1>12, <2>1 DEF CancelsReset
<1>13. CASE SubmitsReset
  <2>1. Context(chosen, group) \in Contexts
    BY <1>1, <1>13 DEF SubmitsReset, DrawerShown, Context, Contexts
  <2>. QED
    BY <1>1, <1>8, <1>13, <2>1 DEF SubmitsReset
<1>14. ASSUME NEW c \in resets, ResetEnds(c) PROVE GroupInv'
  BY <1>1, <1>8, <1>14 DEF ResetEnds
<1>15. CASE UNCHANGED groupVars
  BY <1>1, <1>8, <1>15 DEF groupVars
<1>. QED
  BY <1>3, <1>4, <1>5, <1>6, <1>7, <1>9, <1>10, <1>11, <1>12, <1>13, <1>14, <1>15 DEF GroupNext

(* For any groups on any clusters: the detail is of the open group, and what loads is answered. *)
THEOREM OpenGroupAlwaysShown == GroupSpec => [](GroupTypeOK /\ ShowsOpenGroup)
<1>1. GroupInv => GroupTypeOK /\ ShowsOpenGroup
  BY DEF GroupInv
<1>. QED
  BY <1>1, GroupInitInv, GroupStep, PTL DEF GroupSpec

-----------------------------------------------------------------------------
(* TargetPage.                                                             *)

Inquiries == [kind : SectionKinds, of : Cluster, current : BOOLEAN]
SectionStates == [of : Cluster \cup {Nothing}, loading : BOOLEAN, data : Cluster \cup {Nothing},
                  failed : BOOLEAN]

(* A call whose effect was not cleaned up is of the selected cluster, and so is the next one. *)
PageInv ==
  /\ PageTypeOK
  /\ ShownOrComing
  /\ frame \in {atCluster, Nothing}
  /\ \A q \in inquiries : q.current => q.of = atCluster

LEMMA PageTypes ==
  PageTypeOK <=>
    /\ atCluster \in Cluster \cup {Nothing} /\ reach \in Cluster \cup {Nothing}
    /\ frame \in Cluster \cup {Nothing} /\ persisted \subseteq Cluster
    /\ cache \in [SectionKinds -> [Cluster -> {"none", "stale", "fresh"}]]
    /\ section \in [Sections -> SectionStates]
    /\ inquiries \subseteq Inquiries
BY DEF PageTypeOK, SectionStates, Inquiries

LEMMA PageInitInv == PageInit => PageInv
<1>. SUFFICES ASSUME PageInit PROVE PageInv
  OBVIOUS
<1>1. BlankSection \in SectionStates
  BY DEF BlankSection, SectionStates
<1>2. PageTypeOK
  BY <1>1, PageTypes DEF PageInit
<1>. QED
  BY <1>2 DEF PageInit, PageInv, ShownOrComing

(* What is called for by a step, and what of the earlier calls is heeded still. *)
CallsUnderWay(kinds, c, over) ==
  /\ inquiries' \subseteq Inquiries
  /\ \A k \in kinds : \E q \in inquiries' : q.kind = k /\ q.of = c /\ q.current
  /\ \A r \in inquiries : r.current /\ r.kind \notin over =>
       \E q \in inquiries' : q.kind = r.kind /\ q.of = r.of /\ q.current
  /\ \A q \in inquiries' : q.current =>
       \/ q.of = c
       \/ \E r \in inquiries : r.current /\ r.of = q.of /\ r.kind \notin over

LEMMA CalledInv ==
  ASSUME inquiries \subseteq Inquiries, NEW kinds \in SUBSET SectionKinds, NEW c, NEW over,
         kinds # {} => c \in Cluster, Called(kinds, c, over)
  PROVE  CallsUnderWay(kinds, c, over)
<1>. DEFINE old == {[q EXCEPT !.current = @ /\ q.kind \notin over] : q \in inquiries}
            new == {[kind |-> k, of |-> c, current |-> TRUE] : k \in kinds}
<1>1. inquiries' = old \cup new
  BY DEF Called
<1>2. ASSUME NEW r \in inquiries, NEW o, o = [r EXCEPT !.current = @ /\ r.kind \notin over]
      PROVE  /\ o \in Inquiries /\ o.kind = r.kind /\ o.of = r.of
             /\ o.current <=> r.current /\ r.kind \notin over
  <2>1. r \in Inquiries
    OBVIOUS
  <2>2. r = [kind |-> r.kind, of |-> r.of, current |-> r.current]
    BY <2>1 DEF Inquiries
  <2>3. o = [kind |-> r.kind, of |-> r.of, current |-> (r.current /\ r.kind \notin over)]
    BY <1>2, <2>2
  <2>4. o \in Inquiries
    BY <2>1, <2>3 DEF Inquiries
  <2>. QED
    BY <2>3, <2>4
<1>3. \A o \in old : o \in Inquiries /\ \E r \in inquiries :
        o.kind = r.kind /\ o.of = r.of /\ (o.current <=> r.current /\ r.kind \notin over)
  BY <1>2
<1>4. \A r \in inquiries : \E o \in old :
        o.kind = r.kind /\ o.of = r.of /\ (o.current <=> r.current /\ r.kind \notin over)
  <2>. SUFFICES ASSUME NEW r \in inquiries
                PROVE  \E o \in old : /\ o.kind = r.kind /\ o.of = r.of
                                      /\ (o.current <=> r.current /\ r.kind \notin over)
    OBVIOUS
  <2>1. PICK o : o = [r EXCEPT !.current = @ /\ r.kind \notin over]
    OBVIOUS
  <2>2. o \in old
    BY <2>1
  <2>. QED
    BY <1>2, <2>1, <2>2
<1>5. \A k \in kinds : \E q \in new : q.kind = k /\ q.of = c /\ q.current
  <2>. SUFFICES ASSUME NEW k \in kinds PROVE \E q \in new : q.kind = k /\ q.of = c /\ q.current
    OBVIOUS
  <2>1. [kind |-> k, of |-> c, current |-> TRUE] \in new
    OBVIOUS
  <2>. QED
    BY <2>1
<1>6. \A q \in new : q \in Inquiries /\ q.of = c /\ q.current
  <2>. SUFFICES ASSUME NEW k \in kinds, NEW q, q = [kind |-> k, of |-> c, current |-> TRUE]
                PROVE  q \in Inquiries /\ q.of = c /\ q.current
    OBVIOUS
  <2>1. k \in SectionKinds /\ c \in Cluster
    OBVIOUS
  <2>. QED
    BY <2>1 DEF Inquiries
<1>. HIDE DEF old, new
<1>. QED
  BY <1>1, <1>3, <1>4, <1>5, <1>6 DEF CallsUnderWay

(* The effects of cluster c: each section is of it, and loads only what is called for. *)
LEMMA EffectsShow ==
  ASSUME PageTypeOK, NEW c \in Cluster \cup {Nothing},
         NEW has \in [SectionKinds -> [Cluster -> {"none", "stale", "fresh"}]]
  PROVE  /\ Metadata(c, has) \in SectionStates /\ Health(c, has) \in SectionStates
         /\ Reachable(c, has) \in Cluster \cup {Nothing} /\ Framed(c, has) \in {c, Nothing}
         /\ MetadataAsks(c, has) \subseteq {"overview", "reachability"}
         /\ HealthCalls(c, has) \subseteq {"health"}
         /\ MetadataAsks(c, has) \cup HealthCalls(c, has) # {} => c \in Cluster
         /\ c # Nothing => /\ Metadata(c, has).of = c /\ Metadata(c, has).data \in {c, Nothing}
                           /\ Health(c, has).of = c /\ Health(c, has).data \in {c, Nothing}
                           /\ Metadata(c, has).loading => "overview" \in MetadataAsks(c, has)
                           /\ Health(c, has).loading =>
                                Framed(c, has) = c \/ "health" \in HealthCalls(c, has)
         /\ ~Metadata(c, has).failed /\ ~Health(c, has).failed
<1>1. BlankSection \in SectionStates /\ ~BlankSection.failed
  BY DEF BlankSection, SectionStates
<1>2. ASSUME NEW waits \in BOOLEAN, NEW data \in {c, Nothing}
      PROVE  /\ SectionOf(c, waits, data) \in SectionStates
             /\ SectionOf(c, waits, data).of = c /\ SectionOf(c, waits, data).data = data
             /\ SectionOf(c, waits, data).loading = waits
             /\ ~SectionOf(c, waits, data).failed
  BY DEF SectionOf, SectionStates
<1>3. /\ Metadata(c, has) \in SectionStates /\ ~Metadata(c, has).failed
      /\ c # Nothing => /\ Metadata(c, has).of = c /\ Metadata(c, has).data \in {c, Nothing}
                        /\ Metadata(c, has).loading => has["overview"][c] # "fresh"
  <2>1. CASE c = Nothing
    BY <1>1, <2>1 DEF Metadata
  <2>2. CASE c # Nothing /\ has["overview"][c] = "fresh"
    BY <1>2, <2>2 DEF Metadata
  <2>3. CASE c # Nothing /\ has["overview"][c] # "fresh"
    <3>. DEFINE data == IF has["overview"][c] = "none" THEN Nothing ELSE c
    <3>1. data \in {c, Nothing}
      OBVIOUS
    <3>2. Metadata(c, has) = SectionOf(c, TRUE, data)
      BY <2>3 DEF Metadata
    <3>. HIDE DEF data
    <3>. QED
      BY <1>2, <2>3, <3>1, <3>2
  <2>. QED
    BY <2>1, <2>2, <2>3
<1>4. /\ Health(c, has) \in SectionStates /\ ~Health(c, has).failed
      /\ c # Nothing => /\ Health(c, has).of = c /\ Health(c, has).data \in {c, Nothing}
                        /\ Health(c, has).loading => has["health"][c] # "fresh"
  <2>1. CASE c = Nothing
    BY <1>1, <2>1 DEF Health
  <2>2. CASE c # Nothing /\ has["health"][c] = "fresh"
    BY <1>2, <2>2 DEF Health
  <2>3. CASE c # Nothing /\ has["health"][c] # "fresh"
    <3>. DEFINE data == IF has["health"][c] = "none" /\ c \notin persisted THEN Nothing ELSE c
    <3>1. data \in {c, Nothing}
      OBVIOUS
    <3>2. Health(c, has) = SectionOf(c, TRUE, data)
      BY <2>3 DEF Health
    <3>. HIDE DEF data
    <3>. QED
      BY <1>2, <2>3, <3>1, <3>2
  <2>. QED
    BY <2>1, <2>2, <2>3
<1>5. Reachable(c, has) \in Cluster \cup {Nothing}
  BY PageTypes DEF Reachable
<1>6. MetadataAsks(c, has) \subseteq {"overview", "reachability"}
      /\ (MetadataAsks(c, has) # {} => c # Nothing)
      /\ (c # Nothing /\ has["overview"][c] # "fresh" => "overview" \in MetadataAsks(c, has))
  BY DEF MetadataAsks
<1>7. HealthCalls(c, has) \subseteq {"health"} /\ (HealthCalls(c, has) # {} => c # Nothing)
      /\ Framed(c, has) \in {c, Nothing}
      /\ (c # Nothing /\ has["health"][c] # "fresh" =>
            Framed(c, has) = c \/ "health" \in HealthCalls(c, has))
  BY DEF HealthCalls, Framed, HealthAsks
<1>. QED
  BY <1>3, <1>4, <1>5, <1>6, <1>7

LEMMA InvalidatedType ==
  ASSUME PageTypeOK, NEW ks, NEW c \in Cluster \cup {Nothing}
  PROVE  Invalidated(ks, c) \in [SectionKinds -> [Cluster -> {"none", "stale", "fresh"}]]
<1>1. cache \in [SectionKinds -> [Cluster -> {"none", "stale", "fresh"}]]
  BY PageTypes
<1>2. \A k \in SectionKinds :
        (IF k \in ks /\ c # Nothing /\ cache[k][c] = "fresh"
         THEN [cache[k] EXCEPT ![c] = "stale"] ELSE cache[k]) \in [Cluster -> {"none", "stale", "fresh"}]
  <2>. TAKE k \in SectionKinds
  <2>1. cache[k] \in [Cluster -> {"none", "stale", "fresh"}]
    BY <1>1
  <2>. QED
    BY <2>1
<1>. QED
  BY <1>2 DEF Invalidated

LEMMA AllRunsInv ==
  ASSUME PageInv, NEW c \in Cluster \cup {Nothing}, atCluster' = c,
         cache' \in [SectionKinds -> [Cluster -> {"none", "stale", "fresh"}]],
         AllRuns(c, cache'), UNCHANGED persisted
  PROVE  PageInv' /\ ~section'["health"].failed
<1>1. PageTypeOK /\ inquiries \subseteq Inquiries
  BY PageTypes DEF PageInv
<1>. DEFINE has == cache'
            sought == MetadataAsks(c, has) \cup HealthCalls(c, has)
<1>2. has \in [SectionKinds -> [Cluster -> {"none", "stale", "fresh"}]]
  OBVIOUS
<1>3. /\ section' = [overview |-> Metadata(c, has), health |-> Health(c, has)]
      /\ reach' = Reachable(c, has) /\ frame' = Framed(c, has) /\ Called(sought, c, SectionKinds)
  BY DEF AllRuns
<1>. HIDE DEF has
<1>4. /\ Metadata(c, has) \in SectionStates /\ Health(c, has) \in SectionStates
      /\ Reachable(c, has) \in Cluster \cup {Nothing} /\ Framed(c, has) \in {c, Nothing}
      /\ MetadataAsks(c, has) \subseteq {"overview", "reachability"}
      /\ HealthCalls(c, has) \subseteq {"health"}
      /\ MetadataAsks(c, has) \cup HealthCalls(c, has) # {} => c \in Cluster
      /\ c # Nothing => /\ Metadata(c, has).of = c /\ Metadata(c, has).data \in {c, Nothing}
                        /\ Health(c, has).of = c /\ Health(c, has).data \in {c, Nothing}
                        /\ Metadata(c, has).loading => "overview" \in MetadataAsks(c, has)
                        /\ Health(c, has).loading =>
                             Framed(c, has) = c \/ "health" \in HealthCalls(c, has)
      /\ ~Metadata(c, has).failed /\ ~Health(c, has).failed
  BY <1>1, <1>2, EffectsShow
<1>5. sought \in SUBSET SectionKinds /\ (sought # {} => c \in Cluster)
  BY <1>4 DEF SectionKinds, Sections
<1>. HIDE DEF sought
<1>6. CallsUnderWay(sought, c, SectionKinds)
  BY <1>1, <1>3, <1>5, CalledInv
<1>7. \A q \in inquiries' : q.current => q.of = c
  BY <1>1, <1>6 DEF Inquiries, CallsUnderWay
<1>8. section' \in [Sections -> SectionStates]
      /\ section'["overview"] = Metadata(c, has) /\ section'["health"] = Health(c, has)
  BY <1>3, <1>4 DEF Sections
<1>9. PageTypeOK'
  BY <1>1, <1>3, <1>4, <1>6, <1>8, PageTypes
  DEF PageTypeOK, SectionStates, Inquiries, CallsUnderWay
<1>10. ShownOrComing'
  <2>. SUFFICES ASSUME NEW k \in Sections, c # Nothing
                PROVE  /\ section'[k].of = c /\ section'[k].data \in {c, Nothing}
                       /\ section'[k].loading =>
                            \/ k = "health" /\ frame' = c
                            \/ \E q \in inquiries' : q.kind = k /\ q.of = c /\ q.current
    BY DEF ShownOrComing
  <2>1. CASE k = "overview"
    BY <1>4, <1>6, <1>8, <2>1 DEF sought, CallsUnderWay
  <2>2. CASE k = "health"
    BY <1>3, <1>4, <1>6, <1>8, <2>2 DEF sought, CallsUnderWay
  <2>. QED
    BY <2>1, <2>2 DEF Sections
<1>11. frame' \in {atCluster', Nothing}
  BY <1>3, <1>4
<1>. QED
  BY <1>4, <1>7, <1>8, <1>9, <1>10, <1>11 DEF PageInv

HealthKept ==
  section'["health"].failed /\ ~section["health"].failed /\ section["health"].data # Nothing =>
    section'["health"].data = section["health"].data

LEMMA PageStep == PageInv /\ [PageNext]_pageVars => PageInv' /\ HealthKept
<1>. SUFFICES ASSUME PageInv, [PageNext]_pageVars PROVE PageInv' /\ HealthKept
  OBVIOUS
<1>1. /\ atCluster \in Cluster \cup {Nothing} /\ reach \in Cluster \cup {Nothing}
      /\ frame \in Cluster \cup {Nothing} /\ persisted \subseteq Cluster
      /\ cache \in [SectionKinds -> [Cluster -> {"none", "stale", "fresh"}]]
      /\ section \in [Sections -> SectionStates]
      /\ inquiries \subseteq Inquiries /\ PageTypeOK
  BY PageTypes DEF PageInv
<1>2. "health" \in Sections /\ "overview" \in Sections /\ Sections \subseteq SectionKinds
      /\ "health" \in SectionKinds
  BY DEF Sections, SectionKinds
<1>3. ASSUME NEW c \in Cluster \cup {Nothing}, NEW byHand \in BOOLEAN, SelectsTargetOf(c, byHand)
      PROVE  PageInv' /\ HealthKept
  <2>1. cache' \in [SectionKinds -> [Cluster -> {"none", "stale", "fresh"}]]
    BY <1>1, <1>3, InvalidatedType DEF SelectsTargetOf
  <2>2. atCluster' = c /\ AllRuns(c, cache') /\ UNCHANGED persisted
    BY <1>3 DEF SelectsTargetOf
  <2>. QED
    BY <2>1, <2>2, AllRunsInv DEF HealthKept
<1>4. CASE Refreshes
  <2>1. cache' \in [SectionKinds -> [Cluster -> {"none", "stale", "fresh"}]]
    BY <1>1, <1>4, InvalidatedType DEF Refreshes
  <2>2. atCluster' = atCluster /\ AllRuns(atCluster, cache') /\ UNCHANGED persisted
    BY <1>4 DEF Refreshes
  <2>. QED
    BY <1>1, <2>1, <2>2, AllRunsInv DEF HealthKept
<1>5. CASE RefreshesHealth
  <2>. DEFINE has == cache'
              c == atCluster
  <2>1. has \in [SectionKinds -> [Cluster -> {"none", "stale", "fresh"}]]
    BY <1>1, <1>5, InvalidatedType DEF RefreshesHealth
  <2>2. /\ c \in Cluster /\ section' = [section EXCEPT !["health"] = Health(c, has)]
        /\ frame' = Framed(c, has) /\ Called(HealthCalls(c, has), c, {"health"})
        /\ UNCHANGED <<atCluster, persisted, reach>>
    BY <1>1, <1>5 DEF RefreshesHealth
  <2>. HIDE DEF has
  <2>3. /\ Health(c, has) \in SectionStates /\ Framed(c, has) \in {c, Nothing}
        /\ HealthCalls(c, has) \subseteq {"health"}
        /\ Health(c, has).of = c /\ Health(c, has).data \in {c, Nothing}
        /\ Health(c, has).loading => Framed(c, has) = c \/ "health" \in HealthCalls(c, has)
        /\ ~Health(c, has).failed
    BY <1>1, <2>1, <2>2, TargetsAssumption, EffectsShow
  <2>4. HealthCalls(c, has) \in SUBSET SectionKinds
    BY <1>2, <2>3
  <2>5. CallsUnderWay(HealthCalls(c, has), c, {"health"})
    BY <1>1, <2>2, <2>4, CalledInv
  <2>6. \A q \in inquiries' : q.current => q.of = atCluster
    BY <2>5 DEF PageInv, CallsUnderWay
  <2>7. section' \in [Sections -> SectionStates] /\ section'["health"] = Health(c, has)
        /\ section'["overview"] = section["overview"]
    BY <1>1, <1>2, <2>2, <2>3
  <2>8. PageTypeOK'
    BY <1>1, <2>1, <2>2, <2>3, <2>5, <2>7 DEF has, PageTypeOK, SectionStates, Inquiries, CallsUnderWay
  <2>9. ShownOrComing'
    <3>. SUFFICES ASSUME NEW k \in Sections
                  PROVE  /\ section'[k].of = c /\ section'[k].data \in {c, Nothing}
                         /\ section'[k].loading =>
                              \/ k = "health" /\ frame' = c
                              \/ \E q \in inquiries' : q.kind = k /\ q.of = c /\ q.current
      BY <2>2 DEF ShownOrComing
    <3>1. CASE k = "overview"
      <4>1. /\ section[k].of = c /\ section[k].data \in {c, Nothing}
            /\ section[k].loading => \E q \in inquiries : q.kind = k /\ q.of = c /\ q.current
        BY <2>2, <3>1, TargetsAssumption DEF PageInv, ShownOrComing
      <4>. QED
        BY <2>5, <2>7, <3>1, <4>1 DEF CallsUnderWay
    <3>2. CASE k = "health"
      BY <2>2, <2>3, <2>5, <2>7, <3>2 DEF CallsUnderWay
    <3>. QED
      BY <3>1, <3>2 DEF Sections
  <2>. QED
    BY <2>2, <2>3, <2>6, <2>7, <2>8, <2>9 DEF PageInv, HealthKept
<1>6. CASE Paints
  <2>1. /\ frame \in Cluster /\ frame' = Nothing /\ Called({"health"}, frame, {})
        /\ UNCHANGED <<atCluster, cache, persisted, section, reach>>
    BY <1>1, <1>6 DEF Paints
  <2>2. {"health"} \in SUBSET SectionKinds
    BY <1>2
  <2>3. CallsUnderWay({"health"}, frame, {})
    BY <1>1, <2>1, <2>2, CalledInv
  <2>4. atCluster = frame
    BY <1>1, <2>1, TargetsAssumption DEF PageInv
  <2>5. \A q \in inquiries' : q.current => q.of = atCluster
    BY <2>3, <2>4 DEF PageInv, CallsUnderWay
  <2>6. PageTypeOK'
    BY <1>1, <2>1, <2>3 DEF PageTypeOK, SectionStates, Inquiries, CallsUnderWay
  <2>7. ShownOrComing'
    <3>. SUFFICES ASSUME NEW k \in Sections
                  PROVE  /\ section[k].of = frame /\ section[k].data \in {frame, Nothing}
                         /\ section[k].loading =>
                              \E q \in inquiries' : q.kind = k /\ q.of = frame /\ q.current
      BY <2>1, <2>4 DEF ShownOrComing
    <3>1. /\ section[k].of = frame /\ section[k].data \in {frame, Nothing}
          /\ section[k].loading => \/ k = "health"
                                  \/ \E q \in inquiries : q.kind = k /\ q.of = frame /\ q.current
      BY <2>1, <2>4, TargetsAssumption DEF PageInv, ShownOrComing
    <3>. QED
      BY <2>3, <3>1 DEF CallsUnderWay
  <2>. QED
    BY <2>1, <2>5, <2>6, <2>7 DEF PageInv, HealthKept
<1>7. ASSUME NEW k \in SectionKinds, NEW c \in Cluster, SnapshotAges(k, c)
      PROVE  PageInv' /\ HealthKept
  <2>1. UNCHANGED <<atCluster, persisted, section, reach, frame, inquiries>>
        /\ cache' = [cache EXCEPT ![k] = [cache[k] EXCEPT ![c] = "stale"]]
    BY <1>7 DEF SnapshotAges
  <2>2. [cache[k] EXCEPT ![c] = "stale"] \in [Cluster -> {"none", "stale", "fresh"}]
    BY <1>1
  <2>3. cache' \in [SectionKinds -> [Cluster -> {"none", "stale", "fresh"}]]
    BY <1>1, <2>1, <2>2
  <2>. QED
    BY <1>1, <2>1, <2>3 DEF PageInv, PageTypeOK, ShownOrComing, HealthKept
<1>8. ASSUME NEW q \in inquiries, inquiries' = inquiries \ {q},
             cache' \in [SectionKinds -> [Cluster -> {"none", "stale", "fresh"}]],
             persisted' \subseteq Cluster, reach' \in Cluster \cup {Nothing},
             UNCHANGED <<atCluster, frame>>,
             NEW s \in SectionStates, s.of = q.of, s.data \in {q.of, Nothing}, ~s.loading,
             section' = IF q.current /\ q.kind \in Sections THEN [section EXCEPT ![q.kind] = s]
                        ELSE section
      PROVE  PageInv'
  <2>1. q \in Inquiries
    BY <1>1
  <2>2. section' \in [Sections -> SectionStates]
    BY <1>1, <1>8
  <2>3. PageTypeOK'
    BY <1>1, <1>8, <2>2 DEF PageTypeOK, SectionStates, Inquiries
  <2>4. ShownOrComing'
    <3>. SUFFICES ASSUME NEW k \in Sections, atCluster # Nothing
                  PROVE  /\ section'[k].of = atCluster /\ section'[k].data \in {atCluster, Nothing}
                         /\ section'[k].loading =>
                              \/ k = "health" /\ frame = atCluster
                              \/ \E r \in inquiries \ {q} :
                                   r.kind = k /\ r.of = atCluster /\ r.current
      BY <1>8 DEF ShownOrComing
    <3>1. CASE q.current /\ k = q.kind
      <4>1. section'[k] = s /\ q.of = atCluster
        BY <1>1, <1>8, <3>1 DEF PageInv
      <4>. QED
        BY <1>8, <4>1
    <3>2. CASE ~(q.current /\ k = q.kind)
      <4>1. section'[k] = section[k]
        BY <1>1, <1>8, <3>2
      <4>2. /\ section[k].of = atCluster /\ section[k].data \in {atCluster, Nothing}
            /\ section[k].loading =>
                 \/ k = "health" /\ frame = atCluster
                 \/ \E r \in inquiries : r.kind = k /\ r.of = atCluster /\ r.current
        BY DEF PageInv, ShownOrComing
      <4>. QED
        BY <3>2, <4>1, <4>2
    <3>. QED
      BY <3>1, <3>2
  <2>. QED
    BY <1>8, <2>3, <2>4 DEF PageInv
<1>9. ASSUME NEW q \in inquiries, NEW stored \in BOOLEAN, SectionAnswers(q, stored)
      PROVE  PageInv' /\ HealthKept
  <2>. DEFINE s == SectionOf(q.of, FALSE, q.of)
  <2>1. q \in Inquiries
    BY <1>1
  <2>2. s \in SectionStates /\ s.of = q.of /\ s.data = q.of /\ ~s.loading /\ ~s.failed
    BY <2>1 DEF SectionOf, SectionStates, Inquiries
  <2>3. cache' \in [SectionKinds -> [Cluster -> {"none", "stale", "fresh"}]]
    <3>1. q.kind \in SectionKinds /\ q.of \in Cluster
      BY <2>1 DEF Inquiries
    <3>2. [cache[q.kind] EXCEPT ![q.of] = "fresh"] \in [Cluster -> {"none", "stale", "fresh"}]
      BY <1>1, <3>1
    <3>3. cache' = cache \/ cache' = [cache EXCEPT ![q.kind] = [cache[q.kind] EXCEPT ![q.of] = "fresh"]]
      BY <1>9 DEF SectionAnswers
    <3>. QED
      BY <1>1, <3>1, <3>2, <3>3
  <2>4. /\ inquiries' = inquiries \ {q} /\ persisted' \subseteq Cluster
        /\ reach' \in Cluster \cup {Nothing} /\ UNCHANGED <<atCluster, frame>>
        /\ section' = IF q.current /\ q.kind \in Sections THEN [section EXCEPT ![q.kind] = s]
                      ELSE section
    BY <1>1, <1>9, <2>1 DEF SectionAnswers, SectionHeeded, Inquiries
  <2>. HIDE DEF s
  <2>5. section'["health"] \in {s, section["health"]}
    BY <1>1, <1>2, <2>4
  <2>. QED
    BY <1>8, <2>2, <2>3, <2>4, <2>5 DEF HealthKept
<1>10. ASSUME NEW q \in inquiries, SectionFails(q) PROVE PageInv' /\ HealthKept
  <2>1. PICK s : s = [SectionOf(q.of, FALSE, Left(q)) EXCEPT !.failed = TRUE]
    OBVIOUS
  <2>2. s = [of |-> q.of, loading |-> FALSE, data |-> Left(q), failed |-> TRUE]
    BY <2>1 DEF SectionOf
  <2>3. q \in Inquiries
    BY <1>1
  <2>4. q.of \in Cluster /\ q.kind \in SectionKinds
    BY <2>3 DEF Inquiries
  <2>5. ASSUME q.current PROVE q.of = atCluster /\ section["health"].of = q.of
                               /\ section["health"].data \in {q.of, Nothing}
    BY <1>2, <2>4, <2>5, TargetsAssumption DEF PageInv, ShownOrComing
  <2>6. inquiries' = inquiries \ {q}
        /\ section' = (IF q.current /\ q.kind \in Sections THEN [section EXCEPT ![q.kind] = s]
                       ELSE section)
        /\ UNCHANGED <<atCluster, cache, persisted, reach, frame>>
    BY <1>10, <2>1 DEF SectionFails, SectionHeeded
  <2>7. CASE ~(q.current /\ q.kind \in Sections)
    <3>1. SectionOf(q.of, FALSE, Nothing) \in SectionStates
          /\ SectionOf(q.of, FALSE, Nothing).of = q.of
          /\ SectionOf(q.of, FALSE, Nothing).data = Nothing
          /\ ~SectionOf(q.of, FALSE, Nothing).loading
      BY <2>4 DEF SectionOf, SectionStates
    <3>2. section' = section
      BY <2>6, <2>7
    <3>. QED
      BY <1>1, <1>8, <2>6, <2>7, <3>1, <3>2 DEF HealthKept
  <2>8. CASE q.current /\ q.kind \in Sections
    <3>1. Left(q) \in {q.of, Nothing}
      BY <2>5, <2>8 DEF Left
    <3>2. s \in SectionStates /\ s.of = q.of /\ s.data \in {q.of, Nothing} /\ ~s.loading
      BY <2>2, <2>4, <3>1 DEF SectionStates
    <3>3. q.kind = "health" => section'["health"].data = section["health"].data
      BY <1>1, <1>2, <2>2, <2>5, <2>6, <2>8 DEF Left
    <3>4. q.kind # "health" => section'["health"] = section["health"]
      BY <1>1, <1>2, <2>6, <2>8
    <3>5. PageInv'
      BY <1>1, <1>8, <2>6, <3>2
    <3>. QED
      BY <3>3, <3>4, <3>5 DEF HealthKept
  <2>. QED
    BY <2>7, <2>8
<1>11. ASSUME NEW q \in inquiries, PartArrives(q) PROVE PageInv' /\ HealthKept
  <2>1. q \in Inquiries /\ section["health"] \in SectionStates
    BY <1>1, <1>2
  <2>2. PICK s : s = [section["health"] EXCEPT !.data = q.of]
    OBVIOUS
  <2>3. section["health"] = [of |-> section["health"].of, loading |-> section["health"].loading,
                             data |-> section["health"].data, failed |-> section["health"].failed]
    BY <2>1 DEF SectionStates
  <2>4. s = [of |-> section["health"].of, loading |-> section["health"].loading,
             data |-> q.of, failed |-> section["health"].failed]
    BY <2>2, <2>3
  <2>5. s \in SectionStates
    BY <2>1, <2>4 DEF SectionStates, Inquiries
  <2>6. q.of = atCluster
    BY <1>11 DEF PartArrives, SectionHeeded, PageInv
  <2>7. section' = [section EXCEPT !["health"] = s]
        /\ UNCHANGED <<atCluster, cache, persisted, reach, frame, inquiries>>
    BY <1>11, <2>2 DEF PartArrives
  <2>8. section' \in [Sections -> SectionStates] /\ section'["health"] = s
        /\ section'["overview"] = section["overview"]
    BY <1>1, <1>2, <2>5, <2>7
  <2>9. PageTypeOK'
    BY <1>1, <2>7, <2>8 DEF PageTypeOK, SectionStates, Inquiries
  <2>10. ShownOrComing'
    <3>. SUFFICES ASSUME NEW k \in Sections, atCluster # Nothing
                  PROVE  /\ section'[k].of = atCluster /\ section'[k].data \in {atCluster, Nothing}
                         /\ section'[k].loading =>
                              \/ k = "health" /\ frame = atCluster
                              \/ \E r \in inquiries :
                                   r.kind = k /\ r.of = atCluster /\ r.current
      BY <2>7 DEF ShownOrComing
    <3>1. /\ section[k].of = atCluster /\ section[k].data \in {atCluster, Nothing}
          /\ section[k].loading =>
                 \/ k = "health" /\ frame = atCluster
                 \/ \E r \in inquiries : r.kind = k /\ r.of = atCluster /\ r.current
      BY DEF PageInv, ShownOrComing
    <3>2. /\ section'[k].of = section[k].of /\ section'[k].loading = section[k].loading
          /\ section'[k].data \in {section[k].data, q.of}
      BY <2>4, <2>8 DEF Sections
    <3>. QED
      BY <2>6, <3>1, <3>2
  <2>11. HealthKept
    BY <2>4, <2>8 DEF HealthKept
  <2>. QED
    BY <2>7, <2>9, <2>10, <2>11 DEF PageInv
<1>12. CASE UNCHANGED pageVars
  BY <1>12 DEF pageVars, PageInv, PageTypeOK, ShownOrComing, HealthKept
<1>. QED
  BY <1>3, <1>4, <1>5, <1>6, <1>7, <1>9, <1>10, <1>11, <1>12 DEF PageNext, SectionSettles

(* For any clusters: the page of the selected one shows it or waits for what is under way, and no
   failure takes from it the health that was measured. *)
THEOREM SectionsAlwaysCome == PageSpec => [](PageTypeOK /\ ShownOrComing) /\ FailureKeepsHealth
<1>1. PageInv => PageTypeOK /\ ShownOrComing
  BY DEF PageInv
<1>2. PageInv /\ [PageNext]_pageVars =>
        PageInv' /\ [LET now == section["health"]
                         next == section'["health"]
                     IN  next.failed /\ ~now.failed /\ now.data # Nothing =>
                           next.data = now.data]_pageVars
  BY PageStep DEF HealthKept
<1>. QED
  BY <1>1, <1>2, PageInitInv, PTL DEF PageSpec, FailureKeepsHealth

-----------------------------------------------------------------------------
(* SharedStore.                                                            *)

WriteModes == [set : BOOLEAN, targets : SUBSET Target]
StoredDocuments == [write : WriteModes, setting : 0..MaxSaves, health : 0..MaxHealth]

StoreStates ==
  /\ main \in StoredDocuments /\ copy \in [Frame -> StoredDocuments]
  /\ toMain \in [Frame -> Seq(StoredDocuments)] /\ toFrame \in [Frame -> Seq(StoredDocuments)]
  /\ mode \in [Frame -> SUBSET Target] /\ saves \in 0..MaxSaves /\ opens \in 0..MaxOpens

(* The last document on its way to a frame is main's.  If there is none, the frame has what main
   has, or has sent what it has, with main's snapshot in it. *)
Catches(f) ==
  IF toFrame[f] # <<>> THEN toFrame[f][Len(toFrame[f])] = main
  ELSE \/ copy[f] = main
       \/ /\ toMain[f] # <<>> /\ toMain[f][Len(toMain[f])] = copy[f]
          /\ copy[f].health = main.health

(* The pages of a frame show the write mode that is set in its copy. *)
ShowsMode(f) == copy[f].write.set => mode[f] = copy[f].write.targets

StoreInv == StoreStates /\ \A f \in Frame : Catches(f) /\ ShowsMode(f)

LEMMA StoreInvTypes == StoreInv => StoreTypeOK /\ FramesFollow
<1>. SUFFICES ASSUME StoreInv PROVE StoreTypeOK /\ FramesFollow
  OBVIOUS
<1>1. \A d \in StoredDocuments : Documents(d)
  BY DEF StoredDocuments, WriteModes, Documents
<1>2. \A f \in Frame : /\ copy[f] \in StoredDocuments
                       /\ toMain[f] \in Seq(StoredDocuments) /\ toFrame[f] \in Seq(StoredDocuments)
  BY DEF StoreInv, StoreStates
<1>3. \A s \in Seq(StoredDocuments) : \A i \in DOMAIN s : s[i] \in StoredDocuments
  OBVIOUS
<1>4. StoreTypeOK
  BY <1>1, <1>2, <1>3 DEF StoreInv, StoreStates, StoreTypeOK
<1>5. FramesFollow
  BY DEF StoreInv, Catches, ShowsMode, FramesFollow, AtRest
<1>. QED
  BY <1>4, <1>5

LEMMA StoreInitInv == StoreInit => StoreInv
<1>. SUFFICES ASSUME StoreInit PROVE StoreInv
  OBVIOUS
<1>1. 0 \in 0..MaxSaves /\ 0 \in 0..MaxHealth /\ 0 \in 0..MaxOpens
  BY StoreAssumption
<1>2. Absent \in WriteModes /\ [set |-> TRUE, targets |-> Target] \in WriteModes
  BY DEF Absent, WriteModes
<1>3. Empty \in StoredDocuments
  BY <1>1, <1>2 DEF Empty, StoredDocuments
<1>4. PICK d : d = [Empty EXCEPT !.write = [set |-> TRUE, targets |-> Target]]
  OBVIOUS
<1>5. d = [write |-> [set |-> TRUE, targets |-> Target], setting |-> 0, health |-> 0]
  BY <1>4 DEF Empty
<1>6. d \in StoredDocuments
  BY <1>1, <1>2, <1>5 DEF StoredDocuments
<1>7. main \in StoredDocuments
  BY <1>3, <1>4, <1>6 DEF StoreInit
<1>8. <<>> \in Seq(StoredDocuments) /\ main.write.targets \subseteq Target
  BY <1>7 DEF StoredDocuments, WriteModes
<1>9. StoreStates
  BY <1>1, <1>7, <1>8 DEF StoreInit, StoreStates
<1>. QED
  BY <1>9 DEF StoreInit, StoreInv, Catches, ShowsMode

LEMMA DocumentParts ==
  ASSUME NEW d \in StoredDocuments
  PROVE  /\ d = [write |-> d.write, setting |-> d.setting, health |-> d.health]
         /\ d.write \in WriteModes /\ d.write.set \in BOOLEAN /\ d.write.targets \subseteq Target
         /\ d.setting \in 0..MaxSaves /\ d.health \in 0..MaxHealth
BY DEF StoredDocuments, WriteModes

LEMMA AppendedLast ==
  ASSUME NEW S, NEW s \in Seq(S), NEW d \in S
  PROVE  /\ Append(s, d) \in Seq(S) /\ Append(s, d) # <<>>
         /\ Append(s, d)[Len(Append(s, d))] = d
<1>1. Append(s, d) \in Seq(S) /\ Len(Append(s, d)) = Len(s) + 1 /\ Append(s, d)[Len(s) + 1] = d
  OBVIOUS
<1>2. Len(s) \in Nat
  OBVIOUS
<1>. QED
  BY <1>1, <1>2

LEMMA TailLast ==
  ASSUME NEW S, NEW s \in Seq(S), s # <<>>
  PROVE  /\ Tail(s) \in Seq(S) /\ Head(s) \in S
         /\ Tail(s) = <<>> => Head(s) = s[Len(s)]
         /\ Tail(s) # <<>> => Tail(s)[Len(Tail(s))] = s[Len(s)]
<1>1. Len(s) \in Nat \ {0} /\ Tail(s) \in Seq(S) /\ Len(Tail(s)) = Len(s) - 1 /\ Head(s) = s[1]
      /\ Head(s) \in S
  OBVIOUS
<1>2. \A i \in 1..(Len(s) - 1) : Tail(s)[i] = s[i + 1]
  OBVIOUS
<1>3. Tail(s) = <<>> => Len(s) = 1
  BY <1>1
<1>4. Tail(s) # <<>> => Len(Tail(s)) \in 1..(Len(s) - 1)
  BY <1>1
<1>. QED
  BY <1>1, <1>2, <1>3, <1>4

(* A frame saves a document that has the snapshot of its copy. *)
LEMMA SavesInv ==
  ASSUME StoreInv, NEW f \in Frame, NEW d \in StoredDocuments, Saves(f, d),
         d.health = copy[f].health, UNCHANGED <<main, toFrame, opens>>,
         mode' \in [Frame -> SUBSET Target], \A g \in Frame : g # f => mode'[g] = mode[g],
         d.write.set => mode'[f] = d.write.targets
  PROVE  StoreInv'
<1>1. /\ main \in StoredDocuments /\ copy \in [Frame -> StoredDocuments]
      /\ toMain \in [Frame -> Seq(StoredDocuments)] /\ toFrame \in [Frame -> Seq(StoredDocuments)]
      /\ saves \in 0..MaxSaves /\ opens \in 0..MaxOpens /\ MaxSaves \in Nat
  BY StoreAssumption DEF StoreInv, StoreStates
<1>2. /\ saves' \in 0..MaxSaves /\ copy' = [copy EXCEPT ![f] = d]
      /\ toMain' = [toMain EXCEPT ![f] = Append(toMain[f], d)]
  BY <1>1 DEF Saves
<1>3. /\ Append(toMain[f], d) \in Seq(StoredDocuments) /\ Append(toMain[f], d) # <<>>
      /\ Append(toMain[f], d)[Len(Append(toMain[f], d))] = d
  <2>1. toMain[f] \in Seq(StoredDocuments)
    BY <1>1
  <2>. QED
    BY <2>1, AppendedLast
<1>4. /\ copy' \in [Frame -> StoredDocuments] /\ copy'[f] = d
      /\ toMain' \in [Frame -> Seq(StoredDocuments)] /\ toMain'[f] = Append(toMain[f], d)
      /\ \A g \in Frame : g # f => copy'[g] = copy[g] /\ toMain'[g] = toMain[g]
  BY <1>1, <1>2, <1>3
<1>5. StoreStates'
  BY <1>1, <1>2, <1>4 DEF StoreStates
<1>6. Catches(f)' /\ ShowsMode(f)'
  BY <1>3, <1>4 DEF StoreInv, Catches, ShowsMode
<1>7. \A g \in Frame : g # f => Catches(g)' /\ ShowsMode(g)'
  BY <1>4 DEF StoreInv, Catches, ShowsMode
<1>. QED
  BY <1>5, <1>6, <1>7 DEF StoreInv

(* Main's new document goes to all frames. *)
LEMMA RelaysInv ==
  ASSUME StoreInv, NEW d \in StoredDocuments, Relays(d), UNCHANGED <<copy, mode, saves, opens>>,
         toMain' \in [Frame -> Seq(StoredDocuments)]
  PROVE  StoreInv'
<1>1. /\ copy \in [Frame -> StoredDocuments] /\ toFrame \in [Frame -> Seq(StoredDocuments)]
      /\ mode \in [Frame -> SUBSET Target] /\ saves \in 0..MaxSaves /\ opens \in 0..MaxOpens
  BY DEF StoreInv, StoreStates
<1>2. main' = d /\ toFrame' = [f \in Frame |-> Append(toFrame[f], d)]
  BY DEF Relays
<1>3. \A f \in Frame : /\ Append(toFrame[f], d) \in Seq(StoredDocuments) /\ Append(toFrame[f], d) # <<>>
                       /\ Append(toFrame[f], d)[Len(Append(toFrame[f], d))] = d
  <2>. TAKE f \in Frame
  <2>1. toFrame[f] \in Seq(StoredDocuments)
    BY <1>1
  <2>. QED
    BY <2>1, AppendedLast
<1>4. StoreStates'
  BY <1>1, <1>2, <1>3 DEF StoreStates
<1>5. \A f \in Frame : Catches(f)' /\ ShowsMode(f)'
  BY <1>2, <1>3 DEF StoreInv, Catches, ShowsMode
<1>. QED
  BY <1>4, <1>5 DEF StoreInv

LEMMA StoreStep == StoreInv /\ [StoreNext]_storeVars => StoreInv' /\ main'.health >= main.health
<1>. SUFFICES ASSUME StoreInv, [StoreNext]_storeVars
              PROVE  StoreInv' /\ main'.health >= main.health
  OBVIOUS
<1>1. /\ main \in StoredDocuments /\ copy \in [Frame -> StoredDocuments]
      /\ toMain \in [Frame -> Seq(StoredDocuments)] /\ toFrame \in [Frame -> Seq(StoredDocuments)]
      /\ mode \in [Frame -> SUBSET Target] /\ saves \in 0..MaxSaves /\ opens \in 0..MaxOpens
      /\ MaxSaves \in Nat /\ MaxHealth \in Nat /\ MaxOpens \in Nat
  BY StoreAssumption DEF StoreInv, StoreStates
<1>2. \A n \in 0..MaxHealth : n >= n
  BY <1>1
<1>3. main.health \in 0..MaxHealth
  BY <1>1, DocumentParts
<1>4. CASE MainSaves
  <2>1. PICK d : d = [main EXCEPT !.health = @ + 1]
    OBVIOUS
  <2>2. main = [write |-> main.write, setting |-> main.setting, health |-> main.health]
        /\ main.write \in WriteModes /\ main.setting \in 0..MaxSaves
    BY <1>1, DocumentParts
  <2>3. d = [write |-> main.write, setting |-> main.setting, health |-> main.health + 1]
    BY <2>1, <2>2
  <2>4. main.health + 1 \in 0..MaxHealth
    BY <1>1, <1>3, <1>4 DEF MainSaves
  <2>5. d \in StoredDocuments
    BY <2>2, <2>3, <2>4 DEF StoredDocuments
  <2>6. Relays(d) /\ UNCHANGED <<copy, toMain, mode, saves, opens>>
    BY <1>4, <2>1 DEF MainSaves
  <2>7. StoreInv'
    BY <1>1, <2>5, <2>6, RelaysInv
  <2>8. main'.health = main.health + 1
    BY <2>3, <2>6 DEF Relays
  <2>. QED
    BY <1>1, <1>3, <2>7, <2>8
<1>5. ASSUME NEW f \in Frame, SavesSetting(f) PROVE StoreInv' /\ main' = main
  <2>1. PICK d : d = [copy[f] EXCEPT !.setting = saves + 1]
    OBVIOUS
  <2>2. copy[f] = [write |-> copy[f].write, setting |-> copy[f].setting, health |-> copy[f].health]
        /\ copy[f].write \in WriteModes /\ copy[f].health \in 0..MaxHealth
    BY <1>1, DocumentParts
  <2>3. d = [write |-> copy[f].write, setting |-> saves + 1, health |-> copy[f].health]
    BY <2>1, <2>2
  <2>4. Saves(f, d) /\ UNCHANGED <<main, toFrame, mode, opens>>
    BY <1>5, <2>1 DEF SavesSetting
  <2>5. saves + 1 \in 0..MaxSaves
    BY <1>1, <2>4 DEF Saves
  <2>6. d \in StoredDocuments
    BY <2>2, <2>3, <2>5 DEF StoredDocuments
  <2>7. d.health = copy[f].health /\ (d.write.set => mode'[f] = d.write.targets)
    BY <2>3, <2>4 DEF StoreInv, ShowsMode
  <2>. QED
    BY <1>1, <2>4, <2>6, <2>7, SavesInv
<1>6. ASSUME NEW f \in Frame, NEW t \in Target, NEW on \in BOOLEAN, Switches(f, t, on)
      PROVE  StoreInv' /\ main' = main
  <2>. DEFINE now == Synced(f, copy[f])
              next == IF on THEN now \cup {t} ELSE now \ {t}
  <2>1. PICK d : d = [copy[f] EXCEPT !.write = [set |-> TRUE, targets |-> next]]
    OBVIOUS
  <2>2. copy[f] = [write |-> copy[f].write, setting |-> copy[f].setting, health |-> copy[f].health]
        /\ copy[f].setting \in 0..MaxSaves /\ copy[f].health \in 0..MaxHealth
        /\ copy[f].write.targets \subseteq Target
    BY <1>1, DocumentParts
  <2>3. now \subseteq Target
    BY <1>1, <2>2 DEF Synced
  <2>4. next \subseteq Target
    BY <2>3
  <2>5. Saves(f, d) /\ mode' = [mode EXCEPT ![f] = next] /\ UNCHANGED <<main, toFrame, opens>>
    BY <1>6, <2>1 DEF Switches
  <2>. HIDE DEF next
  <2>6. d = [write |-> [set |-> TRUE, targets |-> next], setting |-> copy[f].setting,
             health |-> copy[f].health]
    BY <2>1, <2>2
  <2>7. [set |-> TRUE, targets |-> next] \in WriteModes
    BY <2>4 DEF WriteModes
  <2>8. d \in StoredDocuments
    BY <2>2, <2>6, <2>7 DEF StoredDocuments
  <2>9. /\ mode' \in [Frame -> SUBSET Target] /\ mode'[f] = next
        /\ \A g \in Frame : g # f => mode'[g] = mode[g]
    BY <1>1, <2>4, <2>5
  <2>10. d.health = copy[f].health /\ d.write.targets = next
    BY <2>6
  <2>. QED
    BY <2>5, <2>8, <2>9, <2>10, SavesInv
<1>7. ASSUME NEW f \in Frame, MainReceives(f) PROVE StoreInv' /\ main'.health = main.health
  <2>. DEFINE head == Head(toMain[f])
  <2>1. /\ toMain[f] # <<>> /\ toMain' = [toMain EXCEPT ![f] = Tail(toMain[f])]
        /\ UNCHANGED <<copy, mode, saves, opens>>
        /\ IF KeepsOwn(head) = main THEN UNCHANGED <<main, toFrame>> ELSE Relays(KeepsOwn(head))
    BY <1>7 DEF MainReceives
  <2>2. /\ Tail(toMain[f]) \in Seq(StoredDocuments) /\ head \in StoredDocuments
        /\ Tail(toMain[f]) = <<>> => head = toMain[f][Len(toMain[f])]
        /\ Tail(toMain[f]) # <<>> =>
             Tail(toMain[f])[Len(Tail(toMain[f]))] = toMain[f][Len(toMain[f])]
    BY <1>1, <2>1, TailLast
  <2>. HIDE DEF head
  <2>3. /\ toMain' \in [Frame -> Seq(StoredDocuments)] /\ toMain'[f] = Tail(toMain[f])
        /\ \A g \in Frame : g # f => toMain'[g] = toMain[g]
    BY <1>1, <2>1, <2>2
  <2>4. head = [write |-> head.write, setting |-> head.setting, health |-> head.health]
        /\ head.write \in WriteModes /\ head.setting \in 0..MaxSaves
    BY <2>2, DocumentParts
  <2>5. PICK d : d = [head EXCEPT !.health = main.health]
    OBVIOUS
  <2>6. d = [write |-> head.write, setting |-> head.setting, health |-> main.health]
    BY <2>4, <2>5
  <2>7. d \in StoredDocuments /\ d.health = main.health /\ KeepsOwn(head) = d
    BY <1>3, <2>4, <2>5, <2>6 DEF StoredDocuments, KeepsOwn
  <2>8. CASE d # main
    <3>1. Relays(d)
      BY <2>1, <2>7, <2>8
    <3>2. StoreInv'
      BY <2>1, <2>3, <2>7, <3>1, RelaysInv
    <3>. QED
      BY <2>7, <3>1, <3>2 DEF Relays
  <2>9. CASE d = main
    <3>1. UNCHANGED <<main, toFrame>>
      BY <2>1, <2>7, <2>9
    <3>2. StoreStates'
      BY <1>1, <2>1, <2>3, <3>1 DEF StoreStates
    <3>3. Catches(f)'
      <4>1. CASE toFrame[f] # <<>> \/ copy[f] = main
        BY <2>1, <3>1, <4>1 DEF StoreInv, Catches
      <4>2. CASE toFrame[f] = <<>> /\ copy[f] # main
        <5>1. toMain[f][Len(toMain[f])] = copy[f] /\ copy[f].health = main.health
          BY <4>2 DEF StoreInv, Catches
        <5>2. Tail(toMain[f]) # <<>>
          <6>. SUFFICES ASSUME Tail(toMain[f]) = <<>> PROVE FALSE
            OBVIOUS
          <6>1. head.health = main.health /\ head = copy[f]
            BY <2>2, <5>1
          <6>2. d = head
            BY <2>4, <2>6, <6>1
          <6>. QED
            BY <2>9, <4>2, <6>1, <6>2
        <5>3. toMain'[f] # <<>> /\ toMain'[f][Len(toMain'[f])] = copy[f]
          BY <2>2, <2>3, <5>1, <5>2
        <5>. QED
          BY <2>1, <3>1, <4>2, <5>1, <5>3 DEF Catches
      <4>. QED
        BY <4>1, <4>2
    <3>4. \A g \in Frame : g # f => Catches(g)'
      BY <2>1, <2>3, <3>1 DEF StoreInv, Catches
    <3>5. \A g \in Frame : ShowsMode(g)'
      BY <2>1 DEF StoreInv, ShowsMode
    <3>. QED
      BY <3>1, <3>2, <3>3, <3>4, <3>5 DEF StoreInv
  <2>. QED
    BY <2>8, <2>9
<1>8. ASSUME NEW f \in Frame, FrameReceives(f) PROVE StoreInv' /\ main' = main
  <2>. DEFINE head == Head(toFrame[f])
  <2>1. /\ toFrame[f] # <<>> /\ toFrame' = [toFrame EXCEPT ![f] = Tail(toFrame[f])]
        /\ copy' = [copy EXCEPT ![f] = head] /\ mode' = [mode EXCEPT ![f] = Watched(f, head)]
        /\ UNCHANGED <<main, toMain, saves, opens>>
    BY <1>8 DEF FrameReceives
  <2>2. /\ Tail(toFrame[f]) \in Seq(StoredDocuments) /\ head \in StoredDocuments
        /\ Tail(toFrame[f]) = <<>> => head = toFrame[f][Len(toFrame[f])]
        /\ Tail(toFrame[f]) # <<>> =>
             Tail(toFrame[f])[Len(Tail(toFrame[f]))] = toFrame[f][Len(toFrame[f])]
    BY <1>1, <2>1, TailLast
  <2>. HIDE DEF head
  <2>3. head.write.targets \subseteq Target /\ mode[f] \subseteq Target
    BY <1>1, <2>2, DocumentParts
  <2>4. Watched(f, head) \subseteq Target
        /\ (head.write.set => Watched(f, head) = head.write.targets)
    BY <2>3 DEF Watched, Synced, StoreInv, ShowsMode
  <2>5. /\ toFrame' \in [Frame -> Seq(StoredDocuments)] /\ toFrame'[f] = Tail(toFrame[f])
        /\ copy' \in [Frame -> StoredDocuments] /\ copy'[f] = head
        /\ \A g \in Frame : g # f => toFrame'[g] = toFrame[g] /\ copy'[g] = copy[g]
    BY <1>1, <2>1, <2>2
  <2>6. /\ mode' \in [Frame -> SUBSET Target] /\ mode'[f] = Watched(f, head)
        /\ \A g \in Frame : g # f => mode'[g] = mode[g]
    BY <1>1, <2>1, <2>4
  <2>7. StoreStates'
    BY <1>1, <2>1, <2>5, <2>6 DEF StoreStates
  <2>8. Catches(f)' /\ ShowsMode(f)'
    <3>1. toFrame[f][Len(toFrame[f])] = main
      BY <2>1 DEF StoreInv, Catches
    <3>. QED
      BY <2>1, <2>2, <2>4, <2>5, <2>6, <3>1 DEF Catches, ShowsMode
  <2>9. \A g \in Frame : g # f => Catches(g)' /\ ShowsMode(g)'
    BY <2>1, <2>5, <2>6 DEF StoreInv, Catches, ShowsMode
  <2>. QED
    BY <2>1, <2>7, <2>8, <2>9 DEF StoreInv
<1>9. ASSUME NEW f \in Frame, Opens(f) PROVE StoreInv' /\ main' = main
  <2>1. /\ opens' \in 0..MaxOpens /\ copy' = [copy EXCEPT ![f] = main]
        /\ toFrame' = [toFrame EXCEPT ![f] = <<>>]
        /\ mode' = [mode EXCEPT ![f] = main.write.targets] /\ UNCHANGED <<main, toMain, saves>>
    BY <1>1, <1>9 DEF Opens
  <2>2. main.write.targets \subseteq Target /\ <<>> \in Seq(StoredDocuments)
    BY <1>1, DocumentParts
  <2>3. /\ toFrame' \in [Frame -> Seq(StoredDocuments)] /\ toFrame'[f] = <<>>
        /\ copy' \in [Frame -> StoredDocuments] /\ copy'[f] = main
        /\ mode' \in [Frame -> SUBSET Target] /\ mode'[f] = main.write.targets
        /\ \A g \in Frame : g # f => /\ toFrame'[g] = toFrame[g] /\ copy'[g] = copy[g]
                                     /\ mode'[g] = mode[g]
    BY <1>1, <2>1, <2>2
  <2>4. StoreStates'
    BY <1>1, <2>1, <2>3 DEF StoreStates
  <2>5. \A g \in Frame : Catches(g)' /\ ShowsMode(g)'
    BY <2>1, <2>3 DEF StoreInv, Catches, ShowsMode
  <2>. QED
    BY <2>1, <2>4, <2>5 DEF StoreInv
<1>10. CASE UNCHANGED storeVars
  BY <1>2, <1>3, <1>10 DEF storeVars, StoreInv, StoreStates, Catches, ShowsMode
<1>. QED
  BY <1>2, <1>3, <1>4, <1>5, <1>6, <1>7, <1>8, <1>9, <1>10 DEF StoreNext, Transmits

(* For any frames, targets and settings: no document of a frame takes a snapshot from main, and once
   all messages have arrived every frame shows what main has. *)
THEOREM StoreAlwaysFollows == StoreSpec => [](StoreTypeOK /\ FramesFollow) /\ SnapshotKept
<1>1. StoreInv => StoreTypeOK /\ FramesFollow
  BY StoreInvTypes
<1>2. StoreInv /\ [StoreNext]_storeVars => StoreInv' /\ [main'.health >= main.health]_storeVars
  BY StoreStep
<1>. QED
  BY <1>1, <1>2, StoreInitInv, PTL DEF StoreSpec, SnapshotKept

-----------------------------------------------------------------------------
(* TopicWorkspace.                                                         *)

(* Of the partitions only a call for the open topic is current; what answers for the sizes, and the
   sizes that are kept, are of a cluster and of no topic. *)
WorkspaceInv ==
  /\ WorkspaceTypeOK
  /\ ShowsWhatIsOpen
  /\ \A q \in asks :
       /\ q.kind = "topic" /\ q.current => q.for = [cluster |-> onCluster, topic |-> openTopic]
       /\ q.kind = "sizes" => q.for.topic = Nothing
  /\ panel["sizes"].data # Nothing =>
       panel["sizes"].data.cluster = panel["sizes"].of /\ panel["sizes"].data.topic = Nothing

LEMMA WorkspaceInitInv == WorkspaceInit => WorkspaceInv
<1>. SUFFICES ASSUME WorkspaceInit PROVE WorkspaceInv
  OBVIOUS
<1>1. BlankPanel \in TopicPanels /\ BlankPanel.data = Nothing /\ BlankPanel.loading = FALSE
  BY DEF BlankPanel, TopicPanels
<1>2. \A k \in PanelKinds : panel[k] = BlankPanel
  BY DEF WorkspaceInit
<1>3. "topic" \in PanelKinds /\ "sizes" \in PanelKinds
  BY DEF PanelKinds
<1>4. WorkspaceTypeOK
  BY <1>1 DEF WorkspaceInit, WorkspaceTypeOK, Tabs
<1>5. ShowsWhatIsOpen
  BY <1>1, <1>2, <1>3 DEF ShowsWhatIsOpen, OfContext
<1>. QED
  BY <1>1, <1>2, <1>3, <1>4, <1>5 DEF WorkspaceInit, WorkspaceInv

(* What a load finds at once is typed, and of what it asks for. *)
LEMMA LoadedPanels ==
  ASSUME WorkspaceInv, NEW c \in Cluster, NEW l \in SUBSET Topic, NEW t \in Topic \cup {Nothing},
         NEW hit \in BOOLEAN, NEW k \in PanelKinds
  PROVE  /\ Loaded(k, c, l, t, hit) \in TopicPanels
         /\ k # "sizes" /\ Loaded(k, c, l, t, hit).loading =>
              NeedsLoad(k, l, t) /\ Loaded(k, c, l, t, hit).of = t
         /\ k = "topic" => Loaded(k, c, l, t, hit).data \in {Nothing, [cluster |-> c, topic |-> t]}
         /\ k = "sizes" =>
              LET p == Loaded(k, c, l, t, hit)
              IN  p.data # Nothing => p.data.cluster = p.of /\ p.data.topic = Nothing
<1>1. panel[k] \in TopicPanels
  BY DEF WorkspaceInv, WorkspaceTypeOK
<1>2. For(k, c, t) \in Data /\ (k = "topic" => For(k, c, t) = [cluster |-> c, topic |-> t])
  BY DEF For, Data
<1>3. panel["sizes"].data # Nothing =>
        panel["sizes"].data.cluster = panel["sizes"].of /\ panel["sizes"].data.topic = Nothing
  BY DEF WorkspaceInv
<1>4. CASE NeedsLoad(k, l, t)
  <2>. DEFINE of == IF k = "sizes" THEN c ELSE t
              data == AtOnce(k, c, t, hit)
  <2>1. Loaded(k, c, l, t, hit) = [of |-> of, loading |-> TRUE, data |-> data]
    BY <1>4 DEF Loaded
  <2>2. data \in Data \cup {Nothing}
    BY <1>1, <1>2 DEF AtOnce, TopicPanels
  <2>3. k = "topic" => data \in {Nothing, [cluster |-> c, topic |-> t]}
    BY <1>2 DEF AtOnce
  <2>4. k = "sizes" /\ data # Nothing => data.cluster = c /\ data.topic = Nothing
    BY <1>3 DEF AtOnce
  <2>5. of \in Topic \cup Cluster \cup {Nothing} /\ (k # "sizes" => of = t)
        /\ (k = "sizes" => of = c)
    OBVIOUS
  <2>. HIDE DEF of, data
  <2>6. [of |-> of, loading |-> TRUE, data |-> data] \in TopicPanels
    BY <2>2, <2>5 DEF TopicPanels
  <2>. QED
    BY <1>4, <2>1, <2>3, <2>4, <2>5, <2>6
<1>5. CASE ~NeedsLoad(k, l, t) /\ k = "sizes"
  BY <1>1, <1>3, <1>5 DEF Loaded
<1>6. CASE ~NeedsLoad(k, l, t) /\ k # "sizes"
  <2>1. PICK p : p = [BlankPanel EXCEPT !.of = IF l = {} THEN Nothing ELSE t]
    OBVIOUS
  <2>2. p = [of |-> IF l = {} THEN Nothing ELSE t, loading |-> FALSE, data |-> Nothing]
    BY <2>1 DEF BlankPanel
  <2>3. p \in TopicPanels
    BY <2>2 DEF TopicPanels
  <2>4. Loaded(k, c, l, t, hit) = p
    BY <1>6, <2>1 DEF Loaded
  <2>. QED
    BY <1>6, <2>2, <2>3, <2>4
<1>. QED
  BY <1>4, <1>5, <1>6

(* The calls after the effects of ks have run. *)
AsksUnderWay(ks, c, l, t) ==
  /\ asks' \subseteq PanelCalls
  /\ \A k \in ks : NeedsLoad(k, l, t) =>
       \E q \in asks' : q.kind = k /\ q.for = For(k, c, t) /\ q.current
  /\ \A r \in asks : r.current /\ r.kind \notin ks =>
       \E q \in asks' : q.kind = r.kind /\ q.for = r.for /\ q.current
  /\ \A q \in asks' :
       \/ q.kind \in ks /\ q.for = For(q.kind, c, t)
       \/ \E r \in asks : q.kind = r.kind /\ q.for = r.for /\ (q.current <=> r.current /\ r.kind \notin ks)

LEMMA RunsAsk ==
  ASSUME asks \subseteq PanelCalls, NEW ks \in SUBSET PanelKinds, NEW c \in Cluster,
         NEW l \in SUBSET Topic, NEW t \in Topic \cup {Nothing}, Runs(ks, c, l, t)
  PROVE  AsksUnderWay(ks, c, l, t)
<1>. DEFINE old == {[q EXCEPT !.current = @ /\ q.kind \notin ks] : q \in asks}
            new == {[kind |-> k, for |-> For(k, c, t), current |-> TRUE] :
                      k \in {j \in ks : NeedsLoad(j, l, t)}}
<1>1. asks' = old \cup new
  BY DEF Runs
<1>2. ASSUME NEW r \in asks, NEW o, o = [r EXCEPT !.current = @ /\ r.kind \notin ks]
      PROVE  /\ o \in PanelCalls /\ o.kind = r.kind /\ o.for = r.for
             /\ o.current <=> r.current /\ r.kind \notin ks
  <2>1. r \in PanelCalls
    OBVIOUS
  <2>2. r = [kind |-> r.kind, for |-> r.for, current |-> r.current]
    BY <2>1 DEF PanelCalls
  <2>3. o = [kind |-> r.kind, for |-> r.for, current |-> (r.current /\ r.kind \notin ks)]
    BY <1>2, <2>2
  <2>4. o \in PanelCalls
    BY <2>1, <2>3 DEF PanelCalls
  <2>. QED
    BY <2>3, <2>4
<1>3. \A o \in old : o \in PanelCalls /\ \E r \in asks :
        o.kind = r.kind /\ o.for = r.for /\ (o.current <=> r.current /\ r.kind \notin ks)
  BY <1>2
<1>4. \A r \in asks : \E o \in old :
        o.kind = r.kind /\ o.for = r.for /\ (o.current <=> r.current /\ r.kind \notin ks)
  <2>. SUFFICES ASSUME NEW r \in asks
                PROVE  \E o \in old : /\ o.kind = r.kind /\ o.for = r.for
                                      /\ (o.current <=> r.current /\ r.kind \notin ks)
    OBVIOUS
  <2>1. PICK o : o = [r EXCEPT !.current = @ /\ r.kind \notin ks]
    OBVIOUS
  <2>2. o \in old
    BY <2>1
  <2>. QED
    BY <1>2, <2>1, <2>2
<1>5. \A k \in ks : NeedsLoad(k, l, t) =>
        \E q \in new : q.kind = k /\ q.for = For(k, c, t) /\ q.current
  <2>. SUFFICES ASSUME NEW k \in ks, NeedsLoad(k, l, t)
                PROVE  \E q \in new : q.kind = k /\ q.for = For(k, c, t) /\ q.current
    OBVIOUS
  <2>1. [kind |-> k, for |-> For(k, c, t), current |-> TRUE] \in new
    OBVIOUS
  <2>. QED
    BY <2>1
<1>6. \A q \in new : q \in PanelCalls /\ q.kind \in ks /\ q.for = For(q.kind, c, t)
  <2>. SUFFICES ASSUME NEW k \in ks, NEW q, q = [kind |-> k, for |-> For(k, c, t), current |-> TRUE]
                PROVE  q \in PanelCalls /\ q.kind \in ks /\ q.for = For(q.kind, c, t)
    OBVIOUS
  <2>1. For(k, c, t) \in Data /\ k \in PanelKinds
    BY DEF For, Data
  <2>. QED
    BY <2>1 DEF PanelCalls
<1>. HIDE DEF old, new
<1>. QED
  BY <1>1, <1>3, <1>4, <1>5, <1>6 DEF AsksUnderWay

LEMMA RunsInv ==
  ASSUME WorkspaceInv, NEW ks \in SUBSET PanelKinds, NEW c \in Cluster, NEW l \in SUBSET Topic,
         NEW t \in Topic \cup {Nothing}, Runs(ks, c, l, t), onCluster' = c, openTopic' = t,
         "topic" \notin ks => c = onCluster /\ t = openTopic,
         inList' \subseteq Topic, tab' \in Tabs
  PROVE  WorkspaceInv'
<1>1. panel \in [PanelKinds -> TopicPanels] /\ asks \subseteq PanelCalls
  BY DEF WorkspaceInv, WorkspaceTypeOK
<1>2. "topic" \in PanelKinds /\ "sizes" \in PanelKinds
  BY DEF PanelKinds
<1>3. PICK hit \in BOOLEAN :
        panel' = [k \in PanelKinds |-> IF k \in ks THEN Loaded(k, c, l, t, hit) ELSE panel[k]]
  BY DEF Runs
<1>4. AsksUnderWay(ks, c, l, t)
  BY <1>1, RunsAsk
<1>. DEFINE loaded(k) == Loaded(k, c, l, t, hit)
<1>5. \A k \in PanelKinds :
        /\ loaded(k) \in TopicPanels
        /\ k # "sizes" /\ loaded(k).loading => NeedsLoad(k, l, t) /\ loaded(k).of = t
        /\ k = "topic" => loaded(k).data \in {Nothing, [cluster |-> c, topic |-> t]}
        /\ k = "sizes" => (loaded(k).data # Nothing =>
                             loaded(k).data.cluster = loaded(k).of /\ loaded(k).data.topic = Nothing)
  BY LoadedPanels
<1>6. \A k \in PanelKinds : panel'[k] = IF k \in ks THEN loaded(k) ELSE panel[k]
  BY <1>3
<1>7. panel' \in [PanelKinds -> TopicPanels]
  BY <1>1, <1>3, <1>5
<1>. HIDE DEF loaded
<1>8. WorkspaceTypeOK'
  BY <1>4, <1>7 DEF WorkspaceTypeOK, AsksUnderWay
<1>9. panel'["sizes"].data # Nothing =>
        panel'["sizes"].data.cluster = panel'["sizes"].of /\ panel'["sizes"].data.topic = Nothing
  BY <1>2, <1>5, <1>6 DEF WorkspaceInv
<1>10. \A q \in asks' :
         /\ q.kind = "topic" /\ q.current => q.for = [cluster |-> c, topic |-> t]
         /\ q.kind = "sizes" => q.for.topic = Nothing
  <2>1. For("topic", c, t) = [cluster |-> c, topic |-> t] /\ For("sizes", c, t).topic = Nothing
    BY DEF For
  <2>. TAKE q \in asks'
  <2>2. CASE q.kind \in ks /\ q.for = For(q.kind, c, t)
    BY <2>1, <2>2
  <2>3. CASE \E r \in asks : /\ q.kind = r.kind /\ q.for = r.for
                             /\ (q.current <=> r.current /\ r.kind \notin ks)
    BY <2>3 DEF WorkspaceInv
  <2>. QED
    BY <1>4, <2>2, <2>3 DEF AsksUnderWay
<1>11. panel'["topic"].data # Nothing =>
         panel'["topic"].data.cluster = c /\ panel'["topic"].data.topic \in {t, Nothing}
  <2>1. CASE "topic" \in ks
    <3>1. panel'["topic"].data \in {Nothing, [cluster |-> c, topic |-> t]}
      BY <1>2, <1>5, <1>6, <2>1
    <3>. QED
      BY <3>1
  <2>2. CASE "topic" \notin ks
    BY <1>2, <1>6, <2>2 DEF WorkspaceInv, ShowsWhatIsOpen, OfContext
  <2>. QED
    BY <2>1, <2>2
<1>12. \A k \in PanelKinds \ {"sizes"} : panel'[k].loading =>
         \E q \in asks' : q.kind = k /\ q.current /\ q.for.topic = panel'[k].of
  <2>. SUFFICES ASSUME NEW k \in PanelKinds \ {"sizes"}, panel'[k].loading
                PROVE  \E q \in asks' : q.kind = k /\ q.current /\ q.for.topic = panel'[k].of
    OBVIOUS
  <2>1. CASE k \in ks
    <3>1. NeedsLoad(k, l, t) /\ panel'[k].of = t
      BY <1>5, <1>6, <2>1
    <3>2. For(k, c, t).topic = t
      BY DEF For
    <3>. QED
      BY <1>4, <2>1, <3>1, <3>2 DEF AsksUnderWay
  <2>2. CASE k \notin ks
    <3>1. panel'[k] = panel[k]
      BY <1>6, <2>2
    <3>2. \E r \in asks : r.kind = k /\ r.current /\ r.for.topic = panel[k].of
      BY <3>1 DEF WorkspaceInv, ShowsWhatIsOpen
    <3>. QED
      BY <1>4, <2>2, <3>1, <3>2 DEF AsksUnderWay
  <2>. QED
    BY <2>1, <2>2
<1>13. ShowsWhatIsOpen'
  BY <1>9, <1>11, <1>12 DEF ShowsWhatIsOpen, OfContext
<1>. QED
  BY <1>8, <1>9, <1>10, <1>13 DEF WorkspaceInv

LEMMA WorkspaceStep == WorkspaceInv /\ [WorkspaceNext]_workspaceVars => WorkspaceInv'
<1>. SUFFICES ASSUME WorkspaceInv, [WorkspaceNext]_workspaceVars PROVE WorkspaceInv'
  OBVIOUS
<1>1. /\ onCluster \in Cluster /\ inList \subseteq Topic /\ openTopic \in Topic \cup {Nothing}
      /\ tab \in Tabs /\ panel \in [PanelKinds -> TopicPanels] /\ asks \subseteq PanelCalls
  BY DEF WorkspaceInv, WorkspaceTypeOK
<1>2. {"topic", "sizes"} \in SUBSET PanelKinds /\ {"topic"} \in SUBSET PanelKinds
      /\ "overview" \in Tabs /\ "sizes" \in PanelKinds /\ "topic" \in PanelKinds
      /\ "topicConsumers" \in PanelKinds
  BY DEF PanelKinds, Tabs
<1>3. \A t, v : OnTab(t, v) \in SUBSET PanelKinds
  BY DEF OnTab, TabOf, PanelKinds
<1>4. ASSUME NEW c \in Cluster, SwitchesCluster(c) PROVE WorkspaceInv'
  <2>1. onCluster' = c /\ inList' = {} /\ openTopic' = Nothing /\ tab' = "overview"
        /\ Runs({"topic", "sizes"}, c, {}, Nothing)
    BY <1>4 DEF SwitchesCluster
  <2>. QED
    BY <1>2, <2>1, RunsInv
<1>5. ASSUME NEW l \in SUBSET Topic, MetadataArrives(l) PROVE WorkspaceInv'
  <2>1. inList' = l /\ UNCHANGED <<onCluster, openTopic, tab>>
        /\ Runs({"topic", "sizes"} \cup OnTab(openTopic, tab), onCluster, l, openTopic)
    BY <1>5 DEF MetadataArrives
  <2>2. {"topic", "sizes"} \cup OnTab(openTopic, tab) \in SUBSET PanelKinds
    BY <1>2, <1>3
  <2>. QED
    BY <1>1, <2>1, <2>2, RunsInv
<1>6. ASSUME NEW t \in Topic, OpensWorkspace(t) PROVE WorkspaceInv'
  <2>1. openTopic' = t /\ tab' = "overview" /\ Runs({"topic"}, onCluster, inList, t)
        /\ UNCHANGED <<onCluster, inList>> /\ inList \in SUBSET Topic
    BY <1>1, <1>6 DEF OpensWorkspace
  <2>. QED
    BY <1>1, <1>2, <2>1, RunsInv
<1>7. CASE LeavesWorkspace
  <2>1. openTopic' = Nothing /\ tab' = "overview" /\ Runs({"topic"}, onCluster, inList, Nothing)
        /\ UNCHANGED <<onCluster, inList>> /\ inList \in SUBSET Topic
    BY <1>1, <1>7 DEF LeavesWorkspace
  <2>. QED
    BY <1>1, <1>2, <2>1, RunsInv
<1>8. ASSUME NEW v \in Tabs, OpensTab(v) PROVE WorkspaceInv'
  <2>1. tab' = v /\ Runs(OnTab(openTopic, v), onCluster, inList, openTopic)
        /\ UNCHANGED <<onCluster, inList, openTopic>> /\ inList \in SUBSET Topic
    BY <1>1, <1>8 DEF OpensTab
  <2>. QED
    BY <1>1, <1>3, <2>1, RunsInv
<1>9. ASSUME NEW k \in PanelKinds, Retries(k) PROVE WorkspaceInv'
  <2>1. Runs({k}, onCluster, inList, openTopic)
        /\ UNCHANGED <<onCluster, inList, openTopic, tab>> /\ inList \in SUBSET Topic
        /\ {k} \in SUBSET PanelKinds
    BY <1>1, <1>9 DEF Retries
  <2>. QED
    BY <1>1, <2>1, RunsInv
<1>10. ASSUME NEW q \in asks, NEW p \in TopicPanels, asks' = asks \ {q},
              UNCHANGED <<onCluster, inList, openTopic, tab>>,
              panel' = IF q.current THEN [panel EXCEPT ![q.kind] = p] ELSE panel,
              ~p.loading, p.of = IF q.kind = "sizes" THEN q.for.cluster ELSE q.for.topic,
              p.data \in {q.for, Nothing} \/ (q.kind = "topic" /\ p.data = panel["topic"].data)
       PROVE  WorkspaceInv'
  <2>1. q \in PanelCalls
    BY <1>1
  <2>2. q.kind \in PanelKinds /\ q.for \in Data
    BY <2>1 DEF PanelCalls
  <2>3. panel' \in [PanelKinds -> TopicPanels]
        /\ (q.current => panel'[q.kind] = p)
        /\ \A k \in PanelKinds : ~(q.current /\ k = q.kind) => panel'[k] = panel[k]
    BY <1>1, <1>10, <2>2
  <2>4. WorkspaceTypeOK'
    BY <1>1, <1>10, <2>3 DEF WorkspaceTypeOK
  <2>5. panel'["sizes"].data # Nothing =>
          panel'["sizes"].data.cluster = panel'["sizes"].of /\ panel'["sizes"].data.topic = Nothing
    BY <1>2, <1>10, <2>3 DEF WorkspaceInv
  <2>6. panel'["topic"].data # Nothing =>
          /\ panel'["topic"].data.cluster = onCluster
          /\ panel'["topic"].data.topic \in {openTopic, Nothing}
    <3>1. panel["topic"].data # Nothing =>
          panel["topic"].data.cluster = onCluster /\ panel["topic"].data.topic \in {openTopic, Nothing}
      BY DEF WorkspaceInv, ShowsWhatIsOpen, OfContext
    <3>2. q.kind = "topic" /\ q.current => q.for = [cluster |-> onCluster, topic |-> openTopic]
      BY DEF WorkspaceInv
    <3>3. CASE q.kind = "topic" /\ q.current /\ p.data = q.for
      BY <2>3, <3>2, <3>3
    <3>. QED
      BY <1>2, <1>10, <2>3, <3>1, <3>3
  <2>7. \A k \in PanelKinds \ {"sizes"} : panel'[k].loading =>
          \E r \in asks' : r.kind = k /\ r.current /\ r.for.topic = panel'[k].of
    <3>. SUFFICES ASSUME NEW k \in PanelKinds \ {"sizes"}, panel'[k].loading
                  PROVE  \E r \in asks \ {q} : r.kind = k /\ r.current /\ r.for.topic = panel'[k].of
      BY <1>10
    <3>1. ~(q.current /\ k = q.kind) /\ panel'[k] = panel[k]
      BY <1>10, <2>3
    <3>2. \E r \in asks : r.kind = k /\ r.current /\ r.for.topic = panel[k].of
      BY <3>1 DEF WorkspaceInv, ShowsWhatIsOpen
    <3>. QED
      BY <3>1, <3>2
  <2>8. ShowsWhatIsOpen'
    BY <1>10, <2>5, <2>6, <2>7 DEF ShowsWhatIsOpen, OfContext
  <2>. QED
    BY <1>10, <2>4, <2>5, <2>8 DEF WorkspaceInv
<1>11. ASSUME NEW q \in asks
       PROVE  /\ Shows(q) \in TopicPanels /\ ~Shows(q).loading /\ Shows(q).data = q.for
              /\ Shows(q).of = IF q.kind = "sizes" THEN q.for.cluster ELSE q.for.topic
  <2>1. q \in PanelCalls
    BY <1>1
  <2>2. q.for \in Data /\ q.for.cluster \in Cluster /\ q.for.topic \in Topic \cup {Nothing}
    BY <2>1 DEF PanelCalls, Data
  <2>. QED
    BY <2>2 DEF Shows, TopicPanels
<1>12. ASSUME NEW q \in asks, PanelAnswers(q) PROVE WorkspaceInv'
  <2>1. asks' = asks \ {q} /\ UNCHANGED <<onCluster, inList, openTopic, tab>>
        /\ panel' = IF q.current THEN [panel EXCEPT ![q.kind] = Shows(q)] ELSE panel
    BY <1>12 DEF PanelAnswers, PanelHeeded
  <2>. QED
    BY <1>10, <1>11, <2>1
<1>13. ASSUME NEW q \in asks, PanelFails(q) PROVE WorkspaceInv'
  <2>. DEFINE data == IF q.kind = "topic" THEN panel["topic"].data ELSE Nothing
              of == IF q.kind = "sizes" THEN q.for.cluster ELSE q.for.topic
  <2>1. PICK p : p = [Shows(q) EXCEPT !.data = data]
    OBVIOUS
  <2>2. p = [of |-> of, loading |-> FALSE, data |-> data]
    BY <2>1 DEF Shows
  <2>3. data \in Data \cup {Nothing}
    <3>1. panel["topic"] \in TopicPanels
      BY <1>1, <1>2
    <3>. QED
      BY <3>1 DEF TopicPanels
  <2>4. of \in Topic \cup Cluster \cup {Nothing}
    <3>1. Shows(q) \in TopicPanels /\ Shows(q).of = of
      BY <1>11
    <3>. QED
      BY <3>1 DEF TopicPanels
  <2>5. data = Nothing \/ (q.kind = "topic" /\ data = panel["topic"].data)
    OBVIOUS
  <2>6. asks' = asks \ {q} /\ UNCHANGED <<onCluster, inList, openTopic, tab>>
        /\ panel' = IF q.current THEN [panel EXCEPT ![q.kind] = p] ELSE panel
    BY <1>13, <2>1 DEF PanelFails, PanelHeeded
  <2>7. p.of = IF q.kind = "sizes" THEN q.for.cluster ELSE q.for.topic
    BY <2>2
  <2>. HIDE DEF data, of
  <2>8. p \in TopicPanels /\ ~p.loading /\ p.data = data
    BY <2>2, <2>3, <2>4 DEF TopicPanels
  <2>. QED
    BY <1>10, <2>5, <2>6, <2>7, <2>8
<1>14. ASSUME NEW q \in asks, PartAnswers(q) PROVE WorkspaceInv'
  <2>1. q \in PanelCalls /\ panel["topicConsumers"] \in TopicPanels
    BY <1>1, <1>2
  <2>2. PICK p : p = [panel["topicConsumers"] EXCEPT !.data = q.for]
    OBVIOUS
  <2>3. panel["topicConsumers"] =
          [of |-> panel["topicConsumers"].of, loading |-> panel["topicConsumers"].loading,
           data |-> panel["topicConsumers"].data]
    BY <2>1 DEF TopicPanels
  <2>4. p = [of |-> panel["topicConsumers"].of, loading |-> panel["topicConsumers"].loading,
             data |-> q.for]
    BY <2>2, <2>3
  <2>5. p \in TopicPanels
    BY <2>1, <2>4 DEF TopicPanels, PanelCalls
  <2>6. panel' = [panel EXCEPT !["topicConsumers"] = p]
        /\ UNCHANGED <<onCluster, inList, openTopic, tab, asks>>
    BY <1>14, <2>2 DEF PartAnswers
  <2>7. panel' \in [PanelKinds -> TopicPanels]
        /\ \A k \in PanelKinds : /\ panel'[k].loading = panel[k].loading /\ panel'[k].of = panel[k].of
                                 /\ k # "topicConsumers" => panel'[k] = panel[k]
    BY <1>1, <1>2, <2>4, <2>5, <2>6
  <2>8. WorkspaceTypeOK'
    BY <1>1, <2>6, <2>7 DEF WorkspaceTypeOK
  <2>9. panel'["topic"] = panel["topic"] /\ panel'["sizes"] = panel["sizes"]
    BY <1>2, <2>7
  <2>10. ShowsWhatIsOpen'
    BY <2>6, <2>7, <2>9 DEF WorkspaceInv, ShowsWhatIsOpen, OfContext
  <2>. QED
    BY <2>6, <2>8, <2>9, <2>10 DEF WorkspaceInv
<1>15. CASE UNCHANGED workspaceVars
  BY <1>15 DEF workspaceVars, WorkspaceInv, WorkspaceTypeOK, ShowsWhatIsOpen, OfContext
<1>. QED
  BY <1>4, <1>5, <1>6, <1>7, <1>8, <1>9, <1>12, <1>13, <1>14, <1>15 DEF WorkspaceNext

(* For any topics on any clusters: the partitions and the sizes are those of what is open, and what
   loads is answered. *)
THEOREM OpenTopicAlwaysShown == WorkspaceSpec => [](WorkspaceTypeOK /\ ShowsWhatIsOpen)
<1>1. WorkspaceInv => WorkspaceTypeOK /\ ShowsWhatIsOpen
  BY DEF WorkspaceInv
<1>. QED
  BY <1>1, WorkspaceInitInv, WorkspaceStep, PTL DEF WorkspaceSpec

-----------------------------------------------------------------------------
(* FrameCaches: the order of use, and what eviction leaves.                *)

StrictlyOrdered(order) ==
  /\ order \subseteq Entry \X Entry
  /\ \A j \in Entry : <<j, j>> \notin order
  /\ \A i, j, k \in Entry : <<i, j>> \in order /\ <<j, k>> \in order => <<i, k>> \in order

LEMMA TouchedOrders ==
  ASSUME StrictlyOrdered(used), NEW k \in Resource
  PROVE  StrictlyOrdered(Touched(k))
<1>1. CASE k \in Single
  BY <1>1 DEF Touched
<1>2. CASE k \notin Single
  <2>1. k \in Entry
    BY <1>2 DEF Resource
  <2>. DEFINE rest == {pair \in used : k \notin {pair[1], pair[2]}}
              last == {<<j, k>> : j \in Entry \ {k}}
  <2>2. Touched(k) = rest \cup last
    BY <1>2 DEF Touched
  <2>3. used \subseteq Entry \X Entry
    BY DEF StrictlyOrdered
  <2>4. \A i, j \in Entry : <<i, j>> \in rest <=> <<i, j>> \in used /\ i # k /\ j # k
    OBVIOUS
  <2>5. \A i, j \in Entry : <<i, j>> \in last <=> i # k /\ j = k
    OBVIOUS
  <2>6. rest \subseteq Entry \X Entry /\ last \subseteq Entry \X Entry
    BY <2>1, <2>3
  <2>. HIDE DEF rest, last
  <2>7. \A j \in Entry : <<j, j>> \notin rest \cup last
    BY <2>4, <2>5 DEF StrictlyOrdered
  <2>8. \A h, i, j \in Entry :
          <<h, i>> \in rest \cup last /\ <<i, j>> \in rest \cup last => <<h, j>> \in rest \cup last
    BY <2>4, <2>5 DEF StrictlyOrdered
  <2>. QED
    BY <2>2, <2>6, <2>7, <2>8 DEF StrictlyOrdered
<1>. QED
  BY <1>1, <1>2

(* Of a finite set of entries one is the least recently used. *)
LEMMA OldestExists ==
  ASSUME NEW order, StrictlyOrdered(order), NEW S \in SUBSET Entry, IsFiniteSet(S), S # {}
  PROVE  \E v \in S : \A w \in S : <<w, v>> \notin order
<1>. DEFINE Before(v) == {w \in S : <<w, v>> \in order}
            A == {Before(v) : v \in S}
<1>1. IsWellFoundedOn(StrictSubsetOrdering(S), FiniteSubsetsOf(S))
  BY FS_StrictSubsetOrderingWellFounded
<1>2. A \subseteq FiniteSubsetsOf(S) /\ A # {}
  <2>1. \A v \in S : Before(v) \in SUBSET S /\ IsFiniteSet(Before(v))
    BY FS_Subset
  <2>. QED
    BY <2>1 DEF FiniteSubsetsOf
<1>3. PICK B \in A : \A C \in A : ~(<<C, B>> \in StrictSubsetOrdering(S))
  BY <1>1, <1>2, WFMin
<1>4. PICK v \in S : B = Before(v)
  BY <1>3
<1>5. ASSUME NEW w \in S, <<w, v>> \in order PROVE FALSE
  <2>1. Before(w) \subseteq Before(v)
    BY <1>5 DEF StrictlyOrdered
  <2>2. w \in Before(v) /\ w \notin Before(w)
    BY <1>5 DEF StrictlyOrdered
  <2>3. Before(w) \in A /\ Before(w) \in SUBSET S /\ Before(v) \in SUBSET S
    OBVIOUS
  <2>. HIDE DEF Before, A
  <2>4. <<Before(w), B>> \in StrictSubsetOrdering(S)
    BY <1>4, <2>1, <2>2, <2>3 DEF StrictSubsetOrdering
  <2>. QED
    BY <1>3, <2>3, <2>4
<1>. QED
  BY <1>4, <1>5

(* Either all idle entries go, or there are no more than there may be. *)
OldestIn(order, idle, surplus) ==
  {k \in idle : Cardinality({j \in idle : <<j, k>> \in order}) < surplus}

LEMMA EvictionBounds ==
  ASSUME NEW order, StrictlyOrdered(order), NEW there \in SUBSET Entry, IsFiniteSet(there),
         NEW idle \in SUBSET there, NEW surplus,
         surplus = IF Cardinality(there) > MaxEntries THEN Cardinality(there) - MaxEntries ELSE 0,
         NEW out, out = OldestIn(order, idle, surplus)
  PROVE  out = idle \/ Cardinality(there \ out) <= MaxEntries
<1>. SUFFICES ASSUME out # idle PROVE Cardinality(there \ out) <= MaxEntries
  OBVIOUS
<1>1. IsFiniteSet(idle) /\ IsFiniteSet(out) /\ IsFiniteSet(idle \ out) /\ idle \ out # {}
      /\ out \in SUBSET there /\ idle \ out \in SUBSET Entry
  <2>1. out \subseteq idle
    BY DEF OldestIn
  <2>2. IsFiniteSet(idle)
    BY FS_Subset
  <2>3. out \in SUBSET idle /\ idle \ out \in SUBSET idle
    BY <2>1
  <2>4. IsFiniteSet(out) /\ IsFiniteSet(idle \ out)
    BY <2>2, <2>3, FS_Subset
  <2>. QED
    BY <2>1, <2>2, <2>4
<1>2. PICK v \in idle \ out : \A w \in idle \ out : <<w, v>> \notin order
  BY <1>1, OldestExists
<1>. DEFINE B == {j \in idle : <<j, v>> \in order}
<1>3. B \in SUBSET out /\ IsFiniteSet(B)
  <2>1. B \subseteq out
    BY <1>2
  <2>. QED
    BY <1>1, <2>1, FS_Subset
<1>4. ~(Cardinality(B) < surplus)
  BY <1>2 DEF OldestIn
<1>. HIDE DEF B
<1>5. Cardinality(B) <= Cardinality(out) /\ Cardinality(B) \in Nat /\ Cardinality(out) \in Nat
  BY <1>1, <1>3, FS_Subset, FS_CardinalityType
<1>6. Cardinality(there \ out) = Cardinality(there) - Cardinality(out) /\ Cardinality(there) \in Nat
  <2>1. there \cap out = out
    BY <1>1
  <2>2. Cardinality(there \ out) = Cardinality(there) - Cardinality(there \cap out)
    BY FS_Difference
  <2>. QED
    BY <2>1, <2>2, FS_CardinalityType
<1>7. MaxEntries \in Nat
  BY CacheAssumption
<1>8. surplus >= Cardinality(there) - MaxEntries /\ surplus \in Nat
  BY <1>6, <1>7
<1>. QED
  BY <1>4, <1>5, <1>6, <1>7, <1>8

-----------------------------------------------------------------------------
(* FrameCaches: the entries.                                               *)

DataUpTo(n) == [asked : 0..n, fresh : BOOLEAN, some : BOOLEAN]
EntriesUpTo(n) == [there : BOOLEAN, data : DataUpTo(n), by : 0..MaxLoads, loading : BOOLEAN]
LoadsUpTo(n) ==
  [at : {"none", "asked", "over"}, of : Resource \cup {CHOOSE k \in Resource : TRUE},
   joined : Load, kept : DataUpTo(n), asked : 0..n]

(* An entry e that was dropped last at `at`: what is fresh was asked for since, and so was what the
   load of its generation will bring, which took with it what there was. *)
Sound(e, of, at) ==
  /\ e.data.fresh => e.data.some /\ e.data.asked >= at
  /\ e.data.some => e.there
  /\ e.loading => e.by # 0
  /\ e.by # 0 => /\ e.there /\ of[e.by].at # "none"
                 /\ of[e.by].at = "asked" => of[e.by].asked >= at /\ of[e.by].kept.some = e.data.some

ThereIn(all) == {k \in Entry : all[k].there}
KnownIn(all) == {k \in Entry : all[k].there /\ all[k].data.some}

CacheInv ==
  /\ drops \in 0..MaxDrops
  /\ entries \in [Resource -> EntriesUpTo(drops)] /\ loads \in [Load -> LoadsUpTo(drops)]
  /\ dropped \in [Resource -> 0..drops]
  /\ \A k \in Resource : Sound(entries[k], loads, dropped[k])
  /\ \A l \in Load : loads[l].at # "none" => loads[l].of \in Resource
  /\ StrictlyOrdered(used)
  /\ IsFiniteSet(ThereIn(entries)) /\ Cardinality(KnownIn(entries)) <= MaxEntries

LEMMA CacheBounds == MaxEntries \in Nat /\ MaxLoads \in Nat /\ MaxDrops \in Nat
BY CacheAssumption

LEMMA KnownFinite ==
  ASSUME NEW all, IsFiniteSet(ThereIn(all))
  PROVE  IsFiniteSet(KnownIn(all)) /\ Cardinality(KnownIn(all)) \in Nat
<1>1. KnownIn(all) \in SUBSET ThereIn(all)
  BY DEF KnownIn, ThereIn
<1>2. IsFiniteSet(KnownIn(all))
  BY <1>1, FS_Subset
<1>. QED
  BY <1>2, FS_CardinalityType

LEMMA CacheInvProperties == CacheInv => CacheTypeOK /\ CachesAreFresh
<1>. SUFFICES ASSUME CacheInv PROVE CacheTypeOK /\ CachesAreFresh
  OBVIOUS
<1>1. ASSUME NEW k \in Resource
      PROVE  /\ entries[k].by \in 0..MaxLoads /\ entries[k].data.asked \in 0..drops
             /\ entries[k].loading => entries[k].there /\ entries[k].by # 0
             /\ entries[k].data.fresh => entries[k].data.some
             /\ entries[k].data.fresh => entries[k].data.asked >= dropped[k]
  <2>1. entries[k] \in EntriesUpTo(drops) /\ Sound(entries[k], loads, dropped[k])
    BY DEF CacheInv
  <2>. QED
    BY <2>1 DEF EntriesUpTo, DataUpTo, Sound
<1>2. ASSUME NEW l \in Load
      PROVE  loads[l].at \in {"none", "asked", "over"} /\ loads[l].joined \in Load
  <2>1. loads[l] \in LoadsUpTo(drops)
    BY DEF CacheInv
  <2>. QED
    BY <2>1 DEF LoadsUpTo
<1>3. CacheTypeOK
  BY <1>1, <1>2 DEF CacheInv, CacheTypeOK, StrictlyOrdered
<1>4. Bounded
  <2>. DEFINE S == {k \in Entry : entries[k].there /\ entries[k].data.some /\ ~entries[k].loading}
  <2>1. S \in SUBSET KnownIn(entries)
    BY DEF KnownIn
  <2>2. IsFiniteSet(KnownIn(entries)) /\ Cardinality(KnownIn(entries)) \in Nat
    BY KnownFinite DEF CacheInv
  <2>3. Cardinality(S) <= Cardinality(KnownIn(entries)) /\ IsFiniteSet(S)
    BY <2>1, <2>2, FS_Subset
  <2>4. Cardinality(S) \in Nat
    BY <2>3, FS_CardinalityType
  <2>. HIDE DEF S
  <2>5. Cardinality(S) <= MaxEntries
    BY <2>2, <2>3, <2>4, CacheBounds DEF CacheInv
  <2>. QED
    BY <2>5 DEF S, Bounded
<1>. QED
  BY <1>1, <1>3, <1>4 DEF CachesAreFresh, AskedSinceDropped

LEMMA NoEntrySound ==
  ASSUME NEW n \in Nat
  PROVE  /\ NoData \in DataUpTo(n) /\ NoEntry \in EntriesUpTo(n)
         /\ \A of, at : Sound(NoEntry, of, at)
<1>1. NoData \in DataUpTo(n)
  BY DEF NoData, DataUpTo
<1>2. NoEntry \in EntriesUpTo(n)
  BY <1>1, CacheBounds DEF NoEntry, EntriesUpTo
<1>. QED
  BY <1>1, <1>2 DEF NoEntry, NoData, Sound

LEMMA CacheInitInv == CacheInit => CacheInv
<1>. SUFFICES ASSUME CacheInit PROVE CacheInv
  OBVIOUS
<1>1. /\ drops = 0 /\ dropped = [k \in Resource |-> 0] /\ used = {}
      /\ entries = [k \in Resource |-> NoEntry]
  BY DEF CacheInit
<1>2. NoData \in DataUpTo(0) /\ NoEntry \in EntriesUpTo(0)
      /\ \A of, at : Sound(NoEntry, of, at)
  BY NoEntrySound
<1>3. \A l \in Load : [at |-> "none", of |-> CHOOSE k \in Resource : TRUE, joined |-> l,
                       kept |-> NoData, asked |-> 0] \in LoadsUpTo(0)
  BY <1>2 DEF LoadsUpTo
<1>4. loads \in [Load -> LoadsUpTo(0)] /\ \A l \in Load : loads[l].at = "none"
  BY <1>3 DEF CacheInit
<1>5. ThereIn(entries) = {} /\ KnownIn(entries) = {}
  BY <1>1 DEF ThereIn, KnownIn, NoEntry, Resource
<1>6. IsFiniteSet(ThereIn(entries)) /\ Cardinality(KnownIn(entries)) <= MaxEntries
  BY <1>5, FS_EmptySet, CacheBounds
<1>7. StrictlyOrdered(used)
  BY <1>1 DEF StrictlyOrdered
<1>. QED
  BY <1>1, <1>2, <1>4, <1>6, <1>7, CacheBounds DEF CacheInv

(* The loads that share an answer are over then; what the others will bring stays sound. *)
LEMMA EndKeeps ==
  ASSUME CacheInv, NEW l \in Load, End(l)
  PROVE  /\ loads' \in [Load -> LoadsUpTo(drops)]
         /\ \A m \in Load : m \in Sharing(l) => loads'[m].at = "over"
         /\ \A m \in Load : m \notin Sharing(l) => loads'[m] = loads[m]
         /\ \A m \in Load : loads'[m].at # "none" => loads'[m].of \in Resource
         /\ \A e \in EntriesUpTo(drops), at \in 0..drops :
              Sound(e, loads, at) => Sound(e, loads', at)
<1>1. loads \in [Load -> LoadsUpTo(drops)] /\ drops \in Nat
  BY CacheBounds DEF CacheInv
<1>. DEFINE over(m) == [loads[m] EXCEPT !.at = "over", !.kept = NoData, !.asked = 0]
<1>2. loads' = [m \in Load |-> IF m \in Sharing(l) THEN over(m) ELSE loads[m]]
  BY DEF End
<1>3. ASSUME NEW m \in Load
      PROVE  over(m) \in LoadsUpTo(drops) /\ over(m).at = "over" /\ over(m).of = loads[m].of
  <2>1. PICK x : x = over(m)
    OBVIOUS
  <2>2. loads[m] \in LoadsUpTo(drops)
    BY <1>1
  <2>3. loads[m] = [at |-> loads[m].at, of |-> loads[m].of, joined |-> loads[m].joined,
                    kept |-> loads[m].kept, asked |-> loads[m].asked]
    BY <2>2 DEF LoadsUpTo
  <2>4. x = [at |-> "over", of |-> loads[m].of, joined |-> loads[m].joined, kept |-> NoData, asked |-> 0]
    BY <2>1, <2>3
  <2>5. NoData \in DataUpTo(drops) /\ 0 \in 0..drops
    BY <1>1, NoEntrySound
  <2>6. x \in LoadsUpTo(drops)
    BY <2>2, <2>4, <2>5 DEF LoadsUpTo
  <2>. QED
    BY <2>1, <2>4, <2>6
<1>. HIDE DEF over
<1>4. loads' \in [Load -> LoadsUpTo(drops)]
      /\ (\A m \in Load : m \in Sharing(l) => loads'[m].at = "over")
      /\ (\A m \in Load : m \notin Sharing(l) => loads'[m] = loads[m])
      /\ (\A m \in Load : m \in Sharing(l) => loads'[m].of = loads[m].of)
  BY <1>1, <1>2, <1>3
<1>6. ASSUME NEW m \in Load, loads'[m].at # "none" PROVE loads'[m].of \in Resource
  BY <1>4, <1>6 DEF CacheInv, Sharing, Begun
<1>5. ASSUME NEW e \in EntriesUpTo(drops), NEW at \in 0..drops, Sound(e, loads, at)
      PROVE  Sound(e, loads', at)
  <2>1. e.by \in 0..MaxLoads
    BY DEF EntriesUpTo
  <2>2. e.by # 0 => e.by \in Load
    BY <2>1, CacheBounds DEF Load
  <2>3. CASE e.by = 0
    BY <1>5, <2>3 DEF Sound
  <2>4. CASE e.by # 0 /\ e.by \in Sharing(l)
    BY <1>4, <1>5, <2>2, <2>4 DEF Sound
  <2>5. CASE e.by # 0 /\ e.by \notin Sharing(l)
    BY <1>4, <1>5, <2>2, <2>5 DEF Sound
  <2>. QED
    BY <2>3, <2>4, <2>5
<1>. QED
  BY <1>4, <1>5, <1>6

(* Evicted entries are as if they had never been. *)
LEMMA WithoutKeeps ==
  ASSUME NEW n \in Nat, NEW now \in [Resource -> EntriesUpTo(n)], NEW keys, NEW all,
         all = Without(now, keys)
  PROVE  /\ all \in [Resource -> EntriesUpTo(n)]
         /\ \A k \in Resource : all[k] = IF k \in keys THEN NoEntry ELSE now[k]
         /\ ThereIn(all) = ThereIn(now) \ keys /\ KnownIn(all) = KnownIn(now) \ keys
<1>1. NoEntry \in EntriesUpTo(n) /\ NoEntry.there = FALSE
  BY NoEntrySound DEF NoEntry
<1>2. \A k \in Resource : all[k] = IF k \in keys THEN NoEntry ELSE now[k]
  BY DEF Without
<1>3. all \in [Resource -> EntriesUpTo(n)]
  BY <1>1 DEF Without
<1>4. \A k \in Entry : all[k].there <=> now[k].there /\ k \notin keys
  BY <1>1, <1>2 DEF Resource
<1>5. \A k \in Entry : k \notin keys => all[k] = now[k]
  BY <1>2 DEF Resource
<1>. QED
  BY <1>2, <1>3, <1>4, <1>5 DEF ThereIn, KnownIn

LEMMA PutKeeps ==
  ASSUME NEW n \in Nat, NEW all \in [Resource -> EntriesUpTo(n)], NEW k \in Resource,
         NEW e \in EntriesUpTo(n), NEW now, now = [all EXCEPT ![k] = e]
  PROVE  /\ now \in [Resource -> EntriesUpTo(n)] /\ now[k] = e
         /\ \A j \in Resource : j # k => now[j] = all[j]
         /\ ThereIn(now) \subseteq ThereIn(all) \cup {k}
         /\ KnownIn(now) \subseteq KnownIn(all) \cup {k}
         /\ e.data.some = all[k].data.some /\ (e.data.some => all[k].there) =>
              KnownIn(now) \subseteq KnownIn(all)
<1>1. /\ now \in [Resource -> EntriesUpTo(n)] /\ now[k] = e
      /\ \A j \in Resource : j # k => now[j] = all[j]
  OBVIOUS
<1>2. Entry \subseteq Resource
  BY DEF Resource
<1>. QED
  BY <1>1, <1>2 DEF ThereIn, KnownIn

LEMMA EntryParts ==
  ASSUME NEW n \in Nat, NEW e \in EntriesUpTo(n)
  PROVE  /\ e = [there |-> e.there, data |-> e.data, by |-> e.by, loading |-> e.loading]
         /\ e.there \in BOOLEAN /\ e.data \in DataUpTo(n) /\ e.by \in 0..MaxLoads
         /\ e.loading \in BOOLEAN
         /\ e.data = [asked |-> e.data.asked, fresh |-> e.data.fresh, some |-> e.data.some]
         /\ e.data.asked \in 0..n /\ e.data.fresh \in BOOLEAN /\ e.data.some \in BOOLEAN
BY DEF EntriesUpTo, DataUpTo

DataStays == \A k \in Resource : entries[k].data.some /\ entries'[k].there => entries'[k].data.some

(* A new load of k, whose entry and the evicted ones change. *)
LEMMA StartsLoadInv ==
  ASSUME CacheInv, NEW k \in Resource, NEW l \in Load, StartsLoad(k, l)
  PROVE  CacheInv' /\ DataStays
<1>1. /\ drops \in 0..MaxDrops /\ drops \in Nat
      /\ entries \in [Resource -> EntriesUpTo(drops)] /\ loads \in [Load -> LoadsUpTo(drops)]
      /\ dropped \in [Resource -> 0..drops] /\ StrictlyOrdered(used)
      /\ \A j \in Resource : Sound(entries[j], loads, dropped[j])
      /\ IsFiniteSet(ThereIn(entries)) /\ Cardinality(KnownIn(entries)) <= MaxEntries
  BY CacheBounds DEF CacheInv
<1>2. l \in 1..MaxLoads /\ l # 0 /\ l \in 0..MaxLoads /\ loads[l].at = "none"
  BY CacheBounds DEF StartsLoad, Load, Begun
<1>3. PICK e : e = [entries[k] EXCEPT !.there = TRUE, !.by = l, !.loading = TRUE]
  OBVIOUS
<1>4. entries[k] \in EntriesUpTo(drops)
  BY <1>1
<1>5. e = [there |-> TRUE, data |-> entries[k].data, by |-> l, loading |-> TRUE]
  <2>1. entries[k] = [there |-> entries[k].there, data |-> entries[k].data, by |-> entries[k].by,
                      loading |-> entries[k].loading]
    BY <1>1, <1>4, EntryParts
  <2>. QED
    BY <1>3, <2>1
<1>6. e \in EntriesUpTo(drops)
  BY <1>2, <1>4, <1>5 DEF EntriesUpTo
<1>7. PICK now : now = [entries EXCEPT ![k] = e]
  OBVIOUS
<1>8. entries' = Without(now, Evicted(now, {k})) /\ used' = Touched(k) /\ UNCHANGED <<drops, dropped>>
  BY <1>3, <1>7 DEF StartsLoad
<1>9. /\ now \in [Resource -> EntriesUpTo(drops)] /\ now[k] = e
      /\ \A j \in Resource : j # k => now[j] = entries[j]
      /\ ThereIn(now) \subseteq ThereIn(entries) \cup {k} /\ KnownIn(now) \subseteq KnownIn(entries)
  <2>1. e.data.some = entries[k].data.some /\ (e.data.some => entries[k].there)
    BY <1>1, <1>5 DEF Sound
  <2>. QED
    BY <1>1, <1>6, <1>7, <2>1, PutKeeps
<1>. DEFINE out == Evicted(now, {k})
<1>10. /\ entries' \in [Resource -> EntriesUpTo(drops)]
       /\ \A j \in Resource : entries'[j] = IF j \in out THEN NoEntry ELSE now[j]
       /\ ThereIn(entries') = ThereIn(now) \ out /\ KnownIn(entries') = KnownIn(now) \ out
  BY <1>1, <1>8, <1>9, WithoutKeeps
<1>. HIDE DEF out
<1>11. PICK x : x = [loads[l] EXCEPT !.at = "asked", !.of = k, !.joined = Joined(k, l),
                                     !.kept = entries[k].data, !.asked = drops]
  OBVIOUS
<1>12. loads[l] \in LoadsUpTo(drops)
  BY <1>1
<1>13. x = [at |-> "asked", of |-> k, joined |-> Joined(k, l), kept |-> entries[k].data, asked |-> drops]
  <2>1. loads[l] = [at |-> loads[l].at, of |-> loads[l].of, joined |-> loads[l].joined,
                    kept |-> loads[l].kept, asked |-> loads[l].asked]
    BY <1>12 DEF LoadsUpTo
  <2>. QED
    BY <1>11, <2>1
<1>14. Joined(k, l) \in Load
  <2>. DEFINE equal == {m \in Begun : loads[m].at # "over" /\ loads[m].of = k}
  <2>1. CASE equal = {}
    BY <2>1 DEF Joined
  <2>2. CASE equal # {}
    <3>1. (CHOOSE m \in equal : TRUE) \in Load
      BY <2>2 DEF Begun
    <3>2. loads[CHOOSE m \in equal : TRUE] \in LoadsUpTo(drops)
      BY <1>1, <3>1
    <3>. QED
      BY <2>2, <3>2 DEF Joined, LoadsUpTo
  <2>. QED
    BY <2>1, <2>2
<1>15. x \in LoadsUpTo(drops)
  <2>1. entries[k].data \in DataUpTo(drops) /\ drops \in 0..drops
    BY <1>1, <1>4 DEF EntriesUpTo
  <2>. QED
    BY <1>13, <1>14, <2>1 DEF LoadsUpTo
<1>16. loads' = [loads EXCEPT ![l] = x]
  BY <1>11 DEF StartsLoad
<1>17. loads' \in [Load -> LoadsUpTo(drops)] /\ loads'[l] = x
       /\ \A m \in Load : m # l => loads'[m] = loads[m]
  BY <1>1, <1>15, <1>16
<1>24. \A m \in Load : loads'[m].at # "none" => loads'[m].of \in Resource
  BY <1>13, <1>17 DEF CacheInv
<1>18. ASSUME NEW j \in Resource PROVE Sound(entries'[j], loads', dropped[j])
  <2>1. CASE j \in out
    BY <1>1, <1>10, <2>1, NoEntrySound
  <2>2. CASE j \notin out /\ j = k
    <3>1. entries'[j] = e
      BY <1>9, <1>10, <2>2
    <3>2. Sound(entries[k], loads, dropped[k]) /\ drops >= dropped[k]
      BY <1>1
    <3>3. loads'[l].at = "asked" /\ loads'[l].asked = drops /\ loads'[l].kept = entries[k].data
      BY <1>13, <1>17
    <3>. QED
      BY <1>2, <1>5, <2>2, <3>1, <3>2, <3>3 DEF Sound
  <2>3. CASE j \notin out /\ j # k
    <3>1. entries'[j] = entries[j] /\ Sound(entries[j], loads, dropped[j])
          /\ entries[j] \in EntriesUpTo(drops)
      BY <1>1, <1>9, <1>10, <2>3
    <3>2. entries[j].by # 0 => entries[j].by \in Load
      BY <3>1, CacheBounds DEF EntriesUpTo, Load
    <3>3. entries[j].by # 0 => entries[j].by # l
      BY <1>2, <3>1 DEF Sound
    <3>4. entries[j].by # 0 => loads'[entries[j].by] = loads[entries[j].by]
      BY <1>17, <3>2, <3>3
    <3>. QED
      BY <3>1, <3>4 DEF Sound
  <2>. QED
    BY <2>1, <2>2, <2>3
<1>19. StrictlyOrdered(used')
  BY <1>1, <1>8, TouchedOrders
<1>20. IsFiniteSet(ThereIn(entries'))
  <2>1. IsFiniteSet(ThereIn(entries) \cup {k})
    BY <1>1, FS_AddElement
  <2>2. ThereIn(entries') \in SUBSET (ThereIn(entries) \cup {k})
    BY <1>9, <1>10
  <2>. QED
    BY <2>1, <2>2, FS_Subset
<1>21. Cardinality(KnownIn(entries')) <= MaxEntries
  <2>1. KnownIn(entries') \in SUBSET KnownIn(entries)
    BY <1>9, <1>10
  <2>2. IsFiniteSet(KnownIn(entries)) /\ Cardinality(KnownIn(entries)) \in Nat
    BY <1>1, KnownFinite
  <2>3. Cardinality(KnownIn(entries')) <= Cardinality(KnownIn(entries))
    BY <2>1, <2>2, FS_Subset
  <2>4. Cardinality(KnownIn(entries')) \in Nat
    BY <1>20, KnownFinite
  <2>. QED
    BY <1>1, <2>2, <2>3, <2>4, CacheBounds
<1>22. CacheInv'
  BY <1>1, <1>8, <1>10, <1>17, <1>18, <1>19, <1>20, <1>21, <1>24
  DEF CacheInv, ThereIn, KnownIn
<1>23. DataStays
  <2>1. NoEntry.there = FALSE
    BY DEF NoEntry
  <2>2. e.data = entries[k].data
    BY <1>5
  <2>. QED
    BY <1>9, <1>10, <2>1, <2>2 DEF DataStays
<1>. QED
  BY <1>22, <1>23

(* The answer of main: the entry of the same generation has new data, and is evicted only if all
   others without a load are. *)
LEMMA StoresInv ==
  ASSUME CacheInv, NEW l \in Load, Stores(l)
  PROVE  CacheInv' /\ DataStays
<1>1. /\ drops \in 0..MaxDrops /\ drops \in Nat
      /\ entries \in [Resource -> EntriesUpTo(drops)] /\ loads \in [Load -> LoadsUpTo(drops)]
      /\ dropped \in [Resource -> 0..drops] /\ StrictlyOrdered(used)
      /\ \A j \in Resource : Sound(entries[j], loads, dropped[j])
      /\ IsFiniteSet(ThereIn(entries)) /\ Cardinality(KnownIn(entries)) <= MaxEntries
  BY CacheBounds DEF CacheInv
<1>2. End(l) /\ UNCHANGED <<drops, dropped>>
  BY DEF Stores
<1>3. /\ loads' \in [Load -> LoadsUpTo(drops)]
      /\ \A m \in Load : m \in Sharing(l) => loads'[m].at = "over"
      /\ \A m \in Load : m \notin Sharing(l) => loads'[m] = loads[m]
      /\ \A m \in Load : loads'[m].at # "none" => loads'[m].of \in Resource
      /\ \A e \in EntriesUpTo(drops), at \in 0..drops :
           Sound(e, loads, at) => Sound(e, loads', at)
  BY <1>2, EndKeeps
<1>4. \A j \in Resource : Sound(entries[j], loads', dropped[j])
  BY <1>1, <1>3
<1>0. PICK k : k = loads[l].of
  OBVIOUS
<1>7. k \in Resource
  BY <1>0 DEF CacheInv, Stores, Asks
<1>5. CASE ~SameGeneration(k, l)
  <2>1. UNCHANGED <<entries, used>>
    BY <1>0, <1>5 DEF Stores
  <2>. QED
    BY <1>1, <1>2, <1>3, <1>4, <2>1 DEF CacheInv, ThereIn, KnownIn, DataStays
<1>6. CASE SameGeneration(k, l)
  <2>. DEFINE b == entries[k].by
              data == [asked |-> LoadOf(k, l).asked, fresh |-> TRUE, some |-> TRUE]
  <2>1. /\ entries[k] \in EntriesUpTo(drops) /\ Sound(entries[k], loads, dropped[k])
        /\ entries[k].there /\ b \in Sharing(l) /\ LoadOf(k, l) = loads[b]
    BY <1>1, <1>6, <1>7 DEF SameGeneration, LoadOf
  <2>2. b \in Load /\ b # 0 /\ loads[b] \in LoadsUpTo(drops) /\ loads[b].at = "asked"
    <3>1. b \in Load /\ loads[b].at # "over" /\ loads[b].at # "none"
      BY <2>1 DEF Sharing, Begun
    <3>2. loads[b] \in LoadsUpTo(drops)
      BY <1>1, <3>1
    <3>3. b # 0
      BY <3>1, CacheBounds DEF Load
    <3>. QED
      BY <3>1, <3>2, <3>3 DEF LoadsUpTo
  <2>3. loads[b].asked \in 0..drops /\ loads[b].asked >= dropped[k]
    BY <2>1, <2>2 DEF LoadsUpTo, Sound
  <2>4. data \in DataUpTo(drops) /\ data.fresh /\ data.some /\ data.asked = loads[b].asked
    BY <2>1, <2>3 DEF DataUpTo
  <2>5. PICK e : e = [entries[k] EXCEPT !.loading = FALSE, !.data = data]
    OBVIOUS
  <2>6. e = [there |-> entries[k].there, data |-> data, by |-> b, loading |-> FALSE]
    <3>1. entries[k] = [there |-> entries[k].there, data |-> entries[k].data, by |-> entries[k].by,
                        loading |-> entries[k].loading]
      BY <1>1, <2>1, EntryParts
    <3>. HIDE DEF data
    <3>. QED
      BY <2>5, <3>1
  <2>7. PICK now : now = [entries EXCEPT ![k] = e]
    OBVIOUS
  <2>8. used' = Touched(k) /\ entries' = Without(now, Evicted(now, {}))
    BY <1>0, <1>6, <2>5, <2>7 DEF Stores
  <2>. HIDE DEF data
  <2>9. e \in EntriesUpTo(drops)
    BY <2>1, <2>4, <2>6 DEF EntriesUpTo
  <2>10. Sound(e, loads', dropped[k])
    BY <1>3, <2>1, <2>2, <2>3, <2>4, <2>6 DEF Sound
  <2>11. /\ now \in [Resource -> EntriesUpTo(drops)] /\ now[k] = e
         /\ \A j \in Resource : j # k => now[j] = entries[j]
         /\ ThereIn(now) \subseteq ThereIn(entries) \cup {k}
         /\ KnownIn(now) \subseteq KnownIn(entries) \cup {k}
    BY <1>1, <1>7, <2>7, <2>9, PutKeeps
  <2>. DEFINE out == Evicted(now, {})
  <2>12. /\ entries' \in [Resource -> EntriesUpTo(drops)]
         /\ \A j \in Resource : entries'[j] = IF j \in out THEN NoEntry ELSE now[j]
         /\ ThereIn(entries') = ThereIn(now) \ out /\ KnownIn(entries') = KnownIn(now) \ out
    BY <1>1, <2>8, <2>11, WithoutKeeps
  <2>13. StrictlyOrdered(used')
    BY <1>1, <1>7, <2>8, TouchedOrders
  <2>14. IsFiniteSet(ThereIn(now))
    <3>1. IsFiniteSet(ThereIn(entries) \cup {k})
      BY <1>1, FS_AddElement
    <3>. QED
      BY <2>11, <3>1, FS_Subset
  <2>. DEFINE idle == {j \in ThereIn(now) : ~now[j].loading /\ j \notin {}}
              surplus == IF Cardinality(ThereIn(now)) > MaxEntries
                         THEN Cardinality(ThereIn(now)) - MaxEntries ELSE 0
  <2>15. out = OldestIn(used', idle, surplus)
    BY DEF Evicted, ThereIn, OldestIn
  <2>16. ThereIn(now) \in SUBSET Entry /\ idle \in SUBSET ThereIn(now)
    BY DEF ThereIn
  <2>. HIDE DEF out
  <2>17. out = idle \/ Cardinality(ThereIn(now) \ out) <= MaxEntries
    <3>. HIDE DEF idle, surplus
    <3>1. surplus = IF Cardinality(ThereIn(now)) > MaxEntries
                    THEN Cardinality(ThereIn(now)) - MaxEntries ELSE 0
      BY DEF surplus
    <3>. QED
      BY <2>13, <2>14, <2>15, <2>16, <3>1, EvictionBounds
  <2>18. IsFiniteSet(ThereIn(entries'))
    <3>1. ThereIn(entries') \in SUBSET ThereIn(now)
      BY <2>12
    <3>. QED
      BY <2>14, <3>1, FS_Subset
  <2>19. Cardinality(KnownIn(entries')) \in Nat
    BY <2>18, KnownFinite
  <2>20. Cardinality(KnownIn(entries')) <= MaxEntries
    <3>1. CASE Cardinality(ThereIn(now) \ out) <= MaxEntries
      <4>1. KnownIn(entries') \in SUBSET ThereIn(entries')
        BY DEF KnownIn, ThereIn
      <4>2. Cardinality(KnownIn(entries')) <= Cardinality(ThereIn(entries'))
        BY <2>18, <4>1, FS_Subset
      <4>3. Cardinality(ThereIn(entries')) \in Nat
        BY <2>18, FS_CardinalityType
      <4>4. Cardinality(ThereIn(entries')) <= MaxEntries
        BY <2>12, <3>1
      <4>. QED
        BY <2>19, <4>2, <4>3, <4>4, CacheBounds
    <3>2. CASE out = idle
      <4>1. k \in KnownIn(now) => k \in out
        BY <2>6, <2>11, <3>2 DEF KnownIn, ThereIn
      <4>2. KnownIn(entries') \in SUBSET KnownIn(entries)
        BY <2>11, <2>12, <4>1
      <4>3. IsFiniteSet(KnownIn(entries)) /\ Cardinality(KnownIn(entries)) \in Nat
        BY <1>1, KnownFinite
      <4>4. Cardinality(KnownIn(entries')) <= Cardinality(KnownIn(entries))
        BY <4>2, <4>3, FS_Subset
      <4>. QED
        BY <1>1, <2>19, <4>3, <4>4, CacheBounds
    <3>. QED
      BY <2>17, <3>1, <3>2
  <2>21. \A j \in Resource : Sound(entries'[j], loads', dropped[j])
    <3>. TAKE j \in Resource
    <3>1. CASE j \in out
      BY <1>1, <2>12, <3>1, NoEntrySound
    <3>2. CASE j \notin out /\ j = k
      BY <2>10, <2>11, <2>12, <3>2
    <3>3. CASE j \notin out /\ j # k
      BY <1>4, <2>11, <2>12, <3>3
    <3>. QED
      BY <3>1, <3>2, <3>3
  <2>22. CacheInv'
    BY <1>1, <1>2, <1>3, <2>12, <2>13, <2>18, <2>20, <2>21 DEF CacheInv, ThereIn, KnownIn
  <2>23. DataStays
    <3>1. NoEntry.there = FALSE /\ e.data = data
      BY <2>6 DEF NoEntry
    <3>. QED
      BY <2>4, <2>11, <2>12, <3>1 DEF DataStays
  <2>. QED
    BY <2>22, <2>23
<1>. QED
  BY <1>5, <1>6

(* A request fails: what there was stays, though it is not fresh. *)
LEMMA FailsInv ==
  ASSUME CacheInv, NEW l \in Load, Fails(l)
  PROVE  CacheInv' /\ DataStays
<1>1. /\ drops \in 0..MaxDrops /\ drops \in Nat
      /\ entries \in [Resource -> EntriesUpTo(drops)] /\ loads \in [Load -> LoadsUpTo(drops)]
      /\ dropped \in [Resource -> 0..drops] /\ StrictlyOrdered(used)
      /\ \A j \in Resource : Sound(entries[j], loads, dropped[j])
      /\ IsFiniteSet(ThereIn(entries)) /\ Cardinality(KnownIn(entries)) <= MaxEntries
  BY CacheBounds DEF CacheInv
<1>2. End(l) /\ UNCHANGED <<drops, dropped>>
  BY DEF Fails
<1>3. /\ loads' \in [Load -> LoadsUpTo(drops)]
      /\ \A m \in Load : m \in Sharing(l) => loads'[m].at = "over"
      /\ \A m \in Load : m \notin Sharing(l) => loads'[m] = loads[m]
      /\ \A m \in Load : loads'[m].at # "none" => loads'[m].of \in Resource
      /\ \A e \in EntriesUpTo(drops), at \in 0..drops :
           Sound(e, loads, at) => Sound(e, loads', at)
  BY <1>2, EndKeeps
<1>4. \A j \in Resource : Sound(entries[j], loads', dropped[j])
  BY <1>1, <1>3
<1>0. PICK k : k = loads[l].of
  OBVIOUS
<1>7. k \in Resource
  BY <1>0 DEF CacheInv, Fails, Asks
<1>5. CASE ~SameGeneration(k, l)
  <2>1. UNCHANGED <<entries, used>>
    BY <1>0, <1>5 DEF Fails
  <2>. QED
    BY <1>1, <1>2, <1>3, <1>4, <2>1 DEF CacheInv, ThereIn, KnownIn, DataStays
<1>6. CASE SameGeneration(k, l)
  <2>. DEFINE b == entries[k].by
              data == IF k \in Single THEN loads[b].kept ELSE entries[k].data
  <2>1. /\ entries[k] \in EntriesUpTo(drops) /\ Sound(entries[k], loads, dropped[k])
        /\ entries[k].there /\ b \in Sharing(l) /\ LoadOf(k, l) = loads[b]
    BY <1>1, <1>6, <1>7 DEF SameGeneration, LoadOf
  <2>2. b \in Load /\ b # 0 /\ loads[b] \in LoadsUpTo(drops) /\ loads[b].at = "asked"
    <3>1. b \in Load /\ loads[b].at # "over" /\ loads[b].at # "none"
      BY <2>1 DEF Sharing, Begun
    <3>2. loads[b] \in LoadsUpTo(drops)
      BY <1>1, <3>1
    <3>3. b # 0
      BY <3>1, CacheBounds DEF Load
    <3>. QED
      BY <3>1, <3>2, <3>3 DEF LoadsUpTo
  <2>3. data \in DataUpTo(drops) /\ data.some = entries[k].data.some
    <3>1. loads[b].kept \in DataUpTo(drops) /\ loads[b].kept.some = entries[k].data.some
      BY <2>1, <2>2 DEF LoadsUpTo, Sound
    <3>2. entries[k].data \in DataUpTo(drops)
      BY <2>1 DEF EntriesUpTo
    <3>. QED
      BY <3>1, <3>2
  <2>4. Kept(k, l) = [data EXCEPT !.fresh = FALSE]
    BY <2>1 DEF Kept
  <2>. HIDE DEF data
  <2>5. PICK kept : kept = [data EXCEPT !.fresh = FALSE]
    OBVIOUS
  <2>6. kept = [asked |-> data.asked, fresh |-> FALSE, some |-> data.some]
    <3>1. data = [asked |-> data.asked, fresh |-> data.fresh, some |-> data.some]
      BY <2>3 DEF DataUpTo
    <3>. QED
      BY <2>5, <3>1
  <2>7. kept \in DataUpTo(drops) /\ kept.fresh = FALSE /\ kept.some = entries[k].data.some
    BY <2>3, <2>6 DEF DataUpTo
  <2>8. PICK e : e = [entries[k] EXCEPT !.data = kept, !.loading = FALSE]
    OBVIOUS
  <2>9. e = [there |-> entries[k].there, data |-> kept, by |-> b, loading |-> FALSE]
    <3>1. entries[k] = [there |-> entries[k].there, data |-> entries[k].data, by |-> entries[k].by,
                        loading |-> entries[k].loading]
      BY <1>1, <2>1, EntryParts
    <3>. QED
      BY <2>8, <3>1
  <2>10. used' = Touched(k) /\ entries' = [entries EXCEPT ![k] = e]
    BY <1>0, <1>6, <2>4, <2>5, <2>8 DEF Fails
  <2>11. e \in EntriesUpTo(drops)
    BY <2>1, <2>7, <2>9 DEF EntriesUpTo
  <2>12. Sound(e, loads', dropped[k])
    BY <1>3, <2>1, <2>2, <2>7, <2>9 DEF Sound
  <2>13. /\ entries' \in [Resource -> EntriesUpTo(drops)] /\ entries'[k] = e
         /\ \A j \in Resource : j # k => entries'[j] = entries[j]
    BY <1>1, <1>7, <2>10, <2>11
  <2>14. \A j \in Resource : /\ entries'[j].there = entries[j].there
                             /\ entries'[j].data.some = entries[j].data.some
    BY <2>7, <2>9, <2>13
  <2>15. ThereIn(entries') = ThereIn(entries) /\ KnownIn(entries') = KnownIn(entries)
    BY <2>14 DEF ThereIn, KnownIn, Resource
  <2>16. \A j \in Resource : Sound(entries'[j], loads', dropped[j])
    BY <1>4, <2>12, <2>13
  <2>17. StrictlyOrdered(used')
    BY <1>1, <1>7, <2>10, TouchedOrders
  <2>18. CacheInv'
    BY <1>1, <1>2, <1>3, <2>13, <2>15, <2>16, <2>17 DEF CacheInv, ThereIn, KnownIn
  <2>. QED
    BY <2>14, <2>18 DEF DataStays
<1>. QED
  BY <1>5, <1>6

(* Later drops leave what is known of earlier ones. *)
LEMMA UpToLater ==
  ASSUME NEW n \in Nat
  PROVE  /\ 0..n \subseteq 0..(n + 1) /\ EntriesUpTo(n) \subseteq EntriesUpTo(n + 1)
         /\ LoadsUpTo(n) \subseteq LoadsUpTo(n + 1)
<1>1. 0..n \subseteq 0..(n + 1)
  OBVIOUS
<1>2. DataUpTo(n) \subseteq DataUpTo(n + 1)
  BY <1>1 DEF DataUpTo
<1>3. EntriesUpTo(n) \subseteq EntriesUpTo(n + 1)
  BY <1>2 DEF EntriesUpTo
<1>4. LoadsUpTo(n) \subseteq LoadsUpTo(n + 1)
  BY <1>1, <1>2 DEF LoadsUpTo
<1>. QED
  BY <1>1, <1>3, <1>4

LEMMA InvalidatesInv ==
  ASSUME CacheInv, NEW keys \in SUBSET Resource, Invalidates(keys)
  PROVE  CacheInv' /\ DataStays
<1>1. /\ drops \in 0..MaxDrops /\ drops \in Nat /\ MaxDrops \in Nat
      /\ entries \in [Resource -> EntriesUpTo(drops)] /\ loads \in [Load -> LoadsUpTo(drops)]
      /\ dropped \in [Resource -> 0..drops] /\ StrictlyOrdered(used)
      /\ \A j \in Resource : Sound(entries[j], loads, dropped[j])
      /\ \A l \in Load : loads[l].at # "none" => loads[l].of \in Resource
      /\ IsFiniteSet(ThereIn(entries)) /\ Cardinality(KnownIn(entries)) <= MaxEntries
  BY CacheBounds DEF CacheInv
<1>2. drops < MaxDrops /\ drops' = drops + 1 /\ loads' = loads
  BY DEF Invalidates
<1>3. drops' \in 0..MaxDrops /\ drops' \in Nat /\ 0..drops \subseteq 0..drops'
      /\ EntriesUpTo(drops) \subseteq EntriesUpTo(drops') /\ LoadsUpTo(drops) \subseteq LoadsUpTo(drops')
  BY <1>1, <1>2, UpToLater
<1>. DEFINE put(k) == [entries[k] EXCEPT !.data.fresh = FALSE, !.by = 0, !.loading = FALSE]
<1>4. entries' = [k \in Resource |-> IF k \in keys /\ entries[k].there THEN put(k) ELSE entries[k]]
      /\ dropped' = [k \in Resource |-> IF k \in keys THEN drops' ELSE dropped[k]]
  BY DEF Invalidates
<1>5. ASSUME NEW k \in Resource
      PROVE  /\ put(k) \in EntriesUpTo(drops) /\ put(k).there = entries[k].there
             /\ put(k).data.some = entries[k].data.some
             /\ entries[k].there => \A at : Sound(put(k), loads, at)
  <2>1. PICK x : x = put(k)
    OBVIOUS
  <2>2. entries[k] \in EntriesUpTo(drops)
    BY <1>1
  <2>3. PICK d : d = [entries[k].data EXCEPT !.fresh = FALSE]
    OBVIOUS
  <2>4. /\ entries[k] = [there |-> entries[k].there, data |-> entries[k].data, by |-> entries[k].by,
                         loading |-> entries[k].loading]
        /\ entries[k].data = [asked |-> entries[k].data.asked, fresh |-> entries[k].data.fresh,
                              some |-> entries[k].data.some]
        /\ entries[k].data.asked \in 0..drops /\ entries[k].data.some \in BOOLEAN
        /\ entries[k].there \in BOOLEAN
    BY <1>1, <2>2, EntryParts
  <2>5. d = [asked |-> entries[k].data.asked, fresh |-> FALSE, some |-> entries[k].data.some]
    BY <2>3, <2>4
  <2>6. x = [there |-> entries[k].there, data |-> d, by |-> 0, loading |-> FALSE]
    BY <2>1, <2>3, <2>4
  <2>7. d \in DataUpTo(drops)
    BY <2>4, <2>5 DEF DataUpTo
  <2>8. x \in EntriesUpTo(drops)
    BY <2>4, <2>6, <2>7, CacheBounds DEF EntriesUpTo
  <2>9. entries[k].there => \A at : Sound(x, loads, at)
    BY <2>5, <2>6 DEF Sound
  <2>10. x.there = entries[k].there /\ x.data.some = entries[k].data.some
    BY <2>5, <2>6
  <2>. HIDE DEF put
  <2>. QED
    BY <2>1, <2>8, <2>9, <2>10
<1>. HIDE DEF put
<1>6. entries' \in [Resource -> EntriesUpTo(drops)]
  BY <1>1, <1>4, <1>5
<1>7. \A k \in Resource : /\ entries'[k].there = entries[k].there
                          /\ entries'[k].data.some = entries[k].data.some
  BY <1>4, <1>5
<1>8. ThereIn(entries') = ThereIn(entries) /\ KnownIn(entries') = KnownIn(entries)
  BY <1>7 DEF ThereIn, KnownIn, Resource
<1>9. ASSUME NEW k \in Resource PROVE Sound(entries'[k], loads, dropped'[k])
  <2>1. CASE k \in keys /\ entries[k].there
    BY <1>4, <1>5, <2>1
  <2>2. CASE k \notin keys
    BY <1>1, <1>4, <2>2
  <2>3. CASE ~entries[k].there
    <3>1. entries'[k] = entries[k]
      BY <1>4, <2>3
    <3>2. Sound(entries[k], loads, dropped[k]) /\ entries[k] \in EntriesUpTo(drops)
      BY <1>1
    <3>. QED
      BY <2>3, <3>1, <3>2 DEF Sound
  <2>. QED
    BY <2>1, <2>2, <2>3
<1>10. StrictlyOrdered(used')
  BY <1>1, TouchedOrders DEF Invalidates
<1>11. dropped' \in [Resource -> 0..drops']
  <2>1. drops' \in 0..drops'
    BY <1>3
  <2>2. \A k \in Resource : dropped[k] \in 0..drops'
    BY <1>1, <1>3
  <2>. QED
    BY <1>4, <2>1, <2>2
<1>12. entries' \in [Resource -> EntriesUpTo(drops')] /\ loads' \in [Load -> LoadsUpTo(drops')]
  BY <1>1, <1>2, <1>3, <1>6
<1>13. CacheInv'
  BY <1>1, <1>2, <1>3, <1>8, <1>9, <1>10, <1>11, <1>12 DEF CacheInv, ThereIn, KnownIn
<1>. QED
  BY <1>7, <1>13 DEF DataStays

LEMMA ClearsAllInv ==
  ASSUME CacheInv, ClearsAll
  PROVE  CacheInv' /\ DataStays
<1>1. /\ drops \in 0..MaxDrops /\ drops \in Nat /\ MaxDrops \in Nat
      /\ loads \in [Load -> LoadsUpTo(drops)] /\ StrictlyOrdered(used)
      /\ \A l \in Load : loads[l].at # "none" => loads[l].of \in Resource
  BY CacheBounds DEF CacheInv
<1>2. /\ drops < MaxDrops /\ drops' = drops + 1 /\ loads' = loads /\ used' = used
      /\ entries' = [k \in Resource |-> NoEntry] /\ dropped' = [k \in Resource |-> drops']
  BY DEF ClearsAll
<1>3. drops' \in 0..MaxDrops /\ drops' \in Nat /\ LoadsUpTo(drops) \subseteq LoadsUpTo(drops')
  BY <1>1, <1>2, UpToLater
<1>4. NoEntry \in EntriesUpTo(drops') /\ \A of, at : Sound(NoEntry, of, at)
  BY <1>3, NoEntrySound
<1>5. \A k \in Resource : entries'[k] = NoEntry /\ NoEntry.there = FALSE
  BY <1>2 DEF NoEntry
<1>6. ThereIn(entries') = {} /\ KnownIn(entries') = {}
  BY <1>5 DEF ThereIn, KnownIn, Resource
<1>7. IsFiniteSet(ThereIn(entries')) /\ Cardinality(KnownIn(entries')) <= MaxEntries
  BY <1>6, FS_EmptySet, CacheBounds
<1>8. entries' \in [Resource -> EntriesUpTo(drops')] /\ loads' \in [Load -> LoadsUpTo(drops')]
      /\ dropped' \in [Resource -> 0..drops']
  BY <1>1, <1>2, <1>3, <1>4
<1>9. \A k \in Resource : Sound(entries'[k], loads', dropped'[k])
  BY <1>4, <1>5
<1>10. CacheInv'
  BY <1>1, <1>2, <1>3, <1>7, <1>8, <1>9 DEF CacheInv, ThereIn, KnownIn
<1>. QED
  BY <1>5, <1>10 DEF DataStays

LEMMA GoesStaleInv ==
  ASSUME CacheInv, NEW k \in Resource, GoesStale(k)
  PROVE  CacheInv' /\ DataStays
<1>1. /\ drops \in 0..MaxDrops /\ drops \in Nat
      /\ entries \in [Resource -> EntriesUpTo(drops)]
      /\ \A j \in Resource : Sound(entries[j], loads, dropped[j])
  BY CacheBounds DEF CacheInv
<1>2. PICK d : d = [entries[k].data EXCEPT !.fresh = FALSE]
  OBVIOUS
<1>3. PICK e : e = [entries[k] EXCEPT !.data = d]
  OBVIOUS
<1>4. entries[k] \in EntriesUpTo(drops)
  BY <1>1
<1>5. /\ entries[k] = [there |-> entries[k].there, data |-> entries[k].data, by |-> entries[k].by,
                       loading |-> entries[k].loading]
      /\ entries[k].data = [asked |-> entries[k].data.asked, fresh |-> entries[k].data.fresh,
                            some |-> entries[k].data.some]
      /\ entries[k].data.asked \in 0..drops /\ entries[k].data.some \in BOOLEAN
  BY <1>1, <1>4, EntryParts
<1>6. d = [asked |-> entries[k].data.asked, fresh |-> FALSE, some |-> entries[k].data.some]
  BY <1>2, <1>5
<1>7. e = [there |-> entries[k].there, data |-> d, by |-> entries[k].by,
           loading |-> entries[k].loading]
  BY <1>3, <1>5
<1>8. d \in DataUpTo(drops)
  BY <1>5, <1>6 DEF DataUpTo
<1>9. e \in EntriesUpTo(drops)
  BY <1>4, <1>7, <1>8 DEF EntriesUpTo
<1>10. UNCHANGED <<used, loads, drops, dropped>> /\ entries' = [entries EXCEPT ![k] = e]
  BY <1>1, <1>2, <1>3 DEF GoesStale
<1>11. /\ entries' \in [Resource -> EntriesUpTo(drops)] /\ entries'[k] = e
       /\ \A j \in Resource : j # k => entries'[j] = entries[j]
  BY <1>1, <1>9, <1>10
<1>12. \A j \in Resource : /\ entries'[j].there = entries[j].there
                           /\ entries'[j].data.some = entries[j].data.some
  BY <1>6, <1>7, <1>11
<1>13. ThereIn(entries') = ThereIn(entries) /\ KnownIn(entries') = KnownIn(entries)
  BY <1>12 DEF ThereIn, KnownIn, Resource
<1>14. Sound(e, loads, dropped[k])
  <2>1. Sound(entries[k], loads, dropped[k])
    BY <1>1
  <2>. QED
    BY <1>6, <1>7, <2>1 DEF Sound
<1>15. \A j \in Resource : Sound(entries'[j], loads, dropped[j])
  BY <1>1, <1>11, <1>14
<1>16. CacheInv'
  BY <1>10, <1>11, <1>13, <1>15 DEF CacheInv, ThereIn, KnownIn
<1>. QED
  BY <1>12, <1>16 DEF DataStays

LEMMA CacheStep == CacheInv /\ [CacheNext]_cacheVars => CacheInv' /\ DataStays
<1>. SUFFICES ASSUME CacheInv, [CacheNext]_cacheVars PROVE CacheInv' /\ DataStays
  OBVIOUS
<1>1. ASSUME UNCHANGED <<entries, loads, drops, dropped>>, StrictlyOrdered(used')
      PROVE  CacheInv' /\ DataStays
  BY <1>1 DEF CacheInv, ThereIn, KnownIn, DataStays
<1>2. StrictlyOrdered(used)
  BY DEF CacheInv
<1>3. ASSUME NEW k \in Resource, Reads(k) \/ LoadsAgain(k) PROVE CacheInv' /\ DataStays
  BY <1>1, <1>2, <1>3, TouchedOrders DEF Reads, LoadsAgain
<1>4. ASSUME NEW keys \in {Resource} \cup {{k} : k \in Resource}, Invalidates(keys)
      PROVE  CacheInv' /\ DataStays
  <2>1. keys \in SUBSET Resource
    OBVIOUS
  <2>. QED
    BY <1>4, <2>1, InvalidatesInv
<1>5. CASE UNCHANGED cacheVars
  BY <1>1, <1>2, <1>5 DEF cacheVars
<1>. QED
  BY <1>3, <1>4, <1>5, GoesStaleInv, StartsLoadInv, StoresInv, FailsInv, ClearsAllInv DEF CacheNext

(* For any resources: what counts as fresh was asked for after the last invalidation, a snapshot
   cache keeps no more than it may, and no failure empties what had been read. *)
THEOREM CachesAlwaysFresh == CacheSpec => [](CacheTypeOK /\ CachesAreFresh) /\ DataKept
<1>1. CacheInv => CacheTypeOK /\ CachesAreFresh
  BY CacheInvProperties
<1>2. CacheInv /\ [CacheNext]_cacheVars =>
        CacheInv' /\ [\A k \in Resource :
                        entries[k].data.some /\ entries'[k].there => entries'[k].data.some]_cacheVars
  BY CacheStep DEF DataStays
<1>. QED
  BY <1>1, <1>2, CacheInitInv, PTL DEF CacheSpec, DataKept

-----------------------------------------------------------------------------
(* TopicWrites.                                                            *)

(* What is open is locked to cluster c, topic t and write mode w of the page. *)
InLock(k, d, c, t, w) ==
  d.open => /\ d.cluster = c
            /\ k = "batch" => t = Nothing /\ w
            /\ k # "batch" => d.topics = OpenTopics(t)
            /\ k = "produce" => w

WritesInv ==
  /\ WritesTypeOK
  /\ FrozenWhileOpen
  /\ \A k \in WriteKinds : InLock(k, dialog[k], selected, opened, CanWrite)
  /\ left = {}

(* No request is sent by a step. *)
NoneSent == sending' \subseteq sending

LEMMA ClosedDialog ==
  Closed \in Dialogs /\ Closed.open = FALSE /\ Closed.topics = {}
BY DEF Closed, Dialogs

LEMMA WritesInitInv == WritesInit => WritesInv
<1>. SUFFICES ASSUME WritesInit PROVE WritesInv
  OBVIOUS
<1>1. "batch" \in WriteKinds /\ "produce" \in WriteKinds /\ "delete" \in WriteKinds
  BY DEF WriteKinds
<1>2. \A k \in WriteKinds : dialog[k] = Closed
  BY DEF WritesInit
<1>3. WritesTypeOK
  BY ClosedDialog DEF WritesInit, WritesTypeOK
<1>4. FrozenWhileOpen
  BY <1>1, <1>2, ClosedDialog DEF WritesInit, FrozenWhileOpen
<1>5. \A k \in WriteKinds : InLock(k, dialog[k], selected, opened, CanWrite)
  BY <1>2, ClosedDialog DEF InLock
<1>. QED
  BY <1>1, <1>2, <1>3, <1>4, <1>5, ClosedDialog DEF WritesInit, WritesInv

(* A step that leads the page to cluster c, topic t and write mode w, and closes at most a dialog of
   its own. *)
LEMMA PageSettlesInv ==
  ASSUME WritesInv, NEW c \in Cluster \cup {Nothing}, NEW t \in Name \cup {Nothing},
         NEW w \in BOOLEAN, NEW now \in [WriteKinds -> Dialogs],
         \A k \in WriteKinds : now[k] \in {dialog[k], Closed},
         PageSettles(c, t, w, now, ticked),
         selected' = c, opened' = t, w <=> selected' \in writable',
         workspace' \in Cluster \cup {Nothing}, listed' \subseteq Name, writable' \subseteq Cluster,
         sending' \subseteq sending
  PROVE  WritesInv' /\ NoneSent
<1>1. /\ selected \in Cluster \cup {Nothing} /\ opened \in Name \cup {Nothing}
      /\ ticked \subseteq Name /\ dialog \in [WriteKinds -> Dialogs] /\ sending \subseteq Requests
      /\ left = {}
  BY DEF WritesInv, WritesTypeOK
<1>2. "batch" \in WriteKinds /\ "produce" \in WriteKinds /\ "delete" \in WriteKinds
  BY DEF WriteKinds
<1>. DEFINE closed(k) == now[k].open /\ Off(k, c, t, w)
<1>3. /\ dialog' = [k \in WriteKinds |-> IF closed(k) THEN Closed ELSE now[k]]
      /\ left' = {k \in WriteKinds : dialog'[k].open /\ (k \in left \/ ContextLeft(k, c, t, w))}
      /\ ticked' \in {ticked, {}}
  BY DEF PageSettles
<1>4. dialog' \in [WriteKinds -> Dialogs]
  BY <1>3, ClosedDialog
<1>5. \A k \in WriteKinds : /\ dialog'[k] \in {dialog[k], Closed}
                            /\ dialog'[k].open => /\ dialog'[k] = dialog[k] /\ dialog[k].open
                                                  /\ ~Off(k, c, t, w)
  <2>. TAKE k \in WriteKinds
  <2>1. now[k] \in {dialog[k], Closed}
    OBVIOUS
  <2>2. dialog'[k] = IF closed(k) THEN Closed ELSE now[k]
    BY <1>3
  <2>. QED
    BY <2>1, <2>2, ClosedDialog
<1>6. \A k \in WriteKinds : InLock(k, dialog'[k], c, t, w)
  BY <1>5 DEF InLock, Off
<1>7. \A k \in WriteKinds : dialog'[k].open => ~ContextLeft(k, c, t, w)
  <2>. SUFFICES ASSUME NEW k \in WriteKinds, dialog'[k].open, ContextLeft(k, c, t, w) PROVE FALSE
    OBVIOUS
  <2>1. InLock(k, dialog[k], selected, opened, CanWrite) /\ dialog[k].open /\ ~Off(k, c, t, w)
    BY <1>5 DEF WritesInv
  <2>2. OpenTopics(opened) = OpenTopics(t) => opened = t
    BY DEF OpenTopics
  <2>. QED
    BY <2>1, <2>2 DEF InLock, Off, ContextLeft
<1>8. left' = {}
  BY <1>1, <1>3, <1>7
<1>10. WritesTypeOK'
  BY <1>1, <1>3, <1>4, <1>8 DEF WritesTypeOK
<1>11. FrozenWhileOpen'
  <2>1. dialog'["batch"].open => ticked' \subseteq dialog'["batch"].topics
    BY <1>2, <1>3, <1>5 DEF WritesInv, FrozenWhileOpen
  <2>3. ~(dialog'["produce"].open /\ dialog'["delete"].open)
    BY <1>2, <1>5 DEF WritesInv, FrozenWhileOpen
  <2>. QED
    BY <2>1, <2>3 DEF FrozenWhileOpen
<1>12. \A k \in WriteKinds : InLock(k, dialog'[k], selected', opened', CanWrite')
  <2>1. CanWrite' <=> w
    BY DEF CanWrite
  <2>. QED
    BY <1>6, <2>1 DEF InLock
<1>. QED
  BY <1>8, <1>10, <1>11, <1>12 DEF WritesInv, NoneSent

(* A step within the page: its dialogs stay locked. *)
LEMMA WithinPageInv ==
  ASSUME WritesInv, UNCHANGED <<selected, workspace, opened, writable>>,
         listed' \subseteq Name, ticked' \subseteq Name,
         dialog' \in [WriteKinds -> Dialogs], left' = {}, sending' \subseteq Requests,
         \A k \in WriteKinds : InLock(k, dialog'[k], selected, opened, CanWrite),
         dialog'["batch"].open => ticked' \subseteq dialog'["batch"].topics,
         ~(dialog'["produce"].open /\ dialog'["delete"].open)
  PROVE  WritesInv'
<1>1. WritesTypeOK'
  BY DEF WritesInv, WritesTypeOK
<1>2. FrozenWhileOpen'
  BY DEF FrozenWhileOpen
<1>3. \A k \in WriteKinds : InLock(k, dialog'[k], selected', opened', CanWrite')
  <2>1. CanWrite' = CanWrite
    BY DEF CanWrite
  <2>. QED
    BY <2>1
<1>. QED
  BY <1>1, <1>2, <1>3 DEF WritesInv

(* The switch or the typed name of a dialog changes, or it closes. *)
LEMMA DialogPut ==
  ASSUME WritesInv, NEW k \in WriteKinds, NEW d \in Dialogs, dialog' = [dialog EXCEPT ![k] = d],
         d = Closed \/ (d.open = dialog[k].open /\ d.cluster = dialog[k].cluster
                        /\ d.topics = dialog[k].topics)
  PROVE  /\ dialog' \in [WriteKinds -> Dialogs]
         /\ \A j \in WriteKinds : InLock(j, dialog'[j], selected, opened, CanWrite)
         /\ dialog'["batch"].open => dialog["batch"].open /\ dialog'["batch"].topics = dialog["batch"].topics
         /\ ~(dialog'["produce"].open /\ dialog'["delete"].open)
<1>1. dialog \in [WriteKinds -> Dialogs]
  BY DEF WritesInv, WritesTypeOK
<1>2. "batch" \in WriteKinds /\ "produce" \in WriteKinds /\ "delete" \in WriteKinds
  BY DEF WriteKinds
<1>3. dialog' \in [WriteKinds -> Dialogs] /\ dialog'[k] = d
      /\ \A j \in WriteKinds : j # k => dialog'[j] = dialog[j]
  BY <1>1
<1>4. \A j \in WriteKinds :
        /\ dialog'[j].open => /\ dialog[j].open /\ dialog'[j].cluster = dialog[j].cluster
                              /\ dialog'[j].topics = dialog[j].topics
        /\ dialog'[j].topics \in {dialog[j].topics, {}}
  BY <1>3, ClosedDialog
<1>5. \A j \in WriteKinds : InLock(j, dialog'[j], selected, opened, CanWrite)
  BY <1>4 DEF WritesInv, InLock
<1>. QED
  BY <1>2, <1>3, <1>4, <1>5 DEF WritesInv, FrozenWhileOpen

(* What moves the page. *)
LEMMA PageMoves ==
  ASSUME WritesInv,
         \/ \E c \in Cluster \cup {Nothing}, t \in Name \cup {Nothing} : SelectsCluster(c, t)
         \/ \E c \in Cluster : SwitchesWriteMode(c)
         \/ \E t \in Name : OpensTopic(t)
         \/ LeavesTopic
         \/ \E r \in sending : DeleteAnswers(r)
  PROVE  WritesInv' /\ NoneSent
<1>1. /\ selected \in Cluster \cup {Nothing} /\ workspace \in Cluster \cup {Nothing}
      /\ opened \in Name \cup {Nothing} /\ listed \subseteq Name /\ writable \subseteq Cluster
      /\ dialog \in [WriteKinds -> Dialogs]
      /\ \A k \in WriteKinds : dialog[k] \in {dialog[k], Closed}
  BY DEF WritesInv, WritesTypeOK
<1>2. CanWrite \in BOOLEAN /\ (CanWrite <=> selected \in writable)
  BY DEF CanWrite
<1>3. ASSUME NEW c \in Cluster \cup {Nothing}, NEW t \in Name \cup {Nothing}, SelectsCluster(c, t)
      PROVE  WritesInv' /\ NoneSent
  <2>1. PICK w \in BOOLEAN : w <=> (c \in writable)
    <3>1. CASE c \in writable
      BY <3>1
    <3>2. CASE c \notin writable
      BY <3>2
    <3>. QED
      BY <3>1, <3>2
  <2>2. PageSettles(c, t, w, dialog, ticked)
    BY <1>3, <2>1 DEF SelectsCluster
  <2>3. /\ selected' = c /\ opened' = t /\ (w <=> selected' \in writable')
        /\ workspace' \in Cluster \cup {Nothing} /\ listed' \subseteq Name
        /\ writable' \subseteq Cluster /\ sending' \subseteq sending
    BY <1>1, <1>3, <2>1 DEF SelectsCluster, Heard
  <2>. QED
    BY <1>1, <2>1, <2>2, <2>3, PageSettlesInv
<1>4. ASSUME NEW c \in Cluster, SwitchesWriteMode(c) PROVE WritesInv' /\ NoneSent
  <2>1. PICK w \in BOOLEAN : w <=> (selected \in writable')
    <3>1. CASE selected \in writable'
      BY <3>1
    <3>2. CASE selected \notin writable'
      BY <3>2
    <3>. QED
      BY <3>1, <3>2
  <2>2. PageSettles(selected, opened, w, dialog, ticked)
    BY <1>4, <2>1 DEF SwitchesWriteMode
  <2>3. /\ selected' = selected /\ opened' = opened /\ (w <=> selected' \in writable')
        /\ workspace' \in Cluster \cup {Nothing} /\ listed' \subseteq Name
        /\ writable' \subseteq Cluster /\ sending' \subseteq sending
    BY <1>1, <1>4, <2>1 DEF SwitchesWriteMode, Heard
  <2>. QED
    BY <1>1, <2>1, <2>2, <2>3, PageSettlesInv
<1>5. ASSUME NEW t \in Name, OpensTopic(t) PROVE WritesInv' /\ NoneSent
  <2>1. PICK w \in BOOLEAN : w = CanWrite
    BY <1>2
  <2>2. PageSettles(selected, t, w, dialog, ticked)
    BY <1>5, <2>1 DEF OpensTopic
  <2>3. /\ selected' = selected /\ opened' = t /\ (w <=> selected' \in writable')
        /\ workspace' \in Cluster \cup {Nothing} /\ listed' \subseteq Name
        /\ writable' \subseteq Cluster /\ sending' \subseteq sending
    BY <1>1, <1>2, <1>5, <2>1 DEF OpensTopic
  <2>. QED
    BY <1>1, <2>1, <2>2, <2>3, PageSettlesInv
<1>6. CASE LeavesTopic
  <2>1. PICK w \in BOOLEAN : w = CanWrite
    BY <1>2
  <2>2. PageSettles(selected, Nothing, w, dialog, ticked)
    BY <1>6, <2>1 DEF LeavesTopic
  <2>3. /\ selected' = selected /\ opened' = Nothing /\ (w <=> selected' \in writable')
        /\ workspace' \in Cluster \cup {Nothing} /\ listed' \subseteq Name
        /\ writable' \subseteq Cluster /\ sending' \subseteq sending
    BY <1>1, <1>2, <1>6, <2>1 DEF LeavesTopic, Heard
  <2>. QED
    BY <1>1, <2>1, <2>2, <2>3, PageSettlesInv
<1>7. ASSUME NEW r \in sending, DeleteAnswers(r) PROVE WritesInv' /\ NoneSent
  <2>1. PICK w \in BOOLEAN : w = CanWrite
    BY <1>2
  <2>2. PICK now \in [WriteKinds -> Dialogs] : now = [dialog EXCEPT !["delete"] = Closed]
    BY <1>1, ClosedDialog
  <2>3. \A k \in WriteKinds : now[k] \in {dialog[k], Closed}
    BY <1>1, <2>2
  <2>4. PageSettles(selected, Nothing, w, now, ticked)
    BY <1>7, <2>1, <2>2 DEF DeleteAnswers
  <2>5. /\ selected' = selected /\ opened' = Nothing /\ (w <=> selected' \in writable')
        /\ workspace' \in Cluster \cup {Nothing} /\ listed' \subseteq Name
        /\ writable' \subseteq Cluster /\ sending' \subseteq sending
    BY <1>1, <1>2, <1>7, <2>1 DEF DeleteAnswers, Heard
  <2>6. now \in [WriteKinds -> Dialogs] /\ w \in BOOLEAN /\ selected \in Cluster \cup {Nothing}
        /\ workspace' \in Cluster \cup {Nothing} /\ Nothing \in Name \cup {Nothing}
    BY <1>1, <2>1, <2>2, <2>5
  <2>. QED
    BY <2>3, <2>4, <2>5, <2>6, PageSettlesInv
<1>. QED
  BY <1>3, <1>4, <1>5, <1>6, <1>7

(* The list and its boxes. *)
LEMMA ListMoves ==
  ASSUME WritesInv,
         \/ \E names \in SUBSET Name : ListArrives(names)
         \/ ListFails
         \/ \E t \in Name : TicksOne(t)
         \/ TicksPage
         \/ ClearsTicks
  PROVE  WritesInv' /\ NoneSent
<1>1. /\ listed \subseteq Name /\ ticked \subseteq Name
      /\ dialog \in [WriteKinds -> Dialogs] /\ sending \subseteq Requests /\ left = {}
      /\ dialog["batch"].open => ticked \subseteq dialog["batch"].topics
      /\ ~(dialog["produce"].open /\ dialog["delete"].open)
      /\ \A k \in WriteKinds : InLock(k, dialog[k], selected, opened, CanWrite)
  BY DEF WritesInv, WritesTypeOK, FrozenWhileOpen
<1>2. ASSUME UNCHANGED <<selected, workspace, opened, writable, dialog, sending, left>>,
             listed' \subseteq Name, ticked' \subseteq Name,
             dialog["batch"].open => ticked' \subseteq ticked
      PROVE  WritesInv' /\ NoneSent
  <2>1. dialog' = dialog /\ left' = left /\ sending' = sending
    BY <1>2
  <2>. QED
    BY <1>1, <1>2, <2>1, WithinPageInv DEF NoneSent
<1>3. ASSUME NEW names \in SUBSET Name, Ticks(names) PROVE WritesInv' /\ NoneSent
  BY <1>1, <1>2, <1>3 DEF Ticks, Ticking
<1>4. ASSUME NEW names \in SUBSET Name, ListArrives(names) PROVE WritesInv' /\ NoneSent
  BY <1>1, <1>2, <1>4 DEF ListArrives, Pruned
<1>5. CASE ListFails
  <2>1. "produce" \in WriteKinds /\ dialog["produce"] \in Dialogs
    BY <1>1 DEF WriteKinds
  <2>2. PICK d : d = [dialog["produce"] EXCEPT !.typed = FALSE]
    OBVIOUS
  <2>3. d \in Dialogs /\ d.open = dialog["produce"].open
        /\ d.cluster = dialog["produce"].cluster /\ d.topics = dialog["produce"].topics
    BY <2>1, <2>2 DEF Dialogs
  <2>4. dialog' = [dialog EXCEPT !["produce"] = d]
    BY <1>5, <2>2 DEF ListFails
  <2>5. UNCHANGED <<selected, workspace, opened, writable, ticked, left>> /\ listed' = {}
        /\ sending' \subseteq sending
    BY <1>5 DEF ListFails, Heard
  <2>. QED
    BY <1>1, <2>1, <2>3, <2>4, <2>5, DialogPut, WithinPageInv DEF NoneSent
<1>6. ASSUME NEW t \in Name, TicksOne(t) PROVE WritesInv' /\ NoneSent
  BY <1>1, <1>3, <1>6 DEF TicksOne
<1>7. CASE TicksPage
  <2>. DEFINE page == listed \ Internal
  <2>1. PICK names : names = IF page \subseteq ticked THEN ticked \ page ELSE ticked \cup page
    OBVIOUS
  <2>2. names \in SUBSET Name
    BY <1>1, <2>1
  <2>3. Ticks(names)
    BY <1>7, <2>1 DEF TicksPage
  <2>. QED
    BY <1>3, <2>2, <2>3
<1>8. CASE ClearsTicks
  BY <1>3, <1>8 DEF ClearsTicks
<1>. QED
  BY <1>4, <1>5, <1>6, <1>7, <1>8

(* What is sent by a step is what its dialog lists, on the selected cluster. *)
SentInContext ==
  \A r \in sending' \ sending :
    r.kind \notin left /\ r.cluster = selected /\ r.topics = dialog[r.kind].topics

(* The dialogs. *)
LEMMA DialogMoves ==
  ASSUME WritesInv,
         \/ OpensBatch
         \/ \E k \in WriteKinds : OpensTopicDialog(k) \/ Confirms(k) \/ Cancels(k) \/ Submits(k)
  PROVE  WritesInv' /\ SentInContext
<1>1. /\ selected \in Cluster \cup {Nothing} /\ opened \in Name \cup {Nothing}
      /\ listed \subseteq Name /\ ticked \subseteq Name
      /\ writable \subseteq Cluster
      /\ dialog \in [WriteKinds -> Dialogs] /\ sending \subseteq Requests /\ left = {}
      /\ dialog["batch"].open => ticked \subseteq dialog["batch"].topics
      /\ ~(dialog["produce"].open /\ dialog["delete"].open)
      /\ \A k \in WriteKinds : InLock(k, dialog[k], selected, opened, CanWrite)
  BY DEF WritesInv, WritesTypeOK, FrozenWhileOpen
<1>2. "batch" \in WriteKinds /\ "produce" \in WriteKinds /\ "delete" \in WriteKinds
  BY DEF WriteKinds
<1>3. ASSUME NEW k \in WriteKinds, NEW topics \in SUBSET Name, NEW closes \in SUBSET WriteKinds,
             OpensDialog(k, topics, closes), CanWrite,
             k = "batch" => opened = Nothing /\ topics = ticked,
             k # "batch" => topics = {opened} /\ opened # Nothing,
             k = "produce" => "delete" \in closes,
             k = "delete" => "produce" \in closes
      PROVE  WritesInv' /\ SentInContext
  <2>1. PICK d : d = [open |-> TRUE, cluster |-> selected, topics |-> topics,
                      typed |-> k = "produce" /\ Mounted /\ dialog[k].typed]
    OBVIOUS
  <2>2. d \in Dialogs /\ d.open = TRUE /\ d.cluster = selected /\ d.topics = topics
    <3>1. (k = "produce" /\ Mounted /\ dialog[k].typed) \in BOOLEAN
      OBVIOUS
    <3>. QED
      BY <1>1, <2>1, <3>1 DEF Dialogs
  <2>3. dialog' = [j \in WriteKinds |-> IF j = k THEN d ELSE IF j \in closes THEN Closed ELSE dialog[j]]
    BY <1>3, <2>1 DEF OpensDialog
  <2>4. dialog' \in [WriteKinds -> Dialogs]
    BY <1>1, <2>2, <2>3, ClosedDialog
  <2>5. dialog'[k] = d /\ \A j \in WriteKinds : j # k => dialog'[j] \in {dialog[j], Closed}
    BY <2>3
  <2>6. \A j \in WriteKinds : InLock(j, dialog'[j], selected, opened, CanWrite)
    <3>1. InLock(k, d, selected, opened, CanWrite)
      BY <1>3, <2>2 DEF InLock, OpenTopics
    <3>2. \A j \in WriteKinds : InLock(j, Closed, selected, opened, CanWrite)
      BY ClosedDialog DEF InLock
    <3>. QED
      BY <1>1, <2>5, <3>1, <3>2
  <2>7. dialog'["batch"].open => ticked \subseteq dialog'["batch"].topics
    <3>1. CASE k = "batch"
      BY <1>1, <1>3, <2>2, <2>5, <3>1
    <3>2. CASE k # "batch"
      BY <1>1, <1>2, <2>5, <3>2, ClosedDialog
    <3>. QED
      BY <3>1, <3>2
  <2>8. ~(dialog'["produce"].open /\ dialog'["delete"].open)
    <3>1. k = "produce" => dialog'["delete"] = Closed
      BY <1>2, <1>3, <2>3
    <3>2. k = "delete" => dialog'["produce"] = Closed
      BY <1>2, <1>3, <2>3
    <3>3. k = "batch" => dialog'["produce"] \in {dialog["produce"], Closed}
                         /\ dialog'["delete"] \in {dialog["delete"], Closed}
      BY <1>2, <2>5
    <3>. QED
      BY <1>1, <3>1, <3>2, <3>3, ClosedDialog DEF WriteKinds
  <2>9. /\ UNCHANGED <<selected, workspace, opened, listed, writable, ticked>>
        /\ left' = {} /\ sending' \subseteq sending
    BY <1>1, <1>3 DEF OpensDialog, Heard
  <2>. QED
    BY <1>1, <2>4, <2>6, <2>7, <2>8, <2>9, WithinPageInv DEF SentInContext
<1>4. CASE OpensBatch
  BY <1>1, <1>2, <1>3, <1>4 DEF OpensBatch, Ticking, OnList
<1>5. ASSUME NEW k \in WriteKinds, OpensTopicDialog(k) PROVE WritesInv' /\ SentInContext
  <2>1. {"produce", "delete"} \ {k} \in SUBSET WriteKinds
    BY DEF WriteKinds
  <2>2. {opened} \in SUBSET Name /\ opened # Nothing /\ CanWrite /\ k \in {"produce", "delete"}
    BY <1>1, <1>5 DEF OpensTopicDialog
  <2>3. OpensDialog(k, {opened}, {"produce", "delete"} \ {k})
    BY <1>5 DEF OpensTopicDialog
  <2>4. PICK closes \in SUBSET WriteKinds : closes = {"produce", "delete"} \ {k}
    BY <2>1
  <2>5. OpensDialog(k, {opened}, closes)
    BY <2>3, <2>4
  <2>. QED
    BY <1>3, <2>2, <2>4, <2>5
<1>6. ASSUME NEW k \in WriteKinds, NEW d \in Dialogs,
             d = Closed \/ (d.open = dialog[k].open /\ d.cluster = dialog[k].cluster
                            /\ d.topics = dialog[k].topics),
             dialog' = [dialog EXCEPT ![k] = d],
             UNCHANGED <<selected, workspace, opened, listed, writable, ticked, left>>,
             sending' \subseteq sending
      PROVE  WritesInv' /\ SentInContext
  <2>1. /\ dialog' \in [WriteKinds -> Dialogs]
        /\ \A j \in WriteKinds : InLock(j, dialog'[j], selected, opened, CanWrite)
        /\ dialog'["batch"].open => dialog["batch"].open /\ dialog'["batch"].topics = dialog["batch"].topics
        /\ ~(dialog'["produce"].open /\ dialog'["delete"].open)
    BY <1>6, DialogPut
  <2>. QED
    BY <1>1, <1>6, <2>1, WithinPageInv DEF SentInContext
<1>7. ASSUME NEW k \in WriteKinds, Confirms(k) PROVE WritesInv' /\ SentInContext
  <2>1. PICK d : d = [dialog[k] EXCEPT !.typed = TRUE]
    OBVIOUS
  <2>2. dialog[k] \in Dialogs
    BY <1>1
  <2>3. d \in Dialogs /\ d.open = dialog[k].open /\ d.cluster = dialog[k].cluster
        /\ d.topics = dialog[k].topics
    BY <2>1, <2>2 DEF Dialogs
  <2>4. dialog' = [dialog EXCEPT ![k] = d] /\ sending' = sending
        /\ UNCHANGED <<selected, workspace, opened, listed, writable, ticked, left>>
    BY <1>7, <2>1 DEF Confirms
  <2>. QED
    BY <1>6, <2>3, <2>4
<1>8. ASSUME NEW k \in WriteKinds, Cancels(k) PROVE WritesInv' /\ SentInContext
  <2>1. dialog' = [dialog EXCEPT ![k] = Closed] /\ sending' \subseteq sending
        /\ UNCHANGED <<selected, workspace, opened, listed, writable, ticked, left>>
    BY <1>8 DEF Cancels, Heard
  <2>. QED
    BY <1>6, <2>1, ClosedDialog
<1>9. ASSUME NEW k \in WriteKinds, Submits(k) PROVE WritesInv' /\ SentInContext
  <2>1. dialog[k] \in Dialogs /\ selected \in Cluster
    BY <1>1, <1>9 DEF Submits, OnPage
  <2>2. PICK r : r = [kind |-> k, cluster |-> selected, topics |-> dialog[k].topics]
    OBVIOUS
  <2>3. r \in Requests /\ r.kind = k /\ r.cluster = selected /\ r.topics = dialog[k].topics
    BY <2>1, <2>2 DEF Requests, Dialogs
  <2>4. sending' = sending \cup {r}
        /\ UNCHANGED <<selected, workspace, opened, listed, writable, ticked, dialog, left>>
    BY <1>9, <2>2 DEF Submits
  <2>6. SentInContext
    BY <1>1, <2>3, <2>4 DEF SentInContext
  <2>. QED
    BY <1>1, <2>3, <2>4, <2>6, WithinPageInv
<1>. QED
  BY <1>4, <1>5, <1>7, <1>8, <1>9

(* The answers that leave the page where it is. *)
LEMMA AnswerMoves ==
  ASSUME WritesInv, NEW r \in sending,
         \/ ProduceAnswers(r) \/ WriteFails(r)
         \/ \E failed \in SUBSET r.topics : BatchAnswers(r, failed)
  PROVE  WritesInv' /\ NoneSent
<1>1. /\ listed \subseteq Name /\ ticked \subseteq Name
      /\ dialog \in [WriteKinds -> Dialogs] /\ sending \subseteq Requests /\ left = {}
      /\ dialog["batch"].open => ticked \subseteq dialog["batch"].topics
      /\ ~(dialog["produce"].open /\ dialog["delete"].open)
      /\ \A k \in WriteKinds : InLock(k, dialog[k], selected, opened, CanWrite)
  BY DEF WritesInv, WritesTypeOK, FrozenWhileOpen
<1>2. "batch" \in WriteKinds /\ "produce" \in WriteKinds
  BY DEF WriteKinds
<1>3. CASE ProduceAnswers(r)
  <2>1. PICK d : d = [dialog["produce"] EXCEPT !.typed = FALSE]
    OBVIOUS
  <2>2. dialog["produce"] \in Dialogs
    BY <1>1, <1>2
  <2>3. d \in Dialogs /\ d.open = dialog["produce"].open
        /\ d.cluster = dialog["produce"].cluster /\ d.topics = dialog["produce"].topics
    BY <2>1, <2>2 DEF Dialogs
  <2>4. dialog' = [dialog EXCEPT !["produce"] = d] /\ sending' \subseteq sending
        /\ UNCHANGED <<selected, workspace, opened, listed, writable, ticked, left>>
    BY <1>3, <2>1 DEF ProduceAnswers
  <2>. QED
    BY <1>1, <1>2, <2>3, <2>4, DialogPut, WithinPageInv DEF NoneSent
<1>4. CASE WriteFails(r)
  <2>1. sending' \subseteq sending
        /\ UNCHANGED <<selected, workspace, opened, listed, writable, ticked, dialog, left>>
    BY <1>4 DEF WriteFails
  <2>. QED
    BY <1>1, <2>1, WithinPageInv DEF NoneSent
<1>5. ASSUME NEW failed \in SUBSET r.topics, BatchAnswers(r, failed) PROVE WritesInv' /\ NoneSent
  <2>1. dialog' = [dialog EXCEPT !["batch"] = Closed] /\ sending' \subseteq sending
        /\ UNCHANGED <<selected, workspace, opened, listed, writable, left>> /\ ticked' = failed
        /\ r.kind = "batch"
    BY <1>5 DEF BatchAnswers
  <2>2. r \in Requests
    BY <1>1
  <2>3. failed \subseteq Name
    BY <1>1, <2>1, <2>2 DEF Requests
  <2>4. ~dialog'["batch"].open
    BY <1>1, <1>2, <2>1, ClosedDialog
  <2>. QED
    BY <1>1, <1>2, <2>1, <2>3, <2>4, ClosedDialog, DialogPut, WithinPageInv DEF NoneSent
<1>. QED
  BY <1>3, <1>4, <1>5

(* No context is ever left under an open dialog: what the effects compare is what the rules mean. *)
LEMMA WritesStep == WritesInv /\ [WritesNext]_writesVars => WritesInv' /\ [SentInContext]_writesVars
<1>1. ASSUME WritesInv, UNCHANGED writesVars PROVE WritesInv'
  BY <1>1 DEF writesVars, WritesInv, WritesTypeOK, FrozenWhileOpen, CanWrite
<1>2. ASSUME WritesInv, WritesNext PROVE WritesInv' /\ SentInContext
  <2>1. NoneSent => SentInContext
    BY DEF NoneSent, SentInContext
  <2>. QED
    BY <1>2, <2>1, PageMoves, ListMoves, DialogMoves, AnswerMoves DEF WritesNext, WriteAnswers
<1>. QED
  BY <1>1, <1>2

(* For any names and clusters: a write is sent only from a dialog whose context has not changed
   since it was opened, and the boxes stay frozen under the confirmation of a batch. *)
THEOREM WritesAlwaysConfirmed == WritesSpec => []WritesTypeOK /\ WritesWhatWasConfirmed
<1>1. WritesInv => WritesTypeOK /\ FrozenWhileOpen
  BY DEF WritesInv
<1>2. WritesInv /\ [WritesNext]_writesVars =>
        WritesInv' /\ [\A r \in sending' \ sending :
                         r.kind \notin left /\ r.cluster = selected
                         /\ r.topics = dialog[r.kind].topics]_writesVars
  BY WritesStep DEF SentInContext
<1>. QED
  BY <1>1, <1>2, WritesInitInv, PTL DEF WritesSpec, WritesWhatWasConfirmed, SentInItsContext

-----------------------------------------------------------------------------
(* MessagePage.                                                            *)

(* Calls, windows and what the timer polls. *)
CallsOfMain == [kind : {"browse", "first", "poll", "over"}, topic : Nat, partition : Partition,
                from : Nat, session : Nat]
Windows == [topic : Nat, partition : Partition, next : Nat, records : Seq(Nat)]
TimedPolls == [session : Nat, partition : Partition, from : Nat]

(* The records follow each other up to the cursor. *)
InOneRun(records, next) ==
  \A i \in DOMAIN records :
    /\ records[i] = records[1] + i - 1
    /\ i = Len(records) => records[i] + 1 >= next

(* A poll from an offset goes on where window w of a tail ends, of which as many records are gone:
   the window begins no later than the offset, so that no record before those it has is new. *)
GoesOn(w, gone, from, end) ==
  /\ gone <= from
  /\ w.records # <<>> => /\ w.next = from /\ gone <= w.records[1] /\ w.records[1] <= from
                         /\ w.records[Len(w.records)] < end
  /\ InOneRun(w.records, w.next)

LEMMA ReadRuns ==
  ASSUME NEW from \in Nat, NEW high \in from..logEnd, logEnd \in Nat
  PROVE  \E k \in Nat :
           /\ k <= Limit /\ from + k <= logEnd
           /\ Read(from, high) = [i \in 1..k |-> from + i - 1]
           /\ NextFrom(from, high) \in from..high /\ NextFrom(from, high) <= from + k
<1>1. Limit \in Nat \ {0} /\ high \in Nat /\ from <= high /\ high <= logEnd
  BY MessageAssumption
<1>. DEFINE k == IF from < high THEN (IF logEnd - from > Limit THEN Limit ELSE logEnd - from) ELSE 0
<1>2. k \in Nat /\ k <= Limit /\ from + k <= logEnd /\ (from < high => k > 0)
  BY <1>1
<1>3. Read(from, high) = [i \in 1..k |-> from + i - 1]
  BY <1>1 DEF Read, Records
<1>4. Len(Read(from, high)) = k
  BY <1>2, <1>3
<1>5. NextFrom(from, high) \in from..high /\ NextFrom(from, high) <= from + k
  BY <1>1, <1>2, <1>4 DEF NextFrom
<1>. QED
  BY <1>2, <1>3, <1>5

LEMMA CountUpTo ==
  ASSUME NEW s \in Nat, NEW k \in Nat, s <= k, NEW i \in (s + 1)..k
  PROVE  Cardinality({j \in (s + 1)..k : j <= i}) = i - s
<1>1. {j \in (s + 1)..k : j <= i} = (s + 1)..i
  OBVIOUS
<1>2. Cardinality((s + 1)..i) = i - s
  BY FS_Interval
<1>. QED
  BY <1>1, <1>2

(* Records that follow each other from an offset on, of which the window has the first s. *)
RunFrom(records, from, k) ==
  DOMAIN records = 1..k /\ \A i \in 1..k : records[i] = from + i - 1
Seen(from, k, s) == \A i \in 1..k : from + i - 1 \in ToSet(window.records) <=> i <= s

(* What is new of such records is their end, which the window does not reach. *)
LEMMA NewRuns ==
  ASSUME NEW from \in Nat, NEW k \in Nat, NEW records, RunFrom(records, from, k),
         NEW s \in 0..k, Seen(from, k, s)
  PROVE  New(records) = [n \in 1..(k - s) |-> from + s + n - 1]
<1>. DEFINE unseen == {i \in DOMAIN records : records[i] \notin ToSet(window.records)}
            nth(n) == CHOOSE i \in unseen : Cardinality({j \in unseen : j <= i}) = n
<1>0. DOMAIN records = 1..k /\ \A i \in 1..k : records[i] = from + i - 1
  BY DEF RunFrom
<1>1. unseen = (s + 1)..k
  <2>1. unseen = {i \in 1..k : ~(i <= s)}
    BY <1>0 DEF Seen
  <2>2. {i \in 1..k : ~(i <= s)} = (s + 1)..k
    OBVIOUS
  <2>. HIDE DEF unseen
  <2>. QED
    BY <2>1, <2>2
<1>2. Cardinality(unseen) = k - s
  <2>1. Cardinality((s + 1)..k) = k - s
    <3>1. s + 1 \in Int /\ k \in Int /\ (s + 1 > k => k = s)
      OBVIOUS
    <3>2. Cardinality((s + 1)..k) = IF s + 1 > k THEN 0 ELSE k - (s + 1) + 1
      BY <3>1, FS_Interval
    <3>. QED
      BY <3>1, <3>2
  <2>. HIDE DEF unseen
  <2>. QED
    BY <1>1, <2>1
<1>3. New(records) = [n \in 1..Cardinality(unseen) |-> records[nth(n)]]
  BY DEF New
<1>4. ASSUME NEW n \in 1..(k - s) PROVE nth(n) = s + n
  <2>1. \A i \in (s + 1)..k : Cardinality({j \in (s + 1)..k : j <= i}) = i - s
    <3>1. s \in Nat /\ s <= k
      OBVIOUS
    <3>. QED
      BY <3>1, CountUpTo
  <2>2. nth(n) = CHOOSE i \in (s + 1)..k : Cardinality({j \in (s + 1)..k : j <= i}) = n
    BY <1>1, Zenon
  <2>3. s + n \in (s + 1)..k /\ Cardinality({j \in (s + 1)..k : j <= s + n}) = n
    <3>1. PICK m : m = s + n
      OBVIOUS
    <3>2. m \in (s + 1)..k /\ m - s = n
      BY <3>1
    <3>3. Cardinality({j \in (s + 1)..k : j <= m}) = n
      BY <2>1, <3>2
    <3>. QED
      BY <3>1, <3>2, <3>3
  <2>4. nth(n) \in (s + 1)..k /\ Cardinality({j \in (s + 1)..k : j <= nth(n)}) = n
    BY <2>2, <2>3, Zenon
  <2>5. nth(n) - s = n
    BY <2>1, <2>4
  <2>6. PICK m : m = nth(n)
    OBVIOUS
  <2>7. m \in (s + 1)..k /\ m - s = n
    BY <2>4, <2>5, <2>6
  <2>8. m = s + n
    BY <2>7
  <2>. HIDE DEF nth
  <2>. QED
    BY <2>6, <2>8
<1>5. ASSUME NEW n \in 1..(k - s) PROVE records[nth(n)] = from + s + n - 1
  <2>1. PICK m : m = nth(n)
    OBVIOUS
  <2>. HIDE DEF nth
  <2>2. m \in 1..k /\ m = s + n
    BY <1>4, <2>1
  <2>3. records[m] = from + m - 1
    BY <1>0, <2>2
  <2>. QED
    BY <2>1, <2>2, <2>3
<1>. HIDE DEF unseen, nth
<1>. QED
  BY <1>2, <1>3, <1>5

(* What a poll makes of the window of a tail is a run again, and the next poll goes on from it. *)
LEMMA PolledRuns ==
  ASSUME logEnd \in Nat, NEW from \in Nat, NEW high \in from..logEnd, NEW gone \in Nat,
         window.records \in Seq(Nat), Len(window.records) <= Limit,
         GoesOn(window, gone, from, logEnd)
  PROVE  LET all == window.records \o New(Read(from, high))
             next == NextFrom(from, high)
             kept == SubSeq(all, Over(all) + 1, Len(all))
         IN  /\ kept \in Seq(Nat) /\ Len(kept) <= Limit /\ next \in Nat /\ next <= logEnd
             /\ Over(all) \in Nat /\ gone + Over(all) <= next
             /\ kept # <<>> => /\ gone + Over(all) <= kept[1] /\ kept[1] <= next
                               /\ kept[Len(kept)] < logEnd
             /\ InOneRun(kept, next)
<1>g. PICK next : next = NextFrom(from, high)
  OBVIOUS
<1>h. PICK all : all = window.records \o New(Read(from, high))
  OBVIOUS
<1>i. PICK kept : kept = SubSeq(all, Over(all) + 1, Len(all))
  OBVIOUS
<1>1. Limit \in Nat \ {0} /\ high \in Nat /\ from <= high /\ high <= logEnd
  BY MessageAssumption
<1>2. PICK k \in Nat :
        /\ k <= Limit /\ from + k <= logEnd
        /\ Read(from, high) = [i \in 1..k |-> from + i - 1]
        /\ NextFrom(from, high) \in from..high /\ NextFrom(from, high) <= from + k
  BY ReadRuns
<1>3. PICK have : have = window.records
  OBVIOUS
<1>4. PICK n \in Nat : n = Len(have)
  BY <1>3
<1>5. have \in Seq(Nat) /\ n <= Limit /\ DOMAIN have = 1..n /\ (n = 0 <=> have = <<>>)
  BY <1>3, <1>4
<1>a. PICK a : a = IF n = 0 THEN from ELSE have[1]
  OBVIOUS
<1>6. /\ a \in Nat /\ a <= from /\ from <= a + n /\ a + n <= logEnd /\ gone <= a
      /\ \A i \in 1..n : have[i] = a + i - 1
  <2>1. CASE n = 0
    <3>1. gone <= from /\ from <= logEnd /\ 1..n = {} /\ a = from
      BY <1>1, <1>a, <2>1 DEF GoesOn
    <3>. QED
      BY <2>1, <3>1
  <2>2. CASE n # 0
    <3>1. have # <<>> /\ 1 \in 1..n /\ n \in 1..n /\ have[1] \in Nat /\ a = have[1]
      BY <1>4, <1>5, <1>a, <2>2
    <3>2. window.next = from /\ gone <= a /\ a <= from /\ have[n] < logEnd
      BY <1>3, <1>4, <3>1 DEF GoesOn
    <3>3. \A i \in 1..n : have[i] = a + i - 1
      BY <1>3, <1>5, <3>1 DEF GoesOn, InOneRun
    <3>4. have[n] + 1 >= from
      BY <1>3, <1>4, <1>5, <3>1, <3>2 DEF GoesOn, InOneRun
    <3>5. have[n] = a + n - 1
      BY <3>1, <3>3
    <3>6. from <= a + n /\ a + n <= logEnd
      BY <1>4, <3>1, <3>2, <3>4, <3>5
    <3>. QED
      BY <3>1, <3>2, <3>3, <3>6
  <2>. QED
    BY <1>4, <2>1, <2>2
<1>b. PICK s : s = IF k <= a + n - from THEN k ELSE a + n - from
  OBVIOUS
<1>7. s \in Nat /\ s <= k /\ s <= a + n - from /\ (s = k \/ s = a + n - from)
  BY <1>2, <1>4, <1>6, <1>b
<1>8. Seen(from, k, s)
  <2>. SUFFICES ASSUME NEW i \in 1..k
                PROVE  from + i - 1 \in ToSet(window.records) <=> i <= s
    BY DEF Seen
  <2>1. ASSUME i <= s PROVE from + i - 1 \in ToSet(window.records)
    <3>1. PICK j : j = from + i - a
      OBVIOUS
    <3>2. j \in 1..n /\ a + j - 1 = from + i - 1
      BY <1>6, <1>7, <2>1, <3>1
    <3>3. have[j] = from + i - 1
      BY <1>6, <3>2
    <3>. QED
      BY <1>3, <1>5, <3>2, <3>3 DEF ToSet
  <2>2. ASSUME from + i - 1 \in ToSet(window.records) PROVE i <= s
    <3>1. PICK j \in 1..n : have[j] = from + i - 1
      BY <1>3, <1>5, <2>2 DEF ToSet
    <3>2. a + j - 1 = from + i - 1
      BY <1>6, <3>1
    <3>. QED
      BY <1>6, <1>7, <3>1, <3>2
  <2>. QED
    BY <2>1, <2>2
<1>c. PICK m : m = k - s
  OBVIOUS
<1>9. m \in Nat /\ m = k - s
  BY <1>2, <1>7, <1>c
<1>10. PICK new : new = New(Read(from, high))
  OBVIOUS
<1>11. new = [i \in 1..m |-> from + s + i - 1]
  <2>1. s \in 0..k
    BY <1>2, <1>7
  <2>2. PICK records : records = Read(from, high)
    OBVIOUS
  <2>3. RunFrom(records, from, k)
    BY <1>2, <2>2 DEF RunFrom
  <2>4. New(records) = [i \in 1..(k - s) |-> from + s + i - 1]
    BY <1>2, <1>8, <2>1, <2>3, NewRuns
  <2>. QED
    BY <1>9, <1>10, <2>2, <2>4
<1>12. new \in Seq(Nat) /\ Len(new) = m /\ DOMAIN new = 1..m
       /\ \A i \in 1..m : new[i] = from + s + i - 1
  <2>1. \A i \in 1..m : from + s + i - 1 \in Nat
    BY <1>7, <1>9
  <2>. QED
    BY <1>9, <1>11, <2>1
<1>d. PICK len : len = n + m
  OBVIOUS
<1>13. len \in Nat /\ len = n + m
  BY <1>4, <1>9, <1>d
<1>j. /\ k \in Nat /\ k <= Limit /\ from + k <= logEnd
      /\ a \in Nat /\ a <= from /\ from <= a + n /\ a + n <= logEnd /\ gone <= a
  BY <1>2, <1>6
<1>14. /\ len >= n /\ a + len <= logEnd /\ from + k <= a + len
       /\ len > n => a + len = from + k /\ from + s = a + n
  <2>1. CASE s = k
    BY <1>j, <1>4, <1>7, <1>9, <1>13, <2>1
  <2>2. CASE s = a + n - from
    <3>1. len = from + k - a
      BY <1>j, <1>4, <1>9, <1>13, <2>2
    <3>2. a + len = from + k
      BY <1>j, <1>4, <3>1
    <3>3. from + s = a + n
      BY <1>j, <1>4, <2>2
    <3>4. len >= n
      BY <1>4, <1>9, <1>13
    <3>. QED
      BY <1>j, <3>2, <3>3, <3>4
  <2>. QED
    BY <1>7, <2>1, <2>2
<1>15. all \in Seq(Nat) /\ Len(all) = len
  BY <1>h, <1>3, <1>4, <1>5, <1>10, <1>12, <1>13
<1>16. \A i \in 1..len : all[i] = a + i - 1
  <2>. TAKE i \in 1..len
  <2>0. i \in Nat /\ all = have \o new /\ Len(have) = n
    BY <1>h, <1>3, <1>4, <1>10, <1>13
  <2>3. i <= n \/ i > n
    BY <1>4, <1>13
  <2>1. CASE i <= n
    <3>1. i \in 1..n
      BY <1>4, <2>0, <2>1
    <3>2. all[i] = have[i]
      BY <1>5, <1>12, <1>13, <2>0, <2>1
    <3>. QED
      BY <1>6, <3>1, <3>2
  <2>2. CASE i > n
    <3>1. PICK j : j = i - n
      OBVIOUS
    <3>2. j \in 1..m /\ i = n + j /\ m > 0 /\ j \in Nat
      BY <1>4, <1>9, <1>13, <2>0, <2>2, <3>1
    <3>3. all[i] = new[j]
      BY <1>4, <1>5, <1>9, <1>12, <1>13, <2>0, <2>2, <3>1
    <3>4. new[j] = from + s + j - 1
      BY <1>12, <3>2
    <3>5. from + s = a + n
      BY <1>4, <1>9, <1>13, <1>14, <3>2
    <3>6. all[i] = a + n + j - 1
      BY <1>7, <3>2, <3>3, <3>4, <3>5
    <3>. QED
      BY <1>4, <1>6, <3>2, <3>6
  <2>. QED
    BY <2>1, <2>2, <2>3
<1>e. PICK o : o = Over(all)
  OBVIOUS
<1>17. o \in Nat /\ o = IF len > Limit THEN len - Limit ELSE 0
  BY <1>1, <1>13, <1>15, <1>e DEF Over
<1>18. /\ o <= len /\ len - o <= Limit
       /\ o = len => len = 0
       /\ o > 0 => len > n /\ len - o = Limit
  <2>1. CASE len > Limit
    <3>1. o = len - Limit /\ Limit > 0 /\ len > n
      BY <1>1, <1>4, <1>5, <1>13, <1>17, <2>1
    <3>2. o < len /\ len - o = Limit
      BY <1>1, <1>13, <1>17, <3>1
    <3>. QED
      BY <1>1, <1>13, <1>17, <3>1, <3>2
  <2>2. CASE ~(len > Limit)
    BY <1>1, <1>13, <1>17, <2>2
  <2>. QED
    BY <2>1, <2>2
<1>19. next \in Nat /\ from <= next /\ next <= logEnd /\ next <= from + k
  BY <1>g, <1>1, <1>2
<1>20. a + o <= next
  <2>1. CASE o = 0
    BY <1>6, <1>19, <2>1
  <2>2. CASE o > 0
    <3>1. a + len = from + k /\ o = len - Limit
      BY <1>1, <1>4, <1>13, <1>14, <1>17, <1>18, <2>2
    <3>2. a + o <= from
      BY <1>1, <1>2, <1>6, <1>13, <1>17, <3>1
    <3>. QED
      BY <1>6, <1>17, <1>19, <3>2
  <2>. QED
    BY <1>17, <2>1, <2>2
<1>f. PICK rest : rest = len - o
  OBVIOUS
<1>21. rest \in Nat /\ rest = len - o
  BY <1>13, <1>17, <1>18, <1>f
<1>22. kept \in Seq(Nat) /\ Len(kept) = rest /\ DOMAIN kept = 1..rest
       /\ \A i \in 1..rest : kept[i] = a + o + i - 1
  <2>1. kept = SubSeq(all, o + 1, len)
    BY <1>i, <1>15, <1>e
  <2>2. Len(kept) = rest /\ kept \in Seq(Nat)
    <3>1. \A i \in (o + 1)..len : all[i] \in Nat
      BY <1>13, <1>15, <1>17
    <3>2. o + 1 \in Int /\ len \in Int /\ (o + 1 <= len => len - (o + 1) + 1 = rest)
          /\ (~(o + 1 <= len) => rest = 0)
      BY <1>13, <1>17, <1>18, <1>21
    <3>. QED
      BY <2>1, <3>1, <3>2, SubSeqProperties
  <2>3. ASSUME NEW i \in 1..rest PROVE kept[i] = a + o + i - 1
    <3>1. PICK j : j = i + o
      OBVIOUS
    <3>2. j \in 1..len /\ j = i + o /\ i \in Nat
      BY <1>13, <1>17, <1>18, <1>21, <3>1
    <3>3. kept[i] = all[j]
      <4>1. \A h \in (o + 1)..len : all[h] \in Nat
        BY <1>13, <1>15, <1>17
      <4>2. o + 1 \in Int /\ len \in Int /\ i \in 1..(len - (o + 1) + 1)
        BY <1>13, <1>17, <1>18, <1>21, <3>2
      <4>3. kept[i] = all[o + 1 + i - 1]
        BY <2>1, <4>1, <4>2, SubSeqProperties
      <4>4. o + 1 + i - 1 = j
        BY <1>17, <3>2
      <4>. QED
        BY <4>3, <4>4
    <3>4. all[j] = a + j - 1
      BY <1>16, <3>2
    <3>. QED
      BY <1>6, <1>17, <3>2, <3>3, <3>4
  <2>4. DOMAIN kept = 1..rest
    BY <2>2
  <2>. QED
    BY <2>2, <2>3, <2>4
<1>23. InOneRun(kept, next)
  <2>1. SUFFICES ASSUME NEW i \in 1..rest
                 PROVE  kept[i] = kept[1] + i - 1 /\ (i = rest => kept[i] + 1 >= next)
    BY <1>22 DEF InOneRun
  <2>2. i \in Nat /\ 1 \in 1..rest
    BY <1>21
  <2>3. kept[i] = a + o + i - 1 /\ kept[1] = a + o + 1 - 1
    BY <1>22, <2>2
  <2>4. next <= a + len
    BY <1>2, <1>6, <1>13, <1>14, <1>19
  <2>. QED
    BY <1>6, <1>13, <1>17, <1>19, <1>21, <2>2, <2>3, <2>4
<1>24. kept # <<>> => gone + o <= kept[1] /\ kept[1] <= next /\ kept[Len(kept)] < logEnd
  <2>1. SUFFICES ASSUME kept # <<>>
                 PROVE  gone + o <= kept[1] /\ kept[1] <= next /\ kept[rest] < logEnd
    BY <1>22
  <2>2. rest \in 1..rest /\ 1 \in 1..rest
    BY <1>21, <1>22, <2>1
  <2>3. kept[1] = a + o + 1 - 1 /\ kept[rest] = a + o + rest - 1
    BY <1>22, <2>2
  <2>. QED
    <3>1. kept[1] = a + o /\ gone + o <= a + o
      BY <1>6, <1>17, <2>3
    <3>2. kept[rest] = a + len - 1
      BY <1>6, <1>13, <1>17, <1>21, <2>3
    <3>3. a + len - 1 < logEnd
      BY <1>6, <1>13, <1>14
    <3>. QED
      BY <1>20, <3>1, <3>2, <3>3
<1>25. gone + o <= next /\ Len(kept) <= Limit
  BY <1>1, <1>6, <1>13, <1>17, <1>18, <1>19, <1>20, <1>21, <1>22
<1>. QED
  BY <1>e, <1>g, <1>h, <1>i, <1>17, <1>19, <1>22, <1>23, <1>24, <1>25

(* A call of the tail with session number n. *)
Tailing(call, n) == call.kind \in {"first", "poll"} /\ call.session = n

MessageTypes ==
  /\ MessageTypeOK
  /\ logEnd \in 0..LogEnd /\ droppedCount <= logEnd
  /\ window \in Windows /\ timer \in TimedPolls /\ calls \in Seq(CallsOfMain)
  /\ \A c \in DOMAIN calls : calls[c].from <= logEnd

(* While the page waits for a window, no tail of it runs. *)
BrowsesAlone ==
  \A c \in DOMAIN calls : calls[c].kind = "browse" /\ operation = c =>
    /\ timer = NoPoll /\ ~tail /\ calls[c].topic = topic
    /\ \A d \in DOMAIN calls : ~Tailing(calls[d], session)

(* A tail has one call under way or its timer is armed, and goes on where its window ends. *)
TailsAlone ==
  \A c \in DOMAIN calls : Tailing(calls[c], session) =>
    /\ timer = NoPoll /\ session > 0 /\ calls[c].topic = topic
    /\ \A d \in DOMAIN calls : Tailing(calls[d], session) => d = c
    /\ calls[c].kind = "poll" => GoesOn(window, droppedCount, calls[c].from, logEnd)
TimedAlone ==
  timer # NoPoll => /\ timer.session = session /\ session > 0
                    /\ GoesOn(window, droppedCount, timer.from, logEnd)

TailRuns == tail /\ ~loading /\ mounted => InOneRun(window.records, window.next)

MessageInv ==
  MessageTypes /\ BrowsesAlone /\ TailsAlone /\ TimedAlone /\ TailRuns /\ LoadingEnds /\ ShowsItsTopic

LEMMA EmptyWindow ==
  /\ NoWindow \in Windows /\ Len(NoWindow.records) = 0 /\ NoWindow.next = 0 /\ NoWindow.topic = 0
  /\ NoWindow.partition = First
  /\ InOneRun(NoWindow.records, NoWindow.next)
  /\ \A gone, from, end \in Nat : gone <= from => GoesOn(NoWindow, gone, from, end)
<1>1. NoWindow.records = <<>> /\ <<>> \in Seq(Nat) /\ DOMAIN <<>> = {} /\ Len(<<>>) = 0
  BY DEF NoWindow
<1>2. First \in Partition
  BY MessageAssumption
<1>3. NoWindow \in Windows
  BY <1>1, <1>2 DEF NoWindow, Windows
<1>4. InOneRun(NoWindow.records, NoWindow.next)
  BY <1>1 DEF InOneRun
<1>5. NoWindow.next = 0 /\ NoWindow.topic = 0 /\ NoWindow.partition = First
  BY DEF NoWindow
<1>. QED
  BY <1>1, <1>3, <1>4, <1>5 DEF GoesOn

LEMMA NoTimedPoll ==
  NoPoll \in TimedPolls /\ NoPoll.session = 0 /\ NoPoll.partition = First /\ NoPoll.from = 0
BY MessageAssumption DEF NoPoll, TimedPolls

LEMMA AnsweredCall ==
  /\ Answered \in CallsOfMain /\ Answered.kind = "over" /\ Answered.topic = 1 /\ Answered.from = 0
  /\ Answered.session = 0
BY MessageAssumption DEF Answered, CallsOfMain

LEMMA MessageInitInv == MessageInit => MessageInv
<1>. SUFFICES ASSUME MessageInit PROVE MessageInv
  OBVIOUS
<1>1. /\ topic = 1 /\ mounted = TRUE /\ partition = First /\ loading = FALSE /\ window = NoWindow
      /\ operation = 0 /\ session = 0 /\ tail = FALSE /\ droppedCount = 0 /\ timer = NoPoll
      /\ calls = <<>> /\ logEnd = 0
  BY DEF MessageInit
<1>2. calls \in Seq(CallsOfMain) /\ Len(calls) = 0 /\ DOMAIN calls = {}
  BY <1>1
<1>3. First \in Partition /\ Limit \in Nat /\ LogEnd \in Nat /\ MaxCalls \in Nat /\ MaxTopics \in Nat
  BY MessageAssumption
<1>4. MessageTypeOK
  <2>1. window.topic = 0 /\ window.partition = First /\ Len(window.records) = 0 /\ window.next = 0
    BY <1>1, EmptyWindow
  <2>2. timer.from = 0
    BY <1>1, NoTimedPoll
  <2>3. {mounted, loading, tail} \subseteq BOOLEAN
    BY <1>1
  <2>4. topic \in 1..(MaxTopics + 1) /\ operation \in 0..Len(calls) /\ droppedCount \in 0..LogEnd
    BY <1>1, <1>2, <1>3
  <2>. QED
    BY <1>1, <1>2, <1>3, <2>1, <2>2, <2>3, <2>4 DEF MessageTypeOK
<1>5. MessageTypes
  BY <1>1, <1>2, <1>3, <1>4, EmptyWindow, NoTimedPoll DEF MessageTypes
<1>. QED
  BY <1>1, <1>2, <1>5, EmptyWindow
     DEF MessageInv, BrowsesAlone, TailsAlone, TimedAlone, TailRuns, LoadingEnds, ShowsItsTopic

(* A call that is made is the last; one that ends is as if it had never been. *)
LEMMA MadeCall ==
  ASSUME calls \in Seq(CallsOfMain), NEW call \in CallsOfMain, calls' = Append(calls, call)
  PROVE  /\ calls' \in Seq(CallsOfMain) /\ Len(calls) \in Nat /\ Len(calls') = Len(calls) + 1
         /\ DOMAIN calls = 1..Len(calls) /\ DOMAIN calls' = 1..(Len(calls) + 1)
         /\ \A d \in DOMAIN calls : d \in DOMAIN calls' /\ calls'[d] = calls[d]
         /\ calls'[Len(calls) + 1] = call
         /\ \A d \in DOMAIN calls' : d \in DOMAIN calls \/ d = Len(calls) + 1
OBVIOUS

LEMMA EndedCall ==
  ASSUME calls \in Seq(CallsOfMain), NEW c \in DOMAIN calls, Ends(c)
  PROVE  /\ calls' \in Seq(CallsOfMain) /\ Len(calls') = Len(calls) /\ DOMAIN calls' = DOMAIN calls
         /\ calls'[c] = Answered
         /\ \A d \in DOMAIN calls : d # c => calls'[d] = calls[d]
<1>1. calls' = [calls EXCEPT ![c] = Answered] /\ Answered \in CallsOfMain
  BY AnsweredCall DEF Ends
<1>2. DOMAIN calls = 1..Len(calls) /\ Len(calls) \in Nat
  OBVIOUS
<1>3. calls' \in [1..Len(calls) -> CallsOfMain]
  BY <1>1, <1>2
<1>. QED
  BY <1>1, <1>2, <1>3

(* What the invariant says of the state, and of the constants. *)
MessageFacts ==
  /\ First \in Partition /\ Limit \in Nat \ {0} /\ {LogEnd, MaxCalls, MaxTopics} \subseteq Nat
  /\ topic \in Nat /\ topic \in 1..(MaxTopics + 1)
  /\ mounted \in BOOLEAN /\ loading \in BOOLEAN /\ tail \in BOOLEAN
  /\ partition \in Partition /\ window \in Windows /\ window.topic \in 0..topic
  /\ Len(window.records) <= Limit /\ window.next <= logEnd
  /\ operation \in 0..Len(calls) /\ session \in Nat
  /\ droppedCount \in Nat /\ droppedCount <= logEnd
  /\ timer \in TimedPolls /\ timer.from <= logEnd
  /\ calls \in Seq(CallsOfMain) /\ Len(calls) \in Nat /\ Len(calls) <= MaxCalls
  /\ logEnd \in Nat /\ logEnd <= LogEnd

CallsFit(of, last, number, end) ==
  \A c \in DOMAIN of : /\ of[c].kind \in {"browse", "first", "poll", "over"}
                       /\ of[c].topic \in 1..last /\ of[c].session \in 0..number
                       /\ of[c].from <= end

LEMMA FactsOfTypes == MessageTypes => MessageFacts /\ CallsFit(calls, topic, session, logEnd)
<1>. SUFFICES ASSUME MessageTypes PROVE MessageFacts /\ CallsFit(calls, topic, session, logEnd)
  OBVIOUS
<1>1. CallsFit(calls, topic, session, logEnd)
  BY DEF MessageTypes, MessageTypeOK, CallsFit
<1>2. First \in Partition /\ Limit \in Nat \ {0} /\ {LogEnd, MaxCalls, MaxTopics} \subseteq Nat
  BY MessageAssumption
<1>3. logEnd \in Nat /\ logEnd <= LogEnd /\ droppedCount \in Nat /\ droppedCount <= logEnd
  BY <1>2 DEF MessageTypes, MessageTypeOK
<1>4. topic \in Nat /\ topic \in 1..(MaxTopics + 1)
  BY <1>2 DEF MessageTypes, MessageTypeOK
<1>5. mounted \in BOOLEAN /\ loading \in BOOLEAN /\ tail \in BOOLEAN
  BY DEF MessageTypes, MessageTypeOK
<1>6. /\ partition \in Partition /\ window \in Windows /\ window.topic \in 0..topic
      /\ Len(window.records) <= Limit /\ window.next <= logEnd
      /\ operation \in 0..Len(calls) /\ session \in Nat
      /\ timer \in TimedPolls /\ timer.from <= logEnd
      /\ calls \in Seq(CallsOfMain) /\ Len(calls) <= MaxCalls
  BY DEF MessageTypes, MessageTypeOK
<1>7. Len(calls) \in Nat
  BY <1>6
<1>. QED
  BY <1>1, <1>2, <1>3, <1>4, <1>5, <1>6, <1>7 DEF MessageFacts

LEMMA TypesOfFacts == MessageFacts /\ CallsFit(calls, topic, session, logEnd) => MessageTypes
<1>. SUFFICES ASSUME MessageFacts, CallsFit(calls, topic, session, logEnd) PROVE MessageTypes
  OBVIOUS
<1>1. \A c \in DOMAIN calls : /\ calls[c].kind \in {"browse", "first", "poll", "over"}
                              /\ calls[c].topic \in 1..topic /\ calls[c].session \in 0..session
                              /\ calls[c].from <= logEnd
  BY DEF CallsFit
<1>2. {mounted, loading, tail} \subseteq BOOLEAN
  BY DEF MessageFacts
<1>3. window.partition \in Partition
  BY DEF MessageFacts, Windows
<1>4. droppedCount \in 0..LogEnd /\ logEnd \in 0..LogEnd
  BY DEF MessageFacts
<1>5. MessageTypeOK
  BY <1>1, <1>2, <1>3, <1>4 DEF MessageFacts, MessageTypeOK
<1>. QED
  BY <1>1, <1>4, <1>5 DEF MessageTypes, MessageFacts

LEMMA TypesLater ==
  MessageFacts' /\ CallsFit(calls', topic', session', logEnd') => MessageTypes'
<1>1. MessageFacts /\ CallsFit(calls, topic, session, logEnd) => MessageTypes
  BY TypesOfFacts
<1>2. (MessageFacts /\ CallsFit(calls, topic, session, logEnd) => MessageTypes)'
  BY <1>1, PTL
<1>. QED
  BY <1>2

LEMMA CallParts ==
  ASSUME calls \in Seq(CallsOfMain)
  PROVE  \A c \in DOMAIN calls : /\ calls[c] \in CallsOfMain /\ calls[c].from \in Nat
                                  /\ calls[c].partition \in Partition /\ calls[c].topic \in Nat
                                  /\ calls[c].session \in Nat
<1>1. \A c \in DOMAIN calls : calls[c] \in CallsOfMain
  OBVIOUS
<1>. QED
  BY <1>1 DEF CallsOfMain

(* With a new session number no call is one of the tail. *)
LEMMA NewSession ==
  ASSUME MessageInv, session' > session, session' \in Nat
  PROVE  \A c \in DOMAIN calls : ~Tailing(calls[c], session')
<1>1. CallsFit(calls, topic, session, logEnd) /\ session \in Nat
  BY FactsOfTypes DEF MessageInv, MessageFacts
<1>. QED
  BY <1>1 DEF CallsFit, Tailing

(* The calls stay, and the tail is left, or was none. *)
LEMMA TailLeft ==
  ASSUME MessageInv, session' \in Nat, session' > session, timer' = NoPoll, calls' = calls,
         operation' \in {operation, 0}, topic' >= topic, topic' \in Nat, operation' # 0 => topic' = topic /\ ~tail'
  PROVE  BrowsesAlone' /\ TailsAlone' /\ TimedAlone'
<1>1. \A c \in DOMAIN calls' : ~Tailing(calls'[c], session')
  BY NewSession
<1>2. CallsFit(calls, topic, session, logEnd) /\ calls \in Seq(CallsOfMain) /\ 0 \notin DOMAIN calls
  BY FactsOfTypes DEF MessageInv, MessageFacts
<1>3. BrowsesAlone'
  BY <1>1, <1>2 DEF MessageInv, BrowsesAlone
<1>. QED
  BY <1>1, <1>3 DEF TailsAlone, TimedAlone

LEMMA PressesStopInv == MessageInv /\ PressesStop => MessageInv'
<1>. SUFFICES ASSUME MessageInv, PressesStop PROVE MessageInv'
  OBVIOUS
<1>1. MessageFacts /\ CallsFit(calls, topic, session, logEnd)
  BY FactsOfTypes DEF MessageInv
<1>2. /\ session' = session + 1 /\ timer' = NoPoll /\ tail' = FALSE /\ loading = FALSE
      /\ UNCHANGED <<topic, mounted, partition, loading, window, operation, droppedCount, calls, logEnd>>
  BY <1>1 DEF PressesStop, StopsTail, NextSession, MessageFacts
<1>3. MessageFacts'
  <2>0. logEnd \in Nat /\ session \in Nat
    BY <1>1 DEF MessageFacts
  <2>1. timer' \in TimedPolls /\ timer'.from <= logEnd'
    BY <1>2, <2>0, NoTimedPoll
  <2>2. session' \in Nat 
    BY <1>2, <2>0
  <2>3. tail' \in BOOLEAN
    BY <1>2
  <2>. QED
    BY <1>1, <1>2, <2>1, <2>2, <2>3 DEF MessageFacts
<1>4. CallsFit(calls', topic', session', logEnd')
  BY <1>1, <1>2 DEF CallsFit, MessageFacts
<1>5. BrowsesAlone' /\ TailsAlone' /\ TimedAlone'
  BY <1>1, <1>2, TailLeft DEF MessageFacts
<1>6. TailRuns' /\ LoadingEnds' /\ ShowsItsTopic'
  BY <1>2 DEF MessageInv, TailRuns, LoadingEnds, ShowsItsTopic
<1>7. MessageTypes'
  BY <1>3, <1>4, TypesLater
<1>. QED
  BY <1>5, <1>6, <1>7 DEF MessageInv

LEMMA UnmountsInv == MessageInv /\ Unmounts => MessageInv'
<1>. SUFFICES ASSUME MessageInv, Unmounts PROVE MessageInv'
  OBVIOUS
<1>1. MessageFacts /\ CallsFit(calls, topic, session, logEnd)
  BY FactsOfTypes DEF MessageInv
<1>2. /\ mounted' = FALSE /\ operation' = 0 /\ session' = session + 1 /\ timer' = NoPoll
      /\ UNCHANGED <<topic, partition, loading, window, tail, droppedCount, calls, logEnd>>
  BY DEF Unmounts, NextSession
<1>3. MessageFacts'
  <2>0. logEnd \in Nat /\ session \in Nat /\ Len(calls) \in Nat
    BY <1>1 DEF MessageFacts
  <2>1. timer' \in TimedPolls /\ timer'.from <= logEnd'
    BY <1>2, <2>0, NoTimedPoll
  <2>2. session' \in Nat /\ operation' \in 0..Len(calls')
    BY <1>2, <2>0
  <2>3. mounted' \in BOOLEAN
    BY <1>2
  <2>. QED
    BY <1>1, <1>2, <2>1, <2>2, <2>3 DEF MessageFacts
<1>4. CallsFit(calls', topic', session', logEnd')
  BY <1>1, <1>2 DEF CallsFit, MessageFacts
<1>5. BrowsesAlone' /\ TailsAlone' /\ TimedAlone'
  BY <1>1, <1>2, TailLeft DEF MessageFacts
<1>6. TailRuns' /\ LoadingEnds' /\ ShowsItsTopic'
  BY <1>2 DEF MessageInv, TailRuns, LoadingEnds, ShowsItsTopic
<1>7. MessageTypes'
  BY <1>3, <1>4, TypesLater
<1>. QED
  BY <1>5, <1>6, <1>7 DEF MessageInv

LEMMA TopicChangesInv == MessageInv /\ TopicChanges => MessageInv'
<1>. SUFFICES ASSUME MessageInv, TopicChanges PROVE MessageInv'
  OBVIOUS
<1>1. MessageFacts /\ CallsFit(calls, topic, session, logEnd)
  BY FactsOfTypes DEF MessageInv
<1>2. /\ topic <= MaxTopics /\ topic' = topic + 1 /\ partition' = First /\ loading' = FALSE
      /\ window' = NoWindow /\ operation' = 0 /\ session' = session + 1 /\ timer' = NoPoll
      /\ tail' = FALSE /\ droppedCount' = 0 /\ UNCHANGED <<mounted, calls, logEnd>>
  BY DEF TopicChanges, NextSession
<1>0. /\ logEnd \in Nat /\ session \in Nat /\ Len(calls) \in Nat /\ topic \in Nat /\ MaxTopics \in Nat
      /\ Limit \in Nat
  BY <1>1 DEF MessageFacts
<1>3. MessageFacts'
  <2>1. timer' \in TimedPolls /\ timer'.from <= logEnd'
    BY <1>0, <1>2, NoTimedPoll
  <2>2. session' \in Nat /\ operation' \in 0..Len(calls') /\ topic' \in Nat
        /\ topic' \in 1..(MaxTopics + 1) /\ droppedCount' \in Nat /\ droppedCount' <= logEnd'
    BY <1>0, <1>2
  <2>3. loading' \in BOOLEAN /\ tail' \in BOOLEAN
    BY <1>2
  <2>4. window'.topic = 0 /\ window'.next = 0 /\ Len(window'.records) = 0 /\ window' \in Windows
    BY <1>2, EmptyWindow
  <2>5. window'.topic \in 0..topic' /\ window'.next <= logEnd' /\ Len(window'.records) <= Limit
    BY <1>0, <1>2, <2>2, <2>4
  <2>. QED
    BY <1>1, <1>2, <2>1, <2>2, <2>3, <2>4, <2>5 DEF MessageFacts
<1>4. CallsFit(calls', topic', session', logEnd')
  BY <1>0, <1>1, <1>2 DEF CallsFit
<1>5. BrowsesAlone' /\ TailsAlone' /\ TimedAlone'
  BY <1>0, <1>2, TailLeft
<1>6. TailRuns' /\ LoadingEnds' /\ ShowsItsTopic'
  BY <1>2 DEF TailRuns, LoadingEnds, ShowsItsTopic
<1>7. MessageTypes'
  BY <1>3, <1>4, TypesLater
<1>. QED
  BY <1>5, <1>6, <1>7 DEF MessageInv

(* The page is emptied, and a tail goes on from an empty window. *)
LEMMA EmptiesInv ==
  ASSUME MessageInv, window' = NoWindow, loading' = FALSE, partition' \in Partition,
         UNCHANGED <<topic, mounted, operation, session, tail, droppedCount, timer, calls, logEnd>>
  PROVE  MessageInv'
<1>1. MessageFacts /\ CallsFit(calls, topic, session, logEnd)
  BY FactsOfTypes DEF MessageInv
<1>0. /\ logEnd \in Nat /\ topic \in Nat /\ Limit \in Nat /\ droppedCount \in Nat
      /\ timer \in TimedPolls /\ calls \in Seq(CallsOfMain)
  BY <1>1 DEF MessageFacts
<1>3. MessageFacts'
  <2>4. window'.topic = 0 /\ window'.next = 0 /\ Len(window'.records) = 0 /\ window' \in Windows
    BY EmptyWindow
  <2>5. window'.topic \in 0..topic' /\ window'.next <= logEnd' /\ Len(window'.records) <= Limit
    BY <1>0, <2>4
  <2>6. loading' \in BOOLEAN
    OBVIOUS
  <2>. QED
    BY <1>1, <2>4, <2>5, <2>6 DEF MessageFacts
<1>4. CallsFit(calls', topic', session', logEnd')
  BY <1>1
<1>5. \A from \in Nat : GoesOn(window, droppedCount, from, logEnd)
                          => GoesOn(window', droppedCount', from, logEnd')
  <2>1. \A from \in Nat : GoesOn(window, droppedCount, from, logEnd) => droppedCount <= from
    BY DEF GoesOn
  <2>. QED
    BY <1>0, <2>1, EmptyWindow
<1>6. BrowsesAlone'
  BY DEF MessageInv, BrowsesAlone
<1>7. TailsAlone'
  <2>1. \A c \in DOMAIN calls : calls[c].from \in Nat
    BY <1>0, CallParts
  <2>. QED
    BY <1>5, <2>1 DEF MessageInv, TailsAlone
<1>8. TimedAlone'
  <2>1. timer.from \in Nat
    BY <1>0 DEF TimedPolls
  <2>. QED
    BY <1>5, <2>1 DEF MessageInv, TimedAlone
<1>9. TailRuns' /\ LoadingEnds' /\ ShowsItsTopic'
  BY EmptyWindow DEF TailRuns, LoadingEnds, ShowsItsTopic
<1>10. MessageTypes'
  BY <1>3, <1>4, TypesLater
<1>. QED
  BY <1>6, <1>7, <1>8, <1>9, <1>10 DEF MessageInv

LEMMA ProducesInv == MessageInv /\ Produces => MessageInv'
<1>. SUFFICES ASSUME MessageInv, Produces PROVE MessageInv'
  OBVIOUS
<1>1. MessageFacts /\ CallsFit(calls, topic, session, logEnd)
  BY FactsOfTypes DEF MessageInv
<1>2. /\ logEnd < LogEnd /\ logEnd' = logEnd + 1
      /\ UNCHANGED <<topic, mounted, partition, loading, window, operation, session, tail, droppedCount,
                     timer, calls>>
  BY DEF Produces
<1>0. /\ logEnd \in Nat /\ LogEnd \in Nat /\ droppedCount \in Nat /\ timer \in TimedPolls
      /\ calls \in Seq(CallsOfMain) /\ window \in Windows
  BY <1>1 DEF MessageFacts
<1>a. window.next \in Nat /\ timer.from \in Nat /\ window.records \in Seq(Nat)
      /\ \A c \in DOMAIN calls : calls[c].from \in Nat
  BY <1>0, CallParts DEF Windows, TimedPolls
<1>3. MessageFacts'
  <2>1. window'.next <= logEnd' /\ timer'.from <= logEnd' /\ droppedCount' <= logEnd'
        /\ logEnd' \in Nat /\ logEnd' <= LogEnd
    BY <1>0, <1>1, <1>2, <1>a DEF MessageFacts
  <2>. QED
    BY <1>1, <1>2, <2>1 DEF MessageFacts
<1>4. CallsFit(calls', topic', session', logEnd')
  BY <1>0, <1>1, <1>2, <1>a DEF CallsFit
<1>5. \A from \in Nat : GoesOn(window, droppedCount, from, logEnd)
                          => GoesOn(window', droppedCount', from, logEnd')
  <2>1. window.records # <<>> => window.records[Len(window.records)] \in Nat
    BY <1>a
  <2>. QED
    BY <1>0, <1>2, <2>1 DEF GoesOn
<1>6. BrowsesAlone'
  BY <1>2 DEF MessageInv, BrowsesAlone
<1>7. TailsAlone'
  BY <1>2, <1>5, <1>a DEF MessageInv, TailsAlone
<1>8. TimedAlone'
  BY <1>2, <1>5, <1>a DEF MessageInv, TimedAlone
<1>9. TailRuns' /\ LoadingEnds' /\ ShowsItsTopic'
  BY <1>2 DEF MessageInv, TailRuns, LoadingEnds, ShowsItsTopic, Wanted, OfSession, OfOperation
<1>10. MessageTypes'
  BY <1>3, <1>4, TypesLater
<1>. QED
  BY <1>6, <1>7, <1>8, <1>9, <1>10 DEF MessageInv

(* A call that is not wanted, or whose answer has been taken, is not among those that count. *)
LEMMA EndsCall ==
  ASSUME MessageInv, NEW c \in DOMAIN calls, Ends(c)
  PROVE  /\ calls' \in Seq(CallsOfMain) /\ Len(calls') = Len(calls) /\ DOMAIN calls' = DOMAIN calls
         /\ calls'[c].kind = "over" /\ ~Tailing(calls'[c], session')
         /\ \A d \in DOMAIN calls : d # c => calls'[d] = calls[d]
         /\ CallsFit(calls', topic, session, logEnd)
<1>1. /\ MessageFacts /\ CallsFit(calls, topic, session, logEnd) /\ calls \in Seq(CallsOfMain)
      /\ topic \in Nat /\ topic \in 1..(MaxTopics + 1) /\ session \in Nat /\ logEnd \in Nat
  BY FactsOfTypes DEF MessageInv, MessageFacts
<1>2. /\ calls' \in Seq(CallsOfMain) /\ Len(calls') = Len(calls) /\ DOMAIN calls' = DOMAIN calls
      /\ calls'[c] = Answered
      /\ \A d \in DOMAIN calls : d # c => calls'[d] = calls[d]
  BY <1>1, EndedCall
<1>3. calls'[c].kind = "over" /\ calls'[c].topic = 1 /\ calls'[c].from = 0 /\ calls'[c].session = 0
  BY <1>2, AnsweredCall
<1>4. 1 \in 1..topic /\ 0 \in 0..session /\ 0 <= logEnd
  BY <1>1
<1>5. CallsFit(calls', topic, session, logEnd)
  BY <1>1, <1>2, <1>3, <1>4 DEF CallsFit
<1>. QED
  BY <1>2, <1>3, <1>5 DEF Tailing

LEMMA AnswersLateInv ==
  ASSUME MessageInv, NEW c \in DOMAIN calls, AnswersLate(c)
  PROVE  MessageInv'
<1>1. MessageFacts /\ CallsFit(calls, topic, session, logEnd)
  BY FactsOfTypes DEF MessageInv
<1>2. /\ calls[c].kind # "over" /\ ~Wanted(c) /\ Ends(c)
      /\ UNCHANGED <<topic, mounted, partition, loading, window, operation, session, tail,
                     droppedCount, timer, logEnd>>
  BY DEF AnswersLate, Ignored
<1>3. /\ calls' \in Seq(CallsOfMain) /\ Len(calls') = Len(calls) /\ DOMAIN calls' = DOMAIN calls
      /\ calls'[c].kind = "over" /\ ~Tailing(calls'[c], session')
      /\ \A d \in DOMAIN calls : d # c => calls'[d] = calls[d]
      /\ CallsFit(calls', topic, session, logEnd)
  BY <1>2, EndsCall
<1>4. MessageTypes'
  <2>1. MessageFacts'
    BY <1>1, <1>2, <1>3 DEF MessageFacts
  <2>2. CallsFit(calls', topic', session', logEnd')
    BY <1>2, <1>3
  <2>. QED
    BY <2>1, <2>2, TypesLater
<1>5. BrowsesAlone'
  BY <1>2, <1>3 DEF MessageInv, BrowsesAlone
<1>6. TailsAlone'
  BY <1>2, <1>3 DEF MessageInv, TailsAlone
<1>7. TimedAlone' /\ TailRuns' /\ ShowsItsTopic'
  BY <1>2 DEF MessageInv, TimedAlone, TailRuns, ShowsItsTopic
<1>8. LoadingEnds'
  BY <1>2, <1>3 DEF MessageInv, LoadingEnds, Wanted, OfSession, OfOperation
<1>. QED
  BY <1>4, <1>5, <1>6, <1>7, <1>8 DEF MessageInv

(* A read of a partition that the tail was not left for. *)
LEMMA AnswersBrowseInv ==
  ASSUME MessageInv, NEW c \in DOMAIN calls, AnswersBrowse(c)
  PROVE  MessageInv'
<1>1. MessageFacts /\ CallsFit(calls, topic, session, logEnd)
  BY FactsOfTypes DEF MessageInv
<1>0. /\ logEnd \in Nat /\ topic \in Nat /\ Limit \in Nat /\ calls \in Seq(CallsOfMain)
      /\ calls[c].from \in Nat /\ calls[c].from <= logEnd /\ calls[c].topic \in Nat
      /\ calls[c].partition \in Partition
  BY <1>1, CallParts DEF MessageFacts, CallsFit
<1>2. /\ calls[c].kind = "browse" /\ operation = c /\ Ends(c) /\ loading' = FALSE
      /\ UNCHANGED <<topic, mounted, partition, operation, session, tail, droppedCount, timer, logEnd>>
  BY DEF AnswersBrowse, Wanted, OfOperation
<1>3. PICK high \in calls[c].from..logEnd :
        window' = Window(calls[c], NextFrom(calls[c].from, high), Read(calls[c].from, high))
  BY DEF AnswersBrowse
<1>4. /\ timer = NoPoll /\ ~tail /\ calls[c].topic = topic
      /\ \A d \in DOMAIN calls : ~Tailing(calls[d], session)
  BY <1>2 DEF MessageInv, BrowsesAlone
<1>5. /\ calls' \in Seq(CallsOfMain) /\ Len(calls') = Len(calls) /\ DOMAIN calls' = DOMAIN calls
      /\ calls'[c].kind = "over" /\ ~Tailing(calls'[c], session')
      /\ \A d \in DOMAIN calls : d # c => calls'[d] = calls[d]
      /\ CallsFit(calls', topic, session, logEnd)
  BY <1>2, EndsCall
<1>6. /\ window' \in Windows /\ window'.topic = topic /\ Len(window'.records) <= Limit
      /\ window'.next <= logEnd
  <2>1. PICK from \in Nat : from = calls[c].from
    BY <1>0
  <2>2. PICK k \in Nat :
          /\ k <= Limit /\ from + k <= logEnd
          /\ Read(from, high) = [i \in 1..k |-> from + i - 1]
          /\ NextFrom(from, high) \in from..high /\ NextFrom(from, high) <= from + k
    BY <1>0, <1>3, <2>1, ReadRuns
  <2>3. PICK records : records = Read(from, high)
    OBVIOUS
  <2>4. PICK next : next = NextFrom(from, high)
    OBVIOUS
  <2>5. records \in Seq(Nat) /\ Len(records) <= Limit
    <3>1. \A i \in 1..k : from + i - 1 \in Nat
      BY <2>1
    <3>. QED
      BY <2>2, <2>3, <3>1
  <2>6. next \in Nat /\ next <= logEnd
    <3>1. high \in Nat /\ high <= logEnd
      BY <1>0, <1>3, <2>1
    <3>2. next \in from..high
      BY <2>2, <2>4
    <3>. QED
      BY <1>0, <2>1, <3>1, <3>2
  <2>7. window' = [topic |-> calls[c].topic, partition |-> calls[c].partition, next |-> next,
                   records |-> records]
    BY <1>3, <2>1, <2>3, <2>4 DEF Window
  <2>. QED
    BY <1>0, <1>4, <2>5, <2>6, <2>7 DEF Windows
<1>7. MessageTypes'
  <2>1. window'.topic \in 0..topic
    BY <1>0, <1>6
  <2>2. MessageFacts'
    BY <1>1, <1>2, <1>5, <1>6, <2>1 DEF MessageFacts
  <2>3. CallsFit(calls', topic', session', logEnd')
    BY <1>2, <1>5
  <2>. QED
    BY <2>2, <2>3, TypesLater
<1>8. \A d \in DOMAIN calls' : ~Tailing(calls'[d], session')
  BY <1>2, <1>4, <1>5
<1>9. BrowsesAlone' /\ TailsAlone' /\ TimedAlone'
  BY <1>2, <1>4, <1>5, <1>8 DEF BrowsesAlone, TailsAlone, TimedAlone
<1>10. TailRuns' /\ LoadingEnds' /\ ShowsItsTopic'
  BY <1>2, <1>4, <1>6 DEF TailRuns, LoadingEnds, ShowsItsTopic
<1>. QED
  BY <1>7, <1>9, <1>10 DEF MessageInv

(* The tail begins behind what was there. *)
LEMMA AnswersFirstInv ==
  ASSUME MessageInv, NEW c \in DOMAIN calls, AnswersFirst(c)
  PROVE  MessageInv'
<1>1. MessageFacts /\ CallsFit(calls, topic, session, logEnd)
  BY FactsOfTypes DEF MessageInv
<1>0. /\ logEnd \in Nat /\ topic \in Nat /\ Limit \in Nat /\ calls \in Seq(CallsOfMain)
      /\ calls[c].topic \in Nat /\ calls[c].partition \in Partition /\ session \in Nat
  BY <1>1, CallParts DEF MessageFacts
<1>2. /\ calls[c].kind = "first" /\ calls[c].session = session /\ Ends(c)
      /\ loading' = FALSE /\ tail' = TRUE /\ droppedCount' = 0
      /\ UNCHANGED <<topic, mounted, partition, operation, session, logEnd>>
  BY DEF AnswersFirst, Wanted, OfSession
<1>3. PICK high \in 0..logEnd :
        /\ window' = Window(calls[c], high, <<>>)
        /\ timer' = [session |-> session, partition |-> calls[c].partition, from |-> high]
  BY DEF AnswersFirst
<1>4. /\ timer = NoPoll /\ session > 0 /\ calls[c].topic = topic
      /\ \A d \in DOMAIN calls : Tailing(calls[d], session) => d = c
  BY <1>2 DEF MessageInv, TailsAlone, Tailing
<1>5. /\ calls' \in Seq(CallsOfMain) /\ Len(calls') = Len(calls) /\ DOMAIN calls' = DOMAIN calls
      /\ calls'[c].kind = "over" /\ ~Tailing(calls'[c], session')
      /\ \A d \in DOMAIN calls : d # c => calls'[d] = calls[d]
      /\ CallsFit(calls', topic, session, logEnd)
  BY <1>2, EndsCall
<1>6. high \in Nat /\ high <= logEnd
  BY <1>0
<1>7. window' = [topic |-> calls[c].topic, partition |-> calls[c].partition, next |-> high,
                 records |-> <<>>]
  BY <1>3 DEF Window
<1>8. /\ window' \in Windows /\ window'.topic = topic /\ window'.records = <<>> /\ window'.next = high
      /\ Len(window'.records) = 0
  BY <1>0, <1>4, <1>6, <1>7 DEF Windows
<1>9. timer' \in TimedPolls /\ timer'.from = high /\ timer'.session = session
  BY <1>0, <1>3, <1>6 DEF TimedPolls
<1>10. MessageTypes'
  <2>1. window'.topic \in 0..topic' /\ Len(window'.records) <= Limit /\ window'.next <= logEnd'
    BY <1>0, <1>2, <1>6, <1>8
  <2>2. droppedCount' \in Nat /\ droppedCount' <= logEnd'
    BY <1>0, <1>2
  <2>3. loading' \in BOOLEAN /\ tail' \in BOOLEAN
    BY <1>2
  <2>4. MessageFacts'
    BY <1>1, <1>2, <1>5, <1>6, <1>8, <1>9, <2>1, <2>2, <2>3 DEF MessageFacts
  <2>5. CallsFit(calls', topic', session', logEnd')
    BY <1>2, <1>5
  <2>. QED
    BY <2>4, <2>5, TypesLater
<1>11. \A d \in DOMAIN calls' : ~Tailing(calls'[d], session')
  BY <1>2, <1>4, <1>5
<1>12. BrowsesAlone'
  <2>1. \A d \in DOMAIN calls : ~(calls[d].kind = "browse" /\ operation = d)
    BY <1>2 DEF MessageInv, BrowsesAlone, Tailing
  <2>. QED
    BY <1>2, <1>5, <2>1 DEF BrowsesAlone
<1>13. TailsAlone'
  BY <1>11 DEF TailsAlone
<1>14. InOneRun(window'.records, window'.next)
  BY <1>8 DEF InOneRun
<1>15. TimedAlone'
  <2>1. GoesOn(window', droppedCount', timer'.from, logEnd')
    BY <1>2, <1>6, <1>8, <1>9, <1>14 DEF GoesOn
  <2>. QED
    BY <1>2, <1>4, <1>9, <2>1 DEF TimedAlone
<1>16. TailRuns' /\ LoadingEnds' /\ ShowsItsTopic'
  BY <1>2, <1>8, <1>14 DEF TailRuns, LoadingEnds, ShowsItsTopic
<1>. QED
  BY <1>10, <1>12, <1>13, <1>15, <1>16 DEF MessageInv

(* The window of the tail goes on. *)
LEMMA AnswersPollInv ==
  ASSUME MessageInv, NEW c \in DOMAIN calls, AnswersPoll(c)
  PROVE  MessageInv'
<1>1. MessageFacts /\ CallsFit(calls, topic, session, logEnd)
  BY FactsOfTypes DEF MessageInv
<1>0. /\ logEnd \in Nat /\ topic \in Nat /\ Limit \in Nat /\ calls \in Seq(CallsOfMain)
      /\ calls[c].from \in Nat /\ calls[c].from <= logEnd /\ calls[c].topic \in Nat
      /\ calls[c].partition \in Partition /\ session \in Nat /\ droppedCount \in Nat
      /\ window.records \in Seq(Nat) /\ Len(window.records) <= Limit
  BY <1>1, CallParts DEF MessageFacts, CallsFit, Windows
<1>2. /\ calls[c].kind = "poll" /\ calls[c].session = session /\ Ends(c)
      /\ loading' = FALSE /\ tail' = TRUE
      /\ UNCHANGED <<topic, mounted, partition, operation, session, logEnd>>
  BY DEF AnswersPoll, Wanted, OfSession
<1>3. PICK from \in Nat : from = calls[c].from
  BY <1>0
<1>4. PICK high \in from..logEnd :
        LET records == window.records \o New(Read(from, high))
            next == NextFrom(from, high)
        IN
        /\ window' = Window(calls[c], next, SubSeq(records, Over(records) + 1, Len(records)))
        /\ droppedCount' = droppedCount + Over(records)
        /\ timer' = [session |-> session, partition |-> calls[c].partition, from |-> next]
  BY <1>3 DEF AnswersPoll
<1>5. /\ timer = NoPoll /\ session > 0 /\ calls[c].topic = topic
      /\ \A d \in DOMAIN calls : Tailing(calls[d], session) => d = c
      /\ GoesOn(window, droppedCount, from, logEnd)
  BY <1>2, <1>3 DEF MessageInv, TailsAlone, Tailing
<1>6. /\ calls' \in Seq(CallsOfMain) /\ Len(calls') = Len(calls) /\ DOMAIN calls' = DOMAIN calls
      /\ calls'[c].kind = "over" /\ ~Tailing(calls'[c], session')
      /\ \A d \in DOMAIN calls : d # c => calls'[d] = calls[d]
      /\ CallsFit(calls', topic, session, logEnd)
  BY <1>2, EndsCall
<1>a. PICK records : records = window.records \o New(Read(from, high))
  OBVIOUS
<1>b. PICK next : next = NextFrom(from, high)
  OBVIOUS
<1>c. PICK kept : kept = SubSeq(records, Over(records) + 1, Len(records))
  OBVIOUS
<1>d. PICK over : over = Over(records)
  OBVIOUS
<1>e. PICK gone : gone = droppedCount + over
  OBVIOUS
<1>7. /\ kept \in Seq(Nat) /\ Len(kept) <= Limit /\ next \in Nat /\ next <= logEnd
      /\ over \in Nat /\ droppedCount + over <= next
      /\ kept # <<>> => /\ droppedCount + over <= kept[1] /\ kept[1] <= next
                        /\ kept[Len(kept)] < logEnd
      /\ InOneRun(kept, next)
  <2>1. LET all == window.records \o New(Read(from, high))
            after == NextFrom(from, high)
            rest == SubSeq(all, Over(all) + 1, Len(all))
        IN  /\ rest \in Seq(Nat) /\ Len(rest) <= Limit /\ after \in Nat /\ after <= logEnd
            /\ Over(all) \in Nat /\ droppedCount + Over(all) <= after
            /\ rest # <<>> => /\ droppedCount + Over(all) <= rest[1] /\ rest[1] <= after
                              /\ rest[Len(rest)] < logEnd
            /\ InOneRun(rest, after)
    BY <1>0, <1>5, PolledRuns
  <2>. QED
    BY <1>a, <1>b, <1>c, <1>d, <2>1
<1>8. window' = [topic |-> calls[c].topic, partition |-> calls[c].partition, next |-> next,
                 records |-> kept]
  BY <1>4, <1>a, <1>b, <1>c DEF Window
<1>9. droppedCount' = gone
      /\ timer' = [session |-> session, partition |-> calls[c].partition, from |-> next]
  BY <1>4, <1>a, <1>b, <1>d, <1>e
<1>10. /\ window' \in Windows /\ window'.topic = topic /\ window'.records = kept
       /\ window'.next = next
  BY <1>0, <1>5, <1>7, <1>8 DEF Windows
<1>11. timer' \in TimedPolls /\ timer'.from = next /\ timer'.session = session
  BY <1>0, <1>7, <1>9 DEF TimedPolls
<1>12. gone \in Nat /\ gone <= next
  BY <1>0, <1>7, <1>e
<1>13. MessageTypes'
  <2>1. window'.topic \in 0..topic' /\ Len(window'.records) <= Limit /\ window'.next <= logEnd'
    BY <1>0, <1>2, <1>7, <1>10
  <2>2. droppedCount' \in Nat /\ droppedCount' <= logEnd' /\ timer'.from <= logEnd'
    BY <1>0, <1>2, <1>7, <1>9, <1>11, <1>12
  <2>3. loading' \in BOOLEAN /\ tail' \in BOOLEAN
    BY <1>2
  <2>4. MessageFacts'
    BY <1>1, <1>2, <1>6, <1>10, <1>11, <2>1, <2>2, <2>3 DEF MessageFacts
  <2>5. CallsFit(calls', topic', session', logEnd')
    BY <1>2, <1>6
  <2>. QED
    BY <2>4, <2>5, TypesLater
<1>14. \A d \in DOMAIN calls' : ~Tailing(calls'[d], session')
  BY <1>2, <1>5, <1>6
<1>15. BrowsesAlone'
  <2>1. \A d \in DOMAIN calls : ~(calls[d].kind = "browse" /\ operation = d)
    BY <1>2 DEF MessageInv, BrowsesAlone, Tailing
  <2>. QED
    BY <1>2, <1>6, <2>1 DEF BrowsesAlone
<1>16. TailsAlone'
  BY <1>14 DEF TailsAlone
<1>17. TimedAlone'
  <2>1. GoesOn(window', droppedCount', timer'.from, logEnd')
    <3>1. kept # <<>> => gone <= kept[1] /\ kept[1] <= next /\ kept[Len(kept)] < logEnd
      BY <1>7, <1>e
    <3>. QED
      BY <1>2, <1>7, <1>9, <1>10, <1>11, <1>12, <3>1 DEF GoesOn
  <2>. QED
    BY <1>2, <1>5, <1>11, <2>1 DEF TimedAlone
<1>18. TailRuns' /\ LoadingEnds' /\ ShowsItsTopic'
  BY <1>2, <1>7, <1>10 DEF TailRuns, LoadingEnds, ShowsItsTopic
<1>. QED
  BY <1>13, <1>15, <1>16, <1>17, <1>18 DEF MessageInv

LEMMA FailsCallInv ==
  ASSUME MessageInv, NEW c \in DOMAIN calls, FailsCall(c)
  PROVE  MessageInv'
<1>1. MessageFacts /\ CallsFit(calls, topic, session, logEnd)
  BY FactsOfTypes DEF MessageInv
<1>0. /\ logEnd \in Nat /\ session \in Nat /\ calls \in Seq(CallsOfMain) /\ topic \in Nat
      /\ 0 \notin DOMAIN calls /\ tail \in BOOLEAN
  BY <1>1 DEF MessageFacts
<1>2. /\ calls[c].kind # "over" /\ Wanted(c) /\ Ends(c) /\ loading' = FALSE
      /\ UNCHANGED <<topic, mounted, partition, window, operation, droppedCount, logEnd>>
  BY DEF FailsCall, NotLoading
<1>3. /\ calls' \in Seq(CallsOfMain) /\ Len(calls') = Len(calls) /\ DOMAIN calls' = DOMAIN calls
      /\ calls'[c].kind = "over" /\ ~Tailing(calls'[c], session')
      /\ \A d \in DOMAIN calls : d # c => calls'[d] = calls[d]
      /\ CallsFit(calls', topic, session, logEnd)
  BY <1>2, EndsCall
<1>4. LoadingEnds' /\ ShowsItsTopic'
  BY <1>2 DEF MessageInv, LoadingEnds, ShowsItsTopic
<1>5. CASE calls[c].kind = "browse"
  <2>1. operation = c /\ UNCHANGED <<session, timer, tail>>
    BY <1>2, <1>5 DEF FailsCall, Wanted, OfOperation
  <2>2. /\ timer = NoPoll /\ ~tail
        /\ \A d \in DOMAIN calls : ~Tailing(calls[d], session)
    BY <1>5, <2>1 DEF MessageInv, BrowsesAlone
  <2>3. MessageTypes'
    <3>1. loading' \in BOOLEAN
      BY <1>2
    <3>2. MessageFacts'
      BY <1>1, <1>2, <1>3, <2>1, <3>1 DEF MessageFacts
    <3>. QED
      BY <1>2, <1>3, <2>1, <3>2, TypesLater
  <2>4. \A d \in DOMAIN calls' : ~Tailing(calls'[d], session')
    BY <1>3, <2>1, <2>2
  <2>5. BrowsesAlone' /\ TailsAlone' /\ TimedAlone' /\ TailRuns'
    BY <1>2, <1>3, <2>1, <2>2, <2>4 DEF BrowsesAlone, TailsAlone, TimedAlone, TailRuns
  <2>. QED
    BY <1>4, <2>3, <2>5 DEF MessageInv
<1>6. CASE calls[c].kind # "browse"
  <2>1. session' = session + 1 /\ timer' = NoPoll /\ tail' = FALSE
    BY <1>2, <1>6 DEF FailsCall, StopsTail, NextSession
  <2>2. session' \in Nat /\ session' > session /\ session <= session'
    BY <1>0, <2>1
  <2>3. CallsFit(calls', topic', session', logEnd')
    BY <1>0, <1>2, <1>3, <2>2 DEF CallsFit
  <2>4. MessageFacts'
    <3>1. loading' \in BOOLEAN /\ tail' \in BOOLEAN
      BY <1>2, <2>1
    <3>2. timer' \in TimedPolls /\ timer'.from <= logEnd'
      BY <1>0, <1>2, <2>1, NoTimedPoll
    <3>. QED
      BY <1>1, <1>2, <1>3, <2>2, <3>1, <3>2 DEF MessageFacts
  <2>5. MessageTypes'
    BY <2>3, <2>4, TypesLater
  <2>6. \A d \in DOMAIN calls' : ~Tailing(calls'[d], session')
    <3>1. \A d \in DOMAIN calls : ~Tailing(calls[d], session')
      BY <2>2, NewSession
    <3>. QED
      BY <1>3, <3>1
  <2>7. BrowsesAlone'
    <3>1. ASSUME NEW d \in DOMAIN calls', calls'[d].kind = "browse", operation' = d
          PROVE  calls'[d].topic = topic'
      <4>1. d \in DOMAIN calls /\ d # c /\ calls'[d] = calls[d]
        BY <1>3, <3>1
      <4>. QED
        BY <1>2, <3>1, <4>1 DEF MessageInv, BrowsesAlone
    <3>. QED
      BY <2>1, <2>6, <3>1 DEF BrowsesAlone
  <2>8. TailsAlone' /\ TimedAlone' /\ TailRuns'
    BY <2>1, <2>6 DEF TailsAlone, TimedAlone, TailRuns
  <2>. QED
    BY <1>4, <2>5, <2>7, <2>8 DEF MessageInv
<1>. QED
  BY <1>5, <1>6

(* The page calls main, for the tail with session number `number` or in a new session. *)
LEMMA CallsMainFits ==
  ASSUME MessageInv, NEW kind \in {"browse", "first", "poll"}, NEW from \in Nat, from <= logEnd,
         NEW of \in Partition, NEW number \in Nat, session' \in Nat, number <= session',
         session <= session', CallsMain(kind, of, from, number)
  PROVE  /\ calls' \in Seq(CallsOfMain) /\ Len(calls) \in Nat /\ Len(calls') = Len(calls) + 1
         /\ Len(calls') \in Nat /\ Len(calls') <= MaxCalls
         /\ operation' = Len(calls) + 1 /\ operation' \in 0..Len(calls')
         /\ operation' \notin DOMAIN calls /\ operation' \in DOMAIN calls'
         /\ \A d \in DOMAIN calls' : d \in DOMAIN calls \/ d = operation'
         /\ \A d \in DOMAIN calls : d \in DOMAIN calls' /\ calls'[d] = calls[d]
         /\ calls'[operation'].kind = kind /\ calls'[operation'].topic = topic
         /\ calls'[operation'].from = from /\ calls'[operation'].session = number
         /\ CallsFit(calls', topic, session', logEnd)
<1>1. MessageFacts /\ CallsFit(calls, topic, session, logEnd)
  BY FactsOfTypes DEF MessageInv
<1>2. /\ calls \in Seq(CallsOfMain) /\ Len(calls) \in Nat /\ MaxCalls \in Nat /\ session \in Nat
      /\ topic \in Nat /\ topic >= 1
  BY <1>1 DEF MessageFacts
<1>3. PICK call : call = [kind |-> kind, topic |-> topic, partition |-> of, from |-> from,
                          session |-> number]
  OBVIOUS
<1>4. /\ call \in CallsOfMain /\ call.kind = kind /\ call.topic = topic /\ call.from = from
      /\ call.session = number
  BY <1>2, <1>3 DEF CallsOfMain
<1>5. Len(calls) < MaxCalls /\ calls' = Append(calls, call) /\ operation' = Len(calls) + 1
  BY <1>3 DEF CallsMain, Made
<1>6. /\ calls' \in Seq(CallsOfMain) /\ Len(calls) \in Nat /\ Len(calls') = Len(calls) + 1
      /\ DOMAIN calls = 1..Len(calls) /\ DOMAIN calls' = 1..(Len(calls) + 1)
      /\ \A d \in DOMAIN calls : d \in DOMAIN calls' /\ calls'[d] = calls[d]
      /\ calls'[Len(calls) + 1] = call
      /\ \A d \in DOMAIN calls' : d \in DOMAIN calls \/ d = Len(calls) + 1
  BY <1>2, <1>4, <1>5, MadeCall
<1>7. /\ Len(calls') \in Nat /\ Len(calls') <= MaxCalls
      /\ operation' \in 0..Len(calls') /\ operation' \notin DOMAIN calls
      /\ operation' \in DOMAIN calls'
  BY <1>2, <1>5, <1>6
<1>8. /\ \A d \in DOMAIN calls' : d \in DOMAIN calls \/ d = operation'
      /\ calls'[operation'] = call
  BY <1>5, <1>6
<1>9. CallsFit(calls', topic, session', logEnd)
  <2>1. topic \in 1..topic /\ number \in 0..session' /\ \A n \in 0..session : n \in 0..session'
    BY <1>2
  <2>. QED
    BY <1>1, <1>4, <1>6, <1>8, <2>1 DEF CallsFit
<1>. QED
  BY <1>4, <1>5, <1>6, <1>7, <1>8, <1>9

LEMMA BrowsesInv == MessageInv /\ Browses => MessageInv'
<1>. SUFFICES ASSUME MessageInv, Browses PROVE MessageInv'
  OBVIOUS
<1>1. MessageFacts /\ CallsFit(calls, topic, session, logEnd)
  BY FactsOfTypes DEF MessageInv
<1>0. /\ logEnd \in Nat /\ session \in Nat /\ partition \in Partition /\ window.next \in Nat
      /\ window.next <= logEnd
  BY <1>1 DEF MessageFacts, Windows
<1>2. /\ session' = session + 1 /\ timer' = NoPoll /\ tail' = FALSE /\ loading' = TRUE
      /\ UNCHANGED <<topic, mounted, partition, window, droppedCount, logEnd>>
  BY DEF Browses, StopsTail, NextSession
<1>3. PICK from \in Nat : from <= logEnd /\ CallsMain("browse", partition, from, session)
  <2>1. PICK from \in {0, logEnd} \cup {window.next : w \in {1} \ {IF loading \/ tail THEN 1 ELSE 0}} :
          CallsMain("browse", partition, from, session)
    BY DEF Browses
  <2>2. from \in {0, logEnd, window.next}
    BY <2>1
  <2>. QED
    BY <1>0, <2>1, <2>2
<1>4. session' \in Nat /\ session <= session' /\ session' > session
  BY <1>0, <1>2
<1>5. /\ calls' \in Seq(CallsOfMain) /\ Len(calls') \in Nat /\ Len(calls') <= MaxCalls
      /\ operation' \in 0..Len(calls')
      /\ operation' \notin DOMAIN calls /\ operation' \in DOMAIN calls'
      /\ \A d \in DOMAIN calls' : d \in DOMAIN calls \/ d = operation'
      /\ \A d \in DOMAIN calls : d \in DOMAIN calls' /\ calls'[d] = calls[d]
      /\ calls'[operation'].kind = "browse" /\ calls'[operation'].topic = topic
      /\ CallsFit(calls', topic, session', logEnd)
  BY <1>0, <1>3, <1>4, CallsMainFits
<1>6. MessageTypes'
  <2>0. tail' \in BOOLEAN /\ loading' \in BOOLEAN
    BY <1>2
  <2>1. timer' \in TimedPolls /\ timer'.from <= logEnd' /\ tail' \in BOOLEAN /\ loading' \in BOOLEAN
    BY <1>0, <1>2, <2>0, NoTimedPoll
  <2>2. MessageFacts'
    BY <1>1, <1>2, <1>4, <1>5, <2>1 DEF MessageFacts
  <2>3. CallsFit(calls', topic', session', logEnd')
    BY <1>2, <1>5
  <2>. QED
    BY <2>2, <2>3, TypesLater
<1>7. \A d \in DOMAIN calls' : ~Tailing(calls'[d], session')
  <2>1. \A d \in DOMAIN calls : ~Tailing(calls[d], session')
    BY <1>4, NewSession
  <2>2. ~Tailing(calls'[operation'], session')
    BY <1>5 DEF Tailing
  <2>. QED
    BY <1>5, <2>1, <2>2
<1>8. BrowsesAlone'
  BY <1>2, <1>5, <1>7 DEF BrowsesAlone
<1>9. TailsAlone' /\ TimedAlone' /\ TailRuns'
  BY <1>2, <1>7 DEF TailsAlone, TimedAlone, TailRuns
<1>10. LoadingEnds' /\ ShowsItsTopic'
  BY <1>2, <1>5 DEF MessageInv, LoadingEnds, Wanted, OfOperation, ShowsItsTopic
<1>. QED
  BY <1>6, <1>8, <1>9, <1>10 DEF MessageInv

LEMMA StartsTailInv == MessageInv /\ StartsTail => MessageInv'
<1>. SUFFICES ASSUME MessageInv, StartsTail PROVE MessageInv'
  OBVIOUS
<1>1. MessageFacts /\ CallsFit(calls, topic, session, logEnd)
  BY FactsOfTypes DEF MessageInv
<1>0. logEnd \in Nat /\ session \in Nat /\ partition \in Partition
  BY <1>1 DEF MessageFacts
<1>2. /\ session' = session + 2 /\ timer' = NoPoll /\ tail' = TRUE /\ droppedCount' = 0
      /\ loading' = TRUE /\ UNCHANGED <<topic, mounted, partition, window, logEnd>>
      /\ CallsMain("first", partition, 0, session')
  BY DEF StartsTail
<1>4. session' \in Nat /\ session <= session' /\ session' > session /\ session' > 0
  BY <1>0, <1>2
<1>5. /\ calls' \in Seq(CallsOfMain) /\ Len(calls') \in Nat /\ Len(calls') <= MaxCalls
      /\ operation' \in 0..Len(calls')
      /\ operation' \notin DOMAIN calls /\ operation' \in DOMAIN calls'
      /\ \A d \in DOMAIN calls' : d \in DOMAIN calls \/ d = operation'
      /\ \A d \in DOMAIN calls : d \in DOMAIN calls' /\ calls'[d] = calls[d]
      /\ calls'[operation'].kind = "first" /\ calls'[operation'].topic = topic
      /\ calls'[operation'].session = session'
      /\ CallsFit(calls', topic, session', logEnd)
  <2>1. PICK number \in Nat : number = session'
    BY <1>4
  <2>2. CallsMain("first", partition, 0, number) /\ number <= session' /\ 0 <= logEnd
    BY <1>0, <1>2, <1>4, <2>1
  <2>. QED
    BY <1>0, <1>4, <2>1, <2>2, CallsMainFits
<1>6. MessageTypes'
  <2>0. tail' \in BOOLEAN /\ loading' \in BOOLEAN
    BY <1>2
  <2>1. timer' \in TimedPolls /\ timer'.from <= logEnd' /\ tail' \in BOOLEAN /\ loading' \in BOOLEAN
    BY <1>0, <1>2, <2>0, NoTimedPoll
  <2>2. droppedCount' \in Nat /\ droppedCount' <= logEnd'
    BY <1>0, <1>2
  <2>3. MessageFacts'
    BY <1>1, <1>2, <1>4, <1>5, <2>1, <2>2 DEF MessageFacts
  <2>4. CallsFit(calls', topic', session', logEnd')
    BY <1>2, <1>5
  <2>. QED
    BY <2>3, <2>4, TypesLater
<1>7. \A d \in DOMAIN calls' : Tailing(calls'[d], session') => d = operation'
  <2>1. \A d \in DOMAIN calls : ~Tailing(calls[d], session')
    BY <1>4, NewSession
  <2>. QED
    BY <1>5, <2>1
<1>8. BrowsesAlone'
  BY <1>5 DEF BrowsesAlone
<1>9. TailsAlone' /\ TimedAlone' /\ TailRuns'
  BY <1>2, <1>4, <1>5, <1>7 DEF TailsAlone, TimedAlone, TailRuns
<1>10. LoadingEnds' /\ ShowsItsTopic'
  BY <1>2, <1>5 DEF MessageInv, LoadingEnds, Wanted, OfSession, ShowsItsTopic
<1>. QED
  BY <1>6, <1>8, <1>9, <1>10 DEF MessageInv

LEMMA PollsInv == MessageInv /\ Polls => MessageInv'
<1>. SUFFICES ASSUME MessageInv, Polls PROVE MessageInv'
  OBVIOUS
<1>1. MessageFacts /\ CallsFit(calls, topic, session, logEnd)
  BY FactsOfTypes DEF MessageInv
<1>0. /\ logEnd \in Nat /\ session \in Nat /\ timer.partition \in Partition /\ timer.from \in Nat
      /\ timer.from <= logEnd
  BY <1>1 DEF MessageFacts, TimedPolls
<1>2. /\ timer # NoPoll /\ CallsMain("poll", timer.partition, timer.from, timer.session)
      /\ timer' = NoPoll
      /\ UNCHANGED <<topic, mounted, partition, loading, window, session, tail, droppedCount, logEnd>>
  BY DEF Polls
<1>3. timer.session = session /\ session > 0 /\ GoesOn(window, droppedCount, timer.from, logEnd)
  BY <1>2 DEF MessageInv, TimedAlone
<1>4. \A d \in DOMAIN calls : ~Tailing(calls[d], session)
  BY <1>2 DEF MessageInv, TailsAlone
<1>5. /\ calls' \in Seq(CallsOfMain) /\ Len(calls') \in Nat /\ Len(calls') <= MaxCalls
      /\ operation' \in 0..Len(calls')
      /\ operation' \notin DOMAIN calls /\ operation' \in DOMAIN calls'
      /\ \A d \in DOMAIN calls' : d \in DOMAIN calls \/ d = operation'
      /\ \A d \in DOMAIN calls : d \in DOMAIN calls' /\ calls'[d] = calls[d]
      /\ calls'[operation'].kind = "poll" /\ calls'[operation'].topic = topic
      /\ calls'[operation'].from = timer.from /\ calls'[operation'].session = session
      /\ CallsFit(calls', topic, session', logEnd)
  <2>1. session' = session /\ CallsMain("poll", timer.partition, timer.from, session)
    BY <1>2, <1>3
  <2>2. session' \in Nat /\ session <= session'
    BY <1>0, <2>1
  <2>. QED
    BY <1>0, <2>1, <2>2, CallsMainFits
<1>6. MessageTypes'
  <2>1. timer' \in TimedPolls /\ timer'.from <= logEnd'
    BY <1>0, <1>2, NoTimedPoll
  <2>3. MessageFacts'
    BY <1>1, <1>2, <1>5, <2>1 DEF MessageFacts
  <2>4. CallsFit(calls', topic', session', logEnd')
    BY <1>2, <1>5
  <2>. QED
    BY <2>3, <2>4, TypesLater
<1>7. \A d \in DOMAIN calls' : Tailing(calls'[d], session') => d = operation'
  BY <1>2, <1>4, <1>5
<1>8. BrowsesAlone'
  BY <1>5 DEF BrowsesAlone
<1>9. TailsAlone'
  <2>1. GoesOn(window', droppedCount', timer.from, logEnd')
    BY <1>2, <1>3
  <2>. QED
    BY <1>2, <1>3, <1>5, <1>7, <2>1 DEF TailsAlone
<1>10. TimedAlone' /\ TailRuns' /\ ShowsItsTopic'
  BY <1>2 DEF MessageInv, TimedAlone, TailRuns, ShowsItsTopic
<1>11. LoadingEnds'
  <2>1. SUFFICES ASSUME loading, mounted PROVE \E d \in DOMAIN calls' : calls'[d].kind # "over" /\ Wanted(d)'
    BY <1>2 DEF LoadingEnds
  <2>2. PICK d \in DOMAIN calls : calls[d].kind # "over" /\ Wanted(d)
    BY <2>1 DEF MessageInv, LoadingEnds
  <2>3. calls[d].kind \in {"browse", "first", "poll"}
    BY <1>1, <2>2 DEF CallsFit
  <2>4. calls[d].kind = "browse"
    BY <1>4, <2>2, <2>3 DEF Wanted, OfSession, Tailing
  <2>5. FALSE
    BY <1>2, <2>2, <2>4 DEF Wanted, OfOperation, MessageInv, BrowsesAlone
  <2>. QED
    BY <2>5
<1>. QED
  BY <1>6, <1>8, <1>9, <1>10, <1>11 DEF MessageInv

LEMMA MessageStep == MessageInv /\ [MessageNext]_messageVars => MessageInv'
<1>1. ASSUME MessageInv, UNCHANGED messageVars PROVE MessageInv'
  BY <1>1 DEF messageVars, MessageInv, MessageTypes, MessageTypeOK, BrowsesAlone, TailsAlone,
              TimedAlone, TailRuns, LoadingEnds, ShowsItsTopic, GoesOn, InOneRun, Wanted, OfSession,
              OfOperation
<1>2. ASSUME MessageInv, Refuses PROVE MessageInv'
  <2>1. partition \in Partition
    BY <1>2, FactsOfTypes DEF MessageInv, MessageFacts
  <2>. QED
    BY <1>2, <2>1, EmptiesInv DEF Refuses
<1>3. ASSUME MessageInv, Selects PROVE MessageInv'
  <2>1. loading' = FALSE
    BY <1>3, FactsOfTypes DEF MessageInv, MessageFacts, Selects
  <2>2. PICK p \in Partition : partition' = p
    BY <1>3 DEF Selects
  <2>. QED
    BY <1>3, <2>1, <2>2, EmptiesInv DEF Selects
<1>4. ASSUME MessageInv, NEW c \in DOMAIN calls, Responds(c) PROVE MessageInv'
  BY <1>4, AnswersLateInv, AnswersBrowseInv, AnswersFirstInv, AnswersPollInv, FailsCallInv DEF Responds
<1>. QED
  BY <1>1, <1>2, <1>3, <1>4, BrowsesInv, StartsTailInv, PressesStopInv, TopicChangesInv, UnmountsInv,
     PollsInv, ProducesInv DEF MessageNext

LEMMA MessageInvProperties ==
  MessageInv => MessageTypeOK /\ TailIsGapless /\ LoadingEnds /\ ShowsItsTopic
BY DEF MessageInv, MessageTypes, TailRuns, InOneRun, TailIsGapless

(* For any partitions, limit and number of calls: the records of a running tail follow each other
   without a gap up to its cursor, a page never loads for ever, and what it shows is of its
   topic. *)
THEOREM TailAlwaysGapless == MessageSpec => [](MessageTypeOK /\ TailIsGapless /\ LoadingEnds /\ ShowsItsTopic)
BY MessageInitInv, MessageStep, MessageInvProperties, PTL DEF MessageSpec

-----------------------------------------------------------------------------
(* All parts.                                                              *)

(* A behaviour of the small instance is a behaviour of each part: what is proved of the parts for
   all values is what the run checks on its few. *)
LEMMA FrameIsEach ==
  FrameSpec => /\ MessageSpec /\ CacheSpec /\ StoreSpec /\ WritesSpec /\ WorkspaceSpec /\ PageSpec
               /\ GroupSpec /\ CatalogSpec /\ DrawerSpec
<1>1. FrameInit => /\ MessageInit /\ CacheInit /\ StoreInit /\ WritesInit /\ WorkspaceInit /\ PageInit
                   /\ GroupInit /\ CatalogInit /\ DrawerInit
  BY DEF FrameInit
<1>2. [FrameNext]_frameVars =>
        /\ [MessageNext]_messageVars /\ [CacheNext]_cacheVars /\ [StoreNext]_storeVars
        /\ [WritesNext]_writesVars /\ [WorkspaceNext]_workspaceVars /\ [PageNext]_pageVars
        /\ [GroupNext]_groupVars /\ [CatalogNext]_catalogVars /\ [DrawerNext]_drawerVars
  BY DEF FrameNext, frameVars
<1>. QED
  BY <1>1, <1>2, PTL DEF FrameSpec, MessageSpec, CacheSpec, StoreSpec, WritesSpec, WorkspaceSpec,
     PageSpec, GroupSpec, CatalogSpec, DrawerSpec

(* The state of every part of a frame has its type, for any clusters, topics, groups and frames. *)
THEOREM FrameAlwaysTyped == FrameSpec => []FrameTypeOK
<1>. QED
  BY FrameIsEach, TailAlwaysGapless, CachesAlwaysFresh, StoreAlwaysFollows, WritesAlwaysConfirmed,
     OpenTopicAlwaysShown, SectionsAlwaysCome, OpenGroupAlwaysShown, RowsAlwaysKept,
     DrawerShowsItsSettings, PTL DEF FrameTypeOK

(* The pages of a frame show what is selected in it, or it comes. *)
THEOREM ContextAlwaysShown == FrameSpec => []ShowsItsContext
<1>. QED
  BY FrameIsEach, TailAlwaysGapless, StoreAlwaysFollows, OpenTopicAlwaysShown, SectionsAlwaysCome,
     OpenGroupAlwaysShown, DrawerShowsItsSettings, PTL DEF ShowsItsContext

(* No failure, scan or older document takes from the pages what they had. *)
THEOREM NothingIsEverLost == FrameSpec => NothingKnownIsLost
<1>. QED
  BY FrameIsEach, CachesAlwaysFresh, SectionsAlwaysCome, RowsAlwaysKept, StoreAlwaysFollows, PTL
     DEF NothingKnownIsLost
=============================================================================
