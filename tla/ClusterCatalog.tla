--------------------------- MODULE ClusterCatalog ----------------------------
(***************************************************************************)
(* The Clusters page (KafkaOverviewPage of src/renderer/kafka-overview.tsx)*)
(* with the catalog of the clusters that scans of Kubernetes have found    *)
(* (src/renderer/kafka-cluster-catalog.ts), the endpoints added by hand    *)
(* (src/renderer/kafka-manual-endpoints.ts) and the cluster that is        *)
(* remembered as selected (src/renderer/kafka-navigation.ts).              *)
(*                                                                         *)
(* A page reads the catalogs of all Kubernetes clusters and the endpoints  *)
(* when it is opened, and saves all of them when it changes one.  The      *)
(* shared store is taken to hand on a change at once; SharedStore has its  *)
(* delays.                                                                 *)
(***************************************************************************)
EXTENDS KafkaTargets, FiniteSets

CONSTANTS
  Kubernetes,  \* cluster frames, each of one Kubernetes cluster
  Page,        \* openings of the page
  Found,       \* the targets a scan may find
  Endpoint     \* the targets a user may add

ASSUME CatalogAssumption == Found \cap Endpoint = {} /\ Nothing \notin Found \cup Endpoint

VARIABLES
  saved,        \* the stored catalogs
  savedManual,  \* the stored endpoints
  remembered,   \* remembered[f]: the stored selection
  pageOf,       \* pageOf[p]: the frame of opening p
  onScreen,     \* the openings that are on the screen
  catalogs,     \* catalogs[p]: the catalogs in the memory of p
  rows,         \* rows[p]: the discovered clusters p shows
  manual,       \* manual[p]: the endpoints p shows
  scans,        \* scans[p]: the scans p has begun and waits for
  scanning      \* the openings that show a scan in the place of their rows

catalogVars ==
  <<saved, savedManual, remembered, pageOf, onScreen, catalogs, rows, manual, scans, scanning>>

Catalog == [discovered : SUBSET Found, missing : SUBSET Found, autoScan : BOOLEAN]
EmptyCatalog == [discovered |-> {}, missing |-> {}, autoScan |-> FALSE]
Scans == {"auto", "forced"}

CatalogTypeOK ==
  /\ saved \in [Kubernetes -> Catalog] /\ catalogs \in [Page -> [Kubernetes -> Catalog]]
  /\ savedManual \subseteq Endpoint /\ manual \in [Page -> SUBSET Endpoint]
  /\ remembered \in [Kubernetes -> Found \cup Endpoint \cup {Nothing}]
  /\ pageOf \in [Page -> Kubernetes] /\ onScreen \subseteq Page /\ scanning \subseteq onScreen
  /\ rows \in [Page -> SUBSET Found] /\ scans \in [Page -> SUBSET Scans]

CatalogInit ==
  /\ saved = [f \in Kubernetes |-> EmptyCatalog] /\ savedManual = {}
  /\ remembered = [f \in Kubernetes |-> Nothing]
  /\ pageOf \in [Page -> Kubernetes] /\ onScreen = {}
  /\ catalogs = [p \in Page |-> saved] /\ rows = [p \in Page |-> {}]
  /\ manual = [p \in Page |-> {}] /\ scans = [p \in Page |-> {}] /\ scanning = {}

Targets(catalog) == catalog.discovered \cup catalog.missing
Own(p) == catalogs[p][pageOf[p]]

(* persist() writes the catalogs of every context as the page has them. *)
Persists(p, catalog) ==
  /\ catalogs' = [catalogs EXCEPT ![p][pageOf[p]] = catalog]
  /\ saved' = catalogs'[p]

-----------------------------------------------------------------------------
(* Opening and closing.                                                    *)

(* The frame shows one page at a time.  The effects of the first render save the endpoints as they
   were read, and begin a scan where the user has chosen so. *)
OpensClusters(p) ==
  /\ p \notin onScreen /\ scans[p] = {} /\ \A q \in onScreen : pageOf[q] # pageOf[p]
  /\ onScreen' = onScreen \cup {p}
  /\ catalogs' = [catalogs EXCEPT ![p] = saved]
  /\ rows' = [rows EXCEPT ![p] = Targets(saved[pageOf[p]])]
  /\ manual' = [manual EXCEPT ![p] = savedManual]
  /\ scans' = [scans EXCEPT ![p] = IF saved[pageOf[p]].autoScan THEN {"auto"} ELSE {}]
  /\ scanning' = IF saved[pageOf[p]].autoScan THEN scanning \cup {p} ELSE scanning
  /\ UNCHANGED <<saved, savedManual, remembered, pageOf>>

(* Cleaning up cancels the scan that opening began, and no other. *)
Closes(p) ==
  /\ onScreen' = onScreen \ {p} /\ scanning' = scanning \ {p}
  /\ scans' = [scans EXCEPT ![p] = @ \ {"auto"}]

ClosesClusters(p) ==
  /\ p \in onScreen /\ Closes(p)
  /\ UNCHANGED <<saved, savedManual, remembered, pageOf, catalogs, rows, manual>>

-----------------------------------------------------------------------------
(* Scans: loadDiscovery().                                                 *)

StartsScan(p) ==
  /\ p \in onScreen /\ "forced" \notin scans[p]
  /\ scans' = [scans EXCEPT ![p] = @ \cup {"forced"}] /\ scanning' = scanning \cup {p}
  /\ UNCHANGED <<saved, savedManual, remembered, pageOf, onScreen, catalogs, rows, manual>>

(* setDiscovered(): what was known and was not found now is missing. *)
Previous(catalog) == Targets(catalog)

Discovered(catalog, found) ==
  [catalog EXCEPT !.discovered = found, !.missing = Previous(catalog) \ found]

ScanFinds(p, k, found) ==
  /\ k \in scans[p]
  /\ scans' = [scans EXCEPT ![p] = @ \ {k}] /\ scanning' = scanning \ {p}
  /\ Persists(p, Discovered(Own(p), found))
  /\ rows' = IF p \notin onScreen THEN rows
             ELSE [rows EXCEPT ![p] = Targets(Discovered(Own(p), found))]
  /\ UNCHANGED <<savedManual, remembered, pageOf, onScreen, manual>>

(* An error is shown above the rows there are.  A page that scans shows no rows, and no drawer. *)
ScanFails(p, k) ==
  /\ k \in scans[p]
  /\ scans' = [scans EXCEPT ![p] = @ \ {k}] /\ scanning' = scanning \ {p}
  /\ UNCHANGED <<saved, savedManual, remembered, pageOf, onScreen, catalogs, rows, manual>>

SwitchesAutoScan(p) ==
  /\ p \in onScreen
  /\ Persists(p, [Own(p) EXCEPT !.autoScan = ~@])
  /\ UNCHANGED <<savedManual, remembered, pageOf, onScreen, rows, manual, scans, scanning>>

-----------------------------------------------------------------------------
(* Endpoints and the selection.                                            *)

SavesManual(p, endpoints) ==
  /\ manual' = [manual EXCEPT ![p] = endpoints]
  /\ savedManual' = endpoints

AddsEndpoint(p, e) ==
  /\ p \in onScreen /\ e \notin manual[p]
  /\ SavesManual(p, manual[p] \cup {e})
  /\ UNCHANGED <<saved, remembered, pageOf, onScreen, catalogs, rows, scans, scanning>>

(* The drawer of an endpoint has the button; the selection is forgotten if it is this endpoint. *)
RemovesEndpoint(p, e) ==
  LET f == pageOf[p] IN
  /\ p \in onScreen \ scanning /\ e \in manual[p]
  /\ SavesManual(p, manual[p] \ {e})
  /\ remembered' = [remembered EXCEPT ![f] = IF @ = e THEN Nothing ELSE @]
  /\ UNCHANGED <<saved, pageOf, onScreen, catalogs, rows, scans, scanning>>

(* selectKafkaCluster() leads to the page of the cluster. *)
SelectsTarget(p, t) ==
  /\ p \in onScreen \ scanning /\ t \in rows[p] \cup manual[p]
  /\ remembered' = [remembered EXCEPT ![pageOf[p]] = t]
  /\ Closes(p)
  /\ UNCHANGED <<saved, savedManual, pageOf, catalogs, rows, manual>>

CatalogNext ==
  \E p \in Page :
    \/ OpensClusters(p) \/ ClosesClusters(p) \/ StartsScan(p) \/ SwitchesAutoScan(p)
    \/ \E k \in Scans : ScanFails(p, k) \/ \E found \in SUBSET Found : ScanFinds(p, k, found)
    \/ \E e \in Endpoint : AddsEndpoint(p, e) \/ RemovesEndpoint(p, e)
    \/ \E t \in Found \cup Endpoint : SelectsTarget(p, t)

CatalogSpec == CatalogInit /\ [][CatalogNext]_catalogVars

-----------------------------------------------------------------------------
(* Properties.                                                             *)

(* "Scanning MUST keep the existing catalog usable" (SPEC-014, REQ-156): no scan, whichever answers
   and however late, takes a discovered cluster off a page that shows it. *)
RowsKept ==
  [][\A p \in onScreen \cap onScreen' : rows[p] \subseteq rows'[p]]_catalogVars

=============================================================================
