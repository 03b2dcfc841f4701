---------------------------- MODULE MCFrameParts -----------------------------
(* Small instances of the parts of a frame that share no state: a behaviour is one of one     *)
(* part, chosen at the start, beside which the others rest in an initial state of theirs.     *)
EXTENDS MessagePage, FrameCaches, SharedStore, TopicWrites, TopicWorkspace, TargetPage,
        GroupWorkspace, ClusterCatalog, ConnectionDrawer

VARIABLE part  \* the part the behaviour is of

frameVars == <<part, messageVars, cacheVars, storeVars, writesVars, workspaceVars, pageVars,
               groupVars, catalogVars, drawerVars>>

Rests(p, state) == part = p \/ state

MCCluster == CHOOSE c \in Cluster : TRUE

FrameInit ==
  /\ part \in {"messages", "caches", "store", "writes", "workspace", "page", "groups", "catalog",
               "drawer"}
  /\ MessageInit /\ CacheInit
  /\ StoreInit /\ Rests("store", main = Empty)
  /\ WritesInit /\ Rests("writes", selected = MCCluster /\ writable = {})
  /\ WorkspaceInit /\ Rests("workspace", onCluster = MCCluster)
  /\ PageInit /\ Rests("page", persisted = {})
  /\ GroupInit /\ Rests("groups", group = Nothing /\ writing = {})
  /\ CatalogInit /\ Rests("catalog", pageOf = [p \in Page |-> CHOOSE f \in Kubernetes : TRUE])
  /\ DrawerInit

FrameNext ==
  \/ /\ part = "messages" /\ MessageNext
     /\ UNCHANGED <<part, cacheVars, storeVars, writesVars, workspaceVars, pageVars, groupVars,
                    catalogVars, drawerVars>>
  \/ /\ part = "caches" /\ CacheNext
     /\ UNCHANGED <<part, messageVars, storeVars, writesVars, workspaceVars, pageVars, groupVars,
                    catalogVars, drawerVars>>
  \/ /\ part = "store" /\ StoreNext
     /\ UNCHANGED <<part, messageVars, cacheVars, writesVars, workspaceVars, pageVars, groupVars,
                    catalogVars, drawerVars>>
  \/ /\ part = "writes" /\ WritesNext
     /\ UNCHANGED <<part, messageVars, cacheVars, storeVars, workspaceVars, pageVars, groupVars,
                    catalogVars, drawerVars>>
  \/ /\ part = "workspace" /\ WorkspaceNext
     /\ UNCHANGED <<part, messageVars, cacheVars, storeVars, writesVars, pageVars, groupVars,
                    catalogVars, drawerVars>>
  \/ /\ part = "page" /\ PageNext
     /\ UNCHANGED <<part, messageVars, cacheVars, storeVars, writesVars, workspaceVars, groupVars,
                    catalogVars, drawerVars>>
  \/ /\ part = "groups" /\ GroupNext
     /\ UNCHANGED <<part, messageVars, cacheVars, storeVars, writesVars, workspaceVars, pageVars,
                    catalogVars, drawerVars>>
  \/ /\ part = "catalog" /\ CatalogNext
     /\ UNCHANGED <<part, messageVars, cacheVars, storeVars, writesVars, workspaceVars, pageVars,
                    groupVars, drawerVars>>
  \/ /\ part = "drawer" /\ DrawerNext
     /\ UNCHANGED <<part, messageVars, cacheVars, storeVars, writesVars, workspaceVars, pageVars,
                    groupVars, catalogVars>>

FrameSpec == FrameInit /\ [][FrameNext]_frameVars

FrameTypeOK ==
  /\ MessageTypeOK /\ CacheTypeOK /\ StoreTypeOK /\ WritesTypeOK /\ WorkspaceTypeOK /\ PageTypeOK
  /\ GroupTypeOK /\ CatalogTypeOK /\ DrawerTypeOK

(* What the pages of a frame show is of what is selected in it, or comes: messages, metadata,
   health, groups, found targets and write mode. *)
ShowsItsContext ==
  /\ ShowsItsTopic /\ LoadingEnds /\ ShowsWhatIsOpen /\ ShownOrComing /\ ShowsOpenGroup
  /\ FoundWithSettings /\ FramesFollow

(* No failure, scan or older document takes from the pages what they had: cached resources, health,
   discovered clusters and the snapshots of main. *)
NothingKnownIsLost == DataKept /\ FailureKeepsHealth /\ RowsKept /\ SnapshotKept

=============================================================================
