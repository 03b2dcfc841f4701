--------------------------- MODULE MainPartsProofs ---------------------------
(***************************************************************************)
(* What the parts of main guarantee, side by side, for every value         *)
(* of their constants: an inductive invariant for each part, and that a    *)
(* behaviour of the small instance (MCMainParts) is one of each part.      *)
(***************************************************************************)
EXTENDS MCMainParts, FiniteSetTheorems, WellFoundedInduction, TLAPS

-----------------------------------------------------------------------------
(* RequestLife.                                                            *)

Behaviour == [guard : BOOLEAN, session : BOOLEAN, heeds : BOOLEAN,
              bound : {"none", "inside", "around", "teardown"}]

(* Each handler is of one group, and does as that group says. *)
LEMMA HandlerType == \A h \in Channels : Handler[h] \in Behaviour
<1>. TAKE h \in Channels
<1>1. \A group \in Groups : \A g \in DOMAIN group : group[g] \in Behaviour
  <2>a. Http \in Behaviour /\ HttpWrite \in Behaviour /\ Plain \in Behaviour
    BY DEF Behaviour, Http, HttpWrite, Plain
  <2>b. /\ [Plain EXCEPT !.guard = TRUE] \in Behaviour
        /\ [Plain EXCEPT !.bound = "around"] \in Behaviour
    BY <2>a DEF Behaviour
  <2>c. Write \in Behaviour /\ WithLimit \in Behaviour
    BY <2>b DEF Write, WithLimit
  <2>d. /\ [WithLimit EXCEPT !.bound = "teardown", !.heeds = TRUE] \in Behaviour
        /\ [WithLimit EXCEPT !.heeds = TRUE] \in Behaviour
        /\ [Write EXCEPT !.bound = "inside"] \in Behaviour
    BY <2>c DEF Behaviour
  <2>1. \A g \in DOMAIN SchemaReads : SchemaReads[g] \in Behaviour
    BY <2>a DEF SchemaReads
  <2>2. \A g \in DOMAIN ConnectReads : ConnectReads[g] \in Behaviour
    BY <2>a DEF ConnectReads
  <2>3. \A g \in DOMAIN SchemaWrites : SchemaWrites[g] \in Behaviour
    BY <2>a DEF SchemaWrites
  <2>4. \A g \in DOMAIN ConnectWrites : ConnectWrites[g] \in Behaviour
    BY <2>a DEF ConnectWrites
  <2>5. \A g \in DOMAIN Lookups : Lookups[g] \in Behaviour
    BY <2>a DEF Lookups
  <2>6. \A g \in DOMAIN Overviews : Overviews[g] \in Behaviour
    BY <2>a DEF Overviews
  <2>7. \A g \in DOMAIN TopicReads : TopicReads[g] \in Behaviour
    BY <2>c DEF TopicReads
  <2>8. \A g \in DOMAIN TopicConsumers : TopicConsumers[g] \in Behaviour
    BY <2>d DEF TopicConsumers
  <2>9. \A g \in DOMAIN HeedingReads : HeedingReads[g] \in Behaviour
    <3>. DEFINE x == [WithLimit EXCEPT !.heeds = TRUE]
    <3>1. HeedingReads = [brokerConfig |-> x, messagesBrowse |-> x] /\ x \in Behaviour
      BY <2>d DEF HeedingReads
    <3>. HIDE DEF x
    <3>. QED
      BY <3>1
  <2>10. \A g \in DOMAIN GroupReads : GroupReads[g] \in Behaviour
    BY <2>c DEF GroupReads
  <2>11. \A g \in DOMAIN KafkaWrites : KafkaWrites[g] \in Behaviour
    BY <2>c DEF KafkaWrites
  <2>12. \A g \in DOMAIN AclRead : AclRead[g] \in Behaviour
    BY <2>c DEF AclRead
  <2>13. \A g \in DOMAIN AclWrites : AclWrites[g] \in Behaviour
    BY <2>d DEF AclWrites
  <2>. QED
    BY <2>1, <2>2, <2>3, <2>4, <2>5, <2>6, <2>7, <2>8, <2>9, <2>10, <2>11, <2>12, <2>13, Zenon
       DEF Groups
<1>2. \E group \in Groups : h \in DOMAIN group
  BY DEF Channels
<1>3. PICK group \in Groups : h \in DOMAIN group /\ Handler[h] = group[h]
  BY <1>2 DEF Handler
<1>. QED
  BY <1>1, <1>3

LEMMA NoneIsNoChannel == "none" \notin Channels
<1>1. /\ "none" \notin DOMAIN SchemaReads /\ "none" \notin DOMAIN ConnectReads
      /\ "none" \notin DOMAIN SchemaWrites
  BY DEF SchemaReads, ConnectReads, SchemaWrites
<1>2. "none" \notin DOMAIN ConnectWrites /\ "none" \notin DOMAIN Lookups
  BY DEF ConnectWrites, Lookups
<1>3. /\ "none" \notin DOMAIN Overviews /\ "none" \notin DOMAIN TopicReads
      /\ "none" \notin DOMAIN GroupReads /\ "none" \notin DOMAIN AclRead
  BY DEF Overviews, TopicReads, GroupReads, AclRead
<1>4. "none" \notin DOMAIN TopicConsumers /\ "none" \notin DOMAIN HeedingReads
  BY DEF TopicConsumers, HeedingReads
<1>5. "none" \notin DOMAIN KafkaWrites /\ "none" \notin DOMAIN AclWrites
  BY DEF KafkaWrites, AclWrites
<1>. QED
  BY <1>1, <1>2, <1>3, <1>4, <1>5, Zenon DEF Channels, Groups

(* A request that has not arrived has nothing; one that is connecting has not begun; the timer
   that has fired told those that heed it; and a heeding request has answered only after it heard
   of its limit, or with nothing left to do. *)
RequestInv ==
  /\ RequestTypeOK
  /\ handler = "none" => conn = "none" /\ task = "none" /\ limit = "off" /\ answer = "none" /\ late = FALSE
  /\ conn = "asked" => task = "none"
  /\ limit = "fired" => handler # "none" /\ withdrawn = Does.heeds
  /\ handler # "none" /\ Does.heeds /\ answer # "none" =>
       withdrawn \/ Ended \/ (conn = "none" /\ task = "none")
  /\ LimitIsClean

LEMMA RequestInitInv == RequestInit => RequestInv
<1>1. RequestInit => given \in 0..1 /\ given # 1
  BY DEF RequestInit
<1>2. RequestInit => RequestTypeOK
  BY <1>1, Zenon DEF RequestInit, RequestTypeOK
<1>. QED
  BY <1>2 DEF RequestInit, RequestInv, LimitIsClean, LeaseCoversWork, SilentAfterAnswer

LEMMA RequestStep == RequestInv /\ [RequestNext]_requestVars => RequestInv'
<1>. SUFFICES ASSUME RequestInv, [RequestNext]_requestVars PROVE RequestInv'
  OBVIOUS
<1>. USE DEF RequestInv, RequestTypeOK, LimitIsClean, LeaseCoversWork, SilentAfterAnswer, Does,
             Ended, Holds
<1>0. handler # "none" => Does \in Behaviour
  BY HandlerType
<1>1. ASSUME NEW h \in Channels, Arrives(h) PROVE RequestInv'
  <2>1. Handler[h] \in Behaviour
    BY HandlerType
  <2>2. RequestTypeOK'
    BY <1>1 DEF Arrives
  <2>3. late = FALSE /\ late' = FALSE /\ given = 0 /\ given' = 0
    BY <1>1 DEF Arrives
  <2>4. handler' # "none"
    BY <1>1, NoneIsNoChannel DEF Arrives
  <2>. QED
    BY <1>1, <2>1, <2>2, <2>3, <2>4 DEF Arrives
<1>2. CASE Connects
  BY <1>0, <1>2 DEF Connects
<1>3. CASE ResolvesNot
  BY <1>0, <1>3 DEF ResolvesNot
<1>4. CASE Works
  BY <1>0, <1>4 DEF Works
<1>5. CASE ReportsProgress
  BY <1>0, <1>5 DEF ReportsProgress, Publishes
<1>6. CASE GivesBack
  BY <1>0, <1>6 DEF GivesBack, LetsGo
<1>7. CASE LimitExpires
  BY <1>0, <1>7 DEF LimitExpires, AtOnce, Behaviour
<1>8. CASE RequestAnswers
  BY <1>0, <1>8 DEF RequestAnswers, Settled, LetsGo
<1>9. CASE UNCHANGED requestVars
  BY <1>9 DEF requestVars
<1>. QED
  BY <1>1, <1>2, <1>3, <1>4, <1>5, <1>6, <1>7, <1>8, <1>9 DEF RequestNext

(* Whatever handler a request is of, and whenever its limit expires: the connection is leased
   while it works, and one that heeds its limit publishes nothing after its answer. *)
THEOREM LimitsAreClean == RequestSpec => []LimitIsClean
<1>1. RequestInv => LimitIsClean
  BY DEF RequestInv
<1>. QED
  BY <1>1, RequestInitInv, RequestStep, PTL DEF RequestSpec

-----------------------------------------------------------------------------
(* BrokerConnection.                                                       *)

(* What is left of a connection, and who will close it. *)
Closers ==
  /\ stage \in {"seed", "metadata", "brokers", "open", "failed"}
  /\ cluster \in {"none", "connecting", "ready", "quitting", "closing"}
  /\ tunnels \in {"open", "closing", "closed"}
  /\ closer \in [Closer -> {"none", "waits", "cluster", "hooks", "done"}]

(* A disconnect comes to an open connection, whose seed is closed, and somebody called it. *)
GoneWhenOpen ==
  /\ gone => stage = "open" /\ \E d \in Closer : closer[d] # "none"
  /\ \A d \in Closer : closer[d] # "none" => gone
  /\ stage # "metadata" => seed = FALSE

(* The read cluster is closed for one reason, in the hands of one disconnect or of its connect,
   which a disconnect waits for. *)
OneHand ==
  /\ gone = FALSE => closings = 0 /\ cluster \in {"none", "connecting", "ready"}
  /\ gone => cluster # "ready"
  /\ closings \in {0, 1}
  /\ cluster = "connecting" => closings = 0
  /\ cluster = "closing" => \E d \in Closer : closer[d] = "cluster"
  /\ \A d \in Closer : closer[d] = "cluster" => cluster = "closing"
  /\ \A d, e \in Closer : closer[d] = "cluster" /\ closer[e] = "cluster" => d = e
  /\ gone /\ cluster \in {"connecting", "quitting"} => \E d \in Closer : closer[d] = "waits"

(* The tunnels of an open connection are hooked to its disconnect, or closed by one. *)
Hooked ==
  /\ hooked => stage = "open" /\ tunnels = "open"
  /\ stage = "open" => (tunnels = "open" <=> hooked)
  /\ stage \in {"seed", "metadata", "brokers"} => tunnels = "open"
  /\ tunnels = "closing" => \E d \in Closer : closer[d] = "hooks"
  /\ \A d \in Closer : closer[d] = "done" => tunnels = "closed" /\ servers = {}

ConnectionInv == Closers /\ GoneWhenOpen /\ OneHand /\ Hooked

LEMMA ConnectionClosed == ConnectionInv => ClosedOnceAndAll
<1>. SUFFICES ASSUME ConnectionInv PROVE ClosedOnceAndAll
  OBVIOUS
<1>1. ClosedByOne
  BY DEF ConnectionInv, OneHand, ClosedByOne
<1>2. NothingLeft
  <2>. SUFFICES ASSUME gone, \A d \in Closer : closer[d] \in {"none", "done"}
                PROVE  cluster = "none" /\ servers = {} /\ ~seed /\ tunnels = "closed"
    BY DEF NothingLeft
  <2>1. PICK d \in Closer : closer[d] = "done"
    BY DEF ConnectionInv, GoneWhenOpen
  <2>2. \A e \in Closer : closer[e] # "waits" /\ closer[e] # "cluster"
    OBVIOUS
  <2>. QED
    BY <2>1, <2>2 DEF ConnectionInv, Closers, GoneWhenOpen, OneHand, Hooked
<1>. QED
  BY <1>1, <1>2 DEF ClosedOnceAndAll

LEMMA ConnectionInitInv == ConnectionInit => ConnectionInv
BY DEF ConnectionInit, ConnectionInv, Closers, GoneWhenOpen, OneHand, Hooked

LEMMA ConnectionStep == ConnectionInv /\ [ConnectionNext]_connectionVars => ConnectionInv'
<1>. SUFFICES ASSUME ConnectionInv, [ConnectionNext]_connectionVars PROVE ConnectionInv'
  OBVIOUS
<1>. USE DEF ConnectionInv, Closers, GoneWhenOpen, OneHand, Hooked
<1>1. CASE OpensSeed
  BY <1>1 DEF OpensSeed, FailsToConnect
<1>2. CASE ReadsMetadata
  BY <1>2 DEF ReadsMetadata, FailsToConnect
<1>3. CASE OpensBroker
  BY <1>3 DEF OpensBroker, FailsToConnect
<1>4. CASE ClusterConnects
  BY <1>4 DEF ClusterConnects, Quits, lifeVars
<1>5. CASE ClusterFails
  BY <1>5 DEF ClusterFails, lifeVars
<1>6. CASE TunnelsClose
  BY <1>6 DEF TunnelsClose
<1>7. ASSUME NEW u \in Use, Begins(u) \/ AdminConnects(u) \/ WorkEnds(u) \/ LeavesUse(u)
      PROVE  ConnectionInv'
  BY <1>7 DEF Begins, AdminConnects, WorkEnds, LeavesUse, lifeVars
<1>8. ASSUME NEW u \in Use, GetsCluster(u) PROVE ConnectionInv'
  BY <1>8 DEF GetsCluster, lifeVars
<1>9. ASSUME NEW d \in Closer, Disconnects(d) PROVE ConnectionInv'
  <2>1. closer' \in [Closer -> {"none", "waits", "cluster", "hooks", "done"}]
    BY <1>9 DEF Disconnects, AwaitsCluster
  <2>2. /\ closer'[d] \in {"waits", "cluster", "hooks"}
        /\ \A e \in Closer \ {d} : closer'[e] = closer[e]
    BY <1>9 DEF Disconnects, AwaitsCluster
  <2>. QED
    BY <1>9, <2>1, <2>2 DEF Disconnects, AwaitsCluster, lifeVars
<1>10. ASSUME NEW d \in Closer, WaitEnds(d) PROVE ConnectionInv'
  BY <1>10 DEF WaitEnds, lifeVars
<1>11. ASSUME NEW d \in Closer, ClusterClosed(d) PROVE ConnectionInv'
  BY <1>11 DEF ClusterClosed, lifeVars
<1>12. ASSUME NEW d \in Closer, ClosesPorts(d) PROVE ConnectionInv'
  BY <1>12 DEF ClosesPorts
<1>13. CASE UNCHANGED connectionVars
  BY <1>13 DEF connectionVars
<1>. QED
  BY <1>1, <1>2, <1>3, <1>4, <1>5, <1>6, <1>7, <1>8, <1>9, <1>10, <1>11, <1>12, <1>13
     DEF ConnectionNext, ConnectMoves, UseMoves, CloserMoves

(* However many operations use a connection, and whenever it is disconnected: what it has opened
   is closed when the last disconnect returns, and its read cluster is closed once. *)
THEOREM ConnectionsClose == ConnectionSpec => []ClosedOnceAndAll
<1>. QED
  BY ConnectionClosed, ConnectionInitInv, ConnectionStep, PTL DEF ConnectionSpec

-----------------------------------------------------------------------------
(* GroupScan.                                                              *)

CallerRecords ==
  [at : {"out", "waits", "joined", "reads", "answered", "cancelled", "dropped", "failed"},
   scan : Caller \cup {NoCaller}, since : 0..MaxClears]

ScanRecords ==
  [at : {"none", "ended", "failed"} \cup Phases, aborted : BOOLEAN, left : SUBSET Group,
   offsets : [Group -> {"none", "part", "all"}], missing : SUBSET Group, since : 0..MaxClears]

ScanTypes ==
  /\ caller \in [Caller -> CallerRecords]
  /\ scan \in [Caller -> ScanRecords]
  /\ shared \in Caller \cup {NoCaller} /\ data \in Caller \cup {NoCaller}
  /\ marks \in Caller \cup {NoCaller}
  /\ generation \in 0..MaxClears /\ subscribers \in SUBSET Caller

(* The scan that others join runs, and is of after the last clear; one that runs and is not
   aborted is that scan. *)
SharedRuns ==
  /\ shared # NoCaller => Runs(shared) /\ scan[shared].since = generation
  /\ \A s \in Caller : Runs(s) /\ scan[s].aborted = FALSE => shared = s

(* What is kept is of a scan that has ended after the last clear, and the marks are of that scan; in
   one that falls back, what is a part is still to be read, or is missing, and is missing at its end. *)
KeptIsMarked ==
  /\ data # NoCaller => scan[data].at = "ended" /\ scan[data].since = generation /\ marks = data
  /\ marks # NoCaller => scan[marks].at = "ended"
  /\ \A s \in Caller, g \in Group : scan[s].at = "ended" /\ scan[s].offsets[g] = "part" =>
       g \in scan[s].missing
  /\ \A s \in Caller, g \in Group : scan[s].at = "fallback" /\ scan[s].offsets[g] = "part" =>
       g \in scan[s].left \/ g \in scan[s].missing

(* A caller that has not joined has started no scan; what one waits for or reads was started. *)
Started ==
  \A c \in Caller :
    /\ caller[c].at \in {"out", "waits"} => scan[c].at = "none"
    /\ caller[c].at \in {"waits", "joined", "reads"} =>
         caller[c].scan \in Caller /\ scan[caller[c].scan].at # "none"
    /\ caller[c].since <= generation

(* No scan serves a call of after a clear that it is of before. *)
ServedInTime ==
  \A c \in Caller :
    /\ caller[c].at = "reads" => scan[caller[c].scan].at = "ended"
    /\ caller[c].at = "reads" => scan[caller[c].scan].since >= caller[c].since
    /\ caller[c].at = "joined" /\ scan[caller[c].scan].at # "failed" =>
         scan[caller[c].scan].since >= caller[c].since

(* The subscribers are those who joined the shared scan, and those who have still to hear of
   another one; one that is not aborted has a subscriber. *)
Subscribed ==
  /\ \A c \in Caller : caller[c].at = "joined" /\ caller[c].scan = shared => c \in subscribers
  /\ \A c \in subscribers :
       caller[c].at = "joined" /\ (caller[c].scan = shared \/ Over(caller[c].scan))
  /\ shared # NoCaller /\ scan[shared].aborted = FALSE =>
       \E c \in Caller : caller[c].at = "joined" /\ caller[c].scan = shared

(* An aborted scan has only callers of before a clear; one that waits finds no other aborted scan
   in the place of the one it waits for, unless the index was cleared. *)
AbortedForCause ==
  \A c \in Caller :
    /\ caller[c].at = "joined" /\ scan[caller[c].scan].aborted => caller[c].since < generation
    /\ caller[c].at = "waits" /\ caller[c].scan # shared =>
         \/ caller[c].since < generation
         \/ Over(caller[c].scan) /\ (shared = NoCaller \/ scan[shared].aborted = FALSE)

ScanInv ==
  /\ ScanTypes /\ SharedRuns /\ KeptIsMarked /\ Started /\ ServedInTime /\ Subscribed
  /\ AbortedForCause

LEMMA ScanNumbers == /\ Callers \in Nat /\ MaxClears \in Nat
                     /\ \A c \in Caller : c \in Nat /\ c # NoCaller
BY ScanAssumption DEF Caller, NoCaller

LEMMA ScanInitInv == ScanInit => ScanInv
<1>. SUFFICES ASSUME ScanInit PROVE ScanInv
  OBVIOUS
<1>1. ScanTypes
  BY ScanNumbers DEF ScanInit, ScanTypes, CallerRecords, ScanRecords, NoScan, Left
<1>2. \A c \in Caller : caller[c].at = "out" /\ scan[c].at = "none" /\ caller[c].since = 0
  BY DEF ScanInit, NoScan, Left
<1>. QED
  BY <1>1, <1>2, ScanNumbers
     DEF ScanInit, ScanInv, SharedRuns, KeptIsMarked, Started, ServedInTime,
         Subscribed, AbortedForCause, Runs, Over, Phases

(* A call joins the scan that runs, or one that it starts. *)
LEMMA JoinKeeps ==
  ASSUME ScanInv, NEW c \in Caller, NEW since \in 0..MaxClears,
         since <= generation,
         caller[c].at \in {"out", "waits"},
         shared # NoCaller /\ scan[shared].aborted => since < generation,
         \A d \in Caller : d # c /\ caller[d].at = "waits" /\ shared = NoCaller =>
           caller[d].since < generation \/ Over(caller[d].scan),
         Joins(c, since, shared),
         data' \in {data, NoCaller},
         UNCHANGED <<generation, marks>>
  PROVE  ScanInv'
<1>. DEFINE s == IF shared = NoCaller THEN c ELSE shared
<1>0. c # NoCaller /\ s \in Caller /\ scan[c].at = "none"
  BY ScanNumbers DEF ScanInv, ScanTypes, Started
<1>1. /\ s = c <=> shared = NoCaller
      /\ shared # NoCaller => s = shared
      /\ shared' = s
  BY <1>0, Zenon DEF ScanInv, SharedRuns, Runs, Phases, Joins
<1>2. /\ caller' = [caller EXCEPT ![c] = [at |-> "joined", scan |-> s, since |-> since]]
      /\ subscribers' = subscribers \cup {c}
  BY DEF Joins
<1>3. /\ shared # NoCaller => scan' = scan
      /\ shared = NoCaller => scan' = [scan EXCEPT ![c] =
           [NoScan EXCEPT !.at = "listing", !.since = generation]]
  BY <1>1 DEF Joins
<1>4. /\ caller'[c].at = "joined" /\ caller'[c].scan = s /\ caller'[c].since = since
      /\ \A d \in Caller \ {c} : caller'[d] = caller[d]
      /\ \A d \in Caller \ {c} : scan'[d] = scan[d]
      /\ shared = NoCaller => /\ scan'[c].at = "listing" /\ scan'[c].since = generation
                              /\ scan'[c].aborted = FALSE
      /\ shared # NoCaller => scan'[c] = scan[c]
  BY <1>2, <1>3, <1>0 DEF ScanInv, ScanTypes, NoScan
<1>. HIDE DEF s
<1>5. ScanTypes'
  <2>1. caller' \in [Caller -> CallerRecords]
    BY <1>0, <1>2 DEF ScanInv, ScanTypes, CallerRecords
  <2>2. [NoScan EXCEPT !.at = "listing", !.since = generation] \in ScanRecords
    BY DEF ScanInv, ScanTypes, ScanRecords, NoScan, Phases
  <2>3. scan' \in [Caller -> ScanRecords]
    <3>. DEFINE new == [NoScan EXCEPT !.at = "listing", !.since = generation]
    <3>1. shared = NoCaller => scan' = [scan EXCEPT ![c] = new]
      BY <1>3
    <3>. HIDE DEF new
    <3>. QED
      BY <1>3, <3>1, <2>2 DEF ScanInv, ScanTypes, new
  <2>4. subscribers' \in SUBSET Caller
    BY <1>2 DEF ScanInv, ScanTypes
  <2>. QED
    BY <1>0, <1>1, <2>1, <2>3, <2>4 DEF ScanInv, ScanTypes
<1>6. SharedRuns'
  <2>1. CASE shared = NoCaller
    BY <1>0, <1>1, <1>4, <2>1, ScanNumbers DEF ScanInv, SharedRuns, Runs, Phases
  <2>2. CASE shared # NoCaller
    <3>1. scan' = scan /\ shared' = shared
      BY <1>1, <1>3, <2>2
    <3>. QED
      BY <3>1 DEF ScanInv, SharedRuns, Runs
  <2>. QED
    BY <2>1, <2>2
<1>7. KeptIsMarked'
  BY <1>0, <1>1, <1>4 DEF ScanInv, KeptIsMarked, ScanTypes
<1>8. Started'
  BY <1>0, <1>1, <1>4 DEF ScanInv, Started, SharedRuns, Runs, Phases
<1>9. ServedInTime'
  <2>1. scan'[s].since = generation
    BY <1>0, <1>1, <1>4 DEF ScanInv, SharedRuns
  <2>2. \A d \in Caller \ {c} : caller[d].at \in {"joined", "reads"} =>
          scan'[caller[d].scan] = scan[caller[d].scan]
    BY <1>0, <1>4 DEF ScanInv, Started
  <2>3. generation \in Nat /\ since \in Nat
    BY ScanNumbers DEF ScanInv, ScanTypes
  <2>. QED
    BY <1>0, <1>4, <2>1, <2>2, <2>3 DEF ScanInv, ServedInTime
<1>10. Subscribed'
  <2>1. \A d \in Caller : caller'[d].at = "joined" /\ caller'[d].scan = s => d \in subscribers'
    BY <1>0, <1>1, <1>2, <1>4 DEF ScanInv, Started, Subscribed
  <2>2. \A d \in subscribers : d \in Caller \ {c}
    BY <1>0, <1>2 DEF ScanInv, Subscribed, ScanTypes
  <2>3. \A d \in subscribers : caller'[d].at = "joined"
          /\ (caller'[d].scan = shared' \/ scan'[caller'[d].scan].at \in {"ended", "failed"})
    <3>. TAKE d \in subscribers
    <3>1. caller'[d] = caller[d] /\ caller[d].at = "joined" /\ caller[d].scan \in Caller
      BY <1>4, <2>2 DEF ScanInv, Subscribed, Started
    <3>2. CASE caller[d].scan = shared
      BY <1>0, <1>1, <3>1, <3>2, ScanNumbers
    <3>3. CASE scan[caller[d].scan].at \in {"ended", "failed"}
      BY <1>0, <1>4, <3>1, <3>3
    <3>. QED
      BY <3>1, <3>2, <3>3, <2>2 DEF ScanInv, Subscribed, Over
  <2>. QED
    BY <1>0, <1>1, <1>2, <1>4, <2>1, <2>3 DEF Subscribed, Over
<1>11. AbortedForCause'
  BY <1>0, <1>1, <1>4 DEF ScanInv, Started, AbortedForCause, SharedRuns, ScanTypes, Over
<1>. QED
  BY <1>5, <1>6, <1>7, <1>8, <1>9, <1>10, <1>11 DEF ScanInv

LEMMA CallKeeps == \A c \in Caller : ScanInv /\ Calls(c) => ScanInv'
<1>. SUFFICES ASSUME ScanInv, NEW c \in Caller, Calls(c) PROVE ScanInv'
  OBVIOUS
<1>1. caller[c].at = "out" /\ AllHeard /\ UNCHANGED <<generation, marks>>
  BY DEF Calls
<1>2. CASE data # NoCaller /\ recent
  <2>1. /\ caller' = [caller EXCEPT ![c] =
                       [at |-> "reads", scan |-> data, since |-> generation]]
        /\ UNCHANGED <<shared, data, subscribers, scan>>
    BY <1>2 DEF Calls
  <2>2. /\ caller'[c].at = "reads" /\ caller'[c].scan = data /\ caller'[c].since = generation
        /\ \A d \in Caller \ {c} : caller'[d] = caller[d]
        /\ data \in Caller
    BY <1>2, <2>1 DEF ScanInv, ScanTypes
  <2>3. ScanTypes'
    BY <1>1, <2>1, <2>2 DEF ScanInv, ScanTypes, CallerRecords
  <2>4. SharedRuns' /\ KeptIsMarked'
    BY <1>1, <2>1 DEF ScanInv, SharedRuns, KeptIsMarked, Runs
  <2>5. Started'
    BY <1>1, <1>2, <2>1, <2>2 DEF ScanInv, KeptIsMarked, ScanTypes, Started
  <2>6. ServedInTime'
    BY <1>1, <1>2, <2>1, <2>2 DEF ScanInv, KeptIsMarked, ScanTypes, ServedInTime
  <2>7. Subscribed' /\ AbortedForCause'
    BY <1>1, <2>1, <2>2 DEF ScanInv, Subscribed, AbortedForCause, Over, ScanTypes
  <2>. QED
    BY <2>3, <2>4, <2>5, <2>6, <2>7 DEF ScanInv
<1>3. CASE ~(data # NoCaller /\ recent) /\ Dying
  <2>1. /\ caller' = [caller EXCEPT ![c] =
                       [at |-> "waits", scan |-> shared, since |-> generation]]
        /\ data' = NoCaller
        /\ UNCHANGED <<shared, subscribers, scan>>
    BY <1>3 DEF Calls
  <2>2. /\ caller'[c].at = "waits" /\ caller'[c].scan = shared /\ caller'[c].since = generation
        /\ \A d \in Caller \ {c} : caller'[d] = caller[d]
        /\ shared \in Caller /\ Runs(shared)
    BY <1>3, <2>1 DEF ScanInv, ScanTypes, SharedRuns, Dying
  <2>3. ScanTypes'
    BY <1>1, <2>1, <2>2 DEF ScanInv, ScanTypes, CallerRecords
  <2>4. SharedRuns' /\ KeptIsMarked'
    BY <1>1, <2>1 DEF ScanInv, SharedRuns, KeptIsMarked, Runs
  <2>5. Started'
    BY <1>1, <2>1, <2>2 DEF ScanInv, ScanTypes, Started, Runs, Phases
  <2>6. ServedInTime'
    BY <1>1, <2>1, <2>2 DEF ScanInv, ScanTypes, ServedInTime
  <2>7. Subscribed' /\ AbortedForCause'
    BY <1>1, <2>1, <2>2 DEF ScanInv, Subscribed, AbortedForCause, Over, ScanTypes
  <2>. QED
    BY <2>3, <2>4, <2>5, <2>6, <2>7 DEF ScanInv
<1>4. CASE ~(data # NoCaller /\ recent) /\ ~Dying
  <2>1. Joins(c, generation, shared) /\ data' \in {data, NoCaller}
    BY <1>4 DEF Calls
  <2>2. ~(shared # NoCaller /\ scan[shared].aborted)
    BY <1>4 DEF Dying
  <2>3. \A d \in Caller : d # c /\ caller[d].at = "waits" /\ shared = NoCaller =>
          caller[d].since < generation
    BY <1>1, ScanNumbers DEF AllHeard, Awaiting, ScanInv, AbortedForCause, Started
  <2>4. generation \in 0..MaxClears /\ generation <= generation
    BY ScanNumbers DEF ScanInv, ScanTypes
  <2>. QED
    BY <1>1, <2>1, <2>2, <2>3, <2>4, JoinKeeps
<1>. QED
  BY <1>2, <1>3, <1>4

LEMMA StopsWaitingKeeps == \A c \in Caller : ScanInv /\ StopsWaiting(c) => ScanInv'
<1>. SUFFICES ASSUME ScanInv, NEW c \in Caller, StopsWaiting(c) PROVE ScanInv'
  OBVIOUS
<1>1. /\ caller[c].at = "waits" /\ Over(caller[c].scan)
      /\ UNCHANGED <<data, generation, marks>>
  BY DEF StopsWaiting
<1>2. shared # caller[c].scan
  BY <1>1, ScanNumbers DEF ScanInv, SharedRuns, Started, Over, Runs, Phases
<1>3. Joins(c, caller[c].since, shared)
  BY <1>2 DEF StopsWaiting
<1>4. shared # NoCaller /\ scan[shared].aborted => caller[c].since < generation
  BY <1>1, <1>2 DEF ScanInv, AbortedForCause
<1>5. \A d \in Caller : d # c /\ caller[d].at = "waits" /\ shared = NoCaller =>
        caller[d].since < generation \/ Over(caller[d].scan)
  BY ScanNumbers DEF ScanInv, AbortedForCause, Started
<1>6. caller[c].since \in 0..MaxClears /\ caller[c].since <= generation
  BY DEF ScanInv, ScanTypes, CallerRecords, Started
<1>7. data' \in {data, NoCaller}
  BY <1>1
<1>. QED
  BY <1>1, <1>3, <1>4, <1>5, <1>6, <1>7, JoinKeeps

(* Who leaves takes the shared scan along only if nobody else has joined it. *)
LEMMA LeavingKeeps ==
  ASSUME ScanInv, NEW c \in Caller, Leaves(c),
         caller[c].at = "joined",
         NEW new \in [at : {"reads", "cancelled", "dropped", "failed"},
                      scan : Caller \cup {NoCaller}, since : 0..MaxClears],
         caller' = [caller EXCEPT ![c] = new],
         new.since <= generation,
         new.at = "reads" => /\ new.scan = caller[c].scan /\ new.since = caller[c].since
                             /\ scan[caller[c].scan].at = "ended",
         Over(caller[c].scan) \/ AllHeard,
         UNCHANGED <<shared, data, generation, marks>>
  PROVE  ScanInv'
<1>1. subscribers' = subscribers \ {c}
  BY DEF Leaves
<1>2. caller'[c] = new /\ \A d \in Caller \ {c} : caller'[d] = caller[d]
  BY DEF ScanInv, ScanTypes
<1>3. \/ scan' = scan /\ (shared = NoCaller \/ subscribers' # {})
      \/ shared # NoCaller /\ subscribers' = {} /\ scan' = [scan EXCEPT ![shared].aborted = TRUE]
  BY DEF Leaves, Abandoned
<1>4. ASSUME shared # NoCaller, scan' = [scan EXCEPT ![shared].aborted = TRUE]
      PROVE  /\ shared \in Caller /\ scan'[shared] = [scan[shared] EXCEPT !.aborted = TRUE]
             /\ \A s \in Caller \ {shared} : scan'[s] = scan[s]
             /\ scan'[shared] \in ScanRecords
  <2>1. shared \in Caller /\ scan[shared] \in ScanRecords
    BY <1>4 DEF ScanInv, ScanTypes
  <2>2. [scan[shared] EXCEPT !.aborted = TRUE] \in ScanRecords
    BY <2>1 DEF ScanRecords
  <2>. QED
    BY <1>4, <2>1, <2>2 DEF ScanInv, ScanTypes
<1>13. scan' \in [Caller -> ScanRecords]
  <2>1. CASE scan' = scan
    BY <2>1 DEF ScanInv, ScanTypes
  <2>2. CASE shared # NoCaller /\ scan' = [scan EXCEPT ![shared].aborted = TRUE]
    <3>. DEFINE new2 == [scan[shared] EXCEPT !.aborted = TRUE]
    <3>1. new2 \in ScanRecords /\ scan' = [scan EXCEPT ![shared] = new2]
      BY <1>4, <2>2
    <3>. HIDE DEF new2
    <3>. QED
      BY <3>1 DEF ScanInv, ScanTypes
  <2>. QED
    BY <1>3, <2>1, <2>2
<1>14. \A s \in Caller : /\ scan'[s].at = scan[s].at /\ scan'[s].left = scan[s].left
                         /\ scan'[s].offsets = scan[s].offsets
                         /\ scan'[s].missing = scan[s].missing
                         /\ scan'[s].since = scan[s].since
                         /\ s # shared => scan'[s].aborted = scan[s].aborted
                         /\ scan'[s].aborted = FALSE => scan[s].aborted = FALSE
  BY <1>3, <1>4 DEF ScanInv, ScanTypes, ScanRecords
<1>15. shared # NoCaller /\ subscribers' = {} => scan'[shared].aborted = TRUE
  <2>1. shared # NoCaller => scan[shared] \in ScanRecords
    BY DEF ScanInv, ScanTypes
  <2>. QED
    BY <1>3, <1>4, <2>1 DEF ScanRecords
<1>5. \A d \in Caller : caller[d].at \in {"waits", "joined", "reads"} => caller[d].scan \in Caller
  BY DEF ScanInv, Started
<1>6. ScanTypes'
  <2>1. caller' \in [Caller -> CallerRecords]
    BY DEF ScanInv, ScanTypes, CallerRecords
  <2>. QED
    BY <1>1, <1>13, <1>14, <1>15, <2>1 DEF ScanInv, ScanTypes
<1>7. SharedRuns'
  BY <1>13, <1>14, <1>15, ScanNumbers DEF ScanInv, ScanTypes, SharedRuns, Runs
<1>8. KeptIsMarked'
  BY <1>13, <1>14, <1>15 DEF ScanInv, ScanTypes, KeptIsMarked
<1>9. Started'
  BY <1>2, <1>13, <1>14, <1>15, <1>5 DEF ScanInv, Started
<1>10. ServedInTime'
  BY <1>2, <1>13, <1>14, <1>15, <1>5 DEF ScanInv, ServedInTime
<1>11. Subscribed'
  <2>1. c \notin subscribers' /\ caller'[c].at # "joined"
    BY <1>1, <1>2
  <2>2. \A d \in subscribers' : d \in Caller \ {c} /\ d \in subscribers
    BY <1>1 DEF ScanInv, ScanTypes
  <2>3. \A d \in subscribers' :
          caller'[d].at = "joined" /\ (caller'[d].scan = shared \/ Over(caller[d].scan))
    BY <1>2, <2>2 DEF ScanInv, Subscribed
  <2>4. \A d \in subscribers' : Over(caller[d].scan) => Over(caller[d].scan)'
    BY <1>2, <1>13, <1>14, <1>15, <1>5, <2>2, <2>3 DEF Over
  <2>5. shared # NoCaller /\ scan'[shared].aborted = FALSE =>
          \E d \in Caller : caller'[d].at = "joined" /\ caller'[d].scan = shared
    <3>. SUFFICES ASSUME shared # NoCaller, scan'[shared].aborted = FALSE
                  PROVE  \E d \in Caller : caller'[d].at = "joined" /\ caller'[d].scan = shared
      OBVIOUS
    <3>1. shared \in Caller /\ Runs(shared)
      BY DEF ScanInv, ScanTypes, SharedRuns
    <3>2. subscribers' # {}
      BY <1>3, <1>13, <1>14, <1>15, <3>1
    <3>3. CASE AllHeard
      BY <3>2, <3>3, <2>2, <2>3, <1>2 DEF AllHeard, Awaiting
    <3>4. CASE Over(caller[c].scan)
      <4>1. PICK d \in Caller : caller[d].at = "joined" /\ caller[d].scan = shared
        BY <1>13, <1>14, <1>15, <3>1 DEF ScanInv, Subscribed
      <4>. QED
        BY <4>1, <3>1, <3>4, <1>2 DEF Over, Runs, Phases
    <3>. QED
      BY <3>3, <3>4
  <2>6. \A d \in Caller : caller'[d].at = "joined" /\ caller'[d].scan = shared =>
          d \in subscribers'
    BY <1>1, <1>2, <2>1 DEF ScanInv, Subscribed
  <2>. QED
    BY <1>2, <2>2, <2>3, <2>4, <2>5, <2>6 DEF Subscribed, Over
<1>12. AbortedForCause'
  <2>. SUFFICES ASSUME NEW d \in Caller
       PROVE  /\ caller'[d].at = "joined" /\ scan'[caller'[d].scan].aborted =>
                   caller'[d].since < generation
              /\ caller'[d].at = "waits" /\ caller'[d].scan # shared =>
                   \/ caller'[d].since < generation
                   \/ /\ scan'[caller'[d].scan].at \in {"ended", "failed"}
                      /\ shared = NoCaller \/ scan'[shared].aborted = FALSE
    BY DEF AbortedForCause, Over
  <2>1. CASE d = c
    BY <1>2, <2>1
  <2>2. ASSUME d # c, caller[d].at = "joined", scan'[caller[d].scan].aborted
        PROVE  caller[d].since < generation
    <3>1. scan[caller[d].scan].aborted => caller[d].since < generation
      BY <2>2 DEF ScanInv, AbortedForCause
    <3>2. CASE caller[d].scan = shared
      <4>1. d \in subscribers'
        BY <2>2, <3>2, <1>1 DEF ScanInv, Subscribed
      <4>. QED
        BY <4>1, <1>3, <2>2, <3>1
    <3>3. CASE caller[d].scan # shared
      BY <1>13, <1>14, <1>15, <1>5, <2>2, <3>1, <3>3
    <3>. QED
      BY <3>2, <3>3
  <2>3. ASSUME d # c, caller[d].at = "waits", caller[d].scan # shared
        PROVE  \/ caller[d].since < generation
               \/ /\ scan'[caller[d].scan].at \in {"ended", "failed"}
                  /\ shared = NoCaller \/ scan'[shared].aborted = FALSE
    <3>1. \/ caller[d].since < generation
          \/ Over(caller[d].scan) /\ (shared = NoCaller \/ scan[shared].aborted = FALSE)
      BY <2>3 DEF ScanInv, AbortedForCause
    <3>2. CASE Over(caller[d].scan) /\ (shared = NoCaller \/ scan[shared].aborted = FALSE)
      <4>1. scan'[caller[d].scan].at \in {"ended", "failed"}
        BY <1>13, <1>14, <1>15, <1>5, <2>3, <3>2 DEF Over
      <4>2. ~AllHeard
        BY <2>3, <3>2 DEF AllHeard, Awaiting
      <4>3. shared # NoCaller => scan'[shared] = scan[shared]
        <5>. SUFFICES ASSUME shared # NoCaller PROVE scan'[shared] = scan[shared]
          OBVIOUS
        <5>1. PICK e \in Caller : caller[e].at = "joined" /\ caller[e].scan = shared
          BY <3>2 DEF ScanInv, Subscribed
        <5>2. e \in subscribers /\ e # c
          BY <4>2, <5>1 DEF ScanInv, Subscribed, SharedRuns, Over, Runs, Phases
        <5>. QED
          BY <1>1, <1>3, <5>2
      <4>. QED
        BY <3>2, <4>1, <4>3
    <3>. QED
      BY <3>1, <3>2
  <2>4. d # c => caller'[d] = caller[d]
    BY <1>2
  <2>. QED
    BY <1>2, <2>1, <2>2, <2>3, <2>4
<1>. QED
  BY <1>6, <1>7, <1>8, <1>9, <1>10, <1>11, <1>12 DEF ScanInv

LEMMA HearsKeeps == \A c \in Caller : ScanInv /\ HearsPart(c) => ScanInv'
<1>. SUFFICES ASSUME ScanInv, NEW c \in Caller, HearsPart(c) PROVE ScanInv'
  OBVIOUS
<1>1. /\ caller[c].at = "joined" /\ Over(caller[c].scan) /\ Leaves(c)
      /\ UNCHANGED <<shared, data, generation, marks>>
      /\ caller[c] \in CallerRecords /\ caller[c].since <= generation
      /\ generation \in 0..MaxClears
  BY DEF HearsPart, ScanInv, ScanTypes, Started
<1>. DEFINE new == IF scan[caller[c].scan].at = "failed"
       THEN Left(IF c \in aborting THEN "cancelled"
                 ELSE IF scan[caller[c].scan].aborted THEN "dropped" ELSE "failed")
       ELSE IF c \in aborting THEN Left("cancelled") ELSE [caller[c] EXCEPT !.at = "reads"]
<1>2. caller' = [caller EXCEPT ![c] = new]
  BY <1>1 DEF HearsPart, ScanInv, ScanTypes
<1>3. /\ new \in [at : {"reads", "cancelled", "dropped", "failed"},
                 scan : Caller \cup {NoCaller}, since : 0..MaxClears]
      /\ new.since <= generation
      /\ new.at = "reads" => /\ new.scan = caller[c].scan /\ new.since = caller[c].since
                             /\ scan[caller[c].scan].at = "ended"
  BY <1>1, ScanNumbers DEF Left, CallerRecords, Over
<1>. HIDE DEF new
<1>. QED
  BY <1>1, <1>2, <1>3, LeavingKeeps

LEMMA AbortKeeps == \A c \in Caller : ScanInv /\ Aborts(c) => ScanInv'
<1>. SUFFICES ASSUME ScanInv, NEW c \in Caller, Aborts(c) PROVE ScanInv'
  OBVIOUS
<1>1. CASE caller[c].at = "joined" /\ c \in heeded
  <2>. DEFINE new == Left("cancelled")
  <2>1. /\ caller[c].at = "joined" /\ AllHeard /\ Leaves(c)
        /\ UNCHANGED <<shared, data, generation, marks>>
        /\ generation \in 0..MaxClears
        /\ caller' = [caller EXCEPT ![c] = new]
    BY <1>1 DEF Aborts, ScanInv, ScanTypes
  <2>2. /\ new \in [at : {"reads", "cancelled", "dropped", "failed"},
                   scan : Caller \cup {NoCaller}, since : 0..MaxClears]
        /\ new.since <= generation /\ new.at # "reads"
    BY <2>1, ScanNumbers DEF Left
  <2>. HIDE DEF new
  <2>. QED
    BY <2>1, <2>2, LeavingKeeps
<1>2. CASE ~(caller[c].at = "joined" /\ c \in heeded)
  <2>1. UNCHANGED <<subscribers, scan, caller, shared, data, generation, marks>>
    BY <1>2 DEF Aborts
  <2>. QED
    BY <2>1 DEF ScanInv, ScanTypes, SharedRuns, KeptIsMarked, Started, ServedInTime,
                Subscribed, AbortedForCause, Runs, Over
<1>. QED
  BY <1>1, <1>2

LEMMA AnswersKeeps == \A c \in Caller : ScanInv /\ Answers(c) => ScanInv'
<1>. SUFFICES ASSUME ScanInv, NEW c \in Caller, Answers(c) PROVE ScanInv'
  OBVIOUS
<1>1. PICK how \in {"answered", "failed"} : caller' = [caller EXCEPT ![c] = Left(how)]
  BY DEF Answers
<1>2. /\ caller[c].at = "reads"
      /\ UNCHANGED <<scan, shared, data, generation, subscribers, marks>>
  BY DEF Answers, indexVars
<1>3. /\ caller'[c] = Left(how) /\ caller'[c].at = how /\ caller'[c].since = 0
      /\ \A d \in Caller \ {c} : caller'[d] = caller[d]
  BY <1>1 DEF ScanInv, ScanTypes, Left
<1>4. ScanTypes'
  <2>1. Left(how) \in CallerRecords
    BY ScanNumbers DEF Left, CallerRecords
  <2>. QED
    BY <1>1, <1>2, <2>1 DEF ScanInv, ScanTypes
<1>5. SharedRuns' /\ KeptIsMarked'
  BY <1>2 DEF ScanInv, SharedRuns, KeptIsMarked, Runs
<1>6. Started'
  <2>1. generation \in Nat
    BY ScanNumbers DEF ScanInv, ScanTypes
  <2>. QED
    BY <1>2, <1>3, <2>1 DEF ScanInv, Started
<1>7. ServedInTime' /\ AbortedForCause'
  BY <1>2, <1>3 DEF ScanInv, ServedInTime, AbortedForCause, Over
<1>8. Subscribed'
  BY <1>2, <1>3 DEF ScanInv, Subscribed, ScanTypes, Over
<1>. QED
  BY <1>4, <1>5, <1>6, <1>7, <1>8 DEF ScanInv

LEMMA ClearKeeps == ScanInv /\ ClearIndex => ScanInv'
<1>. SUFFICES ASSUME ScanInv, ClearIndex PROVE ScanInv'
  OBVIOUS
<1>1. /\ generation < MaxClears /\ generation' = generation + 1 /\ AllHeard
      /\ shared' = NoCaller /\ data' = NoCaller /\ marks' = NoCaller
      /\ subscribers' = {} /\ caller' = caller
      /\ generation \in 0..MaxClears
  BY DEF ClearIndex, ScanInv, ScanTypes
<1>2. /\ shared = NoCaller => scan' = scan
      /\ shared # NoCaller => scan' = [scan EXCEPT ![shared].aborted = TRUE]
  BY DEF ClearIndex, Cleared
<1>3. scan' \in [Caller -> ScanRecords]
  <2>1. CASE shared = NoCaller
    BY <1>2, <2>1 DEF ScanInv, ScanTypes
  <2>2. CASE shared # NoCaller
    <3>. DEFINE new == [scan[shared] EXCEPT !.aborted = TRUE]
    <3>1. shared \in Caller /\ scan[shared] \in ScanRecords
      BY <2>2 DEF ScanInv, ScanTypes
    <3>2. new \in ScanRecords
      BY <3>1 DEF ScanRecords
    <3>3. scan' = [scan EXCEPT ![shared] = new]
      BY <1>2, <2>2
    <3>. HIDE DEF new
    <3>. QED
      BY <3>2, <3>3 DEF ScanInv, ScanTypes
  <2>. QED
    BY <2>1, <2>2
<1>4. \A s \in Caller : /\ scan'[s].at = scan[s].at /\ scan'[s].left = scan[s].left
                        /\ scan'[s].offsets = scan[s].offsets
                        /\ scan'[s].missing = scan[s].missing
                        /\ scan'[s].since = scan[s].since
                        /\ s # shared => scan'[s].aborted = scan[s].aborted
                        /\ s = shared => scan'[s].aborted
  BY <1>2, ScanNumbers DEF ScanInv, ScanTypes, ScanRecords
<1>5. ScanTypes'
  BY <1>1, <1>3, ScanNumbers DEF ScanInv, ScanTypes
<1>6. SharedRuns'
  BY <1>1, <1>3, <1>4 DEF ScanInv, SharedRuns, Runs, ScanRecords
<1>7. KeptIsMarked'
  BY <1>1, <1>4 DEF ScanInv, KeptIsMarked
<1>8. Started'
  BY <1>1, <1>4, ScanNumbers DEF ScanInv, Started, ScanTypes, CallerRecords
<1>9. ServedInTime'
  BY <1>1, <1>4 DEF ScanInv, Started, ServedInTime
<1>10. Subscribed'
  BY <1>1, <1>4, ScanNumbers DEF ScanInv, Started, Subscribed
<1>11. AbortedForCause'
  BY <1>1, <1>4, ScanNumbers DEF ScanInv, Started, AbortedForCause, ScanTypes, CallerRecords
<1>. QED
  BY <1>5, <1>6, <1>7, <1>8, <1>9, <1>10, <1>11 DEF ScanInv

(* A scan fails, and is forgotten if it is shared. *)
LEMMA BuildFailsKeeps == \A s \in Caller : ScanInv /\ AllHeard /\ Runs(s) /\ BuildFails(s) => ScanInv'
<1>. SUFFICES ASSUME ScanInv, NEW s \in Caller, AllHeard, Runs(s), BuildFails(s) PROVE ScanInv'
  OBVIOUS
<1>. DEFINE new == [NoScan EXCEPT !.at = "failed", !.aborted = scan[s].aborted]
<1>1. /\ scan' = [scan EXCEPT ![s] = new]
      /\ shared' = IF shared = s THEN NoCaller ELSE shared
      /\ UNCHANGED <<caller, data, generation, subscribers, marks>>
  BY DEF BuildFails
<1>2. new \in ScanRecords /\ new.at = "failed" /\ new.aborted = scan[s].aborted
  <2>1. NoScan \in ScanRecords
    BY ScanNumbers DEF ScanRecords, NoScan
  <2>2. scan[s].aborted \in BOOLEAN
    BY DEF ScanInv, ScanTypes, ScanRecords
  <2>. QED
    BY <2>1, <2>2 DEF ScanRecords
<1>. HIDE DEF new
<1>3. /\ scan'[s] = new /\ \A r \in Caller \ {s} : scan'[r] = scan[r]
      /\ s # NoCaller
  BY <1>1, ScanNumbers DEF ScanInv, ScanTypes
<1>4. ScanTypes'
  BY <1>1, <1>2 DEF ScanInv, ScanTypes
<1>5. SharedRuns'
  BY <1>1, <1>2, <1>3 DEF ScanInv, ScanTypes, SharedRuns, Runs, Phases
<1>6. KeptIsMarked'
  BY <1>1, <1>2, <1>3 DEF ScanInv, ScanTypes, KeptIsMarked, Runs, Phases
<1>7. Started'
  BY <1>1, <1>2, <1>3 DEF ScanInv, Started, Runs, Phases
<1>8. ServedInTime'
  BY <1>1, <1>2, <1>3 DEF ScanInv, Started, ServedInTime, Runs, Phases
<1>9. Subscribed'
  <2>1. \A c \in subscribers : c \in Caller /\ caller[c].at = "joined" /\ caller[c].scan \in Caller
    BY DEF ScanInv, ScanTypes, Subscribed, Started
  <2>2. \A c \in subscribers : caller[c].scan = shared' \/
          scan'[caller[c].scan].at \in {"ended", "failed"}
    BY <1>1, <1>2, <1>3, <2>1 DEF ScanInv, Subscribed, Over
  <2>3. shared' # NoCaller => shared' = shared /\ shared # s /\ shared \in Caller
    BY <1>1 DEF ScanInv, ScanTypes
  <2>4. \A c \in Caller : caller[c].at = "joined" => caller[c].scan # NoCaller
    BY ScanNumbers DEF ScanInv, Started
  <2>. QED
    BY <1>1, <1>3, <2>1, <2>2, <2>3, <2>4 DEF ScanInv, Subscribed, Over
<1>10. AbortedForCause'
  BY <1>1, <1>2, <1>3 DEF ScanInv, Started, AbortedForCause, AllHeard, Awaiting, Over, ScanTypes
<1>. QED
  BY <1>4, <1>5, <1>6, <1>7, <1>8, <1>9, <1>10 DEF ScanInv

(* A scan that is not aborted goes on. *)
LEMMA AdvanceKeeps ==
  ASSUME ScanInv, NEW s \in Caller, Runs(s),
         NEW new \in ScanRecords, new.at \in Phases,
         new.aborted = scan[s].aborted, new.since = scan[s].since,
         \A g \in Group : new.at = "fallback" /\ new.offsets[g] = "part" =>
           g \in new.left \/ g \in new.missing,
         scan' = [scan EXCEPT ![s] = new],
         UNCHANGED <<caller, shared, data, generation, subscribers, marks>>
  PROVE  ScanInv'
<1>1. scan'[s] = new /\ \A r \in Caller \ {s} : scan'[r] = scan[r]
  BY DEF ScanInv, ScanTypes
<1>2. ScanTypes'
  BY DEF ScanInv, ScanTypes
<1>3. SharedRuns'
  BY <1>1 DEF ScanInv, ScanTypes, SharedRuns, Runs, Phases
<1>4. KeptIsMarked'
  BY <1>1 DEF ScanInv, ScanTypes, KeptIsMarked, Runs, Phases
<1>5. Started'
  BY <1>1 DEF ScanInv, Started, Runs, Phases
<1>6. ServedInTime'
  BY <1>1 DEF ScanInv, Started, ServedInTime, Runs, Phases
<1>7. Subscribed'
  BY <1>1 DEF ScanInv, Started, Subscribed, Over, Runs, Phases, ScanTypes
<1>8. AbortedForCause'
  BY <1>1 DEF ScanInv, Started, AbortedForCause, Over, Runs, Phases, ScanTypes
<1>. QED
  BY <1>2, <1>3, <1>4, <1>5, <1>6, <1>7, <1>8 DEF ScanInv

LEMMA ListsKeeps == \A s \in Caller : ScanInv /\ AllHeard /\ Lists(s) => ScanInv'
<1>. SUFFICES ASSUME ScanInv, NEW s \in Caller, AllHeard, Lists(s) PROVE ScanInv'
  OBVIOUS
<1>1. Runs(s)
  BY DEF Lists, Runs, Phases
<1>2. CASE BuildFails(s)
  BY <1>1, <1>2, BuildFailsKeeps
<1>3. CASE ~BuildFails(s)
  <2>. DEFINE new == [[scan[s] EXCEPT !.at = "batch"] EXCEPT !.left = Group]
  <2>1. /\ scan' = [scan EXCEPT ![s] = new]
        /\ UNCHANGED <<caller, shared, data, generation, subscribers, marks>>
    BY <1>3 DEF Lists, indexVars, ScanInv, ScanTypes
  <2>2. /\ new \in ScanRecords /\ new.at = "batch"
        /\ new.aborted = scan[s].aborted /\ new.since = scan[s].since
    BY DEF ScanInv, ScanTypes, ScanRecords, Phases
  <2>. HIDE DEF new
  <2>. QED
    BY <1>1, <2>1, <2>2, AdvanceKeeps DEF Phases
<1>. QED
  BY <1>2, <1>3

LEMMA BatchAnswersKeeps == \A s \in Caller : ScanInv /\ BatchAnswers(s) => ScanInv'
<1>. SUFFICES ASSUME ScanInv, NEW s \in Caller, BatchAnswers(s) PROVE ScanInv'
  OBVIOUS
<1>1. PICK offsets \in [Group -> {"none", "part", "all"}] :
        scan' = [scan EXCEPT ![s].at = "fallback", ![s].offsets = offsets,
                             ![s].left = {g \in Group : ~Resolves(offsets[g])}]
  BY DEF BatchAnswers
<1>2. Runs(s) /\ UNCHANGED <<caller, shared, data, generation, subscribers, marks>>
  BY DEF BatchAnswers, Runs, Phases, indexVars
<1>. DEFINE new == [[[scan[s] EXCEPT !.at = "fallback"] EXCEPT !.offsets = offsets]
                     EXCEPT !.left = {g \in Group : ~Resolves(offsets[g])}]
<1>3. scan' = [scan EXCEPT ![s] = new]
  BY <1>1 DEF ScanInv, ScanTypes
<1>4. /\ new \in ScanRecords /\ new.at = "fallback"
      /\ new.aborted = scan[s].aborted /\ new.since = scan[s].since
      /\ new.offsets = offsets /\ new.left = {g \in Group : ~Resolves(offsets[g])}
  BY DEF ScanInv, ScanTypes, ScanRecords, Phases
<1>5. \A g \in Group : new.offsets[g] = "part" => g \in new.left
  BY <1>4 DEF Resolves
<1>. HIDE DEF new
<1>. QED
  BY <1>2, <1>3, <1>4, <1>5, AdvanceKeeps DEF Phases

LEMMA FallsBackKeeps == \A s \in Caller, g \in Group : ScanInv /\ FallsBack(s, g) => ScanInv'
<1>. SUFFICES ASSUME ScanInv, NEW s \in Caller, NEW g \in Group, FallsBack(s, g) PROVE ScanInv'
  OBVIOUS
<1>1. /\ scan[s].at = "fallback"
      /\ Runs(s) /\ UNCHANGED <<caller, shared, data, generation, subscribers, marks>>
      /\ scan[s] \in ScanRecords
  BY DEF FallsBack, Runs, Phases, indexVars, ScanInv, ScanTypes
<1>2. CASE scan' = [scan EXCEPT ![s].left = @ \ {g}, ![s].offsets[g] = "all"]
  <2>. DEFINE new == [[scan[s] EXCEPT !.left = @ \ {g}]
                       EXCEPT !.offsets = [scan[s].offsets EXCEPT ![g] = "all"]]
  <2>1. scan' = [scan EXCEPT ![s] = new]
    BY <1>2 DEF ScanInv, ScanTypes, ScanRecords
  <2>2. /\ new \in ScanRecords /\ new.at = "fallback" /\ new.missing = scan[s].missing
        /\ new.aborted = scan[s].aborted /\ new.since = scan[s].since
        /\ new.offsets = [scan[s].offsets EXCEPT ![g] = "all"] /\ new.left = scan[s].left \ {g}
    BY <1>1 DEF ScanRecords, Phases
  <2>3. \A h \in Group : new.offsets[h] = "part" => h \in new.left \/ h \in new.missing
    BY <1>1, <2>2 DEF ScanRecords, ScanInv, KeptIsMarked
  <2>. HIDE DEF new
  <2>. QED
    BY <1>1, <2>1, <2>2, <2>3, AdvanceKeeps DEF Phases
<1>3. CASE scan' = [scan EXCEPT ![s].left = @ \ {g}, ![s].missing = Missing(@, g)]
  <2>. DEFINE new == [[scan[s] EXCEPT !.left = @ \ {g}] EXCEPT !.missing = @ \cup {g}]
  <2>1. scan' = [scan EXCEPT ![s] = new]
    BY <1>3 DEF ScanInv, ScanTypes, ScanRecords, Missing
  <2>2. /\ new \in ScanRecords /\ new.at = "fallback" /\ new.missing = scan[s].missing \cup {g}
        /\ new.aborted = scan[s].aborted /\ new.since = scan[s].since
        /\ new.offsets = scan[s].offsets /\ new.left = scan[s].left \ {g}
    BY <1>1 DEF ScanRecords, Phases
  <2>3. \A h \in Group : new.offsets[h] = "part" => h \in new.left \/ h \in new.missing
    BY <1>1, <2>2 DEF ScanInv, KeptIsMarked
  <2>. HIDE DEF new
  <2>. QED
    BY <1>1, <2>1, <2>2, <2>3, AdvanceKeeps DEF Phases
<1>. QED
  BY <1>2, <1>3 DEF FallsBack

LEMMA CompletesKeeps == \A s \in Caller : ScanInv /\ AllHeard /\ Completes(s) => ScanInv'
<1>. SUFFICES ASSUME ScanInv, NEW s \in Caller, AllHeard, Completes(s) PROVE ScanInv'
  OBVIOUS
<1>. DEFINE new == [scan[s] EXCEPT !.at = "ended"]
<1>1. /\ scan[s].at = "fallback" /\ scan[s].aborted = FALSE /\ scan[s].left = {}
      /\ scan[s] \in ScanRecords /\ UNCHANGED <<caller, generation, subscribers>>
  BY DEF Completes, ScanInv, ScanTypes, ScanRecords
<1>2. shared = s /\ scan[s].since = generation /\ s # NoCaller
  BY <1>1, ScanNumbers DEF ScanInv, SharedRuns, Runs, Phases
<1>3. shared' = NoCaller /\ data' = s /\ marks' = s /\ scan' = [scan EXCEPT ![s] = new]
  BY <1>2 DEF Completes, ScanInv, ScanTypes
<1>4. /\ new \in ScanRecords /\ new.at = "ended" /\ new.aborted = FALSE
      /\ new.since = generation /\ new.offsets = scan[s].offsets
      /\ new.missing = scan[s].missing /\ new.left = {}
  BY <1>1, <1>2 DEF ScanRecords
<1>. HIDE DEF new
<1>5. scan'[s] = new /\ \A r \in Caller \ {s} : scan'[r] = scan[r]
  BY <1>3 DEF ScanInv, ScanTypes
<1>6. ScanTypes'
  BY <1>1, <1>3, <1>4 DEF ScanInv, ScanTypes
<1>7. SharedRuns'
  BY <1>1, <1>2, <1>3, <1>4, <1>5 DEF ScanInv, ScanTypes, SharedRuns, Runs, Phases
<1>8. KeptIsMarked'
  BY <1>1, <1>2, <1>3, <1>4, <1>5 DEF ScanInv, ScanTypes, KeptIsMarked
<1>9. Started'
  BY <1>1, <1>3, <1>4, <1>5 DEF ScanInv, Started
<1>10. ServedInTime'
  BY <1>1, <1>3, <1>4, <1>5 DEF ScanInv, Started, ServedInTime
<1>11. Subscribed'
  <2>1. \A c \in Caller : caller[c].at = "joined" => caller[c].scan # NoCaller
    BY ScanNumbers DEF ScanInv, Started
  <2>2. \A c \in subscribers : c \in Caller /\ caller[c].at = "joined" /\ caller[c].scan = s
    BY <1>2 DEF ScanInv, Subscribed, ScanTypes, AllHeard, Awaiting
  <2>. QED
    BY <1>1, <1>3, <1>4, <1>5, <2>1, <2>2 DEF Subscribed, Over
<1>12. AbortedForCause'
  BY <1>1, <1>2, <1>3, <1>4, <1>5 DEF ScanInv, Started, AbortedForCause, AllHeard, Awaiting, Over
<1>. QED
  BY <1>6, <1>7, <1>8, <1>9, <1>10, <1>11, <1>12 DEF ScanInv

LEMMA ScanStep == ScanInv /\ [ScanNext]_scanVars => ScanInv'
<1>. SUFFICES ASSUME ScanInv, [ScanNext]_scanVars PROVE ScanInv'
  OBVIOUS
<1>1. ASSUME NEW c \in Caller, AllHeard, Builds(c) PROVE ScanInv'
  BY <1>1, BuildFailsKeeps, ListsKeeps, BatchAnswersKeeps, FallsBackKeeps, CompletesKeeps
     DEF Builds, Breaks
<1>2. CASE Expires \/ UNCHANGED scanVars
  BY <1>2 DEF Expires, scanVars, ScanInv, ScanTypes, SharedRuns, KeptIsMarked,
              Started, ServedInTime, Subscribed, AbortedForCause, Runs, Over
<1>. QED
  BY <1>1, <1>2, CallKeeps, StopsWaitingKeeps, HearsKeeps, AbortKeeps, AnswersKeeps, ClearKeeps, Zenon
     DEF ScanNext, ScanMoves

LEMMA ScanInvIsOne == ScanInv => PartialIsMarked /\ OneScan /\ ClearedNeverServes
<1>. SUFFICES ASSUME ScanInv PROVE PartialIsMarked /\ OneScan /\ ClearedNeverServes
  OBVIOUS
<1>1. PartialIsMarked
  BY DEF ScanInv, ScanTypes, KeptIsMarked, PartialIsMarked, IsUnavailable
<1>2. OneScan
  BY DEF ScanInv, SharedRuns, OneScan, ScanTypes, ScanRecords
<1>3. ClearedNeverServes
  BY DEF ScanInv, ServedInTime, ClearedNeverServes
<1>. QED
  BY <1>1, <1>2, <1>3

(* Whoever hears that its scan was aborted has joined an aborted one, as it was before the step. *)
DropsNow ==
  \A c \in Caller : caller'[c].at = "dropped" /\ caller[c].at # "dropped" =>
    caller[c].since < generation

LEMMA DropsForCause == ScanInv /\ [ScanNext]_scanVars => DropsNow \/ UNCHANGED scanVars
<1>. SUFFICES ASSUME ScanInv, ScanNext, NEW c \in Caller,
                     caller'[c].at = "dropped", caller[c].at # "dropped"
              PROVE  caller[c].since < generation
  BY DEF DropsNow
<1>1. \A d \in Caller : d # c /\ (\E new : caller' = [caller EXCEPT ![d] = new]) => caller'[c] = caller[c]
  BY DEF ScanInv, ScanTypes
<1>2. \A d \in Caller : \A new : caller' = [caller EXCEPT ![d] = new] /\ new.at # "dropped" =>
        FALSE
  BY DEF ScanInv, ScanTypes
<1>3. caller' # caller
  OBVIOUS
<1>4. ASSUME NEW d \in Caller, Calls(d) \/ StopsWaiting(d) PROVE FALSE
  BY <1>2, <1>3, <1>4 DEF Calls, StopsWaiting, Joins
<1>5. ASSUME NEW d \in Caller, Aborts(d) \/ Answers(d) PROVE FALSE
  BY <1>2, <1>3, <1>5 DEF Aborts, Answers, Left
<1>6. ASSUME NEW d \in Caller, Builds(d) PROVE FALSE
  BY <1>3, <1>6 DEF Builds, Breaks, BuildFails, Lists, BatchAnswers, FallsBack, Completes
<1>7. ASSUME NEW d \in Caller, HearsPart(d) PROVE caller[c].since < generation
  <2>1. d = c
    BY <1>1, <1>7 DEF HearsPart
  <2>2. /\ caller[c].at = "joined" /\ Over(caller[c].scan)
        /\ scan[caller[c].scan].aborted \/ caller'[c].at # "dropped"
    BY <1>7, <2>1 DEF HearsPart, Left, ScanInv, ScanTypes, CallerRecords
  <2>. QED
    BY <2>2 DEF ScanInv, AbortedForCause
<1>8. ~ClearIndex /\ ~Expires
  BY <1>3 DEF ClearIndex, Expires
<1>. QED
  BY <1>4, <1>5, <1>6, <1>7, <1>8 DEF ScanNext, ScanMoves

ExactTyped == exact \in [Caller -> SUBSET Group]

LEMMA ExactStep == ExactTyped /\ [ScanNext]_scanVars => ExactTyped'
<1>. SUFFICES ASSUME ExactTyped, [ScanNext]_scanVars PROVE ExactTyped'
  OBVIOUS
<1>. USE DEF ExactTyped
<1>1. ASSUME NEW c \in Caller, Calls(c) \/ StopsWaiting(c) \/ HearsPart(c) \/ Aborts(c)
      PROVE  ExactTyped'
  BY <1>1 DEF Calls, StopsWaiting, HearsPart, Aborts
<1>2. ASSUME NEW c \in Caller, Answers(c) PROVE ExactTyped'
  <2>1. ToldExact(c) \in SUBSET Group
    BY DEF ToldExact
  <2>2. exact' = exact \/ exact' = [exact EXCEPT ![c] = ToldExact(c)]
    BY <1>2 DEF Answers
  <2>. QED
    BY <2>1, <2>2
<1>3. ASSUME NEW s \in Caller, Builds(s) PROVE ExactTyped'
  BY <1>3 DEF Builds, Breaks, Lists, BatchAnswers, FallsBack, BuildFails, Completes
<1>4. CASE ClearIndex \/ Expires \/ UNCHANGED scanVars
  BY <1>4 DEF ClearIndex, Expires, scanVars
<1>. QED
  BY <1>1, <1>2, <1>3, <1>4 DEF ScanNext, ScanMoves

LEMMA ExactAlways == ScanSpec => []ExactTyped
<1>1. ScanInit => ExactTyped
  BY DEF ScanInit, ExactTyped
<1>. QED
  BY <1>1, ExactStep, PTL DEF ScanSpec

(* Whoever is told an exact lag while the marks are of its scan is told of a group all of whose offsets
   that scan has read. *)
TellsNow ==
  \A c \in Caller, g \in Group :
    /\ caller[c].at = "reads" /\ caller'[c].at = "answered" /\ g \in exact'[c]
    /\ marks = caller[c].scan
    => scan[caller[c].scan].offsets[g] = "all"

LEMMA TellsWhole == ScanInv /\ ExactTyped /\ [ScanNext]_scanVars => TellsNow \/ UNCHANGED scanVars
<1>. SUFFICES ASSUME ScanInv, ExactTyped, ScanNext, NEW c \in Caller, NEW g \in Group,
                     caller[c].at = "reads", caller'[c].at = "answered", g \in exact'[c],
                     marks = caller[c].scan
              PROVE  scan[caller[c].scan].offsets[g] = "all"
  BY DEF TellsNow
<1>1. \A d \in Caller : \A new : caller' = [caller EXCEPT ![d] = new] /\ new.at # "answered" =>
        FALSE
  BY DEF ScanInv, ScanTypes
<1>2. caller' # caller
  OBVIOUS
<1>3. ASSUME NEW d \in Caller, Calls(d) \/ StopsWaiting(d) PROVE FALSE
  BY <1>1, <1>2, <1>3 DEF Calls, StopsWaiting, Joins
<1>4. ASSUME NEW d \in Caller, HearsPart(d) PROVE FALSE
  BY <1>4 DEF HearsPart, Left, ScanInv, ScanTypes
<1>5. ASSUME NEW d \in Caller, Aborts(d) PROVE FALSE
  BY <1>1, <1>2, <1>5 DEF Aborts, Left
<1>6. ASSUME NEW d \in Caller, Builds(d) PROVE FALSE
  BY <1>2, <1>6 DEF Builds, Breaks, BuildFails, Lists, BatchAnswers, FallsBack, Completes
<1>7. ~ClearIndex /\ ~Expires
  BY <1>2 DEF ClearIndex, Expires
<1>8. ASSUME NEW d \in Caller, Answers(d) PROVE scan[caller[c].scan].offsets[g] = "all"
  <2>1. d = c
    BY <1>8 DEF Answers, ScanInv, ScanTypes
  <2>2. exact' = [exact EXCEPT ![c] = ToldExact(c)]
    BY <1>8, <2>1 DEF Answers, Left, ScanInv, ScanTypes
  <2>3. g \in ToldExact(c)
    BY <2>2 DEF ExactTyped
  <2>4. caller[c].scan \in Caller /\ marks # NoCaller /\ scan[caller[c].scan].at = "ended"
    BY ScanNumbers DEF ScanInv, Started, ServedInTime
  <2>5. /\ scan[caller[c].scan].offsets[g] # "none"
        /\ g \notin scan[caller[c].scan].missing
    BY <2>3, <2>4 DEF ToldExact, IsUnavailable
  <2>6. scan[caller[c].scan].offsets[g] \in {"none", "part", "all"}
    BY <2>4 DEF ScanInv, ScanTypes, ScanRecords
  <2>. QED
    BY <2>4, <2>5, <2>6 DEF ScanInv, KeptIsMarked
<1>. QED
  BY <1>3, <1>4, <1>5, <1>6, <1>7, <1>8 DEF ScanNext, ScanMoves

(* For any callers, groups and clears: the offsets of consumer groups come from one scan of after
   the last clear, with the groups of which a part is missing marked, and told as such while the
   marks are of that scan, and a caller loses its scan to a clear only. *)
THEOREM ScansServe == ScanSpec => ScanServes
<1>1. ScanSpec => []ScanInv
  BY ScanInitInv, ScanStep, PTL DEF ScanSpec
<1>2. ScanSpec => [](PartialIsMarked /\ OneScan /\ ClearedNeverServes)
  BY <1>1, ScanInvIsOne, PTL
<1>3. ScanSpec => [][DropsNow]_scanVars
  BY <1>1, DropsForCause, PTL DEF ScanSpec
<1>4. ScanSpec => DroppedForCause
  BY <1>3 DEF DroppedForCause, DropsNow
<1>5. ScanSpec => [][TellsNow]_scanVars
  BY <1>1, ExactAlways, TellsWhole, PTL DEF ScanSpec
<1>6. ScanSpec => PartialIsTold
  BY <1>5 DEF PartialIsTold, TellsNow
<1>. QED
  BY <1>2, <1>4, <1>6, PTL DEF ScanServes

-----------------------------------------------------------------------------
(* GroupOffsetBatch.                                                       *)

ReadRecords ==
  [at : {"idle", "metadata", "bootstrap", "lookup", "fetch", "answered", "failed"},
   left : SUBSET Scanned, resolved : SUBSET Scanned, stop : BOOLEAN, cancelled : BOOLEAN,
   supported : BOOLEAN]
RequestRecords ==
  [at : {"none", "queued", "finding", "asked", "done"}, groups : SUBSET Scanned]

BatchTypes ==
  /\ where \in [Scanned -> Broker] /\ known \in [Scanned -> SUBSET Broker]
  /\ read \in ReadRecords /\ requests \in [Broker -> RequestRecords]
  /\ stray \in [Broker -> SUBSET Scanned]

BatchInv == BatchTypes /\ RefusalHeeded

(* A step keeps the invariant, and sends a request only while the read goes on. *)
SendsWhileItGoes ==
  \A b \in Broker : requests'[b].at = "asked" /\ requests[b].at # "asked" => Goes
BatchHeeds == BatchInv' /\ SendsWhileItGoes

LEMMA BatchInitInv == BatchInit => BatchInv
<1>. SUFFICES ASSUME BatchInit PROVE BatchInv
  OBVIOUS
<1>1. read \in ReadRecords
  BY DEF BatchInit, IdleRead, ReadRecords
<1>2. requests \in [Broker -> RequestRecords] /\ stray \in [Broker -> SUBSET Scanned]
  BY DEF BatchInit, NoRequest, RequestRecords
<1>. QED
  BY <1>1, <1>2 DEF BatchInit, BatchInv, BatchTypes, RefusalHeeded

LEMMA ReadKept ==
  ASSUME BatchInv
  PROVE  /\ \A at \in {"metadata", "bootstrap", "lookup", "fetch", "answered", "failed"} :
              [read EXCEPT !.at = at] \in ReadRecords
         /\ \A left \in SUBSET Scanned : [read EXCEPT !.at = "lookup", !.left = left] \in ReadRecords
         /\ [read EXCEPT !.at = "fetch", !.left = {}] \in ReadRecords
         /\ \A supported \in BOOLEAN : Supported(supported) \in ReadRecords
         /\ Failed \in ReadRecords
         /\ IdleRead \in ReadRecords
         /\ [read EXCEPT !.cancelled = TRUE] \in ReadRecords
         /\ \A how \in BOOLEAN : [read EXCEPT !.stop = how] \in ReadRecords
         /\ \A whole \in SUBSET Scanned, how \in BOOLEAN :
              [read EXCEPT !.resolved = @ \cup whole, !.stop = how] \in ReadRecords
BY DEF BatchInv, BatchTypes, ReadRecords, Supported, Failed, IdleRead

LEMMA QueuedType ==
  \A table : /\ Queued(table) \in [Broker -> RequestRecords]
             /\ \A b \in Broker : Queued(table)[b].at # "asked"
BY DEF Queued, NoRequest, RequestRecords

(* The lookups, or the requests, that follow. *)
LEMMA ProceedsKeeps ==
  ASSUME BatchInv, NEW left \in SUBSET Scanned, NEW table, Proceeds(left, table)
  PROVE  /\ read' \in ReadRecords /\ requests' \in [Broker -> RequestRecords]
         /\ SendsWhileItGoes
<1>1. read' \in ReadRecords
  BY ReadKept DEF Proceeds
<1>2. requests' = requests \/ requests' = Queued(table)
  BY DEF Proceeds
<1>. QED
  BY <1>1, <1>2, QueuedType DEF BatchInv, BatchTypes, SendsWhileItGoes

(* What a lookup answers is asked for anew. *)
LEMMA LookupHeeds ==
  ASSUME BatchInv, NEW chunk \in SUBSET Scanned, NEW found \in SUBSET Scanned,
         NEW disables \in BOOLEAN, LookedUp(chunk, found, disables)
  PROVE  BatchHeeds
<1>. DEFINE table == [g \in Scanned |-> IF g \in found THEN {where[g]} ELSE known[g]]
<1>1. /\ known' = table /\ refused' = {pair \in refused : pair[1] \notin found}
      /\ UNCHANGED <<where, stray>>
  BY DEF LookedUp
<1>2. known' \in [Scanned -> SUBSET Broker]
  BY <1>1 DEF BatchInv, BatchTypes
<1>3. RefusalHeeded'
  BY <1>1 DEF BatchInv, BatchTypes, RefusalHeeded
<1>. HIDE DEF table
<1>4. read' \in ReadRecords /\ requests' \in [Broker -> RequestRecords] /\ SendsWhileItGoes
  <2>1. CASE disables
    BY <2>1, ReadKept DEF LookedUp, BatchInv, BatchTypes, SendsWhileItGoes
  <2>2. CASE ~disables
    <3>1. Proceeds(read.left \ chunk, table)
      BY <2>2 DEF LookedUp, table
    <3>2. read.left \ chunk \in SUBSET Scanned
      BY DEF BatchInv, BatchTypes, ReadRecords
    <3>. QED
      BY <3>1, <3>2, ProceedsKeeps
  <2>. QED
    BY <2>1, <2>2
<1>. QED
  BY <1>1, <1>2, <1>3, <1>4 DEF BatchInv, BatchTypes, BatchHeeds

(* What an answer teaches: the groups that have moved are forgotten with their broker marked. *)
LEMMA LearningHeeds ==
  ASSUME BatchInv, NEW b \in Broker, NEW moved \in SUBSET Scanned, NEW disables,
         Learns(b, moved, disables)
  PROVE  known' \in [Scanned -> SUBSET Broker] /\ RefusalHeeded'
BY DEF Learns, ForgetsMoved, BatchInv, BatchTypes, RefusalHeeded

LEMMA RequestBecomes ==
  ASSUME BatchInv, NEW b \in Broker, NEW at \in {"finding", "asked", "done"},
         requests' = [requests EXCEPT ![b].at = at], at = "asked" => Goes
  PROVE  requests' \in [Broker -> RequestRecords] /\ SendsWhileItGoes
<1>1. [requests[b] EXCEPT !.at = at] \in RequestRecords
  BY DEF BatchInv, BatchTypes, RequestRecords
<1>2. requests' \in [Broker -> RequestRecords]
  BY <1>1 DEF BatchInv, BatchTypes
<1>3. /\ requests'[b].at = at
      /\ \A c \in Broker \ {b} : requests'[c] = requests[c]
  BY DEF BatchInv, BatchTypes, RequestRecords
<1>. QED
  BY <1>2, <1>3 DEF SendsWhileItGoes

LEMMA BatchStep == BatchInv /\ [BatchNext]_batchVars => BatchHeeds
<1>. SUFFICES ASSUME BatchInv, [BatchNext]_batchVars PROVE BatchHeeds
  OBVIOUS
<1>1. CASE BeginsRead
  <2>1. read' \in ReadRecords
    <3>1. /\ [IdleRead EXCEPT !.at = "answered"] \in ReadRecords
          /\ [IdleRead EXCEPT !.at = "bootstrap"] \in ReadRecords
          /\ [IdleRead EXCEPT !.at = "metadata"] \in ReadRecords
      BY DEF ReadRecords, IdleRead
    <3>. QED
      BY <1>1, <3>1 DEF BeginsRead
  <2>2. requests' \in [Broker -> RequestRecords] /\ \A b \in Broker : requests'[b].at # "asked"
    BY <1>1 DEF BeginsRead, NoRequest, RequestRecords
  <2>. QED
    BY <1>1, <2>1, <2>2
       DEF BeginsRead, BatchHeeds, SendsWhileItGoes, BatchInv, BatchTypes, RefusalHeeded
<1>2. ASSUME NEW how \in BOOLEAN, Refreshes(how) PROVE BatchHeeds
  BY <1>2, ReadKept DEF Refreshes, BatchHeeds, SendsWhileItGoes, BatchInv, BatchTypes, RefusalHeeded
<1>3. ASSUME NEW able \in BOOLEAN, FindsBootstrap(able) PROVE BatchHeeds
  <2>1. read' \in ReadRecords /\ requests' \in [Broker -> RequestRecords] /\ SendsWhileItGoes
    <3>1. CASE capability = "unknown" /\ ~able
      BY <1>3, <3>1, ReadKept DEF FindsBootstrap, BatchInv, BatchTypes, SendsWhileItGoes
    <3>2. CASE ~(capability = "unknown" /\ ~able)
      <4>1. Proceeds(NotKnown(known), known)
        BY <1>3, <3>2 DEF FindsBootstrap
      <4>2. NotKnown(known) \in SUBSET Scanned
        BY DEF NotKnown
      <4>. QED
        BY <4>1, <4>2, ProceedsKeeps
    <3>. QED
      BY <3>1, <3>2
  <2>. QED
    BY <1>3, <2>1 DEF FindsBootstrap, BatchHeeds, BatchInv, BatchTypes, RefusalHeeded
<1>4. CASE BootstrapFails
  BY <1>4, ReadKept
     DEF BootstrapFails, BatchHeeds, SendsWhileItGoes, BatchInv, BatchTypes, RefusalHeeded
<1>5. CASE Lookup
  <2>1. PICK chunk \in SUBSET read.left \ {{}} :
          \E found \in SUBSET chunk, disables \in BOOLEAN : LookedUp(chunk, found, disables)
    BY <1>5 DEF Lookup
  <2>2. chunk \in SUBSET Scanned /\ \A found \in SUBSET chunk : found \in SUBSET Scanned
    BY DEF BatchInv, BatchTypes, ReadRecords
  <2>. QED
    BY <2>1, <2>2, LookupHeeds
<1>6. CASE LookupFails
  <2>1. CASE read.cancelled
    BY <1>6, <2>1, ReadKept
       DEF LookupFails, BatchHeeds, SendsWhileItGoes, BatchInv, BatchTypes, RefusalHeeded
  <2>2. CASE ~read.cancelled
    <3>1. PICK chunk \in SUBSET read.left \ {{}}, disables \in BOOLEAN :
            LookedUp(chunk, {}, disables)
      BY <1>6, <2>2 DEF LookupFails
    <3>2. chunk \in SUBSET Scanned
      BY DEF BatchInv, BatchTypes, ReadRecords
    <3>. QED
      BY <3>1, <3>2, LookupHeeds
  <2>. QED
    BY <2>1, <2>2
<1>7. ASSUME NEW b \in Broker, StartsRequest(b) PROVE BatchHeeds
  <2>1. requests' \in [Broker -> RequestRecords] /\ SendsWhileItGoes
    BY <1>7, RequestBecomes DEF StartsRequest
  <2>. QED
    BY <1>7, <2>1 DEF StartsRequest, BatchHeeds, BatchInv, BatchTypes, RefusalHeeded
<1>8. ASSUME NEW b \in Broker, FindsBroker(b) PROVE BatchHeeds
  <2>1. requests' \in [Broker -> RequestRecords] /\ SendsWhileItGoes
    <3>1. CASE Goes
      BY <1>8, <3>1, RequestBecomes DEF FindsBroker, StillGoes
    <3>2. CASE ~Goes
      BY <1>8, <3>2, RequestBecomes DEF FindsBroker, StillGoes
    <3>. QED
      BY <3>1, <3>2
  <2>. QED
    BY <1>8, <2>1 DEF FindsBroker, BatchHeeds, BatchInv, BatchTypes, RefusalHeeded
<1>9. ASSUME NEW b \in Broker, FetchAnswers(b) PROVE BatchHeeds
  <2>1. requests' \in [Broker -> RequestRecords] /\ SendsWhileItGoes
    BY <1>9, RequestBecomes DEF FetchAnswers
  <2>2. AnswersFor(requests[b].groups, b) \in SUBSET Scanned /\ requests[b].groups \in SUBSET Scanned
    BY DEF AnswersFor, BatchInv, BatchTypes, RequestRecords
  <2>3. PICK whole \in SUBSET AnswersFor(requests[b].groups, b), disables \in BOOLEAN :
          /\ Learns(b, requests[b].groups \ AnswersFor(requests[b].groups, b), disables)
          /\ read' = [read EXCEPT !.resolved = @ \cup whole, !.stop = @ \/ disables]
    BY <1>9 DEF FetchAnswers
  <2>4. known' \in [Scanned -> SUBSET Broker] /\ RefusalHeeded'
    BY <2>2, <2>3, LearningHeeds
  <2>5. read' \in ReadRecords
    <3>1. (read.stop \/ disables) \in BOOLEAN /\ whole \in SUBSET Scanned
      BY <2>2
    <3>. DEFINE how == read.stop \/ disables
    <3>2. read' = [read EXCEPT !.resolved = @ \cup whole, !.stop = how]
      BY <2>3
    <3>. HIDE DEF how
    <3>. QED
      BY <3>1, <3>2, ReadKept DEF how
  <2>. QED
    BY <1>9, <2>1, <2>4, <2>5 DEF FetchAnswers, BatchHeeds, BatchInv, BatchTypes
<1>10. ASSUME NEW b \in Broker, FetchFails(b) PROVE BatchHeeds
  <2>1. CASE read.cancelled
    <3>1. requests' \in [Broker -> RequestRecords] /\ \A c \in Broker : requests'[c].at # "asked"
      BY <1>10, <2>1 DEF FetchFails, NoRequest, RequestRecords
    <3>2. Strays \in [Broker -> SUBSET Scanned]
      BY DEF Strays, BatchInv, BatchTypes, RequestRecords
    <3>3. stray' \in [Broker -> SUBSET Scanned]
      BY <1>10, <2>1, <3>2 DEF FetchFails, BatchInv, BatchTypes
    <3>. QED
      BY <1>10, <2>1, <3>1, <3>3, ReadKept
         DEF FetchFails, BatchHeeds, SendsWhileItGoes, BatchInv, BatchTypes, RefusalHeeded
  <2>2. CASE ~read.cancelled
    <3>1. requests' \in [Broker -> RequestRecords] /\ SendsWhileItGoes
      BY <1>10, <2>2, RequestBecomes DEF FetchFails
    <3>2. PICK disables \in BOOLEAN : read' = [read EXCEPT !.stop = @ \/ disables]
      BY <1>10, <2>2 DEF FetchFails
    <3>3. read' \in ReadRecords
      <4>. DEFINE how == read.stop \/ disables
      <4>1. how \in BOOLEAN /\ read' = [read EXCEPT !.stop = how]
        BY <3>2
      <4>. HIDE DEF how
      <4>. QED
        BY <4>1, ReadKept
    <3>4. known' \in [Scanned -> SUBSET Broker] /\ RefusalHeeded'
      BY <1>10, <2>2 DEF FetchFails, BatchInv, BatchTypes, RefusalHeeded
    <3>. QED
      BY <1>10, <2>2, <3>1, <3>3, <3>4 DEF FetchFails, BatchHeeds, BatchInv, BatchTypes
  <2>. QED
    BY <2>1, <2>2
<1>11. ASSUME NEW b \in Broker, StraySettles(b) PROVE BatchHeeds
  <2>1. /\ stray' \in [Broker -> SUBSET Scanned] /\ stray[b] \ AnswersFor(stray[b], b) \in SUBSET Scanned
        /\ UNCHANGED <<where, read, requests>>
    BY <1>11 DEF StraySettles, BatchInv, BatchTypes
  <2>2. known' \in [Scanned -> SUBSET Broker] /\ RefusalHeeded'
    BY <1>11, <2>1, LearningHeeds DEF StraySettles, BatchInv, BatchTypes, RefusalHeeded
  <2>. QED
    BY <2>1, <2>2 DEF BatchHeeds, SendsWhileItGoes, BatchInv, BatchTypes
<1>12. CASE CancelsRead
  BY <1>12, ReadKept
     DEF CancelsRead, BatchHeeds, SendsWhileItGoes, BatchInv, BatchTypes, RefusalHeeded
<1>13. ASSUME NEW g \in Scanned, NEW b \in Broker, CoordinatorMoves(g, b) PROVE BatchHeeds
  BY <1>13 DEF CoordinatorMoves, BatchHeeds, SendsWhileItGoes, BatchInv, BatchTypes, RefusalHeeded
<1>14. CASE EndsRead
  <2>1. (capability = "supported") \in BOOLEAN
    OBVIOUS
  <2>2. read' \in ReadRecords
    BY <1>14, <2>1, ReadKept DEF EndsRead
  <2>. QED
    BY <1>14, <2>2 DEF EndsRead, BatchHeeds, SendsWhileItGoes, BatchInv, BatchTypes, RefusalHeeded
<1>15. CASE UNCHANGED batchVars
  BY <1>15 DEF batchVars, BatchHeeds, SendsWhileItGoes, BatchInv, BatchTypes, RefusalHeeded
<1>. QED
  BY <1>1, <1>2, <1>3, <1>4, <1>5, <1>6, <1>7, <1>8, <1>9, <1>10, <1>11, <1>12, <1>13, <1>14, <1>15
     DEF BatchNext

(* For any groups, brokers and requests at a time: no request is sent once the batch has stopped,
   and a broker that has refused a group is not asked for it until a lookup names it. *)
THEOREM BrokersHeeded == BatchSpec => AnswersAreHeeded
<1>1. BatchSpec => []BatchInv
  BY BatchInitInv, BatchStep, PTL DEF BatchSpec, BatchHeeds
<1>2. BatchSpec => []RefusalHeeded
  BY <1>1, PTL DEF BatchInv
<1>3. BatchInv /\ [BatchNext]_batchVars => [SendsWhileItGoes]_batchVars
  BY BatchStep DEF BatchHeeds
<1>4. BatchSpec => [][SendsWhileItGoes]_batchVars
  BY <1>1, <1>3, PTL DEF BatchSpec
<1>5. BatchSpec => StopsBatching
  BY <1>4 DEF StopsBatching, SendsWhileItGoes
<1>. QED
  BY <1>2, <1>5, PTL DEF AnswersAreHeeded

-----------------------------------------------------------------------------
(* TopicSizes.                                                             *)

SizeRecords ==
  [at : {"none", "adds", "refreshes", "retries", "broker", "collects", "done", "unsupported",
         "failed"},
   wanted : SUBSET Topic, known : SUBSET Topic, sent : SUBSET Topic, left : SUBSET LogBroker,
   asked : SUBSET LogBroker, had : SUBSET LogBroker, lost : SUBSET LogBroker]

(* Where the metadata of an undisturbed read is: its topics exist and are targeted until they are
   sent for, and known when they have been. *)
Sending(how) == how.at \in {"adds", "refreshes", "retries"}
Served(how, there, targets) ==
  /\ how.at # "failed"
  /\ Sending(how) => how.wanted \subseteq there /\ how.wanted \subseteq targets
  /\ how.at = "refreshes" => how.wanted \subseteq how.sent
  /\ how.at = "retries" => how.sent = how.wanted
  /\ how.at \in {"broker", "collects", "done"} => how.wanted \subseteq how.known

SizesInv ==
  /\ reader \in [Reader -> SizeRecords] /\ target \in SUBSET Topic /\ exists \in SUBSET Topic
  /\ \A r \in Reader : reader[r].asked # {} => reader[r].at = "collects"
  /\ \A r \in Reader \ disturbed : Served(reader[r], exists, target)
  /\ \A r \in Reading \ disturbed : Reading = {r}

LEMMA SizesInitInv == SizesInit => SizesInv
<1>. SUFFICES ASSUME SizesInit PROVE SizesInv
  OBVIOUS
<1>1. NoRead \in SizeRecords
  BY DEF NoRead, SizeRecords
<1>2. \A r \in Reader : reader[r] = NoRead
  BY DEF SizesInit
<1>3. reader \in [Reader -> SizeRecords]
  BY <1>1 DEF SizesInit
<1>4. Reading = {}
  BY <1>2 DEF Reading, NoRead
<1>. QED
  BY <1>2, <1>3, <1>4 DEF SizesInit, SizesInv, Served, Sending, NoRead

(* A read moves: what is left to show is that it is served as before, and no other begins. *)
LEMMA ReaderMoves ==
  ASSUME SizesInv, NEW r \in Reader, NEW how \in SizeRecords, Becomes(r, how),
         reader[r].at \notin {"none", "done", "unsupported", "failed"},
         how.asked # {} => how.at = "collects",
         exists' = exists, disturbed' = disturbed, target' \in SUBSET Topic,
         target' # target => \A s \in Reader \ disturbed : s # r => ~Sending(reader[s]),
         r \notin disturbed => Served(how, exists', target')
  PROVE  SizesInv'
<1>1. /\ reader' \in [Reader -> SizeRecords] /\ reader'[r] = how
      /\ \A s \in Reader \ {r} : reader'[s] = reader[s]
  BY DEF SizesInv, Becomes
<1>2. r \in Reading /\ Reading' \subseteq Reading
  BY <1>1 DEF Reading
<1>3. \A s \in Reader \ disturbed : Served(reader'[s], exists', target')
  <2>. TAKE s \in Reader \ disturbed
  <2>1. CASE s = r
    BY <1>1, <2>1 DEF Served, Sending
  <2>2. CASE s # r
    <3>1. reader'[s] = reader[s] /\ Served(reader[s], exists, target)
      BY <1>1, <2>2 DEF SizesInv
    <3>2. target' = target \/ ~Sending(reader[s])
      BY <2>2
    <3>. QED
      BY <3>1, <3>2 DEF Served, Sending
  <2>. QED
    BY <2>1, <2>2
<1>4. \A s \in Reading' \ disturbed : Reading' = {s}
  BY <1>1, <1>2 DEF SizesInv
<1>. QED
  BY <1>1, <1>3, <1>4 DEF SizesInv, Served, Sending

LEMMA SizesStep == SizesInv /\ [SizesNext]_sizesVars => SizesInv'
<1>. SUFFICES ASSUME SizesInv, [SizesNext]_sizesVars PROVE SizesInv'
  OBVIOUS
<1>0. /\ \A r \in Reader : reader[r] \in SizeRecords
      /\ \A r \in Reader \ disturbed : Served(reader[r], exists, target)
      /\ \A r \in Reader : reader[r].asked # {} => reader[r].at = "collects"
      /\ target \in SUBSET Topic
  BY DEF SizesInv
(* The only read that is under way, when it is not disturbed. *)
<1>a. ASSUME NEW r \in Reader, reader[r].at \notin {"none", "done", "unsupported", "failed"},
             NEW s \in Reader \ disturbed, s # r
      PROVE  ~Sending(reader[s])
  BY <1>a DEF SizesInv, Reading, Sending
<1>1. ASSUME NEW r \in Reader, AsksSizes(r) PROVE SizesInv'
  <2>1. PICK wanted \in SUBSET exists :
          /\ Becomes(r, [NoRead EXCEPT !.wanted = wanted,
                                        !.at = IF wanted = {} THEN "done" ELSE "adds"])
          /\ target' = target \cup wanted
          /\ disturbed' = IF wanted = {} \/ Reading = {} THEN disturbed
                          ELSE disturbed \cup Reading \cup {r}
    BY <1>1 DEF AsksSizes
  <2>2. reader[r].at = "none" /\ UNCHANGED <<exists, leader, metadata>>
    BY <1>1 DEF AsksSizes
  <2>. DEFINE how == [NoRead EXCEPT !.wanted = wanted,
                                    !.at = IF wanted = {} THEN "done" ELSE "adds"]
  <2>3. wanted \in SUBSET Topic /\ target' \in SUBSET Topic
    BY <2>1 DEF SizesInv
  <2>4. /\ how \in SizeRecords /\ how.wanted = wanted /\ how.asked = {} /\ how.known = {}
        /\ how.at = IF wanted = {} THEN "done" ELSE "adds"
    BY <2>3 DEF SizeRecords, NoRead
  <2>. HIDE DEF how
  <2>5. /\ reader' \in [Reader -> SizeRecords] /\ reader'[r] = how
        /\ \A s \in Reader \ {r} : reader'[s] = reader[s]
    BY <2>1, <2>4 DEF SizesInv, Becomes, how
  <2>6. Reading' = IF wanted = {} THEN Reading ELSE Reading \cup {r}
    BY <2>2, <2>4, <2>5 DEF Reading
  <2>7. \A s \in Reader \ disturbed' : Served(reader'[s], exists', target')
    BY <1>0, <2>1, <2>2, <2>4, <2>5 DEF Served, Sending
  <2>8. \A s \in Reading' \ disturbed' : Reading' = {s}
    BY <2>1, <2>6 DEF SizesInv
  <2>. QED
    BY <1>0, <2>2, <2>3, <2>4, <2>5, <2>7, <2>8 DEF SizesInv
<1>2. ASSUME NEW r \in Reader, Refreshing(r) PROVE SizesInv'
  <2>. DEFINE how == [[reader[r] EXCEPT !.at = "refreshes"] EXCEPT !.sent = target]
  <2>1. how \in SizeRecords
    BY <1>0 DEF SizeRecords
  <2>2. /\ how.at = "refreshes" /\ how.wanted = reader[r].wanted /\ how.sent = target
        /\ how.asked = reader[r].asked
    BY <1>0 DEF SizeRecords
  <2>3. Becomes(r, how)
    BY <1>2, <1>0 DEF Refreshing, SizeRecords
  <2>. HIDE DEF how
  <2>4. /\ reader[r].at = "adds" /\ UNCHANGED <<exists, leader, target, metadata, disturbed>>
    BY <1>2 DEF Refreshing
  <2>5. r \notin disturbed => Served(how, exists', target')
    BY <1>0, <2>2, <2>4 DEF Served, Sending
  <2>. QED
    BY <1>0, <2>1, <2>2, <2>3, <2>4, <2>5, ReaderMoves
<1>3. ASSUME NEW r \in Reader, Refreshed(r) PROVE SizesInv'
  <2>. DEFINE how == [[reader[r] EXCEPT !.at = "broker"]
                        EXCEPT !.known = reader[r].wanted \cap reader[r].sent]
  <2>1. how \in SizeRecords
    BY <1>0 DEF SizeRecords
  <2>2. /\ how.at = "broker" /\ how.wanted = reader[r].wanted
        /\ how.known = reader[r].wanted \cap reader[r].sent /\ how.asked = reader[r].asked
    BY <1>0 DEF SizeRecords
  <2>3. Becomes(r, how)
    BY <1>3, <1>0 DEF Refreshed, SizeRecords
  <2>. HIDE DEF how
  <2>4. /\ reader[r].at \in {"refreshes", "retries"}
        /\ UNCHANGED <<exists, leader, target, disturbed>>
    BY <1>3 DEF Refreshed
  <2>5. r \notin disturbed => Served(how, exists', target')
    BY <1>0, <2>2, <2>4 DEF Served, Sending
  <2>. QED
    BY <1>0, <2>1, <2>2, <2>3, <2>4, <2>5, ReaderMoves
<1>4. ASSUME NEW r \in Reader, RefreshFails(r) PROVE SizesInv'
  <2>. DEFINE how == [[reader[r] EXCEPT !.at = "retries"] EXCEPT !.sent = target \cap reader[r].wanted]
  <2>1. how \in SizeRecords
    BY <1>0 DEF SizeRecords
  <2>2. /\ how.at = "retries" /\ how.wanted = reader[r].wanted
        /\ how.sent = target \cap reader[r].wanted /\ how.asked = reader[r].asked
    BY <1>0 DEF SizeRecords
  <2>3. Becomes(r, how)
    BY <1>4, <1>0 DEF RefreshFails, Retargeted, SizeRecords
  <2>. HIDE DEF how
  <2>4. /\ reader[r].at = "refreshes" /\ target' = target \cap reader[r].wanted
        /\ UNCHANGED <<exists, leader, metadata, disturbed>>
    BY <1>4 DEF RefreshFails, Retargeted
  <2>5. r \notin disturbed => Served(how, exists', target')
    BY <1>0, <2>2, <2>4 DEF Served, Sending
  <2>6. \A s \in Reader \ disturbed : s # r => ~Sending(reader[s])
    BY <1>a, <2>4
  <2>7. target' \in SUBSET Topic
    BY <1>0, <2>4
  <2>. QED
    BY <1>0, <2>1, <2>2, <2>3, <2>4, <2>5, <2>6, <2>7, ReaderMoves
<1>5. ASSUME NEW r \in Reader, RetryFails(r) PROVE SizesInv'
  <2>. DEFINE how == [reader[r] EXCEPT !.at = "failed"]
  <2>1. how \in SizeRecords /\ how.at = "failed" /\ how.asked = reader[r].asked
    BY <1>0 DEF SizeRecords
  <2>2. Becomes(r, how)
    BY <1>5 DEF RetryFails
  <2>. HIDE DEF how
  <2>3. /\ reader[r].at = "retries" /\ ~(reader[r].sent \subseteq exists)
        /\ UNCHANGED <<exists, leader, target, metadata, disturbed>>
    BY <1>5 DEF RetryFails
  <2>4. r \in disturbed /\ reader[r].asked = {}
    BY <1>0, <2>3 DEF Served, Sending
  <2>. QED
    BY <1>0, <2>1, <2>2, <2>3, <2>4, ReaderMoves
<1>6. ASSUME NEW r \in Reader, NEW able \in BOOLEAN, FindsFirst(r, able) PROVE SizesInv'
  <2>1. PICK how \in {[[reader[r] EXCEPT !.at = "collects"] EXCEPT !.left = LogBroker],
                      [reader[r] EXCEPT !.at = "unsupported"]} : Becomes(r, how)
    BY <1>6, <1>0 DEF FindsFirst, SizeRecords
  <2>2. /\ how \in SizeRecords /\ how.at \in {"collects", "unsupported"}
        /\ how.wanted = reader[r].wanted /\ how.known = reader[r].known
        /\ how.asked = reader[r].asked
    BY <1>0 DEF SizeRecords
  <2>3. /\ reader[r].at = "broker"
        /\ UNCHANGED <<exists, leader, target, metadata, disturbed>>
    BY <1>6 DEF FindsFirst
  <2>4. (r \notin disturbed => Served(how, exists', target')) /\ reader[r].asked = {}
    BY <1>0, <2>2, <2>3 DEF Served, Sending
  <2>. QED
    BY <1>0, <2>1, <2>2, <2>3, <2>4, ReaderMoves
<1>7. ASSUME NEW r \in Reader, NEW n \in LogBroker, AsksNode(r, n) PROVE SizesInv'
  <2>. DEFINE how == [[reader[r] EXCEPT !.left = @ \ {n}] EXCEPT !.asked = @ \cup {n}]
  <2>1. how \in SizeRecords
    BY <1>0 DEF SizeRecords
  <2>2. how.at = reader[r].at /\ how.wanted = reader[r].wanted /\ how.known = reader[r].known
    BY <1>0 DEF SizeRecords
  <2>3. Becomes(r, how)
    BY <1>7, <1>0 DEF AsksNode, SizeRecords
  <2>. HIDE DEF how
  <2>4. /\ reader[r].at = "collects"
        /\ UNCHANGED <<exists, leader, target, metadata, disturbed>>
    BY <1>7 DEF AsksNode
  <2>5. r \notin disturbed => Served(how, exists', target')
    BY <1>0, <2>2, <2>4 DEF Served, Sending
  <2>. QED
    BY <1>0, <2>1, <2>2, <2>3, <2>4, <2>5, ReaderMoves
<1>8. ASSUME NEW r \in Reader, NEW n \in LogBroker, NodeAnswers(r, n) PROVE SizesInv'
  <2>1. PICK got \in {[[reader[r] EXCEPT !.asked = @ \ {n}] EXCEPT !.had = @ \cup {n}],
                      [[reader[r] EXCEPT !.asked = @ \ {n}] EXCEPT !.lost = @ \cup {n}]} :
          Becomes(r, ReadingEnded(got))
    BY <1>8, <1>0 DEF NodeAnswers, SizeRecords
  <2>2. /\ reader[r].at = "collects" /\ n \in reader[r].asked
        /\ UNCHANGED <<exists, leader, target, metadata, disturbed>>
    BY <1>8, <1>0 DEF NodeAnswers
  <2>3. /\ got \in SizeRecords /\ got.at = "collects"
        /\ got.wanted = reader[r].wanted /\ got.known = reader[r].known
    <3>1. reader[r] \in SizeRecords
      BY <1>0
    <3>2. CASE got = [[reader[r] EXCEPT !.asked = @ \ {n}] EXCEPT !.had = @ \cup {n}]
      BY <2>2, <3>1, <3>2 DEF SizeRecords
    <3>3. CASE got = [[reader[r] EXCEPT !.asked = @ \ {n}] EXCEPT !.lost = @ \cup {n}]
      BY <2>2, <3>1, <3>3 DEF SizeRecords
    <3>. QED
      BY <2>1, <3>2, <3>3
  <2>. DEFINE how == ReadingEnded(got)
  <2>4. /\ how \in SizeRecords /\ how.at \in {"collects", "done"}
        /\ how.wanted = reader[r].wanted /\ how.known = reader[r].known
        /\ how.asked # {} => how.at = "collects"
    <3>1. /\ [got EXCEPT !.at = "done"] \in SizeRecords
          /\ [got EXCEPT !.at = "done"].at = "done"
          /\ [got EXCEPT !.at = "done"].wanted = got.wanted
          /\ [got EXCEPT !.at = "done"].known = got.known
          /\ [got EXCEPT !.at = "done"].asked = got.asked
      BY <2>3 DEF SizeRecords
    <3>2. CASE got.left \cup got.asked = {}
      BY <3>1, <3>2, <2>3 DEF ReadingEnded
    <3>3. CASE got.left \cup got.asked # {}
      BY <3>3, <2>3 DEF ReadingEnded
    <3>. QED
      BY <3>2, <3>3
  <2>. HIDE DEF how
  <2>5. r \notin disturbed => Served(how, exists', target')
    BY <1>0, <2>2, <2>4 DEF Served, Sending
  <2>6. Becomes(r, how)
    BY <2>1 DEF how
  <2>. QED
    BY <1>0, <2>2, <2>4, <2>5, <2>6, ReaderMoves
<1>9. ASSUME NEW t \in Topic, Deletes(t) PROVE SizesInv'
  <2>1. Reading' = Reading
    BY <1>9 DEF Deletes, Reading
  <2>. QED
    BY <1>9, <2>1 DEF Deletes, SizesInv, Served, Sending, Reading
<1>10. CASE UNCHANGED sizesVars
  BY <1>10 DEF sizesVars, SizesInv, Served, Sending, Reading
<1>. QED
  BY <1>1, <1>2, <1>3, <1>4, <1>5, <1>6, <1>7, <1>8, <1>9, <1>10 DEF SizesNext

LEMMA SizesForgive == SizesInv => OldTargetsForgiven
<1>. SUFFICES ASSUME SizesInv, NEW r \in Reader \ disturbed
              PROVE  reader[r].at # "failed" /\ Exact(r)
  BY DEF OldTargetsForgiven
<1>1. Served(reader[r], exists, target)
  BY DEF SizesInv
<1>2. ASSUME reader[r].at = "done", NEW t \in reader[r].wanted, Sizes(reader[r], t).exact
      PROVE  Sizes(reader[r], t).leaderBytes = 1
  <2>1. Known(reader[r], t)
    BY <1>1, <1>2 DEF Served, Known
  <2>2. LeaderSeen(reader[r], t)
    BY <1>2, <2>1 DEF Sizes
  <2>. QED
    BY <2>2 DEF Sizes
<1>. QED
  BY <1>1, <1>2 DEF Served, Exact

THEOREM SizesAlwaysForgive == SizesSpec => []OldTargetsForgiven
<1>. QED
  BY SizesForgive, SizesInitInv, SizesStep, PTL DEF SizesSpec

-----------------------------------------------------------------------------
(* ClusterHealth.                                                          *)

(* What has been indexed was committed, and all of it was indexed for a group that is not missing by a
   status of the same scan; what is reported last is a bound on it. *)
HealthInv ==
  /\ committed \in [Consumer -> SUBSET Part]
  /\ indexed \in [Consumer -> SUBSET Part]
  /\ status \in [missing : SUBSET Consumer, own : BOOLEAN]
  /\ \A g \in Consumer : indexed[g] \subseteq committed[g]
  /\ \A g \in Consumer : status.own /\ g \notin status.missing => indexed[g] = committed[g]
  /\ LagIsMinimum

Behind == {pair \in Consumer \X Part : pair[2] \in committed[pair[1]]}
Indexed == {pair \in Consumer \X Part : pair[2] \in indexed[pair[1]]}
Seen == {pair \in Consumer \X Part : pair[2] \in indexed[pair[1]] /\
                                  pair[2] \in measured[pair[2][1]].high}

LEMMA BehindFinite == /\ IsFiniteSet(Behind) /\ TrueLag = Cardinality(Behind) /\ TrueLag \in Nat
                      /\ ReadLag = Cardinality(Indexed) /\ KnownLag = Cardinality(Seen)
<1>1. IsFiniteSet(Consumer \X Part)
  BY HealthAssumption, FS_Product
<1>2. IsFiniteSet(Behind)
  BY <1>1, FS_Subset DEF Behind
<1>. QED
  BY <1>2, FS_CardinalityType DEF TrueLag, ReadLag, KnownLag, Behind, Indexed, Seen

LEMMA HealthInitInv == HealthInit => HealthInv
BY DEF HealthInit, HealthInv, LagIsMinimum

LEMMA HealthStep == HealthInv /\ [HealthNext]_healthVars => HealthInv'
<1>. SUFFICES ASSUME HealthInv, [HealthNext]_healthVars PROVE HealthInv'
  OBVIOUS
<1>1. /\ committed' = committed => TrueLag' = TrueLag
      /\ indexed' = indexed => ReadLag' = ReadLag
  BY DEF TrueLag, ReadLag
<1>2. CASE ReportsHealth
  <2>1. Seen \subseteq Behind
    BY DEF HealthInv, Seen, Behind
  <2>2. KnownLag <= TrueLag
    BY <2>1, BehindFinite, FS_Subset
  <2>3. ASSUME Unavailable = {}, \A t \in Topics : EveryOffset(t)
        PROVE  KnownLag = ReadLag /\ (status.own => KnownLag = TrueLag)
    <3>1. \A g \in Consumer, x \in Part : x \in indexed[g] => x \in measured[x[1]].high
      BY <2>3 DEF EveryOffset, Committed, Topics
    <3>2. Seen = Indexed
      BY <3>1 DEF Indexed, Seen
    <3>3. ASSUME status.own PROVE Indexed = Behind
      <4>1. \A g \in Consumer : indexed[g] = committed[g]
        BY <2>3, <3>3 DEF Unavailable, HealthInv
      <4>. QED
        BY <4>1 DEF Indexed, Behind
    <3>. QED
      BY <3>2, <3>3, BehindFinite
  <2>4. /\ UNCHANGED <<committed, indexed, status>> /\ health'.known = KnownLag
        /\ health'.own = status.own
        /\ health'.lag = "complete" => Unavailable = {} /\ \A t \in Topics : EveryOffset(t)
    BY <1>2 DEF ReportsHealth
  <2>. QED
    BY <1>1, <2>2, <2>3, <2>4 DEF HealthInv, LagIsMinimum
<1>3. CASE GroupsFail
  BY <1>1, <1>3, BehindFinite DEF GroupsFail, HealthEnds, HealthInv, LagIsMinimum
<1>4. CASE GroupsRead
  <2>1. PICK got \in [Consumer -> SUBSET Part], missing \in SUBSET Consumer :
          /\ \A g \in Consumer : got[g] \subseteq committed[g]
          /\ \A g \in Consumer \ missing : got[g] = committed[g]
          /\ indexed' = got /\ status' = [missing |-> missing, own |-> TRUE]
    BY <1>4 DEF GroupsRead
  <2>2. committed' = committed /\ step' = "watermarks"
    BY <1>4 DEF GroupsRead
  <2>. QED
    BY <2>1, <2>2 DEF HealthInv, LagIsMinimum
<1>11. CASE IndexReplaced
  <2>1. PICK missing \in SUBSET Consumer : status' = [missing |-> missing, own |-> FALSE]
    BY <1>11 DEF IndexReplaced
  <2>2. UNCHANGED <<committed, indexed, step>> /\ step # "done"
    BY <1>11 DEF IndexReplaced
  <2>. QED
    BY <2>1, <2>2 DEF HealthInv, LagIsMinimum
<1>5. CASE MeasuresTopology
  BY <1>5 DEF MeasuresTopology, HealthEnds, HealthInv, LagIsMinimum
<1>6. CASE WatermarksRead \/ WatermarksFail
  BY <1>6 DEF WatermarksRead, WatermarksFail, Batched, HealthEnds, HealthInv, LagIsMinimum
<1>7. CASE HealthAborts
  BY <1>7 DEF HealthAborts, HealthInv, LagIsMinimum
<1>8. ASSUME NEW n \in Node, LeaderAnswers(n) PROVE HealthInv'
  BY <1>8 DEF LeaderAnswers, HealthInv, LagIsMinimum
<1>9. ASSUME NEW t \in Topics, TopicRead(t) PROVE HealthInv'
  BY <1>9 DEF TopicRead, HealthInv, LagIsMinimum
<1>10. CASE UNCHANGED healthVars
  BY <1>1, <1>10 DEF healthVars, HealthInv, LagIsMinimum
<1>. QED
  BY <1>2, <1>3, <1>4, <1>5, <1>6, <1>7, <1>8, <1>9, <1>10, <1>11 DEF HealthNext

(* For any groups, partitions and brokers, and however often the index is scanned or cleared meanwhile:
   a lag is a lower bound, and one that is not marked compares all offsets of the scan the worker was
   handed; it is the true one if the status was of that scan. *)
THEOREM LagAlwaysMinimum == HealthSpec => []LagIsMinimum
<1>1. HealthInv => LagIsMinimum
  BY DEF HealthInv
<1>. QED
  BY <1>1, HealthInitInv, HealthStep, PTL DEF HealthSpec

-----------------------------------------------------------------------------
(* MessageFetch.                                                           *)

(* A finite set of numbers has a smallest and a largest one. *)
LEMMA Extremes ==
  ASSUME NEW S \in SUBSET Int, IsFiniteSet(S), S # {}
  PROVE  /\ Max(S) \in S /\ \A x \in S : x <= Max(S)
         /\ Min(S) \in S /\ \A x \in S : Min(S) <= x
<1>. DEFINE Above(v) == {w \in S : v < w}
            Below(v) == {w \in S : w < v}
            A == {Above(v) : v \in S}
            B == {Below(v) : v \in S}
<1>1. IsWellFoundedOn(StrictSubsetOrdering(S), FiniteSubsetsOf(S))
  BY FS_StrictSubsetOrderingWellFounded
<1>2. \A v \in S : /\ Above(v) \in SUBSET S /\ IsFiniteSet(Above(v))
                   /\ Below(v) \in SUBSET S /\ IsFiniteSet(Below(v))
  BY FS_Subset
<1>3. /\ A \in SUBSET FiniteSubsetsOf(S) /\ A # {}
      /\ B \in SUBSET FiniteSubsetsOf(S) /\ B # {}
  BY <1>2 DEF FiniteSubsetsOf
<1>4. \E x \in S : \A y \in S : x >= y
  <2>1. PICK C \in A : \A D \in A : ~(<<D, C>> \in StrictSubsetOrdering(S))
    BY <1>1, <1>3, WFMin
  <2>2. PICK v \in S : C = Above(v)
    BY <2>1
  <2>3. ASSUME NEW w \in S, v < w PROVE FALSE
    <3>1. v \in Int /\ w \in Int /\ \A x \in S : x \in Int
      OBVIOUS
    <3>2. ASSUME NEW x \in Above(w) PROVE x \in Above(v)
      <4>1. x \in S /\ x \in Int /\ w < x
        BY <3>1
      <4>2. v < x
        BY <2>3, <3>1, <4>1
      <4>. QED
        BY <4>1, <4>2
    <3>3. w \in Above(v)
      BY <2>3
    <3>4. w \notin Above(w)
      BY <3>1
    <3>5. Above(w) \in SUBSET S /\ Above(v) \in SUBSET S /\ Above(w) \in A
      BY <1>2
    <3>. HIDE DEF Above, A
    <3>6. <<Above(w), C>> \in StrictSubsetOrdering(S)
      BY <2>2, <3>2, <3>3, <3>4, <3>5 DEF StrictSubsetOrdering
    <3>. QED
      BY <2>1, <3>5, <3>6
  <2>. QED
    BY <2>3
<1>5. \E x \in S : \A y \in S : x =< y
  <2>1. PICK C \in B : \A D \in B : ~(<<D, C>> \in StrictSubsetOrdering(S))
    BY <1>1, <1>3, WFMin
  <2>2. PICK v \in S : C = Below(v)
    BY <2>1
  <2>3. ASSUME NEW w \in S, w < v PROVE FALSE
    <3>1. v \in Int /\ w \in Int /\ \A x \in S : x \in Int
      OBVIOUS
    <3>2. ASSUME NEW x \in Below(w) PROVE x \in Below(v)
      <4>1. x \in S /\ x \in Int /\ x < w
        BY <3>1
      <4>2. x < v
        BY <2>3, <3>1, <4>1
      <4>. QED
        BY <4>1, <4>2
    <3>3. w \in Below(v)
      BY <2>3
    <3>4. w \notin Below(w)
      BY <3>1
    <3>5. Below(w) \in SUBSET S /\ Below(v) \in SUBSET S /\ Below(w) \in B
      BY <1>2
    <3>. HIDE DEF Below, B
    <3>6. <<Below(w), C>> \in StrictSubsetOrdering(S)
      BY <2>2, <3>2, <3>3, <3>4, <3>5 DEF StrictSubsetOrdering
    <3>. QED
      BY <2>1, <3>5, <3>6
  <2>. QED
    BY <2>3
<1>. QED
  BY <1>4, <1>5 DEF Max, Min

LEMMA MinOfTwo == \A a, b \in Nat : Min({a, b}) \in Nat /\ Min({a, b}) <= a /\ Min({a, b}) <= b
<1>. SUFFICES ASSUME NEW a \in Nat, NEW b \in Nat
              PROVE  Min({a, b}) \in Nat /\ Min({a, b}) <= a /\ Min({a, b}) <= b
  OBVIOUS
<1>1. IsFiniteSet({a}) /\ IsFiniteSet({b})
  BY FS_Singleton
<1>2. {a, b} = {a} \cup {b}
  OBVIOUS
<1>3. IsFiniteSet({a, b})
  BY <1>1, <1>2, FS_Union
<1>4. {a, b} \in SUBSET Int /\ {a, b} # {}
  OBVIOUS
<1>5. Min({a, b}) \in {a, b} /\ \A x \in {a, b} : Min({a, b}) <= x
  BY <1>3, <1>4, Extremes
<1>. QED
  BY <1>5

(* Of what is fetched, the page shows the records up to the last one it shows, or all. *)
LEMMA SelectedIsPrefix ==
  ASSUME NEW records \in SUBSET Nat, IsFiniteSet(records), NEW most \in Nat \ {0},
         NEW last \in Nat, \A o \in records : o <= last
  PROVE  /\ Selected(records, most) \subseteq records
         /\ AfterSelected(Selected(records, most), last) \in Nat
         /\ AfterSelected(Selected(records, most), last) <= last + 1
         /\ \A o \in records : o < AfterSelected(Selected(records, most), last) =>
              o \in Selected(records, most)
<1>. DEFINE sel == Selected(records, most)
            Under(o) == {p \in records : p < o}
<1>1. sel \subseteq records /\ IsFiniteSet(sel)
  BY FS_Subset DEF Selected
<1>2. \A o \in Nat : IsFiniteSet(Under(o)) /\ Cardinality(Under(o)) \in Nat
  BY FS_Subset, FS_CardinalityType
<1>3. \A o \in records : o \in sel <=> Cardinality(Under(o)) < most
  BY DEF Selected
<1>4. CASE sel = {}
  <2>1. records = {}
    <3>. SUFFICES ASSUME records # {} PROVE FALSE
      OBVIOUS
    <3>1. Min(records) \in records /\ \A x \in records : Min(records) <= x
      BY Extremes
    <3>2. Under(Min(records)) = {}
      <4>. SUFFICES ASSUME NEW x \in records, x < Min(records) PROVE FALSE
        OBVIOUS
      <4>1. Min(records) \in Nat /\ x \in Nat /\ Min(records) <= x
        BY <3>1
      <4>. QED
        BY <4>1
    <3>3. Cardinality(Under(Min(records))) < most
      BY <3>2, FS_EmptySet
    <3>. QED
      BY <1>3, <1>4, <3>1, <3>3
  <2>. QED
    BY <1>4, <2>1 DEF AfterSelected
<1>5. CASE sel # {}
  <2>1. Max(sel) \in sel /\ AfterSelected(sel, last) = Max(sel) + 1
    BY <1>1, <1>5, Extremes DEF AfterSelected
  <2>2. ASSUME NEW o \in records, o < Max(sel) + 1 PROVE o \in sel
    <3>. DEFINE m == Max(sel)
    <3>1. m \in sel /\ m \in records /\ m \in Nat /\ o \in Nat /\ o < m + 1
      BY <2>1, <2>2, <1>1
    <3>. HIDE DEF m, sel
    <3>2. o <= m
      BY <3>1
    <3>3. Under(o) \subseteq Under(m)
      <4>. SUFFICES ASSUME NEW p \in records, p < o PROVE p < m
        OBVIOUS
      <4>1. p \in Nat
        OBVIOUS
      <4>. QED
        BY <3>1, <3>2, <4>1
    <3>. HIDE DEF Under
    <3>4. Cardinality(Under(o)) <= Cardinality(Under(m))
      BY <1>2, <3>1, <3>3, FS_Subset
    <3>5. Cardinality(Under(m)) < most
      BY <1>3, <3>1
    <3>6. Cardinality(Under(o)) < most
      BY <1>2, <3>1, <3>4, <3>5
    <3>. QED
      BY <1>3, <3>6
  <2>3. Max(sel) \in Nat /\ Max(sel) <= last
    BY <1>1, <2>1
  <2>. HIDE DEF sel
  <2>4. /\ AfterSelected(sel, last) \in Nat
        /\ AfterSelected(sel, last) <= last + 1
        /\ \A o \in records : o < AfterSelected(sel, last) => o \in sel
    BY <2>1, <2>2, <2>3
  <2>. QED
    BY <1>1, <2>4 DEF sel
<1>. QED
  BY <1>4, <1>5

(* A page that follows another one starts where that one said; only records are shown. *)
FetchInv ==
  /\ low \in Nat /\ high \in Nat /\ from \in Nat /\ page.next \in Nat
  /\ page = [at |-> page.at, next |-> page.next, more |-> page.more, previewed |-> page.previewed]
  /\ fetching.start \in Nat /\ fetching.high \in Nat /\ fetching.limit \in Nat \ {0}
  /\ fetching # NoPageFetch /\ fetching.first = FALSE =>
       page.at = "shown" /\ page.next = fetching.start
  /\ shown \subseteq {o \in Nat : log[o] = "record"}
  /\ PagesAreGapless

LEMMA FetchInitInv == FetchInit => FetchInv
BY DEF FetchInit, FetchInv, NoPageFetch, PagesAreGapless, Offset

LEMMA ShowsKeeps ==
  ASSUME FetchInv, fetching # NoPageFetch, fetching' = NoPageFetch, UNCHANGED <<log, low, high>>,
         NEW records \in SUBSET Nat, IsFiniteSet(records), NEW last \in Nat, NEW previewed,
         \A o \in records : fetching.start <= o /\ o <= last /\ log[o] = "record",
         fetching.start < fetching.high =>
           \A o \in fetching.start..last : log[o] = "record" => o \in records,
         Shows(records, last, previewed)
  PROVE  FetchInv'
<1>. DEFINE sel == Selected(records, fetching.limit)
            after == AfterSelected(sel, last)
            follows == Min({fetching.high, after})
            start == fetching.start
<1>1. /\ sel \subseteq records /\ after \in Nat /\ after <= last + 1
      /\ \A o \in records : o < after => o \in sel
  BY SelectedIsPrefix DEF FetchInv
<1>2. follows \in Nat /\ follows <= after
  BY <1>1, MinOfTwo DEF FetchInv
<1>3. /\ page'.at = "shown"
      /\ page'.next = IF start < fetching.high THEN follows ELSE start
      /\ page' = [at |-> page'.at, next |-> page'.next, more |-> page'.more,
                  previewed |-> page'.previewed]
  BY DEF Shows
<1>4. IF fetching.first THEN from' = start /\ shown' = sel
      ELSE from' = from /\ shown' = shown \cup sel
  BY DEF Shows
<1>5. start \in Nat /\ page'.next \in Nat /\ from' \in Nat
  BY <1>2, <1>3, <1>4 DEF FetchInv
<1>6. \A o \in Nat : start <= o /\ o < page'.next /\ log[o] = "record" => o \in sel
  BY <1>1, <1>2, <1>3, <1>5 DEF FetchInv
<1>7. \A o \in sel : o \in Nat /\ start <= o /\ log[o] = "record"
  BY <1>1
<1>. HIDE DEF sel, after, follows, start
<1>8. shown' \subseteq {o \in Nat : log'[o] = "record"}
  BY <1>4, <1>7 DEF FetchInv
<1>9. PagesAreGapless'
  <2>1. \A o \in Nat : from' <= o /\ o < page'.next /\ log[o] = "record" => o \in shown'
    <3>. TAKE o \in Nat
    <3>. HAVE from' <= o /\ o < page'.next /\ log[o] = "record"
    <3>1. CASE fetching.first
      BY <1>4, <1>6, <3>1
    <3>2. CASE ~fetching.first /\ start <= o
      BY <1>4, <1>6, <3>2
    <3>3. CASE ~fetching.first /\ o < start
      <4>1. page.at = "shown" /\ page.next = start /\ from' = from
        BY <1>4, <3>3 DEF FetchInv, start
      <4>2. o \in from..(page.next - 1)
        BY <1>5, <3>3, <4>1 DEF FetchInv
      <4>. QED
        BY <1>4, <3>3, <4>1, <4>2 DEF FetchInv, PagesAreGapless
    <3>. QED
      BY <1>5, <3>1, <3>2, <3>3
  <2>. QED
    BY <1>5, <1>8, <2>1 DEF PagesAreGapless
<1>. QED
  BY <1>3, <1>5, <1>8, <1>9 DEF FetchInv, NoPageFetch

LEMMA FailingKeeps ==
  ASSUME FetchInv, page' = [page EXCEPT !.at = "failed"], fetching' = NoPageFetch,
         UNCHANGED <<log, low, high, from, shown>>
  PROVE  FetchInv'
<1>1. page' = [at |-> "failed", next |-> page.next, more |-> page.more, previewed |-> page.previewed]
  BY DEF FetchInv
<1>2. page'.at = "failed" /\ page'.next = page.next
  BY <1>1
<1>3. page' = [at |-> page'.at, next |-> page'.next, more |-> page'.more, previewed |-> page'.previewed]
  BY <1>1
<1>. QED
  BY <1>2, <1>3 DEF FetchInv, NoPageFetch, PagesAreGapless

LEMMA AsksKeeps ==
  ASSUME FetchInv, NEW mode, NEW asked \in Nat, NEW most \in Limits, NEW first \in BOOLEAN,
         AsksPage(mode, asked, most, first),
         first = FALSE => mode = "offset" /\ page.at = "shown" /\ asked = page.next
  PROVE  FetchInv'
<1>1. CASE Refused(mode, asked, low, high)
  <2>1. page' = [page EXCEPT !.at = "failed"] /\ UNCHANGED <<log, low, high, fetching, from, shown>>
    BY <1>1 DEF AsksPage
  <2>2. fetching = NoPageFetch
    BY DEF AsksPage
  <2>. QED
    BY <2>1, <2>2, FailingKeeps DEF FetchInv
<1>2. CASE ~Refused(mode, asked, low, high)
  <2>1. /\ fetching' = [mode |-> mode, first |-> first, limit |-> most, high |-> high,
                        start |-> Start(mode, asked, most, low, high)]
        /\ UNCHANGED <<log, low, high, page, from, shown>>
    BY <1>2 DEF AsksPage
  <2>2. most \in Nat \ {0}
    BY FetchAssumption
  <2>3. Start(mode, asked, most, low, high) \in Nat
    BY <2>2 DEF Start, FetchInv
  <2>4. first = FALSE => Start(mode, asked, most, low, high) = page.next
    BY DEF Start
  <2>. QED
    BY <2>1, <2>2, <2>3, <2>4 DEF FetchInv, PagesAreGapless
<1>. QED
  BY <1>1, <1>2

LEMMA FetchStep == FetchInv /\ [FetchNext]_fetchVars => FetchInv'
<1>. SUFFICES ASSUME FetchInv, [FetchNext]_fetchVars PROVE FetchInv'
  OBVIOUS
<1>1. End \in Nat /\ low \in Nat /\ high \in Nat
  BY FetchAssumption DEF FetchInv
<1>2. CASE BeginsBrowse
  <2>1. \A asked \in Named \cup Offset : asked \in Nat
    BY <1>1 DEF Named, Offset
  <2>. QED
    BY <1>1, <1>2, <2>1, AsksKeeps DEF BeginsBrowse
<1>3. CASE Follows
  <2>1. page.next \in Nat
    BY DEF FetchInv
  <2>. QED
    BY <1>3, <2>1, AsksKeeps DEF Follows
<1>4. CASE Fetches
  <2>1. fetching # NoPageFetch /\ fetching' = NoPageFetch /\ UNCHANGED <<log, low, high>>
    BY <1>4 DEF Fetches
  <2>2. CASE fetching.start >= fetching.high
    <3>1. Shows({}, fetching.start, 0)
      BY <1>4, <2>2 DEF Fetches
    <3>2. fetching.start \in Nat /\ ~(fetching.start < fetching.high)
      BY <2>2 DEF FetchInv
    <3>3. {} \in SUBSET Nat /\ IsFiniteSet({})
      BY FS_EmptySet
    <3>. QED
      BY <2>1, <3>1, <3>2, <3>3, ShowsKeeps
  <2>3. CASE ~(fetching.start >= fetching.high)
    <3>1. PICK last \in fetching.start..(high - 1) :
            \E previewed :
              Shows({o \in {q \in fetching.start..last : log[q] # "none"} : log[o] = "record"}, last,
                    previewed)
      BY <1>4, <2>3 DEF Fetches
    <3>2. PICK previewed :
            Shows({o \in {q \in fetching.start..last : log[q] # "none"} : log[o] = "record"}, last,
                  previewed)
      BY <3>1
    <3>. DEFINE records == {o \in {q \in fetching.start..last : log[q] # "none"} : log[o] = "record"}
    <3>3. last \in Nat /\ fetching.start \in Nat
      BY <1>1 DEF FetchInv
    <3>4. records \in SUBSET Nat /\ records \subseteq fetching.start..last
      BY <3>3
    <3>5. IsFiniteSet(records)
      <4>1. IsFiniteSet(fetching.start..last)
        BY <3>3, FS_Interval
      <4>. QED
        BY <3>4, <4>1, FS_Subset
    <3>6. \A o \in records : fetching.start <= o /\ o <= last /\ log[o] = "record"
      BY <3>3
    <3>7. \A o \in fetching.start..last : log[o] = "record" => o \in records
      OBVIOUS
    <3>. HIDE DEF records
    <3>8. Shows(records, last, previewed)
      BY <3>2 DEF records
    <3>. QED
      BY <2>1, <3>3, <3>4, <3>5, <3>6, <3>7, <3>8, ShowsKeeps
  <2>. QED
    BY <2>2, <2>3
<1>5. CASE FetchBreaks
  BY <1>5, FailingKeeps DEF FetchBreaks
<1>6. CASE Appends \/ Retains
  <2>1. low' \in Nat /\ high' \in Nat /\ UNCHANGED <<log, fetching, page, from, shown>>
    BY <1>1, <1>6 DEF Appends, Retains
  <2>. QED
    BY <2>1 DEF FetchInv, PagesAreGapless
<1>7. CASE UNCHANGED fetchVars
  BY <1>7 DEF fetchVars, FetchInv, PagesAreGapless
<1>. QED
  BY <1>2, <1>3, <1>4, <1>5, <1>6, <1>7 DEF FetchNext

(* For any log, retention, limits and batches: pages that follow each other leave no record out. *)
THEOREM PagesAlwaysGapless == FetchSpec => []PagesAreGapless
<1>1. FetchInv => PagesAreGapless
  BY DEF FetchInv
<1>. QED
  BY <1>1, FetchInitInv, FetchStep, PTL DEF FetchSpec

-----------------------------------------------------------------------------
(* ProgressStream.                                                         *)

WireMessages == [what : {"signal", "answer", "refusal", "events"}, events : Seq(Nat), cursor : Nat]
Pulls == [at : {"none", "asked", "waiting", "delivering"}, again : BOOLEAN, after : Nat,
          todo : Seq(Nat)]
Histories == [reported : [Op -> Nat], heard : [Op -> Seq(Nat)], shifted : [Op -> SUBSET Nat],
              forgotten : SUBSET Op, due : [Op -> Nat], deaf : BOOLEAN]

StreamTypes ==
  /\ order \in Seq(Op \cup Foreign)
  /\ kept \in [Op -> Seq(Nat)] /\ next \in [Op -> Nat]
  /\ request \in [Op -> {"none", "running", "answered", "flushing", "done"}]
  /\ wire \in [Op -> Seq(WireMessages)] /\ fetch \in [Op -> Pulls] /\ cursor \in [Op -> Nat]
  /\ owned \in SUBSET Op /\ grace \in SUBSET Op
  /\ subscribed \in BOOLEAN /\ disposed \in BOOLEAN
  /\ told \in Histories

(* The number of the event before the first one that the entry of o has had. *)
Base(o) == told.reported[o] - next[o]

(* The store keeps the last events of o, and all there were but the shifted ones until it forgets
   o: its cursors are then the numbers of the events. *)
Stored(o) ==
  /\ next[o] <= told.reported[o]
  /\ o \in InStore =>
       /\ Len(kept[o]) >= 1 /\ Len(kept[o]) <= PerOp /\ Len(kept[o]) <= next[o]
       /\ \A i \in 1..Len(kept[o]) : kept[o][i] = told.reported[o] - Len(kept[o]) + i
  /\ o \notin InStore => /\ next[o] = 0 /\ kept[o] = <<>>
                         /\ o \notin told.forgotten => told.reported[o] = 0
  /\ o \notin told.forgotten =>
       next[o] = told.reported[o] /\ 1..(told.reported[o] - Len(kept[o])) \subseteq told.shifted[o]

(* A request is the frame's until its grace ends, and what is pulled is what somebody waits for. *)
Requested(o) ==
  /\ request[o] = "none" => /\ wire[o] = <<>> /\ fetch[o].at = "none" /\ told.heard[o] = <<>>
                            /\ told.reported[o] = 0 /\ o \notin owned
  /\ o \in grace => request[o] = "done"
  /\ request[o] \in {"running", "answered", "flushing"} /\ ~disposed => o \in owned
  /\ told.due[o] <= told.reported[o]
  /\ fetch[o].at # "none" \/ (\E i \in DOMAIN wire[o] : wire[o][i].what = "signal") =>
       told.reported[o] > 0 \/ request[o] \in {"flushing", "done"}

Handed(m) == m.what \in {"events", "refusal"}

(* One answer of a fetch and one of the request are on the wire at most. *)
Wired(o) ==
  /\ \A i, j \in DOMAIN wire[o] : Handed(wire[o][i]) /\ Handed(wire[o][j]) => i = j
  /\ \A i, j \in DOMAIN wire[o] :
       wire[o][i].what = "answer" /\ wire[o][j].what = "answer" => i = j
  /\ (\E i \in DOMAIN wire[o] : Handed(wire[o][i])) <=> fetch[o].at = "waiting"
  /\ (\E i \in DOMAIN wire[o] : wire[o][i].what = "answer") <=> request[o] = "answered"
  /\ fetch[o].todo # <<>> <=> fetch[o].at = "delivering"

Rising(s) == \A i, j \in DOMAIN s : i < j => s[i] < s[j]
UpTo(s, n) == \A i \in DOMAIN s : s[i] <= n
Precedes(s, t) == \A i \in DOMAIN s, j \in DOMAIN t : s[i] < t[j]

(* What has been heard comes before what is to be heard, and what the next fetch asks for after. *)
InOrder(o) ==
  /\ Rising(told.heard[o]) /\ UpTo(told.heard[o], told.reported[o])
  /\ Rising(fetch[o].todo) /\ UpTo(fetch[o].todo, told.reported[o])
  /\ Precedes(told.heard[o], fetch[o].todo)
  /\ o \in owned => /\ UpTo(told.heard[o], cursor[o] + Base(o))
                    /\ UpTo(fetch[o].todo, cursor[o] + Base(o))
  /\ fetch[o].at = "asked" => UpTo(told.heard[o], fetch[o].after + Base(o))
  /\ \A i \in DOMAIN wire[o] : wire[o][i].what = "events" =>
       /\ Rising(wire[o][i].events) /\ UpTo(wire[o][i].events, told.reported[o])
       /\ Precedes(told.heard[o], wire[o][i].events)
       /\ UpTo(told.heard[o], wire[o][i].cursor + Base(o))
       /\ UpTo(wire[o][i].events, wire[o][i].cursor + Base(o))

Got(o) == ToSet(told.heard[o]) \cup told.shifted[o]

(* What a cursor has passed has been heard, is about to be or was shifted; and what an answered
   request waits for brings all that was reported before its answer. *)
Covers(o) ==
  o \notin told.forgotten /\ ~told.deaf /\ ~disposed =>
    /\ 1..cursor[o] \subseteq Got(o) \cup ToSet(fetch[o].todo)
    /\ fetch[o].at = "asked" => 1..fetch[o].after \subseteq Got(o)
    /\ \A i \in DOMAIN wire[o] :
         /\ wire[o][i].what = "events" =>
              1..wire[o][i].cursor \subseteq Got(o) \cup ToSet(wire[o][i].events)
         /\ wire[o][i].what = "refusal" => told.due[o] = 0 /\ request[o] # "running"
    /\ request[o] = "flushing" =>
         /\ fetch[o].at # "none"
         /\ ~fetch[o].again /\ fetch[o].at = "delivering" => told.due[o] <= cursor[o]
         /\ ~fetch[o].again => \A i \in DOMAIN wire[o] : wire[o][i].what = "events" =>
                                 told.due[o] <= wire[o][i].cursor
    /\ request[o] = "done" => 1..told.due[o] \subseteq Got(o)

Streams(o) == Stored(o) /\ Requested(o) /\ Wired(o) /\ InOrder(o) /\ Covers(o)

StreamInv ==
  /\ StreamTypes
  /\ ~told.deaf /\ ~disposed => subscribed
  /\ \A o \in Op : Streams(o)

LEMMA StreamHeard == StreamInv => ProgressIsHeard
BY DEF StreamInv, Streams, InOrder, Rising, Covers, Got, ProgressIsHeard, HeardInOrder,
   HeardBeforeAnswer

LEMMA StreamInitInv == ProgressInit => StreamInv
<1>. SUFFICES ASSUME ProgressInit PROVE StreamInv
  OBVIOUS
<1>1. StreamTypes
  <2>1. NoFetch \in Pulls
    BY DEF NoFetch, Pulls
  <2>2. told \in Histories
    <3>1. told = [reported |-> [o \in Op |-> 0], heard |-> [o \in Op |-> <<>>],
                  shifted |-> [o \in Op |-> {}], forgotten |-> {}, due |-> [o \in Op |-> 0],
                  deaf |-> FALSE]
      BY DEF ProgressInit
    <3>. QED
      BY <3>1 DEF Histories
  <2>3. order \in Seq(Op \cup Foreign)
    BY DEF ProgressInit
  <2>4. kept \in [Op -> Seq(Nat)] /\ next \in [Op -> Nat] /\ wire \in [Op -> Seq(WireMessages)]
    BY DEF ProgressInit
  <2>5. fetch \in [Op -> Pulls] /\ cursor \in [Op -> Nat]
    BY <2>1 DEF ProgressInit
  <2>6. request \in [Op -> {"none", "running", "answered", "flushing", "done"}]
    BY DEF ProgressInit
  <2>. QED
    BY <2>2, <2>3, <2>4, <2>5, <2>6, Zenon DEF ProgressInit, StreamTypes
<1>2. ASSUME NEW o \in Op PROVE Streams(o)
  <2>1. /\ kept[o] = <<>> /\ next[o] = 0 /\ request[o] = "none" /\ wire[o] = <<>>
        /\ fetch[o] = NoFetch /\ cursor[o] = 0 /\ owned = {} /\ grace = {} /\ order = <<>>
        /\ told.reported[o] = 0 /\ told.heard[o] = <<>> /\ told.due[o] = 0
    BY DEF ProgressInit
  <2>2. Stored(o)
    BY <2>1 DEF Stored, InStore, ToSet
  <2>3. Requested(o) /\ Wired(o)
    BY <2>1 DEF Requested, Wired, NoFetch
  <2>4. InOrder(o)
    BY <2>1 DEF InOrder, Rising, UpTo, Precedes, NoFetch
  <2>5. Covers(o)
    BY <2>1 DEF Covers, NoFetch
  <2>. QED
    BY <2>2, <2>3, <2>4, <2>5 DEF Streams
<1>. QED
  BY <1>1, <1>2 DEF StreamInv, ProgressInit

(* What is left of the order after the first ones have gone. *)
LEMMA PrunedRange ==
  ASSUME order \in Seq(Op \cup Foreign), NEW entries \in Pruned
  PROVE  entries \in Seq(Op \cup Foreign) /\ ToSet(entries) \subseteq InStore
<1>1. PICK n \in 0..Len(order) : entries = SubSeq(order, n + 1, Len(order))
  BY DEF Pruned
<1>2. entries \in Seq(Op \cup Foreign) /\ Len(entries) = Len(order) - n
  BY <1>1
<1>3. \A i \in 1..Len(entries) : entries[i] = order[n + i] /\ n + i \in 1..Len(order)
  BY <1>1, <1>2
<1>. QED
  BY <1>2, <1>3 DEF InStore, ToSet

(* The sequence r is s without its n-th element. *)
RemovedAt(s, r, n) ==
  /\ Len(r) = Len(s) - 1 /\ Len(r) \in Nat
  /\ \A i \in 1..Len(r) : r[i] = IF i < n THEN s[i] ELSE s[i + 1]

LEMMA RemoveFirstAt ==
  ASSUME NEW S, NEW s \in Seq(S), NEW e, \E i \in 1..Len(s) : s[i] = e
  PROVE  /\ RemoveFirst(s, e) \in Seq(S)
         /\ \E n \in 1..Len(s) : s[n] = e /\ RemovedAt(s, RemoveFirst(s, e), n)
<1>. DEFINE I == {i \in 1..Len(s) : s[i] = e}
            n == Min(I)
<1>1. RemoveFirst(s, e) = RemoveAt(s, n)
  BY DEF RemoveFirst, SelectInSeq
<1>2. n \in I
  <2>1. I \in SUBSET Int /\ I # {} /\ I \in SUBSET (1..Len(s))
    OBVIOUS
  <2>2. IsFiniteSet(I)
    BY <2>1, FS_Interval, FS_Subset
  <2>. QED
    BY <2>1, <2>2, Extremes
<1>. HIDE DEF n
<1>3. n \in 1..Len(s) /\ s[n] = e
  BY <1>2
<1>. DEFINE a == SubSeq(s, 1, n - 1)
            b == SubSeq(s, n + 1, Len(s))
<1>a. a \in Seq(S) /\ Len(a) = n - 1 /\ \A i \in 1..(n - 1) : a[i] = s[i]
  BY <1>3
<1>b. b \in Seq(S) /\ Len(b) = Len(s) - n /\ \A i \in 1..(Len(s) - n) : b[i] = s[n + i]
  BY <1>3
<1>c. RemoveAt(s, n) = a \o b
  BY DEF RemoveAt
<1>. HIDE DEF a, b
<1>4. RemoveAt(s, n) \in Seq(S) /\ Len(RemoveAt(s, n)) = Len(s) - 1
  <2>1. a \o b \in Seq(S) /\ Len(a \o b) = Len(a) + Len(b)
    BY <1>a, <1>b
  <2>2. (n - 1) + (Len(s) - n) = Len(s) - 1
    BY <1>3
  <2>. QED
    BY <1>a, <1>b, <1>c, <2>1, <2>2
<1>5. \A i \in 1..(Len(s) - 1) : RemoveAt(s, n)[i] = IF i < n THEN s[i] ELSE s[i + 1]
  <2>. TAKE i \in 1..(Len(s) - 1)
  <2>1. CASE i < n
    BY <1>3, <1>a, <1>b, <1>c, <2>1
  <2>2. CASE ~(i < n)
    <3>1. i - (n - 1) \in 1..(Len(s) - n)
      BY <1>3, <2>2
    <3>2. (a \o b)[i] = b[i - (n - 1)]
      BY <1>3, <1>a, <1>b, <2>2
    <3>3. b[i - (n - 1)] = s[n + (i - (n - 1))]
      BY <1>b, <3>1
    <3>4. n + (i - (n - 1)) = i + 1
      BY <1>3
    <3>. QED
      BY <1>c, <2>2, <3>2, <3>3, <3>4
  <2>. QED
    BY <2>1, <2>2
<1>. QED
  BY <1>1, <1>2, <1>3, <1>4, <1>5 DEF RemovedAt

LEMMA RemoveFirstRange ==
  ASSUME NEW S, NEW s \in Seq(S), NEW e
  PROVE  /\ RemoveFirst(s, e) \in Seq(S)
         /\ ToSet(RemoveFirst(s, e)) \subseteq ToSet(s)
<1>1. CASE \E i \in 1..Len(s) : s[i] = e
  <2>1. PICK n \in 1..Len(s) : RemovedAt(s, RemoveFirst(s, e), n)
    BY <1>1, RemoveFirstAt
  <2>. DEFINE r == RemoveFirst(s, e)
              at(i) == IF i < n THEN i ELSE i + 1
  <2>2. r \in Seq(S)
    BY <1>1, RemoveFirstAt
  <2>3. \A i \in 1..Len(r) : at(i) \in 1..Len(s) /\ r[i] = s[at(i)]
    BY <2>1 DEF RemovedAt
  <2>. HIDE DEF r, at
  <2>4. ToSet(r) \subseteq ToSet(s)
    BY <2>3 DEF ToSet
  <2>. QED
    BY <2>2, <2>4 DEF r
<1>2. CASE ~\E i \in 1..Len(s) : s[i] = e
  BY <1>2 DEF RemoveFirst
<1>. QED
  BY <1>1, <1>2

(* The entry of o is the last one, and no other has come. *)
LEMMA MovedRange ==
  ASSUME NEW entries \in Seq(Op \cup Foreign), NEW o \in Op \cup Foreign
  PROVE  /\ Moved(entries, o) \in Seq(Op \cup Foreign)
         /\ o \in ToSet(Moved(entries, o))
         /\ ToSet(Moved(entries, o)) \subseteq ToSet(entries) \cup {o}
<1>. DEFINE rest == RemoveFirst(entries, o)
            moved == Append(rest, o)
            n == IF Len(moved) > Operations THEN Operations ELSE Len(moved)
<1>1. rest \in Seq(Op \cup Foreign) /\ ToSet(rest) \subseteq ToSet(entries)
  BY RemoveFirstRange
<1>. HIDE DEF rest
<1>2. moved \in Seq(Op \cup Foreign) /\ Len(moved) = Len(rest) + 1 /\ moved[Len(moved)] = o
  BY <1>1
<1>3. \A i \in 1..Len(moved) : moved[i] \in ToSet(entries) \cup {o}
  BY <1>1, <1>2 DEF ToSet
<1>4. Moved(entries, o) = SubSeq(moved, Len(moved) - n + 1, Len(moved))
  BY DEF Moved, rest
<1>. HIDE DEF moved
<1>5. n \in 1..Len(moved)
  BY <1>1, <1>2, ProgressAssumption
<1>. HIDE DEF n
<1>6. Moved(entries, o) \in Seq(Op \cup Foreign) /\ Len(Moved(entries, o)) = n
  BY <1>2, <1>4, <1>5
<1>7. \A i \in 1..n : Moved(entries, o)[i] = moved[Len(moved) - n + i]
                      /\ Len(moved) - n + i \in 1..Len(moved)
  BY <1>2, <1>4, <1>5
<1>8. o \in ToSet(Moved(entries, o))
  BY <1>2, <1>5, <1>6, <1>7 DEF ToSet
<1>9. ToSet(Moved(entries, o)) = {Moved(entries, o)[i] : i \in 1..n}
  BY <1>6 DEF ToSet
<1>10. \A i \in 1..n : Moved(entries, o)[i] \in ToSet(entries) \cup {o}
  BY <1>3, <1>7
<1>. QED
  BY <1>6, <1>8, <1>9, <1>10

LEMMA StreamTypesAt ==
  ASSUME StreamTypes, NEW o \in Op
  PROVE  /\ kept[o] \in Seq(Nat) /\ next[o] \in Nat /\ cursor[o] \in Nat
         /\ request[o] \in {"none", "running", "answered", "flushing", "done"}
         /\ wire[o] \in Seq(WireMessages)
         /\ fetch[o] \in Pulls /\ fetch[o].at \in {"none", "asked", "waiting", "delivering"}
         /\ fetch[o].again \in BOOLEAN /\ fetch[o].after \in Nat /\ fetch[o].todo \in Seq(Nat)
         /\ told.reported[o] \in Nat /\ told.heard[o] \in Seq(Nat) /\ told.shifted[o] \in SUBSET Nat
         /\ told.due[o] \in Nat /\ told.forgotten \in SUBSET Op /\ told.deaf \in BOOLEAN
         /\ Base(o) \in Int
BY DEF StreamTypes, Pulls, Histories, Base

LEMMA StreamTypesNext ==
  ASSUME StreamTypes', NEW o \in Op
  PROVE  /\ kept'[o] \in Seq(Nat) /\ next'[o] \in Nat /\ cursor'[o] \in Nat
         /\ wire'[o] \in Seq(WireMessages)
         /\ fetch'[o] \in Pulls /\ fetch'[o].todo \in Seq(Nat)
         /\ told'.reported[o] \in Nat /\ told'.heard[o] \in Seq(Nat)
         /\ told'.shifted[o] \in SUBSET Nat /\ told'.due[o] \in Nat
         /\ told'.forgotten \in SUBSET Op /\ told'.deaf \in BOOLEAN
         /\ Base(o)' = told'.reported[o] - next'[o] /\ Base(o)' \in Int
BY DEF StreamTypes, Pulls, Histories, Base

LEMMA MessageTypes ==
  ASSUME NEW w \in Seq(WireMessages), NEW i \in DOMAIN w
  PROVE  /\ w[i] \in WireMessages /\ w[i].cursor \in Nat /\ w[i].events \in Seq(Nat)
         /\ w[i].what \in {"signal", "answer", "refusal", "events"}
<1>1. w[i] \in WireMessages
  OBVIOUS
<1>. QED
  BY <1>1 DEF WireMessages

(* What a step of the store does to the entry of an operation that does not report. *)
Stayed(o) ==
  (o \in InStore' <=> o \in InStore) /\ next'[o] = next[o] /\ kept'[o] = kept[o]
Dropped(o) ==
  o \notin InStore' /\ next'[o] = 0 /\ kept'[o] = <<>> /\ (o \in InStore => o \in told'.forgotten)

LEMMA StoreKeeps ==
  ASSUME StreamTypes, StreamTypes', NEW o \in Op, Stored(o), Stayed(o) \/ Dropped(o),
         told'.reported[o] = told.reported[o], told.forgotten \subseteq told'.forgotten,
         told.shifted[o] \subseteq told'.shifted[o]
  PROVE  Stored(o)' /\ Base(o)' >= Base(o)
<1>. USE StreamTypesAt, StreamTypesNext
<1>1. CASE Stayed(o)
  <2>1. Base(o)' = Base(o)
    BY <1>1 DEF Stayed, Base
  <2>. QED
    BY <1>1, <2>1 DEF Stayed, Stored
<1>2. CASE Dropped(o)
  <2>1. Base(o)' = told.reported[o] /\ Base(o) = told.reported[o] - next[o]
    BY <1>2 DEF Dropped, Base
  <2>2. o \notin told'.forgotten => o \notin InStore /\ told.reported[o] = 0 /\ next[o] = 0
    BY <1>2 DEF Dropped, Stored
  <2>3. Stored(o)'
    BY <1>2, <2>2 DEF Dropped, Stored
  <2>. QED
    BY <2>1, <2>3
<1>. QED
  BY <1>1, <1>2

(* What is not moved for o stays sound, whatever the store forgets. *)
LEMMA Beside ==
  ASSUME StreamTypes, StreamTypes', NEW o \in Op, Streams(o), Base(o)' >= Base(o),
         told'.reported[o] = told.reported[o], told'.heard[o] = told.heard[o],
         told'.due[o] = told.due[o], told.forgotten \subseteq told'.forgotten,
         told.shifted[o] \subseteq told'.shifted[o], told.deaf => told'.deaf,
         request'[o] = request[o], wire'[o] = wire[o], fetch'[o] = fetch[o],
         cursor'[o] = cursor[o], o \in owned' <=> o \in owned, o \in grace' <=> o \in grace,
         disposed' = disposed
  PROVE  Requested(o)' /\ Wired(o)' /\ InOrder(o)' /\ Covers(o)'
<1>. USE StreamTypesAt, StreamTypesNext
<1>1. Requested(o)'
  BY DEF Streams, Requested
<1>2. Wired(o)'
  BY DEF Streams, Wired
<1>3. Covers(o)'
  BY DEF Streams, Covers, Got
<1>4. \A s \in Seq(Nat), n \in Nat :
        UpTo(s, n + Base(o)) => UpTo(s, n + Base(o)')
  <2>. TAKE s \in Seq(Nat), n \in Nat
  <2>1. \A i \in DOMAIN s : s[i] \in Nat
    OBVIOUS
  <2>2. Base(o)' \in Int /\ Base(o) \in Int
    OBVIOUS
  <2>. QED
    BY <2>1, <2>2 DEF UpTo
<1>5. \A i \in DOMAIN wire[o] : wire[o][i].cursor \in Nat /\ wire[o][i].events \in Seq(Nat)
  BY MessageTypes
<1>6. InOrder(o)'
  <2>1. o \in owned' => /\ UpTo(told'.heard[o], cursor'[o] + Base(o)')
                        /\ UpTo(fetch'[o].todo, cursor'[o] + Base(o)')
    BY <1>4 DEF Streams, InOrder
  <2>2. fetch'[o].at = "asked" => UpTo(told'.heard[o], fetch'[o].after + Base(o)')
    BY <1>4 DEF Streams, InOrder
  <2>3. \A i \in DOMAIN wire'[o] : wire'[o][i].what = "events" =>
          /\ UpTo(told'.heard[o], wire'[o][i].cursor + Base(o)')
          /\ UpTo(wire'[o][i].events, wire'[o][i].cursor + Base(o)')
    BY <1>4, <1>5 DEF Streams, InOrder
  <2>. QED
    BY <2>1, <2>2, <2>3 DEF Streams, InOrder
<1>. QED
  BY <1>1, <1>2, <1>3, <1>6

LEMMA Untouched ==
  ASSUME StreamTypes, StreamTypes', NEW o \in Op, Streams(o), Stayed(o) \/ Dropped(o),
         told'.reported[o] = told.reported[o], told'.heard[o] = told.heard[o],
         told'.due[o] = told.due[o], told.forgotten \subseteq told'.forgotten,
         told.shifted[o] \subseteq told'.shifted[o], told.deaf => told'.deaf,
         request'[o] = request[o], wire'[o] = wire[o], fetch'[o] = fetch[o],
         cursor'[o] = cursor[o], o \in owned' <=> o \in owned, o \in grace' <=> o \in grace,
         disposed' = disposed
  PROVE  Streams(o)'
BY StoreKeeps, Beside DEF Streams

LEMMA CrowdsStep == StreamInv /\ Crowds => StreamInv'
<1>. SUFFICES ASSUME StreamInv, Crowds PROVE StreamInv'
  OBVIOUS
<1>1. StreamTypes
  BY DEF StreamInv
<1>2. PICK f \in Foreign, entries \in Pruned :
        /\ order' = Moved(entries, f)
        /\ kept' = [p \in Op |-> IF p \in ToSet(order') THEN kept[p] ELSE <<>>]
        /\ next' = [p \in Op |-> IF p \in ToSet(order') THEN next[p] ELSE 0]
        /\ told' = [told EXCEPT !.forgotten = @ \cup (Forgets(order') \cap Op)]
  BY DEF Crowds
<1>3. UNCHANGED <<request, wire, owned, grace, fetch, cursor, subscribed, disposed>>
  BY DEF Crowds
<1>4. /\ order' \in Seq(Op \cup Foreign)
      /\ InStore' \subseteq InStore \cup {f}
  <2>1. entries \in Seq(Op \cup Foreign) /\ ToSet(entries) \subseteq InStore
    BY <1>1, PrunedRange DEF StreamTypes
  <2>. QED
    BY <1>2, <2>1, MovedRange DEF InStore
<1>5. /\ told'.forgotten = told.forgotten \cup ((InStore \ InStore') \cap Op)
      /\ told'.reported = told.reported /\ told'.heard = told.heard
      /\ told'.shifted = told.shifted /\ told'.due = told.due /\ told'.deaf = told.deaf
      /\ told' \in Histories
  BY <1>1, <1>2 DEF StreamTypes, Histories, Forgets, InStore
<1>6. kept' \in [Op -> Seq(Nat)] /\ next' \in [Op -> Nat]
  BY <1>1, <1>2 DEF StreamTypes
<1>7. StreamTypes'
  BY <1>1, <1>3, <1>4, <1>5, <1>6 DEF StreamTypes
<1>8. ASSUME NEW o \in Op PROVE Streams(o)'
  <2>1. o # f
    BY ProgressAssumption
  <2>2. Stayed(o) \/ Dropped(o)
    <3>1. o \in InStore' => o \in InStore
      BY <1>4, <2>1
    <3>2. o \in InStore' => kept'[o] = kept[o] /\ next'[o] = next[o]
      BY <1>2 DEF InStore
    <3>3. o \notin InStore' => kept'[o] = <<>> /\ next'[o] = 0
      BY <1>2 DEF InStore
    <3>. QED
      BY <1>5, <3>1, <3>2, <3>3 DEF Stayed, Dropped
  <2>3. Streams(o)
    BY DEF StreamInv
  <2>. QED
    BY <1>1, <1>3, <1>5, <1>7, <2>2, <2>3, Untouched
<1>. QED
  BY <1>3, <1>5, <1>7, <1>8 DEF StreamInv

LEMMA StoreClosesStep == StreamInv /\ StoreCloses => StreamInv'
<1>. SUFFICES ASSUME StreamInv, StoreCloses PROVE StreamInv'
  OBVIOUS
<1>1. StreamTypes
  BY DEF StreamInv
<1>2. /\ order' = <<>> /\ kept' = [o \in Op |-> <<>>] /\ next' = [o \in Op |-> 0]
      /\ told' = [told EXCEPT !.forgotten = @ \cup (InStore \cap Op)]
      /\ UNCHANGED <<request, wire, owned, grace, fetch, cursor, subscribed, disposed>>
  BY DEF StoreCloses
<1>3. InStore' = {}
  BY <1>2 DEF InStore, ToSet
<1>5. /\ told'.forgotten = told.forgotten \cup (InStore \cap Op)
      /\ told'.reported = told.reported /\ told'.heard = told.heard
      /\ told'.shifted = told.shifted /\ told'.due = told.due /\ told'.deaf = told.deaf
      /\ told' \in Histories
  BY <1>1, <1>2 DEF StreamTypes, Histories
<1>6. order' \in Seq(Op \cup Foreign) /\ kept' \in [Op -> Seq(Nat)] /\ next' \in [Op -> Nat]
  BY <1>2
<1>7. StreamTypes'
  BY <1>1, <1>2, <1>5, <1>6 DEF StreamTypes
<1>8. ASSUME NEW o \in Op PROVE Streams(o)'
  <2>2. Dropped(o)
    BY <1>2, <1>3, <1>5 DEF Dropped
  <2>3. Streams(o)
    BY DEF StreamInv
  <2>. QED
    BY <1>1, <1>2, <1>5, <1>7, <2>2, <2>3, Untouched
<1>. QED
  BY <1>2, <1>5, <1>7, <1>8 DEF StreamInv

StoreRests == UNCHANGED <<order, kept, next>>

LEMMA StoreStays == ASSUME StoreRests, NEW o \in Op PROVE Stayed(o)
BY DEF StoreRests, Stayed, InStore

LEMMA ListensStep ==
  ASSUME StreamInv, NEW now \in BOOLEAN, Listens(now) PROVE StreamInv'
<1>1. StreamTypes
  BY DEF StreamInv
<1>2. /\ told' = [told EXCEPT !.deaf = TRUE] /\ subscribed' = now
      /\ UNCHANGED <<order, kept, next, request, wire, owned, grace, fetch, cursor, disposed>>
  BY DEF Listens
<1>3. /\ told'.forgotten = told.forgotten /\ told'.reported = told.reported
      /\ told'.heard = told.heard /\ told'.shifted = told.shifted /\ told'.due = told.due
      /\ told'.deaf = TRUE /\ told' \in Histories
  BY <1>1, <1>2 DEF StreamTypes, Histories
<1>4. StreamTypes'
  BY <1>1, <1>2, <1>3 DEF StreamTypes
<1>5. ASSUME NEW o \in Op PROVE Streams(o)'
  <2>1. Stayed(o)
    BY <1>2, StoreStays DEF StoreRests
  <2>2. Streams(o)
    BY DEF StreamInv
  <2>. QED
    BY <1>1, <1>2, <1>3, <1>4, <2>1, <2>2, Untouched
<1>. QED
  BY <1>3, <1>4, <1>5 DEF StreamInv

LEMMA DisposesStep == StreamInv /\ Disposes => StreamInv'
<1>. SUFFICES ASSUME StreamInv, Disposes PROVE StreamInv'
  OBVIOUS
<1>1. StreamTypes
  BY DEF StreamInv
<1>2. /\ disposed' = TRUE /\ subscribed' = FALSE
      /\ grace' = {} /\ owned' = {} /\ cursor' = [o \in Op |-> 0]
      /\ UNCHANGED <<order, kept, next, request, wire, fetch, told>>
  BY DEF Disposes
<1>4. StreamTypes'
  BY <1>1, <1>2 DEF StreamTypes
<1>5. ASSUME NEW o \in Op PROVE Streams(o)'
  <2>1. Streams(o)
    BY DEF StreamInv
  <2>2. Stored(o)' /\ Base(o)' = Base(o)
    BY <1>2, <2>1 DEF Streams, Stored, InStore, Base
  <2>3. Requested(o)' /\ Wired(o)'
    BY <1>2, <2>1 DEF Streams, Requested, Wired
  <2>4. InOrder(o)'
    BY <1>2, <2>1, <2>2 DEF Streams, InOrder
  <2>5. Covers(o)'
    BY <1>2 DEF Covers
  <2>. QED
    BY <2>2, <2>3, <2>4, <2>5 DEF Streams
<1>. QED
  BY <1>2, <1>4, <1>5 DEF StreamInv

LEMMA AsksStep == ASSUME StreamInv, NEW q \in Op, Asks(q) PROVE StreamInv'
<1>1. StreamTypes
  BY DEF StreamInv
<1>2. /\ request[q] = "none" /\ ~disposed
      /\ request' = [request EXCEPT ![q] = "running"] /\ owned' = owned \cup {q}
      /\ UNCHANGED <<order, kept, next, wire, grace, fetch, cursor, subscribed, disposed, told>>
  BY DEF Asks
<1>4. StreamTypes'
  BY <1>1, <1>2 DEF StreamTypes
<1>5. ASSUME NEW o \in Op, o # q PROVE Streams(o)'
  <2>1. Stayed(o)
    BY <1>2, StoreStays DEF StoreRests
  <2>2. Streams(o)
    BY DEF StreamInv
  <2>3. request'[o] = request[o] /\ (o \in owned' <=> o \in owned)
    BY <1>1, <1>2, <1>5 DEF StreamTypes
  <2>. QED
    BY <1>1, <1>2, <1>4, <2>1, <2>2, <2>3, Untouched
<1>6. Streams(q)'
  <2>1. Streams(q) /\ request'[q] = "running"
    BY <1>1, <1>2 DEF StreamInv, StreamTypes
  <2>2. Stored(q)' /\ Base(q)' = Base(q)
    BY <1>2, <2>1 DEF Streams, Stored, InStore, Base
  <2>3. Requested(q)' /\ Wired(q)'
    BY <1>2, <2>1 DEF Streams, Requested, Wired
  <2>4. InOrder(q)'
    <3>1. told.heard[q] = <<>> /\ fetch[q].todo = <<>>
      BY <1>2, <2>1 DEF Streams, Requested, Wired
    <3>. QED
      BY <1>2, <2>1, <2>2, <3>1 DEF Streams, InOrder, UpTo
  <2>5. Covers(q)'
    BY <1>2, <2>1 DEF Streams, Covers, Got, Requested, Wired
  <2>. QED
    BY <2>2, <2>3, <2>4, <2>5 DEF Streams
<1>. QED
  BY <1>2, <1>4, <1>5, <1>6 DEF StreamInv

LEMMA GraceStep == ASSUME StreamInv, NEW q \in Op, GraceEnds(q) PROVE StreamInv'
<1>1. StreamTypes
  BY DEF StreamInv
<1>2. /\ q \in grace /\ grace' = grace \ {q} /\ owned' = owned \ {q}
      /\ cursor' = [cursor EXCEPT ![q] = 0]
      /\ UNCHANGED <<order, kept, next, request, wire, fetch, subscribed, disposed, told>>
  BY DEF GraceEnds
<1>4. StreamTypes'
  BY <1>1, <1>2 DEF StreamTypes
<1>5. ASSUME NEW o \in Op, o # q PROVE Streams(o)'
  <2>1. Stayed(o)
    BY <1>2, StoreStays DEF StoreRests
  <2>2. Streams(o)
    BY DEF StreamInv
  <2>3. cursor'[o] = cursor[o] /\ (o \in owned' <=> o \in owned) /\ (o \in grace' <=> o \in grace)
    BY <1>1, <1>2, <1>5 DEF StreamTypes
  <2>. QED
    BY <1>1, <1>2, <1>4, <2>1, <2>2, <2>3, Untouched
<1>6. Streams(q)'
  <2>1. Streams(q) /\ cursor'[q] = 0 /\ q \notin owned' /\ q \notin grace'
    BY <1>1, <1>2 DEF StreamInv, StreamTypes
  <2>2. Stored(q)' /\ Base(q)' = Base(q)
    BY <1>2, <2>1 DEF Streams, Stored, InStore, Base
  <2>3. Requested(q)' /\ Wired(q)'
    BY <1>2, <2>1 DEF Streams, Requested, Wired
  <2>4. InOrder(q)'
    BY <1>2, <2>1, <2>2 DEF Streams, InOrder
  <2>5. Covers(q)'
    <3>1. request[q] = "done"
      BY <1>2, <2>1 DEF Streams, Requested
    <3>2. 1..0 = {}
      OBVIOUS
    <3>. QED
      BY <1>2, <2>1, <3>1, <3>2 DEF Streams, Covers, Got
  <2>. QED
    BY <2>2, <2>3, <2>4, <2>5 DEF Streams
<1>. QED
  BY <1>2, <1>4, <1>5, <1>6 DEF StreamInv

LEMMA AppendAt ==
  ASSUME NEW w \in Seq(WireMessages), NEW m \in WireMessages
  PROVE  /\ Append(w, m) \in Seq(WireMessages)
         /\ DOMAIN Append(w, m) = DOMAIN w \cup {Len(w) + 1} /\ Len(w) + 1 \notin DOMAIN w
         /\ \A i \in DOMAIN w : Append(w, m)[i] = w[i]
         /\ Append(w, m)[Len(w) + 1] = m
<1>1. DOMAIN w = 1..Len(w) /\ Len(w) \in Nat /\ DOMAIN Append(w, m) = 1..(Len(w) + 1)
  OBVIOUS
<1>2. 1..(Len(w) + 1) = (1..Len(w)) \cup {Len(w) + 1}
  BY <1>1
<1>. QED
  BY <1>1, <1>2

LEMMA TailAt ==
  ASSUME NEW w \in Seq(WireMessages), w # <<>>
  PROVE  /\ Tail(w) \in Seq(WireMessages) /\ 1 \in DOMAIN w /\ Head(w) = w[1]
         /\ \A i \in DOMAIN Tail(w) : i + 1 \in DOMAIN w /\ i + 1 # 1 /\ Tail(w)[i] = w[i + 1]
         /\ \A i \in DOMAIN w : i # 1 => i - 1 \in DOMAIN Tail(w) /\ Tail(w)[i - 1] = w[i]
OBVIOUS

LEMMA MainAnswersStep == ASSUME StreamInv, NEW q \in Op, MainAnswers(q) PROVE StreamInv'
<1>1. StreamTypes /\ Streams(q)
  BY DEF StreamInv
<1>2. /\ request[q] = "running" /\ request' = [request EXCEPT ![q] = "answered"]
      /\ wire' = [wire EXCEPT ![q] = Append(@, Answer)]
      /\ UNCHANGED <<order, kept, next, owned, grace, fetch, cursor, subscribed, disposed, told>>
  BY DEF MainAnswers
<1>a. Answer \in WireMessages
  BY DEF Answer, WireMessages
<1>b. wire[q] \in Seq(WireMessages) /\ wire'[q] = Append(wire[q], Answer)
      /\ wire'[q] \in Seq(WireMessages) /\ request'[q] = "answered"
  BY <1>1, <1>2, <1>a DEF StreamTypes
<1>4. StreamTypes'
  BY <1>1, <1>2, <1>b DEF StreamTypes
<1>5. ASSUME NEW o \in Op, o # q PROVE Streams(o)'
  <2>1. Stayed(o)
    BY <1>2, StoreStays DEF StoreRests
  <2>2. Streams(o)
    BY DEF StreamInv
  <2>3. request'[o] = request[o] /\ wire'[o] = wire[o]
    BY <1>1, <1>2, <1>5 DEF StreamTypes
  <2>. QED
    BY <1>1, <1>2, <1>4, <2>1, <2>2, <2>3, Untouched
<1>6. Streams(q)'
  <2>. DEFINE n == Len(wire[q]) + 1
  <2>a. /\ DOMAIN wire'[q] = DOMAIN wire[q] \cup {n} /\ n \notin DOMAIN wire[q]
        /\ \A i \in DOMAIN wire[q] : wire'[q][i] = wire[q][i]
        /\ wire'[q][n].what = "answer"
    BY <1>b, <1>a, AppendAt DEF Answer
  <2>. HIDE DEF n
  <2>2. Stored(q)' /\ Base(q)' = Base(q)
    BY <1>1, <1>2 DEF Streams, Stored, InStore, Base
  <2>3. Requested(q)'
    BY <1>1, <1>2, <1>b, <2>a DEF Streams, Requested
  <2>4. Wired(q)'
    <3>1. \A i \in DOMAIN wire[q] : wire[q][i].what # "answer"
      BY <1>1, <1>2 DEF Streams, Wired
    <3>2. ~Handed(wire'[q][n])
      BY <2>a DEF Handed
    <3>. QED
      BY <1>1, <1>2, <1>b, <2>a, <3>1, <3>2 DEF Streams, Wired
  <2>5. InOrder(q)'
    BY <1>1, <1>2, <2>a, <2>2 DEF Streams, InOrder
  <2>6. Covers(q)'
    BY <1>1, <1>2, <1>b, <2>a DEF Streams, Covers, Got
  <2>. QED
    BY <2>2, <2>3, <2>4, <2>5, <2>6 DEF Streams
<1>. QED
  BY <1>1, <1>2, <1>4, <1>5, <1>6 DEF StreamInv

(* What get() hands out: the events after the cursor, but for those that were shifted. *)
LEMMA AfterEvents ==
  ASSUME StreamTypes, NEW q \in Op, Stored(q), q \in InStore, NEW after \in Nat
  PROVE  /\ After(q, after) \in Seq(Nat) /\ Rising(After(q, after))
         /\ UpTo(After(q, after), told.reported[q])
         /\ \A i \in DOMAIN After(q, after) : After(q, after)[i] > after + Base(q)
         /\ q \notin told.forgotten =>
              1..next[q] \subseteq (1..after) \cup told.shifted[q] \cup ToSet(After(q, after))
<1>. DEFINE e == After(q, after)
            k == kept[q]
            L == Len(k)
            first == next[q] - L + 1
            begin == IF after + 1 > first THEN after + 1 ELSE first
            s == begin - first + 1
<1>1. k \in Seq(Nat) /\ next[q] \in Nat /\ told.reported[q] \in Nat
  BY StreamTypesAt
<1>2. /\ next[q] <= told.reported[q] /\ L >= 1 /\ L <= next[q]
      /\ \A i \in 1..L : k[i] = told.reported[q] - L + i
  BY DEF Stored
<1>3. e = SubSeq(k, s, L)
  BY DEF After
<1>4. Base(q) = told.reported[q] - next[q]
  BY DEF Base
<1>. HIDE DEF k, e
<1>5. L \in Nat
  BY <1>1
<1>. HIDE DEF L
<1>6. s \in Nat /\ s >= 1 /\ s > after - first + 1 /\ first \in Int
  BY <1>1, <1>2, <1>5
<1>9. s = 1 \/ s = after + 1 - (next[q] - L)
  <2>1. CASE after + 1 > first
    BY <1>1, <1>5, <2>1
  <2>2. CASE ~(after + 1 > first)
    BY <1>1, <1>5, <2>2
  <2>. QED
    BY <2>1, <2>2
<1>10. s \in Nat
  BY <1>6
<1>7. CASE s > L
  <2>1. e = <<>>
    BY <1>1, <1>3, <1>6, <1>7, <1>5 DEF L
  <2>2. next[q] <= after
    BY <1>1, <1>2, <1>5, <1>7
  <2>. QED
    BY <2>1, <2>2, <1>1 DEF Rising, UpTo, e
<1>8. CASE s <= L
  <2>. HIDE DEF s
  <2>0. s \in 1..Len(k) /\ L = Len(k)
    BY <1>5, <1>6, <1>8 DEF L
  <2>1. e \in Seq(Nat) /\ Len(e) = L - s + 1 /\ \A i \in 1..(L - s + 1) : e[i] = k[s + i - 1]
    BY <1>1, <1>3, <2>0
  <2>2. DOMAIN e = 1..(L - s + 1)
    BY <2>1
  <2>3. \A i \in 1..(L - s + 1) : e[i] = told.reported[q] - L + (s + i - 1)
    <3>. TAKE i \in 1..(L - s + 1)
    <3>1. s + i - 1 \in 1..L /\ e[i] = k[s + i - 1]
      BY <1>5, <1>6, <1>8, <2>1
    <3>. QED
      BY <1>2, <3>1
  <2>d. \A i \in 1..(L - s + 1) : e[i] = (told.reported[q] - L + s - 1) + i
    BY <2>3, <1>1, <1>5, <1>6
  <2>4. Rising(e) /\ UpTo(e, told.reported[q])
    <3>. DEFINE d == told.reported[q] - L + s - 1
    <3>1. d \in Int /\ d + (L - s + 1) = told.reported[q]
      BY SMTT(30), <1>1, <1>5, <1>6
    <3>2. \A i \in DOMAIN e : e[i] = d + i
      BY <2>2, <2>d
    <3>. HIDE DEF d
    <3>3. \A i \in DOMAIN e : i \in Nat /\ i <= L - s + 1
      BY <2>2, <1>5, <1>10
    <3>4. Rising(e)
      BY <3>1, <3>2, <3>3 DEF Rising
    <3>5. UpTo(e, told.reported[q])
      BY <3>1, <3>2, <3>3, <1>5, <1>6 DEF UpTo
    <3>. QED
      BY <3>4, <3>5
  <2>5. \A i \in DOMAIN e : e[i] > after + Base(q)
    <3>1. \A i \in DOMAIN e : e[i] = told.reported[q] - L + s - 1 + i /\ i \in Nat /\ i >= 1
      BY <2>2, <2>d, <1>5, <1>10
    <3>2. told.reported[q] - L + s > after + Base(q)
      BY SMTT(30), <1>1, <1>4, <1>5, <1>6
    <3>3. Base(q) \in Int
      BY <1>1, <1>4
    <3>. QED
      BY SMTT(30), <3>1, <3>2, <3>3, <1>1, <1>5, <1>10
  <2>6. ASSUME q \notin told.forgotten, NEW n \in 1..next[q], n > after
        PROVE  n \in told.shifted[q] \cup ToSet(e)
    <3>1. next[q] = told.reported[q] /\ 1..(told.reported[q] - L) \subseteq told.shifted[q]
      BY <2>6 DEF Stored, L, k
    <3>2. CASE n <= told.reported[q] - L
      BY <3>1, <3>2, <1>1, <1>5
    <3>3. CASE n > told.reported[q] - L
      <4>. DEFINE i == n - (told.reported[q] - L) - s + 1
      <4>1. n \in Int /\ n <= told.reported[q]
        BY <3>1, <1>1
      <4>2. s <= n - (told.reported[q] - L)
        BY <1>9, <3>1, <3>3, <2>6, <4>1, <1>1, <1>5
      <4>3. i \in 1..(L - s + 1)
        <5>1. i \in Int /\ L - s + 1 \in Int
          BY SMTT(30), <4>1, <1>1, <1>5, <1>10
        <5>2. i >= 1
          BY <4>1, <4>2, <1>1, <1>5, <1>10
        <5>3. i <= L - s + 1
          BY <4>1, <1>1, <1>5, <1>10
        <5>. HIDE DEF i
        <5>. QED
          BY <5>1, <5>2, <5>3
      <4>4. e[i] = (told.reported[q] - L + s - 1) + i
        BY <2>d, <4>3
      <4>5. e[i] = n
        <5>1. (told.reported[q] - L + s - 1) + i = n
          <6>1. \A a, b, c, d \in Int : (a - b + c - 1) + (d - (a - b) - c + 1) = d
            OBVIOUS
          <6>2. told.reported[q] \in Int /\ L \in Int /\ s \in Int /\ n \in Int
            BY <4>1, <1>1, <1>5, <1>10
          <6>. QED
            BY <6>1, <6>2
        <5>. QED
          BY <4>4, <5>1
      <4>. QED
        BY <2>2, <4>3, <4>5 DEF ToSet
    <3>. QED
      BY <3>2, <3>3, <1>1, <1>5
  <2>. QED
    BY <1>1, <2>1, <2>4, <2>5, <2>6 DEF e
<1>. QED
  BY <1>5, <1>6, <1>7, <1>8

LEMMA LaterBase ==
  ASSUME NEW s \in Seq(Nat), NEW a \in Int, NEW b \in Int, a <= b, UpTo(s, a)
  PROVE  UpTo(s, b)
<1>1. \A i \in DOMAIN s : s[i] \in Nat /\ s[i] <= a
  BY DEF UpTo
<1>. QED
  BY <1>1 DEF UpTo

LEMMA HandsStep == ASSUME StreamInv, NEW q \in Op, Hands(q) PROVE StreamInv'
<1>1. StreamTypes /\ Streams(q)
  BY DEF StreamInv
<1>. DEFINE m == IF q \in InStore'
                 THEN [what |-> "events", events |-> After(q, fetch[q].after), cursor |-> next[q]]
                 ELSE Refusal
<1>2. /\ fetch[q].at = "asked"
      /\ fetch' = [fetch EXCEPT ![q].at = "waiting"]
      /\ UNCHANGED <<request, owned, grace, cursor, subscribed, disposed>>
  BY DEF Hands
<1>3. PICK entries \in Pruned :
        /\ order' = entries
        /\ kept' = [p \in Op |-> IF p \in ToSet(entries) THEN kept[p] ELSE <<>>]
        /\ next' = [p \in Op |-> IF p \in ToSet(entries) THEN next[p] ELSE 0]
        /\ told' = [told EXCEPT !.forgotten = @ \cup (Forgets(entries) \cap Op)]
        /\ wire' = [wire EXCEPT ![q] = Append(@,
             IF q \in ToSet(entries)
             THEN [what |-> "events", events |-> After(q, fetch[q].after), cursor |-> next[q]]
             ELSE Refusal)]
  BY DEF Hands
<1>4. order' \in Seq(Op \cup Foreign) /\ InStore' \subseteq InStore /\ InStore' = ToSet(entries)
  BY <1>1, <1>3, PrunedRange DEF StreamTypes, InStore
<1>5. /\ told'.forgotten = told.forgotten \cup ((InStore \ InStore') \cap Op)
      /\ told'.reported = told.reported /\ told'.heard = told.heard
      /\ told'.shifted = told.shifted /\ told'.due = told.due /\ told'.deaf = told.deaf
      /\ told' \in Histories
  BY <1>1, <1>3, <1>4 DEF StreamTypes, Histories, Forgets
<1>6. kept' \in [Op -> Seq(Nat)] /\ next' \in [Op -> Nat]
  BY <1>1, <1>3 DEF StreamTypes
<1>7. ASSUME NEW o \in Op PROVE Stayed(o) \/ Dropped(o)
  BY <1>3, <1>4, <1>5 DEF Stayed, Dropped
<1>8. q \in InStore' => q \in InStore
  BY <1>4
<1>9. m \in WireMessages
  <2>1. Refusal \in WireMessages
    BY DEF Refusal, WireMessages
  <2>2. CASE q \in InStore'
    <3>1. After(q, fetch[q].after) \in Seq(Nat) /\ next[q] \in Nat
      BY <1>1, <1>8, <2>2, AfterEvents, StreamTypesAt DEF Streams
    <3>. QED
      BY <2>2, <3>1 DEF WireMessages
  <2>. QED
    BY <2>1, <2>2
<1>10. wire[q] \in Seq(WireMessages) /\ wire'[q] = Append(wire[q], m)
  BY <1>1, <1>3, <1>4 DEF StreamTypes
<1>. HIDE DEF m
<1>11. fetch' \in [Op -> Pulls] /\ fetch'[q] = [fetch[q] EXCEPT !.at = "waiting"]
  BY <1>1, <1>2 DEF StreamTypes, Pulls
<1>12. wire' \in [Op -> Seq(WireMessages)]
  <2>1. wire' = [wire EXCEPT ![q] = Append(wire[q], m)]
    BY <1>3, <1>4 DEF m
  <2>. QED
    BY <1>1, <1>9, <2>1, AppendAt DEF StreamTypes
<1>13. StreamTypes'
  BY <1>1, <1>2, <1>4, <1>5, <1>6, <1>11, <1>12 DEF StreamTypes
<1>14. ASSUME NEW o \in Op, o # q PROVE Streams(o)'
  <2>2. Streams(o)
    BY DEF StreamInv
  <2>3. fetch'[o] = fetch[o] /\ wire'[o] = wire[o]
    BY <1>1, <1>2, <1>3, <1>14 DEF StreamTypes
  <2>. QED
    BY <1>1, <1>2, <1>5, <1>7, <1>13, <2>2, <2>3, Untouched
<1>15. Streams(q)'
  <2>. DEFINE n == Len(wire[q]) + 1
  <2>a. /\ DOMAIN wire'[q] = DOMAIN wire[q] \cup {n} /\ n \notin DOMAIN wire[q]
        /\ \A i \in DOMAIN wire[q] : wire'[q][i] = wire[q][i]
        /\ wire'[q][n] = m
    BY <1>9, <1>10, AppendAt
  <2>. HIDE DEF n
  <2>b. /\ fetch'[q].at = "waiting" /\ fetch'[q].again = fetch[q].again
        /\ fetch'[q].todo = fetch[q].todo
    BY <1>1, <1>11, StreamTypesAt DEF Pulls
  <2>c. \A i \in DOMAIN wire[q] : ~Handed(wire[q][i])
    BY <1>1, <1>2 DEF Streams, Wired
  <2>d. /\ q \in InStore' => m.what = "events" /\ m.cursor = next[q]
                             /\ m.events = After(q, fetch[q].after)
        /\ q \notin InStore' => m.what = "refusal"
    BY DEF m, Refusal
  <2>2. Stored(q)' /\ Base(q)' >= Base(q)
    BY <1>1, <1>5, <1>7, <1>13, StoreKeeps DEF Streams
  <2>e. q \in InStore' => Base(q)' = Base(q)
    BY <1>4, <1>7, <1>5 DEF Stayed, Dropped, Base
  <2>3. Requested(q)'
    BY <1>1, <1>2, <1>5, <2>a, <2>b, <2>d DEF Streams, Requested
  <2>4. Wired(q)'
    <3>1. Handed(m) /\ m.what # "answer"
      BY <2>d DEF Handed
    <3>. QED
      BY <1>1, <1>2, <2>a, <2>b, <2>c, <3>1 DEF Streams, Wired
  <2>. USE <1>1, StreamTypesAt, StreamTypesNext, <1>13
  <2>5. InOrder(q)'
    <3>1. /\ Rising(told'.heard[q]) /\ UpTo(told'.heard[q], told'.reported[q])
          /\ Rising(fetch'[q].todo) /\ UpTo(fetch'[q].todo, told'.reported[q])
          /\ Precedes(told'.heard[q], fetch'[q].todo)
      BY <1>5, <2>b DEF Streams, InOrder
    <3>2. q \in owned' => /\ UpTo(told'.heard[q], cursor'[q] + Base(q)')
                          /\ UpTo(fetch'[q].todo, cursor'[q] + Base(q)')
      <4>1. cursor[q] + Base(q) \in Int /\ cursor[q] + Base(q)' \in Int
            /\ cursor[q] + Base(q) <= cursor[q] + Base(q)'
        BY <2>2
      <4>. QED
        BY <1>2, <1>5, <2>b, <4>1, LaterBase DEF Streams, InOrder
    <3>3. ASSUME q \in InStore'
          PROVE  /\ Rising(m.events) /\ UpTo(m.events, told'.reported[q])
                 /\ Precedes(told'.heard[q], m.events)
                 /\ UpTo(told'.heard[q], m.cursor + Base(q)')
                 /\ UpTo(m.events, m.cursor + Base(q)')
      <4>1. /\ m.events \in Seq(Nat) /\ Rising(m.events) /\ UpTo(m.events, told.reported[q])
            /\ \A i \in DOMAIN m.events : m.events[i] > fetch[q].after + Base(q)
        BY <1>8, <2>d, <3>3, AfterEvents DEF Streams
      <4>2. m.cursor + Base(q)' = told.reported[q]
        BY <2>d, <2>e, <3>3 DEF Base
      <4>3. UpTo(told.heard[q], fetch[q].after + Base(q))
        BY <1>2 DEF Streams, InOrder
      <4>4. Precedes(told.heard[q], m.events)
        <5>1. ASSUME NEW i \in DOMAIN told.heard[q], NEW j \in DOMAIN m.events
              PROVE  told.heard[q][i] < m.events[j]
          <6>1. told.heard[q][i] \in Nat /\ m.events[j] \in Nat
            <7>1. told.heard[q] \in Seq(Nat) /\ m.events \in Seq(Nat)
              BY <4>1
            <7>2. \A events \in Seq(Nat) : \A k \in DOMAIN events : events[k] \in Nat
              OBVIOUS
            <7>. QED
              BY <7>1, <7>2, Zenon
          <6>2. told.heard[q][i] <= fetch[q].after + Base(q)
            BY <4>3 DEF UpTo
          <6>3. m.events[j] > fetch[q].after + Base(q)
            BY <4>1
          <6>4. fetch[q].after + Base(q) \in Int
            OBVIOUS
          <6>. QED
            BY <6>1, <6>2, <6>3, <6>4
        <5>. QED
          BY <5>1 DEF Precedes
      <4>. QED
        BY <1>5, <4>1, <4>2, <4>4 DEF Streams, InOrder
    <3>4. \A i \in DOMAIN wire'[q] : wire'[q][i].what = "events" => i = n /\ q \in InStore'
      BY <2>a, <2>c, <2>d DEF Handed
    <3>. QED
      BY <2>a, <2>b, <3>1, <3>2, <3>3, <3>4 DEF InOrder
  <2>6. Covers(q)'
    <3>. SUFFICES ASSUME q \notin told'.forgotten, ~told'.deaf, ~disposed' PROVE Covers(q)'
      BY DEF Covers
    <3>1. q \notin told.forgotten /\ ~told.deaf /\ ~disposed /\ Got(q)' = Got(q)
      BY <1>2, <1>5 DEF Got
    <3>2. 1..cursor'[q] \subseteq Got(q)' \cup ToSet(fetch'[q].todo)
      BY <1>2, <2>b, <3>1 DEF Streams, Covers
    <3>3. 1..fetch[q].after \subseteq Got(q)
      BY <1>2, <3>1 DEF Streams, Covers
    <3>4. q \in InStore' => /\ 1..m.cursor \subseteq Got(q)' \cup ToSet(m.events)
                            /\ told.due[q] <= m.cursor
      <4>. HAVE q \in InStore'
      <4>1. 1..next[q] \subseteq (1..fetch[q].after) \cup told.shifted[q] \cup ToSet(m.events)
        BY <1>8, <2>d, <3>1, AfterEvents DEF Streams
      <4>2. told.shifted[q] \subseteq Got(q)
        BY DEF Got
      <4>3. told.due[q] <= next[q]
        BY <3>1 DEF Streams, Stored, Requested
      <4>. QED
        BY <2>d, <3>1, <3>3, <4>1, <4>2, <4>3
    <3>5. q \notin InStore' => told.due[q] = 0 /\ request[q] # "running"
      <4>. HAVE q \notin InStore'
      <4>1. q \notin InStore
        BY <1>5, <3>1
      <4>2. told.reported[q] = 0
        BY <3>1, <4>1 DEF Streams, Stored
      <4>. QED
        BY <1>2, <4>2 DEF Streams, Requested
    <3>6. \A i \in DOMAIN wire'[q] :
            /\ wire'[q][i].what = "events" => i = n /\ q \in InStore'
            /\ wire'[q][i].what = "refusal" => i = n /\ q \notin InStore'
      BY <2>a, <2>c, <2>d DEF Handed
    <3>7. request[q] = "done" => 1..told.due[q] \subseteq Got(q)
      BY <3>1 DEF Streams, Covers
    <3>. QED
      BY <1>2, <1>5, <2>a, <2>b, <3>1, <3>2, <3>4, <3>5, <3>6, <3>7 DEF Covers
  <2>. QED
    BY <2>2, <2>3, <2>4, <2>5, <2>6 DEF Streams
<1>. QED
  BY <1>1, <1>2, <1>5, <1>13, <1>14, <1>15 DEF StreamInv

LEMMA BoundedEvents ==
  ASSUME NEW old \in Seq(Nat), NEW e \in Nat, Len(old) <= PerOp,
         NEW new, new = Bounded(Append(old, e))
  PROVE  /\ new \in Seq(Nat)
         /\ Len(new) = IF Len(old) = PerOp THEN PerOp ELSE Len(old) + 1
         /\ \A i \in 1..Len(new) :
              new[i] = IF i = Len(new) THEN e ELSE old[Len(old) + 1 - Len(new) + i]
<1>. DEFINE all == Append(old, e)
<1>1. PerOp \in Nat /\ PerOp >= 1
  BY ProgressAssumption
<1>2. all \in Seq(Nat) /\ Len(all) = Len(old) + 1 /\ all[Len(old) + 1] = e
      /\ \A i \in 1..Len(old) : all[i] = old[i]
  OBVIOUS
<1>3. new = IF Len(old) + 1 > PerOp THEN Tail(all) ELSE all
  BY <1>2 DEF Bounded
<1>. HIDE DEF all
<1>4. CASE Len(old) = PerOp
  <2>1. new = Tail(all) /\ Len(new) = PerOp /\ new \in Seq(Nat)
    BY <1>1, <1>2, <1>3, <1>4
  <2>2. \A i \in 1..PerOp : new[i] = all[i + 1]
    BY <1>1, <1>2, <1>4, <2>1
  <2>3. ASSUME NEW i \in 1..PerOp PROVE new[i] = IF i = PerOp THEN e ELSE old[i + 1]
    <3>1. CASE i = PerOp
      BY <1>2, <1>4, <2>2, <3>1
    <3>2. CASE i # PerOp
      <4>1. i + 1 \in 1..Len(old)
        BY <1>1, <1>4, <3>2
      <4>. QED
        BY <1>2, <2>2, <3>2, <4>1
    <3>. QED
      BY <3>1, <3>2
  <2>a. Len(new) = PerOp /\ \A a, b \in Nat : a + 1 - a + b = b + 1
    BY <2>1
  <2>4. \A i \in 1..PerOp : Len(old) + 1 - Len(new) + i = i + 1
    BY <1>1, <1>4, <2>a
  <2>. QED
    BY <1>4, <2>1, <2>3, <2>4
<1>5. CASE Len(old) # PerOp
  <2>1. new = all
    BY <1>1, <1>3, <1>5
  <2>a. Len(old) \in Nat /\ \A a, b \in Nat : a + 1 - (a + 1) + b = b
    OBVIOUS
  <2>b. Len(new) = Len(old) + 1
    BY <1>2, <2>1
  <2>2. \A i \in 1..(Len(old) + 1) :
          /\ i # Len(old) + 1 => i \in 1..Len(old)
          /\ Len(old) + 1 - Len(new) + i = i
    BY <2>a, <2>b
  <2>. QED
    BY <1>2, <1>5, <2>1, <2>2, <2>b
<1>. QED
  BY <1>4, <1>5

LEMMA ReportsStep == ASSUME StreamInv, NEW q \in Op, Reports(q) PROVE StreamInv'
<1>1. StreamTypes /\ Streams(q)
  BY DEF StreamInv
<1>. USE <1>1, StreamTypesAt
<1>. DEFINE event == told.reported[q] + 1
<1>2. request[q] # "none"
      /\ UNCHANGED <<closed, request, owned, grace, fetch, cursor, subscribed, disposed>>
      /\ wire' = [wire EXCEPT ![q] = Append(@, Signal)]
  BY DEF Reports
<1>3. PICK entries \in Pruned :
        LET old == IF q \in ToSet(entries) THEN kept[q] ELSE <<>> IN
        /\ order' = Moved(entries, q)
        /\ kept' = [p \in Op |-> IF p = q THEN Bounded(Append(old, event))
                                 ELSE IF p \in ToSet(order') THEN kept[p] ELSE <<>>]
        /\ next' = [p \in Op |-> IF p = q THEN (IF q \in ToSet(entries) THEN next[q] ELSE 0) + 1
                                 ELSE IF p \in ToSet(order') THEN next[p] ELSE 0]
        /\ told' = [told EXCEPT
             !.reported[q] = event,
             !.shifted[q] = IF Len(old) = PerOp THEN @ \cup {old[1]} ELSE @,
             !.forgotten = @ \cup ((Forgets(order') \cup Forgets(entries)) \cap Op),
             !.due[q] = IF request[q] = "running" THEN event ELSE @]
  BY DEF Reports
<1>. DEFINE old == IF q \in ToSet(entries) THEN kept[q] ELSE <<>>
            was == IF q \in ToSet(entries) THEN next[q] ELSE 0
            new == Bounded(Append(old, event))
<1>4. /\ order' \in Seq(Op \cup Foreign) /\ ToSet(entries) \subseteq InStore
      /\ InStore' \subseteq ToSet(entries) \cup {q} /\ q \in InStore'
  <2>1. entries \in Seq(Op \cup Foreign) /\ ToSet(entries) \subseteq InStore
    BY PrunedRange DEF StreamTypes
  <2>. QED
    BY <1>3, <2>1, MovedRange DEF InStore
<1>5. Stored(q)
  BY DEF Streams
<1>6. old \in Seq(Nat) /\ event \in Nat /\ Len(old) <= PerOp
  <2>1. PerOp \in Nat
    BY ProgressAssumption
  <2>2. CASE q \in ToSet(entries)
    BY <1>4, <1>5, <2>1, <2>2 DEF Stored
  <2>3. CASE q \notin ToSet(entries)
    BY <2>1, <2>3
  <2>. QED
    BY <2>2, <2>3
<1>7. /\ new \in Seq(Nat)
      /\ Len(new) = IF Len(old) = PerOp THEN PerOp ELSE Len(old) + 1
      /\ \A i \in 1..Len(new) :
           new[i] = IF i = Len(new) THEN event ELSE old[Len(old) + 1 - Len(new) + i]
  <2>1. new = Bounded(Append(old, event))
    OBVIOUS
  <2>. HIDE DEF old, new, event
  <2>. QED
    BY <1>6, <2>1, BoundedEvents
<1>8. /\ kept'[q] = new /\ next'[q] = was + 1 /\ was \in Nat
      /\ kept' \in [Op -> Seq(Nat)] /\ next' \in [Op -> Nat]
  <2>1. kept' = [p \in Op |-> IF p = q THEN new
                              ELSE IF p \in ToSet(order') THEN kept[p] ELSE <<>>]
        /\ next' = [p \in Op |-> IF p = q THEN was + 1
                                 ELSE IF p \in ToSet(order') THEN next[p] ELSE 0]
    BY <1>3
  <2>2. was \in Nat
    OBVIOUS
  <2>. HIDE DEF new, was
  <2>. QED
    BY <1>7, <2>1, <2>2 DEF StreamTypes
<1>9. /\ told' \in Histories /\ told'.heard = told.heard /\ told'.deaf = told.deaf
      /\ told'.reported = [told.reported EXCEPT ![q] = event]
      /\ told'.due = [told.due EXCEPT ![q] = IF request[q] = "running" THEN event ELSE @]
      /\ told'.shifted = [told.shifted EXCEPT ![q] =
                            IF Len(old) = PerOp THEN @ \cup {old[1]} ELSE @]
      /\ told'.forgotten =
           told.forgotten \cup (((InStore \ InStore') \cup (InStore \ ToSet(entries))) \cap Op)
  <2>1. Len(old) = PerOp => old[1] \in Nat
    BY <1>6, ProgressAssumption
  <2>2. told' = [told EXCEPT
             !.reported[q] = event,
             !.shifted[q] = IF Len(old) = PerOp THEN @ \cup {old[1]} ELSE @,
             !.forgotten = @ \cup ((Forgets(order') \cup Forgets(entries)) \cap Op),
             !.due[q] = IF request[q] = "running" THEN event ELSE @]
    BY <1>3
  <2>. HIDE DEF old
  <2>3. told \in Histories
    BY DEF StreamTypes
  <2>4. told.reported \in [Op -> Nat] /\ told.shifted \in [Op -> SUBSET Nat] /\ told.due \in [Op -> Nat]
        /\ told.forgotten \in SUBSET Op
    BY <2>3 DEF Histories
  <2>5. /\ told'.heard = told.heard /\ told'.deaf = told.deaf
        /\ told'.reported = [told.reported EXCEPT ![q] = event]
        /\ told'.due = [told.due EXCEPT ![q] = IF request[q] = "running" THEN event ELSE @]
        /\ told'.shifted = [told.shifted EXCEPT ![q] =
                              IF Len(old) = PerOp THEN @ \cup {old[1]} ELSE @]
        /\ told'.forgotten =
             told.forgotten \cup (((InStore \ InStore') \cup (InStore \ ToSet(entries))) \cap Op)
    BY <2>2, <2>3 DEF Histories, Forgets, InStore
  <2>6. /\ told'.reported \in [Op -> Nat] /\ told'.shifted \in [Op -> SUBSET Nat]
        /\ told'.due \in [Op -> Nat] /\ told'.forgotten \in SUBSET Op
    BY <1>6, <2>1, <2>4, <2>5
  <2>7. told' = [reported |-> told'.reported, heard |-> told'.heard, shifted |-> told'.shifted,
                 forgotten |-> told'.forgotten, due |-> told'.due, deaf |-> told'.deaf]
    BY <2>2, <2>3 DEF Histories
  <2>. QED
    BY <2>3, <2>5, <2>6, <2>7 DEF Histories
<1>10. /\ wire'[q] = Append(wire[q], Signal) /\ Signal \in WireMessages
       /\ wire' \in [Op -> Seq(WireMessages)]
  <2>1. Signal \in WireMessages
    BY DEF Signal, WireMessages
  <2>. QED
    BY <1>2, <2>1, AppendAt DEF StreamTypes
<1>11. StreamTypes'
  BY <1>2, <1>4, <1>8, <1>9, <1>10 DEF StreamTypes
<1>12. /\ told'.reported[q] = event /\ told.shifted[q] \subseteq told'.shifted[q]
       /\ told'.due[q] = (IF request[q] = "running" THEN event ELSE told.due[q])
       /\ told'.heard[q] = told.heard[q]
       /\ Len(old) = PerOp => old[1] \in told'.shifted[q]
  BY <1>9 DEF StreamTypes, Histories
<1>13. ASSUME NEW o \in Op, o # q PROVE Streams(o)'
  <2>1. Streams(o)
    BY DEF StreamInv
  <2>2. wire'[o] = wire[o] /\ told'.reported[o] = told.reported[o]
        /\ told'.shifted[o] = told.shifted[o] /\ told'.due[o] = told.due[o]
    BY <1>2, <1>9, <1>13 DEF StreamTypes, Histories
  <2>3. Stayed(o) \/ Dropped(o)
    <3>1. o \in InStore' => o \in InStore /\ kept'[o] = kept[o] /\ next'[o] = next[o]
      BY <1>3, <1>4, <1>13 DEF InStore
    <3>2. o \notin InStore' => kept'[o] = <<>> /\ next'[o] = 0
      BY <1>3, <1>13 DEF InStore
    <3>. QED
      BY <1>9, <3>1, <3>2 DEF Stayed, Dropped
  <2>. QED
    BY <1>2, <1>9, <1>11, <2>1, <2>2, <2>3, Untouched
<1>. USE StreamTypesNext, <1>11
<1>14. was <= next[q] /\ (q \notin told'.forgotten => q \notin told.forgotten /\ was = next[q])
  <2>1. q \in InStore /\ q \notin ToSet(entries) => q \in told'.forgotten
    BY <1>9
  <2>2. q \notin InStore => next[q] = 0
    BY <1>5 DEF Stored
  <2>3. told.forgotten \subseteq told'.forgotten
    BY <1>9
  <2>. QED
    BY <1>4, <2>1, <2>2, <2>3
<1>15. q \notin told'.forgotten =>
         \/ q \in ToSet(entries) /\ old = kept[q]
         \/ told.reported[q] = 0 /\ old = <<>>
  BY <1>5, <1>9, <1>14 DEF Stored
<1>16. /\ Len(old) <= was
       /\ \A i \in 1..Len(old) : old[i] = told.reported[q] - Len(old) + i
  BY <1>4, <1>5 DEF Stored
<1>. HIDE DEF old, was, new
<1>17. Base(q)' >= Base(q)
  BY <1>8, <1>12, <1>14 DEF Base
<1>18. Stored(q)'
  <2>1. PerOp \in Nat /\ PerOp >= 1
    BY ProgressAssumption
  <2>2. Len(new) >= 1 /\ Len(new) <= PerOp /\ Len(new) <= next'[q] /\ Len(new) \in Nat
    BY <1>6, <1>7, <1>8, <1>16, <2>1
  <2>3. \A i \in 1..Len(new) : new[i] = event - Len(new) + i
    <3>. TAKE i \in 1..Len(new)
    <3>1. CASE i = Len(new)
      BY <1>6, <1>7, <2>2, <3>1
    <3>2. CASE i # Len(new)
      <4>1. Len(old) + 1 - Len(new) + i \in 1..Len(old)
        BY <1>6, <1>7, <2>1, <2>2, <3>2
      <4>2. new[i] = told.reported[q] - Len(old) + (Len(old) + 1 - Len(new) + i)
        BY <1>7, <1>16, <3>2, <4>1
      <4>. QED
        BY <1>6, <2>2, <4>2
    <3>. QED
      BY <3>1, <3>2
  <2>4. ASSUME q \notin told'.forgotten
        PROVE  next'[q] = event /\ 1..(event - Len(new)) \subseteq told'.shifted[q]
    <3>1. next[q] = told.reported[q] /\ q \notin told.forgotten /\ was = next[q]
          /\ 1..(told.reported[q] - Len(kept[q])) \subseteq told.shifted[q]
      BY <1>5, <1>14, <2>4 DEF Stored
    <3>2. 1..(told.reported[q] - Len(old)) \subseteq told.shifted[q]
      <4>1. CASE told.reported[q] = 0 /\ old = <<>>
        BY <4>1
      <4>. QED
        BY <1>15, <2>4, <3>1, <4>1
    <3>3. CASE Len(old) # PerOp
      <4>1. event - Len(new) = told.reported[q] - Len(old)
        BY <1>6, <1>7, <3>3
      <4>. QED
        BY <1>8, <1>12, <3>1, <3>2, <4>1
    <3>4. CASE Len(old) = PerOp
      <4>1. event - Len(new) = told.reported[q] - Len(old) + 1
        BY <1>6, <1>7, <3>4, <2>1
      <4>2. old[1] = told.reported[q] - Len(old) + 1 /\ old[1] \in told'.shifted[q]
        BY <1>12, <1>16, <3>4, <2>1
      <4>3. next'[q] = event
        BY <1>8, <3>1
      <4>4. ASSUME NEW k \in 1..(told.reported[q] - Len(old) + 1) PROVE k \in told'.shifted[q]
        <5>1. k \in 1..(told.reported[q] - Len(old)) \/ k = told.reported[q] - Len(old) + 1
          BY <1>6
        <5>. QED
          BY <1>12, <3>2, <4>2, <5>1
      <4>. QED
        BY <4>1, <4>3, <4>4
    <3>. QED
      BY <3>3, <3>4
  <2>5. next'[q] <= event
    BY <1>5, <1>8, <1>14 DEF Stored
  <2>. QED
    BY <1>4, <1>8, <1>12, <2>2, <2>3, <2>4, <2>5 DEF Stored
<1>19. Streams(q)'
  <2>. DEFINE n == Len(wire[q]) + 1
  <2>a. /\ DOMAIN wire'[q] = DOMAIN wire[q] \cup {n} /\ n \notin DOMAIN wire[q]
        /\ \A i \in DOMAIN wire[q] : wire'[q][i] = wire[q][i]
        /\ wire'[q][n] = Signal
    BY <1>10, AppendAt
  <2>. HIDE DEF n
  <2>b. Signal.what = "signal"
    BY DEF Signal
  <2>3. Requested(q)'
    <3>1. told'.due[q] <= event /\ event > 0
      BY <1>12 DEF Streams, Requested
    <3>. QED
      BY <1>2, <1>12, <3>1 DEF Streams, Requested
  <2>4. Wired(q)'
    BY <1>2, <2>a, <2>b DEF Streams, Wired, Handed
  <2>5. InOrder(q)'
    <3>1. \A s \in Seq(Nat) : UpTo(s, told.reported[q]) => UpTo(s, told'.reported[q])
      BY <1>12, LaterBase
    <3>2. \A s \in Seq(Nat), c \in Nat : UpTo(s, c + Base(q)) => UpTo(s, c + Base(q)')
      <4>. TAKE s \in Seq(Nat), c \in Nat
      <4>1. c + Base(q) \in Int /\ c + Base(q)' \in Int /\ c + Base(q) <= c + Base(q)'
        BY <1>17
      <4>. QED
        BY <4>1, LaterBase
    <3>3. \A i \in DOMAIN wire[q] : wire[q][i].cursor \in Nat /\ wire[q][i].events \in Seq(Nat)
      BY MessageTypes
    <3>4. \A i \in DOMAIN wire'[q] : wire'[q][i].what = "events" =>
            i \in DOMAIN wire[q] /\ wire'[q][i] = wire[q][i]
      BY <2>a, <2>b
    <3>5. \A i \in DOMAIN wire[q] : wire[q][i].what = "events" =>
            /\ Rising(wire[q][i].events) /\ UpTo(wire[q][i].events, told'.reported[q])
            /\ Precedes(told.heard[q], wire[q][i].events)
            /\ UpTo(told.heard[q], wire[q][i].cursor + Base(q)')
            /\ UpTo(wire[q][i].events, wire[q][i].cursor + Base(q)')
      BY <3>1, <3>2, <3>3 DEF Streams, InOrder
    <3>. QED
      BY <1>2, <1>12, <3>1, <3>2, <3>4, <3>5 DEF Streams, InOrder
  <2>6. Covers(q)'
    <3>. SUFFICES ASSUME q \notin told'.forgotten, ~told'.deaf, ~disposed' PROVE Covers(q)'
      BY DEF Covers
    <3>1. q \notin told.forgotten /\ ~told.deaf /\ ~disposed /\ Got(q) \subseteq Got(q)'
      BY <1>2, <1>9, <1>12, <1>14 DEF Got
    <3>2. request[q] # "running" => told'.due[q] = told.due[q]
      BY <1>12
    <3>3. \A i \in DOMAIN wire'[q] : wire'[q][i].what \in {"events", "refusal"} =>
            i \in DOMAIN wire[q] /\ wire'[q][i] = wire[q][i]
      BY <2>a, <2>b
    <3>. QED
      BY <1>2, <3>1, <3>2, <3>3 DEF Streams, Covers
  <2>. QED
    BY <1>18, <2>3, <2>4, <2>5, <2>6 DEF Streams
<1>. QED
  BY <1>2, <1>9, <1>11, <1>13, <1>19 DEF StreamInv

(* The wire of o after the answer of its fetch has been received. *)
Consumed(o) ==
  /\ \A i \in DOMAIN wire'[o] : ~Handed(wire'[o][i])
  /\ \A i, j \in DOMAIN wire'[o] :
       wire'[o][i].what = "answer" /\ wire'[o][j].what = "answer" => i = j
  /\ (\E i \in DOMAIN wire'[o] : wire'[o][i].what = "answer") <=> request[o] = "answered"
  /\ (\E i \in DOMAIN wire'[o] : wire'[o][i].what = "signal") =>
       \E i \in DOMAIN wire[o] : wire[o][i].what = "signal"

(* A step of the frame that tells a listener at most of events of o. *)
TellsOf(o) ==
  /\ StoreRests /\ UNCHANGED <<owned, subscribed, disposed>>
  /\ told'.reported = told.reported /\ told'.shifted = told.shifted /\ told'.due = told.due
  /\ told'.forgotten = told.forgotten /\ told'.deaf = told.deaf

LEMMA TellsStored ==
  ASSUME NEW o \in Op, Stored(o), TellsOf(o) PROVE Stored(o)' /\ Base(o)' = Base(o)
BY DEF TellsOf, StoreRests, Stored, InStore, Base

(* The end of a pull, when all that it was handed has been heard. *)
LEMMA EndsKeeps ==
  ASSUME StreamTypes, StreamTypes', NEW q \in Op, Streams(q), TellsOf(q), Consumed(q),
         fetch[q].at # "none", NEW again \in BOOLEAN, NEW after, Ends(q, again, after),
         again => after = cursor'[q],
         Rising(told'.heard[q]), UpTo(told'.heard[q], told.reported[q]),
         q \in owned => UpTo(told'.heard[q], cursor'[q] + Base(q)),
         q \notin told.forgotten /\ ~told.deaf /\ ~disposed =>
           /\ Got(q) \subseteq Got(q)' /\ 1..cursor'[q] \subseteq Got(q)'
           /\ request[q] = "flushing" /\ ~again => 1..told.due[q] \subseteq Got(q)'
  PROVE  Streams(q)'
<1>. USE StreamTypesAt, StreamTypesNext
<1>1. Stored(q)' /\ Base(q)' = Base(q)
  BY TellsStored DEF Streams
<1>2. CASE again /\ q \in owned
  <2>1. /\ fetch'[q] = [at |-> "asked", again |-> FALSE, after |-> cursor'[q], todo |-> <<>>]
        /\ request' = request /\ grace' = grace
    BY <1>2 DEF Ends, AskedFrom, StreamTypes
  <2>2. fetch'[q].at = "asked" /\ fetch'[q].todo = <<>> /\ fetch'[q].after = cursor'[q]
        /\ fetch'[q].again = FALSE
    BY <2>1
  <2>3. Requested(q)'
    BY <2>1, <2>2 DEF TellsOf, Consumed, Streams, Requested
  <2>4. Wired(q)'
    BY <2>1, <2>2 DEF Consumed, Wired
  <2>5. InOrder(q)'
    BY <1>1, <1>2, <2>2 DEF TellsOf, Consumed, InOrder, Handed, Rising, UpTo, Precedes
  <2>6. Covers(q)'
    BY <2>1, <2>2 DEF TellsOf, Consumed, Covers, Handed, Streams
  <2>. QED
    BY <1>1, <2>3, <2>4, <2>5, <2>6 DEF Streams
<1>3. CASE ~(again /\ q \in owned)
  <2>1. /\ fetch'[q].at = "none" /\ fetch'[q].todo = <<>>
        /\ IF request[q] = "flushing" THEN request'[q] = "done" /\ grace' = grace \cup {q}
                                      ELSE request' = request /\ grace' = grace
    BY <1>3 DEF Ends, Released, NoFetch, StreamTypes
  <2>3. Requested(q)'
    BY <2>1 DEF TellsOf, Consumed, Streams, Requested
  <2>4. Wired(q)'
    BY <2>1 DEF Consumed, Wired
  <2>5. InOrder(q)'
    BY <1>1, <2>1 DEF TellsOf, Consumed, InOrder, Handed, Rising, UpTo, Precedes
  <2>6. Covers(q)'
    <3>. SUFFICES ASSUME q \notin told'.forgotten, ~told'.deaf, ~disposed' PROVE Covers(q)'
      BY DEF Covers
    <3>1. q \notin told.forgotten /\ ~told.deaf /\ ~disposed
      BY DEF TellsOf
    <3>2. request[q] = "flushing" => ~again
      BY <1>3, <3>1 DEF Streams, Requested
    <3>3. request[q] = "done" => 1..told.due[q] \subseteq Got(q)
      BY <3>1 DEF Streams, Covers
    <3>4. \A i \in DOMAIN wire'[q] : wire'[q][i].what \notin {"events", "refusal"}
      BY DEF Consumed, Handed
    <3>5. request'[q] # "flushing"
      BY <2>1
    <3>6. request'[q] = "done" => 1..told'.due[q] \subseteq Got(q)'
      BY <2>1, <3>1, <3>2, <3>3 DEF TellsOf
    <3>. QED
      BY <2>1, <3>1, <3>4, <3>5, <3>6 DEF Covers
  <2>. QED
    BY <1>1, <2>3, <2>4, <2>5, <2>6 DEF Streams
<1>. QED
  BY <1>2, <1>3

(* The first one of the events is heard, the others are to be delivered. *)
LEMMA DeliversKeeps ==
  ASSUME StreamTypes, StreamTypes', NEW q \in Op, Streams(q), TellsOf(q), Consumed(q),
         fetch[q].at # "none", NEW again \in BOOLEAN, NEW events \in Seq(Nat), events # <<>>,
         Delivers(q, events, again, cursor'[q]),
         Rising(events), UpTo(events, told.reported[q]), Precedes(told.heard[q], events),
         q \in owned => /\ UpTo(told.heard[q], cursor'[q] + Base(q))
                        /\ UpTo(events, cursor'[q] + Base(q)),
         q \notin told.forgotten /\ ~told.deaf /\ ~disposed =>
           /\ subscribed
           /\ 1..cursor'[q] \subseteq Got(q) \cup ToSet(events)
           /\ request[q] = "flushing" /\ ~again => told.due[q] <= cursor'[q]
  PROVE  Streams(q)'
<1>. USE StreamTypesAt, StreamTypesNext
<1>. DEFINE heard == told.heard[q]
            more == told'.heard[q]
            rest == Tail(events)
<1>1. Stored(q)' /\ Base(q)' = Base(q)
  BY TellsStored DEF Streams
<1>2. more = heard \o Hears(<<Head(events)>>)
  BY DEF Delivers, StreamTypes, Histories
<1>3. events[1] \in Nat /\ Head(events) = events[1] /\ 1 \in DOMAIN events
  OBVIOUS
<1>4. /\ rest \in Seq(Nat) /\ Rising(rest) /\ UpTo(rest, told.reported[q])
      /\ \A i \in DOMAIN rest : events[1] < rest[i] /\ i + 1 \in DOMAIN events /\ rest[i] = events[i + 1]
  <2>1. rest \in Seq(Nat) /\ \A i \in DOMAIN rest : i \in Nat /\ i >= 1 /\ i + 1 \in DOMAIN events
                                                    /\ rest[i] = events[i + 1]
    OBVIOUS
  <2>2. \A i, j \in DOMAIN rest : i < j => i + 1 < j + 1
    BY <2>1
  <2>3. \A i \in DOMAIN rest : 1 < i + 1
    BY <2>1
  <2>. HIDE DEF rest
  <2>4. Rising(rest)
    BY <2>1, <2>2 DEF Rising
  <2>5. UpTo(rest, told.reported[q])
    BY <2>1 DEF UpTo
  <2>6. \A i \in DOMAIN rest : events[1] < rest[i]
    BY <1>3, <2>1, <2>3 DEF Rising
  <2>. QED
    BY <2>1, <2>4, <2>5, <2>6
<1>. HIDE DEF rest
<1>5. /\ more \in Seq(Nat)
      /\ \A i \in DOMAIN more : (i \in DOMAIN heard /\ more[i] = heard[i])
                                \/ (i = Len(heard) + 1 /\ more[i] = events[1])
      /\ \A i \in DOMAIN heard : i \in DOMAIN more /\ more[i] = heard[i] /\ i < Len(heard) + 1
      /\ subscribed => Len(heard) + 1 \in DOMAIN more /\ more[Len(heard) + 1] = events[1]
  <2>1. heard \in Seq(Nat)
    OBVIOUS
  <2>2. CASE subscribed
    <3>1. more = heard \o <<events[1]>>
      BY <1>2, <1>3, <2>2 DEF Hears
    <3>2. heard \o <<events[1]>> = Append(heard, events[1])
      BY <1>3, <2>1
    <3>. HIDE DEF heard, more
    <3>3. DOMAIN heard = 1..Len(heard) /\ DOMAIN more = 1..(Len(heard) + 1)
      BY <1>3, <2>1, <3>1, <3>2
    <3>. QED
      BY <1>3, <2>1, <2>2, <3>1, <3>2, <3>3
  <2>3. CASE ~subscribed
    <3>1. more = heard
      BY <1>2, <2>1, <2>3 DEF Hears
    <3>. HIDE DEF heard, more
    <3>. QED
      BY <2>1, <2>3, <3>1
  <2>. QED
    BY <2>2, <2>3
<1>6. Rising(heard) /\ UpTo(heard, told.reported[q])
  BY DEF Streams, InOrder
<1>. HIDE DEF heard, more
<1>7. Rising(more) /\ UpTo(more, told.reported[q]) /\ Precedes(more, rest)
  <2>1. \A i \in DOMAIN heard : heard[i] < events[1]
    BY <1>3 DEF Precedes, heard
  <2>2. Rising(more)
    <3>. SUFFICES ASSUME NEW i \in DOMAIN more, NEW j \in DOMAIN more, i < j
                  PROVE  more[i] < more[j]
      BY DEF Rising
    <3>1. i \in Nat /\ j \in Nat
      BY <1>5
    <3>2. CASE i \in DOMAIN heard /\ j \in DOMAIN heard
      BY <1>5, <1>6, <3>2 DEF Rising
    <3>3. CASE i \in DOMAIN heard /\ j = Len(heard) + 1 /\ more[j] = events[1]
      BY <1>5, <2>1, <3>3
    <3>4. CASE i = Len(heard) + 1
      <4>1. j \in DOMAIN heard => j < i
        BY <1>5, <3>4
      <4>2. j = Len(heard) + 1 => j = i
        BY <3>4
      <4>3. j \in DOMAIN heard \/ j = Len(heard) + 1
        BY <1>5
      <4>. QED
        BY <3>1, <4>1, <4>2, <4>3
    <3>. QED
      BY <1>5, <3>2, <3>3, <3>4
  <2>3. UpTo(more, told.reported[q])
    BY <1>3, <1>5, <1>6 DEF UpTo
  <2>4. \A i \in DOMAIN heard, j \in DOMAIN rest : heard[i] < rest[j]
    BY <1>4 DEF Precedes, heard
  <2>5. Precedes(more, rest)
    BY <1>4, <1>5, <2>4 DEF Precedes
  <2>. QED
    BY <2>2, <2>3, <2>5
<1>8. q \in owned => UpTo(more, cursor'[q] + Base(q)) /\ UpTo(rest, cursor'[q] + Base(q))
  BY <1>3, <1>4, <1>5 DEF UpTo, heard
<1>9. q \notin told.forgotten /\ ~told.deaf /\ ~disposed =>
        /\ Got(q) \subseteq Got(q)' /\ ToSet(events) \subseteq Got(q)' \cup ToSet(rest)
  <2>. HAVE q \notin told.forgotten /\ ~told.deaf /\ ~disposed
  <2>1. Got(q)' = ToSet(more) \cup told.shifted[q] /\ Got(q) = ToSet(heard) \cup told.shifted[q]
    BY DEF Got, more, heard, TellsOf
  <2>2. ToSet(heard) \subseteq ToSet(more)
    BY <1>5 DEF ToSet
  <2>3. events[1] \in ToSet(more)
    BY <1>5 DEF ToSet
  <2>4. \A i \in DOMAIN events : i # 1 => events[i] \in ToSet(rest)
    <3>1. \A i \in DOMAIN events : i # 1 => i - 1 \in DOMAIN rest /\ rest[i - 1] = events[i]
      BY DEF rest
    <3>. QED
      BY <3>1 DEF ToSet
  <2>5. ToSet(events) \subseteq {events[1]} \cup ToSet(rest)
    BY <2>4 DEF ToSet
  <2>. QED
    BY <2>1, <2>2, <2>3, <2>5
<1>10. CASE rest = <<>>
  <2>1. Ends(q, again, cursor'[q])
    BY <1>10 DEF Delivers, rest
  <2>2. ToSet(rest) = {}
    BY <1>10 DEF ToSet
  <2>3. q \notin told.forgotten /\ ~told.deaf /\ ~disposed =>
           /\ Got(q) \subseteq Got(q)' /\ 1..cursor'[q] \subseteq Got(q)'
           /\ request[q] = "flushing" /\ ~again => 1..told.due[q] \subseteq Got(q)'
    <3>. HAVE q \notin told.forgotten /\ ~told.deaf /\ ~disposed
    <3>1. 1..cursor'[q] \subseteq Got(q)'
      BY <1>9, <2>2
    <3>2. told.due[q] <= cursor'[q] => 1..told.due[q] \subseteq 1..cursor'[q]
      OBVIOUS
    <3>. QED
      BY <1>9, <3>1, <3>2
  <2>. QED
    BY <1>7, <1>8, <2>1, <2>3, EndsKeeps DEF more
<1>11. CASE rest # <<>>
  <2>1. /\ fetch'[q].at = "delivering" /\ fetch'[q].again = again /\ fetch'[q].todo = rest
        /\ request' = request /\ grace' = grace
    <3>1. fetch' = [fetch EXCEPT ![q] = [at |-> "delivering", again |-> again,
                                         after |-> cursor'[q], todo |-> rest]]
          /\ request' = request /\ grace' = grace
      BY <1>11 DEF Delivers, rest
    <3>2. fetch'[q] = [at |-> "delivering", again |-> again, after |-> cursor'[q], todo |-> rest]
      BY <3>1 DEF StreamTypes
    <3>. QED
      BY <3>1, <3>2
  <2>2. Requested(q)'
    BY <2>1 DEF TellsOf, Consumed, Streams, Requested
  <2>3. Wired(q)'
    BY <1>11, <2>1 DEF Consumed, Wired
  <2>4. InOrder(q)'
    <3>1. \A i \in DOMAIN wire'[q] : wire'[q][i].what # "events"
      BY DEF Consumed, Handed
    <3>2. told'.reported[q] = told.reported[q] /\ owned' = owned
      BY DEF TellsOf
    <3>. QED
      BY <1>1, <1>4, <1>7, <1>8, <2>1, <3>1, <3>2 DEF InOrder, more
  <2>5. Covers(q)'
    <3>. SUFFICES ASSUME q \notin told'.forgotten, ~told'.deaf, ~disposed' PROVE Covers(q)'
      BY DEF Covers
    <3>1. q \notin told.forgotten /\ ~told.deaf /\ ~disposed /\ told'.due = told.due
      BY DEF TellsOf
    <3>2. 1..cursor'[q] \subseteq Got(q)' \cup ToSet(rest)
      BY <1>9, <3>1
    <3>3. \A i \in DOMAIN wire'[q] : wire'[q][i].what \notin {"events", "refusal"}
      BY DEF Consumed, Handed
    <3>4. request[q] = "done" => 1..told.due[q] \subseteq Got(q)'
      BY <1>9, <3>1 DEF Streams, Covers
    <3>. QED
      BY <2>1, <3>1, <3>2, <3>3, <3>4 DEF Covers
  <2>. QED
    BY <1>1, <2>2, <2>3, <2>4, <2>5 DEF Streams
<1>. QED
  BY <1>10, <1>11

(* A step of the frame about q leaves the other operations alone. *)
AloneFor(q) ==
  \A o \in Op \ {q} :
    /\ fetch'[o] = fetch[o] /\ request'[o] = request[o] /\ (o \in grace' <=> o \in grace)
    /\ wire'[o] = wire[o] /\ cursor'[o] = cursor[o] /\ told'.heard[o] = told.heard[o]

LEMMA EndsTypes ==
  ASSUME StreamTypes, NEW q \in Op, NEW again \in BOOLEAN, NEW after \in Nat, Ends(q, again, after)
  PROVE  /\ fetch' \in [Op -> Pulls] /\ grace' \in SUBSET Op
         /\ request' \in [Op -> {"none", "running", "answered", "flushing", "done"}]
         /\ \A o \in Op \ {q} : /\ fetch'[o] = fetch[o] /\ request'[o] = request[o]
                                /\ o \in grace' <=> o \in grace
<1>1. AskedFrom(q, after) \in Pulls /\ NoFetch \in Pulls
  BY DEF AskedFrom, NoFetch, Pulls
<1>2. CASE again /\ q \in owned
  BY <1>1, <1>2 DEF Ends, StreamTypes
<1>3. CASE ~(again /\ q \in owned)
  BY <1>1, <1>3 DEF Ends, Released, StreamTypes
<1>. QED
  BY <1>2, <1>3

LEMMA DeliversTypes ==
  ASSUME StreamTypes, NEW q \in Op, NEW events \in Seq(Nat), events # <<>>,
         NEW again \in BOOLEAN, NEW after \in Nat, Delivers(q, events, again, after)
  PROVE  /\ fetch' \in [Op -> Pulls] /\ grace' \in SUBSET Op
         /\ request' \in [Op -> {"none", "running", "answered", "flushing", "done"}]
         /\ told' \in Histories
         /\ told'.reported = told.reported /\ told'.shifted = told.shifted /\ told'.due = told.due
         /\ told'.forgotten = told.forgotten /\ told'.deaf = told.deaf
         /\ \A o \in Op \ {q} : /\ fetch'[o] = fetch[o] /\ request'[o] = request[o]
                                /\ o \in grace' <=> o \in grace
                                /\ told'.heard[o] = told.heard[o]
<1>1. /\ told' = [told EXCEPT !.heard[q] = @ \o Hears(<<Head(events)>>)]
      /\ told \in Histories /\ told.heard[q] \in Seq(Nat)
  BY StreamTypesAt DEF Delivers, StreamTypes
<1>2. Head(events) \in Nat /\ Tail(events) \in Seq(Nat)
  OBVIOUS
<1>3. Hears(<<Head(events)>>) \in Seq(Nat)
  BY <1>2 DEF Hears
<1>4. told.heard[q] \o Hears(<<Head(events)>>) \in Seq(Nat)
  BY <1>1, <1>3
<1>5. /\ told' \in Histories
      /\ told'.reported = told.reported /\ told'.shifted = told.shifted /\ told'.due = told.due
      /\ told'.forgotten = told.forgotten /\ told'.deaf = told.deaf
      /\ \A o \in Op \ {q} : told'.heard[o] = told.heard[o]
  BY <1>1, <1>4 DEF Histories
<1>6. CASE Tail(events) = <<>>
  BY <1>5, <1>6, EndsTypes DEF Delivers
<1>7. CASE Tail(events) # <<>>
  <2>1. [at |-> "delivering", again |-> again, after |-> after, todo |-> Tail(events)] \in Pulls
    BY <1>2 DEF Pulls
  <2>2. /\ fetch' = [fetch EXCEPT ![q] = [at |-> "delivering", again |-> again,
                                          after |-> after, todo |-> Tail(events)]]
        /\ request' = request /\ grace' = grace
    BY <1>7 DEF Delivers
  <2>. QED
    BY <1>5, <2>1, <2>2 DEF StreamTypes
<1>. QED
  BY <1>6, <1>7

LEMMA TellsInv ==
  ASSUME StreamInv, StreamTypes', NEW q \in Op, TellsOf(q), AloneFor(q), Streams(q)'
  PROVE  StreamInv'
<1>1. ASSUME NEW o \in Op \ {q} PROVE Streams(o)'
  <2>1. Stayed(o)
    BY StoreStays DEF TellsOf
  <2>. QED
    BY <2>1, Untouched DEF StreamInv, TellsOf, AloneFor
<1>. QED
  BY <1>1 DEF StreamInv, TellsOf

LEMMA NextTaskStep == ASSUME StreamInv, NEW q \in Op, NextTask(q) PROVE StreamInv'
<1>. USE StreamTypesAt
<1>1. StreamTypes /\ Streams(q)
  BY DEF StreamInv
<1>2. /\ fetch[q].at = "delivering" /\ fetch[q].todo # <<>> /\ fetch[q].todo \in Seq(Nat)
      /\ cursor'[q] = cursor[q] /\ wire' = wire /\ cursor' = cursor
      /\ UNCHANGED <<order, kept, next, owned, subscribed, disposed>>
  BY <1>1 DEF NextTask, Streams, Wired
<1>3. Consumed(q)
  BY <1>1, <1>2 DEF Consumed, Streams, Wired
<1>4. CASE disposed
  <2>1. Ends(q, FALSE, 0) /\ told' = told
    BY <1>4 DEF NextTask
  <2>2. StreamTypes' /\ AloneFor(q) /\ TellsOf(q)
    BY <1>1, <1>2, <2>1, EndsTypes DEF StreamTypes, AloneFor, TellsOf, StoreRests
  <2>3. /\ Rising(told'.heard[q]) /\ UpTo(told'.heard[q], told.reported[q])
        /\ q \in owned => UpTo(told'.heard[q], cursor'[q] + Base(q))
    BY <1>1, <1>2, <2>1 DEF Streams, InOrder
  <2>4. Streams(q)'
    BY <1>1, <1>2, <1>3, <1>4, <2>1, <2>2, <2>3, EndsKeeps
  <2>. QED
    BY <2>2, <2>4, TellsInv
<1>5. CASE ~disposed
  <2>. DEFINE events == fetch[q].todo
              again == fetch[q].again
  <2>1. Delivers(q, events, again, cursor[q])
    BY <1>5 DEF NextTask
  <2>2. again \in BOOLEAN /\ cursor[q] \in Nat /\ events \in Seq(Nat) /\ events # <<>>
    BY <1>1, <1>2
  <2>3. StreamTypes' /\ AloneFor(q) /\ TellsOf(q)
    BY <1>1, <1>2, <2>1, <2>2, DeliversTypes DEF StreamTypes, AloneFor, TellsOf, StoreRests
  <2>4. /\ Rising(events) /\ UpTo(events, told.reported[q]) /\ Precedes(told.heard[q], events)
        /\ q \in owned => /\ UpTo(told.heard[q], cursor'[q] + Base(q))
                          /\ UpTo(events, cursor'[q] + Base(q))
    BY <1>1, <1>2 DEF Streams, InOrder
  <2>5. q \notin told.forgotten /\ ~told.deaf /\ ~disposed =>
           /\ subscribed
           /\ 1..cursor'[q] \subseteq Got(q) \cup ToSet(events)
           /\ request[q] = "flushing" /\ ~again => told.due[q] <= cursor'[q]
    BY <1>1, <1>2 DEF StreamInv, Streams, Covers
  <2>. HIDE DEF events, again
  <2>6. Delivers(q, events, again, cursor'[q])
    BY <1>2, <2>1
  <2>7. Streams(q)'
    BY <1>1, <1>2, <1>3, <2>2, <2>3, <2>4, <2>5, <2>6, DeliversKeeps
  <2>. QED
    BY <2>3, <2>7, TellsInv
<1>. QED
  BY <1>4, <1>5

(* What a frame does when it has received the first message of q. *)
Received(q) ==
  /\ wire[q] # <<>> /\ wire' = [wire EXCEPT ![q] = Tail(@)]
  /\ UNCHANGED <<order, kept, next, closed, owned, subscribed, disposed>>

LEMMA ReceivedAt ==
  ASSUME StreamTypes, NEW q \in Op, Streams(q), Received(q)
  PROVE  /\ wire' \in [Op -> Seq(WireMessages)] /\ \A o \in Op \ {q} : wire'[o] = wire[o]
         /\ 1 \in DOMAIN wire[q] /\ Head(wire[q]) = wire[q][1] /\ wire[q][1] \in WireMessages
         /\ \A i \in DOMAIN wire'[q] : i + 1 \in DOMAIN wire[q] /\ i + 1 # 1
                                       /\ wire'[q][i] = wire[q][i + 1]
         /\ \A i \in DOMAIN wire[q] : i # 1 => i - 1 \in DOMAIN wire'[q]
                                               /\ wire'[q][i - 1] = wire[q][i]
         /\ \A i, j \in DOMAIN wire'[q] : i + 1 = j + 1 => i = j
<1>1. wire'[q] = Tail(wire[q]) /\ wire[q] # <<>> /\ wire[q] \in Seq(WireMessages)
  BY DEF Received, StreamTypes
<1>2. wire' \in [Op -> Seq(WireMessages)] /\ \A o \in Op \ {q} : wire'[o] = wire[o]
  <2>1. Tail(wire[q]) \in Seq(WireMessages)
    BY <1>1
  <2>. QED
    BY <2>1 DEF Received, StreamTypes
<1>3. wire[q][1] \in WireMessages
  BY <1>1, TailAt, MessageTypes
<1>4. \A i \in DOMAIN wire'[q] : i \in Nat
  BY <1>1
<1>5. \A i, j \in DOMAIN wire'[q] : i + 1 = j + 1 => i = j
  BY <1>4
<1>. QED
  BY <1>1, <1>2, <1>3, <1>5, TailAt

LEMMA SignalledTypes ==
  ASSUME StreamTypes, NEW q \in Op
  PROVE  [fetch[q] EXCEPT !.again = TRUE] \in Pulls /\ AskedFrom(q, cursor[q]) \in Pulls
<1>1. ASSUME NEW f \in Pulls PROVE [f EXCEPT !.again = TRUE] \in Pulls
  BY DEF Pulls
<1>2. ASSUME NEW n \in Nat PROVE AskedFrom(q, n) \in Pulls
  BY DEF Pulls, AskedFrom
<1>. QED
  BY <1>1, <1>2, StreamTypesAt

LEMMA ReceivesSignalStep ==
  ASSUME StreamInv, NEW q \in Op, Received(q), Head(wire[q]).what = "signal", ReceivesSignal(q)
  PROVE  StreamInv'
<1>. USE StreamTypesAt
<1>1. StreamTypes /\ Streams(q)
  BY DEF StreamInv
<1>2. /\ wire[q][1].what = "signal" /\ 1 \in DOMAIN wire[q] /\ request[q] # "none"
      /\ told.reported[q] > 0 \/ request[q] \in {"flushing", "done"}
  BY <1>1, ReceivedAt DEF Streams, Requested, Received
<1>3. /\ UNCHANGED <<request, grace, cursor, told>>
      /\ UNCHANGED <<order, kept, next, owned, subscribed, disposed>>
  BY DEF Received, ReceivesSignal
<1>4. /\ fetch' \in [Op -> Pulls] /\ \A o \in Op \ {q} : fetch'[o] = fetch[o]
      /\ \/ fetch'[q] = fetch[q]
         \/ fetch'[q] = [fetch[q] EXCEPT !.again = TRUE] /\ fetch[q].at # "none"
         \/ fetch'[q] = AskedFrom(q, cursor[q]) /\ fetch[q].at = "none" /\ q \in owned
  <2>1. [fetch[q] EXCEPT !.again = TRUE] \in Pulls /\ AskedFrom(q, cursor[q]) \in Pulls
    BY <1>1, SignalledTypes
  <2>. QED
    BY <1>1, <2>1 DEF ReceivesSignal, Signalled, StreamTypes
<1>5. StreamTypes' /\ AloneFor(q) /\ TellsOf(q)
  BY <1>1, <1>3, <1>4, ReceivedAt DEF StreamTypes, AloneFor, TellsOf, StoreRests
<1>6. /\ \A i \in DOMAIN wire'[q] : i + 1 \in DOMAIN wire[q] /\ wire'[q][i] = wire[q][i + 1]
      /\ \A i \in DOMAIN wire[q] : wire[q][i].what # "signal" =>
           i - 1 \in DOMAIN wire'[q] /\ wire'[q][i - 1] = wire[q][i]
      /\ \A i, j \in DOMAIN wire'[q] : i + 1 = j + 1 => i = j
  BY <1>1, <1>2, ReceivedAt
<1>7. /\ fetch'[q].at = fetch[q].at \/ (fetch[q].at = "none" /\ fetch'[q].at = "asked"
                                         /\ fetch'[q].after = cursor[q] /\ q \in owned)
      /\ fetch'[q].at = fetch[q].at => fetch'[q].after = fetch[q].after
                                       /\ (fetch[q].again => fetch'[q].again)
      /\ fetch'[q].todo = fetch[q].todo
  BY <1>1, <1>4 DEF AskedFrom, Pulls, Streams, Wired
<1>8. Stored(q)' /\ Base(q)' = Base(q)
  BY <1>1, <1>5, TellsStored DEF Streams
<1>9. Requested(q)'
  BY <1>1, <1>2, <1>3 DEF Streams, Requested
<1>10. Wired(q)'
  <2>1. (\E i \in DOMAIN wire'[q] : Handed(wire'[q][i])) <=> fetch'[q].at = "waiting"
    BY <1>1, <1>6, <1>7 DEF Streams, Wired, Handed
  <2>2. (\E i \in DOMAIN wire'[q] : wire'[q][i].what = "answer") <=> request'[q] = "answered"
    <3>1. (\E i \in DOMAIN wire[q] : wire[q][i].what = "answer") <=> request'[q] = "answered"
      BY <1>1, <1>3 DEF Streams, Wired
    <3>2. \A i \in DOMAIN wire[q] : wire[q][i].what = "answer" =>
            i - 1 \in DOMAIN wire'[q] /\ wire'[q][i - 1] = wire[q][i]
      BY <1>6
    <3>. QED
      BY <1>6, <3>1, <3>2
  <2>3. fetch'[q].todo # <<>> <=> fetch'[q].at = "delivering"
    BY <1>1, <1>7 DEF Streams, Wired
  <2>4. \A i, j \in DOMAIN wire'[q] : Handed(wire'[q][i]) /\ Handed(wire'[q][j]) => i = j
    BY <1>1, <1>6 DEF Streams, Wired
  <2>5. \A i, j \in DOMAIN wire'[q] :
          wire'[q][i].what = "answer" /\ wire'[q][j].what = "answer" => i = j
    BY <1>1, <1>6 DEF Streams, Wired
  <2>. QED
    BY <2>1, <2>2, <2>3, <2>4, <2>5 DEF Wired
<1>11. InOrder(q)'
  BY <1>1, <1>3, <1>6, <1>7, <1>8 DEF Streams, InOrder
<1>12. Covers(q)'
  <2>. SUFFICES ASSUME q \notin told.forgotten, ~told.deaf, ~disposed PROVE Covers(q)'
    BY <1>3 DEF Covers
  <2>1. Covers(q) /\ (fetch[q].at # "delivering" => ToSet(fetch[q].todo) = {})
    BY <1>1 DEF Streams, Wired, ToSet
  <2>2. Got(q)' = Got(q)
    BY <1>3 DEF Got
  <2>3. fetch'[q].at = "asked" => 1..fetch'[q].after \subseteq Got(q)'
    BY <1>7, <2>1, <2>2 DEF Covers
  <2>4. request'[q] = "flushing" =>
         /\ fetch'[q].at # "none"
         /\ ~fetch'[q].again /\ fetch'[q].at = "delivering" => told'.due[q] <= cursor'[q]
         /\ ~fetch'[q].again => \A i \in DOMAIN wire'[q] : wire'[q][i].what = "events" =>
                                 told'.due[q] <= wire'[q][i].cursor
    BY <1>3, <1>6, <1>7, <2>1 DEF Covers
  <2>5. \A i \in DOMAIN wire'[q] :
         /\ wire'[q][i].what = "events" =>
              1..wire'[q][i].cursor \subseteq Got(q)' \cup ToSet(wire'[q][i].events)
         /\ wire'[q][i].what = "refusal" => told'.due[q] = 0 /\ request'[q] # "running"
    BY <1>3, <1>6, <2>1, <2>2 DEF Covers
  <2>. QED
    BY <1>3, <1>7, <2>1, <2>2, <2>3, <2>4, <2>5 DEF Covers
<1>. QED
  BY <1>5, <1>8, <1>9, <1>10, <1>11, <1>12, TellsInv DEF Streams

LEMMA ReceivesAnswerStep ==
  ASSUME StreamInv, NEW q \in Op, Received(q), Head(wire[q]).what = "answer", ReceivesAnswer(q)
  PROVE  StreamInv'
<1>. USE StreamTypesAt
<1>1. StreamTypes /\ Streams(q)
  BY DEF StreamInv
<1>2. wire[q][1].what = "answer" /\ 1 \in DOMAIN wire[q] /\ request[q] = "answered"
  BY <1>1, ReceivedAt DEF Streams, Wired
<1>3. /\ UNCHANGED <<cursor, told>>
      /\ UNCHANGED <<order, kept, next, owned, subscribed, disposed>>
  BY DEF Received, ReceivesAnswer
<1>4. /\ fetch' \in [Op -> Pulls] /\ \A o \in Op \ {q} : fetch'[o] = fetch[o]
      /\ request' \in [Op -> {"none", "running", "answered", "flushing", "done"}]
      /\ \A o \in Op \ {q} : request'[o] = request[o] /\ (o \in grace' <=> o \in grace)
      /\ grace' \in SUBSET Op
      /\ \/ /\ disposed \/ q \notin owned \/ ~subscribed
            /\ fetch'[q] = fetch[q] /\ request'[q] = "done" /\ q \in grace'
         \/ /\ request'[q] = "flushing" /\ grace' = grace /\ q \in owned
            /\ \/ fetch'[q] = [fetch[q] EXCEPT !.again = TRUE] /\ fetch[q].at # "none"
               \/ fetch'[q] = AskedFrom(q, cursor[q]) /\ fetch[q].at = "none"
  <2>1. [fetch[q] EXCEPT !.again = TRUE] \in Pulls /\ AskedFrom(q, cursor[q]) \in Pulls
    BY <1>1, SignalledTypes
  <2>2. CASE disposed \/ q \notin owned \/ ~subscribed
    BY <1>1, <2>2 DEF ReceivesAnswer, Released, StreamTypes
  <2>3. CASE ~(disposed \/ q \notin owned \/ ~subscribed)
    BY <1>1, <2>1, <2>3 DEF ReceivesAnswer, Signalled, StreamTypes
  <2>. QED
    BY <2>2, <2>3
<1>5. StreamTypes' /\ AloneFor(q) /\ TellsOf(q)
  BY <1>1, <1>3, <1>4, ReceivedAt DEF StreamTypes, AloneFor, TellsOf, StoreRests
<1>6. /\ \A i \in DOMAIN wire'[q] : /\ i + 1 \in DOMAIN wire[q] /\ wire'[q][i] = wire[q][i + 1]
                                    /\ wire'[q][i].what # "answer"
      /\ \A i \in DOMAIN wire[q] : wire[q][i].what # "answer" =>
           i - 1 \in DOMAIN wire'[q] /\ wire'[q][i - 1] = wire[q][i]
      /\ \A i, j \in DOMAIN wire'[q] : i + 1 = j + 1 => i = j
  BY <1>1, <1>2, ReceivedAt DEF Streams, Wired
<1>7. /\ fetch'[q].at = fetch[q].at \/ (fetch[q].at = "none" /\ fetch'[q].at = "asked"
                                         /\ fetch'[q].after = cursor[q] /\ q \in owned)
      /\ fetch'[q].at = fetch[q].at => fetch'[q].after = fetch[q].after
      /\ fetch'[q].todo = fetch[q].todo
      /\ request'[q] = "flushing" =>
           fetch'[q].at # "none" /\ (fetch'[q].again \/ fetch[q].at = "none")
  BY <1>1, <1>4 DEF AskedFrom, Pulls, Streams, Wired
<1>8. Stored(q)' /\ Base(q)' = Base(q)
  BY <1>1, <1>5, TellsStored DEF Streams
<1>9. Requested(q)'
  BY <1>1, <1>2, <1>3, <1>4, <1>6, <1>7 DEF Streams, Requested
<1>10. Wired(q)'
  <2>1. (\E i \in DOMAIN wire'[q] : Handed(wire'[q][i])) <=> fetch'[q].at = "waiting"
    BY <1>1, <1>6, <1>7 DEF Streams, Wired, Handed
  <2>2. request'[q] # "answered"
    BY <1>4
  <2>3. fetch'[q].todo # <<>> <=> fetch'[q].at = "delivering"
    BY <1>1, <1>7 DEF Streams, Wired
  <2>4. \A i, j \in DOMAIN wire'[q] : Handed(wire'[q][i]) /\ Handed(wire'[q][j]) => i = j
    BY <1>1, <1>6 DEF Streams, Wired
  <2>. QED
    BY <1>6, <2>1, <2>2, <2>3, <2>4 DEF Wired
<1>11. InOrder(q)'
  BY <1>1, <1>3, <1>6, <1>7, <1>8 DEF Streams, InOrder
<1>12. Covers(q)'
  <2>. SUFFICES ASSUME q \notin told.forgotten, ~told.deaf, ~disposed PROVE Covers(q)'
    BY <1>3 DEF Covers
  <2>1. Covers(q) /\ (fetch[q].at # "delivering" => ToSet(fetch[q].todo) = {})
    BY <1>1 DEF Streams, Wired, ToSet
  <2>2. Got(q)' = Got(q)
    BY <1>3 DEF Got
  <2>3. request'[q] = "flushing"
    BY <1>1, <1>2, <1>4 DEF StreamInv, Streams, Requested
  <2>4. fetch'[q].at = "asked" => 1..fetch'[q].after \subseteq Got(q)'
    BY <1>7, <2>1, <2>2 DEF Covers
  <2>5. ~fetch'[q].again => fetch'[q].at # "delivering"
                            /\ \A i \in DOMAIN wire'[q] : wire'[q][i].what # "events"
    BY <1>1, <1>6, <1>7, <2>3 DEF Streams, Wired, Handed
  <2>6. \A i \in DOMAIN wire'[q] :
         /\ wire'[q][i].what = "events" =>
              1..wire'[q][i].cursor \subseteq Got(q)' \cup ToSet(wire'[q][i].events)
         /\ wire'[q][i].what = "refusal" => told'.due[q] = 0 /\ request'[q] # "running"
    BY <1>3, <1>6, <2>1, <2>2, <2>3 DEF Covers
  <2>. QED
    BY <1>3, <1>7, <2>1, <2>2, <2>3, <2>4, <2>5, <2>6 DEF Covers
<1>. QED
  BY <1>5, <1>8, <1>9, <1>10, <1>11, <1>12, TellsInv DEF Streams

LEMMA ReceivesEventsStep ==
  ASSUME StreamInv, NEW q \in Op, Received(q), Handed(Head(wire[q])),
         ReceivesEvents(q, Head(wire[q]))
  PROVE  StreamInv'
<1>. USE StreamTypesAt
<1>. DEFINE m == wire[q][1]
            again == fetch[q].again
<1>1. StreamTypes /\ Streams(q)
  BY DEF StreamInv
<1>2. /\ 1 \in DOMAIN wire[q] /\ Head(wire[q]) = m /\ Handed(m)
      /\ m.cursor \in Nat /\ m.events \in Seq(Nat)
  <2>1. 1 \in DOMAIN wire[q] /\ Head(wire[q]) = m
    BY <1>1, ReceivedAt
  <2>2. m.cursor \in Nat /\ m.events \in Seq(Nat)
    BY <1>1, <2>1, MessageTypes
  <2>. QED
    BY <2>1, <2>2
<1>3. /\ UNCHANGED <<order, kept, next, owned, subscribed, disposed>>
      /\ wire' \in [Op -> Seq(WireMessages)] /\ \A o \in Op \ {q} : wire'[o] = wire[o]
  BY <1>1, ReceivedAt DEF Received
<1>4. /\ fetch[q].at = "waiting" /\ fetch[q].todo = <<>> /\ ToSet(fetch[q].todo) = {}
      /\ again \in BOOLEAN /\ cursor[q] \in Nat
  BY <1>1, <1>2 DEF Streams, Wired, ToSet
<1>5. Consumed(q)
  <2>1. \A i \in DOMAIN wire'[q] : ~Handed(wire'[q][i])
    BY <1>1, <1>2, ReceivedAt DEF Streams, Wired
  <2>2. \A i, j \in DOMAIN wire'[q] :
          wire'[q][i].what = "answer" /\ wire'[q][j].what = "answer" => i = j
    BY <1>1, ReceivedAt DEF Streams, Wired
  <2>3. \A i \in DOMAIN wire[q] : wire[q][i].what = "answer" =>
          i - 1 \in DOMAIN wire'[q] /\ wire'[q][i - 1] = wire[q][i]
    BY <1>1, <1>2, ReceivedAt DEF Handed
  <2>4. \A i \in DOMAIN wire'[q] : i + 1 \in DOMAIN wire[q] /\ wire'[q][i] = wire[q][i + 1]
    BY <1>1, ReceivedAt
  <2>5. (\E i \in DOMAIN wire[q] : wire[q][i].what = "answer") <=> request[q] = "answered"
    BY <1>1 DEF Streams, Wired
  <2>6. (\E i \in DOMAIN wire'[q] : wire'[q][i].what = "answer") <=> request[q] = "answered"
    BY <2>3, <2>4, <2>5
  <2>. QED
    BY <2>1, <2>2, <2>4, <2>6 DEF Consumed
<1>6. CASE disposed \/ m.what = "refusal"
  <2>. DEFINE more == again /\ ~disposed
  <2>1. Ends(q, more, cursor[q]) /\ cursor' = cursor /\ told' = told
    BY <1>2, <1>6 DEF ReceivesEvents
  <2>2. more \in BOOLEAN
    BY <1>4
  <2>. HIDE DEF more
  <2>3. StreamTypes' /\ AloneFor(q) /\ TellsOf(q)
    BY <1>1, <1>3, <1>4, <2>1, <2>2, EndsTypes DEF StreamTypes, AloneFor, TellsOf, StoreRests
  <2>4. /\ Rising(told'.heard[q]) /\ UpTo(told'.heard[q], told.reported[q])
        /\ q \in owned => UpTo(told'.heard[q], cursor'[q] + Base(q))
    BY <1>1, <2>1 DEF Streams, InOrder
  <2>5. q \notin told.forgotten /\ ~told.deaf /\ ~disposed =>
           /\ Got(q) \subseteq Got(q)' /\ 1..cursor'[q] \subseteq Got(q)'
           /\ request[q] = "flushing" /\ ~more => 1..told.due[q] \subseteq Got(q)'
    <3>. HAVE q \notin told.forgotten /\ ~told.deaf /\ ~disposed
    <3>1. told.due[q] = 0 /\ Got(q)' = Got(q) /\ 1..cursor[q] \subseteq Got(q)
      BY <1>1, <1>2, <1>4, <1>6, <2>1 DEF Streams, Covers, Got
    <3>. QED
      BY <2>1, <3>1
  <2>6. Streams(q)'
    BY <1>1, <1>4, <1>5, <2>1, <2>2, <2>3, <2>4, <2>5, EndsKeeps
  <2>. QED
    BY <2>3, <2>6, TellsInv
<1>7. CASE ~disposed /\ m.what = "events"
  <2>1. /\ cursor' = [cursor EXCEPT ![q] = m.cursor] /\ cursor'[q] = m.cursor
        /\ IF m.events = <<>>
           THEN Ends(q, again, m.cursor) /\ told' = told
           ELSE Delivers(q, m.events, again, m.cursor)
    <3>1. cursor' = [cursor EXCEPT ![q] = m.cursor]
      BY <1>2, <1>7 DEF ReceivesEvents
    <3>. QED
      BY <1>1, <1>2, <1>7, <3>1 DEF ReceivesEvents, StreamTypes
  <2>2. /\ Rising(m.events) /\ UpTo(m.events, told.reported[q])
        /\ Precedes(told.heard[q], m.events)
        /\ UpTo(told.heard[q], cursor'[q] + Base(q)) /\ UpTo(m.events, cursor'[q] + Base(q))
        /\ Rising(told.heard[q]) /\ UpTo(told.heard[q], told.reported[q])
    BY <1>1, <1>2, <1>7, <2>1 DEF Streams, InOrder
  <2>3. q \notin told.forgotten /\ ~told.deaf /\ ~disposed =>
           /\ subscribed
           /\ 1..cursor'[q] \subseteq Got(q) \cup ToSet(m.events)
           /\ request[q] = "flushing" /\ ~again => told.due[q] <= cursor'[q]
    BY <1>1, <1>2, <1>7, <2>1 DEF StreamInv, Streams, Covers
  <2>4. CASE m.events = <<>>
    <3>1. StreamTypes' /\ AloneFor(q) /\ TellsOf(q)
      BY <1>1, <1>2, <1>3, <1>4, <2>1, <2>4, EndsTypes
      DEF StreamTypes, AloneFor, TellsOf, StoreRests
    <3>2. q \notin told.forgotten /\ ~told.deaf /\ ~disposed =>
             /\ Got(q) \subseteq Got(q)' /\ 1..cursor'[q] \subseteq Got(q)'
             /\ request[q] = "flushing" /\ ~again => 1..told.due[q] \subseteq Got(q)'
      <4>. HAVE q \notin told.forgotten /\ ~told.deaf /\ ~disposed
      <4>1. Got(q)' = Got(q) /\ ToSet(m.events) = {}
        BY <2>1, <2>4 DEF Got, ToSet
      <4>2. 1..cursor'[q] \subseteq Got(q)
        BY <2>3, <4>1
      <4>3. told.due[q] <= cursor'[q] => 1..told.due[q] \subseteq 1..cursor'[q]
        BY <1>1, <1>2, <2>1
      <4>. QED
        BY <2>3, <4>1, <4>2, <4>3
    <3>3. Streams(q)'
      <4>1. Ends(q, again, cursor'[q]) /\ told' = told
        BY <2>1, <2>4
      <4>. QED
        BY <1>1, <1>4, <1>5, <2>2, <3>1, <3>2, <4>1, EndsKeeps
    <3>. QED
      BY <3>1, <3>3, TellsInv
  <2>5. CASE m.events # <<>>
    <3>1. StreamTypes' /\ AloneFor(q) /\ TellsOf(q)
      <4>1. Delivers(q, m.events, again, m.cursor)
        BY <2>1, <2>5
      <4>. HIDE DEF m, again
      <4>2. /\ fetch' \in [Op -> Pulls] /\ grace' \in SUBSET Op
            /\ request' \in [Op -> {"none", "running", "answered", "flushing", "done"}]
            /\ told' \in Histories
            /\ told'.reported = told.reported /\ told'.shifted = told.shifted
            /\ told'.due = told.due /\ told'.forgotten = told.forgotten /\ told'.deaf = told.deaf
            /\ \A o \in Op \ {q} : /\ fetch'[o] = fetch[o] /\ request'[o] = request[o]
                                   /\ o \in grace' <=> o \in grace
                                   /\ told'.heard[o] = told.heard[o]
        BY <1>1, <1>2, <1>4, <2>5, <4>1, DeliversTypes
      <4>3. cursor' \in [Op -> Nat] /\ \A o \in Op \ {q} : cursor'[o] = cursor[o]
        BY <1>1, <1>2, <2>1 DEF StreamTypes
      <4>. QED
        BY <1>1, <1>3, <4>2, <4>3 DEF StreamTypes, AloneFor, TellsOf, StoreRests
    <3>2. Delivers(q, m.events, again, cursor'[q])
      BY <2>1, <2>5
    <3>. HIDE DEF m, again
    <3>3. Streams(q)'
      BY <1>1, <1>2, <1>4, <1>5, <2>2, <2>3, <2>5, <3>1, <3>2, DeliversKeeps
    <3>. QED
      BY <3>1, <3>3, TellsInv
  <2>. QED
    BY <2>4, <2>5
<1>. QED
  BY <1>2, <1>6, <1>7 DEF Handed

LEMMA ReceivesStep == ASSUME StreamInv, NEW q \in Op, Receives(q) PROVE StreamInv'
<1>1. Received(q)
  BY DEF Receives, Received
<1>2. \/ Head(wire[q]).what = "signal" /\ ReceivesSignal(q)
      \/ Head(wire[q]).what = "answer" /\ ReceivesAnswer(q)
      \/ Handed(Head(wire[q])) /\ ReceivesEvents(q, Head(wire[q]))
  BY DEF Receives, Handed
<1>. QED
  BY <1>1, <1>2, ReceivesSignalStep, ReceivesAnswerStep, ReceivesEventsStep

LEMMA StreamStep == StreamInv /\ [ProgressNext]_progressVars => StreamInv'
<1>. SUFFICES ASSUME StreamInv, [ProgressNext]_progressVars PROVE StreamInv'
  OBVIOUS
<1>1. CASE UNCHANGED progressVars
  <2>1. StreamTypes' /\ (~told'.deaf /\ ~disposed' => subscribed')
    BY <1>1 DEF StreamInv, StreamTypes, progressVars
  <2>2. ASSUME NEW o \in Op PROVE Streams(o)'
    <3>1. Stayed(o)
      BY <1>1 DEF Stayed, InStore, progressVars
    <3>. QED
      BY <1>1, <2>1, <3>1, Untouched DEF StreamInv, progressVars
  <2>. QED
    BY <2>1, <2>2 DEF StreamInv
<1>2. ASSUME NEW o \in Op, Asks(o) \/ Reports(o) \/ GraceEnds(o) \/ ProgressMoves(o)
      PROVE  StreamInv'
  BY <1>2, AsksStep, ReportsStep, GraceStep, HandsStep, ReceivesStep, NextTaskStep,
     MainAnswersStep DEF ProgressMoves
<1>3. CASE Crowds \/ StoreCloses \/ Disposes
  BY <1>3, CrowdsStep, StoreClosesStep, DisposesStep
<1>4. ASSUME NEW now \in BOOLEAN, Listens(now) PROVE StreamInv'
  BY <1>4, ListensStep
<1>. QED
  BY <1>1, <1>2, <1>3, <1>4 DEF ProgressNext

(* Whatever reports, evictions, fetches, answers, listeners and grace periods come, and however
   they interleave: no page hears of an event twice or out of order, and the answer of a request
   never overtakes the progress that was reported before it, unless the store dropped it. *)
THEOREM ProgressAlwaysHeard == ProgressSpec => []ProgressIsHeard
<1>1. ProgressSpec => []StreamInv
  BY StreamInitInv, StreamStep, PTL DEF ProgressSpec
<1>. QED
  BY <1>1, StreamHeard, PTL

-----------------------------------------------------------------------------
(* CredentialProfiles.                                                     *)

Profiles == {UnknownProfile} \cup {Parsed(env) : env \in SUBSET STRING}
KubeReads == [Index -> ReadState]
KubeScans ==
  [phase : {"lists", "visits", "done", "failed"}, next : 1..(Workloads + 1),
   at : [Worker -> {0} \cup Index], completed : Nat, best : Profiles,
   read : [{"config", "secret"} -> KubeReads]]

(* The state parts are arguments: the definitions with which the model does the same follow. *)
MatchesOf(w, s, i) == w[i].config /\ s.read["config"][i] = "had"
EnvironmentOf(w, s, i) ==
  w[i].literal \cup (IF s.read["secret"][i] = "had" THEN w[i].secret ELSE {})

Busy(s) == {v \in Worker : s.at[v] # 0}

(* What a visit leaves behind stays as it is, and the best profile is at least as strong. *)
SeenThrough(w, s, i) ==
  /\ s.read["config"][i] # "asked"
  /\ MatchesOf(w, s, i) =>
       /\ s.read["secret"][i] # "asked"
       /\ Strength(s.best) >= Strength(Parsed(EnvironmentOf(w, s, i)))

(* The workers visit different workloads, all those before the next one have been visited or are
   being visited, and a worker only leaves when none is left. *)
Visiting(w, s) ==
  /\ \A v, u \in Worker : v # u /\ s.at[v] # 0 => s.at[v] # s.at[u]
  /\ \A v \in Worker : s.at[v] < s.next
  /\ \A v \in Worker : s.at[v] = 0 => s.next = Workloads + 1
  /\ s.completed + Cardinality(Busy(s)) = s.next - 1
  /\ \A i \in Index : i < s.next /\ (\A v \in Worker : s.at[v] # i) => SeenThrough(w, s, i)

ScanSound(w, s) ==
  /\ s \in KubeScans
  /\ s.phase = "lists" => s.completed = 0 /\ s.best = UnknownProfile
  /\ s.phase \in {"visits", "done"} => Visiting(w, s)
  /\ s.phase = "done" => Busy(s) = {} /\ s.next = Workloads + 1

LEMMA StrengthType == \A p : Strength(p) \in 0..4
BY DEF Strength

LEMMA ProfileSound ==
  \A p \in Profiles : p.sasl # "iam" /\ (p.auth = "mtls" => "cert" \in p.ssl)
<1>1. \A env \in SUBSET STRING :
        Parsed(env).sasl # "iam" /\ (Parsed(env).auth = "mtls" => "cert" \in Parsed(env).ssl)
  <2>. TAKE env \in SUBSET STRING
  <2>1. Mechanism(env) # "mtls" /\ None # "iam"
    BY DEF Mechanism, None
  <2>. QED
    BY <2>1 DEF Parsed
<1>. QED
  BY <1>1 DEF Profiles, UnknownProfile, None

LEMMA WorkerIsIndex ==
  /\ Worker \subseteq Index /\ IsFiniteSet(Worker) /\ Workloads \in Nat
  /\ \E m \in Nat : Worker = 1..m /\ m <= Workloads /\ Cardinality(Worker) = m
<1>. DEFINE m == IF Visitors < Workloads THEN Visitors ELSE Workloads
<1>1. m \in Nat /\ m <= Workloads /\ Workloads \in Nat
  BY CredentialAssumption
<1>2. Worker = 1..m
  BY DEF Worker
<1>. HIDE DEF m
<1>3. IsFiniteSet(1..m) /\ Cardinality(1..m) = m
  BY <1>1, FS_Interval
<1>. QED
  BY <1>1, <1>2, <1>3 DEF Index

LEMMA BusyFinite == \A s : IsFiniteSet(Busy(s)) /\ Cardinality(Busy(s)) \in Nat
BY WorkerIsIndex, FS_Subset, FS_CardinalityType DEF Busy

LEMMA StartsSound ==
  ASSUME NEW w, NEW s, ScanSound(w, s), s.phase = "lists"
  PROVE  ScanSound(w, StartsScan(s))
<1>. DEFINE t == StartsScan(s)
<1>0. s \in KubeScans /\ s.completed = 0
  BY DEF ScanSound
<1>1. PICK m \in Nat : Worker = 1..m /\ m <= Workloads /\ Cardinality(Worker) = m
  BY WorkerIsIndex
<1>2. /\ t.phase = IF Workloads = 0 THEN "done" ELSE "visits"
      /\ t.at = [v \in Worker |-> v]
      /\ t.next = m + 1
      /\ t.completed = 0 /\ t.best = s.best
      /\ t.read = [s.read EXCEPT !["config"] = [i \in Index |-> IF i \in Worker THEN "asked" ELSE "none"]]
      /\ t = [phase |-> t.phase, next |-> t.next, at |-> t.at, completed |-> t.completed,
              best |-> t.best, read |-> t.read]
  <2>. DEFINE phase == IF Workloads = 0 THEN "done" ELSE "visits"
              at == [v \in Worker |-> v]
              kubeReads == [s.read EXCEPT !["config"] = [i \in Index |-> IF i \in Worker THEN "asked" ELSE "none"]]
  <2>1. s = [phase |-> s.phase, next |-> s.next, at |-> s.at, completed |-> s.completed,
             best |-> s.best, read |-> s.read]
    BY <1>0 DEF KubeScans
  <2>2. t = [s EXCEPT !.phase = phase, !.at = at, !.next = Cardinality(Worker) + 1, !.read = kubeReads]
    BY <2>1 DEF StartsScan
  <2>. HIDE DEF phase, at, kubeReads, t
  <2>3. t = [phase |-> phase, next |-> Cardinality(Worker) + 1, at |-> at,
             completed |-> s.completed, best |-> s.best, read |-> kubeReads]
    BY <2>1, <2>2
  <2>. QED
    BY <1>0, <1>1, <2>3 DEF phase, at, kubeReads
<1>. HIDE DEF t
<1>3. t.at \in [Worker -> {0} \cup Index] /\ t.next \in 1..(Workloads + 1)
  BY <1>1, <1>2, WorkerIsIndex
<1>4. t.read \in [{"config", "secret"} -> KubeReads]
  <2>1. [i \in Index |-> IF i \in Worker THEN "asked" ELSE "none"] \in KubeReads
    BY DEF KubeReads, ReadState
  <2>2. s.read \in [{"config", "secret"} -> KubeReads]
    BY <1>0 DEF KubeScans
  <2>. QED
    BY <1>2, <2>1, <2>2
<1>5. t \in KubeScans
  <2>1. s.best \in Profiles
    BY <1>0 DEF KubeScans
  <2>2. t.phase \in {"lists", "visits", "done", "failed"} /\ t.completed \in Nat
    BY <1>2
  <2>3. t.best \in Profiles
    BY <1>2, <2>1
  <2>4. t = [phase |-> t.phase, next |-> t.next, at |-> t.at, completed |-> t.completed,
             best |-> t.best, read |-> t.read]
    BY <1>2
  <2>. QED
    BY <1>3, <1>4, <2>2, <2>3, <2>4 DEF KubeScans
<1>6. \A v \in Worker : t.at[v] = v /\ v \in Nat /\ v # 0 /\ v <= m
  BY <1>1, <1>2
<1>7. Busy(t) = Worker
  BY <1>6 DEF Busy
<1>8. Visiting(w, t)
  <2>1. t.completed + Cardinality(Busy(t)) = t.next - 1
    BY <1>1, <1>2, <1>7
  <2>2. \A v \in Worker : t.at[v] < t.next
    BY <1>1, <1>2, <1>6
  <2>3. \A i \in Index : i < t.next => i \in Worker /\ t.at[i] = i
    BY <1>1, <1>2, <1>6 DEF Index
  <2>. QED
    BY <1>6, <2>1, <2>2, <2>3 DEF Visiting
<1>9. t.phase = "done" => Busy(t) = {} /\ t.next = Workloads + 1
  BY <1>1, <1>2, <1>7
<1>. QED
  BY <1>2, <1>5, <1>8, <1>9 DEF ScanSound, t

(* A read ends, or that of a Secret begins: what is known does not change. *)
LEMMA ReadKeeps ==
  ASSUME NEW w, NEW s, ScanSound(w, s), NEW kind \in {"config", "secret"}, NEW i \in Index,
         NEW how \in {"asked", "had", "lost"},
         \/ s.read[kind][i] = "asked" /\ how # "asked"
         \/ kind = "secret" /\ \E v \in Worker : s.at[v] = i
  PROVE  ScanSound(w, [s EXCEPT !.read[kind][i] = how])
<1>. DEFINE t == [s EXCEPT !.read[kind][i] = how]
<1>0. s \in KubeScans
  BY DEF ScanSound
<1>1. /\ t.phase = s.phase /\ t.at = s.at /\ t.next = s.next /\ t.completed = s.completed
      /\ t.best = s.best
      /\ t.read = [s.read EXCEPT ![kind] = [s.read[kind] EXCEPT ![i] = how]]
      /\ t = [phase |-> t.phase, next |-> t.next, at |-> t.at, completed |-> t.completed,
              best |-> t.best, read |-> t.read]
  BY <1>0 DEF KubeScans
<1>. HIDE DEF t
<1>2. s.read \in [{"config", "secret"} -> KubeReads]
  BY <1>0 DEF KubeScans
<1>3. t.read \in [{"config", "secret"} -> KubeReads]
  <2>1. s.read[kind] \in KubeReads
    BY <1>2
  <2>2. [s.read[kind] EXCEPT ![i] = how] \in KubeReads
    BY <2>1 DEF KubeReads, ReadState
  <2>. QED
    BY <1>1, <1>2, <2>2
<1>4. t \in KubeScans
  BY <1>0, <1>1, <1>3 DEF KubeScans
<1>5. /\ \A k \in {"config", "secret"} : k # kind => t.read[k] = s.read[k]
      /\ \A j \in Index : j # i => t.read[kind][j] = s.read[kind][j]
      /\ t.read[kind][i] = how
  BY <1>1, <1>2 DEF KubeReads
<1>6. Busy(t) = Busy(s)
  BY <1>1 DEF Busy
<1>7. ASSUME Visiting(w, s) PROVE Visiting(w, t)
  <2>1. ASSUME NEW j \in Index, j < s.next, \A v \in Worker : s.at[v] # j PROVE SeenThrough(w, t, j)
    <3>1. SeenThrough(w, s, j)
      BY <1>7, <2>1 DEF Visiting
    <3>2. CASE j # i
      <4>1. \A k \in {"config", "secret"} : t.read[k][j] = s.read[k][j]
        BY <1>5, <3>2
      <4>2. t.read["config"][j] = s.read["config"][j] /\ t.read["secret"][j] = s.read["secret"][j]
        BY <4>1
      <4>. QED
        BY <1>1, <3>1, <4>2 DEF SeenThrough, MatchesOf, EnvironmentOf
    <3>3. CASE j = i
      <4>1. s.read[kind][j] = "asked" /\ how # "asked"
        BY <2>1, <3>3
      <4>2. CASE kind = "config"
        BY <3>1, <4>1, <4>2 DEF SeenThrough
      <4>3. CASE kind = "secret"
        <5>1. ~MatchesOf(w, s, j) /\ s.read["config"][j] # "asked"
          BY <3>1, <4>1, <4>3 DEF SeenThrough
        <5>2. t.read["config"] = s.read["config"]
          BY <1>5, <4>3
        <5>. QED
          BY <5>1, <5>2 DEF SeenThrough, MatchesOf
      <4>. QED
        BY <4>2, <4>3
    <3>. QED
      BY <3>2, <3>3
  <2>. QED
    BY <1>1, <1>6, <1>7, <2>1 DEF Visiting
<1>. QED
  BY <1>1, <1>4, <1>6, <1>7 DEF ScanSound, t

LEMMA SettledStays ==
  ASSUME NEW w, NEW s, NEW t, NEW i, SeenThrough(w, s, i), Strength(t.best) >= Strength(s.best),
         t.read["config"][i] = s.read["config"][i], t.read["secret"][i] = s.read["secret"][i]
  PROVE  SeenThrough(w, t, i)
<1>1. Strength(t.best) \in Nat /\ Strength(s.best) \in Nat
      /\ Strength(Parsed(EnvironmentOf(w, s, i))) \in Nat
  BY StrengthType
<1>2. MatchesOf(w, t, i) = MatchesOf(w, s, i) /\ EnvironmentOf(w, t, i) = EnvironmentOf(w, s, i)
  BY DEF MatchesOf, EnvironmentOf
<1>. QED
  BY <1>1, <1>2 DEF SeenThrough

(* A visit ends and its worker takes the next workload, if there is one. *)
LEMMA LeavesSound ==
  ASSUME NEW w, NEW s, ScanSound(w, s), s.phase = "visits", NEW v \in Worker, s.at[v] # 0,
         NEW b \in Profiles, Strength(b) >= Strength(s.best),
         SeenThrough(w, [s EXCEPT !.best = b], s.at[v])
  PROVE  ScanSound(w, ScanLeft([s EXCEPT !.best = b], v))
<1>. DEFINE x == [s EXCEPT !.best = b]
            y == [x EXCEPT !.completed = @ + 1]
            t == Taken(y, v, s.next)
            u == ScanLeft(x, v)
            last == s.next > Workloads
<1>0. s \in KubeScans /\ Visiting(w, s)
  BY DEF ScanSound
<1>1. s = [phase |-> s.phase, next |-> s.next, at |-> s.at, completed |-> s.completed,
           best |-> s.best, read |-> s.read]
  BY <1>0 DEF KubeScans
<1>2. /\ s.at \in [Worker -> {0} \cup Index] /\ s.next \in 1..(Workloads + 1) /\ s.completed \in Nat
      /\ s.read \in [{"config", "secret"} -> KubeReads]
  BY <1>0 DEF KubeScans
<1>3. x = [phase |-> s.phase, next |-> s.next, at |-> s.at, completed |-> s.completed,
           best |-> b, read |-> s.read]
  BY <1>1
<1>8. SeenThrough(w, x, s.at[v])
  OBVIOUS
<1>. HIDE DEF x
<1>4. y = [phase |-> s.phase, next |-> s.next, at |-> s.at, completed |-> s.completed + 1,
           best |-> b, read |-> s.read]
  BY <1>3
<1>5. u = [t EXCEPT !.phase = IF \A q \in Worker : t.at[q] = 0 THEN "done" ELSE @]
  BY <1>3 DEF ScanLeft
<1>. HIDE DEF y, u
<1>6. CASE last
  <2>. DEFINE at == [s.at EXCEPT ![v] = 0]
  <2>1. t = [phase |-> s.phase, next |-> s.next, at |-> at, completed |-> s.completed + 1,
             best |-> b, read |-> s.read]
    BY <1>4, <1>6 DEF Taken
  <2>. HIDE DEF t, at
  <2>2. /\ u.phase = IF \A q \in Worker : at[q] = 0 THEN "done" ELSE "visits"
        /\ u.next = s.next /\ u.at = at /\ u.completed = s.completed + 1 /\ u.best = b
        /\ u.read = s.read
        /\ u = [phase |-> u.phase, next |-> u.next, at |-> u.at, completed |-> u.completed,
                best |-> u.best, read |-> u.read]
    BY <1>5, <2>1
  <2>3. s.next = Workloads + 1
    BY <1>2, <1>6, WorkerIsIndex
  <2>4. /\ at \in [Worker -> {0} \cup Index] /\ at[v] = 0
        /\ \A q \in Worker : q # v => at[q] = s.at[q]
    BY <1>2 DEF at
  <2>5. u \in KubeScans
    <3>1. u.phase \in {"lists", "visits", "done", "failed"}
      BY <2>2
    <3>2. u.completed \in Nat
      BY <1>2, <2>2
    <3>. QED
      BY <1>2, <2>2, <2>4, <3>1, <3>2 DEF KubeScans
  <2>6. Busy(u) = Busy(s) \ {v} /\ v \in Busy(s)
    BY <2>2, <2>4 DEF Busy
  <2>7. Cardinality(Busy(u)) = Cardinality(Busy(s)) - 1
    BY <2>6, BusyFinite, FS_RemoveElement
  <2>8. u.completed + Cardinality(Busy(u)) = u.next - 1
    <3>1. s.completed + Cardinality(Busy(s)) = s.next - 1
      BY <1>0 DEF Visiting
    <3>. QED
      BY <1>2, <2>2, <2>7, <3>1, BusyFinite
  <2>9. ASSUME NEW i \in Index, i < u.next, \A q \in Worker : u.at[q] # i PROVE SeenThrough(w, u, i)
    <3>1. CASE i = s.at[v]
      BY <1>3, <1>8, <2>2, <3>1, SettledStays, StrengthType
    <3>2. CASE i # s.at[v]
      <4>1. \A q \in Worker : s.at[q] # i
        BY <2>2, <2>4, <2>9, <3>2
      <4>2. SeenThrough(w, s, i)
        BY <1>0, <2>2, <2>9, <4>1 DEF Visiting
      <4>. QED
        BY <2>2, <4>2, SettledStays
    <3>. QED
      BY <3>1, <3>2
  <2>10. \A q, p \in Worker : q # p /\ u.at[q] # 0 => u.at[q] # u.at[p]
    BY <1>0, <2>2, <2>4 DEF Visiting
  <2>11. \A q \in Worker : u.at[q] < u.next
    BY <1>0, <1>2, <2>2, <2>4 DEF Visiting
  <2>12. \A q \in Worker : u.at[q] = 0 => u.next = Workloads + 1
    BY <2>2, <2>3
  <2>13. Visiting(w, u)
    BY <2>8, <2>9, <2>10, <2>11, <2>12 DEF Visiting
  <2>14. u.phase = "done" => Busy(u) = {} /\ u.next = Workloads + 1
    BY <2>2, <2>3 DEF Busy
  <2>15. u.phase # "lists"
    BY <2>2
  <2>. QED
    BY <2>5, <2>13, <2>14, <2>15 DEF ScanSound, u, x
<1>7. CASE ~last
  <2>. DEFINE i == s.next
              at == [s.at EXCEPT ![v] = i]
              kubeReads == [s.read EXCEPT !["config"] = [s.read["config"] EXCEPT ![i] = "asked"]]
  <2>1. i \in Index /\ i \in Nat /\ i # 0
    BY <1>2, <1>7, WorkerIsIndex DEF Index
  <2>2. t = [phase |-> s.phase, next |-> i + 1, at |-> at, completed |-> s.completed + 1,
             best |-> b, read |-> kubeReads]
    <3>1. t = [y EXCEPT !.at[v] = i, !.next = i + 1, !.read["config"][i] = "asked"]
      BY <1>7 DEF Taken
    <3>. HIDE DEF t, i
    <3>. QED
      BY <1>4, <3>1
  <2>. HIDE DEF t, at, kubeReads, i
  <2>3. /\ at \in [Worker -> {0} \cup Index] /\ at[v] = i
        /\ \A q \in Worker : q # v => at[q] = s.at[q]
    BY <1>2, <2>1 DEF at
  <2>4. /\ u.phase = s.phase
        /\ u.next = i + 1 /\ u.at = at /\ u.completed = s.completed + 1 /\ u.best = b
        /\ u.read = kubeReads
        /\ u = [phase |-> u.phase, next |-> u.next, at |-> u.at, completed |-> u.completed,
                best |-> u.best, read |-> u.read]
    BY <1>5, <2>1, <2>2, <2>3
  <2>5. /\ kubeReads \in [{"config", "secret"} -> KubeReads]
        /\ \A j \in Index : j # i => /\ kubeReads["config"][j] = s.read["config"][j]
                                     /\ kubeReads["secret"][j] = s.read["secret"][j]
    <3>1. s.read["config"] \in KubeReads
      BY <1>2
    <3>2. [s.read["config"] EXCEPT ![i] = "asked"] \in KubeReads
      BY <2>1, <3>1 DEF KubeReads, ReadState
    <3>3. \A j \in Index : j # i => [s.read["config"] EXCEPT ![i] = "asked"][j] = s.read["config"][j]
      BY <3>1 DEF KubeReads
    <3>4. kubeReads["config"] = [s.read["config"] EXCEPT ![i] = "asked"] /\ kubeReads["secret"] = s.read["secret"]
      BY <1>2 DEF kubeReads
    <3>5. kubeReads \in [{"config", "secret"} -> KubeReads]
      BY <1>2, <3>2 DEF kubeReads
    <3>. QED
      BY <3>3, <3>4, <3>5
  <2>6. u \in KubeScans
    <3>1. u.phase \in {"lists", "visits", "done", "failed"}
      BY <2>4
    <3>2. u.completed \in Nat
      BY <1>2, <2>4
    <3>3. u.next \in 1..(Workloads + 1)
      BY <2>1, <2>4, WorkerIsIndex DEF Index
    <3>. QED
      BY <2>3, <2>4, <2>5, <3>1, <3>2, <3>3 DEF KubeScans
  <2>7. Busy(u) = Busy(s)
    BY <2>1, <2>3, <2>4 DEF Busy
  <2>8. u.completed + Cardinality(Busy(u)) = u.next - 1
    <3>1. s.completed + Cardinality(Busy(s)) = s.next - 1
      BY <1>0 DEF Visiting
    <3>. QED
      BY <1>2, <2>1, <2>4, <2>7, <3>1, BusyFinite DEF i
  <2>9. ASSUME NEW j \in Index, j < u.next, \A q \in Worker : u.at[q] # j PROVE SeenThrough(w, u, j)
    <3>1. j # i
      BY <2>3, <2>4, <2>9
    <3>2. j < s.next
      <4>1. j \in Nat /\ j < i + 1
        BY <2>4, <2>9 DEF Index
      <4>. QED
        BY <2>1, <3>1, <4>1 DEF i
    <3>3. u.read["config"][j] = s.read["config"][j] /\ u.read["secret"][j] = s.read["secret"][j]
      BY <2>4, <2>5, <3>1
    <3>4. CASE j = s.at[v]
      BY <1>3, <1>8, <2>4, <3>3, <3>4, SettledStays, StrengthType
    <3>5. CASE j # s.at[v]
      <4>1. \A q \in Worker : s.at[q] # j
        BY <2>3, <2>4, <2>9, <3>5
      <4>2. SeenThrough(w, s, j)
        BY <1>0, <3>2, <4>1 DEF Visiting
      <4>. QED
        BY <2>4, <3>3, <4>2, SettledStays
    <3>. QED
      BY <3>4, <3>5
  <2>10. \A q \in Worker : s.at[q] < i /\ s.at[q] # i
    <3>1. \A q \in Worker : s.at[q] < i
      BY <1>0 DEF Visiting, i
    <3>2. \A q \in Worker : s.at[q] \in Nat
      BY <1>2 DEF Index
    <3>. QED
      BY <2>1, <3>1, <3>2
  <2>11. \A q, p \in Worker : q # p /\ u.at[q] # 0 => u.at[q] # u.at[p]
    BY <1>0, <2>3, <2>4, <2>10 DEF Visiting
  <2>12. \A q \in Worker : u.at[q] < u.next
    <3>1. \A q \in Worker : s.at[q] \in Nat
      BY <1>2 DEF Index
    <3>. QED
      BY <2>1, <2>3, <2>4, <2>10, <3>1
  <2>13. \A q \in Worker : u.at[q] # 0
    <3>1. ASSUME NEW q \in Worker, s.at[q] = 0 PROVE FALSE
      <4>1. s.next = Workloads + 1
        BY <1>0, <3>1 DEF Visiting
      <4>. QED
        BY <1>7, <4>1, WorkerIsIndex
    <3>. QED
      BY <2>1, <2>3, <2>4, <3>1
  <2>14. Visiting(w, u)
    BY <2>8, <2>9, <2>11, <2>12, <2>13 DEF Visiting
  <2>15. u.phase = "visits"
    BY <2>4
  <2>. QED
    BY <2>6, <2>14, <2>15 DEF ScanSound, u, x
<1>. QED
  BY <1>6, <1>7

(* What is applied of credentials that are sound in themselves. *)
AppliedSound(r, o) ==
  /\ r.sasl = "iam" => r.ssl # {}
  /\ r.auth = "mtls" => "cert" \in r.ssl
  /\ Explicit(o) => r.sasl = o.auth /\ r.auth = o.auth

LEMMA AppliedOk ==
  ASSUME NEW found, found.sasl # "iam", found.auth = "mtls" => "cert" \in found.ssl,
         NEW o \in Override
  PROVE  AppliedSound(Applied(found, o), o)
<1>. DEFINE ssl == IF Iam(found, o) THEN Encrypted(found) ELSE Stripped(found, o)
            r == Applied(found, o)
<1>1. /\ r.ssl = ssl
      /\ r.sasl = IF Iam(found, o) THEN "iam" ELSE IF Explicit(o) THEN o.auth ELSE found.sasl
      /\ r.auth = Corrected(Auth(found, o), ssl)
  BY DEF Applied
<1>2. o.auth \in {"auto", "none", "scram", "plain", "iam"}
  BY CredentialAssumption
<1>3. Encrypted(found) # {}
  BY DEF Encrypted
<1>. HIDE DEF r
<1>4. r.sasl = "iam" => Iam(found, o)
  BY <1>1, <1>2 DEF Iam
<1>5. ASSUME r.auth = "mtls" PROVE "cert" \in r.ssl
  <2>1. ssl # {} /\ Auth(found, o) = "mtls"
    BY <1>1, <1>5 DEF Corrected, None
  <2>2. ~Explicit(o) /\ found.auth = "mtls" /\ ~Iam(found, o)
    BY <1>2, <2>1 DEF Auth, Iam, Explicit
  <2>3. ssl = Ssl(found, o)
    BY <2>2 DEF Stripped
  <2>4. ssl = found.ssl
    BY <2>1, <2>2, <2>3 DEF Ssl, Encrypted
  <2>. QED
    BY <1>1, <2>2, <2>4
<1>6. ASSUME Explicit(o) PROVE r.sasl = o.auth /\ r.auth = o.auth
  <2>1. Auth(found, o) = o.auth /\ o.auth # "mtls"
    BY <1>2, <1>6 DEF Auth
  <2>2. r.auth = o.auth
    BY <1>1, <2>1 DEF Corrected
  <2>3. Iam(found, o) => o.auth = "iam"
    BY <1>6 DEF Iam
  <2>. QED
    BY <1>1, <1>6, <2>2, <2>3
<1>7. r.sasl = "iam" => r.ssl # {}
  BY <1>1, <1>3, <1>4
<1>. QED
  BY <1>5, <1>6, <1>7 DEF AppliedSound, r

AskerShape ==
  asker = [a \in Asker |-> [at |-> asker[a].at, scan |-> asker[a].scan,
                           override |-> asker[a].override, result |-> asker[a].result]]

CredInv ==
  /\ workload \in [Index -> Container]
  /\ kubeScan \in Seq(KubeScans)
  /\ \A n \in Scan : ScanSound(workload, kubeScan[n])
  /\ profile \in {0} \cup Scan /\ dropped \in Nat /\ dropped <= Len(kubeScan)
  /\ ProfileIsSound
  /\ AskerShape
  /\ \A a \in Asker : asker[a].at = "waits" => asker[a].scan \in Scan
  /\ AppliedIsSound

LEMMA CredInitInv == CredentialInit => CredInv
<1>. SUFFICES ASSUME CredentialInit PROVE CredInv
  OBVIOUS
<1>1. kubeScan \in Seq(KubeScans) /\ Scan = {} /\ Len(kubeScan) = 0
  BY DEF CredentialInit, Scan
<1>2. AskerShape
  BY DEF CredentialInit, AskerShape
<1>3. \A a \in Asker : asker[a].at = "idle"
  BY DEF CredentialInit
<1>. QED
  BY <1>1, <1>2, <1>3 DEF CredentialInit, CredInv, ProfileIsSound, AppliedIsSound

(* A scan moves, and only fails if it had. *)
LEMMA KubeScanMoves ==
  ASSUME CredInv, NEW n \in Scan, NEW t, ScanSound(workload, t),
         t.phase = "failed" => kubeScan[n].phase = "failed",
         kubeScan' = [kubeScan EXCEPT ![n] = t], UNCHANGED <<workload, profile, dropped, asker>>
  PROVE  CredInv'
<1>1. t \in KubeScans
  BY DEF ScanSound
<1>2. kubeScan \in Seq(KubeScans) /\ n \in 1..Len(kubeScan)
  BY DEF CredInv, Scan
<1>3. /\ kubeScan' \in Seq(KubeScans) /\ Len(kubeScan') = Len(kubeScan) /\ Scan' = Scan
      /\ kubeScan'[n] = t /\ \A m \in Scan : m # n => kubeScan'[m] = kubeScan[m]
  BY <1>1, <1>2 DEF Scan
<1>4. \A m \in Scan : ScanSound(workload, kubeScan'[m])
  BY <1>3 DEF CredInv
<1>5. ProfileIsSound'
  BY <1>3 DEF CredInv, ProfileIsSound
<1>6. AskerShape' /\ AppliedIsSound'
  BY DEF CredInv, AskerShape, AppliedIsSound
<1>. HIDE DEF Scan
<1>. QED
  BY <1>3, <1>4, <1>5, <1>6 DEF CredInv

(* An asker moves; it has credentials only if they are sound. *)
LEMMA AskerMoves ==
  ASSUME CredInv, NEW a \in Asker, NEW x, asker' = [asker EXCEPT ![a] = x],
         x = [at |-> x.at, scan |-> x.scan, override |-> x.override, result |-> x.result],
         Scan \subseteq Scan', x.at = "waits" => x.scan \in Scan',
         x.at = "has" => AppliedSound(x.result, x.override)
  PROVE  /\ AskerShape' /\ AppliedIsSound'
         /\ \A b \in Asker : asker'[b].at = "waits" => asker'[b].scan \in Scan'
<1>1. asker = [b \in Asker |-> [at |-> asker[b].at, scan |-> asker[b].scan,
                               override |-> asker[b].override, result |-> asker[b].result]]
  BY DEF CredInv, AskerShape
<1>2. /\ DOMAIN asker = Asker /\ DOMAIN asker' = Asker
      /\ asker'[a] = x
      /\ \A b \in Asker : b # a => asker'[b] = asker[b]
      /\ asker' = [b \in Asker |-> asker'[b]]
  BY <1>1
<1>3. \A b \in Asker : asker[b] = [at |-> asker[b].at, scan |-> asker[b].scan,
                                   override |-> asker[b].override, result |-> asker[b].result]
  BY <1>1
<1>4. \A b \in Asker : asker'[b] = [at |-> asker'[b].at, scan |-> asker'[b].scan,
                                    override |-> asker'[b].override, result |-> asker'[b].result]
  BY <1>2, <1>3
<1>5. AskerShape'
  BY <1>2, <1>4 DEF AskerShape
<1>6. AppliedIsSound'
  BY <1>2 DEF CredInv, AppliedIsSound, AppliedSound
<1>7. \A b \in Asker : asker'[b].at = "waits" => asker'[b].scan \in Scan'
  BY <1>2 DEF CredInv
<1>. QED
  BY <1>5, <1>6, <1>7

LEMMA AskerIs ==
  ASSUME CredInv, NEW a \in Asker
  PROVE  /\ asker[a] = [at |-> asker[a].at, scan |-> asker[a].scan,
                       override |-> asker[a].override, result |-> asker[a].result]
         /\ DOMAIN asker = Asker
BY DEF CredInv, AskerShape

LEMMA NewScanSound == \A w : ScanSound(w, NewScan) /\ NewScan.phase = "lists"
<1>1. [s \in {"config", "secret"} |-> [i \in Index |-> "none"]] \in [{"config", "secret"} -> KubeReads]
  BY DEF KubeReads, ReadState
<1>2. 1 \in 1..(Workloads + 1)
  BY WorkerIsIndex
<1>3. NewScan \in KubeScans
  BY <1>1, <1>2 DEF NewScan, KubeScans, Profiles
<1>. QED
  BY <1>3 DEF NewScan, ScanSound

LEMMA LeftNeverFailed ==
  ASSUME NEW s \in KubeScans, s.phase = "visits", NEW b, NEW v
  PROVE  ScanLeft([s EXCEPT !.best = b], v).phase # "failed"
<1>. DEFINE x == [s EXCEPT !.best = b]
            y == [x EXCEPT !.completed = @ + 1]
            t == Taken(y, v, s.next)
<1>1. s = [phase |-> "visits", next |-> s.next, at |-> s.at, completed |-> s.completed,
           best |-> s.best, read |-> s.read]
  BY DEF KubeScans
<1>2. x = [phase |-> "visits", next |-> s.next, at |-> s.at, completed |-> s.completed,
           best |-> b, read |-> s.read]
  BY <1>1
<1>. HIDE DEF x
<1>3. y = [phase |-> "visits", next |-> s.next, at |-> s.at, completed |-> s.completed + 1,
           best |-> b, read |-> s.read]
  BY <1>2
<1>. HIDE DEF y
<1>4. t.phase = "visits"
  BY <1>3 DEF Taken
<1>5. DOMAIN t = {"phase", "next", "at", "completed", "best", "read"}
  BY <1>3 DEF Taken
<1>6. ScanLeft(x, v) = [t EXCEPT !.phase = IF \A q \in Worker : t.at[q] = 0 THEN "done" ELSE @]
  BY <1>2 DEF ScanLeft, y
<1>. HIDE DEF t
<1>7. ScanLeft(x, v).phase # "failed"
  BY <1>4, <1>5, <1>6
<1>. QED
  BY <1>7 DEF x

(* A request applies what it has found. *)
LEMMA AppliesKeeps ==
  ASSUME CredInv, NEW a \in Asker, NEW found, NEW o \in Override,
         found.sasl # "iam", found.auth = "mtls" => "cert" \in found.ssl,
         UNCHANGED <<workload, kubeScan, profile, dropped>>,
         asker' = [asker EXCEPT ![a] =
            IF Refuses(found, o) THEN [@ EXCEPT !.at = "refused", !.override = o]
            ELSE [@ EXCEPT !.at = "has", !.override = o, !.result = Applied(found, o)]]
  PROVE  CredInv'
<1>1. PICK x : /\ asker' = [asker EXCEPT ![a] = x]
              /\ x = IF Refuses(found, o) THEN [asker[a] EXCEPT !.at = "refused", !.override = o]
                     ELSE [asker[a] EXCEPT !.at = "has", !.override = o, !.result = Applied(found, o)]
  OBVIOUS
<1>2. x = IF Refuses(found, o)
          THEN [at |-> "refused", scan |-> asker[a].scan, override |-> o, result |-> asker[a].result]
          ELSE [at |-> "has", scan |-> asker[a].scan, override |-> o, result |-> Applied(found, o)]
  BY <1>1, AskerIs
<1>3. /\ x = [at |-> x.at, scan |-> x.scan, override |-> x.override, result |-> x.result]
      /\ x.at # "waits" /\ (x.at = "has" => x.result = Applied(found, o) /\ x.override = o)
  BY <1>2
<1>4. x.at = "has" => AppliedSound(x.result, x.override)
  BY <1>3, AppliedOk
<1>5. Scan' = Scan
  BY DEF Scan
<1>6. /\ AskerShape' /\ AppliedIsSound'
      /\ \A b \in Asker : asker'[b].at = "waits" => asker'[b].scan \in Scan'
  <2>1. asker' = [asker EXCEPT ![a] = x]
    BY <1>1
  <2>2. Scan \subseteq Scan' /\ (x.at = "waits" => x.scan \in Scan')
    BY <1>3, <1>5
  <2>3. x = [at |-> x.at, scan |-> x.scan, override |-> x.override, result |-> x.result]
    BY <1>3
  <2>. QED
    BY <1>4, <2>1, <2>2, <2>3, AskerMoves
<1>. QED
  BY <1>6 DEF CredInv, ProfileIsSound, Scan

LEMMA CredStep == CredInv /\ [CredentialNext]_credentialVars => CredInv'
<1>. SUFFICES ASSUME CredInv, [CredentialNext]_credentialVars PROVE CredInv'
  OBVIOUS
<1>1. CASE Drops
  <2>1. profile' = 0 /\ dropped' = Len(kubeScan) /\ UNCHANGED <<workload, kubeScan, asker>>
    BY <1>1 DEF Drops
  <2>2. Len(kubeScan) \in Nat
    BY DEF CredInv
  <2>. QED
    BY <2>1, <2>2 DEF CredInv, ProfileIsSound, AskerShape, AppliedIsSound, Scan
<1>2. ASSUME NEW a \in Asker, JoinsScan(a) PROVE CredInv'
  <2>1. /\ profile # 0 /\ UNCHANGED <<workload, kubeScan, profile, dropped>>
        /\ asker' = [asker EXCEPT ![a] = [@ EXCEPT !.at = "waits", !.scan = profile]]
    BY <1>2 DEF JoinsScan, Waits
  <2>2. PICK x : x = [asker[a] EXCEPT !.at = "waits", !.scan = profile]
                 /\ asker' = [asker EXCEPT ![a] = x]
    BY <2>1
  <2>3. profile \in Scan /\ Scan' = Scan
    BY <2>1 DEF CredInv, Scan
  <2>4. x = [at |-> "waits", scan |-> profile, override |-> asker[a].override,
             result |-> asker[a].result]
    <3>1. asker[a] = [at |-> asker[a].at, scan |-> asker[a].scan,
                      override |-> asker[a].override, result |-> asker[a].result]
      BY AskerIs
    <3>2. x = [asker[a] EXCEPT !.at = "waits", !.scan = profile]
      BY <2>2
    <3>. QED
      BY <3>1, <3>2
  <2>5. /\ x = [at |-> x.at, scan |-> x.scan, override |-> x.override, result |-> x.result]
        /\ x.at = "waits" /\ x.scan = profile
    BY <2>4
  <2>6. /\ AskerShape' /\ AppliedIsSound'
        /\ \A b \in Asker : asker'[b].at = "waits" => asker'[b].scan \in Scan'
    BY <2>2, <2>3, <2>5, AskerMoves
  <2>. QED
    BY <2>1, <2>6 DEF CredInv, ProfileIsSound, Scan
<1>3. ASSUME NEW a \in Asker, ResolvesProfile(a) PROVE CredInv'
  <2>1. /\ kubeScan' = Append(kubeScan, NewScan) /\ profile' = Len(kubeScan) + 1
        /\ UNCHANGED <<workload, dropped>>
        /\ asker' = [asker EXCEPT ![a] = [@ EXCEPT !.at = "waits", !.scan = Len(kubeScan) + 1]]
    BY <1>3 DEF ResolvesProfile, Waits
  <2>2. PICK x : x = [asker[a] EXCEPT !.at = "waits", !.scan = Len(kubeScan) + 1]
                 /\ asker' = [asker EXCEPT ![a] = x]
    BY <2>1
  <2>3. ScanSound(workload, NewScan) /\ NewScan.phase = "lists"
    BY NewScanSound
  <2>4. kubeScan \in Seq(KubeScans) /\ NewScan \in KubeScans
    BY <2>3 DEF CredInv, ScanSound
  <2>. DEFINE N == Len(kubeScan)
  <2>5. /\ kubeScan' \in Seq(KubeScans) /\ N \in Nat /\ Len(kubeScan') = N + 1
        /\ Scan' = Scan \cup {N + 1} /\ Scan = 1..N
        /\ kubeScan'[N + 1] = NewScan /\ \A m \in Scan : kubeScan'[m] = kubeScan[m]
    BY <2>1, <2>4 DEF Scan
  <2>6. \A m \in Scan' : ScanSound(workload, kubeScan'[m])
    BY <2>3, <2>5 DEF CredInv
  <2>7. ProfileIsSound'
    BY <2>1, <2>3, <2>5 DEF CredInv, ProfileIsSound
  <2>8. AskerShape' /\ AppliedIsSound' /\ \A b \in Asker : asker'[b].at = "waits" => asker'[b].scan \in Scan'
    <3>1. x = [at |-> "waits", scan |-> N + 1, override |-> asker[a].override,
               result |-> asker[a].result]
      <4>1. asker[a] = [at |-> asker[a].at, scan |-> asker[a].scan,
                        override |-> asker[a].override, result |-> asker[a].result]
        BY AskerIs
      <4>2. x = [asker[a] EXCEPT !.at = "waits", !.scan = N + 1]
        BY <2>2
      <4>. HIDE DEF N
      <4>. QED
        BY <4>1, <4>2
    <3>. HIDE DEF N
    <3>2. /\ x = [at |-> x.at, scan |-> x.scan, override |-> x.override, result |-> x.result]
          /\ x.at = "waits" /\ x.scan = N + 1
      BY <3>1
    <3>3. Scan \subseteq Scan' /\ N + 1 \in Scan'
      BY <2>5
    <3>. QED
      BY <2>2, <3>2, <3>3, AskerMoves
  <2>9. profile' \in Scan' /\ dropped' \in Nat /\ dropped' <= Len(kubeScan')
    BY <2>1, <2>5 DEF CredInv
  <2>. HIDE DEF N
  <2>. QED
    BY <2>1, <2>5, <2>6, <2>7, <2>8, <2>9 DEF CredInv
<1>4. ASSUME NEW a \in Asker, Applies(a) PROVE CredInv'
  <2>1. PICK o \in Override, tls \in BOOLEAN :
          asker' = [asker EXCEPT ![a] =
            IF Refuses(OfWorkload(kubeScan[asker[a].scan].best, tls), o)
            THEN [@ EXCEPT !.at = "refused", !.override = o]
            ELSE [@ EXCEPT !.at = "has", !.override = o,
                           !.result = Applied(OfWorkload(kubeScan[asker[a].scan].best, tls), o)]]
    BY <1>4 DEF Applies
  <2>2. UNCHANGED <<workload, kubeScan, profile, dropped>> /\ asker[a].scan \in Scan
    BY <1>4 DEF Applies, CredInv
  <2>. DEFINE best == kubeScan[asker[a].scan].best
              found == OfWorkload(best, tls)
  <2>3. best \in Profiles
    BY <2>2 DEF CredInv, ScanSound, KubeScans
  <2>4. found.sasl # "iam" /\ (found.auth = "mtls" => "cert" \in found.ssl)
    <3>. HIDE DEF best
    <3>. QED
      BY <2>3, ProfileSound DEF OfWorkload, None
  <2>5. asker' = [asker EXCEPT ![a] =
            IF Refuses(found, o)
            THEN [@ EXCEPT !.at = "refused", !.override = o]
            ELSE [@ EXCEPT !.at = "has", !.override = o, !.result = Applied(found, o)]]
    BY <2>1
  <2>. HIDE DEF found
  <2>. QED
    BY <2>2, <2>4, <2>5, AppliesKeeps
<1>5. ASSUME NEW a \in Asker, AppliesStrimzi(a) PROVE CredInv'
  <2>1. PICK o \in Override, tls \in BOOLEAN, user \in {"cert", "password", None} :
          asker' = [asker EXCEPT ![a] =
            IF Refuses(OfStrimzi(tls, user), o) THEN [@ EXCEPT !.at = "refused", !.override = o]
            ELSE [@ EXCEPT !.at = "has", !.override = o, !.result = Applied(OfStrimzi(tls, user), o)]]
    BY <1>5 DEF AppliesStrimzi
  <2>2. UNCHANGED <<workload, kubeScan, profile, dropped>>
    BY <1>5 DEF AppliesStrimzi
  <2>3. OfStrimzi(tls, user).sasl # "iam"
    BY DEF OfStrimzi, None
  <2>4. OfStrimzi(tls, user).auth = "mtls" => "cert" \in OfStrimzi(tls, user).ssl
    BY DEF OfStrimzi, None
  <2>. QED
    BY <2>1, <2>2, <2>3, <2>4, AppliesKeeps
<1>6. ASSUME NEW n \in Scan, ListsWorkloads(n) PROVE CredInv'
  <2>1. ScanSound(workload, kubeScan[n])
    BY DEF CredInv
  <2>2. ScanSound(workload, StartsScan(kubeScan[n])) /\ kubeScan[n].phase = "lists"
    BY <1>6, <2>1, StartsSound DEF ListsWorkloads
  <2>3. StartsScan(kubeScan[n]).phase # "failed"
    BY <2>1 DEF StartsScan, ScanSound, KubeScans
  <2>. QED
    BY <1>6, <2>2, <2>3, KubeScanMoves DEF ListsWorkloads
<1>7. ASSUME NEW n \in Scan, ListFails(n) PROVE CredInv'
  <2>1. /\ kubeScan[n].phase = "lists" /\ profile' = 0 /\ UNCHANGED <<workload, dropped>>
        /\ kubeScan' = [kubeScan EXCEPT ![n] = [kubeScan[n] EXCEPT !.phase = "failed"]]
        /\ asker' = [a \in Asker |->
                       IF asker[a].at = "waits" /\ asker[a].scan = n
                       THEN [asker[a] EXCEPT !.at = "failed"] ELSE asker[a]]
    BY <1>7 DEF ListFails, Removed
  <2>. DEFINE t == [kubeScan[n] EXCEPT !.phase = "failed"]
  <2>2. kubeScan[n] \in KubeScans
    BY DEF CredInv, ScanSound
  <2>3. t \in KubeScans /\ t.phase = "failed"
    BY <2>2 DEF KubeScans
  <2>. HIDE DEF t
  <2>4. ScanSound(workload, t)
    BY <2>3 DEF ScanSound
  <2>5. kubeScan \in Seq(KubeScans) /\ n \in 1..Len(kubeScan)
    BY DEF CredInv, Scan
  <2>6. /\ kubeScan' \in Seq(KubeScans) /\ Len(kubeScan') = Len(kubeScan) /\ Scan' = Scan
        /\ kubeScan'[n] = t /\ \A m \in Scan : m # n => kubeScan'[m] = kubeScan[m]
    BY <2>1, <2>3, <2>5 DEF Scan, t
  <2>7. \A m \in Scan : ScanSound(workload, kubeScan'[m])
    BY <2>4, <2>6 DEF CredInv
  <2>8. \A a \in Asker : asker[a] = [at |-> asker[a].at, scan |-> asker[a].scan,
                                    override |-> asker[a].override, result |-> asker[a].result]
    BY DEF CredInv, AskerShape
  <2>9. \A a \in Asker :
          \/ asker'[a] = asker[a]
          \/ asker'[a] = [at |-> "failed", scan |-> asker[a].scan,
                          override |-> asker[a].override, result |-> asker[a].result]
    <3>. TAKE a \in Asker
    <3>1. PICK x : x = [asker[a] EXCEPT !.at = "failed"]
      OBVIOUS
    <3>2. asker'[a] = IF asker[a].at = "waits" /\ asker[a].scan = n THEN x ELSE asker[a]
      BY <2>1, <3>1
    <3>3. x = [at |-> "failed", scan |-> asker[a].scan, override |-> asker[a].override,
               result |-> asker[a].result]
      <4>1. asker[a] = [at |-> asker[a].at, scan |-> asker[a].scan,
                        override |-> asker[a].override, result |-> asker[a].result]
        BY AskerIs
      <4>. QED
        BY <3>1, <4>1
    <3>. QED
      BY <3>2, <3>3
  <2>10. \A a \in Asker : asker'[a] = [at |-> asker'[a].at, scan |-> asker'[a].scan,
                                       override |-> asker'[a].override, result |-> asker'[a].result]
    <3>. TAKE a \in Asker
    <3>1. asker[a] = [at |-> asker[a].at, scan |-> asker[a].scan,
                      override |-> asker[a].override, result |-> asker[a].result]
      BY <2>8
    <3>2. CASE asker'[a] = asker[a]
      BY <3>1, <3>2
    <3>3. CASE asker'[a] = [at |-> "failed", scan |-> asker[a].scan,
                            override |-> asker[a].override, result |-> asker[a].result]
      BY <3>3
    <3>. QED
      BY <2>9, <3>2, <3>3
  <2>11. asker' = [a \in Asker |-> asker'[a]]
    BY <2>1
  <2>12. AskerShape'
    BY <2>10, <2>11 DEF AskerShape
  <2>13. \A a \in Asker : asker'[a] = asker[a] \/ asker'[a].at = "failed"
    <3>. TAKE a \in Asker
    <3>1. CASE asker'[a] = [at |-> "failed", scan |-> asker[a].scan,
                            override |-> asker[a].override, result |-> asker[a].result]
      BY <3>1
    <3>. QED
      BY <2>9, <3>1
  <2>14. AppliedIsSound' /\ \A a \in Asker : asker'[a].at = "waits" => asker'[a].scan \in Scan
    BY <2>13 DEF CredInv, AppliedIsSound
  <2>. QED
    BY <2>1, <2>6, <2>7, <2>12, <2>14 DEF CredInv, ProfileIsSound
<1>8. ASSUME NEW n \in Scan, NEW kind \in {"config", "secret"}, NEW i \in Index, ReadsSecret(n, kind, i)
      PROVE  CredInv'
  <2>1. PICK how \in {"had", "lost"} : kubeScan' = [kubeScan EXCEPT ![n].read[kind][i] = how]
    BY <1>8 DEF ReadsSecret
  <2>2. ScanSound(workload, kubeScan[n]) /\ kubeScan[n].read[kind][i] = "asked"
        /\ UNCHANGED <<workload, profile, dropped, asker>>
    BY <1>8 DEF CredInv, ReadsSecret
  <2>. DEFINE t == [kubeScan[n] EXCEPT !.read[kind][i] = how]
  <2>3. kubeScan' = [kubeScan EXCEPT ![n] = t]
    BY <2>1
  <2>4. ScanSound(workload, t)
    BY <2>2, ReadKeeps
  <2>5. t.phase = kubeScan[n].phase
    BY <2>2 DEF ScanSound, KubeScans
  <2>. HIDE DEF t
  <2>. QED
    BY <2>2, <2>3, <2>4, <2>5, KubeScanMoves
<1>9. ASSUME NEW n \in Scan, NEW v \in Worker, Visits(n, v) PROVE CredInv'
  <2>. DEFINE s == kubeScan[n]
              i == s.at[v]
  <2>1. /\ s.phase = "visits" /\ i # 0 /\ UNCHANGED <<workload, profile, dropped, asker>>
        /\ ScanSound(workload, s)
    BY <1>9 DEF Visits, CredInv
  <2>2. s \in KubeScans /\ s.best \in Profiles /\ i \in Index
    BY <2>1 DEF ScanSound, KubeScans
  <2>3. /\ Matches(s, i) <=> MatchesOf(workload, s, i)
        /\ Environment(s, i) = EnvironmentOf(workload, s, i)
    BY DEF Matches, MatchesOf, Environment, EnvironmentOf
  <2>4. \/ /\ s.read["config"][i] \in {"had", "lost"} /\ ~Matches(s, i)
           /\ kubeScan' = [kubeScan EXCEPT ![n] = ScanLeft(s, v)]
        \/ /\ Matches(s, i) /\ s.read["secret"][i] = "none"
           /\ kubeScan' = [kubeScan EXCEPT ![n].read["secret"][i] = "asked"]
        \/ /\ Matches(s, i) /\ s.read["secret"][i] \in {"had", "lost"}
           /\ kubeScan' = [kubeScan EXCEPT ![n] =
                 ScanLeft([s EXCEPT !.best = Strongest(s, Parsed(Environment(s, i)))], v)]
    BY <1>9 DEF Visits
  <2>5. kubeScan[n] = s
    OBVIOUS
  <2>. HIDE DEF s
  <2>6. CASE s.read["config"][i] \in {"had", "lost"} /\ ~Matches(s, i)
              /\ kubeScan' = [kubeScan EXCEPT ![n] = ScanLeft(s, v)]
    <3>1. s = [s EXCEPT !.best = s.best]
      BY <2>2 DEF KubeScans
    <3>2. SeenThrough(workload, s, i)
      BY <2>3, <2>6 DEF SeenThrough
    <3>3. Strength(s.best) >= Strength(s.best)
      BY StrengthType
    <3>4. ScanSound(workload, ScanLeft([s EXCEPT !.best = s.best], v))
      BY <2>1, <2>2, <3>1, <3>2, <3>3, LeavesSound
    <3>5. ScanSound(workload, ScanLeft(s, v))
      BY <3>1, <3>4
    <3>6. ScanLeft([s EXCEPT !.best = s.best], v).phase # "failed"
      BY <2>1, <2>2, LeftNeverFailed
    <3>7. ScanLeft(s, v).phase # "failed"
      BY <3>1, <3>6
    <3>. QED
      BY <2>1, <2>6, <3>5, <3>7, KubeScanMoves
  <2>7. CASE Matches(s, i) /\ kubeScan' = [kubeScan EXCEPT ![n].read["secret"][i] = "asked"]
    <3>. DEFINE t == [s EXCEPT !.read["secret"][i] = "asked"]
    <3>1. ScanSound(workload, t)
      BY <2>1, <2>2, ReadKeeps
    <3>2. t.phase = s.phase
      BY <2>2 DEF KubeScans
    <3>3. kubeScan' = [kubeScan EXCEPT ![n] = t]
      BY <2>5, <2>7
    <3>. HIDE DEF t
    <3>. QED
      BY <2>1, <2>5, <3>1, <3>2, <3>3, KubeScanMoves
  <2>8. CASE /\ Matches(s, i) /\ s.read["secret"][i] \in {"had", "lost"}
             /\ kubeScan' = [kubeScan EXCEPT ![n] =
                   ScanLeft([s EXCEPT !.best = Strongest(s, Parsed(Environment(s, i)))], v)]
    <3>. DEFINE p == Parsed(Environment(s, i))
                b == Strongest(s, p)
                x == [s EXCEPT !.best = b]
    <3>1. p \in Profiles
      <4>1. workload[i] \in Container
        BY <2>2 DEF CredInv
      <4>2. Environment(s, i) \in SUBSET STRING
        BY <4>1, CredentialAssumption DEF Environment
      <4>. QED
        BY <4>2 DEF Profiles
    <3>2. p = Parsed(EnvironmentOf(workload, s, i))
      BY <2>3
    <3>. HIDE DEF p
    <3>3. b \in Profiles /\ Strength(b) >= Strength(s.best) /\ Strength(b) >= Strength(p)
      BY <2>2, <3>1, StrengthType DEF Strongest
    <3>. HIDE DEF b
    <3>4. x.best = b /\ x.read = s.read
      BY <2>2 DEF KubeScans
    <3>5. SeenThrough(workload, x, i)
      <4>. HIDE DEF x
      <4>1. x.read["config"][i] = "had" /\ x.read["secret"][i] # "asked"
        BY <2>8, <3>4 DEF Matches
      <4>2. EnvironmentOf(workload, x, i) = EnvironmentOf(workload, s, i)
        BY <3>4 DEF EnvironmentOf
      <4>. QED
        BY <3>2, <3>3, <3>4, <4>1, <4>2 DEF SeenThrough
    <3>6. ScanSound(workload, ScanLeft(x, v))
      BY <2>1, <3>3, <3>5, LeavesSound
    <3>7. ScanLeft(x, v).phase # "failed"
      BY <2>1, <2>2, LeftNeverFailed
    <3>8. kubeScan' = [kubeScan EXCEPT ![n] = ScanLeft(x, v)]
      BY <2>8 DEF b, p
    <3>. HIDE DEF x
    <3>. QED
      BY <2>1, <3>6, <3>7, <3>8, KubeScanMoves
  <2>. QED
    BY <2>4, <2>6, <2>7, <2>8
<1>10. CASE UNCHANGED credentialVars
  BY <1>10 DEF credentialVars, CredInv, ProfileIsSound, AskerShape, AppliedIsSound, Scan
<1>. QED
  BY <1>1, <1>2, <1>3, <1>4, <1>5, <1>6, <1>7, <1>8, <1>9, <1>10 DEF CredentialNext

LEMMA CredHolds == CredInv => CredentialsAreSound
<1>. SUFFICES ASSUME CredInv, NEW n \in Scan, kubeScan[n].phase = "done"
              PROVE  /\ kubeScan[n].completed = Workloads
                     /\ \A i \in Index : Matches(kubeScan[n], i) =>
                          Strength(kubeScan[n].best) >= Strength(Parsed(Environment(kubeScan[n], i)))
  BY DEF CredInv, CredentialsAreSound, StrongestFound
<1>. DEFINE s == kubeScan[n]
<1>1. /\ s \in KubeScans /\ Visiting(workload, s) /\ Busy(s) = {} /\ s.next = Workloads + 1
  BY DEF CredInv, ScanSound
<1>. HIDE DEF s
<1>2. s.completed = Workloads
  <2>1. s.completed \in Nat /\ Cardinality(Busy(s)) = 0
    BY <1>1, FS_EmptySet DEF KubeScans
  <2>2. s.completed + Cardinality(Busy(s)) = s.next - 1
    BY <1>1 DEF Visiting
  <2>. QED
    BY <1>1, <2>1, <2>2, WorkerIsIndex
<1>3. ASSUME NEW i \in Index, Matches(s, i)
      PROVE  Strength(s.best) >= Strength(Parsed(Environment(s, i)))
  <2>1. \A v \in Worker : s.at[v] # i
    BY <1>1 DEF Busy, Index
  <2>2. i < s.next
    BY <1>1, WorkerIsIndex DEF Index
  <2>3. SeenThrough(workload, s, i)
    BY <1>1, <2>1, <2>2 DEF Visiting
  <2>. QED
    BY <1>3, <2>3 DEF SeenThrough, Matches, MatchesOf, Environment, EnvironmentOf
<1>. QED
  BY <1>2, <1>3 DEF s

(* For any workloads, visitors, orders of reads and what users have set: the credentials a
   connection gets are the strongest that could be read, not of a dropped profile, and sound. *)
THEOREM CredentialsAlwaysSound == CredentialSpec => []CredentialsAreSound
<1>. QED
  BY CredInitInv, CredStep, CredHolds, PTL DEF CredentialSpec

-----------------------------------------------------------------------------
(* The types of the parts, with the bounds they add to the invariants.     *)

UseRecords ==
  [of : Needs \cup {Admin}, at : {"none", "admin", "cluster", "works", "leaves", "done"}]

(* While listeners are opened one is still missing, so that their numbers are those of brokers. *)
ConnectionBounds ==
  /\ use \in [Use -> UseRecords] /\ direct \in BOOLEAN /\ seed \in BOOLEAN /\ hooked \in BOOLEAN
  /\ gone \in BOOLEAN /\ servers \subseteq 1..Brokers
  /\ stage \in {"seed", "metadata"} => servers = {}
  /\ stage = "brokers" => Cardinality(servers) < Brokers

LEMMA ConnectionBoundsInit == ConnectionInit => ConnectionBounds
<1>1. Idle \in UseRecords
  BY DEF Idle, UseRecords
<1>2. Cardinality({}) = 0 /\ Brokers \in Nat \ {0}
  BY FS_EmptySet, ConnectionAssumption
<1>. QED
  BY <1>1, <1>2 DEF ConnectionInit, ConnectionBounds

LEMMA UseMovesKeeps ==
  ASSUME ConnectionBounds, NEW u \in Use, NEW at \in {"none", "admin", "cluster", "works", "leaves", "done"},
         To(u, at)
  PROVE  use' \in [Use -> UseRecords]
<1>. DEFINE x == [use[u] EXCEPT !.at = at]
<1>1. use[u] \in UseRecords
  BY DEF ConnectionBounds
<1>2. x \in UseRecords
  BY <1>1 DEF UseRecords
<1>3. use' = [use EXCEPT ![u] = x]
  BY DEF To
<1>. HIDE DEF x
<1>. QED
  BY <1>2, <1>3 DEF ConnectionBounds

LEMMA ConnectionBoundsStep ==
  ConnectionInv /\ ConnectionBounds /\ [ConnectionNext]_connectionVars => ConnectionBounds'
<1>. SUFFICES ASSUME ConnectionInv, ConnectionBounds, [ConnectionNext]_connectionVars
              PROVE  ConnectionBounds'
  OBVIOUS
<1>. USE DEF ConnectionBounds
<1>0. Brokers \in Nat \ {0} /\ Cardinality({}) = 0
  BY ConnectionAssumption, FS_EmptySet
<1>1. CASE OpensSeed
  BY <1>1 DEF OpensSeed, FailsToConnect
<1>2. CASE ReadsMetadata
  <2>1. servers' = {}
    BY <1>2 DEF ReadsMetadata, FailsToConnect
  <2>2. Cardinality(servers') < Brokers
    BY <1>0, <2>1
  <2>. QED
    BY <1>2, <2>1, <2>2 DEF ReadsMetadata, FailsToConnect
<1>3. CASE OpensBroker
  <2>1. IsFiniteSet(1..Brokers)
    BY <1>0, FS_Interval
  <2>2. IsFiniteSet(servers) /\ Cardinality(servers) \in Nat
    BY <2>1, FS_Subset, FS_CardinalityType
  <2>. DEFINE n == Cardinality(servers)
  <2>3. n < Brokers /\ n + 1 \in 1..Brokers
    BY <1>0, <1>3, <2>2 DEF OpensBroker
  <2>4. Cardinality(servers \cup {n + 1}) \in {n, n + 1}
    <3>. HIDE DEF n
    <3>1. \A x : Cardinality(servers \cup {x}) = IF x \in servers THEN n ELSE n + 1
      BY <2>2, FS_AddElement DEF n
    <3>. QED
      BY <3>1
  <2>. HIDE DEF n
  <2>5. CASE FailsToConnect
    BY <1>3, <2>5 DEF OpensBroker, FailsToConnect
  <2>6. CASE ~FailsToConnect
    <3>1. /\ servers' = servers \cup {n + 1} /\ UNCHANGED <<direct, seed, tunnels, gone, use>>
          /\ IF Cardinality(servers') = Brokers
             THEN stage' = "open" /\ hooked' = TRUE ELSE UNCHANGED <<stage, hooked>>
      BY <1>3, <2>6 DEF OpensBroker, n
    <3>2. stage = "brokers"
      BY <1>3 DEF OpensBroker
    <3>3. Cardinality(servers') \in Nat /\ Cardinality(servers') <= Brokers
      BY <1>0, <2>2, <2>3, <2>4, <3>1 DEF n
    <3>4. servers' \subseteq 1..Brokers
      BY <2>3, <3>1
    <3>5. CASE Cardinality(servers') = Brokers
      BY <3>1, <3>4, <3>5
    <3>6. CASE Cardinality(servers') # Brokers
      <4>1. Cardinality(servers') < Brokers /\ UNCHANGED <<stage, hooked>>
        BY <1>0, <3>1, <3>3, <3>6
      <4>. QED
        BY <3>1, <3>2, <3>4, <4>1
    <3>. QED
      BY <3>5, <3>6
  <2>. QED
    BY <2>5, <2>6
<1>4. CASE ClusterConnects
  BY <1>4 DEF ClusterConnects, Quits, lifeVars
<1>5. CASE ClusterFails
  <2>1. \A u \in Use : [use[u] EXCEPT !.at = "leaves"] \in UseRecords
    BY DEF UseRecords
  <2>2. use' \in [Use -> UseRecords]
    BY <1>5, <2>1 DEF ClusterFails, Rejects
  <2>. QED
    BY <1>5, <2>2 DEF ClusterFails, lifeVars
<1>6. CASE TunnelsClose
  BY <1>6 DEF TunnelsClose
<1>7. ASSUME NEW u \in Use, Begins(u) PROVE ConnectionBounds'
  <2>1. \A needs \in Needs :
          [of |-> needs, at |-> IF needs.admin THEN "admin" ELSE "cluster"] \in UseRecords
    BY DEF UseRecords
  <2>2. use' \in [Use -> UseRecords]
    BY <1>7, <2>1 DEF Begins
  <2>. QED
    BY <1>7, <2>2 DEF Begins, lifeVars
<1>8. ASSUME NEW u \in Use, AdminConnects(u) \/ WorkEnds(u) \/ LeavesUse(u) PROVE ConnectionBounds'
  <2>1. \E at \in {"none", "admin", "cluster", "works", "leaves", "done"} : To(u, at)
    BY <1>8 DEF AdminConnects, WorkEnds, LeavesUse
  <2>2. use' \in [Use -> UseRecords]
    BY <2>1, UseMovesKeeps
  <2>. QED
    BY <1>8, <2>2 DEF AdminConnects, WorkEnds, LeavesUse, lifeVars
<1>9. ASSUME NEW u \in Use, GetsCluster(u) PROVE ConnectionBounds'
  <2>1. use' = use \/ \E at \in {"none", "admin", "cluster", "works", "leaves", "done"} : To(u, at)
    BY <1>9 DEF GetsCluster
  <2>2. use' \in [Use -> UseRecords]
    BY <2>1, UseMovesKeeps
  <2>. QED
    BY <1>9, <2>2 DEF GetsCluster, lifeVars
<1>10. ASSUME NEW d \in Closer, Disconnects(d) \/ WaitEnds(d) \/ ClusterClosed(d) PROVE ConnectionBounds'
  BY <1>10 DEF Disconnects, WaitEnds, ClusterClosed, lifeVars
<1>11. ASSUME NEW d \in Closer, ClosesPorts(d) PROVE ConnectionBounds'
  <2>1. servers' = {}
    BY <1>11 DEF ClosesPorts
  <2>2. Cardinality(servers') < Brokers
    BY <1>0, <2>1
  <2>. QED
    BY <1>11, <2>1, <2>2 DEF ClosesPorts
<1>12. CASE UNCHANGED connectionVars
  BY <1>12 DEF connectionVars
<1>. QED
  BY <1>1, <1>2, <1>3, <1>4, <1>5, <1>6, <1>7, <1>8, <1>9, <1>10, <1>11, <1>12
     DEF ConnectionNext, ConnectMoves, UseMoves, CloserMoves

LEMMA ConnectionTyped == ConnectionSpec => []ConnectionTypeOK
<1>1. ConnectionSpec => [](ConnectionInv /\ ConnectionBounds)
  BY ConnectionInitInv, ConnectionStep, ConnectionBoundsInit, ConnectionBoundsStep, PTL
     DEF ConnectionSpec
<1>2. ConnectionInv /\ ConnectionBounds => ConnectionTypeOK
  <2>. SUFFICES ASSUME ConnectionInv, ConnectionBounds PROVE ConnectionTypeOK
    OBVIOUS
  <2>1. \A u \in Use : use[u].at \in {"none", "admin", "cluster", "works", "leaves", "done"}
    BY DEF ConnectionBounds, UseRecords
  <2>2. closings \in Nat
    BY DEF ConnectionInv, OneHand
  <2>. QED
    BY <2>1, <2>2 DEF ConnectionInv, Closers, ConnectionBounds, ConnectionTypeOK
<1>. QED
  BY <1>1, <1>2, PTL

-----------------------------------------------------------------------------
ScanBounds ==
  /\ aborting \subseteq Caller /\ heeded \subseteq Caller /\ recent \in BOOLEAN

LEMMA ScanBoundsStep == ScanInv /\ ScanBounds /\ [ScanNext]_scanVars => ScanBounds'
<1>. SUFFICES ASSUME ScanInv, ScanBounds, [ScanNext]_scanVars PROVE ScanBounds'
  OBVIOUS
<1>. USE DEF ScanBounds
<1>1. ASSUME NEW c \in Caller, Calls(c) \/ StopsWaiting(c) PROVE ScanBounds'
  BY <1>1 DEF Calls, StopsWaiting, Joins
<1>2. ASSUME NEW c \in Caller, HearsPart(c) \/ Aborts(c) PROVE ScanBounds'
  BY <1>2 DEF HearsPart, Aborts, Leaves
<1>3. ASSUME NEW c \in Caller, Answers(c) PROVE ScanBounds'
  BY <1>3 DEF Answers, indexVars
<1>4. ASSUME NEW s \in Caller, Breaks(s) \/ Lists(s) \/ BatchAnswers(s)
                               \/ (\E g \in Group : FallsBack(s, g))
      PROVE  ScanBounds'
  BY <1>4 DEF Breaks, Lists, BatchAnswers, FallsBack, BuildFails, indexVars
<1>5. ASSUME NEW s \in Caller, Completes(s) PROVE ScanBounds'
  BY <1>5 DEF Completes
<1>6. CASE ClearIndex \/ Expires
  BY <1>6 DEF ClearIndex, Expires
<1>7. CASE UNCHANGED scanVars
  BY <1>7 DEF scanVars
<1>. QED
  BY <1>1, <1>2, <1>3, <1>4, <1>5, <1>6, <1>7 DEF ScanNext, ScanMoves, Builds

LEMMA ScanTyped == ScanSpec => []ScanTypeOK
<1>1. ScanInit => ScanBounds
  BY DEF ScanInit, ScanBounds
<1>2. ScanSpec => [](ScanInv /\ ExactTyped /\ ScanBounds)
  BY <1>1, ExactAlways, ScanInitInv, ScanStep, ScanBoundsStep, PTL DEF ScanSpec
<1>3. ScanInv /\ ExactTyped /\ ScanBounds => ScanTypeOK
  <2>. SUFFICES ASSUME ScanInv, ExactTyped, ScanBounds PROVE ScanTypeOK
    OBVIOUS
  <2>1. \A c \in Caller : caller[c] \in CallerRecords /\ scan[c] \in ScanRecords
    BY DEF ScanInv, ScanTypes
  <2>2. shared # NoCaller => scan[shared].at \in Phases
    BY DEF ScanInv, SharedRuns, Runs
  <2>. QED
    BY <2>1, <2>2 DEF ScanInv, ScanTypes, ExactTyped, ScanBounds, ScanTypeOK, CallerRecords, ScanRecords
<1>. QED
  BY <1>2, <1>3, PTL
-----------------------------------------------------------------------------
BatchBounds ==
  /\ moves \in 0..MaxMoves /\ reads \in 0..MaxReads
  /\ capability \in {"unknown", "supported", "unsupported"} /\ ready \in BOOLEAN
  /\ \A g \in Scanned : known[g] = {} \/ \E b \in Broker : known[g] = {b}
  /\ refused \subseteq Scanned \X Broker

LEMMA BatchBoundsStep == BatchInv /\ BatchBounds /\ [BatchNext]_batchVars => BatchBounds'
<1>. SUFFICES ASSUME BatchInv, BatchBounds, [BatchNext]_batchVars PROVE BatchBounds'
  OBVIOUS
<1>. USE DEF BatchBounds
<1>0. MaxMoves \in Nat /\ MaxReads \in Nat
  BY BatchAssumption
<1>1. CASE BeginsRead \/ BootstrapFails \/ EndsRead \/ CancelsRead
  <2>1. UNCHANGED <<moves, capability, known, ready, refused>>
    BY <1>1 DEF BeginsRead, BootstrapFails, EndsRead, CancelsRead
  <2>2. reads' = reads \/ (reads < MaxReads /\ reads' = reads + 1)
    BY <1>1 DEF BeginsRead, BootstrapFails, EndsRead, CancelsRead
  <2>. QED
    BY <1>0, <2>1, <2>2
<1>2. ASSUME NEW chunk, NEW found \in SUBSET Scanned, NEW disables, LookedUp(chunk, found, disables)
      PROVE  BatchBounds'
  <2>1. \A g \in Scanned : where[g] \in Broker
    BY DEF BatchInv, BatchTypes
  <2>2. known' = [g \in Scanned |-> IF g \in found THEN {where[g]} ELSE known[g]]
    BY <1>2 DEF LookedUp
  <2>3. \A g \in Scanned : known'[g] = {} \/ \E b \in Broker : known'[g] = {b}
    BY <2>1, <2>2
  <2>4. capability' \in {"unsupported", capability} /\ UNCHANGED <<moves, ready, reads>>
        /\ refused' \subseteq refused
    BY <1>2 DEF LookedUp
  <2>. QED
    BY <2>3, <2>4
<1>3. CASE Lookup \/ LookupFails
  <2>1. read.left \in SUBSET Scanned
    BY DEF BatchInv, BatchTypes, ReadRecords
  <2>2. CASE Lookup
    BY <1>2, <2>1, <2>2 DEF Lookup
  <2>3. CASE LookupFails /\ read.cancelled
    BY <2>3 DEF LookupFails
  <2>4. CASE LookupFails /\ ~read.cancelled
    BY <1>2, <2>1, <2>4 DEF LookupFails
  <2>. QED
    BY <1>3, <2>2, <2>3, <2>4
<1>4. ASSUME NEW how \in BOOLEAN, Refreshes(how) \/ FindsBootstrap(how) PROVE BatchBounds'
  BY <1>4 DEF Refreshes, FindsBootstrap
<1>5. ASSUME NEW b \in Broker, StartsRequest(b) \/ FindsBroker(b) PROVE BatchBounds'
  BY <1>5 DEF StartsRequest, FindsBroker
<1>6. ASSUME NEW b \in Broker, NEW moved \in SUBSET Scanned, NEW disables, Learns(b, moved, disables),
             UNCHANGED <<moves, reads>>
      PROVE  BatchBounds'
  BY <1>6 DEF Learns, ForgetsMoved
<1>7. \A b \in Broker : requests[b].groups \in SUBSET Scanned /\ stray[b] \in SUBSET Scanned
  BY DEF BatchInv, BatchTypes, RequestRecords
<1>8. ASSUME NEW b \in Broker, FetchAnswers(b) PROVE BatchBounds'
  <2>1. requests[b].groups \ AnswersFor(requests[b].groups, b) \in SUBSET Scanned
    BY <1>7
  <2>. QED
    BY <1>6, <1>8, <2>1 DEF FetchAnswers
<1>9. ASSUME NEW b \in Broker, StraySettles(b) PROVE BatchBounds'
  <2>1. stray[b] \ AnswersFor(stray[b], b) \in SUBSET Scanned
    BY <1>7
  <2>2. CASE UNCHANGED <<capability, known, ready, refused>>
    BY <1>9, <2>2 DEF StraySettles
  <2>. QED
    BY <1>6, <1>9, <2>1, <2>2 DEF StraySettles
<1>10. ASSUME NEW b \in Broker, FetchFails(b) PROVE BatchBounds'
  BY <1>10 DEF FetchFails
<1>11. ASSUME NEW g \in Scanned, NEW b \in Broker, CoordinatorMoves(g, b) PROVE BatchBounds'
  BY <1>0, <1>11 DEF CoordinatorMoves
<1>12. CASE UNCHANGED batchVars
  BY <1>12 DEF batchVars
<1>. QED
  BY <1>1, <1>3, <1>4, <1>5, <1>8, <1>9, <1>10, <1>11, <1>12 DEF BatchNext

LEMMA BatchTyped == BatchSpec => []BatchTypeOK
<1>1. BatchInit => BatchBounds
  <2>1. 0 \in 0..MaxMoves /\ 0 \in 0..MaxReads
    BY BatchAssumption
  <2>2. BatchInit => \A g \in Scanned : known[g] = {}
    BY DEF BatchInit
  <2>. QED
    BY <2>1, <2>2 DEF BatchInit, BatchBounds
<1>2. BatchInv /\ [BatchNext]_batchVars => BatchInv'
  BY BatchStep DEF BatchHeeds
<1>3. BatchSpec => [](BatchInv /\ BatchBounds)
  BY <1>1, <1>2, BatchInitInv, BatchBoundsStep, PTL DEF BatchSpec
<1>4. BatchInv /\ BatchBounds => BatchTypeOK
  <2>. SUFFICES ASSUME BatchInv, BatchBounds PROVE BatchTypeOK
    OBVIOUS
  <2>1. \A b \in Broker : requests[b] \in RequestRecords /\ stray[b] \in SUBSET Scanned
    BY DEF BatchInv, BatchTypes
  <2>2. read \in ReadRecords
    BY DEF BatchInv, BatchTypes
  <2>3. ASSUME NEW g \in Scanned PROVE known[g] \subseteq Broker /\ Cardinality(known[g]) <= 1
    <3>1. known[g] \subseteq Broker
      BY DEF BatchBounds
    <3>2. CASE known[g] = {}
      <4>1. Cardinality({}) <= 1
        BY FS_EmptySet
      <4>. QED
        BY <3>1, <3>2, <4>1
    <3>3. ASSUME NEW b \in Broker, known[g] = {b} PROVE Cardinality(known[g]) <= 1
      BY <3>3, FS_Singleton
    <3>. QED
      BY <3>1, <3>2, <3>3 DEF BatchBounds
  <2>. QED
    BY <2>1, <2>2, <2>3
    DEF BatchInv, BatchTypes, BatchBounds, BatchTypeOK, ReadRecords, RequestRecords
<1>. QED
  BY <1>3, <1>4, PTL

-----------------------------------------------------------------------------
MeasuredRecords == [failed : BOOLEAN, high : SUBSET Part]
HealthBounds ==
  /\ leaderOf \in [Part -> Node \cup {Leaderless}] /\ step \in Steps /\ topics \subseteq Topics
  /\ batch \in [left : SUBSET Node, high : SUBSET Part] /\ aborted \in BOOLEAN
  /\ measured \in [Topics -> MeasuredRecords] /\ health.lag \in Outcome

LEMMA HealthBoundsStep == HealthInv /\ HealthBounds /\ [HealthNext]_healthVars => HealthBounds'
<1>. SUFFICES ASSUME HealthInv, HealthBounds, [HealthNext]_healthVars PROVE HealthBounds'
  OBVIOUS
<1>. USE DEF HealthBounds
<1>0. Used \subseteq Part
  BY DEF Used, Committed, HealthInv
<1>1. NoBatch \in [left : SUBSET Node, high : SUBSET Part]
  BY DEF NoBatch
<1>2. CASE MeasuresTopology \/ HealthAborts \/ IndexReplaced
  BY <1>2 DEF MeasuresTopology, HealthAborts, IndexReplaced, HealthEnds, Steps
<1>3. CASE GroupsFail
  BY <1>3 DEF GroupsFail, HealthEnds, Steps, Outcome
<1>4. CASE GroupsRead
  <2>1. PICK got \in [Consumer -> SUBSET Part] :
          batch' = [left |-> Leaders(UNION {got[g] : g \in Consumer}), high |-> {}]
    BY <1>4 DEF GroupsRead
  <2>2. Leaders(UNION {got[g] : g \in Consumer}) \in SUBSET Node
    <3>1. UNION {got[g] : g \in Consumer} \subseteq Part
      OBVIOUS
    <3>. QED
      BY <3>1 DEF Leaders
  <2>. DEFINE leaders == Leaders(UNION {got[g] : g \in Consumer})
  <2>. HIDE DEF leaders
  <2>3. batch' \in [left : SUBSET Node, high : SUBSET Part]
    BY <2>1, <2>2 DEF leaders
  <2>. QED
    BY <1>4, <2>3 DEF GroupsRead, Steps
<1>5. ASSUME NEW n \in Node, LeaderAnswers(n) PROVE HealthBounds'
  <2>1. Asked(Used, n) \subseteq Part
    BY <1>0 DEF Asked
  <2>. QED
    BY <1>5, <2>1 DEF LeaderAnswers
<1>6. ASSUME NEW found \in SUBSET Part, Batched(found) PROVE
        step' \in Steps /\ topics' \subseteq Topics /\ measured' \in [Topics -> MeasuredRecords]
  <2>1. topics' \subseteq Topics
    BY <1>0, <1>6 DEF Batched, Topics
  <2>2. \A t \in Topics :
          [failed |-> FALSE, high |-> {p \in found : p[1] = t}] \in MeasuredRecords
    BY DEF MeasuredRecords
  <2>. QED
    BY <1>6, <2>1, <2>2 DEF Batched, Steps
<1>7. CASE WatermarksRead
  <2>1. batch.high \in SUBSET Part
    OBVIOUS
  <2>2. Batched(batch.high)
    BY <1>7 DEF WatermarksRead
  <2>. QED
    BY <1>1, <1>6, <1>7, <2>1, <2>2 DEF WatermarksRead
<1>8. CASE WatermarksFail /\ aborted
  BY <1>8 DEF WatermarksFail, HealthEnds, Steps
<1>9. CASE WatermarksFail /\ ~aborted
  <2>1. Batched({}) /\ batch' = NoBatch /\ UNCHANGED <<leaderOf, aborted, health>>
    BY <1>9 DEF WatermarksFail
  <2>. QED
    BY <1>1, <1>6, <2>1
<1>10. ASSUME NEW t \in Topics, TopicRead(t) PROVE HealthBounds'
  <2>1. PICK found \in {{}, {p \in Part : p[1] = t}} :
          measured' = [measured EXCEPT ![t] = [failed |-> found = {}, high |-> found]]
    BY <1>10 DEF TopicRead
  <2>2. [failed |-> found = {}, high |-> found] \in MeasuredRecords
    BY DEF MeasuredRecords
  <2>3. measured' \in [Topics -> MeasuredRecords]
    BY <2>1, <2>2
  <2>. QED
    BY <1>10, <2>3 DEF TopicRead
<1>11. CASE ReportsHealth
  BY <1>11 DEF ReportsHealth, HealthEnds, Steps, Outcome
<1>12. CASE UNCHANGED healthVars
  BY <1>12 DEF healthVars
<1>. QED
  BY <1>2, <1>3, <1>4, <1>5, <1>7, <1>8, <1>9, <1>10, <1>11, <1>12 DEF HealthNext

LEMMA HealthTyped == HealthSpec => []HealthTypeOK
<1>1. HealthInit => HealthBounds
  <2>1. NoBatch \in [left : SUBSET Node, high : SUBSET Part]
    BY DEF NoBatch
  <2>2. Unmeasured \in MeasuredRecords
    BY DEF Unmeasured, MeasuredRecords
  <2>3. HealthInit => health.lag = "none"
    BY DEF HealthInit
  <2>. QED
    BY <2>1, <2>2, <2>3 DEF HealthInit, HealthBounds, Steps, Outcome
<1>2. HealthSpec => [](HealthInv /\ HealthBounds)
  BY <1>1, HealthInitInv, HealthStep, HealthBoundsStep, PTL DEF HealthSpec
<1>3. HealthInv /\ HealthBounds => HealthTypeOK
  BY DEF HealthInv, HealthBounds, HealthTypeOK, MeasuredRecords
<1>. QED
  BY <1>2, <1>3, PTL

-----------------------------------------------------------------------------
SizesBounds ==
  /\ metadata \subseteq Topic /\ disturbed \subseteq Reader
  /\ leader \in [Topic -> LogBroker \cup {NoLeader}]

LEMMA SizesBoundsStep == SizesInv /\ SizesBounds /\ [SizesNext]_sizesVars => SizesBounds'
<1>. SUFFICES ASSUME SizesInv, SizesBounds, [SizesNext]_sizesVars PROVE SizesBounds'
  OBVIOUS
<1>. USE DEF SizesBounds
<1>1. Reading \subseteq Reader
  BY DEF Reading
<1>2. ASSUME NEW r \in Reader, AsksSizes(r) PROVE SizesBounds'
  BY <1>1, <1>2 DEF AsksSizes
<1>3. ASSUME NEW r \in Reader, Refreshed(r) PROVE SizesBounds'
  <2>1. reader[r].sent \subseteq Topic
    BY DEF SizesInv, SizeRecords
  <2>. QED
    BY <1>3, <2>1 DEF Refreshed
<1>4. ASSUME NEW r \in Reader, Refreshing(r) \/ RefreshFails(r) \/ RetryFails(r) PROVE SizesBounds'
  BY <1>4 DEF Refreshing, RefreshFails, RetryFails
<1>5. ASSUME NEW r \in Reader, NEW able \in BOOLEAN, FindsFirst(r, able) PROVE SizesBounds'
  BY <1>5 DEF FindsFirst
<1>6. ASSUME NEW r \in Reader, NEW n \in LogBroker, AsksNode(r, n) \/ NodeAnswers(r, n)
      PROVE  SizesBounds'
  BY <1>6 DEF AsksNode, NodeAnswers
<1>7. ASSUME NEW t \in Topic, Deletes(t) PROVE SizesBounds'
  BY <1>1, <1>7 DEF Deletes
<1>8. CASE UNCHANGED sizesVars
  BY <1>8 DEF sizesVars
<1>. QED
  BY <1>2, <1>3, <1>4, <1>5, <1>6, <1>7, <1>8 DEF SizesNext

LEMMA SizesTyped == SizesSpec => []SizesTypeOK
<1>1. SizesInit => SizesBounds
  BY DEF SizesInit, SizesBounds
<1>2. SizesSpec => [](SizesInv /\ SizesBounds)
  BY <1>1, SizesInitInv, SizesStep, SizesBoundsStep, PTL DEF SizesSpec
<1>3. SizesInv /\ SizesBounds => SizesTypeOK
  <2>. SUFFICES ASSUME SizesInv, SizesBounds PROVE SizesTypeOK
    OBVIOUS
  <2>1. \A r \in Reader : reader[r] \in SizeRecords
    BY DEF SizesInv
  <2>. QED
    BY <2>1 DEF SizesInv, SizesBounds, SizesTypeOK, SizeRecords
<1>. QED
  BY <1>2, <1>3, PTL
-----------------------------------------------------------------------------
(* PreviewBudget.take() takes no more than is left. *)
LEMMA TakesWhatIsLeft ==
  \A left \in 0..Response, size \in Nat : Take(left, size) \in 0..left
<1>. SUFFICES ASSUME NEW left \in 0..Response, NEW size \in Nat PROVE Take(left, size) \in 0..left
  OBVIOUS
<1>1. Response \in Nat /\ Preview \in Nat
  BY FetchAssumption
<1>2. IsFiniteSet({size} \cup {Preview} \cup {left})
  BY FS_Singleton, FS_Union
<1>3. {size, Preview, left} = {size} \cup {Preview} \cup {left}
  OBVIOUS
<1>4. {size, Preview, left} \in SUBSET Int /\ {size, Preview, left} # {}
  BY <1>1
<1>5. Min({size, Preview, left}) \in {size, Preview, left} /\ Min({size, Preview, left}) <= left
  BY <1>2, <1>3, <1>4, Extremes
<1>. QED
  BY <1>1, <1>5 DEF Take

(* The records one after the other, in the order in which the fold chooses them. *)
Pick(s) == CHOOSE x \in s : TRUE
TakenOf(it, sizes, s) ==
  IF s = {} THEN 0
  ELSE it[s \ {Pick(s)}] + Take(Response - it[s \ {Pick(s)}], sizes[Pick(s)])

LEMMA TakenBounded ==
  ASSUME NEW D, NEW sizes \in [D -> Nat], NEW it, NEW s \in SUBSET D,
         s # {} => it[s \ {Pick(s)}] \in 0..Response
  PROVE  TakenOf(it, sizes, s) \in 0..Response
<1>1. Response \in Nat
  BY FetchAssumption
<1>2. CASE s = {}
  BY <1>1, <1>2 DEF TakenOf
<1>3. CASE s # {}
  <2>. DEFINE v == it[s \ {Pick(s)}]
  <2>1. Pick(s) \in s
    BY <1>3 DEF Pick
  <2>2. v \in 0..Response /\ Response - v \in 0..Response /\ sizes[Pick(s)] \in Nat
    BY <1>1, <1>3, <2>1
  <2>3. Take(Response - v, sizes[Pick(s)]) \in 0..(Response - v)
    BY <2>2, TakesWhatIsLeft
  <2>. QED
    BY <1>1, <1>3, <2>2, <2>3 DEF TakenOf
<1>. QED
  BY <1>2, <1>3

(* The fold is well defined, by the number of records... *)
LEMMA TakenExists ==
  ASSUME NEW D, IsFiniteSet(D), NEW sizes \in [D -> Nat]
  PROVE  \E it : it = [s \in SUBSET D |-> TakenOf(it, sizes, s)]
<1>. DEFINE Folds(n) == {it \in [SUBSET D -> 0..Response] :
                          \A s \in SUBSET D : Cardinality(s) <= n => it[s] = TakenOf(it, sizes, s)}
<1>0. /\ Response \in Nat /\ Cardinality(D) \in Nat /\ Cardinality({}) = 0
      /\ \A s \in SUBSET D : IsFiniteSet(s) /\ Cardinality(s) \in Nat /\ Cardinality(s) <= Cardinality(D)
                             /\ (Cardinality(s) = 0 <=> s = {})
  BY FetchAssumption, FS_CardinalityType, FS_Subset, FS_EmptySet
<1>1. Folds(0) # {}
  <2>1. [s \in SUBSET D |-> 0] \in Folds(0)
    BY <1>0 DEF TakenOf
  <2>. QED
    BY <2>1
<1>2. ASSUME NEW n \in Nat, Folds(n) # {} PROVE Folds(n + 1) # {}
  <2>1. PICK it \in Folds(n) : TRUE
    BY <1>2
  <2>. DEFINE more == [s \in SUBSET D |-> IF Cardinality(s) = n + 1 THEN TakenOf(it, sizes, s) ELSE it[s]]
  <2>2. it \in [SUBSET D -> 0..Response]
        /\ \A s \in SUBSET D : Cardinality(s) <= n => it[s] = TakenOf(it, sizes, s)
    BY <2>1
  <2>3. \A s \in SUBSET D : s # {} =>
          s \ {Pick(s)} \in SUBSET D /\ Cardinality(s \ {Pick(s)}) = Cardinality(s) - 1
    <3>. SUFFICES ASSUME NEW s \in SUBSET D, s # {}
                  PROVE  Cardinality(s \ {Pick(s)}) = Cardinality(s) - 1
      OBVIOUS
    <3>1. Pick(s) \in s
      BY DEF Pick
    <3>. QED
      BY <1>0, <3>1, FS_RemoveElement
  <2>4. \A s \in SUBSET D : TakenOf(it, sizes, s) \in 0..Response
    BY <2>2, <2>3, TakenBounded
  <2>5. more \in [SUBSET D -> 0..Response]
    BY <2>2, <2>4
  <2>6. ASSUME NEW s \in SUBSET D, Cardinality(s) <= n + 1 PROVE more[s] = TakenOf(more, sizes, s)
    <3>1. TakenOf(more, sizes, s) = TakenOf(it, sizes, s)
      <4>1. CASE s = {}
        BY <4>1 DEF TakenOf
      <4>2. CASE s # {}
        <5>. DEFINE r == s \ {Pick(s)}
        <5>1. r \in SUBSET D /\ Cardinality(r) # n + 1
          BY <1>0, <2>3, <2>6, <4>2
        <5>2. more[r] = it[r]
          BY <5>1
        <5>. HIDE DEF more
        <5>. QED
          BY <4>2, <5>2 DEF TakenOf
      <4>. QED
        BY <4>1, <4>2
    <3>2. more[s] = IF Cardinality(s) = n + 1 THEN TakenOf(it, sizes, s) ELSE it[s]
      OBVIOUS
    <3>3. Cardinality(s) # n + 1 => Cardinality(s) <= n
      BY <1>0, <2>6
    <3>. HIDE DEF more
    <3>. QED
      BY <2>2, <3>1, <3>2, <3>3
  <2>. QED
    BY <2>5, <2>6
<1>. HIDE DEF Folds
<1>3. \A n \in Nat : Folds(n) # {}
  <2>. SUFFICES ASSUME NEW m \in Nat, Folds(m) = {} PROVE FALSE
    OBVIOUS
  <2>. DEFINE S == {n \in 0..m : Folds(n) = {}}
  <2>1. S \in SUBSET Int /\ S # {} /\ IsFiniteSet(S)
    <3>1. IsFiniteSet(0..m)
      BY FS_Interval
    <3>. QED
      BY <3>1, FS_Subset
  <2>2. Min(S) \in S /\ \A n \in S : Min(S) <= n
    BY <2>1, Extremes
  <2>3. \A k \in 0..m : k < Min(S) => Folds(k) # {}
    BY <2>2
  <2>4. Min(S) \in 0..m /\ Folds(Min(S)) = {}
    BY <2>2
  <2>. HIDE DEF S
  <2>5. Min(S) # 0
    BY <1>1, <2>4
  <2>6. Min(S) - 1 \in 0..m /\ Min(S) - 1 < Min(S) /\ Min(S) - 1 \in Nat /\ (Min(S) - 1) + 1 = Min(S)
    BY <2>4, <2>5
  <2>. QED
    BY <1>2, <2>3, <2>4, <2>6
<1>4. PICK it \in Folds(Cardinality(D)) : TRUE
  BY <1>0, <1>3
<1>5. it \in [SUBSET D -> 0..Response] /\ \A s \in SUBSET D : it[s] = TakenOf(it, sizes, s)
  BY <1>0, <1>4 DEF Folds
<1>. QED
  BY <1>5

(* ...and never more than the budget of the response. *)
LEMMA TakenInBudget ==
  ASSUME NEW D, IsFiniteSet(D), NEW sizes \in [D -> Nat], NEW it,
         it = [s \in SUBSET D |-> TakenOf(it, sizes, s)]
  PROVE  it[D] \in 0..Response
<1>. DEFINE Bad == {s \in SUBSET D : it[s] \notin 0..Response}
<1>1. \A s \in SUBSET D : it[s] = TakenOf(it, sizes, s)
  OBVIOUS
<1>2. ASSUME Bad # {} PROVE FALSE
  <2>1. IsWellFoundedOn(StrictSubsetOrdering(D), FiniteSubsetsOf(D))
    BY FS_StrictSubsetOrderingWellFounded
  <2>2. Bad \subseteq FiniteSubsetsOf(D)
    BY FS_Subset DEF FiniteSubsetsOf
  <2>3. PICK s \in Bad : \A r \in Bad : ~(<<r, s>> \in StrictSubsetOrdering(D))
    BY <1>2, <2>1, <2>2, WFMin
  <2>4. s \in SUBSET D /\ it[s] \notin 0..Response
    BY <2>3
  <2>5. s # {} => it[s \ {Pick(s)}] \in 0..Response
    <3>. SUFFICES ASSUME s # {}, it[s \ {Pick(s)}] \notin 0..Response PROVE FALSE
      OBVIOUS
    <3>1. Pick(s) \in s /\ s \ {Pick(s)} \in SUBSET D
      BY <2>4 DEF Pick
    <3>2. s \ {Pick(s)} \in Bad
      BY <3>1
    <3>3. <<s \ {Pick(s)}, s>> \in StrictSubsetOrdering(D)
      BY <2>4, <3>1 DEF StrictSubsetOrdering
    <3>. QED
      BY <2>3, <3>2, <3>3
  <2>6. TakenOf(it, sizes, s) \in 0..Response
    BY <2>4, <2>5, TakenBounded
  <2>. QED
    BY <1>1, <2>4, <2>6
<1>. QED
  BY <1>2

LEMMA PreviewsInBudget ==
  ASSUME NEW D, IsFiniteSet(D), NEW sizes \in [D -> Nat]
  PROVE  Previewed(sizes) \in 0..Response
<1>. DEFINE it == CHOOSE it : it = [s \in SUBSET D |-> TakenOf(it, sizes, s)]
<1>1. it = [s \in SUBSET D |-> TakenOf(it, sizes, s)]
  BY TakenExists
<1>2. DOMAIN sizes = D
  OBVIOUS
<1>3. Previewed(sizes) = it[D]
  BY <1>2, Zenon DEF Previewed, FoldFunction, FoldFunctionOnSet, MapThenFoldSet, TakenOf, Pick
<1>. HIDE DEF it
<1>. QED
  BY <1>1, <1>3, TakenInBudget

LEMMA ShowsTyped ==
  ASSUME FetchInv, FetchTypeOK, fetching' = NoPageFetch, UNCHANGED <<log, low, high>>,
         NEW records \in SUBSET Offset, IsFiniteSet(records), NEW last \in Nat,
         \A o \in records : o <= last, NEW previewed \in 0..Response,
         Shows(records, last, previewed)
  PROVE  FetchTypeOK'
<1>. DEFINE sel == Selected(records, fetching.limit)
            after == AfterSelected(sel, last)
            follows == Min({fetching.high, after})
<1>1. End \in Nat /\ fetching.start \in Offset /\ fetching.high \in Offset /\ 0 \in Offset
  BY FetchAssumption DEF FetchTypeOK, Offset
<1>2. sel \subseteq records /\ after \in Nat
  BY <1>1, SelectedIsPrefix DEF FetchInv, Offset
<1>3. follows \in Offset
  <2>1. follows \in Nat /\ follows <= fetching.high
    BY <1>1, <1>2, MinOfTwo DEF Offset
  <2>. QED
    BY <1>1, <2>1 DEF Offset
<1>4. page'.at = "shown" /\ page'.next \in {follows, fetching.start} /\ page'.previewed = previewed
  BY DEF Shows
<1>5. from' \in {fetching.start, from} /\ shown' \subseteq shown \cup sel
  BY DEF Shows
<1>6. /\ fetching'.mode = "none" /\ fetching'.start \in Offset /\ fetching'.high \in Offset
  BY <1>1 DEF NoPageFetch
<1>. HIDE DEF sel, after, follows
<1>. QED
  BY <1>1, <1>2, <1>3, <1>4, <1>5, <1>6 DEF FetchTypeOK

LEMMA AsksTyped ==
  ASSUME FetchInv, FetchTypeOK, NEW mode \in Mode, NEW asked \in Offset, NEW most \in Limits,
         NEW first, AsksPage(mode, asked, most, first)
  PROVE  FetchTypeOK'
<1>1. End \in Nat /\ low \in Offset /\ high \in low..End /\ high \in Offset /\ most \in Nat
  BY FetchAssumption DEF FetchTypeOK, Offset
<1>2. Start(mode, asked, most, low, high) \in Offset
  BY <1>1 DEF Start, Offset
<1>3. CASE Refused(mode, asked, low, high)
  <2>1. page' = [page EXCEPT !.at = "failed"] /\ UNCHANGED <<log, low, high, fetching, from, shown>>
    BY <1>3 DEF AsksPage
  <2>2. page'.at = "failed" /\ page'.next = page.next /\ page'.previewed = page.previewed
    BY <2>1 DEF FetchInv
  <2>. QED
    BY <2>1, <2>2 DEF FetchTypeOK
<1>4. CASE ~Refused(mode, asked, low, high)
  <2>1. /\ fetching' = [mode |-> mode, first |-> first, limit |-> most, high |-> high,
                        start |-> Start(mode, asked, most, low, high)]
        /\ UNCHANGED <<log, low, high, page, from, shown>>
    BY <1>4 DEF AsksPage
  <2>. QED
    BY <1>1, <1>2, <2>1 DEF FetchTypeOK
<1>. QED
  BY <1>3, <1>4

LEMMA FetchTypeStep == FetchInv /\ FetchTypeOK /\ [FetchNext]_fetchVars => FetchTypeOK'
<1>. SUFFICES ASSUME FetchInv, FetchTypeOK, [FetchNext]_fetchVars PROVE FetchTypeOK'
  OBVIOUS
<1>1. End \in Nat /\ MaxSize \in Nat /\ Response \in Nat /\ low \in Offset /\ high \in low..End
      /\ low \in Nat /\ high \in Nat
  BY FetchAssumption DEF FetchTypeOK, Offset
<1>2. CASE BeginsBrowse
  <2>1. \A asked \in Named : asked \in Offset
    BY <1>1 DEF Named, Offset
  <2>2. End \in Offset
    BY <1>1 DEF Offset
  <2>. QED
    BY <1>2, <2>1, <2>2, AsksTyped DEF BeginsBrowse, Mode
<1>3. CASE Follows
  BY <1>3, AsksTyped DEF Follows, FetchTypeOK, Mode
<1>4. CASE Fetches
  <2>1. fetching' = NoPageFetch /\ UNCHANGED <<log, low, high>>
    BY <1>4 DEF Fetches
  <2>2. CASE fetching.start >= fetching.high
    <3>1. Shows({}, fetching.start, 0)
      BY <1>4, <2>2 DEF Fetches
    <3>2. fetching.start \in Nat /\ {} \in SUBSET Offset /\ IsFiniteSet({}) /\ 0 \in 0..Response
      BY <1>1, FS_EmptySet DEF FetchInv
    <3>. QED
      BY <2>1, <3>1, <3>2, ShowsTyped
  <2>3. CASE ~(fetching.start >= fetching.high)
    <3>1. PICK last \in fetching.start..(high - 1), size \in 0..MaxSize :
            LET records == {o \in {q \in fetching.start..last : log[q] # "none"} : log[o] = "record"}
            IN  Shows(records, last, Previewed([o \in Selected(records, fetching.limit) |-> size]))
      BY <1>4, <2>3 DEF Fetches
    <3>. DEFINE records == {o \in {q \in fetching.start..last : log[q] # "none"} : log[o] = "record"}
                sel == Selected(records, fetching.limit)
                sizes == [o \in sel |-> size]
    <3>2. last \in Nat /\ fetching.start \in Nat /\ last <= End
      BY <1>1 DEF FetchInv
    <3>3. records \in SUBSET Offset /\ records \subseteq fetching.start..last
      BY <1>1, <3>2 DEF Offset
    <3>4. IsFiniteSet(records)
      <4>1. IsFiniteSet(fetching.start..last)
        BY <3>2, FS_Interval
      <4>. QED
        BY <3>3, <4>1, FS_Subset
    <3>5. \A o \in records : o <= last
      BY <3>2
    <3>6. IsFiniteSet(sel)
      BY <3>4, FS_Subset DEF Selected
    <3>7. Previewed(sizes) \in 0..Response
      <4>1. sizes \in [sel -> Nat]
        BY <1>1
      <4>. HIDE DEF sizes, sel
      <4>. QED
        BY <3>6, <4>1, PreviewsInBudget
    <3>8. Shows(records, last, Previewed(sizes))
      BY <3>1
    <3>. HIDE DEF records, sel, sizes
    <3>. QED
      BY <2>1, <3>2, <3>3, <3>4, <3>5, <3>7, <3>8, ShowsTyped
  <2>. QED
    BY <2>2, <2>3
<1>5. CASE FetchBreaks
  <2>1. page'.at = "failed" /\ page'.next = page.next /\ page'.previewed = page.previewed
    BY <1>5 DEF FetchBreaks, FetchInv
  <2>2. fetching'.mode = "none" /\ fetching'.start = 0 /\ fetching'.high = 0 /\ 0 \in Offset
    BY <1>1, <1>5 DEF FetchBreaks, NoPageFetch, Offset
  <2>. QED
    BY <1>5, <2>1, <2>2 DEF FetchBreaks, FetchTypeOK
<1>6. CASE Appends \/ Retains
  <2>1. low' \in Offset /\ high' \in low'..End /\ UNCHANGED <<log, fetching, page, from, shown>>
    BY <1>1, <1>6 DEF Appends, Retains, Offset
  <2>. QED
    BY <2>1 DEF FetchTypeOK, Offset
<1>7. CASE UNCHANGED fetchVars
  BY <1>7 DEF fetchVars, FetchTypeOK, Offset
<1>. QED
  BY <1>2, <1>3, <1>4, <1>5, <1>6, <1>7 DEF FetchNext

LEMMA FetchTyped == FetchSpec => []FetchTypeOK
<1>1. FetchInit => FetchTypeOK
  <2>1. 0 \in Offset /\ End \in Nat /\ 0 \in 0..End /\ 0 \in 0..Response
    BY FetchAssumption DEF Offset
  <2>. QED
    BY <2>1 DEF FetchInit, FetchTypeOK, NoPageFetch
<1>. QED
  BY <1>1, FetchInitInv, FetchStep, FetchTypeStep, PTL DEF FetchSpec
-----------------------------------------------------------------------------
(* The store holds an operation once. *)
Distinct(s) == \A i, j \in 1..Len(s) : s[i] = s[j] => i = j

LEMMA IsBijection ==
  ASSUME NEW S, NEW T, NEW f \in [S -> T], \A x, y \in S : f[x] = f[y] => x = y,
         \A t \in T : \E x \in S : f[x] = t
  PROVE  ExistsBijection(S, T)
<1>1. IsInjective(f)
  BY DEF IsInjective
<1>. QED
  BY <1>1, Zenon DEF ExistsBijection, Bijection, Injection, Surjection

LEMMA DistinctLength ==
  ASSUME NEW S, NEW s \in Seq(S), Distinct(s)
  PROVE  Cardinality(ToSet(s)) = Len(s)
<1>. DEFINE f == [i \in 1..Len(s) |-> s[i]]
<1>1. ToSet(s) = {s[i] : i \in 1..Len(s)}
  BY DEF ToSet
<1>2. f \in [1..Len(s) -> ToSet(s)] /\ \A i \in 1..Len(s) : f[i] = s[i]
  BY <1>1
<1>3. /\ \A i, j \in 1..Len(s) : f[i] = f[j] => i = j
      /\ \A x \in ToSet(s) : \E i \in 1..Len(s) : f[i] = x
  BY <1>1, <1>2 DEF Distinct
<1>. HIDE DEF f
<1>4. ExistsBijection(1..Len(s), ToSet(s))
  BY <1>2, <1>3, IsBijection
<1>5. \A n \in Nat : IsFiniteSet(1..n) /\ Cardinality(1..n) = n
  <2>. TAKE n \in Nat
  <2>1. IsFiniteSet(1..n) /\ Cardinality(1..n) = IF 1 > n THEN 0 ELSE n - 1 + 1
    BY FS_Interval
  <2>. QED
    BY <2>1
<1>6. IsFiniteSet(1..Len(s)) /\ Cardinality(1..Len(s)) = Len(s)
  BY <1>5
<1>7. Cardinality(ToSet(s)) = Cardinality(1..Len(s))
  BY <1>4, <1>6, FS_Bijection
<1>. QED
  BY <1>6, <1>7

LEMMA PrunedDistinct ==
  ASSUME order \in Seq(Op \cup Foreign), Distinct(order), NEW entries \in Pruned
  PROVE  Distinct(entries) /\ Len(entries) <= Len(order)
<1>1. PICK n \in 0..Len(order) : entries = SubSeq(order, n + 1, Len(order))
  BY DEF Pruned
<1>2. Len(entries) = Len(order) - n
  BY <1>1
<1>3. \A i \in 1..Len(entries) : entries[i] = order[n + i] /\ n + i \in 1..Len(order)
  BY <1>1, <1>2
<1>. QED
  BY <1>2, <1>3 DEF Distinct

LEMMA RemoveFirstDistinct ==
  ASSUME NEW S, NEW s \in Seq(S), Distinct(s), NEW e
  PROVE  Distinct(RemoveFirst(s, e)) /\ e \notin ToSet(RemoveFirst(s, e))
<1>1. CASE \E i \in 1..Len(s) : s[i] = e
  <2>1. PICK n \in 1..Len(s) : RemovedAt(s, RemoveFirst(s, e), n) /\ s[n] = e
    BY <1>1, RemoveFirstAt
  <2>. DEFINE r == RemoveFirst(s, e)
              at(i) == IF i < n THEN i ELSE i + 1
  <2>2. \A i \in 1..Len(r) : at(i) \in 1..Len(s) /\ at(i) # n /\ r[i] = s[at(i)]
    BY <2>1 DEF RemovedAt
  <2>3. Len(r) \in Nat
    BY <2>1 DEF RemovedAt
  <2>. HIDE DEF r
  <2>4. \A i, j \in 1..Len(r) : at(i) = at(j) => i = j
    BY <2>3
  <2>. HIDE DEF at
  <2>5. Distinct(r)
    BY <2>2, <2>4 DEF Distinct
  <2>6. e \notin ToSet(r)
    BY <2>1, <2>2 DEF Distinct, ToSet
  <2>. QED
    BY <2>5, <2>6 DEF r
<1>2. CASE ~\E i \in 1..Len(s) : s[i] = e
  BY <1>2 DEF RemoveFirst, ToSet
<1>. QED
  BY <1>1, <1>2

LEMMA MovedDistinct ==
  ASSUME NEW entries \in Seq(Op \cup Foreign), Distinct(entries), NEW o \in Op \cup Foreign
  PROVE  Distinct(Moved(entries, o)) /\ Len(Moved(entries, o)) <= Operations
<1>. DEFINE rest == RemoveFirst(entries, o)
            moved == Append(rest, o)
            n == IF Len(moved) > Operations THEN Operations ELSE Len(moved)
<1>1. rest \in Seq(Op \cup Foreign) /\ Distinct(rest) /\ o \notin ToSet(rest)
  BY RemoveFirstRange, RemoveFirstDistinct
<1>2. Moved(entries, o) = SubSeq(moved, Len(moved) - n + 1, Len(moved))
  BY DEF Moved
<1>. HIDE DEF rest
<1>3. moved \in Seq(Op \cup Foreign) /\ Len(moved) = Len(rest) + 1 /\ moved[Len(moved)] = o
      /\ \A i \in 1..Len(rest) : moved[i] = rest[i] /\ rest[i] # o
  BY <1>1 DEF ToSet
<1>4. Distinct(moved)
  BY <1>1, <1>3 DEF Distinct
<1>. HIDE DEF moved
<1>5. n \in 1..Len(moved) /\ n <= Operations /\ Operations \in Nat
  BY <1>1, <1>3, ProgressAssumption
<1>. HIDE DEF n
<1>6. Len(Moved(entries, o)) = n
  BY <1>2, <1>3, <1>5
<1>7. \A i \in 1..n : Moved(entries, o)[i] = moved[Len(moved) - n + i]
                      /\ Len(moved) - n + i \in 1..Len(moved)
  BY <1>2, <1>3, <1>5
<1>8. Len(moved) \in Nat
  BY <1>3
<1>9. \A i, j \in 1..n : Moved(entries, o)[i] = Moved(entries, o)[j] => i = j
  <2>. TAKE i, j \in 1..n
  <2>. HAVE Moved(entries, o)[i] = Moved(entries, o)[j]
  <2>1. Len(moved) - n + i = Len(moved) - n + j
    BY <1>4, <1>7 DEF Distinct
  <2>. QED
    BY <1>5, <1>8, <2>1
<1>. QED
  BY <1>5, <1>6, <1>9 DEF Distinct

(* No cursor is beyond the events there are, and the store has its bound. *)
Within(o) ==
  /\ told.reported[o] <= MaxEvents /\ cursor[o] <= MaxEvents
  /\ \A i \in DOMAIN wire[o] : wire[o][i].cursor <= MaxEvents
StreamBounds ==
  /\ closed \in BOOLEAN /\ Distinct(order) /\ Len(order) <= Operations
  /\ \A o \in Op : Within(o)

LEMMA StoreBounded ==
  ASSUME StreamInv, StreamBounds, [ProgressNext]_progressVars
  PROVE  closed' \in BOOLEAN /\ Distinct(order') /\ Len(order') <= Operations
<1>1. /\ order \in Seq(Op \cup Foreign) /\ Len(order) \in Nat /\ Operations \in Nat
      /\ closed \in BOOLEAN /\ Distinct(order) /\ Len(order) <= Operations
  BY ProgressAssumption DEF StreamInv, StreamTypes, StreamBounds
<1>2. ASSUME NEW entries \in Pruned, order' = entries PROVE Distinct(order') /\ Len(order') <= Operations
  <2>1. Distinct(entries) /\ Len(entries) <= Len(order) /\ Len(entries) \in Nat
    BY <1>1, <1>2, PrunedDistinct, PrunedRange
  <2>. QED
    BY <1>1, <1>2, <2>1
<1>3. ASSUME NEW entries \in Pruned, NEW o \in Op \cup Foreign, order' = Moved(entries, o)
      PROVE  Distinct(order') /\ Len(order') <= Operations
  BY <1>1, <1>3, PrunedDistinct, PrunedRange, MovedDistinct
<1>4. ASSUME NEW o \in Op, Reports(o) PROVE Distinct(order') /\ Len(order') <= Operations /\ closed' = closed
  BY <1>3, <1>4 DEF Reports
<1>5. ASSUME NEW o \in Op, Hands(o) PROVE Distinct(order') /\ Len(order') <= Operations /\ closed' = closed
  BY <1>2, <1>5 DEF Hands
<1>6. CASE Crowds
  BY <1>1, <1>3, <1>6 DEF Crowds
<1>7. CASE StoreCloses
  BY <1>1, <1>7, ProgressAssumption DEF StoreCloses, Distinct
<1>8. CASE UNCHANGED <<order, closed>>
  BY <1>1, <1>8
<1>9. ASSUME NEW o \in Op, Asks(o) \/ GraceEnds(o) \/ Receives(o) \/ NextTask(o) \/ MainAnswers(o)
      PROVE  UNCHANGED <<order, closed>>
  BY <1>9 DEF Asks, GraceEnds, Receives, NextTask, MainAnswers
<1>10. Disposes \/ (\E now \in BOOLEAN : Listens(now)) \/ UNCHANGED progressVars => UNCHANGED <<order, closed>>
  BY DEF Disposes, Listens, progressVars
<1>. QED
  BY <1>1, <1>4, <1>5, <1>6, <1>7, <1>8, <1>9, <1>10 DEF ProgressNext, ProgressMoves

LEMMA SendsWithin ==
  ASSUME StreamTypes, NEW q \in Op, NEW o \in Op, Within(o), NEW m \in WireMessages,
         m.cursor <= MaxEvents, wire' = [wire EXCEPT ![q] = Append(@, m)]
  PROVE  \A i \in DOMAIN wire'[o] : wire'[o][i].cursor <= MaxEvents
<1>1. CASE o = q
  <2>1. wire[o] \in Seq(WireMessages) /\ wire'[o] = Append(wire[o], m)
    BY <1>1 DEF StreamTypes
  <2>. QED
    BY <2>1, AppendAt DEF Within
<1>2. CASE o # q
  BY <1>2 DEF StreamTypes, Within
<1>. QED
  BY <1>1, <1>2

LEMMA WithinStep ==
  ASSUME StreamInv, StreamBounds, [ProgressNext]_progressVars, NEW o \in Op PROVE Within(o)'
<1>1. StreamTypes /\ Within(o) /\ MaxEvents \in Nat
  BY ProgressAssumption DEF StreamInv, StreamBounds
<1>2. \A m \in {Signal, Answer, Refusal} : m \in WireMessages /\ m.cursor <= MaxEvents
  <2>1. Signal \in WireMessages /\ Answer \in WireMessages /\ Refusal \in WireMessages
    BY DEF Signal, Answer, Refusal, WireMessages
  <2>2. Signal.cursor = 0 /\ Answer.cursor = 0 /\ Refusal.cursor = 0
    BY DEF Signal, Answer, Refusal
  <2>. QED
    BY <1>1, <2>1, <2>2
<1>3. ASSUME NEW q \in Op, Reports(q) PROVE Within(o)'
  <2>1. wire' = [wire EXCEPT ![q] = Append(@, Signal)] /\ cursor' = cursor
    BY <1>3 DEF Reports
  <2>2. told'.reported = [told.reported EXCEPT ![q] = told.reported[q] + 1] /\ told.reported[q] < MaxEvents
    BY <1>1, <1>3 DEF Reports, StreamTypes, Histories
  <2>3. told'.reported[o] <= MaxEvents
    <3>1. told.reported \in [Op -> Nat]
      BY <1>1 DEF StreamTypes, Histories
    <3>. QED
      BY <1>1, <2>2, <3>1 DEF Within
  <2>4. \A i \in DOMAIN wire'[o] : wire'[o][i].cursor <= MaxEvents
    BY <1>1, <1>2, <2>1, SendsWithin
  <2>. QED
    BY <1>1, <2>1, <2>3, <2>4 DEF Within
<1>4. ASSUME NEW q \in Op, Hands(q) PROVE Within(o)'
  <2>1. PICK m : /\ wire' = [wire EXCEPT ![q] = Append(@, m)]
                 /\ m \in {Refusal, [what |-> "events", events |-> After(q, fetch[q].after),
                                     cursor |-> next[q]]}
    BY <1>4 DEF Hands
  <2>2. told'.reported = told.reported /\ cursor' = cursor
    BY <1>1, <1>4 DEF Hands, StreamTypes, Histories
  <2>3. next[q] \in Nat /\ next[q] <= MaxEvents
    <3>1. next[q] <= told.reported[q] /\ told.reported[q] <= MaxEvents
      BY DEF StreamInv, Streams, Stored, StreamBounds, Within
    <3>. QED
      BY <1>1, <3>1, StreamTypesAt
  <2>4. m.cursor <= MaxEvents
    BY <1>2, <2>1, <2>3
  <2>5. \A i \in DOMAIN wire'[o] : wire'[o][i].cursor <= MaxEvents
    <3>1. CASE o = q
      <4>1. wire[o] \in Seq(WireMessages) /\ wire'[o] = Append(wire[o], m)
        BY <1>1, <2>1, <3>1 DEF StreamTypes
      <4>2. Len(wire[o]) \in Nat /\ DOMAIN wire[o] = 1..Len(wire[o])
            /\ DOMAIN wire'[o] = 1..(Len(wire[o]) + 1)
            /\ wire'[o][Len(wire[o]) + 1] = m
            /\ \A i \in 1..Len(wire[o]) : wire'[o][i] = wire[o][i]
        BY <4>1
      <4>. QED
        BY <1>1, <2>4, <4>2 DEF Within
    <3>2. CASE o # q
      BY <1>1, <2>1, <3>2 DEF StreamTypes, Within
    <3>. QED
      BY <3>1, <3>2
  <2>. QED
    BY <1>1, <2>2, <2>5 DEF Within
<1>5. CASE Crowds \/ StoreCloses \/ (\E now \in BOOLEAN : Listens(now))
  <2>1. told'.reported = told.reported
    BY <1>1, <1>5 DEF Crowds, StoreCloses, Listens, StreamTypes, Histories
  <2>2. wire' = wire /\ cursor' = cursor
    BY <1>5 DEF Crowds, StoreCloses, Listens
  <2>. QED
    BY <1>1, <2>1, <2>2 DEF Within
<1>6. ASSUME NEW q \in Op, Asks(q) PROVE Within(o)'
  BY <1>1, <1>6 DEF Asks, Within
<1>7. ASSUME NEW q \in Op, MainAnswers(q) PROVE Within(o)'
  <2>1. wire' = [wire EXCEPT ![q] = Append(@, Answer)] /\ UNCHANGED <<cursor, told>>
    BY <1>7 DEF MainAnswers
  <2>. QED
    BY <1>1, <1>2, <2>1, SendsWithin DEF Within
<1>8. ASSUME NEW q \in Op, GraceEnds(q) PROVE Within(o)'
  <2>1. cursor' = [cursor EXCEPT ![q] = 0] /\ UNCHANGED <<wire, told>>
    BY <1>8 DEF GraceEnds
  <2>2. cursor'[o] <= MaxEvents
    BY <1>1, <2>1 DEF StreamTypes, Within
  <2>. QED
    BY <1>1, <2>1, <2>2 DEF Within
<1>9. CASE Disposes
  BY <1>1, <1>9 DEF Disposes, Within
<1>10. ASSUME NEW q \in Op, NEW events, NEW again, NEW after, Delivers(q, events, again, after)
       PROVE  told'.reported = told.reported
  BY <1>1, <1>10 DEF Delivers, StreamTypes, Histories
<1>11. ASSUME NEW q \in Op, NextTask(q) PROVE Within(o)'
  <2>1. told'.reported = told.reported
    BY <1>10, <1>11 DEF NextTask
  <2>2. wire' = wire /\ cursor' = cursor
    BY <1>11 DEF NextTask
  <2>. QED
    BY <1>1, <2>1, <2>2 DEF Within
<1>12. ASSUME NEW q \in Op, Receives(q) PROVE Within(o)'
  <2>. DEFINE m == Head(wire[q])
  <2>0. wire[q] \in Seq(WireMessages) /\ wire[q] # <<>> /\ wire' = [wire EXCEPT ![q] = Tail(@)]
        /\ \/ ReceivesSignal(q) \/ ReceivesAnswer(q) \/ ReceivesEvents(q, m)
    BY <1>1, <1>12 DEF Receives, StreamTypes
  <2>1. told'.reported = told.reported
    BY <1>10, <2>0 DEF ReceivesSignal, ReceivesAnswer, ReceivesEvents
  <2>2. m.cursor <= MaxEvents
    BY <2>0, TailAt DEF StreamBounds, Within
  <2>3. cursor' = cursor \/ cursor' = [cursor EXCEPT ![q] = m.cursor]
    BY <2>0 DEF ReceivesSignal, ReceivesAnswer, ReceivesEvents
  <2>4. cursor'[o] <= MaxEvents
    BY <1>1, <2>2, <2>3 DEF StreamTypes, Within
  <2>5. \A i \in DOMAIN wire'[o] : wire'[o][i].cursor <= MaxEvents
    <3>1. CASE o = q
      <4>1. wire'[o] = Tail(wire[o])
        BY <1>1, <2>0, <3>1 DEF StreamTypes
      <4>. QED
        BY <1>1, <2>0, <3>1, <4>1, TailAt DEF Within
    <3>2. CASE o # q
      BY <1>1, <2>0, <3>2 DEF StreamTypes, Within
    <3>. QED
      BY <3>1, <3>2
  <2>. QED
    BY <1>1, <2>1, <2>4, <2>5 DEF Within
<1>13. CASE UNCHANGED progressVars
  BY <1>1, <1>13 DEF progressVars, Within
<1>. QED
  BY <1>3, <1>4, <1>5, <1>6, <1>7, <1>8, <1>9, <1>11, <1>12, <1>13 DEF ProgressNext, ProgressMoves

LEMMA StreamBoundsStep == StreamInv /\ StreamBounds /\ [ProgressNext]_progressVars => StreamBounds'
BY StoreBounded, WithinStep DEF StreamBounds

LEMMA ProgressTyped == ProgressSpec => []ProgressTypeOK
<1>1. ProgressInit => StreamBounds
  <2>. SUFFICES ASSUME ProgressInit PROVE StreamBounds
    OBVIOUS
  <2>1. told.reported = [o \in Op |-> 0]
    BY DEF ProgressInit
  <2>2. ASSUME NEW o \in Op PROVE Within(o)
    <3>1. told.reported[o] = 0 /\ cursor[o] = 0 /\ wire[o] = <<>> /\ MaxEvents \in Nat
      BY <2>1, ProgressAssumption DEF ProgressInit
    <3>2. told.reported[o] <= MaxEvents /\ cursor[o] <= MaxEvents
      BY <3>1
    <3>3. DOMAIN wire[o] = {}
      BY <3>1
    <3>. QED
      BY <3>2, <3>3, Zenon DEF Within
  <2>3. closed = FALSE /\ order = <<>> /\ Len(order) = 0 /\ Operations \in Nat
    BY ProgressAssumption DEF ProgressInit
  <2>4. Distinct(order) /\ Len(order) <= Operations
    BY <2>3 DEF Distinct
  <2>. QED
    BY <2>2, <2>3, <2>4 DEF StreamBounds
<1>2. ProgressSpec => [](StreamInv /\ StreamBounds)
  BY <1>1, StreamInitInv, StreamStep, StreamBoundsStep, PTL DEF ProgressSpec
<1>3. StreamInv /\ StreamBounds => ProgressTypeOK
  <2>. SUFFICES ASSUME StreamInv, StreamBounds PROVE ProgressTypeOK
    OBVIOUS
  <2>0. StreamTypes /\ MaxEvents \in Nat
    BY ProgressAssumption DEF StreamInv
  <2>1. InStore \subseteq Op \cup Foreign
    BY <2>0 DEF StreamTypes, InStore, ToSet
  <2>2. Len(order) = Cardinality(InStore) /\ Len(order) <= Operations
    BY <2>0, DistinctLength DEF StreamTypes, StreamBounds, InStore
  <2>3. \A o \in Op : o \in InStore => Len(kept[o]) \in 1..PerOp /\ next[o] >= Len(kept[o])
    <3>. SUFFICES ASSUME NEW o \in Op, o \in InStore
                  PROVE  Len(kept[o]) \in 1..PerOp /\ next[o] >= Len(kept[o])
      OBVIOUS
    <3>1. Len(kept[o]) >= 1 /\ Len(kept[o]) <= PerOp /\ Len(kept[o]) <= next[o]
      BY DEF StreamInv, Streams, Stored
    <3>2. kept[o] \in Seq(Nat) /\ next[o] \in Nat /\ PerOp \in Nat
      BY <2>0, StreamTypesAt, ProgressAssumption
    <3>. QED
      BY <3>1, <3>2
  <2>4. \A o \in Op : fetch[o].at \in {"none", "asked", "waiting", "delivering"}
                      /\ (fetch[o].todo # <<>> <=> fetch[o].at = "delivering")
    BY <2>0, StreamTypesAt DEF StreamInv, Streams, Wired
  <2>5. cursor \in [Op -> 0..MaxEvents]
    <3>1. cursor \in [Op -> Nat] /\ \A o \in Op : cursor[o] <= MaxEvents
      BY <2>0 DEF StreamTypes, StreamBounds, Within
    <3>. QED
      BY <2>0, <3>1
  <2>6. told.reported \in [Op -> 0..MaxEvents]
    <3>1. told.reported \in [Op -> Nat] /\ \A o \in Op : told.reported[o] <= MaxEvents
      BY <2>0 DEF StreamTypes, Histories, StreamBounds, Within
    <3>. QED
      BY <2>0, <3>1
  <2>. QED
    BY <2>0, <2>1, <2>2, <2>3, <2>4, <2>5, <2>6 DEF StreamTypes, StreamBounds, ProgressTypeOK
<1>. QED
  BY <1>2, <1>3, PTL
-----------------------------------------------------------------------------
(* A scan only fails before its first visit. *)
CredBounds ==
  /\ Len(kubeScan) <= MaxScans
  /\ \A n \in Scan : kubeScan[n].phase = "failed" => kubeScan[n].completed = 0
  /\ \A a \in Asker : asker[a].at \in Place /\ asker[a].scan \in {0} \cup Scan

LEMMA KubeScanBounded ==
  ASSUME CredInv, CredBounds, NEW n \in Scan, NEW t \in KubeScans,
         t.phase = "failed" => t.completed = 0,
         kubeScan' = [kubeScan EXCEPT ![n] = t],
         \A a \in Asker : asker'[a].at \in Place /\ asker'[a].scan \in {0} \cup Scan
  PROVE  CredBounds'
<1>1. kubeScan \in Seq(KubeScans) /\ n \in 1..Len(kubeScan)
  BY DEF CredInv, Scan
<1>2. /\ Len(kubeScan') = Len(kubeScan) /\ Scan' = Scan
      /\ kubeScan'[n] = t /\ \A m \in Scan : m # n => kubeScan'[m] = kubeScan[m]
  BY <1>1 DEF Scan
<1>. HIDE DEF Scan
<1>. QED
  BY <1>2 DEF CredBounds

LEMMA AskerBounded ==
  ASSUME CredInv, CredBounds, NEW a \in Asker, NEW x, asker' = [asker EXCEPT ![a] = x],
         Scan \subseteq Scan', x.at \in Place, x.scan \in {0} \cup Scan'
  PROVE  \A b \in Asker : asker'[b].at \in Place /\ asker'[b].scan \in {0} \cup Scan'
<1>1. DOMAIN asker = Asker
  BY AskerIs
<1>2. asker'[a] = x /\ \A b \in Asker : b # a => asker'[b] = asker[b]
  BY <1>1
<1>. QED
  BY <1>2 DEF CredBounds

LEMMA CredBoundsStep == CredInv /\ CredBounds /\ [CredentialNext]_credentialVars => CredBounds'
<1>. SUFFICES ASSUME CredInv, CredBounds, [CredentialNext]_credentialVars PROVE CredBounds'
  OBVIOUS
<1>0. \A a \in Asker : asker[a].at \in Place /\ asker[a].scan \in {0} \cup Scan
  BY DEF CredBounds
<1>1. CASE Drops
  BY <1>1 DEF Drops, CredBounds, Scan
<1>2. ASSUME NEW a \in Asker, JoinsScan(a) PROVE CredBounds'
  <2>1. profile \in {0} \cup Scan /\ kubeScan' = kubeScan /\ Scan' = Scan
    BY <1>2 DEF JoinsScan, CredInv, Scan
  <2>2. PICK x : x = [asker[a] EXCEPT !.at = "waits", !.scan = profile]
                 /\ asker' = [asker EXCEPT ![a] = x]
    BY <1>2 DEF JoinsScan, Waits
  <2>3. x.at = "waits" /\ x.scan = profile
    BY <2>2, AskerIs
  <2>4. \A b \in Asker : asker'[b].at \in Place /\ asker'[b].scan \in {0} \cup Scan'
    BY <2>1, <2>2, <2>3, AskerBounded DEF Place
  <2>. QED
    BY <2>1, <2>4 DEF CredBounds
<1>3. ASSUME NEW a \in Asker, ResolvesProfile(a) PROVE CredBounds'
  <2>1. Len(kubeScan) < MaxScans /\ kubeScan' = Append(kubeScan, NewScan)
        /\ kubeScan \in Seq(KubeScans) /\ NewScan \in KubeScans /\ NewScan.phase = "lists"
    BY <1>3, NewScanSound DEF ResolvesProfile, CredInv, ScanSound
  <2>. DEFINE N == Len(kubeScan)
  <2>2. /\ N \in Nat /\ Len(kubeScan') = N + 1 /\ Scan' = Scan \cup {N + 1} /\ Scan = 1..N
        /\ kubeScan'[N + 1] = NewScan /\ \A m \in Scan : kubeScan'[m] = kubeScan[m]
    BY <2>1 DEF Scan
  <2>3. PICK x : x = [asker[a] EXCEPT !.at = "waits", !.scan = N + 1]
                 /\ asker' = [asker EXCEPT ![a] = x]
    BY <1>3 DEF ResolvesProfile, Waits
  <2>. HIDE DEF N
  <2>4. x.at = "waits" /\ x.scan = N + 1
    BY <2>3, AskerIs
  <2>5. \A b \in Asker : asker'[b].at \in Place /\ asker'[b].scan \in {0} \cup Scan'
    <3>1. Scan \subseteq Scan' /\ x.scan \in {0} \cup Scan'
      BY <2>2, <2>4
    <3>2. x.at \in Place /\ asker' = [asker EXCEPT ![a] = x]
      BY <2>3, <2>4 DEF Place
    <3>. QED
      BY <3>1, <3>2, AskerBounded
  <2>6. Len(kubeScan') <= MaxScans
    <3>1. N < MaxScans /\ MaxScans \in Nat
      BY <2>1, CredentialAssumption DEF N
    <3>. QED
      BY <2>2, <3>1
  <2>7. \A n \in Scan' : kubeScan'[n].phase = "failed" => kubeScan'[n].completed = 0
    BY <2>1, <2>2 DEF CredBounds
  <2>. QED
    BY <2>5, <2>6, <2>7 DEF CredBounds
<1>4. ASSUME NEW a \in Asker, NEW found, NEW o \in Override, kubeScan' = kubeScan,
             asker' = [asker EXCEPT ![a] =
               IF Refuses(found, o) THEN [@ EXCEPT !.at = "refused", !.override = o]
               ELSE [@ EXCEPT !.at = "has", !.override = o, !.result = Applied(found, o)]]
      PROVE  CredBounds'
  <2>1. PICK x : /\ asker' = [asker EXCEPT ![a] = x]
                 /\ x = IF Refuses(found, o) THEN [asker[a] EXCEPT !.at = "refused", !.override = o]
                        ELSE [asker[a] EXCEPT !.at = "has", !.override = o, !.result = Applied(found, o)]
    BY <1>4
  <2>2. x.at \in {"refused", "has"} /\ x.scan = asker[a].scan
    BY <2>1, AskerIs
  <2>3. Scan' = Scan
    BY <1>4 DEF Scan
  <2>4. \A b \in Asker : asker'[b].at \in Place /\ asker'[b].scan \in {0} \cup Scan'
    BY <1>0, <2>1, <2>2, <2>3, AskerBounded DEF Place
  <2>. QED
    BY <1>4, <2>3, <2>4 DEF CredBounds
<1>5. ASSUME NEW a \in Asker, Applies(a) PROVE CredBounds'
  <2>1. PICK o \in Override, tls \in BOOLEAN :
          asker' = [asker EXCEPT ![a] =
            IF Refuses(OfWorkload(kubeScan[asker[a].scan].best, tls), o)
            THEN [@ EXCEPT !.at = "refused", !.override = o]
            ELSE [@ EXCEPT !.at = "has", !.override = o,
                           !.result = Applied(OfWorkload(kubeScan[asker[a].scan].best, tls), o)]]
    BY <1>5 DEF Applies
  <2>2. kubeScan' = kubeScan
    BY <1>5 DEF Applies
  <2>. QED
    BY <1>4, <2>1, <2>2
<1>6. ASSUME NEW a \in Asker, AppliesStrimzi(a) PROVE CredBounds'
  <2>1. PICK o \in Override, tls \in BOOLEAN, user \in {"cert", "password", None} :
          asker' = [asker EXCEPT ![a] =
            IF Refuses(OfStrimzi(tls, user), o) THEN [@ EXCEPT !.at = "refused", !.override = o]
            ELSE [@ EXCEPT !.at = "has", !.override = o, !.result = Applied(OfStrimzi(tls, user), o)]]
    BY <1>6 DEF AppliesStrimzi
  <2>2. kubeScan' = kubeScan
    BY <1>6 DEF AppliesStrimzi
  <2>. QED
    BY <1>4, <2>1, <2>2
<1>7. ASSUME NEW n \in Scan, ListsWorkloads(n) PROVE CredBounds'
  <2>1. ScanSound(workload, kubeScan[n]) /\ kubeScan[n].phase = "lists"
        /\ kubeScan' = [kubeScan EXCEPT ![n] = StartsScan(kubeScan[n])] /\ asker' = asker
    BY <1>7 DEF ListsWorkloads, CredInv
  <2>2. StartsScan(kubeScan[n]) \in KubeScans
    BY <2>1, StartsSound DEF ScanSound
  <2>3. StartsScan(kubeScan[n]).phase # "failed"
    BY <2>1 DEF StartsScan, ScanSound, KubeScans
  <2>. QED
    BY <1>0, <2>1, <2>2, <2>3, KubeScanBounded
<1>8. ASSUME NEW n \in Scan, ListFails(n) PROVE CredBounds'
  <2>. DEFINE t == [kubeScan[n] EXCEPT !.phase = "failed"]
  <2>1. kubeScan[n] \in KubeScans /\ kubeScan[n].completed = 0
    BY <1>8 DEF ListFails, CredInv, ScanSound
  <2>2. t \in KubeScans /\ t.completed = 0
    BY <2>1 DEF KubeScans
  <2>3. kubeScan' = [kubeScan EXCEPT ![n] = t]
    BY <1>8 DEF ListFails
  <2>. HIDE DEF t
  <2>4. ASSUME NEW a \in Asker PROVE asker'[a].at \in Place /\ asker'[a].scan \in {0} \cup Scan
    <3>1. PICK x : x = [asker[a] EXCEPT !.at = "failed"]
      OBVIOUS
    <3>2. asker'[a] \in {x, asker[a]}
      BY <1>8, <3>1 DEF ListFails
    <3>3. x.at = "failed" /\ x.scan = asker[a].scan
      BY <3>1, AskerIs
    <3>. QED
      BY <1>0, <3>2, <3>3 DEF Place
  <2>. QED
    BY <2>2, <2>3, <2>4, KubeScanBounded
<1>9. ASSUME NEW n \in Scan, NEW kind \in {"config", "secret"}, NEW i \in Index, ReadsSecret(n, kind, i)
      PROVE  CredBounds'
  <2>1. PICK how \in {"had", "lost"} : kubeScan' = [kubeScan EXCEPT ![n].read[kind][i] = how]
    BY <1>9 DEF ReadsSecret
  <2>2. ScanSound(workload, kubeScan[n]) /\ kubeScan[n].read[kind][i] = "asked" /\ asker' = asker
    BY <1>9 DEF CredInv, ReadsSecret
  <2>. DEFINE t == [kubeScan[n] EXCEPT !.read[kind][i] = how]
  <2>3. kubeScan' = [kubeScan EXCEPT ![n] = t]
    BY <2>1
  <2>4. t \in KubeScans
    BY <2>2, ReadKeeps DEF ScanSound
  <2>5. t.phase = kubeScan[n].phase /\ t.completed = kubeScan[n].completed
    BY <2>2 DEF ScanSound, KubeScans
  <2>. HIDE DEF t
  <2>6. t.phase = "failed" => t.completed = 0
    BY <2>5 DEF CredBounds
  <2>. QED
    BY <1>0, <2>2, <2>3, <2>4, <2>6, KubeScanBounded
<1>10. ASSUME NEW n \in Scan, NEW v \in Worker, Visits(n, v) PROVE CredBounds'
  <2>. DEFINE s == kubeScan[n]
              i == s.at[v]
  <2>1. PICK t : /\ kubeScan' = [kubeScan EXCEPT ![n] = t]
                 /\ t \in {ScanLeft(s, v),
                           [s EXCEPT !.read["secret"][i] = "asked"],
                           ScanLeft([s EXCEPT !.best = Strongest(s, Parsed(Environment(s, i)))], v)}
    BY <1>10 DEF Visits
  <2>2. s \in KubeScans /\ s.phase = "visits" /\ asker' = asker
    BY <1>10 DEF Visits, CredInv, ScanSound
  <2>3. t.phase # "failed"
    <3>. HIDE DEF s
    <3>1. s = [s EXCEPT !.best = s.best]
      BY <2>2 DEF KubeScans
    <3>2. ScanLeft([s EXCEPT !.best = s.best], v).phase # "failed"
      BY <2>2, LeftNeverFailed
    <3>3. ScanLeft(s, v).phase # "failed"
      BY <3>1, <3>2
    <3>4. [s EXCEPT !.read["secret"][i] = "asked"].phase = "visits"
      BY <2>2 DEF KubeScans
    <3>5. ScanLeft([s EXCEPT !.best = Strongest(s, Parsed(Environment(s, i)))], v).phase # "failed"
      BY <2>2, LeftNeverFailed
    <3>. QED
      BY <2>1, <3>3, <3>4, <3>5
  <2>4. Len(kubeScan') = Len(kubeScan) /\ Scan' = Scan
        /\ kubeScan'[n] = t /\ \A m \in Scan : m # n => kubeScan'[m] = kubeScan[m]
    <3>. HIDE DEF s
    <3>1. kubeScan \in Seq(KubeScans)
      BY DEF CredInv
    <3>. QED
      BY <2>1, <3>1 DEF Scan
  <2>. QED
    BY <2>2, <2>3, <2>4 DEF CredBounds
<1>11. CASE UNCHANGED credentialVars
  BY <1>11 DEF credentialVars, CredBounds, Scan
<1>. QED
  BY <1>1, <1>2, <1>3, <1>5, <1>6, <1>7, <1>8, <1>9, <1>10, <1>11 DEF CredentialNext

LEMMA CredTyped == CredInv /\ CredBounds => CredentialTypeOK
<1>. SUFFICES ASSUME CredInv, CredBounds PROVE CredentialTypeOK
  OBVIOUS
<1>1. dropped \in 0..Len(kubeScan)
  BY DEF CredInv
<1>2. ASSUME NEW n \in Scan
      PROVE  /\ kubeScan[n].phase \in {"lists", "visits", "done", "failed"}
             /\ kubeScan[n].next \in 1..(Workloads + 1) /\ kubeScan[n].completed \in 0..Workloads
             /\ kubeScan[n].read \in [{"config", "secret"} -> [Index -> ReadState]]
             /\ \A v \in Worker : kubeScan[n].at[v] \in Index \cup {0}
  <2>. DEFINE s == kubeScan[n]
  <2>1. ScanSound(workload, s) /\ s \in KubeScans /\ (s.phase = "failed" => s.completed = 0)
    BY DEF CredInv, ScanSound, CredBounds
  <2>. HIDE DEF s
  <2>2. /\ s.phase \in {"lists", "visits", "done", "failed"} /\ s.completed \in Nat
        /\ s.next \in 1..(Workloads + 1) /\ Workloads \in Nat
        /\ s.read \in [{"config", "secret"} -> [Index -> ReadState]]
        /\ \A v \in Worker : s.at[v] \in Index \cup {0}
    BY <2>1, WorkerIsIndex DEF KubeScans, KubeReads
  <2>3. s.completed <= Workloads
    <3>1. CASE s.phase \in {"lists", "failed"}
      BY <2>1, <2>2, <3>1 DEF ScanSound
    <3>2. CASE s.phase \in {"visits", "done"}
      <4>1. s.completed + Cardinality(Busy(s)) = s.next - 1
        BY <2>1, <3>2 DEF ScanSound, Visiting
      <4>. QED
        BY <2>2, <4>1, BusyFinite
    <3>. QED
      BY <2>2, <3>1, <3>2
  <2>. QED
    BY <2>2, <2>3 DEF s
<1>. QED
  BY <1>1, <1>2 DEF CredInv, CredBounds, CredentialTypeOK

LEMMA CredentialTyped == CredentialSpec => []CredentialTypeOK
<1>1. CredentialInit => CredBounds
  BY CredentialAssumption DEF CredentialInit, CredBounds, Scan, Place
<1>. QED
  BY <1>1, CredInitInv, CredStep, CredBoundsStep, CredTyped, PTL DEF CredentialSpec

-----------------------------------------------------------------------------
(* All parts.                                                              *)

(* A behaviour of the small instance is a behaviour of each part: what is proved of the parts for
   all values is what the run checks on its few. *)
LEMMA MainIsEach ==
  MainSpec => /\ RequestSpec /\ ConnectionSpec /\ ScanSpec /\ BatchSpec /\ SizesSpec /\ HealthSpec
              /\ ProgressSpec /\ CredentialSpec /\ FetchSpec
<1>1. MainInit => /\ RequestInit /\ ConnectionInit /\ ScanInit /\ BatchInit /\ SizesInit /\ HealthInit
                  /\ ProgressInit /\ CredentialInit /\ FetchInit
  BY DEF MainInit
<1>2. [MainNext]_mainVars =>
        /\ [RequestNext]_requestVars /\ [ConnectionNext]_connectionVars /\ [ScanNext]_scanVars
        /\ [BatchNext]_batchVars /\ [SizesNext]_sizesVars /\ [HealthNext]_healthVars
        /\ [ProgressNext]_progressVars /\ [CredentialNext]_credentialVars /\ [FetchNext]_fetchVars
  BY DEF MainNext, mainVars
<1>. QED
  BY <1>1, <1>2, PTL DEF MainSpec, RequestSpec, ConnectionSpec, ScanSpec, BatchSpec, SizesSpec,
     HealthSpec, ProgressSpec, CredentialSpec, FetchSpec

(* For any topics, brokers, groups and reads: a total that a page shows is exact, or marked. *)
THEOREM TotalsAlwaysBounds == MainSpec => []TotalsAreBounds
<1>. QED
  BY MainIsEach, SizesAlwaysForgive, LagAlwaysMinimum, PTL DEF TotalsAreBounds

LEMMA RequestTyped == RequestSpec => []RequestTypeOK
<1>1. RequestInv => RequestTypeOK
  BY DEF RequestInv
<1>. QED
  BY <1>1, RequestInitInv, RequestStep, PTL DEF RequestSpec

(* For any constants, each part of main keeps its state in its types and bounds: the store its
   operations and their events, the pools their workers, the previews their budget. *)
THEOREM MainAlwaysTyped == MainSpec => []MainTypeOK
<1>. QED
  BY MainIsEach, ProgressTyped, ScanTyped, RequestTyped, ConnectionTyped, CredentialTyped, BatchTyped,
     FetchTyped, SizesTyped, HealthTyped, PTL DEF MainTypeOK
=============================================================================
