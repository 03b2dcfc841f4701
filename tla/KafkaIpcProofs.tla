--------------------------- MODULE KafkaIpcProofs ---------------------------
(***************************************************************************)
(* What TLAPS proves of KafkaIpcMain, for any targets, keys, requests,     *)
(* invalidations and connections: what is closed stays closed, and a       *)
(* request no invalidation has to do with is never harmed by one.  The     *)
(* facts about the pool are those of SessionPoolProofs, whose clients are  *)
(* the callers here (P); IpcInv is the inductive invariant.                *)
(***************************************************************************)
EXTENDS KafkaIpcMain, FiniteSetTheorems, TLAPS

P == INSTANCE SessionPoolProofs WITH Client <- Caller

-----------------------------------------------------------------------------
(* The inductive invariant.                                                *)

Waits(p, c) == client[p].at = "waiting" /\ client[p].conn = c

(* A request whose target was invalidated while its operation was on its way. *)
Late(q) == Resolving(q) /\ q \notin current

(* Which call of the pool a request is in at each place of its operation. *)
Places(r) ==
  /\ req[r].at # "idle" => req[r].key \in Key
  /\ req[r].at \in {"locating", "reading", "resolving", "resolved", "unresolved"} =>
       client[r].at = "idle"
  /\ req[r].at = "connecting" => client[r].at \in {"waiting", "acquiring", "holding", "idle"}
  /\ req[r].at = "using" => client[r].at = "holding"
  /\ req[r].at \in {"connecting", "using"} /\ client[r].at # "idle" =>
       keyOf[client[r].conn] = req[r].key
  /\ req[r].at \in {"dropping", "cleaning"} => client[r].at \in {"clearing", "idle"}
  /\ req[r].at = "idle" => client[r].at \in {"idle", "releasing"} /\ r \notin current

(* The callback of an invalidation that has begun goes on before anything else: no promise has
   settled since, and no request of its target is current. *)
Invalidating(i) ==
  /\ inv[i].keys # {} =>
       /\ inv[i].at = "clearing" /\ inv[i].keys \subseteq KeysOf(inv[i].target)
       /\ \A r \in current : TargetOf[req[r].key] # inv[i].target
       /\ \A c \in Conn : phase[c] # "ready"
       /\ ~Draining
  /\ inv[i].at # "idle" => inv[i].target \in Target
  /\ inv[i].at = "idle" => inv[i].target = None

(* A request awaits every connect until it has an outcome that somebody has seen. *)
Awaited == \A c \in Conn :
  (\/ phase[c] \in {"connecting", "rejecting", "ready"}
   \/ phase[c] = "rejected" /\ keyOf[c] \in Key /\ pending[keyOf[c]] = c)
    => \E r \in Request : Waits(r, c)

Rejecting == \A c \in Conn : phase[c] = "rejecting" => c \in stale

Profiles == outdated = {} /\ \A k \in Key : profile[k] # None => k \in registered

Found == \A c \in Alive \ stale :
  \/ keyOf[c] \in registered
  \/ \E i \in Invalidation : keyOf[c] \in inv[i].keys
  \/ c \in client[Shutdown].todo

(* The shutdown alone closes several sessions; from its first step on nothing is registered,
   and when its wait is over nothing is left. *)
Closing ==
  /\ \A p \in Caller \ {Shutdown} : client[p].todo = {}
  /\ \A p \in Caller \ Request : client[p].at \in {"idle", "clearing"}
  /\ closed <=> shut.at # "running"
  /\ shut.at = "running" => client[Shutdown].at = "idle"
  /\ closed => registered = {} /\ current = {} /\ \A i \in Invalidation : inv[i].keys = {}
  /\ shut.at = "clearing" => \A r \in Request : Resolving(r) => r \in shut.wait
  /\ shut.at \in {"final", "done"} => Alive = {} /\ \A r \in Request : ~Resolving(r)
  /\ client[Shutdown].todo # {} => shut.at = "clearing" /\ client[Shutdown].at = "clearing"

(* What an invalidation has aged is still to be cleared, or was marked while it connected, and
   then the invalidation waits for a request that awaits it. *)
AgedEnd == \A c \in aged \cap Alive :
  \/ shut.at = "clearing"
  \/ \E i \in Invalidation :
       /\ inv[i].target = TargetOf[keyOf[c]]
       /\ \/ inv[i].at = "clearing" /\ (keyOf[c] \in inv[i].keys \/ c \in stale)
          \/ inv[i].at = "waiting" /\ c \in stale /\ \E r \in inv[i].wait : Waits(r, c)

(* An invalidation of its target waits, or will wait, for every late request. *)
LateWaited == \A q \in Request : Late(q) => closed \/ \E i \in Invalidation :
  /\ inv[i].target = TargetOf[req[q].key]
  /\ inv[i].at = "clearing" \/ (inv[i].at = "waiting" /\ q \in inv[i].wait)

(* Behind every connect that will be rejected there is a late request of its key, which awaits it
   or the clear() that marked it. *)
StaleHasLate == \A c \in stale : phase[c] \in {"connecting", "rejecting"} => closed \/
  \E q \in Request : Late(q) /\ req[q].key = keyOf[c]
    /\ (Waits(q, c) \/ (client[q].at = "clearing" /\ c \in client[q].joined))

(* A calm request shares its key with no late one, and so with nobody who cleans up. *)
Calm(r) ==
  /\ r \in current
  /\ \A q \in Request : Late(q) => req[q].key # req[r].key
  /\ pending[req[r].key] \notin stale
  /\ client[r].at = "waiting" => client[r].conn \notin stale
  /\ client[r].at \in {"acquiring", "holding"} => phase[client[r].conn] = "open"

OwnTypes ==
  /\ registered \in SUBSET Key /\ current \in SUBSET Request
  /\ profile \in [Key -> Request \cup {None, "loaded"}]
  /\ req \in [Request -> ReqState]
  /\ inv \in [Invalidation -> InvState]
  /\ shut \in ShutState
  /\ aged \in SUBSET Conn /\ outdated \in SUBSET Key /\ calm \in SUBSET Request

PoolInv == P!IInv /\ P!Fresh /\ P!Counted

IpcInv ==
  /\ OwnTypes /\ PoolInv
  /\ \A r \in Request : Places(r)
  /\ \A i \in Invalidation : Invalidating(i)
  /\ Awaited /\ Rejecting /\ Profiles /\ Found /\ Closing
  /\ AgedEnd /\ LateWaited /\ StaleHasLate
  /\ \A r \in calm : Calm(r)

-----------------------------------------------------------------------------
(* The two instances of the pool are one: that of KafkaIpcMain and that of the lemmas.          *)

LEMMA SameLeaf ==
  /\ \A p \in Caller : S!Draining(p) <=> P!Draining(p)
  /\ \A p \in Caller : S!Disconnected(p) <=> P!Disconnected(p)
  /\ S!Unsettled = P!Unsettled
BY DEF S!Draining, P!Draining, S!Disconnected, P!Disconnected, S!Unsettled, P!Unsettled

LEMMA SameCount == \A X : S!Cardinality(X) = P!Cardinality(X)
BY DEF S!Cardinality, P!Cardinality

LEMMA SameVictims ==
  \A sess, keep, lease, rec : S!Victims(sess, keep, lease, rec) = P!Victims(sess, keep, lease, rec)
<1>1. \A sess : S!Pooled(sess) = P!Pooled(sess) /\ S!Live(sess) = P!Live(sess)
  BY DEF S!Pooled, P!Pooled, S!Live, P!Live
<1>2. \A sess : S!Over(sess) <=> P!Over(sess)
  BY <1>1, SameCount, Zenon DEF S!Over, P!Over
<1>3. \A sess, keep, lease : S!Evictable(sess, keep, lease) = P!Evictable(sess, keep, lease)
  BY <1>1, Zenon DEF S!Evictable, P!Evictable
<1>. QED
  BY <1>2, <1>3, Zenon DEF S!Victims, P!Victims, S!Coldest, P!Coldest

LEMMA SameEvict ==
  \A p \in Caller : \A place, c, sess, ph, rec :
     S!EvictTurn(p, place, c, sess, ph, rec) <=> P!EvictTurn(p, place, c, sess, ph, rec)
<1>. TAKE p \in Caller
<1>. TAKE place, c, sess, ph, rec
<1>. DEFINE keep == IF place = "acquiring" THEN keyOf[c] ELSE None
<1>1. \A v : v \in S!Victims(sess, keep, leases', rec) <=> v \in P!Victims(sess, keep, leases', rec)
  BY SameVictims, Zenon
<1>. QED
  BY <1>1, Zenon
  DEF S!EvictTurn, P!EvictTurn, S!Pooled, P!Pooled, S!Live, P!Live, S!Without, P!Without,
      S!Among, P!Among, S!At, P!At, S!Disconnect, P!Disconnect

LEMMA SameInit == S!Init <=> P!Init
BY DEF S!Init, P!Init, S!Idle, P!Idle, S!At, P!At

LEMMA SameAcquire == \A p \in Caller, k \in Key : S!Acquire(p, k) <=> P!Acquire(p, k)
BY Zenon
DEF S!Acquire, P!Acquire, S!AcquireSession, P!AcquireSession, S!JoinPending, P!JoinPending,
    S!StartConnect, P!StartConnect, S!Take, P!Take, S!Touch, P!Touch, S!Pooled, P!Pooled, S!Live,
    P!Live, S!At, P!At, S!life, P!life, S!clocks, P!clocks, S!InFlight, P!InFlight, S!Free, P!Free

LEMMA SameClear == \A p \in Caller, K \in SUBSET Key : S!Clear(p, K) <=> P!Clear(p, K)
BY Zenon
DEF S!Clear, P!Clear, S!Abandons, P!Abandons, S!CloseNext, P!CloseNext, S!Live, P!Live,
    S!Clearing, P!Clearing, S!Disconnect, P!Disconnect, S!Among, P!Among, S!Pooled, P!Pooled

LEMMA SameRelease == \A p \in Caller : S!ReleaseConnection(p) <=> P!ReleaseConnection(p)
BY SameEvict, Zenon
DEF S!ReleaseConnection, P!ReleaseConnection, S!GiveBack, P!GiveBack, S!Touch, P!Touch,
    S!Pooled, P!Pooled, S!Live, P!Live, S!Give, P!Give, S!Among, P!Among, S!Idle, P!Idle, S!At,
    P!At, S!life, P!life, S!clocks, P!clocks

LEMMA SameNetwork ==
  \A c \in Conn : /\ S!Settle(c) <=> P!Settle(c)
                  /\ S!DisconnectDone(c) <=> P!DisconnectDone(c)
                  /\ S!IdleFires(c) <=> P!IdleFires(c)
<1>. TAKE c \in Conn
<1>1. S!Settle(c) <=> P!Settle(c)
  BY DEF S!Settle, P!Settle, S!ConnectResolves, P!ConnectResolves, S!ConnectRejects,
     P!ConnectRejects, S!Invalidated, P!Invalidated, S!clocks, P!clocks
<1>2. S!DisconnectDone(c) <=> P!DisconnectDone(c)
  BY Zenon DEF S!DisconnectDone, P!DisconnectDone, S!Ended, P!Ended
<1>3. S!IdleFires(c) <=> P!IdleFires(c)
  BY Zenon DEF S!IdleFires, P!IdleFires, S!Expired, P!Expired, S!EntryKept, P!EntryKept,
     S!Disconnect, P!Disconnect, S!Among, P!Among, S!Pooled, P!Pooled, S!Live, P!Live
<1>. QED
  BY <1>1, <1>2, <1>3

LEMMA SameContinue ==
  \A p \in Caller : (S!Resume(p) <=> P!Resume(p)) /\ (S!Continue(p) <=> P!Continue(p))
<1>1. \A p \in Caller : S!Resume(p) <=> P!Resume(p)
  BY SameEvict, Zenon
  DEF S!Resume, P!Resume, S!Touch, P!Touch, S!Pooled, P!Pooled, S!Live, P!Live, S!Forget,
      P!Forget, S!Take, P!Take
<1>2. \A p \in Caller : S!ResumeRejected(p) <=> P!ResumeRejected(p)
  BY Zenon
  DEF S!ResumeRejected, P!ResumeRejected, S!Forget, P!Forget, S!Idle, P!Idle, S!At, P!At,
      S!life, P!life, S!clocks, P!clocks
<1>3. \A p \in Caller : S!EvictAgain(p) <=> P!EvictAgain(p)
  BY SameEvict, Zenon DEF S!EvictAgain, P!EvictAgain
<1>4. \A p \in Caller : S!FinishRelease(p) <=> P!FinishRelease(p)
  BY Zenon
  DEF S!FinishRelease, P!FinishRelease, S!EntryKept, P!EntryKept, S!Idle, P!Idle, S!At, P!At,
      S!life, P!life
<1>5. \A p \in Caller : S!ContinueClear(p) <=> P!ContinueClear(p)
  BY Zenon
  DEF S!ContinueClear, P!ContinueClear, S!Disconnected, P!Disconnected, S!CloseNext,
      P!CloseNext, S!Clearing, P!Clearing, S!Disconnect, P!Disconnect, S!Among, P!Among, S!Pooled,
      P!Pooled, S!Live, P!Live
<1>6. \A p \in Caller : S!FinishClear(p) <=> P!FinishClear(p)
  BY Zenon
  DEF S!FinishClear, P!FinishClear, S!Disconnected, P!Disconnected, S!Unsettled, P!Unsettled,
      S!Idle, P!Idle, S!At, P!At, S!life, P!life, S!clocks, P!clocks
<1>. QED
  BY <1>1, <1>2, <1>3, <1>4, <1>5, <1>6 DEF S!Continue, P!Continue

LEMMA SameTypes == S!TypeOK <=> P!TypeOK
BY DEF S!TypeOK, P!TypeOK, S!Phase, P!Phase, S!Call, P!Call, S!Unsettled, P!Unsettled

LEMMA PoolAssumption == P!SessionAssumption
<1>1. \A X : P!IsFiniteSet(X) <=> IsFiniteSet(X)
  BY DEF P!IsFiniteSet, IsFiniteSet
<1>2. IsFiniteSet(Request \cup (Invalidation \X Key) \cup {Shutdown})
  BY IpcAssumption, FS_Product, FS_Union, FS_Singleton
<1>. QED
  BY <1>1, <1>2, IpcAssumption DEF P!SessionAssumption, Caller

-----------------------------------------------------------------------------
(* The pool.                                                                *)

LEMMA PoolKept ==
  ASSUME PoolInv, [P!Next]_P!vars
  PROVE  PoolInv'
<1>1. P!SessionAssumption
  BY PoolAssumption
<1>2. P!IInv'
  BY <1>1, P!TypeStep, P!StructureStep DEF PoolInv, P!IInv
<1>3. P!Fresh'
  BY <1>1, P!FreshStep DEF PoolInv
<1>4. P!Counted'
  BY <1>1, P!CountedStep DEF PoolInv
<1>. QED
  BY <1>2, <1>3, <1>4 DEF PoolInv

(* What the proofs below use of the invariants of the pool. *)
PoolFacts ==
  /\ None \notin Conn /\ None \notin Key
  /\ stale \subseteq Conn
  /\ \A c \in stale : phase[c] \in {"connecting", "rejecting", "rejected"}
  /\ \A k \in Key : pending[k] # None => pending[k] \in Conn /\ keyOf[pending[k]] = k
  /\ \A c \in Conn : phase[c] \in {"connecting", "rejecting", "ready"} =>
       keyOf[c] \in Key /\ pending[keyOf[c]] = c
  /\ \A c \in Conn : phase[c] = "open" => keyOf[c] \in Key
  /\ \A p \in Caller : client[p].at \in {"waiting", "acquiring", "holding", "releasing"} =>
       client[p].conn \in Conn
  /\ \A p \in Caller : client[p].at \in {"acquiring", "holding"} =>
       P!Leaseholders(client[p].conn) # {}
  /\ \A p \in Caller : client[p].todo \subseteq Conn

LEMMA PoolGives == PoolInv => PoolFacts
<1>. SUFFICES ASSUME PoolInv PROVE PoolFacts
  OBVIOUS
<1>1. P!TypeOK /\ P!Linked /\ P!Calls /\ P!Fresh /\ None \notin Conn /\ None \notin Key
  BY IpcAssumption DEF PoolInv, P!IInv
<1>2. \A p \in Caller : client[p].todo \subseteq Conn
  BY <1>1 DEF P!TypeOK, P!Call
<1>3. \A p \in Caller : client[p].at \in {"waiting", "acquiring", "holding", "releasing"} =>
        client[p].conn \in Conn
  BY <1>1 DEF P!Calls
<1>4. \A p \in Caller : client[p].at \in {"acquiring", "holding"} =>
        P!Leaseholders(client[p].conn) # {}
  BY DEF P!Leaseholders
<1>5. stale \subseteq Conn
  BY <1>1 DEF P!TypeOK
<1>6. \A c \in stale : phase[c] \in {"connecting", "rejecting", "rejected"}
  BY <1>1 DEF P!Fresh
<1>7. /\ \A k \in Key : pending[k] # None => pending[k] \in Conn /\ keyOf[pending[k]] = k
      /\ \A c \in Conn : phase[c] \in {"connecting", "rejecting", "ready"} =>
           keyOf[c] \in Key /\ pending[keyOf[c]] = c
      /\ \A c \in Conn : phase[c] = "open" => keyOf[c] \in Key
  BY <1>1 DEF P!TypeOK, P!Linked, P!LinkedAs
<1>. QED
  BY <1>1, <1>2, <1>3, <1>4, <1>5, <1>6, <1>7 DEF PoolFacts

LEMMA PoolGivesNext ==
  PoolInv' => /\ \A c \in stale' : phase'[c] \in {"connecting", "rejecting", "rejected"}
              /\ \A p \in Caller : client'[p].at \in {"acquiring", "holding"} =>
                   \E c \in Conn : client'[p].conn = c /\ P!Leaseholders(c)' # {}
<1>. SUFFICES ASSUME PoolInv' PROVE
       /\ \A c \in stale' : phase'[c] \in {"connecting", "rejecting", "rejected"}
       /\ \A p \in Caller : client'[p].at \in {"acquiring", "holding"} =>
            \E c \in Conn : client'[p].conn = c /\ P!Leaseholders(c)' # {}
  OBVIOUS
<1>1. P!Calls' /\ P!Fresh'
  BY DEF PoolInv, P!IInv
<1>. QED
  BY <1>1 DEF P!Calls, P!Fresh, P!Leaseholders

LEMMA CallersAct ==
  ASSUME PoolInv, NEW p \in Caller
  PROVE  /\ S!Continue(p) => P!Rests({p}) /\ P!GoesOn(client[p], client'[p])
         /\ S!ReleaseConnection(p) =>
              /\ P!Rests({p}) /\ client[p].at = "holding"
              /\ client'[p].at \in {"idle", "releasing"} /\ client'[p].todo = {}
<1>1. P!IInv /\ P!Counted /\ P!SessionAssumption
  BY PoolAssumption DEF PoolInv
<1>2. P!Continue(p) => P!Rests({p}) /\ P!GoesOn(client[p], client'[p])
  BY <1>1, P!ContinueGoes
<1>3. P!ReleaseConnection(p) =>
              /\ P!Rests({p}) /\ client[p].at = "holding"
              /\ client'[p].at \in {"idle", "releasing"} /\ client'[p].todo = {}
  BY <1>1, P!ReleaseRests
<1>. QED
  BY <1>2, <1>3, SameContinue, SameRelease

LEMMA NetworkActs ==
  ASSUME PoolInv, NEW c \in Conn, S!Settle(c) \/ S!DisconnectDone(c) \/ S!IdleFires(c)
  PROVE  P!Rests({})
<1>1. P!IInv /\ P!Counted /\ P!SessionAssumption
  BY PoolAssumption DEF PoolInv
<1>2. P!Settle(c) \/ P!DisconnectDone(c) \/ P!IdleFires(c)
  BY SameNetwork
<1>. QED
  BY <1>1, <1>2, P!NetworkRests

LEMMA AcquireActs ==
  ASSUME PoolInv, NEW p \in Caller, NEW k \in Key, S!Acquire(p, k)
  PROVE  /\ client[p].at = "idle" /\ ~closed /\ ~closed' /\ client'[p].todo = {}
         /\ \A q \in Caller \ {p} : client'[q] = client[q]
         /\ P!Leased(p, k) \/ P!Joined(p, k) \/ \E c \in Conn : P!Begun(p, k, c)
<1>1. P!IInv /\ P!SessionAssumption
  BY PoolAssumption DEF PoolInv
<1>2. P!Acquire(p, k)
  BY SameAcquire
<1>. QED
  BY <1>1, <1>2, P!AcquireBegins

LEMMA ClearActs ==
  ASSUME PoolInv, NEW p \in Caller, NEW K \in SUBSET Key, S!Clear(p, K)
  PROVE  P!Cleared(p, K) /\ (\A k \in K : K = {k} => client'[p].todo = {})
<1>1. P!IInv /\ P!SessionAssumption
  BY PoolAssumption DEF PoolInv
<1>2. P!Clear(p, K)
  BY SameClear
<1>. QED
  BY <1>1, <1>2, P!ClearCloses

(* Between two messages no promise has settled that somebody awaits. *)
LEMMA QuietFacts ==
  ASSUME IpcInv, Quiet
  PROVE  /\ ~Clearing /\ ~Draining
         /\ \A c \in Conn : phase[c] # "ready"
         /\ \A k \in Key : pending[k] \in Conn => phase[pending[k]] # "rejected"
<1>1. \A r \in Request : client[r].at = "waiting" =>
        phase[client[r].conn] \notin {"rejected", "ready", "open"}
  BY DEF Quiet, CallerReady, Caller
<1>2. ~Clearing
  BY DEF Quiet
<1>3. ~Draining
  BY DEF Quiet, CallerReady, Draining, S!Draining
<1>4. \A c \in Conn : phase[c] # "ready"
  BY <1>1 DEF IpcInv, Awaited, Waits
<1>5. ASSUME NEW k \in Key, pending[k] \in Conn, phase[pending[k]] = "rejected" PROVE FALSE
  <2>1. keyOf[pending[k]] = k
    BY <1>5, PoolGives, IpcAssumption DEF IpcInv, PoolFacts
  <2>2. \E r \in Request : Waits(r, pending[k])
    BY <1>5, <2>1 DEF IpcInv, Awaited
  <2>. QED
    BY <1>1, <1>5, <2>2 DEF Waits
<1>. QED
  BY <1>2, <1>3, <1>4, <1>5

LEMMA CallerTypes ==
  /\ \A r \in Request : r \in Caller
  /\ \A i \in Invalidation, k \in Key : <<i, k>> \in Caller \ Request
  /\ Shutdown \in Caller \ Request
  /\ \A i \in Invalidation, k \in Key : <<i, k>> # Shutdown
BY IpcAssumption DEF Caller

LEMMA PoolNext ==
  ASSUME IpcInv, Next
  PROVE  PoolInv'
<1>. DEFINE NoneDrain == \A p \in Caller : ~P!Draining(p)
<1>1. Quiet \/ ~Draining => NoneDrain
  BY QuietFacts, SameLeaf DEF Draining
<1>2. ASSUME NoneDrain, P!Step PROVE [P!Next]_P!vars
  BY <1>2 DEF P!Next
<1>3. UNCHANGED pool => [P!Next]_P!vars
  BY DEF pool, P!vars, P!life, P!clocks
<1>4. ASSUME NEW p \in Caller, S!Continue(p), NoneDrain PROVE [P!Next]_P!vars
  <2>1. P!Continue(p)
    BY <1>4, SameContinue
  <2>. QED
    BY <1>2, <1>4, <2>1 DEF P!Step
<1>5. ASSUME NEW p \in Caller, NEW k \in Key, S!ClearKey(p, k), NoneDrain
      PROVE  [P!Next]_P!vars
  <2>1. P!ClearKey(p, k)
    BY <1>5, SameClear DEF S!ClearKey, P!ClearKey
  <2>. QED
    BY <1>2, <1>5, <2>1 DEF P!Step
<1>6. ASSUME NEW p \in Caller, S!ClearAll(p), NoneDrain PROVE [P!Next]_P!vars
  <2>1. P!ClearAll(p)
    BY <1>6, SameClear DEF S!ClearAll, P!ClearAll
  <2>. QED
    BY <1>2, <1>6, <2>1 DEF P!Step
<1>7. ASSUME NEW r \in Request, NEW place, Clean(r, place), NoneDrain, req[r].at # "idle"
      PROVE  [P!Next]_P!vars
  <2>1. req[r].key \in Key
    BY <1>7 DEF IpcInv, Places
  <2>. QED
    BY <1>5, <1>7, <2>1, CallerTypes DEF Clean
<1>8. ASSUME NEW r \in Request, Failed(r), NoneDrain, req[r].at # "idle"
      PROVE  [P!Next]_P!vars
  BY <1>3, <1>7, <1>8 DEF Failed, Rejects
<1>9. ASSUME NEW i \in Invalidation, NEW k \in Key, ClearSession(i, k)
      PROVE  [P!Next]_P!vars
  <2>1. ~Draining
    BY <1>9 DEF ClearSession, IpcInv, Invalidating
  <2>. QED
    BY <1>1, <1>5, <1>9, <2>1, CallerTypes DEF ClearSession
<1>10. ASSUME NEW p \in Caller, S!Draining(p), S!Resume(p) PROVE [P!Next]_P!vars
  BY <1>10, SameLeaf, SameContinue DEF P!Next
<1>11. ASSUME ~Draining, NEW r \in Request, Resumes(r) PROVE [P!Next]_P!vars
  <2>1. CASE Unresolved(r)
    BY <1>1, <1>8, <1>11, <2>1 DEF Unresolved
  <2>2. CASE Connect(r)
    <3>1. CASE Failed(r)
      BY <1>1, <1>8, <1>11, <2>2, <3>1 DEF Connect
    <3>2. CASE S!Acquire(r, req[r].key)
      <4>1. req[r].key \in Key
        BY <2>2 DEF Connect, IpcInv, Places
      <4>2. P!Acquire(r, req[r].key)
        BY <3>2, <4>1, SameAcquire, CallerTypes
      <4>. QED
        BY <1>1, <1>2, <1>11, <4>1, <4>2, CallerTypes DEF P!Step
    <3>. QED
      BY <2>2, <3>1, <3>2 DEF Connect
  <2>3. CASE Connected(r)
    BY <1>1, <1>3, <1>7, <1>11, <2>3 DEF Connected
  <2>4. CASE ConnectFailed(r)
    BY <1>1, <1>8, <1>11, <2>4 DEF ConnectFailed
  <2>5. CASE Dropped(r)
    BY <1>1, <1>8, <1>11, <2>5 DEF Dropped
  <2>6. CASE Cleaned(r)
    BY <1>3, <2>6 DEF Cleaned, Rejects
  <2>. QED
    BY <1>11, <2>1, <2>2, <2>3, <2>4, <2>5, <2>6 DEF Resumes
<1>12. ASSUME NEW i \in Invalidation, Goes(i) PROVE [P!Next]_P!vars
  BY <1>3, <1>12 DEF Goes, AwaitPending, Invalidated
<1>13. ASSUME ~Draining, Ends PROVE [P!Next]_P!vars
  <2>1. CASE ShutdownClears
    BY <1>1, <1>6, <1>13, <2>1, CallerTypes DEF ShutdownClears
  <2>2. CASE ShutdownEnds
    BY <1>3, <2>2 DEF ShutdownEnds
  <2>. QED
    BY <1>13, <2>1, <2>2 DEF Ends
<1>14. ASSUME ~Draining, NEW c \in Conn, S!Settle(c) \/ S!DisconnectDone(c) PROVE [P!Next]_P!vars
  <2>1. P!Settle(c) \/ P!DisconnectDone(c)
    BY <1>14, SameNetwork
  <2>. QED
    BY <1>1, <1>2, <1>14, <2>1 DEF P!Step
<1>15. ASSUME Quiet, Message PROVE [P!Next]_P!vars
  <2>1. ASSUME NEW r \in Request, NEW k \in Key, Begin(r, k) PROVE [P!Next]_P!vars
    BY <1>3, <2>1 DEF Begin
  <2>2. ASSUME NEW r \in Request, Located(r) PROVE [P!Next]_P!vars
    BY <1>1, <1>3, <1>7, <1>15, <2>2 DEF Located, Rejects
  <2>3. ASSUME NEW r \in Request, CredentialsRead(r) \/ ProfileLoaded(r)
        PROVE  [P!Next]_P!vars
    BY <1>3, <2>3 DEF CredentialsRead, ProfileLoaded
  <2>4. ASSUME NEW r \in Request, Finish(r) PROVE [P!Next]_P!vars
    <3>1. P!ReleaseConnection(r)
      BY <2>4, SameRelease, CallerTypes DEF Finish
    <3>. QED
      BY <1>1, <1>2, <1>15, <3>1, CallerTypes DEF P!Step
  <2>5. ASSUME NEW i \in Invalidation, NEW t \in Target, Invalidate(i, t)
        PROVE  [P!Next]_P!vars
    BY <1>3, <2>5 DEF Invalidate
  <2>6. CASE ShutdownBegins
    BY <1>1, <1>6, <1>15, <2>6, CallerTypes DEF ShutdownBegins
  <2>7. ASSUME NEW c \in Conn, S!IdleFires(c) PROVE [P!Next]_P!vars
    <3>1. P!IdleFires(c)
      BY <2>7, SameNetwork
    <3>. QED
      BY <1>1, <1>2, <1>15, <3>1 DEF P!Step
  <2>. QED
    BY <1>15, <2>1, <2>2, <2>3, <2>4, <2>5, <2>6, <2>7 DEF Message, Answers, Session
<1>16. [P!Next]_P!vars
  <2>1. CASE Continuation
    BY <1>1, <1>4, <1>9, <1>10, <1>11, <1>12, <1>13, <2>1 DEF Continuation, Session
  <2>2. CASE ~Clearing /\ ~Draining /\ \E c \in Conn : Network(c)
    BY <1>14, <2>2 DEF Network, Session
  <2>. QED
    BY <1>15, <2>1, <2>2 DEF Next
<1>. QED
  BY <1>16, PoolKept DEF IpcInv

-----------------------------------------------------------------------------
(* The registry, the profiles and the operations.                           *)

Place == {"idle", "locating", "reading", "resolving", "resolved", "unresolved", "connecting",
          "dropping", "cleaning", "using"}

LEMMA GotoMoves ==
  ASSUME OwnTypes, NEW r \in Request, NEW place \in Place, Goto(r, place)
  PROVE  /\ req' \in [Request -> ReqState]
         /\ req'[r].at = place /\ req'[r].key = req[r].key
         /\ \A q \in Request \ {r} : req'[q] = req[q]
         /\ inv' = inv /\ shut' = shut
<1>. DEFINE x == [req[r] EXCEPT !.at = place]
<1>1. req' = [req EXCEPT ![r] = x]
  BY DEF Goto
<1>2. x \in ReqState /\ x.at = place /\ x.key = req[r].key
  BY DEF OwnTypes, ReqState, Place
<1>. HIDE DEF x
<1>. QED
  BY <1>1, <1>2 DEF OwnTypes, Goto

LEMMA EndedMoves ==
  ASSUME OwnTypes, NEW r \in Request, Ended(r)
  PROVE  /\ req' \in [Request -> ReqState]
         /\ req'[r].at = "idle"
         /\ \A q \in Request \ {r} : req'[q] = req[q]
         /\ current' = current \ {r} /\ calm' = calm \ {r}
<1>1. NoRequest \in ReqState /\ NoRequest.at = "idle"
  BY DEF NoRequest, ReqState
<1>. QED
  BY <1>1 DEF OwnTypes, Ended

LEMMA SettledMoves ==
  ASSUME OwnTypes, NEW r \in Request, Settled(r)
  PROVE  /\ inv' \in [Invalidation -> InvState] /\ shut' \in ShutState
         /\ \A i \in Invalidation :
              /\ inv'[i].at = inv[i].at /\ inv'[i].target = inv[i].target
              /\ inv'[i].keys = inv[i].keys /\ inv'[i].wait = inv[i].wait \ {r}
         /\ shut'.at = shut.at /\ shut'.wait = shut.wait \ {r}
         /\ UNCHANGED <<registered, profile, aged, outdated>>
<1>1. ASSUME NEW i \in Invalidation
      PROVE  /\ inv'[i] = [inv[i] EXCEPT !.wait = @ \ {r}]
             /\ inv'[i] \in InvState
             /\ inv'[i].at = inv[i].at /\ inv'[i].target = inv[i].target
             /\ inv'[i].keys = inv[i].keys /\ inv'[i].wait = inv[i].wait \ {r}
  BY DEF Settled, OwnTypes, InvState
<1>2. inv' \in [Invalidation -> InvState]
  BY <1>1 DEF Settled
<1>3. shut' \in ShutState /\ shut'.at = shut.at /\ shut'.wait = shut.wait \ {r}
  BY DEF Settled, OwnTypes, ShutState
<1>. QED
  BY <1>1, <1>2, <1>3 DEF Settled

(* The steps of invalidations and of the shutdown. *)
LEMMA InvMoves ==
  ASSUME OwnTypes, NEW i \in Invalidation, NEW x \in InvState, inv' = [inv EXCEPT ![i] = x]
  PROVE  /\ inv' \in [Invalidation -> InvState]
         /\ inv'[i] = x /\ \A j \in Invalidation \ {i} : inv'[j] = inv[j]
BY DEF OwnTypes

LEMMA InvalidateMoves ==
  ASSUME OwnTypes, NEW i \in Invalidation, NEW t \in Target, Invalidate(i, t)
  PROVE  /\ inv' \in [Invalidation -> InvState]
         /\ inv'[i].at = "clearing" /\ inv'[i].target = t
         /\ inv'[i].keys = registered \cap KeysOf(t) /\ inv'[i].wait = {}
         /\ \A j \in Invalidation \ {i} : inv'[j] = inv[j]
         /\ inv[i].at = "idle"
<1>. DEFINE x == [at |-> "clearing", target |-> t, keys |-> registered \cap KeysOf(t), wait |-> {}]
<1>1. inv[i].at = "idle" /\ inv' = [inv EXCEPT ![i] = x]
  BY DEF Invalidate
<1>2. x \in InvState
  BY DEF OwnTypes, InvState, KeysOf
<1>3. /\ inv' \in [Invalidation -> InvState] /\ inv'[i] = x
      /\ \A j \in Invalidation \ {i} : inv'[j] = inv[j]
  BY <1>1, <1>2, InvMoves
<1>. QED
  BY <1>1, <1>3

LEMMA ClearSessionMoves ==
  ASSUME OwnTypes, NEW i \in Invalidation, NEW k \in Key, ClearSession(i, k)
  PROVE  /\ inv' \in [Invalidation -> InvState]
         /\ inv'[i].at = inv[i].at /\ inv'[i].target = inv[i].target
         /\ inv'[i].keys = inv[i].keys \ {k} /\ inv'[i].wait = inv[i].wait
         /\ \A j \in Invalidation \ {i} : inv'[j] = inv[j]
<1>. DEFINE x == [inv[i] EXCEPT !.keys = @ \ {k}]
<1>1. inv' = [inv EXCEPT ![i] = x]
  BY DEF ClearSession
<1>2. /\ x \in InvState /\ x.at = inv[i].at /\ x.target = inv[i].target
      /\ x.keys = inv[i].keys \ {k} /\ x.wait = inv[i].wait
  BY DEF OwnTypes, InvState
<1>. HIDE DEF x
<1>3. /\ inv' \in [Invalidation -> InvState] /\ inv'[i] = x
      /\ \A j \in Invalidation \ {i} : inv'[j] = inv[j]
  BY <1>1, <1>2, InvMoves
<1>. QED
  BY <1>2, <1>3

LEMMA AwaitMoves ==
  ASSUME OwnTypes, NEW i \in Invalidation, AwaitPending(i)
  PROVE  /\ inv' \in [Invalidation -> InvState]
         /\ inv'[i].at = "waiting" /\ inv'[i].target = inv[i].target
         /\ inv'[i].keys = inv[i].keys /\ inv'[i].wait = PendingOf(inv[i].target)
         /\ \A j \in Invalidation \ {i} : inv'[j] = inv[j]
         /\ inv[i].at = "clearing"
<1>. DEFINE x == [inv[i] EXCEPT !.at = "waiting", !.wait = PendingOf(inv[i].target)]
<1>1. inv' = [inv EXCEPT ![i] = x] /\ inv[i].at = "clearing"
  BY DEF AwaitPending
<1>2. /\ x \in InvState /\ x.at = "waiting" /\ x.target = inv[i].target
      /\ x.keys = inv[i].keys /\ x.wait = PendingOf(inv[i].target)
  BY DEF OwnTypes, InvState, PendingOf
<1>. HIDE DEF x
<1>3. /\ inv' \in [Invalidation -> InvState] /\ inv'[i] = x
      /\ \A j \in Invalidation \ {i} : inv'[j] = inv[j]
  BY <1>1, <1>2, InvMoves
<1>. QED
  BY <1>1, <1>2, <1>3

LEMMA InvalidatedMoves ==
  ASSUME OwnTypes, NEW i \in Invalidation, Invalidated(i)
  PROVE  /\ inv' \in [Invalidation -> InvState]
         /\ inv'[i].at = "idle" /\ inv'[i].target = None
         /\ inv'[i].keys = {} /\ inv'[i].wait = {}
         /\ \A j \in Invalidation \ {i} : inv'[j] = inv[j]
         /\ inv[i].at = "waiting" /\ inv[i].wait = {}
<1>1. /\ NoInvalidation \in InvState /\ NoInvalidation.at = "idle" /\ NoInvalidation.keys = {}
      /\ NoInvalidation.target = None /\ NoInvalidation.wait = {}
  BY DEF NoInvalidation, InvState
<1>2. /\ inv' = [inv EXCEPT ![i] = NoInvalidation]
      /\ inv[i].at = "waiting" /\ inv[i].wait = {}
  BY DEF Invalidated
<1>. QED
  BY <1>1, <1>2, InvMoves

LEMMA ShutMoves ==
  ASSUME OwnTypes
  PROVE  /\ ShutdownBegins => /\ shut' \in ShutState /\ shut'.at = "clearing"
                              /\ shut'.wait = AllPending /\ shut.at = "running"
         /\ ShutdownClears => shut' \in ShutState /\ shut'.at = "final" /\ shut.at = "clearing"
         /\ ShutdownEnds => shut' \in ShutState /\ shut'.at = "done" /\ shut.at = "final"
BY DEF OwnTypes, ShutState, ShutdownBegins, ShutdownClears, ShutdownEnds, AllPending

-----------------------------------------------------------------------------
(* A call of the pool goes on, a connect or a disconnect ends, or a timer fires: X is the caller
   whose call moves, if it is one. *)

Clearless == \A i \in Invalidation : inv[i].keys = {}

LEMMA SessionKeeps ==
  ASSUME IpcInv, PoolInv', Clearless, NEW X \in SUBSET Caller, P!Rests(X),
         \A p \in X : P!GoesOn(client[p], client'[p]), UNCHANGED <<own, ghosts>>
  PROVE  IpcInv'
<1>. USE CallerTypes, PoolGives DEF IpcInv
<1>1. /\ UNCHANGED <<closed, keyOf, stale>> /\ UNCHANGED <<registered, current, profile, req>>
      /\ UNCHANGED <<inv, shut, aged, outdated, calm>>
      /\ \A p \in Caller \ X : client'[p] = client[p]
      /\ \A k \in Key : pending'[k] \in {pending[k], None}
  BY DEF P!Rests, own, ghosts
<1>2. \A c \in Conn :
        /\ phase'[c] \in {"connecting", "rejecting"} => phase[c] \in {"connecting", "rejecting"}
        /\ phase'[c] = "rejecting" => phase[c] = "rejecting" \/ c \in stale
        /\ phase'[c] = "rejected" => phase[c] \in {"connecting", "rejecting", "rejected"}
        /\ phase'[c] = "ready" => phase[c] \in {"connecting", "ready"}
        /\ phase'[c] = "open" => phase[c] \in {"ready", "open"}
  BY DEF P!Rests, P!Unsettled
<1>3. \A c \in Conn : c \in Alive' => c \in Alive
  BY <1>2 DEF Alive
<1>4. \A p \in Caller : client'[p].todo \subseteq client[p].todo
  BY <1>1 DEF P!GoesOn
<1>5. OwnTypes'
  BY <1>1 DEF OwnTypes
<1>6. ASSUME NEW r \in Request PROVE Places(r)'
  <2>1. CASE r \notin X
    BY <1>1, <2>1 DEF Places
  <2>2. CASE r \in X
    <3>1. P!GoesOn(client[r], client'[r]) /\ Places(r)
      BY <2>2
    <3>. QED
      BY <1>1, <3>1 DEF Places, P!GoesOn
  <2>. QED
    BY <2>1, <2>2
<1>7. ASSUME NEW i \in Invalidation PROVE Invalidating(i)'
  BY <1>1 DEF Invalidating, Clearless
<1>8. ASSUME NEW r \in Request, NEW c \in Conn, Waits(r, c)
      PROVE  \/ Waits(r, c)'
             \/ phase'[c] = "open"
             \/ phase'[c] = "rejected" /\ \A k \in Key : pending'[k] # c
  <2>1. CASE r \notin X
    BY <1>1, <1>8, <2>1 DEF Waits
  <2>2. CASE r \in X
    BY <1>8, <2>2 DEF Waits, P!GoesOn
  <2>. QED
    BY <2>1, <2>2
<1>9. Awaited'
  <2>. SUFFICES ASSUME NEW c \in Conn,
                       \/ phase'[c] \in {"connecting", "rejecting", "ready"}
                       \/ phase'[c] = "rejected" /\ keyOf[c] \in Key /\ pending'[keyOf[c]] = c
                PROVE  \E r \in Request : Waits(r, c)'
    BY <1>1 DEF Awaited
  <2>1. \/ phase[c] \in {"connecting", "rejecting", "ready"}
        \/ phase[c] = "rejected" /\ keyOf[c] \in Key /\ pending[keyOf[c]] = c
    BY <1>1, <1>2 DEF PoolFacts
  <2>2. PICK r \in Request : Waits(r, c)
    BY <2>1 DEF Awaited
  <2>. QED
    BY <1>8, <2>2
<1>10. Rejecting'
  BY <1>1, <1>2 DEF Rejecting
<1>11. Profiles'
  BY <1>1 DEF Profiles
<1>12. Found'
  <2>. SUFFICES ASSUME NEW c \in Alive', c \notin stale
                PROVE  \/ keyOf[c] \in registered
                       \/ \E i \in Invalidation : keyOf[c] \in inv[i].keys
                       \/ c \in client'[Shutdown].todo
    BY <1>1 DEF Found
  <2>1. c \in Alive /\ c \in Conn /\ phase'[c] \notin {"closing", "closed"}
    BY <1>3 DEF Alive
  <2>2. c \in client[Shutdown].todo => c \in client'[Shutdown].todo
    BY <1>1, <2>1 DEF P!GoesOn, Closing
  <2>. QED
    BY <2>1, <2>2 DEF Found
<1>13. Closing'
  <2>1. \A p \in Caller \ {Shutdown} : client'[p].todo = {}
    BY <1>4 DEF Closing
  <2>2. \A p \in Caller \ Request : client'[p].at \in {"idle", "clearing"}
    BY <1>1 DEF Closing, P!GoesOn
  <2>3. shut.at = "running" => client'[Shutdown].at = "idle"
    BY <1>1 DEF Closing, P!GoesOn
  <2>4. client'[Shutdown].todo # {} => client'[Shutdown].at = "clearing"
    BY <1>1, <1>4 DEF Closing, P!GoesOn
  <2>5. shut.at \in {"final", "done"} => Alive' = {}
    BY <1>3 DEF Closing, Alive
  <2>. QED
    BY <1>1, <1>4, <2>1, <2>2, <2>3, <2>4, <2>5 DEF Closing, Resolving
<1>14. AgedEnd'
  <2>. SUFFICES ASSUME NEW c \in aged \cap Alive', shut.at # "clearing"
                PROVE  \E i \in Invalidation :
                         /\ inv[i].target = TargetOf[keyOf[c]]
                         /\ \/ inv[i].at = "clearing" /\ (keyOf[c] \in inv[i].keys \/ c \in stale)
                            \/ /\ inv[i].at = "waiting" /\ c \in stale
                               /\ \E r \in inv[i].wait : Waits(r, c)'
    BY <1>1 DEF AgedEnd
  <2>1. c \in Alive /\ c \in Conn
    BY <1>3 DEF Alive
  <2>2. PICK i \in Invalidation :
          /\ inv[i].target = TargetOf[keyOf[c]]
          /\ \/ inv[i].at = "clearing" /\ (keyOf[c] \in inv[i].keys \/ c \in stale)
             \/ /\ inv[i].at = "waiting" /\ c \in stale
                /\ \E r \in inv[i].wait : Waits(r, c)
    BY <2>1 DEF AgedEnd
  <2>3. c \in stale => phase'[c] \notin {"open", "rejected"}
    BY <1>1, PoolGivesNext DEF Alive
  <2>4. inv[i].wait \subseteq Request
    BY DEF OwnTypes, InvState
  <2>. QED
    BY <1>8, <2>1, <2>2, <2>3, <2>4
<1>15. LateWaited'
  BY <1>1 DEF LateWaited, Late, Resolving
<1>16. StaleHasLate'
  <2>. SUFFICES ASSUME NEW c \in stale, phase'[c] \in {"connecting", "rejecting"}, ~closed
                PROVE  \E q \in Request : Late(q) /\ req[q].key = keyOf[c]
                         /\ (Waits(q, c)' \/ (client'[q].at = "clearing" /\ c \in client'[q].joined))
    BY <1>1 DEF StaleHasLate, Late, Resolving
  <2>1. c \in Conn /\ phase[c] \in {"connecting", "rejecting"}
    BY <1>2 DEF PoolFacts
  <2>2. PICK q \in Request : Late(q) /\ req[q].key = keyOf[c]
          /\ (Waits(q, c) \/ (client[q].at = "clearing" /\ c \in client[q].joined))
    BY <2>1 DEF StaleHasLate
  <2>3. client[q].at = "clearing" /\ c \in client[q].joined =>
          client'[q].at = "clearing" /\ c \in client'[q].joined
    BY <1>1, <2>1 DEF P!GoesOn, P!Unsettled
  <2>. QED
    BY <1>8, <2>1, <2>2, <2>3
<1>17. ASSUME NEW r \in calm PROVE Calm(r)'
  <2>1. r \in Request /\ Calm(r) /\ ~closed
    BY DEF OwnTypes, Calm, Closing
  <2>2. client'[r].at = "waiting" => client'[r].conn \notin stale
    BY <1>1, <2>1 DEF Calm, P!GoesOn
  <2>3. ASSUME client'[r].at \in {"acquiring", "holding"} PROVE phase'[client'[r].conn] = "open"
    <3>1. PICK c \in Conn : client'[r].conn = c /\ P!Leaseholders(c)' # {}
      BY <2>1, <2>3, PoolGivesNext
    <3>2. \/ phase'[c] = "open"
          \/ client[r].at \in {"acquiring", "holding"} /\ client[r].conn = c
      BY <1>1, <2>1, <2>3, <3>1 DEF P!GoesOn
    <3>3. client[r].at \in {"acquiring", "holding"} /\ client[r].conn = c => phase[c] = "open"
      BY <2>1 DEF Calm
    <3>4. \A p \in X : client[p].todo = {}
      BY <2>1 DEF Closing
    <3>5. phase[c] = "open" => phase'[c] = "open"
      BY <3>1, <3>4 DEF P!Rests
    <3>. QED
      BY <3>1, <3>2, <3>3, <3>5
  <2>4. pending'[req[r].key] \notin stale
    <3>1. req[r].key \in Key
      BY <2>1 DEF Places, Calm
    <3>. QED
      BY <1>1, <2>1, <3>1 DEF Calm, PoolFacts
  <2>. QED
    BY <1>1, <2>1, <2>2, <2>3, <2>4 DEF Calm, Late, Resolving
<1>. QED
  BY <1>1, <1>5, <1>6, <1>7, <1>9, <1>10, <1>11, <1>12, <1>13, <1>14, <1>15, <1>16, <1>17

-----------------------------------------------------------------------------
(* A step of an operation that leaves the pool alone; W has the requests whose operation it
   settles. *)

Answered(W) ==
  /\ UNCHANGED <<pool, aged, outdated>>
  /\ registered \subseteq registered'
  /\ closed => registered' = {} /\ current' = {}
  /\ \A i \in Invalidation :
       /\ inv'[i].at = inv[i].at /\ inv'[i].target = inv[i].target
       /\ inv'[i].keys = inv[i].keys /\ inv'[i].wait = inv[i].wait \ W
  /\ shut'.at = shut.at /\ shut'.wait = shut.wait \ W
  /\ \A q \in W : ~Resolving(q)' /\ client[q].at \notin {"waiting", "clearing"}
  /\ \A q \in Request : Resolving(q)' => Resolving(q) \/ ~closed
  /\ \A q \in Request : Late(q)' => Late(q) /\ req'[q].key = req[q].key
  /\ \A q \in Request : Late(q) => Late(q)' \/ q \in W
  /\ \A q \in calm' : Calm(q)' \/ (q \in calm /\ q \in current' /\ req'[q].key = req[q].key)

LEMMA AnsweredKeeps ==
  ASSUME IpcInv, PoolInv', Clearless, NEW W \in SUBSET Request, Answered(W),
         OwnTypes', Profiles', \A r \in Request : Places(r)'
  PROVE  IpcInv'
<1>. USE CallerTypes DEF IpcInv
<1>1. /\ UNCHANGED <<closed, keyOf, stale, phase, pending, client>>
      /\ UNCHANGED <<aged, outdated>>
      /\ registered \subseteq registered' /\ (closed => registered' = {} /\ current' = {})
      /\ shut'.at = shut.at /\ shut'.wait = shut.wait \ W
  BY DEF Answered, pool
<1>2. \A i \in Invalidation :
       /\ inv'[i].at = inv[i].at /\ inv'[i].target = inv[i].target
       /\ inv'[i].keys = inv[i].keys /\ inv'[i].wait = inv[i].wait \ W
  BY DEF Answered
<1>3. \A q \in Request : \A c : Waits(q, c)' <=> Waits(q, c)
  BY <1>1 DEF Waits
<1>4. Alive' = Alive
  BY <1>1 DEF Alive
<1>5. \A q \in W : ~Resolving(q)' /\ client[q].at \notin {"waiting", "clearing"}
  BY DEF Answered
<1>6. \A i \in Invalidation : Invalidating(i)'
  BY <1>1, <1>2 DEF Invalidating, Clearless
<1>7. Awaited'
  BY <1>1, <1>3 DEF Awaited
<1>8. Rejecting'
  BY <1>1 DEF Rejecting
<1>9. Found'
  BY <1>1, <1>2, <1>4 DEF Found
<1>10. Closing'
  <2>1. shut.at = "clearing" => closed /\ \A q \in Request : Resolving(q)' => q \in shut'.wait
    BY <1>1, <1>5 DEF Closing, Answered
  <2>2. shut.at \in {"final", "done"} => \A q \in Request : ~Resolving(q)'
    BY DEF Closing, Answered
  <2>3. closed => \A i \in Invalidation : inv'[i].keys = {}
    BY <1>2 DEF Closing
  <2>. QED
    BY <1>1, <1>4, <2>1, <2>2, <2>3 DEF Closing
<1>11. AgedEnd'
  <2>. SUFFICES ASSUME NEW c \in aged \cap Alive, shut.at # "clearing"
                PROVE  \E i \in Invalidation :
                         /\ inv'[i].target = TargetOf[keyOf[c]]
                         /\ \/ inv'[i].at = "clearing" /\ (keyOf[c] \in inv'[i].keys \/ c \in stale)
                            \/ /\ inv'[i].at = "waiting" /\ c \in stale
                               /\ \E r \in inv'[i].wait : Waits(r, c)'
    BY <1>1, <1>4 DEF AgedEnd
  <2>1. PICK i \in Invalidation :
          /\ inv[i].target = TargetOf[keyOf[c]]
          /\ \/ inv[i].at = "clearing" /\ (keyOf[c] \in inv[i].keys \/ c \in stale)
             \/ /\ inv[i].at = "waiting" /\ c \in stale
                /\ \E r \in inv[i].wait : Waits(r, c)
    BY DEF AgedEnd
  <2>2. \A r \in inv[i].wait : Waits(r, c) => r \in inv'[i].wait /\ Waits(r, c)'
    BY <1>1, <1>2, <1>5 DEF Waits
  <2>. QED
    BY <1>2, <2>1, <2>2
<1>12. LateWaited'
  <2>. SUFFICES ASSUME NEW q \in Request, Late(q)', ~closed
                PROVE  \E i \in Invalidation :
                         /\ inv'[i].target = TargetOf[req'[q].key]
                         /\ inv'[i].at = "clearing" \/ (inv'[i].at = "waiting" /\ q \in inv'[i].wait)
    BY <1>1 DEF LateWaited
  <2>1. Late(q) /\ req'[q].key = req[q].key /\ q \notin W
    BY <1>5 DEF Answered, Late
  <2>. QED
    BY <1>2, <2>1 DEF LateWaited
<1>13. StaleHasLate'
  <2>. SUFFICES ASSUME NEW c \in stale, phase[c] \in {"connecting", "rejecting"}, ~closed
                PROVE  \E q \in Request : Late(q)' /\ req'[q].key = keyOf[c]
                         /\ (Waits(q, c)' \/ (client[q].at = "clearing" /\ c \in client[q].joined))
    BY <1>1 DEF StaleHasLate
  <2>1. PICK q \in Request : Late(q) /\ req[q].key = keyOf[c]
          /\ (Waits(q, c) \/ (client[q].at = "clearing" /\ c \in client[q].joined))
    BY DEF StaleHasLate
  <2>2. Late(q)'
    BY <1>5, <2>1 DEF Answered, Waits
  <2>3. req'[q].key = req[q].key
    BY <2>2 DEF Answered
  <2>. QED
    BY <1>3, <2>1, <2>2, <2>3
<1>14. ASSUME NEW r \in calm' PROVE Calm(r)'
  <2>1. CASE r \in calm /\ r \in current' /\ req'[r].key = req[r].key
    <3>1. \A q \in Request : Late(q)' => req'[q].key # req'[r].key
      BY <2>1 DEF Calm, Answered
    <3>. QED
      BY <1>1, <2>1, <3>1 DEF Calm
  <2>. QED
    BY <2>1 DEF Answered
<1>. QED
  BY <1>6, <1>7, <1>8, <1>9, <1>10, <1>11, <1>12, <1>13, <1>14

(* The operation of a request has failed. *)
LEMMA RejectsKeeps ==
  ASSUME IpcInv, PoolInv', Clearless, NEW r \in Request, client[r].at = "idle", Rejects(r)
  PROVE  IpcInv'
<1>. USE DEF IpcInv
<1>1. /\ req' \in [Request -> ReqState] /\ req'[r].at = "idle"
      /\ \A q \in Request \ {r} : req'[q] = req[q]
      /\ current' = current \ {r} /\ calm' = calm \ {r}
  BY EndedMoves DEF Rejects
<1>2. /\ inv' \in [Invalidation -> InvState] /\ shut' \in ShutState
      /\ \A i \in Invalidation :
           /\ inv'[i].at = inv[i].at /\ inv'[i].target = inv[i].target
           /\ inv'[i].keys = inv[i].keys /\ inv'[i].wait = inv[i].wait \ {r}
      /\ shut'.at = shut.at /\ shut'.wait = shut.wait \ {r}
      /\ UNCHANGED <<registered, profile, aged, outdated>>
  BY SettledMoves DEF Rejects
<1>3. UNCHANGED pool /\ UNCHANGED <<client, closed, keyOf>>
  BY DEF Rejects, pool
<1>4. OwnTypes' /\ Profiles'
  BY <1>1, <1>2 DEF OwnTypes, Profiles
<1>5. ASSUME NEW q \in Request PROVE Places(q)'
  BY <1>1, <1>3 DEF Places
<1>6. Answered({r})
  <2>1. \A q \in Request : /\ Resolving(q)' => Resolving(q)
                           /\ Late(q)' => Late(q) /\ req'[q].key = req[q].key
    BY <1>1, <1>2, <1>3 DEF Late, Resolving
  <2>2. \A q \in Request : Late(q) => Late(q)' \/ q \in {r}
    BY <1>1, <1>2, <1>3 DEF Late, Resolving
  <2>3. \A q \in {r} : ~Resolving(q)' /\ client[q].at \notin {"waiting", "clearing"}
    BY <1>1 DEF Resolving
  <2>4. \A q \in calm' : q \in calm /\ q \in current' /\ req'[q].key = req[q].key
    BY <1>1, <1>2, <1>3 DEF Calm, OwnTypes
  <2>. QED
    BY <1>1, <1>2, <1>3, <2>1, <2>2, <2>3, <2>4 DEF Answered, Closing
<1>. QED
  BY <1>4, <1>5, <1>6, AnsweredKeeps

(* The connection of a request is there, and its target has not been invalidated. *)
LEMMA ConnectedKeeps ==
  ASSUME IpcInv, PoolInv', Clearless, NEW r \in Request,
         req[r].at = "connecting", client[r].at = "holding",
         Settled(r), req' = [req EXCEPT ![r].at = "using"], UNCHANGED <<pool, current, calm>>
  PROVE  IpcInv'
<1>. USE DEF IpcInv
<1>. DEFINE x == [req[r] EXCEPT !.at = "using"]
<1>a. x \in ReqState /\ x.at = "using" /\ x.key = req[r].key
  BY DEF OwnTypes, ReqState
<1>b. req' = [req EXCEPT ![r] = x]
  OBVIOUS
<1>. HIDE DEF x
<1>1. /\ req' \in [Request -> ReqState] /\ req'[r].at = "using" /\ req'[r].key = req[r].key
      /\ \A q \in Request \ {r} : req'[q] = req[q]
  BY <1>a, <1>b DEF OwnTypes
<1>2. /\ inv' \in [Invalidation -> InvState] /\ shut' \in ShutState
      /\ \A i \in Invalidation :
           /\ inv'[i].at = inv[i].at /\ inv'[i].target = inv[i].target
           /\ inv'[i].keys = inv[i].keys /\ inv'[i].wait = inv[i].wait \ {r}
      /\ shut'.at = shut.at /\ shut'.wait = shut.wait \ {r}
      /\ UNCHANGED <<registered, profile, aged, outdated>>
  BY SettledMoves
<1>3. UNCHANGED <<client, closed, keyOf, current, calm>>
  BY DEF pool
<1>4. OwnTypes' /\ Profiles'
  BY <1>1, <1>2, <1>3 DEF OwnTypes, Profiles
<1>5. ASSUME NEW q \in Request PROVE Places(q)'
  BY <1>1, <1>3 DEF Places
<1>6. Answered({r})
  <2>1. \A q \in Request : /\ Resolving(q)' => Resolving(q)
                           /\ Late(q)' => Late(q) /\ req'[q].key = req[q].key
    BY <1>1, <1>2, <1>3 DEF Late, Resolving
  <2>2. \A q \in Request : Late(q) => Late(q)' \/ q \in {r}
    BY <1>1, <1>2, <1>3 DEF Late, Resolving
  <2>3. \A q \in {r} : ~Resolving(q)' /\ client[q].at \notin {"waiting", "clearing"}
    BY <1>1 DEF Resolving
  <2>4. \A q \in calm' : q \in calm /\ q \in current' /\ req'[q].key = req[q].key
    BY <1>1, <1>2, <1>3 DEF Calm, OwnTypes
  <2>. QED
    BY <1>1, <1>2, <1>3, <2>1, <2>2, <2>3, <2>4 DEF Answered, Closing
<1>. QED
  BY <1>4, <1>5, <1>6, AnsweredKeeps

(* The cluster of a Strimzi request is found, or its credentials are read. *)
LEMMA ReadKeeps ==
  ASSUME IpcInv, PoolInv', Clearless, NEW r \in Request,
         req[r].at \in {"locating", "reading"},
         NEW place \in {"reading", "resolved", "unresolved"}, Goto(r, place),
         registered' \in {registered, Register(req[r].key)}, closed => registered' = registered,
         UNCHANGED <<pool, current, profile, ghosts>>
  PROVE  IpcInv'
<1>. USE DEF IpcInv
<1>1. /\ req' \in [Request -> ReqState] /\ req'[r].at = place /\ req'[r].key = req[r].key
      /\ \A q \in Request \ {r} : req'[q] = req[q]
      /\ inv' = inv /\ shut' = shut
  BY GotoMoves DEF Place
<1>2. /\ UNCHANGED <<client, closed, keyOf, current, profile, calm, aged, outdated>>
      /\ req[r].key \in Key
  BY DEF pool, ghosts, Places
<1>3. registered' \in SUBSET Key /\ registered \subseteq registered'
  BY <1>2 DEF OwnTypes, Register
<1>4. OwnTypes' /\ Profiles'
  BY <1>1, <1>2, <1>3 DEF OwnTypes, Profiles
<1>5. ASSUME NEW q \in Request PROVE Places(q)'
  BY <1>1, <1>2 DEF Places
<1>6. Answered({})
  <2>1. \A q \in Request : /\ Resolving(q)' => Resolving(q)
                           /\ Late(q)' => Late(q) /\ req'[q].key = req[q].key
    BY <1>1, <1>2, <1>3 DEF Late, Resolving
  <2>2. \A q \in Request : Late(q) => Late(q)' \/ q \in {}
    BY <1>1, <1>2, <1>3 DEF Late, Resolving
  <2>3. \A q \in {} : ~Resolving(q)' /\ client[q].at \notin {"waiting", "clearing"}
    BY <1>1 DEF Resolving
  <2>4. \A q \in calm' : q \in calm /\ q \in current' /\ req'[q].key = req[q].key
    BY <1>1, <1>2, <1>3 DEF Calm, OwnTypes
  <2>. QED
    BY <1>1, <1>2, <1>3, <2>1, <2>2, <2>3, <2>4 DEF Answered, Closing
<1>. QED
  BY <1>4, <1>5, <1>6, AnsweredKeeps

LEMMA ProfileKeeps ==
  ASSUME IpcInv, PoolInv', Clearless, NEW r \in Request, ProfileLoaded(r)
  PROVE  IpcInv'
<1>. USE DEF IpcInv
<1>1. PICK done \in {"resolved", "unresolved"} :
        /\ req' = [q \in Request |->
                     IF req[q].at = "resolving" /\ req[q].load = r
                     THEN [req[q] EXCEPT !.at = done, !.load = None] ELSE req[q]]
        /\ profile' = [profile EXCEPT ![req[r].key] =
                         IF done = "unresolved" THEN None ELSE IF @ = r THEN "loaded" ELSE @]
  BY DEF ProfileLoaded
<1>2. UNCHANGED <<pool, registered, current, inv, shut, ghosts>>
  BY DEF ProfileLoaded
<1>3. \A q \in Request :
        /\ req'[q] \in ReqState /\ req'[q].key = req[q].key
        /\ \/ req'[q].at = req[q].at
           \/ req[q].at = "resolving" /\ req'[q].at \in {"resolved", "unresolved"}
  BY <1>1 DEF OwnTypes, ReqState
<1>4. /\ profile' \in [Key -> Request \cup {None, "loaded"}]
      /\ \A k \in Key : profile'[k] # None => profile[k] # None
  BY <1>1, IpcAssumption DEF OwnTypes
<1>5. UNCHANGED <<client, closed, keyOf, current, registered, calm, aged, outdated, inv, shut>>
  BY <1>2 DEF pool, ghosts
<1>6. OwnTypes' /\ Profiles'
  BY <1>1, <1>3, <1>4, <1>5 DEF OwnTypes, Profiles
<1>7. ASSUME NEW q \in Request PROVE Places(q)'
  BY <1>3, <1>5 DEF Places
<1>8. \A q \in Request : Late(q)' <=> Late(q)
  BY <1>3, <1>5 DEF Late, Resolving
<1>9. \A q \in Request : Resolving(q)' <=> Resolving(q)
  BY <1>3 DEF Resolving
<1>10. Answered({})
  BY <1>2, <1>3, <1>5, <1>8, <1>9 DEF Answered, Closing, Calm, OwnTypes
<1>. QED
  BY <1>6, <1>7, <1>10, AnsweredKeeps

(* A request begins: nothing that an invalidation has left behind concerns a calm one. *)
LEMMA BeginKeeps ==
  ASSUME IpcInv, PoolInv', Quiet, NEW r \in Request, NEW k \in Key, Begin(r, k)
  PROVE  IpcInv'
<1>. USE DEF IpcInv
<1>0. Clearless
  BY QuietFacts DEF Clearless, Clearing
<1>1. /\ req[r].at = "idle" /\ client[r].at = "idle" /\ ~closed
      /\ current' = current \cup {r}
      /\ calm' = IF Undisturbed(k) THEN calm \cup {r} ELSE calm \ {r}
      /\ UNCHANGED <<pool, inv, shut, aged, outdated>>
  BY DEF Begin
<1>2. UNCHANGED <<client, closed, keyOf, stale, phase, pending>>
  BY <1>1 DEF pool
<1>3. ASSUME NEW x \in ReqState, req' = [req EXCEPT ![r] = x]
      PROVE  /\ req' \in [Request -> ReqState] /\ req'[r] = x
             /\ \A q \in Request \ {r} : req'[q] = req[q]
  BY <1>3 DEF OwnTypes
<1>4. /\ req' \in [Request -> ReqState]
      /\ req'[r].at \in {"locating", "resolving", "resolved"} /\ req'[r].key = k
      /\ \A q \in Request \ {r} : req'[q] = req[q]
      /\ registered' \in {registered, Register(k)}
      /\ profile' \in [Key -> Request \cup {None, "loaded"}]
      /\ \A l \in Key : profile'[l] # None => profile[l] # None \/ l \in registered'
  <2>1. CASE /\ req' = [req EXCEPT ![r] = [at |-> "locating", key |-> k, load |-> None]]
             /\ UNCHANGED <<registered, profile>>
    <3>. DEFINE x == [at |-> "locating", key |-> k, load |-> None]
    <3>1. x \in ReqState /\ x.at = "locating" /\ x.key = k
      BY DEF ReqState
    <3>. HIDE DEF x
    <3>2. req' \in [Request -> ReqState] /\ req'[r] = x /\ \A q \in Request \ {r} : req'[q] = req[q]
      BY <1>3, <2>1, <3>1 DEF x
    <3>. QED
      BY <2>1, <3>1, <3>2 DEF OwnTypes
  <2>2. CASE /\ registered' = Register(k)
             /\ profile' = [profile EXCEPT ![k] = IF @ = None THEN r ELSE @]
             /\ req' = [req EXCEPT ![r] =
                  IF profile[k] = "loaded" THEN [at |-> "resolved", key |-> k, load |-> None]
                  ELSE [at |-> "resolving", key |-> k, load |-> profile'[k]]]
    <3>. DEFINE x == IF profile[k] = "loaded" THEN [at |-> "resolved", key |-> k, load |-> None]
                     ELSE [at |-> "resolving", key |-> k, load |-> profile'[k]]
    <3>1. /\ profile' \in [Key -> Request \cup {None, "loaded"}]
          /\ profile'[k] # "loaded" => profile'[k] \in Request \cup {None}
          /\ profile'[k] = "loaded" => profile[k] = "loaded"
          /\ \A l \in Key : profile'[l] # None => profile[l] # None \/ l \in registered'
      BY <2>2, IpcAssumption DEF OwnTypes, Register
    <3>2. x \in ReqState /\ x.at \in {"resolving", "resolved"} /\ x.key = k
      BY <3>1 DEF ReqState
    <3>3. req' = [req EXCEPT ![r] = x]
      BY <2>2
    <3>. HIDE DEF x
    <3>4. req' \in [Request -> ReqState] /\ req'[r] = x /\ \A q \in Request \ {r} : req'[q] = req[q]
      BY <1>3, <3>2, <3>3
    <3>. QED
      BY <2>2, <3>1, <3>2, <3>4
  <2>. QED
    BY <2>1, <2>2 DEF Begin
<1>5. registered' \in SUBSET Key /\ registered \subseteq registered'
  BY <1>4 DEF OwnTypes, Register
<1>6. OwnTypes' /\ Profiles'
  BY <1>1, <1>4, <1>5 DEF OwnTypes, Profiles
<1>7. ASSUME NEW q \in Request PROVE Places(q)'
  BY <1>1, <1>2, <1>4 DEF Places
<1>8. /\ \A q \in Request : Late(q)' => Late(q) /\ q # r /\ req'[q].key = req[q].key
      /\ \A q \in Request : Late(q) => Late(q)'
  BY <1>1, <1>4 DEF Late, Resolving
<1>9. ASSUME Undisturbed(k) PROVE Calm(r)'
  <2>1. ASSUME NEW q \in Request, Late(q), req[q].key = k PROVE FALSE
    <3>1. \E i \in Invalidation : inv[i].target = TargetOf[k]
      BY <1>1, <2>1 DEF LateWaited
    <3>2. Unsettling(k)
      BY <2>1 DEF Unsettling, Late
    <3>. QED
      BY <1>9, <3>1, <3>2 DEF Undisturbed
  <2>2. pending[k] \notin stale
    <3>. SUFFICES ASSUME pending[k] \in stale PROVE FALSE
      OBVIOUS
    <3>1. pending[k] \in Conn /\ keyOf[pending[k]] = k
      BY PoolGives, IpcAssumption DEF PoolFacts
    <3>2. phase[pending[k]] \in {"connecting", "rejecting"}
      BY <3>1, PoolGives, QuietFacts DEF PoolFacts
    <3>3. \E q \in Request : Late(q) /\ req[q].key = k
      BY <1>1, <3>1, <3>2 DEF StaleHasLate
    <3>. QED
      BY <2>1, <3>3
  <2>. QED
    BY <1>1, <1>2, <1>4, <1>8, <2>1, <2>2 DEF Calm
<1>10. \A q \in calm' : Calm(q)' \/ (q \in calm /\ q \in current' /\ req'[q].key = req[q].key)
  <2>. SUFFICES ASSUME NEW q \in calm', ~(q = r /\ Undisturbed(k))
                PROVE  q \in calm /\ q \in current' /\ req'[q].key = req[q].key
    BY <1>9
  <2>1. q \in calm /\ q # r
    <3>1. q \in calm \/ q = r
      BY <1>1
    <3>2. r \notin current
      BY <1>1 DEF Places
    <3>. QED
      BY <1>1, <3>1, <3>2 DEF Calm
  <2>. QED
    BY <1>1, <1>4, <2>1 DEF OwnTypes, Calm
<1>11. Answered({})
  BY <1>1, <1>5, <1>8, <1>10 DEF Answered, Resolving
<1>. QED
  BY <1>0, <1>6, <1>7, <1>11, AnsweredKeeps

-----------------------------------------------------------------------------
(* The invalidations and the end of the shutdown, where they leave the pool alone.  *)

LEMMA InvalidateKeeps ==
  ASSUME IpcInv, PoolInv', Quiet, NEW i \in Invalidation, NEW t \in Target, Invalidate(i, t)
  PROVE  IpcInv'
<1>. USE CallerTypes, PoolGives DEF IpcInv
<1>. DEFINE keys == registered \cap KeysOf(t)
<1>1. /\ Clearless /\ ~Draining /\ \A c \in Conn : phase[c] # "ready"
  BY QuietFacts DEF Clearless, Clearing
<1>2. /\ inv' \in [Invalidation -> InvState]
      /\ inv'[i].at = "clearing" /\ inv'[i].target = t
      /\ inv'[i].keys = keys /\ inv'[i].wait = {}
      /\ \A j \in Invalidation \ {i} : inv'[j] = inv[j]
      /\ inv[i].at = "idle"
  BY InvalidateMoves
<1>3. /\ registered' = registered \ keys
      /\ current' = {r \in current : TargetOf[req[r].key] # t}
      /\ profile' = Forget(keys)
      /\ aged' = aged \cup {c \in Alive : TargetOf[keyOf[c]] = t}
      /\ outdated' = {k \in outdated \cup KeysOf(t) : profile'[k] # None}
      /\ calm' = calm \cap current'
      /\ UNCHANGED <<pool, req, shut>>
  BY DEF Invalidate
<1>4. UNCHANGED <<client, closed, keyOf, stale, phase, pending, req, shut>>
  BY <1>3 DEF pool
<1>5. Alive' = Alive
  BY <1>4 DEF Alive
<1>6. Profiles'
  <2>1. \A k \in Key : profile'[k] # None => k \in registered'
    BY <1>3 DEF Forget, Profiles
  <2>2. outdated' = {}
    BY <1>3, <2>1 DEF Profiles, KeysOf
  <2>. QED
    BY <2>1, <2>2 DEF Profiles
<1>7. OwnTypes'
  <2>1. profile' \in [Key -> Request \cup {None, "loaded"}]
    BY <1>3 DEF Forget, OwnTypes
  <2>. QED
    BY <1>2, <1>3, <1>4, <1>6, <2>1 DEF OwnTypes, Profiles, Alive
<1>8. ASSUME NEW q \in Request PROVE Places(q)'
  BY <1>3, <1>4 DEF Places
<1>9. ASSUME NEW j \in Invalidation PROVE Invalidating(j)'
  <2>1. CASE j = i
    <3>1. ~Draining'
      BY <1>1, <1>4 DEF Draining, S!Draining
    <3>. QED
      BY <1>1, <1>2, <1>3, <1>4, <2>1, <3>1, IpcAssumption DEF Invalidating
  <2>2. CASE j # i
    BY <1>1, <1>2, <2>2 DEF Invalidating, Clearless
  <2>. QED
    BY <2>1, <2>2
<1>10. Awaited' /\ Rejecting'
  BY <1>4 DEF Awaited, Rejecting, Waits
<1>11. Found'
  <2>. SUFFICES ASSUME NEW c \in Alive, c \notin stale
                PROVE  \/ keyOf[c] \in registered'
                       \/ \E j \in Invalidation : keyOf[c] \in inv'[j].keys
                       \/ c \in client[Shutdown].todo
    BY <1>4, <1>5 DEF Found
  <2>. QED
    BY <1>1, <1>2, <1>3 DEF Found, Clearless
<1>12. Closing'
  <2>1. closed => registered' = {} /\ current' = {} /\ \A j \in Invalidation : inv'[j].keys = {}
    BY <1>1, <1>2, <1>3 DEF Closing, Clearless
  <2>. QED
    BY <1>4, <1>5, <2>1 DEF Closing, Resolving
<1>13. AgedEnd'
  <2>. SUFFICES ASSUME NEW c \in aged' \cap Alive, shut.at # "clearing"
                PROVE  \E j \in Invalidation :
                         /\ inv'[j].target = TargetOf[keyOf[c]]
                         /\ \/ inv'[j].at = "clearing" /\ (keyOf[c] \in inv'[j].keys \/ c \in stale)
                            \/ /\ inv'[j].at = "waiting" /\ c \in stale
                               /\ \E r \in inv'[j].wait : Waits(r, c)
    BY <1>4, <1>5 DEF AgedEnd, Waits
  <2>1. CASE c \in aged
    BY <1>2, <2>1 DEF AgedEnd
  <2>2. CASE TargetOf[keyOf[c]] = t
    <3>1. c \in stale \/ keyOf[c] \in registered
      <4>1. c \notin client[Shutdown].todo
        BY DEF Closing
      <4>. QED
        BY <1>1, <4>1 DEF Found, Clearless
    <3>2. keyOf[c] \in registered => keyOf[c] \in keys
      BY <2>2 DEF KeysOf, OwnTypes
    <3>. QED
      BY <1>2, <2>2, <3>1, <3>2
  <2>. QED
    BY <1>3, <2>1, <2>2
<1>14. LateWaited'
  <2>. SUFFICES ASSUME NEW q \in Request, Resolving(q), q \notin current', ~closed
                PROVE  \E j \in Invalidation :
                         /\ inv'[j].target = TargetOf[req[q].key]
                         /\ inv'[j].at = "clearing" \/ (inv'[j].at = "waiting" /\ q \in inv'[j].wait)
    BY <1>4 DEF LateWaited, Late, Resolving
  <2>1. CASE q \in current
    BY <1>2, <1>3, <2>1
  <2>2. CASE q \notin current
    BY <1>2, <2>2 DEF LateWaited, Late
  <2>. QED
    BY <2>1, <2>2
<1>15. StaleHasLate'
  <2>1. \A q \in Request : Late(q) => Late(q)'
    BY <1>3, <1>4 DEF Late, Resolving
  <2>. QED
    BY <1>4, <2>1 DEF StaleHasLate, Waits
<1>16. ASSUME NEW r \in calm' PROVE Calm(r)'
  <2>1. r \in calm /\ r \in current' /\ TargetOf[req[r].key] # t /\ r \in Request
    BY <1>3 DEF OwnTypes
  <2>2. ASSUME NEW q \in Request, Late(q)' PROVE req[q].key # req[r].key
    <3>1. Late(q) \/ TargetOf[req[q].key] = t
      BY <1>3, <1>4, <2>2 DEF Late, Resolving
    <3>. QED
      BY <2>1, <3>1 DEF Calm
  <2>. QED
    BY <1>4, <2>1, <2>2 DEF Calm
<1>. QED
  BY <1>6, <1>7, <1>8, <1>9, <1>10, <1>11, <1>12, <1>13, <1>14, <1>15, <1>16

(* Every clear() of an invalidation has returned: it waits for the operations that are late. *)
LEMMA AwaitKeeps ==
  ASSUME IpcInv, PoolInv', Clearless, NEW i \in Invalidation, AwaitPending(i)
  PROVE  IpcInv'
<1>. USE CallerTypes, PoolGives DEF IpcInv
<1>1. /\ inv' \in [Invalidation -> InvState]
      /\ inv'[i].at = "waiting" /\ inv'[i].target = inv[i].target
      /\ inv'[i].keys = {} /\ inv'[i].wait = PendingOf(inv[i].target)
      /\ \A j \in Invalidation \ {i} : inv'[j] = inv[j]
      /\ inv[i].at = "clearing"
  BY AwaitMoves DEF Clearless
<1>2. UNCHANGED <<client, closed, keyOf, stale, phase, pending, req, shut>>
  BY DEF AwaitPending, pool
<1>3. UNCHANGED <<registered, current, profile, aged, outdated, calm>>
  BY DEF AwaitPending, ghosts
<1>4. \A j \in Invalidation : inv'[j].keys = {}
  BY <1>1 DEF Clearless
<1>5. OwnTypes' /\ Profiles'
  BY <1>1, <1>2, <1>3 DEF OwnTypes, Profiles
<1>6. Alive' = Alive
  BY <1>2 DEF Alive
<1>7. ASSUME NEW q \in Request PROVE Places(q)'
  BY <1>2, <1>3 DEF Places
<1>8. ASSUME NEW j \in Invalidation PROVE Invalidating(j)'
  BY <1>1, <1>4 DEF Invalidating
<1>9. Awaited' /\ Rejecting'
  BY <1>2 DEF Awaited, Rejecting, Waits
<1>10. Found'
  BY <1>2, <1>3, <1>6 DEF Found, Clearless
<1>11. Closing'
  BY <1>2, <1>3, <1>4, <1>6 DEF Closing, Resolving
<1>12. AgedEnd'
  <2>. SUFFICES ASSUME NEW c \in aged \cap Alive, shut.at # "clearing"
                PROVE  \E j \in Invalidation :
                         /\ inv'[j].target = TargetOf[keyOf[c]]
                         /\ \/ inv'[j].at = "clearing" /\ (keyOf[c] \in inv'[j].keys \/ c \in stale)
                            \/ /\ inv'[j].at = "waiting" /\ c \in stale
                               /\ \E r \in inv'[j].wait : Waits(r, c)
    BY <1>2, <1>3, <1>6 DEF AgedEnd, Waits
  <2>1. PICK j \in Invalidation :
          /\ inv[j].target = TargetOf[keyOf[c]]
          /\ \/ inv[j].at = "clearing" /\ c \in stale
             \/ /\ inv[j].at = "waiting" /\ c \in stale
                /\ \E r \in inv[j].wait : Waits(r, c)
    BY DEF AgedEnd, Clearless
  <2>2. CASE j = i
    <3>1. c \in Conn /\ phase[c] \in {"connecting", "rejecting"}
      BY <2>1 DEF PoolFacts, Alive
    <3>2. PICK r \in Request : Waits(r, c)
      BY <3>1 DEF Awaited
    <3>3. req[r].at = "connecting" /\ req[r].key = keyOf[c]
      BY <3>2, IpcAssumption DEF Waits, Places, OwnTypes, ReqState
    <3>4. r \in PendingOf(inv[i].target)
      BY <2>1, <2>2, <3>3 DEF PendingOf, Resolving
    <3>. QED
      BY <1>1, <2>1, <2>2, <3>2, <3>4
  <2>3. CASE j # i
    BY <1>1, <2>1, <2>3
  <2>. QED
    BY <2>2, <2>3
<1>13. LateWaited'
  <2>. SUFFICES ASSUME NEW q \in Request, Late(q), ~closed
                PROVE  \E j \in Invalidation :
                         /\ inv'[j].target = TargetOf[req[q].key]
                         /\ inv'[j].at = "clearing" \/ (inv'[j].at = "waiting" /\ q \in inv'[j].wait)
    BY <1>2, <1>3 DEF LateWaited, Late, Resolving
  <2>1. PICK j \in Invalidation :
          /\ inv[j].target = TargetOf[req[q].key]
          /\ inv[j].at = "clearing" \/ (inv[j].at = "waiting" /\ q \in inv[j].wait)
    BY DEF LateWaited
  <2>2. j = i => q \in PendingOf(inv[i].target)
    BY <2>1 DEF Late, PendingOf
  <2>. QED
    BY <1>1, <2>1, <2>2
<1>14. StaleHasLate'
  BY <1>2, <1>3 DEF StaleHasLate, Late, Resolving, Waits
<1>15. ASSUME NEW r \in calm' PROVE Calm(r)'
  BY <1>2, <1>3 DEF Calm, Late, Resolving
<1>. QED
  BY <1>5, <1>7, <1>8, <1>9, <1>10, <1>11, <1>12, <1>13, <1>14, <1>15

(* An invalidation returns once nobody it waits for is left. *)
LEMMA InvalidatedKeeps ==
  ASSUME IpcInv, PoolInv', Clearless, NEW i \in Invalidation, Invalidated(i)
  PROVE  IpcInv'
<1>. USE CallerTypes DEF IpcInv
<1>1. /\ inv' \in [Invalidation -> InvState]
      /\ inv'[i].at = "idle" /\ inv'[i].target = None
      /\ inv'[i].keys = {} /\ inv'[i].wait = {}
      /\ \A j \in Invalidation \ {i} : inv'[j] = inv[j]
      /\ inv[i].at = "waiting" /\ inv[i].wait = {}
  BY InvalidatedMoves
<1>2. UNCHANGED <<client, closed, keyOf, stale, phase, pending, req, shut>>
  BY DEF Invalidated, pool
<1>3. UNCHANGED <<registered, current, profile, aged, outdated, calm>>
  BY DEF Invalidated, ghosts
<1>4. \A j \in Invalidation : inv'[j].keys = {}
  BY <1>1 DEF Clearless
<1>5. OwnTypes' /\ Profiles'
  BY <1>1, <1>2, <1>3 DEF OwnTypes, Profiles
<1>6. Alive' = Alive
  BY <1>2 DEF Alive
<1>7. ASSUME NEW q \in Request PROVE Places(q)'
  BY <1>2, <1>3 DEF Places
<1>8. ASSUME NEW j \in Invalidation PROVE Invalidating(j)'
  BY <1>1, <1>4 DEF Invalidating
<1>9. Awaited' /\ Rejecting'
  BY <1>2 DEF Awaited, Rejecting, Waits
<1>10. Found'
  BY <1>2, <1>3, <1>6 DEF Found, Clearless
<1>11. Closing'
  BY <1>2, <1>3, <1>4, <1>6 DEF Closing, Resolving
<1>12. AgedEnd'
  <2>1. \A j \in Invalidation, c \in Conn :
          \/ inv[j].at = "clearing"
          \/ inv[j].at = "waiting" /\ \E r \in inv[j].wait : Waits(r, c)
          => inv'[j] = inv[j]
    BY <1>1
  <2>. QED
    BY <1>1, <1>2, <1>3, <1>6 DEF AgedEnd, Waits
<1>13. LateWaited'
  <2>. SUFFICES ASSUME NEW q \in Request, Late(q), ~closed
                PROVE  \E j \in Invalidation :
                         /\ inv'[j].target = TargetOf[req[q].key]
                         /\ inv'[j].at = "clearing" \/ (inv'[j].at = "waiting" /\ q \in inv'[j].wait)
    BY <1>2, <1>3 DEF LateWaited, Late, Resolving
  <2>. QED
    BY <1>1 DEF LateWaited
<1>14. StaleHasLate'
  BY <1>2, <1>3 DEF StaleHasLate, Late, Resolving, Waits
<1>15. ASSUME NEW r \in calm' PROVE Calm(r)'
  BY <1>2, <1>3 DEF Calm, Late, Resolving
<1>. QED
  BY <1>5, <1>7, <1>8, <1>9, <1>10, <1>11, <1>12, <1>13, <1>14, <1>15

(* The second clear() of the shutdown has returned. *)
LEMMA ShutdownEndsKeeps ==
  ASSUME IpcInv, PoolInv', Clearless, ShutdownEnds
  PROVE  IpcInv'
<1>. USE CallerTypes DEF IpcInv
<1>1. shut' \in ShutState /\ shut'.at = "done" /\ shut.at = "final"
  BY ShutMoves
<1>2. UNCHANGED <<client, closed, keyOf, stale, phase, pending, req, inv>>
  BY DEF ShutdownEnds, pool
<1>3. UNCHANGED <<registered, current, profile, aged, outdated, calm>>
  BY DEF ShutdownEnds, ghosts
<1>5. OwnTypes' /\ Profiles'
  BY <1>1, <1>2, <1>3 DEF OwnTypes, Profiles
<1>6. Alive' = Alive
  BY <1>2 DEF Alive
<1>7. ASSUME NEW q \in Request PROVE Places(q)'
  BY <1>2, <1>3 DEF Places
<1>8. ASSUME NEW j \in Invalidation PROVE Invalidating(j)'
  BY <1>2 DEF Invalidating, Clearless
<1>9. Awaited' /\ Rejecting'
  BY <1>2 DEF Awaited, Rejecting, Waits
<1>10. Found'
  BY <1>2, <1>3, <1>6 DEF Found
<1>11. Closing'
  BY <1>1, <1>2, <1>3, <1>6 DEF Closing, Resolving
<1>12. AgedEnd'
  BY <1>1, <1>2, <1>3, <1>6 DEF AgedEnd, Closing
<1>13. LateWaited'
  BY <1>2, <1>3 DEF LateWaited, Late, Resolving
<1>14. StaleHasLate'
  BY <1>2, <1>3 DEF StaleHasLate, Late, Resolving, Waits
<1>15. ASSUME NEW r \in calm' PROVE Calm(r)'
  BY <1>2, <1>3 DEF Calm, Late, Resolving
<1>. QED
  BY <1>5, <1>7, <1>8, <1>9, <1>10, <1>11, <1>12, <1>13, <1>14, <1>15

-----------------------------------------------------------------------------
(* Sessions are cleared.  What a clear() leaves of the connections: *)

Swept(p, K) ==
  /\ UNCHANGED <<keyOf, pending>>
  /\ stale' = stale \cup {c \in Conn : phase[c] = "connecting" /\ keyOf[c] \in K}
  /\ \A q \in Caller \ {p} : client'[q] = client[q]
  /\ \A c \in Conn : \/ phase'[c] = phase[c]
                     \/ phase[c] = "open" /\ phase'[c] = "closing" /\ keyOf[c] \in K
  /\ client'[p].at = "clearing"
  /\ \A c \in Conn : phase[c] = "connecting" /\ keyOf[c] \in K => c \in client'[p].joined
  /\ \A c \in client'[p].todo : c \in Conn /\ phase[c] = "open"
  /\ \A c \in Conn : phase'[c] = "open" /\ keyOf[c] \in K => c \in client'[p].todo
  /\ \A k \in K : K = {k} => client'[p].todo = {}

LEMMA ClearSweeps ==
  ASSUME PoolInv, NEW p \in Caller, NEW K \in SUBSET Key, S!Clear(p, K)
  PROVE  Swept(p, K)
<1>1. P!Cleared(p, K) /\ (\A k \in K : K = {k} => client'[p].todo = {})
  BY ClearActs
<1>2. ASSUME NEW c \in Conn, phase[c] = "connecting", keyOf[c] \in K
      PROVE  c \in {pending[k] : k \in K \cap P!Live(pending)}
  BY <1>2, PoolGives DEF P!Live, PoolFacts
<1>. QED
  BY <1>1, <1>2, Zenon DEF P!Cleared, Swept

LEMMA SweptPhases ==
  ASSUME NEW p, NEW K, Swept(p, K)
  PROVE  \A c \in Conn :
           /\ phase'[c] \in {"connecting", "rejecting", "ready", "rejected"} =>
                phase'[c] = phase[c]
           /\ phase[c] \in {"connecting", "rejecting", "ready", "rejected"} =>
                phase'[c] = phase[c]
           /\ phase'[c] = "open" => phase[c] = "open"
           /\ c \in Alive' => c \in Alive
BY DEF Swept, Alive

(* A late request cleans up. *)
LEMMA CleanKeeps ==
  ASSUME IpcInv, PoolInv', Clearless, NEW r \in Request, NEW place \in {"dropping", "cleaning"},
         req[r].at \notin {"idle", "using"}, client[r].at \in {"idle", "holding"}, Stale(r),
         Clean(r, place)
  PROVE  IpcInv'
<1>. USE CallerTypes, PoolGives DEF IpcInv
<1>. DEFINE k == req[r].key
<1>1. k \in Key /\ S!Clear(r, {k}) /\ UNCHANGED closed
  BY DEF Places, Clean, S!ClearKey
<1>2. Swept(r, {k})
  BY <1>1, ClearSweeps
<1>3. /\ UNCHANGED <<keyOf, pending, closed>>
      /\ stale' = stale \cup {c \in Conn : phase[c] = "connecting" /\ keyOf[c] = k}
      /\ \A q \in Caller \ {r} : client'[q] = client[q]
      /\ \A c \in Conn : phase'[c] = phase[c] \/ (phase[c] = "open" /\ keyOf[c] = k)
      /\ client'[r].at = "clearing" /\ client'[r].todo = {}
      /\ \A c \in Conn : phase[c] = "connecting" /\ keyOf[c] = k => c \in client'[r].joined
  BY <1>1, <1>2 DEF Swept
<1>4. \A c \in Conn :
        /\ phase'[c] \in {"connecting", "rejecting", "ready", "rejected"} => phase'[c] = phase[c]
        /\ phase[c] \in {"connecting", "rejecting", "ready", "rejected"} => phase'[c] = phase[c]
        /\ phase'[c] = "open" => phase[c] = "open"
        /\ c \in Alive' => c \in Alive
  BY <1>2, SweptPhases
<1>5. /\ req' \in [Request -> ReqState] /\ req'[r].at = place /\ req'[r].key = req[r].key
      /\ \A q \in Request \ {r} : req'[q] = req[q]
      /\ inv' = inv /\ shut' = shut
  BY GotoMoves DEF Clean, Place
<1>6. /\ profile' = [profile EXCEPT ![k] = None]
      /\ UNCHANGED <<registered, current, aged, outdated, calm>>
  BY DEF Clean, ghosts
<1>. HIDE DEF k
<1>7. OwnTypes' /\ Profiles'
  BY <1>5, <1>6 DEF OwnTypes, Profiles
<1>8. \A q \in Request : \A c : Waits(q, c)' <=> Waits(q, c)
  BY <1>3 DEF Waits
<1>9. /\ \A q \in Request : Resolving(q)' <=> Resolving(q)
      /\ \A q \in Request : Late(q)' <=> Late(q)
      /\ \A q \in Request : req'[q].key = req[q].key
  BY <1>5, <1>6 DEF Late, Resolving
<1>10. ASSUME NEW q \in Request PROVE Places(q)'
  BY <1>3, <1>5, <1>6 DEF Places
<1>11. ASSUME NEW i \in Invalidation PROVE Invalidating(i)'
  BY <1>5 DEF Invalidating, Clearless
<1>12. Awaited'
  BY <1>3, <1>4, <1>8 DEF Awaited
<1>13. Rejecting'
  BY <1>3, <1>4 DEF Rejecting
<1>14. Found'
  <2>. SUFFICES ASSUME NEW c \in Alive', c \notin stale'
                PROVE  \/ keyOf[c] \in registered
                       \/ \E i \in Invalidation : keyOf[c] \in inv[i].keys
                       \/ c \in client[Shutdown].todo
    BY <1>3, <1>5, <1>6 DEF Found
  <2>1. c \in Alive \ stale
    BY <1>3, <1>4 DEF Alive
  <2>. QED
    BY <2>1 DEF Found
<1>15. Closing'
  <2>1. \A p \in Caller \ {Shutdown} : client'[p].todo = {}
    BY <1>3 DEF Closing
  <2>2. client'[Shutdown] = client[Shutdown]
        /\ \A p \in Caller \ Request : client'[p] = client[p]
    BY <1>3
  <2>3. shut.at \in {"final", "done"} => Alive' = {}
    BY <1>4 DEF Closing, Alive
  <2>. QED
    BY <1>3, <1>5, <1>6, <1>9, <2>1, <2>2, <2>3 DEF Closing
<1>16. AgedEnd'
  <2>. SUFFICES ASSUME NEW c \in aged \cap Alive', shut.at # "clearing"
                PROVE  \E i \in Invalidation :
                         /\ inv[i].target = TargetOf[keyOf[c]]
                         /\ \/ inv[i].at = "clearing" /\ (keyOf[c] \in inv[i].keys \/ c \in stale')
                            \/ /\ inv[i].at = "waiting" /\ c \in stale'
                               /\ \E q \in inv[i].wait : Waits(q, c)'
    BY <1>3, <1>5, <1>6 DEF AgedEnd
  <2>1. c \in Alive /\ (c \in stale => c \in stale')
    BY <1>3, <1>4 DEF Alive
  <2>2. \A i \in Invalidation : inv[i].wait \subseteq Request
    BY DEF OwnTypes, InvState
  <2>. QED
    BY <1>8, <2>1, <2>2 DEF AgedEnd
<1>17. LateWaited'
  BY <1>3, <1>5, <1>9 DEF LateWaited
<1>18. StaleHasLate'
  <2>. SUFFICES ASSUME NEW c \in stale', phase'[c] \in {"connecting", "rejecting"}, ~closed
                PROVE  \E q \in Request : Late(q)' /\ req'[q].key = keyOf[c]
                         /\ (Waits(q, c)' \/ (client'[q].at = "clearing" /\ c \in client'[q].joined))
    BY <1>3 DEF StaleHasLate
  <2>1. c \in Conn /\ phase[c] = phase'[c]
    BY <1>3, <1>4 DEF PoolFacts
  <2>2. CASE c \in stale
    <3>1. PICK q \in Request : Late(q) /\ req[q].key = keyOf[c]
            /\ (Waits(q, c) \/ (client[q].at = "clearing" /\ c \in client[q].joined))
      BY <2>1, <2>2 DEF StaleHasLate
    <3>2. q # r
      BY <3>1 DEF Waits
    <3>. QED
      BY <1>3, <1>8, <1>9, <3>1, <3>2
  <2>3. CASE c \notin stale
    <3>1. phase[c] = "connecting" /\ keyOf[c] = k
      BY <1>3, <2>3
    <3>2. Late(r)
      BY DEF Stale, Late, Resolving
    <3>. QED
      BY <1>3, <1>9, <2>1, <3>1, <3>2 DEF k
  <2>. QED
    BY <2>2, <2>3
<1>19. ASSUME NEW q \in calm PROVE Calm(q)'
  <2>1. q \in Request /\ Calm(q) /\ q \in current /\ ~closed
    BY DEF OwnTypes, Calm, Closing
  <2>2. Late(r) /\ q # r
    BY <2>1 DEF Stale, Late, Resolving
  <2>3. req[q].key \in Key /\ req[q].key # k
    BY <2>1, <2>2 DEF Calm, Places, k
  <2>4. client[q].at \in {"waiting", "acquiring", "holding"} =>
          client[q].conn \in Conn /\ keyOf[client[q].conn] = req[q].key
    BY <2>1, IpcAssumption DEF Places, PoolFacts, OwnTypes, ReqState
  <2>5. \A c \in Conn : keyOf[c] # k => phase'[c] = phase[c] /\ (c \in stale' <=> c \in stale)
    BY <1>3
  <2>6. pending[req[q].key] \notin stale'
    <3>1. pending[req[q].key] # None =>
            pending[req[q].key] \in Conn /\ keyOf[pending[req[q].key]] = req[q].key
      BY <2>3 DEF PoolFacts
    <3>2. None \notin stale'
      BY <1>3 DEF PoolFacts
    <3>. QED
      BY <2>1, <2>3, <2>5, <3>1, <3>2 DEF Calm
  <2>. QED
    BY <1>3, <1>6, <1>9, <2>1, <2>2, <2>3, <2>4, <2>5, <2>6 DEF Calm
<1>. QED
  BY <1>6, <1>7, <1>10, <1>11, <1>12, <1>13, <1>14, <1>15, <1>16, <1>17, <1>18, <1>19

(* An invalidation clears the session of one of its keys: the request that awaits its connect is
   late, and nothing is about to be pooled. *)
LEMMA ClearSessionKeeps ==
  ASSUME IpcInv, PoolInv', NEW i \in Invalidation, NEW k \in Key, ClearSession(i, k)
  PROVE  IpcInv'
<1>. USE CallerTypes, PoolGives DEF IpcInv
<1>. DEFINE p == <<i, k>>
<1>1. S!Clear(p, {k}) /\ UNCHANGED closed /\ k \in inv[i].keys
  BY DEF ClearSession, S!ClearKey
<1>2. Swept(p, {k})
  BY <1>1, ClearSweeps
<1>3. /\ UNCHANGED <<keyOf, pending, closed>>
      /\ stale' = stale \cup {c \in Conn : phase[c] = "connecting" /\ keyOf[c] = k}
      /\ \A q \in Caller \ {p} : client'[q] = client[q]
      /\ \A c \in Conn : phase'[c] = phase[c] \/ (phase[c] = "open" /\ keyOf[c] = k)
      /\ client'[p].at = "clearing" /\ client'[p].todo = {}
      /\ \A c \in Conn : phase'[c] = "open" => keyOf[c] # k
  BY <1>1, <1>2 DEF Swept
<1>4. \A c \in Conn :
        /\ phase'[c] \in {"connecting", "rejecting", "ready", "rejected"} => phase'[c] = phase[c]
        /\ phase[c] \in {"connecting", "rejecting", "ready", "rejected"} => phase'[c] = phase[c]
        /\ phase'[c] = "open" => phase[c] = "open"
        /\ c \in Alive' => c \in Alive
  BY <1>2, SweptPhases
<1>a. p \in Caller /\ p \notin Request /\ p # Shutdown
  OBVIOUS
<1>. HIDE DEF p
<1>5. /\ inv' \in [Invalidation -> InvState]
      /\ inv'[i].at = inv[i].at /\ inv'[i].target = inv[i].target
      /\ inv'[i].keys = inv[i].keys \ {k} /\ inv'[i].wait = inv[i].wait
      /\ \A j \in Invalidation \ {i} : inv'[j] = inv[j]
  BY ClearSessionMoves
<1>6. UNCHANGED <<registered, current, profile, req, shut, aged, outdated, calm>>
  BY DEF ClearSession, ghosts
<1>7. /\ inv[i].at = "clearing" /\ TargetOf[k] = inv[i].target
      /\ \A r \in current : TargetOf[req[r].key] # inv[i].target
      /\ \A c \in Conn : phase[c] # "ready"
      /\ ~Draining /\ ~closed
  BY <1>1 DEF Invalidating, KeysOf, Closing
<1>8. OwnTypes' /\ Profiles'
  BY <1>5, <1>6 DEF OwnTypes, Profiles
<1>9. /\ client'[Shutdown] = client[Shutdown]
      /\ \A q \in Request : client'[q] = client[q]
      /\ \A q \in Request : \A c : Waits(q, c)' <=> Waits(q, c)
  BY <1>3, <1>a DEF Waits
<1>10. /\ \A q \in Request : Resolving(q)' <=> Resolving(q)
       /\ \A q \in Request : Late(q)' <=> Late(q)
  BY <1>6 DEF Late, Resolving
<1>11. ASSUME NEW q \in Request PROVE Places(q)'
  BY <1>3, <1>6, <1>9 DEF Places
<1>12. ASSUME NEW j \in Invalidation PROVE Invalidating(j)'
  <2>1. ~Draining'
    <3>. SUFFICES ASSUME NEW q \in Caller, client'[q].at = "waiting",
                         phase'[client'[q].conn] = "open"
                  PROVE  FALSE
      BY DEF Draining, S!Draining
    <3>1. client'[q] = client[q] /\ client[q].conn \in Conn
      BY <1>3 DEF PoolFacts
    <3>2. phase[client[q].conn] = "open"
      BY <1>4, <3>1
    <3>. QED
      BY <1>7, <3>1, <3>2 DEF Draining, S!Draining
  <2>2. \A c \in Conn : phase'[c] # "ready"
    BY <1>4, <1>7
  <2>3. /\ inv'[j].at = inv[j].at /\ inv'[j].target = inv[j].target
        /\ inv'[j].keys \subseteq inv[j].keys
    BY <1>5
  <2>. QED
    BY <1>6, <2>1, <2>2, <2>3 DEF Invalidating
<1>13. Awaited'
  BY <1>3, <1>4, <1>9 DEF Awaited
<1>14. Rejecting'
  BY <1>3, <1>4 DEF Rejecting
<1>15. ASSUME NEW c \in Alive', keyOf[c] = k PROVE c \in stale'
  BY <1>3, <1>4, <1>7, <1>15 DEF Alive, Rejecting
<1>16. Found'
  <2>. SUFFICES ASSUME NEW c \in Alive', c \notin stale'
                PROVE  \/ keyOf[c] \in registered
                       \/ \E j \in Invalidation : keyOf[c] \in inv'[j].keys
                       \/ c \in client'[Shutdown].todo
    BY <1>3, <1>6 DEF Found
  <2>1. c \in Alive \ stale /\ keyOf[c] # k
    BY <1>3, <1>4, <1>15 DEF Alive
  <2>. QED
    BY <1>5, <1>9, <2>1 DEF Found
<1>17. Closing'
  <2>1. \A q \in Caller \ {Shutdown} : client'[q].todo = {}
    BY <1>3 DEF Closing
  <2>2. \A q \in Caller \ Request : client'[q].at \in {"idle", "clearing"}
    BY <1>3 DEF Closing
  <2>3. shut.at \in {"final", "done"} => Alive' = {}
    BY <1>4 DEF Closing, Alive
  <2>. QED
    BY <1>3, <1>6, <1>7, <1>9, <1>10, <2>1, <2>2, <2>3 DEF Closing
<1>18. AgedEnd'
  <2>. SUFFICES ASSUME NEW c \in aged \cap Alive', shut.at # "clearing"
                PROVE  \E j \in Invalidation :
                         /\ inv'[j].target = TargetOf[keyOf[c]]
                         /\ \/ inv'[j].at = "clearing" /\ (keyOf[c] \in inv'[j].keys \/ c \in stale')
                            \/ /\ inv'[j].at = "waiting" /\ c \in stale'
                               /\ \E r \in inv'[j].wait : Waits(r, c)'
    BY <1>3, <1>6 DEF AgedEnd
  <2>1. PICK j \in Invalidation :
          /\ inv[j].target = TargetOf[keyOf[c]]
          /\ \/ inv[j].at = "clearing" /\ (keyOf[c] \in inv[j].keys \/ c \in stale)
             \/ /\ inv[j].at = "waiting" /\ c \in stale
                /\ \E r \in inv[j].wait : Waits(r, c)
    BY <1>4 DEF AgedEnd, Alive
  <2>2. c \in stale => c \in stale'
    BY <1>3
  <2>3. CASE inv[j].at = "clearing" /\ (keyOf[c] \in inv[j].keys \/ c \in stale)
    BY <1>5, <1>15, <2>1, <2>2, <2>3
  <2>4. CASE inv[j].at = "waiting" /\ c \in stale /\ \E r \in inv[j].wait : Waits(r, c)
    <3>1. inv'[j] = inv[j] /\ inv[j].wait \subseteq Request
      BY <1>5, <1>7, <2>4 DEF OwnTypes, InvState
    <3>. QED
      BY <1>9, <2>1, <2>2, <2>4, <3>1
  <2>. QED
    BY <2>1, <2>3, <2>4
<1>19. LateWaited'
  BY <1>3, <1>5, <1>6, <1>10 DEF LateWaited
<1>20. StaleHasLate'
  <2>. SUFFICES ASSUME NEW c \in stale', phase'[c] \in {"connecting", "rejecting"}
                PROVE  \E q \in Request : Late(q)' /\ req[q].key = keyOf[c]
                         /\ (Waits(q, c)' \/ (client'[q].at = "clearing" /\ c \in client'[q].joined))
    BY <1>3, <1>6 DEF StaleHasLate
  <2>1. c \in Conn /\ phase[c] = phase'[c]
    BY <1>3, <1>4 DEF PoolFacts
  <2>2. CASE c \in stale
    <3>1. PICK q \in Request : Late(q) /\ req[q].key = keyOf[c]
            /\ (Waits(q, c) \/ (client[q].at = "clearing" /\ c \in client[q].joined))
      BY <1>7, <2>1, <2>2 DEF StaleHasLate
    <3>. QED
      BY <1>9, <1>10, <3>1
  <2>3. CASE c \notin stale
    <3>1. phase[c] = "connecting" /\ keyOf[c] = k
      BY <1>3, <2>3
    <3>2. PICK r \in Request : Waits(r, c)
      BY <2>1, <3>1 DEF Awaited
    <3>3. req[r].at = "connecting" /\ req[r].key = k
      BY <3>1, <3>2, IpcAssumption DEF Waits, Places, OwnTypes, ReqState
    <3>4. Late(r)
      BY <1>7, <3>3 DEF Late, Resolving
    <3>. QED
      BY <1>9, <1>10, <3>1, <3>2, <3>3, <3>4
  <2>. QED
    BY <2>2, <2>3
<1>21. ASSUME NEW q \in calm PROVE Calm(q)'
  <2>1. q \in Request /\ Calm(q) /\ q \in current
    BY DEF OwnTypes, Calm
  <2>2. req[q].key \in Key /\ req[q].key # k
    BY <1>7, <2>1 DEF Places
  <2>3. client[q].at \in {"waiting", "acquiring", "holding"} =>
          client[q].conn \in Conn /\ keyOf[client[q].conn] = req[q].key
    BY <2>1, IpcAssumption DEF Places, PoolFacts, OwnTypes, ReqState
  <2>4. \A c \in Conn : keyOf[c] # k => phase'[c] = phase[c] /\ (c \in stale' <=> c \in stale)
    BY <1>3
  <2>5. pending[req[q].key] \notin stale'
    <3>1. pending[req[q].key] # None =>
            pending[req[q].key] \in Conn /\ keyOf[pending[req[q].key]] = req[q].key
      BY <2>2 DEF PoolFacts
    <3>2. None \notin stale'
      BY <1>3 DEF PoolFacts
    <3>. QED
      BY <2>1, <2>2, <2>4, <3>1, <3>2 DEF Calm
  <2>. QED
    BY <1>3, <1>6, <1>9, <1>10, <2>1, <2>2, <2>3, <2>4, <2>5 DEF Calm
<1>. QED
  BY <1>6, <1>8, <1>11, <1>12, <1>13, <1>14, <1>16, <1>17, <1>18, <1>19, <1>20, <1>21

-----------------------------------------------------------------------------
(* A request acquires its session, and releases it.                         *)

(* What acquire() leaves of the connections: a connect that it begins is c. *)
Acquired(r, k) ==
  \E c \in Conn \cup {None} :
    /\ c # None =>
         /\ phase[c] \in {"closed", "rejected"} /\ phase'[c] = "connecting" /\ keyOf'[c] = k
         /\ Waits(r, c)' /\ c \notin stale' /\ pending'[k] = c
         /\ \A q \in Caller : c # client[q].conn /\ c \notin client[q].todo \cup client[q].joined
    /\ \A d \in Conn \ {c} :
         phase'[d] = phase[d] /\ keyOf'[d] = keyOf[d] /\ (d \in stale' <=> d \in stale)
    /\ \A l \in Key : (c # None /\ l = k) \/ pending'[l] = pending[l]

LEMMA AcquireGives ==
  ASSUME PoolInv, NEW r \in Caller, NEW k \in Key, S!Acquire(r, k)
  PROVE  /\ client[r].at = "idle" /\ ~closed /\ ~closed' /\ client'[r].todo = {}
         /\ \A q \in Caller \ {r} : client'[q] = client[q]
         /\ Acquired(r, k)
         /\ client'[r].at \in {"waiting", "holding"}
         /\ client'[r].conn \in Conn /\ keyOf'[client'[r].conn] = k
         /\ client'[r].at = "waiting" => client'[r].conn = pending'[k]
         /\ client'[r].at = "holding" => phase'[client'[r].conn] = "open"
<1>1. /\ client[r].at = "idle" /\ ~closed /\ ~closed' /\ client'[r].todo = {}
      /\ \A q \in Caller \ {r} : client'[q] = client[q]
      /\ P!Leased(r, k) \/ P!Joined(r, k) \/ \E c \in Conn : P!Begun(r, k, c)
  BY AcquireActs
<1>. DEFINE Gives == /\ Acquired(r, k)
                     /\ client'[r].at \in {"waiting", "holding"}
                     /\ client'[r].conn \in Conn /\ keyOf'[client'[r].conn] = k
                     /\ client'[r].at = "waiting" => client'[r].conn = pending'[k]
                     /\ client'[r].at = "holding" => phase'[client'[r].conn] = "open"
<1>2. ASSUME P!Leased(r, k) PROVE Gives
  <2>1. Acquired(r, k)
    <3>1. UNCHANGED <<phase, keyOf, stale, pending>>
      BY <1>2 DEF P!Leased
    <3>. QED
      BY <3>1 DEF Acquired
  <2>2. /\ client'[r].at = "holding" /\ client'[r].conn \in Conn
        /\ keyOf'[client'[r].conn] = k /\ phase'[client'[r].conn] = "open"
    BY <1>2 DEF P!Leased
  <2>. QED
    BY <2>1, <2>2
<1>3. ASSUME P!Joined(r, k) PROVE Gives
  <2>1. Acquired(r, k)
    <3>1. UNCHANGED <<phase, keyOf, stale, pending>>
      BY <1>3 DEF P!Joined
    <3>. QED
      BY <3>1 DEF Acquired
  <2>2. /\ client'[r].at = "waiting" /\ client'[r].conn \in Conn
        /\ client'[r].conn = pending'[k] /\ keyOf'[client'[r].conn] = k
    BY <1>3 DEF P!Joined
  <2>. QED
    BY <2>1, <2>2
<1>4. ASSUME NEW c \in Conn, P!Begun(r, k, c) PROVE Gives
  <2>1. Acquired(r, k)
    <3>1. \A l \in Key : l = k \/ pending'[l] = pending[l]
      BY <1>4 DEF P!Begun
    <3>2. c # None /\ c \notin stale' /\ \A d \in Conn \ {c} : d \in stale' <=> d \in stale
      BY <1>4, IpcAssumption DEF P!Begun
    <3>. QED
      BY <1>4, <3>1, <3>2 DEF Acquired, P!Begun, Waits
  <2>. QED
    BY <1>4, <2>1 DEF P!Begun
<1>5. Gives
  BY <1>1, <1>2, <1>3, <1>4
<1>. QED
  BY <1>1, <1>5

LEMMA ConnectKeeps ==
  ASSUME IpcInv, PoolInv', Clearless, NEW r \in Request,
         req[r].at = "resolved", ~Stale(r), registered' = Register(req[r].key),
         S!Acquire(r, req[r].key), Goto(r, "connecting"),
         aged' = IF r \in current /\ req[r].key \notin outdated
                 THEN aged \ Opening ELSE aged \cup Opening,
         UNCHANGED <<current, profile, outdated, calm>>
  PROVE  IpcInv'
<1>. USE CallerTypes, PoolGives DEF IpcInv
<1>. DEFINE k == req[r].key
<1>1. k \in Key /\ ~closed /\ r \in current
  BY DEF Places, Stale
<1>2. /\ client[r].at = "idle" /\ ~closed /\ ~closed' /\ client'[r].todo = {}
      /\ \A q \in Caller \ {r} : client'[q] = client[q]
      /\ Acquired(r, k)
      /\ client'[r].at \in {"waiting", "holding"}
      /\ client'[r].conn \in Conn /\ keyOf'[client'[r].conn] = k
      /\ client'[r].at = "waiting" => client'[r].conn = pending'[k]
      /\ client'[r].at = "holding" => phase'[client'[r].conn] = "open"
  BY <1>1, AcquireGives
<1>3. /\ req' \in [Request -> ReqState] /\ req'[r].at = "connecting" /\ req'[r].key = k
      /\ \A q \in Request \ {r} : req'[q] = req[q]
      /\ inv' = inv /\ shut' = shut
  BY GotoMoves DEF Place
<1>4. /\ registered' = registered \cup {k} /\ aged' = aged \ Opening
      /\ UNCHANGED <<current, profile, outdated, calm>>
  BY <1>1 DEF Register, Profiles
<1>5. PICK c \in Conn \cup {None} :
        /\ c # None =>
             /\ phase[c] \in {"closed", "rejected"} /\ phase'[c] = "connecting" /\ keyOf'[c] = k
             /\ Waits(r, c)' /\ c \notin stale' /\ pending'[k] = c
             /\ \A q \in Caller : c # client[q].conn /\ c \notin client[q].todo \cup client[q].joined
        /\ \A d \in Conn \ {c} :
             phase'[d] = phase[d] /\ keyOf'[d] = keyOf[d] /\ (d \in stale' <=> d \in stale)
        /\ \A l \in Key : (c # None /\ l = k) \/ pending'[l] = pending[l]
  BY <1>2 DEF Acquired
<1>b. c \in Conn => c # None
  BY IpcAssumption
<1>. HIDE DEF k
<1>6. OwnTypes' /\ Profiles'
  BY <1>1, <1>3, <1>4 DEF OwnTypes, Profiles
<1>7. /\ \A q \in Request : Resolving(q)' <=> Resolving(q)
      /\ \A q \in Request : Late(q)' <=> Late(q)
      /\ \A q \in Request : req'[q].key = req[q].key
  BY <1>3, <1>4 DEF Late, Resolving, k
<1>8. \A q \in Request : \A d \in Conn : Waits(q, d) => q # r /\ Waits(q, d)' /\ d # c
  BY <1>2, <1>5, <1>b DEF Waits
<1>9. \A d \in Conn : keyOf'[d] = keyOf[d] \/ (d = c /\ c \in Conn)
  BY <1>5
<1>10. ASSUME NEW q \in Request PROVE Places(q)'
  <2>1. CASE q = r
    BY <1>1, <1>2, <1>3, <1>4, <2>1 DEF Places
  <2>2. CASE q # r
    <3>1. client'[q] = client[q] /\ req'[q] = req[q]
      BY <1>2, <1>3, <2>2
    <3>2. client[q].at \in {"waiting", "acquiring", "holding"} =>
            client[q].conn \in Conn /\ keyOf'[client[q].conn] = keyOf[client[q].conn]
      BY <1>5 DEF PoolFacts
    <3>. QED
      BY <1>4, <3>1, <3>2 DEF Places
  <2>. QED
    BY <2>1, <2>2
<1>11. ASSUME NEW i \in Invalidation PROVE Invalidating(i)'
  BY <1>3 DEF Invalidating, Clearless
<1>12. Awaited'
  <2>. SUFFICES ASSUME NEW d \in Conn,
                       \/ phase'[d] \in {"connecting", "rejecting", "ready"}
                       \/ phase'[d] = "rejected" /\ keyOf'[d] \in Key /\ pending'[keyOf'[d]] = d
                PROVE  \E q \in Request : Waits(q, d)'
    BY DEF Awaited
  <2>1. CASE d = c
    BY <1>5, <2>1, IpcAssumption
  <2>2. CASE d # c
    <3>1. \/ phase[d] \in {"connecting", "rejecting", "ready"}
          \/ phase[d] = "rejected" /\ keyOf[d] \in Key /\ pending[keyOf[d]] = d
      BY <1>5, <2>2
    <3>. QED
      BY <1>8, <3>1 DEF Awaited
  <2>. QED
    BY <2>1, <2>2
<1>13. Rejecting'
  BY <1>5, <1>b DEF Rejecting
<1>14. Found'
  <2>. SUFFICES ASSUME NEW d \in Alive', d \notin stale'
                PROVE  \/ keyOf'[d] \in registered'
                       \/ \E i \in Invalidation : keyOf'[d] \in inv[i].keys
                       \/ d \in client'[Shutdown].todo
    BY <1>3 DEF Found
  <2>1. CASE d = c
    BY <1>4, <1>5, <2>1, IpcAssumption DEF Alive
  <2>2. CASE d # c
    <3>1. d \in Alive \ stale /\ keyOf'[d] = keyOf[d]
      BY <1>5, <2>2 DEF Alive
    <3>. QED
      BY <1>2, <1>4, <3>1 DEF Found
  <2>. QED
    BY <2>1, <2>2
<1>15. Closing'
  <2>1. \A p \in Caller \ {Shutdown} : client'[p].todo = {}
    BY <1>2 DEF Closing
  <2>2. client'[Shutdown] = client[Shutdown]
        /\ \A p \in Caller \ Request : client'[p] = client[p]
    BY <1>2
  <2>3. shut.at = "running"
    BY <1>1 DEF Closing
  <2>. QED
    BY <1>2, <1>3, <2>1, <2>2, <2>3 DEF Closing
<1>16. AgedEnd'
  <2>. SUFFICES ASSUME NEW d \in aged' \cap Alive', shut.at # "clearing"
                PROVE  \E i \in Invalidation :
                         /\ inv[i].target = TargetOf[keyOf'[d]]
                         /\ \/ inv[i].at = "clearing" /\ (keyOf'[d] \in inv[i].keys \/ d \in stale')
                            \/ /\ inv[i].at = "waiting" /\ d \in stale'
                               /\ \E q \in inv[i].wait : Waits(q, d)'
    BY <1>3 DEF AgedEnd
  <2>1. d \in Conn /\ d # c
    BY <1>4, <1>5, <1>b DEF Alive, Opening
  <2>2. d \in aged \cap Alive /\ keyOf'[d] = keyOf[d] /\ (d \in stale' <=> d \in stale)
    BY <1>4, <1>5, <2>1 DEF Alive
  <2>3. \A i \in Invalidation : inv[i].wait \subseteq Request
    BY DEF OwnTypes, InvState
  <2>. QED
    BY <1>8, <2>1, <2>2, <2>3 DEF AgedEnd
<1>17. LateWaited'
  BY <1>1, <1>2, <1>3, <1>7 DEF LateWaited
<1>18. StaleHasLate'
  <2>. SUFFICES ASSUME NEW d \in stale', d \in Conn, phase'[d] \in {"connecting", "rejecting"}
                PROVE  \E q \in Request : Late(q)' /\ req'[q].key = keyOf'[d]
                         /\ (Waits(q, d)' \/ (client'[q].at = "clearing" /\ d \in client'[q].joined))
    <3>1. \A d \in stale' : d \in Conn
      BY DEF PoolInv, P!IInv, P!TypeOK
    <3>. QED
      BY <3>1 DEF StaleHasLate
  <2>1. d # c /\ d \in stale /\ phase'[d] = phase[d] /\ keyOf'[d] = keyOf[d]
    BY <1>5, IpcAssumption
  <2>2. PICK q \in Request : Late(q) /\ req[q].key = keyOf[d]
          /\ (Waits(q, d) \/ (client[q].at = "clearing" /\ d \in client[q].joined))
    BY <1>1, <2>1 DEF StaleHasLate
  <2>3. q # r
    BY <1>2, <2>2 DEF Waits
  <2>. QED
    BY <1>2, <1>7, <1>8, <2>1, <2>2, <2>3
<1>19. ASSUME NEW q \in calm PROVE Calm(q)'
  <2>1. q \in Request /\ Calm(q) /\ q \in current /\ req[q].key \in Key
    BY DEF OwnTypes, Calm, Places
  <2>2. \A d \in Conn : d \notin stale => d \notin stale'
    BY <1>5, <1>b
  <2>3. pending'[req[q].key] \notin stale'
    <3>1. CASE c # None /\ req[q].key = k
      BY <1>5, <3>1
    <3>2. CASE pending'[req[q].key] = pending[req[q].key]
      <4>1. pending[req[q].key] \in Conn \/ pending[req[q].key] = None
        BY <2>1 DEF PoolFacts
      <4>2. None \notin stale'
        BY IpcAssumption DEF PoolInv, P!IInv, P!TypeOK
      <4>. QED
        BY <2>1, <2>2, <3>2, <4>1, <4>2 DEF Calm
    <3>. QED
      BY <1>5, <2>1, <3>1, <3>2
  <2>4. CASE q = r
    BY <1>2, <1>3, <1>4, <1>7, <2>1, <2>3, <2>4 DEF Calm, k
  <2>5. CASE q # r
    <3>1. client'[q] = client[q]
      BY <1>2, <2>1, <2>5
    <3>2. client[q].at \in {"waiting", "acquiring", "holding"} =>
            client[q].conn \in Conn /\ phase'[client[q].conn] = phase[client[q].conn]
      BY <1>5, <2>1 DEF PoolFacts
    <3>. QED
      BY <1>4, <1>7, <2>1, <2>2, <2>3, <3>1, <3>2 DEF Calm
  <2>. QED
    BY <2>4, <2>5
<1>. QED
  BY <1>4, <1>6, <1>10, <1>11, <1>12, <1>13, <1>14, <1>15, <1>16, <1>17, <1>18, <1>19

LEMMA FinishKeeps ==
  ASSUME IpcInv, PoolInv', Clearless, NEW r \in Request, Finish(r)
  PROVE  IpcInv'
<1>. USE CallerTypes, PoolGives DEF IpcInv
<1>1. /\ P!Rests({r}) /\ client[r].at = "holding"
      /\ client'[r].at \in {"idle", "releasing"} /\ client'[r].todo = {}
  BY CallersAct DEF Finish
<1>2. /\ UNCHANGED <<closed, keyOf, stale>>
      /\ \A q \in Caller \ {r} : client'[q] = client[q]
      /\ \A k \in Key : pending'[k] \in {pending[k], None}
  BY <1>1 DEF P!Rests
<1>3. \A c \in Conn :
        /\ phase'[c] \in {"connecting", "rejecting"} => phase[c] \in {"connecting", "rejecting"}
        /\ phase'[c] = "rejecting" => phase[c] = "rejecting" \/ c \in stale
        /\ phase'[c] = "rejected" => phase[c] \in {"connecting", "rejecting", "rejected"}
        /\ phase'[c] = "ready" => phase[c] \in {"connecting", "ready"}
        /\ phase'[c] = "open" => phase[c] \in {"ready", "open"}
  BY <1>1 DEF P!Rests, P!Unsettled
<1>4. \A c \in Conn : c \in Alive' => c \in Alive
  BY <1>3 DEF Alive
<1>5. /\ req' \in [Request -> ReqState] /\ req'[r].at = "idle"
      /\ \A q \in Request \ {r} : req'[q] = req[q]
      /\ current' = current \ {r} /\ calm' = calm \ {r}
      /\ UNCHANGED <<registered, profile, inv, shut, aged, outdated>>
      /\ req[r].at = "using"
  BY EndedMoves DEF Finish
<1>6. OwnTypes' /\ Profiles'
  BY <1>5 DEF OwnTypes, Profiles
<1>7. /\ \A q \in Request : \A c : Waits(q, c)' <=> Waits(q, c)
      /\ \A q \in Request : Resolving(q)' <=> Resolving(q)
      /\ \A q \in Request : Late(q)' <=> Late(q)
      /\ \A q \in Request : Late(q) => q # r
  BY <1>1, <1>2, <1>5 DEF Waits, Resolving, Late
<1>8. ASSUME NEW q \in Request PROVE Places(q)'
  BY <1>1, <1>2, <1>5 DEF Places
<1>9. ASSUME NEW i \in Invalidation PROVE Invalidating(i)'
  BY <1>5 DEF Invalidating, Clearless
<1>10. Awaited'
  <2>. SUFFICES ASSUME NEW c \in Conn,
                       \/ phase'[c] \in {"connecting", "rejecting", "ready"}
                       \/ phase'[c] = "rejected" /\ keyOf[c] \in Key /\ pending'[keyOf[c]] = c
                PROVE  \E q \in Request : Waits(q, c)'
    BY <1>2 DEF Awaited
  <2>1. \/ phase'[c] # "rejected" /\ phase[c] \in {"connecting", "rejecting", "ready"}
        \/ phase[c] \in {"connecting", "rejecting"}
        \/ phase[c] = "rejected" /\ keyOf[c] \in Key /\ pending[keyOf[c]] = c
    BY <1>2, <1>3 DEF PoolFacts
  <2>. QED
    BY <1>7, <2>1 DEF Awaited
<1>11. Rejecting'
  BY <1>2, <1>3 DEF Rejecting
<1>12. Found'
  <2>1. client'[Shutdown] = client[Shutdown]
    BY <1>2
  <2>2. \A c \in Alive' : c \in Alive
    BY <1>4 DEF Alive
  <2>. QED
    BY <1>2, <1>5, <2>1, <2>2 DEF Found
<1>13. Closing'
  <2>1. \A p \in Caller \ {Shutdown} : client'[p].todo = {}
    BY <1>1, <1>2 DEF Closing
  <2>2. client'[Shutdown] = client[Shutdown]
        /\ \A p \in Caller \ Request : client'[p] = client[p]
    BY <1>2
  <2>3. shut.at \in {"final", "done"} => Alive' = {}
    BY <1>4 DEF Closing, Alive
  <2>4. closed => current' = {}
    BY <1>5 DEF Closing
  <2>. QED
    BY <1>2, <1>5, <1>7, <2>1, <2>2, <2>3, <2>4 DEF Closing
<1>14. AgedEnd'
  <2>. SUFFICES ASSUME NEW c \in aged \cap Alive', shut.at # "clearing"
                PROVE  \E i \in Invalidation :
                         /\ inv[i].target = TargetOf[keyOf[c]]
                         /\ \/ inv[i].at = "clearing" /\ (keyOf[c] \in inv[i].keys \/ c \in stale)
                            \/ /\ inv[i].at = "waiting" /\ c \in stale
                               /\ \E q \in inv[i].wait : Waits(q, c)'
    BY <1>2, <1>5 DEF AgedEnd
  <2>1. c \in Alive
    BY <1>4 DEF Alive
  <2>2. \A i \in Invalidation : inv[i].wait \subseteq Request
    BY DEF OwnTypes, InvState
  <2>. QED
    BY <1>7, <2>1, <2>2 DEF AgedEnd
<1>15. LateWaited'
  BY <1>2, <1>5, <1>7 DEF LateWaited
<1>16. StaleHasLate'
  <2>. SUFFICES ASSUME NEW c \in stale, phase'[c] \in {"connecting", "rejecting"}, ~closed
                PROVE  \E q \in Request : Late(q)' /\ req'[q].key = keyOf[c]
                         /\ (Waits(q, c)' \/ (client'[q].at = "clearing" /\ c \in client'[q].joined))
    BY <1>2 DEF StaleHasLate
  <2>1. phase[c] \in {"connecting", "rejecting"}
    BY <1>3 DEF PoolFacts
  <2>2. PICK q \in Request : Late(q) /\ req[q].key = keyOf[c]
          /\ (Waits(q, c) \/ (client[q].at = "clearing" /\ c \in client[q].joined))
    BY <2>1 DEF StaleHasLate
  <2>. QED
    BY <1>2, <1>5, <1>7, <2>2
<1>17. ASSUME NEW q \in calm' PROVE Calm(q)'
  <2>1. q \in Request /\ q \in calm /\ q # r /\ Calm(q) /\ q \in current'
    BY <1>5 DEF OwnTypes, Calm
  <2>2. client'[q] = client[q] /\ req'[q] = req[q] /\ req[q].key \in Key
    BY <1>2, <1>5, <2>1 DEF Places, Calm
  <2>3. pending'[req[q].key] \notin stale
    BY <1>2, <2>1, <2>2 DEF Calm, PoolFacts
  <2>4. ASSUME client[q].at \in {"acquiring", "holding"} PROVE phase'[client[q].conn] = "open"
    <3>1. PICK c \in Conn : client'[q].conn = c /\ P!Leaseholders(c)' # {}
      BY <2>1, <2>2, <2>4, PoolGivesNext
    <3>2. client[r].todo = {} /\ phase[c] = "open"
      BY <2>1, <2>2, <2>4, <3>1 DEF Closing, Calm
    <3>. QED
      BY <1>1, <2>2, <3>1, <3>2 DEF P!Rests
  <2>5. \A s \in Request : Late(s)' => req'[s].key # req'[q].key
    BY <1>5, <1>7, <2>1, <2>2 DEF Calm
  <2>. QED
    BY <1>2, <2>1, <2>2, <2>3, <2>4, <2>5 DEF Calm
<1>. QED
  BY <1>6, <1>8, <1>9, <1>10, <1>11, <1>12, <1>13, <1>14, <1>15, <1>16, <1>17

-----------------------------------------------------------------------------
(* The shutdown.                                                            *)

LEMMA ShutdownBeginsKeeps ==
  ASSUME IpcInv, PoolInv', Quiet, ShutdownBegins
  PROVE  IpcInv'
<1>. USE CallerTypes, PoolGives DEF IpcInv
<1>1. Clearless /\ ~Draining /\ \A c \in Conn : phase[c] # "ready"
  BY QuietFacts DEF Clearless, Clearing
<1>2. S!Clear(Shutdown, Key) /\ closed' = TRUE
  BY DEF ShutdownBegins, S!ClearAll
<1>3. Swept(Shutdown, Key)
  BY <1>2, ClearSweeps
<1>4. /\ UNCHANGED <<keyOf, pending>>
      /\ stale' = stale \cup {c \in Conn : phase[c] = "connecting" /\ keyOf[c] \in Key}
      /\ \A q \in Caller \ {Shutdown} : client'[q] = client[q]
      /\ client'[Shutdown].at = "clearing"
      /\ \A c \in Conn : phase'[c] = "open" /\ keyOf[c] \in Key => c \in client'[Shutdown].todo
  BY <1>3 DEF Swept
<1>5. \A c \in Conn :
        /\ phase'[c] \in {"connecting", "rejecting", "ready", "rejected"} => phase'[c] = phase[c]
        /\ phase[c] \in {"connecting", "rejecting", "ready", "rejected"} => phase'[c] = phase[c]
        /\ phase'[c] = "open" => phase[c] = "open"
        /\ c \in Alive' => c \in Alive
  BY <1>3, SweptPhases
<1>6. shut' \in ShutState /\ shut'.at = "clearing" /\ shut'.wait = AllPending /\ shut.at = "running"
  BY ShutMoves
<1>7. /\ registered' = {} /\ current' = {} /\ profile' = Forget(Key)
      /\ aged' = aged \cup Alive /\ outdated' = {} /\ calm' = {} /\ UNCHANGED <<req, inv>>
  BY DEF ShutdownBegins
<1>8. OwnTypes' /\ Profiles'
  BY <1>6, <1>7 DEF OwnTypes, Profiles, Forget, Alive
<1>9. ASSUME NEW q \in Request PROVE Places(q)'
  BY <1>4, <1>7 DEF Places
<1>10. ASSUME NEW i \in Invalidation PROVE Invalidating(i)'
  BY <1>1, <1>7 DEF Invalidating, Clearless
<1>11. Awaited'
  BY <1>4, <1>5 DEF Awaited, Waits
<1>12. Rejecting'
  BY <1>4, <1>5 DEF Rejecting
<1>13. Found'
  <2>. SUFFICES ASSUME NEW c \in Alive', c \notin stale' PROVE c \in client'[Shutdown].todo
    BY DEF Found
  <2>1. c \in Conn /\ phase'[c] = "open"
    BY <1>1, <1>4, <1>5 DEF Alive, Rejecting, PoolFacts
  <2>. QED
    BY <1>4, <1>5, <2>1 DEF PoolFacts
<1>14. Closing'
  <2>1. \A p \in Caller \ {Shutdown} : client'[p].todo = {}
    BY <1>4 DEF Closing
  <2>2. \A p \in Caller \ Request : client'[p].at \in {"idle", "clearing"}
    BY <1>4 DEF Closing
  <2>3. \A q \in Request : Resolving(q)' => q \in shut'.wait
    BY <1>6, <1>7 DEF Resolving, AllPending
  <2>. QED
    BY <1>1, <1>2, <1>4, <1>6, <1>7, <2>1, <2>2, <2>3 DEF Closing, Clearless
<1>15. AgedEnd'
  BY <1>6 DEF AgedEnd
<1>16. LateWaited' /\ StaleHasLate'
  BY <1>2 DEF LateWaited, StaleHasLate
<1>17. \A r \in calm' : Calm(r)'
  BY <1>7
<1>. QED
  BY <1>8, <1>9, <1>10, <1>11, <1>12, <1>13, <1>14, <1>15, <1>16, <1>17

(* The shutdown has waited for every operation: no connection is left for its second clear(). *)
LEMMA ShutdownClearsKeeps ==
  ASSUME IpcInv, PoolInv', Clearless, ShutdownClears
  PROVE  IpcInv'
<1>. USE CallerTypes, PoolGives DEF IpcInv
<1>1. /\ S!Clear(Shutdown, Key) /\ closed' = TRUE
      /\ shut.at = "clearing" /\ shut.wait = {} /\ client[Shutdown].at = "idle"
  BY DEF ShutdownClears, S!ClearAll
<1>2. Swept(Shutdown, Key)
  BY <1>1, ClearSweeps
<1>3. closed /\ \A q \in Request : ~Resolving(q)
  BY <1>1 DEF Closing
<1>4. Alive = {}
  <2>. SUFFICES ASSUME NEW c \in Alive PROVE FALSE
    OBVIOUS
  <2>1. CASE phase[c] \in {"connecting", "rejecting", "ready"}
    <3>1. PICK r \in Request : Waits(r, c)
      BY <2>1 DEF Awaited, Alive
    <3>2. req[r].at = "connecting"
      BY <3>1 DEF Waits, Places, OwnTypes, ReqState
    <3>. QED
      BY <1>3, <3>2 DEF Resolving
  <2>2. CASE phase[c] = "open"
    <3>1. c \notin stale
      BY <2>2 DEF PoolFacts
    <3>. QED
      BY <1>1, <1>3, <3>1 DEF Found, Closing
  <2>. QED
    BY <2>1, <2>2 DEF Alive
<1>5. \A c \in Conn :
        /\ phase'[c] \in {"connecting", "rejecting", "ready", "rejected"} => phase'[c] = phase[c]
        /\ phase[c] \in {"connecting", "rejecting", "ready", "rejected"} => phase'[c] = phase[c]
        /\ c \in Alive' => c \in Alive
  BY <1>2, SweptPhases
<1>6. /\ UNCHANGED <<keyOf, pending>>
      /\ stale' = stale \cup {c \in Conn : phase[c] = "connecting" /\ keyOf[c] \in Key}
      /\ \A q \in Caller \ {Shutdown} : client'[q] = client[q]
      /\ client'[Shutdown].at = "clearing" /\ client'[Shutdown].todo = {}
  BY <1>2, <1>4 DEF Swept, Alive
<1>7. Alive' = {}
  BY <1>4, <1>5 DEF Alive
<1>8. shut' \in ShutState /\ shut'.at = "final"
  BY ShutMoves
<1>9. UNCHANGED <<registered, current, profile, req, inv, aged, outdated, calm>>
  BY DEF ShutdownClears, ghosts
<1>10. OwnTypes' /\ Profiles'
  BY <1>8, <1>9 DEF OwnTypes, Profiles
<1>11. ASSUME NEW q \in Request PROVE Places(q)'
  BY <1>6, <1>9 DEF Places
<1>12. ASSUME NEW i \in Invalidation PROVE Invalidating(i)'
  BY <1>9 DEF Invalidating, Clearless
<1>13. Awaited'
  BY <1>5, <1>6 DEF Awaited, Waits
<1>14. Rejecting'
  BY <1>5, <1>6 DEF Rejecting
<1>15. Found' /\ AgedEnd'
  BY <1>7 DEF Found, AgedEnd
<1>16. Closing'
  <2>1. \A p \in Caller : client'[p].todo = {}
    BY <1>6 DEF Closing
  <2>2. \A p \in Caller \ Request : client'[p].at \in {"idle", "clearing"}
    BY <1>6 DEF Closing
  <2>3. \A q \in Request : ~Resolving(q)'
    BY <1>3, <1>9 DEF Resolving
  <2>4. registered' = {} /\ current' = {} /\ \A i \in Invalidation : inv'[i].keys = {}
    BY <1>3, <1>9 DEF Closing
  <2>. QED
    BY <1>1, <1>7, <1>8, <2>1, <2>2, <2>3, <2>4 DEF Closing
<1>17. LateWaited' /\ StaleHasLate'
  BY <1>1 DEF LateWaited, StaleHasLate
<1>18. \A r \in calm' : Calm(r)'
  BY <1>3, <1>9 DEF Calm, Closing
<1>. QED
  BY <1>10, <1>11, <1>12, <1>13, <1>14, <1>15, <1>16, <1>17, <1>18

-----------------------------------------------------------------------------
(* The theorems.                                                            *)

(* A late or failed operation cleans up or ends, and nothing else. *)
LEMMA FailedKeeps ==
  ASSUME IpcInv, PoolInv', Clearless, NEW r \in Request, client[r].at = "idle",
         req[r].at \notin {"idle", "using"}, Failed(r)
  PROVE  IpcInv'
BY CleanKeeps, RejectsKeeps DEF Failed

LEMMA ResumesKeeps ==
  ASSUME IpcInv, PoolInv', Clearless, NEW r \in Request, Resumes(r)
  PROVE  IpcInv'
<1>. USE DEF IpcInv
<1>1. CASE Unresolved(r)
  <2>1. client[r].at = "idle"
    BY <1>1 DEF Unresolved, Places
  <2>. QED
    BY <1>1, <2>1, FailedKeeps DEF Unresolved
<1>2. CASE Connect(r)
  <2>1. client[r].at = "idle" /\ req[r].at = "resolved"
    BY <1>2 DEF Connect, Places
  <2>2. CASE Failed(r)
    BY <2>1, <2>2, FailedKeeps
  <2>. QED
    BY <1>2, <2>1, <2>2, ConnectKeeps DEF Connect
<1>3. CASE Connected(r)
  <2>1. req[r].at = "connecting" /\ client[r].at = "holding"
    BY <1>3 DEF Connected
  <2>. QED
    BY <1>3, <2>1, ConnectedKeeps, CleanKeeps DEF Connected
<1>4. CASE ConnectFailed(r)
  BY <1>4, FailedKeeps DEF ConnectFailed
<1>5. CASE Dropped(r)
  BY <1>5, FailedKeeps DEF Dropped
<1>6. CASE Cleaned(r)
  BY <1>6, RejectsKeeps DEF Cleaned
<1>. QED
  BY <1>1, <1>2, <1>3, <1>4, <1>5, <1>6 DEF Resumes

LEMMA SessionStepKeeps ==
  ASSUME IpcInv, PoolInv', Clearless
  PROVE  /\ \A p \in Caller : Session(S!Continue(p)) => IpcInv'
         /\ \A c \in Conn : Session(S!Settle(c) \/ S!DisconnectDone(c) \/ S!IdleFires(c)) => IpcInv'
<1>1. ASSUME NEW p \in Caller, Session(S!Continue(p)) PROVE IpcInv'
  <2>1. P!Rests({p}) /\ P!GoesOn(client[p], client'[p]) /\ UNCHANGED <<own, ghosts>>
    BY <1>1, CallersAct DEF Session, IpcInv
  <2>. QED
    BY <2>1, SessionKeeps
<1>2. ASSUME NEW c \in Conn, Session(S!Settle(c) \/ S!DisconnectDone(c) \/ S!IdleFires(c))
      PROVE  IpcInv'
  <2>1. P!Rests({}) /\ UNCHANGED <<own, ghosts>>
    BY <1>2, NetworkActs DEF Session, IpcInv
  <2>. QED
    BY <2>1, SessionKeeps
<1>. QED
  BY <1>1, <1>2

LEMMA MessageKeeps ==
  ASSUME IpcInv, PoolInv', Quiet, Message
  PROVE  IpcInv'
<1>1. Clearless
  BY QuietFacts DEF Clearless, Clearing
<1>2. ASSUME NEW r \in Request, Located(r) PROVE IpcInv'
  <2>1. req[r].at = "locating" /\ client[r].at = "idle"
    BY <1>2 DEF Located, IpcInv, Places
  <2>2. CASE /\ ~Stale(r) /\ registered' = Register(req[r].key) /\ Goto(r, "reading")
             /\ UNCHANGED <<pool, current, profile, ghosts>>
    BY <1>1, <2>1, <2>2, ReadKeeps DEF Stale
  <2>3. CASE Stale(r) /\ Clean(r, "cleaning")
    BY <1>1, <2>1, <2>3, CleanKeeps
  <2>4. CASE Rejects(r)
    BY <1>1, <2>1, <2>4, RejectsKeeps
  <2>. QED
    BY <1>2, <2>2, <2>3, <2>4 DEF Located
<1>3. ASSUME NEW r \in Request, CredentialsRead(r) PROVE IpcInv'
  <2>1. /\ req[r].at = "reading" /\ registered' = registered
        /\ UNCHANGED <<pool, current, profile, ghosts>>
        /\ \E place \in {"resolved", "unresolved"} : Goto(r, place)
    BY <1>3 DEF CredentialsRead
  <2>. QED
    BY <1>1, <2>1, ReadKeeps
<1>4. ASSUME NEW r \in Request, Answers(r) \/ Finish(r) PROVE IpcInv'
  BY <1>1, <1>2, <1>3, <1>4, ProfileKeeps, FinishKeeps DEF Answers
<1>5. ASSUME NEW c \in Conn, Session(S!IdleFires(c)) PROVE IpcInv'
  BY <1>1, <1>5, SessionStepKeeps DEF Session
<1>. QED
  BY <1>4, <1>5, BeginKeeps, InvalidateKeeps, ShutdownBeginsKeeps DEF Message

LEMMA IpcStep == IpcInv /\ [Next]_vars => IpcInv'
<1>. SUFFICES ASSUME IpcInv, [Next]_vars PROVE IpcInv'
  OBVIOUS
<1>1. CASE UNCHANGED vars
  <2>1. /\ UNCHANGED <<closed, phase, keyOf, stale, sessions, pending, leases, timer, orphans>>
        /\ UNCHANGED <<older, client, registered, current, profile, req, inv, shut>>
        /\ UNCHANGED <<aged, outdated, calm>>
    BY <1>1 DEF vars, pool, own, ghosts
  <2>2. PoolInv'
    BY <1>1, PoolKept DEF IpcInv, vars, pool, P!vars, P!life, P!clocks
  <2>3. /\ \A q \in Request : Late(q)' <=> Late(q)
        /\ \A q \in Request : Resolving(q)' <=> Resolving(q)
        /\ \A q, c : Waits(q, c)' <=> Waits(q, c)
        /\ Alive' = Alive
    BY <2>1 DEF Late, Resolving, Waits, Alive
  <2>4. OwnTypes' /\ Profiles' /\ \A r \in Request : Places(r)'
    BY <2>1 DEF IpcInv, OwnTypes, Profiles, Places
  <2>5. ASSUME NEW i \in Invalidation PROVE Invalidating(i)'
    BY <2>1 DEF IpcInv, Invalidating, Draining, S!Draining
  <2>6. Awaited' /\ Rejecting' /\ Found' /\ Closing'
    BY <2>1, <2>3 DEF IpcInv, Awaited, Rejecting, Found, Closing
  <2>7. AgedEnd' /\ LateWaited' /\ StaleHasLate'
    BY <2>1, <2>3 DEF IpcInv, AgedEnd, LateWaited, StaleHasLate
  <2>8. \A r \in calm' : Calm(r)'
    BY <2>1, <2>3 DEF IpcInv, Calm
  <2>. QED
    BY <2>2, <2>4, <2>5, <2>6, <2>7, <2>8 DEF IpcInv
<1>2. CASE Next
  <2>1. PoolInv'
    BY <1>2, PoolNext
  <2>2. ~Clearing => Clearless
    BY DEF Clearing, Clearless
  <2>3. Draining => Clearless
    BY DEF IpcInv, Invalidating, Clearless
  <2>4. CASE Continuation
    <3>1. ASSUME NEW p \in Caller, S!Draining(p), Session(S!Resume(p)) PROVE IpcInv'
      <4>1. Session(S!Continue(p)) /\ Draining
        BY <3>1 DEF Session, S!Continue, Draining
      <4>. QED
        BY <2>1, <2>3, <4>1, SessionStepKeeps
    <3>2. CASE Ends
      <4>1. CASE Clearless
        BY <2>1, <3>2, <4>1, ShutdownClearsKeeps, ShutdownEndsKeeps DEF Ends
      <4>2. CASE ~Clearless
        BY <3>2, <4>2 DEF Ends, ShutdownClears, ShutdownEnds, IpcInv, Closing, Clearless
      <4>. QED
        BY <4>1, <4>2
    <3>. QED
      BY <2>1, <2>2, <2>4, <3>1, <3>2, ClearSessionKeeps, SessionStepKeeps, ResumesKeeps,
         AwaitKeeps, InvalidatedKeeps
      DEF Continuation, Goes
  <2>5. CASE ~Clearing /\ ~Draining /\ \E c \in Conn : Network(c)
    <3>1. PICK c \in Conn : Session(S!Settle(c) \/ S!DisconnectDone(c) \/ S!IdleFires(c))
      BY <2>5 DEF Network, Session
    <3>. QED
      BY <2>1, <2>2, <2>5, <3>1, SessionStepKeeps
  <2>6. CASE Quiet /\ Message
    BY <2>1, <2>6, MessageKeeps
  <2>. QED
    BY <1>2, <2>4, <2>5, <2>6 DEF Next
<1>. QED
  BY <1>1, <1>2

LEMMA IpcInit == Init => IpcInv
<1>. SUFFICES ASSUME Init PROVE IpcInv
  OBVIOUS
<1>. USE CallerTypes
<1>1. S!Init /\ P!Init /\ P!SessionAssumption
  BY SameInit, PoolAssumption DEF Init
<1>2. P!IInv
  BY <1>1, P!TypeInit, P!StructureInit DEF P!IInv
<1>3. PoolInv
  BY <1>1, <1>2 DEF PoolInv, P!Fresh, P!Counted, P!Init
<1>4. /\ closed = FALSE /\ stale = {} /\ phase = [c \in Conn |-> "closed"]
      /\ \A k \in Key : pending[k] = None
      /\ \A p \in Caller : client[p].at = "idle" /\ client[p].todo = {}
  BY <1>1, P!IdleType DEF P!Init
<1>5. /\ registered = {} /\ current = {} /\ aged = {} /\ outdated = {} /\ calm = {}
      /\ profile = [k \in Key |-> None]
      /\ \A r \in Request : req[r].at = "idle"
      /\ \A i \in Invalidation : inv[i].at = "idle" /\ inv[i].target = None /\ inv[i].keys = {}
      /\ shut.at = "running"
  BY DEF Init, NoRequest, NoInvalidation
<1>6. OwnTypes
  BY DEF Init, OwnTypes, ReqState, InvState, ShutState, NoRequest, NoInvalidation
<1>7. \A r \in Request : Places(r)
  BY <1>4, <1>5 DEF Places
<1>8. \A i \in Invalidation : Invalidating(i)
  BY <1>5 DEF Invalidating
<1>9. Awaited /\ Rejecting /\ Profiles /\ Found /\ Closing
  BY <1>4, <1>5 DEF Awaited, Rejecting, Profiles, Found, Closing, Alive
<1>10. AgedEnd /\ LateWaited /\ StaleHasLate
  BY <1>4, <1>5 DEF AgedEnd, LateWaited, StaleHasLate, Late, Resolving
<1>. QED
  BY <1>3, <1>5, <1>6, <1>7, <1>8, <1>9, <1>10 DEF IpcInv

LEMMA IpcInvariance == Spec => []IpcInv
BY IpcInit, IpcStep, PTL DEF Spec

(* Every variable of the connections' main process has its type: its own, and those of the
   session pool whose callers are the requests, the invalidations and the shutdown. *)
THEOREM IpcTypeCorrect == Spec => []TypeOK
<1>1. IpcInv => TypeOK
  <2>. SUFFICES ASSUME IpcInv PROVE TypeOK
    OBVIOUS
  <2>1. S!TypeOK
    BY SameTypes DEF IpcInv, PoolInv, P!IInv
  <2>. QED
    BY <2>1 DEF IpcInv, OwnTypes, TypeOK
<1>. QED
  BY <1>1, IpcInvariance, PTL

(* What an invalidation or the shutdown has closed stays closed: no connection begun before an
   invalidation of its target, or with credentials read before it, outlives it; an invalidation
   overlooks no session; and the shutdown leaves nothing behind (invalidateHealthTarget,
   resolveConnectionOwned and shutdown of ipc.ts). *)
THEOREM ClosingAlwaysFinal == Spec => []ClosingIsFinal
<1>1. IpcInv => ClosingIsFinal
  <2>. SUFFICES ASSUME IpcInv PROVE ClosingIsFinal
    OBVIOUS
  <2>1. InvalidationIsFinal
    BY DEF IpcInv, AgedEnd, InvalidationIsFinal
  <2>2. InvalidationFindsAll
    BY DEF IpcInv, Found, InvalidationFindsAll
  <2>3. ShutdownLeavesNothing
    BY DEF IpcInv, Closing, ShutdownLeavesNothing
  <2>. QED
    BY <2>1, <2>2, <2>3 DEF ClosingIsFinal
<1>. QED
  BY <1>1, IpcInvariance, PTL

(* A request that no invalidation has to do with is never given, and never left with, a connection
   that the clean-up of a late request closes, nor does it join a connect that will be rejected
   (the clean-ups of resolveConnectionOwned clear the key, whoever uses it by then). *)
THEOREM CalmAlwaysUnharmed == Spec => []CalmUnharmed
<1>1. IpcInv => CalmUnharmed
  BY DEF IpcInv, Calm, CalmUnharmed
<1>. QED
  BY <1>1, IpcInvariance, PTL
=============================================================================
