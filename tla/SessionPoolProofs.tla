-------------------------- MODULE SessionPoolProofs --------------------------
(***************************************************************************)
(* The promise of SessionManager to its callers, from the exact count of   *)
(* the leases (SessionLeaseProofs): only leases hold the pool above its    *)
(* maximum, only an invalidation takes a leased session away, what is      *)
(* evicted was used least recently, and the manager implements LeasePool.  *)
(***************************************************************************)
EXTENDS SessionLeaseProofs, WellFoundedInduction

LEMMA LiveFinite ==
  ASSUME NEW sess
  PROVE  IsFiniteSet(Live(sess)) /\ Cardinality(Live(sess)) \in Nat
<1>1. Live(sess) \in SUBSET Key
  BY DEF Live
<1>2. IsFiniteSet(Live(sess))
  BY <1>1, SessionAssumption, FS_Subset
<1>. QED
  BY <1>2, FS_CardinalityType

LEMMA LiveShrinks ==
  ASSUME NEW sess, NEW rest, \A k \in Key : rest[k] \in {sess[k], None}
  PROVE  /\ Cardinality(Live(rest)) <= Cardinality(Live(sess))
         /\ Pooled(rest) \subseteq Pooled(sess)
<1>1. Live(rest) \in SUBSET Live(sess)
  BY DEF Live
<1>2. Cardinality(Live(rest)) <= Cardinality(Live(sess))
  BY <1>1, LiveFinite, FS_Subset
<1>3. Pooled(rest) \subseteq Pooled(sess)
  BY DEF Pooled, Live
<1>. QED
  BY <1>2, <1>3

(* Pooling a session adds at most one, and taking another one out makes up for it. *)
LEMMA LiveSwap ==
  ASSUME NEW sess, NEW rest, NEW i \in Key, NEW j \in Key, i # j, sess[j] # None,
         \A k \in Key \ {i} : rest[k] = IF k = j THEN None ELSE sess[k]
  PROVE  Cardinality(Live(rest)) <= Cardinality(Live(sess))
<1>. DEFINE T == Live(sess) \ {j}
<1>1. Live(rest) \in SUBSET (T \cup {i}) /\ j \in Live(sess)
  BY DEF Live
<1>2. IsFiniteSet(T) /\ Cardinality(T) = Cardinality(Live(sess)) - 1
  BY <1>1, LiveFinite, FS_RemoveElement
<1>. HIDE DEF T
<1>3. IsFiniteSet(T \cup {i}) /\ Cardinality(T \cup {i}) <= Cardinality(T) + 1
  <2>1. /\ IsFiniteSet(T \cup {i}) /\ Cardinality(T) \in Nat
        /\ Cardinality(T \cup {i}) = IF i \in T THEN Cardinality(T) ELSE Cardinality(T) + 1
    BY <1>2, FS_AddElement, FS_CardinalityType, Zenon
  <2>. QED
    BY <2>1
<1>4. Cardinality(Live(rest)) <= Cardinality(T \cup {i}) /\ Cardinality(T \cup {i}) \in Nat
  BY <1>1, <1>3, FS_Subset, FS_CardinalityType
<1>. QED
  BY <1>2, <1>3, <1>4, LiveFinite

-----------------------------------------------------------------------------
(* Over the maximum only by leases.                                        *)

LEMMA BoundKept ==
  ASSUME TypeOK, BoundRespectsLeases, \A k \in Key : sessions'[k] \in {sessions[k], None},
         \A c \in Pooled(sessions') : leases[c] > 0 => leases'[c] > 0
  PROVE  BoundRespectsLeases'
<1>1. /\ Cardinality(Live(sessions')) <= Cardinality(Live(sessions))
      /\ Pooled(sessions') \subseteq Pooled(sessions)
  BY LiveShrinks
<1>2. /\ Cardinality(Live(sessions')) \in Nat /\ Cardinality(Live(sessions)) \in Nat
      /\ MaxSessions \in Nat
  BY LiveFinite, SessionAssumption
<1>3. Cardinality(Live(sessions')) > MaxSessions => Cardinality(Live(sessions)) > MaxSessions
  BY <1>1, <1>2
<1>. QED
  BY <1>1, <1>3 DEF BoundRespectsLeases

(* An eviction that only looks at the pool: when the pool is over its maximum, the lease
   that is being returned is the only one that can have ended. *)
LEMMA EvictBound ==
  ASSUME IInv, TypeOK', BoundRespectsLeases, NEW p \in Client,
         NEW place \in {"acquiring", "releasing"}, NEW c \in Conn, NEW rec,
         EvictTurn(p, place, c, sessions, phase, rec),
         \A d \in Conn : d # c \/ place = "acquiring" => leases'[d] = leases[d]
  PROVE  BoundRespectsLeases'
<1>1. PICK v \in Conn \cup {None} : Evicted(v, p, place, c, sessions, phase, rec)
  BY EvictTurnEffect DEF IInv, TypeOK
<1>2. \A k \in Key : sessions'[k] = IF v # None /\ sessions[k] = v THEN None ELSE sessions[k]
  BY <1>1 DEF Evicted, Without
<1>3. Pooled(sessions) \subseteq Conn
  BY PooledType DEF IInv, TypeOK
<1>4. \A d \in Conn : leases'[d] \in Nat /\ leases[d] \in Nat
  BY DEF IInv, TypeOK
<1>5. CASE v # None
  <2>1. v \in Conn /\ leases'[v] = 0 /\ v \in Pooled(sessions) /\ Over(sessions)
    BY <1>1, <1>5 DEF Evicted
  <2>2. leases[v] > 0
    BY <2>1 DEF BoundRespectsLeases, Over
  <2>3. v = c /\ place = "releasing"
    BY <2>1, <2>2
  <2>4. c \notin Pooled(sessions')
    BY <1>2, <1>5, <2>3 DEF Pooled, Live
  <2>5. \A d \in Pooled(sessions') : leases[d] > 0 => leases'[d] > 0
    <3>1. Pooled(sessions') \subseteq Pooled(sessions)
      BY <1>2 DEF Pooled, Live
    <3>. QED
      BY <1>3, <2>4, <3>1
  <2>. QED
    BY <1>2, <2>5, BoundKept DEF IInv
<1>6. CASE v = None
  <2>1. \A k \in Key : sessions'[k] = sessions[k]
    BY <1>2, <1>6
  <2>2. Live(sessions') = Live(sessions) /\ Pooled(sessions') = Pooled(sessions)
    BY <2>1 DEF Pooled, Live
  <2>3. CASE ~Over(sessions)
    BY <2>2, <2>3 DEF Over, BoundRespectsLeases
  <2>4. CASE place = "acquiring"
    BY <1>3, <2>2, <2>4 DEF BoundRespectsLeases
  <2>5. CASE Over(sessions) /\ place = "releasing"
    <3>1. Evictable(sessions, None, leases') = {}
      BY <1>1, <1>6, <2>5 DEF Evicted, Protected
    <3>2. \A d \in Pooled(sessions) : keyOf[d] # None
      BY SessionAssumption DEF IInv, Linked, LinkedAs, Pooled, Live
    <3>3. \A d \in Pooled(sessions) : leases'[d] # 0
      BY <3>1, <3>2 DEF Evictable
    <3>. QED
      BY <1>3, <1>4, <2>2, <3>3 DEF BoundRespectsLeases
  <2>. QED
    BY <2>3, <2>4, <2>5
<1>. QED
  BY <1>5, <1>6

LEMMA GiveBackBound ==
  ASSUME IInv, TypeOK', BoundRespectsLeases, NEW p \in Client,
         client[p].at \in {"acquiring", "holding"}, GiveBack(p)
  PROVE  BoundRespectsLeases'
<1>1. PICK c \in Conn : c = client[p].conn
  BY DEF IInv, Calls
<1>2. \A d \in Conn : d # c => leases'[d] = leases[d]
  BY <1>1 DEF GiveBack, Give, IInv, TypeOK
<1>3. CASE leases'[c] # 0 /\ sessions' = sessions
  <2>1. Pooled(sessions') \subseteq Conn
    BY <1>3, PooledType DEF IInv, TypeOK
  <2>2. leases'[c] > 0
    BY <1>3 DEF TypeOK
  <2>3. \A d \in Pooled(sessions') : leases[d] > 0 => leases'[d] > 0
    BY <1>2, <2>1, <2>2
  <2>. QED
    BY <1>3, <2>3, BoundKept DEF IInv
<1>4. CASE EvictTurn(p, "releasing", c, sessions, phase, Touch(c, Pooled(sessions)))
  BY <1>2, <1>4, EvictBound
<1>. QED
  BY <1>1, <1>3, <1>4 DEF GiveBack

LEMMA ResumeBound ==
  ASSUME IInv, BoundRespectsLeases, NEW p \in Client, Resume(p)
  PROVE  BoundRespectsLeases'
<1>1. PICK c \in Conn, v \in Conn \cup {None} : Resumed(c, v, p)
  BY ResumeMoves
<1>2. /\ keyOf[c] \in Key /\ v # c
      /\ \A k \in Key : sessions'[k] = IF k = keyOf[c] THEN c ELSE Without(sessions, v)[k]
      /\ v # None => v \in Pooled(sessions) /\ leases[v] = 0
      /\ v = None => \/ ~Over([sessions EXCEPT ![keyOf[c]] = c])
                     \/ \A d \in Pooled(sessions) : d # c => leases[d] # 0
      /\ \A d \in Conn : leases'[d] = IF d = c THEN leases[c] + 1 ELSE leases[d]
  BY <1>1, Zenon DEF Resumed
<1>3. Pooled(sessions) \subseteq Conn
  BY PooledType DEF IInv, TypeOK
<1>4. \A d \in Conn : leases[d] \in Nat
  BY DEF IInv, TypeOK
<1>5. /\ Cardinality(Live(sessions')) \in Nat /\ Cardinality(Live(sessions)) \in Nat
      /\ MaxSessions \in Nat
  BY LiveFinite, SessionAssumption
<1>6. \A d \in Pooled(sessions') : d # c => d \in Pooled(sessions)
  BY <1>2 DEF Pooled, Live, Without
<1>7. CASE v # None
  <2>1. ~(Cardinality(Live(sessions)) > MaxSessions)
    BY <1>2, <1>3, <1>7 DEF BoundRespectsLeases
  <2>2. PICK j \in Key : sessions[j] = v
    BY <1>2, <1>7 DEF Pooled, Live
  <2>3. j # keyOf[c]
    <3>1. phase[c] \in {"ready", "open"}
      BY <1>1, Zenon DEF Resumed
    <3>. QED
      BY <1>2, <1>7, <2>2, <3>1, SessionAssumption DEF IInv, Linked, LinkedAs
  <2>4. \A k \in Key \ {keyOf[c]} : sessions'[k] = IF k = j THEN None ELSE sessions[k]
    BY <1>2, <1>7, <2>2 DEF Without, IInv, Linked, LinkedAs
  <2>5. Cardinality(Live(sessions')) <= Cardinality(Live(sessions))
    BY <1>2, <1>7, <2>2, <2>3, <2>4, LiveSwap
  <2>. QED
    BY <1>5, <2>1, <2>5 DEF BoundRespectsLeases
<1>8. CASE v = None /\ ~Over([sessions EXCEPT ![keyOf[c]] = c])
  <2>. DEFINE installed == [sessions EXCEPT ![keyOf[c]] = c]
  <2>1. \A k \in Key : sessions'[k] = installed[k]
    BY <1>2, <1>8 DEF Without, IInv, TypeOK
  <2>2. Live(sessions') = Live(installed)
    BY <2>1 DEF Live
  <2>. QED
    BY <1>8, <2>2 DEF Over, BoundRespectsLeases
<1>9. CASE \A d \in Pooled(sessions) : d # c => leases[d] # 0
  BY <1>2, <1>3, <1>4, <1>6, <1>9 DEF BoundRespectsLeases
<1>. QED
  BY <1>2, <1>7, <1>8, <1>9

(* clear() and the idle timer only shrink the pool, and leave the leases alone. *)
LEMMA CloseNextShrinks ==
  ASSUME IInv, NEW p \in Client, NEW todo \in SUBSET Conn, NEW joined,
         CloseNext(p, todo, joined)
  PROVE  \A k \in Key : sessions'[k] \in {sessions[k], None}
BY DEF CloseNext, IInv, TypeOK

LEMMA ClearShrinks ==
  ASSUME IInv, NEW p \in Client, NEW K \in SUBSET Key, Clear(p, K)
  PROVE  leases' = leases /\ \A k \in Key : sessions'[k] \in {sessions[k], None}
<1>. DEFINE todo == {sessions[k] : k \in K \cap Live(sessions)}
            joined == {pending[k] : k \in K \cap Live(pending)}
<1>1. todo \in SUBSET Conn
  BY DEF IInv, TypeOK, Live
<1>2. CloseNext(p, todo, joined) /\ leases' = leases
  BY DEF Clear
<1>. HIDE DEF todo, joined
<1>. QED
  BY <1>1, <1>2, CloseNextShrinks

LEMMA ContinueClearShrinks ==
  ASSUME IInv, NEW p \in Client, ContinueClear(p)
  PROVE  leases' = leases /\ \A k \in Key : sessions'[k] \in {sessions[k], None}
<1>1. client[p].todo \in SUBSET Conn
  BY DEF IInv, TypeOK, Call
<1>. QED
  BY <1>1, CloseNextShrinks DEF ContinueClear

LEMMA BoundStep == IInv /\ BoundRespectsLeases /\ [Next]_vars => BoundRespectsLeases'
<1>. SUFFICES ASSUME IInv, BoundRespectsLeases, [Next]_vars PROVE BoundRespectsLeases'
  OBVIOUS
<1>0. TypeOK' /\ TypeOK
  BY TypeStep DEF IInv
<1>. USE DEF life, clocks
<1>1. ASSUME leases' = leases, \A k \in Key : sessions'[k] \in {sessions[k], None}
      PROVE  BoundRespectsLeases'
  BY <1>0, <1>1, BoundKept
<1>2. ASSUME NEW p \in Client, NEW k \in Key, AcquireSession(p, k) PROVE BoundRespectsLeases'
  <2>1. sessions' = sessions /\ \A c \in Conn : leases[c] > 0 => leases'[c] > 0
    BY <1>0, <1>2 DEF AcquireSession, Take, TypeOK
  <2>2. Pooled(sessions') \subseteq Conn
    BY <1>0, <2>1, PooledType DEF TypeOK
  <2>. QED
    BY <1>0, <2>1, <2>2, BoundKept
<1>3. ASSUME NEW p \in Client, NEW k \in Key, NEW c \in Conn, StartConnect(p, k, c)
      PROVE  BoundRespectsLeases'
  <2>1. /\ sessions' = sessions /\ c \notin Pooled(sessions)
        /\ \A d \in Conn : d # c => leases'[d] = leases[d]
    BY <1>3 DEF StartConnect, Free, Pooled, Live, IInv, TypeOK
  <2>2. Pooled(sessions') \subseteq Conn
    BY <1>0, <2>1, PooledType DEF TypeOK
  <2>. QED
    BY <1>0, <2>1, <2>2, BoundKept
<1>4. ASSUME NEW p \in Client,
             \/ \E k \in Key : JoinPending(p, k)
             \/ ResumeRejected(p) \/ FinishRelease(p) \/ FinishClear(p)
      PROVE  BoundRespectsLeases'
  BY <1>1, <1>4 DEF JoinPending, ResumeRejected, FinishRelease, FinishClear
<1>5. ASSUME NEW p \in Client, NEW K \in SUBSET Key, Clear(p, K) PROVE BoundRespectsLeases'
  BY <1>1, <1>5, ClearShrinks
<1>6. ASSUME NEW p \in Client, ContinueClear(p) PROVE BoundRespectsLeases'
  BY <1>1, <1>6, ContinueClearShrinks
<1>7. ASSUME NEW p \in Client, Resume(p) PROVE BoundRespectsLeases'
  BY <1>7, ResumeBound
<1>8. ASSUME NEW p \in Client, EvictAgain(p) PROVE BoundRespectsLeases'
  <2>1. /\ client[p].conn \in Conn /\ client[p].at \in {"acquiring", "releasing"}
        /\ EvictTurn(p, client[p].at, client[p].conn, sessions, phase, older)
        /\ leases' = leases
    BY <1>8 DEF EvictAgain, IInv, Calls
  <2>. QED
    BY <1>0, <2>1, EvictBound
<1>9. ASSUME NEW p \in Client, ReleaseLease(p) \/ ReleaseConnection(p)
      PROVE  BoundRespectsLeases'
  BY <1>0, <1>1, <1>9, GiveBackBound DEF ReleaseLease, ReleaseConnection
<1>10. ASSUME NEW c \in Conn, Settle(c) \/ IdleFires(c) \/ DisconnectDone(c)
       PROVE  BoundRespectsLeases'
  BY <1>0, <1>1, <1>10
     DEF Settle, ConnectResolves, ConnectRejects, IdleFires, DisconnectDone, TypeOK
<1>11. CASE UNCHANGED vars
  BY <1>1, <1>11 DEF vars
<1>. QED
  BY <1>2, <1>3, <1>4, <1>5, <1>6, <1>7, <1>8, <1>9, <1>10, <1>11
     DEF Next, Step, Acquire, Continue, ClearKey, ClearAll

(* The pool is above its maximum only while every session in it is leased, for any
   maximum and any number of keys and callers. *)
THEOREM OnlyLeasesExceedBound == Spec => []BoundRespectsLeases
<1>1. Init => BoundRespectsLeases
  BY DEF Init, BoundRespectsLeases, Pooled, Live
<1>. QED
  BY <1>1, BoundStep, Invariance, PTL DEF Spec

-----------------------------------------------------------------------------
(* Only an invalidation closes a leased session.                           *)

LEMMA NoLeaseNoHolder ==
  ASSUME NEW c, Cardinality(Leaseholders(c)) = 0
  PROVE  Leaseholders(c) = {}
BY HoldersFinite, FS_EmptySet

LEMMA NoLeaseNoHolderNext ==
  ASSUME NEW c, Cardinality(Leaseholders(c)') = 0
  PROVE  Leaseholders(c)' = {}
<1>1. IsFiniteSet(Leaseholders(c)')
  <2>1. Leaseholders(c)' \in SUBSET Client
    BY DEF Leaseholders
  <2>. QED
    BY <2>1, SessionAssumption, FS_Subset
<1>. QED
  BY <1>1, FS_EmptySet

(* Whatever leaves the pool, other than by a clear(), is held by nobody afterwards. *)
LEMMA EvictedUnheld ==
  ASSUME IInv, Counted, NEW p \in Client, EvictAgain(p) \/ Resume(p)
                                         \/ (client[p].at = "holding" /\ GiveBack(p)),
         NEW c \in Conn, phase[c] = "open", phase'[c] # "open"
  PROVE  Leaseholders(c)' = {}
<1>0. leases[c] = Cardinality(Leaseholders(c))
  BY DEF Counted
<1>1. CASE EvictAgain(p)
  <2>1. PICK place \in {"acquiring", "releasing"}, d \in Conn, v \in Conn \cup {None} :
          Evicted(v, p, place, d, sessions, phase, older)
    BY <1>1, EvictAgainMoves
  <2>2. v = c /\ leases'[v] = 0
    BY <2>1, SessionAssumption DEF Evicted
  <2>3. leases[c] = 0 /\ Leaseholders(c)' = Leaseholders(c)
    BY <1>1, <2>2, EvictAgainMoves
  <2>. QED
    BY <1>0, <2>3, NoLeaseNoHolder
<1>2. CASE Resume(p)
  <2>1. PICK d \in Conn, v \in Conn \cup {None} : Resumed(d, v, p)
    BY <1>2, ResumeMoves
  <2>2. c # d /\ c = v /\ leases[c] = 0 /\ Leaseholders(c)' = Leaseholders(c)
    <3>1. c # d
      BY <2>1, Zenon DEF Resumed
    <3>2. phase'[c] = IF c = v THEN Disconnect(phase[c]) ELSE phase[c]
      BY <2>1, <3>1, Zenon DEF Resumed
    <3>3. c = v
      BY <3>2
    <3>. QED
      BY <2>1, <3>1, <3>3, SessionAssumption DEF Resumed
  <2>. QED
    BY <1>0, <2>2, NoLeaseNoHolder
<1>3. CASE client[p].at = "holding" /\ GiveBack(p)
  <2>1. PICK d \in Conn : d = client[p].conn
    BY <1>3 DEF IInv, Calls
  <2>2. EvictTurn(p, "releasing", d, sessions, phase, Touch(d, Pooled(sessions)))
    BY <1>3, <2>1 DEF GiveBack
  <2>3. PICK v \in Conn \cup {None} :
          Evicted(v, p, "releasing", d, sessions, phase, Touch(d, Pooled(sessions)))
    BY <2>2, EvictTurnEffect DEF IInv, TypeOK
  <2>4. v = c /\ leases'[c] = 0
    BY <2>3, SessionAssumption DEF Evicted
  <2>5. leases'[c] = Cardinality(Leaseholders(c)')
    BY <1>3, GiveBackCounts
  <2>. QED
    BY <2>4, <2>5, NoLeaseNoHolderNext
<1>. QED
  BY <1>1, <1>2, <1>3

LEMMA ProtectStep ==
  ASSUME IInv, Counted, [Next]_vars,
         NEW c \in Conn, phase[c] = "open", phase'[c] = "closing", Leaseholders(c)' # {}
  PROVE  \E p \in Client : client'[p].at = "clearing" /\ client'[p].on = c
<1>. USE DEF life, clocks
<1>1. ASSUME NEW p \in Client, NEW todo \in SUBSET Conn, NEW joined, CloseNext(p, todo, joined)
      PROVE  client'[p].at = "clearing" /\ client'[p].on = c
  <2>1. PICK d \in todo : ClosedNext(d, p, todo, joined)
    BY <1>1, CloseNextEffect DEF IInv
  <2>2. d = c
    BY <2>1 DEF ClosedNext
  <2>. QED
    BY <2>1, <2>2 DEF ClosedNext, Clearing, IInv, TypeOK
<1>2. ASSUME NEW p \in Client, NEW K \in SUBSET Key, Clear(p, K)
      PROVE  \E q \in Client : client'[q].at = "clearing" /\ client'[q].on = c
  <2>. DEFINE todo == {sessions[k] : k \in K \cap Live(sessions)}
              joined == {pending[k] : k \in K \cap Live(pending)}
  <2>1. todo \in SUBSET Conn /\ CloseNext(p, todo, joined)
    BY <1>2 DEF Clear, IInv, TypeOK, Live
  <2>. HIDE DEF todo, joined
  <2>. QED
    BY <1>1, <2>1
<1>3. ASSUME NEW p \in Client, ContinueClear(p)
      PROVE  \E q \in Client : client'[q].at = "clearing" /\ client'[q].on = c
  <2>1. client[p].todo \in SUBSET Conn /\ CloseNext(p, client[p].todo, client[p].joined)
    BY <1>3 DEF ContinueClear, IInv, TypeOK, Call
  <2>. QED
    BY <1>1, <2>1
<1>4. ASSUME NEW p \in Client,
             \/ EvictAgain(p) \/ Resume(p)
             \/ ReleaseLease(p)
             \/ client[p].conn \in Pooled(sessions) /\ ReleaseConnection(p)
      PROVE  FALSE
  <2>1. EvictAgain(p) \/ Resume(p) \/ (client[p].at = "holding" /\ GiveBack(p))
    BY <1>4 DEF ReleaseLease, ReleaseConnection
  <2>2. phase'[c] # "open"
    OBVIOUS
  <2>3. Leaseholders(c)' = {}
    BY <2>1, <2>2, EvictedUnheld
  <2>. QED
    BY <2>3
<1>5. ASSUME NEW d \in Conn, IdleFires(d) PROVE FALSE
  <2>1. d = c /\ leases[c] = 0 /\ client' = client
    BY <1>5 DEF IdleFires, Expired, IInv, TypeOK
  <2>2. Leaseholders(c) = {}
    BY <2>1, NoLeaseNoHolder DEF Counted
  <2>. QED
    BY <2>1, <2>2 DEF Leaseholders
<1>6. ASSUME phase' = phase PROVE FALSE
  BY <1>6
<1>7. ASSUME NEW p \in Client, NEW k \in Key, Acquire(p, k) PROVE FALSE
  BY <1>7 DEF Acquire, AcquireSession, JoinPending, StartConnect, IInv, TypeOK
<1>8. ASSUME NEW p \in Client,
             \/ ReleaseConnection(p) /\ client[p].conn \notin Pooled(sessions)
             \/ ResumeRejected(p) \/ FinishRelease(p) \/ FinishClear(p)
      PROVE  FALSE
  BY <1>6, <1>8 DEF ReleaseConnection, ResumeRejected, FinishRelease, FinishClear
<1>9. ASSUME NEW d \in Conn, Settle(d) \/ DisconnectDone(d) PROVE FALSE
  BY <1>9 DEF Settle, ConnectResolves, ConnectRejects, DisconnectDone, Ended, IInv, TypeOK
<1>10. CASE UNCHANGED vars
  BY <1>6, <1>10 DEF vars
<1>11. ASSUME NEW p \in Client,
              \/ Continue(p) \/ ReleaseLease(p) \/ ReleaseConnection(p) \/ ClearAll(p)
       PROVE  \E q \in Client : client'[q].at = "clearing" /\ client'[q].on = c
  <2>1. Clear(p, Key) => \E q \in Client : client'[q].at = "clearing" /\ client'[q].on = c
    BY <1>2
  <2>. QED
    BY <2>1, <1>3, <1>4, <1>8, <1>11 DEF Continue, ClearAll
<1>12. ASSUME NEW p \in Client, NEW k \in Key, Acquire(p, k) \/ ClearKey(p, k)
       PROVE  \E q \in Client : client'[q].at = "clearing" /\ client'[q].on = c
  <2>1. {k} \in SUBSET Key
    OBVIOUS
  <2>2. Clear(p, {k}) => \E q \in Client : client'[q].at = "clearing" /\ client'[q].on = c
    BY <1>2, <2>1
  <2>. QED
    BY <2>2, <1>7, <1>12 DEF ClearKey
<1>. QED
  BY <1>4, <1>5, <1>9, <1>10, <1>11, <1>12 DEF Next, Step

(* Eviction and the idle timer never close a session somebody holds; clear() alone does. *)
THEOREM LeasesProtect == Spec => LeaseProtects
<1>1. Init => Counted
  BY DEF Init, Counted
<1>2. IInv /\ Counted /\ [Next]_vars =>
        [\A c \in Conn :
           (phase[c] = "open" /\ phase'[c] = "closing" /\ Leaseholders(c)' # {})
             => \E p \in Client : client'[p].at = "clearing" /\ client'[p].on = c]_vars
  BY ProtectStep
<1>. QED
  BY <1>1, <1>2, CountedStep, Invariance, PTL DEF Spec, LeaseProtects

-----------------------------------------------------------------------------
(* Least recently used first.                                              *)

(* rec orders the members of S strictly and totally: "was last used before". *)
Orders(rec, S) ==
  /\ \A a \in S : <<a, a>> \notin rec
  /\ \A a, b \in S : a # b => <<a, b>> \in rec \/ <<b, a>> \in rec
  /\ \A a, b, c \in S : <<a, b>> \in rec /\ <<b, c>> \in rec => <<a, c>> \in rec

UsesOrdered == Orders(older, Pooled(sessions))

(* Whatever is used becomes the latest; the order of the others stays. *)
LEMMA TouchOrders ==
  ASSUME NEW c, NEW S, Orders(older, S \ {c})
  PROVE  Orders(Touch(c, S), S)
<1>1. \A a, b \in S : <<a, b>> \in Touch(c, S) <=> a # c /\ (b = c \/ <<a, b>> \in older)
  <2>. TAKE a \in S, b \in S
  <2>1. <<a, b>> \in {r \in older : c \notin {r[1], r[2]}}
          <=> <<a, b>> \in older /\ a # c /\ b # c
    OBVIOUS
  <2>2. <<a, b>> \in {<<x, c>> : x \in S \ {c}} <=> b = c /\ a # c
    OBVIOUS
  <2>. QED
    BY <2>1, <2>2, Zenon DEF Touch
<1>2. \A a \in S : <<a, a>> \notin Touch(c, S)
  BY <1>1, Zenon DEF Orders
<1>3. \A a, b \in S : a # b => <<a, b>> \in Touch(c, S) \/ <<b, a>> \in Touch(c, S)
  BY <1>1, Zenon DEF Orders
<1>4. ASSUME NEW a \in S, NEW b \in S, NEW d \in S,
             <<a, b>> \in Touch(c, S), <<b, d>> \in Touch(c, S)
      PROVE  <<a, d>> \in Touch(c, S)
  <2>1. a # c /\ b # c /\ <<a, b>> \in older /\ (d = c \/ <<b, d>> \in older)
    BY <1>1, <1>4
  <2>. QED
    BY <1>1, <2>1 DEF Orders
<1>. QED
  BY <1>2, <1>3, <1>4 DEF Orders

LEMMA AmongOrders ==
  ASSUME NEW rec, NEW S, NEW T \in SUBSET S, Orders(rec, S)
  PROVE  Orders(Among(rec, T), T)
<1>1. \A a, b \in T : <<a, b>> \in Among(rec, T) <=> <<a, b>> \in rec
  BY DEF Among
<1>. QED
  BY <1>1 DEF Orders

LEMMA OrdersLess ==
  ASSUME NEW rec, NEW S, NEW T \in SUBSET S, Orders(rec, S)
  PROVE  Orders(rec, T)
BY DEF Orders

LEMMA TouchAll ==
  ASSUME NEW c, NEW S, Orders(older, S)
  PROVE  Orders(Touch(c, S), S)
<1>1. S \ {c} \in SUBSET S
  OBVIOUS
<1>. QED
  BY <1>1, OrdersLess, TouchOrders

(* An eviction finds its victim: of the sessions it may close, one is the least recently
   used. *)
LEMMA ColdestExists ==
  ASSUME NEW S, IsFiniteSet(S), S # {}, NEW rec, Orders(rec, S)
  PROVE  Coldest(S, rec) # {}
<1>. DEFINE Before(v) == {w \in S : <<w, v>> \in rec}
            T == {Before(v) : v \in S}
<1>1. IsWellFoundedOn(StrictSubsetOrdering(S), FiniteSubsetsOf(S))
  BY FS_StrictSubsetOrderingWellFounded
<1>2. T \in SUBSET FiniteSubsetsOf(S) /\ T # {}
  <2>1. \A v \in S : Before(v) \in SUBSET S /\ IsFiniteSet(Before(v))
    BY FS_Subset
  <2>. QED
    BY <2>1 DEF FiniteSubsetsOf
<1>3. PICK B \in T : \A C \in T : ~(<<C, B>> \in StrictSubsetOrdering(S))
  BY <1>1, <1>2, WFMin
<1>4. PICK v \in S : B = Before(v)
  BY <1>3
<1>5. ASSUME NEW w \in S, <<w, v>> \in rec PROVE FALSE
  <2>1. Before(w) \subseteq Before(v)
    BY <1>5 DEF Orders
  <2>2. w \in Before(v) /\ w \notin Before(w)
    BY <1>5 DEF Orders
  <2>3. <<Before(w), B>> \in StrictSubsetOrdering(S)
    BY <1>4, <2>1, <2>2 DEF StrictSubsetOrdering
  <2>. QED
    BY <1>3, <2>3
<1>. QED
  BY <1>5 DEF Coldest

LEMMA VictimExists ==
  ASSUME NEW sess, IsFiniteSet(Pooled(sess)), NEW keep, NEW lease, NEW rec,
         Orders(rec, Pooled(sess))
  PROVE  Victims(sess, keep, lease, rec) # {}
<1>. DEFINE S == Evictable(sess, keep, lease)
<1>1. S \in SUBSET Pooled(sess)
  BY DEF Evictable
<1>2. IsFiniteSet(S) /\ Orders(rec, S)
  BY <1>1, FS_Subset, OrdersLess
<1>3. S # {} => Coldest(S, rec) # {}
  BY <1>2, ColdestExists
<1>. QED
  BY <1>3, Zenon DEF Victims

(* A key has one session and a session one key. *)
LEMMA PooledCount ==
  ASSUME NEW sess, \A k \in Live(sess) : keyOf[sess[k]] = k
  PROVE  IsFiniteSet(Pooled(sess)) /\ Cardinality(Pooled(sess)) = Cardinality(Live(sess))
<1>. DEFINE f == [k \in Live(sess) |-> sess[k]]
<1>1. f \in Bijection(Live(sess), Pooled(sess))
  BY DEF Bijection, Injection, Surjection, IsInjective, Pooled
<1>. QED
  BY <1>1, LiveFinite, FS_Bijection DEF ExistsBijection

LEMMA OrderedInit == Init => UsesOrdered
BY DEF Init, UsesOrdered, Orders, Pooled, Live

LEMMA OrderedShrinks ==
  ASSUME UsesOrdered, NEW v, older' = Among(older, Pooled(sessions')),
         Pooled(sessions') \subseteq Pooled(sessions)
  PROVE  UsesOrdered'
BY AmongOrders DEF UsesOrdered

LEMMA EvictOrdered ==
  ASSUME NEW v, NEW p, NEW place, NEW c, NEW sess, NEW ph, NEW rec,
         Orders(rec, Pooled(sess)), Evicted(v, p, place, c, sess, ph, rec)
  PROVE  UsesOrdered'
<1>1. Pooled(sessions') \in SUBSET Pooled(sess) /\ older' = Among(rec, Pooled(sessions'))
  BY PooledWithout DEF Evicted
<1>. QED
  BY <1>1, AmongOrders DEF UsesOrdered

LEMMA ResumeOrdered ==
  ASSUME IInv, UsesOrdered, NEW p \in Client, Resume(p)
  PROVE  UsesOrdered'
<1>0. PICK c \in Conn : c = client[p].conn
  BY ResumeInstalls
<1>. DEFINE installed == [sessions EXCEPT ![keyOf[c]] = c]
            opened == [phase EXCEPT ![c] = IF @ = "ready" THEN "open" ELSE @]
            rec == Touch(c, Pooled(installed))
<1>1. /\ c \in Conn /\ installed \in [Key -> Conn \cup {None}]
  BY <1>0, ResumeInstalls
<1>2. EvictTurn(p, "acquiring", c, installed, opened, rec)
  BY <1>0 DEF Resume
<1>3. Pooled(installed) \ {c} \in SUBSET Pooled(sessions)
  BY DEF Pooled, Live, IInv, TypeOK
<1>4. Orders(rec, Pooled(installed))
  <2>1. Orders(older, Pooled(installed) \ {c})
    BY <1>3, OrdersLess DEF UsesOrdered
  <2>. HIDE DEF installed
  <2>. QED
    BY <2>1, TouchOrders
<1>. HIDE DEF installed, opened, rec
<1>5. \E v \in Conn \cup {None} : Evicted(v, p, "acquiring", c, installed, opened, rec)
  BY <1>1, <1>2, EvictTurnEffect
<1>. QED
  BY <1>4, <1>5, EvictOrdered

LEMMA GiveBackOrdered ==
  ASSUME IInv, UsesOrdered, NEW p \in Client, client[p].at = "holding", GiveBack(p)
  PROVE  UsesOrdered'
<1>1. PICK c \in Conn : c = client[p].conn
  BY DEF IInv, Calls
<1>. DEFINE rec == Touch(c, Pooled(sessions))
<1>2. Orders(rec, Pooled(sessions))
  BY TouchAll DEF UsesOrdered
<1>. HIDE DEF rec
<1>3. CASE older' = Among(rec, Pooled(sessions)) /\ sessions' = sessions
  BY <1>2, <1>3, AmongOrders DEF UsesOrdered
<1>4. CASE EvictTurn(p, "releasing", c, sessions, phase, rec)
  BY <1>2, <1>4, EvictTurnEffect, EvictOrdered DEF IInv, TypeOK
<1>. QED
  BY <1>1, <1>3, <1>4 DEF GiveBack, rec

LEMMA CloseNextOrdered ==
  ASSUME IInv, UsesOrdered, NEW p \in Client, NEW todo \in SUBSET Conn, NEW joined,
         CloseNext(p, todo, joined)
  PROVE  UsesOrdered'
<1>1. CASE UNCHANGED <<sessions, older>>
  BY <1>1 DEF UsesOrdered
<1>2. ASSUME NEW c \in todo, ClosedNext(c, p, todo, joined) PROVE UsesOrdered'
  <2>1. Pooled(sessions') \subseteq Pooled(sessions)
    BY <1>2, LiveShrinks DEF ClosedNext, IInv, TypeOK
  <2>. QED
    BY <1>2, <2>1, OrderedShrinks DEF ClosedNext
<1>. QED
  BY <1>1, <1>2, CloseNextEffect DEF IInv

LEMMA OrderedStep == IInv /\ UsesOrdered /\ [Next]_vars => UsesOrdered'
<1>. SUFFICES ASSUME IInv, UsesOrdered, [Next]_vars PROVE UsesOrdered'
  OBVIOUS
<1>. USE DEF life, clocks
<1>1. ASSUME NEW p \in Client, NEW k \in Key, AcquireSession(p, k) PROVE UsesOrdered'
  <2>1. sessions' = sessions /\ older' = Touch(sessions[k], Pooled(sessions))
    BY <1>1 DEF AcquireSession
  <2>. QED
    BY <2>1, TouchAll DEF UsesOrdered
<1>2. ASSUME UNCHANGED <<sessions, older>> PROVE UsesOrdered'
  BY <1>2 DEF UsesOrdered
<1>3. ASSUME NEW p \in Client, NEW K \in SUBSET Key, Clear(p, K) PROVE UsesOrdered'
  <2>. DEFINE todo == {sessions[k] : k \in K \cap Live(sessions)}
              joined == {pending[k] : k \in K \cap Live(pending)}
  <2>1. todo \in SUBSET Conn /\ CloseNext(p, todo, joined)
    BY <1>3 DEF Clear, IInv, TypeOK, Live
  <2>. HIDE DEF todo, joined
  <2>. QED
    BY <2>1, CloseNextOrdered
<1>4. ASSUME NEW p \in Client, ContinueClear(p) PROVE UsesOrdered'
  <2>1. client[p].todo \in SUBSET Conn
    BY DEF IInv, TypeOK, Call
  <2>. QED
    BY <1>4, <2>1, CloseNextOrdered DEF ContinueClear
<1>5. ASSUME NEW p \in Client, EvictAgain(p) PROVE UsesOrdered'
  BY <1>5, EvictAgainMoves, EvictOrdered DEF UsesOrdered
<1>6. ASSUME NEW p \in Client, ReleaseLease(p) \/ ReleaseConnection(p) PROVE UsesOrdered'
  BY <1>2, <1>6, GiveBackOrdered DEF ReleaseLease, ReleaseConnection
<1>7. ASSUME NEW c \in Conn, IdleFires(c) PROVE UsesOrdered'
  <2>1. CASE older' = Among(older, Pooled(sessions'))
    <3>1. Pooled(sessions') \subseteq Pooled(sessions)
      BY <1>7, LiveShrinks DEF IdleFires, IInv, TypeOK
    <3>. QED
      BY <2>1, <3>1, OrderedShrinks
  <2>. QED
    BY <1>2, <1>7, <2>1 DEF IdleFires
<1>8. ASSUME NEW c \in Conn, Settle(c) \/ DisconnectDone(c) PROVE UsesOrdered'
  BY <1>2, <1>8 DEF Settle, ConnectResolves, ConnectRejects, DisconnectDone
<1>9. ASSUME NEW p \in Client, \/ \E k \in Key : JoinPending(p, k)
                               \/ \E k \in Key, c \in Conn : StartConnect(p, k, c)
                               \/ ResumeRejected(p) \/ FinishRelease(p) \/ FinishClear(p)
      PROVE  UsesOrdered'
  BY <1>2, <1>9 DEF JoinPending, StartConnect, ResumeRejected, FinishRelease, FinishClear
<1>10. CASE UNCHANGED vars
  BY <1>2, <1>10 DEF vars
<1>. QED
  BY <1>1, <1>3, <1>4, <1>5, <1>6, <1>7, <1>8, <1>9, <1>10, ResumeOrdered
     DEF Next, Step, Acquire, Continue, ClearKey, ClearAll

NewerOrLeased(v) == {d \in Pooled(sessions') : leases'[d] > 0 \/ <<v, d>> \in older}

(* With one session out of a pool above its maximum, MaxSessions are left. *)
LEMMA StillFull ==
  ASSUME NEW sess, Over(sess), NEW v \in Pooled(sess), \A k \in Live(sess) : keyOf[sess[k]] = k
  PROVE  Cardinality(Pooled(Without(sess, v))) >= MaxSessions
<1>1. /\ IsFiniteSet(Pooled(sess)) /\ Cardinality(Pooled(sess)) \in Nat
      /\ Cardinality(Pooled(sess)) > MaxSessions
  BY PooledCount, FS_CardinalityType DEF Over
<1>2. Pooled(Without(sess, v)) = Pooled(sess) \ {v}
  BY DEF Pooled, Live, Without
<1>3. Cardinality(Pooled(sess) \ {v}) = Cardinality(Pooled(sess)) - 1
  BY <1>1, FS_RemoveElement
<1>. QED
  BY <1>1, <1>2, <1>3, SessionAssumption

(* A second turn of the loop never closes anything: the first one has brought the pool
   down to its maximum or to its leases. *)
LEMMA NothingToEvictAgain ==
  ASSUME IInv, BoundRespectsLeases, NEW p \in Client, EvictAgain(p)
  PROVE  client'[p].on = None
<1>1. PICK place \in {"acquiring", "releasing"}, c \in Conn, v \in Conn \cup {None} :
        Evicted(v, p, place, c, sessions, phase, older)
  BY EvictAgainMoves
<1>2. leases' = leases
  BY EvictAgainMoves
<1>3. v = None
  <2>. SUFFICES ASSUME v # None PROVE FALSE
    OBVIOUS
  <2>1. Over(sessions) /\ v \in Pooled(sessions) /\ leases[v] = 0
    BY <1>1, <1>2 DEF Evicted
  <2>2. leases[v] > 0
    BY <2>1 DEF Over, BoundRespectsLeases
  <2>. QED
    BY <2>1, <2>2
<1>4. client'[p] = At(IF place = "acquiring" /\ v = None THEN "holding" ELSE place, c, v)
  BY <1>1 DEF Evicted, IInv, TypeOK
<1>. QED
  BY <1>3, <1>4 DEF At

LEMMA ReturnEvictsColdest ==
  ASSUME IInv, TypeOK', BoundRespectsLeases, NEW p \in Client, client[p].at = "holding",
         GiveBack(p), client'[p].on # None
  PROVE  Cardinality(NewerOrLeased(client'[p].on)) >= MaxSessions
<1>1. PICK c \in Conn : c = client[p].conn
  BY DEF IInv, Calls
<1>. DEFINE rec == Touch(c, Pooled(sessions))
<1>2. EvictTurn(p, "releasing", c, sessions, phase, rec)
  <2>1. client' = [client EXCEPT ![p] = Idle] => client'[p].on = None
    BY DEF Idle, At, IInv, TypeOK
  <2>. QED
    BY <1>1, <2>1 DEF GiveBack
<1>. HIDE DEF rec
<1>3. PICK v \in Conn \cup {None} : Evicted(v, p, "releasing", c, sessions, phase, rec)
  BY <1>2, EvictTurnEffect DEF IInv, TypeOK
<1>4. client'[p].on = v
  BY <1>3 DEF Evicted, At, IInv, TypeOK
<1>5. /\ v # None /\ Over(sessions) /\ v \in Pooled(sessions) /\ leases'[v] = 0
      /\ sessions' = Without(sessions, v)
  BY <1>3, <1>4 DEF Evicted
<1>6. \A d \in Pooled(sessions) : leases[d] > 0
  BY <1>5 DEF Over, BoundRespectsLeases
<1>7. \A d \in Conn : d # c => leases'[d] = leases[d]
  BY <1>1 DEF GiveBack, Give, IInv, TypeOK
<1>8. \A d \in Pooled(sessions') : d \in Pooled(sessions) /\ d # v /\ d \in Conn
  BY <1>5, PooledWithout, PooledType DEF IInv, TypeOK
<1>9. v = c
  BY <1>5, <1>6, <1>7
<1>10. NewerOrLeased(v) = Pooled(sessions')
  BY <1>6, <1>7, <1>8, <1>9 DEF NewerOrLeased
<1>11. Cardinality(Pooled(sessions')) >= MaxSessions
  <2>1. \A k \in Live(sessions) : keyOf[sessions[k]] = k
    BY DEF IInv, Linked, LinkedAs, Live
  <2>. QED
    BY <1>5, <2>1, StillFull
<1>. QED
  BY <1>4, <1>10, <1>11

LEMMA ResumeEvictsColdest ==
  ASSUME IInv, UsesOrdered, NEW p \in Client, Resume(p), client'[p].on # None
  PROVE  Cardinality(NewerOrLeased(client'[p].on)) >= MaxSessions
<1>0. PICK c \in Conn : c = client[p].conn
  BY ResumeInstalls
<1>. DEFINE installed == [sessions EXCEPT ![keyOf[c]] = c]
            opened == [phase EXCEPT ![c] = IF @ = "ready" THEN "open" ELSE @]
            rec == Touch(c, Pooled(installed))
            idle == Evictable(installed, keyOf[c], leases')
<1>1. /\ installed \in [Key -> Conn \cup {None}] /\ keyOf[c] \in Key
      /\ LinkedAs(installed, Forget(c), opened) /\ opened[c] = "open"
  BY <1>0, ResumeInstalls
<1>2. EvictTurn(p, "acquiring", c, installed, opened, rec) /\ leases' = Take(c)
  BY <1>0 DEF Resume
<1>3. Pooled(installed) \ {c} \in SUBSET Pooled(sessions) /\ Pooled(installed) \in SUBSET Conn
  BY <1>1, PooledType DEF Pooled, Live, IInv, TypeOK
<1>4. c \in Pooled(installed) /\ \A d \in Pooled(installed) : d # c => keyOf[d] # keyOf[c]
  BY <1>1, SessionAssumption DEF Pooled, Live, LinkedAs
<1>5. \A k \in Live(installed) : keyOf[installed[k]] = k
  BY <1>1 DEF LinkedAs, Live
<1>. HIDE DEF installed, opened, rec
<1>6. PICK v \in Victims(installed, keyOf[c], leases', rec) :
        /\ sessions' = Without(installed, v)
        /\ client' = [client EXCEPT ![p] =
             At(IF "acquiring" = "acquiring" /\ v = None THEN "holding" ELSE "acquiring", c, v)]
  BY <1>2 DEF EvictTurn
<1>7. client'[p].on = v
  BY <1>6 DEF At, IInv, TypeOK
<1>8. Over(installed) /\ v \in Coldest(idle, rec)
  BY <1>6, <1>7 DEF Victims
<1>9. v \in Pooled(installed) /\ v # c /\ keyOf[v] # keyOf[c]
  BY <1>8 DEF Coldest, Evictable
<1>10. ASSUME NEW d \in Pooled(sessions')
       PROVE  leases'[d] > 0 \/ <<v, d>> \in older
  <2>1. d \in Pooled(installed) /\ d # v /\ d \in Conn
    BY <1>3, <1>6, PooledWithout
  <2>2. \A e \in Conn : leases[e] \in Nat /\ leases'[e] = IF e = c THEN leases[e] + 1 ELSE leases[e]
    BY <1>2 DEF Take, IInv, TypeOK
  <2>3. CASE d = c
    BY <2>1, <2>2, <2>3
  <2>4. CASE d # c /\ leases'[d] = 0
    <3>1. d \in idle
      BY <1>4, <2>1, <2>4 DEF Evictable
    <3>2. <<d, v>> \notin rec
      BY <1>8, <3>1 DEF Coldest
    <3>3. <<d, v>> \notin older
      BY <1>9, <2>4, <3>2 DEF rec, Touch
    <3>. QED
      BY <1>3, <1>9, <2>1, <2>4, <3>3 DEF UsesOrdered, Orders
  <2>. QED
    BY <2>1, <2>2, <2>3, <2>4
<1>11. NewerOrLeased(v) = Pooled(sessions')
  BY <1>10 DEF NewerOrLeased
<1>12. Cardinality(Pooled(sessions')) >= MaxSessions
  BY <1>5, <1>6, <1>8, <1>9, StillFull
<1>. QED
  BY <1>7, <1>11, <1>12

LEMMA ColdestStep ==
  ASSUME IInv, TypeOK', BoundRespectsLeases, UsesOrdered, [Next]_vars, NEW p \in Client,
         client'[p] # client[p], client'[p].at \in {"acquiring", "releasing"},
         client'[p].on # None
  PROVE  Cardinality(NewerOrLeased(client'[p].on)) >= MaxSessions
<1>. USE DEF life, clocks
<1>0. \A q \in Client : client[q] \in Call
  BY DEF IInv, TypeOK
<1>1. ASSUME NEW q \in Client, NEW x, client' = [client EXCEPT ![q] = x]
      PROVE  q = p /\ client'[p] = x
  BY <1>1 DEF IInv, TypeOK
<1>2. ASSUME NEW q \in Client, NEW x, client' = [client EXCEPT ![q] = x],
             x.at \notin {"acquiring", "releasing"}
      PROVE  FALSE
  BY <1>1, <1>2
<1>3. ASSUME client' = client PROVE FALSE
  BY <1>3
<1>4. ASSUME NEW q \in Client, NEW k \in Key, Acquire(q, k) PROVE FALSE
  <2>1. ASSUME NEW place \in {"holding", "waiting"}, NEW c, client' = [client EXCEPT ![q] = At(place, c, None)]
        PROVE  FALSE
    BY <1>2, <2>1 DEF At
  <2>. QED
    BY <1>4, <2>1 DEF Acquire, AcquireSession, JoinPending, StartConnect
<1>5. ASSUME NEW q \in Client, NEW todo, NEW joined, CloseNext(q, todo, joined) PROVE FALSE
  <2>1. \A v, rest : Clearing(v, rest, joined).at = "clearing"
    BY DEF Clearing
  <2>. QED
    BY <1>2, <1>5, <2>1 DEF CloseNext
<1>6. ASSUME NEW q \in Client, \/ \E k \in Key : ClearKey(q, k)
                               \/ ClearAll(q) \/ ContinueClear(q)
      PROVE  FALSE
  BY <1>5, <1>6 DEF ClearKey, ClearAll, Clear, ContinueClear
<1>7. ASSUME NEW q \in Client, client' = [client EXCEPT ![q] = Idle] PROVE FALSE
  BY <1>2, <1>7, IdleType
<1>8. ASSUME NEW q \in Client, ResumeRejected(q) \/ FinishRelease(q) \/ FinishClear(q)
      PROVE  FALSE
  BY <1>7, <1>8 DEF ResumeRejected, FinishRelease, FinishClear
<1>9. ASSUME NEW q \in Client, EvictAgain(q) PROVE FALSE
  <2>1. \E x : client' = [client EXCEPT ![q] = x]
    BY <1>9 DEF EvictAgain, EvictTurn
  <2>2. q = p
    BY <1>1, <2>1
  <2>. QED
    BY <1>9, <2>2, NothingToEvictAgain
<1>10. ASSUME NEW q \in Client, Resume(q)
       PROVE  Cardinality(NewerOrLeased(client'[p].on)) >= MaxSessions
  <2>1. \E x : client' = [client EXCEPT ![q] = x]
    BY <1>10 DEF Resume, EvictTurn
  <2>2. q = p
    BY <1>1, <2>1
  <2>. QED
    BY <1>10, <2>2, ResumeEvictsColdest
<1>11. ASSUME NEW q \in Client, client[q].at = "holding", GiveBack(q)
       PROVE  Cardinality(NewerOrLeased(client'[p].on)) >= MaxSessions
  <2>1. \E x : client' = [client EXCEPT ![q] = x]
    BY <1>11 DEF GiveBack, EvictTurn
  <2>2. q = p
    BY <1>1, <2>1
  <2>. QED
    BY <1>11, <2>2, ReturnEvictsColdest
<1>12. ASSUME NEW q \in Client, ReleaseLease(q) \/ ReleaseConnection(q)
       PROVE  Cardinality(NewerOrLeased(client'[p].on)) >= MaxSessions
  BY <1>7, <1>11, <1>12 DEF ReleaseLease, ReleaseConnection
<1>13. ASSUME NEW c \in Conn, Settle(c) \/ IdleFires(c) \/ DisconnectDone(c) PROVE FALSE
  BY <1>3, <1>13 DEF Settle, ConnectResolves, ConnectRejects, IdleFires, DisconnectDone
<1>14. CASE UNCHANGED vars
  BY <1>3, <1>14 DEF vars
<1>. QED
  BY <1>4, <1>6, <1>8, <1>9, <1>10, <1>12, <1>13, <1>14 DEF Next, Step, Continue

(* The entries are in a strict order of last use at any time, ... *)
THEOREM UsesAlwaysOrdered == Spec => []UsesOrdered
BY OrderedInit, OrderedStep, Invariance, PTL DEF Spec

(* ... and what is evicted is older than every session nobody leases: MaxSessions others
   are leased or were used after it. *)
THEOREM ColdestEvicted == Spec => EvictsColdest
<1>1. IInv /\ IInv' /\ BoundRespectsLeases /\ UsesOrdered /\ [Next]_vars =>
        [\A p \in Client :
           (client'[p] # client[p] /\ client'[p].at \in {"acquiring", "releasing"}
              /\ client'[p].on # None)
             => LET v == client'[p].on IN
                Cardinality({d \in Pooled(sessions') : leases'[d] > 0 \/ <<v, d>> \in older})
                  >= MaxSessions]_vars
  <2>1. IInv' => TypeOK'
    BY DEF IInv
  <2>. QED
    BY <2>1, ColdestStep DEF NewerOrLeased
<1>. QED
  BY <1>1, Invariance, OnlyLeasesExceedBound, UsesAlwaysOrdered, PTL DEF Spec, EvictsColdest

-----------------------------------------------------------------------------
(* The refinement of LeasePool.                                            *)

Held == [c \in Conn |-> Leaseholders(c)]
Revoking == {p \in Client : client[p].at = "clearing"}

(* LeasePool counts with the same Cardinality. *)
LEMMA PoolCardinality == \A S : Pool!Cardinality(S) = Cardinality(S)
BY DEF Pool!Cardinality, Cardinality

(* The abstract bound: above the maximum, somebody holds every session of the pool. *)
PoolWithin == Pool!Within(Pooled(sessions), Held)

LEMMA WithinHolds == IInv /\ Counted /\ BoundRespectsLeases => PoolWithin
<1>. SUFFICES ASSUME IInv, Counted, BoundRespectsLeases,
                     Cardinality(Pooled(sessions)) > MaxSessions, NEW c \in Pooled(sessions)
              PROVE  Held[c] # {}
  BY PoolCardinality, Zenon DEF PoolWithin, Pool!Within
<1>1. Cardinality(Live(sessions)) > MaxSessions
  <2>1. \A k \in Live(sessions) : keyOf[sessions[k]] = k
    BY DEF IInv, Linked, LinkedAs, Live
  <2>. QED
    BY <2>1, PooledCount
<1>2. leases[c] > 0 /\ c \in Conn /\ phase[c] = "open"
  BY <1>1, PooledType DEF BoundRespectsLeases, IInv, TypeOK, Linked, LinkedAs, Pooled, Live
<1>3. Cardinality(Leaseholders(c)) > 0
  BY <1>2 DEF Counted
<1>. QED
  BY <1>2, <1>3, FS_EmptySet DEF Held

(* One call changes: who is invalidating afterwards. *)
LEMMA RevokingMove ==
  ASSUME TypeOK, NEW p \in Client, NEW x, client' = [client EXCEPT ![p] = x]
  PROVE  /\ x.at = "clearing" => Revoking' = Revoking \cup {p}
         /\ x.at # "clearing" => Revoking' = Revoking \ {p}
<1>1. \A q \in Client : client'[q] = IF q = p THEN x ELSE client[q]
  BY DEF TypeOK
<1>. QED
  BY <1>1 DEF Revoking

LEMMA HeldSame ==
  ASSUME \A c \in Conn : Leaseholders(c)' = Leaseholders(c)
  PROVE  Held' = Held
BY Zenon DEF Held

LEMMA HeldGiven ==
  ASSUME NEW p, NEW c \in Conn, Leaseholders(c)' = Leaseholders(c) \ {p},
         \A d \in Conn \ {c} : Leaseholders(d)' = Leaseholders(d)
  PROVE  Held' = [Held EXCEPT ![c] = @ \ {p}]
BY DEF Held

LEMMA HeldTaken ==
  ASSUME NEW p, NEW c \in Conn, Leaseholders(c)' = Leaseholders(c) \cup {p},
         \A d \in Conn \ {c} : Leaseholders(d)' = Leaseholders(d)
  PROVE  Held' = [Held EXCEPT ![c] = @ \cup {p}]
BY DEF Held

(* A caller that holds c alone, and then nothing. *)
LEMMA HolderLeaves ==
  ASSUME TypeOK, NEW p \in Client, client[p].at \in {"acquiring", "holding"}, NEW x,
         client' = [client EXCEPT ![p] = x], x.at \notin {"acquiring", "holding"},
         client[p].conn \in Conn
  PROVE  /\ p \in Held[client[p].conn]
         /\ Held' = [Held EXCEPT ![client[p].conn] = @ \ {p}]
<1>. DEFINE c == client[p].conn
<1>1. \A d \in Conn : Leaseholders(d)' = Leaseholders(d) \ {p}
  BY HoldersMove DEF Holds
<1>2. \A d \in Conn : p \in Leaseholders(d) <=> d = c
  BY HoldersMove DEF Holds
<1>3. \A d \in Conn \ {c} : Leaseholders(d)' = Leaseholders(d)
  BY <1>1, <1>2
<1>. QED
  BY <1>1, <1>2, <1>3, HeldGiven DEF Held

-----------------------------------------------------------------------------
(* The steps of the manager as steps of the pool.                          *)

StutterOrNext == Pool!Next \/ UNCHANGED <<Pooled(sessions), Held, Revoking>>

(* A call moves on without leasing, returning or invalidating. *)
LEMMA MoveStutters ==
  ASSUME TypeOK, NEW p \in Client, NEW x, client' = [client EXCEPT ![p] = x],
         client[p].at \notin {"acquiring", "holding", "clearing"},
         x.at \notin {"acquiring", "holding", "clearing"}, sessions' = sessions
  PROVE  StutterOrNext
<1>1. Held' = Held
  BY HoldersKept, HeldSame
<1>2. Revoking' = Revoking \ {p} /\ p \notin Revoking
  BY RevokingMove DEF Revoking
<1>3. Pooled(sessions') = Pooled(sessions)
  OBVIOUS
<1>. QED
  BY <1>1, <1>2, <1>3 DEF StutterOrNext

LEMMA LeaseStep ==
  ASSUME IInv, NEW p \in Client, client[p].at \in {"idle", "waiting"}, NEW c \in Conn,
         NEW x, client' = [client EXCEPT ![p] = x],
         x.at \in {"acquiring", "holding"}, x.conn = c,
         c \in Pooled(sessions'), Pooled(sessions') \subseteq Pooled(sessions) \cup {c},
         \A d \in Pooled(sessions) \ Pooled(sessions') : Leaseholders(d)' = {},
         Pool!Within(Pooled(sessions'), Held')
  PROVE  Pool!Lease(p, c)
<1>. USE DEF IInv
<1>1. \A d \in Conn : p \notin Leaseholders(d)
  BY DEF Leaseholders
<1>2. Leaseholders(c)' = Leaseholders(c) \cup {p}
  BY HoldersMove DEF Holds
<1>3. \A d \in Conn \ {c} : Leaseholders(d)' = Leaseholders(d)
  <2>. TAKE d \in Conn \ {c}
  <2>1. Leaseholders(d)' = Leaseholders(d) \ {p}
    BY HoldersMove DEF Holds
  <2>. QED
    BY <1>1, <2>1
<1>4. Held' = [Held EXCEPT ![c] = @ \cup {p}]
  BY <1>2, <1>3, HeldTaken
<1>5. Revoking' = Revoking
  <2>1. Revoking' = Revoking \ {p} /\ p \notin Revoking
    BY RevokingMove DEF Revoking
  <2>. QED
    BY <2>1
<1>6. \A d \in Conn : p \notin Held[d]
  BY <1>1 DEF Held
<1>7. Pooled(sessions) \subseteq Conn
  BY PooledType DEF TypeOK
<1>8. \A d \in (Pooled(sessions) \cup {c}) \ Pooled(sessions') : Held'[d] = {}
  BY <1>7 DEF Held
<1>. QED
  BY <1>4, <1>5, <1>6, <1>8, Zenon DEF Pool!Lease, Pool!Trim, Held, Revoking

LEMMA ReturnStep ==
  ASSUME IInv, NEW p \in Client, client[p].at = "holding", NEW x,
         client' = [client EXCEPT ![p] = x], x.at \notin {"acquiring", "holding", "clearing"},
         Pooled(sessions') \subseteq Pooled(sessions),
         \A d \in Pooled(sessions) \ Pooled(sessions') : Leaseholders(d)' = {},
         Pool!Within(Pooled(sessions'), Held')
  PROVE  Pool!Next
<1>1. PICK c \in Conn : c = client[p].conn
  BY DEF IInv, Calls
<1>2. p \in Held[c] /\ Held' = [Held EXCEPT ![c] = @ \ {p}]
  BY <1>1, HolderLeaves DEF IInv
<1>3. Revoking' = Revoking
  <2>1. Revoking' = Revoking \ {p} /\ p \notin Revoking
    BY RevokingMove DEF Revoking, IInv
  <2>. QED
    BY <2>1
<1>4. \A d \in Pooled(sessions) \ Pooled(sessions') : Held'[d] = {}
  BY PooledType DEF Held, IInv, TypeOK
<1>5. Pool!Return(p, c)
  BY <1>2, <1>3, <1>4, Zenon DEF Pool!Return, Pool!Trim, Held, Revoking
<1>. QED
  BY <1>5 DEF Pool!Next

(* What clear() does to the pool, an entry at a time. *)
LEMMA CloseNextPool ==
  ASSUME IInv, NEW p \in Client, NEW todo \in SUBSET Conn, NEW joined,
         CloseNext(p, todo, joined),
         \A c \in todo : keyOf[c] \in Key /\ sessions[keyOf[c]] \in {None, c}
  PROVE  /\ Pooled(sessions') \in {Pooled(sessions)} \cup {Pooled(sessions) \ {c} : c \in Conn}
         /\ Revoking' = Revoking \cup {p}
         /\ \E x : client' = [client EXCEPT ![p] = x] /\ x.at = "clearing"
<1>1. CASE /\ client' = [client EXCEPT ![p] = Clearing(None, {}, joined)]
           /\ UNCHANGED <<phase, sessions, timer, older>>
  <2>1. Clearing(None, {}, joined).at = "clearing"
    BY DEF Clearing
  <2>. QED
    BY <1>1, <2>1, RevokingMove DEF IInv
<1>2. ASSUME NEW c \in todo, ClosedNext(c, p, todo, joined)
      PROVE  /\ Pooled(sessions') \in {Pooled(sessions)} \cup {Pooled(sessions) \ {d} : d \in Conn}
             /\ Revoking' = Revoking \cup {p}
             /\ \E x : client' = [client EXCEPT ![p] = x] /\ x.at = "clearing"
  <2>. DEFINE x == Clearing(IF phase[c] = "open" THEN c ELSE None, todo \ {c}, joined)
  <2>1. client' = [client EXCEPT ![p] = x] /\ x.at = "clearing"
    BY <1>2 DEF ClosedNext, Clearing
  <2>. HIDE DEF x
  <2>2. \A k \in Key : sessions'[k] = IF k = keyOf[c] THEN None ELSE sessions[k]
    BY <1>2 DEF ClosedNext, IInv, TypeOK
  <2>3. CASE sessions[keyOf[c]] = None
    <3>1. \A k \in Key : sessions'[k] = sessions[k]
      BY <2>2, <2>3
    <3>2. Pooled(sessions') = Pooled(sessions)
      BY <3>1 DEF Pooled, Live
    <3>. QED
      BY <2>1, <3>2, RevokingMove DEF IInv
  <2>4. CASE sessions[keyOf[c]] = c
    <3>1. \A k \in Key : sessions[k] # None /\ k # keyOf[c] => sessions[k] # c
      BY DEF IInv, Linked, LinkedAs
    <3>2. Pooled(sessions') = Pooled(sessions) \ {c}
      BY <2>2, <2>4, <3>1 DEF Pooled, Live
    <3>. QED
      BY <2>1, <3>2, RevokingMove DEF IInv
  <2>. QED
    BY <2>3, <2>4
<1>. QED
  BY <1>1, <1>2, CloseNextEffect DEF IInv

LEMMA ClearRevokes ==
  ASSUME IInv, NEW p \in Client, NEW K \in SUBSET Key, Clear(p, K)
  PROVE  Pool!Next
<1>. DEFINE todo == {sessions[k] : k \in K \cap Live(sessions)}
            joined == {pending[k] : k \in K \cap Live(pending)}
<1>1. /\ todo \in SUBSET Conn /\ CloseNext(p, todo, joined)
      /\ \A c \in todo : keyOf[c] \in Key /\ sessions[keyOf[c]] = c
  BY DEF Clear, IInv, TypeOK, Linked, LinkedAs, Live
<1>2. Abandons(p, K) => client[p].conn \in Conn /\ client[p].conn \notin Pooled(sessions')
  <2>. SUFFICES ASSUME Abandons(p, K)
                PROVE  client[p].conn \in Conn /\ client[p].conn \notin Pooled(sessions')
    OBVIOUS
  <2>1. PICK c \in Conn : c = client[p].conn /\ keyOf[c] \in Key /\ K = {keyOf[c]}
    BY DEF Abandons, IInv, Calls
  <2>2. CASE sessions[keyOf[c]] = None
    <3>1. c \notin Pooled(sessions)
      BY <2>2 DEF Pooled, Live, IInv, Linked, LinkedAs
    <3>2. \A k \in Key : sessions'[k] \in {sessions[k], None}
      BY <1>1, CloseNextShrinks
    <3>. QED
      BY <2>1, <3>1, <3>2, LiveShrinks
  <2>3. CASE sessions[keyOf[c]] # None
    <3>1. todo = {sessions[keyOf[c]]}
      BY <2>1, <2>3 DEF Live
    <3>2. sessions' = [sessions EXCEPT ![keyOf[sessions[keyOf[c]]]] = None]
      BY <1>1, <3>1 DEF CloseNext
    <3>3. sessions'[keyOf[c]] = None /\ \A k \in Key : sessions'[k] \in {sessions[k], None}
      BY <2>1, <2>3, <3>2 DEF IInv, TypeOK, Linked, LinkedAs
    <3>. QED
      BY <2>1, <3>3 DEF Pooled, Live, IInv, Linked, LinkedAs
  <2>. QED
    BY <2>2, <2>3
<1>3. client[p].at = "idle" \/ Abandons(p, K)
  BY DEF Clear
<1>. HIDE DEF todo, joined
<1>4. /\ Pooled(sessions') \in {Pooled(sessions)} \cup {Pooled(sessions) \ {c} : c \in Conn}
      /\ Revoking' = Revoking \cup {p}
  BY <1>1, CloseNextPool
<1>5. PICK x : client' = [client EXCEPT ![p] = x] /\ x.at = "clearing"
  BY <1>1, CloseNextPool
<1>6. \/ Held' = Held
      \/ \E d \in Conn \ Pooled(sessions') : p \in Held[d] /\ Held' = [Held EXCEPT ![d] = @ \ {p}]
  <2>1. CASE client[p].at = "idle"
    BY <1>5, <2>1, HoldersKept, HeldSame DEF IInv
  <2>2. CASE Abandons(p, K)
    BY <1>2, <1>5, <2>2, HolderLeaves DEF Abandons, IInv
  <2>. QED
    BY <1>3, <2>1, <2>2
<1>7. Pool!Revoke(p)
  BY <1>4, <1>6, Zenon DEF Pool!Revoke, Held, Revoking
<1>. QED
  BY <1>7 DEF Pool!Next

LEMMA ContinueClearRevokes ==
  ASSUME IInv, NEW p \in Client, ContinueClear(p)
  PROVE  Pool!Next
<1>1. /\ client[p].todo \in SUBSET Conn /\ CloseNext(p, client[p].todo, client[p].joined)
      /\ \A c \in client[p].todo : keyOf[c] \in Key /\ sessions[keyOf[c]] \in {None, c}
      /\ client[p].at = "clearing"
  BY DEF ContinueClear, IInv, TypeOK, Call, Snapshots, Snapshot
<1>2. /\ Pooled(sessions') \in {Pooled(sessions)} \cup {Pooled(sessions) \ {c} : c \in Conn}
      /\ Revoking' = Revoking \cup {p}
      /\ \E x : client' = [client EXCEPT ![p] = x] /\ x.at = "clearing"
  BY <1>1, CloseNextPool
<1>3. Held' = Held
  BY <1>1, <1>2, HoldersKept, HeldSame DEF IInv
<1>4. Pool!Revoke(p)
  BY <1>2, <1>3, Zenon DEF Pool!Revoke, Held, Revoking
<1>. QED
  BY <1>4 DEF Pool!Next

LEMMA ResumeLeases ==
  ASSUME IInv, Counted, NEW p \in Client, Resume(p), Pool!Within(Pooled(sessions'), Held')
  PROVE  Pool!Next
<1>1. PICK c \in Conn, v \in Conn \cup {None} : Resumed(c, v, p)
  BY ResumeMoves
<1>2. /\ keyOf[c] \in Key /\ phase'[c] = "open"
      /\ \A k \in Key : sessions'[k] = IF k = keyOf[c] THEN c ELSE Without(sessions, v)[k]
      /\ v # None => v \in Pooled(sessions) /\ leases[v] = 0
      /\ \A d \in Conn \ {c} : Leaseholders(d)' = Leaseholders(d)
      /\ v # c
  BY <1>1, Zenon DEF Resumed
<1>3. c \in Pooled(sessions') /\ Pooled(sessions') \subseteq Pooled(sessions) \cup {c}
  BY <1>2, SessionAssumption DEF Pooled, Live, Without
<1>4. ASSUME NEW d \in Pooled(sessions) \ Pooled(sessions') PROVE Leaseholders(d)' = {}
  <2>1. PICK k \in Key : d = sessions[k] /\ d # None
    BY DEF Pooled, Live
  <2>2. phase[c] \in {"ready", "open"}
    BY <1>1, Zenon DEF Resumed
  <2>3. d # c /\ k # keyOf[c]
    BY <1>2, <1>3, <1>4, <2>1, <2>2, SessionAssumption DEF IInv, TypeOK, Linked, LinkedAs
  <2>4. d = v
    BY <1>2, <1>4, <2>1, <2>3 DEF Without, Pooled, Live
  <2>5. leases[d] = 0 /\ d \in Conn /\ phase[d] = "open"
    <3>1. leases[d] = 0
      BY <1>2, <2>1, <2>4
    <3>2. d \in Conn /\ phase[d] = "open"
      BY <2>1 DEF IInv, TypeOK, Linked, LinkedAs
    <3>. QED
      BY <3>1, <3>2
  <2>6. Leaseholders(d) = {}
    BY <2>5, NoLeaseNoHolder DEF Counted
  <2>. QED
    BY <1>2, <2>3, <2>5, <2>6
<1>5. PICK x : client' = [client EXCEPT ![p] = x] /\ x.at \in {"acquiring", "holding"} /\ x.conn = c
  <2>1. c = client[p].conn
    BY <1>1, Zenon DEF Resumed
  <2>2. PICK y, u : client' = [client EXCEPT ![p] = At(y, c, u)] /\ y \in {"acquiring", "holding"}
    BY <2>1 DEF Resume, EvictTurn
  <2>3. At(y, c, u).at = y /\ At(y, c, u).conn = c
    BY DEF At
  <2>. QED
    BY <2>2, <2>3
<1>6. client[p].at = "waiting"
  BY DEF Resume
<1>7. Pool!Lease(p, c)
  BY <1>3, <1>4, <1>5, <1>6, LeaseStep
<1>. QED
  BY <1>7 DEF Pool!Next

LEMMA GiveBackReturns ==
  ASSUME IInv, Counted, NEW p \in Client, client[p].at = "holding", GiveBack(p),
         Pool!Within(Pooled(sessions'), Held')
  PROVE  Pool!Next
<1>1. PICK c \in Conn : c = client[p].conn
  BY DEF IInv, Calls
<1>2. CASE client' = [client EXCEPT ![p] = Idle] /\ sessions' = sessions
  BY <1>2, IdleType, ReturnStep
<1>3. CASE EvictTurn(p, "releasing", c, sessions, phase, Touch(c, Pooled(sessions)))
  <2>1. PICK v \in Conn \cup {None} :
          Evicted(v, p, "releasing", c, sessions, phase, Touch(c, Pooled(sessions)))
    BY <1>3, EvictTurnEffect DEF IInv, TypeOK
  <2>. DEFINE x == At("releasing", c, v)
  <2>2. client' = [client EXCEPT ![p] = x] /\ x.at = "releasing"
    BY <2>1, AtType DEF Evicted
  <2>. HIDE DEF x
  <2>3. Pooled(sessions') \subseteq Pooled(sessions)
    BY <2>1, PooledWithout DEF Evicted
  <2>4. ASSUME NEW d \in Pooled(sessions) \ Pooled(sessions') PROVE Leaseholders(d)' = {}
    <3>1. d = v /\ d # None /\ d \in Conn /\ phase[d] = "open"
      BY <2>1, <2>4, SessionAssumption
         DEF Evicted, Without, Pooled, Live, IInv, TypeOK, Linked, LinkedAs
    <3>2. leases'[d] = 0
      BY <2>1, <3>1 DEF Evicted
    <3>3. leases'[d] = Cardinality(Leaseholders(d)')
      BY <3>1, GiveBackCounts
    <3>. QED
      BY <3>2, <3>3, NoLeaseNoHolderNext
  <2>. QED
    BY <2>2, <2>3, <2>4, ReturnStep
<1>. QED
  BY <1>1, <1>2, <1>3 DEF GiveBack

LEMMA EvictAgainStutters ==
  ASSUME IInv, BoundRespectsLeases, NEW p \in Client, EvictAgain(p)
  PROVE  StutterOrNext
<1>1. PICK place \in {"acquiring", "releasing"}, c \in Conn, v \in Conn \cup {None} :
        place = client[p].at /\ Evicted(v, p, place, c, sessions, phase, older)
  BY EvictAgainMoves
<1>. DEFINE x == At(IF place = "acquiring" /\ v = None THEN "holding" ELSE place, c, v)
<1>2. client' = [client EXCEPT ![p] = x] /\ x.at # "clearing" /\ x.on = v
  BY <1>1 DEF Evicted, At
<1>. HIDE DEF x
<1>3. client'[p].on = v
  BY <1>2 DEF IInv, TypeOK
<1>4. v = None
  BY <1>3, NothingToEvictAgain
<1>5. \A k \in Key : sessions'[k] = sessions[k]
  BY <1>1, <1>4 DEF Evicted, Without
<1>6. Pooled(sessions') = Pooled(sessions)
  BY <1>5 DEF Pooled, Live
<1>7. Held' = Held
  BY EvictAgainMoves, HeldSame
<1>8. Revoking' = Revoking \ {p} /\ p \notin Revoking
  BY <1>1, <1>2, RevokingMove DEF Revoking, IInv
<1>. QED
  BY <1>6, <1>7, <1>8 DEF StutterOrNext

LEMMA IdleDrops ==
  ASSUME IInv, Counted, NEW c \in Conn, IdleFires(c), Pool!Within(Pooled(sessions'), Held')
  PROVE  StutterOrNext
<1>1. client' = client
  BY DEF IdleFires
<1>2. Held' = Held /\ Revoking' = Revoking
  BY <1>1 DEF Held, Revoking, Leaseholders
<1>3. CASE Expired(c)
  <2>1. sessions' = [sessions EXCEPT ![keyOf[c]] = None] /\ leases[c] = 0 /\ sessions[keyOf[c]] = c
    BY <1>3 DEF IdleFires, Expired, EntryKept
  <2>2. Pooled(sessions') \subseteq Pooled(sessions)
    BY <2>1 DEF Pooled, Live, IInv, TypeOK
  <2>3. ASSUME NEW d \in Pooled(sessions) \ Pooled(sessions') PROVE Held'[d] = {}
    <3>1. d = c /\ phase[c] = "open"
      BY <2>1, <2>3 DEF Pooled, Live, IInv, TypeOK, Linked, LinkedAs
    <3>2. Leaseholders(c) = {}
      BY <2>1, <3>1, NoLeaseNoHolder DEF Counted
    <3>. QED
      BY <1>2, <3>1, <3>2 DEF Held
  <2>4. Pool!Drop
    BY <1>2, <2>2, <2>3, Zenon DEF Pool!Drop, Pool!Trim, Held, Revoking
  <2>. QED
    BY <2>4 DEF Pool!Next, StutterOrNext
<1>4. CASE ~Expired(c)
  BY <1>2, <1>4 DEF IdleFires, StutterOrNext
<1>. QED
  BY <1>3, <1>4

LEMMA PoolStep ==
  ASSUME IInv, Counted, BoundRespectsLeases, [Next]_vars,
         Pool!Within(Pooled(sessions'), Held')
  PROVE  StutterOrNext
<1>. USE DEF life, clocks
<1>0. TypeOK /\ Pooled(sessions) \subseteq Conn
  BY PooledType DEF IInv, TypeOK
<1>1. ASSUME UNCHANGED <<sessions, client>> PROVE StutterOrNext
  BY <1>1 DEF StutterOrNext, Held, Revoking, Leaseholders
<1>2. ASSUME NEW p \in Client, NEW k \in Key, AcquireSession(p, k) PROVE StutterOrNext
  <2>. DEFINE c == sessions[k]
              x == At("holding", c, None)
  <2>1. c \in Conn /\ c \in Pooled(sessions) /\ sessions' = sessions
    BY <1>0, <1>2 DEF AcquireSession, TypeOK, Pooled, Live
  <2>2. client' = [client EXCEPT ![p] = x] /\ x.at = "holding" /\ x.conn = c
    BY <1>2 DEF AcquireSession, At
  <2>. HIDE DEF c, x
  <2>3. client[p].at = "idle"
    BY <1>2 DEF AcquireSession
  <2>4. Pool!Lease(p, c)
    BY <2>1, <2>2, <2>3, LeaseStep
  <2>. QED
    BY <2>1, <2>4 DEF Pool!Next, StutterOrNext
<1>3. ASSUME NEW p \in Client, NEW k \in Key,
             JoinPending(p, k) \/ \E c \in Conn : StartConnect(p, k, c)
      PROVE  StutterOrNext
  <2>1. PICK c : client' = [client EXCEPT ![p] = At("waiting", c, None)]
    BY <1>3 DEF JoinPending, StartConnect
  <2>2. client[p].at = "idle" /\ sessions' = sessions
    BY <1>3 DEF JoinPending, StartConnect
  <2>3. At("waiting", c, None).at = "waiting"
    BY DEF At
  <2>. QED
    BY <1>0, <2>1, <2>2, <2>3, MoveStutters
<1>4. ASSUME NEW p \in Client, ResumeRejected(p) \/ FinishRelease(p) PROVE StutterOrNext
  <2>1. /\ client' = [client EXCEPT ![p] = Idle] /\ sessions' = sessions
        /\ client[p].at \in {"waiting", "releasing"}
    BY <1>4 DEF ResumeRejected, FinishRelease
  <2>. QED
    BY <1>0, <2>1, IdleType, MoveStutters
<1>5. ASSUME NEW p \in Client, FinishClear(p) PROVE StutterOrNext
  <2>1. /\ client' = [client EXCEPT ![p] = Idle] /\ sessions' = sessions
        /\ client[p].at = "clearing"
    BY <1>5 DEF FinishClear
  <2>2. Held' = Held
    BY <1>0, <2>1, IdleType, HoldersKept, HeldSame
  <2>3. Revoking' = Revoking \ {p}
    BY <1>0, <2>1, IdleType, RevokingMove
  <2>4. Pool!Revoked(p)
    BY <2>1, <2>2, <2>3, Zenon DEF Pool!Revoked, Held, Revoking
  <2>. QED
    BY <2>4 DEF Pool!Next, StutterOrNext
<1>6. ASSUME NEW p \in Client, ReleaseLease(p) \/ ReleaseConnection(p) PROVE StutterOrNext
  <2>1. ASSUME client[p].at = "holding", GiveBack(p) PROVE StutterOrNext
    BY <2>1, GiveBackReturns DEF StutterOrNext
  <2>2. ASSUME client[p].at = "holding", client' = [client EXCEPT ![p] = Idle],
               sessions' = sessions
        PROVE  StutterOrNext
    BY <2>2, IdleType, ReturnStep DEF StutterOrNext
  <2>. QED
    BY <1>6, <2>1, <2>2 DEF ReleaseLease, ReleaseConnection
<1>7. ASSUME NEW p \in Client, \/ \E k \in Key : ClearKey(p, k)
                               \/ ClearAll(p) \/ ContinueClear(p)
      PROVE  StutterOrNext
  <2>1. \A K \in SUBSET Key : Clear(p, K) => Pool!Next
    BY ClearRevokes
  <2>2. \A k \in Key : {k} \in SUBSET Key
    OBVIOUS
  <2>. QED
    BY <1>7, <2>1, <2>2, ContinueClearRevokes DEF ClearKey, ClearAll, StutterOrNext
<1>8. ASSUME NEW c \in Conn, Settle(c) \/ DisconnectDone(c) PROVE StutterOrNext
  BY <1>1, <1>8 DEF Settle, ConnectResolves, ConnectRejects, DisconnectDone
<1>9. ASSUME NEW p \in Client, Resume(p) PROVE StutterOrNext
  BY <1>9, ResumeLeases DEF StutterOrNext
<1>10. CASE UNCHANGED vars
  BY <1>1, <1>10 DEF vars
<1>. QED
  BY <1>2, <1>3, <1>4, <1>5, <1>6, <1>7, <1>8, <1>9, <1>10, EvictAgainStutters, IdleDrops
     DEF Next, Step, Acquire, Continue

(* Every behaviour of the manager is one of LeasePool, for any keys, callers, connections
   and maximum: what it promises its callers holds whatever it awaits in between. *)
THEOREM ManagerImplementsPool == Spec => ImplementsPool
<1>1. Init => Pool!Init
  BY IdleType DEF Init, Pool!Init, Pooled, Live, Leaseholders
<1>2. Init => Counted /\ BoundRespectsLeases
  BY DEF Init, Counted, BoundRespectsLeases, Pooled, Live
<1>3. IInv /\ Counted /\ BoundRespectsLeases /\ IInv' /\ Counted' /\ BoundRespectsLeases'
        /\ [Next]_vars => [Pool!Next]_Pool!poolVars
  <2>. SUFFICES ASSUME IInv, Counted, BoundRespectsLeases, [Next]_vars,
                       PoolWithin'
                PROVE  [Pool!Next]_Pool!poolVars
    BY WithinHolds, PTL
  <2>1. StutterOrNext
    BY PoolStep DEF PoolWithin
  <2>. QED
    BY <2>1 DEF StutterOrNext, Pool!poolVars, Held, Revoking
<1>. QED
  BY <1>1, <1>2, <1>3, CountedStep, BoundStep, Invariance, PTL
     DEF Spec, ImplementsPool, Pool!Spec

-----------------------------------------------------------------------------
(* What a step leaves of the calls and connections it is not about: the facts that the modules
   which drive the pool reason with. *)

(* Only the calls of X move.  Nothing is connected anew; what is on its way goes on or ends; and
   an open session that is closed is held by nobody, unless a clear() of X closes what it has yet
   to close. *)
Rests(X) ==
  /\ UNCHANGED <<closed, keyOf, stale>>
  /\ \A q \in Client \ X : client'[q] = client[q]
  /\ \A k \in Key : pending'[k] \in {pending[k], None}
  /\ \A c \in Conn :
       /\ phase'[c] \in Unsettled => phase[c] \in Unsettled
       /\ phase'[c] = "rejecting" => phase[c] = "rejecting" \/ c \in stale
       /\ phase'[c] = "rejected" => phase[c] \in {"connecting", "rejecting", "rejected"}
       /\ phase'[c] = "ready" => phase[c] \in {"connecting", "ready"}
       /\ phase'[c] = "open" => phase[c] \in {"ready", "open"}
       /\ phase[c] = "open" /\ phase'[c] # "open" =>
            Leaseholders(c)' = {} \/ \E p \in X : client[p].todo # {}

(* How a call goes on. *)
GoesOn(x, y) ==
  /\ y.todo \subseteq x.todo
  /\ \/ /\ x.at = "waiting" /\ y.at \in {"acquiring", "holding"} /\ y.conn = x.conn
        /\ phase'[x.conn] = "open"
     \/ /\ x.at = "waiting" /\ y.at = "idle"
        /\ phase'[x.conn] = "rejected" /\ \A k \in Key : pending'[k] # x.conn
     \/ x.at = "acquiring" /\ y.at \in {"acquiring", "holding"} /\ y.conn = x.conn
     \/ x.at = "releasing" /\ y.at \in {"releasing", "idle"}
     \/ /\ x.at = "clearing" /\ y.at = "clearing" /\ y.joined = x.joined
        /\ \A c \in x.todo \ y.todo : phase'[c] \in {"closing", "closed"}
     \/ /\ x.at = "clearing" /\ y.at = "idle" /\ x.todo = {}
        /\ \A c \in x.joined : phase[c] \notin Unsettled

LEMMA NoneIsNoConn == None \notin Conn /\ None \notin Key
BY SessionAssumption

(* A call that moves alone. *)
LEMMA OthersRest ==
  ASSUME TypeOK, NEW p \in Client, NEW x, client' = [client EXCEPT ![p] = x]
  PROVE  client'[p] = x /\ \A q \in Client \ {p} : client'[q] = client[q]
BY DEF TypeOK

(* A step that leaves the phases alone. *)
LEMMA PhasesRest ==
  ASSUME IInv, NEW X, UNCHANGED <<closed, keyOf, stale, phase>>,
         \A q \in Client \ X : client'[q] = client[q],
         \A k \in Key : pending'[k] \in {pending[k], None}
  PROVE  Rests(X)
BY DEF Rests, Unsettled

LEMMA EvictedRests ==
  ASSUME IInv, Counted, NEW p \in Client, NEW place, NEW c \in Conn, NEW v \in Conn \cup {None},
         EvictAgain(p) \/ Resume(p) \/ (client[p].at = "holding" /\ GiveBack(p)),
         NEW sess, NEW ph, NEW rec,
         Evicted(v, p, place, c, sess, ph, rec),
         \A d \in Conn : ph[d] = phase[d] \/ (phase[d] = "ready" /\ ph[d] = "open"),
         UNCHANGED <<closed, keyOf, stale>>,
         \A k \in Key : pending'[k] \in {pending[k], None}
  PROVE  Rests({p})
<1>1. \A d \in Conn : phase'[d] = ph[d] \/ (ph[d] = "open" /\ phase'[d] = "closing")
  BY Zenon DEF Evicted, Disconnect
<1>2. \A q \in Client \ {p} : client'[q] = client[q]
  BY OthersRest, Zenon DEF Evicted, IInv
<1>3. \A d \in Conn : phase[d] = "open" /\ phase'[d] # "open" => Leaseholders(d)' = {}
  BY EvictedUnheld, Zenon
<1>4. \A d \in Conn : phase[d] \in Phase
  BY DEF IInv, TypeOK
<1>. QED
  BY <1>1, <1>2, <1>3, <1>4 DEF Rests, Unsettled, Phase

LEMMA ForgetPending ==
  ASSUME NEW c \in Conn, pending' = Forget(c)
  PROVE  \A k \in Key : pending'[k] \in {pending[k], None} /\ pending'[k] # c
BY SessionAssumption DEF Forget

LEMMA ResumeGoes ==
  ASSUME IInv, Counted, NEW p \in Client, Resume(p)
  PROVE  Rests({p}) /\ GoesOn(client[p], client'[p])
<1>. DEFINE c == client[p].conn
            installed == [sessions EXCEPT ![keyOf[c]] = c]
            opened == [phase EXCEPT ![c] = IF @ = "ready" THEN "open" ELSE @]
            rec == Touch(c, Pooled(installed))
<1>1. /\ c \in Conn /\ keyOf[c] \in Key /\ installed \in [Key -> Conn \cup {None}]
      /\ LinkedAs(installed, Forget(c), opened) /\ opened[c] = "open"
      /\ phase[c] \in {"ready", "open"} /\ \A d \in Conn \ {c} : opened[d] = phase[d]
  BY ResumeInstalls
<1>2. /\ client[p].at = "waiting" /\ pending' = Forget(c) /\ UNCHANGED <<closed, keyOf, stale>>
      /\ EvictTurn(p, "acquiring", c, installed, opened, rec)
  BY DEF Resume
<1>. HIDE DEF c, installed, opened, rec
<1>3. PICK v \in Conn \cup {None} : Evicted(v, p, "acquiring", c, installed, opened, rec)
  BY <1>1, <1>2, EvictTurnEffect
<1>4. \A d \in Conn : opened[d] = phase[d] \/ (phase[d] = "ready" /\ opened[d] = "open")
  BY <1>1
<1>5. \A k \in Key : pending'[k] \in {pending[k], None}
  BY <1>1, <1>2, ForgetPending
<1>6. Rests({p})
  BY <1>1, <1>2, <1>3, <1>4, <1>5, EvictedRests
<1>7. v # c
  BY <1>1, <1>3, NoneIsNoConn DEF Evicted, Protected
<1>8. phase'[c] = "open"
  BY <1>1, <1>3, <1>7 DEF Evicted
<1>9. /\ client'[p].at \in {"acquiring", "holding"} /\ client'[p].conn = c /\ client'[p].todo = {}
  <2>1. client'[p] = At(IF v = None THEN "holding" ELSE "acquiring", c, v)
    BY <1>3, OthersRest DEF Evicted, IInv
  <2>. QED
    BY <2>1 DEF At
<1>. QED
  BY <1>2, <1>6, <1>8, <1>9 DEF GoesOn, c

LEMMA EvictAgainGoes ==
  ASSUME IInv, Counted, NEW p \in Client, EvictAgain(p)
  PROVE  Rests({p}) /\ GoesOn(client[p], client'[p])
<1>1. PICK place \in {"acquiring", "releasing"}, c \in Conn, v \in Conn \cup {None} :
        /\ place = client[p].at /\ c = client[p].conn
        /\ Evicted(v, p, place, c, sessions, phase, older)
  BY EvictAgainMoves
<1>2. UNCHANGED <<closed, keyOf, stale, pending>>
  BY DEF EvictAgain
<1>3. Rests({p})
  BY <1>1, <1>2, EvictedRests
<1>. DEFINE x == At(IF place = "acquiring" /\ v = None THEN "holding" ELSE place, c, v)
<1>a. client' = [client EXCEPT ![p] = x] /\ TypeOK
  BY <1>1 DEF Evicted, IInv
<1>. HIDE DEF x
<1>b. client'[p] = x
  BY <1>a, OthersRest
<1>4. client'[p] = At(IF place = "acquiring" /\ v = None THEN "holding" ELSE place, c, v)
  BY <1>b DEF x
<1>5. /\ client'[p].conn = c /\ client'[p].todo = {}
      /\ client'[p].at = IF place = "acquiring" /\ v = None THEN "holding" ELSE place
  BY <1>4 DEF At
<1>. QED
  BY <1>1, <1>3, <1>5 DEF GoesOn

(* A turn of the loop of clear() closes one session of its snapshot, if one is left. *)
ClosesOne(p, todo, joined) ==
  /\ \A q \in Client \ {p} : client'[q] = client[q]
  /\ \A c \in Conn : \/ phase'[c] = phase[c]
                     \/ c \in todo /\ phase[c] = "open" /\ phase'[c] = "closing"
  /\ client'[p].at = "clearing" /\ client'[p].joined = joined
  /\ client'[p].todo \subseteq todo
  /\ todo = {} => client'[p].todo = {} /\ UNCHANGED phase
  /\ todo # {} => \E c \in todo :
       client'[p].todo = todo \ {c} /\ phase'[c] = Disconnect(phase[c])

LEMMA CloseNextPhases ==
  ASSUME IInv, NEW p \in Client, NEW todo \in SUBSET Conn, NEW joined, CloseNext(p, todo, joined)
  PROVE  ClosesOne(p, todo, joined)
<1>1. CASE /\ todo = {} /\ client' = [client EXCEPT ![p] = Clearing(None, {}, joined)]
           /\ UNCHANGED phase
  <2>1. /\ client'[p] = Clearing(None, {}, joined)
        /\ \A q \in Client \ {p} : client'[q] = client[q]
    BY <1>1, OthersRest DEF IInv
  <2>2. client'[p].at = "clearing" /\ client'[p].joined = joined /\ client'[p].todo = {}
    BY <2>1 DEF Clearing
  <2>. QED
    BY <1>1, <2>1, <2>2 DEF ClosesOne
<1>2. ASSUME NEW c \in todo, ClosedNext(c, p, todo, joined)
      PROVE  ClosesOne(p, todo, joined)
  <2>. DEFINE x == Clearing(IF phase[c] = "open" THEN c ELSE None, todo \ {c}, joined)
  <2>a. client' = [client EXCEPT ![p] = x] /\ TypeOK
    BY <1>2 DEF ClosedNext, IInv
  <2>b. x.at = "clearing" /\ x.joined = joined /\ x.todo = todo \ {c}
    BY DEF Clearing
  <2>. HIDE DEF x
  <2>1. client'[p] = x /\ \A q \in Client \ {p} : client'[q] = client[q]
    BY <2>a, OthersRest
  <2>2. /\ client'[p].at = "clearing" /\ client'[p].joined = joined
        /\ client'[p].todo = todo \ {c}
    BY <2>1, <2>b
  <2>3. \A d \in Conn : phase'[d] = IF d = c THEN Disconnect(phase[d]) ELSE phase[d]
    BY <1>2 DEF ClosedNext
  <2>4. c \in Conn /\ phase'[c] = Disconnect(phase[c])
    BY <2>3
  <2>5. \A d \in Conn :
          phase'[d] = phase[d] \/ (d \in todo /\ phase[d] = "open" /\ phase'[d] = "closing")
    BY <2>3 DEF Disconnect
  <2>. QED
    BY <2>1, <2>2, <2>4, <2>5 DEF ClosesOne
<1>3. CloseNext(p, todo, joined) =>
        \/ /\ todo = {} /\ client' = [client EXCEPT ![p] = Clearing(None, {}, joined)]
           /\ UNCHANGED phase
        \/ todo # {} /\ \E c \in todo : ClosedNext(c, p, todo, joined)
  <2>1. CASE todo = {}
    BY <2>1 DEF CloseNext
  <2>2. CASE todo # {}
    <3>1. PICK c \in todo :
            /\ timer' = [timer EXCEPT ![c] = FALSE]
            /\ sessions' = [sessions EXCEPT ![keyOf[c]] = None]
            /\ phase' = [phase EXCEPT ![c] = Disconnect(@)]
            /\ older' = Among(older, Pooled(sessions'))
            /\ client' = [client EXCEPT ![p] =
                 Clearing(IF phase[c] = "open" THEN c ELSE None, todo \ {c}, joined)]
      BY <2>2 DEF CloseNext
    <3>2. \A d \in Conn : phase'[d] = IF d = c THEN Disconnect(phase[d]) ELSE phase[d]
      BY <3>1 DEF IInv, TypeOK, Disconnect
    <3>3. /\ \A d \in Conn : timer[d] \in BOOLEAN
          /\ timer'[c] = FALSE /\ \A d \in Conn \ {c} : timer'[d] = timer[d]
      BY <3>1 DEF IInv, TypeOK
    <3>4. \A d \in Conn : timer'[d] = (timer[d] /\ d # c)
      BY <3>3, Zenon
    <3>5. ClosedNext(c, p, todo, joined)
      BY <3>1, <3>2, <3>4, Zenon DEF ClosedNext
    <3>. QED
      BY <2>2, <3>5
  <2>. QED
    BY <2>1, <2>2
<1>. QED
  BY <1>1, <1>2, <1>3

LEMMA ContinueClearGoes ==
  ASSUME IInv, NEW p \in Client, ContinueClear(p)
  PROVE  Rests({p}) /\ GoesOn(client[p], client'[p])
<1>1. /\ client[p].at = "clearing" /\ client[p].todo # {} /\ client[p].todo \in SUBSET Conn
      /\ client[p].joined \in SUBSET Conn
      /\ CloseNext(p, client[p].todo, client[p].joined)
      /\ UNCHANGED <<closed, keyOf, stale, pending>>
      /\ \A c \in client[p].todo : phase[c] \in Used
  BY DEF ContinueClear, IInv, TypeOK, Call, Snapshots, Snapshot
<1>a. PICK todo \in SUBSET Conn, joined \in SUBSET Conn :
        todo = client[p].todo /\ joined = client[p].joined
  BY <1>1
<1>b. todo # {} /\ CloseNext(p, todo, joined)
  BY <1>1, <1>a
<1>c. ClosesOne(p, todo, joined)
  BY <1>b, CloseNextPhases
<1>2. /\ \A q \in Client \ {p} : client'[q] = client[q]
      /\ \A c \in Conn : phase'[c] = phase[c] \/ (phase[c] = "open" /\ phase'[c] = "closing")
      /\ client'[p].at = "clearing" /\ client'[p].joined = client[p].joined
  BY <1>a, <1>c DEF ClosesOne
<1>3. PICK c \in client[p].todo :
        client'[p].todo = client[p].todo \ {c} /\ phase'[c] = Disconnect(phase[c])
  BY <1>a, <1>b, <1>c DEF ClosesOne
<1>4. phase'[c] \in {"closing", "closed"}
  BY <1>1, <1>3 DEF Disconnect, Used
<1>5. Rests({p})
  BY <1>1, <1>2 DEF Rests, Unsettled
<1>. QED
  BY <1>1, <1>2, <1>3, <1>4, <1>5 DEF GoesOn

(* A call goes on, and whatever it does the others rest. *)
LEMMA ContinueGoes ==
  ASSUME IInv, Counted, NEW p \in Client, Continue(p)
  PROVE  Rests({p}) /\ GoesOn(client[p], client'[p])
<1>1. CASE ResumeRejected(p)
  <2>1. /\ client[p].at = "waiting" /\ phase[client[p].conn] = "rejected"
        /\ pending' = Forget(client[p].conn) /\ UNCHANGED <<closed, keyOf, stale, phase>>
        /\ client' = [client EXCEPT ![p] = Idle]
    BY <1>1 DEF ResumeRejected, life
  <2>2. client[p].conn \in Conn
    BY <2>1 DEF IInv, Calls
  <2>3. \A k \in Key : pending'[k] \in {pending[k], None} /\ pending'[k] # client[p].conn
    BY <2>1, <2>2, ForgetPending
  <2>4. client'[p] = Idle /\ \A q \in Client \ {p} : client'[q] = client[q]
    BY <2>1, OthersRest DEF IInv
  <2>. QED
    BY <2>1, <2>3, <2>4, PhasesRest, IdleType DEF GoesOn
<1>2. CASE FinishRelease(p)
  <2>1. /\ client[p].at = "releasing" /\ client' = [client EXCEPT ![p] = Idle]
        /\ UNCHANGED <<closed, keyOf, stale, phase, pending>>
    BY <1>2 DEF FinishRelease, life
  <2>2. client'[p] = Idle /\ \A q \in Client \ {p} : client'[q] = client[q]
    BY <2>1, OthersRest DEF IInv
  <2>. QED
    BY <2>1, <2>2, PhasesRest, IdleType DEF GoesOn
<1>3. CASE FinishClear(p)
  <2>1. /\ client[p].at = "clearing" /\ client[p].todo = {}
        /\ \A c \in client[p].joined : phase[c] \notin Unsettled
        /\ client' = [client EXCEPT ![p] = Idle]
        /\ UNCHANGED <<closed, keyOf, stale, phase, pending>>
    BY <1>3 DEF FinishClear, life
  <2>2. client'[p] = Idle /\ \A q \in Client \ {p} : client'[q] = client[q]
    BY <2>1, OthersRest DEF IInv
  <2>. QED
    BY <2>1, <2>2, PhasesRest, IdleType DEF GoesOn
<1>. QED
  BY <1>1, <1>2, <1>3, ResumeGoes, EvictAgainGoes, ContinueClearGoes DEF Continue

(* So do all when a connect or a disconnect ends, or a timer fires. *)
LEMMA NetworkRests ==
  ASSUME IInv, Counted, NEW c \in Conn, Settle(c) \/ DisconnectDone(c) \/ IdleFires(c)
  PROVE  Rests({}) /\ client' = client
<1>0. phase \in [Conn -> Phase]
  BY DEF IInv, TypeOK
<1>1. CASE Settle(c)
  <2>1. /\ phase[c] = "connecting" /\ client' = client
        /\ UNCHANGED <<closed, keyOf, stale, pending>>
        /\ \E place \in {"rejecting", "ready", "rejected"} :
             phase' = [phase EXCEPT ![c] = place] /\ (place = "rejecting" => c \in stale)
    BY <1>1 DEF Settle, ConnectResolves, ConnectRejects, Invalidated
  <2>. QED
    BY <1>0, <2>1 DEF Rests, Unsettled, Leaseholders
<1>2. CASE DisconnectDone(c)
  <2>1. /\ phase[c] \in {"closing", "rejecting"} /\ client' = client
        /\ UNCHANGED <<closed, keyOf, stale, pending>>
        /\ phase' = [phase EXCEPT ![c] = Ended(@)]
    BY <1>2 DEF DisconnectDone
  <2>2. \A d \in Conn : phase'[d] = IF d = c THEN Ended(phase[c]) ELSE phase[d]
    BY <1>0, <2>1
  <2>. QED
    BY <2>1, <2>2 DEF Rests, Unsettled, Leaseholders, Ended
<1>3. CASE IdleFires(c)
  <2>1. /\ client' = client /\ UNCHANGED <<closed, keyOf, stale, pending>>
        /\ \/ Expired(c) /\ phase' = [phase EXCEPT ![c] = Disconnect(@)]
           \/ UNCHANGED phase
    BY <1>3 DEF IdleFires
  <2>2. ASSUME Expired(c), phase' = [phase EXCEPT ![c] = Disconnect(@)] PROVE Rests({})
    <3>1. \A d \in Conn : phase'[d] = IF d = c THEN Disconnect(phase[c]) ELSE phase[d]
      BY <1>0, <2>2
    <3>2. phase[c] = "open" => Leaseholders(c)' = {}
      <4>1. phase[c] = "open" => Leaseholders(c) = {}
        BY <2>2, NoLeaseNoHolder DEF Expired, Counted
      <4>2. Leaseholders(c)' = Leaseholders(c)
        BY <2>1 DEF Leaseholders
      <4>. QED
        BY <4>1, <4>2
    <3>. QED
      BY <2>1, <3>1, <3>2 DEF Rests, Unsettled, Disconnect
  <2>. QED
    BY <2>1, <2>2, PhasesRest
<1>. QED
  BY <1>1, <1>2, <1>3

LEMMA ReleaseRests ==
  ASSUME IInv, Counted, NEW p \in Client, ReleaseConnection(p)
  PROVE  /\ Rests({p}) /\ client[p].at = "holding"
         /\ client'[p].at \in {"idle", "releasing"} /\ client'[p].todo = {}
<1>0. client[p].at = "holding" /\ client[p].conn \in Conn
  BY DEF ReleaseConnection, IInv, Calls
<1>1. ASSUME UNCHANGED <<closed, keyOf, stale, phase, pending>>,
             client' = [client EXCEPT ![p] = Idle]
      PROVE  /\ Rests({p}) /\ client'[p].at = "idle" /\ client'[p].todo = {}
  <2>1. client'[p] = Idle /\ \A q \in Client \ {p} : client'[q] = client[q]
    BY <1>1, OthersRest DEF IInv
  <2>. QED
    BY <1>1, <2>1, PhasesRest, IdleType
<1>2. ASSUME GiveBack(p), NEW c \in Conn, c = client[p].conn,
             EvictTurn(p, "releasing", c, sessions, phase, Touch(c, Pooled(sessions)))
      PROVE  /\ Rests({p}) /\ client'[p].at = "releasing" /\ client'[p].todo = {}
  <2>. DEFINE rec == Touch(c, Pooled(sessions))
  <2>. HIDE DEF rec
  <2>1. PICK v \in Conn \cup {None} : Evicted(v, p, "releasing", c, sessions, phase, rec)
    BY <1>2, EvictTurnEffect DEF IInv, TypeOK, rec
  <2>2. UNCHANGED <<closed, keyOf, stale, pending>>
    BY <1>2 DEF GiveBack
  <2>3. Rests({p})
    BY <1>0, <1>2, <2>1, <2>2, EvictedRests
  <2>4. client'[p] = At("releasing", c, v)
    BY <2>1, OthersRest DEF Evicted, IInv
  <2>. QED
    BY <2>3, <2>4 DEF At
<1>3. CASE GiveBack(p)
  BY <1>0, <1>1, <1>2, <1>3 DEF GiveBack
<1>. QED
  BY <1>0, <1>1, <1>3 DEF ReleaseConnection, life

(* acquire() gives a session of its key, joins its connect or begins one; the others rest. *)
Leased(p, k) ==
  /\ client'[p].at = "holding" /\ client'[p].conn \in Conn
  /\ phase[client'[p].conn] = "open" /\ keyOf[client'[p].conn] = k
  /\ UNCHANGED <<phase, keyOf, stale, pending>>
Joined(p, k) ==
  /\ client'[p].at = "waiting" /\ client'[p].conn = pending[k]
  /\ pending[k] \in Conn /\ keyOf[pending[k]] = k
  /\ UNCHANGED <<phase, keyOf, stale, pending>>
Begun(p, k, c) ==
  /\ client'[p].at = "waiting" /\ client'[p].conn = c
  /\ phase[c] \in {"closed", "rejected"} /\ phase'[c] = "connecting" /\ keyOf'[c] = k
  /\ \A q \in Client : c # client[q].conn /\ c \notin client[q].todo \cup client[q].joined
  /\ \A d \in Conn \ {c} : phase'[d] = phase[d] /\ keyOf'[d] = keyOf[d]
  /\ stale' = stale \ {c}
  /\ pending'[k] = c /\ \A l \in Key \ {k} : pending'[l] = pending[l]

LEMMA AcquireBegins ==
  ASSUME IInv, NEW p \in Client, NEW k \in Key, Acquire(p, k)
  PROVE  /\ client[p].at = "idle" /\ ~closed /\ ~closed' /\ client'[p].todo = {}
         /\ \A q \in Client \ {p} : client'[q] = client[q]
         /\ Leased(p, k) \/ Joined(p, k) \/ \E c \in Conn : Begun(p, k, c)
<1>1. \A c, place : At(place, c, None).at = place /\ At(place, c, None).conn = c
                     /\ At(place, c, None).todo = {}
  BY DEF At
<1>2. CASE AcquireSession(p, k)
  <2>1. /\ client[p].at = "idle" /\ ~closed /\ sessions[k] # None
        /\ client' = [client EXCEPT ![p] = At("holding", sessions[k], None)]
        /\ UNCHANGED <<closed, phase, keyOf, stale, pending>>
    BY <1>2 DEF AcquireSession, life
  <2>2. /\ client'[p] = At("holding", sessions[k], None)
        /\ \A q \in Client \ {p} : client'[q] = client[q]
    BY <2>1, OthersRest DEF IInv
  <2>3. sessions[k] \in Conn /\ phase[sessions[k]] = "open" /\ keyOf[sessions[k]] = k
    BY <2>1 DEF IInv, TypeOK, Linked, LinkedAs
  <2>. QED
    BY <1>1, <2>1, <2>2, <2>3 DEF Leased
<1>3. CASE JoinPending(p, k)
  <2>1. /\ client[p].at = "idle" /\ ~closed /\ pending[k] # None
        /\ client' = [client EXCEPT ![p] = At("waiting", pending[k], None)]
        /\ UNCHANGED <<closed, phase, keyOf, stale, pending>>
    BY <1>3 DEF JoinPending, InFlight, life
  <2>2. /\ client'[p] = At("waiting", pending[k], None)
        /\ \A q \in Client \ {p} : client'[q] = client[q]
    BY <2>1, OthersRest DEF IInv
  <2>3. pending[k] \in Conn /\ keyOf[pending[k]] = k
    BY <2>1 DEF IInv, TypeOK, Linked, LinkedAs
  <2>. QED
    BY <1>1, <2>1, <2>2, <2>3 DEF Joined
<1>4. ASSUME NEW c \in Conn, StartConnect(p, k, c)
      PROVE  /\ client[p].at = "idle" /\ ~closed /\ ~closed' /\ client'[p].todo = {}
             /\ \A q \in Client \ {p} : client'[q] = client[q]
             /\ Begun(p, k, c)
  <2>1. /\ client[p].at = "idle" /\ ~closed /\ ~closed' /\ stale' = stale \ {c}
        /\ client' = [client EXCEPT ![p] = At("waiting", c, None)]
        /\ phase' = [phase EXCEPT ![c] = "connecting"] /\ keyOf' = [keyOf EXCEPT ![c] = k]
        /\ pending' = [pending EXCEPT ![k] = c]
    BY <1>4 DEF StartConnect
  <2>2. /\ client'[p] = At("waiting", c, None)
        /\ \A q \in Client \ {p} : client'[q] = client[q]
    BY <2>1, OthersRest DEF IInv
  <2>3. /\ phase[c] \in {"closed", "rejected"}
        /\ \A q \in Client : c # client[q].conn /\ c \notin client[q].todo \cup client[q].joined
    BY <1>4 DEF StartConnect, Free
  <2>4. /\ phase'[c] = "connecting" /\ keyOf'[c] = k
        /\ \A d \in Conn \ {c} : phase'[d] = phase[d] /\ keyOf'[d] = keyOf[d]
        /\ pending'[k] = c /\ \A l \in Key \ {k} : pending'[l] = pending[l]
    BY <2>1 DEF IInv, TypeOK
  <2>. QED
    BY <1>1, <2>1, <2>2, <2>3, <2>4 DEF Begun
<1>. QED
  BY <1>2, <1>3, <1>4 DEF Acquire

(* clear() marks what connects for its keys, waits for what is pending of them, and closes what is
   open of them, the first session at once. *)
Cleared(p, K) ==
  /\ UNCHANGED <<keyOf, pending>>
  /\ stale' = stale \cup {c \in Conn : phase[c] = "connecting" /\ keyOf[c] \in K}
  /\ \A q \in Client \ {p} : client'[q] = client[q]
  /\ \A c \in Conn : \/ phase'[c] = phase[c]
                     \/ phase[c] = "open" /\ phase'[c] = "closing" /\ keyOf[c] \in K
  /\ client'[p].at = "clearing"
  /\ client'[p].joined = {pending[k] : k \in K \cap Live(pending)}
  /\ \A c \in client'[p].todo : c \in Conn /\ phase[c] = "open"
  /\ \A c \in Conn : phase'[c] = "open" /\ keyOf[c] \in K => c \in client'[p].todo

LEMMA ClearCloses ==
  ASSUME IInv, NEW p \in Client, NEW K \in SUBSET Key, Clear(p, K)
  PROVE  Cleared(p, K) /\ (\A k \in K : K = {k} => client'[p].todo = {})
<1>. DEFINE todo == {sessions[k] : k \in K \cap Live(sessions)}
            joined == {pending[k] : k \in K \cap Live(pending)}
<1>1. /\ todo \in SUBSET Conn /\ CloseNext(p, todo, joined)
      /\ \A c \in todo : phase[c] = "open" /\ keyOf[c] \in K
      /\ \A c \in Conn : phase[c] = "open" /\ keyOf[c] \in K => c \in todo
  BY SessionAssumption DEF Clear, IInv, TypeOK, Linked, LinkedAs, Live
<1>2. /\ UNCHANGED <<keyOf, pending>>
      /\ stale' = stale \cup {c \in Conn : phase[c] = "connecting" /\ keyOf[c] \in K}
  BY DEF Clear
<1>3. \A k \in K : K = {k} => todo \subseteq {sessions[k]}
  OBVIOUS
<1>4. joined = {pending[k] : k \in K \cap Live(pending)}
  OBVIOUS
<1>. HIDE DEF todo, joined
<1>5. ClosesOne(p, todo, joined)
  BY <1>1, CloseNextPhases
<1>6. CASE todo = {}
  BY <1>1, <1>2, <1>4, <1>5, <1>6 DEF Cleared, ClosesOne
<1>7. ASSUME NEW c \in todo, client'[p].todo = todo \ {c}, phase'[c] = Disconnect(phase[c])
      PROVE  Cleared(p, K) /\ (\A k \in K : K = {k} => client'[p].todo = {})
  <2>1. phase'[c] = "closing" /\ c \in Conn
    BY <1>1, <1>7 DEF Disconnect
  <2>2. \A k \in K : K = {k} => client'[p].todo = {}
    BY <1>3, <1>7
  <2>3. \A d \in Conn : phase'[d] = "open" /\ keyOf[d] \in K => d \in client'[p].todo
    BY <1>1, <1>5, <1>7, <2>1 DEF ClosesOne
  <2>. QED
    BY <1>1, <1>2, <1>4, <1>5, <1>7, <2>1, <2>2, <2>3 DEF Cleared, ClosesOne
<1>. QED
  BY <1>5, <1>6, <1>7 DEF ClosesOne

=============================================================================
