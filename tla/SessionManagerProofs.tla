------------------------ MODULE SessionManagerProofs ------------------------
(***************************************************************************)
(* What TLAPS proves of SessionManager, for any keys, callers, connections *)
(* and maximum.  IInv is the inductive invariant: the two maps and the     *)
(* phases of the connections agree (Linked), and every call is about       *)
(* connections in the phases it can find them in (Calls).                  *)
(***************************************************************************)
EXTENDS SessionManager, FiniteSetTheorems, TLAPS

LinkedAs(sess, pend, ph) ==
  /\ \A k \in Key : sess[k] # None => keyOf[sess[k]] = k /\ ph[sess[k]] = "open"
  /\ \A k \in Key : pend[k] # None =>
       /\ keyOf[pend[k]] = k /\ sess[k] = None
       /\ ph[pend[k]] \in Unsettled \cup {"rejected", "ready"}
  /\ \A c \in Conn : ph[c] = "open" => keyOf[c] \in Key /\ sess[keyOf[c]] = c
  /\ \A c \in Conn : ph[c] \in {"connecting", "rejecting", "ready"} =>
       keyOf[c] \in Key /\ pend[keyOf[c]] = c

Linked == LinkedAs(sessions, pending, phase)

Used == {"open", "closing", "closed"}

Calls ==
  /\ \A p \in Client : client[p].at = "waiting" =>
       /\ client[p].conn \in Conn /\ keyOf[client[p].conn] \in Key
       /\ phase[client[p].conn] \in Unsettled \cup {"rejected", "ready", "open"}
  /\ \A p \in Client : client[p].at \in {"acquiring", "holding", "releasing"} =>
       /\ client[p].conn \in Conn /\ keyOf[client[p].conn] \in Key
       /\ phase[client[p].conn] \in Used
  /\ \A p, q \in Client : Draining(p) /\ Draining(q) => client[p].conn = client[q].conn

(* A clear() that still has entries to close is the shutdown's, and nothing takes the
   place of one: no connect is pending for its key. *)
Snapshot(c) ==
  /\ keyOf[c] \in Key /\ phase[c] \in Used
  /\ pending[keyOf[c]] = None /\ sessions[keyOf[c]] \in {None, c}

Snapshots == \A p \in Client : \A c \in client[p].todo : closed /\ Snapshot(c)

IInv == TypeOK /\ Linked /\ Calls /\ Snapshots

(* What an invalidation marks while it connects ends without ever being open. *)
Fresh == \A c \in stale : phase[c] \in {"connecting", "rejecting", "rejected"}

Quiet == \A p \in Client : ~Draining(p)

-----------------------------------------------------------------------------
(* The operators the entries are built from.                               *)

LEMMA WithoutType ==
  ASSUME NEW sess \in [Key -> Conn \cup {None}], NEW v
  PROVE  Without(sess, v) \in [Key -> Conn \cup {None}]
BY DEF Without

LEMMA PooledType ==
  ASSUME NEW sess \in [Key -> Conn \cup {None}]
  PROVE  Pooled(sess) \in SUBSET Conn
BY DEF Pooled, Live

LEMMA TouchType ==
  ASSUME NEW c \in Conn, NEW S \in SUBSET Conn, older \in SUBSET (Conn \X Conn)
  PROVE  Touch(c, S) \in SUBSET (Conn \X Conn)
BY DEF Touch

LEMMA AtType ==
  ASSUME NEW place \in {"idle", "waiting", "acquiring", "holding", "releasing"},
         NEW c \in Conn \cup {None}, NEW v \in Conn \cup {None}
  PROVE  /\ At(place, c, v) \in Call
         /\ At(place, c, v).at = place /\ At(place, c, v).conn = c
         /\ At(place, c, v).on = v
         /\ At(place, c, v).todo = {} /\ At(place, c, v).joined = {}
BY DEF At, Call

LEMMA IdleType ==
  Idle \in Call /\ Idle.at = "idle" /\ Idle.conn = None /\ Idle.todo = {}
BY AtType DEF Idle

LEMMA GiveType ==
  ASSUME NEW c \in Conn, leases \in [Conn -> Nat]
  PROVE  Give(c) \in [Conn -> Nat]
<1>1. leases[c] \in Nat
  OBVIOUS
<1>2. (IF leases[c] = 0 THEN 0 ELSE leases[c] - 1) \in Nat
  BY <1>1
<1>. QED
  BY <1>2 DEF Give

(* A turn of evictIfNeeded picks a pooled session without a lease, when the pool is over
   its maximum, or nothing, when it is not or every session is protected. *)
LEMMA VictimUnleased ==
  ASSUME NEW sess \in [Key -> Conn \cup {None}], NEW keep, NEW lease, NEW rec,
         NEW v \in Victims(sess, keep, lease, rec)
  PROVE  /\ v \in Conn \cup {None}
         /\ v # None => /\ Over(sess) /\ v \in Pooled(sess)
                        /\ keyOf[v] # keep /\ lease[v] = 0
         /\ v = None => ~Over(sess) \/ Evictable(sess, keep, lease) = {}
<1>1. Pooled(sess) \subseteq Conn
  BY PooledType
<1>2. CASE Over(sess) /\ Evictable(sess, keep, lease) # {}
  <2>1. v \in Evictable(sess, keep, lease)
    BY <1>2 DEF Victims, Coldest
  <2>. QED
    BY <1>1, <1>2, <2>1, SessionAssumption DEF Evictable
<1>3. CASE ~(Over(sess) /\ Evictable(sess, keep, lease) # {})
  <2>1. v = None
    BY <1>3 DEF Victims
  <2>. QED
    BY <1>3, <2>1
<1>. QED
  BY <1>2, <1>3

-----------------------------------------------------------------------------
(* Type correctness.                                                       *)

LEMMA EvictTurnType ==
  ASSUME TypeOK, leases' \in [Conn -> Nat], keyOf' = keyOf,
         NEW p \in Client, NEW place \in {"acquiring", "releasing"},
         NEW c \in Conn, NEW sess \in [Key -> Conn \cup {None}],
         NEW ph \in [Conn -> Phase], NEW rec \in SUBSET (Conn \X Conn),
         EvictTurn(p, place, c, sess, ph, rec)
  PROVE  /\ sessions' \in [Key -> Conn \cup {None}]
         /\ phase' \in [Conn -> Phase]
         /\ timer' \in [Conn -> BOOLEAN]
         /\ older' \in SUBSET (Conn \X Conn)
         /\ client' \in [Client -> Call]
<1>. DEFINE keep == IF place = "acquiring" THEN keyOf[c] ELSE None
<1>1. PICK v \in Victims(sess, keep, leases', rec) :
        /\ sessions' = Without(sess, v)
        /\ phase' = [d \in Conn |-> IF d = v THEN Disconnect(ph[d]) ELSE ph[d]]
        /\ timer' = [d \in Conn |-> timer[d] /\ d # v]
        /\ older' = Among(rec, Pooled(Without(sess, v)))
        /\ client' = [client EXCEPT ![p] =
             At(IF place = "acquiring" /\ v = None THEN "holding" ELSE place, c, v)]
  BY DEF EvictTurn
<1>2. v \in Conn \cup {None}
  BY VictimUnleased
<1>3. phase' \in [Conn -> Phase]
  BY <1>1 DEF Disconnect, Phase, Unsettled
<1>4. client' \in [Client -> Call]
  BY <1>1, <1>2, AtType DEF TypeOK
<1>5. timer' \in [Conn -> BOOLEAN]
  BY <1>1
<1>6. older' \in SUBSET (Conn \X Conn)
  BY <1>1 DEF Among
<1>. QED
  BY <1>1, <1>3, <1>4, <1>5, <1>6, WithoutType

LEMMA CloseNextType ==
  ASSUME TypeOK, NEW p \in Client, NEW todo \in SUBSET Conn, NEW joined \in SUBSET Conn,
         CloseNext(p, todo, joined)
  PROVE  /\ sessions' \in [Key -> Conn \cup {None}]
         /\ phase' \in [Conn -> Phase]
         /\ timer' \in [Conn -> BOOLEAN]
         /\ older' \in SUBSET (Conn \X Conn)
         /\ client' \in [Client -> Call]
<1>1. CASE /\ client' = [client EXCEPT ![p] = Clearing(None, {}, joined)]
           /\ UNCHANGED <<phase, sessions, timer, older>>
  BY <1>1 DEF TypeOK, Clearing, Call
<1>2. ASSUME NEW c \in todo,
             timer' = [timer EXCEPT ![c] = FALSE],
             sessions' = [sessions EXCEPT ![keyOf[c]] = None],
             phase' = [phase EXCEPT ![c] = Disconnect(@)],
             older' = Among(older, Pooled(sessions')),
             client' = [client EXCEPT ![p] =
               Clearing(IF phase[c] = "open" THEN c ELSE None, todo \ {c}, joined)]
      PROVE  /\ sessions' \in [Key -> Conn \cup {None}]
             /\ phase' \in [Conn -> Phase]
             /\ timer' \in [Conn -> BOOLEAN]
             /\ older' \in SUBSET (Conn \X Conn)
             /\ client' \in [Client -> Call]
  <2>1. client' \in [Client -> Call]
    BY <1>2 DEF TypeOK, Clearing, Call
  <2>2. phase' \in [Conn -> Phase]
    BY <1>2 DEF TypeOK, Disconnect, Phase
  <2>3. older' \in SUBSET (Conn \X Conn)
    BY <1>2 DEF TypeOK, Among
  <2>. QED
    BY <1>2, <2>1, <2>2, <2>3 DEF TypeOK
<1>. QED
  BY <1>1, <1>2 DEF CloseNext

LEMMA ClearType ==
  ASSUME TypeOK, NEW p \in Client, NEW K \in SUBSET Key, Clear(p, K), closed' \in BOOLEAN
  PROVE  TypeOK'
<1>. DEFINE todo == {sessions[k] : k \in K \cap Live(sessions)}
            joined == {pending[k] : k \in K \cap Live(pending)}
<1>1. todo \in SUBSET Conn /\ joined \in SUBSET Conn
  BY DEF TypeOK, Live
<1>2. CloseNext(p, todo, joined)
  BY DEF Clear
<1>3. stale' \in SUBSET Conn
  BY DEF Clear, TypeOK
<1>. HIDE DEF todo, joined
<1>. QED
  BY <1>1, <1>2, <1>3, CloseNextType DEF Clear, TypeOK

LEMMA TypeInit == Init => TypeOK
<1>. SUFFICES ASSUME Init PROVE TypeOK
  OBVIOUS
<1>1. client \in [Client -> Call]
  BY IdleType DEF Init
<1>2. phase \in [Conn -> Phase]
  BY DEF Init, Phase
<1>. QED
  BY <1>1, <1>2 DEF Init, TypeOK

LEMMA TypeStep == TypeOK /\ Calls /\ [Next]_vars => TypeOK'
<1>. SUFFICES ASSUME TypeOK, Calls, Next PROVE TypeOK'
  BY DEF TypeOK, vars, life, clocks
<1>. USE DEF life, clocks
<1>1. ASSUME NEW p \in Client, NEW k \in Key, AcquireSession(p, k) PROVE TypeOK'
  <2>1. sessions[k] \in Conn
    BY <1>1 DEF AcquireSession, TypeOK
  <2>2. client' \in [Client -> Call] 
    BY <1>1, <2>1, AtType DEF AcquireSession, TypeOK
  <2>3. older' \in SUBSET (Conn \X Conn)
    BY <1>1, <2>1, TouchType, PooledType DEF AcquireSession, TypeOK
  <2>. QED
    BY <1>1, <2>1, <2>2, <2>3 DEF AcquireSession, Take, TypeOK
<1>2. ASSUME NEW p \in Client, NEW k \in Key, JoinPending(p, k) PROVE TypeOK'
  BY <1>2, AtType DEF JoinPending, InFlight, TypeOK
<1>3. ASSUME NEW p \in Client, NEW k \in Key, NEW c \in Conn, StartConnect(p, k, c)
      PROVE  TypeOK'
  BY <1>3, AtType DEF StartConnect, Phase, Unsettled, TypeOK
<1>4. ASSUME NEW p \in Client, NEW k \in Key, ClearKey(p, k) PROVE TypeOK'
  BY <1>4, ClearType DEF ClearKey, TypeOK
<1>5. ASSUME NEW p \in Client, ClearAll(p) PROVE TypeOK'
  BY <1>5, ClearType DEF ClearAll
<1>6. ASSUME NEW p \in Client, client[p].at \in {"acquiring", "holding"}, GiveBack(p)
      PROVE  TypeOK'
  <2>. DEFINE c == client[p].conn
              rec == Touch(c, Pooled(sessions))
  <2>1. c \in Conn
    BY <1>6 DEF Calls
  <2>2. leases' \in [Conn -> Nat]
    BY <1>6, <2>1, GiveType DEF GiveBack, TypeOK
  <2>3. rec \in SUBSET (Conn \X Conn)
    BY <2>1, TouchType, PooledType DEF TypeOK
  <2>4. CASE /\ older' = Among(rec, Pooled(sessions))
             /\ client' = [client EXCEPT ![p] = Idle]
             /\ UNCHANGED <<phase, sessions, timer>>
    <3>1. client' \in [Client -> Call]
      BY <2>4, IdleType DEF TypeOK
    <3>2. older' \in SUBSET (Conn \X Conn)
      BY <2>3, <2>4 DEF Among
    <3>. QED
      BY <1>6, <2>2, <2>4, <3>1, <3>2 DEF GiveBack, TypeOK
  <2>5. CASE EvictTurn(p, "releasing", c, sessions, phase, rec)
    BY <1>6, <2>1, <2>2, <2>3, <2>5, EvictTurnType DEF GiveBack, TypeOK
  <2>. QED
    BY <1>6, <2>4, <2>5 DEF GiveBack
<1>7. ASSUME NEW p \in Client, ReleaseConnection(p) PROVE TypeOK'
  <2>1. CASE client[p].conn \in Pooled(sessions)
    BY <1>6, <1>7, <2>1 DEF ReleaseConnection
  <2>2. CASE client[p].conn \notin Pooled(sessions)
    BY <1>7, <2>2, IdleType DEF ReleaseConnection, TypeOK
  <2>. QED
    BY <2>1, <2>2
<1>8. ASSUME NEW p \in Client, Resume(p) PROVE TypeOK'
  <2>. DEFINE c == client[p].conn
              installed == [sessions EXCEPT ![keyOf[c]] = c]
              opened == [phase EXCEPT ![c] = IF @ = "ready" THEN "open" ELSE @]
              rec == Touch(c, Pooled(installed))
  <2>1. c \in Conn /\ keyOf[c] \in Key
    BY <1>8 DEF Resume, Calls
  <2>2. leases' \in [Conn -> Nat] /\ pending' \in [Key -> Conn \cup {None}]
    BY <1>8, <2>1 DEF Resume, Take, Forget, TypeOK
  <2>3. installed \in [Key -> Conn \cup {None}] /\ opened \in [Conn -> Phase]
    BY <2>1 DEF TypeOK, Phase
  <2>4. rec \in SUBSET (Conn \X Conn)
    BY <2>1, <2>3, TouchType, PooledType DEF TypeOK
  <2>5. EvictTurn(p, "acquiring", c, installed, opened, rec) /\ keyOf' = keyOf
    BY <1>8 DEF Resume
  <2>. HIDE DEF installed, opened, rec, c
  <2>. QED
    BY <1>8, <2>1, <2>2, <2>3, <2>4, <2>5, EvictTurnType DEF Resume, TypeOK
<1>9. ASSUME NEW p \in Client, ResumeRejected(p) PROVE TypeOK'
  BY <1>9, IdleType DEF ResumeRejected, Forget, Calls, TypeOK
<1>10. ASSUME NEW p \in Client, EvictAgain(p) PROVE TypeOK'
  BY <1>10, EvictTurnType DEF EvictAgain, Calls, TypeOK
<1>11. ASSUME NEW p \in Client, FinishRelease(p) PROVE TypeOK'
  <2>1. client[p].conn \in Conn
    BY <1>11 DEF FinishRelease, Calls
  <2>2. timer' \in [Conn -> BOOLEAN] /\ orphans' \in SUBSET Conn
    BY <1>11, <2>1 DEF FinishRelease, TypeOK
  <2>. QED
    BY <1>11, <2>2, IdleType DEF FinishRelease, TypeOK
<1>12. ASSUME NEW p \in Client, ContinueClear(p) PROVE TypeOK'
  <2>1. client[p].todo \in SUBSET Conn /\ client[p].joined \in SUBSET Conn
    BY DEF TypeOK, Call
  <2>. QED
    BY <1>12, <2>1, CloseNextType DEF ContinueClear, TypeOK
<1>13. ASSUME NEW p \in Client, FinishClear(p) PROVE TypeOK'
  BY <1>13, IdleType DEF FinishClear, TypeOK
<1>14. ASSUME NEW c \in Conn, Settle(c) PROVE TypeOK'
  BY <1>14 DEF Settle, ConnectResolves, ConnectRejects, Phase, Unsettled, TypeOK
<1>15. ASSUME NEW c \in Conn, IdleFires(c) PROVE TypeOK'
  <2>1. timer' \in [Conn -> BOOLEAN] /\ orphans' \in SUBSET Conn
    BY <1>15 DEF IdleFires, TypeOK
  <2>2. sessions' \in [Key -> Conn \cup {None}] /\ phase' \in [Conn -> Phase]
    BY <1>15 DEF IdleFires, Disconnect, Phase, TypeOK
  <2>3. older' \in SUBSET (Conn \X Conn)
    BY <1>15 DEF IdleFires, Among, TypeOK
  <2>. QED
    BY <1>15, <2>1, <2>2, <2>3 DEF IdleFires, TypeOK
<1>16. ASSUME NEW c \in Conn, DisconnectDone(c) PROVE TypeOK'
  BY <1>16 DEF DisconnectDone, Ended, Phase, Unsettled, TypeOK
<1>. QED
  BY <1>1, <1>2, <1>3, <1>4, <1>5, <1>6, <1>7, <1>8, <1>9, <1>10, <1>11, <1>12, <1>13,
     <1>14, <1>15, <1>16
     DEF Next, Step, Acquire, Continue, ReleaseLease

-----------------------------------------------------------------------------
(* The structure of the pool.                                              *)

(* What a turn of evictIfNeeded that closes v, or nothing, does to each connection. *)
Protected(place, c) == IF place = "acquiring" THEN keyOf[c] ELSE None

Evicted(v, p, place, c, sess, ph, rec) ==
  /\ v # None => /\ Over(sess) /\ v \in Pooled(sess)
                 /\ keyOf[v] # Protected(place, c) /\ leases'[v] = 0
  /\ v = None => ~Over(sess) \/ Evictable(sess, Protected(place, c), leases') = {}
  /\ sessions' = Without(sess, v)
  /\ \A d \in Conn : phase'[d] = IF d = v THEN Disconnect(ph[d]) ELSE ph[d]
  /\ \A d \in Conn : timer'[d] = (timer[d] /\ d # v)
  /\ older' = Among(rec, Pooled(Without(sess, v)))
  /\ client' = [client EXCEPT ![p] =
       At(IF place = "acquiring" /\ v = None THEN "holding" ELSE place, c, v)]

LEMMA EvictTurnEffect ==
  ASSUME NEW p \in Client, NEW place, NEW c \in Conn, NEW sess \in [Key -> Conn \cup {None}],
         NEW ph, NEW rec, EvictTurn(p, place, c, sess, ph, rec)
  PROVE  \E v \in Conn \cup {None} : Evicted(v, p, place, c, sess, ph, rec)
<1>1. PICK v \in Victims(sess, Protected(place, c), leases', rec) :
        /\ sessions' = Without(sess, v)
        /\ phase' = [d \in Conn |-> IF d = v THEN Disconnect(ph[d]) ELSE ph[d]]
        /\ timer' = [d \in Conn |-> timer[d] /\ d # v]
        /\ older' = Among(rec, Pooled(Without(sess, v)))
        /\ client' = [client EXCEPT ![p] =
             At(IF place = "acquiring" /\ v = None THEN "holding" ELSE place, c, v)]
  BY DEF EvictTurn, Protected
<1>2. \A d \in Conn : timer'[d] = (timer[d] /\ d # v)
  BY <1>1, Zenon
<1>3. \A d \in Conn : phase'[d] = IF d = v THEN Disconnect(ph[d]) ELSE ph[d]
  BY <1>1, Zenon
<1>4. /\ v \in Conn \cup {None}
      /\ v # None => /\ Over(sess) /\ v \in Pooled(sess)
                     /\ keyOf[v] # Protected(place, c) /\ leases'[v] = 0
      /\ v = None => ~Over(sess) \/ Evictable(sess, Protected(place, c), leases') = {}
  BY VictimUnleased
<1>5. Evicted(v, p, place, c, sess, ph, rec)
  BY <1>1, <1>2, <1>3, <1>4, Zenon DEF Evicted
<1>. QED
  BY <1>4, <1>5

LEMMA LinkedWithout ==
  ASSUME NEW sess \in [Key -> Conn \cup {None}], NEW pend \in [Key -> Conn \cup {None}],
         NEW ph, LinkedAs(sess, pend, ph), NEW v \in Conn \cup {None},
         v # None => v \in Pooled(sess), keyOf' = keyOf, pending' = pend,
         sessions' = Without(sess, v),
         \A d \in Conn : phase'[d] = IF d = v THEN Disconnect(ph[d]) ELSE ph[d]
  PROVE  Linked'
<1>1. v # None => ph[v] = "open" /\ phase'[v] = "closing"
  BY DEF Pooled, Live, LinkedAs, Disconnect
<1>2. \A k \in Key : sessions'[k] = IF v # None /\ sess[k] = v THEN None ELSE sess[k]
  BY DEF Without
<1>3. \A k \in Key : sessions'[k] # None =>
        keyOf[sessions'[k]] = k /\ phase'[sessions'[k]] = "open"
  BY <1>2 DEF LinkedAs
<1>. QED
  BY <1>1, <1>2, <1>3, SessionAssumption DEF Linked, LinkedAs

LEMMA ResumeInstalls ==
  ASSUME IInv, NEW p \in Client, Resume(p)
  PROVE  LET c == client[p].conn
             installed == [sessions EXCEPT ![keyOf[c]] = c]
             opened == [phase EXCEPT ![c] = IF @ = "ready" THEN "open" ELSE @]
         IN  /\ c \in Conn /\ keyOf[c] \in Key
             /\ installed \in [Key -> Conn \cup {None}]
             /\ LinkedAs(installed, Forget(c), opened)
             /\ opened[c] = "open" /\ phase[c] \in {"ready", "open"}
             /\ \A d \in Conn \ {c} : opened[d] = phase[d]
<1>. DEFINE c == client[p].conn
            installed == [sessions EXCEPT ![keyOf[c]] = c]
            opened == [phase EXCEPT ![c] = IF @ = "ready" THEN "open" ELSE @]
<1>1. c \in Conn /\ keyOf[c] \in Key /\ phase[c] \in {"ready", "open"}
  BY DEF Resume, IInv, Calls
<1>2. installed \in [Key -> Conn \cup {None}]
  BY <1>1 DEF IInv, TypeOK
<1>3. opened[c] = "open" /\ \A d \in Conn \ {c} : opened[d] = phase[d]
  BY <1>1 DEF IInv, TypeOK
<1>4. installed[keyOf[c]] = c /\ \A k \in Key \ {keyOf[c]} : installed[k] = sessions[k]
  BY <1>1 DEF IInv, TypeOK
<1>5. \A k \in Key : Forget(c)[k] = IF pending[k] = c THEN None ELSE pending[k]
  BY DEF Forget
<1>6. \A d \in Conn : phase[d] = "open" /\ keyOf[d] = keyOf[c] => d = c
  BY <1>1, SessionAssumption DEF IInv, Linked, LinkedAs
<1>7. \A k \in Key : Forget(c)[k] # None => pending[k] # c /\ k # keyOf[c]
  BY <1>1, <1>5, SessionAssumption DEF IInv, Linked, LinkedAs
<1>. HIDE DEF installed, opened, c
<1>8. \A k \in Key : installed[k] # None => keyOf[installed[k]] = k /\ opened[installed[k]] = "open"
  BY <1>1, <1>3, <1>4 DEF IInv, TypeOK, Linked, LinkedAs
<1>9. \A k \in Key : Forget(c)[k] # None => keyOf[Forget(c)[k]] = k /\ installed[k] = None
  BY <1>1, <1>4, <1>5, <1>7 DEF IInv, Linked, LinkedAs
<1>13. \A k \in Key : Forget(c)[k] # None =>
         opened[Forget(c)[k]] \in Unsettled \cup {"rejected", "ready"}
  BY <1>3, <1>5, <1>7 DEF IInv, TypeOK, Linked, LinkedAs
<1>10. \A d \in Conn : opened[d] = "open" => keyOf[d] \in Key /\ installed[keyOf[d]] = d
  BY <1>1, <1>3, <1>4, <1>6 DEF IInv, Linked, LinkedAs
<1>11. \A d \in Conn : opened[d] \in {"connecting", "rejecting", "ready"} =>
         keyOf[d] \in Key /\ Forget(c)[keyOf[d]] = d
  BY <1>1, <1>3, <1>5 DEF IInv, Linked, LinkedAs
<1>12. LinkedAs(installed, Forget(c), opened)
  BY <1>8, <1>9, <1>13, <1>10, <1>11 DEF LinkedAs
<1>. QED
  BY <1>1, <1>2, <1>3, <1>12 DEF c, installed, opened

ClosedNext(c, p, todo, joined) ==
  /\ sessions' = [sessions EXCEPT ![keyOf[c]] = None]
  /\ \A d \in Conn : phase'[d] = IF d = c THEN Disconnect(phase[d]) ELSE phase[d]
  /\ \A d \in Conn : timer'[d] = (timer[d] /\ d # c)
  /\ older' = Among(older, Pooled(sessions'))
  /\ client' = [client EXCEPT ![p] =
       Clearing(IF phase[c] = "open" THEN c ELSE None, todo \ {c}, joined)]

LEMMA CloseNextEffect ==
  ASSUME TypeOK, NEW p \in Client, NEW todo \in SUBSET Conn, NEW joined,
         CloseNext(p, todo, joined)
  PROVE  \/ /\ client' = [client EXCEPT ![p] = Clearing(None, {}, joined)]
            /\ UNCHANGED <<phase, sessions, timer, older>>
         \/ \E c \in todo : ClosedNext(c, p, todo, joined)
<1>1. ASSUME NEW c \in todo,
             timer' = [timer EXCEPT ![c] = FALSE],
             phase' = [phase EXCEPT ![c] = Disconnect(@)]
      PROVE  /\ \A d \in Conn : phase'[d] = IF d = c THEN Disconnect(phase[d]) ELSE phase[d]
             /\ \A d \in Conn : timer'[d] = (timer[d] /\ d # c)
  <2>1. \A d \in Conn : phase'[d] = IF d = c THEN Disconnect(phase[d]) ELSE phase[d]
    BY <1>1 DEF TypeOK, Disconnect
  <2>2. /\ \A d \in Conn : timer[d] \in BOOLEAN
        /\ timer'[c] = FALSE /\ \A d \in Conn \ {c} : timer'[d] = timer[d]
    BY <1>1 DEF TypeOK
  <2>3. \A d \in Conn : timer'[d] = (timer[d] /\ d # c)
    BY <2>2, Zenon
  <2>. QED
    BY <2>1, <2>3, Zenon
<1>2. ASSUME NEW c \in todo,
             timer' = [timer EXCEPT ![c] = FALSE],
             sessions' = [sessions EXCEPT ![keyOf[c]] = None],
             phase' = [phase EXCEPT ![c] = Disconnect(@)],
             older' = Among(older, Pooled(sessions')),
             client' = [client EXCEPT ![p] =
               Clearing(IF phase[c] = "open" THEN c ELSE None, todo \ {c}, joined)]
      PROVE  ClosedNext(c, p, todo, joined)
  BY <1>1, <1>2, Zenon DEF ClosedNext
<1>. QED
  BY <1>2, Zenon DEF CloseNext

(* Closing the next entry of a snapshot keeps the structure. *)
LEMMA CloseNextKeeps ==
  ASSUME IInv, Quiet, NEW p \in Client, NEW todo \in SUBSET Conn, NEW joined \in SUBSET Conn,
         CloseNext(p, todo, joined), UNCHANGED <<keyOf, pending>>, closed => closed',
         \A c \in todo : Snapshot(c), \A c, d \in todo : c # d => closed'
  PROVE  (Linked /\ Calls /\ Snapshots)'
<1>. USE DEF IInv
<1>1. CASE /\ client' = [client EXCEPT ![p] = Clearing(None, {}, joined)]
           /\ UNCHANGED <<phase, sessions, timer, older>>
  <2>1. \A q \in Client : IF q = p THEN client'[q].at = "clearing" /\ client'[q].todo = {}
                                   ELSE client'[q] = client[q]
    BY <1>1 DEF TypeOK, Clearing
  <2>2. Linked'
    BY <1>1 DEF Linked, LinkedAs
  <2>3. Calls'
    BY <1>1, <2>1 DEF Calls, Draining, Quiet
  <2>4. Snapshots'
    BY <1>1, <2>1 DEF Snapshots, Snapshot
  <2>. QED
    BY <2>2, <2>3, <2>4
<1>2. ASSUME NEW c \in todo, ClosedNext(c, p, todo, joined)
      PROVE  (Linked /\ Calls /\ Snapshots)'
  <2>1. \A q \in Client :
          IF q = p THEN client'[q].at = "clearing" /\ client'[q].todo = todo \ {c}
                   ELSE client'[q] = client[q]
    BY <1>2 DEF ClosedNext, TypeOK, Clearing
  <2>2. /\ keyOf[c] \in Key /\ phase[c] \in Used /\ phase'[c] \in {"closing", "closed"}
        /\ sessions[keyOf[c]] \in {None, c}
    BY <1>2 DEF ClosedNext, Snapshot, Disconnect, Used
  <2>3. \A k \in Key : sessions'[k] = IF k = keyOf[c] THEN None ELSE sessions[k]
    BY <1>2, <2>2 DEF ClosedNext, TypeOK
  <2>4. Linked'
    BY <1>2, <2>2, <2>3, SessionAssumption DEF ClosedNext, Disconnect, Linked, LinkedAs, Used, Unsettled, TypeOK
  <2>5. \A q \in Client : client[q].at = "waiting" => client[q].conn # c
    BY <2>2 DEF Calls, Quiet, Draining, Used, Unsettled
  <2>6. \A d \in Conn : d # c => phase'[d] = phase[d]
    BY <1>2 DEF ClosedNext
  <2>7. Calls'
    <3>1. \A q \in Client : client'[q].at = "waiting" =>
            client[q] = client'[q] /\ phase'[client[q].conn] = phase[client[q].conn]
      BY <2>1, <2>5, <2>6 DEF Calls
    <3>2. \A q \in Client : client'[q].at \in {"acquiring", "holding", "releasing"} =>
            client[q] = client'[q]
      BY <2>1
    <3>. QED
      BY <2>2, <2>6, <3>1, <3>2 DEF Calls, Draining, Used
  <2>8. \A d \in Conn : Snapshot(d) => Snapshot(d)'
    BY <2>2, <2>3, <2>6 DEF Snapshot, Used
  <2>9. Snapshots'
    BY <2>1, <2>8 DEF Snapshots, TypeOK, Call
  <2>. QED
    BY <2>4, <2>7, <2>9
<1>. QED
  BY <1>1, <1>2, CloseNextEffect

(* A call that only moves on keeps the structure when what it is about fits. *)
LEMMA MoveKeeps ==
  ASSUME IInv, NEW p \in Client, NEW x \in Call, client' = [client EXCEPT ![p] = x],
         UNCHANGED <<closed, phase, keyOf, sessions, pending>>, x.todo = {},
         x.at = "waiting" => /\ x.conn \in Conn /\ keyOf[x.conn] \in Key
                             /\ phase[x.conn] \in Unsettled \cup {"rejected", "ready"},
         x.at \in {"acquiring", "holding", "releasing"} =>
           x.conn \in Conn /\ keyOf[x.conn] \in Key /\ phase[x.conn] \in Used
  PROVE  (Linked /\ Calls /\ Snapshots)'
<1>. USE DEF IInv
<1>1. \A q \in Client : client'[q] = IF q = p THEN x ELSE client[q]
  BY DEF TypeOK
<1>2. Linked'
  BY DEF Linked, LinkedAs
<1>3. Calls'
  <2>1. ~(x.at = "waiting" /\ phase[x.conn] = "open")
    BY DEF Unsettled
  <2>. QED
    BY <1>1, <2>1 DEF Calls, Draining
<1>4. Snapshots'
  BY <1>1 DEF Snapshots, Snapshot
<1>. QED
  BY <1>2, <1>3, <1>4

(* An eviction that only looks at the pool keeps the structure. *)
LEMMA EvictKeeps ==
  ASSUME IInv, Quiet, NEW p \in Client, NEW place \in {"acquiring", "releasing"},
         NEW c \in Conn, keyOf[c] \in Key, phase[c] \in Used, NEW rec,
         EvictTurn(p, place, c, sessions, phase, rec), UNCHANGED <<closed, keyOf, pending>>
  PROVE  (Linked /\ Calls /\ Snapshots)'
<1>. USE DEF IInv
<1>1. PICK v \in Conn \cup {None} : Evicted(v, p, place, c, sessions, phase, rec)
  BY EvictTurnEffect DEF TypeOK
<1>2. v # None => phase[v] = "open" /\ phase'[v] = "closing" /\ v \in Pooled(sessions)
  BY <1>1 DEF Evicted, Pooled, Live, Linked, LinkedAs, Disconnect
<1>3. \A d \in Conn : d # v => phase'[d] = phase[d]
  BY <1>1 DEF Evicted
<1>4. Linked'
  BY <1>1, <1>2, LinkedWithout DEF Evicted, Linked, TypeOK
<1>5. \A q \in Client : IF q = p THEN /\ client'[q].conn = c /\ client'[q].todo = {}
                                      /\ client'[q].at \in {"acquiring", "releasing", "holding"}
                                 ELSE client'[q] = client[q]
  BY <1>1 DEF Evicted, At, TypeOK
<1>6. \A d \in Conn : phase[d] \in Used => phase'[d] \in Used
  BY <1>2, <1>3, SessionAssumption DEF Used
<1>7. Calls'
  <2>1. \A q \in Client : client'[q].at = "waiting" =>
          client'[q] = client[q] /\ phase'[client[q].conn] = phase[client[q].conn]
    BY <1>2, <1>3, <1>5, SessionAssumption DEF Calls, Quiet, Draining
  <2>. QED
    BY <1>5, <1>6, <2>1 DEF Calls, Draining, Quiet
<1>8. \A d \in Conn : Snapshot(d) => Snapshot(d)'
  BY <1>1, <1>6 DEF Snapshot, Evicted, Without
<1>9. Snapshots'
  BY <1>5, <1>8 DEF Snapshots, TypeOK, Call
<1>. QED
  BY <1>4, <1>7, <1>9

LEMMA ResumeKeeps ==
  ASSUME IInv, NEW p \in Client, Resume(p), Draining(p) \/ Quiet
  PROVE  (Linked /\ Calls /\ Snapshots)'
<1>. USE DEF IInv
<1>. DEFINE c == client[p].conn
            installed == [sessions EXCEPT ![keyOf[c]] = c]
            opened == [phase EXCEPT ![c] = IF @ = "ready" THEN "open" ELSE @]
            rec == Touch(c, Pooled(installed))
<1>1. /\ c \in Conn /\ keyOf[c] \in Key
      /\ installed \in [Key -> Conn \cup {None}]
      /\ LinkedAs(installed, Forget(c), opened)
      /\ opened[c] = "open" /\ phase[c] \in {"ready", "open"}
      /\ \A d \in Conn \ {c} : opened[d] = phase[d]
  BY ResumeInstalls
<1>2. /\ EvictTurn(p, "acquiring", c, installed, opened, rec)
      /\ pending' = Forget(c) /\ keyOf' = keyOf /\ closed' = closed
      /\ client[p].at = "waiting"
  BY DEF Resume
<1>3. \A k \in Key : installed[k] = IF k = keyOf[c] THEN c ELSE sessions[k]
  BY <1>1 DEF TypeOK
<1>4. Forget(c) \in [Key -> Conn \cup {None}]
      /\ \A k \in Key : Forget(c)[k] \in {pending[k], None}
  BY DEF Forget, TypeOK
<1>. HIDE DEF c, installed, opened, rec
<1>5. PICK v \in Conn \cup {None} : Evicted(v, p, "acquiring", c, installed, opened, rec)
  BY <1>1, <1>2, EvictTurnEffect
<1>6. v # None => v # c /\ v \in Pooled(installed) /\ phase[v] = "open" /\ phase'[v] = "closing"
  BY <1>1, <1>5 DEF Evicted, Protected, Pooled, Live, LinkedAs, Disconnect
<1>7. phase'[c] = "open" /\ \A d \in Conn \ {c} : d # v => phase'[d] = phase[d]
  BY <1>1, <1>5, <1>6, SessionAssumption DEF Evicted
<1>8. Linked'
  BY <1>1, <1>2, <1>4, <1>5, <1>6, LinkedWithout DEF Evicted
<1>9. \A q \in Client : IF q = p THEN /\ client'[q].conn = c /\ client'[q].todo = {}
                                      /\ client'[q].at \in {"acquiring", "holding"}
                                 ELSE client'[q] = client[q]
  BY <1>5 DEF Evicted, At, TypeOK
<1>10. Calls'
  <2>1. \A q \in Client : Draining(q) => client[q].conn = c
    BY DEF Calls, Quiet, c
  <2>2. \A q \in Client : client'[q].at = "waiting" =>
          /\ client'[q] = client[q] /\ client[q].conn # v
          /\ client[q].conn # c => phase'[client[q].conn] = phase[client[q].conn]
    BY <1>6, <1>7, <1>9, <2>1, SessionAssumption DEF Calls, Draining
  <2>3. \A d \in Conn : phase[d] \in Used => phase'[d] \in Used
    BY <1>6, <1>7, SessionAssumption DEF Used
  <2>4. \A q \in Client : Draining(q)' => client'[q].conn = c
    BY <2>1, <2>2 DEF Draining
  <2>. QED
    BY <1>1, <1>2, <1>7, <1>9, <2>2, <2>3, <2>4 DEF Calls, Used
<1>11. \A d \in Conn : Snapshot(d) => Snapshot(d)'
  <2>. SUFFICES ASSUME NEW d \in Conn, Snapshot(d) PROVE Snapshot(d)'
    OBVIOUS
  <2>1. phase[d] \in Used /\ keyOf[d] \in Key /\ pending[keyOf[d]] = None
        /\ sessions[keyOf[d]] \in {None, d}
    BY DEF Snapshot
  <2>2. installed[keyOf[d]] \in {None, d}
    BY <1>1, <1>3, <2>1, SessionAssumption DEF Linked, LinkedAs
  <2>3. phase'[d] \in Used
    BY <1>6, <1>7, <2>1, SessionAssumption DEF Used
  <2>. QED
    BY <1>2, <1>4, <1>5, <2>1, <2>2, <2>3 DEF Snapshot, Evicted, Without
<1>12. Snapshots'
  BY <1>2, <1>9, <1>11 DEF Snapshots, TypeOK, Call
<1>. QED
  BY <1>8, <1>10, <1>12

LEMMA GiveBackKeeps ==
  ASSUME IInv, Quiet, NEW p \in Client, client[p].at \in {"acquiring", "holding"}, GiveBack(p)
  PROVE  (Linked /\ Calls /\ Snapshots)'
<1>. DEFINE c == client[p].conn
            rec == Touch(c, Pooled(sessions))
<1>1. c \in Conn /\ keyOf[c] \in Key /\ phase[c] \in Used
  BY DEF IInv, Calls
<1>2. UNCHANGED <<closed, keyOf, pending>>
  BY DEF GiveBack
<1>3. CASE client' = [client EXCEPT ![p] = Idle] /\ UNCHANGED <<phase, sessions, timer>>
  BY <1>2, <1>3, IdleType, MoveKeeps
<1>4. CASE EvictTurn(p, "releasing", c, sessions, phase, rec)
  BY <1>1, <1>2, <1>4, EvictKeeps
<1>. QED
  BY <1>3, <1>4 DEF GiveBack

LEMMA ClearKeeps ==
  ASSUME IInv, Quiet, NEW p \in Client, NEW K \in SUBSET Key, Clear(p, K), closed => closed',
         \A j, k \in K : j # k => closed'
  PROVE  (Linked /\ Calls /\ Snapshots)'
<1>. DEFINE todo == {sessions[k] : k \in K \cap Live(sessions)}
            joined == {pending[k] : k \in K \cap Live(pending)}
<1>1. todo \in SUBSET Conn /\ joined \in SUBSET Conn
  BY DEF IInv, TypeOK, Live
<1>2. \A c \in todo : Snapshot(c) /\ keyOf[c] \in K
  BY DEF IInv, Linked, LinkedAs, Live, Snapshot, Used
<1>3. \A c, d \in todo : c # d => closed'
  <2>. SUFFICES ASSUME NEW c \in todo, NEW d \in todo, c # d PROVE closed'
    OBVIOUS
  <2>1. keyOf[c] \in K /\ keyOf[d] \in K /\ sessions[keyOf[c]] = c /\ sessions[keyOf[d]] = d
    BY DEF IInv, Linked, LinkedAs, Live
  <2>. QED
    BY <2>1
<1>4. CloseNext(p, todo, joined) /\ UNCHANGED <<keyOf, pending>>
  BY DEF Clear
<1>. HIDE DEF todo, joined
<1>. QED
  BY <1>1, <1>2, <1>3, <1>4, CloseNextKeeps

LEMMA StructureStep == IInv /\ [Next]_vars => (Linked /\ Calls /\ Snapshots)'
<1>. SUFFICES ASSUME IInv, Next PROVE (Linked /\ Calls /\ Snapshots)'
  BY DEF IInv, Linked, LinkedAs, Calls, Draining, Snapshots, Snapshot, vars, life
<1>. USE DEF IInv, life, clocks
<1>1. ASSUME Quiet, NEW p \in Client, NEW k \in Key, AcquireSession(p, k)
      PROVE  (Linked /\ Calls /\ Snapshots)'
  <2>1. /\ sessions[k] \in Conn /\ keyOf[sessions[k]] = k /\ phase[sessions[k]] \in Used
        /\ client' = [client EXCEPT ![p] = At("holding", sessions[k], None)]
    BY <1>1 DEF AcquireSession, TypeOK, Linked, LinkedAs, Used
  <2>2. UNCHANGED <<closed, phase, keyOf, sessions, pending>>
    BY <1>1 DEF AcquireSession
  <2>. DEFINE x == At("holding", sessions[k], None)
  <2>3. x \in Call /\ x.at = "holding" /\ x.conn = sessions[k] /\ x.todo = {}
    BY <2>1, AtType
  <2>. HIDE DEF x
  <2>4. client' = [client EXCEPT ![p] = x]
    BY <2>1 DEF x
  <2>5. /\ x.at = "waiting" => /\ x.conn \in Conn /\ keyOf[x.conn] \in Key
                               /\ phase[x.conn] \in Unsettled \cup {"rejected", "ready"}
        /\ x.at \in {"acquiring", "holding", "releasing"} =>
             x.conn \in Conn /\ keyOf[x.conn] \in Key /\ phase[x.conn] \in Used
    BY <2>1, <2>3
  <2>. QED
    BY <2>2, <2>3, <2>4, <2>5, MoveKeeps, Zenon
<1>2. ASSUME Quiet, NEW p \in Client, NEW k \in Key, JoinPending(p, k)
      PROVE  (Linked /\ Calls /\ Snapshots)'
  <2>1. /\ pending[k] \in Conn /\ keyOf[pending[k]] = k
        /\ phase[pending[k]] \in Unsettled \cup {"rejected", "ready"}
        /\ client' = [client EXCEPT ![p] = At("waiting", pending[k], None)]
    BY <1>2 DEF JoinPending, InFlight, TypeOK, Linked, LinkedAs
  <2>2. UNCHANGED <<closed, phase, keyOf, sessions, pending>>
    BY <1>2 DEF JoinPending
  <2>. DEFINE x == At("waiting", pending[k], None)
  <2>3. x \in Call /\ x.at = "waiting" /\ x.conn = pending[k] /\ x.todo = {}
    BY <2>1, AtType
  <2>. HIDE DEF x
  <2>4. client' = [client EXCEPT ![p] = x]
    BY <2>1 DEF x
  <2>5. /\ x.at = "waiting" => /\ x.conn \in Conn /\ keyOf[x.conn] \in Key
                               /\ phase[x.conn] \in Unsettled \cup {"rejected", "ready"}
        /\ x.at \in {"acquiring", "holding", "releasing"} =>
             x.conn \in Conn /\ keyOf[x.conn] \in Key /\ phase[x.conn] \in Used
    BY <2>1, <2>3
  <2>. QED
    BY <2>2, <2>3, <2>4, <2>5, MoveKeeps, Zenon
<1>3. ASSUME Quiet, NEW p \in Client, NEW k \in Key, NEW c \in Conn, StartConnect(p, k, c)
      PROVE  (Linked /\ Calls /\ Snapshots)'
  <2>1. /\ \A d \in Conn : phase'[d] = IF d = c THEN "connecting" ELSE phase[d]
        /\ \A d \in Conn : keyOf'[d] = IF d = c THEN k ELSE keyOf[d]
        /\ \A j \in Key : pending'[j] = IF j = k THEN c ELSE pending[j]
        /\ sessions' = sessions /\ ~closed /\ closed' = closed /\ sessions[k] = None
    BY <1>3 DEF StartConnect, TypeOK
  <2>2. \A q \in Client : client'[q] = IF q = p THEN At("waiting", c, None) ELSE client[q]
    BY <1>3 DEF StartConnect, TypeOK
  <2>3. /\ \A j \in Key : sessions[j] # c /\ pending[j] # c
        /\ \A q \in Client : client[q].conn # c
        /\ phase[c] \in {"closed", "rejected"} /\ pending[k] = None
    BY <1>3 DEF StartConnect, Free, InFlight
  <2>4. Linked'
    BY <2>1, <2>3, SessionAssumption DEF Linked, LinkedAs, TypeOK, Unsettled
  <2>5. Calls'
    <3>1. At("waiting", c, None).at = "waiting" /\ At("waiting", c, None).conn = c
      BY AtType
    <3>. QED
      BY <2>1, <2>2, <2>3, <3>1 DEF Calls, Draining, Quiet, Unsettled
  <2>6. Snapshots'
    BY <2>1, <2>2, AtType DEF Snapshots
  <2>. QED
    BY <2>4, <2>5, <2>6
<1>4. ASSUME Quiet, NEW p \in Client, NEW k \in Key, ClearKey(p, k)
      PROVE  (Linked /\ Calls /\ Snapshots)'
  BY <1>4, ClearKeeps DEF ClearKey
<1>5. ASSUME Quiet, NEW p \in Client, ClearAll(p) PROVE (Linked /\ Calls /\ Snapshots)'
  BY <1>5, ClearKeeps DEF ClearAll
<1>6. ASSUME Quiet, NEW p \in Client, ReleaseLease(p) PROVE (Linked /\ Calls /\ Snapshots)'
  BY <1>6, GiveBackKeeps DEF ReleaseLease
<1>7. ASSUME Quiet, NEW p \in Client, ReleaseConnection(p)
      PROVE  (Linked /\ Calls /\ Snapshots)'
  <2>1. CASE client[p].conn \in Pooled(sessions)
    BY <1>7, <2>1, GiveBackKeeps DEF ReleaseConnection
  <2>2. CASE client[p].conn \notin Pooled(sessions)
    BY <1>7, <2>2, IdleType, MoveKeeps DEF ReleaseConnection
  <2>. QED
    BY <2>1, <2>2
<1>9. ASSUME Quiet, NEW p \in Client, ResumeRejected(p)
      PROVE  (Linked /\ Calls /\ Snapshots)'
  <2>. DEFINE c == client[p].conn
  <2>1. /\ c \in Conn /\ phase[c] = "rejected"
        /\ \A k \in Key : pending'[k] = IF pending[k] = c THEN None ELSE pending[k]
        /\ UNCHANGED <<closed, phase, keyOf, sessions>>
    BY <1>9 DEF ResumeRejected, Calls, Forget
  <2>2. \A q \in Client : client'[q] = IF q = p THEN Idle ELSE client[q]
    BY <1>9 DEF ResumeRejected, TypeOK
  <2>3. Linked'
    BY <2>1 DEF Linked, LinkedAs
  <2>4. Calls'
    BY <2>1, <2>2, IdleType DEF Calls, Draining, Quiet
  <2>5. Snapshots'
    BY <2>1, <2>2, IdleType DEF Snapshots, Snapshot
  <2>. QED
    BY <2>3, <2>4, <2>5
<1>10. ASSUME Quiet, NEW p \in Client, EvictAgain(p) PROVE (Linked /\ Calls /\ Snapshots)'
  <2>. DEFINE c == client[p].conn
  <2>1. /\ c \in Conn /\ keyOf[c] \in Key /\ phase[c] \in Used
        /\ client[p].at \in {"acquiring", "releasing"}
    BY <1>10 DEF EvictAgain, Calls
  <2>2. /\ EvictTurn(p, client[p].at, c, sessions, phase, older)
        /\ UNCHANGED <<closed, keyOf, pending>>
    BY <1>10 DEF EvictAgain
  <2>. QED
    BY <1>10, <2>1, <2>2, EvictKeeps
<1>11. ASSUME Quiet, NEW p \in Client, FinishRelease(p)
       PROVE  (Linked /\ Calls /\ Snapshots)'
  BY <1>11, IdleType, MoveKeeps DEF FinishRelease
<1>12. ASSUME Quiet, NEW p \in Client, ContinueClear(p)
       PROVE  (Linked /\ Calls /\ Snapshots)'
  <2>1. client[p].todo \in SUBSET Conn /\ client[p].joined \in SUBSET Conn
    BY DEF TypeOK, Call
  <2>2. /\ CloseNext(p, client[p].todo, client[p].joined)
        /\ closed' = closed /\ UNCHANGED <<keyOf, pending>>
    BY <1>12 DEF ContinueClear
  <2>. QED
    BY <1>12, <2>1, <2>2, CloseNextKeeps DEF Snapshots
<1>13. ASSUME Quiet, NEW p \in Client, FinishClear(p) PROVE (Linked /\ Calls /\ Snapshots)'
  BY <1>13, IdleType, MoveKeeps DEF FinishClear
<1>14. ASSUME Quiet, NEW c \in Conn, Settle(c) PROVE (Linked /\ Calls /\ Snapshots)'
  <2>1. /\ phase[c] = "connecting" /\ phase'[c] \in {"rejecting", "ready", "rejected"}
        /\ \A d \in Conn \ {c} : phase'[d] = phase[d]
        /\ UNCHANGED <<closed, keyOf, sessions, pending, client>>
    BY <1>14 DEF Settle, ConnectResolves, ConnectRejects, TypeOK
  <2>2. Linked'
    BY <2>1 DEF Linked, LinkedAs, TypeOK, Unsettled
  <2>3. Calls'
    BY <1>14, <2>1 DEF Calls, Draining, Quiet, Used, Unsettled
  <2>4. Snapshots'
    BY <2>1 DEF Snapshots, Snapshot, Used, TypeOK, Call
  <2>. QED
    BY <2>2, <2>3, <2>4
<1>15. ASSUME Quiet, NEW c \in Conn, IdleFires(c) PROVE (Linked /\ Calls /\ Snapshots)'
  <2>1. UNCHANGED <<closed, keyOf, pending, client>>
    BY <1>15 DEF IdleFires
  <2>2. CASE UNCHANGED <<sessions, phase>>
    BY <2>1, <2>2 DEF Linked, LinkedAs, Calls, Draining, Snapshots, Snapshot
  <2>3. CASE /\ EntryKept(c) /\ sessions' = [sessions EXCEPT ![keyOf[c]] = None]
             /\ phase' = [phase EXCEPT ![c] = Disconnect(@)] /\ keyOf[c] \in Key
    <3>1. sessions[keyOf[c]] = c /\ phase[c] = "open"
      BY <2>3, SessionAssumption DEF EntryKept, Linked, LinkedAs
    <3>2. \A d \in Conn : phase'[d] = IF d = c THEN "closing" ELSE phase[d]
      BY <2>3, <3>1 DEF Disconnect, TypeOK
    <3>3. \A k \in Key : sessions'[k] = IF k = keyOf[c] THEN None ELSE sessions[k]
      BY <2>3 DEF TypeOK
    <3>4. Linked'
      BY <2>1, <2>3, <3>1, <3>2, <3>3, SessionAssumption DEF Linked, LinkedAs, TypeOK, Unsettled
    <3>5. Calls'
      BY <1>15, <2>1, <3>1, <3>2 DEF Calls, Draining, Quiet, Used
    <3>6. Snapshots'
      BY <2>1, <3>2, <3>3 DEF Snapshots, Snapshot, Used, TypeOK, Call
    <3>. QED
      BY <3>4, <3>5, <3>6
  <2>4. CASE /\ sessions' = [sessions EXCEPT ![keyOf[c]] = None]
             /\ phase' = [phase EXCEPT ![c] = Disconnect(@)] /\ keyOf[c] \notin Key
    <3>1. UNCHANGED <<sessions, phase>>
      BY <2>4 DEF Disconnect, TypeOK, Linked, LinkedAs
    <3>. QED
      BY <2>2, <3>1
  <2>. QED
    BY <1>15, <2>2, <2>3, <2>4 DEF IdleFires, Expired
<1>16. ASSUME Quiet, NEW c \in Conn, DisconnectDone(c) PROVE (Linked /\ Calls /\ Snapshots)'
  <2>1. /\ \A d \in Conn \ {c} : phase'[d] = phase[d]
        /\ \/ phase[c] = "closing" /\ phase'[c] = "closed"
           \/ phase[c] = "rejecting" /\ phase'[c] = "rejected"
        /\ UNCHANGED <<closed, keyOf, sessions, pending, client>>
    BY <1>16 DEF DisconnectDone, Ended, TypeOK
  <2>2. Linked'
    BY <2>1 DEF Linked, LinkedAs, TypeOK, Unsettled
  <2>3. Calls'
    BY <1>16, <2>1 DEF Calls, Draining, Quiet, Used, Unsettled
  <2>4. Snapshots'
    BY <2>1 DEF Snapshots, Snapshot, Used, TypeOK, Call
  <2>. QED
    BY <2>2, <2>3, <2>4
<1>17. ASSUME Quiet, Step PROVE (Linked /\ Calls /\ Snapshots)'
  <2>1. ASSUME NEW p \in Client, Resume(p) PROVE (Linked /\ Calls /\ Snapshots)'
    BY <1>17, <2>1, ResumeKeeps
  <2>. QED
    BY <1>1, <1>2, <1>3, <1>4, <1>5, <1>6, <1>7, <1>9, <1>10, <1>11, <1>12, <1>13, <1>14,
       <1>15, <1>16, <1>17, <2>1 DEF Step, Acquire, Continue
<1>18. ASSUME NEW p \in Client, Draining(p), Resume(p) PROVE (Linked /\ Calls /\ Snapshots)'
  BY <1>18, ResumeKeeps
<1>. QED
  BY <1>17, <1>18 DEF Next, Quiet

LEMMA StructureInit == Init => Linked /\ Calls /\ Snapshots
BY IdleType DEF Init, Linked, LinkedAs, Calls, Draining, Snapshots

LEMMA Invariance == Spec => []IInv
<1>1. Init => IInv
  BY TypeInit, StructureInit DEF IInv
<1>2. IInv /\ [Next]_vars => IInv'
  BY TypeStep, StructureStep DEF IInv
<1>. QED
  BY <1>1, <1>2, PTL DEF Spec

(* Every variable keeps its type, whatever the number of keys, callers and connections. *)
THEOREM TypeCorrect == Spec => []TypeOK
BY Invariance, PTL DEF IInv

(* One connection per key, open exactly while it is pooled: the session of a key, its
   pending connect and the phases can never disagree. *)
THEOREM OnePerKeyAlways == Spec => []OnePerKey
<1>1. IInv => OnePerKey
  <2>. SUFFICES ASSUME IInv PROVE OnePerKey
    OBVIOUS
  <2>1. Pooled(sessions) = {c \in Conn : phase[c] = "open"}
    BY SessionAssumption DEF IInv, TypeOK, Linked, LinkedAs, Pooled, Live
  <2>2. ASSUME NEW c \in Conn, phase[c] \in {"connecting", "rejecting", "ready", "open"},
               NEW d \in Conn, phase[d] \in {"connecting", "rejecting", "ready", "open"},
               keyOf[c] = keyOf[d]
        PROVE  c = d
    BY <2>2, SessionAssumption DEF IInv, Linked, LinkedAs
  <2>. QED
    BY <2>1, <2>2 DEF OnePerKey
<1>. QED
  BY <1>1, Invariance, PTL

-----------------------------------------------------------------------------
(* Invalidation against a connect in flight.                               *)

LEMMA FreshStep == IInv /\ Fresh /\ [Next]_vars => Fresh'
<1>. SUFFICES ASSUME IInv, Fresh, Next PROVE Fresh'
  BY DEF Fresh, vars, life
<1>. USE DEF life, clocks
<1>1. ASSUME stale' = stale, \A c \in stale : phase'[c] = phase[c] PROVE Fresh'
  BY <1>1 DEF Fresh
<1>2. ASSUME NEW p \in Client, NEW place, NEW c, NEW sess, NEW ph, NEW rec,
             EvictTurn(p, place, c, sess, ph, rec), stale' = stale,
             \A d \in stale : ph[d] = phase[d]
      PROVE  Fresh'
  BY <1>1, <1>2 DEF EvictTurn, Disconnect, Fresh, IInv, TypeOK
<1>3. ASSUME NEW p \in Client, GiveBack(p) PROVE Fresh'
  BY <1>1, <1>2, <1>3 DEF GiveBack
<1>4. ASSUME NEW p \in Client, Resume(p) PROVE Fresh'
  <2>. DEFINE c == client[p].conn
              installed == [sessions EXCEPT ![keyOf[c]] = c]
              opened == [phase EXCEPT ![c] = IF @ = "ready" THEN "open" ELSE @]
              rec == Touch(c, Pooled(installed))
  <2>1. \A d \in stale : opened[d] = phase[d]
    BY <1>4 DEF Resume, Fresh, IInv, TypeOK
  <2>2. EvictTurn(p, "acquiring", c, installed, opened, rec) /\ stale' = stale
    BY <1>4 DEF Resume
  <2>. HIDE DEF c, installed, opened, rec
  <2>. QED
    BY <1>2, <2>1, <2>2
<1>5. ASSUME NEW p \in Client, EvictAgain(p) PROVE Fresh'
  BY <1>2, <1>5 DEF EvictAgain
<1>6. ASSUME NEW p \in Client, NEW todo, NEW joined, CloseNext(p, todo, joined),
             NEW c \in stale
      PROVE  phase'[c] = phase[c]
  BY <1>6 DEF CloseNext, Disconnect, Fresh, IInv, TypeOK
<1>7. ASSUME NEW p \in Client, NEW K \in SUBSET Key, Clear(p, K) PROVE Fresh'
  <2>. DEFINE caught == {c \in Conn : phase[c] = "connecting" /\ keyOf[c] \in K}
              todo == {sessions[k] : k \in K \cap Live(sessions)}
              joined == {pending[k] : k \in K \cap Live(pending)}
  <2>1. stale' = stale \cup caught /\ CloseNext(p, todo, joined)
    BY <1>7 DEF Clear
  <2>2. \A c \in caught : phase'[c] = phase[c]
    BY <2>1 DEF CloseNext, Disconnect, IInv, TypeOK
  <2>3. \A c \in stale : phase'[c] = phase[c]
    BY <1>6, <2>1
  <2>. HIDE DEF todo, joined
  <2>. QED
    BY <2>1, <2>2, <2>3, Zenon DEF Fresh
<1>8. ASSUME NEW p \in Client, ContinueClear(p) PROVE Fresh'
  BY <1>1, <1>6, <1>8 DEF ContinueClear
<1>9. ASSUME NEW p \in Client, NEW k \in Key, NEW c \in Conn, StartConnect(p, k, c)
      PROVE  Fresh'
  BY <1>9 DEF StartConnect, Fresh, IInv, TypeOK
<1>10. ASSUME NEW c \in Conn, Settle(c) PROVE Fresh'
  BY <1>10 DEF Settle, ConnectResolves, ConnectRejects, Invalidated, Fresh, IInv, TypeOK
<1>11. ASSUME NEW c \in Conn, IdleFires(c) PROVE Fresh'
  BY <1>1, <1>11 DEF IdleFires, Disconnect, Fresh, IInv, TypeOK
<1>12. ASSUME NEW c \in Conn, DisconnectDone(c) PROVE Fresh'
  BY <1>12 DEF DisconnectDone, Ended, Fresh, IInv, TypeOK
<1>13. ASSUME NEW p \in Client,
              \/ \E k \in Key : AcquireSession(p, k) \/ JoinPending(p, k)
              \/ ResumeRejected(p) \/ FinishRelease(p) \/ FinishClear(p)
       PROVE  Fresh'
  BY <1>13 DEF AcquireSession, JoinPending, ResumeRejected, FinishRelease, FinishClear, Fresh
<1>14. ASSUME NEW p \in Client, ReleaseLease(p) \/ ReleaseConnection(p) PROVE Fresh'
  BY <1>1, <1>3, <1>14 DEF ReleaseLease, ReleaseConnection
<1>15. ASSUME NEW p \in Client, ClearAll(p) \/ \E k \in Key : ClearKey(p, k) PROVE Fresh'
  BY <1>7, <1>15 DEF ClearAll, ClearKey
<1>. QED
  BY <1>4, <1>5, <1>8, <1>9, <1>10, <1>11, <1>12, <1>13, <1>14, <1>15
     DEF Next, Step, Acquire, Continue

(* A connection whose key was cleared while it was connecting never gets into the pool. *)
THEOREM StaleConnectsDiscarded == Spec => []StaleNeverPooled
<1>1. Init => Fresh
  BY DEF Init, Fresh
<1>2. IInv /\ Fresh => StaleNeverPooled
  BY DEF IInv, Linked, LinkedAs, Fresh, StaleNeverPooled, Pooled, Live
<1>. QED
  BY <1>1, <1>2, FreshStep, Invariance, PTL DEF Spec

=============================================================================
