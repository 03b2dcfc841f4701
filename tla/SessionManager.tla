--------------------------- MODULE SessionManager ---------------------------
(***************************************************************************)
(* KafkaSessionManager (src/main/kafka/session-manager.ts): the pool of    *)
(* Kafka connections the main process keeps, at most one per session key,  *)
(* leased to requests, evicted least recently used first above             *)
(* MaxSessions, closed after an idle timeout, and cleared on invalidation. *)
(*                                                                         *)
(* JavaScript runs one callback at a time, so an action is the code        *)
(* between two awaits.  A promise that settles and the continuation that   *)
(* awaits it are two actions: anything may run in between.                 *)
(*                                                                         *)
(* A SessionEntry is created once per connection and identified with it.   *)
(* Identities are recycled: a connection that is closed and that nothing   *)
(* refers to any more can stand for the next one opened, which keeps the   *)
(* model finite without bounding the number of connects.                   *)
(***************************************************************************)
EXTENDS Naturals, FiniteSets

CONSTANTS
  Key,          \* session keys (credentialProfileKey of a request)
  Client,       \* concurrent callers: requests, invalidations, the shutdown
  Conn,         \* connection identities
  MaxSessions,  \* options.maxSessions, at least 1
  None

ASSUME SessionAssumption ==
  /\ IsFiniteSet(Key) /\ IsFiniteSet(Client)
  /\ MaxSessions \in Nat \ {0}
  /\ None \notin Conn /\ None \notin Key

VARIABLES
  closed,    \* KafkaIpcMain.closed: set by shutdown, refuses new requests
  phase,     \* phase[c]: where connection c is in its life
  keyOf,     \* keyOf[c]: the key c was last opened for
  stale,     \* connects whose captured generations no longer match
  sessions,  \* this.sessions: the pooled connection of each key
  pending,   \* this.pending: the connect promise of each key
  leases,    \* leases[c]: entry.leases
  timer,     \* timer[c]: entry.idleTimer is armed
  orphans,   \* connections with an armed timer that entry.idleTimer no longer names
  older,     \* <<a, b>>: a's lastUsedAt is before b's, for pooled a and b
  client     \* client[p]: the call p is in

life == <<phase, keyOf, stale>>
clocks == <<timer, orphans, older>>
vars == <<closed, life, sessions, pending, leases, clocks, client>>

(***************************************************************************)
(* A connection is "connecting", then its connect promise is fulfilled     *)
(* ("ready") or rejected, at once or after closing a connection that came  *)
(* too late ("rejecting").  The first waiter to resume makes it "open";    *)
(* disconnect() takes it through "closing" to "closed".                    *)
(***************************************************************************)
Unsettled == {"connecting", "rejecting"}
Phase == Unsettled \cup {"rejected", "ready", "open", "closing", "closed"}

(***************************************************************************)
(* The call a client is in: `conn' is the entry it is about, `on' the      *)
(* connection whose disconnect() it awaits; clear() also has the entries   *)
(* of its snapshot still to close and the connects it will wait for.       *)
(***************************************************************************)
Call == [at : {"idle", "waiting", "acquiring", "holding", "releasing", "clearing"},
         conn : Conn \cup {None}, on : Conn \cup {None},
         todo : SUBSET Conn, joined : SUBSET Conn]

At(place, c, v) == [at |-> place, conn |-> c, on |-> v, todo |-> {}, joined |-> {}]
Idle == At("idle", None, None)
Clearing(v, todo, joined) ==
  [at |-> "clearing", conn |-> None, on |-> v, todo |-> todo, joined |-> joined]

TypeOK ==
  /\ closed \in BOOLEAN
  /\ phase \in [Conn -> Phase]
  /\ keyOf \in [Conn -> Key \cup {None}]
  /\ stale \in SUBSET Conn
  /\ sessions \in [Key -> Conn \cup {None}]
  /\ pending \in [Key -> Conn \cup {None}]
  /\ leases \in [Conn -> Nat]
  /\ timer \in [Conn -> BOOLEAN]
  /\ orphans \in SUBSET Conn
  /\ older \in SUBSET (Conn \X Conn)
  /\ client \in [Client -> Call]

Init ==
  /\ closed = FALSE
  /\ phase = [c \in Conn |-> "closed"]
  /\ keyOf = [c \in Conn |-> None]
  /\ stale = {}
  /\ sessions = [k \in Key |-> None]
  /\ pending = [k \in Key |-> None]
  /\ leases = [c \in Conn |-> 0]
  /\ timer = [c \in Conn |-> FALSE]
  /\ orphans = {}
  /\ older = {}
  /\ client = [p \in Client |-> Idle]

-----------------------------------------------------------------------------
(* The entries: the map, the leases, lastUsedAt and the eviction candidate.  An operator
   named after a slip is a mutant of the one below it. *)

Live(sess) == {k \in Key : sess[k] # None}
Pooled(sess) == {sess[k] : k \in Live(sess)}
Without(sess, c) == [k \in Key |-> IF c # None /\ sess[k] = c THEN None ELSE sess[k]]

TakeUncounted(c) == leases
Take(c) == [leases EXCEPT ![c] = @ + 1]

GiveTwice(c) == [leases EXCEPT ![c] = @ - 2]
Give(c) == [leases EXCEPT ![c] = IF @ = 0 THEN 0 ELSE @ - 1]

(* entry.lastUsedAt = now(): c becomes the most recently used of S. *)
Touch(c, S) == {r \in older : c \notin {r[1], r[2]}} \cup {<<a, c>> : a \in S \ {c}}
Among(rec, S) == {r \in rec : {r[1], r[2]} \subseteq S}

OverByTwo(sess) == Cardinality(Live(sess)) > MaxSessions + 1
Over(sess) == Cardinality(Live(sess)) > MaxSessions

EvictableLeased(sess, keep, lease) == {c \in Pooled(sess) : keyOf[c] # keep}
Evictable(sess, keep, lease) == {c \in Pooled(sess) : keyOf[c] # keep /\ lease[c] = 0}

Hottest(S, rec) == {v \in S : \A w \in S : <<v, w>> \notin rec}
Coldest(S, rec) == {v \in S : \A w \in S : <<w, v>> \notin rec}

(* What one turn of evictIfNeeded's loop closes, or None when the loop ends. *)
Victims(sess, keep, lease, rec) ==
  LET idle == Evictable(sess, keep, lease)
  IN  IF Over(sess) /\ idle # {} THEN Coldest(idle, rec) ELSE {None}

(* disconnect() of a connection that is closed already does nothing more. *)
Disconnect(ph) == IF ph = "open" THEN "closing" ELSE ph

(* One turn of evictIfNeeded, up to its await: the victim leaves the map, its timer is
   cleared and its disconnect() called.  `sess', `ph' and `rec' are the entries as the
   caller has just left them.  acquire protects its own key; when its loop ends it
   returns the lease. *)
EvictTurn(p, place, c, sess, ph, rec) ==
  \E v \in Victims(sess, IF place = "acquiring" THEN keyOf[c] ELSE None, leases', rec) :
    /\ sessions' = Without(sess, v)
    /\ phase' = [d \in Conn |-> IF d = v THEN Disconnect(ph[d]) ELSE ph[d]]
    /\ timer' = [d \in Conn |-> timer[d] /\ d # v]
    /\ older' = Among(rec, Pooled(Without(sess, v)))
    /\ client' = [client EXCEPT ![p] =
                    At(IF place = "acquiring" /\ v = None THEN "holding" ELSE place, c, v)]

(* The awaited disconnect() is done: the loop goes round again. *)
EvictAgain(p) ==
  /\ client[p].at \in {"acquiring", "releasing"}
  /\ client[p].on \in {c \in Conn : phase[c] = "closed"}
  /\ UNCHANGED <<closed, keyOf, stale, pending, leases, orphans>>
  /\ EvictTurn(p, client[p].at, client[p].conn, sessions, phase, older)

(* Nothing refers to c: its identity can stand for a new connection. *)
Free(c) ==
  /\ phase[c] \in {"closed", "rejected"}
  /\ \A k \in Key : sessions[k] # c /\ pending[k] # c
  /\ \A q \in Client : c \notin {client[q].conn, client[q].on} \cup client[q].todo
                                  \cup client[q].joined

-----------------------------------------------------------------------------
(* acquire(key, connect)                                                   *)

InFlightNever(k) == FALSE
InFlight(k) == pending[k] # None

(* The key has a session: lease it at once. *)
AcquireSession(p, k) ==
  LET c == sessions[k] IN
  /\ client[p].at = "idle" /\ ~closed
  /\ c # None
  /\ timer' = [timer EXCEPT ![c] = FALSE]
  /\ leases' = Take(c)
  /\ older' = Touch(c, Pooled(sessions))
  /\ client' = [client EXCEPT ![p] = At("holding", c, None)]
  /\ UNCHANGED <<closed, life, sessions, pending, orphans>>

(* The key is being connected: await the same promise. *)
JoinPending(p, k) ==
  /\ client[p].at = "idle" /\ ~closed
  /\ sessions[k] = None /\ InFlight(k)
  /\ client' = [client EXCEPT ![p] = At("waiting", pending[k], None)]
  /\ UNCHANGED <<closed, life, sessions, pending, leases, clocks>>

(* Neither: call connect(), capturing the generations, and await it. *)
StartConnect(p, k, c) ==
  /\ client[p].at = "idle" /\ ~closed
  /\ sessions[k] = None /\ ~InFlight(k)
  /\ Free(c)
  /\ phase' = [phase EXCEPT ![c] = "connecting"]
  /\ keyOf' = [keyOf EXCEPT ![c] = k]
  /\ stale' = stale \ {c}
  /\ pending' = [pending EXCEPT ![k] = c]
  /\ leases' = [leases EXCEPT ![c] = 0]
  /\ client' = [client EXCEPT ![p] = At("waiting", c, None)]
  /\ UNCHANGED <<closed, sessions, clocks>>

InvalidatedNever(c) == FALSE
Invalidated(c) == c \in stale

(* connect() resolves.  The generations are compared: on a mismatch the connection is
   closed first and then the promise rejects. *)
ConnectResolves(c) ==
  /\ phase[c] = "connecting"
  /\ phase' = [phase EXCEPT ![c] = IF Invalidated(c) THEN "rejecting" ELSE "ready"]
  /\ UNCHANGED <<closed, keyOf, stale, sessions, pending, leases, clocks, client>>

(* connect() rejects: no connection came to be. *)
ConnectRejects(c) ==
  /\ phase[c] = "connecting"
  /\ phase' = [phase EXCEPT ![c] = "rejected"]
  /\ UNCHANGED <<closed, keyOf, stale, sessions, pending, leases, clocks, client>>

(* The `finally' that every waiter runs: forget the promise if it is still the key's. *)
Forget(c) == [k \in Key |-> IF pending[k] = c THEN None ELSE pending[k]]

(* A waiter resumes with the entry, which has no timer yet: it takes a lease, pools the
   entry and runs evictIfNeeded(key) up to its first disconnect(). *)
Resume(p) ==
  LET c == client[p].conn
      installed == [sessions EXCEPT ![keyOf[c]] = c]
      opened == [phase EXCEPT ![c] = IF @ = "ready" THEN "open" ELSE @]
  IN
  /\ client[p].at = "waiting" /\ phase[c] \in {"ready", "open"}
  /\ pending' = Forget(c)
  /\ leases' = Take(c)
  /\ EvictTurn(p, "acquiring", c, installed, opened, Touch(c, Pooled(installed)))
  /\ UNCHANGED <<closed, keyOf, stale, orphans>>

(* A waiter resumes with the rejection of connect(). *)
ResumeRejected(p) ==
  /\ client[p].at = "waiting" /\ phase[client[p].conn] = "rejected"
  /\ pending' = Forget(client[p].conn)
  /\ client' = [client EXCEPT ![p] = Idle]
  /\ UNCHANGED <<closed, life, sessions, leases, clocks>>

-----------------------------------------------------------------------------
(* The two ways to give a lease back.                                      *)

GiveBack(p) ==
  LET c == client[p].conn
      rec == Touch(c, Pooled(sessions))
  IN
  /\ leases' = Give(c)
  /\ UNCHANGED <<closed, keyOf, stale, pending, orphans>>
  /\ \/ /\ leases'[c] # 0
        /\ older' = Among(rec, Pooled(sessions))
        /\ client' = [client EXCEPT ![p] = Idle]
        /\ UNCHANGED <<phase, sessions, timer>>
     \/ leases'[c] = 0 /\ EvictTurn(p, "releasing", c, sessions, phase, rec)

(* lease.release() *)
ReleaseLease(p) == client[p].at = "holding" /\ GiveBack(p)

(* release(connection): a connection that is pooled no more has no entry to find. *)
ReleaseConnection(p) ==
  /\ client[p].at = "holding"
  /\ \/ client[p].conn \in Pooled(sessions) /\ GiveBack(p)
     \/ /\ client[p].conn \notin Pooled(sessions)
        /\ client' = [client EXCEPT ![p] = Idle]
        /\ UNCHANGED <<closed, life, sessions, pending, leases, clocks>>

EntryGone(c) == sessions[keyOf[c]] # c
EntryKept(c) == sessions[keyOf[c]] = c

(* evictIfNeeded() has returned: scheduleIdleCleanup if the entry is still pooled.  It
   overwrites entry.idleTimer, armed or not. *)
FinishRelease(p) ==
  LET c == client[p].conn IN
  /\ client[p].at = "releasing" /\ client[p].on = None
  /\ IF EntryKept(c)
     THEN /\ timer' = [timer EXCEPT ![c] = TRUE]
          /\ orphans' = IF timer[c] THEN orphans \cup {c} ELSE orphans
     ELSE UNCHANGED <<timer, orphans>>
  /\ client' = [client EXCEPT ![p] = Idle]
  /\ UNCHANGED <<closed, life, sessions, pending, leases, older>>

-----------------------------------------------------------------------------
(* clear(key?)                                                             *)

(* One turn of the loop over the snapshot `todo'.  The entry's KEY is deleted, whatever
   it now maps to, and the entry of the snapshot is disconnected; a connection that is
   closing already is not waited for a second time. *)
CloseNext(p, todo, joined) ==
  \/ /\ todo = {}
     /\ client' = [client EXCEPT ![p] = Clearing(None, {}, joined)]
     /\ UNCHANGED <<phase, sessions, timer, older>>
  \/ \E c \in todo :
       /\ timer' = [timer EXCEPT ![c] = FALSE]
       /\ sessions' = [sessions EXCEPT ![keyOf[c]] = None]
       /\ phase' = [phase EXCEPT ![c] = Disconnect(@)]
       /\ older' = Among(older, Pooled(sessions'))
       /\ client' = [client EXCEPT ![p] =
                       Clearing(IF phase[c] = "open" THEN c ELSE None, todo \ {c}, joined)]

(* A request invalidated while it connected clears its key and forgets the lease it
   holds: clear() drops that lease's entry, which is never released (ipc.ts L1018-1022). *)
Abandons(p, K) == client[p].at = "holding" /\ K = {keyOf[client[p].conn]}

Clear(p, K) ==
  /\ client[p].at = "idle" \/ Abandons(p, K)
  /\ stale' = stale \cup {c \in Conn : phase[c] = "connecting" /\ keyOf[c] \in K}
  /\ CloseNext(p, {sessions[k] : k \in K \cap Live(sessions)},
                  {pending[k] : k \in K \cap Live(pending)})
  /\ UNCHANGED <<keyOf, pending, leases, orphans>>

ClearKey(p, k) == Clear(p, {k}) /\ UNCHANGED closed

(* clear() without a key, which only KafkaIpcMain.shutdown calls, once `closed' is set. *)
ClearAll(p) == Clear(p, Key) /\ closed' = TRUE

Disconnected(p) == client[p].on \in {None} \cup {c \in Conn : phase[c] = "closed"}

ContinueClear(p) ==
  /\ client[p].at = "clearing" /\ Disconnected(p) /\ client[p].todo # {}
  /\ CloseNext(p, client[p].todo, client[p].joined)
  /\ UNCHANGED <<closed, keyOf, stale, pending, leases, orphans>>

(* Promise.allSettled(pending) *)
FinishClear(p) ==
  /\ client[p].at = "clearing" /\ Disconnected(p) /\ client[p].todo = {}
  /\ \A c \in client[p].joined : phase[c] \notin Unsettled
  /\ client' = [client EXCEPT ![p] = Idle]
  /\ UNCHANGED <<closed, life, sessions, pending, leases, clocks>>

-----------------------------------------------------------------------------
(* Timers and sockets.                                                     *)

ExpiredLeased(c) == EntryKept(c)
Expired(c) == leases[c] = 0 /\ EntryKept(c)

(* The callback of scheduleIdleCleanup, of the timer the entry names or of an orphan.
   How many orphans an entry has is not kept: one may remain. *)
IdleFires(c) ==
  /\ \/ timer[c] /\ timer' = [timer EXCEPT ![c] = FALSE] /\ UNCHANGED orphans
     \/ c \in orphans /\ orphans' \in {orphans, orphans \ {c}} /\ UNCHANGED timer
  /\ IF Expired(c)
     THEN /\ sessions' = [sessions EXCEPT ![keyOf[c]] = None]
          /\ phase' = [phase EXCEPT ![c] = Disconnect(@)]
          /\ older' = Among(older, Pooled(sessions'))
     ELSE UNCHANGED <<sessions, phase, older>>
  /\ UNCHANGED <<closed, keyOf, stale, pending, leases, client>>

EndedUnsettled(ph) == IF ph = "closing" THEN "closed" ELSE ph
Ended(ph) == IF ph = "closing" THEN "closed" ELSE "rejected"

(* disconnect() is done.  The timers that are left of the entry would find it gone: they
   are dropped here. *)
DisconnectDone(c) ==
  /\ phase[c] \in {"closing", "rejecting"}
  /\ phase' = [phase EXCEPT ![c] = Ended(@)]
  /\ timer' = [timer EXCEPT ![c] = FALSE]
  /\ orphans' = orphans \ {c}
  /\ UNCHANGED <<closed, keyOf, stale, sessions, pending, leases, older, client>>

-----------------------------------------------------------------------------
Acquire(p, k) ==
  AcquireSession(p, k) \/ JoinPending(p, k) \/ \E c \in Conn : StartConnect(p, k, c)
Continue(p) ==
  \/ Resume(p) \/ ResumeRejected(p) \/ EvictAgain(p) \/ FinishRelease(p)
  \/ ContinueClear(p) \/ FinishClear(p)
Settle(c) == ConnectResolves(c) \/ ConnectRejects(c)

(* The waiters of one promise are queued together when it settles and resume back to
   back, before anything they lead to: once one has pooled the entry, the others do. *)
Draining(p) == client[p].at = "waiting" /\ phase[client[p].conn] = "open"

Step ==
  \/ \E p \in Client, k \in Key : Acquire(p, k) \/ ClearKey(p, k)
  \/ \E p \in Client : ReleaseLease(p) \/ ReleaseConnection(p) \/ ClearAll(p) \/ Continue(p)
  \/ \E c \in Conn : Settle(c) \/ IdleFires(c) \/ DisconnectDone(c)

Next ==
  \/ \E p \in Client : Draining(p) /\ Resume(p)
  \/ (\A p \in Client : ~Draining(p)) /\ Step

Spec == Init /\ [][Next]_vars

(* A continuation whose promise has settled runs; a connect and a disconnect end (both
   have their own timeouts); a timer fires.  Nobody has to call or to release. *)
Fairness ==
  /\ \A p \in Client : WF_vars(Continue(p))
  /\ \A c \in Conn : WF_vars(Settle(c)) /\ WF_vars(DisconnectDone(c)) /\ WF_vars(IdleFires(c))

FairSpec == Spec /\ Fairness

-----------------------------------------------------------------------------
(* Properties.                                                             *)

Leaseholders(c) ==
  {p \in Client : client[p].at \in {"acquiring", "holding"} /\ client[p].conn = c}

(* The pool and the leases of its callers, as the abstract specification sees them. *)
Pool == INSTANCE LeasePool WITH
  pooled <- Pooled(sessions), held <- [c \in Conn |-> Leaseholders(c)],
  revoking <- {p \in Client : client[p].at = "clearing"}

(* The manager implements the promise: eviction, idle timeout and the two release APIs
   never take a session from a caller that holds it. *)
ImplementsPool == Pool!Spec

(* The pool is over its maximum only while every pooled session is leased: eviction gives
   way to leases and to nothing else (evictIfNeeded, and its calls from acquire and
   release). *)
BoundRespectsLeases ==
  Cardinality(Live(sessions)) > MaxSessions => \A c \in Pooled(sessions) : leases[c] > 0

(* entry.leases counts the callers that hold the entry, whatever clears, joins and
   releases through either API have happened: no lease is lost or counted twice. *)
LeasesCounted ==
  \A c \in Pooled(sessions) : leases[c] = Cardinality(Leaseholders(c))

(* A key never has two connections opening or open, the second of them unknown to the
   pool; and a connection is open exactly while it is pooled: none is left where nothing
   would close it, and no caller is given one that is closed. *)
OnePerKey ==
  LET Alive == {c \in Conn : phase[c] \in {"connecting", "rejecting", "ready", "open"}} IN
  /\ \A c, d \in Alive : keyOf[c] = keyOf[d] => c = d
  /\ Pooled(sessions) = {c \in Conn : phase[c] = "open"}

(* A connection that was connecting when its key was cleared is never pooled (the
   generation check of acquire). *)
StaleNeverPooled == stale \cap Pooled(sessions) = {}

(* A pooled session nobody leases has a timer that will close it, or is about to get
   one: acquire clears the timer, and every way back to no lease arms it again. *)
IdleHasTimer ==
  \A c \in Pooled(sessions) : leases[c] = 0 =>
     \/ timer[c] \/ c \in orphans
     \/ \E p \in Client : client[p].at = "releasing" /\ client[p].conn = c

(* Only clear() closes a connection somebody holds: eviction and the idle timer never
   do ("never an active lease"). *)
LeaseProtects ==
  [][\A c \in Conn :
       (phase[c] = "open" /\ phase'[c] = "closing" /\ Leaseholders(c)' # {})
         => \E p \in Client : client'[p].at = "clearing" /\ client'[p].on = c]_vars

(* Least recently used first: a session is evicted only when MaxSessions others in the
   pool are leased or were used after it. *)
EvictsColdest ==
  [][\A p \in Client :
       (client'[p] # client[p] /\ client'[p].at \in {"acquiring", "releasing"}
          /\ client'[p].on # None)
         => LET v == client'[p].on IN
            Cardinality({d \in Pooled(sessions') : leases'[d] > 0 \/ <<v, d>> \in older})
              >= MaxSessions]_vars

(* Every call returns: waiters of one connect, evictions that await a disconnect and
   clears that await connects never wait on one another in a circle. *)
EveryCallReturns ==
  \A p \in Client : client[p].at \notin {"idle", "holding"} ~> client[p].at \in {"idle", "holding"}

=============================================================================
