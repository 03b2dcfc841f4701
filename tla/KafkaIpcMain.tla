---------------------------- MODULE KafkaIpcMain ----------------------------
(***************************************************************************)
(* How KafkaIpcMain (src/main/ipc.ts) drives the session manager: requests *)
(* resolve credentials and acquire a session for their target, a closing   *)
(* invalidation of a target (settings changed, target removed) ends every  *)
(* session opened for it, and shutdown ends them all.  The registry        *)
(* (target-session-registry.ts) and the credential profile cache           *)
(* (external-credentials.ts) are part of this module; the pool is          *)
(* SessionManager, whose clients are the requests, one clear() per key of  *)
(* each invalidation, and the shutdown.                                    *)
(*                                                                         *)
(* Continuations are microtasks: all that are ready run before the event   *)
(* loop delivers the next message, answer or timer.  A generation is kept  *)
(* as the set of requests whose captured generation is still current.      *)
(***************************************************************************)
EXTENDS Naturals, FiniteSets

CONSTANTS
  Target, Key,   \* targets, and the session keys of their settings
  TargetOf,      \* TargetOf[k]: a session key names its context and target
  Request,       \* requests that need a connection
  Invalidation,  \* healthInvalidate requests with closeSessions
  Shutdown,      \* the call of shutdown()
  Conn, MaxSessions, None

VARIABLES
  closed, phase, keyOf, stale, sessions, pending, leases, timer, orphans, older, client,
  registered,  \* keys in the registry's entries
  current,     \* requests whose captured generation is their target's
  profile,     \* credentialProfiles: the request that loads key's profile, or "loaded"
  req, inv, shut,
  aged,        \* connections begun before the last invalidation of their target, or with
               \* credentials read before it
  outdated,    \* keys whose cached profile was read before that invalidation
  calm         \* requests no invalidation has to do with (see Begin)

Caller == Request \cup (Invalidation \X Key) \cup {Shutdown}
S == INSTANCE SessionManager WITH Client <- Caller

ASSUME IpcAssumption ==
  /\ TargetOf \in [Key -> Target]
  /\ IsFiniteSet(Key) /\ IsFiniteSet(Request) /\ IsFiniteSet(Invalidation)
  /\ MaxSessions \in Nat \ {0}
  /\ Shutdown \notin Request \cup (Invalidation \X Key)
  /\ Request \cap (Invalidation \X Key) = {}
  /\ None \notin Request \cup Target \cup Conn \cup Key
  /\ "loaded" \notin Request \cup {None}

pool == <<closed, phase, keyOf, stale, sessions, pending, leases, timer, orphans, older, client>>
own == <<registered, current, profile, req, inv, shut>>
ghosts == <<aged, outdated, calm>>
vars == <<pool, own, ghosts>>

(* "locating" awaits the Strimzi clusters, "reading" their credentials, "resolving" a
   profile of the cache; "resolved" and "unresolved" have its answer.  "dropping" and
   "cleaning" await the clear() of a request that came too late. *)
ReqState ==
  [at : {"idle", "locating", "reading", "resolving", "resolved", "unresolved", "connecting",
         "dropping", "cleaning", "using"},
   key : Key \cup {None}, load : Request \cup {None}]
InvState ==
  [at : {"idle", "clearing", "waiting"}, target : Target \cup {None},
   keys : SUBSET Key, wait : SUBSET Request]
ShutState == [at : {"running", "clearing", "final", "done"}, wait : SUBSET Request]

NoRequest == [at |-> "idle", key |-> None, load |-> None]
NoInvalidation == [at |-> "idle", target |-> None, keys |-> {}, wait |-> {}]

TypeOK ==
  /\ S!TypeOK
  /\ registered \in SUBSET Key /\ current \in SUBSET Request
  /\ profile \in [Key -> Request \cup {None, "loaded"}]
  /\ req \in [Request -> ReqState]
  /\ inv \in [Invalidation -> InvState]
  /\ shut \in ShutState
  /\ aged \in SUBSET Conn /\ outdated \in SUBSET Key /\ calm \in SUBSET Request

Init ==
  /\ S!Init
  /\ registered = {} /\ current = {}
  /\ profile = [k \in Key |-> None]
  /\ req = [r \in Request |-> NoRequest]
  /\ inv = [i \in Invalidation |-> NoInvalidation]
  /\ shut = [at |-> "running", wait |-> {}]
  /\ aged = {} /\ outdated = {} /\ calm = {}

Alive == {c \in Conn : phase[c] \in {"connecting", "rejecting", "ready", "open"}}
KeysOf(t) == {k \in Key : TargetOf[k] = t}

-----------------------------------------------------------------------------
(* resolveConnection: the operation of a request, and who waits for it.     *)

(* The request's promise is in pendingConnectionsByTarget. *)
Resolving(r) == req[r].at \notin {"idle", "using"}

(* onSessionKey: the registry learns the key, unless the request comes too late. *)
Register(k) == registered \cup {k}

StaleIfClosed(r) == closed
Stale(r) == closed \/ r \notin current

(* The operation has settled, nobody waits for it any more; a rejection ends its request. *)
Settled(r) ==
  /\ inv' = [i \in Invalidation |-> [inv[i] EXCEPT !.wait = @ \ {r}]]
  /\ shut' = [shut EXCEPT !.wait = @ \ {r}]
  /\ UNCHANGED <<registered, profile, aged, outdated>>

Ended(r) ==
  /\ req' = [req EXCEPT ![r] = NoRequest]
  /\ current' = current \ {r} /\ calm' = calm \ {r}

Rejects(r) == Settled(r) /\ Ended(r) /\ UNCHANGED pool

Goto(r, place) ==
  /\ req' = [req EXCEPT ![r].at = place]
  /\ UNCHANGED <<inv, shut>>

(* Both clean-ups of resolveConnectionOwned forget the profile and clear the key,
   whichever session it has by now. *)
Clean(r, place) ==
  /\ S!ClearKey(r, req[r].key)
  /\ profile' = [profile EXCEPT ![req[r].key] = None]
  /\ Goto(r, place)
  /\ UNCHANGED <<registered, current, ghosts>>

(* The catch: only a request that came too late cleans up. *)
Failed(r) ==
  \/ Stale(r) /\ Clean(r, "cleaning")
  \/ ~Stale(r) /\ Rejects(r)

(* A request that was invalidated still uses the key, or a connect it started does. *)
Unsettling(k) ==
  \/ \E q \in Request : Resolving(q) /\ req[q].key = k /\ q \notin current
  \/ pending[k] \in stale

Undisturbed(k) ==
  (\A i \in Invalidation : inv[i].target # TargetOf[k]) \/ ~Unsettling(k)

(* resolveConnection and resolveConnectionOwned up to the first await of
   connectForRequest.  A Strimzi request first looks for its cluster; the others register
   their key and ask for the cached profile, or join its load. *)
Begin(r, k) ==
  /\ req[r].at = "idle" /\ client[r].at = "idle" /\ ~closed
  /\ current' = current \cup {r}
  /\ calm' = IF Undisturbed(k) THEN calm \cup {r} ELSE calm \ {r}
  /\ UNCHANGED <<pool, inv, shut, aged, outdated>>
  /\ \/ /\ req' = [req EXCEPT ![r] = [at |-> "locating", key |-> k, load |-> None]]
        /\ UNCHANGED <<registered, profile>>
     \/ /\ registered' = Register(k)
        /\ profile' = [profile EXCEPT ![k] = IF @ = None THEN r ELSE @]
        /\ req' = [req EXCEPT ![r] =
                     IF profile[k] = "loaded" THEN [at |-> "resolved", key |-> k, load |-> None]
                     ELSE [at |-> "resolving", key |-> k, load |-> profile'[k]]]

(* discoverStrimziKafkas answers: the first onSessionKey, which registers the key or
   throws; or it fails, before there is a key to clean up. *)
Located(r) ==
  /\ req[r].at = "locating"
  /\ \/ /\ ~Stale(r)
        /\ registered' = Register(req[r].key)
        /\ Goto(r, "reading")
        /\ UNCHANGED <<pool, current, profile, ghosts>>
     \/ Stale(r) /\ Clean(r, "cleaning")
     \/ Rejects(r)

(* resolveStrimziCredentials answers or fails. *)
CredentialsRead(r) ==
  /\ req[r].at = "reading"
  /\ Goto(r, "resolved") \/ Goto(r, "unresolved")
  /\ UNCHANGED <<pool, registered, current, profile, ghosts>>

(* The profile that r began to load is there, for everyone who waits for it; or its load
   fails, which forgets the key's profile, be it another by now. *)
ProfileLoaded(r) ==
  /\ req[r].at = "resolving" /\ req[r].load = r
  /\ \E done \in {"resolved", "unresolved"} :
       /\ req' = [q \in Request |->
                    IF req[q].at = "resolving" /\ req[q].load = r
                    THEN [req[q] EXCEPT !.at = done, !.load = None] ELSE req[q]]
       /\ profile' = [profile EXCEPT ![req[r].key] =
                        IF done = "unresolved" THEN None ELSE IF @ = r THEN "loaded" ELSE @]
  /\ UNCHANGED <<pool, registered, current, inv, shut, ghosts>>

Unresolved(r) == req[r].at = "unresolved" /\ Failed(r)

Opening == {c \in Conn : phase'[c] = "connecting" /\ phase[c] # "connecting"}

(* The second onSessionKey, then sessions.acquire without an await between them. *)
Connect(r) ==
  LET k == req[r].key IN
  /\ req[r].at = "resolved"
  /\ \/ /\ ~Stale(r)
        /\ registered' = Register(k)
        /\ S!Acquire(r, k)
        /\ Goto(r, "connecting")
        /\ aged' = IF r \in current /\ k \notin outdated THEN aged \ Opening
                                                         ELSE aged \cup Opening
        /\ UNCHANGED <<current, profile, outdated, calm>>
     \/ Stale(r) /\ Failed(r)

(* acquire returns a lease: the target may have been invalidated meanwhile. *)
Connected(r) ==
  /\ req[r].at = "connecting" /\ client[r].at = "holding"
  /\ \/ /\ ~Stale(r) /\ Settled(r)
        /\ req' = [req EXCEPT ![r].at = "using"]
        /\ UNCHANGED <<pool, current, calm>>
     \/ Stale(r) /\ Clean(r, "dropping")

ConnectFailed(r) == req[r].at = "connecting" /\ client[r].at = "idle" /\ Failed(r)

(* The clear() of a late request is done: its throw reaches the catch, which clears the
   key again; after that the operation rejects. *)
Dropped(r) == req[r].at = "dropping" /\ client[r].at = "idle" /\ Failed(r)
Cleaned(r) == req[r].at = "cleaning" /\ client[r].at = "idle" /\ Rejects(r)

(* The handler's `finally': the connection is released. *)
Finish(r) ==
  /\ req[r].at = "using"
  /\ S!ReleaseConnection(r)
  /\ Ended(r)
  /\ UNCHANGED <<registered, profile, inv, shut, aged, outdated>>

-----------------------------------------------------------------------------
(* invalidateHealthTarget(targetKey, true) and shutdown.                    *)

Forget(K) == [k \in Key |-> IF k \in K THEN None ELSE profile[k]]

(* A new generation begins; the keys registered so far, of the health workers too, will
   be cleared. *)
Invalidate(i, t) ==
  LET keys == registered \cap KeysOf(t) IN
  /\ inv[i].at = "idle"
  /\ registered' = registered \ keys
  /\ current' = {r \in current : TargetOf[req[r].key] # t}
  /\ profile' = Forget(keys)
  /\ inv' = [inv EXCEPT ![i] = [at |-> "clearing", target |-> t, keys |-> keys, wait |-> {}]]
  /\ aged' = aged \cup {c \in Alive : TargetOf[keyOf[c]] = t}
  /\ outdated' = {k \in outdated \cup KeysOf(t) : profile'[k] # None}
  /\ calm' = calm \cap current'
  /\ UNCHANGED <<pool, req, shut>>

(* Still in the same callback: sessions.clear of each key, up to its first await. *)
ClearSession(i, k) ==
  /\ k \in inv[i].keys
  /\ S!ClearKey(<<i, k>>, k)
  /\ inv' = [inv EXCEPT ![i].keys = @ \ {k}]
  /\ UNCHANGED <<registered, current, profile, req, shut, ghosts>>

PendingNone(t) == {}
PendingUsing(t) == {r \in Request : req[r].at # "idle" /\ TargetOf[req[r].key] = t}
PendingOf(t) == {r \in Request : Resolving(r) /\ TargetOf[req[r].key] = t}

(* Every clear() has returned: the operations pending now are awaited. *)
AwaitPending(i) ==
  /\ inv[i].at = "clearing" /\ \A k \in Key : client[<<i, k>>].at = "idle"
  /\ inv' = [inv EXCEPT ![i].at = "waiting", ![i].wait = PendingOf(inv[i].target)]
  /\ UNCHANGED <<pool, registered, current, profile, req, shut, ghosts>>

Invalidated(i) ==
  /\ inv[i].at = "waiting" /\ inv[i].wait = {}
  /\ inv' = [inv EXCEPT ![i] = NoInvalidation]
  /\ UNCHANGED <<pool, registered, current, profile, req, shut, ghosts>>

AllPending == {r \in Request : Resolving(r)}

ShutdownBegins ==
  /\ shut.at = "running"
  /\ S!ClearAll(Shutdown)
  /\ registered' = {} /\ current' = {}
  /\ profile' = Forget(Key)
  /\ shut' = [at |-> "clearing", wait |-> AllPending]
  /\ aged' = aged \cup Alive /\ outdated' = {} /\ calm' = {}
  /\ UNCHANGED <<req, inv>>

ShutdownClears ==
  /\ shut.at = "clearing" /\ shut.wait = {} /\ client[Shutdown].at = "idle"
  /\ S!ClearAll(Shutdown)
  /\ shut' = [shut EXCEPT !.at = "final"]
  /\ UNCHANGED <<registered, current, profile, req, inv, ghosts>>

ShutdownEnds ==
  /\ shut.at = "final" /\ client[Shutdown].at = "idle"
  /\ shut' = [shut EXCEPT !.at = "done"]
  /\ UNCHANGED <<pool, registered, current, profile, req, inv, ghosts>>

-----------------------------------------------------------------------------
(* The event loop.                                                         *)

Clearing == \E i \in Invalidation : inv[i].keys # {}
Draining == \E p \in Caller : S!Draining(p)

(* A continuation is ready: its promise has settled. *)
CallerReady(p) ==
  LET x == client[p] IN
  \/ x.at = "waiting" /\ phase[x.conn] \in {"rejected", "ready", "open"}
  \/ x.at = "releasing" /\ x.on = None
  \/ x.at \in {"acquiring", "releasing"} /\ x.on # None /\ phase[x.on] = "closed"
  \/ x.at = "clearing" /\ S!Disconnected(p)
       /\ (x.todo # {} \/ \A c \in x.joined : phase[c] \notin S!Unsettled)

RequestReady(r) ==
  \/ req[r].at \in {"resolved", "unresolved"}
  \/ req[r].at = "connecting" /\ client[r].at \in {"holding", "idle"}
  \/ req[r].at \in {"dropping", "cleaning"} /\ client[r].at = "idle"

InvalidationReady(i) ==
  \/ inv[i].at = "clearing" /\ \A k \in Key : client[<<i, k>>].at = "idle"
  \/ inv[i].at = "waiting" /\ inv[i].wait = {}

ShutdownReady ==
  shut.at \in {"clearing", "final"} /\ shut.wait = {} /\ client[Shutdown].at = "idle"

Quiet ==
  /\ ~Clearing
  /\ \A p \in Caller : ~CallerReady(p)
  /\ \A r \in Request : ~RequestReady(r)
  /\ \A i \in Invalidation : ~InvalidationReady(i)
  /\ ~ShutdownReady

Session(A) == A /\ UNCHANGED <<own, ghosts>>

Answers(r) == Located(r) \/ CredentialsRead(r) \/ ProfileLoaded(r)
Resumes(r) == Unresolved(r) \/ Connect(r) \/ Connected(r) \/ ConnectFailed(r) \/ Dropped(r)
                \/ Cleaned(r)
Goes(i) == AwaitPending(i) \/ Invalidated(i)
Ends == ShutdownClears \/ ShutdownEnds

Continuation ==
  \/ \E i \in Invalidation, k \in Key : ClearSession(i, k)
  \/ \E p \in Caller : S!Draining(p) /\ Session(S!Resume(p))
  \/ /\ ~Clearing /\ ~Draining
     /\ \/ \E p \in Caller : Session(S!Continue(p))
        \/ \E r \in Request : Resumes(r)
        \/ \E i \in Invalidation : Goes(i)
        \/ Ends

(* A connect and a disconnect may also end within microtasks: a direct connection opens no
   socket before its first use. *)
Network(c) == Session(S!Settle(c)) \/ Session(S!DisconnectDone(c))

Message ==
  \/ \E r \in Request, k \in Key : Begin(r, k)
  \/ \E r \in Request : Answers(r) \/ Finish(r)
  \/ \E i \in Invalidation, t \in Target : Invalidate(i, t)
  \/ ShutdownBegins
  \/ \E c \in Conn : Session(S!IdleFires(c))

Next ==
  \/ Continuation
  \/ ~Clearing /\ ~Draining /\ \E c \in Conn : Network(c)
  \/ Quiet /\ Message

Spec == Init /\ [][Next]_vars

(* The queue of microtasks always drains.  Connects, disconnects and the reads of
   credentials end, each has its timeout, and the event loop delivers their message in its
   turn.  Nobody has to begin a request, to finish with a connection or to invalidate. *)
Fairness ==
  /\ WF_vars(Continuation)
  /\ \A c \in Conn : WF_vars(Network(c))
  /\ \A r \in Request : WF_vars(Answers(r))

FairSpec == Spec /\ Fairness

-----------------------------------------------------------------------------
(* Properties.                                                             *)

(* When a closing invalidation of a target has returned, no connection of that target is
   left that was begun before it or with credentials read before it, pooled or still on
   its way: the registry, the generations and the wait for pending operations together
   (SPEC-014: "rejects late connection resolution before it can reinstall a session"). *)
InvalidationIsFinal ==
  \A c \in aged \cap Alive :
    \/ \E i \in Invalidation : inv[i].target = TargetOf[keyOf[c]]
    \/ shut.at \in {"clearing", "final"}

(* What is open or will be is known to the registry, or somebody is about to close it: an
   invalidation overlooks no session. *)
InvalidationFindsAll ==
  \A c \in Alive \ stale :
    \/ keyOf[c] \in registered
    \/ \E i \in Invalidation : keyOf[c] \in inv[i].keys
    \/ c \in client[Shutdown].todo
    \/ \E r \in Request : Resolving(r) /\ Stale(r) /\ req[r].key = keyOf[c]

(* A request nothing invalidated has to do with is never given, and never left with, a
   connection that somebody else's clean-up closes, nor does it join a connect that will
   be rejected. *)
CalmUnharmed ==
  \A r \in calm :
    /\ client[r].at = "waiting" => client[r].conn \notin stale
    /\ client[r].at \in {"acquiring", "holding"} => phase[client[r].conn] = "open"

(* When shutdown returns, no connection is open or will be, and no operation is left
   (REQ-229). *)
ShutdownLeavesNothing ==
  shut.at = "done" => Alive = {} /\ \A r \in Request : ~Resolving(r)

(* All three: what is closed stays closed, whatever was on its way. *)
ClosingIsFinal == InvalidationIsFinal /\ InvalidationFindsAll /\ ShutdownLeavesNothing

(* The operations, the invalidations that wait for them and the shutdown that waits for
   all of them come to an end. *)
EveryWaitEnds ==
  /\ \A r \in Request : Resolving(r) ~> ~Resolving(r)
  /\ \A i \in Invalidation : inv[i].at # "idle" ~> inv[i].at = "idle"
  /\ closed ~> shut.at = "done"

=============================================================================
