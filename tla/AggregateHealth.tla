--------------------------- MODULE AggregateHealth ---------------------------
(***************************************************************************)
(* KafkaAggregateHealthManager (src/main/kafka/aggregate-health-manager.ts) *)
(* and the health requests of KafkaIpcMain (src/main/ipc.ts): one worker   *)
(* measures the health of a cluster for every request that asks; refreshes *)
(* cancel it, security changes and removals of the target end it, and a    *)
(* request that finds cancelled work waits for it and loads again.         *)
(*                                                                         *)
(* A worker that settles takes its subscribers' continuations with it, up  *)
(* to the snapshot they store: all are microtasks of one promise.  What    *)
(* the workers measure is not modelled.  An entry that was deleted is      *)
(* forgotten: its worker is cancelled and can publish nothing.             *)
(***************************************************************************)
EXTENDS Naturals, FiniteSets

CONSTANTS
  Target, Key,  \* targets, and the worker keys of their security generations
  TargetOf,     \* TargetOf[k]: a worker key names its context and target
  Request,      \* concurrent health requests
  Worker,       \* worker identities; bounds the workers that run at a time
  MaxEntries,   \* options.maxEntries, at least 1
  None

ASSUME HealthAssumption ==
  /\ TargetOf \in [Key -> Target]
  /\ IsFiniteSet(Key)
  /\ MaxEntries \in Nat \ {0}
  /\ None \notin Key \cup Worker

VARIABLES
  entries,    \* keys with an entry
  older,      \* <<a, b>>: a's lastUsedAt is before b's, for entries a and b
  fresh,      \* entries whose data has not expired
  inFlight,   \* inFlight[k]: entry.inFlight
  listeners,  \* listeners[k]: requests in entry.listeners
  work,       \* work[w]: the key w measures, or None when it has settled
  cancelled,  \* workers whose signal is aborted
  known,      \* healthWorkersByTarget: the worker keys of each target
  req,        \* req[r]: the health request r is in
  current,    \* connecting requests that no closing invalidation has overtaken
  stored,     \* stored[t]: the persisted snapshot, "old" if of before t was last closed
  closing,    \* closing[t]: the closing invalidation of t that is under way
  shut,       \* KafkaIpcMain.shutdown
  ended,      \* workers that a closing invalidation or the shutdown took from their entry
  evicted,    \* workers whose entry was evicted
  former      \* requests that began before their target was last closed

manager == <<entries, older, fresh, inFlight, listeners, work, cancelled>>
ghosts == <<ended, evicted, former>>
vars == <<manager, known, req, current, stored, closing, shut, ghosts>>

(* "loading" waits for a worker it has subscribed to, "waiting" for a cancelled one to
   settle, and "replacing" is about to load again. *)
RequestState ==
  [at : {"idle", "connecting", "loading", "waiting", "replacing"},
   key : Key \cup {None}, force : BOOLEAN, on : Worker \cup {None}]

NoRequest == [at |-> "idle", key |-> None, force |-> FALSE, on |-> None]
Asking(place, k, force, w) == [at |-> place, key |-> k, force |-> force, on |-> w]

TypeOK ==
  /\ entries \in SUBSET Key /\ fresh \in SUBSET entries
  /\ Cardinality(entries) <= MaxEntries
  /\ older \in SUBSET (entries \X entries)
  /\ inFlight \in [Key -> Worker \cup {None}]
  /\ listeners \in [Key -> SUBSET Request]
  /\ work \in [Worker -> Key \cup {None}]
  /\ cancelled \in SUBSET Worker
  /\ known \in [Target -> SUBSET Key]
  /\ req \in [Request -> RequestState]
  /\ current \in SUBSET Request /\ stored \in [Target -> {"no", "old", "new"}]
  /\ closing \in [Target -> {"no", "security", "removal"}]
  /\ shut \in {"running", "closing", "done"}
  /\ ended \in SUBSET Worker /\ evicted \in SUBSET Worker /\ former \in SUBSET Request

Init ==
  /\ entries = {} /\ older = {} /\ fresh = {}
  /\ inFlight = [k \in Key |-> None] /\ listeners = [k \in Key |-> {}]
  /\ work = [w \in Worker |-> None] /\ cancelled = {}
  /\ known = [t \in Target |-> {}]
  /\ req = [r \in Request |-> NoRequest] /\ current = {}
  /\ stored = [t \in Target |-> "no"] /\ closing = [t \in Target |-> "no"] /\ shut = "running"
  /\ ended = {} /\ evicted = {} /\ former = {}

Running == {w \in Worker : work[w] # None}
WorkersOf(K) == {inFlight[k] : k \in K} \ {None}
OfTarget(t) == {r \in Request : req[r].at # "idle" /\ TargetOf[req[r].key] = t}

-----------------------------------------------------------------------------
(* The entries.                                                            *)

Touch(rec, k, E) == {x \in rec : k \notin {x[1], x[2]}} \cup {<<j, k>> : j \in E \ {k}}
Among(rec, E) == {x \in rec : {x[1], x[2]} \subseteq E}

(* What evictIfNeeded(k) leaves of the entries E: the last used, and k. *)
KeptAll(E, k, rec) == {E}
Kept(E, k, rec) ==
  {K \in SUBSET E :
    /\ k \in K
    /\ Cardinality(K) = IF Cardinality(E) < MaxEntries THEN Cardinality(E) ELSE MaxEntries
    /\ \A a \in E \ K, b \in K \ {k} : <<a, b>> \in rec}

(* invalidateEntry of the entries of K: their work is cancelled, their data no more fresh,
   their listeners forgotten. *)
AbortNothing(K) == UNCHANGED cancelled
AbortWork(K) == cancelled' = cancelled \cup WorkersOf(K)

Invalidate(K) ==
  /\ AbortWork(K)
  /\ fresh' = fresh \ K
  /\ listeners' = [k \in Key |-> IF k \in K THEN {} ELSE listeners[k]]
  /\ UNCHANGED <<entries, older, inFlight, work>>

(* remove() of the entries of K. *)
Remove(K) ==
  /\ AbortWork(K)
  /\ entries' = entries \ K
  /\ older' = Among(older, entries \ K)
  /\ fresh' = fresh \ K
  /\ inFlight' = [k \in Key |-> IF k \in K THEN None ELSE inFlight[k]]
  /\ listeners' = [k \in Key |-> IF k \in K THEN {} ELSE listeners[k]]
  /\ ended' = ended \cup WorkersOf(K)
  /\ UNCHANGED <<work, evicted>>

-----------------------------------------------------------------------------
(* load(key, loader, report, force)                                        *)

Subscribes(w) == IF w \in cancelled THEN "waiting" ELSE "loading"

BusyUncancelled(k) == inFlight[k] # None /\ inFlight[k] \notin cancelled
Busy(k) == inFlight[k] # None

HearNot(k, r) == listeners
Hear(k, r) == [listeners EXCEPT ![k] = @ \cup {r}]

(* persistentStore.setItem, by the requests R. *)
Store(t, R) == stored' = [stored EXCEPT ![t] = IF R \subseteq former THEN "old" ELSE "new"]

(* Fresh data answers at once; the handler reads them again and stores them. *)
LoadCached(r, k, rec) ==
  /\ older' = Touch(rec, k, entries)
  /\ listeners' = [listeners EXCEPT ![k] = @ \ {r}]
  /\ req' = [req EXCEPT ![r] = NoRequest]
  /\ Store(TargetOf[k], {r})
  /\ UNCHANGED <<entries, fresh, inFlight, work, cancelled, evicted>>

(* There is work in flight: share it, or wait until it is cancelled. *)
LoadShared(r, k, force, rec) ==
  /\ older' = rec
  /\ listeners' = Hear(k, r)
  /\ req' = [req EXCEPT ![r] = Asking(Subscribes(inFlight[k]), k, force, inFlight[k])]
  /\ UNCHANGED <<entries, fresh, inFlight, work, cancelled, stored, evicted>>

(* There is none: begin, and evict other entries, whatever they are doing. *)
LoadStarts(r, k, force, w, rec) ==
  LET all == entries \cup {k}
      used == Touch(rec, k, all)
  IN
  \E kept \in Kept(all, k, used) :
    /\ entries' = kept
    /\ older' = Among(used, kept)
    /\ fresh' = fresh \cap kept
    /\ inFlight' = [j \in Key |-> IF j = k THEN w ELSE IF j \in kept THEN inFlight[j] ELSE None]
    /\ listeners' = [j \in Key |-> IF j = k THEN Hear(k, r)[k]
                                   ELSE IF j \in kept THEN listeners[j] ELSE {}]
    /\ work' = [work EXCEPT ![w] = k]
    /\ AbortWork(all \ kept)
    /\ evicted' = evicted \cup WorkersOf(all \ kept)
    /\ req' = [req EXCEPT ![r] = Asking("loading", k, force, w)]
    /\ UNCHANGED stored

Load(r, k, force, rec) ==
  \/ k \in fresh /\ ~force /\ LoadCached(r, k, rec)
  \/ (k \notin fresh \/ force) /\ Busy(k) /\ LoadShared(r, k, force, rec)
  \/ /\ (k \notin fresh \/ force) /\ ~Busy(k)
     /\ \E w \in Worker \ Running : LoadStarts(r, k, force, w, rec)

-----------------------------------------------------------------------------
(* The health handler.                                                     *)

(* A request begins; a refresh invalidates the workers its target is known to have. *)
Begin(r, k, force) ==
  LET t == TargetOf[k] IN
  /\ req[r].at = "idle" /\ shut = "running"
  /\ req' = [req EXCEPT ![r] = Asking("connecting", k, force, None)]
  /\ current' = current \cup {r}
  /\ IF force THEN Invalidate(known[t] \cap entries) /\ known' = [known EXCEPT ![t] = {}]
              ELSE UNCHANGED <<manager, known>>
  /\ former' = former \ {r}
  /\ UNCHANGED <<stored, closing, shut, ended, evicted>>

(* resolveConnection answers.  From there to the await of load the handler runs through:
   the target knows the worker key, a request that does not refresh reads the entry. *)
Connected(r) ==
  LET k == req[r].key IN
  /\ req[r].at = "connecting" /\ r \in current
  /\ current' = current \ {r}
  /\ known' = [known EXCEPT ![TargetOf[k]] = @ \cup {k}]
  /\ Load(r, k, req[r].force,
          IF ~req[r].force /\ k \in entries THEN Touch(older, k, entries) ELSE older)
  /\ UNCHANGED <<closing, shut, ended, former>>

(* It fails, as it must when a closing invalidation has overtaken it (see KafkaIpcMain). *)
ConnectFails(r) ==
  /\ req[r].at = "connecting"
  /\ req' = [req EXCEPT ![r] = NoRequest]
  /\ current' = current \ {r}
  /\ UNCHANGED <<manager, known, stored, closing, shut, ghosts>>

(* The cancelled work is over: load again. *)
Replace(r) ==
  /\ req[r].at = "replacing"
  /\ Load(r, req[r].key, req[r].force, older)
  /\ UNCHANGED <<known, current, closing, shut, ended, former>>

-----------------------------------------------------------------------------
(* The worker ends.                                                        *)

Forget(w) ==
  /\ work' = [work EXCEPT ![w] = None]
  /\ cancelled' = cancelled \ {w}
  /\ ended' = ended \ {w} /\ evicted' = evicted \ {w}
  /\ UNCHANGED <<known, current, closing, shut, former>>

(* Whoever has subscribed has its answer or its error, whoever waited goes on. *)
Release(w) ==
  req' = [r \in Request |->
            IF req[r].on # w THEN req[r]
            ELSE IF req[r].at = "loading" THEN NoRequest
            ELSE [req[r] EXCEPT !.at = "replacing", !.on = None]]

(* Its own `finally': nothing is in flight, nobody listens. *)
Finish(k) ==
  /\ inFlight' = [inFlight EXCEPT ![k] = None]
  /\ listeners' = [listeners EXCEPT ![k] = {}]

(* The data are cached, and stored by every subscriber. *)
Succeeds(w) ==
  LET k == work[w] IN
  /\ w \in Running \ cancelled
  /\ Forget(w) /\ Release(w) /\ Finish(k)
  /\ fresh' = fresh \cup {k}
  /\ older' = Touch(older, k, entries)
  /\ Store(TargetOf[k], {r \in Request : req[r].on = w})
  /\ UNCHANGED entries

(* Data of before are kept, and stay fresh if they were. *)
Fails(w) ==
  /\ w \in Running \ cancelled
  /\ Forget(w) /\ Release(w) /\ Finish(work[w])
  /\ UNCHANGED <<entries, older, fresh, stored>>

VacateNot(w) == inFlight
Vacate(w) == [k \in Key |-> IF inFlight[k] = w THEN None ELSE inFlight[k]]

(* Cancelled work rejects, whatever it measured. *)
CancelledSettles(w) ==
  /\ w \in Running \cap cancelled
  /\ Forget(w) /\ Release(w)
  /\ inFlight' = Vacate(w)
  /\ UNCHANGED <<entries, older, fresh, listeners, stored>>

Settle(w) == Succeeds(w) \/ Fails(w) \/ CancelledSettles(w)

(* entry.expiresAt passes. *)
Expire(k) ==
  /\ k \in fresh
  /\ fresh' = fresh \ {k}
  /\ UNCHANGED <<entries, older, inFlight, listeners, work, cancelled, known, req, current,
                 stored, closing, shut, ghosts>>

-----------------------------------------------------------------------------
(* healthInvalidate with closeSessions, of a target whose security was changed or that was
   removed; and shutdown.  Sessions and connecting requests are KafkaIpcMain's: here they
   take time and reject the requests they overtake. *)

CloseBegins(t, why) ==
  /\ closing[t] = "no"
  /\ Remove(known[t] \cap entries)
  /\ known' = [known EXCEPT ![t] = {}]
  /\ current' = current \ OfTarget(t)
  /\ closing' = [closing EXCEPT ![t] = why]
  /\ former' = former \cup OfTarget(t)
  /\ stored' = [stored EXCEPT ![t] = IF @ = "no" THEN "no" ELSE "old"]
  /\ UNCHANGED <<req, shut>>

Overtaken == {r \in Request : req[r].at = "connecting" /\ r \notin current}

(* Only a removal asks to delete the persisted snapshot. *)
CloseEnds(t) ==
  /\ closing[t] # "no" /\ Overtaken \cap OfTarget(t) = {}
  /\ closing' = [closing EXCEPT ![t] = "no"]
  /\ stored' = IF closing[t] = "removal" THEN [stored EXCEPT ![t] = "no"] ELSE stored
  /\ UNCHANGED <<manager, known, req, current, shut, ghosts>>

ShutdownBegins ==
  /\ shut = "running"
  /\ Remove(entries)
  /\ known' = [t \in Target |-> {}]
  /\ current' = {}
  /\ shut' = "closing"
  /\ UNCHANGED <<req, stored, closing, former>>

ShutdownEnds ==
  /\ shut = "closing" /\ Overtaken = {}
  /\ shut' = "done"
  /\ UNCHANGED <<manager, known, req, current, stored, closing, ghosts>>

-----------------------------------------------------------------------------
(* Requests that load again are microtasks of the promise that settled: they come first. *)
Quiet == \A r \in Request : req[r].at # "replacing"

Message ==
  \/ \E r \in Request, k \in Key, force \in BOOLEAN : Begin(r, k, force)
  \/ \E r \in Request : Connected(r) \/ ConnectFails(r)
  \/ \E w \in Worker : Settle(w)
  \/ \E k \in Key : Expire(k)
  \/ \E t \in Target : (\E why \in {"security", "removal"} : CloseBegins(t, why)) \/ CloseEnds(t)
  \/ ShutdownBegins \/ ShutdownEnds

Next == (\E r \in Request : Replace(r)) \/ (Quiet /\ Message)

Spec == Init /\ [][Next]_vars

(* Microtasks run, and a worker settles: it has a timeout, and aborting it disconnects its
   admin client. *)
Fairness ==
  /\ \A r \in Request : WF_vars(Replace(r))
  /\ \A w \in Worker : WF_vars(Quiet /\ Settle(w))

FairSpec == Spec /\ Fairness

-----------------------------------------------------------------------------
(* Properties.                                                             *)

(* A worker that is not cancelled is its key's work in flight, so that a key has at most
   one and an invalidation of the key can cancel it. *)
LiveWorkerOwned == \A w \in Running \ cancelled : inFlight[work[w]] = w

(* Work that is replaced has settled: as long as its entry is not evicted or removed, a key
   has one worker, cancelled or not. *)
ReplacedInTurn ==
  \A v, w \in Running \ (ended \cup evicted) : work[v] = work[w] => v = w

(* Whoever waits for live work hears of its progress, although refreshes forget the
   listeners; and nobody does who no longer waits. *)
WaitersHear ==
  \A k \in Key :
    /\ \A r \in Request :
         req[r].at = "loading" /\ req[r].key = k /\ req[r].on \notin cancelled => r \in listeners[k]
    /\ \A r \in listeners[k] : req[r].key = k /\ req[r].at \in {"loading", "waiting", "replacing"}

(* Every load ends, in an answer or an error, unless running work is taken from its entry
   again and again: then a request can find cancelled work each time it loads. *)
EveryLoadEnds ==
  \/ []<>(ended \cup evicted # {})
  \/ \A r \in Request : req[r].at \in {"loading", "waiting", "replacing"} ~> req[r].at = "idle"

(* The documents' claims. *)

(* One worker at a time measures a target in one security generation, and a worker that is
   replaced has settled (SPEC-014, REQ-188).  A closing invalidation ends the generation. *)
OneWorkerPerGeneration == \A v, w \in Running \ ended : work[v] = work[w] => v = w

(* A deactivation leaves no health worker (SPEC-019, REQ-229), but for those that are being
   cancelled. *)
ShutdownLeavesNoWorker == shut = "done" => Running \subseteq cancelled

(* Once the invalidation of a changed or removed target has returned, no record of before
   is stored, and none comes back (SPEC-014: "Security changes and target removal ...
   delete the target's persisted aggregate record"). *)
ClosedRecordDeleted == \A t \in Target : stored[t] = "old" => closing[t] # "no"

=============================================================================
