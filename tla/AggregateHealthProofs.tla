------------------------ MODULE AggregateHealthProofs ------------------------
(***************************************************************************)
(* What TLAPS proves of AggregateHealth, for any targets, keys, requests,  *)
(* workers and size of the cache.  The inductive invariant says which      *)
(* worker an entry names (Mapped), that every running worker is named by   *)
(* its key's entry unless it was taken from it, which cancelled it         *)
(* (Owned), and what a waiting request waits for (Waits, Hears).           *)
(***************************************************************************)
EXTENDS AggregateHealth, FiniteSetTheorems, TLAPS

Mapped ==
  \A k \in Key : inFlight[k] # None => k \in entries /\ work[inFlight[k]] = k

Owned ==
  /\ cancelled \subseteq Running
  /\ ended \cup evicted \subseteq cancelled
  /\ \A w \in Running \ (ended \cup evicted) : inFlight[work[w]] = w

Waits ==
  \A r \in Request :
    /\ req[r].at # "idle" => req[r].key \in Key
    /\ req[r].at \in {"loading", "waiting"} =>
         req[r].on \in Running /\ work[req[r].on] = req[r].key
    /\ req[r].at \notin {"loading", "waiting"} => req[r].on = None

Hears ==
  \A r \in Request :
    /\ req[r].at = "loading" => (r \in listeners[req[r].key] <=> req[r].on \notin cancelled)
    /\ \A k \in Key : r \in listeners[k] =>
         req[r].key = k /\ req[r].at \in {"loading", "waiting", "replacing"}

IInv == TypeOK /\ Mapped /\ Owned /\ Waits /\ Hears

-----------------------------------------------------------------------------
(* The operators of the entries.                                           *)

LEMMA WorkersOfEntries ==
  ASSUME TypeOK, NEW K \in SUBSET Key
  PROVE  WorkersOf(K) \in SUBSET Worker
BY DEF WorkersOf, TypeOK

(* A smaller cache is within its bound. *)
LEMMA FewerEntries ==
  ASSUME TypeOK, NEW E \in SUBSET entries
  PROVE  Cardinality(E) <= MaxEntries
<1>1. IsFiniteSet(entries)
  BY HealthAssumption, FS_Subset DEF TypeOK
<1>2. Cardinality(E) \in Nat /\ Cardinality(entries) \in Nat /\ Cardinality(E) <= Cardinality(entries)
  BY <1>1, FS_Subset, FS_CardinalityType
<1>. QED
  BY <1>2, HealthAssumption DEF TypeOK

(* evictIfNeeded keeps at most the maximum, and the key it protects. *)
LEMMA KeptBound ==
  ASSUME NEW E \in SUBSET Key, NEW k, NEW rec, NEW kept \in Kept(E, k, rec)
  PROVE  kept \in SUBSET E /\ k \in kept /\ Cardinality(kept) <= MaxEntries
<1>1. IsFiniteSet(E)
  BY HealthAssumption, FS_Subset
<1>2. Cardinality(E) \in Nat
  BY <1>1, FS_CardinalityType
<1>. QED
  BY <1>2, HealthAssumption DEF Kept

LEMMA TouchType ==
  ASSUME NEW E, NEW rec \in SUBSET (E \X E), NEW k \in E
  PROVE  Touch(rec, k, E) \in SUBSET (E \X E)
BY DEF Touch

LEMMA TouchGrows ==
  ASSUME NEW E, NEW rec \in SUBSET (E \X E), NEW k
  PROVE  Touch(rec, k, E \cup {k}) \in SUBSET ((E \cup {k}) \X (E \cup {k}))
BY DEF Touch

LEMMA AmongType ==
  ASSUME NEW D, NEW rec \in SUBSET (D \X D), NEW E
  PROVE  Among(rec, E) \in SUBSET (E \X E)
BY DEF Among

LEMMA AskingFields ==
  ASSUME NEW place, NEW k, NEW force, NEW w
  PROVE  /\ Asking(place, k, force, w).at = place /\ Asking(place, k, force, w).key = k
         /\ Asking(place, k, force, w).force = force /\ Asking(place, k, force, w).on = w
BY DEF Asking

LEMMA AskingType ==
  ASSUME NEW place \in {"idle", "connecting", "loading", "waiting", "replacing"},
         NEW k \in Key \cup {None}, NEW force \in BOOLEAN, NEW w \in Worker \cup {None}
  PROVE  Asking(place, k, force, w) \in RequestState
BY DEF Asking, RequestState

LEMMA NoRequestFields ==
  /\ NoRequest \in RequestState
  /\ NoRequest.at = "idle" /\ NoRequest.key = None /\ NoRequest.on = None
BY DEF NoRequest, RequestState

-----------------------------------------------------------------------------
(* invalidate and remove.                                                  *)

LEMMA InvalidateKeeps ==
  ASSUME IInv, NEW K \in SUBSET Key, Invalidate(K)
  PROVE  /\ entries' = entries /\ older' = older /\ inFlight' = inFlight /\ work' = work
         /\ fresh' \in SUBSET entries'
         /\ listeners' \in [Key -> SUBSET Request]
         /\ cancelled' \in SUBSET Running
         /\ cancelled \subseteq cancelled'
         /\ \A r \in Request : req[r].at = "loading" =>
              (r \in listeners'[req[r].key] <=> req[r].on \notin cancelled')
         /\ \A k \in Key : listeners'[k] \subseteq listeners[k]
<1>1. /\ cancelled' = cancelled \cup WorkersOf(K)
      /\ entries' = entries /\ older' = older /\ inFlight' = inFlight /\ work' = work
      /\ fresh' = fresh \ K
      /\ \A k \in Key : listeners'[k] = IF k \in K THEN {} ELSE listeners[k]
      /\ listeners' \in [Key -> SUBSET Request]
  BY DEF Invalidate, AbortWork, IInv, TypeOK
<1>2. WorkersOf(K) \subseteq Running
  BY HealthAssumption DEF WorkersOf, Running, IInv, TypeOK, Mapped
<1>3. cancelled' \in SUBSET Running
  BY <1>1, <1>2 DEF IInv, Owned
<1>4. ASSUME NEW r \in Request, req[r].at = "loading"
      PROVE  r \in listeners'[req[r].key] <=> req[r].on \notin cancelled'
  <2>1. /\ req[r].key \in Key /\ req[r].on \in Running /\ work[req[r].on] = req[r].key
        /\ r \in listeners[req[r].key] <=> req[r].on \notin cancelled
    BY <1>4 DEF IInv, Waits, Hears
  <2>2. req[r].on \in WorkersOf(K) => req[r].key \in K
    BY <2>1 DEF WorkersOf, IInv, Mapped, TypeOK
  <2>3. req[r].key \in K /\ req[r].on \notin cancelled => req[r].on \in WorkersOf(K)
    <3>. SUFFICES ASSUME req[r].key \in K, req[r].on \notin cancelled
                  PROVE  req[r].on \in WorkersOf(K)
      OBVIOUS
    <3>1. inFlight[req[r].key] = req[r].on
      BY <2>1 DEF IInv, Owned
    <3>2. req[r].on # None
      BY <2>1, HealthAssumption DEF Running
    <3>. QED
      BY <3>1, <3>2 DEF WorkersOf
  <2>. QED
    BY <1>1, <2>1, <2>2, <2>3
<1>. QED
  BY <1>1, <1>3, <1>4 DEF IInv, TypeOK

LEMMA RemoveKeeps ==
  ASSUME IInv, NEW K \in SUBSET entries, Remove(K), req' = req
  PROVE  /\ entries' \in SUBSET entries /\ fresh' \in SUBSET entries'
         /\ older' \in SUBSET (entries' \X entries')
         /\ inFlight' \in [Key -> Worker \cup {None}] /\ listeners' \in [Key -> SUBSET Request]
         /\ cancelled' \in SUBSET Worker /\ ended' \in SUBSET Worker
         /\ work' = work /\ evicted' = evicted
         /\ Mapped' /\ Owned' /\ Waits' /\ Hears'
<1>. K \in SUBSET Key
  BY DEF IInv, TypeOK
<1>1. /\ cancelled' = cancelled \cup WorkersOf(K) /\ ended' = ended \cup WorkersOf(K)
      /\ entries' = entries \ K /\ fresh' = fresh \ K /\ older' = Among(older, entries')
      /\ inFlight' = [k \in Key |-> IF k \in K THEN None ELSE inFlight[k]]
      /\ listeners' = [k \in Key |-> IF k \in K THEN {} ELSE listeners[k]]
      /\ work' = work /\ evicted' = evicted
  BY DEF Remove, AbortWork
<1>2. older' \in SUBSET (entries' \X entries')
  BY <1>1 DEF Among, IInv, TypeOK
<1>3. /\ inFlight' \in [Key -> Worker \cup {None}] /\ listeners' \in [Key -> SUBSET Request]
      /\ fresh' \in SUBSET entries'
  BY <1>1 DEF IInv, TypeOK
<1>4. WorkersOf(K) \in SUBSET Worker /\ WorkersOf(K) \subseteq Running
  BY HealthAssumption DEF WorkersOf, Running, IInv, TypeOK, Mapped
<1>5. Running' = Running
  BY <1>1 DEF Running
<1>6. Mapped'
  BY <1>1 DEF IInv, Mapped
<1>7. Owned'
  <2>1. cancelled' \subseteq Running' /\ (ended \cup evicted)' \subseteq cancelled'
    BY <1>1, <1>4, <1>5 DEF IInv, Owned
  <2>2. ASSUME NEW w \in Running' \ (ended \cup evicted)'  PROVE inFlight'[work'[w]] = w
    <3>1. w \in Running \ (ended \cup evicted) /\ w \notin WorkersOf(K) /\ work[w] \in Key
      BY <1>1, <1>5, <2>2 DEF Running, IInv, TypeOK
    <3>2. inFlight[work[w]] = w /\ w # None
      BY <3>1, HealthAssumption DEF IInv, Owned, Running
    <3>3. work[w] \notin K
      BY <3>1, <3>2 DEF WorkersOf
    <3>. QED
      BY <1>1, <3>1, <3>2, <3>3
  <2>. QED
    BY <2>1, <2>2 DEF Owned
<1>8. Waits'
  BY <1>1, <1>5 DEF IInv, Waits
<1>9. Hears'
  <2>1. ASSUME NEW r \in Request, req[r].at = "loading"
        PROVE  r \in listeners'[req[r].key] <=> req[r].on \notin cancelled'
    <3>1. /\ req[r].key \in Key /\ req[r].on \in Running /\ work[req[r].on] = req[r].key
          /\ r \in listeners[req[r].key] <=> req[r].on \notin cancelled
      BY <2>1 DEF IInv, Waits, Hears
    <3>2. req[r].on \in WorkersOf(K) => req[r].key \in K
      BY <3>1 DEF WorkersOf, IInv, Mapped, TypeOK
    <3>3. ASSUME req[r].key \in K, req[r].on \notin cancelled  PROVE req[r].on \in WorkersOf(K)
      <4>1. inFlight[req[r].key] = req[r].on /\ req[r].on # None
        BY <3>1, <3>3, HealthAssumption DEF IInv, Owned, Running
      <4>. QED
        BY <3>3, <4>1 DEF WorkersOf
    <3>. QED
      BY <1>1, <3>1, <3>2, <3>3
  <2>2. ASSUME NEW r \in Request, NEW k \in Key, r \in listeners'[k]
        PROVE  req[r].key = k /\ req[r].at \in {"loading", "waiting", "replacing"}
    BY <1>1, <2>2 DEF IInv, Hears
  <2>. QED
    BY <2>1, <2>2 DEF Hears
<1>10. cancelled' \in SUBSET Worker /\ ended' \in SUBSET Worker /\ entries' \in SUBSET entries
  BY <1>1, <1>4 DEF IInv, TypeOK
<1>. QED
  BY <1>1, <1>2, <1>3, <1>6, <1>7, <1>8, <1>9, <1>10

-----------------------------------------------------------------------------
(* load.                                                                   *)

LEMMA LoadCachedKeeps ==
  ASSUME IInv, NEW r \in Request, NEW k \in fresh, req[r].key = k,
         NEW rec \in SUBSET (entries \X entries), LoadCached(r, k, rec), ended' = ended
  PROVE  /\ older' \in SUBSET (entries' \X entries') /\ listeners' \in [Key -> SUBSET Request]
         /\ req' \in [Request -> RequestState] /\ stored' \in [Target -> {"no", "old", "new"}]
         /\ <<entries, fresh, inFlight, work, cancelled, evicted>>'
              = <<entries, fresh, inFlight, work, cancelled, evicted>>
         /\ Mapped' /\ Owned' /\ Waits' /\ Hears'
<1>. k \in entries /\ k \in Key
  BY DEF IInv, TypeOK
<1>1. /\ <<entries, fresh, inFlight, work, cancelled, evicted>>'
           = <<entries, fresh, inFlight, work, cancelled, evicted>>
      /\ older' = Touch(rec, k, entries)
      /\ listeners' = [listeners EXCEPT ![k] = @ \ {r}]
      /\ req' = [req EXCEPT ![r] = NoRequest]
      /\ stored' \in [Target -> {"no", "old", "new"}]
  BY DEF LoadCached, Store, IInv, TypeOK
<1>2. older' \in SUBSET (entries' \X entries')
  BY <1>1, TouchType
<1>3. listeners' \in [Key -> SUBSET Request] /\ req' \in [Request -> RequestState]
  BY <1>1, NoRequestFields DEF IInv, TypeOK
<1>4. Mapped' /\ Owned' /\ Running' = Running
  BY <1>1 DEF IInv, Mapped, Owned, Running
<1>5. \A q \in Request : req'[q] = IF q = r THEN NoRequest ELSE req[q]
  BY <1>1 DEF IInv, TypeOK
<1>6. \A j \in Key : listeners'[j] = IF j = k THEN listeners[k] \ {r} ELSE listeners[j]
  BY <1>1 DEF IInv, TypeOK
<1>7. Waits'
  BY <1>1, <1>4, <1>5, NoRequestFields DEF IInv, Waits
<1>8. Hears'
  <2>1. \A j \in Key : r \notin listeners'[j]
    BY <1>6 DEF IInv, Hears
  <2>. QED
    BY <1>1, <1>5, <1>6, <2>1, NoRequestFields DEF IInv, Hears, Waits
<1>. QED
  BY <1>1, <1>2, <1>3, <1>4, <1>7, <1>8

LEMMA LoadSharedKeeps ==
  ASSUME IInv, NEW r \in Request, NEW k \in Key, req[r].key = k, NEW force \in BOOLEAN, Busy(k),
         NEW rec \in SUBSET (entries \X entries), LoadShared(r, k, force, rec), ended' = ended
  PROVE  /\ older' \in SUBSET (entries' \X entries') /\ listeners' \in [Key -> SUBSET Request]
         /\ req' \in [Request -> RequestState]
         /\ <<entries, fresh, inFlight, work, cancelled, stored, evicted>>'
              = <<entries, fresh, inFlight, work, cancelled, stored, evicted>>
         /\ Mapped' /\ Owned' /\ Waits' /\ Hears'
<1>. DEFINE w == inFlight[k]
            place == Subscribes(inFlight[k])
<1>1. /\ <<entries, fresh, inFlight, work, cancelled, stored, evicted>>'
           = <<entries, fresh, inFlight, work, cancelled, stored, evicted>>
      /\ older' = rec
      /\ listeners' = [listeners EXCEPT ![k] = @ \cup {r}]
      /\ req' = [req EXCEPT ![r] = Asking(place, k, force, w)]
  BY DEF LoadShared, Hear
<1>2. w \in Worker /\ work[w] = k /\ w \in Running
  BY HealthAssumption DEF Busy, Running, IInv, TypeOK, Mapped
<1>3. place = IF w \in cancelled THEN "waiting" ELSE "loading"
  BY DEF Subscribes
<1>. HIDE DEF place, w
<1>4. Asking(place, k, force, w) \in RequestState
  BY <1>2, <1>3, AskingType
<1>5. listeners' \in [Key -> SUBSET Request] /\ req' \in [Request -> RequestState]
  BY <1>1, <1>4 DEF IInv, TypeOK
<1>6. Mapped' /\ Owned' /\ Running' = Running
  BY <1>1 DEF IInv, Mapped, Owned, Running
<1>7. \A q \in Request : req'[q] = IF q = r THEN Asking(place, k, force, w) ELSE req[q]
  BY <1>1 DEF IInv, TypeOK
<1>8. \A j \in Key : listeners'[j] = IF j = k THEN listeners[k] \cup {r} ELSE listeners[j]
  BY <1>1 DEF IInv, TypeOK
<1>9. Waits'
  BY <1>1, <1>2, <1>3, <1>6, <1>7, AskingFields DEF IInv, Waits
<1>10. Hears'
  <2>1. ASSUME NEW q \in Request, q # r
        PROVE  /\ req'[q] = req[q]
               /\ \A j \in Key : q \in listeners'[j] <=> q \in listeners[j]
    BY <1>7, <1>8, <2>1
  <2>2. \A q \in Request : req[q].at # "idle" => req[q].key \in Key
    BY DEF IInv, Waits
  <2>3. \A j \in Key : r \in listeners'[j] => j = k
    BY <1>8 DEF IInv, Hears
  <2>4. /\ req'[r].at = place /\ req'[r].key = k /\ req'[r].on = w
        /\ r \in listeners'[k]
    BY <1>7, <1>8, AskingFields
  <2>5. cancelled' = cancelled
    BY <1>1
  <2>. QED
    BY <2>1, <2>2, <2>3, <2>4, <2>5, <1>3 DEF IInv, Hears
<1>. QED
  BY <1>1, <1>5, <1>6, <1>9, <1>10

(* A worker starts for k, and the entries outside kept are evicted. *)
LEMMA LoadStartsKeeps ==
  ASSUME IInv, NEW r \in Request, NEW k \in Key, req[r].key = k, NEW force \in BOOLEAN, ~Busy(k),
         NEW w \in Worker \ Running, NEW rec \in SUBSET (entries \X entries),
         LoadStarts(r, k, force, w, rec), ended' = ended
  PROVE  /\ entries' \in SUBSET Key /\ Cardinality(entries') <= MaxEntries
         /\ fresh' \in SUBSET entries' /\ older' \in SUBSET (entries' \X entries')
         /\ inFlight' \in [Key -> Worker \cup {None}] /\ listeners' \in [Key -> SUBSET Request]
         /\ work' \in [Worker -> Key \cup {None}] /\ req' \in [Request -> RequestState]
         /\ cancelled' \in SUBSET Worker /\ evicted' \in SUBSET Worker /\ stored' = stored
         /\ Mapped' /\ Owned' /\ Waits' /\ Hears'
<1>. DEFINE all == entries \cup {k}
            used == Touch(rec, k, all)
<1>1. PICK kept \in Kept(all, k, used) :
        /\ entries' = kept
        /\ older' = Among(used, kept)
        /\ fresh' = fresh \cap kept
        /\ inFlight' = [j \in Key |-> IF j = k THEN w ELSE IF j \in kept THEN inFlight[j] ELSE None]
        /\ listeners' = [j \in Key |-> IF j = k THEN Hear(k, r)[k]
                                       ELSE IF j \in kept THEN listeners[j] ELSE {}]
        /\ work' = [work EXCEPT ![w] = k]
        /\ cancelled' = cancelled \cup WorkersOf(all \ kept)
        /\ evicted' = evicted \cup WorkersOf(all \ kept)
        /\ req' = [req EXCEPT ![r] = Asking("loading", k, force, w)]
        /\ stored' = stored
  BY DEF LoadStarts, AbortWork
<1>. DEFINE dropped == all \ kept
<1>2. all \in SUBSET Key /\ used \in SUBSET (all \X all)
  BY TouchGrows DEF IInv, TypeOK
<1>3. /\ entries' \in SUBSET Key /\ k \in kept /\ Cardinality(entries') <= MaxEntries
      /\ kept \in SUBSET all
  <2>. HIDE DEF used, all
  <2>1. kept \in SUBSET all /\ k \in kept /\ Cardinality(kept) <= MaxEntries
    BY <1>1, <1>2, KeptBound
  <2>. QED
    BY <1>1, <1>2, <2>1
<1>4. older' \in SUBSET (entries' \X entries') /\ fresh' \in SUBSET entries'
  <2>. HIDE DEF used, all
  <2>. QED
    BY <1>1, <1>2 DEF Among, IInv, TypeOK
<1>5. \A j \in Key :
        /\ listeners'[j] = IF j = k THEN listeners[k] \cup {r}
                           ELSE IF j \in kept THEN listeners[j] ELSE {}
        /\ inFlight'[j] = IF j = k THEN w ELSE IF j \in kept THEN inFlight[j] ELSE None
  BY <1>1 DEF Hear, IInv, TypeOK
<1>6. listeners' \in [Key -> SUBSET Request]
  <2>1. \A j \in Key : listeners'[j] \in SUBSET Request
    BY <1>5 DEF IInv, TypeOK
  <2>2. listeners' = [j \in Key |-> listeners'[j]]
    BY <1>1
  <2>. QED
    BY <2>1, <2>2
<1>7. inFlight' \in [Key -> Worker \cup {None}] /\ work' \in [Worker -> Key \cup {None}]
  BY <1>1 DEF IInv, TypeOK
<1>8. Asking("loading", k, force, w) \in RequestState
  BY AskingType
<1>9. /\ req' \in [Request -> RequestState]
      /\ \A q \in Request : req'[q] = IF q = r THEN Asking("loading", k, force, w) ELSE req[q]
  BY <1>1, <1>8 DEF IInv, TypeOK
<1>10. /\ \A v \in Worker : work'[v] = IF v = w THEN k ELSE work[v]
       /\ Running' = Running \cup {w}
  BY <1>1, HealthAssumption DEF Running, IInv, TypeOK
<1>11. WorkersOf(dropped) \in SUBSET Worker /\ WorkersOf(dropped) \subseteq Running
  BY <1>2, HealthAssumption DEF WorkersOf, Running, IInv, TypeOK, Mapped
<1>12. \A j \in Key : inFlight[j] # None => inFlight[j] \in Running /\ work[inFlight[j]] = j
  BY HealthAssumption DEF Running, IInv, TypeOK, Mapped
<1>. HIDE DEF used
<1>13. Mapped'
  <2>. SUFFICES ASSUME NEW j \in Key, inFlight'[j] # None
                PROVE  j \in entries' /\ work'[inFlight'[j]] = j
    BY DEF Mapped
  <2>1. CASE j = k
    BY <1>1, <1>3, <1>5, <1>10, <2>1
  <2>2. CASE j # k
    <3>1. j \in kept /\ inFlight'[j] = inFlight[j]
      BY <1>5, <2>2
    <3>2. inFlight[j] \in Worker /\ inFlight[j] # w /\ work[inFlight[j]] = j
      BY <3>1, <1>12 DEF Running
    <3>. QED
      BY <1>1, <1>10, <3>1, <3>2
  <2>. QED
    BY <2>1, <2>2
<1>14. Owned'
  <2>1. cancelled' \subseteq Running' /\ (ended \cup evicted)' \subseteq cancelled'
    BY <1>1, <1>10, <1>11 DEF IInv, Owned
  <2>2. ASSUME NEW v \in Running' \ (ended \cup evicted)'  PROVE inFlight'[work'[v]] = v
    <3>1. CASE v = w
      BY <1>5, <1>10, <3>1
    <3>2. CASE v # w
      <4>1. /\ v \in Running \ (ended \cup evicted) /\ v \notin WorkersOf(dropped)
            /\ work[v] \in Key /\ work'[v] = work[v] /\ v # None
        BY <1>1, <1>10, <2>2, <3>2, HealthAssumption DEF Running, IInv, TypeOK
      <4>2. inFlight[work[v]] = v /\ work[v] \in entries
        BY <4>1 DEF IInv, Owned, Mapped
      <4>3. work[v] # k
        BY <4>1, <4>2 DEF Busy
      <4>4. work[v] \in kept
        BY <4>1, <4>2 DEF WorkersOf
      <4>. QED
        BY <1>5, <4>1, <4>2, <4>3, <4>4
    <3>. QED
      BY <3>1, <3>2
  <2>. QED
    BY <2>1, <2>2 DEF Owned
<1>15. Waits'
  <2>1. \A q \in Request : req[q].on \in Running => req[q].on \in Worker /\ req[q].on # w
    BY DEF Running
  <2>. QED
    BY <1>9, <1>10, <2>1, AskingFields DEF IInv, Waits
<1>16. Hears'
  <2>1. \A j \in Key : r \in listeners'[j] => j = k
    BY <1>5 DEF IInv, Hears
  <2>2. /\ req'[r].at = "loading" /\ req'[r].key = k /\ req'[r].on = w
        /\ r \in listeners'[k] /\ w \notin cancelled'
    <3>1. req'[r] = Asking("loading", k, force, w)
      BY <1>9
    <3>2. r \in listeners'[k]
      BY <1>5
    <3>3. w \notin cancelled'
      BY <1>1, <1>11 DEF IInv, Owned
    <3>. QED
      BY <3>1, <3>2, <3>3, AskingFields
  <2>3. ASSUME NEW q \in Request, q # r, req[q].at = "loading"
        PROVE  q \in listeners'[req[q].key] <=> req[q].on \notin cancelled'
    <3>1. /\ req[q].key \in Key /\ req[q].on \in Running /\ work[req[q].on] = req[q].key
          /\ q \in listeners[req[q].key] <=> req[q].on \notin cancelled
      BY <2>3 DEF IInv, Waits, Hears
    <3>2. req[q].on \in WorkersOf(dropped) => req[q].key \notin kept
      BY <1>2, <1>12, <3>1 DEF WorkersOf
    <3>3. ASSUME req[q].key \notin kept, req[q].on \notin cancelled
          PROVE  req[q].on \in WorkersOf(dropped)
      <4>1. inFlight[req[q].key] = req[q].on /\ req[q].on # None
        BY <3>1, <3>3, HealthAssumption DEF IInv, Owned, Running
      <4>2. req[q].key \in entries
        BY <3>1, <4>1 DEF IInv, Mapped
      <4>. QED
        BY <3>3, <4>1, <4>2 DEF WorkersOf
    <3>4. q \in listeners'[req[q].key] <=> req[q].key \in kept /\ q \in listeners[req[q].key]
      BY <1>3, <1>5, <2>3, <3>1
    <3>. QED
      BY <1>1, <3>1, <3>2, <3>3, <3>4
  <2>4. \A q \in Request, j \in Key : q # r /\ q \in listeners'[j] => q \in listeners[j]
    BY <1>5
  <2>. QED
    BY <1>9, <2>1, <2>2, <2>3, <2>4 DEF IInv, Hears
<1>. QED
  BY <1>1, <1>3, <1>4, <1>6, <1>7, <1>9, <1>11, <1>13, <1>14, <1>15, <1>16 DEF IInv, TypeOK

-----------------------------------------------------------------------------
(* The worker settles.                                                     *)

LEMMA ForgetRelease ==
  ASSUME IInv, NEW w \in Running, Forget(w), Release(w)
  PROVE  /\ work' \in [Worker -> Key \cup {None}] /\ req' \in [Request -> RequestState]
         /\ Running' = Running \ {w} /\ \A v \in Running' : work'[v] = work[v]
         /\ \A r \in Request : req[r].on # w => req'[r] = req[r]
         /\ \A r \in Request : req[r].on = w /\ req[r].at = "loading" => req'[r] = NoRequest
         /\ \A r \in Request : req[r].on = w /\ req[r].at # "loading" =>
              /\ req'[r].at = "replacing" /\ req'[r].key = req[r].key /\ req'[r].on = None
              /\ req[r].at = "waiting"
         /\ Waits'
<1>1. w \in Worker /\ w # None
  BY HealthAssumption DEF Running
<1>2. work' = [work EXCEPT ![w] = None]
  BY DEF Forget
<1>3. /\ work' \in [Worker -> Key \cup {None}] /\ Running' = Running \ {w}
      /\ \A v \in Running' : work'[v] = work[v]
  BY <1>1, <1>2 DEF Running, IInv, TypeOK
<1>4. \A r \in Request :
        req'[r] = IF req[r].on # w THEN req[r]
                  ELSE IF req[r].at = "loading" THEN NoRequest
                  ELSE [req[r] EXCEPT !.at = "replacing", !.on = None]
  BY DEF Release
<1>5. \A r \in Request : req[r] \in RequestState
  BY DEF IInv, TypeOK
<1>6. \A r \in Request : req[r].on = w /\ req[r].at # "loading" =>
        /\ req'[r] \in RequestState
        /\ req'[r].at = "replacing" /\ req'[r].key = req[r].key /\ req'[r].on = None
        /\ req[r].at = "waiting"
  BY <1>1, <1>4, <1>5 DEF RequestState, IInv, Waits
<1>7. req' \in [Request -> RequestState]
  <2>1. \A r \in Request : req'[r] \in RequestState
    BY <1>4, <1>5, <1>6, NoRequestFields
  <2>2. req' = [r \in Request |-> req'[r]]
    BY DEF Release
  <2>. QED
    BY <2>1, <2>2
<1>8. Waits'
  <2>. SUFFICES ASSUME NEW r \in Request
                PROVE  /\ req'[r].at # "idle" => req'[r].key \in Key
                       /\ req'[r].at \in {"loading", "waiting"} =>
                            req'[r].on \in Running' /\ work'[req'[r].on] = req'[r].key
                       /\ req'[r].at \notin {"loading", "waiting"} => req'[r].on = None
    BY Zenon DEF Waits
  <2>1. CASE req[r].on # w
    <3>1. req'[r] = req[r]
      BY <1>4, <2>1
    <3>. QED
      BY <1>3, <2>1, <3>1 DEF IInv, Waits
  <2>2. CASE req[r].on = w /\ req[r].at = "loading"
    <3>1. req'[r] = NoRequest
      BY <1>4, <2>2
    <3>. QED
      BY <3>1, NoRequestFields
  <2>3. CASE req[r].on = w /\ req[r].at # "loading"
    BY <1>6, <2>3 DEF IInv, Waits
  <2>. QED
    BY <2>1, <2>2, <2>3
<1>. QED
  BY <1>3, <1>4, <1>6, <1>7, <1>8

(* Live work leaves its entry free, and none of its subscribers behind. *)
LEMMA FinishKeeps ==
  ASSUME IInv, NEW w \in Running \ cancelled, Forget(w), Release(w), Finish(work[w]),
         entries' = entries
  PROVE  /\ work[w] \in entries
         /\ inFlight' \in [Key -> Worker \cup {None}] /\ listeners' \in [Key -> SUBSET Request]
         /\ Mapped' /\ Owned' /\ Hears'
<1>. DEFINE k == work[w]
<1>1. w \in Worker /\ w # None /\ k \in Key
  BY HealthAssumption DEF Running, IInv, TypeOK
<1>2. inFlight[k] = w /\ k \in entries
  BY <1>1 DEF IInv, Owned, Mapped
<1>3. /\ inFlight' = [inFlight EXCEPT ![k] = None]
      /\ listeners' = [listeners EXCEPT ![k] = {}]
      /\ cancelled' = cancelled \ {w} /\ ended' = ended \ {w} /\ evicted' = evicted \ {w}
  BY DEF Finish, Forget
<1>. HIDE DEF k
<1>4. /\ \A j \in Key : inFlight'[j] = IF j = k THEN None ELSE inFlight[j]
      /\ \A j \in Key : listeners'[j] = IF j = k THEN {} ELSE listeners[j]
      /\ inFlight' \in [Key -> Worker \cup {None}] /\ listeners' \in [Key -> SUBSET Request]
  BY <1>1, <1>3 DEF IInv, TypeOK
<1>5. /\ Running' = Running \ {w} /\ \A v \in Running' : work'[v] = work[v]
      /\ \A r \in Request : req[r].on # w => req'[r] = req[r]
      /\ \A r \in Request : req[r].on = w /\ req[r].at = "loading" => req'[r] = NoRequest
      /\ \A r \in Request : req[r].on = w /\ req[r].at # "loading" =>
           req'[r].at = "replacing" /\ req'[r].key = req[r].key /\ req[r].at = "waiting"
  BY ForgetRelease
<1>6. \A j \in Key : inFlight[j] # None => inFlight[j] \in Running /\ work[inFlight[j]] = j
  BY HealthAssumption DEF Running, IInv, TypeOK, Mapped
<1>7. Mapped'
  <2>. SUFFICES ASSUME NEW j \in Key, inFlight'[j] # None
                PROVE  j \in entries' /\ work'[inFlight'[j]] = j
    BY DEF Mapped
  <2>1. j # k /\ inFlight'[j] = inFlight[j]
    BY <1>4
  <2>2. inFlight[j] \in Running \ {w} /\ work[inFlight[j]] = j
    BY <1>6, <2>1 DEF k
  <2>3. j \in entries
    BY <2>1 DEF IInv, Mapped
  <2>. QED
    BY <1>5, <2>1, <2>2, <2>3
<1>8. Owned'
  <2>1. cancelled' \subseteq Running' /\ (ended \cup evicted)' \subseteq cancelled'
    BY <1>3, <1>5 DEF IInv, Owned
  <2>2. ASSUME NEW v \in Running' \ (ended \cup evicted)'  PROVE inFlight'[work'[v]] = v
    <3>1. v # w /\ v \in Running \ (ended \cup evicted) /\ work'[v] = work[v]
      BY <1>3, <1>5, <2>2
    <3>2. inFlight[work[v]] = v /\ work[v] \in Key
      BY <3>1 DEF IInv, Owned, Running, TypeOK
    <3>. QED
      BY <1>2, <1>4, <3>1, <3>2
  <2>. QED
    BY <2>1, <2>2 DEF Owned
<1>9. Hears'
  <2>1. \A r \in Request : r \in listeners[req[r].key] /\ req[r].on = w => req[r].key = k
    BY <1>1, <1>5, HealthAssumption DEF IInv, Waits, k
  <2>2. ASSUME NEW r \in Request, req'[r].at = "loading"
        PROVE  r \in listeners'[req'[r].key] <=> req'[r].on \notin cancelled'
    <3>1. req[r].on # w /\ req'[r] = req[r]
      BY <1>5, <2>2, NoRequestFields
    <3>2. /\ req[r].key \in Key /\ req[r].on \in Running /\ work[req[r].on] = req[r].key
          /\ r \in listeners[req[r].key] <=> req[r].on \notin cancelled
      BY <2>2, <3>1 DEF IInv, Waits, Hears
    <3>3. req[r].key = k => req[r].on \in cancelled
      BY <1>2, <3>1, <3>2 DEF IInv, Owned
    <3>. QED
      BY <1>3, <1>4, <3>1, <3>2, <3>3
  <2>3. ASSUME NEW r \in Request, NEW j \in Key, r \in listeners'[j]
        PROVE  req'[r].key = j /\ req'[r].at \in {"loading", "waiting", "replacing"}
    <3>1. j # k /\ r \in listeners[j]
      BY <1>4, <2>3
    <3>2. req[r].key = j /\ req[r].at \in {"loading", "waiting", "replacing"}
      BY <3>1 DEF IInv, Hears
    <3>3. req[r].on # w
      BY <2>1, <3>1, <3>2
    <3>. QED
      BY <1>5, <3>2, <3>3
  <2>. QED
    BY <2>2, <2>3 DEF Hears
<1>. QED
  BY <1>2, <1>4, <1>7, <1>8, <1>9 DEF k

(* Cancelled work leaves its entry free, if the entry still names it. *)
LEMMA CancelledKeeps ==
  ASSUME IInv, NEW w \in Worker, CancelledSettles(w)
  PROVE  inFlight' \in [Key -> Worker \cup {None}] /\ Mapped' /\ Owned' /\ Hears'
<1>1. /\ w \in Running \cap cancelled /\ Forget(w) /\ Release(w)
      /\ inFlight' = [j \in Key |-> IF inFlight[j] = w THEN None ELSE inFlight[j]]
      /\ entries' = entries /\ listeners' = listeners
  BY DEF CancelledSettles, Vacate
<1>2. cancelled' = cancelled \ {w} /\ ended' = ended \ {w} /\ evicted' = evicted \ {w}
  BY <1>1 DEF Forget
<1>3. /\ Running' = Running \ {w} /\ \A v \in Running' : work'[v] = work[v]
      /\ \A r \in Request : req[r].on # w => req'[r] = req[r]
      /\ \A r \in Request : req[r].on = w /\ req[r].at = "loading" => req'[r] = NoRequest
      /\ \A r \in Request : req[r].on = w /\ req[r].at # "loading" =>
           req'[r].at = "replacing" /\ req'[r].key = req[r].key /\ req[r].at = "waiting"
  BY <1>1, ForgetRelease
<1>4. inFlight' \in [Key -> Worker \cup {None}]
  BY <1>1 DEF IInv, TypeOK
<1>5. Mapped'
  <2>1. \A j \in Key : inFlight[j] # None => inFlight[j] \in Running /\ work[inFlight[j]] = j
    BY HealthAssumption DEF Running, IInv, TypeOK, Mapped
  <2>2. \A j \in Key : inFlight'[j] # None => inFlight'[j] = inFlight[j] /\ inFlight[j] # w
    BY <1>1
  <2>. QED
    BY <1>1, <1>3, <2>1, <2>2 DEF IInv, Mapped
<1>6. Owned'
  <2>1. cancelled' \subseteq Running' /\ (ended \cup evicted)' \subseteq cancelled'
    BY <1>2, <1>3 DEF IInv, Owned
  <2>2. ASSUME NEW v \in Running' \ (ended \cup evicted)'  PROVE inFlight'[work'[v]] = v
    <3>1. v # w /\ v \in Running \ (ended \cup evicted) /\ work'[v] = work[v]
      BY <1>2, <1>3, <2>2
    <3>2. inFlight[work[v]] = v /\ work[v] \in Key
      BY <3>1 DEF IInv, Owned, Running, TypeOK
    <3>. QED
      BY <1>1, <3>1, <3>2
  <2>. QED
    BY <2>1, <2>2 DEF Owned
<1>7. Hears'
  <2>1. \A r \in Request : req[r].on = w /\ req[r].at = "loading" =>
          \A j \in Key : r \notin listeners[j]
    BY <1>1 DEF IInv, Hears
  <2>2. ASSUME NEW r \in Request, req'[r].at = "loading"
        PROVE  r \in listeners'[req'[r].key] <=> req'[r].on \notin cancelled'
    <3>1. req[r].on # w /\ req'[r] = req[r]
      BY <1>3, <2>2, NoRequestFields
    <3>. QED
      BY <1>1, <1>2, <2>2, <3>1 DEF IInv, Hears
  <2>3. ASSUME NEW r \in Request, NEW j \in Key, r \in listeners'[j]
        PROVE  req'[r].key = j /\ req'[r].at \in {"loading", "waiting", "replacing"}
    <3>1. req[r].key = j /\ req[r].at \in {"loading", "waiting", "replacing"}
      BY <1>1, <2>3 DEF IInv, Hears
    <3>2. ~(req[r].on = w /\ req[r].at = "loading")
      BY <1>1, <2>1, <2>3
    <3>. QED
      BY <1>3, <3>1, <3>2
  <2>. QED
    BY <2>2, <2>3 DEF Hears
<1>. QED
  BY <1>4, <1>5, <1>6, <1>7

-----------------------------------------------------------------------------
(* The steps.                                                              *)

LEMMA LoadKeeps ==
  ASSUME IInv, NEW r \in Request, NEW k \in Key, req[r].key = k, NEW force \in BOOLEAN,
         NEW rec \in SUBSET (entries \X entries), Load(r, k, force, rec),
         known' \in [Target -> SUBSET Key], current' \in SUBSET Request,
         closing' = closing, shut' = shut, ended' = ended, former' = former
  PROVE  IInv'
<1>1. CASE k \in fresh /\ LoadCached(r, k, rec)
  <2>1. /\ older' \in SUBSET (entries' \X entries') /\ listeners' \in [Key -> SUBSET Request]
        /\ req' \in [Request -> RequestState] /\ stored' \in [Target -> {"no", "old", "new"}]
        /\ <<entries, fresh, inFlight, work, cancelled, evicted>>'
             = <<entries, fresh, inFlight, work, cancelled, evicted>>
        /\ Mapped' /\ Owned' /\ Waits' /\ Hears'
    BY <1>1, LoadCachedKeeps
  <2>2. TypeOK'
    BY <2>1 DEF IInv, TypeOK
  <2>. QED
    BY <2>1, <2>2 DEF IInv
<1>2. CASE Busy(k) /\ LoadShared(r, k, force, rec)
  <2>1. /\ older' \in SUBSET (entries' \X entries') /\ listeners' \in [Key -> SUBSET Request]
        /\ req' \in [Request -> RequestState]
        /\ <<entries, fresh, inFlight, work, cancelled, stored, evicted>>'
             = <<entries, fresh, inFlight, work, cancelled, stored, evicted>>
        /\ Mapped' /\ Owned' /\ Waits' /\ Hears'
    BY <1>2, LoadSharedKeeps
  <2>2. TypeOK'
    BY <2>1 DEF IInv, TypeOK
  <2>. QED
    BY <2>1, <2>2 DEF IInv
<1>3. CASE ~Busy(k) /\ \E w \in Worker \ Running : LoadStarts(r, k, force, w, rec)
  <2>1. /\ entries' \in SUBSET Key /\ Cardinality(entries') <= MaxEntries
        /\ fresh' \in SUBSET entries' /\ older' \in SUBSET (entries' \X entries')
        /\ inFlight' \in [Key -> Worker \cup {None}] /\ listeners' \in [Key -> SUBSET Request]
        /\ work' \in [Worker -> Key \cup {None}] /\ req' \in [Request -> RequestState]
        /\ cancelled' \in SUBSET Worker /\ evicted' \in SUBSET Worker /\ stored' = stored
        /\ Mapped' /\ Owned' /\ Waits' /\ Hears'
    <3>1. PICK w \in Worker \ Running : LoadStarts(r, k, force, w, rec)
      BY <1>3
    <3>. QED
      BY <1>3, <3>1, LoadStartsKeeps
  <2>2. TypeOK'
    BY <2>1 DEF IInv, TypeOK
  <2>. QED
    BY <2>1, <2>2 DEF IInv
<1>. QED
  BY <1>1, <1>2, <1>3 DEF Load

LEMMA BeginStep ==
  ASSUME IInv, NEW r \in Request, NEW k \in Key, NEW force \in BOOLEAN, Begin(r, k, force)
  PROVE  IInv'
<1>. DEFINE K == known[TargetOf[k]] \cap entries
<1>1. /\ req[r].at = "idle"
      /\ req' = [req EXCEPT ![r] = Asking("connecting", k, force, None)]
      /\ current' = current \cup {r} /\ former' = former \ {r}
      /\ stored' = stored /\ closing' = closing /\ shut' = shut
      /\ ended' = ended /\ evicted' = evicted
  BY DEF Begin
<1>2. TargetOf[k] \in Target /\ K \in SUBSET Key
  BY HealthAssumption DEF IInv, TypeOK
<1>3. known' \in [Target -> SUBSET Key]
  BY <1>2 DEF Begin, IInv, TypeOK
<1>4. /\ entries' = entries /\ older' = older /\ inFlight' = inFlight /\ work' = work
      /\ fresh' \in SUBSET entries' /\ listeners' \in [Key -> SUBSET Request]
      /\ cancelled' \in SUBSET Running /\ cancelled \subseteq cancelled'
      /\ \A q \in Request : req[q].at = "loading" =>
           (q \in listeners'[req[q].key] <=> req[q].on \notin cancelled')
      /\ \A j \in Key : listeners'[j] \subseteq listeners[j]
  <2>1. CASE force
    <3>1. Invalidate(K)
      BY <2>1 DEF Begin
    <3>. HIDE DEF K
    <3>. QED
      BY <1>2, <3>1, InvalidateKeeps
  <2>2. CASE ~force
    BY <2>2 DEF Begin, manager, IInv, TypeOK, Owned, Hears
  <2>. QED
    BY <2>1, <2>2
<1>5. Asking("connecting", k, force, None) \in RequestState
  BY AskingType
<1>6. /\ req' \in [Request -> RequestState]
      /\ \A q \in Request : req'[q] = IF q = r THEN Asking("connecting", k, force, None) ELSE req[q]
  BY <1>1, <1>5 DEF IInv, TypeOK
<1>7. Running' = Running /\ Running \in SUBSET Worker
  BY <1>4 DEF Running
<1>8. TypeOK'
  <2>1. cancelled' \in SUBSET Worker
    BY <1>4, <1>7
  <2>. QED
    BY <1>1, <1>3, <1>4, <1>6, <2>1 DEF IInv, TypeOK
<1>9. Mapped' /\ Owned'
  BY <1>1, <1>4, <1>7 DEF IInv, Mapped, Owned
<1>10. Waits'
  BY <1>4, <1>6, <1>7, AskingFields DEF IInv, Waits
<1>11. Hears'
  BY <1>1, <1>4, <1>6, AskingFields DEF IInv, Hears
<1>. QED
  BY <1>8, <1>9, <1>10, <1>11 DEF IInv

LEMMA RequestStep ==
  ASSUME IInv, NEW r \in Request, Connected(r) \/ ConnectFails(r) \/ Replace(r)
  PROVE  IInv'
<1>1. CASE Connected(r)
  <2>. DEFINE k == req[r].key
              rec == IF ~req[r].force /\ k \in entries THEN Touch(older, k, entries) ELSE older
  <2>1. /\ req[r].at = "connecting" /\ Load(r, k, req[r].force, rec)
        /\ current' = current \ {r} /\ known' = [known EXCEPT ![TargetOf[k]] = @ \cup {k}]
        /\ closing' = closing /\ shut' = shut /\ ended' = ended /\ former' = former
    BY <1>1 DEF Connected
  <2>2. k \in Key /\ req[r].force \in BOOLEAN
    BY <2>1 DEF IInv, Waits, TypeOK, RequestState
  <2>3. rec \in SUBSET (entries \X entries)
    BY DEF Touch, IInv, TypeOK
  <2>4. known' \in [Target -> SUBSET Key] /\ current' \in SUBSET Request
    BY <2>1, <2>2 DEF IInv, TypeOK
  <2>. HIDE DEF rec
  <2>. QED
    BY <2>1, <2>2, <2>3, <2>4, LoadKeeps
<1>2. CASE ConnectFails(r)
  <2>1. /\ req[r].at = "connecting" /\ req' = [req EXCEPT ![r] = NoRequest]
        /\ current' = current \ {r}
        /\ UNCHANGED <<entries, older, fresh, inFlight, listeners, work, cancelled, known,
                       stored, closing, shut, ended, evicted, former>>
    BY <1>2 DEF ConnectFails, manager, ghosts
  <2>2. /\ req' \in [Request -> RequestState]
        /\ \A q \in Request : req'[q] = IF q = r THEN NoRequest ELSE req[q]
    BY <2>1, NoRequestFields DEF IInv, TypeOK
  <2>3. TypeOK'
    BY <2>1, <2>2 DEF IInv, TypeOK
  <2>4. Mapped' /\ Owned' /\ Running' = Running
    BY <2>1 DEF IInv, Mapped, Owned, Running
  <2>5. Waits'
    BY <2>1, <2>2, <2>4, NoRequestFields DEF IInv, Waits
  <2>6. Hears'
    BY <2>1, <2>2, NoRequestFields DEF IInv, Hears
  <2>. QED
    BY <2>3, <2>4, <2>5, <2>6 DEF IInv
<1>3. CASE Replace(r)
  <2>. DEFINE k == req[r].key
  <2>1. /\ req[r].at = "replacing" /\ Load(r, k, req[r].force, older)
        /\ UNCHANGED <<known, current, closing, shut, ended, former>>
    BY <1>3 DEF Replace
  <2>2. k \in Key /\ req[r].force \in BOOLEAN
    BY <2>1 DEF IInv, Waits, TypeOK, RequestState
  <2>3. /\ older \in SUBSET (entries \X entries)
        /\ known' \in [Target -> SUBSET Key] /\ current' \in SUBSET Request
    BY <2>1 DEF IInv, TypeOK
  <2>. QED
    BY <2>1, <2>2, <2>3, LoadKeeps
<1>. QED
  BY <1>1, <1>2, <1>3

LEMMA SettleStep ==
  ASSUME IInv, NEW w \in Worker, Settle(w)
  PROVE  IInv'
<1>1. /\ w \in Running /\ Forget(w) /\ Release(w) /\ entries' = entries
      /\ cancelled' = cancelled \ {w} /\ ended' = ended \ {w} /\ evicted' = evicted \ {w}
      /\ known' = known /\ current' = current /\ closing' = closing /\ shut' = shut
      /\ former' = former
  BY DEF Settle, Succeeds, Fails, CancelledSettles, Forget
<1>2. /\ work' \in [Worker -> Key \cup {None}] /\ req' \in [Request -> RequestState] /\ Waits'
  BY <1>1, ForgetRelease
<1>3. CASE Succeeds(w) \/ Fails(w)
  <2>1. w \in Running \ cancelled /\ Finish(work[w])
    BY <1>3 DEF Succeeds, Fails
  <2>2. /\ work[w] \in entries /\ inFlight' \in [Key -> Worker \cup {None}]
        /\ listeners' \in [Key -> SUBSET Request] /\ Mapped' /\ Owned' /\ Hears'
    BY <1>1, <2>1, FinishKeeps
  <2>3. fresh' \in SUBSET entries' /\ stored' \in [Target -> {"no", "old", "new"}]
    BY <1>1, <1>3, <2>2 DEF Succeeds, Fails, Store, IInv, TypeOK
  <2>4. older' \in SUBSET (entries' \X entries')
    <3>1. older' = Touch(older, work[w], entries) \/ older' = older
      BY <1>3 DEF Succeeds, Fails
    <3>. QED
      BY <1>1, <2>2, <3>1 DEF Touch, IInv, TypeOK
  <2>5. TypeOK'
    BY <1>1, <1>2, <2>2, <2>3, <2>4 DEF IInv, TypeOK
  <2>. QED
    BY <1>2, <2>2, <2>5 DEF IInv
<1>4. CASE CancelledSettles(w)
  <2>1. inFlight' \in [Key -> Worker \cup {None}] /\ Mapped' /\ Owned' /\ Hears'
    BY <1>4, CancelledKeeps
  <2>2. UNCHANGED <<entries, older, fresh, listeners, stored>>
    BY <1>4 DEF CancelledSettles
  <2>3. TypeOK'
    BY <1>1, <1>2, <2>1, <2>2 DEF IInv, TypeOK
  <2>. QED
    BY <1>2, <2>1, <2>3 DEF IInv
<1>. QED
  BY <1>3, <1>4 DEF Settle

LEMMA ClosingStep ==
  ASSUME IInv,
         \/ \E t \in Target, why \in {"security", "removal"} : CloseBegins(t, why)
         \/ \E t \in Target : CloseEnds(t)
         \/ ShutdownBegins \/ ShutdownEnds \/ \E k \in Key : Expire(k)
  PROVE  IInv'
<1>1. ASSUME NEW K \in SUBSET entries, Remove(K), req' = req,
             known' \in [Target -> SUBSET Key], current' \in SUBSET Request,
             stored' \in [Target -> {"no", "old", "new"}],
             closing' \in [Target -> {"no", "security", "removal"}],
             shut' \in {"running", "closing", "done"}, former' \in SUBSET Request
      PROVE  IInv'
  <2>1. /\ entries' \in SUBSET entries /\ fresh' \in SUBSET entries'
        /\ older' \in SUBSET (entries' \X entries')
        /\ inFlight' \in [Key -> Worker \cup {None}] /\ listeners' \in [Key -> SUBSET Request]
        /\ cancelled' \in SUBSET Worker /\ ended' \in SUBSET Worker
        /\ work' = work /\ evicted' = evicted
        /\ Mapped' /\ Owned' /\ Waits' /\ Hears'
    BY <1>1, RemoveKeeps
  <2>2. Cardinality(entries') <= MaxEntries
    BY <2>1, FewerEntries DEF IInv
  <2>3. TypeOK'
    BY <1>1, <2>1, <2>2 DEF IInv, TypeOK
  <2>. QED
    BY <2>1, <2>3 DEF IInv
<1>2. ASSUME NEW t \in Target, NEW why \in {"security", "removal"}, CloseBegins(t, why)
      PROVE  IInv'
  <2>. DEFINE K == known[t] \cap entries
  <2>1. /\ K \in SUBSET entries /\ Remove(K) /\ req' = req
        /\ known' \in [Target -> SUBSET Key] /\ current' \in SUBSET Request
        /\ closing' \in [Target -> {"no", "security", "removal"}]
        /\ shut' \in {"running", "closing", "done"}
    BY <1>2 DEF CloseBegins, IInv, TypeOK
  <2>2. stored' \in [Target -> {"no", "old", "new"}] /\ former' \in SUBSET Request
    BY <1>2 DEF CloseBegins, OfTarget, IInv, TypeOK
  <2>. HIDE DEF K
  <2>. QED
    BY <1>1, <2>1, <2>2
<1>3. CASE ShutdownBegins
  <2>1. /\ entries \in SUBSET entries /\ Remove(entries) /\ req' = req
        /\ known' \in [Target -> SUBSET Key] /\ current' \in SUBSET Request
        /\ stored' \in [Target -> {"no", "old", "new"}]
        /\ closing' \in [Target -> {"no", "security", "removal"}]
        /\ shut' \in {"running", "closing", "done"} /\ former' \in SUBSET Request
    BY <1>3 DEF ShutdownBegins, IInv, TypeOK
  <2>. QED
    BY <1>1, <2>1
<1>4. CASE (\E t \in Target : CloseEnds(t)) \/ ShutdownEnds \/ \E k \in Key : Expire(k)
  <2>1. /\ UNCHANGED <<entries, older, inFlight, listeners, work, cancelled, known, req,
                       current, ended, evicted, former>>
        /\ fresh' \in SUBSET entries /\ stored' \in [Target -> {"no", "old", "new"}]
        /\ closing' \in [Target -> {"no", "security", "removal"}]
        /\ shut' \in {"running", "closing", "done"}
    BY <1>4 DEF CloseEnds, ShutdownEnds, Expire, manager, ghosts, IInv, TypeOK
  <2>2. TypeOK'
    BY <2>1 DEF IInv, TypeOK
  <2>3. Mapped' /\ Owned' /\ Waits' /\ Hears'
    BY <2>1 DEF IInv, Mapped, Owned, Waits, Hears, Running
  <2>. QED
    BY <2>2, <2>3 DEF IInv
<1>. QED
  BY <1>2, <1>3, <1>4

LEMMA IInvInit == Init => IInv
<1>. SUFFICES ASSUME Init PROVE IInv
  OBVIOUS
<1>1. Cardinality({}) = 0
  BY FS_EmptySet
<1>2. TypeOK
  BY <1>1, HealthAssumption, NoRequestFields DEF Init, TypeOK
<1>3. Mapped /\ Owned
  BY DEF Init, Mapped, Owned, Running
<1>4. Waits /\ Hears
  BY NoRequestFields DEF Init, Waits, Hears
<1>. QED
  BY <1>2, <1>3, <1>4 DEF IInv

LEMMA IInvStep == IInv /\ [Next]_vars => IInv'
<1>. SUFFICES ASSUME IInv, [Next]_vars PROVE IInv'
  OBVIOUS
<1>1. CASE UNCHANGED vars
  <2>1. UNCHANGED <<entries, older, fresh, inFlight, listeners, work, cancelled, known, req,
                    current, stored, closing, shut, ended, evicted, former>>
    BY <1>1 DEF vars, manager, ghosts
  <2>. QED
    BY <2>1 DEF IInv, TypeOK, Mapped, Owned, Waits, Hears, Running
<1>2. CASE \E r \in Request, k \in Key, force \in BOOLEAN : Begin(r, k, force)
  BY <1>2, BeginStep
<1>3. CASE \E r \in Request : Connected(r) \/ ConnectFails(r) \/ Replace(r)
  BY <1>3, RequestStep
<1>4. CASE \E w \in Worker : Settle(w)
  BY <1>4, SettleStep
<1>5. CASE \/ \E t \in Target, why \in {"security", "removal"} : CloseBegins(t, why)
           \/ \E t \in Target : CloseEnds(t)
           \/ ShutdownBegins \/ ShutdownEnds \/ \E k \in Key : Expire(k)
  BY <1>5, ClosingStep
<1>. QED
  BY <1>1, <1>2, <1>3, <1>4, <1>5 DEF Next, Message

-----------------------------------------------------------------------------
(* The theorems.                                                           *)

LEMMA Invariant == Spec => []IInv
  BY IInvInit, IInvStep, PTL DEF Spec

(* Every variable keeps its type, and the cache its bound: evictIfNeeded runs whenever an
   entry is added. *)
THEOREM HealthTypes == Spec => []TypeOK
<1>1. IInv => TypeOK
  BY DEF IInv
<1>. QED
  BY <1>1, Invariant, PTL

(* A worker that is not cancelled is its key's work in flight, so that every invalidation
   that knows the key cancels it: neither evictions nor removals lose a running worker. *)
THEOREM WorkersOwned == Spec => []LiveWorkerOwned
<1>1. IInv => LiveWorkerOwned
  BY DEF IInv, Owned, LiveWorkerOwned
<1>. QED
  BY <1>1, Invariant, PTL

(* Refreshes replace a worker only when it has settled: load waits for cancelled work. *)
THEOREM WorkersReplacedInTurn == Spec => []ReplacedInTurn
<1>1. IInv => ReplacedInTurn
  <2>. SUFFICES ASSUME IInv, NEW v \in Running \ (ended \cup evicted),
                       NEW w \in Running \ (ended \cup evicted), work[v] = work[w]
                PROVE  v = w
    BY DEF ReplacedInTurn
  <2>1. inFlight[work[v]] = v /\ inFlight[work[w]] = w
    BY DEF IInv, Owned
  <2>. QED
    BY <2>1
<1>. QED
  BY <1>1, Invariant, PTL

(* A request that waits for live work is among its listeners, although invalidate and
   remove clear them, and the listeners are requests that wait for that key. *)
THEOREM WaitersAlwaysHear == Spec => []WaitersHear
<1>1. IInv => WaitersHear
  <2>1. IInv => \A k \in Key : listeners[k] \in SUBSET Request
    BY DEF IInv, TypeOK
  <2>. QED
    BY <2>1 DEF IInv, Hears, WaitersHear
<1>. QED
  BY <1>1, Invariant, PTL
=============================================================================
