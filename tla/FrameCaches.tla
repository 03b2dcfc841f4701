---------------------------- MODULE FrameCaches -----------------------------
(***************************************************************************)
(* What a frame keeps of what it has read: the snapshots of its resource   *)
(* caches (src/renderer/kafka-snapshot-cache.ts and                        *)
(* kafka-resource-cache.ts) over the requests of its client                *)
(* (kafka-ipc.ts), which joins equal requests (kafka-ipc-deduper.ts).      *)
(*                                                                         *)
(* KafkaResourceCache.load and KafkaSnapshotCache.load differ in what they *)
(* do with a failure and in that only the latter evicts; the entries of    *)
(* both have the same life.  Of data it matters when it was asked for; the *)
(* clock is the number of invalidations.                                   *)
(***************************************************************************)
EXTENDS FiniteSets, Naturals

CONSTANTS
  Entry,       \* keys of a snapshot cache, which evicts
  Single,      \* keys of a map of the resource cache, which does not
  MaxEntries,  \* maxEntries
  MaxLoads,    \* bounds how often a loader runs
  MaxDrops     \* bounds how often what is read is dropped by an invalidation

ASSUME CacheAssumption ==
  Entry \cap Single = {} /\ {MaxEntries, MaxLoads} \subseteq Nat \ {0}
  /\ MaxDrops \in Nat

Resource == Entry \cup Single

VARIABLES
  entries,  \* entries[k]: NoEntry, or see CacheTypeOK
  used,     \* entries of the snapshot cache, the least recently used first
  loads,    \* loads[l].of, .at, .joined: the load whose request it shares, .kept: what there was
  drops,    \* how often something was invalidated or cleared
  dropped   \* dropped[k]: the number of the drop that hit k last

cacheVars == <<entries, used, loads, drops, dropped>>

NoData == [asked |-> 0, fresh |-> FALSE, some |-> FALSE]
NoEntry == [there |-> FALSE, data |-> NoData, by |-> 0, loading |-> FALSE]
Load == 1..MaxLoads
Begun == {l \in Load : loads[l].at # "none"}

(* by is the generation of the entry: the load that made it, 0 once it was invalidated. *)
CacheTypeOK ==
  /\ \A k \in Resource :
       /\ entries[k].by \in 0..MaxLoads /\ entries[k].data.asked \in 0..drops
       /\ entries[k].loading => entries[k].there /\ entries[k].by # 0
       /\ entries[k].data.fresh => entries[k].data.some
  /\ used \subseteq (Entry \X Entry) /\ drops \in 0..MaxDrops
  /\ \A l \in Load : loads[l].at \in {"none", "asked", "over"} /\ loads[l].joined \in Load

CacheInit ==
  /\ entries = [k \in Resource |-> NoEntry] /\ used = {}
  /\ loads = [l \in Load |-> [at |-> "none", of |-> CHOOSE k \in Resource : TRUE, joined |-> l,
                              kept |-> NoData, asked |-> 0]]
  /\ drops = 0 /\ dropped = [k \in Resource |-> 0]

-----------------------------------------------------------------------------
(* lastAccessedAt: used orders the entries of the snapshot cache, <<j, k>> for j before k. *)
Touched(k) ==
  IF k \in Single THEN used
  ELSE {pair \in used : k \notin {pair[1], pair[2]}} \cup {<<j, k>> : j \in Entry \ {k}}

(* evictIfNeeded(): the oldest entries without a load go until there are few enough. *)
NoneEvicted(now, protected) == {}
Evicted(now, protected) ==
  LET there == {k \in Entry : now[k].there}
      idle == {k \in there : ~now[k].loading /\ k \notin protected}
      before(k) == Cardinality({j \in idle : <<j, k>> \in used'})
      surplus == IF Cardinality(there) > MaxEntries THEN Cardinality(there) - MaxEntries ELSE 0
  IN  {k \in idle : before(k) < surplus}

Without(now, keys) == [k \in Resource |-> IF k \in keys THEN NoEntry ELSE now[k]]

(* read() *)
Reads(k) ==
  /\ entries[k].there /\ used' = Touched(k)
  /\ UNCHANGED <<entries, loads, drops, dropped>>

(* load() of what is fresh or loading starts nothing; otherwise the loader runs, whose request joins
   an equal one in flight. *)
Joined(k, l) ==
  LET equal == {m \in Begun : loads[m].at # "over" /\ loads[m].of = k}
  IN  IF equal = {} THEN l ELSE loads[CHOOSE m \in equal : TRUE].joined

LoadsAgain(k) ==
  /\ entries[k].data.fresh \/ entries[k].loading
  /\ used' = Touched(k)
  /\ UNCHANGED <<entries, loads, drops, dropped>>

StartsLoad(k, l) ==
  /\ ~entries[k].data.fresh /\ ~entries[k].loading
  /\ l \in Load \ Begun /\ \A m \in Load : m < l => m \in Begun
  /\ loads' = [loads EXCEPT ![l] = [@ EXCEPT !.at = "asked", !.of = k, !.joined = Joined(k, l),
                                             !.kept = entries[k].data, !.asked = drops]]
  /\ used' = Touched(k)
  /\ LET now == [entries EXCEPT ![k] = [@ EXCEPT !.there = TRUE, !.by = l, !.loading = TRUE]]
     IN  entries' = Without(now, Evicted(now, {k}))
  /\ UNCHANGED <<drops, dropped>>

(* The answer of main reaches the loads that share the request.  It is for their entry, unless the
   entry has another generation by then. *)
Asks(l) == loads[l].at = "asked" /\ loads[l].joined = l
Sharing(l) == {m \in Begun : loads[m].at # "over" /\ loads[m].joined = l}
End(l) == loads' = [m \in Load |-> IF m \in Sharing(l) THEN [loads[m] EXCEPT
                                     !.at = "over", !.kept = NoData, !.asked = 0] ELSE loads[m]]

LoadOf(k, l) == loads[IF entries[k].by \in Sharing(l) THEN entries[k].by ELSE l]

SameGeneration(k, l) == entries[k].there /\ entries[k].by \in Sharing(l)

Stores(l) ==
  /\ Asks(l) /\ End(l)
  /\ LET k == loads[l].of IN
     IF SameGeneration(k, l)
     THEN /\ used' = Touched(k)
          /\ LET now == [entries EXCEPT ![k] =
                           [@ EXCEPT !.loading = FALSE,
                                     !.data = [asked |-> LoadOf(k, l).asked,
                                               fresh |-> TRUE, some |-> TRUE]]]
             IN  entries' = Without(now, Evicted(now, {}))
     ELSE UNCHANGED <<entries, used>>
  /\ UNCHANGED <<drops, dropped>>

(* The request fails: what was there stays. *)
KeptNone(k, l) == NoData
Kept(k, l) == [IF k \in Single THEN LoadOf(k, l).kept ELSE entries[k].data EXCEPT !.fresh = FALSE]

Fails(l) ==
  /\ Asks(l) /\ End(l)
  /\ LET k == loads[l].of IN
     IF SameGeneration(k, l)
     THEN /\ used' = Touched(k)
          /\ entries' = [entries EXCEPT ![k] = [@ EXCEPT !.data = Kept(k, l), !.loading = FALSE]]
     ELSE UNCHANGED <<entries, used>>
  /\ UNCHANGED <<drops, dropped>>

-----------------------------------------------------------------------------
(* invalidate(), of one entry or of those of a target: after a write, a refresh, other settings. *)
Invalidates(keys) ==
  /\ drops < MaxDrops /\ drops' = drops + 1
  /\ entries' = [k \in Resource |->
       IF k \in keys /\ entries[k].there
       THEN [entries[k] EXCEPT !.data.fresh = FALSE, !.by = 0, !.loading = FALSE] ELSE entries[k]]
  /\ dropped' = [k \in Resource |-> IF k \in keys THEN drops' ELSE dropped[k]]
  /\ \E k \in keys : used' = Touched(k)
  /\ UNCHANGED loads

(* activateKubernetesCluster() of another one, which clears all. *)
ClearsAll ==
  /\ drops < MaxDrops /\ drops' = drops + 1
  /\ entries' = [k \in Resource |-> NoEntry]
  /\ dropped' = [k \in Resource |-> drops']
  /\ UNCHANGED <<used, loads>>

(* The time to live of an entry passes. *)
GoesStale(k) ==
  /\ entries[k].data.fresh
  /\ entries' = [entries EXCEPT ![k].data.fresh = FALSE]
  /\ UNCHANGED <<used, loads, drops, dropped>>

CacheNext ==
  \/ \E k \in Resource : Reads(k) \/ LoadsAgain(k) \/ GoesStale(k)
  \/ \E k \in Resource, l \in Load : StartsLoad(k, l)
  \/ \E l \in Load : Stores(l) \/ Fails(l)
  \/ \E keys \in {Resource} \cup {{k} : k \in Resource} : Invalidates(keys)
  \/ ClearsAll

CacheSpec == CacheInit /\ [][CacheNext]_cacheVars

-----------------------------------------------------------------------------
(* Properties.                                                             *)

(* What counts as fresh was asked for after its entry was dropped last, whatever loads of before
   come back: "generation guards prevent an invalidated in-flight response from repopulating an
   entry" (SPEC-004 L336).  It is the load that counts here: the request it joins may be older. *)
AskedSinceDropped ==
  \A k \in Resource : entries[k].data.fresh => entries[k].data.asked >= dropped[k]

(* What was read stays until it is replaced or its entry goes: no failure empties a page that had
   something to show (SPEC-014, REQ-166). *)
DataKept ==
  [][\A k \in Resource :
       entries[k].data.some /\ entries'[k].there => entries'[k].data.some]_cacheVars

(* A snapshot cache has no more entries with data than it may, save for those that load. *)
Bounded ==
  Cardinality({k \in Entry : entries[k].there /\ entries[k].data.some /\ ~entries[k].loading})
    <= MaxEntries

(* Both: what the caches keep is neither of before its last invalidation nor more than they may. *)
CachesAreFresh == AskedSinceDropped /\ Bounded

=============================================================================
