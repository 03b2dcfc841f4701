----------------------------- MODULE GroupScan ------------------------------
(***************************************************************************)
(* The shared scan of the offsets of all consumer groups of a connection   *)
(* (src/main/kafka/group-fetch.ts, ConsumerGroupOffsetIndex) and the       *)
(* request for the consumers of a topic that uses it                       *)
(* (fetchTopicConsumers).  The batch reader it asks first is modelled by   *)
(* what it may answer; GroupOffsetBatch has its details.                   *)
(*                                                                         *)
(* A call of all() is a caller; a scan has the name of the caller that     *)
(* started it, and a caller starts at most one.  Of offsets it matters     *)
(* whether those of a group are all there, a part of them, or none.  What  *)
(* follows the end of a scan in microtasks comes before the next call,     *)
(* abort or refresh, which come as tasks of their own (AllHeard).          *)
(***************************************************************************)
EXTENDS FiniteSets, Naturals

CONSTANTS
  Callers,   \* how many calls of all() there are, each with a signal of its own
  Group,     \* consumer groups
  MaxClears  \* bounds how often the index is cleared

ASSUME ScanAssumption == {Callers, MaxClears} \subseteq Nat

(* Callers are numbered as they call. *)
Caller == 1..Callers
NoCaller == 0

VARIABLES
  caller,       \* caller[c].at, .scan: the scan it joined, .since: the generation it called in
  aborting,     \* callers whose signal is aborted
  scan,         \* scan[c]: the scan c started, see ScanTypeOK
  shared,       \* the scan others join, NoCaller for none; buildAbort is its controller
  data,         \* the scan whose offsets are kept, NoCaller for none
  recent,       \* they are not older than ttlMs
  generation,   \* how often the index was cleared
  subscribers,  \* callers the scan is kept alive for
  heeded,       \* callers whose abort is listened to
  marks,        \* the scan whose missing groups unavailableGroupIds has, NoCaller for an empty set
  exact         \* exact[c]: groups whose lag c was told without a mark

scanVars == <<caller, aborting, scan, shared, data, recent, generation, subscribers, heeded,
              marks, exact>>
indexVars == <<shared, data, recent, generation, subscribers, heeded, marks>>

Phases == {"listing", "batch", "fallback"}
NoScan == [at |-> "none", aborted |-> FALSE, left |-> {},
           offsets |-> [g \in Group |-> "none"], missing |-> {}, since |-> 0]

ScanTypeOK ==
  /\ \A c \in Caller :
       /\ caller[c].at \in {"out", "waits", "joined", "reads", "answered", "cancelled", "dropped",
                           "failed"}
       /\ caller[c].scan \in Caller \cup {NoCaller} /\ caller[c].since \in 0..MaxClears
       /\ scan[c].at \in {"none", "ended", "failed"} \cup Phases
       /\ scan[c].left \subseteq Group /\ scan[c].missing \subseteq Group
       /\ scan[c].offsets \in [Group -> {"none", "part", "all"}]
  /\ {shared, data, marks} \subseteq Caller \cup {NoCaller} /\ generation \in 0..MaxClears
  /\ aborting \cup subscribers \cup heeded \subseteq Caller
  /\ exact \in [Caller -> SUBSET Group] /\ recent \in BOOLEAN
  /\ shared # NoCaller => scan[shared].at \in Phases \cup {"ended", "failed"}

Left(how) == [at |-> how, scan |-> NoCaller, since |-> 0]

ScanInit ==
  /\ caller = [c \in Caller |-> Left("out")]
  /\ aborting = {} /\ scan = [c \in Caller |-> NoScan] /\ shared = NoCaller
  /\ data = NoCaller /\ recent = FALSE /\ generation = 0 /\ subscribers = {} /\ heeded = {}
  /\ marks = NoCaller /\ exact = [c \in Caller |-> {}]

(* isGroupUnavailable() *)
IsUnavailable(g) == marks # NoCaller /\ g \in scan[marks].missing

Over(s) == scan[s].at \in {"ended", "failed"}
Runs(s) == scan[s].at \in Phases
Awaiting(c) == caller[c].at \in {"waits", "joined"} /\ Over(caller[c].scan)
AllHeard == \A c \in Caller : ~Awaiting(c)

-----------------------------------------------------------------------------
(* all()                                                                   *)

(* The caller joins the scan in flight, if there is one, or starts one.  A signal that is
   aborted already never tells its listener. *)
Joins(c, since, current) ==
  LET s == IF current = NoCaller THEN c ELSE current IN
  /\ subscribers' = subscribers \cup {c}
  /\ heeded' = IF c \in aborting THEN heeded ELSE heeded \cup {c}
  /\ shared' = s
  /\ caller' = [caller EXCEPT ![c] = [at |-> "joined", scan |-> s, since |-> since]]
  /\ scan' = IF s # c THEN scan
             ELSE [scan EXCEPT ![c] = [NoScan EXCEPT !.at = "listing", !.since = generation]]

DyingNever == FALSE
Dying == shared # NoCaller /\ scan[shared].aborted

Calls(c) ==
  /\ caller[c].at = "out" /\ \A d \in 1..(c - 1) : caller[d].at # "out"
  /\ AllHeard
  /\ IF data # NoCaller /\ recent
     THEN /\ caller' = [caller EXCEPT ![c] = [at |-> "reads", scan |-> data, since |-> generation]]
          /\ UNCHANGED <<shared, data, subscribers, heeded, scan>>
     ELSE /\ data' = NoCaller
          /\ IF Dying
             THEN /\ caller' = [caller EXCEPT
                       ![c] = [at |-> "waits", scan |-> shared, since |-> generation]]
                  /\ UNCHANGED <<shared, subscribers, heeded, scan>>
             ELSE Joins(c, generation, shared)
  /\ UNCHANGED <<aborting, recent, generation, marks, exact>>

(* The scan it waited for has failed: whoever comes first starts the next one. *)
StopsWaiting(c) ==
  /\ caller[c].at = "waits" /\ Over(caller[c].scan)
  /\ Joins(c, caller[c].since, IF shared = caller[c].scan THEN NoCaller ELSE shared)
  /\ UNCHANGED <<aborting, data, recent, generation, marks, exact>>

(* removeSubscriber(): the last one to leave aborts the scan. *)
Abandoned(left) ==
  IF left = {} /\ shared # NoCaller THEN [scan EXCEPT ![shared].aborted = TRUE] ELSE scan

Leaves(c) ==
  /\ subscribers' = subscribers \ {c} /\ heeded' = heeded \ {c}
  /\ scan' = Abandoned(subscribers \ {c})

(* The scan has settled for a caller that joined it. *)
HearsPart(c) ==
  /\ caller[c].at = "joined" /\ Over(caller[c].scan)
  /\ Leaves(c)
  /\ caller' = [caller EXCEPT ![c] =
       IF scan[@.scan].at = "failed"
       THEN Left(IF c \in aborting THEN "cancelled"
                 ELSE IF scan[@.scan].aborted THEN "dropped" ELSE "failed")
       ELSE IF c \in aborting THEN Left("cancelled") ELSE [@ EXCEPT !.at = "reads"]]
  /\ aborting' = aborting \ {c}
  /\ UNCHANGED <<shared, data, recent, generation, marks, exact>>

(* The signal of a caller is aborted: a caller that is listened to leaves at once, one that waits
   or reads is not. *)
Aborts(c) ==
  /\ caller[c].at \in {"waits", "joined", "reads"} /\ c \notin aborting /\ AllHeard
  /\ IF caller[c].at = "joined" /\ c \in heeded
     THEN /\ Leaves(c) /\ caller' = [caller EXCEPT ![c] = Left("cancelled")]
          /\ UNCHANGED aborting
     ELSE /\ aborting' = aborting \cup {c}
          /\ UNCHANGED <<subscribers, heeded, scan, caller>>
  /\ UNCHANGED <<shared, data, recent, generation, marks, exact>>

(* fetchTopicConsumers: the groups are described and the watermarks read, and then each lag is told
   as exact unless its group is unavailable by now; nobody asks for the signal any more. *)
ToldExact(c) == {g \in Group : scan[caller[c].scan].offsets[g] # "none" /\ ~IsUnavailable(g)}

Answers(c) ==
  /\ caller[c].at = "reads" /\ AllHeard
  /\ \/ caller' = [caller EXCEPT ![c] = Left("answered")]
        /\ exact' = [exact EXCEPT ![c] = ToldExact(c)]
     \/ caller' = [caller EXCEPT ![c] = Left("failed")] /\ UNCHANGED exact
  /\ aborting' = aborting \ {c}
  /\ UNCHANGED <<scan, indexVars>>

(* clear(), by a refresh of the health or by disconnect(). *)
Cleared == IF shared = NoCaller THEN scan ELSE [scan EXCEPT ![shared].aborted = TRUE]

ClearIndex ==
  /\ generation < MaxClears /\ AllHeard
  /\ generation' = generation + 1
  /\ scan' = Cleared
  /\ shared' = NoCaller /\ data' = NoCaller /\ subscribers' = {} /\ marks' = NoCaller
  /\ UNCHANGED <<caller, aborting, recent, heeded, exact>>

(* ttlMs pass. *)
Expires ==
  /\ recent /\ AllHeard /\ recent' = FALSE
  /\ UNCHANGED <<caller, aborting, scan, shared, data, generation, subscribers, heeded, marks,
                 exact>>

-----------------------------------------------------------------------------
(* build()                                                                 *)

(* The error of a scan reaches its promise, which is forgotten if it is still the current one. *)
BuildFails(s) ==
  /\ scan' = [scan EXCEPT ![s] = [NoScan EXCEPT !.at = "failed", !.aborted = scan[s].aborted]]
  /\ shared' = IF shared = s THEN NoCaller ELSE shared
  /\ UNCHANGED <<caller, aborting, data, recent, generation, subscribers, heeded, marks,
                 exact>>

(* A read comes back to an aborted scan. *)
Breaks(s) == Runs(s) /\ scan[s].aborted /\ BuildFails(s)

Lists(s) ==
  /\ scan[s].at = "listing" /\ ~scan[s].aborted
  /\ \/ BuildFails(s)
     \/ /\ scan' = [scan EXCEPT ![s].at = "batch", ![s].left = Group]
        /\ UNCHANGED <<caller, aborting, exact, indexVars>>

(* The batch reader answers for all offsets of a group, for a part or for none of them; nothing is
   left of an answer that is an error. *)
Resolves(offsets) == offsets = "all"
BatchAnswers(s) ==
  /\ scan[s].at = "batch" /\ ~scan[s].aborted
  /\ \E offsets \in [Group -> {"none", "part", "all"}] :
       scan' = [scan EXCEPT ![s].at = "fallback", ![s].offsets = offsets,
                            ![s].left = {g \in Group : ~Resolves(offsets[g])}]
  /\ UNCHANGED <<caller, aborting, exact, indexVars>>

(* fetchOffsets of one group the batch did not resolve. *)
Missing(missing, g) == missing \cup {g}
FallsBack(s, g) ==
  /\ scan[s].at = "fallback" /\ ~scan[s].aborted /\ g \in scan[s].left
  /\ \/ scan' = [scan EXCEPT ![s].left = @ \ {g}, ![s].offsets[g] = "all"]
     \/ scan' = [scan EXCEPT ![s].left = @ \ {g}, ![s].missing = Missing(@, g)]
  /\ UNCHANGED <<caller, aborting, exact, indexVars>>

(* The scan is complete: build(), and what all() hung on its promise. *)
Completes(s) ==
  /\ scan[s].at = "fallback" /\ ~scan[s].aborted /\ scan[s].left = {}
  /\ scan' = [scan EXCEPT ![s].at = "ended"]
  /\ marks' = s /\ recent' = TRUE
  /\ data' = IF scan[s].since = generation THEN s ELSE data
  /\ shared' = IF shared = s THEN NoCaller ELSE shared
  /\ UNCHANGED <<caller, aborting, generation, subscribers, heeded, exact>>

Builds(s) ==
  \/ Breaks(s) \/ Lists(s) \/ BatchAnswers(s) \/ Completes(s)
  \/ \E g \in Group : FallsBack(s, g)

ScanMoves(c) == StopsWaiting(c) \/ HearsPart(c) \/ Answers(c) \/ (AllHeard /\ Builds(c))

ScanNext ==
  \/ \E c \in Caller : Calls(c) \/ Aborts(c) \/ ScanMoves(c)
  \/ ClearIndex \/ Expires

ScanSpec == ScanInit /\ [][ScanNext]_scanVars

(* Requests of Kafka are answered or fail, by its timeouts, and promises settle. *)
ScanFairness == \A c \in Caller : WF_scanVars(ScanMoves(c))

-----------------------------------------------------------------------------
(* Properties.                                                             *)

(* Offsets of a group of which only a part could be read are kept for later readers only with the
   group marked unavailable, which labels its lag as a lower bound (SPEC-014, REQ-187). *)
PartialIsMarked ==
  data # NoCaller => \A g \in Group : scan[data].offsets[g] = "part" => IsUnavailable(g)

(* A lag that a caller is told as exact is of all the offsets of the group, as long as the marks the
   index has when it is told are still those of the scan the caller has read.  Without that condition
   it does not hold: the code asks for the marks after it has awaited the description of the groups
   (group-fetch.ts:473), and a clear() or the end of another scan in between replaces them. *)
PartialIsTold ==
  [][\A c \in Caller, g \in Group :
       /\ caller[c].at = "reads" /\ caller'[c].at = "answered" /\ g \in exact'[c]
       /\ marks = caller[c].scan
       => scan[caller[c].scan].offsets[g] = "all"]_scanVars

(* One read-only scan at a time serves the callers: a second one starts only when the first was
   aborted, by its last subscriber or by a clear (REQ-172, "one shared" index). *)
OneScan == \A s, t \in Caller : Runs(s) /\ Runs(t) /\ ~scan[s].aborted /\ ~scan[t].aborted => s = t

(* A caller whose own signal is not aborted hears that its scan was only if the index was cleared
   since it called: leaving never takes the scan from the others or from those that come next. *)
DroppedForCause ==
  [][\A c \in Caller : caller'[c].at = "dropped" /\ caller[c].at # "dropped" =>
       caller[c].since < generation]_scanVars

(* No scan of before a clear answers a call of after it. *)
ClearedNeverServes ==
  \A c \in Caller : caller[c].at = "reads" => scan[caller[c].scan].since >= caller[c].since

(* All five: a caller is served by one scan that is not of before a clear and not taken from it by
   another caller, with what was read only in part kept marked and told as such while it is. *)
ScanServes ==
  []PartialIsMarked /\ []OneScan /\ []ClearedNeverServes /\ DroppedForCause /\ PartialIsTold

(* Every call ends. *)
CallsEnd ==
  \A c \in Caller : caller[c].at \in {"waits", "joined", "reads"} ~>
                      caller[c].at \in {"answered", "cancelled", "dropped", "failed"}

=============================================================================
