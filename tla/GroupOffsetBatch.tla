-------------------------- MODULE GroupOffsetBatch --------------------------
(***************************************************************************)
(* The batched read of the offsets of many consumer groups, each asked of  *)
(* its coordinator (src/main/kafka/group-offset-batch.ts,                  *)
(* KafkaGroupOffsetBatchReader), with the requests it sends                *)
(* (src/main/kafka/group-offset-batch-protocol.ts).                        *)
(*                                                                         *)
(* A connection has one reader and the scan makes one read at a time; the  *)
(* requests of a cancelled read may outlive it.  A lookup asks for any     *)
(* part of the groups still unknown, which covers every chunk size; a      *)
(* coordinator gets all its groups in one request.  Brokers are external:  *)
(* coordinators move, requests fail, versions and answers vary.            *)
(***************************************************************************)
EXTENDS FiniteSets, Naturals

CONSTANTS
  Scanned,   \* the groups of the scan
  Broker,    \* the brokers that coordinate them
  Width,     \* how many requests are in flight at a time: 8 in the code
  MaxReads,  \* bounds how often the reader is used
  MaxMoves   \* bounds how often a coordinator moves

ASSUME BatchAssumption == {Width, MaxReads, MaxMoves} \subseteq Nat

VARIABLES
  where,       \* where[g]: the broker that coordinates g
  moves,       \* how often coordinators have moved
  capability,  \* "unknown", "supported" or "unsupported"
  known,       \* coordinatorByGroup, the empty set for absent
  ready,       \* metadataReady
  read,        \* the read in progress or the last one
  requests,    \* request[b]: the read's request to b
  stray,       \* requests of cancelled reads that have not settled: sets of groups by broker
  refused,     \* a group and a broker that refused it as its coordinator, since its lookup
  reads        \* how many reads have begun

batchVars == <<where, moves, capability, known, ready, read, requests, stray, refused, reads>>

NoRequest == [at |-> "none", groups |-> {}]

BatchTypeOK ==
  /\ where \in [Scanned -> Broker] /\ moves \in 0..MaxMoves
  /\ capability \in {"unknown", "supported", "unsupported"} /\ ready \in BOOLEAN
  /\ \A g \in Scanned : known[g] \subseteq Broker /\ Cardinality(known[g]) <= 1
  /\ read.at \in {"idle", "metadata", "bootstrap", "lookup", "fetch", "answered", "failed"}
  /\ {read.left, read.resolved} \subseteq SUBSET Scanned
  /\ {read.stop, read.cancelled, read.supported} \subseteq BOOLEAN
  /\ \A b \in Broker : /\ requests[b].at \in {"none", "queued", "finding", "asked", "done"}
                       /\ {requests[b].groups, stray[b]} \subseteq SUBSET Scanned
  /\ refused \subseteq Scanned \X Broker /\ reads \in 0..MaxReads

IdleRead == [at |-> "idle", left |-> {}, resolved |-> {}, stop |-> FALSE,
             cancelled |-> FALSE, supported |-> FALSE]

BatchInit ==
  /\ where \in [Scanned -> Broker] /\ moves = 0
  /\ capability = "unknown" /\ known = [g \in Scanned |-> {}] /\ ready = FALSE
  /\ read = IdleRead /\ requests = [b \in Broker |-> NoRequest]
  /\ stray = [b \in Broker |-> {}] /\ refused = {} /\ reads = 0

-----------------------------------------------------------------------------
(* read() up to its requests.                                              *)

ReadOver == read.at \in {"idle", "answered", "failed"}
Supported(supported) == [read EXCEPT !.at = "answered", !.supported = supported]
Failed == [read EXCEPT !.at = "failed"]

BeginsRead ==
  /\ ReadOver /\ reads < MaxReads /\ reads' = reads + 1
  /\ requests' = [b \in Broker |-> NoRequest]
  /\ read' = IF capability = "unsupported" THEN [IdleRead EXCEPT !.at = "answered"]
             ELSE [IdleRead EXCEPT !.at = IF ready THEN "bootstrap" ELSE "metadata"]
  /\ UNCHANGED <<where, moves, capability, known, ready, stray, refused>>

(* refreshMetadata() settles; a cancelled read ends here. *)
Refreshes(succeeds) ==
  /\ read.at = "metadata"
  /\ IF succeeds /\ ~read.cancelled THEN ready' = TRUE /\ read' = [read EXCEPT !.at = "bootstrap"]
     ELSE ready' = ready /\ read' = Failed
  /\ UNCHANGED <<where, moves, capability, known, requests, stray, refused, reads>>

NotKnown(table) == {g \in Scanned : table[g] = {}}

(* The groups whose coordinator is known, by coordinator. *)
Queued(table) ==
  [b \in Broker |-> LET groups == {g \in Scanned : table[g] = {b}} IN
     IF groups = {} THEN NoRequest ELSE [at |-> "queued", groups |-> groups]]

(* After a lookup, or before the first: the next one, or the requests for offsets. *)
Proceeds(left, table) ==
  IF left # {} THEN
    /\ read' = IF read.cancelled THEN Failed ELSE [read EXCEPT !.at = "lookup", !.left = left]
    /\ UNCHANGED requests
  ELSE /\ read' = [read EXCEPT !.at = "fetch", !.left = {}]
       /\ requests' = Queued(table)

(* The bootstrap broker is found and, once, asked for the versions it has; there may be none. *)
FindsBootstrap(able) ==
  /\ read.at = "bootstrap"
  /\ IF capability = "unknown" /\ ~able
     THEN /\ capability' = "unsupported" /\ read' = Supported(FALSE) /\ UNCHANGED requests
     ELSE /\ capability' = IF capability = "unknown" THEN "supported" ELSE capability
          /\ Proceeds(NotKnown(known), known)
  /\ UNCHANGED <<where, moves, known, ready, stray, refused, reads>>

BootstrapFails ==
  /\ read.at = "bootstrap"
  /\ read' \in {Failed, Supported(FALSE)}
  /\ UNCHANGED <<where, moves, capability, known, ready, requests, stray, refused, reads>>

(* A lookup answers for `chunk`, for the groups of `found` with a coordinator. *)
LookedUp(chunk, found, disables) ==
  LET table == [g \in Scanned |-> IF g \in found THEN {where[g]} ELSE known[g]] IN
  /\ known' = table
  /\ refused' = {pair \in refused : pair[1] \notin found}
  /\ IF disables
     THEN capability' = "unsupported" /\ read' = Supported(FALSE) /\ UNCHANGED requests
     ELSE capability' = capability /\ Proceeds(read.left \ chunk, table)
  /\ UNCHANGED <<where, moves, ready, stray, reads>>

Lookup ==
  /\ read.at = "lookup"
  /\ \E chunk \in SUBSET read.left \ {{}} :
       \E found \in SUBSET chunk, disables \in BOOLEAN :
         /\ disables => found # chunk
         /\ LookedUp(chunk, found, disables)

(* It fails: only a cancelled read ends with it. *)
LookupFails ==
  /\ read.at = "lookup"
  /\ \E chunk \in SUBSET read.left \ {{}}, disables \in BOOLEAN :
       IF read.cancelled
       THEN /\ read' = Failed
            /\ UNCHANGED <<where, moves, capability, known, ready, requests, stray, refused, reads>>
       ELSE LookedUp(chunk, {}, disables)

-----------------------------------------------------------------------------
(* The requests for offsets (mapBounded()).                                *)

Goes == ~read.stop /\ ~read.cancelled
InFlight == {b \in Broker : requests[b].at \in {"finding", "asked"}}

StartsRequest(b) ==
  /\ read.at = "fetch" /\ requests[b].at = "queued"
  /\ Goes /\ Cardinality(InFlight) < Width
  /\ requests' = [requests EXCEPT ![b].at = "finding"]
  /\ UNCHANGED <<where, moves, capability, known, ready, read, stray, refused, reads>>

(* findBroker() answers: what happened meanwhile counts. *)
Blind == TRUE
StillGoes == Goes

FindsBroker(b) ==
  /\ requests[b].at = "finding"
  /\ requests' = [requests EXCEPT ![b].at = IF StillGoes THEN "asked" ELSE "done"]
  /\ UNCHANGED <<where, moves, capability, known, ready, read, stray, refused, reads>>

(* What the answers of b for the groups that have moved teach; whole are those whose partitions
   were all answered, the rest is left to the scan's fallback. *)
ForgetsMoved(moved) == [g \in Scanned |-> IF g \in moved THEN {} ELSE known[g]]

Learns(b, moved, disables) ==
  /\ known' = ForgetsMoved(moved)
  /\ refused' = refused \cup (moved \X {b})
  /\ ready' = IF moved = {} THEN ready ELSE FALSE
  /\ capability' = IF disables THEN "unsupported" ELSE capability

AnswersFor(groups, b) == {g \in groups : where[g] = b}

FetchAnswers(b) ==
  /\ requests[b].at = "asked"
  /\ \E whole \in SUBSET AnswersFor(requests[b].groups, b), disables \in BOOLEAN :
       /\ disables => whole # AnswersFor(requests[b].groups, b)
       /\ Learns(b, requests[b].groups \ AnswersFor(requests[b].groups, b), disables)
       /\ read' = [read EXCEPT !.resolved = @ \cup whole, !.stop = @ \/ disables]
  /\ requests' = [requests EXCEPT ![b].at = "done"]
  /\ UNCHANGED <<where, moves, stray, reads>>

(* findBroker() or the request fails; of a cancelled read the first failure ends it. *)
Strays ==
  [b \in Broker |-> stray[b] \cup (IF requests[b].at = "asked" THEN requests[b].groups ELSE {})]

FetchFails(b) ==
  /\ requests[b].at \in {"finding", "asked"}
  /\ UNCHANGED <<where, moves, reads>>
  /\ IF read.cancelled
     THEN /\ read' = Failed /\ requests' = [c \in Broker |-> NoRequest]
          /\ stray' = [Strays EXCEPT ![b] = stray[b]]
          /\ UNCHANGED <<capability, known, ready, refused>>
     ELSE /\ \E disables \in BOOLEAN :
               /\ known' = [g \in Scanned |-> IF g \in requests[b].groups THEN {} ELSE known[g]]
               /\ ready' = FALSE
               /\ capability' = IF disables THEN "unsupported" ELSE capability
               /\ read' = [read EXCEPT !.stop = @ \/ disables]
          /\ requests' = [requests EXCEPT ![b].at = "done"]
          /\ UNCHANGED <<stray, refused>>

(* All workers have ended. *)
EndsRead ==
  /\ read.at = "fetch" /\ InFlight = {}
  /\ Goes => \A b \in Broker : requests[b].at # "queued"
  /\ read' = IF read.cancelled THEN Failed ELSE Supported(capability = "supported")
  /\ UNCHANGED <<where, moves, capability, known, ready, requests, stray, refused, reads>>

(* What a cancelled read still waited for answers. *)
StraySettles(b) ==
  /\ stray[b] # {} /\ stray' = [stray EXCEPT ![b] = {}]
  /\ \/ \E disables \in BOOLEAN : Learns(b, stray[b] \ AnswersFor(stray[b], b), disables)
     \/ UNCHANGED <<capability, known, ready, refused>>
  /\ UNCHANGED <<where, moves, read, requests, reads>>

CancelsRead ==
  /\ ~ReadOver /\ ~read.cancelled
  /\ read' = [read EXCEPT !.cancelled = TRUE]
  /\ UNCHANGED <<where, moves, capability, known, ready, requests, stray, refused, reads>>

CoordinatorMoves(g, b) ==
  /\ moves < MaxMoves /\ where[g] # b
  /\ moves' = moves + 1 /\ where' = [where EXCEPT ![g] = b]
  /\ UNCHANGED <<capability, known, ready, read, requests, stray, refused, reads>>

BatchNext ==
  \/ BeginsRead \/ BootstrapFails \/ Lookup \/ LookupFails \/ EndsRead \/ CancelsRead
  \/ \E how \in BOOLEAN : Refreshes(how) \/ FindsBootstrap(how)
  \/ \E b \in Broker : \/ StartsRequest(b) \/ FindsBroker(b) \/ FetchAnswers(b) \/ FetchFails(b)
                       \/ StraySettles(b)
  \/ \E g \in Scanned, b \in Broker : CoordinatorMoves(g, b)

BatchSpec == BatchInit /\ [][BatchNext]_batchVars

-----------------------------------------------------------------------------
(* Properties.                                                             *)

(* Once a broker's answer has shown that batches do not work, or the read is cancelled, the read
   sends no further request, those whose broker is being looked up included. *)
StopsBatching ==
  [][\A b \in Broker : requests'[b].at = "asked" /\ requests[b].at # "asked" => Goes]_batchVars

(* A broker that said it does not coordinate a group is not asked for it again, in this read or a
   later one, until a lookup has named it anew. *)
RefusalHeeded ==
  \A g \in Scanned, b \in Broker : known[g] = {b} => <<g, b>> \notin refused

(* Both: what the brokers have answered decides what they are asked next. *)
AnswersAreHeeded == StopsBatching /\ []RefusalHeeded

=============================================================================
