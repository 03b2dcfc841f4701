------------------------------ MODULE MCWaits --------------------------------
(* Small instances of those parts of main in which a call waits for work that others share,   *)
(* cancel or limit: a behaviour is one of one part, chosen at the start, beside which the     *)
(* others rest.                                                                               *)
EXTENDS AggregateHealth, GroupScan, RequestLife

CONSTANTS Client, Conn, MaxSessions

VARIABLES
  part,  \* the part the behaviour is of
  closed, phase, keyOf, stale, sessions, pending, leases, timer, orphans, lastUses, client

(* The session manager with callers of any kind. *)
S == INSTANCE SessionManager WITH older <- lastUses

poolVars ==
  <<closed, phase, keyOf, stale, sessions, pending, leases, timer, orphans, lastUses, client>>
waitVars == <<part, vars, scanVars, requestVars, poolVars>>

MCTargetOf == [k \in Key |-> CHOOSE t \in Target : TRUE]

WaitInit ==
  /\ part \in {"pool", "health", "scan", "request"}
  /\ S!Init /\ Init /\ ScanInit /\ RequestInit

WaitNext ==
  \/ part = "pool" /\ S!Next /\ UNCHANGED <<part, vars, scanVars, requestVars>>
  \/ part = "health" /\ Next /\ UNCHANGED <<part, scanVars, requestVars, poolVars>>
  \/ part = "scan" /\ ScanNext /\ UNCHANGED <<part, vars, requestVars, poolVars>>
  \/ part = "request" /\ RequestNext /\ UNCHANGED <<part, vars, scanVars, poolVars>>

(* Each part is scheduled fairly while the behaviour is one of it. *)
WaitSpec ==
  /\ WaitInit /\ [][WaitNext]_waitVars
  /\ S!Fairness /\ Fairness /\ ScanFairness /\ RequestFairness

(* Acquires, releases and clears of the pool, which wait for connects and disconnects, their own or
   another call's, all return. *)
EveryCallReturns == S!EveryCallReturns

(* Every call ends: one that waits for a scan of the groups, its own or another's, and one under
   a limit, although Kafka may never answer it. *)
EveryCallEnds == CallsEnd /\ LimitAnswers
=============================================================================
