--------------------------- MODULE TunnelForwarder ---------------------------
(***************************************************************************)
(* createTunnelForwarder (src/main/kafka/tunnel-forwarder.ts): the sockets *)
(* of a session that its port-forward listeners accept are piped to the    *)
(* kubectl of their pod; the first one opens it, the others share it.      *)
(* Closing the session aborts its signal and ends its tunnels.             *)
(***************************************************************************)
EXTENDS KubectlTunnels

CONSTANTS
  Key,       \* the pods that are forwarded to, by session
  SignalOf,  \* SignalOf[k]: the session of k
  Socket     \* identities of accepted sockets; bounds how many there are at a time

ASSUME ForwarderAssumption == SignalOf \in [Key -> Signal]

VARIABLES
  tunnels,   \* tunnels[k]: the run that `tunnels' of k's session has for k
  sockets,   \* sockets[x]: waiting for a tunnel, or piped to it
  forwarder  \* forwarder[s]: open, or where its close() is

vars == <<tunnelVars, tunnels, sockets, forwarder>>

SocketState == [at : {"gone", "waiting", "piped"}, on : Run \cup {None}]
GoneSocket == [at |-> "gone", on |-> None]

TypeOK ==
  /\ TunnelTypeOK
  /\ tunnels \in [Key -> Run \cup {None}]
  /\ sockets \in [Socket -> SocketState]
  /\ forwarder \in [Signal -> {"open", "settling", "stopping", "closed"}]

Init ==
  /\ TunnelInit
  /\ tunnels = [k \in Key |-> None]
  /\ sockets = [x \in Socket |-> GoneSocket]
  /\ forwarder = [s \in Signal |-> "open"]

SetSocket(x, place, r) == sockets' = [sockets EXCEPT ![x] = [at |-> place, on |-> r]]

-----------------------------------------------------------------------------
(* The continuations of the promise that open() returned.                  *)

KeptRejected(R) == tunnels
Forgotten(R) == [k \in Key |-> IF tunnels[k] \in R THEN None ELSE tunnels[k]]

(* Rejected: the tunnel is forgotten, its sockets are destroyed. *)
Rejected(R) ==
  /\ tunnels' = Forgotten(R)
  /\ sockets' = [x \in Socket |-> IF sockets[x].at = "waiting" /\ sockets[x].on \in R
                                  THEN GoneSocket ELSE sockets[x]]
  /\ UNCHANGED forwarder

(* Resolved: its sockets are piped; a kubectl that has exited already is forgotten. *)
Resolved(r) ==
  /\ sockets' = [x \in Socket |-> IF sockets[x] = [at |-> "waiting", on |-> r]
                                  THEN [at |-> "piped", on |-> r] ELSE sockets[x]]
  /\ tunnels' = IF runs[r].at = "alive" THEN tunnels ELSE Forgotten({r})
  /\ UNCHANGED forwarder

Unmoved == UNCHANGED <<tunnels, sockets, forwarder>>

(* The tunnel's `ended'. *)
KeptEnded(r) == UNCHANGED <<tunnels, sockets, forwarder>>
Ended(r) == tunnels' = Forgotten({r}) /\ UNCHANGED <<sockets, forwarder>>

-----------------------------------------------------------------------------
(* forward() and its sockets                                               *)

Unused(r) == runs[r].at = "free" /\ \A x \in Socket : sockets[x].on # r

(* A socket of k is accepted. *)
Opens(x, k) ==
  /\ sockets[x].at = "gone" /\ forwarder[SignalOf[k]] = "open" /\ tunnels[k] = None
  /\ \E r \in Run :
       /\ Unused(r) /\ Begins(r, SignalOf[k])
       /\ tunnels' = [tunnels EXCEPT ![k] = r]
       /\ SetSocket(x, "waiting", r)
  /\ UNCHANGED forwarder

Shares(x, k) ==
  /\ sockets[x].at = "gone" /\ forwarder[SignalOf[k]] = "open" /\ tunnels[k] # None
  /\ SetSocket(x, IF runs[tunnels[k]].said = "ready" THEN "piped" ELSE "waiting", tunnels[k])
  /\ UNCHANGED <<tunnelVars, tunnels, forwarder>>

(* Its client closes it. *)
SocketCloses(x) ==
  /\ sockets[x].at # "gone"
  /\ SetSocket(x, "gone", None)
  /\ UNCHANGED <<tunnelVars, tunnels, forwarder>>

(* Its upstream is refused or closes, because kubectl has exited. *)
UpstreamCloses(x) ==
  /\ sockets[x].at = "piped" /\ sockets[x].on \notin Alive
  /\ SocketCloses(x)

-----------------------------------------------------------------------------
(* close()                                                                 *)

CloseBegins(s) ==
  /\ forwarder[s] = "open"
  /\ Abort(s)
  /\ LET R == Listening(s) \cap Unsettled IN
     /\ tunnels' = Forgotten(R)
     /\ sockets' = [x \in Socket |-> IF sockets[x].at = "waiting" /\ sockets[x].on \in R
                                     THEN GoneSocket ELSE sockets[x]]
  /\ forwarder' = [forwarder EXCEPT ![s] = "settling"]

(* Every promise in the map has settled: clear it, and close what was opened. *)
CloseSettles(s) ==
  /\ forwarder[s] = "settling"
  /\ \A k \in Key : SignalOf[k] = s /\ tunnels[k] # None => runs[tunnels[k]].at # "preparing"
  /\ tunnels' = [k \in Key |-> IF SignalOf[k] = s THEN None ELSE tunnels[k]]
  /\ StopAll({tunnels[k] : k \in {j \in Key : SignalOf[j] = s}} \cap Alive)
  /\ forwarder' = [forwarder EXCEPT ![s] = "stopping"]
  /\ UNCHANGED <<aborted, closed, connected, sockets>>

(* Each has exited or was sent its SIGKILL. *)
CloseEnds(s) ==
  /\ forwarder[s] = "stopping"
  /\ \A r \in Of(s) \cap Alive : runs[r].said = "ready" => runs[r].told = "kill"
  /\ forwarder' = [forwarder EXCEPT ![s] = "closed"]
  /\ UNCHANGED <<tunnelVars, tunnels, sockets>>

(* Another session, under the name of one that has left nothing behind. *)
SessionOpens(s) ==
  /\ forwarder[s] = "closed" /\ Of(s) = {}
  /\ forwarder' = [forwarder EXCEPT ![s] = "open"]
  /\ aborted' = aborted \ {s}
  /\ UNCHANGED <<runs, closed, connected, tunnels, sockets>>

-----------------------------------------------------------------------------
Prepared(r) ==
  \/ PrepareFails(r) /\ Rejected({r})
  \/ Starts(r) /\ IF runs'[r].said = "failed" THEN Rejected({r}) ELSE Unmoved

GivenUp(r) == GivesUp(r) /\ Rejected({r})

Exit(r) == Exits(r) /\ IF runs[r].said = "ready" THEN Ended(r) ELSE Unmoved

Next ==
  \/ \E x \in Socket, k \in Key : Opens(x, k) \/ Shares(x, k)
  \/ \E x \in Socket : SocketCloses(x) \/ UpstreamCloses(x)
  \/ \E r \in Run :
       \/ Prepared(r) \/ GivenUp(r) \/ Exit(r)
       \/ BecomesReady(r) /\ Resolved(r)
       \/ (NeverStarts(r) \/ Closes(r)) /\ Rejected({r})
       \/ LateFires(r) /\ Unmoved
  \/ \E s \in Signal : CloseBegins(s) \/ CloseSettles(s) \/ CloseEnds(s) \/ SessionOpens(s)
  \/ Disconnects /\ Rejected(Alive \cap Unsettled)
  \/ (Connects \/ CloseAll) /\ Unmoved

Spec == Init /\ [][Next]_vars

(* The host answers; the deadline and the late timer fire; what was sent SIGKILL exits; the
   kernel closes the sockets of a process that has exited; promises that settle are followed. *)
Fairness ==
  /\ \A r \in Run :
       /\ WF_vars(Prepared(r)) /\ WF_vars(GivenUp(r)) /\ WF_vars(LateFires(r) /\ Unmoved)
       /\ WF_vars(runs[r].told = "kill" /\ Exit(r))
  /\ \A x \in Socket : WF_vars(UpstreamCloses(x))
  /\ \A s \in Signal : WF_vars(CloseSettles(s)) /\ WF_vars(CloseEnds(s))

FairSpec == Spec /\ Fairness

-----------------------------------------------------------------------------
(* Properties.                                                             *)

(* While a session is open, its map has exactly the tunnels that serve or may yet serve: none
   that was rejected or has exited, which later sockets would find for ever, and every one that
   is ready, so that a pod has at most one and its sockets share it. *)
MapServes ==
  /\ \A k \in Key : LET r == tunnels[k] IN
       r # None /\ forwarder[SignalOf[k]] = "open" =>
         /\ runs[r].signal = SignalOf[k] /\ runs[r].said # "failed"
         /\ runs[r].at = "exited" => runs[r].said = "no"
         /\ runs[r].at # "free"
  /\ \A r \in Alive : runs[r].said = "ready" /\ forwarder[runs[r].signal] = "open" =>
       \E k \in Key : tunnels[k] = r

(* A socket waits only for a promise that is still to settle, and no two pods share a run. *)
WaitsForOpening ==
  /\ \A x \in Socket : sockets[x].at = "waiting" =>
       LET run == runs[sockets[x].on] IN run.at # "free" /\ run.said = "no"
  /\ \A j, k \in Key : tunnels[j] = tunnels[k] /\ tunnels[k] # None => j = k

(* A socket is not kept waiting: it is piped or destroyed. *)
EverySocketAnswered == \A x \in Socket : sockets[x].at = "waiting" ~> sockets[x].at # "waiting"

(* close() returns, and the session leaves no kubectl. *)
EverySessionCloses ==
  \A s \in Signal : forwarder[s] # "open" ~> forwarder[s] = "closed" /\ Of(s) = {}

(* All three: whoever waits for a kubectl, a socket or a session is not kept waiting. *)
EveryTunnelEnds == EveryKubectlEnds /\ EverySocketAnswered /\ EverySessionCloses

=============================================================================
