--------------------------- MODULE KubectlTunnels ---------------------------
(***************************************************************************)
(* KubectlTunnels (src/main/kafka/kubectl-tunnels.ts): one kubectl         *)
(* port-forward per tunnel, from the preparation of its command to its     *)
(* exit.  Its readiness, its deadline, its exit, the abort of its signal,  *)
(* the end of the extension and the connection status of the cluster race; *)
(* the first end is the one that is said, and kubectl is told to end at    *)
(* every one.                                                              *)
(*                                                                         *)
(* What a promise that settles leads to by microtasks alone belongs to the *)
(* step that settles it.  One cluster; the process's own exit is left out. *)
(***************************************************************************)
CONSTANTS
  Run,     \* identities of kubectl runs; bounds how many there are at a time
  Signal,  \* abort signals, one for each session
  None

ASSUME TunnelAssumption == None \notin Run \cup Signal

VARIABLES
  runs,       \* runs[r]: where an open() and its kubectl are
  aborted,    \* signals that are aborted
  closed,     \* this.closed
  connected   \* the cluster's status is "connected"

tunnelVars == <<runs, aborted, closed, connected>>

(* at: "preparing" awaits the host, "exited" has exited before its promise has settled.
   said: what the promise of open() was settled with.
   told: SIGTERM sent and the late timer armed ("term"), SIGKILL sent ("kill"). *)
RunState ==
  [at : {"free", "preparing", "alive", "exited"}, said : {"no", "ready", "failed"},
   told : {"no", "term", "kill"}, signal : Signal \cup {None}]

FreeRun == [at |-> "free", said |-> "no", told |-> "no", signal |-> None]

(* Only a kubectl that has not exited is sent signals: its process id may be another's. *)
TunnelTypeOK ==
  /\ runs \in [Run -> RunState]
  /\ \A r \in Run : runs[r].told # "no" => runs[r].at = "alive"
  /\ aborted \in SUBSET Signal
  /\ closed \in BOOLEAN /\ connected \in BOOLEAN

TunnelInit ==
  /\ runs = [r \in Run |-> FreeRun]
  /\ aborted = {} /\ closed = FALSE /\ connected = TRUE

Alive == {r \in Run : runs[r].at = "alive"}
Unsettled == {r \in Run : runs[r].at \in {"alive", "exited"} /\ runs[r].said = "no"}
Of(s) == {r \in Run : runs[r].signal = s}

(* stop(): told once. *)
Stopped(run) == IF run.told = "no" THEN [run EXCEPT !.told = "term"] ELSE run

(* fail(): the promise rejects unless it has settled; kubectl is told to end in any case. *)
FailedAlways(run) == [Stopped(run) EXCEPT !.said = IF @ = "no" THEN "failed" ELSE @]
Failed(run) ==
  IF run.at = "alive" THEN [Stopped(run) EXCEPT !.said = IF @ = "no" THEN "failed" ELSE @]
                      ELSE FreeRun

SetRun(r, run) == runs' = [runs EXCEPT ![r] = run]
Signals == UNCHANGED <<aborted, closed, connected>>

-----------------------------------------------------------------------------
(* open()                                                                  *)

Refused(s) == s \in aborted \/ closed

Begins(r, s) ==
  /\ runs[r].at = "free" /\ ~Refused(s)
  /\ SetRun(r, [FreeRun EXCEPT !.at = "preparing", !.signal = s])
  /\ Signals

(* The host has no kubectl or environment, the signal was aborted while it prepared them, or
   kubectl cannot be spawned. *)
PrepareFails(r) ==
  /\ runs[r].at = "preparing"
  /\ SetRun(r, FreeRun)
  /\ Signals

(* kubectl is spawned and followed; the reaction on the status fires at once, and ends it if
   the cluster is not connected or cannot be followed. *)
Starts(r) ==
  LET started == [runs[r] EXCEPT !.at = "alive"] IN
  /\ runs[r].at = "preparing" /\ ~Refused(runs[r].signal)
  /\ \/ connected /\ SetRun(r, started)
     \/ SetRun(r, Failed(started))
  /\ Signals

-----------------------------------------------------------------------------
(* follow()                                                                *)

(* The line of readiness, which may be read when kubectl has exited already. *)
BecomesReady(r) ==
  /\ r \in Unsettled
  /\ SetRun(r, IF runs[r].at = "alive" THEN [runs[r] EXCEPT !.said = "ready"] ELSE FreeRun)
  /\ Signals

(* The deadline, a port that is none, or an error of the child. *)
GivesUp(r) ==
  /\ r \in Unsettled
  /\ SetRun(r, Failed(runs[r]))
  /\ Signals

(* The error of a child that was never started stands for its exit. *)
NeverStarts(r) ==
  /\ r \in Alive /\ runs[r].said # "ready"
  /\ SetRun(r, FreeRun)
  /\ Signals

(* The exit: whatever kubectl wrote may still have to be read. *)
Exits(r) ==
  /\ r \in Alive
  /\ SetRun(r, IF runs[r].said = "no" THEN [runs[r] EXCEPT !.at = "exited", !.told = "no"]
                                        ELSE FreeRun)
  /\ Signals

(* "close" of an exited child, once its output was read to the end. *)
Closes(r) ==
  /\ runs[r].at = "exited"
  /\ SetRun(r, FreeRun)
  /\ Signals

(* The late timer of stop(). *)
LateWaits(r) == r \in Alive /\ runs[r].told = "term" /\ UNCHANGED runs /\ Signals
LateFires(r) ==
  /\ r \in Alive /\ runs[r].told = "term"
  /\ SetRun(r, [runs[r] EXCEPT !.told = "kill"])
  /\ Signals

-----------------------------------------------------------------------------
(* What ends many tunnels at once.                                         *)

StopAll(R) == runs' = [r \in Run |-> IF r \in R THEN Stopped(runs[r]) ELSE runs[r]]
FailAll(R) == runs' = [r \in Run |-> IF r \in R THEN Failed(runs[r]) ELSE runs[r]]

(* The listeners of the signal: `aborted' until the promise settles, then `afterReady' until
   kubectl has exited. *)
ListeningUnsettled(s) == Of(s) \cap Unsettled
Listening(s) == Of(s) \cap (Alive \cup Unsettled)

Abort(s) ==
  /\ aborted' = aborted \cup {s}
  /\ FailAll(Listening(s))
  /\ UNCHANGED <<closed, connected>>

CloseAll ==
  /\ ~closed
  /\ closed' = TRUE
  /\ StopAll(Alive)
  /\ UNCHANGED <<aborted, connected>>

(* The reactions on the status, each until its kubectl has exited. *)
Disconnects ==
  /\ connected
  /\ connected' = FALSE
  /\ FailAll(Alive)
  /\ UNCHANGED <<aborted, closed>>

Connects ==
  /\ ~connected
  /\ connected' = TRUE
  /\ UNCHANGED <<runs, aborted, closed>>

-----------------------------------------------------------------------------
(* Properties.                                                             *)

(* No kubectl outlives what it was opened for (SPEC-019, REQ-225): as soon as its session is
   closed, the extension is deactivated, the cluster has left the connected state or its open()
   has failed, it is told to end, whether it was ready, starting or still to be spawned. *)
NoneOutlives ==
  \A r \in Alive : runs[r].told = "no" =>
    runs[r].signal \notin aborted /\ ~closed /\ connected /\ runs[r].said # "failed"

(* What is told to end does so, by SIGKILL if not before. *)
EveryKubectlEnds == \A r \in Run : r \in Alive /\ runs[r].told # "no" ~> r \notin Alive

=============================================================================
