------------------------ MODULE TunnelForwarderProofs ------------------------
(***************************************************************************)
(* What TLAPS proves of TunnelForwarder, for any sessions, pods, kubectl   *)
(* runs and sockets.  The inductive invariant ties the three parts of the  *)
(* state together: a session is aborted when its forwarder closes          *)
(* (Closing), a run's fields fit its place (Shaped), and the map names     *)
(* exactly the runs that serve or may yet serve (Named).                   *)
(***************************************************************************)
EXTENDS TunnelForwarder, TLAPS

Closing ==
  \A s \in Signal :
    /\ s \in aborted <=> forwarder[s] # "open"
    /\ forwarder[s] \in {"stopping", "closed"} =>
         \A k \in Key : SignalOf[k] = s => tunnels[k] = None

Shape(run) ==
  /\ run.at = "free" <=> run.signal = None
  /\ run.at # "alive" => run.said = "no" /\ run.told = "no"

Shaped == \A r \in Run : Shape(runs[r])

Serves(run) == run.at # "free" /\ run.said # "failed"

Named ==
  /\ \A k \in Key : tunnels[k] # None =>
       Serves(runs[tunnels[k]]) /\ runs[tunnels[k]].signal = SignalOf[k]
  /\ \A j, k \in Key : tunnels[j] = tunnels[k] /\ tunnels[k] # None => j = k
  /\ \A r \in Run : Serves(runs[r]) /\ forwarder[runs[r].signal] = "open" =>
       \E k \in Key : tunnels[k] = r

Pending(run) == run.at # "free" /\ run.said = "no"

Waiting ==
  \A x \in Socket : sockets[x].at = "waiting" =>
    sockets[x].on \in Run /\ Pending(runs[sockets[x].on])

IInv == TypeOK /\ NoneOutlives /\ Closing /\ Shaped /\ Named /\ Waiting

-----------------------------------------------------------------------------
(* The operators on one run.                                               *)

LEMMA FreeRunFits ==
  /\ FreeRun \in RunState /\ Shape(FreeRun) /\ ~Serves(FreeRun) /\ FreeRun.at = "free"
  /\ FreeRun.told = "no" /\ FreeRun.said = "no" /\ FreeRun.signal = None
BY DEF FreeRun, RunState, Shape, Serves

LEMMA StoppedFits ==
  ASSUME NEW run \in RunState, Shape(run), run.at = "alive"
  PROVE  /\ Stopped(run) \in RunState /\ Shape(Stopped(run))
         /\ Stopped(run).at = "alive" /\ Stopped(run).told # "no"
         /\ Stopped(run).said = run.said /\ Stopped(run).signal = run.signal
BY DEF Stopped, RunState, Shape

LEMMA FailedFits ==
  ASSUME NEW run \in RunState, Shape(run)
  PROVE  /\ Failed(run) \in RunState /\ Shape(Failed(run))
         /\ run.at = "alive" =>
              /\ Failed(run).at = "alive" /\ Failed(run).told # "no"
              /\ Failed(run).said = IF run.said = "no" THEN "failed" ELSE run.said
              /\ Failed(run).signal = run.signal
         /\ run.at # "alive" => Failed(run) = FreeRun
<1>1. CASE run.at = "alive"
  <2>1. Failed(run) = [Stopped(run) EXCEPT !.said = IF @ = "no" THEN "failed" ELSE @]
    BY <1>1 DEF Failed
  <2>. QED
    BY <1>1, <2>1, StoppedFits DEF RunState, Shape
<1>2. CASE run.at # "alive"
  BY <1>2, FreeRunFits DEF Failed
<1>. QED
  BY <1>1, <1>2

-----------------------------------------------------------------------------
(* The map and the sockets follow the runs: a tunnel leaves the map exactly when its run no
   longer serves, or with its session. *)
LEMMA MapFollows ==
  ASSUME IInv, runs' \in [Run -> RunState], tunnels' \in [Key -> Run \cup {None}],
         \A r \in Run : /\ Serves(runs'[r]) => Serves(runs[r])
                        /\ Serves(runs'[r]) => runs'[r].signal = runs[r].signal,
         \A s \in Signal : forwarder'[s] = "open" => forwarder[s] = "open",
         \A k \in Key :
           /\ tunnels'[k] \in {tunnels[k], None}
           /\ tunnels'[k] # None => Serves(runs'[tunnels[k]])
           /\ tunnels[k] # None /\ tunnels'[k] = None =>
                ~Serves(runs'[tunnels[k]]) \/ forwarder'[SignalOf[k]] # "open",
         \A r \in Run : Serves(runs[r]) => runs[r].signal \in Signal
  PROVE  Named'
<1>1. \A k \in Key : tunnels'[k] # None =>
        Serves(runs'[tunnels'[k]]) /\ runs'[tunnels'[k]].signal = SignalOf[k]
  <2>. SUFFICES ASSUME NEW k \in Key, tunnels'[k] # None
                PROVE  Serves(runs'[tunnels'[k]]) /\ runs'[tunnels'[k]].signal = SignalOf[k]
    OBVIOUS
  <2>1. tunnels'[k] = tunnels[k] /\ tunnels[k] \in Run /\ tunnels[k] # None
    OBVIOUS
  <2>. QED
    BY <2>1 DEF IInv, Named
<1>2. \A j, k \in Key : tunnels'[j] = tunnels'[k] /\ tunnels'[k] # None => j = k
  BY DEF IInv, Named
<1>3. \A r \in Run : Serves(runs'[r]) /\ forwarder'[runs'[r].signal] = "open" =>
        \E k \in Key : tunnels'[k] = r
  <2>. SUFFICES ASSUME NEW r \in Run, Serves(runs'[r]), forwarder'[runs'[r].signal] = "open"
                PROVE  \E k \in Key : tunnels'[k] = r
    OBVIOUS
  <2>1. Serves(runs[r]) /\ runs'[r].signal = runs[r].signal /\ runs[r].signal \in Signal
    OBVIOUS
  <2>2. forwarder[runs[r].signal] = "open"
    BY <2>1
  <2>3. PICK k \in Key : tunnels[k] = r
    BY <2>1, <2>2 DEF IInv, Named
  <2>4. r # None
    BY TunnelAssumption
  <2>5. SignalOf[k] = runs[r].signal
    BY <2>3, <2>4 DEF IInv, Named
  <2>6. tunnels'[k] = r
    BY <2>1, <2>3, <2>4, <2>5
  <2>. QED
    BY <2>6
<1>. QED
  BY <1>1, <1>2, <1>3 DEF Named, Serves

LEMMA SignalOfRuns ==
  ASSUME IInv
  PROVE  \A r \in Run : runs[r].at # "free" => runs[r].signal \in Signal
BY DEF IInv, TypeOK, TunnelTypeOK, Shaped, Shape, RunState

(* A step that moves one run, which is not free. *)
LEMMA OneRunMoves ==
  ASSUME IInv, NEW r \in Run, NEW run \in RunState, runs[r].at # "free",
         SetRun(r, run), UNCHANGED <<aborted, closed, connected, forwarder>>,
         Shape(run),
         run.at = "alive" /\ run.told = "no" =>
           run.signal \notin aborted /\ ~closed /\ connected /\ run.said # "failed",
         Serves(run) => Serves(runs[r]) /\ run.signal = runs[r].signal,
         tunnels' \in [Key -> Run \cup {None}],
         \A k \in Key : tunnels'[k] = IF tunnels[k] = r /\ ~Serves(run) THEN None ELSE tunnels[k],
         sockets' \in [Socket -> SocketState],
         \A x \in Socket : sockets'[x].at = "waiting" =>
           sockets'[x] = sockets[x] /\ (sockets[x].on = r => Pending(run))
  PROVE  IInv'
<1>1. /\ \A q \in Run : runs'[q] = IF q = r THEN run ELSE runs[q]
      /\ runs' \in [Run -> RunState]
  BY DEF SetRun, IInv, TypeOK, TunnelTypeOK
<1>2. TypeOK'
  <2>1. \A q \in Run : runs'[q].told # "no" => runs'[q].at = "alive"
    BY <1>1 DEF IInv, TypeOK, TunnelTypeOK, Shape
  <2>. QED
    BY <1>1, <2>1 DEF IInv, TypeOK, TunnelTypeOK
<1>3. NoneOutlives'
  <2>. SUFFICES ASSUME NEW q \in Run, runs'[q].at = "alive", runs'[q].told = "no"
                PROVE  runs'[q].signal \notin aborted /\ ~closed /\ connected
                         /\ runs'[q].said # "failed"
    BY DEF NoneOutlives, Alive
  <2>. QED
    BY <1>1 DEF IInv, NoneOutlives, Alive
<1>4. Closing'
  <2>1. \A k \in Key : tunnels[k] = None => tunnels'[k] = None
    OBVIOUS
  <2>. QED
    BY <2>1 DEF IInv, Closing
<1>5. Shaped'
  BY <1>1 DEF IInv, Shaped, Shape
<1>6. Named'
  <2>1. \A q \in Run : Serves(runs'[q]) => Serves(runs[q]) /\ runs'[q].signal = runs[q].signal
    BY <1>1
  <2>2. \A q \in Run : Serves(runs[q]) => runs[q].signal \in Signal
    BY SignalOfRuns DEF Serves
  <2>3. ASSUME NEW k \in Key
        PROVE  /\ tunnels'[k] \in {tunnels[k], None}
               /\ tunnels'[k] # None => Serves(runs'[tunnels[k]])
               /\ tunnels[k] # None /\ tunnels'[k] = None => ~Serves(runs'[tunnels[k]])
    <3>1. tunnels[k] # None => tunnels[k] \in Run /\ Serves(runs[tunnels[k]])
      BY DEF IInv, Named, TypeOK
    <3>2. tunnels[k] # None /\ tunnels[k] # r => runs'[tunnels[k]] = runs[tunnels[k]]
      BY <1>1, <3>1
    <3>3. r # None /\ runs'[r] = run
      BY <1>1, TunnelAssumption
    <3>. QED
      BY <3>1, <3>2, <3>3
  <2>. QED
    BY <1>1, <2>1, <2>2, <2>3, MapFollows
<1>7. Waiting'
  <2>. SUFFICES ASSUME NEW x \in Socket, sockets'[x].at = "waiting"
                PROVE  sockets'[x].on \in Run /\ Pending(runs'[sockets'[x].on])
    BY DEF Waiting, Pending
  <2>1. sockets[x].on \in Run /\ Pending(runs[sockets[x].on]) /\ sockets'[x].on = sockets[x].on
    BY DEF IInv, Waiting
  <2>. QED
    BY <1>1, <2>1
<1>. QED
  BY <1>2, <1>3, <1>4, <1>5, <1>6, <1>7 DEF IInv

-----------------------------------------------------------------------------
(* What the continuations of a promise do.                                 *)

LEMMA ForgottenFits ==
  ASSUME IInv, NEW R \in SUBSET Run
  PROVE  /\ Forgotten(R) \in [Key -> Run \cup {None}]
         /\ \A k \in Key : Forgotten(R)[k] = IF tunnels[k] \in R THEN None ELSE tunnels[k]
BY DEF Forgotten, IInv, TypeOK

LEMMA RejectedFits ==
  ASSUME IInv, NEW R \in SUBSET Run, Rejected(R)
  PROVE  /\ tunnels' \in [Key -> Run \cup {None}]
         /\ \A k \in Key : tunnels'[k] = IF tunnels[k] \in R THEN None ELSE tunnels[k]
         /\ sockets' \in [Socket -> SocketState]
         /\ \A x \in Socket : sockets'[x].at = "waiting" =>
              sockets'[x] = sockets[x] /\ sockets[x].on \notin R
         /\ forwarder' = forwarder
<1>1. \A x \in Socket : sockets'[x] = IF sockets[x].at = "waiting" /\ sockets[x].on \in R
                                      THEN GoneSocket ELSE sockets[x]
  BY DEF Rejected
<1>2. GoneSocket \in SocketState /\ GoneSocket.at = "gone"
  BY DEF GoneSocket, SocketState
<1>3. sockets' \in [Socket -> SocketState]
  <2>1. \A x \in Socket : sockets'[x] \in SocketState
    BY <1>1, <1>2 DEF IInv, TypeOK
  <2>. QED
    BY <2>1 DEF Rejected
<1>. QED
  BY <1>1, <1>2, <1>3, ForgottenFits DEF Rejected

(* A kubectl that no longer serves has left the map. *)
LEMMA ForgottenOnce ==
  ASSUME IInv, NEW r \in Run, ~Serves(runs[r])
  PROVE  \A k \in Key : tunnels[k] # r
<1>1. r # None
  BY TunnelAssumption
<1>. QED
  BY <1>1 DEF IInv, Named

-----------------------------------------------------------------------------
(* The steps of one run.                                                   *)

(* A run that ends before it was ready, with its promise. *)
LEMMA RunRejected ==
  ASSUME IInv, NEW r \in Run, NEW run \in RunState, runs[r].at # "free",
         SetRun(r, run), Signals, Rejected({r}), Shape(run), ~Serves(run),
         run.at = "alive" => run.told # "no"
  PROVE  IInv'
<1>1. /\ tunnels' \in [Key -> Run \cup {None}]
      /\ \A k \in Key : tunnels'[k] = IF tunnels[k] = r THEN None ELSE tunnels[k]
      /\ sockets' \in [Socket -> SocketState]
      /\ \A x \in Socket : sockets'[x].at = "waiting" =>
           sockets'[x] = sockets[x] /\ sockets[x].on # r
      /\ forwarder' = forwarder
  BY RejectedFits, {r} \in SUBSET Run
<1>. QED
  BY <1>1, OneRunMoves DEF Signals

(* A run that changes and whose sockets and tunnel stay. *)
LEMMA RunUnmoved ==
  ASSUME IInv, NEW r \in Run, NEW run \in RunState, runs[r].at # "free",
         SetRun(r, run), Signals, Unmoved, Shape(run),
         Serves(run) <=> Serves(runs[r]),
         Serves(run) => run.signal = runs[r].signal,
         Pending(runs[r]) => Pending(run),
         run.at = "alive" /\ run.told = "no" =>
           run.signal \notin aborted /\ ~closed /\ connected /\ run.said # "failed"
  PROVE  IInv'
<1>1. \A k \in Key : tunnels'[k] = IF tunnels[k] = r /\ ~Serves(run) THEN None ELSE tunnels[k]
  BY ForgottenOnce DEF Unmoved
<1>2. \A x \in Socket : sockets'[x].at = "waiting" =>
        sockets'[x] = sockets[x] /\ (sockets[x].on = r => Pending(run))
  BY DEF Unmoved, IInv, Waiting
<1>3. tunnels' \in [Key -> Run \cup {None}] /\ sockets' \in [Socket -> SocketState]
  BY DEF Unmoved, IInv, TypeOK
<1>. QED
  BY <1>1, <1>2, <1>3, OneRunMoves DEF Signals, Unmoved

LEMMA PreparedKeeps ==
  ASSUME IInv, NEW r \in Run, Prepared(r)
  PROVE  IInv'
<1>1. CASE PrepareFails(r) /\ Rejected({r})
  BY <1>1, RunRejected, FreeRunFits DEF PrepareFails
<1>2. CASE Starts(r) /\ IF runs'[r].said = "failed" THEN Rejected({r}) ELSE Unmoved
  <2> DEFINE started == [runs[r] EXCEPT !.at = "alive"]
  <2>1. /\ runs[r] \in RunState /\ runs[r].at = "preparing" /\ runs[r].said = "no"
        /\ runs[r].told = "no" /\ runs[r].signal # None
        /\ runs[r].signal \notin aborted /\ ~closed /\ Signals
    BY <1>2 DEF Starts, Refused, IInv, TypeOK, TunnelTypeOK, Shaped, Shape
  <2>2. /\ started \in RunState /\ Shape(started) /\ started.at = "alive" /\ started.said = "no"
        /\ started.told = "no" /\ started.signal = runs[r].signal
    BY <2>1 DEF RunState, Shape
  <2>3. (SetRun(r, started) /\ connected) \/ SetRun(r, Failed(started))
    BY <1>2 DEF Starts
  <2> HIDE DEF started
  <2>4. \A run : SetRun(r, run) => runs'[r] = run
    BY DEF SetRun, IInv, TypeOK, TunnelTypeOK
  <2>5. CASE SetRun(r, started) /\ connected
    <3>1. Unmoved
      BY <1>2, <2>2, <2>4, <2>5
    <3>. QED
      BY <2>1, <2>2, <2>5, <3>1, RunUnmoved DEF Serves, Pending
  <2>6. CASE SetRun(r, Failed(started))
    <3>1. /\ Failed(started) \in RunState /\ Shape(Failed(started))
          /\ Failed(started).said = "failed" /\ Failed(started).told # "no"
      BY <2>2, FailedFits
    <3>2. Rejected({r})
      BY <1>2, <2>4, <2>6, <3>1
    <3>. QED
      BY <2>1, <2>6, <3>1, <3>2, RunRejected DEF Serves
  <2>. QED
    BY <2>3, <2>5, <2>6
<1>. QED
  BY <1>1, <1>2 DEF Prepared

LEMMA GivenUpKeeps ==
  ASSUME IInv, NEW r \in Run, GivenUp(r)
  PROVE  IInv'
<1>1. /\ runs[r] \in RunState /\ Shape(runs[r]) /\ runs[r].at \in {"alive", "exited"}
      /\ runs[r].said = "no" /\ SetRun(r, Failed(runs[r])) /\ Signals /\ Rejected({r})
  BY DEF GivenUp, GivesUp, Unsettled, IInv, TypeOK, TunnelTypeOK, Shaped
<1>2. /\ Failed(runs[r]) \in RunState /\ Shape(Failed(runs[r])) /\ ~Serves(Failed(runs[r]))
      /\ Failed(runs[r]).at = "alive" => Failed(runs[r]).told # "no"
  BY <1>1, FailedFits, FreeRunFits DEF Serves
<1>. QED
  BY <1>1, <1>2, RunRejected

LEMMA NeverStartsOrClosesKeeps ==
  ASSUME IInv, NEW r \in Run, NeverStarts(r) \/ Closes(r), Rejected({r})
  PROVE  IInv'
<1>1. runs[r].at # "free" /\ SetRun(r, FreeRun) /\ Signals
  BY DEF NeverStarts, Closes, Alive
<1>. QED
  BY <1>1, RunRejected, FreeRunFits

LEMMA LateFiresKeeps ==
  ASSUME IInv, NEW r \in Run, LateFires(r), Unmoved
  PROVE  IInv'
<1> DEFINE run == [runs[r] EXCEPT !.told = "kill"]
<1>1. /\ runs[r] \in RunState /\ Shape(runs[r]) /\ runs[r].at = "alive"
      /\ SetRun(r, run) /\ Signals
  BY DEF LateFires, Alive, IInv, TypeOK, TunnelTypeOK, Shaped
<1>2. /\ run \in RunState /\ Shape(run) /\ run.told = "kill" /\ run.at = "alive"
      /\ run.said = runs[r].said /\ run.signal = runs[r].signal
  BY <1>1 DEF RunState, Shape
<1> HIDE DEF run
<1>. QED
  BY <1>1, <1>2, RunUnmoved DEF Serves, Pending

LEMMA ExitKeeps ==
  ASSUME IInv, NEW r \in Run, Exit(r)
  PROVE  IInv'
<1>1. runs[r] \in RunState /\ Shape(runs[r]) /\ runs[r].at = "alive" /\ Signals
  BY DEF Exit, Exits, Alive, IInv, TypeOK, TunnelTypeOK, Shaped
<1>2. CASE runs[r].said = "no"
  <2> DEFINE run == [runs[r] EXCEPT !.at = "exited", !.told = "no"]
  <2>1. SetRun(r, run) /\ Unmoved
    BY <1>2 DEF Exit, Exits
  <2>2. /\ run \in RunState /\ Shape(run) /\ run.at = "exited"
        /\ run.said = "no" /\ run.signal = runs[r].signal
    BY <1>1, <1>2 DEF RunState, Shape
  <2> HIDE DEF run
  <2>. QED
    BY <1>1, <1>2, <2>1, <2>2, RunUnmoved DEF Serves, Pending
<1>3. CASE runs[r].said = "failed"
  <2>1. SetRun(r, FreeRun) /\ Unmoved
    BY <1>3 DEF Exit, Exits
  <2>. QED
    BY <1>1, <1>3, <2>1, RunUnmoved, FreeRunFits DEF Serves, Pending
<1>4. CASE runs[r].said = "ready"
  <2>1. SetRun(r, FreeRun) /\ Ended(r)
    BY <1>4 DEF Exit, Exits
  <2>2. /\ tunnels' \in [Key -> Run \cup {None}]
        /\ \A k \in Key : tunnels'[k] = IF tunnels[k] = r THEN None ELSE tunnels[k]
        /\ UNCHANGED <<sockets, forwarder>>
    BY <2>1, ForgottenFits, {r} \in SUBSET Run DEF Ended
  <2>3. \A x \in Socket : sockets'[x].at = "waiting" =>
          sockets'[x] = sockets[x] /\ sockets[x].on # r
    BY <1>4, <2>2 DEF IInv, Waiting, Pending
  <2>4. sockets' \in [Socket -> SocketState]
    BY <2>2 DEF IInv, TypeOK
  <2>. QED
    BY <1>1, <2>1, <2>2, <2>3, <2>4, OneRunMoves, FreeRunFits DEF Signals
<1>. QED
  BY <1>1, <1>2, <1>3, <1>4 DEF RunState

LEMMA BecomesReadyKeeps ==
  ASSUME IInv, NEW r \in Run, BecomesReady(r), Resolved(r)
  PROVE  IInv'
<1>1. /\ runs[r] \in RunState /\ Shape(runs[r]) /\ runs[r].at \in {"alive", "exited"}
      /\ runs[r].said = "no" /\ Signals /\ forwarder' = forwarder
  BY DEF BecomesReady, Resolved, Unsettled, IInv, TypeOK, TunnelTypeOK, Shaped
<1>2. sockets' \in [Socket -> SocketState]
  <2>1. [at |-> "piped", on |-> r] \in SocketState
    BY DEF SocketState
  <2>2. \A x \in Socket : sockets'[x] \in {sockets[x], [at |-> "piped", on |-> r]}
    BY DEF Resolved
  <2>3. \A x \in Socket : sockets'[x] \in SocketState
    BY <2>1, <2>2 DEF IInv, TypeOK
  <2>. QED
    BY <2>3 DEF Resolved
<1>3. \A x \in Socket : sockets'[x].at = "waiting" => sockets'[x] = sockets[x] /\ sockets[x].on # r
  <2>. SUFFICES ASSUME NEW x \in Socket, sockets'[x].at = "waiting"
                PROVE  sockets'[x] = sockets[x] /\ sockets[x].on # r
    OBVIOUS
  <2>1. sockets'[x] = sockets[x] /\ sockets[x] # [at |-> "waiting", on |-> r]
    BY DEF Resolved
  <2>2. sockets[x] \in SocketState
    BY DEF IInv, TypeOK
  <2>. QED
    BY <2>1, <2>2 DEF SocketState
<1>4. CASE runs[r].at = "alive"
  <2> DEFINE run == [runs[r] EXCEPT !.said = "ready"]
  <2>1. SetRun(r, run) /\ tunnels' = tunnels
    BY <1>4 DEF BecomesReady, Resolved
  <2>2. /\ run \in RunState /\ Shape(run) /\ Serves(run) /\ run.said = "ready"
        /\ run.signal = runs[r].signal /\ run.told = runs[r].told
    BY <1>1, <1>4 DEF RunState, Shape, Serves
  <2>3. run.told = "no" => run.signal \notin aborted /\ ~closed /\ connected
    BY <1>4, <2>2 DEF IInv, NoneOutlives, Alive
  <2> HIDE DEF run
  <2>4. Serves(runs[r]) /\ tunnels' \in [Key -> Run \cup {None}]
    BY <1>1, <2>1 DEF Serves, IInv, TypeOK
  <2>. QED
    BY <1>1, <1>2, <1>3, <2>1, <2>2, <2>3, <2>4, OneRunMoves DEF Signals
<1>5. CASE runs[r].at = "exited"
  <2>1. SetRun(r, FreeRun) /\ tunnels' = Forgotten({r})
    BY <1>5 DEF BecomesReady, Resolved
  <2>2. /\ tunnels' \in [Key -> Run \cup {None}]
        /\ \A k \in Key : tunnels'[k] = IF tunnels[k] = r THEN None ELSE tunnels[k]
    BY <2>1, ForgottenFits, {r} \in SUBSET Run
  <2>. QED
    BY <1>1, <1>2, <1>3, <2>1, <2>2, OneRunMoves, FreeRunFits DEF Signals
<1>. QED
  BY <1>1, <1>4, <1>5

-----------------------------------------------------------------------------
(* The steps of the sockets.                                               *)

LEMMA SocketsOnly ==
  ASSUME IInv, UNCHANGED <<tunnelVars, tunnels, forwarder>>,
         sockets' \in [Socket -> SocketState],
         \A x \in Socket : sockets'[x].at = "waiting" =>
           sockets'[x].on \in Run /\ Pending(runs[sockets'[x].on])
  PROVE  IInv'
<1>1. TypeOK'
  BY DEF IInv, TypeOK, TunnelTypeOK, tunnelVars
<1>2. NoneOutlives' /\ Closing' /\ Shaped' /\ Named'
  BY DEF IInv, NoneOutlives, Alive, Closing, Shaped, Named, tunnelVars
<1>3. Waiting'
  BY DEF Waiting, tunnelVars, Pending
<1>. QED
  BY <1>1, <1>2, <1>3 DEF IInv

LEMMA SetSocketFits ==
  ASSUME IInv, NEW x \in Socket, NEW place \in {"gone", "waiting", "piped"},
         NEW r \in Run \cup {None}, SetSocket(x, place, r)
  PROVE  /\ sockets' \in [Socket -> SocketState]
         /\ sockets'[x].at = place /\ sockets'[x].on = r
         /\ \A y \in Socket : y # x => sockets'[y] = sockets[y]
BY DEF SetSocket, SocketState, IInv, TypeOK

LEMMA SharesKeeps ==
  ASSUME IInv, NEW x \in Socket, NEW k \in Key, Shares(x, k)
  PROVE  IInv'
<1> DEFINE place == IF runs[tunnels[k]].said = "ready" THEN "piped" ELSE "waiting"
<1>1. /\ tunnels[k] \in Run /\ Serves(runs[tunnels[k]]) /\ runs[tunnels[k]] \in RunState
      /\ SetSocket(x, place, tunnels[k]) /\ UNCHANGED <<tunnelVars, tunnels, forwarder>>
  BY DEF Shares, IInv, Named, TypeOK, TunnelTypeOK
<1>2. place \in {"gone", "waiting", "piped"}
  OBVIOUS
<1>3. place = "waiting" => Pending(runs[tunnels[k]])
  BY <1>1 DEF Serves, Pending, RunState
<1> HIDE DEF place
<1>4. \A y \in Socket : sockets'[y].at = "waiting" =>
        sockets'[y].on \in Run /\ Pending(runs[sockets'[y].on])
  BY <1>1, <1>2, <1>3, SetSocketFits DEF IInv, Waiting
<1>. QED
  BY <1>1, <1>2, <1>4, SetSocketFits, SocketsOnly

LEMMA SocketClosesKeeps ==
  ASSUME IInv, NEW x \in Socket, SocketCloses(x)
  PROVE  IInv'
<1>1. SetSocket(x, "gone", None) /\ UNCHANGED <<tunnelVars, tunnels, forwarder>>
  BY DEF SocketCloses
<1>2. \A y \in Socket : sockets'[y].at = "waiting" =>
        sockets'[y].on \in Run /\ Pending(runs[sockets'[y].on])
  BY <1>1, SetSocketFits DEF IInv, Waiting
<1>. QED
  BY <1>1, <1>2, SetSocketFits, SocketsOnly

(* The first socket of a pod opens its tunnel: no other names the run, which was free. *)
LEMMA OpensKeeps ==
  ASSUME IInv, NEW x \in Socket, NEW k \in Key, Opens(x, k)
  PROVE  IInv'
<1>1. PICK r \in Run : /\ Unused(r) /\ Begins(r, SignalOf[k])
                       /\ tunnels' = [tunnels EXCEPT ![k] = r]
                       /\ SetSocket(x, "waiting", r)
  BY DEF Opens
<1>2. /\ tunnels[k] = None /\ forwarder[SignalOf[k]] = "open" /\ forwarder' = forwarder
      /\ SignalOf[k] \in Signal
  BY ForwarderAssumption DEF Opens
<1> DEFINE run == [FreeRun EXCEPT !.at = "preparing", !.signal = SignalOf[k]]
<1>3. /\ runs[r].at = "free" /\ SetRun(r, run) /\ Signals
      /\ \A y \in Socket : sockets[y].on # r
  BY <1>1 DEF Begins, Unused
<1>4. /\ run \in RunState /\ Shape(run) /\ Serves(run) /\ Pending(run)
      /\ run.at = "preparing" /\ run.signal = SignalOf[k] /\ run.told = "no"
  BY <1>2, TunnelAssumption DEF RunState, FreeRun, Shape, Serves, Pending
<1> HIDE DEF run
<1>5. /\ \A q \in Run : runs'[q] = IF q = r THEN run ELSE runs[q]
      /\ runs' \in [Run -> RunState]
  BY <1>3, <1>4 DEF SetRun, IInv, TypeOK, TunnelTypeOK
<1>6. /\ \A j \in Key : tunnels'[j] = IF j = k THEN r ELSE tunnels[j]
      /\ tunnels' \in [Key -> Run \cup {None}]
  BY <1>1 DEF IInv, TypeOK
<1>7. /\ sockets' \in [Socket -> SocketState]
      /\ sockets'[x].on = r
      /\ \A y \in Socket : y # x => sockets'[y] = sockets[y]
  BY <1>1, SetSocketFits
<1>8. TypeOK'
  <2>1. \A q \in Run : runs'[q].told # "no" => runs'[q].at = "alive"
    BY <1>4, <1>5 DEF IInv, TypeOK, TunnelTypeOK
  <2>. QED
    BY <1>2, <1>3, <1>5, <1>6, <1>7, <2>1 DEF IInv, TypeOK, TunnelTypeOK, Signals
<1>9. NoneOutlives'
  BY <1>3, <1>4, <1>5 DEF IInv, NoneOutlives, Alive, Signals
<1>10. Closing'
  BY <1>2, <1>3, <1>6 DEF IInv, Closing, Signals
<1>11. Shaped'
  BY <1>4, <1>5 DEF IInv, Shaped, Shape
<1>12. Named'
  <2>1. \A j \in Key : tunnels[j] # r /\ r # None
    BY <1>3, TunnelAssumption DEF IInv, Named, Serves
  <2>2. \A j \in Key : tunnels'[j] # None =>
          Serves(runs'[tunnels'[j]]) /\ runs'[tunnels'[j]].signal = SignalOf[j]
    <3>. SUFFICES ASSUME NEW j \in Key, tunnels'[j] # None
                  PROVE  Serves(runs'[tunnels'[j]]) /\ runs'[tunnels'[j]].signal = SignalOf[j]
      OBVIOUS
    <3>1. CASE j = k
      BY <1>4, <1>5, <1>6, <3>1
    <3>2. CASE j # k
      <4>1. tunnels'[j] = tunnels[j] /\ tunnels[j] \in Run /\ tunnels[j] # r
        BY <1>6, <2>1, <3>2
      <4>2. runs'[tunnels[j]] = runs[tunnels[j]]
        BY <1>5, <4>1
      <4>. QED
        BY <4>1, <4>2 DEF IInv, Named
    <3>. QED
      BY <3>1, <3>2
  <2>3. \A i, j \in Key : tunnels'[i] = tunnels'[j] /\ tunnels'[j] # None => i = j
    BY <1>6, <2>1 DEF IInv, Named
  <2>4. \A q \in Run : Serves(runs'[q]) /\ forwarder'[runs'[q].signal] = "open" =>
          \E j \in Key : tunnels'[j] = q
    <3>. SUFFICES ASSUME NEW q \in Run, Serves(runs'[q]), forwarder'[runs'[q].signal] = "open"
                  PROVE  \E j \in Key : tunnels'[j] = q
      OBVIOUS
    <3>1. CASE q = r
      BY <1>6, <3>1
    <3>2. CASE q # r
      <4>1. PICK j \in Key : tunnels[j] = q
        BY <1>2, <1>5, <3>2 DEF IInv, Named
      <4>2. j # k
        BY <1>2, <4>1, TunnelAssumption
      <4>. QED
        BY <1>6, <4>1, <4>2
    <3>. QED
      BY <3>1, <3>2
  <2>. QED
    BY <2>2, <2>3, <2>4 DEF Named, Serves
<1>13. Waiting'
  <2>. SUFFICES ASSUME NEW y \in Socket, sockets'[y].at = "waiting"
                PROVE  sockets'[y].on \in Run /\ Pending(runs'[sockets'[y].on])
    BY DEF Waiting, Pending
  <2>1. CASE y = x
    BY <1>4, <1>5, <1>7, <2>1
  <2>2. CASE y # x
    BY <1>3, <1>5, <1>7, <2>2 DEF IInv, Waiting
  <2>. QED
    BY <2>1, <2>2
<1>. QED
  BY <1>8, <1>9, <1>10, <1>11, <1>12, <1>13 DEF IInv

-----------------------------------------------------------------------------
(* The steps of many runs.                                                 *)

(* The ends that fail promises: those still to settle leave the map, with their sockets. *)
LEMMA ManyFail ==
  ASSUME IInv, NEW R \in SUBSET (Alive \cup Unsettled), FailAll(R),
         tunnels' = Forgotten(R \cap Unsettled),
         sockets' \in [Socket -> SocketState],
         \A x \in Socket : sockets'[x].at = "waiting" =>
           sockets'[x] = sockets[x] /\ sockets[x].on \notin R \cap Unsettled,
         \A s \in Signal : forwarder'[s] = "open" => forwarder[s] = "open"
  PROVE  /\ runs' \in [Run -> RunState]
         /\ tunnels' \in [Key -> Run \cup {None}]
         /\ \A k \in Key : tunnels[k] = None => tunnels'[k] = None
         /\ \A r \in Run : runs'[r].told # "no" => runs'[r].at = "alive"
         /\ \A r \in Run : runs'[r].at = "alive" /\ runs'[r].told = "no" =>
              r \notin R /\ runs'[r] = runs[r]
         /\ Shaped' /\ Named' /\ Waiting'
<1>1. \A r \in Run : runs[r] \in RunState /\ Shape(runs[r])
  BY DEF IInv, TypeOK, TunnelTypeOK, Shaped
<1>2. \A r \in Run : runs'[r] = IF r \in R THEN Failed(runs[r]) ELSE runs[r]
  BY DEF FailAll
<1>3. ASSUME NEW r \in Run
      PROVE  /\ runs'[r] \in RunState /\ Shape(runs'[r])
             /\ r \notin R => runs'[r] = runs[r]
             /\ r \in R /\ runs[r].at = "alive" =>
                  /\ runs'[r].at = "alive" /\ runs'[r].told # "no"
                  /\ runs'[r].said = IF runs[r].said = "no" THEN "failed" ELSE runs[r].said
                  /\ runs'[r].signal = runs[r].signal
             /\ r \in R /\ runs[r].at # "alive" => runs'[r] = FreeRun
  BY <1>1, <1>2, FailedFits
<1>4. \A r \in Run : Serves(runs'[r]) =>
        Serves(runs[r]) /\ runs'[r].signal = runs[r].signal
  BY <1>3, FreeRunFits DEF Serves
<1>5. \A r \in Run : Serves(runs[r]) => (Serves(runs'[r]) <=> r \notin R \cap Unsettled)
  <2>. SUFFICES ASSUME NEW r \in Run, Serves(runs[r])
                PROVE  Serves(runs'[r]) <=> r \notin R \cap Unsettled
    OBVIOUS
  <2>1. runs[r].said \in {"no", "ready"} /\ runs[r].at \in {"preparing", "alive", "exited"}
    BY <1>1 DEF Serves, RunState
  <2>2. r \in Unsettled <=> runs[r].at \in {"alive", "exited"} /\ runs[r].said = "no"
    BY DEF Unsettled
  <2>3. r \in R => runs[r].at \in {"alive", "exited"}
    BY DEF Alive, Unsettled
  <2>4. runs[r].at = "exited" => runs[r].said = "no"
    BY <1>1 DEF Shape
  <2>. QED
    BY <1>3, <2>1, <2>2, <2>3, <2>4, FreeRunFits DEF Serves
<1>6. R \cap Unsettled \in SUBSET Run
  BY DEF Alive, Unsettled
<1>7. /\ tunnels' \in [Key -> Run \cup {None}]
      /\ \A k \in Key : tunnels'[k] = IF tunnels[k] \in R \cap Unsettled THEN None ELSE tunnels[k]
  BY <1>6, ForgottenFits
<1>8. \A k \in Key : tunnels[k] # None => tunnels[k] \in Run /\ Serves(runs[tunnels[k]])
  BY DEF IInv, Named, TypeOK
<1>9. runs' \in [Run -> RunState]
  BY <1>3 DEF FailAll
<1>10. Named'
  <2>1. \A r \in Run : Serves(runs[r]) => runs[r].signal \in Signal
    BY SignalOfRuns DEF Serves
  <2>2. \A k \in Key :
          /\ tunnels'[k] \in {tunnels[k], None}
          /\ tunnels'[k] # None => Serves(runs'[tunnels[k]])
          /\ tunnels[k] # None /\ tunnels'[k] = None => ~Serves(runs'[tunnels[k]])
    BY <1>5, <1>7, <1>8
  <2>. QED
    BY <1>4, <1>7, <1>9, <2>1, <2>2, MapFollows
<1>11. Waiting'
  <2>. SUFFICES ASSUME NEW x \in Socket, sockets'[x].at = "waiting"
                PROVE  sockets'[x].on \in Run /\ Pending(runs'[sockets'[x].on])
    BY DEF Waiting, Pending
  <2>1. /\ sockets'[x].on = sockets[x].on /\ sockets[x].on \in Run
        /\ Pending(runs[sockets[x].on]) /\ sockets[x].on \notin R \cap Unsettled
    BY DEF IInv, Waiting
  <2>2. sockets[x].on \notin R
    BY <2>1 DEF Alive, Unsettled, Pending
  <2>. QED
    BY <1>3, <2>1, <2>2
<1>12. Shaped'
  BY <1>3 DEF Shaped, Shape
<1>13. \A r \in Run : runs'[r].told # "no" => runs'[r].at = "alive"
  BY <1>3 DEF Shape
<1>14. \A r \in Run : runs'[r].at = "alive" /\ runs'[r].told = "no" =>
         r \notin R /\ runs'[r] = runs[r]
  BY <1>3, FreeRunFits
<1>. QED
  BY <1>7, <1>9, <1>10, <1>11, <1>12, <1>13, <1>14

(* The ends that only tell kubectl to end. *)
LEMMA ManyStop ==
  ASSUME IInv, NEW R \in SUBSET Alive, StopAll(R),
         tunnels' \in [Key -> Run \cup {None}], sockets' = sockets,
         \A k \in Key :
           /\ tunnels'[k] \in {tunnels[k], None}
           /\ tunnels[k] # None /\ tunnels'[k] = None => forwarder'[SignalOf[k]] # "open",
         \A s \in Signal : forwarder'[s] = "open" => forwarder[s] = "open"
  PROVE  /\ runs' \in [Run -> RunState]
         /\ \A r \in Run : runs'[r].told # "no" => runs'[r].at = "alive"
         /\ \A r \in Run : runs'[r].at = "alive" /\ runs'[r].told = "no" =>
              r \notin R /\ runs'[r] = runs[r]
         /\ Shaped' /\ Named' /\ Waiting'
<1>1. \A r \in Run : runs[r] \in RunState /\ Shape(runs[r])
  BY DEF IInv, TypeOK, TunnelTypeOK, Shaped
<1>2. \A r \in Run : runs'[r] = IF r \in R THEN Stopped(runs[r]) ELSE runs[r]
  BY DEF StopAll
<1>3. ASSUME NEW r \in Run
      PROVE  /\ runs'[r] \in RunState /\ Shape(runs'[r])
             /\ runs'[r].at = runs[r].at /\ runs'[r].said = runs[r].said
             /\ runs'[r].signal = runs[r].signal
             /\ r \in R => runs'[r].told # "no"
             /\ r \notin R => runs'[r] = runs[r]
  <2>1. r \in R => runs[r].at = "alive"
    BY DEF Alive
  <2>. QED
    BY <1>1, <1>2, <2>1, StoppedFits
<1>4. runs' \in [Run -> RunState]
  BY <1>3 DEF StopAll
<1>5. Named'
  <2>1. \A r \in Run : Serves(runs[r]) => runs[r].signal \in Signal
    BY SignalOfRuns DEF Serves
  <2>2. \A r \in Run : /\ Serves(runs'[r]) <=> Serves(runs[r])
                       /\ runs'[r].signal = runs[r].signal
    BY <1>3 DEF Serves
  <2>3. \A k \in Key : tunnels[k] # None => tunnels[k] \in Run /\ Serves(runs[tunnels[k]])
    BY DEF IInv, Named, TypeOK
  <2>4. \A k \in Key : tunnels'[k] # None => Serves(runs'[tunnels[k]])
    BY <2>2, <2>3
  <2>. QED
    BY <1>4, <2>1, <2>2, <2>4, MapFollows
<1>6. Waiting'
  BY <1>3 DEF IInv, Waiting, Pending
<1>7. Shaped'
  BY <1>3 DEF Shaped, Shape
<1>. QED
  BY <1>3, <1>4, <1>5, <1>6, <1>7 DEF Shape

LEMMA DisconnectsKeeps ==
  ASSUME IInv, Disconnects, Rejected(Alive \cap Unsettled)
  PROVE  IInv'
<1>1. /\ FailAll(Alive) /\ aborted' = aborted /\ closed' = closed /\ connected' = FALSE
      /\ Alive \in SUBSET (Alive \cup Unsettled) /\ Alive \cap Unsettled \in SUBSET Run
  BY DEF Disconnects, Alive, Unsettled
<1>2. /\ sockets' \in [Socket -> SocketState] /\ forwarder' = forwarder
      /\ \A x \in Socket : sockets'[x].at = "waiting" =>
           sockets'[x] = sockets[x] /\ sockets[x].on \notin Alive \cap Unsettled
      /\ tunnels' = Forgotten(Alive \cap Unsettled)
  BY <1>1, RejectedFits DEF Rejected
<1>3. /\ runs' \in [Run -> RunState] /\ tunnels' \in [Key -> Run \cup {None}]
      /\ \A k \in Key : tunnels[k] = None => tunnels'[k] = None
      /\ \A r \in Run : runs'[r].told # "no" => runs'[r].at = "alive"
      /\ \A r \in Run : runs'[r].at = "alive" /\ runs'[r].told = "no" =>
           r \notin Alive /\ runs'[r] = runs[r]
      /\ Shaped' /\ Named' /\ Waiting'
  BY <1>1, <1>2, ManyFail
<1>4. TypeOK'
  BY <1>1, <1>2, <1>3 DEF IInv, TypeOK, TunnelTypeOK
<1>5. NoneOutlives'
  BY <1>3 DEF NoneOutlives, Alive
<1>6. Closing'
  <2>1. /\ aborted' = aborted /\ forwarder' = forwarder
        /\ \A k \in Key : tunnels[k] = None => tunnels'[k] = None
    BY <1>1, <1>2, <1>3
  <2>2. Closing
    BY DEF IInv
  <2>. QED
    BY <2>1, <2>2 DEF Closing
<1>. QED
  BY <1>3, <1>4, <1>5, <1>6 DEF IInv

LEMMA CloseBeginsKeeps ==
  ASSUME IInv, NEW s \in Signal, CloseBegins(s)
  PROVE  IInv'
<1> DEFINE L == Listening(s)
<1>1. /\ FailAll(L) /\ aborted' = aborted \cup {s} /\ UNCHANGED <<closed, connected>>
      /\ L \in SUBSET (Alive \cup Unsettled) /\ L \cap Unsettled \in SUBSET Run
      /\ forwarder[s] = "open"
  BY DEF CloseBegins, Abort, Listening, Of, Alive, Unsettled
<1>2. \A r \in Alive : r \notin L => runs[r].signal # s
  BY DEF Listening, Of, Alive
<1>3. /\ forwarder' \in [Signal -> {"open", "settling", "stopping", "closed"}]
      /\ \A t \in Signal : forwarder'[t] = IF t = s THEN "settling" ELSE forwarder[t]
  BY DEF CloseBegins, IInv, TypeOK
<1>4. /\ tunnels' = Forgotten(L \cap Unsettled)
      /\ sockets' \in [Socket -> SocketState]
      /\ \A x \in Socket : sockets'[x].at = "waiting" =>
           sockets'[x] = sockets[x] /\ sockets[x].on \notin L \cap Unsettled
  <2>1. \A x \in Socket : sockets'[x] = IF sockets[x].at = "waiting"
                                           /\ sockets[x].on \in L \cap Unsettled
                                        THEN GoneSocket ELSE sockets[x]
    BY DEF CloseBegins
  <2>2. GoneSocket \in SocketState /\ GoneSocket.at = "gone"
    BY DEF GoneSocket, SocketState
  <2>3. \A x \in Socket : sockets'[x] \in SocketState
    BY <2>1, <2>2 DEF IInv, TypeOK
  <2>. QED
    BY <2>1, <2>2, <2>3 DEF CloseBegins
<1> HIDE DEF L
<1>5. \A t \in Signal : forwarder'[t] = "open" => forwarder[t] = "open"
  BY <1>3
<1>6. /\ runs' \in [Run -> RunState] /\ tunnels' \in [Key -> Run \cup {None}]
      /\ \A k \in Key : tunnels[k] = None => tunnels'[k] = None
      /\ \A r \in Run : runs'[r].told # "no" => runs'[r].at = "alive"
      /\ \A r \in Run : runs'[r].at = "alive" /\ runs'[r].told = "no" =>
           r \notin L /\ runs'[r] = runs[r]
      /\ Shaped' /\ Named' /\ Waiting'
  BY <1>1, <1>4, <1>5, ManyFail
<1>7. TypeOK'
  BY <1>1, <1>3, <1>4, <1>6 DEF IInv, TypeOK, TunnelTypeOK
<1>8. NoneOutlives'
  <2>. SUFFICES ASSUME NEW r \in Run, runs'[r].at = "alive", runs'[r].told = "no"
                PROVE  /\ runs'[r].signal \notin aborted' /\ ~closed' /\ connected'
                       /\ runs'[r].said # "failed"
    BY DEF NoneOutlives, Alive
  <2>1. r \in Alive /\ r \notin L /\ runs'[r] = runs[r]
    BY <1>6 DEF Alive
  <2>. QED
    BY <1>1, <1>2, <2>1 DEF IInv, NoneOutlives
<1>9. Closing'
  BY <1>1, <1>3, <1>6 DEF IInv, Closing
<1>. QED
  BY <1>6, <1>7, <1>8, <1>9 DEF IInv

LEMMA CloseSettlesKeeps ==
  ASSUME IInv, NEW s \in Signal, CloseSettles(s)
  PROVE  IInv'
<1> DEFINE R == {tunnels[k] : k \in {j \in Key : SignalOf[j] = s}} \cap Alive
<1>1. /\ StopAll(R) /\ R \in SUBSET Alive /\ forwarder[s] = "settling"
      /\ UNCHANGED <<aborted, closed, connected, sockets>>
  BY DEF CloseSettles
<1>2. /\ \A k \in Key : tunnels'[k] = IF SignalOf[k] = s THEN None ELSE tunnels[k]
      /\ tunnels' \in [Key -> Run \cup {None}]
  BY DEF CloseSettles, IInv, TypeOK
<1>3. /\ forwarder' \in [Signal -> {"open", "settling", "stopping", "closed"}]
      /\ \A t \in Signal : forwarder'[t] = IF t = s THEN "stopping" ELSE forwarder[t]
  BY DEF CloseSettles, IInv, TypeOK
<1> HIDE DEF R
<1>4. \A k \in Key :
        /\ tunnels'[k] \in {tunnels[k], None}
        /\ tunnels[k] # None /\ tunnels'[k] = None => forwarder'[SignalOf[k]] # "open"
  BY <1>2, <1>3, ForwarderAssumption
<1>5. /\ runs' \in [Run -> RunState]
      /\ \A r \in Run : runs'[r].told # "no" => runs'[r].at = "alive"
      /\ \A r \in Run : runs'[r].at = "alive" /\ runs'[r].told = "no" =>
           r \notin R /\ runs'[r] = runs[r]
      /\ Shaped' /\ Named' /\ Waiting'
  BY <1>1, <1>2, <1>3, <1>4, ManyStop
<1>6. TypeOK'
  BY <1>1, <1>2, <1>3, <1>5 DEF IInv, TypeOK, TunnelTypeOK
<1>7. NoneOutlives'
  BY <1>1, <1>5 DEF IInv, NoneOutlives, Alive
<1>8. Closing'
  BY <1>1, <1>2, <1>3 DEF IInv, Closing
<1>. QED
  BY <1>5, <1>6, <1>7, <1>8 DEF IInv

LEMMA CloseAllKeeps ==
  ASSUME IInv, CloseAll, Unmoved
  PROVE  IInv'
<1>1. /\ StopAll(Alive) /\ Alive \in SUBSET Alive /\ closed' = TRUE
      /\ UNCHANGED <<aborted, connected, tunnels, sockets, forwarder>>
  BY DEF CloseAll, Unmoved
<1>2. tunnels' \in [Key -> Run \cup {None}]
  BY <1>1 DEF IInv, TypeOK
<1>3. /\ runs' \in [Run -> RunState]
      /\ \A r \in Run : runs'[r].told # "no" => runs'[r].at = "alive"
      /\ \A r \in Run : runs'[r].at = "alive" /\ runs'[r].told = "no" =>
           r \notin Alive /\ runs'[r] = runs[r]
      /\ Shaped' /\ Named' /\ Waiting'
  BY <1>1, <1>2, ManyStop
<1>4. TypeOK'
  BY <1>1, <1>3 DEF IInv, TypeOK, TunnelTypeOK
<1>5. NoneOutlives'
  BY <1>3 DEF NoneOutlives, Alive
<1>6. Closing'
  BY <1>1 DEF IInv, Closing
<1>. QED
  BY <1>3, <1>4, <1>5, <1>6 DEF IInv

-----------------------------------------------------------------------------
(* The steps that leave the runs.                                          *)

LEMMA ConnectsKeeps ==
  ASSUME IInv, Connects, Unmoved
  PROVE  IInv'
<1>1. TypeOK'
  BY DEF IInv, TypeOK, TunnelTypeOK, Connects, Unmoved
<1>2. NoneOutlives'
  BY DEF IInv, NoneOutlives, Alive, Connects
<1>3. Closing' /\ Shaped' /\ Named' /\ Waiting'
  BY DEF IInv, Closing, Shaped, Named, Waiting, Connects, Unmoved
<1>. QED
  BY <1>1, <1>2, <1>3 DEF IInv

LEMMA CloseEndsKeeps ==
  ASSUME IInv, NEW s \in Signal, CloseEnds(s)
  PROVE  IInv'
<1>1. /\ \A t \in Signal : forwarder'[t] = IF t = s THEN "closed" ELSE forwarder[t]
      /\ forwarder' \in [Signal -> {"open", "settling", "stopping", "closed"}]
      /\ forwarder[s] = "stopping"
      /\ UNCHANGED <<runs, aborted, closed, connected, tunnels, sockets>>
  BY DEF CloseEnds, IInv, TypeOK, tunnelVars
<1>2. TypeOK'
  BY <1>1 DEF IInv, TypeOK, TunnelTypeOK
<1>3. NoneOutlives' /\ Shaped' /\ Waiting'
  BY <1>1 DEF IInv, NoneOutlives, Alive, Shaped, Waiting
<1>4. Closing'
  BY <1>1 DEF IInv, Closing
<1>5. Named'
  <2>1. \A r \in Run : Serves(runs[r]) /\ forwarder'[runs[r].signal] = "open" =>
          forwarder[runs[r].signal] = "open"
    BY <1>1, SignalOfRuns DEF Serves
  <2>. QED
    BY <1>1, <2>1 DEF IInv, Named, Serves
<1>. QED
  BY <1>2, <1>3, <1>4, <1>5 DEF IInv

LEMMA SessionOpensKeeps ==
  ASSUME IInv, NEW s \in Signal, SessionOpens(s)
  PROVE  IInv'
<1>1. /\ \A t \in Signal : forwarder'[t] = IF t = s THEN "open" ELSE forwarder[t]
      /\ forwarder' \in [Signal -> {"open", "settling", "stopping", "closed"}]
      /\ Of(s) = {} /\ aborted' = aborted \ {s}
      /\ UNCHANGED <<runs, closed, connected, tunnels, sockets>>
  BY DEF SessionOpens, IInv, TypeOK
<1>2. TypeOK'
  BY <1>1 DEF IInv, TypeOK, TunnelTypeOK
<1>3. NoneOutlives' /\ Shaped' /\ Waiting'
  BY <1>1 DEF IInv, NoneOutlives, Alive, Shaped, Waiting
<1>4. Closing'
  BY <1>1 DEF IInv, Closing
<1>5. Named'
  <2>1. \A r \in Run : Serves(runs[r]) /\ forwarder'[runs[r].signal] = "open" =>
          forwarder[runs[r].signal] = "open"
    BY <1>1, SignalOfRuns DEF Serves, Of
  <2>. QED
    BY <1>1, <2>1 DEF IInv, Named, Serves
<1>. QED
  BY <1>2, <1>3, <1>4, <1>5 DEF IInv

-----------------------------------------------------------------------------
(* The inductive invariant.                                                *)

LEMMA IInvInit == Init => IInv
<1>. SUFFICES ASSUME Init PROVE IInv
  OBVIOUS
<1>1. /\ runs = [r \in Run |-> FreeRun] /\ tunnels = [k \in Key |-> None]
      /\ sockets = [x \in Socket |-> GoneSocket] /\ forwarder = [s \in Signal |-> "open"]
      /\ aborted = {} /\ closed = FALSE /\ connected = TRUE
  BY DEF Init, TunnelInit
<1>2. GoneSocket \in SocketState /\ GoneSocket.at = "gone"
  BY DEF GoneSocket, SocketState
<1>3. TypeOK
  BY <1>1, <1>2, FreeRunFits DEF TypeOK, TunnelTypeOK
<1>4. NoneOutlives /\ Closing /\ Shaped /\ Waiting
  BY <1>1, <1>2, FreeRunFits DEF NoneOutlives, Alive, Closing, Shaped, Waiting
<1>5. Named
  BY <1>1, FreeRunFits DEF Named
<1>. QED
  BY <1>3, <1>4, <1>5 DEF IInv

LEMMA IInvStep == IInv /\ [Next]_vars => IInv'
<1>. SUFFICES ASSUME IInv, [Next]_vars PROVE IInv'
  OBVIOUS
<1>1. CASE \E x \in Socket, k \in Key : Opens(x, k) \/ Shares(x, k)
  BY <1>1, OpensKeeps, SharesKeeps
<1>2. CASE \E x \in Socket : SocketCloses(x) \/ UpstreamCloses(x)
  BY <1>2, SocketClosesKeeps DEF UpstreamCloses
<1>3. ASSUME NEW r \in Run,
             \/ Prepared(r) \/ GivenUp(r) \/ Exit(r)
             \/ BecomesReady(r) /\ Resolved(r)
             \/ (NeverStarts(r) \/ Closes(r)) /\ Rejected({r})
             \/ LateFires(r) /\ Unmoved
      PROVE  IInv'
  BY <1>3, PreparedKeeps, GivenUpKeeps, ExitKeeps, BecomesReadyKeeps,
     NeverStartsOrClosesKeeps, LateFiresKeeps
<1>4. ASSUME NEW s \in Signal,
             CloseBegins(s) \/ CloseSettles(s) \/ CloseEnds(s) \/ SessionOpens(s)
      PROVE  IInv'
  BY <1>4, CloseBeginsKeeps, CloseSettlesKeeps, CloseEndsKeeps, SessionOpensKeeps
<1>5. CASE Disconnects /\ Rejected(Alive \cap Unsettled)
  BY <1>5, DisconnectsKeeps
<1>6. CASE (Connects \/ CloseAll) /\ Unmoved
  BY <1>6, ConnectsKeeps, CloseAllKeeps
<1>7. CASE UNCHANGED vars
  <2>1. /\ UNCHANGED <<tunnelVars, tunnels, forwarder>> /\ sockets' = sockets
    BY <1>7 DEF vars
  <2>2. /\ sockets' \in [Socket -> SocketState]
        /\ \A x \in Socket : sockets'[x].at = "waiting" =>
             sockets'[x].on \in Run /\ Pending(runs[sockets'[x].on])
    BY <2>1 DEF IInv, TypeOK, Waiting
  <2>. QED
    BY <2>1, <2>2, SocketsOnly
<1>. QED
  BY <1>1, <1>2, <1>3, <1>4, <1>5, <1>6, <1>7 DEF Next

THEOREM Invariance == Spec => []IInv
<1>. QED
  BY IInvInit, IInvStep, PTL DEF Spec

(* Every part of the state keeps its type, and only a kubectl that has not exited is sent
   signals, whose process id would otherwise be another's (follow, stop). *)
THEOREM TunnelTypes == Spec => []TypeOK
<1>1. IInv => TypeOK
  BY DEF IInv
<1>. QED
  BY <1>1, Invariance, PTL

(* Every kubectl whose session closes, whose extension ends, whose cluster is left or whose
   open() fails has been told to end, at every moment that any of them can happen. *)
THEOREM KubectlsToldToEnd == Spec => []NoneOutlives
<1>1. IInv => NoneOutlives
  BY DEF IInv
<1>. QED
  BY <1>1, Invariance, PTL

(* The map of an open session has each ready kubectl, and nothing that failed or has exited. *)
THEOREM MapServesAlways == Spec => []MapServes
<1>1. IInv => MapServes
  <2>. SUFFICES ASSUME IInv PROVE MapServes
    OBVIOUS
  <2>1. ASSUME NEW k \in Key, tunnels[k] # None, forwarder[SignalOf[k]] = "open"
        PROVE  /\ runs[tunnels[k]].signal = SignalOf[k] /\ runs[tunnels[k]].said # "failed"
               /\ runs[tunnels[k]].at = "exited" => runs[tunnels[k]].said = "no"
               /\ runs[tunnels[k]].at # "free"
    <3>1. tunnels[k] \in Run
      BY <2>1 DEF IInv, TypeOK
    <3>. QED
      BY <2>1, <3>1 DEF IInv, Named, Serves, Shaped, Shape
  <2>2. ASSUME NEW r \in Alive, runs[r].said = "ready", forwarder[runs[r].signal] = "open"
        PROVE  \E k \in Key : tunnels[k] = r
    BY <2>2 DEF IInv, Named, Serves, Alive
  <2>. QED
    BY <2>1, <2>2 DEF MapServes
<1>. QED
  BY <1>1, Invariance, PTL

(* A waiting socket has a promise that is still to settle, and two pods have two kubectls. *)
THEOREM SocketsWaitForOpenings == Spec => []WaitsForOpening
<1>1. IInv => WaitsForOpening
  BY DEF IInv, Waiting, Pending, Named, WaitsForOpening
<1>. QED
  BY <1>1, Invariance, PTL

=============================================================================
