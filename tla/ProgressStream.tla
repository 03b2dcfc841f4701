--------------------------- MODULE ProgressStream ---------------------------
(***************************************************************************)
(* The progress of the operations of a frame, from the handler in main     *)
(* that reports it to the page that shows it: the bounded store of main    *)
(* (src/main/progress-store.ts), the signals and answers on the wire, and  *)
(* the pull of the frame (src/renderer/kafka-progress-pull.ts).            *)
(*                                                                         *)
(* One frame: the operations of others (Foreign) compete for room in the   *)
(* store only, since the store hands nothing of theirs out and the frame   *)
(* heeds no signal of theirs.  Events are numbered as they are reported.  Signals,  *)
(* answers of fetches and the answer of the request reach the frame in the *)
(* order main sent them.  What reads a clock is nondeterministic.          *)
(***************************************************************************)
EXTENDS Naturals, Sequences, FiniteSets, SequencesExt

CONSTANTS
  Op,          \* the operations of the frame, each with an id of its own and one request
  Foreign,     \* those of the other frames
  Operations,  \* PROGRESS_BOUNDS.operations
  PerOp,       \* PROGRESS_BOUNDS.eventsPerOperation
  MaxEvents    \* bounds how often an operation reports

ASSUME ProgressAssumption ==
  {Operations, PerOp, MaxEvents} \subseteq Nat \ {0} /\ Op \cap Foreign = {}

VARIABLES
  order,       \* the operations in the store, the least recently updated first
  kept,        \* kept[o]: the events kept of o
  next,        \* next[o]: the cursor of the last one
  closed,      \* main is shut down
  request,     \* request[o]: "none", "running", "answered" by main, "flushing", "done"
  wire,        \* wire[o]: what main has sent about o and the frame has not received
  owned,       \* operations that are this frame's
  grace,       \* those whose release timer is armed
  fetch,       \* fetch[o]: the pull of o
  cursor,      \* cursor[o]; 0, which asks for all, stands for none
  subscribed,  \* a page listens
  disposed,    \* the frame's extension is deactivated
  told         \* history, see TypeOK

progressVars == <<order, kept, next, closed, request, wire, owned, grace, fetch, cursor,
                  subscribed, disposed, told>>

InStore == ToSet(order)
NoFetch == [at |-> "none", again |-> FALSE, after |-> 0, todo |-> <<>>]
Signal == [what |-> "signal", events |-> <<>>, cursor |-> 0]
Answer == [what |-> "answer", events |-> <<>>, cursor |-> 0]
Refusal == [what |-> "refusal", events |-> <<>>, cursor |-> 0]

(* told.reported[o] counts the events; told.heard[o] are those a listener was given, in order;
   told.shifted[o] have left a full entry; told.forgotten are the operations whose entry was
   dropped; told.due[o] were reported before the answer; told.deaf: a page has stopped to listen. *)
ProgressTypeOK ==
  /\ InStore \subseteq Op \cup Foreign
  /\ Len(order) = Cardinality(InStore) /\ Len(order) <= Operations
  /\ \A o \in Op : o \in InStore => Len(kept[o]) \in 1..PerOp /\ next[o] >= Len(kept[o])
  /\ closed \in BOOLEAN /\ subscribed \in BOOLEAN /\ disposed \in BOOLEAN
  /\ request \in [Op -> {"none", "running", "answered", "flushing", "done"}]
  /\ owned \subseteq Op /\ grace \subseteq Op
  /\ \A o \in Op : fetch[o].at \in {"none", "asked", "waiting", "delivering"}
                   /\ (fetch[o].todo # <<>> <=> fetch[o].at = "delivering")
  /\ cursor \in [Op -> 0..MaxEvents] /\ told.reported \in [Op -> 0..MaxEvents]

ProgressInit ==
  /\ order = <<>> /\ kept = [o \in Op |-> <<>>] /\ next = [o \in Op |-> 0] /\ closed = FALSE
  /\ request = [o \in Op |-> "none"] /\ wire = [o \in Op |-> <<>>]
  /\ owned = {} /\ grace = {} /\ fetch = [o \in Op |-> NoFetch] /\ cursor = [o \in Op |-> 0]
  /\ subscribed = TRUE /\ disposed = FALSE
  /\ told = [reported |-> [o \in Op |-> 0], heard |-> [o \in Op |-> <<>>],
             shifted |-> [o \in Op |-> {}], forgotten |-> {}, due |-> [o \in Op |-> 0],
             deaf |-> FALSE]

-----------------------------------------------------------------------------
(* The store.                                                              *)

(* prune(): the idle operations are at the front. *)
Pruned == {SubSeq(order, n + 1, Len(order)) : n \in 0..Len(order)}

(* The entry of o moves to the end; the first ones go while there are too many. *)
Moved(entries, o) ==
  LET moved == Append(RemoveFirst(entries, o), o)
  IN  SubSeq(moved, Len(moved) - (IF Len(moved) > Operations THEN Operations ELSE Len(moved)) + 1,
             Len(moved))

Forgets(entries) == InStore \ ToSet(entries)

BoundedNever(events) == events
Bounded(events) == IF Len(events) > PerOp THEN Tail(events) ELSE events

(* A handler, or the stall timer of its reporter, reports: publishProgress and put(). *)
Reports(o) ==
  /\ request[o] # "none" /\ told.reported[o] < MaxEvents /\ ~closed
  /\ LET event == told.reported[o] + 1 IN
     \E entries \in Pruned :
       LET old == IF o \in ToSet(entries) THEN kept[o] ELSE <<>> IN
       /\ order' = Moved(entries, o)
       /\ kept' = [p \in Op |-> IF p = o THEN Bounded(Append(old, event))
                                ELSE IF p \in ToSet(order') THEN kept[p] ELSE <<>>]
       /\ next' = [p \in Op |-> IF p = o THEN (IF o \in ToSet(entries) THEN next[o] ELSE 0) + 1
                                ELSE IF p \in ToSet(order') THEN next[p] ELSE 0]
       /\ told' = [told EXCEPT
            !.reported[o] = event,
            !.shifted[o] = IF Len(old) = PerOp THEN @ \cup {old[1]} ELSE @,
            !.forgotten = @ \cup ((Forgets(order') \cup Forgets(entries)) \cap Op),
            !.due[o] = IF request[o] = "running" THEN event ELSE @]
  /\ wire' = [wire EXCEPT ![o] = Append(@, Signal)]
  /\ UNCHANGED <<closed, request, owned, grace, fetch, cursor, subscribed, disposed>>

(* get(): the events after the cursor, all those kept without one. *)
After(o, after) ==
  LET first == next[o] - Len(kept[o]) + 1
      from == IF after + 1 > first THEN after + 1 ELSE first
  IN  SubSeq(kept[o], from - first + 1, Len(kept[o]))

(* The fetch of o reaches main. *)
Hands(o) ==
  /\ fetch[o].at = "asked"
  /\ \E entries \in Pruned :
       /\ order' = entries
       /\ kept' = [p \in Op |-> IF p \in ToSet(entries) THEN kept[p] ELSE <<>>]
       /\ next' = [p \in Op |-> IF p \in ToSet(entries) THEN next[p] ELSE 0]
       /\ told' = [told EXCEPT !.forgotten = @ \cup (Forgets(entries) \cap Op)]
       /\ wire' = [wire EXCEPT ![o] = Append(@,
            IF o \in ToSet(entries)
            THEN [what |-> "events", events |-> After(o, fetch[o].after), cursor |-> next[o]]
            ELSE Refusal)]
  /\ fetch' = [fetch EXCEPT ![o].at = "waiting"]
  /\ UNCHANGED <<closed, request, owned, grace, cursor, subscribed, disposed>>

(* Another frame's operation reports. *)
Crowds ==
  /\ ~closed
  /\ \E f \in Foreign : \E entries \in Pruned :
       /\ order' = Moved(entries, f)
       /\ kept' = [p \in Op |-> IF p \in ToSet(order') THEN kept[p] ELSE <<>>]
       /\ next' = [p \in Op |-> IF p \in ToSet(order') THEN next[p] ELSE 0]
       /\ told' = [told EXCEPT !.forgotten = @ \cup (Forgets(order') \cap Op)]
  /\ UNCHANGED <<closed, request, wire, owned, grace, fetch, cursor, subscribed, disposed>>

(* shutdown() *)
StoreCloses ==
  /\ ~closed
  /\ closed' = TRUE
  /\ order' = <<>> /\ kept' = [o \in Op |-> <<>>] /\ next' = [o \in Op |-> 0]
  /\ told' = [told EXCEPT !.forgotten = @ \cup (InStore \cap Op)]
  /\ UNCHANGED <<request, wire, owned, grace, fetch, cursor, subscribed, disposed>>

-----------------------------------------------------------------------------
(* The request.                                                            *)

(* read(): the id is this frame's while the request runs. *)
Asks(o) ==
  /\ request[o] = "none" /\ ~disposed
  /\ request' = [request EXCEPT ![o] = "running"]
  /\ owned' = owned \cup {o}
  /\ UNCHANGED <<order, kept, next, closed, wire, grace, fetch, cursor, subscribed, disposed, told>>

MainAnswers(o) ==
  /\ request[o] = "running"
  /\ request' = [request EXCEPT ![o] = "answered"]
  /\ wire' = [wire EXCEPT ![o] = Append(@, Answer)]
  /\ UNCHANGED <<order, kept, next, closed, owned, grace, fetch, cursor, subscribed, disposed,
                 told>>

-----------------------------------------------------------------------------
(* The pull.                                                               *)

(* The fetch asks from the cursor of the last answer. *)
AskedFrom(o, after) == [at |-> "asked", again |-> FALSE, after |-> after, todo |-> <<>>]

(* What waits for a fetch that has ended is answered, and the id is released. *)
Released(o) ==
  /\ request' = [request EXCEPT ![o] = "done"]
  /\ grace' = grace \cup {o}

Hears(events) == IF subscribed THEN events ELSE <<>>

(* The end of a turn of pullAll: fetch again for what was signalled meanwhile, or end. *)
Ends(o, again, after) ==
  IF again /\ o \in owned
  THEN fetch' = [fetch EXCEPT ![o] = AskedFrom(o, after)] /\ UNCHANGED <<request, grace>>
  ELSE /\ fetch' = [fetch EXCEPT ![o] = NoFetch]
       /\ IF request[o] = "flushing" THEN Released(o) ELSE UNCHANGED <<request, grace>>

(* Events that are left to deliver: the first one now, the others in tasks of their own. *)
Delivers(o, events, again, after) ==
  /\ told' = [told EXCEPT !.heard[o] = @ \o Hears(<<Head(events)>>)]
  /\ IF Tail(events) = <<>>
     THEN Ends(o, again, after)
     ELSE /\ fetch' = [fetch EXCEPT ![o] = [at |-> "delivering", again |-> again,
                                            after |-> after, todo |-> Tail(events)]]
          /\ UNCHANGED <<request, grace>>

(* signalled(): fetch, or let the fetch under way fetch once more. *)
SignalledOnce(o) == IF fetch[o].at # "none" THEN fetch[o] ELSE AskedFrom(o, cursor[o])
Signalled(o) ==
  IF fetch[o].at # "none" THEN [fetch[o] EXCEPT !.again = TRUE] ELSE AskedFrom(o, cursor[o])

ReceivesSignal(o) ==
  /\ fetch' = IF o \in owned /\ subscribed /\ ~disposed
              THEN [fetch EXCEPT ![o] = Signalled(o)] ELSE fetch
  /\ UNCHANGED <<request, grace, cursor, told>>

(* The answer of the request: flush() before it is passed on. *)
ReceivesAnswer(o) ==
  /\ IF disposed \/ o \notin owned \/ ~subscribed
     THEN Released(o) /\ UNCHANGED fetch
     ELSE /\ request' = [request EXCEPT ![o] = "flushing"]
          /\ fetch' = [fetch EXCEPT ![o] = Signalled(o)]
          /\ UNCHANGED grace
  /\ UNCHANGED <<cursor, told>>

ReceivesEvents(o, message) ==
  IF disposed \/ message.what = "refusal"
  THEN /\ Ends(o, fetch[o].again /\ ~disposed, cursor[o])
       /\ UNCHANGED <<cursor, told>>
  ELSE /\ cursor' = [cursor EXCEPT ![o] = message.cursor]
       /\ IF message.events = <<>>
          THEN Ends(o, fetch[o].again, message.cursor) /\ UNCHANGED told
          ELSE Delivers(o, message.events, fetch[o].again, message.cursor)

Receives(o) ==
  /\ wire[o] # <<>>
  /\ wire' = [wire EXCEPT ![o] = Tail(@)]
  /\ LET message == Head(wire[o]) IN
     \/ message.what = "signal" /\ ReceivesSignal(o)
     \/ message.what = "answer" /\ ReceivesAnswer(o)
     \/ message.what \in {"events", "refusal"} /\ ReceivesEvents(o, message)
  /\ UNCHANGED <<order, kept, next, closed, owned, subscribed, disposed>>

(* The task of the next event. *)
NextTask(o) ==
  /\ fetch[o].at = "delivering"
  /\ IF disposed THEN Ends(o, FALSE, 0) /\ UNCHANGED told
                 ELSE Delivers(o, fetch[o].todo, fetch[o].again, cursor[o])
  /\ UNCHANGED <<order, kept, next, closed, wire, owned, cursor, subscribed, disposed>>

(* OWNED_GRACE_MS after the release *)
GraceEnds(o) ==
  /\ o \in grace
  /\ grace' = grace \ {o} /\ owned' = owned \ {o}
  /\ cursor' = [cursor EXCEPT ![o] = 0]
  /\ UNCHANGED <<order, kept, next, closed, request, wire, fetch, subscribed, disposed, told>>

(* The pages of the frame come and go. *)
Listens(now) ==
  /\ subscribed # now /\ ~disposed
  /\ subscribed' = now
  /\ told' = [told EXCEPT !.deaf = TRUE]
  /\ UNCHANGED <<order, kept, next, closed, request, wire, owned, grace, fetch, cursor, disposed>>

Disposes ==
  /\ ~disposed
  /\ disposed' = TRUE /\ subscribed' = FALSE
  /\ grace' = {} /\ owned' = {} /\ cursor' = [o \in Op |-> 0]
  /\ UNCHANGED <<order, kept, next, closed, request, wire, fetch, told>>

ProgressMoves(o) ==
  Hands(o) \/ Receives(o) \/ NextTask(o) \/ MainAnswers(o)

ProgressNext ==
  \/ \E o \in Op : Asks(o) \/ Reports(o) \/ GraceEnds(o) \/ ProgressMoves(o)
  \/ Crowds \/ StoreCloses \/ Disposes
  \/ \E now \in BOOLEAN : Listens(now)

ProgressSpec == ProgressInit /\ [][ProgressNext]_progressVars

-----------------------------------------------------------------------------
(* Properties.                                                             *)

(* No page is told of an event twice or of an earlier one after a later one, whatever signals,
   fetches, evictions and grace periods come between (SPEC-019, REQ-227). *)
HeardInOrder ==
  \A o \in Op : \A i, j \in DOMAIN told.heard[o] : i < j => told.heard[o][i] < told.heard[o][j]

(* The progress of a request reaches the page before its answer: each event that was reported
   before it has been heard, unless it made room for later ones or its operation was forgotten. *)
HeardBeforeAnswer ==
  \A o \in Op : request[o] = "done" /\ o \notin told.forgotten /\ ~told.deaf /\ ~disposed =>
    1..told.due[o] \subseteq ToSet(told.heard[o]) \cup told.shifted[o]

(* Both: the page hears the progress of a request in order, once and before its answer. *)
ProgressIsHeard == HeardInOrder /\ HeardBeforeAnswer

=============================================================================
