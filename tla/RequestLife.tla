---------------------------- MODULE RequestLife -----------------------------
(***************************************************************************)
(* The life of a request of a frame in main (src/main/ipc.ts): its         *)
(* handler, the lease of the connection it uses, its time limit            *)
(* (operation-timeout.ts), its progress and its answer.                    *)
(*                                                                         *)
(* Handlers differ in four ways, and Handler says how each of them does.   *)
(* Requests do not interact here: one is enough.  SessionManager has the   *)
(* leases of several, KafkaIpcMain the connect behind "asked".             *)
(***************************************************************************)
EXTENDS FiniteSets, Naturals

VARIABLES
  handler,    \* the handler of the request, "none" before it arrives
  conn,       \* its connection: "none", "asked", "leased", "refused"
  task,       \* what it does with it: "none", "runs", "done", "failed"
  given,      \* how often it gave its lease back
  limit,      \* its timer: "off", "armed", "fired"
  withdrawn,  \* it has noted that it is cancelled
  answer,     \* "none", "value", "error", "timeout"
  late        \* it published progress after its answer

requestVars == <<handler, conn, task, given, limit, withdrawn, answer, late>>

-----------------------------------------------------------------------------
(* The handlers.  guard: it is a write, refused unless write mode is on; session: it uses a
   connection; bound: how its time is limited, "none", "inside" the lease, "around" it, or with
   a "teardown" that is awaited; heeds: it publishes nothing and throws once it is cancelled. *)
Http == [guard |-> FALSE, session |-> FALSE, bound |-> "none", heeds |-> FALSE]
HttpWrite == [Http EXCEPT !.guard = TRUE]
Plain == [Http EXCEPT !.session = TRUE]
Write == [Plain EXCEPT !.guard = TRUE]
WithLimit == [Plain EXCEPT !.bound = "around"]

SchemaReads == [schemaSubjects |-> Http, schemaSubjectNames |-> Http, schemaSubjectDetail |-> Http]
ConnectReads == [connectList |-> Http, connectNames |-> Http, connectDetail |-> Http]
SchemaWrites == [schemaRegister |-> HttpWrite, schemaDeleteSubject |-> HttpWrite]
ConnectWrites ==
  [connectPause |-> HttpWrite, connectResume |-> HttpWrite, connectDelete |-> HttpWrite,
   connectRestart |-> HttpWrite, connectUpdate |-> HttpWrite, connectCreate |-> HttpWrite]
Lookups == [version |-> Http, discover |-> Http, reachability |-> Http]
Overviews == [overview |-> Plain, topic |-> Plain]
TopicReads == [topicSizes |-> WithLimit, topicConfig |-> WithLimit]
TopicConsumers == [topicConsumers |-> [WithLimit EXCEPT !.bound = "teardown", !.heeds = TRUE]]
HeedingReads == [brokerConfig |-> [WithLimit EXCEPT !.heeds = TRUE],
                 messagesBrowse |-> [WithLimit EXCEPT !.heeds = TRUE]]
GroupReads == [groups |-> WithLimit, groupDetail |-> WithLimit]
KafkaWrites ==
  [produce |-> Write, deleteTopic |-> Write, deleteTopics |-> Write, resetOffsets |-> Write]
AclRead == [acls |-> WithLimit]
AclWrites == [aclCreate |-> [Write EXCEPT !.bound = "inside"],
              aclDelete |-> [Write EXCEPT !.bound = "inside"]]

Groups == {SchemaReads, ConnectReads, SchemaWrites, ConnectWrites, Lookups, Overviews, TopicReads,
           TopicConsumers, HeedingReads, GroupReads, KafkaWrites, AclRead, AclWrites}
Channels == UNION {DOMAIN group : group \in Groups}
Handler == [h \in Channels |-> (CHOOSE group \in Groups : h \in DOMAIN group)[h]]
Does == Handler[handler]

RequestTypeOK ==
  /\ handler \in Channels \cup {"none"} /\ conn \in {"none", "asked", "leased", "refused"}
  /\ task \in {"none", "runs", "done", "failed"} /\ given \in 0..1
  /\ given = 1 => conn = "leased"
  /\ limit \in {"off", "armed", "fired"} /\ withdrawn \in BOOLEAN /\ late \in BOOLEAN
  /\ answer \in {"none", "value", "error", "timeout"}

RequestInit ==
  /\ handler = "none" /\ conn = "none" /\ task = "none" /\ given = 0 /\ limit = "off"
  /\ withdrawn = FALSE /\ answer = "none" /\ late = FALSE

Holds == conn = "leased" /\ given = 0
Ended == task \in {"done", "failed"}

-----------------------------------------------------------------------------
(* assertEnabled() refuses a write; the timer runs from the call, or from the start of the work. *)
Arrives(h) ==
  /\ handler = "none" /\ handler' = h
  /\ \/ Handler[h].guard /\ answer' = "error" /\ UNCHANGED <<conn, task, limit>>
     \/ /\ conn' = IF Handler[h].session THEN "asked" ELSE "none"
        /\ task' = IF Handler[h].session THEN "none" ELSE "runs"
        /\ limit' = IF Handler[h].bound \in {"around", "teardown"} THEN "armed" ELSE "off"
        /\ UNCHANGED answer
  /\ UNCHANGED <<given, withdrawn, late>>

(* resolveConnection() answers: the work starts, unless the request knows that it is cancelled. *)
Connects ==
  /\ conn = "asked"
  /\ conn' = "leased"
  /\ task' = IF withdrawn THEN "failed" ELSE "runs"
  /\ limit' = IF Does.bound = "inside" THEN "armed" ELSE limit
  /\ UNCHANGED <<handler, given, withdrawn, answer, late>>

ResolvesNot ==
  /\ conn = "asked"
  /\ conn' = "refused" /\ task' = "failed"
  /\ UNCHANGED <<handler, given, limit, withdrawn, answer, late>>

(* What the request asks of Kafka or of an HTTP service answers or fails. *)
Works ==
  /\ task = "runs"
  /\ task' \in IF withdrawn THEN {"failed"} ELSE {"done", "failed"}
  /\ UNCHANGED <<handler, conn, given, limit, withdrawn, answer, late>>

Publishes == ~(Does.heeds /\ withdrawn)

(* Its progress is published while it works. *)
ReportsProgress ==
  /\ handler # "none" /\ (conn = "asked" \/ task = "runs") /\ Publishes
  /\ late' = (late \/ answer # "none")
  /\ UNCHANGED <<handler, conn, task, given, limit, withdrawn, answer>>

-----------------------------------------------------------------------------
(* The end.                                                                *)

(* The work is over for whoever holds the lease: it has settled, or its limit lets go of it. *)
OverAtLimit == Ended \/ limit = "fired"
LetsGo == Ended \/ (Does.bound = "inside" /\ limit = "fired")

(* sessions.release() in the finally, in the finalizer, or after the late answer of a connect. *)
GivesBack ==
  /\ Holds /\ LetsGo
  /\ given' = given + 1
  /\ UNCHANGED <<handler, conn, task, limit, withdrawn, answer, late>>

(* withTimeout(): the timer fires before what it bounds has settled.  Inside a lease the release
   comes before the answer, and a teardown is awaited, when there is a connection to tear down:
   it ends the work. *)
AtOnceNever == FALSE
AtOnce == Does.bound = "around" \/ (Does.bound = "teardown" /\ conn = "asked")

LimitExpires ==
  /\ limit = "armed" /\ answer = "none" /\ (Ended => Does.bound = "around")
  /\ limit' = "fired"
  /\ withdrawn' = Does.heeds
  /\ answer' = IF AtOnce THEN "timeout" ELSE answer
  /\ UNCHANGED <<handler, conn, task, given, late>>

(* The lease comes back before the answer. *)
Settled == LetsGo /\ ~Holds

RequestAnswers ==
  /\ handler # "none" /\ answer = "none" /\ Settled
  /\ answer' = IF limit = "fired" THEN "timeout" ELSE IF task = "done" THEN "value" ELSE "error"
  /\ UNCHANGED <<handler, conn, task, given, limit, withdrawn, late>>

RequestNext ==
  \/ \E h \in Channels : Arrives(h)
  \/ Connects \/ ResolvesNot \/ Works \/ ReportsProgress \/ GivesBack
  \/ LimitExpires \/ RequestAnswers

RequestSpec == RequestInit /\ [][RequestNext]_requestVars

(* Timers fire, and what main does by itself goes on; what is asked of Kafka may never answer. *)
RequestFairness ==
  WF_requestVars(LimitExpires) /\ WF_requestVars(GivesBack) /\ WF_requestVars(RequestAnswers)

-----------------------------------------------------------------------------
(* Properties.                                                             *)

(* A pooled connection is leased for as long as the request works with it, timed out or not: the
   pool cannot close it under its hands.  The limit of the ACL writes is inside their lease. *)
LeaseCoversWork == conn = "leased" /\ task = "runs" /\ Does.bound # "inside" => Holds

(* A request that heeds its limit publishes nothing once it has answered. *)
SilentAfterAnswer == handler # "none" /\ late => ~Does.heeds

(* Both: a limit neither takes the connection from the work it cuts off nor lets it report later. *)
LimitIsClean == LeaseCoversWork /\ SilentAfterAnswer

(* Under a limit around its lease a request answers, even if Kafka never does. *)
LimitAnswers ==
  handler # "none" /\ Does.bound = "around" ~> answer # "none"

=============================================================================
