---------------------------- MODULE MessagePage -----------------------------
(***************************************************************************)
(* The messages of a topic in a page (src/renderer/kafka-messages.tsx):    *)
(* Browse, which reads a window of a partition once, and Tail, which polls *)
(* it from the end of the log.  A call of main answers or fails some time  *)
(* later, whatever the page has become meanwhile; an operation id and a    *)
(* session number tell its answer from those of others.                    *)
(*                                                                         *)
(* The records of a partition have the offsets from 0 to the end of its    *)
(* log; a window holds at most Limit of them.  Filters, sorting and the    *)
(* inspector select from the data of the page and change nothing here.     *)
(***************************************************************************)
EXTENDS Naturals, Sequences, FiniteSets, SequencesExt

CONSTANTS
  Partition,  \* the partitions of a topic
  First,      \* the one selected at first
  Limit,      \* how many records a window or the buffer holds
  LogEnd,     \* bounds how many records are produced
  MaxCalls,   \* bounds how often the page calls main
  MaxTopics   \* bounds how often the topic or the target changes

ASSUME MessageAssumption ==
  First \in Partition /\ Limit \in Nat \ {0} /\ {LogEnd, MaxCalls, MaxTopics} \subseteq Nat

VARIABLES
  topic,         \* the topic of the page, by number
  mounted,
  partition,     \* the one selected
  loading,       \* state.loading
  window,        \* state.data, see NoWindow
  operation,     \* operationId: the call that was made last, 0 for none
  session,       \* tailSession
  tail,          \* tailState.active
  droppedCount,  \* tailState.droppedCount
  timer,         \* what the timer will poll, NoPoll if it is not armed
  calls,         \* calls of main by number, see MessageTypeOK
  logEnd         \* the end of the log of every partition

messageVars == <<topic, mounted, partition, loading, window, operation, session, tail, droppedCount,
                 timer, calls, logEnd>>

NoWindow == [topic |-> 0, partition |-> First, next |-> 0, records |-> <<>>]
NoPoll == [session |-> 0, partition |-> First, from |-> 0]

MessageTypeOK ==
  /\ topic \in 1..(MaxTopics + 1) /\ {mounted, loading, tail} \subseteq BOOLEAN
  /\ partition \in Partition /\ window.topic \in 0..topic /\ window.partition \in Partition
  /\ Len(window.records) <= Limit /\ window.next <= logEnd
  /\ operation \in 0..Len(calls) /\ session \in Nat /\ droppedCount \in 0..LogEnd
  /\ timer.from <= logEnd
  /\ Len(calls) <= MaxCalls
  /\ \A c \in DOMAIN calls : /\ calls[c].kind \in {"browse", "first", "poll", "over"}
                             /\ calls[c].topic \in 1..topic /\ calls[c].session \in 0..session

MessageInit ==
  /\ topic = 1 /\ mounted = TRUE /\ partition = First /\ loading = FALSE /\ window = NoWindow
  /\ operation = 0 /\ session = 0 /\ tail = FALSE /\ droppedCount = 0 /\ timer = NoPoll
  /\ calls = <<>> /\ logEnd = 0

-----------------------------------------------------------------------------
(* The records of a window of at most size records from an offset on. *)
Records(from, size) ==
  [i \in 1..(IF logEnd - from > size THEN size ELSE logEnd - from) |-> from + i - 1]

(* What main read from an offset on, when `high` was the end of the log that it asked for first:
   records may have come since (message-fetch.ts). *)
Read(from, high) == IF from < high THEN Records(from, Limit) ELSE <<>>
NextFrom(from, high) ==
  IF high < from + Len(Read(from, high)) THEN high ELSE from + Len(Read(from, high))

Window(call, next, records) ==
  [topic |-> call.topic, partition |-> call.partition, next |-> next, records |-> records]

Made(kind, of, from, number) ==
  Append(calls, [kind |-> kind, topic |-> topic, partition |-> of, from |-> from,
                 session |-> number])

(* A call is made: its number is the operation id of the page. *)
CallsMain(kind, of, from, number) ==
  /\ Len(calls) < MaxCalls
  /\ calls' = Made(kind, of, from, number) /\ operation' = Len(calls) + 1

(* stopTail(): a new session number makes strangers of the calls of the old one. *)
NextSession == session + 1
StopsTail == session' = NextSession /\ timer' = NoPoll /\ tail' = FALSE

(* parseBrowseControls() refuses the limit, the offset, the timestamp or the partition. *)
Refuses ==
  /\ mounted /\ (loading \/ window # NoWindow)
  /\ loading' = FALSE /\ window' = NoWindow
  /\ UNCHANGED <<topic, mounted, partition, operation, session, tail, droppedCount, timer, calls,
                 logEnd>>

(* runBrowse(), by its button, by Enter, or by "Next window", which goes on where this one ends. *)
Browses ==
  /\ mounted
  /\ \E from \in {0, logEnd} \cup {window.next : w \in {1} \ {IF loading \/ tail THEN 1 ELSE 0}} :
       CallsMain("browse", partition, from, session)
  /\ StopsTail /\ loading' = TRUE
  /\ UNCHANGED <<topic, mounted, partition, window, droppedCount, logEnd>>

(* startTail(): the end of the log is asked for first. *)
StartsTail ==
  /\ mounted /\ ~loading /\ ~tail
  /\ session' = session + 2 /\ timer' = NoPoll /\ tail' = TRUE /\ droppedCount' = 0
  /\ CallsMain("first", partition, 0, session + 2)
  /\ loading' = TRUE
  /\ UNCHANGED <<topic, mounted, partition, window, logEnd>>

PressesStop ==
  /\ mounted /\ ~loading /\ tail /\ StopsTail
  /\ UNCHANGED <<topic, mounted, partition, loading, window, operation, droppedCount, calls,
                 logEnd>>

(* The select of the partition, or the buttons of the start position. *)
Selects ==
  /\ mounted /\ ~loading
  /\ \E p \in Partition : partition' = p
  /\ window' = NoWindow
  /\ UNCHANGED <<topic, mounted, loading, operation, session, tail, droppedCount, timer, calls,
                 logEnd>>

(* The effect of another target or topic. *)
TopicChanges ==
  /\ mounted /\ topic <= MaxTopics
  /\ topic' = topic + 1 /\ partition' = First /\ loading' = FALSE /\ window' = NoWindow
  /\ operation' = 0 /\ session' = NextSession /\ timer' = NoPoll
  /\ tail' = FALSE /\ droppedCount' = 0
  /\ UNCHANGED <<mounted, calls, logEnd>>

Unmounts ==
  /\ mounted /\ mounted' = FALSE
  /\ operation' = 0 /\ session' = NextSession /\ timer' = NoPoll
  /\ UNCHANGED <<topic, partition, loading, window, tail, droppedCount, calls, logEnd>>

-----------------------------------------------------------------------------
(* The answers.                                                            *)

Answered == [kind |-> "over", topic |-> 1, partition |-> First, from |-> 0, session |-> 0]
Ends(c) == calls' = [calls EXCEPT ![c] = Answered]
Ignored == UNCHANGED <<topic, mounted, partition, loading, window, operation, session, tail,
                       droppedCount, timer, logEnd>>

(* The answer is still wanted. *)
AnySession(c) == TRUE
OfSession(c) == calls[c].session = session
OfOperation(c) == operation = c
Wanted(c) == IF calls[c].kind = "browse" THEN OfOperation(c) ELSE OfSession(c)

AnswersLate(c) == calls[c].kind # "over" /\ ~Wanted(c) /\ Ends(c) /\ Ignored

AnswersBrowse(c) ==
  /\ calls[c].kind = "browse" /\ Wanted(c) /\ Ends(c)
  /\ \E high \in calls[c].from..logEnd :
       window' = Window(calls[c], NextFrom(calls[c].from, high), Read(calls[c].from, high))
  /\ loading' = FALSE
  /\ UNCHANGED <<topic, mounted, partition, operation, session, tail, droppedCount, timer, logEnd>>

(* The tail starts behind what was there, with an empty buffer. *)
AnswersFirst(c) ==
  /\ calls[c].kind = "first" /\ Wanted(c) /\ Ends(c)
  /\ loading' = FALSE /\ tail' = TRUE /\ droppedCount' = 0
  /\ \E high \in 0..logEnd :
       /\ window' = Window(calls[c], high, <<>>)
       /\ timer' = [session |-> session, partition |-> calls[c].partition, from |-> high]
  /\ UNCHANGED <<topic, mounted, partition, operation, session, logEnd>>

(* What is new is appended to the buffer, which drops its oldest records. *)
New(records) ==
  LET unseen == {i \in DOMAIN records : records[i] \notin ToSet(window.records)}
      nth(n) == CHOOSE i \in unseen : Cardinality({j \in unseen : j <= i}) = n
  IN  [n \in 1..Cardinality(unseen) |-> records[nth(n)]]
OverNever(records) == 0
Over(records) == IF Len(records) > Limit THEN Len(records) - Limit ELSE 0

AnswersPoll(c) ==
  /\ calls[c].kind = "poll" /\ Wanted(c) /\ Ends(c)
  /\ \E high \in calls[c].from..logEnd :
       LET records == window.records \o New(Read(calls[c].from, high))
           next == NextFrom(calls[c].from, high)
       IN
       /\ window' = Window(calls[c], next, SubSeq(records, Over(records) + 1, Len(records)))
       /\ droppedCount' = droppedCount + Over(records)
       /\ timer' = [session |-> session, partition |-> calls[c].partition, from |-> next]
  /\ loading' = FALSE /\ tail' = TRUE
  /\ UNCHANGED <<topic, mounted, partition, operation, session, logEnd>>

(* A call fails: a tail ends with it. *)
NotLoading(c) == FALSE
FailsCall(c) ==
  /\ calls[c].kind # "over" /\ Wanted(c) /\ Ends(c)
  /\ loading' = NotLoading(c)
  /\ IF calls[c].kind = "browse" THEN UNCHANGED <<session, timer, tail>> ELSE StopsTail
  /\ UNCHANGED <<topic, mounted, partition, window, operation, droppedCount, logEnd>>

(* TAIL_POLL_INTERVAL_MS later *)
Polls ==
  /\ timer # NoPoll
  /\ CallsMain("poll", timer.partition, timer.from, timer.session)
  /\ timer' = NoPoll
  /\ UNCHANGED <<topic, mounted, partition, loading, window, session, tail, droppedCount, logEnd>>

Produces ==
  /\ logEnd < LogEnd /\ logEnd' = logEnd + 1
  /\ UNCHANGED <<topic, mounted, partition, loading, window, operation, session, tail, droppedCount,
                 timer, calls>>

Responds(c) ==
  AnswersLate(c) \/ AnswersBrowse(c) \/ AnswersFirst(c) \/ AnswersPoll(c) \/ FailsCall(c)

MessageNext ==
  \/ Refuses \/ Browses \/ StartsTail \/ PressesStop \/ Selects \/ TopicChanges \/ Unmounts
  \/ Polls \/ Produces
  \/ \E c \in DOMAIN calls : Responds(c)

MessageSpec == MessageInit /\ [][MessageNext]_messageVars

-----------------------------------------------------------------------------
(* Properties.                                                             *)

(* The records of a running tail follow each other up to its cursor, none of them twice and none
   left out, whatever polls of stopped tails still answer (SPEC-005, REQ-069 and REQ-070:
   "late events from a stopped session MUST be ignored"). *)
TailIsGapless ==
  tail /\ ~loading /\ mounted =>
    \A i \in DOMAIN window.records :
      /\ window.records[i] = window.records[1] + i - 1
      /\ i = Len(window.records) => window.records[i] + 1 >= window.next

(* A page that loads waits for a call whose answer ends it: it never loads for ever. *)
LoadingEnds ==
  loading /\ mounted => \E c \in DOMAIN calls : calls[c].kind # "over" /\ Wanted(c)

(* What a page shows is of its topic: results "clear when target/topic changes" (SPEC-005,
   REQ-068). *)
ShowsItsTopic == window # NoWindow => window.topic = topic

=============================================================================
