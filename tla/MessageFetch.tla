---------------------------- MODULE MessageFetch ----------------------------
(***************************************************************************)
(* How main reads the records of a partition without a consumer group      *)
(* (src/main/kafka/message-fetch.ts): where a page starts, what one fetch  *)
(* gives, how much of the records is shown, and where the next page starts *)
(* (the browser's "Load newer" and its tail ask for nextOffset).           *)
(*                                                                         *)
(* The partition is external: records are appended, retention removes the  *)
(* oldest, and a fetch returns some of the batches from the offset asked   *)
(* for on.  The offsets asked for are those below which all transactions   *)
(* have ended.  An offset has a record, a transaction's marker or aborted  *)
(* record, which KafkaJS leaves out of a batch, or nothing at all.         *)
(***************************************************************************)
EXTENDS FiniteSets, FiniteSetsExt, Naturals, Sequences

CONSTANTS
  End,       \* the offset at which the log stops growing
  Limits,    \* the limits pages may ask for
  Preview,   \* MESSAGE_PREVIEW_MAX_BYTES
  Response,  \* MESSAGE_RESPONSE_PREVIEW_MAX_BYTES
  MaxSize    \* the largest size of a record

ASSUME FetchAssumption ==
  /\ {End, Preview, Response, MaxSize} \subseteq Nat /\ Limits \subseteq Nat \ {0}

VARIABLES
  log,       \* log[o]: what the offset o has or will have: "record", "marker", "none"
  low,       \* the log's start
  high,      \* the high watermark
  fetching,  \* the page asked for and the bounds read for it
  page,      \* the last page, see FetchTypeOK
  from,      \* where the first of the pages that follow each other starts
  shown      \* the offsets of the records of these pages

fetchVars == <<log, low, high, fetching, page, from, shown>>

Offset == 0..End
Mode == {"earliest", "latest", "offset", "timestamp"}
NoPageFetch == [mode |-> "none", first |-> FALSE, start |-> 0, limit |-> 1, high |-> 0]

FetchTypeOK ==
  /\ log \in [Offset -> {"record", "marker", "none"}]
  /\ low \in Offset /\ high \in low..End
  /\ fetching.mode \in Mode \cup {"none"} /\ {fetching.start, fetching.high} \subseteq Offset
  /\ page.at \in {"none", "shown", "failed"} /\ page.next \in Offset
  /\ page.previewed \in 0..Response
  /\ from \in Offset /\ shown \subseteq Offset

FetchInit ==
  /\ log \in [Offset -> {"record", "marker", "none"}]
  /\ low = 0 /\ high = 0 /\ fetching = NoPageFetch
  /\ page = [at |-> "none", next |-> 0, more |-> FALSE, previewed |-> 0]
  /\ from = 0 /\ shown = {}

-----------------------------------------------------------------------------
(* Pure parts.                                                             *)

(* resolveStartOffset(): of a timestamp, the offset that Kafka named, or none. *)
Start(mode, asked, limit, first, last) ==
  CASE mode = "earliest" -> first
    [] mode = "latest" -> IF last - limit > first THEN last - limit ELSE first
    [] mode = "timestamp" -> IF asked = End THEN last ELSE asked
    [] OTHER -> asked

(* What validateMessageBrowseInput() and resolveStartOffset() refuse. *)
Refused(mode, asked, first, last) == mode = "offset" /\ ~(asked \in first..last)

(* normalizeRecord(): PreviewBudget.take(), record after record. *)
Take(left, size) == Min({size, Preview, left})
Previewed(sizes) ==
  FoldFunction(LAMBDA size, taken : taken + Take(Response - taken, size), 0, sizes)

(* slice(0, limit) *)
Selected(records, limit) == {o \in records : Cardinality({p \in records : p < o}) < limit}

(* nextOffset before it is cut to the high watermark: after batch.lastOffset() if nothing is
   selected. *)
AfterBatch(selected, last) == last + 1
AfterSelected(selected, last) == IF selected = {} THEN last + 1 ELSE Max(selected) + 1

-----------------------------------------------------------------------------
(* browseMessagesWithCluster(): the offsets are read... *)
AsksPage(mode, asked, limit, first) ==
  /\ fetching = NoPageFetch
  /\ UNCHANGED <<log, low, high>>
  /\ IF Refused(mode, asked, low, high)
     THEN /\ page' = [page EXCEPT !.at = "failed"] /\ UNCHANGED <<fetching, from, shown>>
     ELSE /\ fetching' = [mode |-> mode, first |-> first, limit |-> limit, high |-> high,
                          start |-> Start(mode, asked, limit, low, high)]
          /\ UNCHANGED <<page, from, shown>>

(* ...for a first page, or for the one that follows the one shown. *)
Named == (low..(high - 1)) \cup {End}
BeginsBrowse ==
  \E limit \in Limits :
    \/ \E mode \in {"earliest", "latest"} : AsksPage(mode, End, limit, TRUE)
    \/ \E asked \in Named : AsksPage("timestamp", asked, limit, TRUE)
    \/ \E asked \in Offset : AsksPage("offset", asked, limit, TRUE)
Follows == page.at = "shown" /\ \E limit \in Limits : AsksPage("offset", page.next, limit, FALSE)

(* The page is made of the records fetched: it adds to those before or is the first. *)
Shows(records, last, previewed) ==
  LET f == fetching
      selected == Selected(records, f.limit)
      next == Min({f.high, AfterSelected(selected, last)})
  IN
  /\ page' = [at |-> "shown", next |-> IF f.start < f.high THEN next ELSE f.start,
              more |-> f.start < f.high /\ next < f.high, previewed |-> previewed]
  /\ IF f.first THEN from' = f.start /\ shown' = selected
     ELSE from' = from /\ shown' = shown \cup selected

(* A fetch answers with the batches up to an offset; with none, lastOffset() is the one before the
   high watermark. *)
Fetches ==
  /\ fetching # NoPageFetch /\ fetching' = NoPageFetch
  /\ UNCHANGED <<log, low, high>>
  /\ IF fetching.start >= fetching.high THEN Shows({}, fetching.start, 0)
     ELSE \E last \in fetching.start..(high - 1) :
            LET there == {o \in fetching.start..last : log[o] # "none"}
                records == {o \in there : log[o] = "record"}
            IN
            /\ there = {} => last = high - 1
            /\ there # {} => last = Max(there)
            /\ \E size \in 0..MaxSize :
                 Shows(records, last, Previewed([o \in Selected(records, fetching.limit) |-> size]))

(* The offset has been removed meanwhile, or the broker fails. *)
FetchBreaks ==
  /\ fetching # NoPageFetch /\ fetching' = NoPageFetch
  /\ page' = [page EXCEPT !.at = "failed"]
  /\ UNCHANGED <<log, low, high, from, shown>>

Appends == high < End /\ high' = high + 1 /\ UNCHANGED <<log, low, fetching, page, from, shown>>

(* What retention removes can no longer be fetched. *)
Retains ==
  /\ low < high /\ low' = low + 1 /\ (fetching # NoPageFetch => fetching.start > low)
  /\ UNCHANGED <<log, high, fetching, page, from, shown>>

FetchNext == BeginsBrowse \/ Follows \/ Fetches \/ FetchBreaks \/ Appends \/ Retains

FetchSpec == FetchInit /\ [][FetchNext]_fetchVars

-----------------------------------------------------------------------------
(* Properties.                                                             *)

(* Pages that follow each other show every record between the start of the first and the offset
   the next one starts at, whatever limits they have and wherever the fetches end. *)
PagesAreGapless ==
  page.at = "shown" =>
    shown \cap (from..(page.next - 1)) = {o \in from..(page.next - 1) : log[o] = "record"}

=============================================================================
