------------------------------ MODULE Backfill ------------------------------
(***************************************************************************)
(* Backfilling one chat from the stored history (FetchMessages in          *)
(* connector/backfill.go and the message table in wadb/message.go).        *)
(*                                                                         *)
(* The bridge framework asks for a page of messages, sends it to the room  *)
(* and then calls the page's CompleteCallback, which deletes rows from the *)
(* table.  Meanwhile the history sync loop keeps inserting rows, and the   *)
(* process may stop between any two of these steps.  Pages go backwards    *)
(* from a cursor, or from the oldest message of the room; a forward page   *)
(* starts at the newest message of the room.                               *)
(***************************************************************************)
EXTENDS Integers, FiniteSets

CONSTANTS
  Msg,        \* messages of the chat
  Ts,         \* their timestamps in seconds, not necessarily distinct
  Count,      \* FetchMessagesParams.Count
  NoPage,
  MaxStores,  \* bound: payloads stored
  MaxCrashes, \* bound: process crashes
  MaxFaults   \* bound: failing deletes

ASSUME BackfillAssumption ==
  /\ IsFiniteSet(Msg) /\ Ts \in [Msg -> Nat]
  /\ Count \in Nat \ {0}
  /\ MaxStores \in Nat /\ MaxCrashes \in Nat /\ MaxFaults \in Nat

VARIABLES
  queue,   \* the configuration: Queue.Enabled or WillPaginateManually
  table,   \* rows of whatsapp_history_sync_message
  room,    \* messages sent to the Matrix room
  cursor,  \* the backfill task's cursor: empty or one timestamp
  done,    \* is the backfill task done?
  page,    \* the page in flight
  sent,    \* has it been sent to the room?
  late,    \* history: rows inserted after the first page was fetched
  edge,    \* history: oldest timestamps of the completed pages
  stores, crashes, faults

bounds == <<stores, crashes, faults>>
vars == <<queue, table, room, cursor, done, page, sent, late, edge, bounds>>

Page == [batch : SUBSET Msg, newest : Nat, oldest : Nat,
         more : BOOLEAN, forward : BOOLEAN]

Init ==
  /\ queue \in BOOLEAN
  /\ table = {} /\ room = {} /\ cursor = {} /\ done = FALSE
  /\ page = NoPage /\ sent = FALSE /\ late = {} /\ edge = {}
  /\ stores = 0 /\ crashes = 0 /\ faults = 0

Started == edge # {} \/ page # NoPage \/ room # {}

\* Message.Put and BackfillTask.MarkNotDone for one payload.  Rows that are
\* already there are left alone.
StorePayload(S) ==
  /\ S # {} /\ stores < MaxStores /\ stores' = stores + 1
  /\ table' = table \cup S /\ done' = FALSE
  /\ late' = IF Started THEN late \cup (S \ table) ELSE late
  /\ UNCHANGED <<room, cursor, page, sent, edge, crashes, faults>>

\* GetBetween: bounds are inclusive, an absent bound is the empty set; newest
\* first, at most n rows, rows of equal age in any order.
Between(start, end) ==
  {m \in table : (\A t \in start : Ts[m] >= t) /\ (\A t \in end : Ts[m] <= t)}

\* Mutant: the query is limited to Count rows, not one more.
NewestOfPage(S, n) ==
  {B \in SUBSET S : /\ IF Cardinality(S) < n THEN B = S ELSE Cardinality(B) = n - 1
                    /\ \A m \in B, k \in S \ B : Ts[m] >= Ts[k]}

\* Mutant: ORDER BY timestamp ASC.
OldestOf(S, n) ==
  {B \in SUBSET S : /\ IF Cardinality(S) <= n THEN B = S ELSE Cardinality(B) = n
                    /\ \A m \in B, k \in S \ B : Ts[m] <= Ts[k]}

NewestOf(S, n) ==
  {B \in SUBSET S : /\ IF Cardinality(S) <= n THEN B = S ELSE Cardinality(B) = n
                    /\ \A m \in B, k \in S \ B : Ts[m] >= Ts[k]}

\* Messages with the oldest timestamp are cut off when there may be more,
\* unless that is all there is.
CutOff(B, oldest) ==
  LET newer == {m \in B : Ts[m] > oldest}
  IN  IF Cardinality(B) > Count /\ newer # {} THEN newer ELSE B

Fetch(start, end, forward) ==
  /\ page = NoPage
  /\ \E B \in NewestOf(Between(start, end), Count + 1) :
       \/ /\ B = {}  \* an empty response: no more messages
          /\ done' = (done \/ ~forward)
          /\ UNCHANGED page
       \/ \E first, last \in B :
            /\ \A m \in B : Ts[last] <= Ts[m] /\ Ts[m] <= Ts[first]
            /\ page' = [batch   |-> CutOff(B, Ts[last]),
                        newest  |-> Ts[first],
                        oldest  |-> Ts[last],
                        more    |-> Cardinality(B) > Count,
                        forward |-> forward \/ end = {}]
            /\ UNCHANGED done
  /\ UNCHANGED <<table, room, cursor, sent, late, edge, bounds>>

\* AnchorMessage is the newest or oldest message of the room, if any.
NewestAnchor == {Ts[m] : m \in {m \in room : \A k \in room : Ts[k] <= Ts[m]}}
OldestAnchor == {Ts[m] : m \in {m \in room : \A k \in room : Ts[k] >= Ts[m]}}

FetchForward  == Fetch(NewestAnchor, {}, TRUE)
FetchBackward == ~done /\ Fetch({}, IF cursor # {} THEN cursor ELSE OldestAnchor, FALSE)

\* The framework sends the page to the room ...
SendPage ==
  /\ page # NoPage /\ ~sent
  /\ room' = room \cup page.batch /\ sent' = TRUE
  /\ UNCHANGED <<table, cursor, done, page, late, edge, bounds>>

\* Mutants: the bounds of the deletion are exclusive; it has no lower bound.
PassedStrictly == {m \in table : page.oldest < Ts[m] /\ Ts[m] < page.newest}
PassedDownward == {m \in table : Ts[m] <= page.newest}

\* DeleteBetween, or DeleteAllInChat without a backfill queue.
Passed  == {m \in table : page.oldest <= Ts[m] /\ Ts[m] <= page.newest}
Deleted == IF queue THEN Passed ELSE table

\* ... calls CompleteCallback, which only logs an error, and notes where a
\* backward page ended.
Complete ==
  /\ page # NoPage /\ sent
  /\ \/ table' = table \ Deleted /\ UNCHANGED faults
     \/ faults < MaxFaults /\ faults' = faults + 1 /\ UNCHANGED table
  /\ IF page.forward THEN UNCHANGED <<cursor, done>>
                     ELSE cursor' = {page.oldest} /\ done' = ~page.more
  /\ page' = NoPage /\ sent' = FALSE
  /\ edge' = edge \cup {page.oldest}
  /\ UNCHANGED <<room, late, stores, crashes>>

Crash ==
  /\ page # NoPage /\ crashes < MaxCrashes /\ crashes' = crashes + 1
  /\ page' = NoPage /\ sent' = FALSE
  /\ UNCHANGED <<table, room, cursor, done, late, edge, stores, faults>>

Next ==
  /\ UNCHANGED queue
  /\ \/ \E S \in SUBSET Msg : StorePayload(S)
     \/ FetchForward \/ FetchBackward \/ SendPage \/ Complete \/ Crash

Spec == Init /\ [][Next]_vars

\* The framework keeps working on an open backfill task and finishes pages.
FairSpec ==
  /\ Spec /\ SF_vars(FetchBackward /\ UNCHANGED queue)
  /\ WF_vars(SendPage /\ UNCHANGED queue) /\ WF_vars(Complete /\ UNCHANGED queue)

-----------------------------------------------------------------------------
\* Every variable stays within its range.
TypeOK ==
  /\ queue \in BOOLEAN
  /\ table \subseteq Msg /\ room \subseteq Msg /\ late \subseteq Msg
  /\ cursor \subseteq Nat /\ edge \subseteq Nat
  /\ done \in BOOLEAN /\ sent \in BOOLEAN
  /\ page \in Page \cup {NoPage}
  /\ stores \in Nat /\ crashes \in Nat /\ faults \in Nat

\* The rows that were stored before the first page and are not sent yet.
Unsent == table \ (late \cup room)

\* A page deletes a row it did not send only if the row has the page's oldest
\* timestamp or was inserted while the bridge was already backfilling: the
\* part of the history the page passed over is complete.
LossOnlyAtEdge ==
  [][queue => \A m \in table \ table' :
       m \in room \/ m \in late \/ Ts[m] \in edge']_vars

\* An unsent row is no newer than anything in the room: whatever pages are
\* fetched, interrupted and repeated, none leaves a gap behind it.
NoGapBehind == \A m \in Unsent, k \in room : Ts[m] <= Ts[k]

\* The backfill task is closed only when nothing is left to send: the page
\* that says HasMore = false was the last one, not the last full one.
DoneMeansDelivered == done => Unsent = {}

\* An open backfill task is finished: a page always makes progress, even when
\* all its messages have the same timestamp.
BackfillFinishes == []<>done

\* CompleteCallback just deletes the messages that got backfilled (the
\* comment at backfill.go:511).
DeletesOnlyBackfilled ==
  [][queue /\ page # NoPage => table \ table' \subseteq room]_vars
=============================================================================
