---------------------------- MODULE MediaRequests ----------------------------
(***************************************************************************)
(* Requesting old media from the phone (mediarequest.go,                   *)
(* wadb/mediarequest.go) and handling the answers (WAMediaRetry in         *)
(* events.go).                                                             *)
(*                                                                         *)
(* A message whose media is no longer on the servers is shown as "old".    *)
(* A request for it is saved, and sent immediately, at night by a loop, or *)
(* not at all.  Pages of the backfill save and send their requests in a    *)
(* goroutine of their own.  Answers edit the message; at most MaxAsync     *)
(* downloads run at a time.                                                *)
(***************************************************************************)
EXTENDS Integers, FiniteSets

CONSTANTS
  Msg,          \* messages with old media, each in a chat of its own
  Methods,      \* request methods; "off" is without auto_request_media
  Worker,       \* bound: goroutines that send requests at the same time
  Loop,         \* the goroutine of mediaRequestLoop, one of Worker
  MaxAsync,     \* media_requests.max_async_handle
  MaxConnects,  \* bound: connections made
  MaxTroubles   \* bound: restarts and failing saves, reads and sends

ASSUME MediaRequestsAssumption ==
  /\ Methods \subseteq {"immediate", "local_time", "off"}
  /\ IsFiniteSet(Worker) /\ Loop \in Worker /\ MaxAsync \in Nat \ {0}
  /\ MaxConnects \in Nat /\ MaxTroubles \in Nat

VARIABLES
  method,  \* the configured request method
  table,   \* whatsapp_media_backfill_request: status of a message's row
  shown,   \* what the room shows of a message
  post,    \* live messages sent to the room, before PostHandle
  page,    \* messages of the backfill page in flight
  redo,    \* messages of a page a crash interrupted
  loop,    \* mediaRequestLoop: off, waiting for the first night, ticking
  work,    \* goroutines that save and send requests
  asks,    \* requests the phone has not answered
  edit,    \* handling of an answer in the portal's event loop
  \* history: requests sent; messages a crash or a failing save lost the
  \* request of; messages whose sent request was not recorded; messages
  \* that were converted again
  sends, lost, unsaved, again,
  connects, troubles

history == <<sends, lost, unsaved, again>>
bounds  == <<connects, troubles>>
vars == <<method, table, shown, post, page, redo, loop, work, asks, edit, history, bounds>>

Status == {"not_requested", "requested", "request_failed", "request_skipped"}
Shown  == {"none", "old", "media", "notice", "gone"}

\* A goroutine: the messages it has yet to do, the one it is at, what it does
\* next, the status it will save, whether it must save the request first and
\* whether its context is still open.
Idle == [todo |-> {}, at |-> {}, pc |-> "next", status |-> "not_requested",
         fresh |-> FALSE, open |-> TRUE]
Job(S, fresh) == [Idle EXCEPT !.todo = S, !.fresh = fresh]

Busy(w) == work[w].todo \cup work[w].at # {}
InRoom  == {m \in Msg : shown[m] \notin {"none", "gone"}}
Pending == {m \in Msg : table[m] = "not_requested"}

\* Restarts and failing calls use up the bound.
Trouble   == troubles < MaxTroubles /\ troubles' = troubles + 1
NoTrouble == UNCHANGED troubles

\* Mutant: an existing row is left alone.
PutNew(m, status) ==
  /\ m \in InRoom
  /\ table' = [table EXCEPT ![m] = IF @ = "none" THEN status ELSE @]

\* MediaRequest.Put: the row refers to a message in the database.
Put(m, status) == m \in InRoom /\ table' = [table EXCEPT ![m] = status]
PutFails(m)    == UNCHANGED table /\ IF m \in InRoom THEN Trouble ELSE NoTrouble

Init ==
  /\ method \in Methods
  /\ table = [m \in Msg |-> "none"] /\ shown = [m \in Msg |-> "none"]
  /\ post = {} /\ page = {} /\ redo = {} /\ loop = "off"
  /\ work = [w \in Worker |-> Idle]
  /\ asks = [m \in Msg |-> 0] /\ edit = [m \in Msg |-> "idle"]
  /\ sends = [m \in Msg |-> 0] /\ lost = {} /\ unsaved = {} /\ again = {}
  /\ connects = 0 /\ troubles = 0

-----------------------------------------------------------------------------
\* Where requests come from.

\* A live message is converted, its media is old, and it is sent to the room.
LiveMessage(m) ==
  /\ shown[m] = "none" /\ m \notin page
  /\ shown' = [shown EXCEPT ![m] = "old"] /\ post' = post \cup {m}
  /\ UNCHANGED <<table, page, redo, loop, work, asks, edit, history, bounds>>

\* PostHandle calls processFailedMedia.
ProcessFailedMedia(m, w) ==
  /\ m \in post /\ post' = post \ {m} /\ ~Busy(w) /\ w # Loop
  /\ \/ Put(m, "not_requested") /\ NoTrouble /\ UNCHANGED lost
     \/ PutFails(m) /\ lost' = lost \cup {m}
  /\ work' = IF method = "immediate" THEN [work EXCEPT ![w] = Job({m}, FALSE)] ELSE work
  /\ UNCHANGED <<shown, page, redo, loop, asks, edit, sends, unsaved, again, connects>>

\* A page of the backfill is sent.  After a crash it may be fetched again,
\* and the messages that are in the room already are converted once more.
FetchPage(S) ==
  /\ page = {} /\ S # {} /\ S \cap post = {}
  /\ \A m \in S : shown[m] = "none" \/ m \in redo
  /\ page' = S /\ again' = again \cup (S \cap redo) /\ redo' = redo \ S
  /\ shown' = [m \in Msg |-> IF m \in S /\ shown[m] = "none" THEN "old" ELSE shown[m]]
  /\ UNCHANGED <<table, post, loop, work, asks, edit, sends, lost, unsaved, bounds>>

\* CompleteCallback starts a goroutine for the requests of the page.
CompletePage(w) ==
  /\ page # {} /\ page' = {} /\ ~Busy(w) /\ w # Loop
  /\ work' = [work EXCEPT ![w] = Job(page, TRUE)]
  /\ UNCHANGED <<table, shown, post, redo, loop, asks, edit, history, bounds>>

-----------------------------------------------------------------------------
\* The goroutines.

Step(w, m, pc, status) ==
  LET rest == work[w].todo \ {m}
  IN  work' = [work EXCEPT ![w] = [@ EXCEPT !.todo = rest, !.at = {m}, !.pc = pc, !.status = status]]

NextMessage(w, m) ==
  LET rest == work[w].todo \ {m}
  IN  work' = [work EXCEPT ![w] = IF rest = {} THEN Idle
                                  ELSE [@ EXCEPT !.todo = rest, !.at = {}, !.pc = "next"]]

\* Mutant: a failing save ends the goroutine of the page.
TakeOrStop(w, m) ==
  /\ work[w].pc = "next" /\ m \in work[w].todo
  /\ \/ ~work[w].fresh /\ UNCHANGED <<table, lost, troubles>> /\ Step(w, m, "check", "not_requested")
     \/ /\ work[w].fresh /\ Put(m, "not_requested") /\ NoTrouble /\ UNCHANGED lost
        /\ IF method # "immediate" THEN NextMessage(w, m) ELSE Step(w, m, "check", "not_requested")
     \/ /\ work[w].fresh /\ PutFails(m) /\ lost' = lost \cup {m}
        /\ work' = [work EXCEPT ![w] = Idle]
  /\ UNCHANGED <<shown, post, page, redo, loop, asks, edit, sends, unsaved, again, connects>>

\* Requests of a page are saved first, and only sent in immediate mode.
Take(w, m) ==
  /\ work[w].pc = "next" /\ m \in work[w].todo
  /\ IF work[w].fresh
     THEN \/ Put(m, "not_requested") /\ NoTrouble /\ UNCHANGED lost
          \/ PutFails(m) /\ lost' = lost \cup {m}
     ELSE UNCHANGED <<table, lost, troubles>>
  /\ IF work[w].fresh /\ method # "immediate"
     THEN NextMessage(w, m) ELSE Step(w, m, "check", "not_requested")
  /\ UNCHANGED <<shown, post, page, redo, loop, asks, edit, sends, unsaved, again, connects>>

\* sendMediaRequest: a request is skipped if its message cannot be read.
CheckMessage(w, m) ==
  /\ work[w].pc = "check" /\ m \in work[w].at
  /\ \/ m \in InRoom /\ work[w].open /\ NoTrouble /\ Step(w, m, "send", "not_requested")
     \/ /\ IF m \in InRoom /\ work[w].open THEN Trouble ELSE NoTrouble
        /\ Step(w, m, "save", "request_skipped")
  /\ UNCHANGED <<table, shown, post, page, redo, loop, asks, edit, history, connects>>

SendRequest(w, m) ==
  /\ work[w].pc = "send" /\ m \in work[w].at
  /\ \/ /\ asks' = [asks EXCEPT ![m] = @ + 1] /\ sends' = [sends EXCEPT ![m] = @ + 1]
        /\ NoTrouble /\ Step(w, m, "save", "requested")
     \/ Trouble /\ Step(w, m, "save", "request_failed") /\ UNCHANGED <<asks, sends>>
  /\ UNCHANGED <<table, shown, post, page, redo, loop, edit, lost, unsaved, again, connects>>

\* The deferred save, in the context of the goroutine.
SaveStatus(w, m) ==
  /\ work[w].pc = "save" /\ m \in work[w].at
  /\ \/ /\ work[w].open /\ Put(m, work[w].status) /\ NoTrouble /\ UNCHANGED unsaved
     \/ /\ IF work[w].open THEN PutFails(m) ELSE UNCHANGED <<table, troubles>>
        /\ unsaved' = unsaved \cup {m}
  /\ NextMessage(w, m)
  /\ UNCHANGED <<shown, post, page, redo, loop, asks, edit, sends, lost, again, connects>>

-----------------------------------------------------------------------------
\* mediaRequestLoop, and the connection it belongs to.

CloseLoop == work' = [work EXCEPT ![Loop] = IF Busy(Loop) THEN [@ EXCEPT !.open = FALSE] ELSE @]

\* startLoops: a new loop replaces the old one and waits for the local time.
Connect ==
  /\ connects < MaxConnects /\ connects' = connects + 1
  /\ loop' = IF method = "local_time" THEN "first" ELSE "off"
  /\ CloseLoop
  /\ UNCHANGED <<table, shown, post, page, redo, asks, edit, history, troubles>>

Disconnect ==
  /\ loop # "off" /\ loop' = "off" /\ CloseLoop
  /\ UNCHANGED <<table, shown, post, page, redo, asks, edit, history, bounds>>

\* Mutant: every round waits for the first night again.
NightFirst ==
  /\ loop # "off" /\ ~Busy(Loop) /\ loop' = "first"
  /\ UNCHANGED <<table, shown, post, page, redo, work, asks, edit, sends, lost, unsaved,
                 again, bounds>>

\* The configured time of the day: the first one starts the ticker, the later
\* ones send what is not requested.  A batch takes less than a day.
Night ==
  /\ loop # "off" /\ loop' = "ticking" /\ ~Busy(Loop)
  /\ IF loop = "first"
     THEN UNCHANGED work ELSE work' = [work EXCEPT ![Loop] = Job(Pending, FALSE)]
  /\ UNCHANGED <<table, shown, post, page, redo, asks, edit, sends, lost, unsaved, again, bounds>>

-----------------------------------------------------------------------------
\* Answers: WAMediaRetry.ConvertEdit.

Downloading == {m \in Msg : edit[m] = "downloading"}

\* An answer without a path ends in an error edit, one with a path in a
\* download that may have to wait.
AnswerError(m) ==
  /\ asks[m] > 0 /\ edit[m] = "idle"
  /\ asks' = [asks EXCEPT ![m] = @ - 1]
  /\ shown' = [shown EXCEPT ![m] = IF m \in InRoom THEN "notice" ELSE @]
  /\ UNCHANGED <<table, post, page, redo, loop, work, edit, history, bounds>>

\* Mutant: the notification is not acknowledged and comes again.
AnswerPathUnacked(m) ==
  /\ asks[m] > 0 /\ edit[m] = "idle"
  /\ edit' = [edit EXCEPT ![m] = IF m \in InRoom THEN "waiting" ELSE @]
  /\ UNCHANGED <<table, shown, post, page, redo, loop, work, asks, history, bounds>>

AnswerPath(m) ==
  /\ asks[m] > 0 /\ edit[m] = "idle"
  /\ asks' = [asks EXCEPT ![m] = @ - 1]
  /\ edit' = [edit EXCEPT ![m] = IF m \in InRoom THEN "waiting" ELSE @]
  /\ UNCHANGED <<table, shown, post, page, redo, loop, work, history, bounds>>

AcquireRetryLock(m) ==
  /\ edit[m] = "waiting" /\ Cardinality(Downloading) < MaxAsync
  /\ edit' = [edit EXCEPT ![m] = "downloading"]
  /\ UNCHANGED <<table, shown, post, page, redo, loop, work, asks, history, bounds>>

\* Mutant: a failing download keeps its place.
MediaRetryKeepsLock(m) ==
  /\ edit[m] = "downloading" /\ shown[m] # "notice"
  /\ \/ shown' = [shown EXCEPT ![m] = "media"] /\ NoTrouble /\ edit' = [edit EXCEPT ![m] = "idle"]
     \/ shown' = [shown EXCEPT ![m] = "notice"] /\ Trouble /\ UNCHANGED edit
  /\ UNCHANGED <<table, post, page, redo, loop, work, asks, history, connects>>

\* MediaRetryToMatrix: the media, or a failure once more.
MediaRetryToMatrix(m) ==
  /\ edit[m] = "downloading" /\ edit' = [edit EXCEPT ![m] = "idle"]
  /\ \/ shown' = [shown EXCEPT ![m] = "media"] /\ NoTrouble
     \/ shown' = [shown EXCEPT ![m] = "notice"] /\ Trouble
  /\ UNCHANGED <<table, post, page, redo, loop, work, asks, history, connects>>

\* The message is removed, and its request with it.
Revoke(m) ==
  /\ m \in InRoom /\ edit[m] = "idle" /\ m \notin page
  /\ shown' = [shown EXCEPT ![m] = "gone"] /\ table' = [table EXCEPT ![m] = "none"]
  /\ redo' = redo \ {m}
  /\ UNCHANGED <<post, page, loop, work, asks, edit, history, bounds>>

\* Rows survive a crash; goroutines and answers in hand do not.
Crash ==
  /\ Trouble
  /\ lost' = lost \cup post \cup page
            \cup UNION {work[w].todo : w \in {w \in Worker : work[w].fresh}}
  /\ unsaved' = unsaved \cup UNION {work[w].at : w \in Worker}
  /\ post' = {} /\ page' = {} /\ redo' = redo \cup page /\ loop' = "off"
  /\ work' = [w \in Worker |-> Idle] /\ edit' = [m \in Msg |-> "idle"]
  /\ UNCHANGED <<table, shown, asks, sends, again, connects>>

-----------------------------------------------------------------------------
WorkerNext(w) == \E m \in Msg : Take(w, m) \/ CheckMessage(w, m)
                                \/ SendRequest(w, m) \/ SaveStatus(w, m)

EditNext(m) == AcquireRetryLock(m) \/ MediaRetryToMatrix(m)

Next ==
  /\ UNCHANGED method
  /\ \/ \E w \in Worker : WorkerNext(w) \/ CompletePage(w)
     \/ \E m \in Msg, w \in Worker : ProcessFailedMedia(m, w)
     \/ \E m \in Msg : LiveMessage(m) \/ AnswerError(m) \/ AnswerPath(m) \/ EditNext(m)
                        \/ Revoke(m)
     \/ \E S \in SUBSET Msg : FetchPage(S)
     \/ Connect \/ Disconnect \/ Night \/ Crash

Spec == Init /\ [][Next]_vars

\* Goroutines run, nights come, and the semaphore serves in order.
FairSpec ==
  /\ Spec /\ WF_vars(Night /\ UNCHANGED method)
  /\ \A w \in Worker : WF_vars(WorkerNext(w) /\ UNCHANGED method)
  /\ \A m \in Msg : /\ WF_vars(MediaRetryToMatrix(m) /\ UNCHANGED method)
                     /\ SF_vars(AcquireRetryLock(m) /\ UNCHANGED method)

-----------------------------------------------------------------------------
\* Every variable stays within its range.
TypeOK ==
  /\ method \in Methods
  /\ table \in [Msg -> Status \cup {"none"}] /\ shown \in [Msg -> Shown]
  /\ post \subseteq Msg /\ page \subseteq Msg /\ redo \subseteq Msg /\ loop \in {"off", "first", "ticking"}
  /\ work \in [Worker -> [todo : SUBSET Msg, at : SUBSET Msg, status : Status,
                          pc : {"next", "check", "send", "save"},
                          fresh : BOOLEAN, open : BOOLEAN]]
  /\ asks \in [Msg -> Nat] /\ edit \in [Msg -> {"idle", "waiting", "downloading"}]
  /\ sends \in [Msg -> Nat]
  /\ lost \cup unsaved \cup again \subseteq Msg
  /\ connects \in Nat /\ troubles \in Nat

\* A message shown as old has a request, saved or on its way to be saved,
\* unless a crash or a failing save lost it: the goroutine of a page saves
\* every request, whatever happens to the others.
NothingForgotten ==
  \A m \in InRoom : table[m] # "none" \/ m \in post \cup page \cup lost
    \/ \E w \in Worker : work[w].fresh /\ m \in work[w].todo

\* The phone is asked once for a message, in spite of reconnects and of the
\* three ways to send a request, unless the outcome could not be saved or the
\* message was converted again.
RequestedOnce == \A m \in Msg : sends[m] > 1 => m \in unsaved \cup again

\* Media that arrived in the room is not replaced by an error, unless the
\* phone was asked twice.
MediaStays ==
  [][\A m \in Msg : shown[m] = "media" /\ shown'[m] = "notice" => sends[m] > 1]_vars

\* A saved request is sent some night, if the bridge stays connected.
NightlyRequests ==
  \A m \in Msg : (m \in Pending /\ loop # "off") ~> (m \notin Pending \/ loop = "off")

\* Every answer with a path gets its turn: failing downloads release the lock.
AnswersHandled == \A m \in Msg : edit[m] = "waiting" ~> edit[m] = "idle"
=============================================================================
