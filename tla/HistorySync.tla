----------------------------- MODULE HistorySync -----------------------------
(***************************************************************************)
(* The history sync loops of one WhatsApp login (connector/backfill.go).   *)
(*                                                                         *)
(* WhatsApp delivers the chat history of a fresh login in several payloads *)
(* while the bridge is already running.  Three goroutines share the work:  *)
(*                                                                         *)
(*  - the event handler announces a payload.  With manual downloads it     *)
(*    stores a notification row and drops a token in a channel of capacity *)
(*    one; otherwise it sends the downloaded payload over a channel;       *)
(*  - the main loop downloads payloads, stores their conversations and     *)
(*    messages, and stops and restarts the dispatch timer around each one; *)
(*  - the portal loop waits for the timer and asks the bridge to create a  *)
(*    portal for every conversation that has none yet.  A WaitGroup per    *)
(*    round counts those requests; when it reaches zero the login's        *)
(*    "portals-need-creating" flag is cleared.                             *)
(*                                                                         *)
(* Time is abstracted: an armed timer may expire at any moment.  Message   *)
(* contents and timestamps are abstracted to one batch of messages per     *)
(* payload and conversation; Backfill.tla models what happens to a batch.  *)
(***************************************************************************)
EXTENDS Integers, Sequences, FiniteSets

CONSTANTS
  Chat,           \* conversation JIDs after LID rerouting and parsing
  Payload,        \* history sync payloads WhatsApp has for this login
  ConvsOf,        \* ConvsOf[p]: conversations of p with a storable message
  Ignored,        \* payloads of an ignored type (status, push names, ...)
  Resetting,      \* payloads of type RECENT or FULL
  Unbridged,      \* status broadcast (when disabled) and PSA chats
  Round,          \* identities of portal creation rounds (WaitGroups)
  None,           \* "no-payload", "no-round"
  ManualDownload, \* whatsmeow's ManualHistorySyncDownload
  QueueReadFails, \* may reading the notification queue fail?
  Limit,          \* max_initial_conversations, negative for no limit
  InboxCap,       \* capacity of the historySyncs channel (64 in the code)
  MaxRateLimits,  \* bound: rate limit errors in one round
  MaxFaults,      \* bound: failing calls
  MaxStops        \* bound: process crashes and times the loops are stopped

ASSUME HistorySyncAssumption ==
  /\ ConvsOf \in [Payload -> SUBSET Chat]
  /\ Ignored \subseteq Payload
  /\ Resetting \subseteq Payload \ Ignored
  /\ Unbridged \subseteq Chat
  /\ None \notin Payload \cup Round
  /\ ManualDownload \in BOOLEAN /\ QueueReadFails \in BOOLEAN
  /\ Limit \in Int /\ InboxCap \in Nat
  /\ MaxRateLimits \in Nat /\ MaxFaults \in Nat
  /\ MaxStops \in Nat

VARIABLES
  \* Database.
  conv,         \* conversation rows: "none", "unsynced" or "synced"
  rows,         \* message rows: payload/conversation pairs
  notifs,       \* queued notification rows
  needSaved,    \* HistorySyncPortalsNeedCreating as last saved
  \* Login object.
  needCreating, \* HistorySyncPortalsNeedCreating in memory
  newLogin,     \* isNewLogin
  \* Event handler and channels.
  unacked,      \* payloads WhatsApp has yet to announce
  saving,       \* a notification row is stored, its token not yet sent
  wakeup,       \* is there a token in historySyncWakeup?
  inbox,        \* contents of historySyncs
  \* Main loop.
  main,         \* its program counter
  job,          \* payload in hand
  todo,         \* conversations of the payload still to be stored
  reset,        \* resetTimer
  timer,        \* is dispatchTimer armed?
  timerPending,
  \* A main loop whose context was cancelled while it was busy.
  linger,
  \* Portal loop and rounds.
  creator,      \* its program counter
  current,      \* its round
  batch,        \* conversations of that round not yet taken
  rateLimits,   \* rateLimitErrors
  phase,        \* of each round: free, looping, waiting or orphaned
  left,         \* conversations each round's WaitGroup still counts
  resyncs,      \* queued ChatResync events: round/conversation pairs
  \* History variables, read by properties only.
  owed,         \* stored by a resetting payload, no round started since
  missed,       \* a token was consumed by a failed read of the queue
  \* Bounds.
  faults, stops

dbVars      == <<conv, rows, notifs>>
loginVars   == <<needSaved, needCreating, newLogin>>
handlerVars == <<unacked, saving, inbox>>
wakeVars    == <<wakeup, missed>>
mainVars    == <<main, job, todo, reset>>
timerVars   == <<timer, timerPending>>
creatorVars == <<creator, current, batch, rateLimits>>
roundVars   == <<phase, left, resyncs>>
bounds      == <<faults, stops>>
vars == <<dbVars, loginVars, handlerVars, wakeVars, mainVars, timerVars,
          linger, creatorVars, roundVars, owed, bounds>>

Alive   == main # "down"                  \* the bridge process is running
Running == main \notin {"down", "stopped"} \* ... and so are the loops

Fault == faults < MaxFaults /\ faults' = faults + 1

-----------------------------------------------------------------------------
(* Starting and stopping.                                                  *)

Init ==
  /\ conv = [c \in Chat |-> "none"] /\ rows = {} /\ notifs = {}
  /\ needSaved = TRUE /\ needCreating = TRUE /\ newLogin = TRUE
  /\ unacked = Payload /\ saving = FALSE /\ inbox = <<>>
  /\ wakeup = ManualDownload /\ missed = FALSE
  /\ main = "select" /\ job = None /\ todo = {} /\ reset = FALSE
  /\ timer = FALSE /\ timerPending = FALSE /\ linger = "gone"
  /\ creator = "idle" /\ current = None /\ batch = {} /\ rateLimits = 0
  /\ phase = [r \in Round |-> "free"] /\ left = [r \in Round |-> {}]
  /\ resyncs = {} /\ owed = {}
  /\ faults = 0 /\ stops = 0

\* What historySyncLoop does before it enters its select statements.
EnterLoops(isNew, need) ==
  /\ main' = "select" /\ job' = None /\ todo' = {} /\ reset' = FALSE
  /\ timer' = (~isNew /\ need) /\ timerPending' = (~isNew /\ need)
  /\ creator' = "idle" /\ current' = None /\ batch' = {} /\ rateLimits' = 0
  /\ owed' = {}

\* Connect again in the same process: isNewLogin keeps its value.
StartLoops ==
  /\ main = "stopped"
  /\ EnterLoops(newLogin, needCreating)
  /\ wakeup' = (wakeup \/ ManualDownload)
  /\ missed' = (missed /\ ~ManualDownload)
  /\ UNCHANGED <<dbVars, loginVars, handlerVars, linger, roundVars, bounds>>

\* The portal loop sees its context cancelled.  Normally it abandons its
\* round; when it was busy with the last conversation it still spawns the
\* goroutine that waits for the round, with the cancelled context.
OrphanRounds == [r \in Round |-> IF phase[r] = "waiting" THEN "orphaned"
                                                        ELSE phase[r]]

AbandonCurrent ==
  /\ phase' = [r \in Round |-> IF r = current THEN "free" ELSE OrphanRounds[r]]
  /\ left' = [r \in Round |-> IF r = current THEN {} ELSE left[r]]

OrphanCurrent ==
  /\ creator = "looping"
  /\ \A c, d \in batch : c = d
  /\ phase' = [r \in Round |-> IF r = current THEN "orphaned" ELSE OrphanRounds[r]]
  /\ left' = [r \in Round |-> IF r = current THEN left[r] \ batch ELSE left[r]]

StopLoops ==
  /\ Running /\ linger = "gone"
  /\ stops < MaxStops /\ stops' = stops + 1
  /\ main' = "stopped" /\ job' = None /\ todo' = {} /\ reset' = FALSE
  /\ linger' = CASE main = "select"   -> "gone"
                 [] main = "download" -> "downloading"
                 [] OTHER             -> "handling"
  /\ timer' = FALSE /\ timerPending' = FALSE
  /\ creator' = "idle" /\ current' = None /\ batch' = {} /\ rateLimits' = 0
  /\ AbandonCurrent \/ OrphanCurrent
  /\ owed' = {}
  /\ UNCHANGED <<dbVars, loginVars, handlerVars, wakeVars, resyncs, faults>>

Crash ==
  /\ Alive /\ stops < MaxStops /\ stops' = stops + 1
  /\ main' = "down" /\ job' = None /\ todo' = {} /\ reset' = FALSE
  /\ saving' = FALSE /\ wakeup' = FALSE /\ missed' = FALSE /\ inbox' = <<>>
  /\ timer' = FALSE /\ timerPending' = FALSE /\ linger' = "gone"
  /\ creator' = "idle" /\ current' = None /\ batch' = {} /\ rateLimits' = 0
  /\ phase' = [r \in Round |-> "free"] /\ left' = [r \in Round |-> {}]
  /\ resyncs' = {} /\ owed' = {}
  /\ UNCHANGED <<dbVars, loginVars, unacked, faults>>

\* A new process loads the login from the database and connects it.
Restart ==
  /\ main = "down"
  /\ needCreating' = needSaved /\ newLogin' = FALSE
  /\ EnterLoops(FALSE, needSaved)
  /\ wakeup' = ManualDownload
  /\ UNCHANGED <<dbVars, needSaved, handlerVars, missed, linger, roundVars, bounds>>

-----------------------------------------------------------------------------
(* The event handler.                                                      *)

\* saveWAHistorySyncNotification, up to the insert.  A failed insert is only
\* logged and the message acknowledged; the message comes again when the
\* connection drops before the acknowledgement.
Announce(p) ==
  /\ ManualDownload /\ Alive /\ ~saving /\ p \in unacked \ notifs
  /\ \/ /\ notifs' = notifs \cup {p} /\ saving' = TRUE
        /\ \/ unacked' = unacked \ {p} /\ UNCHANGED faults
           \/ Fault /\ UNCHANGED unacked
     \/ Fault /\ unacked' = unacked \ {p} /\ UNCHANGED <<notifs, saving>>
  /\ UNCHANGED <<conv, rows, loginVars, inbox, wakeVars, mainVars, timerVars,
                 linger, creatorVars, roundVars, owed, stops>>

\* Mutant: a channel without a buffer drops the token while the loop is busy.
SendWakeupUnbuffered ==
  /\ saving /\ saving' = FALSE
  /\ wakeup' = (wakeup \/ main = "select") /\ UNCHANGED missed
  /\ UNCHANGED <<dbVars, loginVars, unacked, inbox, mainVars, timerVars,
                 linger, creatorVars, roundVars, owed, bounds>>

\* Its non-blocking send of the token.
SendWakeup ==
  /\ saving /\ saving' = FALSE
  /\ wakeup' = TRUE /\ missed' = FALSE
  /\ UNCHANGED <<dbVars, loginVars, unacked, inbox, mainVars, timerVars,
                 linger, creatorVars, roundVars, owed, bounds>>

\* events.HistorySync: a blocking send of the downloaded payload.
Deliver(p) ==
  /\ ~ManualDownload /\ Alive /\ p \in unacked /\ Len(inbox) < InboxCap
  /\ inbox' = Append(inbox, p) /\ unacked' = unacked \ {p}
  /\ UNCHANGED <<dbVars, loginVars, saving, wakeVars, mainVars, timerVars,
                 linger, creatorVars, roundVars, owed, bounds>>

-----------------------------------------------------------------------------
(* The main loop.                                                          *)

Storable(p)      == IF p \in Ignored THEN {} ELSE ConvsOf[p]
StoredBy(S)      == [c \in Chat |-> IF c \in S /\ conv[c] = "none"
                                    THEN "unsynced" ELSE conv[c]]
OwedBy(p, S)     == IF p \in Resetting THEN S ELSE {}

TakeWakeup ==
  /\ main = "select" /\ wakeup
  /\ wakeup' = FALSE /\ timer' = FALSE /\ main' = "query"
  /\ UNCHANGED <<dbVars, loginVars, handlerVars, missed, job, todo, reset,
                 timerPending, linger, creatorVars, roundVars, owed, bounds>>

QueryQueue ==
  /\ main = "query"
  /\ \/ \E p \in notifs : job' = p /\ main' = "download" /\ UNCHANGED <<missed, faults>>
     \/ notifs = {} /\ main' = "rearm" /\ UNCHANGED <<job, missed, faults>>
     \/ QueueReadFails /\ Fault /\ missed' = ~wakeup /\ main' = "rearm" /\ UNCHANGED job
  /\ UNCHANGED <<dbVars, loginVars, handlerVars, wakeup, todo, reset, timerVars,
                 linger, creatorVars, roundVars, owed, stops>>

\* Mutant: the loop wakes itself only after a success.
StoreTxnWakesOnSuccess ==
  /\ main = "download" /\ main' = "settle"
  /\ \/ /\ conv' = StoredBy(Storable(job))
        /\ rows' = rows \cup ({job} \X Storable(job))
        /\ notifs' = notifs \ {job}
        /\ owed' = owed \cup OwedBy(job, Storable(job))
        /\ reset' = (job \in Resetting) /\ UNCHANGED faults
        /\ wakeup' = TRUE /\ missed' = FALSE
     \/ Fault /\ reset' = FALSE /\ UNCHANGED <<conv, rows, notifs, owed, wakeVars>>
  /\ UNCHANGED <<loginVars, handlerVars, job, todo, timerVars, linger,
                 creatorVars, roundVars, stops>>

\* Mutant: the notification is deleted outside of the transaction.
StoreTxnDeletesFirst ==
  /\ main = "download" /\ main' = "settle"
  /\ notifs' = notifs \ {job}
  /\ \/ /\ conv' = StoredBy(Storable(job))
        /\ rows' = rows \cup ({job} \X Storable(job))
        /\ owed' = owed \cup OwedBy(job, Storable(job))
        /\ reset' = (job \in Resetting) /\ UNCHANGED faults
     \/ Fault /\ reset' = FALSE /\ UNCHANGED <<conv, rows, owed>>
  /\ wakeup' = TRUE /\ missed' = FALSE
  /\ UNCHANGED <<loginVars, handlerVars, job, todo, timerVars, linger,
                 creatorVars, roundVars, stops>>

\* downloadAndSaveWAHistorySyncData: one transaction stores the payload and
\* deletes its notification.  Whatever happened, the loop wakes itself again.
StoreTxn ==
  /\ main = "download"
  /\ \/ /\ conv' = StoredBy(Storable(job))
        /\ rows' = rows \cup ({job} \X Storable(job))
        /\ notifs' = notifs \ {job}
        /\ owed' = owed \cup OwedBy(job, Storable(job))
        /\ reset' = (job \in Resetting) /\ UNCHANGED faults
     \/ \* The download or a statement fails, or the commit after the timer
        \* decision was already made.
        /\ Fault
           /\ \/ reset' = FALSE
              \/ reset' = (job \in Resetting)
        /\ UNCHANGED <<conv, rows, notifs, owed>>
  /\ wakeup' = TRUE /\ missed' = FALSE
  /\ main' = "settle"
  /\ UNCHANGED <<loginVars, handlerVars, job, todo, timerVars, linger,
                 creatorVars, roundVars, stops>>

TakePayload ==
  /\ main = "select" /\ inbox # <<>>
  /\ job' = Head(inbox) /\ inbox' = Tail(inbox) /\ timer' = FALSE
  /\ todo' = Storable(Head(inbox)) /\ main' = "storing"
  /\ UNCHANGED <<dbVars, loginVars, unacked, saving, wakeVars, reset,
                 timerPending, linger, creatorVars, roundVars, owed, bounds>>

\* Without a transaction every conversation is stored on its own, and one
\* that cannot be stored (or whose messages cannot) is skipped.
StoreConv(c) ==
  /\ main = "storing" /\ c \in todo
  /\ todo' = todo \ {c}
  /\ \/ /\ conv' = StoredBy({c})
        /\ \/ rows' = rows \cup {<<job, c>>} /\ UNCHANGED faults
           \/ Fault /\ UNCHANGED rows
        /\ owed' = owed \cup OwedBy(job, {c})
     \/ Fault /\ UNCHANGED <<conv, rows, owed>>
  /\ UNCHANGED <<notifs, loginVars, handlerVars, wakeVars, main, job, reset,
                 timerVars, linger, creatorVars, roundVars, stops>>

\* Mutant: resetTimer is not returned after the last conversation.
StoreDoneQuietly ==
  /\ main = "storing" /\ todo = {}
  /\ reset' = FALSE /\ main' = "settle"
  /\ UNCHANGED <<dbVars, loginVars, handlerVars, wakeVars, job, todo, timerVars,
                 linger, creatorVars, roundVars, owed, bounds>>

StoreDone ==
  /\ main = "storing" /\ todo = {}
  /\ reset' = (job \in Resetting) /\ main' = "settle"
  /\ UNCHANGED <<dbVars, loginVars, handlerVars, wakeVars, job, todo, timerVars,
                 linger, creatorVars, roundVars, owed, bounds>>

\* Mutant: timerPending.Store(resetTimer).
SettleOverwrites ==
  /\ main = "settle"
  /\ timerPending' = reset /\ main' = "rearm"
  /\ reset' = FALSE /\ job' = None
  /\ UNCHANGED <<dbVars, loginVars, handlerVars, wakeVars, todo, timer, linger,
                 creatorVars, roundVars, owed, bounds>>

\* The tail of the loop: if resetTimer, timerPending.Store(true); then
\* timerPending.Load(); then dispatchTimer.Reset.
Settle ==
  /\ main = "settle"
  /\ timerPending' = (timerPending \/ reset) /\ main' = "rearm"
  /\ reset' = FALSE /\ job' = None
  /\ UNCHANGED <<dbVars, loginVars, handlerVars, wakeVars, todo, timer, linger,
                 creatorVars, roundVars, owed, bounds>>

LoadPending ==
  /\ main = "rearm"
  /\ main' = IF timerPending THEN "reset" ELSE "select"
  /\ UNCHANGED <<dbVars, loginVars, handlerVars, wakeVars, job, todo, reset,
                 timerVars, linger, creatorVars, roundVars, owed, bounds>>

\* Mutant: no dispatch is scheduled while a round is running.
ResetTimerWhenIdle ==
  /\ main = "reset"
  /\ timer' = (creator = "idle") /\ main' = "select"
  /\ UNCHANGED <<dbVars, loginVars, handlerVars, wakeVars, job, todo, reset,
                 timerPending, linger, creatorVars, roundVars, owed, bounds>>

ResetTimer ==
  /\ main = "reset"
  /\ timer' = TRUE /\ main' = "select"
  /\ UNCHANGED <<dbVars, loginVars, handlerVars, wakeVars, job, todo, reset,
                 timerPending, linger, creatorVars, roundVars, owed, bounds>>

-----------------------------------------------------------------------------
(* A main loop that was busy when its context was cancelled returns to a   *)
(* select in which ctx.Done() and the channels may all be ready: Go picks  *)
(* any of them.  What it takes is lost, because its database calls fail.   *)

LingerReturn ==
  /\ linger \in {"handling", "downloading"} /\ linger' = "select"
  /\ IF linger = "downloading" THEN wakeup' = TRUE /\ missed' = FALSE
                               ELSE UNCHANGED wakeVars
  /\ UNCHANGED <<dbVars, loginVars, handlerVars, mainVars, timerVars,
                 creatorVars, roundVars, owed, bounds>>

LingerSteal ==
  /\ linger = "select"
  /\ \/ wakeup /\ wakeup' = FALSE /\ missed' = TRUE /\ UNCHANGED inbox
     \/ inbox # <<>> /\ inbox' = Tail(inbox) /\ UNCHANGED wakeVars
  /\ UNCHANGED <<dbVars, loginVars, unacked, saving, mainVars, timerVars, linger,
                 creatorVars, roundVars, owed, bounds>>

LingerExit ==
  /\ linger = "select" /\ linger' = "gone"
  /\ UNCHANGED <<dbVars, loginVars, handlerVars, wakeVars, mainVars, timerVars,
                 creatorVars, roundVars, owed, bounds>>

-----------------------------------------------------------------------------
(* The portal loop.                                                        *)

Tick ==
  /\ Running /\ creator = "idle" /\ timer
  /\ timer' = FALSE /\ creator' = "ticked"
  /\ UNCHANGED <<dbVars, loginVars, handlerVars, wakeVars, mainVars, timerPending,
                 linger, current, batch, rateLimits, roundVars, owed, bounds>>

ClearPending ==
  /\ creator = "ticked"
  /\ timerPending' = FALSE /\ creator' = "query"
  /\ UNCHANGED <<dbVars, loginVars, handlerVars, wakeVars, mainVars, timer,
                 linger, current, batch, rateLimits, roundVars, owed, bounds>>

\* GetRecent: conversations without synced_login_ts, at most Limit of them.
\* Which ones depends on timestamps, which are abstracted.
Recent ==
  LET unsynced == {c \in Chat : conv[c] = "unsynced"}
  IN  IF Limit < 0 THEN {unsynced}
      ELSE {S \in SUBSET unsynced :
              \/ S = unsynced /\ Cardinality(S) <= Limit
              \/ Cardinality(S) = Limit}

Idle == creator' = "idle" /\ current' = None /\ batch' = {} /\ rateLimits' = 0

StartRound(r) ==
  /\ creator = "query"
  /\ phase[r] = "free" /\ \A e \in resyncs : e[1] # r
  /\ \E S \in Recent : batch' = S /\ left' = [left EXCEPT ![r] = S]
  /\ phase' = [phase EXCEPT ![r] = "looping"]
  /\ creator' = "looping" /\ current' = r /\ owed' = {}
  /\ UNCHANGED <<dbVars, loginVars, handlerVars, wakeVars, mainVars, timerVars,
                 linger, rateLimits, resyncs, bounds>>

\* GetRecent fails: the round ends before it began.
QueryFails ==
  /\ creator = "query" /\ Fault
  /\ Idle /\ owed' = {}
  /\ UNCHANGED <<dbVars, loginVars, handlerVars, wakeVars, mainVars, timerVars,
                 linger, roundVars, stops>>

WgDone(r, c) == left' = [left EXCEPT ![r] = @ \ {c}]

\* A chat that is never bridged, or whose info cannot be fetched: wg.Done().
SkipChat(c) ==
  /\ creator = "looping" /\ c \in batch
  /\ \/ c \in Unbridged /\ UNCHANGED faults
     \/ c \notin Unbridged /\ Fault
  /\ batch' = batch \ {c} /\ WgDone(current, c)
  /\ UNCHANGED <<dbVars, loginVars, handlerVars, wakeVars, mainVars, timerVars,
                 linger, creator, current, rateLimits, phase, resyncs, owed,
                 stops>>

\* ErrNotInGroup: the conversation is deleted, its messages with it.
DropChat(c) ==
  /\ creator = "looping" /\ c \in batch \ Unbridged
  /\ Fault
  /\ conv' = [conv EXCEPT ![c] = "none"]
  /\ rows' = {x \in rows : x[2] # c}
  /\ batch' = batch \ {c} /\ WgDone(current, c)
  /\ UNCHANGED <<notifs, loginVars, handlerVars, wakeVars, mainVars, timerVars,
                 linger, creator, current, rateLimits, phase, resyncs, owed,
                 stops>>

\* ErrIQRateOverLimit: sleep and try the same chat again.
RateLimited(c) ==
  /\ creator = "looping" /\ c \in batch \ Unbridged
  /\ rateLimits < MaxRateLimits /\ rateLimits' = rateLimits + 1
  /\ UNCHANGED <<dbVars, loginVars, handlerVars, wakeVars, mainVars, timerVars,
                 linger, creator, current, batch, roundVars, owed, bounds>>

\* Mutant: wg.Done() right after the event was queued.
QueueResyncDone(c) ==
  /\ creator = "looping" /\ c \in batch \ Unbridged
  /\ resyncs' = resyncs \cup {<<current, c>>} /\ batch' = batch \ {c}
  /\ WgDone(current, c)
  /\ UNCHANGED <<dbVars, loginVars, handlerVars, wakeVars, mainVars, timerVars,
                 linger, creator, current, rateLimits, phase, owed, bounds>>

QueueResync(c) ==
  /\ creator = "looping" /\ c \in batch \ Unbridged
  /\ resyncs' = resyncs \cup {<<current, c>>} /\ batch' = batch \ {c}
  /\ UNCHANGED <<dbVars, loginVars, handlerVars, wakeVars, mainVars, timerVars,
                 linger, creator, current, rateLimits, phase, left, owed, bounds>>

\* The client went away or the event was refused: the round is abandoned and
\* nobody waits for it.
AbortRound ==
  /\ creator = "looping" /\ batch # {} /\ Fault
  /\ phase' = [phase EXCEPT ![current] = "free"]
  /\ left' = [left EXCEPT ![current] = {}]
  /\ Idle
  /\ UNCHANGED <<dbVars, loginVars, handlerVars, wakeVars, mainVars, timerVars,
                 linger, resyncs, owed, stops>>

FinishRound ==
  /\ creator = "looping" /\ batch = {}
  /\ phase' = [phase EXCEPT ![current] = "waiting"]
  /\ Idle
  /\ UNCHANGED <<dbVars, loginVars, handlerVars, wakeVars, mainVars, timerVars,
                 linger, left, resyncs, owed, bounds>>

-----------------------------------------------------------------------------
(* Outside the loops.                                                      *)

\* The bridge handled a ChatResync: PostHandleFunc marks the conversation
\* synced and counts the WaitGroup down.  A conversation deleted in the
\* meantime stays deleted.
HandleResync(r, c) ==
  /\ <<r, c>> \in resyncs /\ resyncs' = resyncs \ {<<r, c>>}
  /\ \/ conv' = [conv EXCEPT ![c] = IF @ = "none" THEN "none" ELSE "synced"]
        /\ UNCHANGED faults
     \/ Fault /\ UNCHANGED conv
  /\ WgDone(r, c)
  /\ UNCHANGED <<rows, notifs, loginVars, handlerVars, wakeVars, mainVars,
                 timerVars, linger, creatorVars, phase, owed, stops>>

\* The room could not be created: the bridge drops the event and never calls
\* PostHandleFunc.
LoseResync(r, c) ==
  /\ <<r, c>> \in resyncs /\ resyncs' = resyncs \ {<<r, c>>}
  /\ Fault
  /\ UNCHANGED <<dbVars, loginVars, handlerVars, wakeVars, mainVars, timerVars,
                 linger, creatorVars, phase, left, owed, stops>>

\* Mutant: the flag is cleared without wg.Wait().
RoundDoneAtOnce(r) ==
  /\ phase[r] \in {"waiting", "orphaned"}
  /\ phase' = [phase EXCEPT ![r] = "free"]
  /\ needCreating' = FALSE /\ needSaved' = FALSE
  /\ UNCHANGED <<dbVars, newLogin, handlerVars, wakeVars, mainVars, timerVars,
                 linger, creatorVars, left, resyncs, owed, bounds>>

\* wg.Wait() returned.  With a cancelled context the save fails.
RoundDone(r) ==
  /\ phase[r] \in {"waiting", "orphaned"} /\ left[r] = {}
  /\ phase' = [phase EXCEPT ![r] = "free"]
  /\ needCreating' = FALSE
  /\ \/ phase[r] = "waiting" /\ needSaved' = FALSE /\ UNCHANGED faults
     \/ phase[r] = "orphaned" /\ UNCHANGED <<needSaved, faults>>
     \/ phase[r] = "waiting" /\ Fault /\ UNCHANGED needSaved
  /\ UNCHANGED <<dbVars, newLogin, handlerVars, wakeVars, mainVars, timerVars,
                 linger, creatorVars, left, resyncs, owed, stops>>

\* Any other save of the login (phoneSeen, the profile sync, ...) writes the
\* flag as it is in memory.
SaveLogin ==
  /\ Alive /\ needSaved' = needCreating
  /\ UNCHANGED <<dbVars, needCreating, newLogin, handlerVars, wakeVars, mainVars,
                 timerVars, linger, creatorVars, roundVars, owed, bounds>>

-----------------------------------------------------------------------------
HandlerNext == \/ \E p \in Payload : Announce(p) \/ Deliver(p)
               \/ SendWakeup

MainNext == \/ TakeWakeup \/ QueryQueue \/ StoreTxn
            \/ TakePayload \/ (\E c \in Chat : StoreConv(c)) \/ StoreDone
            \/ Settle \/ LoadPending \/ ResetTimer

LingerNext == LingerReturn \/ LingerSteal \/ LingerExit

CreatorNext == \/ Tick \/ ClearPending \/ QueryFails
               \/ \E r \in Round : StartRound(r)
               \/ \E c \in Chat : \/ SkipChat(c) \/ DropChat(c)
                                  \/ RateLimited(c) \/ QueueResync(c)
               \/ AbortRound \/ FinishRound

PortalNext == \E r \in Round, c \in Chat : HandleResync(r, c) \/ LoseResync(r, c)

WaiterNext == \E r \in Round : RoundDone(r)

LifecycleNext == StartLoops \/ StopLoops \/ Crash \/ Restart \/ SaveLogin

Next == \/ HandlerNext \/ MainNext \/ LingerNext \/ CreatorNext
        \/ PortalNext \/ WaiterNext \/ LifecycleNext

Spec == Init /\ [][Next]_vars

\* Every goroutine that can run eventually runs, and a process or connection
\* that went down comes back.  WhatsApp owes the bridge nothing.
Fairness ==
  /\ WF_vars(SendWakeup) /\ WF_vars(MainNext) /\ WF_vars(LingerNext)
  /\ WF_vars(CreatorNext) /\ WF_vars(PortalNext) /\ WF_vars(WaiterNext)
  /\ WF_vars(StartLoops) /\ WF_vars(Restart)

FairSpec == Spec /\ Fairness

-----------------------------------------------------------------------------
(* Properties.                                                             *)

TypeTables ==
  /\ conv \in [Chat -> {"none", "unsynced", "synced"}]
  /\ rows \subseteq Payload \X Chat /\ notifs \subseteq Payload
  /\ owed \subseteq Chat
TypeFlags ==
  /\ needSaved \in BOOLEAN /\ needCreating \in BOOLEAN /\ newLogin \in BOOLEAN
  /\ saving \in BOOLEAN /\ wakeup \in BOOLEAN /\ missed \in BOOLEAN
  /\ reset \in BOOLEAN /\ timer \in BOOLEAN /\ timerPending \in BOOLEAN
TypeChannels == unacked \subseteq Payload /\ inbox \in Seq(Payload)
TypeMain ==
  /\ main \in {"down", "stopped", "select", "query", "download", "storing",
               "settle", "rearm", "reset"}
  /\ job \in Payload \cup {None} /\ todo \subseteq Chat
  /\ main \in {"download", "storing"} => job \in Payload
  /\ linger \in {"gone", "handling", "downloading", "select"}
TypeCreator ==
  /\ creator \in {"idle", "ticked", "query", "looping"}
  /\ current \in Round \cup {None} /\ batch \subseteq Chat
  /\ creator = "looping" => current \in Round
  /\ rateLimits \in Nat
TypeRounds ==
  /\ phase \in [Round -> {"free", "looping", "waiting", "orphaned"}]
  /\ left \in [Round -> SUBSET Chat] /\ resyncs \subseteq Round \X Chat
TypeBounds == faults \in Nat /\ stops \in Nat

\* Every variable stays within its range.
TypeOK == /\ TypeTables /\ TypeFlags /\ TypeChannels /\ TypeMain
          /\ TypeCreator /\ TypeRounds /\ TypeBounds

\* The dispatch is never lost: while a conversation stored by a RECENT or
\* FULL payload has not been looked at by a portal creation round, a round is
\* about to read the database, or the main loop still has to note that a
\* dispatch is due, or it is noted and the timer is armed or about to be.
\* Both loops touch the timer and timerPending without a common lock, and
\* every payload stops the timer first.
NoLostDispatch ==
  owed # {} => \/ creator \in {"ticked", "query"}
               \/ main = "storing" /\ job \in Resetting
               \/ main = "settle" /\ reset
               \/ timerPending /\ (timer \/ main # "select")

\* A stored notification is never left without somebody to look at it: the
\* token is in the channel, or about to be sent, or the main loop is at work
\* and will wake itself.  The exception is a token that was consumed by a
\* read of the queue that failed.
QueueNeverSleeps ==
  ManualDownload /\ Running /\ notifs # {} /\ ~missed =>
    wakeup \/ saving \/ main \in {"query", "download"}

\* The WaitGroup of a live round counts every ChatResync event that is still
\* queued and every conversation its loop has not taken yet.
WaitGroupCounts ==
  /\ \A r \in Round, c \in Chat :
       <<r, c>> \in resyncs /\ phase[r] # "free" => c \in left[r]
  /\ creator = "looping" => batch \subseteq left[current]

\* The flag that makes a restarted bridge create portals is cleared only by a
\* round that is over and of which no ChatResync event is still queued.
FlagOutlivesRound ==
  [][needCreating /\ ~needCreating' =>
       \E r \in Round : /\ phase[r] \in {"waiting", "orphaned"}
                        /\ \A c \in Chat : <<r, c>> \notin resyncs]_vars

\* With queued notifications the tables behave as HistoryImport says: the
\* deletion of a notification and the import of its payload are one step.
Import == INSTANCE HistoryImport WITH Stored <- [p \in Payload |-> Storable(p)]
ImportsAtomically == Import!Spec

\* A conversation whose dispatch is owed is looked at eventually: neither a
\* burst of payloads nor a slow round keeps the portal loop away from it.
DispatchHappens == \A c \in Chat : c \in owed ~> c \notin owed

\* The loop keeps waking itself until all queued notifications are processed
\* (the comment at backfill.go:80).
QueueDrains == notifs # {} ~> notifs = {}
=============================================================================
