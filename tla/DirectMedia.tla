----------------------------- MODULE DirectMedia -----------------------------
(***************************************************************************)
(* Downloading the media of one message on demand (directmedia.go): the    *)
(* download callback of the media proxy, the retry state shared by all     *)
(* readers of a message, and the portal's event loop that receives the     *)
(* phone's answer.                                                         *)
(*                                                                         *)
(* A reader copies the media keys from the message when the request comes  *)
(* in and downloads later.  If the servers no longer have the media, the   *)
(* first reader asks the phone for a new upload, every reader waits for    *)
(* the answer with a time limit, and downloads once more from the new      *)
(* path.  The answer also updates the message in the database.             *)
(***************************************************************************)
EXTENDS Integers, FiniteSets

CONSTANTS
  Reader,        \* concurrent media requests for the message
  Path,          \* direct paths on the servers
  NoPath,        \* the empty direct path
  AutoRequest,          \* direct_media_auto_request, or reload_media=true
  EventLoop, Nobody,
  MaxTroubles    \* bound: restarts, redelivered answers, failing sends and updates

ASSUME DirectMediaAssumption ==
  /\ NoPath \notin Path /\ AutoRequest \in BOOLEAN
  /\ EventLoop \notin Reader /\ Nobody \notin Reader \cup {EventLoop}
  /\ MaxTroubles \in Nat

VARIABLES
  meta,       \* DirectPath in the message's DirectMediaMeta
  valid,      \* paths the servers can serve
  \* directMediaRetries[msgID]
  entry, lock, requested, wait, resultURL, resultType,
  \* readers
  pc, keys,
  \* the event loop and the answer it handles; found: had it a retry state?
  epc, answer, found,
  \* the phone: open requests, answers under way
  asks, mail,
  \* history of this process: requests sent, a failed update
  sends, unsaved,
  troubles

message == <<meta, valid>>
state   == <<entry, lock, requested, wait, resultURL, resultType>>
reader  == <<pc, keys>>
loop    == <<epc, answer, found>>
phone   == <<asks, mail>>
history == <<sends, unsaved>>
bounds  == <<troubles>>
vars    == <<message, state, reader, loop, phone, history, bounds>>

Result == {"success", "not_found", "general_error"}

Garbled == [result |-> "general_error", path |-> NoPath, readable |-> FALSE]

\* What the phone can send: a new path, an error that may carry a path all
\* the same, or a notification that cannot be decrypted.
Answer ==
  [result : Result, path : Path, readable : {TRUE}]
  \cup [result : Result \ {"success"}, path : {NoPath}, readable : {TRUE}]
  \cup {Garbled}

Outcome == {"ok", "reload", "unsent", "refused", "timeout", "gone"}
Stage   == {"idle", "opened", "expired", "locking", "sending", "waiting",
            "retrying"} \cup Outcome

Init ==
  /\ meta \in Path \cup {NoPath} /\ valid \in SUBSET ({meta} \ {NoPath})
  /\ entry = FALSE /\ lock = Nobody /\ requested = FALSE /\ wait = FALSE
  /\ resultURL = NoPath /\ resultType = "general_error"
  /\ pc = [r \in Reader |-> "idle"] /\ keys = [r \in Reader |-> NoPath]
  /\ epc = "idle" /\ answer = Garbled /\ found = FALSE
  /\ asks = 0 /\ mail = {}
  /\ sends = 0 /\ unsaved = FALSE
  /\ troubles = 0

Trouble == troubles < MaxTroubles /\ troubles' = troubles + 1

-----------------------------------------------------------------------------
\* Readers.

Goto(r, stage) == pc' = [pc EXCEPT ![r] = stage]

\* downloadMessageDirectMedia parses the message's media keys ...
Open(r) ==
  /\ pc[r] = "idle" /\ Goto(r, "opened")
  /\ keys' = [keys EXCEPT ![r] = meta]
  /\ UNCHANGED <<message, state, loop, phone, sends, unsaved, bounds>>

\* ... and the callback downloads with them.
Download(r) ==
  /\ pc[r] = "opened"
  /\ Goto(r, IF keys[r] \in valid THEN "ok" ELSE IF AutoRequest THEN "expired" ELSE "reload")
  /\ UNCHANGED <<message, state, keys, loop, phone, history, bounds>>

\* getDirectMediaRetryState(create)
FindState(r) ==
  /\ pc[r] = "expired" /\ Goto(r, "locking") /\ entry' = TRUE
  /\ UNCHANGED <<message, lock, requested, wait, resultURL, resultType, keys,
                 loop, phone, history, bounds>>

\* Mutant: the retry state is read without its lock.
JoinUnlocked(r) ==
  /\ pc[r] = "locking"
  /\ IF requested
     THEN Goto(r, "waiting") /\ UNCHANGED lock
     ELSE Goto(r, "sending") /\ lock' = r
  /\ UNCHANGED <<message, entry, requested, wait, resultURL, resultType, keys,
                 loop, phone, sends, unsaved, bounds>>

\* requestDirectMedia asks the phone unless that has been done.
Join(r) ==
  /\ pc[r] = "locking" /\ lock = Nobody
  /\ IF requested
     THEN Goto(r, "waiting") /\ UNCHANGED lock
     ELSE Goto(r, "sending") /\ lock' = r
  /\ UNCHANGED <<message, entry, requested, wait, resultURL, resultType, keys,
                 loop, phone, sends, unsaved, bounds>>

Send(r) ==
  /\ pc[r] = "sending" /\ Goto(r, "waiting")
  /\ requested' = TRUE /\ lock' = Nobody
  /\ asks' = asks + 1 /\ sends' = sends + 1
  /\ UNCHANGED <<message, entry, wait, resultURL, resultType, keys, loop, mail,
                 unsaved, bounds>>

\* Mutant: a failing send keeps the lock.
SendFailsLocked(r) ==
  /\ pc[r] = "sending" /\ Goto(r, "unsent") /\ UNCHANGED lock
  /\ Trouble
  /\ UNCHANGED <<message, entry, requested, wait, resultURL, resultType, keys,
                 loop, phone, history>>

SendFails(r) ==
  /\ pc[r] = "sending" /\ Goto(r, "unsent") /\ lock' = Nobody
  /\ Trouble
  /\ UNCHANGED <<message, entry, requested, wait, resultURL, resultType, keys,
                 loop, phone, history>>

\* requestAndWaitDirectMedia: the answer is read without the lock.
Awake(r) ==
  /\ pc[r] = "waiting" /\ wait
  /\ IF resultURL # NoPath
     THEN Goto(r, "retrying") /\ keys' = [keys EXCEPT ![r] = resultURL]
     ELSE Goto(r, "refused") /\ UNCHANGED keys
  /\ UNCHANGED <<message, state, loop, phone, history, bounds>>

\* Thirty seconds pass, or the client goes away.
GiveUp(r) ==
  /\ pc[r] = "waiting" /\ Goto(r, "timeout")
  /\ UNCHANGED <<message, state, keys, loop, phone, history, bounds>>

DownloadAgain(r) ==
  /\ pc[r] = "retrying" /\ Goto(r, IF keys[r] \in valid THEN "ok" ELSE "gone")
  /\ UNCHANGED <<message, state, keys, loop, phone, history, bounds>>

Close(r) ==
  /\ pc[r] \in Outcome /\ Goto(r, "idle")
  /\ keys' = [keys EXCEPT ![r] = NoPath]
  /\ UNCHANGED <<message, state, loop, phone, sends, unsaved, bounds>>

-----------------------------------------------------------------------------
\* The portal's event loop handles one retry notification at a time.

\* ConvertEdit calls receiveDirectMediaRetry, which looks for a retry state.
Receive(a) ==
  /\ epc = "idle" /\ a \in mail
  /\ answer' = a /\ found' = entry
  /\ epc' = IF entry THEN "locking" ELSE "handling"
  /\ \/ mail' = mail \ {a} /\ UNCHANGED troubles
     \/ /\ Trouble
        /\ UNCHANGED mail
  /\ UNCHANGED <<message, state, reader, asks, history>>

LockState ==
  /\ epc = "locking" /\ lock = Nobody
  /\ lock' = EventLoop /\ epc' = "handling"
  /\ UNCHANGED <<message, entry, requested, wait, resultURL, resultType,
                 reader, answer, found, phone, history, bounds>>

\* Mutant: only a path that comes with a success is saved.
SaveSuccessPath ==
  /\ epc = "handling"
  /\ resultType' = IF found /\ answer.readable THEN answer.result ELSE resultType
  /\ IF answer.readable /\ answer.path # NoPath
     THEN /\ epc' = "saved" /\ UNCHANGED <<unsaved, troubles>>
          /\ meta' = IF answer.result = "success" THEN answer.path ELSE meta
     ELSE epc' = "done" /\ UNCHANGED <<meta, unsaved, troubles>>
  /\ UNCHANGED <<valid, entry, lock, requested, wait, resultURL, reader,
                 answer, found, phone, sends>>

\* The notification is decrypted, and a new path is saved in the message.
SavePath ==
  /\ epc = "handling"
  /\ resultType' = IF found /\ answer.readable THEN answer.result ELSE resultType
  /\ IF answer.readable /\ answer.path # NoPath
     THEN /\ epc' = "saved"
          /\ \/ meta' = answer.path /\ unsaved' = FALSE /\ UNCHANGED troubles
             \/ /\ Trouble
                /\ unsaved' = TRUE /\ UNCHANGED meta
     ELSE epc' = "done" /\ UNCHANGED <<meta, unsaved, troubles>>
  /\ UNCHANGED <<valid, entry, lock, requested, wait, resultURL, reader,
                 answer, found, phone, sends>>

PublishPath ==
  /\ epc = "saved" /\ epc' = "done"
  /\ resultURL' = IF found THEN answer.path ELSE resultURL
  /\ UNCHANGED <<message, entry, lock, requested, wait, resultType, reader,
                 answer, found, phone, history, bounds>>

\* Mutant: an answer that cannot be decrypted wakes nobody.
WakeReadersOnResult ==
  /\ epc = "done" /\ epc' = "idle"
  /\ IF found THEN wait' = (wait \/ answer.readable) /\ lock' = Nobody
              ELSE UNCHANGED <<wait, lock>>
  /\ UNCHANGED <<message, entry, requested, resultURL, resultType, reader,
                 answer, found, phone, history, bounds>>

\* The deferred function wakes the readers on every way out.
WakeReaders ==
  /\ epc = "done" /\ epc' = "idle"
  /\ IF found THEN wait' = TRUE /\ lock' = Nobody ELSE UNCHANGED <<wait, lock>>
  /\ UNCHANGED <<message, entry, requested, resultURL, resultType, reader,
                 answer, found, phone, history, bounds>>

-----------------------------------------------------------------------------
\* The surroundings.

\* The phone answers a request; a path it sends has just been uploaded.
PhoneAnswers(a) ==
  /\ asks > 0 /\ asks' = asks - 1 /\ mail' = mail \cup {a}
  /\ valid' = valid \cup ({a.path} \ {NoPath})
  /\ UNCHANGED <<meta, state, reader, loop, history, bounds>>

\* The servers delete old media.
Expire(p) ==
  /\ p \in valid /\ valid' = valid \ {p}
  /\ UNCHANGED <<meta, state, reader, loop, phone, history, bounds>>

\* A restart forgets the retry state, the readers and the answer in hand.
Crash ==
  /\ Trouble
  /\ entry' = FALSE /\ lock' = Nobody /\ requested' = FALSE /\ wait' = FALSE
  /\ resultURL' = NoPath /\ resultType' = "general_error"
  /\ pc' = [r \in Reader |-> "idle"] /\ keys' = [r \in Reader |-> NoPath]
  /\ epc' = "idle" /\ found' = FALSE
  /\ sends' = 0 /\ unsaved' = FALSE
  /\ UNCHANGED <<message, answer, phone>>

ReaderNext(r) ==
  \/ Open(r) \/ Download(r) \/ FindState(r) \/ Join(r) \/ Send(r)
  \/ SendFails(r) \/ Awake(r) \/ GiveUp(r) \/ DownloadAgain(r) \/ Close(r)

LoopNext ==
  \/ \E a \in Answer : Receive(a)
  \/ LockState \/ SavePath \/ PublishPath \/ WakeReaders

OuterNext ==
  \/ \E a \in Answer : PhoneAnswers(a)
  \/ \E p \in Path : Expire(p)
  \/ Crash

Next == (\E r \in Reader : ReaderNext(r)) \/ LoopNext \/ OuterNext

Spec == Init /\ [][Next]_vars

\* Goroutines run: a reader and the event loop take the steps they can take.
FairSpec == Spec /\ WF_vars(LoopNext) /\ \A r \in Reader : WF_vars(ReaderNext(r))

-----------------------------------------------------------------------------
TypeMessage == meta \in Path \cup {NoPath} /\ valid \subseteq Path

TypeState ==
  /\ entry \in BOOLEAN /\ requested \in BOOLEAN /\ wait \in BOOLEAN
  /\ lock \in Reader \cup {EventLoop, Nobody}
  /\ resultURL \in Path \cup {NoPath} /\ resultType \in Result

TypeActors ==
  /\ pc \in [Reader -> Stage] /\ keys \in [Reader -> Path \cup {NoPath}]
  /\ epc \in {"idle", "locking", "handling", "saved", "done"}
  /\ answer \in Answer /\ found \in BOOLEAN

TypePhone ==
  /\ asks \in Nat /\ mail \subseteq Answer
  /\ sends \in Nat /\ unsaved \in BOOLEAN
  /\ troubles \in Nat

\* Every variable stays within its range.
TypeOK == TypeMessage /\ TypeState /\ TypeActors /\ TypePhone

\* However many clients open the media at once, a running bridge asks the
\* phone for it only once (requestDirectMedia's lock is held over the send).
OneRequest == sends <= 1

\* No reader waits in vain: while one waits, it is awake, the phone still owes
\* an answer, or an answer is under way to a retry state that will be woken.
\* An answer that cannot be decrypted or carries an error is no exception.
NoLostAnswer ==
  \A r \in Reader : pc[r] = "waiting" =>
    wait \/ asks > 0 \/ mail # {} \/ (epc # "idle" /\ found)

\* The path the waiting readers are given is the one later readers find in the
\* message, unless the update failed or is being published right now: an
\* answer that comes after everybody gave up is not lost.
PublishedIsSaved == resultURL # NoPath => meta = resultURL \/ unsaved \/ epc = "saved"

\* A reader of expired media gets an answer or gives up; nobody is left
\* holding the lock of the retry state, whichever call fails.
ReadersFinish ==
  \A r \in Reader : pc[r] = "expired" ~> pc[r] \in Outcome \cup {"idle"}
=============================================================================
