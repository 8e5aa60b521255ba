-------------------------- MODULE DirectMediaProofs --------------------------
(***************************************************************************)
(* Proofs about DirectMedia for any number of readers and paths, restarts, *)
(* redelivered answers and failing calls.                                  *)
(***************************************************************************)
EXTENDS DirectMedia, TLAPS

USE DEF Goto, Trouble

\* What an answer of the phone consists of.
LEMMA AnswerFields ==
  /\ Garbled \in Answer
  /\ \A a \in Answer : a.path \in Path \cup {NoPath} /\ a.result \in Result
                        /\ a.readable \in BOOLEAN
<1>1. Garbled.path = NoPath /\ Garbled.result = "general_error" /\ Garbled.readable = FALSE
  BY DEF Garbled
<1>2. "general_error" \in Result
  BY DEF Result
<1>3. Garbled \in Answer
  BY Zenon DEF Answer
<1>4. ASSUME NEW a \in Answer
      PROVE  a.path \in Path \cup {NoPath} /\ a.result \in Result
             /\ a.readable \in BOOLEAN
  <2>1. CASE a \in [result : Result, path : Path, readable : {TRUE}]
    BY <2>1
  <2>2. CASE a \in [result : Result \ {"success"}, path : {NoPath}, readable : {TRUE}]
    BY <2>2
  <2>3. CASE a = Garbled
    BY <2>3, <1>1, <1>2
  <2> QED BY <2>1, <2>2, <2>3 DEF Answer
<1> QED BY <1>3, <1>4

THEOREM TypeCorrect == Spec => []TypeOK
<1> USE DirectMediaAssumption DEF TypeOK, TypeMessage, TypeState, TypeActors,
        TypePhone, Stage, Outcome
<1>0. "general_error" \in Result
  BY DEF Result
<1>1. Init => TypeOK
  <2> SUFFICES ASSUME Init PROVE TypeOK
    OBVIOUS
  <2>1. TypeMessage
    BY DEF Init
  <2>2. TypeState
    BY <1>0 DEF Init
  <2>3. TypeActors
    BY AnswerFields DEF Init
  <2>4. TypePhone
    BY DEF Init
  <2> QED BY <2>1, <2>2, <2>3, <2>4
<1>2. TypeOK /\ [Next]_vars => TypeOK'
  <2> SUFFICES ASSUME TypeOK, [Next]_vars PROVE TypeOK'
    OBVIOUS
  <2> USE DEF message, state, reader, loop, phone, history, bounds
  <2>1. ASSUME NEW r \in Reader, ReaderNext(r) PROVE TypeOK'
    <3>1. CASE Open(r)          BY <3>1 DEF Open
    <3>2. CASE Download(r)      BY <3>2 DEF Download
    <3>3. CASE FindState(r)     BY <3>3 DEF FindState
    <3>4. CASE Join(r)          BY <3>4 DEF Join
    <3>5. CASE Send(r)          BY <3>5 DEF Send
    <3>6. CASE SendFails(r)     BY <3>6 DEF SendFails
    <3>7. CASE Awake(r)         BY <3>7 DEF Awake
    <3>8. CASE GiveUp(r)        BY <3>8 DEF GiveUp
    <3>9. CASE DownloadAgain(r) BY <3>9 DEF DownloadAgain
    <3>10. CASE Close(r)        BY <3>10 DEF Close
    <3> QED BY <2>1, <3>1, <3>2, <3>3, <3>4, <3>5, <3>6, <3>7, <3>8, <3>9,
               <3>10 DEF ReaderNext
  <2>2. CASE LoopNext
    <3>1. ASSUME NEW a \in Answer, Receive(a) PROVE TypeOK'
      BY <3>1 DEF Receive
    <3>2. CASE LockState   BY <3>2 DEF LockState
    <3>3. CASE SavePath    
      <4>1. TypePhone'
        <5>1. unsaved' \in BOOLEAN
          BY <3>3 DEF SavePath
        <5>3. troubles' \in Nat
          BY <3>3 DEF SavePath
        <5>2. UNCHANGED <<asks, mail, sends>>
          BY <3>3 DEF SavePath
        <5> QED BY <5>1, <5>2, <5>3
      <4>2. TypeMessage'
        BY <3>3, AnswerFields DEF SavePath
      <4>3. TypeState' /\ TypeActors'
        BY <3>3, AnswerFields DEF SavePath
      <4> QED BY <4>1, <4>2, <4>3
    <3>4. CASE PublishPath BY <3>4, AnswerFields DEF PublishPath
    <3>5. CASE WakeReaders BY <3>5 DEF WakeReaders
    <3> QED BY <2>2, <3>1, <3>2, <3>3, <3>4, <3>5 DEF LoopNext
  <2>3. CASE OuterNext
    <3>1. ASSUME NEW a \in Answer, PhoneAnswers(a) PROVE TypeOK'
      BY <3>1, AnswerFields DEF PhoneAnswers
    <3>2. ASSUME NEW p \in Path, Expire(p) PROVE TypeOK'
      BY <3>2 DEF Expire
    <3>3. CASE Crash
      <4>1. TypeMessage'
        BY <3>3 DEF Crash
      <4>5. troubles' \in Nat /\ sends' \in Nat
        BY <3>3 DEF Crash
      <4>6. asks' \in Nat /\ mail' \subseteq Answer
        BY <3>3 DEF Crash
      <4>7. unsaved' \in BOOLEAN
        BY <3>3 DEF Crash
      <4>2. TypeState'
        BY <3>3, <1>0 DEF Crash
      <4>3. pc' \in [Reader -> Stage] /\ keys' \in [Reader -> Path \cup {NoPath}]
        BY <3>3 DEF Crash, TypeOK
      <4>4. TypeActors'
        BY <3>3, <4>3 DEF Crash
      <4> QED BY <4>1, <4>2, <4>4, <4>5, <4>6, <4>7
    <3> QED BY <2>3, <3>1, <3>2, <3>3 DEF OuterNext
  <2>4. CASE UNCHANGED vars
    BY <2>4 DEF vars
  <2> QED BY <2>1, <2>2, <2>3, <2>4 DEF Next
<1> QED BY <1>1, <1>2, PTL DEF Spec

-----------------------------------------------------------------------------
\* Who holds the lock of the retry state, and that it exists by then.
LockInv ==
  /\ \A r \in Reader : lock = r <=> pc[r] = "sending"
  /\ lock = EventLoop <=> found /\ epc \in {"handling", "saved", "done"}
  /\ epc = "locking" => found

EntryInv ==
  /\ requested \/ resultURL # NoPath \/ (found /\ epc # "idle") => entry
  /\ \A r \in Reader : pc[r] \in {"locking", "sending", "waiting"} => entry

\* The request goes out once, under the lock, before anybody waits.
RequestInv ==
  /\ sends = IF requested THEN 1 ELSE 0
  /\ \A r \in Reader : pc[r] = "sending" => ~requested
  /\ \A r \in Reader : pc[r] = "waiting" => requested

\* What becomes of a request that was sent.
AnswerInv ==
  requested => wait \/ asks > 0 \/ mail # {} \/ (epc # "idle" /\ found)

\* What is known of a path between saving and publishing it.
PathInv ==
  /\ PublishedIsSaved
  /\ epc = "saved" => meta = answer.path \/ unsaved
  /\ epc # "idle" /\ ~found => resultURL = NoPath

MediaInv == TypeOK /\ LockInv /\ EntryInv /\ RequestInv /\ AnswerInv /\ PathInv

LEMMA InitInv == Init => LockInv /\ EntryInv /\ RequestInv /\ AnswerInv /\ PathInv
BY DirectMediaAssumption
   DEF Init, LockInv, EntryInv, RequestInv, AnswerInv, PathInv, PublishedIsSaved

\* Readers take the lock only to send, and let it go when they are done.
LEMMA ReaderStep ==
  ASSUME MediaInv, NEW r \in Reader, ReaderNext(r)
  PROVE  LockInv' /\ EntryInv' /\ RequestInv' /\ AnswerInv' /\ PathInv'
<1> USE DirectMediaAssumption DEF MediaInv, TypeOK, TypeMessage, TypeState,
        TypeActors, TypePhone, LockInv, EntryInv, RequestInv, AnswerInv, PathInv,
        PublishedIsSaved, message, state, reader, loop, phone, history, bounds
<1>1. CASE Open(r)          BY <1>1 DEF Open
<1>2. CASE Download(r)      BY <1>2 DEF Download
<1>3. CASE FindState(r)     BY <1>3 DEF FindState
<1>4. CASE Join(r)          BY <1>4 DEF Join
<1>5. CASE Send(r)          BY <1>5 DEF Send
<1>6. CASE SendFails(r)     BY <1>6 DEF SendFails
<1>7. CASE Awake(r)         BY <1>7 DEF Awake
<1>8. CASE GiveUp(r)        BY <1>8 DEF GiveUp
<1>9. CASE DownloadAgain(r) BY <1>9 DEF DownloadAgain
<1>10. CASE Close(r)        BY <1>10 DEF Close, Outcome
<1> QED BY <1>1, <1>2, <1>3, <1>4, <1>5, <1>6, <1>7, <1>8, <1>9, <1>10
        DEF ReaderNext

LEMMA LoopStep ==
  ASSUME MediaInv, LoopNext
  PROVE  LockInv' /\ EntryInv' /\ RequestInv' /\ AnswerInv' /\ PathInv'
<1> USE DirectMediaAssumption DEF MediaInv, TypeOK, TypeMessage, TypeState,
        TypeActors, TypePhone, LockInv, EntryInv, RequestInv, AnswerInv, PathInv,
        PublishedIsSaved, message, state, reader, loop, phone, history, bounds
<1>1. ASSUME NEW a \in Answer, Receive(a)
      PROVE LockInv' /\ EntryInv' /\ RequestInv' /\ AnswerInv' /\ PathInv'
  BY <1>1 DEF Receive
<1>2. CASE LockState   BY <1>2 DEF LockState
<1>3. CASE SavePath    BY <1>3 DEF SavePath
<1>4. CASE PublishPath BY <1>4 DEF PublishPath
<1>5. CASE WakeReaders BY <1>5 DEF WakeReaders
<1> QED BY <1>1, <1>2, <1>3, <1>4, <1>5, LoopNext DEF LoopNext

LEMMA OuterStep ==
  ASSUME MediaInv, OuterNext
  PROVE  LockInv' /\ EntryInv' /\ RequestInv' /\ AnswerInv' /\ PathInv'
<1> USE DirectMediaAssumption DEF MediaInv, TypeOK, TypeMessage, TypeState,
        TypeActors, TypePhone, LockInv, EntryInv, RequestInv, AnswerInv, PathInv,
        PublishedIsSaved, message, state, reader, loop, phone, history, bounds
<1>1. ASSUME NEW a \in Answer, PhoneAnswers(a)
      PROVE LockInv' /\ EntryInv' /\ RequestInv' /\ AnswerInv' /\ PathInv'
  BY <1>1 DEF PhoneAnswers
<1>2. ASSUME NEW p \in Path, Expire(p)
      PROVE LockInv' /\ EntryInv' /\ RequestInv' /\ AnswerInv' /\ PathInv'
  BY <1>2 DEF Expire
<1>3. CASE Crash BY <1>3 DEF Crash
<1> QED BY <1>1, <1>2, <1>3, OuterNext DEF OuterNext

THEOREM Inductive == Spec => []MediaInv
<1>1. Init => LockInv /\ EntryInv /\ RequestInv /\ AnswerInv /\ PathInv
  BY InitInv
<1>2. MediaInv /\ [Next]_vars
      => LockInv' /\ EntryInv' /\ RequestInv' /\ AnswerInv' /\ PathInv'
  <2> SUFFICES ASSUME MediaInv, [Next]_vars
               PROVE LockInv' /\ EntryInv' /\ RequestInv' /\ AnswerInv' /\ PathInv'
    OBVIOUS
  <2>1. CASE UNCHANGED vars
    BY <2>1 DEF MediaInv, LockInv, EntryInv, RequestInv, AnswerInv, PathInv,
       PublishedIsSaved, vars, message, state, reader, loop, phone, history
  <2> QED BY <2>1, ReaderStep, LoopStep, OuterStep DEF Next
<1> QED BY <1>1, <1>2, TypeCorrect, PTL DEF Spec, MediaInv

\* However many clients open the media, a running bridge asks for it once.
THEOREM RequestsOnce == Spec => []OneRequest
<1>1. MediaInv => OneRequest
  BY DEF MediaInv, RequestInv, OneRequest
<1> QED BY <1>1, Inductive, PTL

\* No reader waits for an answer that has already come and gone.
THEOREM AnswersReachReaders == Spec => []NoLostAnswer
<1>1. MediaInv => NoLostAnswer
  BY DEF MediaInv, RequestInv, AnswerInv, NoLostAnswer
<1> QED BY <1>1, Inductive, PTL

\* A published path is in the database, for the readers that come later.
THEOREM PathsAreSaved == Spec => []PublishedIsSaved
<1>1. MediaInv => PublishedIsSaved
  BY DEF MediaInv, PathInv
<1> QED BY <1>1, Inductive, PTL
=============================================================================
