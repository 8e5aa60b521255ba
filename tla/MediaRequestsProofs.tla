------------------------ MODULE MediaRequestsProofs ------------------------
(***************************************************************************)
(* Theorems about MediaRequests, for any messages, goroutines and bounds:  *)
(* the types of its variables, that no request is forgotten or sent twice, *)
(* and that media that arrived stays.                                      *)
(***************************************************************************)
EXTENDS MediaRequests, TLAPS

USE MediaRequestsAssumption

Work == [todo : SUBSET Msg, at : SUBSET Msg, status : Status,
         pc : {"next", "check", "send", "save"}, fresh : BOOLEAN, open : BOOLEAN]

-----------------------------------------------------------------------------
\* What a goroutine does to its work.

LEMMA JobType ==
  ASSUME NEW S \in SUBSET Msg, NEW fresh \in BOOLEAN
  PROVE  Job(S, fresh) \in Work /\ Idle \in Work
BY DEF Job, Idle, Work, Status

LEMMA StepType ==
  ASSUME TypeOK, NEW w \in Worker, NEW m \in Msg, NEW pc \in {"check", "send", "save"},
         NEW status \in Status, Step(w, m, pc, status)
  PROVE  work' \in [Worker -> Work]
<1> DEFINE next == [work[w] EXCEPT !.todo = work[w].todo \ {m}, !.at = {m}, !.pc = pc, !.status = status]
<1>1. work \in [Worker -> Work]
  BY DEF TypeOK, Work
<1>4. work[w] \in Work
  BY <1>1
<1>2. next \in Work
  BY <1>4 DEF Work
<1>3. work' = [work EXCEPT ![w] = next]
  BY DEF Step
<1> HIDE DEF next
<1> QED BY <1>1, <1>2, <1>3

LEMMA NextMessageType ==
  ASSUME TypeOK, NEW w \in Worker, NEW m \in Msg, NextMessage(w, m)
  PROVE  work' \in [Worker -> Work]
<1> DEFINE rest == [work[w] EXCEPT !.todo = work[w].todo \ {m}, !.at = {}, !.pc = "next"]
           next == IF work[w].todo \ {m} = {} THEN Idle ELSE rest
<1>1. work \in [Worker -> Work]
  BY DEF TypeOK, Work
<1>2. Idle \in Work
  BY JobType
<1>5. work[w] \in Work
  BY <1>1
<1>3. rest \in Work
  BY <1>5 DEF Work
<1>4. work' = [work EXCEPT ![w] = next]
  BY DEF NextMessage
<1> HIDE DEF rest
<1> QED BY <1>1, <1>2, <1>3, <1>4

LEMMA PutType ==
  ASSUME TypeOK, NEW m \in Msg, NEW status \in Status, Put(m, status) \/ UNCHANGED table
  PROVE  table' \in [Msg -> Status \cup {"none"}]
BY DEF TypeOK, Put

LEMMA TroubleType ==
  ASSUME TypeOK, Trouble \/ NoTrouble
  PROVE  troubles' \in Nat
BY DEF TypeOK, Trouble, NoTrouble

-----------------------------------------------------------------------------
\* Where requests come from.

LEMMA SourceStepType ==
  ASSUME TypeOK, UNCHANGED method,
         \/ \E m \in Msg : LiveMessage(m) \/ (\E w \in Worker : ProcessFailedMedia(m, w))
         \/ \E S \in SUBSET Msg : FetchPage(S)
         \/ \E w \in Worker : CompletePage(w)
  PROVE  TypeOK'
<1>1. ASSUME NEW m \in Msg, LiveMessage(m) PROVE TypeOK'
  <2>1. shown' \in [Msg -> Shown] /\ post' \subseteq Msg
    BY <1>1 DEF LiveMessage, TypeOK, Shown
  <2> QED BY <1>1, <2>1 DEF LiveMessage, TypeOK, history, bounds
<1>2. ASSUME NEW m \in Msg, NEW w \in Worker, ProcessFailedMedia(m, w) PROVE TypeOK'
  <2>1. "not_requested" \in Status
    BY DEF Status
  <2>2. table' \in [Msg -> Status \cup {"none"}]
    BY <1>2, <2>1, PutType DEF ProcessFailedMedia, PutFails
  <2>3. troubles' \in Nat
    BY <1>2, TroubleType DEF ProcessFailedMedia, PutFails
  <2>4. lost' \subseteq Msg /\ post' \subseteq Msg
    BY <1>2 DEF ProcessFailedMedia, TypeOK
  <2>5. work' \in [Worker -> Work]
    <3>1. Job({m}, FALSE) \in Work
      BY JobType
    <3>2. work \in [Worker -> Work]
      BY DEF TypeOK, Work
    <3> QED BY <1>2, <3>1, <3>2 DEF ProcessFailedMedia
  <2> QED BY <1>2, <2>2, <2>3, <2>4, <2>5 DEF ProcessFailedMedia, TypeOK, Work
<1>3. ASSUME NEW S \in SUBSET Msg, FetchPage(S) PROVE TypeOK'
  <2>1. shown' \in [Msg -> Shown]
    BY <1>3 DEF FetchPage, TypeOK, Shown
  <2>2. page' \subseteq Msg /\ redo' \subseteq Msg /\ again' \subseteq Msg
    BY <1>3 DEF FetchPage, TypeOK
  <2> QED BY <1>3, <2>1, <2>2 DEF FetchPage, TypeOK, bounds
<1>4. ASSUME NEW w \in Worker, CompletePage(w) PROVE TypeOK'
  <2>1. work' \in [Worker -> Work]
    <3>1. Job(page, TRUE) \in Work
      BY JobType DEF TypeOK
    <3>2. work \in [Worker -> Work]
      BY DEF TypeOK, Work
    <3> QED BY <1>4, <3>1, <3>2 DEF CompletePage
  <2> QED BY <1>4, <2>1 DEF CompletePage, TypeOK, history, bounds, Work
<1> QED BY <1>1, <1>2, <1>3, <1>4

\* A goroutine that saves or sends.
LEMMA WorkerStepType ==
  ASSUME TypeOK, UNCHANGED method, NEW w \in Worker, WorkerNext(w)
  PROVE  TypeOK'
<1> PICK m \in Msg : Take(w, m) \/ CheckMessage(w, m) \/ SendRequest(w, m) \/ SaveStatus(w, m)
  BY DEF WorkerNext
<1>1. {"not_requested", "requested", "request_failed", "request_skipped"} \subseteq Status
  BY DEF Status
<1>2. CASE Take(w, m)
  <2>1. table' \in [Msg -> Status \cup {"none"}]
    BY <1>1, <1>2, PutType DEF Take, PutFails
  <2>2. troubles' \in Nat
    BY <1>2, TroubleType DEF Take, PutFails, NoTrouble
  <2>3. lost' \subseteq Msg
    BY <1>2 DEF Take, TypeOK
  <2>4. work' \in [Worker -> Work]
    BY <1>1, <1>2, StepType, NextMessageType DEF Take
  <2> QED BY <1>2, <2>1, <2>2, <2>3, <2>4 DEF Take, TypeOK, Work
<1>3. CASE CheckMessage(w, m)
  <2>1. troubles' \in Nat
    BY <1>3, TroubleType DEF CheckMessage
  <2>2. work' \in [Worker -> Work]
    BY <1>1, <1>3, StepType DEF CheckMessage
  <2> QED BY <1>3, <2>1, <2>2 DEF CheckMessage, TypeOK, history, Work
<1>4. CASE SendRequest(w, m)
  <2>1. troubles' \in Nat
    BY <1>4, TroubleType DEF SendRequest
  <2>2. work' \in [Worker -> Work]
    BY <1>1, <1>4, StepType DEF SendRequest
  <2>3. asks' \in [Msg -> Nat] /\ sends' \in [Msg -> Nat]
    BY <1>4 DEF SendRequest, TypeOK
  <2> QED BY <1>4, <2>1, <2>2, <2>3 DEF SendRequest, TypeOK, Work
<1>5. CASE SaveStatus(w, m)
  <2>1. work[w].status \in Status
    BY DEF TypeOK
  <2>2. table' \in [Msg -> Status \cup {"none"}]
    BY <1>5, <2>1, PutType DEF SaveStatus, PutFails
  <2>3. troubles' \in Nat
    BY <1>5, TroubleType DEF SaveStatus, PutFails, NoTrouble
  <2>4. unsaved' \subseteq Msg
    BY <1>5 DEF SaveStatus, TypeOK
  <2>5. work' \in [Worker -> Work]
    BY <1>5, NextMessageType DEF SaveStatus
  <2> QED BY <1>5, <2>2, <2>3, <2>4, <2>5 DEF SaveStatus, TypeOK, Work
<1> QED BY <1>2, <1>3, <1>4, <1>5

LEMMA CloseLoopType ==
  ASSUME TypeOK, CloseLoop
  PROVE  work' \in [Worker -> Work]
<1> DEFINE next == IF Busy(Loop) THEN [work[Loop] EXCEPT !.open = FALSE] ELSE work[Loop]
<1>1. work \in [Worker -> Work]
  BY DEF TypeOK, Work
<1>2. next \in Work
  BY <1>1 DEF Work
<1>3. work' = [work EXCEPT ![Loop] = next]
  BY DEF CloseLoop
<1> HIDE DEF next
<1> QED BY <1>1, <1>2, <1>3

LEMMA LoopStepType ==
  ASSUME TypeOK, UNCHANGED method, Connect \/ Disconnect \/ Night
  PROVE  TypeOK'
<1>1. CASE Connect
  BY <1>1, CloseLoopType DEF Connect, TypeOK, history, Work
<1>2. CASE Disconnect
  BY <1>2, CloseLoopType DEF Disconnect, TypeOK, history, bounds, Work
<1>3. CASE Night
  <2>1. Job(Pending, FALSE) \in Work
    BY JobType DEF Pending
  <2>2. work \in [Worker -> Work]
    BY DEF TypeOK, Work
  <2>3. work' \in [Worker -> Work]
    BY <1>3, <2>1, <2>2 DEF Night
  <2> QED BY <1>3, <2>3 DEF Night, TypeOK, bounds, Work
<1> QED BY <1>1, <1>2, <1>3

LEMMA AnswerStepType ==
  ASSUME TypeOK, UNCHANGED method,
         NEW m \in Msg, AnswerError(m) \/ AnswerPath(m) \/ EditNext(m) \/ Revoke(m)
  PROVE  TypeOK'
<1>1. {"notice", "media", "gone"} \subseteq Shown
  BY DEF Shown
<1>2. CASE AnswerError(m)
  <2>1. asks' \in [Msg -> Nat] /\ shown' \in [Msg -> Shown]
    BY <1>1, <1>2 DEF AnswerError, TypeOK
  <2> QED BY <1>2, <2>1 DEF AnswerError, TypeOK, history, bounds
<1>3. CASE AnswerPath(m)
  <2>1. asks' \in [Msg -> Nat] /\ edit' \in [Msg -> {"idle", "waiting", "downloading"}]
    BY <1>3 DEF AnswerPath, TypeOK
  <2> QED BY <1>3, <2>1 DEF AnswerPath, TypeOK, history, bounds
<1>4. CASE AcquireRetryLock(m)
  BY <1>4 DEF AcquireRetryLock, TypeOK, history, bounds
<1>5. CASE MediaRetryToMatrix(m)
  <2>1. shown' \in [Msg -> Shown] /\ edit' \in [Msg -> {"idle", "waiting", "downloading"}]
    BY <1>1, <1>5 DEF MediaRetryToMatrix, TypeOK
  <2>2. troubles' \in Nat
    BY <1>5, TroubleType DEF MediaRetryToMatrix
  <2> QED BY <1>5, <2>1, <2>2 DEF MediaRetryToMatrix, TypeOK, history
<1>6. CASE Revoke(m)
  <2>1. shown' \in [Msg -> Shown] /\ table' \in [Msg -> Status \cup {"none"}]
    BY <1>1, <1>6 DEF Revoke, TypeOK
  <2>2. redo' \subseteq Msg
    BY <1>6 DEF Revoke, TypeOK
  <2> QED BY <1>6, <2>1, <2>2 DEF Revoke, TypeOK, history, bounds
<1> QED BY <1>2, <1>3, <1>4, <1>5, <1>6 DEF EditNext

LEMMA CrashType ==
  ASSUME TypeOK, UNCHANGED method, Crash
  PROVE  TypeOK'
<1>1. \A w \in Worker : work[w].todo \subseteq Msg /\ work[w].at \subseteq Msg
  BY DEF TypeOK
<1>2. lost' \subseteq Msg /\ unsaved' \subseteq Msg /\ redo' \subseteq Msg
  BY <1>1 DEF Crash, TypeOK
<1>3. work' \in [Worker -> Work]
  BY JobType DEF Crash
<1>4. troubles' \in Nat
  BY TroubleType DEF Crash
<1> QED BY <1>2, <1>3, <1>4 DEF Crash, TypeOK, Work

\* Requests are only saved with the states the table knows, goroutines hold
\* messages, and no more answers are handled than the phone gave.
THEOREM TypeCorrect == Spec => []TypeOK
<1>1. Init => TypeOK
  <2>1. Idle \in Work
    BY JobType
  <2> QED BY <2>1 DEF Init, TypeOK, Work, Shown
<1>2. TypeOK /\ [Next]_vars => TypeOK'
  <2> SUFFICES ASSUME TypeOK, [Next]_vars PROVE TypeOK'
    OBVIOUS
  <2>1. CASE UNCHANGED vars
    BY <2>1 DEF vars, history, bounds, TypeOK
  <2>2. CASE Next
    BY <2>2, SourceStepType, WorkerStepType, LoopStepType, AnswerStepType, CrashType DEF Next
  <2> QED BY <2>1, <2>2
<1> QED BY <1>1, <1>2, PTL DEF Spec

-----------------------------------------------------------------------------
\* No request is forgotten.

\* A fresh goroutine holds m if it has yet to save its request.
Held(m)    == \E w \in Worker : work[w].fresh /\ m \in work[w].todo
Covered(m) == table[m] # "none" \/ m \in post \cup page \cup lost \/ Held(m)

\* A goroutine has done what it is at.
AtTaken == \A w \in Worker : work[w].todo \cap work[w].at = {}

\* An answer is handled for a message that is in the room.
EditInRoom == \A m \in Msg : edit[m] # "idle" => m \in InRoom

RequestInv == AtTaken /\ EditInRoom /\ NothingForgotten

LEMMA Forgotten == NothingForgotten <=> \A m \in InRoom : Covered(m)
BY DEF NothingForgotten, Covered, Held

\* What a goroutine keeps when it is done with m: only m leaves its list.
LEMMA StepKeeps ==
  ASSUME TypeOK, AtTaken, NEW w \in Worker, NEW m \in Msg,
         \/ NextMessage(w, m)
         \/ \E pc \in {"check", "send", "save"}, status \in Status : Step(w, m, pc, status)
  PROVE  AtTaken' /\ \A n \in Msg \ {m} : Held(n) => Held(n)'
<1> DEFINE done == work[w].todo \ {m}
<1>1. work \in [Worker -> Work] /\ work[w] \in Work
  BY DEF TypeOK, Work
<1>2. \A v \in Worker \ {w} : work'[v] = work[v]
  BY <1>1 DEF NextMessage, Step
<1>3. \/ done = {} /\ work'[w] = Idle
      \/ work'[w].todo = done /\ work'[w].at \subseteq {m} /\ work'[w].fresh = work[w].fresh
  <2>1. CASE NextMessage(w, m)
    <3>1. CASE done = {}
      BY <1>1, <2>1, <3>1 DEF NextMessage
    <3>2. CASE done # {}
      <4>1. work'[w] = [work[w] EXCEPT !.todo = work[w].todo \ {m}, !.at = {}, !.pc = "next"]
        BY <1>1, <2>1, <3>2 DEF NextMessage
      <4> QED BY <1>1, <4>1 DEF Work
    <3> QED BY <3>1, <3>2
  <2>2. ASSUME NEW pc \in {"check", "send", "save"}, NEW status \in Status, Step(w, m, pc, status)
        PROVE  work'[w].todo = done /\ work'[w].at \subseteq {m} /\ work'[w].fresh = work[w].fresh
    <3>1. work'[w] = [work[w] EXCEPT !.todo = work[w].todo \ {m}, !.at = {m}, !.pc = pc, !.status = status]
      BY <1>1, <2>2 DEF Step
    <3> QED BY <1>1, <3>1 DEF Work
  <2> QED BY <2>1, <2>2
<1>4. AtTaken'
  BY <1>2, <1>3 DEF AtTaken, Idle
<1>5. ASSUME NEW n \in Msg \ {m}, Held(n) PROVE Held(n)'
  <2>1. PICK v \in Worker : work[v].fresh /\ n \in work[v].todo
    BY <1>5 DEF Held
  <2>2. work'[v].fresh /\ n \in work'[v].todo
    BY <1>2, <1>3, <2>1
  <2> QED BY <2>2 DEF Held
<1> QED BY <1>4, <1>5

LEMMA WorkerStepKeeps ==
  ASSUME TypeOK, RequestInv, NEW w \in Worker, WorkerNext(w)
  PROVE  RequestInv'
<1> PICK m \in Msg : Take(w, m) \/ CheckMessage(w, m) \/ SendRequest(w, m) \/ SaveStatus(w, m)
  BY DEF WorkerNext
<1>1. {"not_requested", "requested", "request_failed", "request_skipped"} \subseteq Status
  BY DEF Status
<1>2. AtTaken' /\ \A n \in Msg \ {m} : Held(n) => Held(n)'
  BY <1>1, StepKeeps DEF Take, CheckMessage, SendRequest, SaveStatus, TypeOK, RequestInv
<1>3. InRoom' = InRoom /\ post' = post /\ page' = page /\ lost \subseteq lost'
  BY DEF Take, CheckMessage, SendRequest, SaveStatus, InRoom, history
<1>4. \A n \in Msg : table[n] # "none" => table'[n] # "none"
  BY <1>1 DEF Take, CheckMessage, SendRequest, SaveStatus, Put, PutFails, TypeOK, Status
<1>5. ASSUME m \in InRoom, Covered(m) PROVE Covered(m)'
  <2>1. CASE Take(w, m)
    <3>1. CASE work[w].fresh
      BY <2>1, <3>1 DEF Take, Put, Covered, TypeOK
    <3>2. CASE ~work[w].fresh
      <4>1. \A v \in Worker \ {w} : work'[v] = work[v]
        BY <2>1, <3>2 DEF Take, Step, TypeOK
      <4>2. Held(m) => Held(m)'
        BY <3>2, <4>1 DEF Held
      <4> QED BY <1>3, <1>4, <1>5, <4>2 DEF Covered
    <3> QED BY <3>1, <3>2
  <2>2. CASE ~Take(w, m)
    <3>1. m \in work[w].at
      BY <2>2 DEF CheckMessage, SendRequest, SaveStatus
    <3>2. m \notin work[w].todo
      BY <3>1 DEF RequestInv, AtTaken
    <3>3. \A v \in Worker \ {w} : work'[v] = work[v]
      BY <2>2 DEF CheckMessage, SendRequest, SaveStatus, Step, NextMessage, TypeOK
    <3>4. Held(m) => Held(m)'
      BY <3>2, <3>3 DEF Held
    <3> QED BY <1>3, <1>4, <1>5, <3>4 DEF Covered
  <2> QED BY <2>1, <2>2
<1>6. ASSUME NEW n \in InRoom PROVE Covered(n)'
  <2>1. Covered(n) /\ n \in Msg
    BY Forgotten DEF RequestInv, InRoom
  <2>2. CASE n = m BY <1>5, <2>1, <2>2
  <2>3. CASE n # m BY <1>2, <1>3, <1>4, <2>1, <2>3 DEF Covered
  <2> QED BY <2>2, <2>3
<1>7. NothingForgotten'
  BY <1>3, <1>6 DEF NothingForgotten, Covered, Held
<1>8. EditInRoom'
  BY <1>3 DEF RequestInv, EditInRoom, Take, CheckMessage, SendRequest, SaveStatus
<1> QED BY <1>2, <1>7, <1>8 DEF RequestInv

\* New requests: a message enters the room with its request on the way.
LEMMA SourceStepKeeps ==
  ASSUME TypeOK, RequestInv,
         \/ \E m \in Msg : LiveMessage(m) \/ (\E w \in Worker : ProcessFailedMedia(m, w))
         \/ \E S \in SUBSET Msg : FetchPage(S)
         \/ \E w \in Worker : CompletePage(w)
  PROVE  RequestInv'
<1>1. ASSUME NEW m \in Msg, LiveMessage(m) PROVE RequestInv'
  <2>1. InRoom' = InRoom \cup {m} /\ m \in post' /\ post \subseteq post'
    BY <1>1 DEF LiveMessage, InRoom, TypeOK
  <2>2. UNCHANGED <<table, page, lost, work, edit>>
    BY <1>1 DEF LiveMessage, history
  <2>3. NothingForgotten'
    BY <2>1, <2>2 DEF RequestInv, NothingForgotten
  <2> QED BY <2>1, <2>2, <2>3 DEF RequestInv, AtTaken, EditInRoom
<1>2. ASSUME NEW m \in Msg, NEW w \in Worker, ProcessFailedMedia(m, w) PROVE RequestInv'
  <2>1. InRoom' = InRoom /\ page' = page /\ lost \subseteq lost' /\ edit' = edit
    BY <1>2 DEF ProcessFailedMedia, InRoom
  <2>2. table'[m] # "none" \/ m \in lost'
    BY <1>2 DEF ProcessFailedMedia, Put, TypeOK
  <2>3. \A n \in Msg \ {m} : table'[n] = table[n] /\ (n \in post => n \in post')
    BY <1>2 DEF ProcessFailedMedia, Put, PutFails, TypeOK
  <2>4. work[w].todo = {} /\ (work'[w] = work[w] \/ work'[w] = Job({m}, FALSE))
        /\ \A v \in Worker \ {w} : work'[v] = work[v]
    BY <1>2 DEF ProcessFailedMedia, Busy, TypeOK
  <2>5. AtTaken'
    BY <2>4 DEF RequestInv, AtTaken, Job, Idle
  <2>6. \A n \in Msg : Held(n) => Held(n)'
    BY <2>4 DEF Held
  <2>7. \A n \in InRoom : Covered(n)'
    BY <2>1, <2>2, <2>3, <2>6, Forgotten DEF RequestInv, Covered, InRoom
  <2>8. NothingForgotten'
    BY <2>1, <2>7 DEF NothingForgotten, Covered, Held
  <2> QED BY <2>1, <2>5, <2>8 DEF RequestInv, EditInRoom
<1>3. ASSUME NEW S \in SUBSET Msg, FetchPage(S) PROVE RequestInv'
  <2>1. InRoom' \subseteq InRoom \cup S /\ InRoom \subseteq InRoom' /\ page = {} /\ page' = S
    BY <1>3 DEF FetchPage, InRoom, TypeOK
  <2>2. UNCHANGED <<table, post, lost, work, edit>>
    BY <1>3 DEF FetchPage
  <2>3. NothingForgotten'
    BY <2>1, <2>2 DEF RequestInv, NothingForgotten
  <2> QED BY <2>1, <2>2, <2>3 DEF RequestInv, AtTaken, EditInRoom
<1>4. ASSUME NEW w \in Worker, CompletePage(w) PROVE RequestInv'
  <2>1. UNCHANGED <<table, shown, post, lost, edit>> /\ InRoom' = InRoom
    BY <1>4 DEF CompletePage, history, InRoom
  <2>2. work[w].todo = {} /\ work'[w] = Job(page, TRUE)
        /\ \A v \in Worker \ {w} : work'[v] = work[v]
    BY <1>4 DEF CompletePage, Busy, TypeOK
  <2>3. work'[w].todo = page /\ work'[w].at = {} /\ work'[w].fresh
    BY <2>2 DEF Job, Idle
  <2>4. AtTaken'
    BY <2>2, <2>3 DEF RequestInv, AtTaken
  <2>5. \A n \in Msg : Held(n) \/ n \in page => Held(n)'
    BY <2>2, <2>3 DEF Held
  <2>6. NothingForgotten'
    BY <2>1, <2>5, Forgotten DEF RequestInv, NothingForgotten, Covered, Held, InRoom
  <2> QED BY <2>1, <2>4, <2>6 DEF RequestInv, EditInRoom
<1> QED BY <1>1, <1>2, <1>3, <1>4

\* The loop of old requests: it holds none that is not saved.
LEMMA LoopStepKeeps ==
  ASSUME TypeOK, RequestInv, Connect \/ Disconnect \/ Night
  PROVE  RequestInv'
<1>1. UNCHANGED <<table, shown, post, page, lost, edit>> /\ InRoom' = InRoom
  BY DEF Connect, Disconnect, Night, history, InRoom
<1>2. work \in [Worker -> Work] /\ work[Loop] \in Work
  BY DEF TypeOK, Work
<1>3. \A v \in Worker \ {Loop} : work'[v] = work[v]
  BY <1>2 DEF Connect, Disconnect, Night, CloseLoop
<1>4. \/ work'[Loop].todo = work[Loop].todo /\ work'[Loop].at = work[Loop].at
         /\ work'[Loop].fresh = work[Loop].fresh
      \/ work[Loop].todo = {} /\ work'[Loop].at = {}
  <2>1. CASE CloseLoop
    <3>1. work'[Loop] = IF Busy(Loop) THEN [work[Loop] EXCEPT !.open = FALSE] ELSE work[Loop]
      BY <1>2, <2>1 DEF CloseLoop
    <3> QED BY <1>2, <3>1 DEF Work
  <2>2. CASE Night
    <3>1. work'[Loop] = work[Loop] \/ (~Busy(Loop) /\ work'[Loop] = Job(Pending, FALSE))
      BY <1>2, <2>2 DEF Night
    <3> QED BY <3>1 DEF Busy, Job, Idle
  <2> QED BY <2>1, <2>2 DEF Connect, Disconnect
<1>5. AtTaken'
  BY <1>3, <1>4 DEF RequestInv, AtTaken
<1>6. \A n \in Msg : Held(n) => Held(n)'
  BY <1>3, <1>4 DEF Held
<1>7. NothingForgotten'
  BY <1>1, <1>6, Forgotten DEF RequestInv, NothingForgotten, Covered, Held, InRoom
<1> QED BY <1>1, <1>5, <1>7 DEF RequestInv, EditInRoom

\* An answer changes what a message in the room shows, and nothing else.
LEMMA AnswerStepKeeps ==
  ASSUME TypeOK, RequestInv,
         NEW m \in Msg, AnswerError(m) \/ AnswerPath(m) \/ EditNext(m) \/ Revoke(m)
  PROVE  RequestInv'
<1>1. UNCHANGED <<post, page, lost, work>>
  BY DEF AnswerError, AnswerPath, EditNext, AcquireRetryLock, MediaRetryToMatrix, Revoke, history
<1>2. CASE Revoke(m)
  <2>1. InRoom' = InRoom \ {m} /\ \A n \in Msg \ {m} : table'[n] = table[n]
    BY <1>2 DEF Revoke, InRoom, TypeOK
  <2>2. EditInRoom'
    BY <1>2, <2>1 DEF Revoke, RequestInv, EditInRoom
  <2>3. NothingForgotten'
    BY <1>1, <2>1 DEF RequestInv, NothingForgotten, InRoom
  <2> QED BY <1>1, <2>2, <2>3 DEF RequestInv, AtTaken
<1>3. CASE ~Revoke(m)
  <2>1. UNCHANGED table
    BY <1>3 DEF AnswerError, AnswerPath, EditNext, AcquireRetryLock, MediaRetryToMatrix
  <2>2. InRoom' = InRoom
    <3>1. CASE AnswerError(m)
      BY <3>1 DEF AnswerError, InRoom, TypeOK
    <3>2. CASE MediaRetryToMatrix(m)
      BY <3>2 DEF MediaRetryToMatrix, InRoom, TypeOK, RequestInv, EditInRoom
    <3>3. CASE AnswerPath(m) \/ AcquireRetryLock(m)
      BY <3>3 DEF AnswerPath, AcquireRetryLock, InRoom
    <3> QED BY <1>3, <3>1, <3>2, <3>3 DEF EditNext
  <2>3. EditInRoom'
    BY <1>3, <2>2 DEF AnswerError, AnswerPath, EditNext, AcquireRetryLock, MediaRetryToMatrix,
                      RequestInv, EditInRoom, TypeOK
  <2>4. NothingForgotten'
    BY <1>1, <2>1, <2>2 DEF RequestInv, NothingForgotten
  <2> QED BY <1>1, <2>3, <2>4 DEF RequestInv, AtTaken
<1> QED BY <1>2, <1>3

LEMMA AlwaysRequestInv == Spec => []RequestInv
<1>1. Init => RequestInv
  BY DEF Init, RequestInv, AtTaken, EditInRoom, NothingForgotten, InRoom, Idle
<1>2. TypeOK /\ RequestInv /\ [Next]_vars => RequestInv'
  <2> SUFFICES ASSUME TypeOK, RequestInv, [Next]_vars PROVE RequestInv'
    OBVIOUS
  <2>1. CASE UNCHANGED vars
    BY <2>1 DEF vars, history, bounds, RequestInv, AtTaken, EditInRoom, NothingForgotten, InRoom
  <2>2. CASE Crash
    <3>1. NothingForgotten'
      BY <2>2 DEF Crash, RequestInv, NothingForgotten, InRoom
    <3>2. AtTaken' /\ EditInRoom'
      BY <2>2 DEF Crash, AtTaken, EditInRoom, Idle
    <3> QED BY <3>1, <3>2 DEF RequestInv
  <2>3. CASE Next /\ ~Crash
    BY <2>3, SourceStepKeeps, WorkerStepKeeps, LoopStepKeeps, AnswerStepKeeps DEF Next
  <2> QED BY <2>1, <2>2, <2>3
<1> QED BY <1>1, <1>2, TypeCorrect, PTL DEF Spec

\* A message in the room has a request, saved or about to be saved, unless a
\* crash or a failing save lost it.
THEOREM NoRequestForgotten == Spec => []NothingForgotten
<1>1. RequestInv => NothingForgotten
  BY DEF RequestInv
<1> QED BY <1>1, AlwaysRequestInv, PTL

-----------------------------------------------------------------------------
\* The phone is asked once.

Holds(w, m) == m \in work[w].todo \cup work[w].at

\* Nothing went wrong that lets the bridge ask for m twice.
Clean(m) == m \notin unsaved \cup again

\* A goroutine is at one message, or at none before it takes the next one.
OneAtATime ==
  \A w \in Worker : /\ \A m, n \in work[w].at : m = n
                    /\ work[w].pc = "next" => work[w].at = {}

\* The loop only runs in local_time mode, where nobody else sends requests.
LoopSends ==
  /\ loop # "off" => method = "local_time"
  /\ ~work[Loop].fresh
  /\ method # "immediate" =>
       \A w \in Worker \ {Loop} : work[w].at = {} /\ (work[w].todo # {} => work[w].fresh)

\* Nothing is requested before the message comes.
Unseen(m) ==
  shown[m] = "none" =>
    /\ table[m] = "none" /\ sends[m] = 0 /\ m \notin post \cup page
    /\ \A w \in Worker : ~Holds(w, m)

\* The request of m is in one place.
OneHolder(m) ==
  /\ \A v, w \in Worker : Holds(v, m) /\ Holds(w, m) => v = w
  /\ m \in post \cup page => \A w \in Worker : ~Holds(w, m)
  /\ m \notin post \cap page

\* A request that is still to be sent was not sent; it is saved first.
Unsent(m) ==
  /\ m \in post \cup page => table[m] = "none" /\ sends[m] = 0
  /\ \A w \in Worker :
       /\ m \in work[w].todo => sends[m] = 0 /\ (work[w].fresh => table[m] = "none")
       /\ m \in work[w].at /\ work[w].pc # "save" => sends[m] = 0

\* A request that was sent is recorded as such, or is about to be.
SentOnce(m) ==
  /\ sends[m] <= 1
  /\ sends[m] > 0 =>
       /\ \A w \in Worker : m \in work[w].at => work[w].status = "requested"
       /\ table[m] # "not_requested" \/ \E w \in Worker : m \in work[w].at

Once(m) == Unseen(m) /\ (Clean(m) => OneHolder(m) /\ Unsent(m) /\ SentOnce(m))

OnceInv == OneAtATime /\ LoopSends /\ \A m \in Msg : Once(m)

\* The fields of a goroutine's work after a step.
LEMMA StepFields ==
  ASSUME TypeOK, NEW w \in Worker, NEW m \in Msg, NEW pc \in {"check", "send", "save"},
         NEW status \in Status, Step(w, m, pc, status)
  PROVE  /\ work'[w].todo = work[w].todo \ {m} /\ work'[w].at = {m}
         /\ work'[w].pc = pc /\ work'[w].status = status /\ work'[w].fresh = work[w].fresh
         /\ \A v \in Worker \ {w} : work'[v] = work[v]
<1>1. work \in [Worker -> Work] /\ work[w] \in Work
  BY DEF TypeOK, Work
<1>2. work'[w] = [work[w] EXCEPT !.todo = work[w].todo \ {m}, !.at = {m}, !.pc = pc, !.status = status]
  BY <1>1 DEF Step
<1>3. \A v \in Worker \ {w} : work'[v] = work[v]
  BY <1>1 DEF Step
<1> QED BY <1>1, <1>2, <1>3 DEF Work

LEMMA NextFields ==
  ASSUME TypeOK, NEW w \in Worker, NEW m \in Msg, NextMessage(w, m)
  PROVE  /\ work'[w].todo = work[w].todo \ {m} /\ work'[w].at = {} /\ work'[w].pc = "next"
         /\ work'[w].todo # {} => work'[w].fresh = work[w].fresh
         /\ work'[w].fresh => work[w].fresh
         /\ \A v \in Worker \ {w} : work'[v] = work[v]
<1>1. work \in [Worker -> Work] /\ work[w] \in Work
  BY DEF TypeOK, Work
<1>2. \A v \in Worker \ {w} : work'[v] = work[v]
  BY <1>1 DEF NextMessage
<1>3. CASE work[w].todo \ {m} = {}
  <2>1. work'[w] = Idle
    BY <1>1, <1>3 DEF NextMessage
  <2> QED BY <1>2, <1>3, <2>1 DEF Idle
<1>4. CASE work[w].todo \ {m} # {}
  <2>1. work'[w] = [work[w] EXCEPT !.todo = work[w].todo \ {m}, !.at = {}, !.pc = "next"]
    BY <1>1, <1>4 DEF NextMessage
  <2> QED BY <1>1, <1>2, <2>1 DEF Work
<1> QED BY <1>3, <1>4

\* A step that leaves m where it is.
Stays(m) ==
  /\ table'[m] = table[m] /\ sends'[m] = sends[m]
  /\ m \in post' <=> m \in post
  /\ m \in page' <=> m \in page
  /\ shown'[m] = "none" => shown[m] = "none"
  /\ Clean(m)' => Clean(m)
  /\ \A w \in Worker :
       /\ m \in work'[w].todo => m \in work[w].todo /\ work'[w].fresh = work[w].fresh
       /\ m \in work'[w].at <=> m \in work[w].at
       /\ m \in work'[w].at => work'[w].pc = work[w].pc /\ work'[w].status = work[w].status

LEMMA Untouched ==
  ASSUME NEW m \in Msg, Once(m), Stays(m)
  PROVE  Once(m)'
<1>1. \A w \in Worker : Holds(w, m)' => Holds(w, m)
  BY DEF Stays, Holds
<1>2. Unseen(m)'
  BY <1>1 DEF Once, Unseen, Stays
<1>3. ASSUME Clean(m)' PROVE OneHolder(m) /\ Unsent(m) /\ SentOnce(m)
  BY <1>3 DEF Once, Stays
<1>4. ASSUME Clean(m)' PROVE OneHolder(m)'
  BY <1>1, <1>3, <1>4 DEF OneHolder, Stays
<1>5. ASSUME Clean(m)' PROVE Unsent(m)'
  BY <1>3, <1>5 DEF Unsent, Stays
<1>6. ASSUME Clean(m)' PROVE SentOnce(m)'
  BY <1>3, <1>6 DEF SentOnce, Stays
<1> QED BY <1>2, <1>4, <1>5, <1>6 DEF Once

\* What a goroutine does with n: it has n from its list, or is at it.
LEMMA WorkerFields ==
  ASSUME TypeOK, OneAtATime, NEW w \in Worker, NEW n \in Msg,
         Take(w, n) \/ CheckMessage(w, n) \/ SendRequest(w, n) \/ SaveStatus(w, n)
  PROVE  /\ Holds(w, n) /\ work[w].at \subseteq {n}
         /\ work'[w].todo = work[w].todo \ {n} /\ work'[w].at \subseteq {n}
         /\ work'[w].pc = "next" => work'[w].at = {}
         /\ work'[w].todo # {} => work'[w].fresh = work[w].fresh
         /\ work'[w].fresh => work[w].fresh
         /\ \A v \in Worker \ {w} : work'[v] = work[v]
<1>1. {"not_requested", "requested", "request_failed", "request_skipped"} \subseteq Status
  BY DEF Status
<1>2. Holds(w, n) /\ work[w].at \subseteq {n}
  BY DEF Holds, OneAtATime, Take, CheckMessage, SendRequest, SaveStatus
<1>3. \/ NextMessage(w, n)
      \/ \E pc \in {"check", "send", "save"}, status \in Status : Step(w, n, pc, status)
  BY <1>1 DEF Take, CheckMessage, SendRequest, SaveStatus
<1>4. CASE NextMessage(w, n)
  BY <1>2, <1>4, NextFields
<1>5. ASSUME NEW pc \in {"check", "send", "save"}, NEW status \in Status, Step(w, n, pc, status)
      PROVE  /\ work'[w].todo = work[w].todo \ {n} /\ work'[w].at \subseteq {n}
             /\ work'[w].pc = "next" => work'[w].at = {}
             /\ work'[w].fresh = work[w].fresh
             /\ \A v \in Worker \ {w} : work'[v] = work[v]
  BY <1>5, StepFields
<1> QED BY <1>2, <1>3, <1>4, <1>5

LEMMA WorkerStepOnce ==
  ASSUME TypeOK, OnceInv, NEW w \in Worker, WorkerNext(w), UNCHANGED method
  PROVE  OnceInv'
<1> PICK n \in Msg : Take(w, n) \/ CheckMessage(w, n) \/ SendRequest(w, n) \/ SaveStatus(w, n)
  BY DEF WorkerNext
<1>1. /\ Holds(w, n) /\ work[w].at \subseteq {n}
      /\ work'[w].todo = work[w].todo \ {n} /\ work'[w].at \subseteq {n}
      /\ work'[w].pc = "next" => work'[w].at = {}
      /\ work'[w].todo # {} => work'[w].fresh = work[w].fresh
      /\ work'[w].fresh => work[w].fresh
      /\ \A v \in Worker \ {w} : work'[v] = work[v]
  BY WorkerFields DEF OnceInv
<1>2. OneAtATime'
  BY <1>1 DEF OnceInv, OneAtATime
<1>3. UNCHANGED <<shown, post, page, loop, again>>
  BY DEF Take, CheckMessage, SendRequest, SaveStatus, history
<1>4. LoopSends'
  <2>1. ASSUME method # "immediate", w # Loop PROVE work'[w].at = {}
    <3>1. work[w].at = {} /\ (work[w].todo # {} => work[w].fresh)
      BY <2>1 DEF OnceInv, LoopSends
    <3>2. Take(w, n) /\ work[w].fresh
      BY <3>1 DEF Take, CheckMessage, SendRequest, SaveStatus
    <3> QED BY <2>1, <3>2, NextFields DEF Take
  <2>2. ~work'[Loop].fresh
    BY <1>1 DEF OnceInv, LoopSends
  <2> QED BY <1>1, <1>3, <2>1, <2>2 DEF OnceInv, LoopSends
<1>5. ASSUME NEW m \in Msg, m # n PROVE Once(m)'
  <2>1. table'[m] = table[m] /\ sends'[m] = sends[m]
    BY <1>5 DEF Take, CheckMessage, SendRequest, SaveStatus, Put, PutFails, TypeOK, history
  <2>2. Clean(m)' => Clean(m)
    BY <1>3 DEF Clean, Take, CheckMessage, SendRequest, SaveStatus, history
  <2>3. \A v \in Worker :
          /\ m \in work'[v].todo => m \in work[v].todo /\ work'[v].fresh = work[v].fresh
          /\ m \in work'[v].at <=> m \in work[v].at
          /\ m \in work'[v].at => work'[v].pc = work[v].pc /\ work'[v].status = work[v].status
    BY <1>1, <1>5
  <2>4. Stays(m)
    BY <1>3, <2>1, <2>2, <2>3 DEF Stays
  <2> QED BY <2>4, Untouched DEF OnceInv
<1>6. Once(n)'
  <2>1. \A v \in Worker : Holds(v, n)' => v = w \/ Holds(v, n)
    BY <1>1 DEF Holds
  <2>2. Unseen(n)'
    BY <1>1, <1>3 DEF OnceInv, Once, Unseen
  <2> SUFFICES ASSUME Clean(n)' PROVE OneHolder(n)' /\ Unsent(n)' /\ SentOnce(n)'
    BY <2>2 DEF Once
  <2>3. Clean(n)
    BY <1>3 DEF Clean, Take, CheckMessage, SendRequest, SaveStatus, history
  <2>4. OneHolder(n) /\ Unsent(n) /\ SentOnce(n)
    BY <2>3 DEF OnceInv, Once
  <2>5. n \notin post \cup page /\ \A v \in Worker \ {w} : ~Holds(v, n)
    BY <1>1, <2>4 DEF OneHolder
  <2>6. OneHolder(n)'
    BY <1>1, <1>3, <2>5 DEF OneHolder, Holds
  <2>7. \A v \in Worker : n \notin work'[v].todo /\ (v # w => n \notin work'[v].at)
    BY <1>1, <2>5 DEF Holds
  <2>8. sends[n] \in Nat
    BY DEF TypeOK
  <2>9. CASE Take(w, n) \/ CheckMessage(w, n)
    <3>1. sends'[n] = 0
      <4>1. sends[n] = 0
        BY <2>4, <2>9 DEF Take, CheckMessage, Unsent
      <4> QED BY <2>9, <4>1 DEF Take, CheckMessage, history
    <3> QED BY <1>3, <2>5, <2>6, <2>7, <3>1 DEF Unsent, SentOnce
  <2>10. CASE SendRequest(w, n)
    <3>1. sends[n] = 0
      BY <2>4, <2>10 DEF SendRequest, Unsent
    <3>2. work'[w].at = {n} /\ work'[w].pc = "save"
      BY <2>10, StepFields DEF SendRequest, Status
    <3>3. \/ sends'[n] = 0
          \/ sends'[n] = 1 /\ work'[w].status = "requested"
      <4>1. CASE Step(w, n, "save", "requested") /\ sends' = [sends EXCEPT ![n] = @ + 1]
        BY <3>1, <4>1, StepFields DEF TypeOK, Status
      <4>2. CASE UNCHANGED sends
        BY <3>1, <4>2
      <4> QED BY <2>10, <4>1, <4>2 DEF SendRequest
    <3>4. Unsent(n)'
      BY <1>3, <2>5, <2>7, <3>2 DEF Unsent
    <3>5. SentOnce(n)'
      BY <2>7, <3>2, <3>3 DEF SentOnce
    <3> QED BY <2>6, <3>4, <3>5
  <2>11. CASE SaveStatus(w, n)
    <3>1. UNCHANGED sends /\ n \in work[w].at
      BY <2>11 DEF SaveStatus
    <3>2. Put(n, work[w].status)
      BY <2>11 DEF SaveStatus, Clean
    <3>3. table'[n] = work[w].status
      BY <3>2 DEF Put, TypeOK
    <3>4. \A v \in Worker : n \notin work'[v].at
      <4>1. work'[w].at = {}
        BY <2>11, NextFields DEF SaveStatus
      <4> QED BY <2>7, <4>1
    <3>5. Unsent(n)'
      BY <1>3, <2>5, <2>7, <3>4 DEF Unsent
    <3>6. SentOnce(n)'
      BY <2>4, <3>1, <3>3, <3>4 DEF SentOnce
    <3> QED BY <2>6, <3>5, <3>6
  <2> QED BY <2>9, <2>10, <2>11
<1> QED BY <1>2, <1>4, <1>5, <1>6 DEF OnceInv

LEMMA SourceStepOnce ==
  ASSUME TypeOK, OnceInv, UNCHANGED method,
         \/ \E m \in Msg : LiveMessage(m) \/ (\E w \in Worker : ProcessFailedMedia(m, w))
         \/ \E S \in SUBSET Msg : FetchPage(S)
         \/ \E w \in Worker : CompletePage(w)
  PROVE  OnceInv'
<1>1. ASSUME NEW n \in Msg, LiveMessage(n) PROVE OnceInv'
  <2>1. /\ shown[n] = "none" /\ n \notin page /\ shown'[n] = "old" /\ post' = post \cup {n}
        /\ UNCHANGED <<table, page, loop, work, sends, unsaved, again>>
        /\ \A m \in Msg \ {n} : shown'[m] = shown[m]
    BY <1>1 DEF LiveMessage, TypeOK, history
  <2>2. ASSUME NEW m \in Msg \ {n} PROVE Once(m)'
    <3>1. Stays(m)
      BY <2>1 DEF Stays, Clean
    <3> QED BY <3>1, Untouched DEF OnceInv
  <2>3. /\ table[n] = "none" /\ sends[n] = 0 /\ n \notin post \cup page
        /\ \A w \in Worker : ~Holds(w, n)
    BY <2>1 DEF OnceInv, Once, Unseen
  <2>4. Once(n)'
    BY <2>1, <2>3 DEF Once, Unseen, OneHolder, Unsent, SentOnce, Holds
  <2> QED BY <2>1, <2>2, <2>4 DEF OnceInv, OneAtATime, LoopSends
<1>2. ASSUME NEW n \in Msg, NEW w \in Worker, ProcessFailedMedia(n, w) PROVE OnceInv'
  <2>1. /\ n \in post /\ post' = post \ {n} /\ w # Loop
        /\ UNCHANGED <<shown, page, loop, sends, unsaved, again>>
        /\ \A m \in Msg \ {n} : table'[m] = table[m]
    BY <1>2 DEF ProcessFailedMedia, Put, PutFails, TypeOK
  <2>2. /\ work[w].todo = {} /\ work[w].at = {}
        /\ \/ work' = work
           \/ work'[w] = Job({n}, FALSE) /\ method = "immediate"
        /\ \A v \in Worker \ {w} : work'[v] = work[v]
    BY <1>2 DEF ProcessFailedMedia, Busy, TypeOK
  <2>3. Job({n}, FALSE).todo = {n} /\ Job({n}, FALSE).at = {}
    BY DEF Job, Idle
  <2>4. OneAtATime' /\ LoopSends'
    <3>1. work'[w].at = {}
      BY <2>2, <2>3
    <3>2. OneAtATime'
      BY <2>2, <3>1 DEF OnceInv, OneAtATime
    <3>3. ~work'[Loop].fresh /\ (loop' # "off" => method = "local_time")
      BY <2>1, <2>2 DEF OnceInv, LoopSends
    <3>4. ASSUME method # "immediate", NEW v \in Worker \ {Loop}
          PROVE  work'[v].at = {} /\ (work'[v].todo # {} => work'[v].fresh)
      BY <2>2, <2>3, <3>4 DEF OnceInv, LoopSends
    <3> QED BY <3>2, <3>3, <3>4 DEF LoopSends
  <2>5. \A v \in Worker : \A m \in Msg \ {n} :
          /\ m \in work'[v].todo => m \in work[v].todo /\ work'[v].fresh = work[v].fresh
          /\ m \in work'[v].at <=> m \in work[v].at
          /\ m \in work'[v].at => work'[v].pc = work[v].pc /\ work'[v].status = work[v].status
    BY <2>2, <2>3
  <2>6. ASSUME NEW m \in Msg \ {n} PROVE Once(m)'
    <3>1. Stays(m)
      BY <2>1, <2>5 DEF Stays, Clean
    <3> QED BY <3>1, Untouched DEF OnceInv
  <2>7. Once(n)'
    <3>1. shown[n] # "none"
      BY <2>1 DEF OnceInv, Once, Unseen
    <3> SUFFICES ASSUME Clean(n)' PROVE OneHolder(n)' /\ Unsent(n)' /\ SentOnce(n)'
      BY <2>1, <3>1 DEF Once, Unseen
    <3>2. Clean(n) /\ OneHolder(n) /\ Unsent(n)
      BY <2>1 DEF Clean, OnceInv, Once
    <3>3. sends[n] = 0 /\ n \notin page /\ \A v \in Worker : ~Holds(v, n)
      BY <2>1, <3>2 DEF OneHolder, Unsent
    <3>4. \A v \in Worker : /\ n \notin work'[v].at
                            /\ n \in work'[v].todo => v = w /\ ~work'[v].fresh
      BY <2>2, <2>3, <3>3 DEF Holds, Job, Idle
    <3> QED BY <2>1, <3>3, <3>4 DEF OneHolder, Unsent, SentOnce, Holds
  <2> QED BY <2>4, <2>6, <2>7 DEF OnceInv
<1>3. ASSUME NEW S \in SUBSET Msg, FetchPage(S) PROVE OnceInv'
  <2>1. /\ page = {} /\ page' = S /\ S \cap post = {} /\ again' = again \cup (S \cap redo)
        /\ \A m \in S : shown[m] = "none" \/ m \in redo
        /\ \A m \in Msg : shown'[m] = IF m \in S /\ shown[m] = "none" THEN "old" ELSE shown[m]
        /\ UNCHANGED <<table, post, loop, work, sends, unsaved>>
    BY <1>3 DEF FetchPage
  <2>2. ASSUME NEW m \in Msg \ S PROVE Once(m)'
    <3>1. Stays(m)
      BY <2>1 DEF Stays, Clean
    <3> QED BY <3>1, Untouched DEF OnceInv
  <2>3. ASSUME NEW m \in S PROVE Once(m)'
    <3>1. shown'[m] # "none"
      BY <2>1
    <3> SUFFICES ASSUME Clean(m)' PROVE OneHolder(m)' /\ Unsent(m)' /\ SentOnce(m)'
      BY <3>1 DEF Once, Unseen
    <3>2. shown[m] = "none"
      BY <2>1 DEF Clean
    <3>3. /\ table[m] = "none" /\ sends[m] = 0 /\ m \notin post
          /\ \A v \in Worker : ~Holds(v, m)
      BY <3>2 DEF OnceInv, Once, Unseen
    <3> QED BY <2>1, <3>3 DEF OneHolder, Unsent, SentOnce, Holds
  <2> QED BY <2>1, <2>2, <2>3 DEF OnceInv, OneAtATime, LoopSends
<1>4. ASSUME NEW w \in Worker, CompletePage(w) PROVE OnceInv'
  <2>1. /\ page' = {} /\ w # Loop
        /\ UNCHANGED <<table, shown, post, loop, sends, unsaved, again>>
    BY <1>4 DEF CompletePage, history
  <2>2. /\ work[w].todo = {} /\ work[w].at = {} /\ work'[w] = Job(page, TRUE)
        /\ \A v \in Worker \ {w} : work'[v] = work[v]
    BY <1>4 DEF CompletePage, Busy, TypeOK
  <2>3. work'[w].todo = page /\ work'[w].at = {} /\ work'[w].fresh
    BY <2>2 DEF Job, Idle
  <2>4. OneAtATime' /\ LoopSends'
    <3>1. work'[w].at = {}
      BY <2>2, <2>3
    <3>2. OneAtATime'
      BY <2>2, <3>1 DEF OnceInv, OneAtATime
    <3>3. ~work'[Loop].fresh /\ (loop' # "off" => method = "local_time")
      BY <2>1, <2>2 DEF OnceInv, LoopSends
    <3>4. ASSUME method # "immediate", NEW v \in Worker \ {Loop}
          PROVE  work'[v].at = {} /\ (work'[v].todo # {} => work'[v].fresh)
      BY <2>2, <2>3, <3>4 DEF OnceInv, LoopSends
    <3> QED BY <3>2, <3>3, <3>4 DEF LoopSends
  <2>5. ASSUME NEW m \in Msg \ page PROVE Once(m)'
    <3>1. Stays(m)
      BY <2>1, <2>2, <2>3 DEF Stays, Clean
    <3> QED BY <3>1, Untouched DEF OnceInv
  <2>6. ASSUME NEW m \in Msg, m \in page PROVE Once(m)'
    <3>1. shown[m] # "none"
      BY <2>6 DEF OnceInv, Once, Unseen
    <3> SUFFICES ASSUME Clean(m)' PROVE OneHolder(m)' /\ Unsent(m)' /\ SentOnce(m)'
      BY <2>1, <3>1 DEF Once, Unseen
    <3>2. Clean(m) /\ OneHolder(m) /\ Unsent(m)
      BY <2>1 DEF Clean, OnceInv, Once
    <3>3. /\ sends[m] = 0 /\ table[m] = "none" /\ m \notin post
          /\ \A v \in Worker : ~Holds(v, m)
      BY <2>6, <3>2 DEF OneHolder, Unsent
    <3> QED BY <2>1, <2>2, <2>3, <3>3 DEF OneHolder, Unsent, SentOnce, Holds
  <2> QED BY <2>4, <2>5, <2>6 DEF OnceInv
<1> QED BY <1>1, <1>2, <1>3, <1>4

\* A night takes the saved requests, which nobody else holds.
LEMMA LoopStepOnce ==
  ASSUME TypeOK, OnceInv, UNCHANGED method, Connect \/ Disconnect \/ Night
  PROVE  OnceInv'
<1>1. UNCHANGED <<table, shown, post, page, sends, unsaved, again>>
  BY DEF Connect, Disconnect, Night, history
<1>2. work \in [Worker -> Work] /\ work[Loop] \in Work
  BY DEF TypeOK, Work
<1>3. \A v \in Worker \ {Loop} : work'[v] = work[v]
  BY <1>2 DEF Connect, Disconnect, Night, CloseLoop
<1>4. loop' # "off" => method = "local_time"
  BY DEF Connect, Disconnect, Night, OnceInv, LoopSends
<1>5. CASE CloseLoop \/ work' = work
  <2>1. /\ work'[Loop].todo = work[Loop].todo /\ work'[Loop].at = work[Loop].at
        /\ work'[Loop].pc = work[Loop].pc /\ work'[Loop].status = work[Loop].status
        /\ work'[Loop].fresh = work[Loop].fresh
    <3>1. CASE work' = work
      BY <3>1
    <3>2. CASE CloseLoop
      <4>1. work'[Loop] = IF Busy(Loop) THEN [work[Loop] EXCEPT !.open = FALSE] ELSE work[Loop]
        BY <1>2, <3>2 DEF CloseLoop
      <4> QED BY <1>2, <4>1 DEF Work
    <3> QED BY <1>5, <3>1, <3>2
  <2>2. ASSUME NEW m \in Msg PROVE Once(m)'
    <3>1. Stays(m)
      BY <1>1, <1>3, <2>1 DEF Stays, Clean
    <3> QED BY <3>1, Untouched DEF OnceInv
  <2>3. OneAtATime'
    BY <1>3, <2>1 DEF OnceInv, OneAtATime
  <2>4. LoopSends'
    BY <1>3, <1>4, <2>1 DEF OnceInv, LoopSends
  <2> QED BY <2>2, <2>3, <2>4 DEF OnceInv
<1>6. CASE Night /\ work' # work
  <2>1. /\ loop # "off" /\ work[Loop].todo = {} /\ work[Loop].at = {}
        /\ work'[Loop] = Job(Pending, FALSE)
    BY <1>2, <1>6 DEF Night, Busy
  <2>2. /\ work'[Loop].todo = Pending /\ work'[Loop].at = {} /\ ~work'[Loop].fresh
    BY <2>1 DEF Job, Idle
  <2>3. OneAtATime'
    BY <1>3, <2>2 DEF OnceInv, OneAtATime
  <2>4. LoopSends'
    BY <1>3, <1>4, <2>2 DEF OnceInv, LoopSends
  <2>5. ASSUME NEW m \in Msg \ Pending PROVE Once(m)'
    <3>1. Stays(m)
      BY <1>1, <1>3, <2>1, <2>2 DEF Stays, Clean
    <3> QED BY <3>1, Untouched DEF OnceInv
  <2>6. ASSUME NEW m \in Pending PROVE Once(m)'
    <3>1. m \in Msg /\ table[m] = "not_requested" /\ shown[m] # "none"
      BY <2>6 DEF Pending, OnceInv, Once, Unseen
    <3> SUFFICES ASSUME Clean(m)' PROVE OneHolder(m)' /\ Unsent(m)' /\ SentOnce(m)'
      BY <1>1, <3>1 DEF Once, Unseen
    <3>2. Clean(m) /\ OneHolder(m) /\ Unsent(m) /\ SentOnce(m)
      BY <1>1, <3>1 DEF Clean, OnceInv, Once
    <3>3. \A v \in Worker \ {Loop} :
            work[v].at = {} /\ (work[v].todo # {} => work[v].fresh)
      BY <2>1 DEF OnceInv, LoopSends
    <3>4. m \notin post \cup page /\ \A v \in Worker : ~Holds(v, m)
      BY <2>1, <3>1, <3>2, <3>3 DEF Unsent, Holds
    <3>5. sends[m] = 0
      BY <3>1, <3>2, <3>4 DEF SentOnce, Holds, TypeOK
    <3>6. \A v \in Worker : /\ m \notin work'[v].at
                            /\ m \in work'[v].todo => v = Loop /\ ~work'[v].fresh
      BY <1>3, <2>2, <3>4 DEF Holds
    <3> QED BY <1>1, <3>4, <3>5, <3>6 DEF OneHolder, Unsent, SentOnce, Holds
  <2> QED BY <2>3, <2>4, <2>5, <2>6 DEF OnceInv, Pending
<1> QED BY <1>5, <1>6 DEF Connect, Disconnect, Night

LEMMA AnswerStepOnce ==
  ASSUME TypeOK, OnceInv, UNCHANGED method,
         NEW n \in Msg, AnswerError(n) \/ AnswerPath(n) \/ EditNext(n) \/ Revoke(n)
  PROVE  OnceInv'
<1>1. UNCHANGED <<post, page, loop, work, sends, unsaved, again>>
  BY DEF AnswerError, AnswerPath, EditNext, AcquireRetryLock, MediaRetryToMatrix, Revoke, history
<1>2. /\ \A m \in Msg \ {n} : table'[m] = table[m]
      /\ table'[n] = table[n] \/ (table'[n] = "none" /\ shown'[n] = "gone")
  BY DEF AnswerError, AnswerPath, EditNext, AcquireRetryLock, MediaRetryToMatrix, Revoke, TypeOK
<1>3. \A m \in Msg : shown'[m] = "none" => shown[m] = "none"
  BY DEF AnswerError, AnswerPath, EditNext, AcquireRetryLock, MediaRetryToMatrix, Revoke, TypeOK
<1>4. ASSUME NEW m \in Msg, table'[m] = table[m] PROVE Once(m)'
  <2>1. Stays(m)
    BY <1>1, <1>3, <1>4 DEF Stays, Clean
  <2> QED BY <2>1, Untouched DEF OnceInv
<1>5. ASSUME table'[n] = "none", shown'[n] = "gone" PROVE Once(n)'
  <2>1. ASSUME Clean(n)' PROVE OneHolder(n)' /\ Unsent(n)' /\ SentOnce(n)'
    <3>1. OneHolder(n) /\ Unsent(n) /\ SentOnce(n)
      BY <1>1, <2>1 DEF OnceInv, Once, Clean
    <3> QED BY <1>1, <1>5, <3>1 DEF OneHolder, Unsent, SentOnce, Holds
  <2> QED BY <1>5, <2>1 DEF Once, Unseen
<1>6. OneAtATime' /\ LoopSends'
  BY <1>1 DEF OnceInv, OneAtATime, LoopSends
<1>7. \A m \in Msg : Once(m)'
  BY <1>2, <1>4, <1>5
<1> QED BY <1>6, <1>7 DEF OnceInv

\* After a crash nobody holds a request, and those in hand count as unsaved.
LEMMA CrashOnce ==
  ASSUME TypeOK, OnceInv, UNCHANGED method, Crash
  PROVE  OnceInv'
<1>1. /\ post' = {} /\ page' = {} /\ loop' = "off" /\ UNCHANGED <<table, shown, sends, again>>
      /\ \A w \in Worker : work'[w] = Idle
  BY DEF Crash
<1>2. Idle.todo = {} /\ Idle.at = {} /\ ~Idle.fresh /\ Loop \in Worker
  BY DEF Idle
<1>3. OneAtATime' /\ LoopSends'
  BY <1>1, <1>2 DEF OneAtATime, LoopSends
<1>4. ASSUME NEW m \in Msg PROVE Once(m)'
  <2>1. \A w \in Worker : ~Holds(w, m)'
    BY <1>1, <1>2 DEF Holds
  <2>2. Unseen(m)'
    BY <1>1, <2>1 DEF OnceInv, Once, Unseen
  <2>3. ASSUME Clean(m)' PROVE OneHolder(m)' /\ Unsent(m)' /\ SentOnce(m)'
    <3>1. Clean(m) /\ \A w \in Worker : m \notin work[w].at
      BY <2>3 DEF Clean, Crash
    <3>2. SentOnce(m)
      BY <3>1 DEF OnceInv, Once
    <3> QED BY <1>1, <1>2, <3>1, <3>2 DEF OneHolder, Unsent, SentOnce, Holds
  <2> QED BY <2>2, <2>3 DEF Once
<1> QED BY <1>3, <1>4 DEF OnceInv

\* The phone is asked once for a message, by whichever of the three ways, and
\* however often the bridge reconnects, unless the outcome could not be saved
\* or the message was converted again (sendMediaRequest, mediaRequestLoop).
THEOREM AskedOnce == Spec => []RequestedOnce
<1>1. Init => OnceInv
  <2> SUFFICES ASSUME Init PROVE OnceInv
    OBVIOUS
  <2>1. \A w \in Worker : work[w].todo = {} /\ work[w].at = {} /\ ~work[w].fresh
    BY DEF Init, Idle
  <2>2. OneAtATime /\ LoopSends
    BY <2>1 DEF Init, OneAtATime, LoopSends
  <2>3. ASSUME NEW m \in Msg PROVE Once(m)
    <3>1. table[m] = "none" /\ sends[m] = 0 /\ m \notin post \cup page
      BY DEF Init
    <3>2. \A w \in Worker : ~Holds(w, m)
      BY <2>1 DEF Holds
    <3> QED BY <2>1, <3>1, <3>2 DEF Once, Unseen, OneHolder, Unsent, SentOnce
  <2> QED BY <2>2, <2>3 DEF OnceInv
<1>2. TypeOK /\ OnceInv /\ [Next]_vars => OnceInv'
  <2> SUFFICES ASSUME TypeOK, OnceInv, [Next]_vars PROVE OnceInv'
    OBVIOUS
  <2>1. CASE UNCHANGED vars
    <3>1. \A m \in Msg : Once(m)'
      <4> SUFFICES ASSUME NEW m \in Msg PROVE Once(m)'
        OBVIOUS
      <4>1. Stays(m)
        BY <2>1 DEF vars, history, Stays, Clean
      <4> QED BY <4>1, Untouched DEF OnceInv
    <3> QED BY <2>1, <3>1 DEF vars, OnceInv, OneAtATime, LoopSends
  <2>2. CASE Next
    BY <2>2, SourceStepOnce, WorkerStepOnce, LoopStepOnce, AnswerStepOnce, CrashOnce DEF Next
  <2> QED BY <2>1, <2>2
<1>3. TypeOK /\ OnceInv => RequestedOnce
  BY DEF OnceInv, Once, Clean, SentOnce, RequestedOnce, TypeOK
<1> QED BY <1>1, <1>2, <1>3, TypeCorrect, PTL DEF Spec

-----------------------------------------------------------------------------
\* Media that arrived stays.

InHand(m)  == IF edit[m] # "idle" THEN 1 ELSE 0
Arrived(m) == IF shown[m] \in {"media", "notice"} THEN 1 ELSE 0

\* Every answer that is due, in hand or shown is one to a request of its own.
Answered == \A m \in Msg : asks[m] + InHand(m) + Arrived(m) <= sends[m]

LEMMA AnsweredStep ==
  ASSUME TypeOK, EditInRoom, Answered, Next
  PROVE  Answered'
<1> DEFINE Same(m) == asks'[m] = asks[m] /\ edit'[m] = edit[m] /\ sends'[m] = sends[m]
<1>0. /\ asks \in [Msg -> Nat] /\ sends \in [Msg -> Nat] /\ shown \in [Msg -> Shown]
      /\ edit \in [Msg -> {"idle", "waiting", "downloading"}]
  BY DEF TypeOK
<1>1. ASSUME NEW m \in Msg, Same(m), Arrived(m)' <= Arrived(m)
      PROVE  (asks[m] + InHand(m) + Arrived(m) <= sends[m])'
  <2>1. InHand(m)' = InHand(m) /\ InHand(m) \in Nat /\ Arrived(m) \in Nat /\ Arrived(m)' \in Nat
    BY <1>1 DEF InHand, Arrived
  <2>2. asks[m] + InHand(m) + Arrived(m) <= sends[m] /\ asks[m] \in Nat /\ sends[m] \in Nat
    BY <1>0 DEF Answered
  <2> QED BY <1>1, <2>1, <2>2
<1>2. ASSUME NEW n \in Msg, \A m \in Msg \ {n} : Same(m) /\ shown'[m] = shown[m],
             (asks[n] + InHand(n) + Arrived(n) <= sends[n])'
      PROVE  Answered'
  BY <1>1, <1>2 DEF Answered, Arrived
<1>3. CASE \/ \E n \in Msg, w \in Worker : Take(w, n) \/ CheckMessage(w, n) \/ SaveStatus(w, n)
                                            \/ ProcessFailedMedia(n, w)
           \/ \E w \in Worker : CompletePage(w)
           \/ Connect \/ Disconnect \/ Night
  <2>1. UNCHANGED <<asks, edit, sends, shown>>
    BY <1>3 DEF Take, CheckMessage, SaveStatus, ProcessFailedMedia, CompletePage, Connect,
                Disconnect, Night, history
  <2> QED BY <2>1 DEF Answered, InHand, Arrived
<1>4. ASSUME NEW n \in Msg, LiveMessage(n) PROVE Answered'
  <2>1. UNCHANGED <<asks, edit, sends>> /\ \A m \in Msg : shown'[m] = shown[m] \/ shown'[m] = "old"
    BY <1>0, <1>4 DEF LiveMessage, history
  <2> QED BY <1>1, <2>1 DEF Answered, Arrived
<1>5. ASSUME NEW S \in SUBSET Msg, FetchPage(S) PROVE Answered'
  <2>1. UNCHANGED <<asks, edit, sends>> /\ \A m \in Msg : shown'[m] = shown[m] \/ shown'[m] = "old"
    BY <1>0, <1>5 DEF FetchPage
  <2> QED BY <1>1, <2>1 DEF Answered, Arrived
<1>6. ASSUME NEW n \in Msg, NEW w \in Worker, SendRequest(w, n) PROVE Answered'
  <2>1. UNCHANGED <<edit, shown>> /\ \A m \in Msg \ {n} : asks'[m] = asks[m] /\ sends'[m] = sends[m]
    BY <1>0, <1>6 DEF SendRequest
  <2>2. \/ asks'[n] = asks[n] + 1 /\ sends'[n] = sends[n] + 1
        \/ asks'[n] = asks[n] /\ sends'[n] = sends[n]
    BY <1>0, <1>6 DEF SendRequest
  <2>3. asks[n] + InHand(n) + Arrived(n) <= sends[n] /\ asks[n] \in Nat /\ sends[n] \in Nat
    BY <1>0 DEF Answered
  <2>4. InHand(n)' = InHand(n) /\ Arrived(n)' = Arrived(n) /\ InHand(n) \in Nat /\ Arrived(n) \in Nat
    BY <2>1 DEF InHand, Arrived
  <2> QED BY <1>2, <2>1, <2>2, <2>3, <2>4
<1>7. ASSUME NEW n \in Msg, AnswerError(n) \/ AnswerPath(n) \/ EditNext(n) \/ Revoke(n)
      PROVE  Answered'
  <2>1. \A m \in Msg \ {n} : Same(m) /\ shown'[m] = shown[m]
    BY <1>0, <1>7 DEF AnswerError, AnswerPath, EditNext, AcquireRetryLock, MediaRetryToMatrix,
                      Revoke, history
  <2>2. asks[n] + InHand(n) + Arrived(n) <= sends[n] /\ asks[n] \in Nat /\ sends[n] \in Nat
        /\ sends' = sends
    BY <1>0, <1>7 DEF Answered, AnswerError, AnswerPath, EditNext, AcquireRetryLock,
                      MediaRetryToMatrix, Revoke, history
  <2>3. /\ InHand(n) \in {0, 1} /\ InHand(n)' \in {0, 1}
        /\ Arrived(n) \in {0, 1} /\ Arrived(n)' \in {0, 1}
    BY DEF InHand, Arrived
  <2>4. CASE AnswerError(n)
    <3>1. asks[n] > 0 /\ asks'[n] = asks[n] - 1 /\ edit' = edit
      BY <1>0, <2>4 DEF AnswerError
    <3>2. InHand(n)' = InHand(n)
      BY <3>1 DEF InHand
    <3> QED BY <1>2, <2>1, <2>2, <2>3, <3>1, <3>2
  <2>5. CASE AnswerPath(n)
    <3>1. asks[n] > 0 /\ asks'[n] = asks[n] - 1 /\ shown' = shown /\ edit[n] = "idle"
      BY <1>0, <2>5 DEF AnswerPath
    <3>2. Arrived(n)' = Arrived(n) /\ InHand(n) = 0
      BY <3>1 DEF InHand, Arrived
    <3> QED BY <1>2, <2>1, <2>2, <2>3, <3>1, <3>2
  <2>6. CASE AcquireRetryLock(n)
    <3>1. asks' = asks /\ shown' = shown /\ edit[n] = "waiting"
      BY <2>6 DEF AcquireRetryLock
    <3>2. Arrived(n)' = Arrived(n) /\ InHand(n) = 1
      BY <3>1 DEF InHand, Arrived
    <3> QED BY <1>2, <2>1, <2>2, <2>3, <3>1, <3>2
  <2>7. CASE MediaRetryToMatrix(n)
    <3>1. asks' = asks /\ edit[n] = "downloading" /\ edit'[n] = "idle"
      BY <1>0, <2>7 DEF MediaRetryToMatrix
    <3>2. InHand(n) = 1 /\ InHand(n)' = 0
      BY <3>1 DEF InHand
    <3> QED BY <1>2, <2>1, <2>2, <2>3, <3>1, <3>2
  <2>8. CASE Revoke(n)
    <3>1. asks' = asks /\ edit' = edit /\ shown'[n] = "gone"
      BY <1>0, <2>8 DEF Revoke
    <3>2. InHand(n)' = InHand(n) /\ Arrived(n)' = 0
      BY <3>1 DEF InHand, Arrived
    <3> QED BY <1>2, <2>1, <2>2, <2>3, <3>1, <3>2
  <2> QED BY <1>7, <2>4, <2>5, <2>6, <2>7, <2>8 DEF EditNext
<1>8. CASE Crash
  <2>1. UNCHANGED <<asks, shown, sends>> /\ \A m \in Msg : edit'[m] = "idle"
    BY <1>8 DEF Crash
  <2>2. ASSUME NEW m \in Msg PROVE (asks[m] + InHand(m) + Arrived(m) <= sends[m])'
    <3>1. InHand(m) \in {0, 1} /\ InHand(m)' = 0 /\ Arrived(m) \in {0, 1} /\ Arrived(m)' = Arrived(m)
      BY <2>1 DEF InHand, Arrived
    <3>2. asks[m] + InHand(m) + Arrived(m) <= sends[m] /\ asks[m] \in Nat /\ sends[m] \in Nat
      BY <1>0 DEF Answered
    <3> QED BY <2>1, <3>1, <3>2
  <2> QED BY <2>2 DEF Answered
<1> QED BY <1>3, <1>4, <1>5, <1>6, <1>7, <1>8 DEF Next, WorkerNext

LEMMA AlwaysAnswered == Spec => []Answered
<1>1. Init => Answered
  BY DEF Init, Answered, InHand, Arrived
<1>2. TypeOK /\ RequestInv /\ Answered /\ [Next]_vars => Answered'
  <2>1. UNCHANGED vars /\ Answered => Answered'
    BY DEF vars, history, Answered, InHand, Arrived
  <2> QED BY <2>1, AnsweredStep DEF RequestInv
<1> QED BY <1>1, <1>2, TypeCorrect, AlwaysRequestInv, PTL DEF Spec

\* An error only replaces media that arrived if the phone was asked twice:
\* there is no second answer to one request (WAMediaRetry.ConvertEdit).
THEOREM ArrivedMediaStays == Spec => MediaStays
<1> DEFINE SentAgain == \A m \in Msg : shown[m] = "media" /\ shown'[m] = "notice" => sends[m] > 1
<1>1. TypeOK /\ Answered /\ Next => SentAgain
  <2> SUFFICES ASSUME TypeOK, Answered, Next, NEW m \in Msg,
                      shown[m] = "media", shown'[m] = "notice"
               PROVE  sends[m] > 1
    OBVIOUS
  <2>1. \E n \in Msg : AnswerError(n) \/ MediaRetryToMatrix(n)
    <3>1. shown \in [Msg -> Shown] /\ shown' # shown
      BY DEF TypeOK
    <3>2. ASSUME NEW n \in Msg, LiveMessage(n) \/ Revoke(n) PROVE FALSE
      BY <3>1, <3>2 DEF LiveMessage, Revoke
    <3>3. ASSUME NEW S \in SUBSET Msg, FetchPage(S) PROVE FALSE
      BY <3>3 DEF FetchPage
    <3>4. ASSUME NEW n \in Msg, NEW w \in Worker,
                 \/ Take(w, n) \/ CheckMessage(w, n) \/ SendRequest(w, n) \/ SaveStatus(w, n)
                 \/ ProcessFailedMedia(n, w) \/ CompletePage(w) \/ AnswerPath(n)
                 \/ AcquireRetryLock(n) \/ Connect \/ Disconnect \/ Night \/ Crash
          PROVE  FALSE
      BY <3>1, <3>4
         DEF Take, CheckMessage, SendRequest, SaveStatus, CompletePage, ProcessFailedMedia,
             AnswerPath, AcquireRetryLock, Connect, Disconnect, Night, Crash, history
    <3> QED BY <3>2, <3>3, <3>4 DEF Next, WorkerNext, EditNext
  <2>2. PICK n \in Msg : AnswerError(n) \/ MediaRetryToMatrix(n)
    BY <2>1
  <2>3. m = n
    BY <2>2 DEF AnswerError, MediaRetryToMatrix, TypeOK
  <2>4. asks[m] > 0 \/ InHand(m) = 1
    BY <2>2, <2>3 DEF AnswerError, MediaRetryToMatrix, InHand
  <2>5. Arrived(m) = 1 /\ InHand(m) \in {0, 1} /\ asks[m] \in Nat /\ sends[m] \in Nat
    BY DEF Arrived, InHand, TypeOK
  <2>6. asks[m] + InHand(m) + Arrived(m) <= sends[m]
    BY DEF Answered
  <2> QED BY <2>4, <2>5, <2>6
<1>2. UNCHANGED vars => [SentAgain]_vars
  OBVIOUS
<1>3. TypeOK /\ Answered /\ [Next]_vars => [SentAgain]_vars
  BY <1>1, <1>2
<1> QED BY <1>3, TypeCorrect, AlwaysAnswered, PTL DEF Spec, MediaStays

=============================================================================
