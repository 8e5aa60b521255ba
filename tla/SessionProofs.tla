---------------------------- MODULE SessionProofs ----------------------------
(***************************************************************************)
(* Theorems about Session, for any number of intervals, codes, loops and   *)
(* waiting events: types, what a registered login stands for, the order of *)
(* the codes, who owns the loops, what the user is shown of the            *)
(* connection, and when a call panics.                                     *)
(***************************************************************************)
EXTENDS Session, TLAPS

USE LoginAssumption, ConnectionAssumption

-----------------------------------------------------------------------------
(* Types of the login.                                                     *)

LEMMA getQRIndexType ==
  ASSUME LoginTypeOK
  PROVE  getQRIndex \in (-1)..Intervals /\ getQRIndex + 1 \in 0..Intervals
BY DEF LoginTypeOK, getQRIndex

LEMMA AttemptType ==
  ASSUME LoginTypeOK, Attempt
  PROVE  LoginTypeOK'
<1> USE DEF LoginTypeOK, Goto, Cancel, Steps, Ended, callVars, qrVars, eventVars
<1>1. CASE Start      BY <1>1 DEF Start
<1>2. CASE FirstQR
  <2>1. closed' \in BOOLEAN
    BY <1>2, Zenon DEF FirstQR
  <2> QED BY <1>2, <2>1 DEF FirstQR
<1>3. CASE SubmitNumber BY <1>3 DEF SubmitNumber
<1>4. CASE ReadyToPair  BY <1>4 DEF ReadyToPair
<1>5. CASE PairPhone    BY <1>5 DEF PairPhone
<1>6. CASE Wait
  <2>1. getQRIndex \in (-1)..Intervals /\ getQRIndex + 1 \in 0..Intervals
    BY getQRIndexType
  <2> QED BY <1>6, <2>1 DEF Wait
<1>7. CASE NextQR
  <2>1. closed' \in BOOLEAN
    BY <1>7, Zenon DEF NextQR
  <2> QED BY <1>7, <2>1 DEF NextQR
<1>8. CASE Completed  BY <1>8 DEF Completed
<1>9. CASE Await515   BY <1>9 DEF Await515
<1>10. CASE GiveUp \/ WaitCancelled BY <1>10 DEF GiveUp, WaitCancelled
<1>11. CASE Server
  <2>1. CASE ReceiveQRs
    BY <2>1 DEF ReceiveQRs
  <2>2. ASSUME NEW err \in BOOLEAN, handleEvent(err)
        PROVE  /\ loginError' \in BOOLEAN /\ loginSuccess' \in BOOLEAN
               /\ loginComplete' \in BOOLEAN /\ received515' \in BOOLEAN
    BY <2>2, Zenon DEF handleEvent
  <2>3. CASE Scan \/ ScanFails \/ Drop
    <3>1. /\ loginError' \in BOOLEAN /\ loginSuccess' \in BOOLEAN
          /\ loginComplete' \in BOOLEAN /\ received515' \in BOOLEAN
      BY <2>2, <2>3 DEF Scan, ScanFails, Drop
    <3> QED BY <2>3, <3>1 DEF Scan, ScanFails, Drop
  <2>4. CASE Restart515
    <3>1. received515' \in BOOLEAN /\ loginComplete' \in BOOLEAN
      BY <2>4, Zenon DEF Restart515
    <3> QED BY <2>4, <3>1 DEF Restart515
  <2> QED BY <1>11, <2>1, <2>3, <2>4 DEF Server
<1>12. CASE Tick      BY <1>12 DEF Tick
<1> QED BY <1>1, <1>2, <1>3, <1>4, <1>5, <1>6, <1>7, <1>8, <1>9, <1>10,
           <1>11, <1>12 DEF Attempt, Calls

LEMMA RegisterType ==
  ASSUME LoginTypeOK, Register
  PROVE  LoginTypeOK'
BY DEF LoginTypeOK, Register, Goto, Steps, callVars, qrVars, eventVars

-----------------------------------------------------------------------------
(* Types of the connection.                                                *)

\* What FillBridgeState makes of a state is a state.
LEMMA FilledType ==
  ASSUME NEW s \in States
  PROVE  Filled(s) \in States
BY DEF Filled, States

LEMMA SetStateType ==
  ASSUME NEW s \in States, SetState(s)
  PROVE  shown' \in States /\ lied' \in BOOLEAN
BY FilledType DEF SetState

LEMMA NoEvents == <<>> \in Seq(Events) /\ Len(<<>>) <= MaxEvents
OBVIOUS

\* A handler takes an event off the queue.
LEMMA HandleType ==
  ASSUME ConnTypeOK, NEW e, Handle(e)
  PROVE  events' \in Seq(Events) /\ Len(events') <= MaxEvents
BY DEF ConnTypeOK, Handle

\* The library adds events within the bound.
LEMMA TellType ==
  ASSUME ConnTypeOK, NEW es \in Seq(Events), Tell(es)
  PROVE  events' \in Seq(Events) /\ Len(events') <= MaxEvents
BY DEF ConnTypeOK, Tell

LEMMA HandlersType ==
  ASSUME ConnTypeOK, Handlers
  PROVE  ConnTypeOK'
<1>1. PICK e : Handle(e)
  BY DEF Handlers, OnConnected, OnOfflineSyncCompleted, OnLoggedOut, OnDisconnected,
         OnFailure, OnKeepAliveTimeout, OnKeepAliveRestored, OnPhoneSeen
<1>2. events' \in Seq(Events) /\ Len(events') <= MaxEvents
  BY <1>1, HandleType
<1>3. {"connected", "transient", "error", "keepalive-timeout", "logged-out"} \subseteq States
  BY DEF States
<1>4. shown' \in States /\ lied' \in BOOLEAN /\ late' \in BOOLEAN
  BY <1>3, SetStateType
     DEF ConnTypeOK, Send, showState, Handlers, OnConnected, OnOfflineSyncCompleted,
         OnLoggedOut, OnDisconnected, OnFailure, OnKeepAliveTimeout,
         OnKeepAliveRestored, OnPhoneSeen
<1>5. waiter' \in {"nil", "empty", "ok", "error"}
  BY DEF ConnTypeOK, Notify, callState, Handlers, OnConnected, OnOfflineSyncCompleted,
         OnLoggedOut, OnDisconnected, OnFailure, OnKeepAliveTimeout,
         OnKeepAliveRestored, OnPhoneSeen
<1>6. /\ client' \in BOOLEAN /\ UNCHANGED <<device, call, stopLoops, loops, link>>
      /\ seen' \in {"never", "recent", "gone"}
      /\ profile' \in {"idle", "started", "checked"}
  BY DEF ConnTypeOK, callState, loopState, Handlers, OnConnected, OnOfflineSyncCompleted,
         OnLoggedOut, OnDisconnected, OnFailure, OnKeepAliveTimeout,
         OnKeepAliveRestored, OnPhoneSeen
<1> QED BY <1>2, <1>4, <1>5, <1>6 DEF ConnTypeOK

LEMMA LibraryType ==
  ASSUME ConnTypeOK, Library
  PROVE  ConnTypeOK'
<1>1. \/ UNCHANGED events
      \/ \E es \in Seq(Events) : Tell(es)
  <2>1. \A e \in Events : <<e>> \in Seq(Events)
    OBVIOUS
  <2>2. <<"stream-error", "disconnected">> \in Seq(Events)
    BY DEF Events, Failures
  <2>3. CASE LinkUp \/ OfflineSync \/ Stall \/ Unstall \/ PhoneActive
    BY <2>1, <2>2, <2>3 DEF LinkUp, OfflineSync, Stall, Unstall, PhoneActive, Events
  <2>4. CASE LinkLost
    BY <2>1, <2>2, <2>4 DEF LinkLost, Events
  <2>5. CASE Refuse
    BY <2>1, <2>2, <2>5 DEF Refuse, Events, Failures
  <2>6. CASE KeepAliveReconnect
    BY <2>6 DEF KeepAliveReconnect
  <2> QED BY <2>3, <2>4, <2>5, <2>6 DEF Library
<1>2. events' \in Seq(Events) /\ Len(events') <= MaxEvents
  BY <1>1, TellType DEF ConnTypeOK
<1>3. link' \in Links /\ device' \in BOOLEAN
  BY DEF ConnTypeOK, Links, Library, LinkUp, OfflineSync, LinkLost, Stall, Unstall,
         KeepAliveReconnect, Refuse, PhoneActive
<1>4. News
  BY DEF Library, LinkUp, OfflineSync, LinkLost, Stall, Unstall,
         KeepAliveReconnect, Refuse, PhoneActive
<1> QED BY <1>2, <1>3, <1>4 DEF ConnTypeOK, News, callState, loopState

\* The bridge's own calls, and what runs beside the handlers.
Bridge ==
  \/ Connect \/ ConnectPrepared \/ ConnectContext \/ Disconnect \/ LogoutRemote
  \/ BackgroundBegin \/ BackgroundDial \/ BackgroundEnd
  \/ ProfileCheck \/ ProfileSend \/ TimePasses \/ Restart

LEMMA BridgeShows ==
  ASSUME ConnTypeOK, Bridge
  PROVE  shown' \in States /\ lied' \in BOOLEAN /\ late' \in BOOLEAN
<1>1. {"not-logged-in", "connecting", "error", "connected", "none"} \subseteq States
  BY DEF States
<1>2. shown \in States /\ lied \in BOOLEAN /\ late \in BOOLEAN
  BY DEF ConnTypeOK
<1>3. CASE Connect
  <2>1. late' \in BOOLEAN
    BY <1>3 DEF Connect
  <2> QED BY <1>1, <1>3, <2>1, SetStateType DEF Connect
<1>4. CASE ConnectContext
  <2>1. UNCHANGED showState \/ Send("error")
    BY <1>4 DEF ConnectContext
  <2> QED BY <1>1, <1>2, <2>1, SetStateType DEF Send, showState
<1>5. CASE ProfileSend
  <2>1. lied' \in BOOLEAN
    BY <1>5, Zenon DEF ProfileSend
  <2>2. shown' \in States
    BY <1>1, <1>5, FilledType DEF ProfileSend
  <2>3. UNCHANGED late
    BY <1>5 DEF ProfileSend
  <2> QED BY <1>2, <2>1, <2>2, <2>3
<1>6. CASE Restart
  <2>1. lied' \in BOOLEAN /\ late' \in BOOLEAN
    BY <1>6, Zenon DEF Restart
  <2>2. shown' = "none"
    BY <1>6 DEF Restart
  <2> QED BY <1>1, <2>1, <2>2
<1>7. CASE \/ ConnectPrepared \/ Disconnect \/ LogoutRemote
           \/ BackgroundBegin \/ BackgroundDial \/ BackgroundEnd
           \/ ProfileCheck \/ TimePasses
  <2>1. UNCHANGED showState
    BY <1>7 DEF ConnectPrepared, Disconnect, LogoutRemote, BackgroundBegin,
                BackgroundDial, BackgroundEnd, ProfileCheck, TimePasses
  <2> QED BY <1>2, <2>1 DEF showState
<1> QED BY <1>3, <1>4, <1>5, <1>6, <1>7 DEF Bridge

LEMMA BridgeType ==
  ASSUME ConnTypeOK, Bridge
  PROVE  ConnTypeOK'
<1>1. shown' \in States /\ lied' \in BOOLEAN /\ late' \in BOOLEAN
  BY BridgeShows
<1>2. events' \in Seq(Events) /\ Len(events') <= MaxEvents
  <2>1. UNCHANGED events \/ events' = <<>>
    BY DEF Bridge, Connect, ConnectPrepared, ConnectContext, Disconnect, LogoutRemote,
           BackgroundBegin, BackgroundDial, BackgroundEnd, ProfileCheck, ProfileSend,
           TimePasses, Restart
  <2> QED BY <2>1, NoEvents DEF ConnTypeOK
<1>3. client' \in BOOLEAN /\ device' \in BOOLEAN
  <2>1. /\ client' \in {client, device, FALSE}
        /\ device' \in {device, FALSE}
    BY DEF Bridge, Connect, ConnectPrepared, ConnectContext, Disconnect, LogoutRemote,
           BackgroundBegin, BackgroundDial, BackgroundEnd, ProfileCheck, ProfileSend,
           TimePasses, Restart
  <2> QED BY <2>1 DEF ConnTypeOK
<1>4. call' \in CallSteps
  <2>1. \/ UNCHANGED call
        \/ call' \in {"idle", "connect", "dial", "bg-dial", "bg-wait", "panic"}
    BY DEF Bridge, Connect, ConnectPrepared, ConnectContext, Disconnect, LogoutRemote,
           BackgroundBegin, BackgroundDial, BackgroundEnd, ProfileCheck, ProfileSend,
           TimePasses, Restart, Return, callState
  <2> QED BY <2>1 DEF ConnTypeOK, CallSteps
<1>5. waiter' \in {"nil", "empty", "ok", "error"}
  <2>1. waiter' \in {waiter, "nil", "empty"}
    BY DEF Bridge, Connect, ConnectPrepared, ConnectContext, Disconnect, LogoutRemote,
           BackgroundBegin, BackgroundDial, BackgroundEnd, ProfileCheck, ProfileSend,
           TimePasses, Restart, Return, callState
  <2> QED BY <2>1 DEF ConnTypeOK
<1>6. stopLoops' \in Loops \cup {NoLoops} /\ loops' \subseteq Loops
  <2>1. \/ UNCHANGED loopState
        \/ CancelLoops
        \/ startLoops
        \/ stopLoops' = NoLoops /\ loops' = {}
    BY DEF Bridge, Connect, ConnectPrepared, ConnectContext, Disconnect, LogoutRemote,
           BackgroundBegin, BackgroundDial, BackgroundEnd, ProfileCheck, ProfileSend,
           TimePasses, Restart
  <2> QED BY <2>1 DEF ConnTypeOK, loopState, CancelLoops, startLoops
<1>7. link' \in Links
  <2>1. link' \in {link, "lost", "closed"}
    BY DEF Bridge, Connect, ConnectPrepared, ConnectContext, Disconnect, LogoutRemote,
           BackgroundBegin, BackgroundDial, BackgroundEnd, ProfileCheck, ProfileSend,
           TimePasses, Restart
  <2> QED BY <2>1 DEF ConnTypeOK, Links
<1>8. /\ seen' \in {"never", "recent", "gone"}
      /\ profile' \in {"idle", "started", "checked"}
  <2>1. seen' \in {seen, "gone"} /\ profile' \in {profile, "idle", "checked"}
    BY DEF Bridge, Connect, ConnectPrepared, ConnectContext, Disconnect, LogoutRemote,
           BackgroundBegin, BackgroundDial, BackgroundEnd, ProfileCheck, ProfileSend,
           TimePasses, Restart
  <2> QED BY <2>1 DEF ConnTypeOK
<1> QED BY <1>1, <1>2, <1>3, <1>4, <1>5, <1>6, <1>7, <1>8 DEF ConnTypeOK

LEMMA ConnType ==
  ASSUME ConnTypeOK, ConnNext
  PROVE  ConnTypeOK'
BY HandlersType, LibraryType, BridgeType DEF ConnNext, Bridge

-----------------------------------------------------------------------------
(* Types of both.                                                          *)

LEMMA InitType ==
  ASSUME Init
  PROVE  SessionTypeOK
<1>1. LoginTypeOK
  <2>1. /\ closed \in BOOLEAN /\ gotQRs \in BOOLEAN
        /\ loginError \in BOOLEAN /\ loginSuccess \in BOOLEAN
        /\ loginComplete \in BOOLEAN /\ received515 \in BOOLEAN
    BY Zenon DEF Init, LoginInit
  <2> QED BY <2>1 DEF Init, LoginInit, LoginTypeOK, Steps
<1>2. ConnTypeOK
  <2>1. client \in BOOLEAN /\ device \in BOOLEAN /\ lied \in BOOLEAN /\ late \in BOOLEAN
    BY Zenon DEF Init, ConnInit
  <2> QED BY <2>1 DEF Init, ConnInit, ConnTypeOK, CallSteps, Links, States
<1> QED BY <1>1, <1>2 DEF SessionTypeOK

LEMMA NextType ==
  ASSUME SessionTypeOK, [Next]_vars
  PROVE  SessionTypeOK'
<1> USE DEF SessionTypeOK
<1>1. CASE Attempt /\ UNCHANGED connVars
  BY <1>1, AttemptType DEF connVars, callState, loopState, showState, ConnTypeOK
<1>2. CASE NewLogin
  <2>1. LoginTypeOK'
    BY <1>2, RegisterType DEF NewLogin
  <2>2. ConnTypeOK'
    <3>1. client' \in BOOLEAN /\ device' \in BOOLEAN /\ late' \in BOOLEAN
      BY <1>2, Zenon DEF NewLogin, ConnTypeOK, showState
    <3>2. shown' \in States /\ lied' \in BOOLEAN
      BY <1>2, SetStateType DEF NewLogin, ConnTypeOK, States, showState
    <3> QED BY <1>2, <3>1, <3>2 DEF NewLogin, ConnTypeOK, CallSteps, loopState
  <2> QED BY <2>1, <2>2
<1>3. CASE ConnNext /\ UNCHANGED loginVars
  BY <1>3, ConnType DEF loginVars, callVars, qrVars, eventVars, LoginTypeOK
<1>4. CASE UNCHANGED vars
  BY <1>4 DEF vars, loginVars, callVars, qrVars, eventVars, connVars, callState,
              loopState, showState, LoginTypeOK, ConnTypeOK
<1> QED BY <1>1, <1>2, <1>3, <1>4 DEF Next

\* No event, call or restart takes a variable of the login or the connection
\* out of its range: the indexes that Wait computes stay within the codes, and
\* the bridge state is one of those the code sends.
THEOREM SessionTypeCorrect == Spec => []SessionTypeOK
<1>1. Init => SessionTypeOK
  BY InitType
<1>2. SessionTypeOK /\ [Next]_vars => SessionTypeOK'
  BY NextType
<1> QED BY <1>1, <1>2, PTL DEF Spec

-----------------------------------------------------------------------------
(* The outcome of an attempt.                                              *)

\* What WhatsApp has said so far is what the attempt has stored: it was paired
\* with PairSuccess, and Received515 follows the confirmation.
OutcomeInv ==
  /\ OutcomeIsReal
  /\ paired # "no" => loginSuccess
  /\ received515 => paired = "confirmed"
  /\ step = "new" => socket = "closed"

LEMMA OutcomeStep ==
  ASSUME OutcomeInv, [Next]_vars
  PROVE  OutcomeInv'
<1> USE DEF OutcomeInv, OutcomeIsReal, Goto, Cancel, callVars, qrVars, eventVars
<1>1. CASE Start \/ FirstQR
  BY <1>1 DEF Start, FirstQR
<1>2. CASE SubmitNumber \/ ReadyToPair \/ PairPhone
  BY <1>2 DEF SubmitNumber, ReadyToPair, PairPhone
<1>3. CASE Wait \/ NextQR
  BY <1>3 DEF Wait, NextQR
<1>4. CASE Completed \/ Await515 \/ GiveUp \/ WaitCancelled
  BY <1>4 DEF Completed, Await515, GiveUp, WaitCancelled
<1>5. ASSUME NEW err, handleEvent(err)
      PROVE  (loginSuccess \/ ~err => loginSuccess') /\ (received515' => received515)
  BY <1>5, Zenon DEF handleEvent
<1>6. CASE ReceiveQRs \/ Drop \/ Scan \/ ScanFails
  <2>1. CASE ReceiveQRs
    BY <2>1 DEF ReceiveQRs
  <2>2. CASE Drop \/ ScanFails
    <3>1. (loginSuccess => loginSuccess') /\ (received515' => received515)
      BY <1>5, <2>2, Zenon DEF Drop, ScanFails
    <3> QED BY <2>2, <3>1 DEF Drop, ScanFails
  <2>3. CASE Scan
    <3>1. loginSuccess' /\ (received515' => received515)
      BY <1>5, <2>3, Zenon DEF Scan
    <3> QED BY <2>3, <3>1 DEF Scan
  <2> QED BY <1>6, <2>1, <2>2, <2>3
<1>7. CASE Restart515
  BY <1>7 DEF Restart515
<1>8. CASE Tick
  BY <1>8 DEF Tick
<1>9. CASE NewLogin
  BY <1>9 DEF NewLogin, Register
<1>10. CASE UNCHANGED loginVars
  BY <1>10 DEF loginVars
<1> QED BY <1>1, <1>2, <1>3, <1>4, <1>6, <1>7, <1>8, <1>9, <1>10
        DEF Next, vars, Attempt, Calls, Server

\* A login is registered only for a confirmed pairing, and an attempt that is
\* over has closed its connection, in whatever order the events come.
THEOREM OutcomeSafe == Spec => []OutcomeIsReal
<1>1. Init => OutcomeInv
  BY DEF Init, LoginInit, OutcomeInv, OutcomeIsReal
<1>2. OutcomeInv /\ [Next]_vars => OutcomeInv'
  BY OutcomeStep
<1>3. OutcomeInv => OutcomeIsReal
  BY DEF OutcomeInv
<1> QED BY <1>1, <1>2, <1>3, PTL DEF Spec

-----------------------------------------------------------------------------
(* The loops.                                                              *)

\* A process without a bridge state has not called Connect, so it has no loops
\* when it begins to connect in the background.
LoopsInv ==
  /\ LoopsOwned
  /\ shown = "none" => loops = {} /\ call # "connect"

LEMMA SetStateShows ==
  ASSUME NEW s, s # "none", SetState(s)
  PROVE  shown' # "none"
BY DEF SetState, Filled

LEMMA LoopsStep ==
  ASSUME LoopsInv, [Next]_vars
  PROVE  LoopsInv'
<1> USE DEF LoopsInv, LoopsOwned, Background, callState, loopState, showState
<1>1. CASE NewLogin
  BY <1>1, SetStateShows DEF NewLogin
<1>2. CASE Connect
  BY <1>2, SetStateShows DEF Connect
<1>3. CASE ConnectPrepared
  BY <1>3 DEF ConnectPrepared, startLoops
<1>4. CASE ConnectContext
  BY <1>4, SetStateShows DEF ConnectContext, Send
<1>5. CASE Disconnect \/ LogoutRemote
  BY <1>5 DEF Disconnect, LogoutRemote, CancelLoops
<1>6. CASE BackgroundBegin \/ BackgroundDial
  BY <1>6 DEF BackgroundBegin, BackgroundDial, Return
<1>7. CASE BackgroundEnd
  BY <1>7 DEF BackgroundEnd, Return, CancelLoops
<1>8. CASE Handlers
  <2>1. UNCHANGED <<call, stopLoops, loops>>
    BY <1>8 DEF Handlers, OnConnected, OnOfflineSyncCompleted, OnLoggedOut,
         OnDisconnected, OnFailure, OnKeepAliveTimeout, OnKeepAliveRestored, OnPhoneSeen
  <2>2. shown' # "none" \/ UNCHANGED shown
    BY <1>8, SetStateShows DEF Send, Handlers, OnConnected, OnOfflineSyncCompleted,
         OnLoggedOut, OnDisconnected, OnFailure, OnKeepAliveTimeout,
         OnKeepAliveRestored, OnPhoneSeen
  <2> QED BY <2>1, <2>2
<1>9. CASE ProfileCheck \/ ProfileSend
  BY <1>9 DEF ProfileCheck, ProfileSend, Filled
<1>10. CASE Library
  BY <1>10 DEF News, Library, LinkUp, OfflineSync, LinkLost, Stall, Unstall,
         KeepAliveReconnect, Refuse, PhoneActive
<1>11. CASE TimePasses \/ Restart
  BY <1>11 DEF TimePasses, Restart
<1>12. CASE UNCHANGED connVars
  BY <1>12 DEF connVars
<1> QED BY <1>1, <1>2, <1>3, <1>4, <1>5, <1>6, <1>7, <1>8, <1>9, <1>10, <1>11, <1>12
        DEF Next, vars, ConnNext

\* However often the bridge connects, disconnects and is logged out, the loops
\* that run are those that the next Disconnect stops, and a process that only
\* connects in the background runs none.
THEOREM LoopsSafe == Spec => []LoopsOwned
<1>1. Init => LoopsInv
  BY DEF Init, ConnInit, LoopsInv, LoopsOwned, Background
<1>2. LoopsInv /\ [Next]_vars => LoopsInv'
  BY LoopsStep
<1>3. LoopsInv => LoopsOwned
  BY DEF LoopsInv
<1> QED BY <1>1, <1>2, <1>3, PTL DEF Spec

-----------------------------------------------------------------------------
(* The codes.                                                              *)

\* Without a phone number, the codes come once, before any is shown: the clock
\* does not go back any more, and the index Wait computes is not behind the
\* code shown, unless all intervals have passed.
CodesInv ==
  ~phoneCode =>
    /\ step \notin {"number", "rejected", "pairing"}
    /\ step = "new" => socket = "closed"
    /\ step = "new" \/ socket = "open" => ~gotQRs
    /\ step \in {"new", "connecting"} => prevQR = 0
    /\ step \in {"shown", "waiting"} => code = prevQR /\ prevQR <= clock /\ socket # "open"
    /\ step = "waiting" => nextQR > prevQR \/ clock = Intervals

LEMMA CodesStep ==
  ASSUME LoginTypeOK, CodesInv, [Next]_vars
  PROVE  CodesInv'
<1> USE DEF CodesInv, Goto, Cancel, callVars, qrVars, eventVars
<1>1. CASE Start \/ FirstQR
  BY <1>1 DEF Start, FirstQR, LoginTypeOK
<1>2. CASE SubmitNumber \/ ReadyToPair \/ PairPhone
  BY <1>2 DEF SubmitNumber, ReadyToPair, PairPhone
<1>3. CASE Wait
  BY <1>3 DEF Wait, getQRIndex, LoginTypeOK
<1>4. CASE NextQR
  BY <1>4 DEF NextQR, LoginTypeOK
<1>5. CASE Completed \/ Await515 \/ GiveUp \/ WaitCancelled
  BY <1>5 DEF Completed, Await515, GiveUp, WaitCancelled
<1>6. CASE ReceiveQRs
  BY <1>6 DEF ReceiveQRs
<1>7. CASE Scan \/ ScanFails \/ Restart515 \/ Drop
  BY <1>7 DEF Scan, ScanFails, Restart515, Drop
<1>8. CASE Tick
  BY <1>8 DEF Tick, LoginTypeOK
<1>9. CASE NewLogin
  BY <1>9 DEF NewLogin, Register
<1>10. CASE UNCHANGED loginVars
  BY <1>10 DEF loginVars
<1> QED BY <1>1, <1>2, <1>3, <1>4, <1>5, <1>6, <1>7, <1>8, <1>9, <1>10
        DEF Next, vars, Attempt, Calls, Server

\* A user who asks again and again is never shown the same code twice, nor an
\* older one, while there is one that has not expired.
THEOREM CodesSafe == Spec => CodesAdvance
<1> DEFINE Later == (Wait \/ NextQR) => (step' # "shown" \/ code' > code \/ clock = Intervals)
<1>1. Init => LoginTypeOK /\ CodesInv
  BY InitType DEF Init, LoginInit, CodesInv, SessionTypeOK
<1>2. SessionTypeOK /\ CodesInv /\ [Next]_vars => CodesInv'
  BY CodesStep DEF SessionTypeOK
<1>3. SessionTypeOK /\ CodesInv /\ [Next]_vars => [Later]_loginVars
  <2> SUFFICES ASSUME SessionTypeOK, CodesInv, [Next]_vars PROVE Later
    OBVIOUS
  <2>1. CASE Wait
    BY <2>1 DEF Wait, CodesInv, LoginTypeOK, SessionTypeOK
  <2>2. CASE NextQR
    BY <2>2 DEF NextQR, CodesInv, LoginTypeOK, SessionTypeOK
  <2> QED BY <2>1, <2>2
<1>4. Spec => [][Later]_loginVars
  BY <1>1, <1>2, <1>3, SessionTypeCorrect, PTL DEF Spec
<1> QED BY <1>4 DEF CodesAdvance

-----------------------------------------------------------------------------
(* What the user is shown.                                                 *)

\* A socket that is up belongs to a device that WhatsApp knows, and what was
\* said before Connect is handled; a call that is about to connect finds the
\* socket down, with nothing to be told of it.
Standing ==
  /\ device => client
  /\ link \in Up => device /\ ~late
  /\ \A i \in DOMAIN events : events[i] = "logged-out" => ~device
  /\ call = "bg-dial" => link = "closed"
  /\ call \in {"connect", "dial"} =>
       /\ link \in {"closed", "off"}
       /\ ~late => /\ events = <<>> /\ (lied \/ shown = "connecting")
                   /\ link = "off" => client
  /\ step # "done" => ConnInit

\* The events that a socket's last news can have been.
Tells(l) == CASE l = "fresh"   -> {"connected"}
              [] l = "on"      -> {"offline-sync", "keepalive-restored"}
              [] l = "stalled" -> {"keepalive-timeout"}
              [] l = "lost"    -> {"disconnected", "keepalive-timeout"}
              [] l = "off"     -> {"connect-failure", "ban", "stream-replaced", "logged-out"}
              [] OTHER         -> {}

\* The last event that is news of the socket, and not of the phone.
IsLast(s, i) ==
  i \in DOMAIN s /\ s[i] # "phone" /\ \A j \in DOMAIN s : j > i => s[j] = "phone"

\* ShownIsTrue, but for when it is asked.
Right ==
  /\ link \in {"fresh", "on"} =>
       shown = "connected" \/ (shown = "phone-offline" /\ ~PhoneRecentlySeen)
  /\ ~lied =>
       /\ link \in {"off", "lost"} => shown # "connected" \/ ~PhoneRecentlySeen
       /\ link = "stalled" => shown # "connected"
       /\ link = "off" /\ ~client => shown \in {"logged-out", "not-logged-in", "error"}

\* Connect's own news, or that of a process in the background, may come after
\* events of an older socket.
Current == /\ link # "closed" /\ ~late /\ call # "panic"
           /\ ~(call = "bg-wait" /\ link = "lost")

\* The events that wait end with the news of the socket as it is, and once no
\* news is left the state shown is right.  Of a socket that is down or stalled
\* the phone is not heard after the news.
Heard ==
  Current =>
    /\ \A i \in DOMAIN events : IsLast(events, i) => events[i] \in Tells(link)
    /\ link \notin {"fresh", "on"} => \A i \in DOMAIN events : i = Len(events) => events[i] # "phone"
    /\ (\A i \in DOMAIN events : events[i] = "phone") => Right

LEMMA NoEventWaits == DOMAIN <<>> = {}
OBVIOUS

\* A handler leaves the events after the one it takes.
LEMMA Handled ==
  ASSUME ConnTypeOK, NEW e, Handle(e)
  PROVE  /\ events # <<>> /\ events' = Tail(events) /\ 1 \in DOMAIN events /\ events[1] = e
         /\ Len(events) \in Nat /\ DOMAIN events = 1..Len(events)
         /\ Len(events') = Len(events) - 1 /\ DOMAIN events' = 1..Len(events) - 1
         /\ \A i \in DOMAIN events' : i+1 \in DOMAIN events /\ events'[i] = events[i+1]
<1>1. events \in Seq(Events) /\ events # <<>> /\ Head(events) = e /\ events' = Tail(events)
  BY DEF ConnTypeOK, Handle
<1> QED BY <1>1

\* The library's news goes to the end.
LEMMA Told ==
  ASSUME ConnTypeOK, NEW es \in Seq(Events), Tell(es)
  PROVE  /\ events' = events \o es
         /\ Len(events) \in Nat /\ DOMAIN events = 1..Len(events)
         /\ Len(es) \in Nat /\ DOMAIN es = 1..Len(es)
         /\ Len(events') = Len(events) + Len(es)
         /\ DOMAIN events' = 1..(Len(events) + Len(es))
         /\ \A i \in DOMAIN events : i \in DOMAIN events' /\ events'[i] = events[i]
         /\ \A i \in DOMAIN es : events'[Len(events) + i] = es[i]
         /\ \A i \in DOMAIN events' :
              \/ i \in DOMAIN events
              \/ i - Len(events) \in DOMAIN es /\ events'[i] = es[i - Len(events)]
<1>1. events \in Seq(Events) /\ events' = events \o es
  BY DEF ConnTypeOK, Tell
<1> QED BY <1>1

\* A step of the library tells of the new state of the socket, but for the one
\* that gives a stalled connection up, and for what the phone sends.
LEMMA LibrarySays ==
  ASSUME ConnTypeOK, Library
  PROVE  /\ News /\ link \in {"lost", "fresh", "on", "stalled"}
         /\ device' \in {device, FALSE}
         /\ link' \in Up => device' = device /\ (link \in Up \/ device)
         /\ \/ \E e \in Tells(link') : Tell(<<e>>) /\ (e = "logged-out" => device' = FALSE)
            \/ link' = "lost" /\ Tell(<<"stream-error", "disconnected">>)
            \/ link = "stalled" /\ link' = "lost" /\ UNCHANGED events
            \/ link \in {"fresh", "on"} /\ link' = link /\ Tell(<<"phone">>)
<1> USE DEF Up, Tells
<1>1. CASE LinkUp \/ OfflineSync
  BY <1>1 DEF LinkUp, OfflineSync
<1>2. CASE LinkLost
  BY <1>2 DEF LinkLost
<1>3. CASE Stall \/ Unstall
  BY <1>3 DEF Stall, Unstall
<1>4. CASE KeepAliveReconnect \/ PhoneActive
  BY <1>4 DEF KeepAliveReconnect, PhoneActive
<1>5. CASE Refuse
  BY <1>5 DEF Refuse
<1> QED BY <1>1, <1>2, <1>3, <1>4, <1>5 DEF Library

\* What a handler leaves alone, and that only a logout takes the client away.
LEMMA HandlersKeep ==
  ASSUME Handlers
  PROVE  /\ UNCHANGED <<device, call, link, late>>
         /\ \E e : Handle(e) /\ (client' = client \/ (e = "logged-out" /\ client' = FALSE))
<1> USE DEF callState, Send, showState
<1>1. CASE OnConnected \/ OnOfflineSyncCompleted \/ OnLoggedOut
  BY <1>1 DEF OnConnected, OnOfflineSyncCompleted, OnLoggedOut
<1>2. CASE OnDisconnected \/ OnFailure
  BY <1>2 DEF OnDisconnected, OnFailure
<1>3. CASE OnKeepAliveTimeout \/ OnKeepAliveRestored \/ OnPhoneSeen
  BY <1>3 DEF OnKeepAliveTimeout, OnKeepAliveRestored, OnPhoneSeen
<1> QED BY <1>1, <1>2, <1>3 DEF Handlers

\* The events keep telling of a logout only if the device is gone.
LEMMA TellsOfLogout ==
  ASSUME ConnTypeOK, Standing, NEW es \in Seq(Events), Tell(es),
         device' \in {device, FALSE},
         \A j \in DOMAIN es : es[j] = "logged-out" => device' = FALSE
  PROVE  \A i \in DOMAIN events' : events'[i] = "logged-out" => ~device'
<1>1. ASSUME NEW i \in DOMAIN events', events'[i] = "logged-out"
      PROVE  ~device'
  <2>1. CASE i \in DOMAIN events
    <3>1. events'[i] = events[i]
      BY <2>1, Told
    <3> QED BY <1>1, <2>1, <3>1 DEF Standing
  <2>2. CASE i - Len(events) \in DOMAIN es /\ events'[i] = es[i - Len(events)]
    BY <1>1, <2>2
  <2> QED BY <1>1, <2>1, <2>2, Told
<1> QED BY <1>1

LEMMA StandingStep ==
  ASSUME SessionTypeOK, Standing, [Next]_vars
  PROVE  Standing'
<1>1. ConnTypeOK
  BY DEF SessionTypeOK
<1>2. CASE UNCHANGED <<step, connVars>>
  BY <1>2 DEF connVars, callState, loopState, showState, Standing, ConnInit
<1>3. CASE Attempt /\ UNCHANGED connVars
  <2>1. step' # "done" \/ step' = step
    BY <1>3 DEF Attempt, Calls, Server, Start, FirstQR, SubmitNumber, ReadyToPair, PairPhone,
                Wait, NextQR, Completed, Await515, GiveUp, WaitCancelled, ReceiveQRs, Scan,
                ScanFails, Restart515, Drop, Tick, Goto, callVars
  <2> QED BY <1>3, <2>1
       DEF connVars, callState, loopState, showState, Standing, ConnInit, Attempt, Calls, Server,
           Start, FirstQR, SubmitNumber, ReadyToPair, PairPhone, Wait, NextQR, Completed,
           Await515, GiveUp, WaitCancelled, ReceiveQRs, Scan, ScanFails, Restart515, Drop,
           Tick, Goto, callVars
<1>4. CASE NewLogin
  <2>1. ConnInit
    BY <1>4 DEF NewLogin, Register, Standing
  <2>2. events' = <<>> /\ link' = "closed" /\ ~late'
    BY <1>4, <2>1 DEF NewLogin, ConnInit, loopState, showState
  <2>3. CASE step' = "done"
    <3>1. client' /\ call' = "connect" /\ shown' = "connecting"
      BY <1>4, <2>3 DEF NewLogin, SetState, Filled
    <3>2. DOMAIN events' = {}
      BY <2>2, NoEventWaits
    <3> QED BY <2>2, <2>3, <3>1, <3>2 DEF Standing, Up
  <2>4. CASE step' # "done"
    <3>1. UNCHANGED connVars /\ step # "done"
      BY <1>4, <2>4 DEF NewLogin, Register, connVars, callState, loopState, showState
    <3> QED BY <2>1, <3>1
         DEF connVars, callState, loopState, showState, Standing, ConnInit
  <2> QED BY <2>3, <2>4
<1>5. CASE step = "done" /\ step' = "done" /\ ConnNext
  <2>1. CASE Handlers
    <3>1. PICK e : Handle(e) /\ (client' = client \/ (e = "logged-out" /\ client' = FALSE))
      BY <2>1, HandlersKeep
    <3>2. UNCHANGED <<device, call, link, late>>
      BY <2>1, HandlersKeep
    <3>3. /\ events # <<>> /\ 1 \in DOMAIN events /\ events[1] = e
          /\ \A i \in DOMAIN events' : i+1 \in DOMAIN events /\ events'[i] = events[i+1]
      BY <1>1, <3>1, Handled
    <3>4. device' => client'
      <4>1. CASE client' = client
        BY <3>2, <4>1 DEF Standing
      <4>2. CASE e = "logged-out"
        BY <3>2, <3>3, <4>2 DEF Standing
      <4> QED BY <3>1, <4>1, <4>2
    <3>5. \A i \in DOMAIN events' : events'[i] = "logged-out" => ~device'
      BY <3>2, <3>3 DEF Standing
    <3> QED BY <1>5, <3>2, <3>3, <3>4, <3>5 DEF Standing
  <2>2. CASE Library
    <3>1. /\ News /\ link \in {"lost", "fresh", "on", "stalled"}
          /\ device' \in {device, FALSE}
          /\ link' \in Up => device' = device /\ (link \in Up \/ device)
      BY <1>1, <2>2, LibrarySays
    <3>2. \A i \in DOMAIN events' : events'[i] = "logged-out" => ~device'
      <4>1. CASE UNCHANGED events
        BY <3>1, <4>1 DEF Standing
      <4>2. ASSUME NEW e \in Tells(link'), Tell(<<e>>), e = "logged-out" => device' = FALSE
            PROVE  \A i \in DOMAIN events' : events'[i] = "logged-out" => ~device'
        <5>1. e \in Events
          BY <4>2 DEF Tells, Events, Failures
        <5>2. <<e>> \in Seq(Events) /\ \A j \in DOMAIN <<e>> : <<e>>[j] = e
          BY <5>1
        <5> QED BY <1>1, <3>1, <4>2, <5>2, TellsOfLogout
      <4>3. CASE Tell(<<"stream-error", "disconnected">>)
        <5>1. "stream-error" \in Events /\ "disconnected" \in Events
          BY DEF Events, Failures
        <5>2. <<"stream-error", "disconnected">> \in Seq(Events)
          BY <5>1
        <5>3. \A j \in DOMAIN <<"stream-error", "disconnected">> :
                <<"stream-error", "disconnected">>[j] # "logged-out"
          OBVIOUS
        <5> QED BY <1>1, <3>1, <4>3, <5>2, <5>3, TellsOfLogout
      <4>4. CASE Tell(<<"phone">>)
        <5>1. "phone" \in Events
          BY DEF Events
        <5>2. <<"phone">> \in Seq(Events)
          BY <5>1
        <5>3. \A j \in DOMAIN <<"phone">> : <<"phone">>[j] # "logged-out"
          OBVIOUS
        <5> QED BY <1>1, <3>1, <4>4, <5>2, <5>3, TellsOfLogout
      <4> QED BY <1>1, <2>2, <4>1, <4>2, <4>3, <4>4, LibrarySays
    <3>3. UNCHANGED <<client, call>> /\ ~late'
      BY <3>1 DEF News, callState
    <3>4. device' => client'
      BY <3>1, <3>3 DEF Standing
    <3>5. link' \in Up => device'
      BY <3>1 DEF Standing
    <3> QED BY <1>5, <3>1, <3>2, <3>3, <3>4, <3>5 DEF Standing, Up
  <2>3. CASE Connect
    <3>1. UNCHANGED <<client, device, link, events>> /\ link \in {"closed", "off"}
      BY <2>3 DEF Connect
    <3>2. /\ call' = "idle" \/ (call' = "connect" /\ client /\ shown' = "connecting")
          /\ ~late' => events = <<>>
      BY <2>3 DEF Connect, SetState, Filled
    <3> QED BY <1>5, <3>1, <3>2 DEF Standing, Up
  <2>11. CASE ConnectPrepared
    BY <1>5, <2>11 DEF ConnectPrepared, Standing, Up, loopState, showState
  <2>4. CASE ConnectContext
    BY <1>5, <2>4 DEF ConnectContext, Send, Standing, Up, loopState, showState
  <2>5. CASE Disconnect \/ LogoutRemote
    BY <1>5, <2>5 DEF Disconnect, LogoutRemote, Standing, Up, callState, showState
  <2>6. CASE BackgroundBegin \/ BackgroundDial \/ BackgroundEnd
    BY <1>5, <2>6 DEF BackgroundBegin, BackgroundDial, BackgroundEnd, Return, Standing, Up, showState
  <2>7. CASE ProfileCheck
    BY <1>5, <2>7 DEF ProfileCheck, Standing, Up, callState, showState
  <2>8. CASE ProfileSend
    BY <1>5, <2>8 DEF ProfileSend, Standing, Up, callState
  <2>9. CASE TimePasses
    BY <1>5, <2>9 DEF TimePasses, Standing, Up, callState, showState
  <2>10. CASE Restart
    <3>1. DOMAIN events' = {}
      BY <2>10, NoEventWaits DEF Restart
    <3>2. (device' => client') /\ link' = "closed" /\ call' = "idle"
      BY <2>10 DEF Restart, Standing
    <3> QED BY <1>5, <3>1, <3>2 DEF Standing, Up
  <2> QED BY <1>5, <2>1, <2>2, <2>3, <2>4, <2>5, <2>6, <2>7, <2>8, <2>9, <2>10, <2>11
         DEF ConnNext
<1> QED BY <1>2, <1>3, <1>4, <1>5 DEF Next, vars, loginVars, callVars

\* What the phone sends finds the state right, or makes it so.
LEMMA PhoneHeard ==
  ASSUME ConnTypeOK, Standing, Right, OnPhoneSeen, link \in {"fresh", "on"}
  PROVE  Right'
<1>1. client /\ link' = link /\ seen' = "recent" /\ shown' \in {shown, "connected"}
  BY DEF Standing, Up, OnPhoneSeen, showState
<1>2. CASE shown = "connected"
  BY <1>1, <1>2 DEF Right
<1>3. CASE shown = "phone-offline" /\ ~PhoneRecentlySeen
  <2>1. shown' = "connected"
    BY <1>1, <1>3 DEF OnPhoneSeen, Up
  <2> QED BY <1>1, <2>1 DEF Right
<1> QED BY <1>2, <1>3 DEF Right

\* The handler of the last news of a socket shows what the socket is.
LEMMA NewsHandled ==
  ASSUME ConnTypeOK, Handlers, NEW e, Handle(e), e \in Tells(link)
  PROVE  Right'
<1> USE DEF Tells, Send, SetState, Filled, PhoneRecentlySeen, Right, callState, showState, Handle
<1>1. CASE OnConnected
  BY <1>1 DEF OnConnected
<1>2. CASE OnOfflineSyncCompleted
  BY <1>2 DEF OnOfflineSyncCompleted
<1>3. CASE OnLoggedOut
  BY <1>3 DEF OnLoggedOut
<1>4. CASE OnDisconnected
  BY <1>4 DEF OnDisconnected
<1>5. CASE OnFailure
  BY <1>5 DEF OnFailure, Failures
<1>6. CASE OnKeepAliveTimeout
  BY <1>6 DEF OnKeepAliveTimeout
<1>7. CASE OnKeepAliveRestored
  BY <1>7 DEF OnKeepAliveRestored
<1>8. CASE OnPhoneSeen
  BY <1>8 DEF OnPhoneSeen
<1> QED BY <1>1, <1>2, <1>3, <1>4, <1>5, <1>6, <1>7, <1>8 DEF Handlers

\* The first event, if only the phone is heard after it, is the last news; and
\* the last news stays the last when the first event is taken.
LEMMA HeardOfHandlers ==
  ASSUME ConnTypeOK, Standing, Heard, Handlers, Current'
  PROVE  Heard'
<1>1. PICK e : Handle(e)
  BY HandlersKeep
<1>2. UNCHANGED <<device, call, link, late>>
  BY HandlersKeep
<1>3. Current
  BY <1>2 DEF Current
<1>4. /\ events # <<>> /\ events' = Tail(events) /\ 1 \in DOMAIN events /\ events[1] = e
      /\ Len(events) \in Nat /\ DOMAIN events = 1..Len(events)
      /\ Len(events') = Len(events) - 1 /\ DOMAIN events' = 1..Len(events) - 1
      /\ \A i \in DOMAIN events' : i+1 \in DOMAIN events /\ events'[i] = events[i+1]
  BY <1>1, Handled
<1>5. \A i \in DOMAIN events : i > 1 => i-1 \in DOMAIN events' /\ events'[i-1] = events[i]
  BY <1>4
<1>6. ASSUME NEW i \in DOMAIN events', IsLast(events', i)
      PROVE  events'[i] \in Tells(link')
  <2>1. i+1 \in DOMAIN events /\ events[i+1] = events'[i] /\ i \in Nat
    BY <1>4
  <2>2. ASSUME NEW j \in DOMAIN events, j > i+1
        PROVE  events[j] = "phone"
    <3>1. j-1 \in DOMAIN events' /\ j-1 > i /\ events'[j-1] = events[j]
      BY <1>4, <1>5, <2>1, <2>2
    <3> QED BY <1>6, <3>1 DEF IsLast
  <2>3. IsLast(events, i+1)
    BY <1>6, <2>1, <2>2 DEF IsLast
  <2> QED BY <1>2, <1>3, <2>1, <2>3 DEF Heard
<1>7. ASSUME link' \notin {"fresh", "on"}, NEW i \in DOMAIN events', i = Len(events')
      PROVE  events'[i] # "phone"
  <2>1. i+1 \in DOMAIN events /\ i+1 = Len(events) /\ events'[i] = events[i+1]
    BY <1>4, <1>7
  <2> QED BY <1>2, <1>3, <1>7, <2>1 DEF Heard
<1>8. ASSUME \A i \in DOMAIN events' : events'[i] = "phone"
      PROVE  Right'
  <2>1. \A i \in DOMAIN events : i > 1 => events[i] = "phone"
    BY <1>5, <1>8
  <2>2. CASE e = "phone"
    <3>1. \A i \in DOMAIN events : events[i] = "phone"
      <4>1. \A i \in DOMAIN events : i = 1 \/ i > 1
        BY <1>4
      <4> QED BY <1>4, <2>1, <2>2, <4>1
    <3>2. Right
      BY <1>3, <3>1 DEF Heard
    <3>3. Len(events) \in DOMAIN events
      BY <1>4
    <3>4. link \in {"fresh", "on"}
      BY <1>3, <3>1, <3>3 DEF Heard
    <3>5. OnPhoneSeen
      BY <1>1, <2>2 DEF Handlers, Handle, OnConnected, OnOfflineSyncCompleted, OnLoggedOut,
                        OnDisconnected, OnFailure, Failures, OnKeepAliveTimeout,
                        OnKeepAliveRestored
    <3> QED BY <3>2, <3>4, <3>5, PhoneHeard
  <2>3. CASE e # "phone"
    <3>1. IsLast(events, 1)
      BY <1>4, <2>1, <2>3 DEF IsLast
    <3>2. e \in Tells(link)
      BY <1>3, <1>4, <3>1 DEF Heard
    <3> QED BY <1>1, <3>2, NewsHandled
  <2> QED BY <2>2, <2>3
<1> QED BY <1>6, <1>7, <1>8 DEF Heard

\* What the library tells is the last news, unless the phone is heard.
LEMMA HeardOfLibrary ==
  ASSUME ConnTypeOK, Standing, Heard, Library, call # "panic", Current'
  PROVE  Heard'
<1>1. /\ late' = FALSE
      /\ UNCHANGED <<client, call, shown, lied, seen>>
  BY LibrarySays DEF News, callState
<1>2. ASSUME NEW e \in Tells(link'), Tell(<<e>>)
      PROVE  Heard'
  <2>1. e # "phone" /\ e \in Events
    BY <1>2 DEF Tells, Events, Failures
  <2>2. <<e>> \in Seq(Events) /\ Len(<<e>>) = 1 /\ <<e>>[1] = e /\ 1 \in DOMAIN <<e>>
    BY <2>1
  <2>3. /\ Len(events) \in Nat /\ DOMAIN events' = 1..(Len(events) + 1)
        /\ Len(events') = Len(events) + 1
        /\ events'[Len(events) + 1] = e
    BY <1>2, <2>2, Told
  <2>4. \A i \in DOMAIN events' : i = Len(events) + 1 \/ Len(events) + 1 > i
    BY <2>3
  <2>5. Len(events) + 1 \in DOMAIN events'
    BY <2>3
  <2>6. \A i \in DOMAIN events' : IsLast(events', i) => i = Len(events) + 1
    BY <2>1, <2>3, <2>4, <2>5 DEF IsLast
  <2> QED BY <1>2, <2>1, <2>3, <2>5, <2>6 DEF Heard
<1>3. ASSUME link' = "lost", Tell(<<"stream-error", "disconnected">>)
      PROVE  Heard'
  <2>1. <<"stream-error", "disconnected">> \in Seq(Events)
    BY DEF Events, Failures
  <2>2. /\ Len(events) \in Nat /\ DOMAIN events' = 1..(Len(events) + 2)
        /\ Len(events') = Len(events) + 2
        /\ events'[Len(events) + 2] = "disconnected"
    <3>1. LET es == <<"stream-error", "disconnected">>
          IN  Len(es) = 2 /\ es[2] = "disconnected" /\ 2 \in DOMAIN es
      OBVIOUS
    <3> QED BY <1>3, <2>1, <3>1, Told
  <2>3. \A i \in DOMAIN events' : i = Len(events) + 2 \/ Len(events) + 2 > i
    BY <2>2
  <2>4. Len(events) + 2 \in DOMAIN events'
    BY <2>2
  <2>5. \A i \in DOMAIN events' : IsLast(events', i) => i = Len(events) + 2
    BY <2>2, <2>3, <2>4 DEF IsLast
  <2> QED BY <1>3, <2>2, <2>4, <2>5 DEF Heard, Tells
<1>4. CASE link = "stalled" /\ link' = "lost" /\ UNCHANGED events
  <2>1. Current
    BY <1>1, <1>4 DEF Current, Standing, Up
  <2>2. Right => Right'
    BY <1>1, <1>4 DEF Right, PhoneRecentlySeen
  <2>3. \A i \in DOMAIN events' : IsLast(events', i) => events'[i] \in Tells(link')
    BY <1>4, <2>1 DEF Heard, Tells
  <2> QED BY <1>4, <2>1, <2>2, <2>3 DEF Heard
<1>5. CASE link \in {"fresh", "on"} /\ link' = link /\ Tell(<<"phone">>)
  <2>1. Current
    BY <1>1, <1>5 DEF Current, Standing, Up
  <2>2. Right => Right'
    BY <1>1, <1>5 DEF Right, PhoneRecentlySeen
  <2>3. <<"phone">> \in Seq(Events) /\ Len(<<"phone">>) = 1
    BY DEF Events
  <2>4. /\ Len(events) \in Nat /\ DOMAIN events = 1..Len(events)
        /\ DOMAIN events' = 1..(Len(events) + 1)
        /\ \A i \in DOMAIN events : i \in DOMAIN events' /\ events'[i] = events[i]
        /\ \A i \in DOMAIN events' : i \in DOMAIN events \/ events'[i] = "phone"
    <3>1. \A i \in DOMAIN <<"phone">> : <<"phone">>[i] = "phone"
      OBVIOUS
    <3>2. /\ DOMAIN events' = 1..(Len(events) + 1)
          /\ \A i \in DOMAIN events : i \in DOMAIN events' /\ events'[i] = events[i]
      BY <1>5, <2>3, Told
    <3>3. \A i \in DOMAIN events' :
            \/ i \in DOMAIN events
            \/ /\ i - Len(events) \in DOMAIN <<"phone">>
               /\ events'[i] = <<"phone">>[i - Len(events)]
      BY <1>5, <2>3, Told
    <3>4. Len(events) \in Nat /\ DOMAIN events = 1..Len(events)
      BY DEF ConnTypeOK
    <3> QED BY <3>1, <3>2, <3>3, <3>4
  <2>5. ASSUME NEW i \in DOMAIN events', IsLast(events', i)
        PROVE  events'[i] \in Tells(link')
    <3>1. i \in DOMAIN events /\ events'[i] = events[i]
      BY <2>4, <2>5 DEF IsLast
    <3>2. IsLast(events, i)
      BY <2>4, <2>5, <3>1 DEF IsLast
    <3> QED BY <1>5, <2>1, <3>1, <3>2 DEF Heard
  <2>6. (\A i \in DOMAIN events' : events'[i] = "phone") => Right'
    BY <2>1, <2>2, <2>4 DEF Heard
  <2> QED BY <1>5, <2>5, <2>6 DEF Heard
<1> QED BY <1>2, <1>3, <1>4, <1>5, LibrarySays

\* The calls of the bridge: Connect and ConnectContext have no news to wait
\* for, and what closes the socket leaves nothing to be told.
LEMMA HeardOfCalls ==
  ASSUME ConnTypeOK, Standing, Heard, Current',
         \/ Connect \/ ConnectPrepared \/ ConnectContext \/ Disconnect \/ LogoutRemote
         \/ BackgroundBegin \/ BackgroundDial \/ BackgroundEnd
  PROVE  Heard'
<1> USE DEF callState, showState
<1>1. CASE Connect
  <2>1. DOMAIN events' = {}
    BY <1>1, NoEventWaits DEF Connect, Current
  <2>2. Right'
    <3>1. link' = "off" /\ client' = client
      BY <1>1 DEF Connect, Current
    <3>2. shown' = IF client THEN "connecting" ELSE "not-logged-in"
      BY <1>1 DEF Connect, SetState, Filled
    <3> QED BY <3>1, <3>2 DEF Right
  <2> QED BY <2>1, <2>2 DEF Heard
<1>2. CASE ConnectPrepared
  <2>1. Current
    BY <1>2 DEF ConnectPrepared, Current
  <2>2. Right => Right'
    BY <1>2 DEF ConnectPrepared, Right, PhoneRecentlySeen
  <2>3. UNCHANGED <<events, link>>
    BY <1>2 DEF ConnectPrepared
  <2> QED BY <2>1, <2>2, <2>3 DEF Heard
<1>3. CASE ConnectContext
  <2>1. ~late' /\ late' = late
    BY <1>3 DEF ConnectContext, Current, Send
  <2>2. events = <<>> /\ (lied \/ shown = "connecting") /\ link \in {"closed", "off"}
    BY <1>3, <2>1 DEF ConnectContext, Standing
  <2>3. DOMAIN events' = {}
    BY <1>3, <2>2, NoEventWaits DEF ConnectContext
  <2>4. Right'
    BY <1>3, <2>2 DEF ConnectContext, Send, SetState, Filled, Right
  <2> QED BY <2>3, <2>4 DEF Heard
<1>4. CASE Disconnect \/ LogoutRemote
  BY <1>4 DEF Disconnect, LogoutRemote, Current
<1>5. CASE BackgroundBegin
  BY <1>5 DEF BackgroundBegin, Current
<1>6. CASE BackgroundDial
  BY <1>6 DEF BackgroundDial, Return, Current, Standing
<1>7. CASE BackgroundEnd
  BY <1>7 DEF BackgroundEnd, Return, Current
<1> QED BY <1>1, <1>2, <1>3, <1>4, <1>5, <1>6, <1>7

LEMMA HeardStep ==
  ASSUME SessionTypeOK, Standing, Heard, [Next]_vars
  PROVE  Heard'
<1> SUFFICES ASSUME Current' PROVE Heard'
  BY DEF Heard
<1>1. ConnTypeOK
  BY DEF SessionTypeOK
<1> USE DEF connVars, callState, showState
<1>2. CASE UNCHANGED connVars
  BY <1>2 DEF Heard, Current, Right, PhoneRecentlySeen
<1>3. CASE NewLogin
  BY <1>3 DEF NewLogin, Register, Standing, ConnInit, Current
<1>4. CASE ConnNext
  <2>1. CASE Handlers
    BY <1>1, <2>1, HeardOfHandlers
  <2>2. CASE Library /\ call # "panic"
    BY <1>1, <2>2, HeardOfLibrary
  <2>3. CASE \/ Connect \/ ConnectPrepared \/ ConnectContext \/ Disconnect \/ LogoutRemote
             \/ BackgroundBegin \/ BackgroundDial \/ BackgroundEnd
    BY <1>1, <2>3, HeardOfCalls
  <2>4. CASE ProfileCheck
    BY <2>4 DEF ProfileCheck, Heard, Current, Right, PhoneRecentlySeen
  <2>5. CASE ProfileSend
    <3>1. UNCHANGED <<client, call, link, events, seen, late>>
      BY <2>5 DEF ProfileSend
    <3>2. Right'
      BY <2>5, <3>1 DEF ProfileSend, Filled, Right, PhoneRecentlySeen, ConnTypeOK
    <3> QED BY <3>1, <3>2 DEF Heard, Current
  <2>6. CASE TimePasses
    <3>1. UNCHANGED <<client, call, link, events, shown, lied, late>>
      BY <2>6 DEF TimePasses
    <3>2. Right => Right'
      BY <2>6, <3>1 DEF TimePasses, Right, PhoneRecentlySeen
    <3> QED BY <3>1, <3>2 DEF Heard, Current
  <2>7. CASE Restart
    BY <2>7 DEF Restart, Current
  <2> QED BY <1>4, <2>1, <2>2, <2>3, <2>4, <2>5, <2>6, <2>7 DEF ConnNext
<1> QED BY <1>2, <1>3, <1>4 DEF Next, vars

\* Once what the library told is handled, and no call and no profile sync is
\* under way, the bridge state is what the socket is (handleWAEvent, Connect).
THEOREM ShownSafe == Spec => []ShownIsTrue
<1>1. Init => Standing /\ Heard
  BY NoEventWaits DEF Init, ConnInit, Standing, Heard, Current, Up
<1>2. SessionTypeOK /\ Standing /\ Heard /\ [Next]_vars => Standing' /\ Heard'
  BY StandingStep, HeardStep
<1>3. Standing /\ Heard => ShownIsTrue
  <2>1. events = <<>> => \A i \in DOMAIN events : events[i] = "phone"
    BY NoEventWaits
  <2> QED BY <2>1 DEF Heard, Current, Right, ShownIsTrue, Quiet
<1> QED BY <1>1, <1>2, <1>3, SessionTypeCorrect, PTL DEF Spec

-----------------------------------------------------------------------------
(* What Connect and ConnectBackground may find gone.                       *)

\* A call panics only when the client was taken away, and then WhatsApp has
\* logged the device out.
PanicMeansLoggedOut == call = "panic" => ~client /\ ~device

LEMMA PanicStep ==
  ASSUME Standing, PanicMeansLoggedOut, [Next]_vars
  PROVE  call' = "panic" => ~client'
<1> USE DEF PanicMeansLoggedOut
<1>1. CASE UNCHANGED connVars
  BY <1>1 DEF connVars, callState
<1>2. CASE NewLogin
  <2>1. call = "idle"
    BY <1>2 DEF NewLogin, Register, Standing, ConnInit
  <2> QED BY <1>2, <2>1 DEF NewLogin
<1>3. CASE ConnNext
  <2>1. CASE call # "panic" /\ (Handlers \/ Library)
    BY <2>1, HandlersKeep DEF Library, LinkUp, OfflineSync, LinkLost, Stall, Unstall,
       KeepAliveReconnect, Refuse, PhoneActive, News, callState
  <2>2. CASE Connect \/ ConnectPrepared \/ ConnectContext
    BY <2>2 DEF Connect, ConnectPrepared, ConnectContext
  <2>3. CASE Disconnect \/ LogoutRemote \/ ProfileCheck \/ ProfileSend \/ TimePasses
    BY <2>3 DEF Disconnect, LogoutRemote, ProfileCheck, ProfileSend, TimePasses, callState
  <2>4. CASE BackgroundBegin \/ BackgroundDial \/ BackgroundEnd
    BY <2>4 DEF BackgroundBegin, BackgroundDial, BackgroundEnd, Return
  <2>5. CASE Restart
    BY <2>5 DEF Restart
  <2> QED BY <1>3, <2>1, <2>2, <2>3, <2>4, <2>5 DEF ConnNext
<1> QED BY <1>1, <1>2, <1>3 DEF Next, vars

\* However a logout meets Connect (client.go) or the deferred calls of
\* ConnectBackground: without one, neither finds its client gone.
THEOREM PanicSafe == Spec => []PanicMeansLoggedOut
<1>1. Init => Standing /\ PanicMeansLoggedOut
  BY NoEventWaits DEF Init, ConnInit, Standing, Up, PanicMeansLoggedOut
<1>2. SessionTypeOK /\ Standing /\ PanicMeansLoggedOut /\ [Next]_vars
        => Standing' /\ PanicMeansLoggedOut'
  BY StandingStep, PanicStep DEF PanicMeansLoggedOut, Standing
<1> QED BY <1>1, <1>2, SessionTypeCorrect, PTL DEF Spec
=============================================================================
