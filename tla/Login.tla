-------------------------------- MODULE Login --------------------------------
(***************************************************************************)
(* One attempt to log in (connector/login.go).                             *)
(*                                                                         *)
(* The bridge's user starts the process and then calls Wait again and      *)
(* again; every call returns another QR code, an error, or the finished    *)
(* login.  The client of the attempt reports what WhatsApp says through    *)
(* handleEvent, which runs concurrently: it writes LoginError or           *)
(* LoginSuccess and sets LoginComplete, and Wait reads them when it wakes. *)
(* With a pairing code the user enters a phone number first, and there are *)
(* no further codes.                                                       *)
(*                                                                         *)
(* Time is the number of QR intervals that have passed since the codes     *)
(* came; the timeouts of the other calls may strike at any moment.         *)
(***************************************************************************)
EXTENDS Integers

CONSTANTS
  Intervals,  \* how many qrIntervals there are (6 in the code)
  Codes,      \* how many QR codes WhatsApp sends
  Prompt      \* do timers and clients act before the next interval is over?

ASSUME LoginAssumption ==
  /\ Intervals \in Nat \ {0}
  \* Wait indexes QRs by the interval, without a check.
  /\ Codes \in Nat /\ Codes >= Intervals
  /\ Prompt \in BOOLEAN

VARIABLES
  phoneCode,      \* is this the flow with a pairing code?
  step,           \* where the calls of the process are
  socket,         \* "closed", "open", or "greeted" once codes were sent
  paired,         \* at WhatsApp: "no", "paired" or "confirmed"
  closed,         \* Closed
  gotQRs,         \* WaitForQRs: QRs and StartTime are set
  clock,          \* intervals since StartTime
  prevQR,         \* PrevQRIndex
  nextQR,         \* Wait's nextIndex
  code,           \* the code the user sees, -1 for none
  loginError,     \* is LoginError set?
  loginSuccess,   \* is LoginSuccess set?
  loginComplete, received515

callVars  == <<step, prevQR, nextQR, code>>
qrVars    == <<gotQRs, clock>>
eventVars == <<loginError, loginSuccess, loginComplete, received515>>
loginVars == <<phoneCode, callVars, socket, paired, closed, qrVars, eventVars>>

Steps == {"new", "number", "rejected", "connecting", "pairing", "shown",
          "waiting", "await515", "register", "done", "failed"}
Ended == {"done", "failed"}

LoginInit ==
  /\ phoneCode \in BOOLEAN
  /\ step = "new" /\ socket = "closed" /\ paired = "no" /\ closed = FALSE
  /\ gotQRs = FALSE /\ clock = 0 /\ prevQR = 0 /\ nextQR = 0 /\ code = -1
  /\ loginError = FALSE /\ loginSuccess = FALSE
  /\ loginComplete = FALSE /\ received515 = FALSE

\* Cancel: the client is disconnected and its events are no longer heard.
Cancel == closed' = TRUE /\ socket' = "closed"

Goto(s) == step' = s /\ UNCHANGED <<phoneCode, prevQR, nextQR, code>>

-----------------------------------------------------------------------------
(* The calls before the first code.                                        *)

\* Start.  It fails when the proxy cannot be set or the client not connect.
Start ==
  /\ step = "new"
  /\ \/ Goto("failed") /\ UNCHANGED socket
     \/ phoneCode /\ Goto("number") /\ UNCHANGED socket
     \/ ~phoneCode /\ Goto("connecting") /\ socket' = "open"
  /\ UNCHANGED <<paired, closed, qrVars, eventVars>>

\* The first code came, or did not come within LoginConnectWait.
FirstQR ==
  /\ step = "connecting" /\ ~phoneCode
  /\ \/ gotQRs /\ step' = "shown" /\ code' = 0 /\ UNCHANGED <<closed, socket>>
     \/ step' = "failed" /\ Cancel /\ UNCHANGED code
  /\ UNCHANGED <<phoneCode, prevQR, nextQR, paired, qrVars, eventVars>>

\* SubmitUserInput.  An error leaves the client as it is: the number can be
\* submitted again, but a client that is still connected refuses Connect.
SubmitNumber ==
  /\ step \in {"number", "rejected"}
  /\ \/ socket = "closed" /\ socket' = "open" /\ Goto("connecting")
     \/ Goto("rejected") /\ UNCHANGED socket
  /\ UNCHANGED <<paired, closed, qrVars, eventVars>>

ReadyToPair ==
  /\ step = "connecting" /\ phoneCode
  /\ \/ gotQRs /\ Goto("pairing")
     \/ Goto("rejected")
  /\ UNCHANGED <<socket, paired, closed, qrVars, eventVars>>

PairPhone ==
  /\ step = "pairing"
  /\ \/ socket # "closed" /\ Goto("shown")
     \/ Goto("rejected")
  /\ UNCHANGED <<socket, paired, closed, qrVars, eventVars>>

\* The user gives up between two calls.
GiveUp ==
  /\ step \in {"number", "rejected", "shown"}
  /\ Goto("failed") /\ Cancel
  /\ UNCHANGED <<paired, qrVars, eventVars>>

-----------------------------------------------------------------------------
(* Wait.                                                                   *)

getQRIndex == IF clock < Intervals THEN clock ELSE -1

\* Mutant: Wait waits for the code that is shown already.
WaitForCurrent ==
  /\ step = "shown"
  /\ \/ /\ ~phoneCode /\ getQRIndex > prevQR
        /\ prevQR' = getQRIndex /\ code' = getQRIndex /\ UNCHANGED <<step, nextQR>>
     \/ /\ ~phoneCode /\ getQRIndex <= prevQR
        /\ step' = "waiting" /\ nextQR' = IF getQRIndex = -1 THEN 0 ELSE getQRIndex
        /\ UNCHANGED <<prevQR, code>>
     \/ phoneCode /\ step' = "waiting" /\ UNCHANGED <<prevQR, nextQR, code>>
  /\ UNCHANGED <<phoneCode, socket, paired, closed, qrVars, eventVars>>

\* A code that has become current is returned at once; otherwise Wait waits
\* for the next one.
Wait ==
  /\ step = "shown"
  /\ \/ /\ ~phoneCode /\ getQRIndex > prevQR
        /\ prevQR' = getQRIndex /\ code' = getQRIndex /\ UNCHANGED <<step, nextQR>>
     \/ /\ ~phoneCode /\ getQRIndex <= prevQR
        /\ step' = "waiting" /\ nextQR' = getQRIndex + 1
        /\ UNCHANGED <<prevQR, code>>
     \/ phoneCode /\ step' = "waiting" /\ UNCHANGED <<prevQR, nextQR, code>>
  /\ UNCHANGED <<phoneCode, socket, paired, closed, qrVars, eventVars>>

\* Mutant: Wait returns from the last code to the first one.
NextQRWraps ==
  /\ step = "waiting" /\ ~phoneCode /\ clock >= nextQR
  /\ step' = "shown" /\ prevQR' = nextQR % Codes /\ code' = nextQR % Codes
  /\ UNCHANGED <<phoneCode, nextQR, socket, paired, closed, qrVars, eventVars>>

\* The interval is over: the next code, or there is none.  After the last
\* interval nextIndex is 0 and there is no time left to wait.
NextQR ==
  /\ step = "waiting" /\ ~phoneCode /\ clock >= nextQR
  /\ \/ /\ nextQR < Codes
        /\ step' = "shown" /\ prevQR' = nextQR /\ code' = nextQR
        /\ UNCHANGED <<closed, socket>>
     \/ /\ nextQR >= Codes
        /\ step' = "failed" /\ Cancel /\ UNCHANGED <<prevQR, code>>
  /\ UNCHANGED <<phoneCode, nextQR, paired, qrVars, eventVars>>

WaitCancelled ==
  /\ step = "waiting"
  /\ Goto("failed") /\ Cancel
  /\ UNCHANGED <<paired, qrVars, eventVars>>

\* Mutant: LoginError is not looked at.
CompletedUnchecked ==
  /\ step = "waiting" /\ loginComplete
  /\ Goto("register") /\ Cancel
  /\ UNCHANGED <<paired, qrVars, eventVars>>

Completed ==
  /\ step = "waiting" /\ loginComplete
  /\ \/ loginError /\ Goto("failed") /\ Cancel
     \/ ~loginError /\ Goto("await515") /\ UNCHANGED <<closed, socket>>
  /\ UNCHANGED <<paired, qrVars, eventVars>>

\* Received515, or its timeout.
Await515 ==
  /\ step = "await515" /\ Cancel
  /\ \/ received515 /\ Goto("register")
     \/ Goto("failed")
  /\ UNCHANGED <<paired, qrVars, eventVars>>

\* NewLogin; Connection.tla begins where it succeeds.
Register ==
  /\ step = "register"
  /\ \/ Goto("done")
     \/ Goto("failed")
  /\ UNCHANGED <<socket, paired, closed, qrVars, eventVars>>

-----------------------------------------------------------------------------
(* WhatsApp, and handleEvent.  A client that was cancelled has no handler. *)

\* An event that ends the login.
handleEvent(err) ==
  /\ loginError' = (loginError \/ err)
  /\ loginSuccess' = (loginSuccess \/ ~err)
  /\ loginComplete' = TRUE /\ UNCHANGED received515

\* events.QR
ReceiveQRs ==
  /\ socket = "open" /\ socket' = "greeted"
  /\ gotQRs' = TRUE /\ clock' = 0
  /\ UNCHANGED <<phoneCode, callVars, paired, closed, eventVars>>

\* The phone accepts a code that has not expired: events.PairSuccess.
Scan ==
  /\ socket = "greeted" /\ paired = "no" /\ step \in {"shown", "waiting"}
  /\ clock < Intervals
  /\ paired' = "paired" /\ handleEvent(FALSE)
  /\ UNCHANGED <<phoneCode, callVars, socket, closed, qrVars>>

\* PairError and QRScannedWithoutMultidevice: the connection stays.
ScanFails ==
  /\ socket = "greeted" /\ paired = "no" /\ step \in {"shown", "waiting"}
  /\ handleEvent(TRUE)
  /\ UNCHANGED <<phoneCode, callVars, socket, paired, closed, qrVars>>

\* WhatsApp restarts the connection of a paired client: ManualLoginReconnect.
\* It comes after PairSuccess.
Restart515 ==
  /\ socket = "greeted" /\ paired = "paired"
  /\ paired' = "confirmed" /\ socket' = "closed"
  /\ received515' = TRUE /\ loginComplete' = TRUE
  /\ UNCHANGED <<phoneCode, callVars, closed, qrVars, loginError, loginSuccess>>

\* Disconnected, ClientOutdated, ConnectFailure, LoggedOut, TemporaryBan.
Drop ==
  /\ socket # "closed" /\ socket' = "closed"
  /\ handleEvent(TRUE)
  /\ UNCHANGED <<phoneCode, callVars, paired, closed, qrVars>>

\* A call that returns, or is made again, without waiting.
Due == \/ step = "shown" /\ ~phoneCode
       \/ step = "connecting" /\ gotQRs
       \/ step = "waiting" /\ ~phoneCode /\ clock >= nextQR

\* The interval of a QR code passes.
Tick ==
  /\ gotQRs /\ ~phoneCode /\ clock < Intervals /\ step \notin Ended
  /\ Prompt => ~Due
  /\ clock' = clock + 1
  /\ UNCHANGED <<phoneCode, callVars, socket, paired, closed, gotQRs, eventVars>>

-----------------------------------------------------------------------------
Calls  == Start \/ FirstQR \/ SubmitNumber \/ ReadyToPair \/ PairPhone \/ Wait
          \/ NextQR \/ Completed \/ Await515
Server == ReceiveQRs \/ Scan \/ ScanFails \/ Restart515 \/ Drop

\* Everything but Register, which involves the new login.
Attempt == Calls \/ GiveUp \/ WaitCancelled \/ Server \/ Tick

\* The calls return: their timers fire, and a user who looks at a code has
\* called Wait again, as the bridge's clients do at once.
LoginFairness ==
  /\ WF_loginVars(FirstQR) /\ WF_loginVars(Wait) /\ WF_loginVars(NextQR)
  /\ WF_loginVars(Completed) /\ WF_loginVars(Await515) /\ WF_loginVars(Register)
  /\ WF_loginVars(Tick)

-----------------------------------------------------------------------------
LoginTypeOK ==
  /\ phoneCode \in BOOLEAN /\ step \in Steps
  /\ socket \in {"closed", "open", "greeted"}
  /\ paired \in {"no", "paired", "confirmed"}
  /\ closed \in BOOLEAN /\ gotQRs \in BOOLEAN
  /\ clock \in 0..Intervals /\ prevQR \in 0..Intervals
  /\ nextQR \in 0..Intervals /\ code \in (-1)..Intervals
  /\ loginError \in BOOLEAN /\ loginSuccess \in BOOLEAN
  /\ loginComplete \in BOOLEAN /\ received515 \in BOOLEAN

\* A login is only registered for a phone that WhatsApp has paired and
\* confirmed, with the PairSuccess at hand that names it, and no attempt ends
\* with its client still connected.
OutcomeIsReal ==
  /\ step \in {"register", "done"} => paired = "confirmed" /\ loginSuccess
  /\ step \in {"register", "done", "failed"} => socket = "closed"

\* Every further code that Wait returns is a later one than that before it,
\* unless it is asked when all of them have expired.
CodesAdvance ==
  [][(Wait \/ NextQR) => (step' # "shown" \/ code' > code \/ clock = Intervals)]_loginVars

\* A QR login whose user keeps waiting ends, whatever WhatsApp does.
LoginEnds == (step = "shown" /\ ~phoneCode) ~> (step \in Ended)
=============================================================================
