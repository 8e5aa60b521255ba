----------------------------- MODULE Connection -----------------------------
(***************************************************************************)
(* The connection of one login to WhatsApp (connector/client.go, the       *)
(* connection events of handlewhatsapp.go and phoneping.go).               *)
(*                                                                         *)
(* The bridge calls Connect, ConnectBackground, Disconnect and             *)
(* LogoutRemote.  The WhatsApp library keeps the socket alive and reports  *)
(* what happens to it as events, which handleWAEvent turns into the bridge *)
(* state that the user is shown.  The state may be wrong while events are  *)
(* under way; the question is whether it is right once they are handled.   *)
(*                                                                         *)
(* The library is external: its socket and the events it sends are the     *)
(* actions of the last part.  Its events are handled in the order they     *)
(* were sent.                                                              *)
(***************************************************************************)
EXTENDS Naturals, Sequences

CONSTANTS
  Loops,      \* names for the loops that startLoops starts
  NoLoops,    \* stopLoops is nil
  MaxEvents   \* bound: events that wait to be handled

ASSUME ConnectionAssumption == NoLoops \notin Loops /\ MaxEvents \in Nat

VARIABLES
  client,     \* is wa.Client set?
  device,     \* does WhatsApp know the device?
  call,       \* where Connect or ConnectBackground is
  waiter,     \* offlineSyncWaiter and its buffer
  stopLoops,  \* the loops that stopLoops cancels
  loops,      \* the loops that were started and not cancelled
  link,       \* the library's socket
  events,     \* what the library has to tell
  shown,      \* the last bridge state
  seen,       \* how long ago PhoneLastSeen is
  profile,    \* where syncRemoteProfile is
  lied,       \* history: it sent shown after the socket it had seen was gone
  late        \* history: Connect was called before older events were handled

callState == <<call, waiter>>
loopState == <<stopLoops, loops>>
showState == <<shown, lied, late>>
connVars  == <<client, device, callState, loopState, link, events, showState,
               seen, profile>>

\* "closed" when the bridge does not want it, "off" when WhatsApp does not,
\* "lost" while the library reconnects, "fresh" before the offline sync.
Links == {"closed", "off", "lost", "fresh", "on", "stalled"}
Up    == {"fresh", "on", "stalled"}

Failures  == {"stream-error", "stream-replaced", "connect-failure", "ban"}
Events    == {"connected", "offline-sync", "disconnected", "keepalive-timeout",
              "keepalive-restored", "logged-out", "phone"} \cup Failures
States    == {"none", "connecting", "connected", "phone-offline", "transient",
              "keepalive-timeout", "error", "logged-out", "not-logged-in"}
CallSteps == {"idle", "connect", "dial", "bg-dial", "bg-wait", "panic"}

ConnInit ==
  /\ client = FALSE /\ device = FALSE /\ call = "idle" /\ waiter = "nil"
  /\ stopLoops = NoLoops /\ loops = {}
  /\ link = "closed" /\ events = <<>>
  /\ shown = "none" /\ lied = FALSE /\ late = FALSE
  /\ seen = "never" /\ profile = "idle"

-----------------------------------------------------------------------------
(* The bridge state and the phone.                                         *)

\* PhoneRecentlySeen: less than 12 days ago, or never.  The message that wakes
\* a phone after 10 days changes nothing here and is left out.
PhoneRecentlySeen == seen # "gone"

\* FillBridgeState
Filled(s) == IF s = "connected" /\ ~PhoneRecentlySeen THEN "phone-offline" ELSE s

SetState(s) == shown' = Filled(s) /\ lied' = FALSE
Send(s)     == SetState(s) /\ UNCHANGED late

\* notifyOfflineSyncWaiter: a full channel drops what comes later.
Notify(what) == waiter' = IF waiter = "empty" THEN what ELSE waiter

-----------------------------------------------------------------------------
(* Connect.                                                                *)

Connect ==
  /\ call = "idle" /\ link \in {"closed", "off"}
  /\ \/ ~client /\ SetState("not-logged-in") /\ UNCHANGED call
     \/ client /\ SetState("connecting") /\ call' = "connect"
  /\ late' = (events # <<>>)
  /\ UNCHANGED <<client, device, waiter, loopState, link, events, seen, profile>>

\* Mutant: startLoops does not stop the loops that run.
startLoopsKeepsOld ==
  \E l \in Loops \ loops: stopLoops' = l /\ loops' = loops \cup {l}

startLoops ==
  \E l \in Loops \ loops: stopLoops' = l /\ loops' = (loops \ {stopLoops}) \cup {l}

\* The proxy is set.  A cancelled call ends here; otherwise the loops start,
\* and a client that was logged out meanwhile is nil.
ConnectPrepared ==
  /\ call = "connect"
  /\ \/ call' = "idle" /\ UNCHANGED loopState
     \/ startLoops /\ call' = IF client THEN "dial" ELSE "panic"
  /\ UNCHANGED <<client, device, waiter, link, events, showState, seen, profile>>

\* ConnectContext: the library connects (with InitialAutoReconnect it keeps
\* trying), or there is an error.
ConnectContext ==
  /\ call = "dial" /\ call' = "idle"
  /\ \/ client /\ link' = "lost" /\ UNCHANGED showState
     \/ Send("error") /\ UNCHANGED link
  /\ UNCHANGED <<client, device, waiter, loopState, events, seen, profile>>

CancelLoops == stopLoops' = NoLoops /\ loops' = loops \ {stopLoops}

\* A process that connects in the background takes no commands.
Background == call \in {"bg-dial", "bg-wait"}

Disconnect ==
  /\ client /\ ~Background /\ CancelLoops /\ link' = "closed"
  /\ UNCHANGED <<client, device, callState, events, showState, seen, profile>>

LogoutRemote ==
  /\ client /\ ~Background /\ CancelLoops /\ link' = "closed"
  /\ client' = FALSE /\ device' = FALSE
  /\ UNCHANGED <<callState, events, showState, seen, profile>>

-----------------------------------------------------------------------------
(* ConnectBackground: connect, wait for the offline sync, disconnect.      *)

\* It is called in a process of its own, where Connect is not.
BackgroundBegin ==
  /\ call = "idle" /\ link = "closed" /\ shown = "none" /\ client
  /\ call' = "bg-dial" /\ waiter' = "empty"
  /\ UNCHANGED <<client, device, loopState, link, events, showState, seen, profile>>

\* The deferred calls; one of them assigns to a field of wa.Client.
Return == call' = (IF client THEN "idle" ELSE "panic") /\ waiter' = "nil"

BackgroundDial ==
  /\ call = "bg-dial"
  /\ \/ client /\ link' = "lost" /\ call' = "bg-wait" /\ UNCHANGED waiter
     \/ Return /\ UNCHANGED link
  /\ UNCHANGED <<client, device, loopState, events, showState, seen, profile>>

\* The waiter has an answer, or the context is cancelled.
BackgroundEnd ==
  /\ call = "bg-wait" /\ Return
  /\ CancelLoops /\ link' = IF client THEN "closed" ELSE link
  /\ UNCHANGED <<client, device, events, showState, seen, profile>>

-----------------------------------------------------------------------------
(* handleWAEvent, for the events about the connection.                     *)

Handle(e) == events # <<>> /\ Head(events) = e /\ events' = Tail(events)

\* It also starts syncRemoteProfile if there is a push name.
OnConnected ==
  /\ Handle("connected") /\ Send("connected")
  /\ \/ UNCHANGED profile
     \/ profile = "idle" /\ profile' = "started"
  /\ UNCHANGED <<client, device, callState, loopState, link, seen>>

OnOfflineSyncCompleted ==
  /\ Handle("offline-sync") /\ Send("connected") /\ Notify("ok")
  /\ UNCHANGED <<client, device, call, loopState, link, seen, profile>>

\* handleWALogout
OnLoggedOut ==
  /\ Handle("logged-out") /\ client' = FALSE
  /\ Send("logged-out") /\ Notify("error")
  /\ UNCHANGED <<device, call, loopState, link, seen, profile>>

OnDisconnected ==
  /\ Handle("disconnected") /\ Notify("error")
  /\ IF shown # "phone-offline" /\ PhoneRecentlySeen
     THEN Send("transient")
     ELSE UNCHANGED showState
  /\ UNCHANGED <<client, device, call, loopState, link, seen, profile>>

\* StreamError, StreamReplaced, ConnectFailure, ClientOutdated, TemporaryBan
OnFailure ==
  /\ \E e \in Failures: Handle(e)
  /\ Send("error") /\ Notify("error")
  /\ UNCHANGED <<client, device, call, loopState, link, seen, profile>>

OnKeepAliveTimeout ==
  /\ Handle("keepalive-timeout") /\ Send("keepalive-timeout")
  /\ UNCHANGED <<client, device, callState, loopState, link, seen, profile>>

\* Mutant: the event is only logged.
OnKeepAliveRestoredSilently ==
  /\ Handle("keepalive-restored")
  /\ UNCHANGED <<client, device, callState, loopState, link, showState, seen, profile>>

OnKeepAliveRestored ==
  /\ Handle("keepalive-restored") /\ Send("connected")
  /\ UNCHANGED <<client, device, callState, loopState, link, seen, profile>>

\* phoneSeen, called for what the phone sends.
OnPhoneSeen ==
  /\ Handle("phone") /\ seen' = "recent"
  /\ IF ~PhoneRecentlySeen /\ client /\ link \in Up /\ shown = "phone-offline"
     THEN shown' = "connected" /\ lied' = FALSE /\ UNCHANGED late
     ELSE UNCHANGED showState
  /\ UNCHANGED <<client, device, callState, loopState, link, profile>>

\* syncRemoteProfile runs beside the handlers.  It finds a new name or avatar
\* and looks at the socket ...
ProfileCheck ==
  /\ profile = "started"
  /\ \/ profile' = "idle"
     \/ client /\ link \in Up /\ profile' = "checked"
  /\ UNCHANGED <<client, device, callState, loopState, link, events, showState, seen>>

\* ... and then sends what it saw.
ProfileSend ==
  /\ profile = "checked" /\ profile' = "idle"
  /\ shown' = Filled("connected")
  /\ lied' = (link \notin {"fresh", "on"} \/ shown # "connected") /\ UNCHANGED late
  /\ UNCHANGED <<client, device, callState, loopState, link, events, seen>>

-----------------------------------------------------------------------------
(* The library and WhatsApp.                                               *)

Tell(es) == Len(events) + Len(es) <= MaxEvents /\ events' = events \o es

\* Later news of the socket follows what is still to be handled.
News == /\ late' = FALSE
        /\ UNCHANGED <<client, callState, loopState, shown, lied, seen, profile>>

\* The library reconnects when the connection was lost.
LinkUp      == /\ link = "lost" /\ device /\ link' = "fresh"
               /\ Tell(<<"connected">>) /\ UNCHANGED device /\ News
OfflineSync == /\ link = "fresh" /\ link' = "on"
               /\ Tell(<<"offline-sync">>) /\ UNCHANGED device /\ News
LinkLost    == /\ link \in Up /\ link' = "lost"
               /\ \/ Tell(<<"disconnected">>)
                  \/ Tell(<<"stream-error", "disconnected">>)
               /\ UNCHANGED device /\ News
Stall       == /\ link = "on" /\ link' = "stalled"
               /\ Tell(<<"keepalive-timeout">>) /\ UNCHANGED device /\ News
Unstall     == /\ link = "stalled" /\ link' = "on"
               /\ Tell(<<"keepalive-restored">>) /\ UNCHANGED device /\ News

\* The library gives a dead connection up and reconnects.
KeepAliveReconnect ==
  /\ link = "stalled" /\ link' = "lost" /\ UNCHANGED <<device, events>> /\ News

\* WhatsApp refuses the client, or closes its connection for good.
Refuse ==
  /\ link \in {"lost", "fresh", "on"} /\ link' = "off" /\ News
  /\ \/ /\ link = "lost" /\ UNCHANGED device
        /\ \E e \in {"connect-failure", "ban"}: Tell(<<e>>)
     \/ link # "lost" /\ UNCHANGED device /\ Tell(<<"stream-replaced">>)
     \/ device' = FALSE /\ Tell(<<"logged-out">>)

PhoneActive ==
  /\ link \in {"fresh", "on"} /\ Tell(<<"phone">>) /\ UNCHANGED <<link, device>> /\ News

\* Days pass.
TimePasses ==
  /\ seen = "recent" /\ seen' = "gone"
  /\ UNCHANGED <<client, device, callState, loopState, link, events, showState, profile>>

\* The bridge stops, or has panicked, and starts again: LoadUserLogin finds
\* the device if there is one.
Restart ==
  /\ client' = device /\ call' = "idle" /\ waiter' = "nil"
  /\ stopLoops' = NoLoops /\ loops' = {}
  /\ link' = "closed" /\ events' = <<>> /\ shown' = "none"
  /\ lied' = FALSE /\ late' = FALSE
  /\ profile' = "idle" /\ UNCHANGED <<device, seen>>

-----------------------------------------------------------------------------
Handlers == OnConnected \/ OnOfflineSyncCompleted \/ OnLoggedOut \/ OnDisconnected
            \/ OnFailure \/ OnKeepAliveTimeout \/ OnKeepAliveRestored \/ OnPhoneSeen
Library  == LinkUp \/ OfflineSync \/ LinkLost \/ Stall \/ Unstall
            \/ KeepAliveReconnect \/ Refuse \/ PhoneActive

ConnNext ==
  \/ /\ call # "panic"
     /\ \/ Connect \/ ConnectPrepared \/ ConnectContext
        \/ Disconnect \/ LogoutRemote
        \/ BackgroundBegin \/ BackgroundDial \/ BackgroundEnd
        \/ Handlers \/ ProfileCheck \/ ProfileSend \/ Library
  \/ TimePasses \/ Restart

-----------------------------------------------------------------------------
ConnTypeOK ==
  /\ client \in BOOLEAN /\ device \in BOOLEAN /\ call \in CallSteps
  /\ waiter \in {"nil", "empty", "ok", "error"}
  /\ stopLoops \in Loops \cup {NoLoops} /\ loops \subseteq Loops
  /\ link \in Links /\ events \in Seq(Events) /\ Len(events) <= MaxEvents
  /\ shown \in States /\ lied \in BOOLEAN /\ late \in BOOLEAN
  /\ seen \in {"never", "recent", "gone"}
  /\ profile \in {"idle", "started", "checked"}

\* Every loop of the login that still runs is one that Disconnect stops, and
\* none runs in a process that only connects in the background.
LoopsOwned ==
  /\ loops \subseteq {stopLoops}
  /\ Background => loops = {}

\* Nothing is under way that will send another state.
Quiet == events = <<>> /\ call = "idle" /\ profile # "checked" /\ ~lied /\ ~late

\* Once the events are handled the user is shown what the connection is: a
\* login that is connected shows Connected, or that its phone was not seen for
\* 12 days when that is so; one that is not, or that WhatsApp logged out, does
\* not show Connected.  The exceptions are the race that syncRemoteProfile's
\* FIXME tells of, and a connection lost after 12 days without the phone.
ShownIsTrue ==
  Quiet =>
    /\ link \in {"fresh", "on"} =>
         shown = "connected" \/ (shown = "phone-offline" /\ ~PhoneRecentlySeen)
    /\ link \in {"off", "lost"} => shown # "connected" \/ ~PhoneRecentlySeen
    /\ link = "stalled" => shown # "connected"
    /\ link = "off" /\ ~client => shown \in {"logged-out", "not-logged-in", "error"}

\* ConnectBackground returns an answer to its caller, an error if WhatsApp has
\* logged the client out.
BackgroundAnswers == [][BackgroundEnd => call' # "panic"]_connVars
=============================================================================
