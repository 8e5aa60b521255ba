------------------------------ MODULE Messages ------------------------------
(***************************************************************************)
(* The life of one WhatsApp message in the bridge (handlewhatsapp.go,      *)
(* events.go, mediaeditcache.go, handleConvertedMatrixMessage): the        *)
(* message itself, possibly undecryptable at first, its edits, reactions   *)
(* and removal, and answers to requests for its media.  Several logins may *)
(* be in a group; all of them bring every event of it to one portal, each  *)
(* in its own time.  The portal handles one event at a time.               *)
(***************************************************************************)
EXTENDS Integers, FiniteSets, Addressing

CONSTANTS
  Login,   \* logins of the bridge
  MyLogin, \* the login of Me, which direct chats and Matrix messages use
  NEdits   \* bound: edits of the message

ASSUME MessagesAssumption == MyLogin \in Login /\ NEdits \in Nat

VARIABLES
  msg,     \* the message: its chat, author, other user, kind and origin
  mode,    \* the addressing mode of the group on WhatsApp
  portal,  \* PortalMetadata: AddressingMode and LIDMigrationAttempted
  known,   \* users in the LID map of the store
  rows,    \* messages of the database and what the room shows of them
  cache,   \* mediaEditCache: messages whose converted media is in it
  pending, \* transaction IDs of a message that is being sent from Matrix
  send,    \* how far that is: none, ready, sending, sent or failed
  next,    \* per login, the event of the message that it receives next
  owed,    \* per login, events that it could not decrypt
  \* history: events told enough to file the message; an event found no
  \* message although there was one
  told, lost

stream == <<next, owed>>
vars == <<msg, mode, portal, known, rows, cache, pending, send, stream, told, lost>>

\* Events of the message: 0 is the message, then its edits, then its removal.
\* They number the versions of its text as well.
Edits    == 1 .. NEdits
Versions == 0 .. NEdits
Removal  == NEdits + 1
End      == NEdits + 2
NoVersion == -1

\* MessageMetadata and the event in the room: the version it shows and the
\* version FailedMediaMeta holds.
Errors == {"none", "decryption", "media"}
Shown  == {"placeholder", "content", "old", "broken", "notice"}
Row    == [shown : Shown, version : Versions, error : Errors, edits : SUBSET Edits,
           failed : Versions \cup {NoVersion}]
Placeholder ==
  [shown |-> "placeholder", version |-> 0, error |-> "decryption", edits |-> {},
   failed |-> NoVersion]

\* rows maps the stored IDs to their rows.
Stored  == DOMAIN rows
Put(id, row) == [i \in Stored \cup {id} |-> IF i = id THEN row ELSE rows[i]]
Delete(id)   == [i \in Stored \ {id} |-> rows[i]]

InDM     == msg.chat = "dm"
Receives(l) == l = MyLogin \/ ~InDM
OnWhatsApp  == send # "ready"

Start(l) == IF msg.matrix /\ l = MyLogin THEN 1 ELSE 0

Init ==
  /\ msg \in [chat : {"dm", "group"}, author : Person \cup {Bot}, peer : Person \ {Me},
              media : BOOLEAN, matrix : BOOLEAN]
  /\ msg.author # Bot \/ InDM
  /\ InDM => msg.author \in {Me, msg.peer, Bot}
  /\ msg.matrix => msg.author = Me
  /\ mode \in Modes /\ (InDM => mode = "pn")
  /\ portal = [mode |-> mode, attempted |-> FALSE]
  /\ known \in SUBSET Person
  /\ rows = [id \in {} |-> Placeholder] /\ cache = {} /\ pending = {}
  /\ send = IF msg.matrix THEN "ready" ELSE "none"
  /\ next = [l \in Login |-> Start(l)] /\ owed = [l \in Login |-> {}]
  /\ told = TRUE /\ lost = FALSE

-----------------------------------------------------------------------------
\* Sources of events, as the server sends them.

\* In a direct chat the whole event is in one mode, except that this user's
\* devices may use either mode in a LID chat.
DMSources(actor) ==
  {s \in [chat : {JID(msg.peer, m) : m \in Modes},
          sender : IF actor = Bot THEN {BotJID} ELSE {JID(actor, m) : m \in Modes},
          senderAlt : {NoJID} \cup {JID(actor, m) : m \in Modes},
          recipientAlt : {NoJID} \cup {JID(msg.peer, m) : m \in Modes}, mode : {"pn"}] :
     /\ \/ s.sender.server \in {s.chat.server, "bot"}
        \/ actor = Me /\ s.chat.server = "lid"
     /\ actor = Bot => s.senderAlt = NoJID
     /\ s.senderAlt.server # s.sender.server
     /\ actor # Me => s.recipientAlt = NoJID
     /\ s.recipientAlt.server # s.chat.server}

\* In a group the sender is in the mode of the group, except in the first
\* event after the group moved to LIDs.
Outdated(s) == s.mode = "lid" /\ s.sender.server = "pn" /\ s.senderAlt.server = "lid"
GroupSources(actor) ==
  {s \in [chat : {GroupJID}, sender : {JID(actor, m) : m \in Modes},
          senderAlt : {NoJID} \cup {JID(actor, m) : m \in Modes},
          recipientAlt : {NoJID}, mode : {mode}] :
     /\ \/ s.sender.server = mode
        \/ Outdated(s) /\ portal = [mode |-> "pn", attempted |-> FALSE]
     /\ s.senderAlt.server # s.sender.server}

Sources(actor) == IF InDM THEN DMSources(actor) ELSE GroupSources(actor)

\* The event tells whose direct chat it is in.
Tells(s) ==
  s.chat.server = "lid" =>
    IF IsFromMe(s) THEN s.recipientAlt # NoJID
    ELSE s.senderAlt # NoJID \/ msg.peer \in known

\* PreHandle, with what it makes of an event: the first event that shows that
\* a group moved to LIDs resyncs the group, unless getting its info fails.
Delivery(info, meta, complete) ==
  [chat |-> info.chat, sender |-> info.sender, portal |-> meta, told |-> told /\ complete]
PreHandle(info, complete) ==
  IF info.mode # "lid" \/ info.chat # GroupJID \/ portal.mode = "lid" \/ portal.attempted
  THEN {Delivery(info, portal, complete)}
  ELSE {Delivery(info, [portal EXCEPT !.attempted = TRUE], complete /\ ~Outdated(info)),
        Delivery(IF Outdated(info) THEN SwapSender(info) ELSE info,
                 [mode |-> "lid", attempted |-> TRUE], complete)}

Deliveries(actor) ==
  UNION {PreHandle(rerouteWAMessage(known, s), Tells(s)) : s \in Sources(actor)}

\* Undecryptable messages have no PreHandle.
UndecryptableDeliveries(actor) ==
  {Delivery(rerouteWAMessage(known, s), portal, Tells(s) /\ ~Outdated(s)) : s \in Sources(actor)}

\* The key by which an event of actor refers to the message.
Keys(actor) ==
  {k \in [fromMe : {actor = msg.author},
          participant : {NoJID} \cup {JID(msg.author, m) : m \in Modes}] :
     IF InDM \/ k.fromMe THEN k.participant = NoJID
     ELSE k.participant.server \in {"pn", mode}}
KeyTells(key) ==
  mode = "lid" /\ key.participant.server = "pn" => msg.author \in known

Target(d, key) == KeyToMessageID(known, d.chat, d.sender, key)
Found(id) == id \in Stored
Misses(id) == lost' = (lost \/ (~Found(id) /\ Stored # {}))

-----------------------------------------------------------------------------
\* Conversion.

\* ToMatrix with a fresh download path: the room gets the content, or a
\* notice that the media is old or failed.
Conversions == IF msg.media THEN {"content", "old", "broken"} ELSE {"content"}
ErrorOf(shown) == IF shown = "old" THEN "media" ELSE "none"

NewRow(shown) ==
  [shown |-> shown, version |-> 0, error |-> ErrorOf(shown), edits |-> {},
   failed |-> IF shown = "old" THEN 0 ELSE NoVersion]

\* Mutants: the error, or the failed media, stays what it was.
EditedKeepingError(row, shown, version) ==
  [row EXCEPT !.shown = shown, !.version = version,
              !.failed = IF shown = "old" THEN version ELSE @]
EditedKeepingMedia(row, shown, version) ==
  [row EXCEPT !.shown = shown, !.version = version, !.error = ErrorOf(shown)]

\* ToEditPart: MessageMetadata.CopyFrom.
Edited(row, shown, version) ==
  [row EXCEPT !.shown = shown, !.version = version, !.error = ErrorOf(shown),
              !.failed = IF shown = "old" THEN version ELSE @]

\* An edit of media either has a path, or is an edit of the caption: that one
\* needs the cached media.
EditConversions(id) ==
  Conversions \cup
  (IF ~msg.media THEN {} ELSE IF id \in cache THEN {"content"} ELSE {"broken"})

-----------------------------------------------------------------------------
\* Events of the message.

IsNext(l, event) ==
  /\ Receives(l) /\ OnWhatsApp /\ next[l] = event
  /\ (msg.matrix /\ l = MyLogin) => send # "sending"
Advance(l) == next' = [next EXCEPT ![l] = @ + 1]

\* The event is the next one, or one that could not be decrypted and was sent
\* again, which nobody does for a removed message.
Receive(l, event) ==
  \/ IsNext(l, event) /\ Advance(l) /\ UNCHANGED owed
  \/ /\ event \in owed[l] /\ next[l] # End
     /\ owed' = [owed EXCEPT ![l] = @ \ {event}] /\ UNCHANGED next

Deliver(d, complete) == portal' = d.portal /\ told' = (d.told /\ complete)

\* The message cannot be decrypted yet: a placeholder is sent to the room.
Undecryptable(l) ==
  /\ IsNext(l, 0) /\ Advance(l) /\ owed' = [owed EXCEPT ![l] = @ \cup {0}]
  /\ \E d \in UndecryptableDeliveries(msg.author) :
       LET id == MessageID(d.chat, d.sender) IN
       /\ rows' = IF id \in pending \/ Found(id) THEN rows ELSE Put(id, Placeholder)
       /\ told' = d.told
  /\ UNCHANGED <<msg, mode, portal, known, cache, pending, send, lost>>

\* An edit cannot be decrypted yet: that is not shown.
UndecryptableEdit(l) ==
  \E i \in Edits :
    /\ IsNext(l, i) /\ Advance(l) /\ owed' = [owed EXCEPT ![l] = @ \cup {i}]
    /\ UNCHANGED <<msg, mode, portal, known, rows, cache, pending, send, told, lost>>

\* The message is new to the portal: ConvertMessage.
NewMessage(id, shown) ==
  /\ id \notin pending /\ ~Found(id)
  /\ rows' = Put(id, NewRow(shown))
  /\ cache' = IF msg.media /\ shown = "content" THEN cache \cup {id} ELSE cache

\* HandleExisting: only a placeholder is replaced.
ExistingMessage(id, shown) ==
  /\ id \in pending \/ Found(id)
  /\ rows' = IF id \notin pending /\ rows[id].error = "decryption"
             THEN Put(id, Edited(rows[id], shown, 0)) ELSE rows
  /\ UNCHANGED cache

Message(l) ==
  /\ Receive(l, 0)
  /\ \E d \in Deliveries(msg.author), shown \in Conversions :
       LET id == MessageID(d.chat, d.sender) IN
       /\ NewMessage(id, shown) \/ ExistingMessage(id, shown)
       /\ Deliver(d, TRUE)
  /\ UNCHANGED <<msg, mode, known, pending, send, lost>>

\* Mutant: an edit is applied whoever brings it.
ApplyEditAgain(id, i, shown) ==
  rows' = IF ~Found(id) THEN rows
          ELSE Put(id, Edited([rows[id] EXCEPT !.edits = @ \cup {i}], shown, i))

\* ConvertEdit: an edit that was handled is ignored.
ApplyEdit(id, i, shown) ==
  rows' = IF ~Found(id) \/ i \in rows[id].edits THEN rows
          ELSE Put(id, Edited([rows[id] EXCEPT !.edits = @ \cup {i}], shown, i))

Edit(l) ==
  /\ \E i \in Edits :
       /\ Receive(l, i)
       /\ \E d \in Deliveries(msg.author), key \in Keys(msg.author) :
            LET id == Target(d, key) IN
            /\ \E shown \in EditConversions(id) : ApplyEdit(id, i, shown)
            /\ Misses(id) /\ Deliver(d, TRUE)
  /\ UNCHANGED <<msg, mode, known, cache, pending, send>>

\* The author, or an admin of the group, removes the message for everyone.
Actors == IF msg.author = Bot THEN {Bot} ELSE IF InDM THEN {Me, msg.peer} ELSE Person
Revokers == IF InDM THEN {msg.author} ELSE Person

Revoke(l) ==
  /\ Receive(l, Removal)
  /\ \E actor \in Revokers : \E d \in Deliveries(actor), key \in Keys(actor) :
       LET id == Target(d, key) IN
       rows' = Delete(id) /\ Misses(id) /\ Deliver(d, KeyTells(key))
  /\ UNCHANGED <<msg, mode, known, cache, pending, send>>

\* Anyone reacts to the message; the reaction goes to the message it finds.
Reaction ==
  /\ OnWhatsApp /\ \E l \in Login : Receives(l) /\ next[l] \in 1 .. Removal
  /\ \E actor \in Actors : \E d \in Deliveries(actor), key \in Keys(actor) :
       Misses(Target(d, key)) /\ Deliver(d, KeyTells(key))
  /\ UNCHANGED <<msg, mode, known, rows, cache, pending, send, stream>>

\* The phone answers a request for the media: WAMediaRetry.ConvertEdit.
MediaRetry ==
  \E id \in Stored, shown \in {"content", "broken", "notice"} :
    /\ rows[id].error = "media" /\ rows[id].failed # NoVersion
    /\ rows' = Put(id, [rows[id] EXCEPT !.shown = shown, !.version = rows[id].failed])
    /\ UNCHANGED <<msg, mode, portal, known, cache, pending, send, stream, told, lost>>

-----------------------------------------------------------------------------
\* handleConvertedMatrixMessage: the message is sent from Matrix.

\* Direct chats are sent to in the room of the phone number, or in a room
\* that was filed under the LID.
SendChats == IF InDM THEN {JID(msg.peer, m) : m \in Modes} ELSE {GroupJID}

SendFromMatrix ==
  \E chat \in SendChats :
    /\ send = "ready" /\ send' = "sending"
    /\ pending' = {MessageID(chat, PN(Me)), MessageID(chat, LID(Me))}
    /\ told' = (told /\ chat.server # "lid")
    /\ UNCHANGED <<msg, mode, portal, known, rows, cache, stream, lost>>

\* The server tells which of this user's JIDs it was sent as.
SentAs == IF InDM THEN {PN(Me), LID(Me)} ELSE {JID(Me, mode)}
PickedFirst(chat, sender) == MessageID(chat, PN(Me)) \* mutant: always the phone number
PickedMessageID(chat, sender) ==
  MessageID(chat, IF sender = LID(Me) /\ chat.server # "pn" THEN LID(Me) ELSE PN(Me))

Sent ==
  \E sender \in SentAs, id \in pending :
    /\ send = "sending" /\ send' = "sent"
    /\ LET picked == PickedMessageID(id.chat, sender)
       IN rows' = Put(picked, NewRow("content"))
    /\ pending' = {}
    /\ UNCHANGED <<msg, mode, portal, known, cache, stream, told, lost>>

\* SendMessage fails, maybe after the server got the message.
SendFails ==
  /\ send = "sending" /\ send' = "failed"
  /\ UNCHANGED <<msg, mode, portal, known, rows, cache, pending, stream, told, lost>>

-----------------------------------------------------------------------------
\* The environment.

\* The store learns a phone number and its LID.
Learn(p) ==
  /\ p \notin known /\ known' = known \cup {p}
  /\ UNCHANGED <<msg, mode, portal, rows, cache, pending, send, stream, told, lost>>

\* The group moves to LIDs.  A message that was handled is filed under the
\* old mode.
MoveToLIDs ==
  /\ ~InDM /\ mode = "pn" /\ mode' = "lid"
  /\ told' = (told /\ send \in {"none", "ready"} /\ \A l \in Login : next[l] = Start(l))
  /\ UNCHANGED <<msg, portal, known, rows, cache, pending, send, stream, lost>>

\* The cache entry expires, or the bridge restarts.
Forget ==
  /\ cache # {} /\ cache' = {}
  /\ UNCHANGED <<msg, mode, portal, known, rows, pending, send, stream, told, lost>>

Next ==
  \/ \E l \in Login : \/ Undecryptable(l) \/ UndecryptableEdit(l) \/ Message(l)
                      \/ Edit(l) \/ Revoke(l)
  \/ Reaction \/ MediaRetry \/ SendFromMatrix \/ Sent \/ SendFails
  \/ \E p \in Person : Learn(p)
  \/ MoveToLIDs \/ Forget

Spec == Init /\ [][Next]_vars

-----------------------------------------------------------------------------
\* The variables have the types the code gives them.
TypeOK ==
  /\ mode \in Modes /\ portal \in [mode : Modes, attempted : BOOLEAN]
  /\ known \subseteq Person /\ Stored \subseteq MessageIDs /\ (\A id \in Stored : rows[id] \in Row) /\ cache \subseteq MessageIDs
  /\ pending \subseteq MessageIDs /\ send \in {"none", "ready", "sending", "sent", "failed"}
  /\ next \in [Login -> 0 .. End] /\ owed \in [Login -> SUBSET Versions]
  /\ told \in BOOLEAN /\ lost \in BOOLEAN

\* However many logins and forms of addresses bring the message, it is filed
\* once, and not while it is being sent from Matrix, if the events tell the
\* phone number of a direct chat and the group keeps its addressing mode
\* (rerouteWAMessage, PreHandle, AddPendingToIgnore).
FiledOnce ==
  told => Cardinality(Stored) <= 1 /\ (send = "sending" => Stored = {})

\* Edits, removals and reactions of anyone then find the message
\* (GetTargetMessage, KeyToMessageID).
TargetsFound == told => ~lost

\* While a message is in the room, its text changes only to that of an edit
\* that was not handled before: never back to the original or to an edit that
\* another login brings late (ConvertEdit, HandleExisting, media retries).
NoUndo ==
  [][\A id \in Stored \cap Stored' : rows'[id].version # rows[id].version
       => rows'[id].version \in Edits \ rows[id].edits]_vars

\* A decryption error is recorded exactly while the room shows the
\* placeholder and no edit replaced it, so the message can still replace it
\* (HandleExisting, CopyFrom).
PlaceholderResolves ==
  \A id \in Stored :
    /\ rows[id].error = "decryption" <=> rows[id].shown = "placeholder"
    /\ rows[id].shown = "placeholder" => rows[id].edits = {}

\* Media shown as old can be requested, and an answer brings back the version
\* that the room shows (makeMediaFailure, CopyFrom, WAMediaRetry).
OldMediaRetryable ==
  \A id \in Stored :
    /\ rows[id].shown = "old" => rows[id].error = "media"
    /\ rows[id].error = "media" => rows[id].failed = rows[id].version

\* Once every login brought the removal, no copy of the message is left.
RevokedIsGone ==
  told /\ (\A l \in Login : Receives(l) => next[l] = End) => Stored = {}

=============================================================================
