----------------------------- MODULE References -----------------------------
(***************************************************************************)
(* How the bridge refers to a message of a chat, and how it understands    *)
(* what others refer to: the keys of reactions, edits and removals that    *)
(* leave Matrix (handlematrix.go, messageIDToKey), the target of a reply   *)
(* and of a receipt in both directions, and the address under which this   *)
(* user reacts.  A stored message ID is turned into a key or a quoted      *)
(* participant, and whoever gets that has to come back to the same ID.     *)
(***************************************************************************)
EXTENDS Messages

\* The room's chat, which is where everything from Matrix is sent to.
PortalJID == IF InDM THEN PN(msg.peer) ELSE GroupJID

-----------------------------------------------------------------------------
\* From Matrix.

\* Mutant: the participant is left out in groups too.
KeyWithoutParticipant(id) == [fromMe |-> id.sender.user = Me, participant |-> NoJID]

messageIDToKey(id) ==
  [fromMe      |-> id.sender.user = Me,
   participant |-> IF id.chat.server \in {"pn", "lid", "bot"} THEN NoJID ELSE id.sender]

\* The library's keys of removals, and of edits, which it takes to be this
\* user's.
BuildMessageKey(chat, sender) ==
  [fromMe      |-> sender.user = Me,
   participant |-> IF sender.user = Me \/ chat.server \in {"pn", "lid"} THEN NoJID
                   ELSE sender]

\* What a handler sends about the message id: the chat and the key.
Request(key) == [chat |-> PortalJID, key |-> key]
HandleMatrixReaction(id)       == Request(messageIDToKey(id))
HandleMatrixReactionRemove(id) == Request(messageIDToKey(id))
HandleMatrixEdit(id)           == Request(BuildMessageKey(id.chat, PN(Me)))
HandleMatrixMessageRemove(id)  == Request(BuildMessageKey(id.chat, id.sender))

\* Messages that are read are named by chat and sender, a blank one in direct
\* chats, as in a key.
HandleMatrixReadReceipt(id) ==
  Request([fromMe |-> FALSE, participant |-> IF id.sender = id.chat THEN NoJID ELSE id.sender])

\* The last message of a chat, by which other devices know what is unread or
\* deleted.
getLastMessageInfo(id) ==
  [fromMe      |-> id.sender \in {PN(Me), LID(Me)},
   participant |-> IF PortalJID.server = "group" THEN id.sender ELSE NoJID]
HandleMarkedUnread(id) == Request(getLastMessageInfo(id))

\* A vote names its poll by a key that the library makes of MessageIDToInfo.
MessageIDToInfo(id) ==
  [chat |-> id.chat, sender |-> id.sender, isFromMe |-> id.sender.user = Me,
   isGroup |-> id.chat.server = "group"]
PollVoteToWhatsApp(id) ==
  LET info == MessageIDToInfo(id)
  IN Request([fromMe |-> info.isFromMe,
              participant |-> IF info.isGroup THEN info.sender ELSE NoJID])

\* Users edit only their own messages, and mark only those of others as read.
Requests(id) ==
  {HandleMatrixReaction(id), HandleMatrixReactionRemove(id), HandleMatrixMessageRemove(id),
   HandleMarkedUnread(id), PollVoteToWhatsApp(id)}
  \cup {IF id.sender.user = Me THEN HandleMatrixEdit(id) ELSE HandleMatrixReadReceipt(id)}

\* generateContextInfo: who wrote the message that a reply quotes.
QuotedParticipant(id) == id.sender

\* The address under which this user's reactions from Matrix are stored.
AlwaysPN(meta) == PN(Me) \* mutant: the addressing mode is not looked at
PreHandleMatrixReaction(meta) ==
  IF PortalJID.server = "lid" \/ meta.mode = "lid" THEN LID(Me) ELSE PN(Me)

-----------------------------------------------------------------------------
\* To Matrix.

\* The message that a reply quotes.
ReplyTo(participant) ==
  MessageID(PortalJID, rerouteMessageKey(known, PortalJID, participant, portal.mode = "lid"))

\* The message that a receipt is about.  It names a sender only if the message
\* is not this user's.
ReceiptOfPN(source) == \* mutant: receipts are for messages of the phone number
  MessageID(rerouteWAMessage(known, source).chat, PN(Me))
handleWAReceipt(source) ==
  LET info == rerouteWAMessage(known, source)
      inLIDGroup == info.chat.server = "group" /\ info.sender.server = "lid"
  IN MessageID(info.chat, IF inLIDGroup THEN LID(Me) ELSE PN(Me))

\* Receipts have no PreHandle, so they must be in the mode of the group.
Receipts(reader) == {s \in Sources(reader) : Tells(s) /\ ~Outdated(s)}

\* The participants by which others quote the message, if they can be resolved.
Quotes ==
  LET home     == IF InDM THEN "pn" ELSE mode
      resolved == msg.author \in known /\ (InDM \/ portal.mode = "lid")
  IN {JID(msg.author, m) : m \in {home} \cup IF resolved THEN Modes ELSE {}}

-----------------------------------------------------------------------------
\* A reaction, a vote, an edit, a removal, a reply or a read marker from Matrix
\* refers to a message in such a way that a login that receives it finds the
\* same message (messageIDToKey, generateContextInfo, KeyToMessageID).  Messages of a bot
\* are left out: in a direct chat their key is that of the other user.
ReferencesArrive ==
  told /\ msg.author # Bot =>
    \A id \in Stored :
      /\ \A d \in Deliveries(Me), request \in Requests(id) :
           d.told => d.chat = request.chat /\ Target(d, request.key) = id
      /\ portal.mode = mode => ReplyTo(QuotedParticipant(id)) = id

\* A reply in either addressing mode, and a receipt of anyone for a message of
\* this user, find the message (ToMatrix, handleWAReceipt).
QuotesAndReceiptsFind ==
  told /\ msg.author # Bot =>
    \A id \in Stored :
      /\ \A participant \in Quotes : ReplyTo(participant) = id
      /\ msg.author = Me =>
           \A reader \in Actors \ {Me} : \A s \in Receipts(reader) : handleWAReceipt(s) = id

\* The reactions of this user are stored under one address, whether they come
\* from Matrix or from another device: so there is one on a message, and a
\* removal from the phone finds the one from Matrix (PreHandleMatrixReaction).
OneReactionSender ==
  told /\ portal.mode = mode =>
    \A d \in Deliveries(Me) : d.told => d.sender = PreHandleMatrixReaction(portal)

=============================================================================
