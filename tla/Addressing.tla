----------------------------- MODULE Addressing -----------------------------
(***************************************************************************)
(* Phone numbers and LIDs: how the connector decides which chat, sender    *)
(* and message an event is about (rerouteWAMessage in handlewhatsapp.go,   *)
(* KeyToMessageID and rerouteMessageKey in msgconv/wa-poll.go).            *)
(*                                                                         *)
(* Every user has a phone number (PN) and a LID, and WhatsApp uses either  *)
(* in its events.  The rooms of direct chats and the messages in them are  *)
(* filed under phone numbers, the messages of a group under the addressing *)
(* mode of the group.                                                      *)
(***************************************************************************)
CONSTANTS
  Person,  \* users
  Me,      \* the user of the login
  Bot,     \* a bot that writes in direct chats
  Group    \* a group chat

ASSUME AddressingAssumption ==
  Me \in Person /\ Bot \notin Person /\ Group \notin Person /\ Bot # Group

Modes == {"pn", "lid"}

\* A JID without a device; a user's JID is in the form of a mode.
JID(user, server) == [user |-> user, server |-> server]
PN(p)    == JID(p, "pn")
LID(p)   == JID(p, "lid")
BotJID   == JID(Bot, "bot")
GroupJID == JID(Group, "group")
NoJID    == JID(Group, "")

UserJIDs == {JID(p, m) : p \in Person, m \in Modes}
JIDs     == UserJIDs \cup {BotJID, GroupJID, NoJID}

\* The LID map of the store, known to hold the users in known.
GetPNForLID(known, jid) ==
  IF jid.server = "lid" /\ jid.user \in known THEN PN(jid.user) ELSE NoJID
GetLIDForPN(known, jid) ==
  IF jid.server = "pn" /\ jid.user \in known THEN LID(jid.user) ELSE NoJID

-----------------------------------------------------------------------------
\* types.MessageSource: chat, sender, the other JIDs of both, if told, and
\* the addressing mode.
Source(chat, sender, senderAlt, recipientAlt, addressing) ==
  [chat |-> chat, sender |-> sender, senderAlt |-> senderAlt,
   recipientAlt |-> recipientAlt, mode |-> addressing]
IsFromMe(info) == info.sender.user = Me

LookUpSender(known, info) ==
  IF info.chat.server = "lid" /\ info.senderAlt = NoJID
  THEN [info EXCEPT !.senderAlt = GetPNForLID(known, info.sender)] ELSE info

SwapSender(info) ==
  Source(info.chat, info.senderAlt, info.sender, info.recipientAlt, info.mode)

\* A message of the other user goes to the chat of their phone number.
RerouteDM(info) == [SwapSender(info) EXCEPT !.chat = info.senderAlt]

\* A message from another device of this user: the recipient's phone number
\* is only known if the event tells it.
RerouteOwn(info) ==
  LET swapped == IF info.sender.server # "lid" THEN info
                 ELSE IF info.senderAlt = NoJID
                      THEN [SwapSender(info) EXCEPT !.sender = PN(Me)]
                      ELSE SwapSender(info)
  IN [swapped EXCEPT !.chat = info.recipientAlt]

RerouteBot(known, info) ==
  LET pn == GetPNForLID(known, info.chat)
  IN IF pn = NoJID THEN info ELSE [info EXCEPT !.chat = pn]

rerouteWAMessage(known, source) ==
  LET info == LookUpSender(known, source)
  IN IF info.chat.server # "lid" THEN info
     ELSE IF info.sender = info.chat /\ info.senderAlt.server = "pn" THEN RerouteDM(info)
     ELSE IF IsFromMe(info) /\ info.recipientAlt.server = "pn" THEN RerouteOwn(info)
     ELSE IF info.sender.server = "bot" THEN RerouteBot(known, info)
     ELSE info

-----------------------------------------------------------------------------
\* A message is filed under its chat and its sender.
MessageID(chat, sender) == [chat |-> chat, sender |-> sender]
NoMessage  == MessageID(NoJID, NoJID)
MessageIDs == [chat : JIDs, sender : JIDs]

\* Mutant: no user is looked up in groups.
rerouteDMKey(known, chat, sender, groupLIDAddressing) ==
  LET pn == GetPNForLID(known, sender)
  IN IF chat.server = "pn" /\ pn # NoJID THEN pn ELSE sender

rerouteMessageKey(known, chat, sender, groupLIDAddressing) ==
  LET pn  == GetPNForLID(known, sender)
      lid == GetLIDForPN(known, sender)
  IN IF chat.server = "pn" /\ pn # NoJID THEN pn
     ELSE IF chat.server = "group" /\ groupLIDAddressing /\ lid # NoJID THEN lid
     ELSE sender

\* Mutant: the participant of the key is not looked at.
KeySenderInDM(chat, sender, key) ==
  IF key.fromMe THEN sender
  ELSE IF chat.server \notin {"pn", "bot"} THEN NoJID
  ELSE IF sender.user = Me THEN chat ELSE PN(Me)

\* Who wrote the message that an event in chat, from sender, refers to with
\* key; NoJID if the key does not tell.
KeySender(chat, sender, key) ==
  IF key.fromMe THEN sender
  ELSE IF key.participant # NoJID THEN key.participant
  ELSE IF chat.server \notin {"pn", "bot"} THEN NoJID
  ELSE IF sender.user = Me THEN chat ELSE PN(Me)

KeyToMessageID(known, chat, sender, key) ==
  LET author == KeySender(chat, sender, key)
  IN IF author = NoJID THEN NoMessage
     ELSE MessageID(chat, rerouteMessageKey(known, chat, author, sender.server = "lid"))

=============================================================================
