--------------------------- MODULE MessagesProofs ---------------------------
(***************************************************************************)
(* Theorems about Messages and References, for every set of users and      *)
(* logins and any number of edits.                                         *)
(***************************************************************************)
EXTENDS References, FiniteSetTheorems, TLAPS

-----------------------------------------------------------------------------
(* Lemmas about addresses.                                                 *)

\* What the constants say of addresses.
LEMMA Distinct ==
  /\ Me \in Person /\ Bot \notin Person /\ Group \notin Person /\ Bot # Group
BY AddressingAssumption

\* Records of sources.
LEMMA Records ==
  /\ \A p : PN(p).server = "pn" /\ PN(p).user = p /\ LID(p).server = "lid" /\ LID(p).user = p
  /\ NoJID.server = "" /\ BotJID.server = "bot" /\ BotJID.user = Bot /\ GroupJID.server = "group"
BY DEF PN, LID, JID, NoJID, BotJID, GroupJID

\* A source in a direct chat: its fields, and how they go together.
LEMMA DMSourceFields ==
  ASSUME NEW actor, NEW s \in DMSources(actor)
  PROVE  \E c \in {PN(msg.peer), LID(msg.peer)},
            f \in IF actor = Bot THEN {BotJID} ELSE {PN(actor), LID(actor)},
            a \in {NoJID, PN(actor), LID(actor)},
            r \in {NoJID, PN(msg.peer), LID(msg.peer)} :
         /\ s = Source(c, f, a, r, "pn")
         /\ f.server \in {c.server, "bot"} \/ (actor = Me /\ c.server = "lid")
         /\ actor = Bot => a = NoJID
         /\ a.server # f.server
         /\ actor # Me => r = NoJID
         /\ r.server # c.server
<1>1. /\ s.chat \in {PN(msg.peer), LID(msg.peer)}
      /\ s.sender \in IF actor = Bot THEN {BotJID} ELSE {PN(actor), LID(actor)}
      /\ s.senderAlt \in {NoJID, PN(actor), LID(actor)}
      /\ s.recipientAlt \in {NoJID, PN(msg.peer), LID(msg.peer)}
      /\ s.mode = "pn"
      /\ s.sender.server \in {s.chat.server, "bot"} \/ (actor = Me /\ s.chat.server = "lid")
      /\ actor = Bot => s.senderAlt = NoJID
      /\ s.senderAlt.server # s.sender.server
      /\ actor # Me => s.recipientAlt = NoJID
      /\ s.recipientAlt.server # s.chat.server
      /\ s = [chat |-> s.chat, sender |-> s.sender, senderAlt |-> s.senderAlt,
              recipientAlt |-> s.recipientAlt, mode |-> s.mode]
  BY DEF DMSources, Modes, PN, LID
<1>2. s = Source(s.chat, s.sender, s.senderAlt, s.recipientAlt, "pn")
  BY <1>1 DEF Source
<1> QED BY <1>1, <1>2

LEMMA SourceChanges ==
  ASSUME NEW c, NEW f, NEW a, NEW r, NEW m
  PROVE  /\ SwapSender(Source(c, f, a, r, m)) = Source(c, a, f, r, m)
         /\ RerouteDM(Source(c, f, a, r, m)) = Source(a, a, f, r, m)
         /\ \A j : [Source(c, f, a, r, m) EXCEPT !.chat = j] = Source(j, f, a, r, m)
         /\ \A j : [Source(c, f, a, r, m) EXCEPT !.sender = j] = Source(c, j, a, r, m)
<1>1. SwapSender(Source(c, f, a, r, m)) = Source(c, a, f, r, m)
  BY DEF SwapSender, Source
<1>2. ASSUME NEW j
      PROVE  [Source(c, f, a, r, m) EXCEPT !.chat = j] = Source(j, f, a, r, m)
  BY DEF Source
<1>3. ASSUME NEW j
      PROVE  [Source(c, f, a, r, m) EXCEPT !.sender = j] = Source(c, j, a, r, m)
  BY DEF Source
<1>4. RerouteDM(Source(c, f, a, r, m)) = Source(a, a, f, r, m)
  <2>1. [Source(c, a, f, r, m) EXCEPT !.chat = a] = Source(a, a, f, r, m)
    BY DEF Source
  <2>2. Source(c, f, a, r, m).senderAlt = a
    BY DEF Source
  <2> QED BY <1>1, <2>1, <2>2 DEF RerouteDM
<1> QED BY <1>1, <1>2, <1>3, <1>4

LEMMA DMLookUp ==
  ASSUME NEW c, NEW f, NEW a, NEW r, NEW m, c.server = "lid"
  PROVE  LookUpSender(known, Source(c, f, a, r, m))
           = Source(c, f, IF a = NoJID THEN GetPNForLID(known, f) ELSE a, r, m)
BY DEF LookUpSender, Source

\* In a direct chat, whoever writes and in whatever form, an event that tells
\* the other user's phone number is filed under it and its sender's.
LEMMA DMFiled ==
  ASSUME NEW actor \in {Me, msg.peer, Bot}, msg.peer \in Person \ {Me},
         NEW s \in DMSources(actor), Tells(s)
  PROVE  /\ rerouteWAMessage(known, s).chat = PN(msg.peer)
         /\ rerouteWAMessage(known, s).sender = IF actor = Bot THEN BotJID ELSE PN(actor)
         /\ rerouteWAMessage(known, s).mode = "pn"
<1> DEFINE Out == rerouteWAMessage(known, s)
<1>1. PICK c \in {PN(msg.peer), LID(msg.peer)},
           f \in IF actor = Bot THEN {BotJID} ELSE {PN(actor), LID(actor)},
           a \in {NoJID, PN(actor), LID(actor)},
           r \in {NoJID, PN(msg.peer), LID(msg.peer)} :
         /\ s = Source(c, f, a, r, "pn")
         /\ f.server \in {c.server, "bot"} \/ (actor = Me /\ c.server = "lid")
         /\ actor = Bot => a = NoJID
         /\ a.server # f.server
         /\ actor # Me => r = NoJID
         /\ r.server # c.server
  BY DMSourceFields
<1>2. /\ s.chat = c /\ s.sender = f /\ s.senderAlt = a /\ s.recipientAlt = r
      /\ s.mode = "pn"
  BY <1>1 DEF Source
<1>3. actor = Bot => actor # Me /\ actor # msg.peer
  BY Distinct
<1>4. CASE c = PN(msg.peer)
  <2>1. LookUpSender(known, s) = s /\ Out = s
    <3>1. s.chat.server # "lid"
      BY Records, <1>2, <1>4
    <3>2. LookUpSender(known, s) = s
      BY <3>1, Zenon DEF LookUpSender
    <3> QED BY <3>1, <3>2 DEF rerouteWAMessage
  <2>2. f = IF actor = Bot THEN BotJID ELSE PN(actor)
    BY Records, <1>1, <1>4
  <2> QED BY <1>2, <1>4, <2>1, <2>2
<1>5. CASE c = LID(msg.peer)
  <2> DEFINE alt == IF a = NoJID THEN GetPNForLID(known, f) ELSE a
  <2> DEFINE i == Source(c, f, alt, r, "pn")
  <2>0. c.server = "lid" /\ s.chat.server = "lid"
    <3>1. c.server = "lid"
      BY Records, <1>5
    <3> QED BY <1>2, <3>1, Zenon
  <2>1. LookUpSender(known, s) = i
    <3>1. LookUpSender(known, Source(c, f, a, r, "pn")) = i
      BY DMLookUp, <2>0
    <3> QED BY <1>1, <3>1
  <2> HIDE DEF alt
  <2>2. /\ i.chat = c /\ i.sender = f /\ i.senderAlt = alt /\ i.recipientAlt = r
        /\ i.mode = "pn"
    BY DEF Source
  <2>3. /\ f = c /\ alt.server = "pn" => Out = RerouteDM(i)
        /\ f # c /\ f.user = Me /\ r.server = "pn" => Out = RerouteOwn(i)
        /\ f # c /\ f.user # Me /\ f.server = "bot" => Out = RerouteBot(known, i)
    <3>1. i.chat.server = "lid"
      BY Records, <1>5, <2>2
    <3> HIDE DEF i
    <3>2. Out = IF f = c /\ alt.server = "pn" THEN RerouteDM(i)
                ELSE IF f.user = Me /\ r.server = "pn" THEN RerouteOwn(i)
                ELSE IF f.server = "bot" THEN RerouteBot(known, i) ELSE i
      BY <2>1, <2>2, <3>1 DEF rerouteWAMessage, IsFromMe
    <3> QED BY <3>2
  <2>4. /\ SwapSender(i) = Source(c, alt, f, r, "pn")
        /\ RerouteDM(i) = Source(alt, alt, f, r, "pn")
        /\ \A j : [i EXCEPT !.chat = j] = Source(j, f, alt, r, "pn")
    BY SourceChanges
  <2>5. CASE actor = Bot
    <3>1. f = BotJID /\ f.user # Me /\ f # c /\ msg.peer \in known
      <4>1. f = BotJID /\ a = NoJID
        BY <1>1, <2>5
      <4>2. f.user # Me /\ f.server # c.server
        BY Records, Distinct, <2>0, <4>1
      <4>3. ~IsFromMe(s)
        BY <1>2, <4>2, Zenon DEF IsFromMe
      <4>4. msg.peer \in known
        BY <1>2, <2>0, <4>1, <4>3, Zenon DEF Tells
      <4> QED BY <4>1, <4>2, <4>4
    <3>2. Out = RerouteBot(known, i)
      BY Records, <1>5, <2>3, <3>1
    <3>3. GetPNForLID(known, i.chat) = PN(msg.peer) /\ PN(msg.peer) # NoJID
      <4>1. i.chat = c
        BY <2>2
      <4>2. c.server = "lid" /\ c.user = msg.peer
        BY Records, <1>5
      <4>3. GetPNForLID(known, c) = PN(msg.peer)
        BY <3>1, <4>2 DEF GetPNForLID
      <4>4. PN(msg.peer) # NoJID
        BY Records
      <4> QED BY <4>1, <4>3, <4>4, Zenon
    <3>4. Out = Source(PN(msg.peer), f, alt, r, "pn")
      BY <2>4, <3>2, <3>3 DEF RerouteBot
    <3> QED BY <2>5, <3>1, <3>4 DEF Source
  <2>6. CASE actor = msg.peer
    <3>1. f = LID(msg.peer) /\ a \in {NoJID, PN(msg.peer)}
      <4>1. f \in {PN(msg.peer), LID(msg.peer)} /\ f.server \in {"lid", "bot"}
        <5>1. actor # Bot /\ actor # Me
          BY <1>3, <2>6
        <5> QED BY <1>1, <2>0, <2>6, <5>1
      <4>2. f = LID(msg.peer)
        BY Records, <4>1
      <4>3. a \in {NoJID, PN(msg.peer), LID(msg.peer)} /\ a.server # f.server
        BY <1>1, <2>6
      <4> QED BY Records, <4>2, <4>3
    <3>2. a # NoJID \/ msg.peer \in known
      <4>1. ~IsFromMe(s)
        <5>1. f.user # Me
          BY Records, <3>1
        <5> QED BY <1>2, <5>1, Zenon DEF IsFromMe
      <4> QED BY <1>2, <2>0, <4>1 DEF Tells
    <3>3. alt = PN(msg.peer)
      BY Records, <3>1, <3>2 DEF GetPNForLID, alt
    <3>4. Out = RerouteDM(i)
      BY Records, <1>5, <2>3, <3>1, <3>3
    <3> QED BY <1>3, <2>4, <2>6, <3>3, <3>4 DEF Source
  <2>7. CASE actor = Me
    <3>1. f \in {PN(Me), LID(Me)} /\ f.user = Me /\ f # c /\ r = PN(msg.peer)
      <4>1. f \in {PN(Me), LID(Me)}
        BY <1>1, <1>3, <2>7
      <4>2. f.user = Me /\ c.user = msg.peer
        BY Records, <1>5, <4>1
      <4>3. r # NoJID
        <5>1. IsFromMe(s)
          BY <1>2, <4>2 DEF IsFromMe
        <5> QED BY <1>2, <2>0, <5>1 DEF Tells
      <4>4. r = PN(msg.peer)
        BY Records, <1>1, <1>5, <4>3
      <4> QED BY <4>1, <4>2, <4>4
    <3>2. Out = RerouteOwn(i)
      BY Records, <2>3, <2>7, <3>1
    <3>3. f = LID(Me) => alt \in {NoJID, PN(Me)}
      BY Records, <1>1, <2>7, <3>1 DEF alt, GetPNForLID
    <3>4. CASE f = PN(Me)
      <4>1. Out = [i EXCEPT !.chat = r]
        BY Records, <2>2, <3>2, <3>4 DEF RerouteOwn
      <4> QED BY <1>3, <2>4, <2>7, <3>1, <3>4, <4>1 DEF Source
    <3>5. CASE f = LID(Me)
      <4>1. SwapSender(i) = Source(c, alt, f, r, "pn")
        BY <2>4
      <4>2. (IF alt = NoJID THEN [SwapSender(i) EXCEPT !.sender = PN(Me)] ELSE SwapSender(i))
              = Source(c, PN(Me), f, r, "pn")
        BY SourceChanges, <3>3, <3>5, <4>1
      <4>3. [Source(c, PN(Me), f, r, "pn") EXCEPT !.chat = r] = Source(r, PN(Me), f, r, "pn")
        BY SourceChanges
      <4>4. f.server = "lid"
        BY Records, <3>5
      <4> HIDE DEF i
      <4>5. Out = Source(r, PN(Me), f, r, "pn")
        BY <2>2, <3>2, <4>2, <4>3, <4>4 DEF RerouteOwn
      <4> QED BY <1>3, <2>7, <3>1, <4>5 DEF Source
    <3> QED BY <3>1, <3>4, <3>5
  <2> QED BY <2>5, <2>6, <2>7
<1> QED BY <1>1, <1>4, <1>5


-----------------------------------------------------------------------------
(* The invariant.                                                          *)

\* Where the chat and an actor's messages are filed.
HomeChat == IF InDM THEN PN(msg.peer) ELSE GroupJID
Address(actor) == IF InDM THEN (IF actor = Bot THEN BotJID ELSE PN(actor)) ELSE JID(actor, mode)
Home == MessageID(HomeChat, Address(msg.author))

\* What Init chooses.
MsgOK ==
  /\ msg \in [chat : {"dm", "group"}, author : Person \cup {Bot}, peer : Person \ {Me},
              media : BOOLEAN, matrix : BOOLEAN]
  /\ msg.author # Bot \/ InDM
  /\ InDM => msg.author \in {Me, msg.peer, Bot} /\ mode = "pn"
  /\ msg.matrix => msg.author = Me

\* Logins receive events in order, and those they could not decrypt were among
\* them.
StreamInv ==
  \A l \in Login :
    /\ Start(l) <= next[l]
    /\ \A event \in owed[l] : Receives(l) /\ Start(l) <= event /\ event < next[l]

\* A message from Matrix is not filed before it is sent, and ignored in both
\* forms of this user's address while it is.
SendInv ==
  /\ send # "none" => msg.matrix
  /\ send = "ready" => \A l \in Login : next[l] = Start(l)
  /\ send \in {"ready", "sending"} => Stored = {} /\ next[MyLogin] = 1
  /\ send = "sending" =>
       \E chat \in SendChats : /\ pending = {MessageID(chat, PN(Me)), MessageID(chat, LID(Me))}
                               /\ told => chat = HomeChat

\* Rows: a placeholder is not edited, and failed media is what is shown.
RowInv ==
  \A id \in Stored :
    /\ rows[id].error = "decryption" <=> rows[id].shown = "placeholder"
    /\ rows[id].shown = "placeholder" => rows[id].edits = {} /\ rows[id].version = 0
    /\ rows[id].shown = "old" => rows[id].error = "media"
    /\ rows[id].error = "media" => rows[id].failed = rows[id].version

\* Where the message is, if the events tell it.
FiledInv ==
  told => /\ Stored \subseteq {Home} /\ ~lost
          /\ Stored # {} => \E l \in Login : Receives(l) /\ next[l] # End
          /\ Stored # {} => send = "sent" \/ \E l \in Login : next[l] # Start(l)

Inv == TypeOK /\ MsgOK /\ StreamInv /\ SendInv /\ RowInv /\ FiledInv


-----------------------------------------------------------------------------
(* Deliveries.                                                             *)

LEMMA SourceJIDs ==
  ASSUME MsgOK, NEW actor \in Person \cup {Bot}, actor = Bot => InDM,
         NEW s \in Sources(actor), mode \in Modes
  PROVE  \E c, f, a, r \in JIDs, m \in Modes : s = Source(c, f, a, r, m)
<1>1. msg.peer \in Person
  BY DEF MsgOK
<1>2. /\ NoJID \in JIDs /\ GroupJID \in JIDs /\ BotJID \in JIDs
      /\ \A p \in Person, m \in Modes : JID(p, m) \in JIDs
  BY DEF JIDs, UserJIDs
<1>3. CASE InDM
  <2>1. /\ s.chat \in {JID(msg.peer, m) : m \in Modes}
        /\ s.sender \in IF actor = Bot THEN {BotJID} ELSE {JID(actor, m) : m \in Modes}
        /\ actor = Bot => s.senderAlt = NoJID
        /\ s.senderAlt \in {NoJID} \cup {JID(actor, m) : m \in Modes}
        /\ s.recipientAlt \in {NoJID} \cup {JID(msg.peer, m) : m \in Modes}
        /\ s.mode = "pn"
        /\ s = Source(s.chat, s.sender, s.senderAlt, s.recipientAlt, s.mode)
    BY <1>3 DEF Sources, DMSources, Source
  <2>2. /\ s.chat \in JIDs /\ s.sender \in JIDs /\ s.senderAlt \in JIDs /\ s.recipientAlt \in JIDs
    BY <1>1, <1>2, <2>1
  <2>3. s.mode \in Modes
    BY <2>1 DEF Modes
  <2> QED BY <2>1, <2>2, <2>3
<1>4. CASE ~InDM
  <2>1. /\ s.chat = GroupJID
        /\ s.sender \in {JID(actor, m) : m \in Modes}
        /\ s.senderAlt \in {NoJID} \cup {JID(actor, m) : m \in Modes}
        /\ s.recipientAlt = NoJID
        /\ s.mode = mode
        /\ s = Source(s.chat, s.sender, s.senderAlt, s.recipientAlt, s.mode)
    BY <1>4 DEF Sources, GroupSources, Source
  <2>2. actor \in Person
    BY <1>4
  <2> QED BY <1>2, <2>1, <2>2
<1> QED BY <1>3, <1>4

LEMMA GroupSourceFields ==
  ASSUME NEW actor, NEW s \in GroupSources(actor)
  PROVE  \E f \in {PN(actor), LID(actor)}, a \in {NoJID, PN(actor), LID(actor)} :
           /\ s = Source(GroupJID, f, a, NoJID, mode)
           /\ f.server = mode \/ (Outdated(s) /\ portal = [mode |-> "pn", attempted |-> FALSE])
           /\ a.server # f.server
<1>1. /\ s.sender \in {PN(actor), LID(actor)}
      /\ s.senderAlt \in {NoJID, PN(actor), LID(actor)}
      /\ s.sender.server = mode \/ (Outdated(s) /\ portal = [mode |-> "pn", attempted |-> FALSE])
      /\ s.senderAlt.server # s.sender.server
  BY DEF GroupSources, Modes, PN, LID
<1>2. s = Source(GroupJID, s.sender, s.senderAlt, NoJID, mode)
  BY DEF GroupSources, Source
<1> QED BY <1>1, <1>2

LEMMA RerouteJIDs ==
  ASSUME known \subseteq Person, NEW c \in JIDs, NEW f \in JIDs, NEW a \in JIDs,
         NEW r \in JIDs, NEW m \in Modes
  PROVE  /\ rerouteWAMessage(known, Source(c, f, a, r, m)).chat \in JIDs
         /\ rerouteWAMessage(known, Source(c, f, a, r, m)).sender \in JIDs
         /\ rerouteWAMessage(known, Source(c, f, a, r, m)).mode = m
<1> DEFINE s == Source(c, f, a, r, m)
           b == IF c.server = "lid" /\ a = NoJID THEN GetPNForLID(known, f) ELSE a
           i == Source(c, f, b, r, m)
<1>1. /\ NoJID \in JIDs /\ PN(Me) \in JIDs
      /\ \A p \in Person : PN(p) \in JIDs
  BY Distinct DEF JIDs, UserJIDs, PN, Modes
<1>2. \A j : GetPNForLID(known, j) \in JIDs
  BY <1>1 DEF GetPNForLID
<1>3. b \in JIDs
  BY <1>2
<1>4. LookUpSender(known, s) = i
  BY DEF LookUpSender, Source
<1> HIDE DEF b
<1>5. i.chat = c /\ i.sender = f /\ i.senderAlt = b /\ i.recipientAlt = r
  BY DEF Source
<1>6. /\ SwapSender(i) = Source(c, b, f, r, m)
      /\ RerouteDM(i) = Source(b, b, f, r, m)
      /\ \A j : [i EXCEPT !.chat = j] = Source(j, f, b, r, m)
      /\ \A x, j : [Source(c, x, f, r, m) EXCEPT !.chat = j] = Source(j, x, f, r, m)
      /\ \A j : [Source(c, b, f, r, m) EXCEPT !.sender = j] = Source(c, j, f, r, m)
  BY SourceChanges
<1>7. \E x \in JIDs, y \in JIDs : \E z : RerouteOwn(i) = Source(x, y, z, r, m)
  <2>1. CASE f.server # "lid"
    BY <1>5, <1>6, <2>1 DEF RerouteOwn
  <2>2. CASE f.server = "lid" /\ b = NoJID
    <3>1. [SwapSender(i) EXCEPT !.sender = PN(Me)] = Source(c, PN(Me), f, r, m)
      BY <1>6
    <3> HIDE DEF i
    <3>2. RerouteOwn(i) = [Source(c, PN(Me), f, r, m) EXCEPT !.chat = r]
      BY <1>5, <2>2, <3>1 DEF RerouteOwn
    <3>3. RerouteOwn(i) = Source(r, PN(Me), f, r, m)
      BY <1>6, <3>2
    <3> QED BY <1>1, <3>3
  <2>3. CASE f.server = "lid" /\ b # NoJID
    <3>1. SwapSender(i) = Source(c, b, f, r, m)
      BY <1>6
    <3> HIDE DEF i
    <3>2. RerouteOwn(i) = [Source(c, b, f, r, m) EXCEPT !.chat = r]
      BY <1>5, <2>3, <3>1 DEF RerouteOwn
    <3>3. RerouteOwn(i) = Source(r, b, f, r, m)
      BY <1>6, <3>2
    <3> QED BY <1>3, <3>3
  <2> QED BY <2>1, <2>2, <2>3
<1>8. \E x \in JIDs : RerouteBot(known, i) = Source(x, f, b, r, m)
  BY <1>2, <1>5, <1>6 DEF RerouteBot
<1>9. rerouteWAMessage(known, s) \in {i, RerouteDM(i), RerouteOwn(i), RerouteBot(known, i)}
  <2> HIDE DEF i, s
  <2> QED BY <1>4 DEF rerouteWAMessage
<1>10. \E x \in JIDs, y \in JIDs : \E z : rerouteWAMessage(known, s) = Source(x, y, z, r, m)
  BY <1>3, <1>6, <1>7, <1>8, <1>9
<1> QED BY <1>10 DEF Source

\* What is known of a delivery of an event of actor: it is filed under JIDs,
\* in a group under one of the actor's, and under the home of the chat if the
\* event tells enough.
Filed(d, actor) ==
  /\ d.chat \in JIDs /\ d.sender \in JIDs
  /\ ~InDM => d.chat = GroupJID /\ d.sender \in {PN(actor), LID(actor)}
  /\ d.told => told /\ d.chat = HomeChat /\ d.sender = Address(actor)

LEMMA DMDelivered ==
  ASSUME MsgOK, known \subseteq Person, mode \in Modes, InDM,
         NEW actor \in {Me, msg.peer, Bot}, NEW s \in Sources(actor)
  PROVE  /\ rerouteWAMessage(known, s).chat \in JIDs
         /\ rerouteWAMessage(known, s).sender \in JIDs
         /\ rerouteWAMessage(known, s).mode = "pn"
         /\ Tells(s) => /\ rerouteWAMessage(known, s).chat = HomeChat
                        /\ rerouteWAMessage(known, s).sender = Address(actor)
<1>1. actor \in Person \cup {Bot} /\ msg.peer \in Person \ {Me}
  BY Distinct DEF MsgOK
<1>2. PICK c \in JIDs, f \in JIDs, a \in JIDs, r \in JIDs, m \in Modes : s = Source(c, f, a, r, m)
  BY SourceJIDs, <1>1
<1>3. s \in DMSources(actor)
  BY DEF Sources
<1>4. s.mode = "pn"
  BY <1>3 DEF DMSources
<1>5. m = "pn"
  BY <1>2, <1>4 DEF Source
<1>6. Tells(s) => /\ rerouteWAMessage(known, s).chat = HomeChat
                  /\ rerouteWAMessage(known, s).sender = Address(actor)
  BY DMFiled, <1>1, <1>3 DEF HomeChat, Address
<1> QED BY RerouteJIDs, <1>2, <1>5, <1>6

LEMMA GroupDelivered ==
  ASSUME ~InDM, NEW actor, NEW s \in Sources(actor)
  PROVE  /\ rerouteWAMessage(known, s) = s /\ s.chat = GroupJID /\ s.mode = mode
         /\ s.sender \in {PN(actor), LID(actor)}
         /\ SwapSender(s).chat = GroupJID /\ SwapSender(s).sender = s.senderAlt
         /\ Outdated(s) => s.senderAlt = LID(actor) /\ portal.mode = "pn" /\ ~portal.attempted
         /\ s.sender = JID(actor, mode) \/ Outdated(s)
<1>1. PICK f \in {PN(actor), LID(actor)}, a \in {NoJID, PN(actor), LID(actor)} :
        /\ s = Source(GroupJID, f, a, NoJID, mode)
        /\ f.server = mode \/ (Outdated(s) /\ portal = [mode |-> "pn", attempted |-> FALSE])
        /\ a.server # f.server
  BY GroupSourceFields DEF Sources
<1>2. s.chat = GroupJID /\ s.mode = mode /\ s.sender = f /\ s.senderAlt = a
  BY <1>1 DEF Source
<1>3. LookUpSender(known, s) = s
  BY Records, <1>2 DEF LookUpSender
<1>4. rerouteWAMessage(known, s) = s
  BY Records, <1>2, <1>3 DEF rerouteWAMessage
<1>5. Outdated(s) => a = LID(actor) /\ f.server # mode
  BY Records, <1>2 DEF Outdated
<1>6. f.server = mode => f = JID(actor, mode)
  BY Records DEF PN, LID
<1>7. SwapSender(s).chat = GroupJID /\ SwapSender(s).sender = s.senderAlt
  BY <1>2 DEF SwapSender, Source
<1> QED BY <1>1, <1>2, <1>4, <1>5, <1>6, <1>7

LEMMA Delivered ==
  ASSUME TypeOK, MsgOK, NEW actor \in Person \cup {Bot},
         InDM => actor \in {Me, msg.peer, Bot}, ~InDM => actor \in Person,
         NEW d \in Deliveries(actor)
  PROVE  /\ Filed(d, actor)
         /\ d.portal \in [mode : Modes, attempted : BOOLEAN] /\ d.told \in BOOLEAN
<1>1. PICK s \in Sources(actor) : d \in PreHandle(rerouteWAMessage(known, s), Tells(s))
  BY DEF Deliveries
<1> DEFINE o == rerouteWAMessage(known, s)
<1>2. CASE InDM
  <2>1. o.chat \in JIDs /\ o.sender \in JIDs /\ o.mode = "pn"
        /\ (Tells(s) => o.chat = HomeChat /\ o.sender = Address(actor))
    BY DMDelivered, <1>2 DEF TypeOK
  <2>2. d = Delivery(o, portal, Tells(s))
    BY <1>1, <2>1 DEF PreHandle
  <2> HIDE DEF o
  <2>3. d.chat = o.chat /\ d.sender = o.sender /\ d.portal = portal
        /\ d.told = (told /\ Tells(s))
    BY <2>2 DEF Delivery
  <2> QED BY <1>2, <2>1, <2>3 DEF Filed, TypeOK
<1>3. CASE ~InDM
  <2>1. /\ o = s /\ s.chat = GroupJID /\ s.mode = mode
        /\ s.sender \in {PN(actor), LID(actor)}
        /\ SwapSender(s).chat = GroupJID /\ SwapSender(s).sender = s.senderAlt
        /\ Outdated(s) => s.senderAlt = LID(actor) /\ portal.mode = "pn" /\ ~portal.attempted
        /\ s.sender = JID(actor, mode) \/ Outdated(s)
    BY GroupDelivered, <1>3
  <2>2. /\ GroupJID \in JIDs /\ PN(actor) \in JIDs /\ LID(actor) \in JIDs
        /\ JID(actor, mode) \in JIDs
    BY <1>3 DEF JIDs, UserJIDs, Modes, PN, LID, TypeOK
  <2>3. HomeChat = GroupJID /\ Address(actor) = JID(actor, mode)
    BY <1>3 DEF HomeChat, Address
  <2>4. Outdated(s) => mode = "lid" /\ LID(actor) = JID(actor, mode)
    BY <2>1 DEF Outdated, LID
  <2>5. portal \in [mode : Modes, attempted : BOOLEAN] /\ told \in BOOLEAN
    BY DEF TypeOK
  <2>6. CASE /\ d = Delivery(s, portal, Tells(s))
             /\ s.mode # "lid" \/ s.chat # GroupJID \/ portal.mode = "lid" \/ portal.attempted
    <3>1. d.chat = s.chat /\ d.sender = s.sender /\ d.portal = portal
          /\ d.told = (told /\ Tells(s))
      BY <2>6 DEF Delivery
    <3>2. ~Outdated(s)
      BY <2>1, <2>4, <2>6
    <3> QED BY <1>3, <2>1, <2>2, <2>3, <2>5, <3>1, <3>2 DEF Filed
  <2>7. CASE d = Delivery(s, [portal EXCEPT !.attempted = TRUE], Tells(s) /\ ~Outdated(s))
    <3>1. d.chat = s.chat /\ d.sender = s.sender /\ d.portal = [portal EXCEPT !.attempted = TRUE]
          /\ d.told = (told /\ Tells(s) /\ ~Outdated(s))
      BY <2>7 DEF Delivery
    <3> QED BY <1>3, <2>1, <2>2, <2>3, <2>5, <3>1 DEF Filed
  <2>8. CASE d = Delivery(IF Outdated(s) THEN SwapSender(s) ELSE s,
                          [mode |-> "lid", attempted |-> TRUE], Tells(s))
    <3>1. /\ d.chat = (IF Outdated(s) THEN SwapSender(s) ELSE s).chat
          /\ d.sender = (IF Outdated(s) THEN SwapSender(s) ELSE s).sender
          /\ d.portal = [mode |-> "lid", attempted |-> TRUE]
          /\ d.told = (told /\ Tells(s))
      BY <2>8 DEF Delivery
    <3>2. d.chat = GroupJID /\ d.sender = JID(actor, mode)
      BY <2>1, <2>4, <3>1
    <3>3. JID(actor, mode) \in {PN(actor), LID(actor)}
      BY <2>1, <2>4
    <3> QED BY <1>3, <2>2, <2>3, <2>5, <3>1, <3>2, <3>3 DEF Filed, Modes
  <2> QED BY <1>1, <2>1, <2>6, <2>7, <2>8 DEF PreHandle
<1> QED BY <1>2, <1>3

LEMMA UndecryptableDelivered ==
  ASSUME TypeOK, MsgOK, NEW d \in UndecryptableDeliveries(msg.author)
  PROVE  Filed(d, msg.author) /\ d.told \in BOOLEAN
<1> DEFINE actor == msg.author
<1>1. PICK s \in Sources(actor) :
        d = Delivery(rerouteWAMessage(known, s), portal, Tells(s) /\ ~Outdated(s))
  BY DEF UndecryptableDeliveries
<1> DEFINE o == rerouteWAMessage(known, s)
<1>2. d.chat = o.chat /\ d.sender = o.sender /\ d.told = (told /\ Tells(s) /\ ~Outdated(s))
  BY <1>1 DEF Delivery
<1>3. CASE InDM
  <2>1. o.chat \in JIDs /\ o.sender \in JIDs
        /\ (Tells(s) => o.chat = HomeChat /\ o.sender = Address(actor))
    BY DMDelivered, <1>3 DEF TypeOK, MsgOK
  <2> QED BY <1>2, <1>3, <2>1 DEF Filed, TypeOK
<1>4. CASE ~InDM
  <2>1. /\ o.chat = GroupJID /\ o.sender \in {PN(actor), LID(actor)}
        /\ o.sender = JID(actor, mode) \/ Outdated(s)
    BY GroupDelivered, <1>4
  <2>2. actor \in Person
    BY <1>4 DEF MsgOK
  <2>3. GroupJID \in JIDs /\ PN(actor) \in JIDs /\ LID(actor) \in JIDs
    BY <2>2 DEF JIDs, UserJIDs, Modes, PN, LID
  <2>4. HomeChat = GroupJID /\ Address(actor) = JID(actor, mode)
    BY <1>4 DEF HomeChat, Address
  <2> QED BY <1>2, <1>4, <2>1, <2>3, <2>4 DEF Filed, TypeOK
<1> QED BY <1>3, <1>4

\* Whoever refers to the message, in whatever form, means the ID it is filed
\* under, if the group's LIDs are known.
LEMMA TargetHome ==
  ASSUME TypeOK, MsgOK, NEW actor, NEW d, NEW key \in Keys(actor),
         actor \in Actors \/ actor = msg.author, KeyTells(key),
         d.chat = HomeChat, d.sender = Address(actor)
  PROVE  Target(d, key) = Home
<1> DEFINE author == KeySender(d.chat, d.sender, key)
<1>1. /\ key.fromMe = (actor = msg.author)
      /\ InDM \/ key.fromMe => key.participant = NoJID
      /\ ~InDM /\ ~key.fromMe => key.participant \in {PN(msg.author), LID(msg.author)}
                                 /\ key.participant.server \in {"pn", mode}
  <2>1. key.fromMe \in {actor = msg.author}
    BY DEF Keys
  <2>2. IF InDM \/ key.fromMe THEN key.participant = NoJID
        ELSE key.participant.server \in {"pn", mode}
    BY DEF Keys
  <2>3. key.participant \in {NoJID} \cup {JID(msg.author, m) : m \in Modes}
    BY DEF Keys
  <2>4. NoJID.server \notin {"pn", mode}
    BY Records DEF TypeOK, Modes
  <2>5. key.participant \in {NoJID, PN(msg.author), LID(msg.author)}
    BY <2>3 DEF Modes, PN, LID
  <2> HIDE DEF InDM
  <2>6. key.fromMe = (actor = msg.author)
    BY <2>1, Zenon
  <2> QED BY <2>2, <2>4, <2>5, <2>6, Zenon
<1>2. author = Address(msg.author) \/ (~InDM /\ mode = "lid" /\ author = PN(msg.author)
                                       /\ msg.author \in known /\ actor # msg.author)
  <2>1. CASE actor = msg.author
    <3>1. author = d.sender
      BY <1>1, <2>1, Zenon DEF KeySender
    <3> QED BY <2>1, <3>1
  <2>2. CASE actor # msg.author /\ InDM
    <3>1. key.participant = NoJID /\ ~key.fromMe
      BY <1>1, <2>2, Zenon
    <3>2. d.chat = PN(msg.peer) /\ d.chat.server = "pn"
      BY <2>2, Records DEF HomeChat
    <3>3. author = IF d.sender.user = Me THEN d.chat ELSE PN(Me)
      <4>1. ~(d.chat.server \notin {"pn", "bot"})
        BY <3>2
      <4> QED BY <3>1, <4>1, Zenon DEF KeySender
    <3>4. {actor, msg.author} = {Me, msg.peer} /\ msg.author # Bot /\ actor # Bot /\ Me # msg.peer
      BY Distinct, <2>2 DEF Actors, MsgOK
    <3>5. d.sender = PN(actor) /\ d.sender.user = actor /\ Address(msg.author) = PN(msg.author)
      BY <2>2, <3>4, Records DEF Address
    <3> QED BY <3>2, <3>3, <3>4, <3>5
  <2>3. CASE actor # msg.author /\ ~InDM
    <3>1. /\ key.participant \in {PN(msg.author), LID(msg.author)} /\ ~key.fromMe
          /\ key.participant.server \in {"pn", mode}
      BY <1>1, <2>3, Zenon
    <3>2. key.participant # NoJID
      BY <3>1, Records
    <3>3. author = key.participant
      BY <3>1, <3>2, Zenon DEF KeySender
    <3>4. Address(msg.author) = JID(msg.author, mode)
      BY <2>3 DEF Address
    <3>5. mode = "pn" \/ mode = "lid"
      BY DEF TypeOK, Modes
    <3>6. CASE mode = "pn"
      BY <3>1, <3>3, <3>4, <3>6, Records DEF PN
    <3>7. CASE mode = "lid"
      BY <2>3, <3>1, <3>3, <3>4, <3>7, Records DEF LID, KeyTells
    <3> QED BY <3>5, <3>6, <3>7
  <2> QED BY <2>1, <2>2, <2>3
<1>3. author # NoJID
  <2>1. Address(msg.author).server # ""
    BY Records DEF Address, JID, TypeOK, Modes
  <2> QED BY <1>2, <2>1, Records
<1>4. rerouteMessageKey(known, d.chat, author, d.sender.server = "lid") = Address(msg.author)
  <2> HIDE DEF author
  <2>1. CASE InDM
    <3>1. author.server \in {"pn", "bot"}
      BY <1>2, <2>1, Records DEF Address
    <3>2. GetPNForLID(known, author) = NoJID /\ d.chat.server = "pn"
      BY <2>1, <3>1, Records DEF GetPNForLID, HomeChat
    <3> QED BY <1>2, <2>1, <3>2 DEF rerouteMessageKey
  <2>2. CASE ~InDM
    <3>1. d.chat.server = "group" /\ d.sender.server = mode
      <4>1. d.chat = GroupJID /\ d.sender = JID(actor, mode)
        BY <2>2 DEF HomeChat, Address
      <4>2. JID(actor, mode).server = mode
        BY DEF JID
      <4> QED BY <4>1, <4>2, Records
    <3>2. author.server = "lid" => GetLIDForPN(known, author) = NoJID
      BY DEF GetLIDForPN
    <3>3. rerouteMessageKey(known, d.chat, author, d.sender.server = "lid")
            = IF mode = "lid" /\ GetLIDForPN(known, author) # NoJID
              THEN GetLIDForPN(known, author) ELSE author
      BY <3>1 DEF rerouteMessageKey
    <3>4. CASE author = Address(msg.author)
      <4>1. author.server = mode
        BY <2>2, <3>4 DEF Address, JID
      <4> QED BY <3>2, <3>3, <3>4, <4>1
    <3>5. CASE mode = "lid" /\ author = PN(msg.author) /\ msg.author \in known
      <4>1. GetLIDForPN(known, author) = LID(msg.author)
        BY <3>5, Records DEF GetLIDForPN
      <4>2. LID(msg.author) # NoJID /\ LID(msg.author) = Address(msg.author)
        BY <2>2, <3>5, Records DEF Address, LID
      <4> QED BY <3>3, <3>5, <4>1, <4>2
    <3> QED BY <1>2, <3>4, <3>5
  <2> QED BY <2>1, <2>2
<1>5. Target(d, key) = MessageID(d.chat, Address(msg.author))
  BY <1>3, <1>4 DEF Target, KeyToMessageID
<1> QED BY <1>5 DEF Home

-----------------------------------------------------------------------------
(* Steps.                                                                  *)

\* What PutRows and DeleteRows do to the rows.
LEMMA PutRows ==
  ASSUME NEW id, NEW row
  PROVE  /\ DOMAIN Put(id, row) = Stored \cup {id} /\ Put(id, row)[id] = row
         /\ \A j \in Stored \ {id} : Put(id, row)[j] = rows[j]
BY DEF Put, Stored

LEMMA DeleteRows ==
  ASSUME NEW id
  PROVE  /\ DOMAIN Delete(id) = Stored \ {id}
         /\ \A j \in Stored \ {id} : Delete(id)[j] = rows[j]
BY DEF Delete, Stored

\* What a conversion may show, and rows with it.
Shows == {"content", "old", "broken"}
WithEdit(row, i) == [row EXCEPT !.edits = @ \cup {i}]
Answered(row, shown) == [row EXCEPT !.shown = shown, !.version = row.failed]

LEMMA NewRowFields ==
  ASSUME NEW shown \in Shows
  PROVE  /\ NewRow(shown) \in Row
         /\ NewRow(shown).shown = shown /\ NewRow(shown).error = ErrorOf(shown)
         /\ NewRow(shown).version = 0
         /\ shown = "old" => NewRow(shown).failed = 0
BY MessagesAssumption DEF NewRow, Row, Shows, Shown, Errors, ErrorOf, Versions, NoVersion

LEMMA PlaceholderFields ==
  /\ Placeholder \in Row
  /\ Placeholder.shown = "placeholder" /\ Placeholder.error = "decryption"
  /\ Placeholder.version = 0 /\ Placeholder.edits = {}
BY MessagesAssumption DEF Placeholder, Row, Shown, Errors, Versions, NoVersion

\* A row by its fields.
Cells(shown, version, error, edits, failed) ==
  [shown |-> shown, version |-> version, error |-> error, edits |-> edits, failed |-> failed]

LEMMA RowCells ==
  ASSUME NEW row \in Row
  PROVE  row = Cells(row.shown, row.version, row.error, row.edits, row.failed)
BY DEF Row, Cells

LEMMA CellChanges ==
  ASSUME NEW s, NEW v, NEW e, NEW d, NEW f
  PROVE  /\ \A x : [Cells(s, v, e, d, f) EXCEPT !.shown = x] = Cells(x, v, e, d, f)
         /\ \A x : [Cells(s, v, e, d, f) EXCEPT !.version = x] = Cells(s, x, e, d, f)
         /\ \A x : [Cells(s, v, e, d, f) EXCEPT !.error = x] = Cells(s, v, x, d, f)
         /\ \A x : [Cells(s, v, e, d, f) EXCEPT !.failed = x] = Cells(s, v, e, d, x)
<1>1. ASSUME NEW x PROVE [Cells(s, v, e, d, f) EXCEPT !.shown = x] = Cells(x, v, e, d, f)
  BY DEF Cells
<1>2. ASSUME NEW x PROVE [Cells(s, v, e, d, f) EXCEPT !.version = x] = Cells(s, x, e, d, f)
  BY DEF Cells
<1>3. ASSUME NEW x PROVE [Cells(s, v, e, d, f) EXCEPT !.error = x] = Cells(s, v, x, d, f)
  BY DEF Cells
<1>4. ASSUME NEW x PROVE [Cells(s, v, e, d, f) EXCEPT !.failed = x] = Cells(s, v, e, d, x)
  BY DEF Cells
<1> QED BY <1>1, <1>2, <1>3, <1>4

LEMMA EditedFields ==
  ASSUME NEW row \in Row, NEW shown \in Shows, NEW v \in Versions
  PROVE  /\ Edited(row, shown, v) \in Row
         /\ Edited(row, shown, v).shown = shown
         /\ Edited(row, shown, v).error = ErrorOf(shown)
         /\ Edited(row, shown, v).version = v
         /\ shown = "old" => Edited(row, shown, v).failed = v
<1> DEFINE failed == IF shown = "old" THEN v ELSE row.failed
<1>0. PICK s, w, e, d, f : row = Cells(s, w, e, d, f)
  BY RowCells
<1>a. row.edits = d
  BY <1>0 DEF Cells
<1> HIDE DEF failed
<1>b. [[[[row EXCEPT !.shown = shown] EXCEPT !.version = v] EXCEPT !.error = ErrorOf(shown)]
          EXCEPT !.failed = failed]
        = Cells(shown, v, ErrorOf(shown), row.edits, failed)
  <2>1. [row EXCEPT !.shown = shown] = Cells(shown, w, e, d, f)
    BY CellChanges, <1>0
  <2>2. [Cells(shown, w, e, d, f) EXCEPT !.version = v] = Cells(shown, v, e, d, f)
    BY CellChanges
  <2>3. [Cells(shown, v, e, d, f) EXCEPT !.error = ErrorOf(shown)]
          = Cells(shown, v, ErrorOf(shown), d, f)
    BY CellChanges
  <2>4. [Cells(shown, v, ErrorOf(shown), d, f) EXCEPT !.failed = failed]
          = Cells(shown, v, ErrorOf(shown), d, failed)
    BY CellChanges
  <2> QED BY <1>a, <2>1, <2>2, <2>3, <2>4, Zenon
<1>1. Edited(row, shown, v) = Cells(shown, v, ErrorOf(shown), row.edits, failed)
  BY <1>b, Zenon DEF Edited, failed
<1>2. row.edits \in SUBSET Edits /\ row.failed \in Versions \cup {NoVersion}
  BY DEF Row
<1>3. shown \in Shown /\ ErrorOf(shown) \in Errors
  BY DEF Shows, Shown, ErrorOf, Errors
<1>4. failed \in Versions \cup {NoVersion} /\ (shown = "old" => failed = v)
  BY <1>2 DEF failed
<1> QED BY <1>1, <1>2, <1>3, <1>4 DEF Row, Cells

LEMMA WithEditFields ==
  ASSUME NEW row \in Row, NEW i \in Edits
  PROVE  WithEdit(row, i) \in Row
BY DEF WithEdit, Row

LEMMA AnsweredFields ==
  ASSUME NEW row \in Row, NEW shown \in {"content", "broken", "notice"}, row.failed # NoVersion
  PROVE  /\ Answered(row, shown) \in Row
         /\ Answered(row, shown).shown = shown /\ Answered(row, shown).error = row.error
         /\ Answered(row, shown).version = row.failed /\ Answered(row, shown).failed = row.failed
<1>0. PICK s, w, e, d, f : row = Cells(s, w, e, d, f)
  BY RowCells
<1>a. row.edits = d /\ row.error = e /\ row.failed = f
  BY <1>0 DEF Cells
<1>b. [[row EXCEPT !.shown = shown] EXCEPT !.version = row.failed]
        = Cells(shown, row.failed, row.error, row.edits, row.failed)
  <2>1. [row EXCEPT !.shown = shown] = Cells(shown, w, e, d, f)
    BY CellChanges, <1>0
  <2>2. [Cells(shown, w, e, d, f) EXCEPT !.version = row.failed] = Cells(shown, row.failed, e, d, f)
    BY CellChanges
  <2> QED BY <1>a, <2>1, <2>2, Zenon
<1>1. Answered(row, shown) = Cells(shown, row.failed, row.error, row.edits, row.failed)
  BY <1>b, Zenon DEF Answered
<1>2. row.edits \in SUBSET Edits /\ row.failed \in Versions /\ row.error \in Errors
  BY DEF Row
<1>3. shown \in Shown
  BY DEF Shown
<1> QED BY <1>1, <1>2, <1>3 DEF Row, Cells

\* How the row of a message comes to be or changes.
Change(id, row) ==
  \/ id \notin Stored /\ (row = Placeholder \/ \E shown \in Shows : row = NewRow(shown))
  \/ id \in Stored /\ rows[id].error = "decryption"
     /\ \E shown \in Shows : row = Edited(rows[id], shown, 0)
  \/ id \in Stored
     /\ \E i \in Edits \ rows[id].edits, shown \in Shows : row = Edited(WithEdit(rows[id], i), shown, i)
  \/ id \in Stored /\ rows[id].error = "media" /\ rows[id].failed # NoVersion
     /\ \E shown \in {"content", "broken", "notice"} : row = Answered(rows[id], shown)

LEMMA ConversionShows ==
  Conversions \subseteq Shows /\ \A id : EditConversions(id) \subseteq Shows
BY DEF Conversions, EditConversions, Shows

\* A step changes, adds or removes the row of one message at most.
LEMMA RowChange ==
  ASSUME TypeOK, MsgOK, SendInv, Next
  PROVE  \/ rows' = rows
         \/ \E id : rows' = Delete(id)
         \/ \E id \in MessageIDs : \E row : rows' = Put(id, row) /\ Change(id, row)
<1> DEFINE Goal == \/ rows' = rows
                   \/ \E id : rows' = Delete(id)
                   \/ \E id \in MessageIDs : \E row : rows' = Put(id, row) /\ Change(id, row)
<1>0. msg.author \in Person \cup {Bot} /\ (InDM => msg.author \in {Me, msg.peer, Bot})
      /\ (~InDM => msg.author \in Person)
  BY DEF MsgOK
<1>1. ASSUME NEW l \in Login, Undecryptable(l) PROVE Goal
  <2>1. PICK d \in UndecryptableDeliveries(msg.author) :
          LET id == MessageID(d.chat, d.sender)
          IN rows' = IF id \in pending \/ Found(id) THEN rows ELSE Put(id, Placeholder)
    BY <1>1 DEF Undecryptable
  <2> DEFINE id == MessageID(d.chat, d.sender)
  <2>2. id \in MessageIDs
    BY UndecryptableDelivered DEF Filed, MessageID, MessageIDs
  <2>3. ~Found(id) => Change(id, Placeholder)
    BY DEF Change, Found
  <2> QED BY <2>1, <2>2, <2>3
<1>2. ASSUME NEW l \in Login, Message(l) PROVE Goal
  <2>1. PICK d \in Deliveries(msg.author), shown \in Conversions :
          LET id == MessageID(d.chat, d.sender)
          IN NewMessage(id, shown) \/ ExistingMessage(id, shown)
    BY <1>2 DEF Message
  <2> DEFINE id == MessageID(d.chat, d.sender)
  <2>2. id \in MessageIDs
    BY Delivered, <1>0 DEF Filed, MessageID, MessageIDs
  <2>3. shown \in Shows
    BY ConversionShows
  <2> HIDE DEF id
  <2>4. CASE NewMessage(id, shown)
    BY <2>2, <2>3, <2>4 DEF NewMessage, Change, Found
  <2>5. CASE ExistingMessage(id, shown)
    BY <2>2, <2>3, <2>5 DEF ExistingMessage, Change, Found
  <2> QED BY <2>1, <2>4, <2>5 DEF id
<1>3. ASSUME NEW l \in Login, Edit(l) PROVE Goal
  <2>0. PICK i \in Edits, id \in {Target(d, key) : d \in Deliveries(msg.author), key \in Keys(msg.author)} :
          \E shown \in EditConversions(id) : ApplyEdit(id, i, shown)
    BY <1>3 DEF Edit
  <2>1. PICK shown \in EditConversions(id) : ApplyEdit(id, i, shown)
    BY <2>0
  <2>2. shown \in Shows
    BY ConversionShows
  <2>3. CASE id \in Stored /\ i \notin rows[id].edits
    <3>1. rows' = Put(id, Edited(WithEdit(rows[id], i), shown, i))
      BY <2>1, <2>3 DEF ApplyEdit, Found, WithEdit
    <3>2. Change(id, Edited(WithEdit(rows[id], i), shown, i)) /\ id \in MessageIDs
      BY <2>2, <2>3 DEF Change, TypeOK
    <3> QED BY <3>1, <3>2
  <2>4. CASE ~(id \in Stored /\ i \notin rows[id].edits)
    BY <2>1, <2>4 DEF ApplyEdit, Found
  <2> QED BY <2>3, <2>4
<1>4. ASSUME NEW l \in Login, Revoke(l) PROVE Goal
  BY <1>4 DEF Revoke
<1>5. CASE MediaRetry
  <2>1. PICK id \in Stored, shown \in {"content", "broken", "notice"} :
          /\ rows[id].error = "media" /\ rows[id].failed # NoVersion
          /\ rows' = Put(id, Answered(rows[id], shown))
    BY <1>5 DEF MediaRetry, Answered
  <2>2. Change(id, Answered(rows[id], shown)) /\ id \in MessageIDs
    BY <2>1 DEF Change, TypeOK
  <2> QED BY <2>1, <2>2
<1>6. CASE Sent
  <2>1. PICK sender \in SentAs, id \in pending :
          send = "sending" /\ rows' = Put(PickedMessageID(id.chat, sender), NewRow("content"))
    BY <1>6 DEF Sent
  <2> DEFINE picked == PickedMessageID(id.chat, sender)
  <2>2. picked \notin Stored
    BY <2>1 DEF SendInv
  <2>3. picked \in MessageIDs
    <3>1. id.chat \in JIDs
      BY DEF TypeOK, MessageIDs
    <3>2. PN(Me) \in JIDs /\ LID(Me) \in JIDs
      BY Distinct DEF JIDs, UserJIDs, PN, LID, Modes
    <3>3. PickedMessageID(id.chat, sender) \in {MessageID(id.chat, PN(Me)), MessageID(id.chat, LID(Me))}
      BY DEF PickedMessageID
    <3> QED BY <3>1, <3>2, <3>3 DEF MessageIDs, MessageID
  <2>4. Change(picked, NewRow("content"))
    BY <2>2 DEF Change, Shows
  <2> QED BY <2>1, <2>3, <2>4
<1>7. ASSUME NEW l \in Login, UndecryptableEdit(l) PROVE Goal
  BY <1>7 DEF UndecryptableEdit
<1>8. CASE Reaction \/ SendFromMatrix \/ SendFails \/ MoveToLIDs \/ Forget \/ \E p \in Person : Learn(p)
  BY <1>8 DEF Reaction, SendFromMatrix, SendFails, MoveToLIDs, Forget, Learn
<1> QED BY <1>1, <1>2, <1>3, <1>4, <1>5, <1>6, <1>7, <1>8 DEF Next

\* What holds of each row, and of a changed one.
RowOK(row) ==
  /\ row.error = "decryption" <=> row.shown = "placeholder"
  /\ row.shown = "placeholder" => row.edits = {} /\ row.version = 0
  /\ row.shown = "old" => row.error = "media"
  /\ row.error = "media" => row.failed = row.version

LEMMA ChangeOK ==
  ASSUME NEW id, NEW row, Change(id, row), id \in Stored => rows[id] \in Row /\ RowOK(rows[id])
  PROVE  /\ row \in Row /\ RowOK(row)
         /\ id \in Stored /\ row.version # rows[id].version => row.version \in Edits \ rows[id].edits
<1>0. 0 \in Versions /\ \A i \in Edits : i \in Versions
  BY MessagesAssumption DEF Versions, Edits
<1>1. CASE id \notin Stored /\ row = Placeholder
  BY PlaceholderFields, <1>1 DEF RowOK
<1>2. ASSUME id \notin Stored, NEW shown \in Shows, row = NewRow(shown)
      PROVE  row \in Row /\ RowOK(row)
  BY NewRowFields, <1>2 DEF RowOK, Shows, ErrorOf
<1>3. ASSUME id \in Stored, rows[id].error = "decryption",
             NEW shown \in Shows, row = Edited(rows[id], shown, 0)
      PROVE  row \in Row /\ RowOK(row) /\ row.version = rows[id].version
  <2>1. rows[id] \in Row /\ rows[id].version = 0
    BY <1>3 DEF RowOK
  <2>2. /\ row \in Row /\ row.shown = shown /\ row.error = ErrorOf(shown) /\ row.version = 0
        /\ shown = "old" => row.failed = 0
    BY EditedFields, <1>0, <1>3, <2>1
  <2> QED BY <2>1, <2>2 DEF RowOK, Shows, ErrorOf
<1>4. ASSUME id \in Stored, NEW i \in Edits \ rows[id].edits, NEW shown \in Shows,
             row = Edited(WithEdit(rows[id], i), shown, i)
      PROVE  row \in Row /\ RowOK(row) /\ row.version = i
  <2>1. WithEdit(rows[id], i) \in Row
    BY WithEditFields, <1>4
  <2>2. /\ row \in Row /\ row.shown = shown /\ row.error = ErrorOf(shown) /\ row.version = i
        /\ shown = "old" => row.failed = i
    BY EditedFields, <1>0, <1>4, <2>1
  <2> QED BY <2>2 DEF RowOK, Shows, ErrorOf
<1>5. ASSUME id \in Stored, rows[id].error = "media", rows[id].failed # NoVersion,
             NEW shown \in {"content", "broken", "notice"}, row = Answered(rows[id], shown)
      PROVE  row \in Row /\ RowOK(row) /\ row.version = rows[id].version
  <2>1. rows[id] \in Row /\ rows[id].failed = rows[id].version
    BY <1>5 DEF RowOK
  <2>2. /\ row \in Row /\ row.shown = shown /\ row.error = "media"
        /\ row.version = rows[id].failed /\ row.failed = rows[id].failed
    BY AnsweredFields, <1>5, <2>1
  <2> QED BY <2>1, <2>2 DEF RowOK
<1> QED BY <1>1, <1>2, <1>3, <1>4, <1>5 DEF Change

\* A step keeps the rows in order, and changes their versions as NoUndo says.
LEMMA RowStep ==
  ASSUME TypeOK, MsgOK, SendInv, RowInv, Next
  PROVE  /\ RowInv' /\ Stored' \subseteq MessageIDs /\ \A id \in Stored' : rows'[id] \in Row
         /\ \A id \in Stored \cap Stored' : rows'[id].version # rows[id].version
              => rows'[id].version \in Edits \ rows[id].edits
<1> USE DEF Stored
<1>1. Stored \subseteq MessageIDs /\ \A id \in Stored : rows[id] \in Row /\ RowOK(rows[id])
  BY DEF TypeOK, RowInv, RowOK
<1>2. SUFFICES /\ Stored' \subseteq MessageIDs
               /\ \A id \in Stored' : rows'[id] \in Row /\ RowOK(rows'[id])
               /\ \A id \in Stored \cap Stored' : rows'[id].version # rows[id].version
                    => rows'[id].version \in Edits \ rows[id].edits
  BY DEF RowInv, RowOK
<1>3. CASE rows' = rows
  BY <1>1, <1>3
<1>4. ASSUME NEW id, rows' = Delete(id)
      PROVE  /\ Stored' \subseteq Stored /\ \A j \in Stored' : rows'[j] = rows[j]
  BY DeleteRows, <1>4
<1>5. ASSUME NEW id \in MessageIDs, NEW row, rows' = Put(id, row), Change(id, row)
      PROVE  /\ Stored' = Stored \cup {id} /\ rows'[id] = row /\ row \in Row /\ RowOK(row)
             /\ \A j \in Stored \ {id} : rows'[j] = rows[j]
             /\ id \in Stored /\ row.version # rows[id].version
                  => row.version \in Edits \ rows[id].edits
  <2>1. /\ row \in Row /\ RowOK(row)
        /\ id \in Stored /\ row.version # rows[id].version => row.version \in Edits \ rows[id].edits
    BY ChangeOK, <1>1, <1>5
  <2>2. /\ DOMAIN Put(id, row) = Stored \cup {id} /\ Put(id, row)[id] = row
        /\ \A j \in Stored \ {id} : Put(id, row)[j] = rows[j]
    BY DEF Put
  <2>3. /\ DOMAIN rows' = Stored \cup {id} /\ rows'[id] = row
        /\ \A j \in Stored \ {id} : rows'[j] = rows[j]
    BY <1>5, <2>2, Zenon
  <2> QED BY <2>1, <2>3
<1>6. CASE \E id : rows' = Delete(id)
  BY <1>1, <1>4, <1>6
<1>7. CASE \E id \in MessageIDs : \E row : rows' = Put(id, row) /\ Change(id, row)
  <2>0. PICK id \in MessageIDs : \E row : rows' = Put(id, row) /\ Change(id, row)
    BY <1>7
  <2>1. PICK row : rows' = Put(id, row) /\ Change(id, row)
    BY <2>0
  <2>2. /\ Stored' = Stored \cup {id} /\ rows'[id] = row /\ row \in Row /\ RowOK(row)
        /\ \A j \in Stored \ {id} : rows'[j] = rows[j]
        /\ id \in Stored /\ row.version # rows[id].version
             => row.version \in Edits \ rows[id].edits
    BY <1>5, <2>1
  <2> QED BY <1>1, <2>2
<1> QED BY RowChange, <1>3, <1>6, <1>7

-----------------------------------------------------------------------------
(* Streams of events.                                                      *)

LEMMA MessageFixed ==
  ASSUME Next
  PROVE  /\ msg' = msg /\ (mode' = mode \/ MoveToLIDs)
         /\ \A l : Start(l)' = Start(l) /\ (Receives(l)' <=> Receives(l))
<1>1. msg' = msg /\ (mode' = mode \/ MoveToLIDs)
  BY DEF Next, Undecryptable, UndecryptableEdit, Message, Edit, Revoke, Reaction, MediaRetry,
         SendFromMatrix, Sent, SendFails, Learn, Forget, MoveToLIDs
<1> QED BY <1>1 DEF Start, Receives, InDM

LEMMA StartBounds == \A l : Start(l) \in {0, 1} /\ (Start(l) = 1 <=> msg.matrix /\ l = MyLogin)
<1>1. ASSUME NEW l PROVE Start(l) \in {0, 1} /\ (Start(l) = 1 <=> msg.matrix /\ l = MyLogin)
  <2>1. CASE msg.matrix /\ l = MyLogin
    BY <2>1, Zenon DEF Start
  <2>2. CASE ~(msg.matrix /\ l = MyLogin)
    <3>1. Start(l) = 0
      BY <2>2, Zenon DEF Start
    <3> QED BY <2>2, <3>1
  <2> QED BY <2>1, <2>2
<1> QED BY <1>1

\* A login that could take the next event: no message of its own is being sent.
LEMMA NextEvent ==
  ASSUME TypeOK, StreamInv, SendInv, NEW l \in Login, NEW event \in 0 .. Removal,
         IsNext(l, event), Advance(l)
  PROVE  /\ Receives(l) /\ Start(l) <= event /\ next[l] = event /\ next'[l] = event + 1
         /\ next' \in [Login -> 0 .. End] /\ \A m \in Login : next[m] <= next'[m]
         /\ send # "ready" /\ (send = "sending" => l # MyLogin)
<1>1. NEdits \in Nat /\ next \in [Login -> 0 .. End] /\ next[l] = event
  BY MessagesAssumption DEF TypeOK, IsNext
<1>2. next' = [next EXCEPT ![l] = event + 1] /\ event + 1 \in 0 .. End
  BY <1>1 DEF Advance, Removal, End
<1>3. /\ next' \in [Login -> 0 .. End] /\ next'[l] = event + 1
      /\ \A m \in Login : next[m] <= next'[m]
  BY <1>1, <1>2 DEF End
<1>4. send = "sending" => l # MyLogin
  <2>1. (msg.matrix /\ l = MyLogin) => send # "sending"
    BY Zenon DEF IsNext
  <2>2. send = "sending" => msg.matrix
    BY DEF SendInv
  <2> QED BY <2>1, <2>2, Zenon
<1>5. Receives(l) /\ send # "ready"
  BY DEF IsNext, OnWhatsApp
<1>6. Start(l) <= event
  BY <1>1 DEF StreamInv
<1> QED BY <1>1, <1>3, <1>4, <1>5, <1>6

\* What is known of a login that receives an event, in order or late.
LEMMA Received ==
  ASSUME TypeOK, StreamInv, SendInv, NEW l \in Login, NEW event \in 0 .. Removal,
         Receive(l, event)
  PROVE  /\ Receives(l) /\ Start(l) <= event /\ event < next'[l]
         /\ event # Removal => next'[l] # End
         /\ next' \in [Login -> 0 .. End] /\ owed' \in [Login -> SUBSET Versions]
         /\ \A m \in Login : next[m] <= next'[m] /\ owed'[m] \subseteq owed[m]
         /\ send # "ready" /\ (send = "sending" => l # MyLogin)
<1>0. /\ NEdits \in Nat /\ next \in [Login -> 0 .. End] /\ owed \in [Login -> SUBSET Versions]
  BY MessagesAssumption DEF TypeOK
<1>1. CASE IsNext(l, event) /\ Advance(l) /\ UNCHANGED owed
  <2>1. /\ Receives(l) /\ Start(l) <= event /\ next[l] = event /\ next'[l] = event + 1
        /\ next' \in [Login -> 0 .. End] /\ \A m \in Login : next[m] <= next'[m]
        /\ send # "ready" /\ (send = "sending" => l # MyLogin)
    BY NextEvent, <1>1
  <2> QED BY <1>0, <1>1, <2>1 DEF End, Removal
<1>2. CASE /\ event \in owed[l] /\ next[l] # End
           /\ owed' = [owed EXCEPT ![l] = @ \ {event}] /\ UNCHANGED next
  <2>1. Receives(l) /\ Start(l) <= event /\ event < next[l]
    BY <1>2 DEF StreamInv
  <2>2. send \in {"ready", "sending"} => l # MyLogin \/ next[l] = Start(l)
    <3>1. send \in {"ready", "sending"} => next[MyLogin] = 1 /\ msg.matrix
      BY DEF SendInv
    <3> QED BY StartBounds, <3>1
  <2>3. send = "ready" => next[l] = Start(l)
    BY DEF SendInv
  <2>4. Start(l) \in {0, 1} /\ next[l] \in 0 .. End /\ event \in Int
    BY <1>0, StartBounds
  <2>5. send # "ready" /\ (send = "sending" => l # MyLogin)
    BY <2>1, <2>2, <2>3, <2>4
  <2>6. owed' \in [Login -> SUBSET Versions] /\ \A m \in Login : owed'[m] \subseteq owed[m]
    BY <1>0, <1>2
  <2>7. \A m \in Login : next[m] <= next'[m]
    BY <1>0, <1>2 DEF End
  <2> QED BY <1>0, <1>2, <2>1, <2>5, <2>6, <2>7
<1> QED BY <1>1, <1>2 DEF Receive

\* An event that cannot be decrypted is owed.
LEMMA Owed ==
  ASSUME TypeOK, StreamInv, SendInv, NEW l \in Login, NEW event \in Versions,
         IsNext(l, event), Advance(l), owed' = [owed EXCEPT ![l] = @ \cup {event}]
  PROVE  /\ owed' \in [Login -> SUBSET Versions]
         /\ \A m \in Login : \A e \in owed'[m] :
              e \in owed[m] \/ (Receives(m) /\ Start(m) <= e /\ e < next'[m])
<1>1. owed \in [Login -> SUBSET Versions] /\ NEdits \in Nat
  BY MessagesAssumption DEF TypeOK
<1>2. event \in 0 .. Removal /\ event \in Int
  BY <1>1 DEF Versions, Removal
<1>3. Receives(l) /\ Start(l) <= event /\ next'[l] = event + 1
  BY NextEvent, <1>2
<1>4. owed' \in [Login -> SUBSET Versions]
  BY <1>1
<1>5. \A m \in Login : owed'[m] = IF m = l THEN owed[m] \cup {event} ELSE owed[m]
  BY <1>1
<1>6. ASSUME NEW m \in Login, NEW e \in owed'[m]
      PROVE  e \in owed[m] \/ (Receives(m) /\ Start(m) <= e /\ e < next'[m])
  <2>1. e \in owed[m] \/ (m = l /\ e = event)
    BY <1>5, <1>6
  <2>2. e = event => e < event + 1
    BY <1>2
  <2> QED BY <1>3, <2>1, <2>2
<1> QED BY <1>4, <1>6

\* The streams of a step.
LEMMA StreamStep ==
  ASSUME TypeOK, StreamInv, SendInv, Next
  PROVE  /\ StreamInv'
         /\ next' \in [Login -> 0 .. End] /\ owed' \in [Login -> SUBSET Versions]
<1> DEFINE Goal == /\ next' \in [Login -> 0 .. End] /\ owed' \in [Login -> SUBSET Versions]
                   /\ \A m \in Login : next[m] <= next'[m]
                   /\ \A m \in Login : \A e \in owed'[m] :
                        e \in owed[m] \/ (Receives(m) /\ Start(m) <= e /\ e < next'[m])
<1>0. next \in [Login -> 0 .. End] /\ owed \in [Login -> SUBSET Versions] /\ NEdits \in Nat
  BY MessagesAssumption DEF TypeOK
<1>1. ASSUME NEW l \in Login, NEW event \in 0 .. Removal, Receive(l, event) PROVE Goal
  BY Received, <1>1
<1>2. ASSUME NEW l \in Login, NEW event \in Versions,
             IsNext(l, event), Advance(l), owed' = [owed EXCEPT ![l] = @ \cup {event}]
      PROVE  Goal
  <2>1. event \in 0 .. Removal
    BY <1>0 DEF Versions, Removal
  <2> QED BY Owed, NextEvent, <1>2, <2>1
<1>3. ASSUME UNCHANGED stream PROVE Goal
  BY <1>0, <1>3 DEF stream, End
<1>4. 0 \in Versions /\ Edits \subseteq Versions /\ Edits \subseteq 0 .. Removal
      /\ 0 \in 0 .. Removal /\ Removal \in 0 .. Removal
  BY <1>0 DEF Versions, Edits, Removal
<1>5. Goal
  <2>1. ASSUME NEW l \in Login, Undecryptable(l) \/ UndecryptableEdit(l) PROVE Goal
    <3>1. PICK event \in Versions : /\ IsNext(l, event) /\ Advance(l)
                                    /\ owed' = [owed EXCEPT ![l] = @ \cup {event}]
      BY <1>4, <2>1 DEF Undecryptable, UndecryptableEdit
    <3> QED BY <1>2, <3>1
  <2>2. ASSUME NEW l \in Login, Message(l) \/ Edit(l) \/ Revoke(l) PROVE Goal
    <3>1. PICK event \in 0 .. Removal : Receive(l, event)
      BY <1>4, <2>2 DEF Message, Edit, Revoke
    <3> QED BY <1>1, <3>1
  <2>3. CASE \/ Reaction \/ MediaRetry \/ SendFromMatrix \/ Sent \/ SendFails
             \/ (\E p \in Person : Learn(p)) \/ MoveToLIDs \/ Forget
    <3>1. UNCHANGED stream
      BY <2>3 DEF Reaction, MediaRetry, SendFromMatrix, Sent, SendFails, Learn, MoveToLIDs,
                  Forget, stream
    <3> QED BY <1>3, <3>1
  <2> QED BY <2>1, <2>2, <2>3 DEF Next
<1>6. ASSUME NEW l \in Login
      PROVE  /\ Start(l)' <= next'[l]
             /\ \A event \in owed'[l] :
                  Receives(l)' /\ Start(l)' <= event /\ event < next'[l]
  <2>1. Start(l) <= next[l] /\ Start(l) \in {0, 1} /\ next[l] \in Int /\ next'[l] \in Int
    BY <1>0, <1>5, StartBounds DEF StreamInv
  <2>2. Start(l)' = Start(l) /\ (Receives(l)' <=> Receives(l))
    BY MessageFixed
  <2>3. ASSUME NEW event \in owed'[l]
        PROVE  Receives(l) /\ Start(l) <= event /\ event < next'[l]
    <3>1. event \in Int
      BY <1>0, <1>5 DEF Versions
    <3>2. CASE event \in owed[l]
      BY <1>5, <2>1, <3>1, <3>2 DEF StreamInv
    <3> QED BY <1>5, <3>2
  <2>4. Start(l) <= next'[l]
    BY <1>5, <2>1
  <2> QED BY <2>2, <2>3, <2>4
<1>7. StreamInv'
  BY <1>6 DEF StreamInv
<1> QED BY <1>5, <1>7

-----------------------------------------------------------------------------
(* Messages that are being sent.                                           *)

LEMMA Actor ==
  ASSUME MsgOK
  PROVE  /\ msg.author \in Person \cup {Bot} /\ (InDM => msg.author \in {Me, msg.peer, Bot})
         /\ (~InDM => msg.author \in Person)
         /\ msg.peer \in Person \ {Me} /\ (msg.matrix => msg.author = Me)
BY DEF MsgOK

EventOf(l) == Undecryptable(l) \/ UndecryptableEdit(l) \/ Message(l) \/ Edit(l) \/ Revoke(l)

\* No event comes to the login of Me while the message is being sent.
LEMMA EventSend ==
  ASSUME TypeOK, StreamInv, SendInv, NEW l \in Login, EventOf(l)
  PROVE  /\ send' = send /\ pending' = pending /\ Receives(l) /\ send # "ready"
         /\ send = "sending" => l # MyLogin /\ next'[MyLogin] = next[MyLogin]
<1>0. next \in [Login -> 0 .. End] /\ NEdits \in Nat /\ MyLogin \in Login
  BY MessagesAssumption DEF TypeOK
<1>1. send' = send /\ pending' = pending
  BY DEF EventOf, Undecryptable, UndecryptableEdit, Message, Edit, Revoke
<1>2. ASSUME NEW event \in 0 .. Removal, Receive(l, event)
      PROVE  /\ Receives(l) /\ send # "ready"
             /\ send = "sending" => l # MyLogin /\ next'[MyLogin] = next[MyLogin]
  <2>1. Receives(l) /\ send # "ready" /\ (send = "sending" => l # MyLogin)
    BY Received, <1>2
  <2>2. l # MyLogin => next'[MyLogin] = next[MyLogin]
    BY <1>0, <1>2 DEF Receive, Advance
  <2> QED BY <2>1, <2>2
<1>3. ASSUME NEW event \in 0 .. Removal, IsNext(l, event), Advance(l)
      PROVE  /\ Receives(l) /\ send # "ready"
             /\ send = "sending" => l # MyLogin /\ next'[MyLogin] = next[MyLogin]
  <2>1. Receives(l) /\ send # "ready" /\ (send = "sending" => l # MyLogin)
    BY NextEvent, <1>3
  <2>2. l # MyLogin => next'[MyLogin] = next[MyLogin]
    BY <1>0, <1>3 DEF Advance
  <2> QED BY <2>1, <2>2
<1>4. 0 \in 0 .. Removal /\ Removal \in 0 .. Removal /\ Edits \subseteq 0 .. Removal
  BY <1>0 DEF Removal, Edits
<1>5. CASE Undecryptable(l) \/ UndecryptableEdit(l)
  BY <1>1, <1>3, <1>4, <1>5 DEF Undecryptable, UndecryptableEdit
<1>6. CASE Message(l) \/ Edit(l) \/ Revoke(l)
  BY <1>1, <1>2, <1>4, <1>6 DEF Message, Edit, Revoke
<1> QED BY <1>5, <1>6 DEF EventOf

\* Whatever another login brings of a message that is being sent is ignored.
LEMMA Ignored ==
  ASSUME MsgOK, SendInv, NEW l \in Login, l # MyLogin, Receives(l), send = "sending",
         NEW d, Filed(d, msg.author)
  PROVE  MessageID(d.chat, d.sender) \in pending
<1>1. ~InDM /\ msg.author = Me
  BY Actor DEF Receives, SendInv
<1>2. d.chat = GroupJID /\ d.sender \in {PN(Me), LID(Me)}
  BY <1>1 DEF Filed
<1>3. pending = {MessageID(GroupJID, PN(Me)), MessageID(GroupJID, LID(Me))}
  BY <1>1 DEF SendInv, SendChats
<1> QED BY <1>2, <1>3

\* Nothing is filed before the message is sent.
LEMMA NotFiled ==
  ASSUME TypeOK, MsgOK, StreamInv, SendInv, Next, send' \in {"ready", "sending"}
  PROVE  Stored' = {}
<1>1. send \in {"ready", "sending"} /\ Stored = {} /\ ~Sent
  <2>1. send' = send \/ send = "ready"
    BY DEF Next, Undecryptable, UndecryptableEdit, Message, Edit, Revoke, Reaction, MediaRetry,
           SendFromMatrix, Sent, SendFails, Learn, Forget, MoveToLIDs
  <2>2. ~Sent
    BY DEF Sent
  <2> QED BY <2>1, <2>2 DEF SendInv
<1>2. ASSUME NEW l \in Login, Undecryptable(l) PROVE Stored' = {}
  <2>1. PICK d \in UndecryptableDeliveries(msg.author) :
          LET id == MessageID(d.chat, d.sender)
          IN rows' = IF id \in pending \/ Found(id) THEN rows ELSE Put(id, Placeholder)
    BY <1>2 DEF Undecryptable
  <2>2. MessageID(d.chat, d.sender) \in pending
    BY UndecryptableDelivered, EventSend, Ignored, <1>1, <1>2 DEF EventOf
  <2> QED BY <1>1, <2>1, <2>2 DEF Stored
<1>3. ASSUME NEW l \in Login, Message(l) PROVE Stored' = {}
  <2>1. PICK d \in Deliveries(msg.author), shown \in Conversions :
          LET id == MessageID(d.chat, d.sender)
          IN NewMessage(id, shown) \/ ExistingMessage(id, shown)
    BY <1>3 DEF Message
  <2>2. Filed(d, msg.author)
    BY Delivered, Actor
  <2>3. MessageID(d.chat, d.sender) \in pending
    BY <2>2, EventSend, Ignored, <1>1, <1>3 DEF EventOf
  <2> QED BY <1>1, <2>1, <2>3 DEF NewMessage, ExistingMessage, Stored
<1>4. ASSUME NEW l \in Login, Edit(l) PROVE Stored' = {}
  BY <1>1, <1>4 DEF Edit, ApplyEdit, Found, Stored
<1>5. ASSUME NEW l \in Login, Revoke(l) PROVE Stored' = {}
  <2>1. PICK id \in {Target(d, key) : d \in UNION {Deliveries(actor) : actor \in Revokers},
                                      key \in UNION {Keys(actor) : actor \in Revokers}} :
          rows' = Delete(id)
    BY <1>5 DEF Revoke
  <2> QED BY DeleteRows, <1>1, <2>1 DEF Stored
<1>6. CASE MediaRetry
  BY <1>1, <1>6 DEF MediaRetry
<1>7. CASE rows' = rows
  BY <1>1, <1>7 DEF Stored
<1> QED BY <1>1, <1>2, <1>3, <1>4, <1>5, <1>6, <1>7
        DEF Next, UndecryptableEdit, Reaction, SendFromMatrix, SendFails, Learn, Forget, MoveToLIDs

\* Events never tell more than they did.
LEMMA ToldStep ==
  ASSUME TypeOK, MsgOK, Next
  PROVE  told' \in BOOLEAN /\ (told' => told)
<1>0. told \in BOOLEAN
  BY DEF TypeOK
<1>1. ASSUME NEW actor \in Person \cup {Bot}, InDM => actor \in {Me, msg.peer, Bot},
             ~InDM => actor \in Person, NEW d \in Deliveries(actor), NEW complete,
             Deliver(d, complete), complete \in BOOLEAN
      PROVE  told' \in BOOLEAN /\ (told' => told)
  BY Delivered, <1>1 DEF Deliver, Filed
<1>2. \A l \in Login : Undecryptable(l) => told' \in BOOLEAN /\ (told' => told)
  BY UndecryptableDelivered DEF Undecryptable, Filed
<1>3. \A l \in Login : Message(l) \/ Edit(l) => told' \in BOOLEAN /\ (told' => told)
  BY <1>1, Actor DEF Message, Edit
<1>4. \A l \in Login : Revoke(l) => told' \in BOOLEAN /\ (told' => told)
  <2>1. \A actor \in Revokers : /\ actor \in Person \cup {Bot}
                                /\ InDM => actor \in {Me, msg.peer, Bot}
                                /\ ~InDM => actor \in Person
    BY Actor DEF Revokers
  <2>2. \A key : KeyTells(key) \in BOOLEAN
    BY DEF KeyTells
  <2> QED BY <1>1, <2>1, <2>2 DEF Revoke
<1>5. Reaction => told' \in BOOLEAN /\ (told' => told)
  <2>1. \A actor \in Actors : /\ actor \in Person \cup {Bot}
                              /\ InDM => actor \in {Me, msg.peer, Bot}
                              /\ ~InDM => actor \in Person
    BY Actor, Distinct DEF Actors
  <2>2. \A key : KeyTells(key) \in BOOLEAN
    BY DEF KeyTells
  <2> QED BY <1>1, <2>1, <2>2 DEF Reaction
<1>6. CASE \/ (\E l \in Login : UndecryptableEdit(l)) \/ MediaRetry \/ Sent \/ SendFails
           \/ (\E p \in Person : Learn(p)) \/ Forget
  <2>1. told' = told
    BY <1>6 DEF UndecryptableEdit, MediaRetry, Sent, SendFails, Learn, Forget
  <2> QED BY <1>0, <2>1, Zenon
<1>7. CASE SendFromMatrix \/ MoveToLIDs
  BY <1>0, <1>7 DEF SendFromMatrix, MoveToLIDs
<1> QED BY <1>2, <1>3, <1>4, <1>5, <1>6, <1>7 DEF Next

LEMMA SendStep ==
  ASSUME TypeOK, MsgOK, StreamInv, SendInv, Next
  PROVE  SendInv' /\ pending' \subseteq MessageIDs
         /\ send' \in {"none", "ready", "sending", "sent", "failed"}
<1>0. /\ pending \subseteq MessageIDs /\ send \in {"none", "ready", "sending", "sent", "failed"}
      /\ MyLogin \in Login
  BY MessagesAssumption DEF TypeOK
<1>1. SendChats' = SendChats /\ HomeChat' = HomeChat /\ msg' = msg
  <2>1. msg' = msg
    BY MessageFixed
  <2> QED BY <2>1 DEF SendChats, HomeChat, InDM
<1>2. (told' => told) /\ \A l : Start(l)' = Start(l)
  BY ToldStep, MessageFixed
<1>3. send' \in {"ready", "sending"} => Stored' = {}
  BY NotFiled
<1>4. ASSUME send' = send, pending' = pending,
             send = "ready" => next' = next,
             send = "sending" => next'[MyLogin] = next[MyLogin]
      PROVE  SendInv'
  BY <1>1, <1>2, <1>3, <1>4 DEF SendInv
<1>5. ASSUME NEW l \in Login, EventOf(l)
      PROVE  SendInv' /\ pending' = pending /\ send' = send
  BY EventSend, <1>4, <1>5
<1>6. CASE Reaction \/ MediaRetry \/ (\E p \in Person : Learn(p)) \/ Forget \/ MoveToLIDs
  <2>1. send' = send /\ pending' = pending /\ next' = next
    BY <1>6 DEF Reaction, MediaRetry, Learn, Forget, MoveToLIDs, stream
  <2> QED BY <1>0, <1>4, <2>1
<1>7. CASE SendFromMatrix
  <2>1. PICK chat \in SendChats :
          /\ send = "ready" /\ send' = "sending" /\ next' = next
          /\ pending' = {MessageID(chat, PN(Me)), MessageID(chat, LID(Me))}
          /\ told' = (told /\ chat.server # "lid")
    BY <1>7 DEF SendFromMatrix, stream
  <2>2. chat \in JIDs /\ PN(Me) \in JIDs /\ LID(Me) \in JIDs
    BY Distinct, Actor DEF JIDs, UserJIDs, PN, LID, Modes, SendChats
  <2>3. pending' \subseteq MessageIDs
    BY <2>1, <2>2 DEF MessageIDs, MessageID
  <2>4. chat.server # "lid" => chat = HomeChat
    <3>1. CASE InDM
      <4>1. chat \in {PN(msg.peer), LID(msg.peer)}
        BY <3>1 DEF SendChats, PN, LID, Modes
      <4> QED BY <3>1, <4>1, Records DEF HomeChat
    <3>2. CASE ~InDM
      BY <3>2 DEF SendChats, HomeChat
    <3> QED BY <3>1, <3>2
  <2>5. next'[MyLogin] = 1 /\ msg'.matrix
    BY <1>1, <2>1 DEF SendInv
  <2>6. told' => chat = HomeChat'
    BY <1>1, <2>1, <2>4
  <2>7. \E c \in SendChats' : /\ pending' = {MessageID(c, PN(Me)), MessageID(c, LID(Me))}
                              /\ told' => c = HomeChat'
    BY <1>1, <2>1, <2>6
  <2>8. SendInv'
    BY <1>3, <2>1, <2>5, <2>7 DEF SendInv
  <2> QED BY <2>1, <2>3, <2>8
<1>8. CASE Sent \/ SendFails
  <2>1. send = "sending" /\ send' \in {"sent", "failed"} /\ pending' \in {{}, pending}
    BY <1>8 DEF Sent, SendFails
  <2>2. msg'.matrix
    BY <1>1, <2>1 DEF SendInv
  <2> QED BY <1>0, <2>1, <2>2 DEF SendInv
<1> QED BY <1>0, <1>5, <1>6, <1>7, <1>8 DEF Next, EventOf

-----------------------------------------------------------------------------
(* Where the message is filed.                                             *)

\* What an event leaves behind of the streams.
LEMMA EventLeft ==
  ASSUME TypeOK, StreamInv, SendInv, NEW l \in Login, NEW event \in 0 .. Removal,
         Receive(l, event) \/ (IsNext(l, event) /\ Advance(l))
  PROVE  /\ Receives(l) /\ next'[l] # Start(l) /\ (event # Removal => next'[l] # End)
<1>1. Start(l) \in Int /\ event \in Int
  BY StartBounds, MessagesAssumption DEF Removal
<1>2. CASE Receive(l, event)
  <2>1. /\ Receives(l) /\ Start(l) <= event /\ event < next'[l]
        /\ event # Removal => next'[l] # End
        /\ next' \in [Login -> 0 .. End]
    BY Received, <1>2
  <2>2. next'[l] \in Int
    BY <2>1
  <2> QED BY <1>1, <2>1, <2>2
<1>3. CASE IsNext(l, event) /\ Advance(l)
  <2>1. Receives(l) /\ Start(l) <= event /\ next'[l] = event + 1
    BY NextEvent, <1>3
  <2> QED BY <1>1, <2>1, MessagesAssumption DEF Removal, End
<1> QED BY <1>2, <1>3

\* The IDs in the room after a step that files the message under id, if ever.
LEMMA PutFiled ==
  ASSUME NEW id, Stored \subseteq {Home}, id = Home,
         rows' = rows \/ (\E row : rows' = Put(id, row)) \/ rows' = Delete(id)
  PROVE  Stored' \subseteq {Home}
<1>1. CASE rows' = rows
  BY <1>1 DEF Stored
<1>2. ASSUME NEW row, rows' = Put(id, row) PROVE Stored' \subseteq {Home}
  <2>1. DOMAIN rows' = Stored \cup {id}
    BY PutRows, <1>2
  <2> QED BY <2>1 DEF Stored
<1>3. CASE rows' = Delete(id)
  <2>1. DOMAIN rows' = Stored \ {id}
    BY DeleteRows, <1>3
  <2> QED BY <2>1 DEF Stored
<1> QED BY <1>1, <1>2, <1>3

\* A login took an event of the message, and one did not get its removal yet.
Alive(n, s) ==
  /\ \E l \in Login : Receives(l) /\ n[l] # End
  /\ s = "sent" \/ \E l \in Login : n[l] # Start(l)

LEMMA MessageFiled ==
  ASSUME Inv, NEW l \in Login, Message(l), told'
  PROVE  Stored' \subseteq {Home} /\ lost' = lost /\ Alive(next', send')
<1>1. PICK d \in Deliveries(msg.author), shown \in Conversions :
        LET id == MessageID(d.chat, d.sender)
        IN /\ NewMessage(id, shown) \/ ExistingMessage(id, shown)
           /\ Deliver(d, TRUE)
  BY DEF Message
<1>2. Filed(d, msg.author) /\ d.told
  BY Delivered, Actor, <1>1 DEF Inv, Deliver
<1>3. MessageID(d.chat, d.sender) = Home /\ Stored \subseteq {Home}
  BY <1>2 DEF Filed, Home, Inv, FiledInv
<1>4. rows' = rows \/ \E row : rows' = Put(Home, row)
  BY <1>1, <1>3 DEF NewMessage, ExistingMessage
<1>5. Receive(l, 0) /\ lost' = lost
  BY DEF Message
<1>6. 0 \in 0 .. Removal /\ 0 # Removal
  BY MessagesAssumption DEF Removal
<1>7. Receives(l) /\ next'[l] # Start(l) /\ next'[l] # End
  BY EventLeft, <1>5, <1>6 DEF Inv
<1> QED BY PutFiled, <1>3, <1>4, <1>5, <1>7 DEF Alive

LEMMA UndecryptableFiled ==
  ASSUME Inv, NEW l \in Login, Undecryptable(l), told'
  PROVE  Stored' \subseteq {Home} /\ lost' = lost /\ Alive(next', send')
<1>1. PICK d \in UndecryptableDeliveries(msg.author) :
        LET id == MessageID(d.chat, d.sender)
        IN /\ rows' = IF id \in pending \/ Found(id) THEN rows ELSE Put(id, Placeholder)
           /\ told' = d.told
  BY DEF Undecryptable
<1>2. Filed(d, msg.author) /\ d.told
  BY UndecryptableDelivered, <1>1 DEF Inv
<1>3. MessageID(d.chat, d.sender) = Home /\ Stored \subseteq {Home}
  BY <1>2 DEF Filed, Home, Inv, FiledInv
<1>4. rows' = rows \/ \E row : rows' = Put(Home, row)
  BY <1>1, <1>3
<1>5. IsNext(l, 0) /\ Advance(l) /\ lost' = lost
  BY DEF Undecryptable
<1>6. 0 \in 0 .. Removal /\ 0 # Removal
  BY MessagesAssumption DEF Removal
<1>7. Receives(l) /\ next'[l] # Start(l) /\ next'[l] # End
  BY EventLeft, <1>5, <1>6 DEF Inv
<1> QED BY PutFiled, <1>3, <1>4, <1>5, <1>7 DEF Alive

\* An event that tells enough finds the message if it is there.
LEMMA Finds ==
  ASSUME Inv, NEW actor \in Person \cup {Bot}, actor \in Actors \/ actor = msg.author,
         InDM => actor \in {Me, msg.peer, Bot}, ~InDM => actor \in Person,
         NEW d \in Deliveries(actor), NEW key \in Keys(actor),
         Deliver(d, KeyTells(key)), told'
  PROVE  Target(d, key) = Home /\ told /\ (Misses(Target(d, key)) => ~lost')
<1>1. Filed(d, actor) /\ d.told /\ KeyTells(key)
  BY Delivered DEF Deliver, Inv
<1>2. told /\ d.chat = HomeChat /\ d.sender = Address(actor)
  BY <1>1 DEF Filed
<1>3. Target(d, key) = Home
  BY TargetHome, <1>1, <1>2 DEF Inv
<1>4. Stored \subseteq {Home} /\ ~lost
  BY <1>2 DEF Inv, FiledInv
<1>5. Misses(Target(d, key)) => ~lost'
  <2>1. Found(Home) \/ Stored = {}
    BY <1>4 DEF Found
  <2> QED BY <1>3, <1>4, <2>1, Zenon DEF Misses
<1> QED BY <1>2, <1>3, <1>5

LEMMA EditFiled ==
  ASSUME Inv, NEW l \in Login, Edit(l), told'
  PROVE  Stored' = Stored /\ ~lost' /\ Alive(next', send')
<1>1. PICK i \in Edits, d \in Deliveries(msg.author), key \in Keys(msg.author) :
        /\ Receive(l, i)
        /\ \E shown \in EditConversions(Target(d, key)) : ApplyEdit(Target(d, key), i, shown)
        /\ Misses(Target(d, key)) /\ Deliver(d, TRUE)
  BY DEF Edit
<1>2. KeyTells(key) = TRUE
  <2>1. key.fromMe \in {TRUE}
    BY DEF Keys
  <2>2. key.participant = NoJID
    BY <2>1, Zenon DEF Keys
  <2> QED BY <2>2, Records DEF KeyTells
<1>3. told /\ ~lost'
  BY Finds, Actor, <1>1, <1>2 DEF Inv
<1>4. Stored' = Stored
  <2>1. CASE rows' = rows
    BY <2>1 DEF Stored
  <2>2. ASSUME NEW row, Target(d, key) \in Stored, rows' = Put(Target(d, key), row)
        PROVE  Stored' = Stored
    <3>1. DOMAIN rows' = Stored \cup {Target(d, key)}
      BY PutRows, <2>2
    <3> QED BY <2>2, <3>1 DEF Stored
  <2> QED BY <1>1, <2>1, <2>2 DEF ApplyEdit, Found
<1>5. i \in 0 .. Removal /\ i # Removal
  BY MessagesAssumption DEF Edits, Removal
<1>6. Receives(l) /\ next'[l] # Start(l) /\ next'[l] # End
  BY EventLeft, <1>1, <1>5 DEF Inv
<1> QED BY <1>3, <1>4, <1>6 DEF Alive

LEMMA RevokeFiled ==
  ASSUME Inv, NEW l \in Login, Revoke(l), told'
  PROVE  Stored' = {} /\ ~lost'
<1>1. PICK actor \in Revokers : \E d \in Deliveries(actor), key \in Keys(actor) :
        /\ rows' = Delete(Target(d, key)) /\ Misses(Target(d, key))
        /\ Deliver(d, KeyTells(key))
  BY DEF Revoke
<1>2. PICK d \in Deliveries(actor), key \in Keys(actor) :
        /\ rows' = Delete(Target(d, key)) /\ Misses(Target(d, key))
        /\ Deliver(d, KeyTells(key))
  BY <1>1
<1>3. /\ actor \in Person \cup {Bot} /\ (InDM => actor \in {Me, msg.peer, Bot})
      /\ (~InDM => actor \in Person) /\ (actor \in Actors \/ actor = msg.author)
  BY Actor, Distinct DEF Revokers, Actors, Inv
<1>4. Target(d, key) = Home /\ told /\ ~lost'
  BY Finds, <1>2, <1>3
<1>5. Stored \subseteq {Home}
  BY <1>4 DEF Inv, FiledInv
<1>6. DOMAIN rows' = Stored \ {Home}
  BY DeleteRows, <1>2, <1>4
<1> QED BY <1>4, <1>5, <1>6 DEF Stored

LEMMA ReactionFiled ==
  ASSUME Inv, Reaction, told'
  PROVE  rows' = rows /\ ~lost'
<1>1. PICK actor \in Actors : \E d \in Deliveries(actor), key \in Keys(actor) :
        Misses(Target(d, key)) /\ Deliver(d, KeyTells(key))
  BY DEF Reaction
<1>2. /\ actor \in Person \cup {Bot} /\ (InDM => actor \in {Me, msg.peer, Bot})
      /\ (~InDM => actor \in Person)
  BY Actor, Distinct DEF Actors, Inv
<1> QED BY Finds, <1>1, <1>2 DEF Reaction

LEMMA SentFiled ==
  ASSUME Inv, Sent, told'
  PROVE  Stored' \subseteq {Home} /\ lost' = lost /\ Alive(next', send')
<1>1. PICK sender \in SentAs, id \in pending :
        /\ send = "sending" /\ send' = "sent" /\ next' = next /\ told' = told /\ lost' = lost
        /\ rows' = Put(PickedMessageID(id.chat, sender), NewRow("content"))
  BY DEF Sent, stream
<1>2. /\ id.chat = HomeChat /\ msg.author = Me /\ Stored = {} /\ next[MyLogin] = 1
  <2>1. PICK chat \in SendChats : /\ pending = {MessageID(chat, PN(Me)), MessageID(chat, LID(Me))}
                                  /\ told => chat = HomeChat
    BY <1>1 DEF SendInv, Inv
  <2>2. chat = HomeChat
    BY <1>1, <2>1
  <2> QED BY Actor, <1>1, <2>1, <2>2 DEF MessageID, SendInv, Inv
<1>3. PickedMessageID(HomeChat, sender) = Home
  <2>1. CASE InDM
    <3>1. HomeChat.server = "pn"
      BY <2>1, Records DEF HomeChat
    <3>2. PickedMessageID(HomeChat, sender) = MessageID(HomeChat, PN(Me))
      BY <3>1 DEF PickedMessageID
    <3>3. Address(Me) = PN(Me)
      BY <2>1, Distinct DEF Address
    <3> QED BY <1>2, <3>2, <3>3 DEF Home
  <2>2. CASE ~InDM
    <3>1. HomeChat.server = "group" /\ sender = JID(Me, mode) /\ Address(Me) = JID(Me, mode)
      BY <2>2, Records DEF HomeChat, SentAs, Address
    <3>2. mode \in {"pn", "lid"}
      BY DEF Inv, TypeOK, Modes
    <3>3. CASE mode = "lid"
      BY <1>2, <3>1, <3>3 DEF PickedMessageID, Home, LID
    <3>4. CASE mode = "pn"
      <4>1. sender # LID(Me)
        BY <3>1, <3>4, Records DEF PN
      <4> QED BY <1>2, <3>1, <3>4, <4>1 DEF PickedMessageID, Home, PN
    <3> QED BY <3>2, <3>3, <3>4
  <2> QED BY <2>1, <2>2
<1>4. Stored' \subseteq {Home}
  BY PutFiled, <1>1, <1>2, <1>3
<1>5. 1 # End /\ Receives(MyLogin) /\ MyLogin \in Login
  BY MessagesAssumption DEF End, Receives
<1> QED BY <1>1, <1>2, <1>4, <1>5 DEF Alive

\* The message stays where it is filed.
LEMMA FiledStep ==
  ASSUME Inv, Next
  PROVE  FiledInv'
<1> DEFINE Goal == /\ Stored' \subseteq {Home'} /\ ~lost'
                   /\ Stored' # {} => Alive(next', send')
<1>1. SUFFICES ASSUME told' PROVE Goal
  <2>1. /\ MyLogin \in Login /\ \A l : Start(l)' = Start(l) /\ (Receives(l)' <=> Receives(l))
    BY MessageFixed, MessagesAssumption
  <2>2. Alive(next', send') =>
          /\ \E l \in Login : Receives(l)' /\ next'[l] # End
          /\ send' = "sent" \/ \E l \in Login : next'[l] # Start(l)'
    BY <2>1 DEF Alive
  <2>3. told' => Goal
    BY <1>1
  <2> HIDE DEF Alive
  <2> QED BY <2>2, <2>3 DEF FiledInv
<1>2. told /\ ~lost /\ Stored \subseteq {Home} /\ (Stored # {} => Alive(next, send))
  BY ToldStep, <1>1 DEF Inv, FiledInv, Alive
<1>3. msg' = msg /\ mode' = mode => Home' = Home
  BY DEF Home, HomeChat, Address, InDM
<1>4. ASSUME msg' = msg, mode' = mode, lost' = lost, Stored' = Stored, next' = next, send' = send
      PROVE  Goal
  BY <1>2, <1>3, <1>4
<1>5. ASSUME NEW l \in Login, Undecryptable(l) PROVE Goal
  <2>1. Home' = Home
    BY <1>3, <1>5 DEF Undecryptable
  <2> QED BY UndecryptableFiled, <1>1, <1>2, <1>5, <2>1
<1>6. ASSUME NEW l \in Login, Message(l) PROVE Goal
  <2>1. Home' = Home
    BY <1>3, <1>6 DEF Message
  <2> QED BY MessageFiled, <1>1, <1>2, <1>6, <2>1
<1>7. ASSUME NEW l \in Login, Edit(l) PROVE Goal
  <2>1. Home' = Home
    BY <1>3, <1>7 DEF Edit
  <2> QED BY EditFiled, <1>1, <1>2, <1>7, <2>1
<1>8. ASSUME NEW l \in Login, Revoke(l) PROVE Goal
  BY RevokeFiled, <1>1, <1>8
<1>9. ASSUME NEW l \in Login, UndecryptableEdit(l) PROVE Goal
  <2>1. PICK i \in Edits : IsNext(l, i) /\ Advance(l)
    BY <1>9 DEF UndecryptableEdit
  <2>2. Home' = Home /\ Stored' = Stored /\ lost' = lost
    BY <1>3, <1>9 DEF UndecryptableEdit, Stored
  <2>3. i \in 0 .. Removal /\ i # Removal
    BY MessagesAssumption DEF Edits, Removal
  <2>4. Receives(l) /\ next'[l] # Start(l) /\ next'[l] # End
    BY EventLeft, <2>1, <2>3 DEF Inv
  <2>5. Alive(next', send')
    BY <2>4 DEF Alive
  <2> QED BY <1>2, <2>2, <2>5
<1>10. CASE Reaction
  <2>1. ~lost' /\ Stored' = Stored
    BY ReactionFiled, <1>1, <1>10 DEF Stored
  <2>2. Home' = Home /\ next' = next /\ send' = send
    BY <1>3, <1>10 DEF Reaction, stream
  <2> QED BY <1>2, <2>1, <2>2
<1>11. CASE MediaRetry
  <2>0. PICK id \in Stored : \E row : rows' = Put(id, row)
    BY <1>11 DEF MediaRetry
  <2>1. PICK row : rows' = Put(id, row)
    BY <2>0
  <2>2. DOMAIN rows' = Stored \cup {id}
    BY PutRows, <2>1
  <2>3. msg' = msg /\ mode' = mode /\ lost' = lost /\ next' = next /\ send' = send
    BY <1>11 DEF MediaRetry, stream
  <2> QED BY <1>4, <2>2, <2>3 DEF Stored
<1>12. CASE SendFromMatrix \/ SendFails
  <2>1. Stored' = {}
    <3>1. Stored = {} /\ rows' = rows
      BY <1>12 DEF SendFromMatrix, SendFails, Inv, SendInv
    <3> QED BY <3>1 DEF Stored
  <2>2. lost' = lost
    BY <1>12 DEF SendFromMatrix, SendFails
  <2> QED BY <1>2, <2>1, <2>2
<1>13. CASE Sent
  <2>1. Home' = Home
    BY <1>3, <1>13 DEF Sent
  <2> QED BY SentFiled, <1>1, <1>2, <1>13, <2>1
<1>14. CASE (\E p \in Person : Learn(p)) \/ Forget
  <2>1. /\ msg' = msg /\ mode' = mode /\ lost' = lost /\ rows' = rows
        /\ next' = next /\ send' = send
    BY <1>14 DEF Learn, Forget, stream
  <2> QED BY <1>4, <2>1 DEF Stored
<1>15. CASE MoveToLIDs
  <2>1. /\ send \in {"none", "ready"} /\ \A l \in Login : next[l] = Start(l)
        /\ rows' = rows /\ lost' = lost
    BY <1>1, <1>15 DEF MoveToLIDs
  <2>2. Stored = {}
    BY <1>2, <2>1 DEF Alive
  <2> QED BY <1>2, <2>1, <2>2 DEF Stored
<1> HIDE DEF Goal
<1> QED BY <1>5, <1>6, <1>7, <1>8, <1>9, <1>10, <1>11, <1>12, <1>13, <1>14, <1>15 DEF Next

-----------------------------------------------------------------------------
(* The invariant is inductive.                                             *)

LEMMA InitInv == Init => Inv
<1> SUFFICES ASSUME Init PROVE Inv
  OBVIOUS
<1>0. /\ NEdits \in Nat /\ MyLogin \in Login /\ Stored = {} /\ told = TRUE /\ lost = FALSE
      /\ next = [l \in Login |-> Start(l)] /\ owed = [l \in Login |-> {}]
      /\ send = IF msg.matrix THEN "ready" ELSE "none"
  BY MessagesAssumption DEF Init, Stored
<1>1. MsgOK
  BY DEF Init, MsgOK
<1>2. (send = "ready" /\ msg.matrix) \/ send = "none"
  BY <1>0, Zenon
<1>3. TypeOK
  <2>1. next \in [Login -> 0 .. End] /\ owed \in [Login -> SUBSET Versions]
    BY <1>0, StartBounds DEF End
  <2>2. mode \in Modes /\ known \subseteq Person /\ cache = {} /\ pending = {}
    BY DEF Init
  <2>3. portal \in [mode : Modes, attempted : BOOLEAN]
    BY DEF Init
  <2> QED BY <1>0, <1>2, <2>1, <2>2, <2>3 DEF TypeOK
<1>4. StreamInv
  BY <1>0, StartBounds DEF StreamInv
<1>5. SendInv
  <2>1. \A l \in Login : next[l] = Start(l)
    BY <1>0
  <2>2. msg.matrix => next[MyLogin] = 1
    BY <1>0, <2>1, StartBounds
  <2> QED BY <1>0, <1>2, <2>1, <2>2 DEF SendInv
<1>6. RowInv /\ FiledInv
  BY <1>0 DEF RowInv, FiledInv
<1> QED BY <1>1, <1>3, <1>4, <1>5, <1>6 DEF Inv

\* The types of what the other lemmas leave.
LEMMA RestStep ==
  ASSUME TypeOK, MsgOK, Next
  PROVE  /\ mode' \in Modes /\ portal' \in [mode : Modes, attempted : BOOLEAN]
         /\ known' \subseteq Person /\ cache' \subseteq MessageIDs /\ lost' \in BOOLEAN
<1>0. /\ mode \in Modes /\ portal \in [mode : Modes, attempted : BOOLEAN]
      /\ known \subseteq Person /\ cache \subseteq MessageIDs /\ lost \in BOOLEAN
  BY DEF TypeOK
<1>1. mode' \in Modes
  BY <1>0, MessageFixed DEF MoveToLIDs, Modes
<1>2. known' \subseteq Person
  BY <1>0 DEF Next, Undecryptable, UndecryptableEdit, Message, Edit, Revoke, Reaction, MediaRetry,
              SendFromMatrix, Sent, SendFails, Learn, Forget, MoveToLIDs
<1>3. ASSUME NEW actor \in Person \cup {Bot}, InDM => actor \in {Me, msg.peer, Bot},
             ~InDM => actor \in Person, NEW d \in Deliveries(actor), NEW complete,
             Deliver(d, complete)
      PROVE  portal' \in [mode : Modes, attempted : BOOLEAN]
  BY Delivered, <1>3 DEF Deliver
<1>4. portal' \in [mode : Modes, attempted : BOOLEAN]
  <2>1. \A l \in Login : Message(l) \/ Edit(l) => portal' \in [mode : Modes, attempted : BOOLEAN]
    BY <1>3, Actor DEF Message, Edit
  <2>2. \A l \in Login : Revoke(l) => portal' \in [mode : Modes, attempted : BOOLEAN]
    <3>1. \A actor \in Revokers : /\ actor \in Person \cup {Bot}
                                  /\ InDM => actor \in {Me, msg.peer, Bot}
                                  /\ ~InDM => actor \in Person
      BY Actor DEF Revokers
    <3> QED BY <1>3, <3>1 DEF Revoke
  <2>3. Reaction => portal' \in [mode : Modes, attempted : BOOLEAN]
    <3>1. \A actor \in Actors : /\ actor \in Person \cup {Bot}
                                /\ InDM => actor \in {Me, msg.peer, Bot}
                                /\ ~InDM => actor \in Person
      BY Actor, Distinct DEF Actors
    <3> QED BY <1>3, <3>1 DEF Reaction
  <2> QED BY <1>0, <2>1, <2>2, <2>3
          DEF Next, Undecryptable, UndecryptableEdit, MediaRetry, SendFromMatrix, Sent, SendFails,
              Learn, Forget, MoveToLIDs
<1>5. cache' \subseteq MessageIDs
  <2>1. ASSUME NEW l \in Login, Message(l) PROVE cache' \subseteq MessageIDs
    <3>1. PICK d \in Deliveries(msg.author), shown \in Conversions :
            LET id == MessageID(d.chat, d.sender)
            IN NewMessage(id, shown) \/ ExistingMessage(id, shown)
      BY <2>1 DEF Message
    <3>2. MessageID(d.chat, d.sender) \in MessageIDs
      BY Delivered, Actor DEF Filed, MessageID, MessageIDs
    <3> QED BY <1>0, <3>1, <3>2 DEF NewMessage, ExistingMessage
  <2>2. cache' = cache \/ cache' = {} \/ \E l \in Login : Message(l)
    BY DEF Next, Undecryptable, UndecryptableEdit, Edit, Revoke, Reaction, MediaRetry,
           SendFromMatrix, Sent, SendFails, Learn, Forget, MoveToLIDs
  <2> QED BY <1>0, <2>1, <2>2
<1>6. lost' \in BOOLEAN
  <2>1. \A id : Misses(id) => lost' \in BOOLEAN
    BY Zenon DEF Misses
  <2>2. lost' = lost \/ \E id : Misses(id)
    BY DEF Next, Undecryptable, UndecryptableEdit, Message, Edit, Revoke, Reaction, MediaRetry,
           SendFromMatrix, Sent, SendFails, Learn, Forget, MoveToLIDs
  <2> QED BY <1>0, <2>1, <2>2, Zenon
<1> QED BY <1>1, <1>2, <1>4, <1>5, <1>6

LEMMA NextInv == Inv /\ [Next]_vars => Inv'
<1> SUFFICES ASSUME Inv, [Next]_vars PROVE Inv'
  OBVIOUS
<1>1. CASE Next
  <2>1. TypeOK /\ MsgOK /\ StreamInv /\ SendInv /\ RowInv
    BY DEF Inv
  <2>2. RowInv' /\ Stored' \subseteq MessageIDs /\ \A id \in Stored' : rows'[id] \in Row
    BY RowStep, <1>1, <2>1
  <2>3. StreamInv' /\ next' \in [Login -> 0 .. End] /\ owed' \in [Login -> SUBSET Versions]
    BY StreamStep, <1>1, <2>1
  <2>4. SendInv' /\ pending' \subseteq MessageIDs
        /\ send' \in {"none", "ready", "sending", "sent", "failed"}
    BY SendStep, <1>1, <2>1
  <2>5. told' \in BOOLEAN
    BY ToldStep, <1>1, <2>1
  <2>6. FiledInv'
    BY FiledStep, <1>1
  <2>7. MsgOK'
    BY MessageFixed, <1>1, <2>1 DEF MsgOK, InDM, MoveToLIDs
  <2>8. /\ mode' \in Modes /\ portal' \in [mode : Modes, attempted : BOOLEAN]
        /\ known' \subseteq Person /\ cache' \subseteq MessageIDs /\ lost' \in BOOLEAN
    BY RestStep, <1>1, <2>1
  <2>9. TypeOK'
    BY <2>2, <2>3, <2>4, <2>5, <2>8 DEF TypeOK
  <2> QED BY <2>2, <2>3, <2>4, <2>6, <2>7, <2>9 DEF Inv
<1>2. CASE UNCHANGED vars
  <2>1. /\ msg' = msg /\ mode' = mode /\ portal' = portal /\ known' = known /\ rows' = rows
        /\ cache' = cache /\ pending' = pending /\ send' = send /\ next' = next /\ owed' = owed
        /\ told' = told /\ lost' = lost
    BY <1>2 DEF vars, stream
  <2>2. Stored' = Stored /\ InDM' = InDM /\ HomeChat' = HomeChat /\ Home' = Home
        /\ SendChats' = SendChats
    BY <2>1 DEF Stored, InDM, HomeChat, Home, Address, SendChats
  <2>3. \A l : Start(l)' = Start(l) /\ (Receives(l)' <=> Receives(l))
    BY <2>1 DEF Start, Receives, InDM
  <2>4. TypeOK' /\ MsgOK' /\ RowInv'
    BY <2>1, <2>2 DEF Inv, TypeOK, MsgOK, RowInv
  <2>5. StreamInv' /\ FiledInv'
    BY <2>1, <2>2, <2>3 DEF Inv, StreamInv, FiledInv
  <2>6. SendInv'
    BY <2>1, <2>2, <2>3 DEF Inv, SendInv
  <2> QED BY <2>4, <2>5, <2>6 DEF Inv
<1> QED BY <1>1, <1>2

-----------------------------------------------------------------------------
(* The theorems.                                                           *)

LEMMA Always == Spec => []Inv
BY InitInv, NextInv, PTL DEF Spec

\* The variables of Messages keep the types the code gives them.
THEOREM MessagesTypeOK == Spec => []TypeOK
<1>1. Inv => TypeOK
  BY DEF Inv
<1> QED BY Always, <1>1, PTL

\* Whoever brings the message, and in whatever form, it is filed once, and not
\* while it is being sent (rerouteWAMessage, PreHandle, AddPendingToIgnore).
THEOREM MessagesFiledOnce == Spec => []FiledOnce
<1>1. ASSUME Inv PROVE FiledOnce
  <2>1. ASSUME told PROVE Cardinality(Stored) <= 1
    <3>1. Stored \subseteq {Home}
      BY <1>1, <2>1 DEF Inv, FiledInv
    <3>2. Stored = {} \/ Stored = {Home}
      BY <3>1
    <3> QED BY <3>2, FS_EmptySet, FS_Singleton
  <2>2. send = "sending" => Stored = {}
    BY <1>1 DEF Inv, SendInv
  <2> QED BY <2>1, <2>2 DEF FiledOnce
<1> QED BY Always, <1>1, PTL

\* Edits, removals and reactions of anyone find the message
\* (GetTargetMessage, KeyToMessageID).
THEOREM MessagesTargetsFound == Spec => []TargetsFound
<1>1. Inv => TargetsFound
  BY DEF Inv, FiledInv, TargetsFound
<1> QED BY Always, <1>1, PTL

\* The text of a message in the room changes only to that of an edit that was
\* not handled before (ConvertEdit, HandleExisting, WAMediaRetry).
THEOREM MessagesNoUndo == Spec => NoUndo
<1> DEFINE Step == \A id \in Stored \cap Stored' : rows'[id].version # rows[id].version
                     => rows'[id].version \in Edits \ rows[id].edits
<1>1. ASSUME Inv, Next PROVE Step
  BY RowStep, <1>1 DEF Inv
<1>2. UNCHANGED vars => [Step]_vars
  OBVIOUS
<1>3. Inv /\ [Next]_vars => [Step]_vars
  BY <1>1, <1>2
<1> QED BY Always, <1>3, PTL DEF Spec, NoUndo

\* A decryption error is recorded exactly while the placeholder is shown
\* (HandleExisting, MessageMetadata.CopyFrom).
THEOREM MessagesPlaceholderResolves == Spec => []PlaceholderResolves
<1>1. Inv => PlaceholderResolves
  BY DEF Inv, RowInv, PlaceholderResolves
<1> QED BY Always, <1>1, PTL

\* Media shown as old can be requested, and the answer is of the version that
\* is shown (makeMediaFailure, CopyFrom, WAMediaRetry).
THEOREM MessagesOldMediaRetryable == Spec => []OldMediaRetryable
<1>1. Inv => OldMediaRetryable
  BY DEF Inv, RowInv, OldMediaRetryable
<1> QED BY Always, <1>1, PTL

\* No copy of a message is left when every login brought its removal
\* (HandleWARevoke, KeyToMessageID).
THEOREM MessagesRevokedIsGone == Spec => []RevokedIsGone
<1>1. Inv => RevokedIsGone
  BY DEF Inv, FiledInv, RevokedIsGone
<1> QED BY Always, <1>1, PTL

-----------------------------------------------------------------------------
(* References.                                                             *)

\* A room is known to be addressed by LIDs only when the group is.
PortalInv == portal.mode = "lid" => mode = "lid"

LEMMA PortalOfDelivery ==
  ASSUME Inv, PortalInv, NEW actor \in Person \cup {Bot},
         InDM => actor \in {Me, msg.peer, Bot}, ~InDM => actor \in Person,
         NEW d \in Deliveries(actor)
  PROVE  d.portal.mode = "lid" => mode = "lid"
<1>1. PICK s \in Sources(actor) : d \in PreHandle(rerouteWAMessage(known, s), Tells(s))
  BY DEF Deliveries
<1> DEFINE o == rerouteWAMessage(known, s)
<1>2. o.mode = mode
  <2>1. CASE InDM
    BY DMDelivered, <2>1 DEF Inv, TypeOK, MsgOK
  <2>2. CASE ~InDM
    BY GroupDelivered, <2>2
  <2> QED BY <2>1, <2>2
<1> HIDE DEF o
<1>3. \A i, meta, c : Delivery(i, meta, c).portal = meta
  BY DEF Delivery
<1>4. d.portal = portal \/ o.mode = "lid"
  BY <1>1, <1>3 DEF PreHandle, o
<1> QED BY <1>2, <1>4 DEF PortalInv

LEMMA PortalStep ==
  ASSUME Inv, PortalInv, Next
  PROVE  PortalInv'
<1>1. mode' = mode \/ mode' = "lid"
  BY MessageFixed DEF MoveToLIDs
<1>2. Actors \subseteq Person \cup {Bot} /\ Revokers \subseteq Person \cup {Bot}
  BY Distinct DEF Actors, Revokers, Inv, MsgOK
<1>3. \/ UNCHANGED portal
      \/ \E actor \in Person \cup {Bot} :
           /\ InDM => actor \in {Me, msg.peer, Bot}
           /\ ~InDM => actor \in Person
           /\ \E d \in Deliveries(actor) : portal' = d.portal
  <2>1. msg.author \in Person \cup {Bot} /\ (InDM => msg.author \in {Me, msg.peer, Bot})
        /\ (~InDM => msg.author \in Person)
    BY Actor DEF Inv
  <2>2. \A actor \in Actors \cup Revokers :
          (InDM => actor \in {Me, msg.peer, Bot}) /\ (~InDM => actor \in Person)
    BY <2>1 DEF Actors, Revokers, Inv, MsgOK
  <2>3. ASSUME NEW l \in Login, Message(l) \/ Edit(l)
        PROVE  \E d \in Deliveries(msg.author) : portal' = d.portal
    BY <2>3 DEF Message, Edit, Deliver
  <2>4. ASSUME NEW l \in Login, Revoke(l)
        PROVE  \E actor \in Revokers : \E d \in Deliveries(actor) : portal' = d.portal
    BY <2>4 DEF Revoke, Deliver
  <2>5. CASE Reaction
    <3>1. \E actor \in Actors : \E d \in Deliveries(actor) : portal' = d.portal
      BY <2>5 DEF Reaction, Deliver
    <3> QED BY <1>2, <2>2, <3>1
  <2>6. ASSUME NEW l \in Login, Undecryptable(l) \/ UndecryptableEdit(l) PROVE UNCHANGED portal
    BY <2>6 DEF Undecryptable, UndecryptableEdit
  <2>7. CASE \/ MediaRetry \/ SendFromMatrix \/ Sent \/ SendFails
             \/ (\E p \in Person : Learn(p)) \/ MoveToLIDs \/ Forget
    BY <2>7 DEF MediaRetry, SendFromMatrix, Sent, SendFails, Learn, MoveToLIDs, Forget
  <2> QED BY <1>2, <2>1, <2>2, <2>3, <2>4, <2>5, <2>6, <2>7 DEF Next
<1>4. CASE UNCHANGED portal
  BY <1>1, <1>4 DEF PortalInv
<1>5. ASSUME NEW actor \in Person \cup {Bot},
             InDM => actor \in {Me, msg.peer, Bot}, ~InDM => actor \in Person,
             NEW d \in Deliveries(actor), portal' = d.portal
      PROVE  PortalInv'
  BY PortalOfDelivery, <1>1, <1>5 DEF PortalInv
<1> QED BY <1>3, <1>4, <1>5

LEMMA AlwaysPortal == Spec => []PortalInv
<1>1. Init => PortalInv
  BY DEF Init, PortalInv
<1>2. UNCHANGED vars /\ PortalInv => PortalInv'
  BY DEF vars, PortalInv
<1>3. Inv /\ PortalInv /\ [Next]_vars => PortalInv'
  BY <1>2, PortalStep
<1> QED BY Always, <1>1, <1>3, PTL DEF Spec

\* The address a message is filed under is not resolved to another one, if the
\* room is not addressed by LIDs before the group is.
LEMMA HomeKept ==
  ASSUME MsgOK, mode \in Modes, NEW lids, ~InDM /\ lids => mode = "lid"
  PROVE  rerouteMessageKey(known, HomeChat, Address(msg.author), lids) = Address(msg.author)
<1> DEFINE a == Address(msg.author)
<1>1. CASE InDM
  <2>1. HomeChat.server = "pn" /\ a.server # "lid"
    BY <1>1, Records DEF HomeChat, Address
  <2>2. GetPNForLID(known, a) = NoJID
    BY <2>1 DEF GetPNForLID
  <2> QED BY <2>1, <2>2 DEF rerouteMessageKey
<1>2. CASE ~InDM
  <2>1. HomeChat.server = "group" /\ a.server = mode
    <3>1. a.server = mode
      BY <1>2 DEF Address, JID
    <3>2. HomeChat.server = "group"
      BY <1>2, Records DEF HomeChat
    <3> QED BY <3>1, <3>2
  <2>2. lids => GetLIDForPN(known, a) = NoJID
    BY <1>2, <2>1 DEF GetLIDForPN
  <2> QED BY <2>1, <2>2 DEF rerouteMessageKey
<1> QED BY <1>1, <1>2

\* A key that tells whether the message is this user's, and who wrote it in a
\* group if not.
MeansHome(key) ==
  /\ key.fromMe <=> msg.author = Me
  /\ msg.author # Me => key.participant = IF InDM THEN NoJID ELSE Address(msg.author)

LEMMA MeantHome ==
  ASSUME TypeOK, MsgOK, msg.author # Bot, NEW key, MeansHome(key),
         NEW d, d.chat = HomeChat, d.sender = Address(Me)
  PROVE  Target(d, key) = Home
<1> DEFINE author == KeySender(d.chat, d.sender, key)
<1>0. Me # Bot /\ mode \in Modes
  BY Distinct DEF TypeOK
<1>1. author = Address(msg.author)
  <2>1. CASE msg.author = Me
    BY <2>1 DEF KeySender, MeansHome
  <2>2. CASE msg.author # Me /\ InDM
    <3>1. ~key.fromMe /\ key.participant = NoJID
      BY <2>2 DEF MeansHome
    <3>2. d.chat = PN(msg.author) /\ d.chat.server = "pn"
      <4>1. msg.author = msg.peer
        BY <2>2 DEF MsgOK
      <4>2. d.chat = PN(msg.peer)
        BY <2>2 DEF HomeChat
      <4> QED BY <4>1, <4>2, Records
    <3>3. d.sender.user = Me /\ Address(msg.author) = PN(msg.author)
      BY <1>0, <2>2, Records DEF Address
    <3>4. author = IF d.sender.user = Me THEN d.chat ELSE PN(Me)
      <4>1. ~(d.chat.server \notin {"pn", "bot"})
        BY <3>2
      <4> QED BY <3>1, <4>1, Zenon DEF KeySender
    <3> QED BY <3>2, <3>3, <3>4
  <2>3. CASE msg.author # Me /\ ~InDM
    <3>1. ~key.fromMe /\ key.participant = Address(msg.author)
      BY <2>3 DEF MeansHome
    <3>2. Address(msg.author).server # ""
      BY <1>0, <2>3 DEF Address, JID, Modes
    <3>3. key.participant # NoJID
      BY <3>1, <3>2, Records
    <3> QED BY <3>1, <3>3, Zenon DEF KeySender
  <2> QED BY <2>1, <2>2, <2>3
<1>2. Address(msg.author) # NoJID
  <2>1. Address(msg.author).server # ""
    BY <1>0, Records DEF Address, JID, Modes
  <2> QED BY <2>1, Records
<1>3. ~InDM /\ d.sender.server = "lid" => mode = "lid"
  BY DEF Address, JID
<1>4. rerouteMessageKey(known, HomeChat, Address(msg.author), d.sender.server = "lid")
        = Address(msg.author)
  BY <1>0, <1>3, HomeKept
<1> HIDE DEF author
<1>5. Target(d, key) = MessageID(d.chat, Address(msg.author))
  BY <1>1, <1>2, <1>4 DEF Target, KeyToMessageID, author
<1> QED BY <1>5 DEF Home

\* What the handlers of Matrix events send about the message says that.
LEMMA RequestsHome ==
  ASSUME TypeOK, MsgOK, msg.author # Bot, NEW request \in Requests(Home)
  PROVE  request.chat = HomeChat /\ MeansHome(request.key)
<1> DEFINE a  == Address(msg.author)
           k(f, p) == [fromMe |-> f, participant |-> p]
<1>0. /\ PortalJID = HomeChat /\ Home.chat = HomeChat /\ Home.sender = a
      /\ mode \in {"pn", "lid"}
  BY DEF PortalJID, HomeChat, Home, MessageID, TypeOK, Modes
<1>1. /\ a.user = msg.author /\ (a \in {PN(Me), LID(Me)} <=> msg.author = Me)
      /\ (~InDM => a # HomeChat) /\ (InDM /\ msg.author # Me => a = HomeChat)
  <2>1. a \in {PN(msg.author), LID(msg.author)}
    BY <1>0 DEF Address, PN, LID
  <2>2. InDM /\ msg.author # Me => a = HomeChat
    BY DEF Address, HomeChat, MsgOK
  <2>3. ~InDM => HomeChat = GroupJID
    BY DEF HomeChat
  <2>4. a # GroupJID
    BY <2>1, Records
  <2>5. a.user = msg.author
    BY <2>1, Records
  <2>6. a \in {PN(Me), LID(Me)} <=> msg.author = Me
    <3>1. a \in {PN(Me), LID(Me)} => a.user = Me
      BY Records
    <3>2. msg.author = Me => a \in {PN(Me), LID(Me)}
      BY <2>1
    <3> QED BY <2>5, <3>1, <3>2
  <2> QED BY <2>2, <2>3, <2>4, <2>5, <2>6
<1>2. HomeChat.server = IF InDM THEN "pn" ELSE "group"
  BY Records DEF HomeChat
<1>3. ASSUME NEW f, NEW p, f <=> msg.author = Me,
             msg.author # Me => p = IF InDM THEN NoJID ELSE a
      PROVE  Request(k(f, p)).chat = HomeChat /\ MeansHome(Request(k(f, p)).key)
  <2>1. k(f, p).fromMe = f /\ k(f, p).participant = p
    OBVIOUS
  <2>2. Request(k(f, p)).chat = HomeChat /\ Request(k(f, p)).key = k(f, p)
    BY <1>0 DEF Request
  <2> HIDE DEF k, a
  <2>3. k(f, p).fromMe <=> msg.author = Me
    BY <1>3, <2>1, Zenon
  <2>4. msg.author # Me => k(f, p).participant = IF InDM THEN NoJID ELSE Address(msg.author)
    BY <1>3, <2>1 DEF a
  <2> QED BY <2>2, <2>3, <2>4, Zenon DEF MeansHome
<1> DEFINE key(f, group, p) == Request(k(f, IF group THEN NoJID ELSE p))
<1>4. ASSUME request = HandleMatrixReaction(Home) \/ request = HandleMatrixReactionRemove(Home)
      PROVE  request.chat = HomeChat /\ MeansHome(request.key)
  <2>1. request = Request(k(a.user = Me, IF InDM THEN NoJID ELSE a))
    BY <1>0, <1>2, <1>4 DEF HandleMatrixReaction, HandleMatrixReactionRemove, messageIDToKey
  <2> HIDE DEF a, k
  <2>2. a.user = Me <=> msg.author = Me
    BY <1>1
  <2> QED BY <1>3, <2>1, <2>2
<1>5. ASSUME request = HandleMatrixMessageRemove(Home)
      PROVE  request.chat = HomeChat /\ MeansHome(request.key)
  <2> DEFINE p == IF a.user = Me \/ InDM THEN NoJID ELSE a
  <2>1. request = Request(k(a.user = Me, p))
    BY <1>0, <1>2, <1>5 DEF HandleMatrixMessageRemove, BuildMessageKey
  <2> HIDE DEF a, k
  <2>2. a.user = Me <=> msg.author = Me
    BY <1>1
  <2>3. msg.author # Me => p = IF InDM THEN NoJID ELSE a
    BY <2>2
  <2> HIDE DEF p
  <2> QED BY <1>3, <2>1, <2>2, <2>3
<1>6. ASSUME request = HandleMarkedUnread(Home)
      PROVE  request.chat = HomeChat /\ MeansHome(request.key)
  <2> DEFINE p == IF PortalJID.server = "group" THEN a ELSE NoJID
             f == a \in {PN(Me), LID(Me)}
  <2>1. request = Request(k(f, p))
    BY <1>0, <1>6 DEF HandleMarkedUnread, getLastMessageInfo
  <2>2. p = IF InDM THEN NoJID ELSE a
    BY <1>0, <1>2
  <2>3. f <=> msg.author = Me
    BY <1>1
  <2> HIDE DEF a, k, p, f
  <2> QED BY <1>3, <2>1, <2>2, <2>3
<1>7. ASSUME request = PollVoteToWhatsApp(Home)
      PROVE  request.chat = HomeChat /\ MeansHome(request.key)
  <2> DEFINE p == IF HomeChat.server = "group" THEN a ELSE NoJID
  <2>1. request = Request(k(a.user = Me, p))
    BY <1>0, <1>7 DEF PollVoteToWhatsApp, MessageIDToInfo
  <2>2. p = IF InDM THEN NoJID ELSE a
    BY <1>2
  <2>3. a.user = Me <=> msg.author = Me
    BY <1>1
  <2> HIDE DEF a, k, p
  <2> QED BY <1>3, <2>1, <2>2, <2>3
<1>8. ASSUME msg.author = Me, request = HandleMatrixEdit(Home)
      PROVE  request.chat = HomeChat /\ MeansHome(request.key)
  <2>1. request = Request(k(PN(Me).user = Me, NoJID))
    BY <1>8, Records DEF HandleMatrixEdit, BuildMessageKey
  <2>2. PN(Me).user = Me
    BY Records
  <2> HIDE DEF k
  <2> QED BY <1>3, <1>8, <2>1, <2>2
<1>9. ASSUME msg.author # Me, request = HandleMatrixReadReceipt(Home)
      PROVE  request.chat = HomeChat /\ MeansHome(request.key)
  <2> DEFINE p == IF a = HomeChat THEN NoJID ELSE a
  <2>1. request = Request(k(FALSE, p))
    BY <1>0, <1>9 DEF HandleMatrixReadReceipt
  <2>2. p = IF InDM THEN NoJID ELSE a
    BY <1>1, <1>9
  <2> HIDE DEF a, k, p
  <2> QED BY <1>3, <1>9, <2>1, <2>2
<1>10. \/ request \in {HandleMatrixReaction(Home), HandleMatrixReactionRemove(Home),
                       HandleMatrixMessageRemove(Home), HandleMarkedUnread(Home),
                       PollVoteToWhatsApp(Home)}
       \/ msg.author = Me /\ request = HandleMatrixEdit(Home)
       \/ msg.author # Me /\ request = HandleMatrixReadReceipt(Home)
  <2>1. Home.sender.user = msg.author
    BY <1>0, <1>1
  <2> QED BY <2>1 DEF Requests
<1> QED BY <1>4, <1>5, <1>6, <1>7, <1>8, <1>9, <1>10

\* The events of Me that tell enough come from the home of the chat.
LEMMA MyDeliveries ==
  ASSUME TypeOK, MsgOK, NEW d \in Deliveries(Me), d.told
  PROVE  d.chat = HomeChat /\ d.sender = Address(Me)
BY Delivered, Distinct DEF Filed

\* Whatever Matrix users do to a message, a login that receives what the bridge
\* sends about it comes back to the same message (messageIDToKey,
\* BuildMessageKey, MessageIDToInfo, generateContextInfo, KeyToMessageID).
THEOREM ReferencesFound == Spec => []ReferencesArrive
<1>1. ASSUME Inv, PortalInv PROVE ReferencesArrive
  <2> SUFFICES ASSUME told, msg.author # Bot, NEW id \in Stored
               PROVE  /\ \A d \in Deliveries(Me), request \in Requests(id) :
                           d.told => d.chat = request.chat /\ Target(d, request.key) = id
                      /\ portal.mode = mode => ReplyTo(QuotedParticipant(id)) = id
    BY DEF ReferencesArrive
  <2>1. id = Home
    BY <1>1 DEF Inv, FiledInv
  <2>2. TypeOK /\ MsgOK /\ mode \in Modes
    BY <1>1 DEF Inv, TypeOK
  <2>3. ASSUME NEW d \in Deliveries(Me), NEW request \in Requests(id), d.told
        PROVE  d.chat = request.chat /\ Target(d, request.key) = id
    <3>1. d.chat = HomeChat /\ d.sender = Address(Me)
      BY <2>2, <2>3, MyDeliveries
    <3>2. request.chat = HomeChat /\ MeansHome(request.key)
      BY <2>1, <2>2, <2>3, RequestsHome
    <3> QED BY <2>1, <2>2, <3>1, <3>2, MeantHome
  <2>4. ASSUME portal.mode = mode PROVE ReplyTo(QuotedParticipant(id)) = id
    <3>1. QuotedParticipant(id) = Address(msg.author)
      BY <2>1 DEF QuotedParticipant, Home, MessageID
    <3>2. PortalJID = HomeChat
      BY DEF PortalJID, HomeChat
    <3>3. rerouteMessageKey(known, HomeChat, Address(msg.author), portal.mode = "lid")
            = Address(msg.author)
      BY <2>2, <2>4, HomeKept
    <3> QED BY <2>1, <3>1, <3>2, <3>3 DEF ReplyTo, Home
  <2> QED BY <2>3, <2>4
<1> QED BY Always, AlwaysPortal, <1>1, PTL

\* A reply in either addressing mode finds the message, and so does a receipt
\* of anyone for a message of this user (rerouteMessageKey, handleWAReceipt).
THEOREM QuotesAndReceipts == Spec => []QuotesAndReceiptsFind
<1>1. ASSUME Inv, PortalInv PROVE QuotesAndReceiptsFind
  <2> SUFFICES ASSUME told, msg.author # Bot
               PROVE  /\ \A participant \in Quotes : ReplyTo(participant) = Home
                      /\ msg.author = Me =>
                           \A reader \in Actors \ {Me} : \A s \in Receipts(reader) :
                             handleWAReceipt(s) = Home
    BY <1>1 DEF QuotesAndReceiptsFind, Inv, FiledInv
  <2> DEFINE a == Address(msg.author)
  <2>1. TypeOK /\ MsgOK /\ mode \in Modes /\ PortalJID = HomeChat
    BY <1>1 DEF Inv, TypeOK, PortalJID, HomeChat
  <2>2. ASSUME NEW participant \in Quotes PROVE ReplyTo(participant) = Home
    <3>1. a = JID(msg.author, IF InDM THEN "pn" ELSE mode)
      BY DEF Address, PN
    <3>2. \/ participant = a
          \/ /\ participant \in {PN(msg.author), LID(msg.author)} /\ msg.author \in known
             /\ InDM \/ portal.mode = "lid"
      BY <2>2, <3>1 DEF Quotes, Modes, PN, LID
    <3>3. rerouteMessageKey(known, HomeChat, a, portal.mode = "lid") = a
      BY <1>1, <2>1, HomeKept DEF PortalInv
    <3>4. ASSUME participant # a
          PROVE  rerouteMessageKey(known, HomeChat, participant, portal.mode = "lid") = a
      <4>1. CASE InDM
        <5>1. a = PN(msg.author) /\ participant = LID(msg.author) /\ msg.author \in known
          BY <3>1, <3>2, <3>4, <4>1 DEF PN
        <5>2. GetPNForLID(known, participant) = a /\ a # NoJID
          BY <5>1, Records DEF GetPNForLID
        <5>3. HomeChat.server = "pn"
          BY <4>1, Records DEF HomeChat
        <5> HIDE DEF a
        <5> QED BY <5>2, <5>3 DEF rerouteMessageKey
      <4>2. CASE ~InDM
        <5>1. portal.mode = "lid" /\ mode = "lid" /\ msg.author \in known
          BY <1>1, <3>2, <3>4, <4>2 DEF PortalInv
        <5>2. a = LID(msg.author) /\ participant = PN(msg.author)
          BY <3>1, <3>2, <3>4, <4>2, <5>1 DEF LID
        <5>3. GetLIDForPN(known, participant) = a /\ a # NoJID
          BY <5>1, <5>2, Records DEF GetLIDForPN
        <5>4. HomeChat.server = "group"
          BY <4>2, Records DEF HomeChat
        <5> HIDE DEF a
        <5> QED BY <5>1, <5>3, <5>4 DEF rerouteMessageKey
      <4> QED BY <4>1, <4>2
    <3>5. rerouteMessageKey(known, HomeChat, participant, portal.mode = "lid") = a
      BY <3>3, <3>4
    <3> QED BY <2>1, <3>5 DEF ReplyTo, Home
  <2>3. ASSUME msg.author = Me, NEW reader \in Actors \ {Me}, NEW s \in Receipts(reader)
        PROVE  handleWAReceipt(s) = Home
    <3> DEFINE info == rerouteWAMessage(known, s)
    <3>1. s \in Sources(reader) /\ Tells(s) /\ ~Outdated(s)
      BY <2>3 DEF Receipts
    <3>2. CASE InDM
      <4>1. reader = msg.peer
        BY <2>3, <3>2, Distinct DEF Actors
      <4>2. info.chat = HomeChat
        BY <2>1, <3>1, <3>2, <4>1, DMDelivered DEF TypeOK
      <4>3. HomeChat.server # "group" /\ a = PN(Me)
        BY <2>3, <3>2, Records, Distinct DEF HomeChat, Address
      <4> HIDE DEF info, a
      <4>4. handleWAReceipt(s) = MessageID(HomeChat, PN(Me))
        BY <4>2, <4>3 DEF handleWAReceipt, info
      <4> QED BY <4>3, <4>4 DEF Home, a
    <3>3. CASE ~InDM
      <4>1. info.chat = HomeChat /\ info.sender.server = mode /\ HomeChat.server = "group"
        <5>1. info = s /\ s.chat = GroupJID /\ s.sender = JID(reader, mode)
          BY <3>1, <3>3, GroupDelivered
        <5>2. s.sender.server = mode
          BY <5>1 DEF JID
        <5> QED BY <3>3, <5>1, <5>2, Records DEF HomeChat
      <4>2. a = IF mode = "lid" THEN LID(Me) ELSE PN(Me)
        BY <2>1, <2>3, <3>3 DEF Address, Modes, PN, LID
      <4> HIDE DEF info, a
      <4>3. handleWAReceipt(s) = MessageID(HomeChat, IF mode = "lid" THEN LID(Me) ELSE PN(Me))
        BY <4>1 DEF handleWAReceipt, info
      <4> QED BY <4>2, <4>3 DEF Home, a
    <3> QED BY <3>2, <3>3
  <2> QED BY <2>2, <2>3
<1> QED BY Always, AlwaysPortal, <1>1, PTL

\* A reaction of this user comes under one address from Matrix and from another
\* device (PreHandleMatrixReaction, rerouteWAMessage).
THEOREM OneSender == Spec => []OneReactionSender
<1>1. ASSUME Inv PROVE OneReactionSender
  <2> SUFFICES ASSUME portal.mode = mode, NEW d \in Deliveries(Me), d.told
               PROVE  d.sender = PreHandleMatrixReaction(portal)
    BY DEF OneReactionSender
  <2>1. TypeOK /\ MsgOK /\ mode \in Modes /\ Me # Bot
    BY <1>1, Distinct DEF Inv, TypeOK
  <2>2. d.sender = Address(Me)
    BY <2>1, MyDeliveries
  <2>3. PortalJID.server = IF InDM THEN "pn" ELSE "group"
    BY Records DEF PortalJID
  <2>4. CASE InDM
    BY <2>1, <2>2, <2>3, <2>4 DEF PreHandleMatrixReaction, Address, MsgOK
  <2>5. CASE ~InDM
    BY <2>1, <2>2, <2>3, <2>5 DEF PreHandleMatrixReaction, Address, Modes, PN, LID
  <2> QED BY <2>4, <2>5
<1> QED BY Always, <1>1, PTL

=============================================================================
