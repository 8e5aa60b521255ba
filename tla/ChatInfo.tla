------------------------------ MODULE ChatInfo ------------------------------
(***************************************************************************)
(* How the room of a group follows the group (connector/chatinfo.go, the   *)
(* group handlers of handlewhatsapp.go, the room handlers of               *)
(* handlematrix.go, CreateGroup and the portal half of the resync queue).  *)
(*                                                                         *)
(* WhatsApp tells the bridge of every change of a group, and the portal    *)
(* applies the changes one after the other.  Matrix users change the room, *)
(* and the bridge changes the group for them.  What either missed is       *)
(* repaired by a resync, which fetches the group as it is and is queued by *)
(* the group's messages.  A group may be joined, or created from Matrix.   *)
(*                                                                         *)
(* A topic is its ID: no two topics have the same.  `portal' is the portal *)
(* together with what the room shows of it.  The members are the user, who *)
(* stays, and one other participant.                                       *)
(***************************************************************************)
EXTENDS Integers, Sequences

CONSTANTS
  IsDefaultSubGroup,  \* is it the announcement group of a community?
  MaxTopic,           \* bound: topics
  MaxFaults,          \* bound: failures and restarts
  MaxUpsets,          \* bound: these and changes on either side
  Again               \* bound: what may change if something did before

ASSUME ChatInfoAssumption ==
  /\ IsDefaultSubGroup \in BOOLEAN
  /\ MaxTopic \in Nat /\ MaxFaults \in Nat /\ MaxUpsets \in Nat

VARIABLES
  group,       \* the group, as WhatsApp has it
  portal,
  events,      \* what WhatsApp has told and the portal has not handled
  createDedup, \* is the key of the group in createDedup?
  creating,    \* where CreateGroup is
  lastSync,    \* is PortalMetadata.LastSync within ResyncMinInterval?
  queued,      \* is the portal in resyncQueue?
  topics, changes, faults

vars == <<group, portal, events, createDedup, creating, lastSync, queued,
          topics, changes, faults>>

superAdminPL == 75
adminPL      == 50
defaultPL    == 0

Topics == 0..MaxTopic
Groups == [at: {"none", "here", "gone"}, name: 0..1, topic: Topics, photo: 0..1,
           isAnnounce: BOOLEAN, isLocked: BOOLEAN, disappearingTimer: 0..1,
           role: {"none", "member", "admin", "superadmin"},
           muted: BOOLEAN, pinned: BOOLEAN, archived: BOOLEAN]
Levels == {defaultPL, adminPL, superAdminPL}
Portals == [room: {"none", "own", "user"}, name: 0..1, topic: Topics,
            topicID: Topics, photo: 0..1, eventsPL: {defaultPL, adminPL},
            metaPL: {defaultPL, adminPL}, timerPL: {defaultPL, adminPL},
            joined: BOOLEAN, memberPL: Levels, disappear: 0..1,
            muted: BOOLEAN, tag: {"none", "pinned", "archived"}]

NoGroup == [at |-> "none", name |-> 0, topic |-> 0, photo |-> 0,
            isAnnounce |-> FALSE, isLocked |-> FALSE, disappearingTimer |-> 0,
            role |-> "none", muted |-> FALSE, pinned |-> FALSE, archived |-> FALSE]
NoPortal == [room |-> "none", name |-> 0, topic |-> 0, topicID |-> 0, photo |-> 0,
             eventsPL |-> defaultPL, metaPL |-> defaultPL, timerPL |-> defaultPL,
             joined |-> FALSE, memberPL |-> defaultPL, disappear |-> 0,
             muted |-> FALSE, tag |-> "none"]

\* An event says what happened to the group and how the group then was.
GroupInfo  == {"name", "topic", "announce", "locked", "ephemeral",
               "join", "leave", "promote", "demote"}
LocalInfo  == {"mute", "pin", "archive"}
EventTypes == GroupInfo \cup LocalInfo \cup
              {"picture", "joined-group", "delete", "resync"}
Events     == [type: EventTypes, group: Groups]
Idle       == [at |-> "idle"]
Creations  == {Idle} \cup [at: {"requested", "portal", "room", "photo", "topic", "done"},
                           forRoom: BOOLEAN, group: Groups]

Init ==
  /\ group = NoGroup /\ portal = NoPortal /\ events = <<>>
  /\ createDedup = FALSE /\ creating = Idle
  /\ lastSync = FALSE /\ queued = FALSE
  /\ topics = 0 /\ changes = 0 /\ faults = 0

Fault ==
  /\ faults < MaxFaults /\ changes + faults < MaxUpsets
  /\ faults' = faults + 1
Change(type) ==
  /\ changes + faults < MaxUpsets
  /\ changes = 0 \/ type \in Again
  /\ changes' = changes + 1

-----------------------------------------------------------------------------
(* What is written to the portal.                                          *)

\* setTopicID: the ID goes with the topic, and is not set for another one.
setTopicID(id, p) == IF p.topic = id THEN [p EXCEPT !.topicID = id] ELSE p

\* wrapGroupInfo, applied to the portal.
wrapGroupInfo(g, p) ==
  LET sendEventPL  == IF g.isAnnounce /\ ~IsDefaultSubGroup THEN adminPL ELSE defaultPL
      metaChangePL == IF g.isLocked THEN adminPL ELSE defaultPL
  IN [p EXCEPT
       !.name = g.name, !.topic = g.topic,
       !.eventsPL = sendEventPL, !.metaPL = metaChangePL, !.timerPL = metaChangePL,
       !.joined = (g.role # "none"),
       !.memberPL = CASE g.role = "superadmin" -> superAdminPL
                      [] g.role = "admin" -> adminPL
                      [] OTHER -> defaultPL,
       !.disappear = g.disappearingTimer]

\* Mutant: the timer's power level is not that of the other settings.
wrapGroupInfoTimer(g, p) ==
  LET all == setTopicID(g.topic, wrapGroupInfo(g, p))
  IN [all EXCEPT !.timerPL = p.timerPL]

\* portal.UpdateInfo with wrapGroupInfo's extra updates
UpdateInfo(g, p) == setTopicID(g.topic, wrapGroupInfo(g, p))

\* applyChatSettings: a chat that is neither pinned nor archived keeps its tag.
applyChatSettings(g, p) ==
  [p EXCEPT !.muted = g.muted,
            !.tag = IF g.pinned THEN "pinned" ELSE IF g.archived THEN "archived" ELSE @]

\* makePortalAvatarFetcher gets the photo there is now, or keeps the old one.
FetchPhoto(photo) ==
  \/ photo = group.photo /\ UNCHANGED faults
  \/ photo = portal.photo /\ photo # group.photo /\ Fault

\* GetChatInfo, applied to the portal with that photo.
GetChatInfo(photo) ==
  applyChatSettings(group, UpdateInfo(group, [portal EXCEPT !.photo = photo]))

\* wrapGroupInfoChange and the events of the user's own settings, applied to
\* the portal.  Whoever joins keeps the power level he has in the room, and a
\* change of who may change the group does not reach the timer.
wrapGroupInfoChange(type, g, p) ==
  CASE type = "name"      -> [p EXCEPT !.name = g.name]
    [] type = "topic"     -> setTopicID(g.topic, [p EXCEPT !.topic = g.topic])
    [] type = "announce"  -> [p EXCEPT !.eventsPL = IF g.isAnnounce THEN adminPL ELSE defaultPL]
    [] type = "locked"    -> [p EXCEPT !.metaPL = IF g.isLocked THEN adminPL ELSE defaultPL]
    [] type = "ephemeral" -> [p EXCEPT !.disappear = g.disappearingTimer]
    [] type = "join"      -> [p EXCEPT !.joined = TRUE]
    [] type = "leave"     -> [p EXCEPT !.joined = FALSE]
    [] type = "promote"   -> [p EXCEPT !.joined = TRUE, !.memberPL = adminPL]
    [] type = "demote"    -> [p EXCEPT !.joined = TRUE, !.memberPL = defaultPL]

handleWAUserLocalPortalInfo(type, g, p) ==
  CASE type = "mute"    -> [p EXCEPT !.muted = g.muted]
    [] type = "pin"     -> [p EXCEPT !.tag = IF g.pinned THEN "pinned" ELSE "none"]
    [] type = "archive" -> [p EXCEPT !.tag = IF g.archived THEN "archived" ELSE "none"]

-----------------------------------------------------------------------------
(* The group.                                                              *)

Told(type, g) == events' = Append(events, [type |-> type, group |-> g])

\* A change made with another client.
Elsewhere(type, g) ==
  /\ group.at = "here" /\ Change(type) /\ group' = g /\ Told(type, g)
  /\ UNCHANGED <<portal, createDedup, creating, lastSync, queued, faults>>

ChangeGroup ==
  /\ UNCHANGED topics
  /\ \/ Elsewhere("name", [group EXCEPT !.name = 1 - @])
     \/ Elsewhere("picture", [group EXCEPT !.photo = 1 - @])
     \/ Elsewhere("announce", [group EXCEPT !.isAnnounce = ~@])
     \/ Elsewhere("locked", [group EXCEPT !.isLocked = ~@])
     \/ Elsewhere("ephemeral", [group EXCEPT !.disappearingTimer = 1 - @])
     \/ group.role = "none" /\ Elsewhere("join", [group EXCEPT !.role = "member"])
     \/ group.role # "none" /\ Elsewhere("leave", [group EXCEPT !.role = "none"])
     \/ group.role = "member" /\ Elsewhere("promote", [group EXCEPT !.role = "admin"])
     \/ group.role = "admin" /\ Elsewhere("demote", [group EXCEPT !.role = "member"])
     \/ Elsewhere("mute", [group EXCEPT !.muted = ~@])
     \/ Elsewhere("pin", [group EXCEPT !.pinned = ~@])
     \/ Elsewhere("archive", [group EXCEPT !.archived = ~@])
     \/ creating.at = "idle" /\ Elsewhere("delete", [group EXCEPT !.at = "gone"])

ChangeTopic ==
  /\ topics < MaxTopic /\ topics' = topics + 1
  /\ Elsewhere("topic", [group EXCEPT !.topic = topics'])

\* The user is added to a group, which may have a topic.
JoinGroup ==
  /\ group.at = "none" /\ creating.at = "idle"
  /\ \E n \in {0, 1} \cap Topics, owner \in BOOLEAN:
       /\ topics' = n
       /\ group' = [NoGroup EXCEPT !.at = "here", !.topic = n,
                      !.role = IF owner THEN "superadmin" ELSE "member"]
  /\ Told("joined-group", group')
  /\ UNCHANGED <<portal, createDedup, creating, lastSync, queued, changes, faults>>

-----------------------------------------------------------------------------
(* The portal's events, one after the other.                               *)

Handle(type) == events # <<>> /\ Head(events).type = type /\ events' = Tail(events)

\* handleWAJoinedGroup: the group that CreateGroup makes for a room is left to
\* it, any other gets a room.
JoinedGroup ==
  /\ Handle("joined-group")
  /\ \/ createDedup /\ createDedup' = FALSE /\ UNCHANGED <<portal, faults>>
     \/ /\ ~createDedup /\ UNCHANGED createDedup
        /\ \E photo \in 0..1:
             /\ FetchPhoto(photo)
             /\ portal' = UpdateInfo(Head(events).group,
                            [portal EXCEPT !.photo = photo,
                                           !.room = IF @ = "none" THEN "own" ELSE @])
  /\ UNCHANGED <<group, creating, lastSync, queued, topics, changes>>

\* handleWAGroupInfoChange first makes a room if there is none.  It cannot if
\* the group's info cannot be fetched.
GroupInfoChange(type) ==
  /\ Handle(type)
  /\ LET Changed(p) == wrapGroupInfoChange(type, Head(events).group, p)
     IN \/ /\ portal.room # "none" /\ portal' = Changed(portal)
           /\ UNCHANGED <<lastSync, faults>>
        \/ /\ portal.room = "none" /\ group.at = "here" /\ lastSync' = TRUE
           /\ \E photo \in 0..1:
                /\ FetchPhoto(photo)
                /\ portal' = Changed([GetChatInfo(photo) EXCEPT !.room = "own"])
        \/ /\ portal.room = "none" /\ UNCHANGED <<portal, lastSync>>
           /\ IF group.at = "gone" THEN UNCHANGED faults ELSE Fault
  /\ UNCHANGED <<group, createDedup, creating, queued, topics, changes>>

\* handleWAMute, handleWAPin, handleWAArchive; a chat without a room is left.
UserLocalPortalInfo(type) ==
  /\ Handle(type)
  /\ portal' = IF portal.room = "none" THEN portal
               ELSE handleWAUserLocalPortalInfo(type, Head(events).group, portal)
  /\ UNCHANGED <<group, createDedup, creating, lastSync, queued, topics, changes, faults>>

\* handleWAPictureUpdate: a new picture is fetched as it is now, unless the
\* portal has it.
PictureUpdate ==
  /\ Handle("picture")
  /\ LET photo == Head(events).group.photo
     IN IF portal.room = "none" \/ photo = portal.photo
        THEN UNCHANGED <<portal, faults>>
        ELSE \E new \in 0..1:
               /\ portal' = [portal EXCEPT !.photo = new]
               /\ IF photo = 0 THEN new = 0 /\ UNCHANGED faults ELSE FetchPhoto(new)
  /\ UNCHANGED <<group, createDedup, creating, lastSync, queued, topics, changes>>

\* ChatDelete of a group that is gone
ChatDelete ==
  /\ Handle("delete") /\ portal' = NoPortal /\ lastSync' = FALSE
  /\ UNCHANGED <<group, createDedup, creating, queued, topics, changes, faults>>

\* ChatResync with GetChatInfo.  It makes no room.
ChatResync ==
  /\ Handle("resync")
  /\ \/ /\ portal.room # "none" /\ group.at = "here" /\ lastSync' = TRUE
        /\ \E photo \in 0..1: FetchPhoto(photo) /\ portal' = GetChatInfo(photo)
     \/ /\ UNCHANGED <<portal, lastSync>>
        /\ IF portal.room = "none" \/ group.at = "gone" THEN UNCHANGED faults ELSE Fault
  /\ UNCHANGED <<group, createDedup, creating, queued, topics, changes>>

-----------------------------------------------------------------------------
(* The resync queue.  (Resync has its ghosts.)                             *)

\* LastSync grows old.
Age == /\ lastSync /\ lastSync' = FALSE
       /\ UNCHANGED <<group, portal, events, createDedup, creating, queued,
                      topics, changes, faults>>

\* A message in the group makes the room, or calls EnqueuePortalResync.
Message ==
  /\ group.at = "here"
  /\ \/ /\ portal.room = "none" /\ lastSync' = TRUE /\ UNCHANGED queued
        /\ \E photo \in 0..1:
             FetchPhoto(photo) /\ portal' = [GetChatInfo(photo) EXCEPT !.room = "own"]
     \/ /\ portal.room # "none" /\ ~lastSync /\ ~queued /\ queued' = TRUE
        /\ UNCHANGED <<portal, lastSync, faults>>
  /\ UNCHANGED <<group, events, createDedup, creating, topics, changes>>

\* HandleMatrixViewingChat forgets a LastSync of more than 5 minutes ago.
ViewingChat ==
  /\ portal.room # "none" /\ ~queued /\ queued' = TRUE /\ lastSync' = FALSE
  /\ UNCHANGED <<group, portal, events, createDedup, creating, topics, changes, faults>>

\* rotateResyncQueue and doGhostResync, which passes over a portal that was
\* synced meanwhile, and over all if the login is gone.  (Bound: one resync
\* waits at a time.)
ResyncQueued ==
  /\ queued /\ queued' = FALSE
  /\ \A i \in DOMAIN events: events[i].type # "resync"
  /\ \/ /\ events' = IF lastSync THEN events
                     ELSE Append(events, [type |-> "resync", group |-> group])
        /\ UNCHANGED faults
     \/ Fault /\ UNCHANGED events
  /\ UNCHANGED <<group, portal, createDedup, creating, lastSync, topics, changes>>

-----------------------------------------------------------------------------
(* The room.  Every request may fail.                                      *)

\* A change that the bridge has made in the group: WhatsApp may or may not
\* tell it of its own doing.
Requested(type, g, p) ==
  /\ portal.room # "none" /\ group.at = "here" /\ Change(type)
  /\ group' = g /\ portal' = p
  /\ Told(type, g) \/ UNCHANGED events
  /\ UNCHANGED <<createDedup, creating, lastSync, queued, faults>>

\* HandleMatrixRoomName, HandleMatrixRoomAvatar, HandleMatrixDisappearingTimer:
\* the portal is changed once the group is.
RoomSetting ==
  /\ UNCHANGED topics
  /\ \/ Requested("name", [group EXCEPT !.name = 1 - portal.name], [portal EXCEPT !.name = 1 - @])
     \/ Requested("picture", [group EXCEPT !.photo = 1 - portal.photo], [portal EXCEPT !.photo = 1 - @])
     \/ Requested("ephemeral", [group EXCEPT !.disappearingTimer = 1 - portal.disappear],
                  [portal EXCEPT !.disappear = 1 - @])

\* WhatsApp refuses a new topic unless it is told the ID of the old one.  (The
\* library asks for that ID when it is given none.)
Accepts(oldID) == oldID \in {0, group.topic}

\* Mutant: the old ID is not passed on.
RoomTopicBlind ==
  /\ topics < MaxTopic /\ topics' = topics + 1 /\ Accepts(0)
  /\ Requested("topic", [group EXCEPT !.topic = topics'],
               [portal EXCEPT !.topic = topics', !.topicID = topics'])

\* HandleMatrixRoomTopic
RoomTopic ==
  /\ topics < MaxTopic /\ topics' = topics + 1 /\ Accepts(portal.topicID)
  /\ Requested("topic", [group EXCEPT !.topic = topics'],
               [portal EXCEPT !.topic = topics', !.topicID = topics'])

\* A change that the room shows before the bridge makes it in the group, and
\* also if it cannot.
Shown(type, g, p) ==
  \/ Requested(type, g, p)
  \/ /\ portal.room # "none" /\ Fault /\ portal' = p
     /\ UNCHANGED <<group, events, createDedup, creating, lastSync, queued, changes>>

\* HandleMatrixMembership, HandleMute, HandleRoomTag
RoomState ==
  /\ UNCHANGED topics
  /\ \/ ~portal.joined /\ Shown("join", [group EXCEPT !.role = IF @ = "none" THEN "member" ELSE @],
                                [portal EXCEPT !.joined = TRUE])
     \/ portal.joined /\ Shown("leave", [group EXCEPT !.role = "none"], [portal EXCEPT !.joined = FALSE])
     \/ Shown("mute", [group EXCEPT !.muted = ~portal.muted], [portal EXCEPT !.muted = ~@])
     \/ LET pinned == portal.tag = "pinned"
        IN Shown("pin", [group EXCEPT !.pinned = ~pinned],
                 [portal EXCEPT !.tag = IF pinned THEN "none" ELSE "pinned"])

-----------------------------------------------------------------------------
(* CreateGroup.                                                            *)

At(step) == creating.at = step

\* Mutant: the key is not remembered.
AddKeyNever ==
  /\ At("idle") /\ group.at = "none"
  /\ \E forRoom \in BOOLEAN:
       creating' = [at |-> "requested", forRoom |-> forRoom, group |-> NoGroup]
  /\ UNCHANGED <<group, portal, events, createDedup, lastSync, queued, topics, changes, faults>>

\* The key is remembered if a Matrix room waits for the group.
AddKey ==
  /\ At("idle") /\ group.at = "none"
  /\ \E forRoom \in BOOLEAN:
       /\ creating' = [at |-> "requested", forRoom |-> forRoom, group |-> NoGroup]
       /\ createDedup' = forRoom
  /\ UNCHANGED <<group, portal, events, lastSync, queued, topics, changes, faults>>

\* Client.CreateGroup.  The participant may not have been added; the answer
\* may be lost.
RequestGroup ==
  /\ At("requested")
  /\ \/ /\ \E timer \in 0..1, role \in {"none", "member"}:
             group' = [NoGroup EXCEPT !.at = "here", !.disappearingTimer = timer, !.role = role]
        /\ Told("joined-group", group') /\ UNCHANGED createDedup
        /\ \/ creating' = [creating EXCEPT !.at = "portal", !.group = group'] /\ UNCHANGED faults
           \/ creating' = Idle /\ Fault
     \/ /\ Fault /\ creating' = Idle /\ createDedup' = FALSE /\ UNCHANGED <<group, events>>
  /\ UNCHANGED <<portal, lastSync, queued, topics, changes>>

\* GetPortalByKey
FindPortal ==
  /\ At("portal")
  /\ \/ /\ creating' = [creating EXCEPT !.at = IF creating.forRoom THEN "room" ELSE "photo"]
        /\ UNCHANGED faults
     \/ creating' = Idle /\ Fault
  /\ UNCHANGED <<group, portal, events, createDedup, lastSync, queued, topics, changes>>

\* UpdateMatrixRoomID: the room that waits takes the place of any other.
UpdateMatrixRoomID ==
  /\ At("room")
  /\ \/ /\ creating' = [creating EXCEPT !.at = "photo"]
        /\ \E photo \in 0..1:
             /\ FetchPhoto(photo)
             /\ portal' = UpdateInfo(creating.group,
                                     [portal EXCEPT !.room = "user", !.photo = photo])
     \/ creating' = Idle /\ Fault /\ UNCHANGED portal
  /\ UNCHANGED <<group, events, createDedup, lastSync, queued, topics, changes>>

\* SetGroupPhoto, if there is a photo to set; a failure is only logged.
SetGroupPhoto ==
  /\ At("photo") /\ creating' = [creating EXCEPT !.at = "topic"]
  /\ \/ /\ group' = [group EXCEPT !.photo = 1] /\ portal' = [portal EXCEPT !.photo = 1]
        /\ Told("picture", group') \/ UNCHANGED events
     \/ UNCHANGED <<group, portal, events>>
  /\ UNCHANGED <<createDedup, lastSync, queued, topics, changes, faults>>

\* SetGroupTopic, likewise
SetGroupTopic ==
  /\ At("topic")
  /\ \/ /\ topics < MaxTopic /\ topics' = topics + 1 /\ Accepts(0)
        /\ group' = [group EXCEPT !.topic = topics']
        /\ portal' = [portal EXCEPT !.topic = topics', !.topicID = topics']
        /\ creating' = [creating EXCEPT !.at = "done",
                                       !.group = [creating.group EXCEPT !.topic = topics']]
        /\ Told("topic", group') \/ UNCHANGED events
     \/ /\ creating' = [creating EXCEPT !.at = "done"]
        /\ UNCHANGED <<group, portal, events, topics>>
  /\ UNCHANGED <<createDedup, lastSync, queued, changes, faults>>

\* The bridge makes a room for the answer if no room waits and there is none.
\* The info has the new topic, but the ID of the old one.
CreateRoom ==
  /\ At("done") /\ ~creating.forRoom /\ creating' = Idle
  /\ \/ portal.room # "none" /\ UNCHANGED <<portal, faults>>
     \/ /\ portal.room = "none"
        /\ \E photo \in 0..1:
             /\ FetchPhoto(photo)
             /\ portal' = setTopicID(0, wrapGroupInfo(creating.group,
                                     [portal EXCEPT !.room = "own", !.photo = photo]))
  /\ UNCHANGED <<group, events, createDedup, lastSync, queued, topics, changes>>

\* The bridge restarts.  What it had not yet taken from WhatsApp is sent again.
Restart ==
  /\ Fault /\ createDedup' = FALSE /\ creating' = Idle /\ queued' = FALSE
  /\ \E first \in 1..Len(events)+1:
       /\ \A i \in first..Len(events): events[i].type # "resync"
       /\ events' = SubSeq(events, first, Len(events))
  /\ lastSync' \in BOOLEAN
  /\ UNCHANGED <<group, portal, topics, changes>>

-----------------------------------------------------------------------------
PortalNext ==
  \/ JoinedGroup \/ PictureUpdate \/ ChatDelete \/ ChatResync
  \/ \E type \in GroupInfo: GroupInfoChange(type)
  \/ \E type \in LocalInfo: UserLocalPortalInfo(type)
CreateNext ==
  \/ RequestGroup \/ FindPortal \/ UpdateMatrixRoomID \/ SetGroupPhoto
  \/ SetGroupTopic \/ CreateRoom

Next ==
  \/ ChangeGroup \/ ChangeTopic \/ JoinGroup
  \/ PortalNext
  \/ Age \/ Message \/ ViewingChat \/ ResyncQueued
  \/ RoomSetting \/ RoomTopic \/ RoomState
  \/ AddKey \/ CreateNext
  \/ Restart

Spec == Init /\ [][Next]_vars

\* The portal handles its events, the loops run, time passes, and there are
\* messages in the group now and then.
Fairness ==
  /\ WF_vars(PortalNext) /\ WF_vars(CreateNext)
  /\ WF_vars(Age) /\ WF_vars(Message) /\ WF_vars(ResyncQueued)

FairSpec == Spec /\ Fairness

-----------------------------------------------------------------------------
\* Every variable keeps its type: each way to write the portal leaves it whole.
TypeOK ==
  /\ group \in Groups /\ portal \in Portals /\ events \in Seq(Events)
  /\ createDedup \in BOOLEAN /\ creating \in Creations
  /\ lastSync \in BOOLEAN /\ queued \in BOOLEAN
  /\ topics \in Topics /\ changes \in 0..MaxUpsets /\ faults \in 0..MaxFaults

\* The room shows the group as it is.  (That the user has unpinned or
\* unarchived it elsewhere may have been missed for good.)
Agrees ==
  /\ portal.room # "none"
  /\ portal.name = group.name /\ portal.topic = group.topic
  /\ portal.topicID = group.topic /\ portal.photo = group.photo
  /\ portal.eventsPL = (IF group.isAnnounce /\ ~IsDefaultSubGroup THEN adminPL ELSE defaultPL)
  /\ {portal.metaPL, portal.timerPL} = {IF group.isLocked THEN adminPL ELSE defaultPL}
  /\ portal.joined = (group.role # "none")
  /\ portal.memberPL = adminPL <=> group.role = "admin"
  /\ portal.memberPL = superAdminPL <=> group.role = "superadmin"
  /\ portal.disappear = group.disappearingTimer
  /\ portal.muted = group.muted
  /\ group.pinned => portal.tag = "pinned"
  /\ group.archived /\ ~group.pinned => portal.tag = "archived"

\* Whatever the bridge missed, applied late or could not do, the room of a
\* group in which messages go on gets to show the group as it is.
Settles == <>[](group.at = "here" => Agrees)

\* A topic set in the room takes the place of the topic the room showed, and
\* never of one that the room has not seen, if the portal knows a topic's ID.
\* (CreateGroup sets the topic of its group whatever it is by then.)
NoTopicOverwritten ==
  [][portal.topicID # 0 /\ portal'.topic = topics' /\ topics' # topics /\ ~At("topic")
       => portal.topic = group.topic]_vars

\* A group that was created for a room is shown there as it was created,
\* whenever WhatsApp's own account of the creation comes.
CreatedForRoom ==
  At("done") /\ creating.forRoom /\ changes = 0 /\ faults = 0
    => portal.room = "user" /\ Agrees
=============================================================================
