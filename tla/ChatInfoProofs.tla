--------------------------- MODULE ChatInfoProofs ---------------------------
(***************************************************************************)
(* Theorems about ChatInfo, for any topics and bounds: types, topics that  *)
(* nobody overwrites unseen, what the room of a created group shows, and   *)
(* what a resync repairs.  (That there is one in the end is liveness, and  *)
(* left to TLC.)                                                           *)
(***************************************************************************)
EXTENDS ChatInfo, SequenceTheorems, TLAPS

USE ChatInfoAssumption

-----------------------------------------------------------------------------
\* What is written to the portal leaves it whole.

LEMMA PhotoType ==
  ASSUME NEW p \in Portals, NEW photo \in 0..1
  PROVE  [p EXCEPT !.photo = photo] \in Portals
BY DEF Portals

LEMMA RoomType ==
  ASSUME NEW p \in Portals, NEW room \in {"none", "own", "user"}
  PROVE  [p EXCEPT !.room = room] \in Portals
BY DEF Portals

LEMMA TopicIDType ==
  ASSUME NEW p \in Portals, NEW id \in Topics
  PROVE  setTopicID(id, p) \in Portals
BY DEF Portals, setTopicID

LEMMA GroupInfoType ==
  ASSUME NEW g \in Groups, NEW p \in Portals
  PROVE  wrapGroupInfo(g, p) \in Portals
<1> DEFINE eventsPL == IF g.isAnnounce /\ ~IsDefaultSubGroup THEN adminPL ELSE defaultPL
           metaPL   == IF g.isLocked THEN adminPL ELSE defaultPL
           memberPL == CASE g.role = "superadmin" -> superAdminPL
                         [] g.role = "admin" -> adminPL
                         [] OTHER -> defaultPL
<1>1. /\ g.name \in 0..1 /\ g.topic \in Topics /\ g.disappearingTimer \in 0..1
      /\ g.role \in {"none", "member", "admin", "superadmin"}
  BY DEF Groups
<1>2. eventsPL \in {defaultPL, adminPL} /\ metaPL \in {defaultPL, adminPL}
  OBVIOUS
<1>3. memberPL \in Levels
  BY <1>1 DEF Levels
<1>4. (g.role # "none") \in BOOLEAN
  OBVIOUS
<1> HIDE DEF eventsPL, metaPL, memberPL
<1>5. [p EXCEPT !.name = g.name, !.topic = g.topic,
         !.eventsPL = eventsPL, !.metaPL = metaPL, !.timerPL = metaPL,
         !.joined = (g.role # "none"), !.memberPL = memberPL,
         !.disappear = g.disappearingTimer] \in Portals
  BY <1>1, <1>2, <1>3, <1>4 DEF Portals
<1> QED BY <1>5 DEF wrapGroupInfo, eventsPL, metaPL, memberPL

LEMMA UpdateInfoType ==
  ASSUME NEW g \in Groups, NEW p \in Portals
  PROVE  UpdateInfo(g, p) \in Portals
<1>1. g.topic \in Topics
  BY DEF Groups
<1> QED BY <1>1, GroupInfoType, TopicIDType DEF UpdateInfo

LEMMA ChatInfoType ==
  ASSUME TypeOK, NEW photo \in 0..1
  PROVE  GetChatInfo(photo) \in Portals
<1> DEFINE p == UpdateInfo(group, [portal EXCEPT !.photo = photo])
<1>1. p \in Portals /\ group \in Groups
  BY PhotoType, UpdateInfoType DEF TypeOK
<1>2. group.muted \in BOOLEAN
  BY <1>1 DEF Groups
<1> HIDE DEF p
<1>3. applyChatSettings(group, p) \in Portals
  BY <1>1, <1>2 DEF applyChatSettings, Portals
<1> QED BY <1>3 DEF GetChatInfo, p

LEMMA GroupChangeType ==
  ASSUME NEW type \in GroupInfo, NEW g \in Groups, NEW p \in Portals
  PROVE  wrapGroupInfoChange(type, g, p) \in Portals
<1>1. g.name \in 0..1 /\ g.topic \in Topics /\ g.disappearingTimer \in 0..1
  BY DEF Groups
<1>2. CASE type = "topic"
  <2>1. [p EXCEPT !.topic = g.topic] \in Portals
    BY <1>1 DEF Portals
  <2> QED BY <1>1, <1>2, <2>1, TopicIDType DEF wrapGroupInfoChange
<1>3. CASE type # "topic"
  BY <1>1, <1>3 DEF wrapGroupInfoChange, GroupInfo, Portals, Levels
<1> QED BY <1>2, <1>3

LEMMA LocalChangeType ==
  ASSUME NEW type \in LocalInfo, NEW g \in Groups, NEW p \in Portals
  PROVE  handleWAUserLocalPortalInfo(type, g, p) \in Portals
<1>1. g.muted \in BOOLEAN
  BY DEF Groups
<1> QED BY <1>1 DEF handleWAUserLocalPortalInfo, LocalInfo, Portals

LEMMA FetchPhotoType ==
  ASSUME TypeOK, NEW photo, FetchPhoto(photo)
  PROVE  faults' \in 0..MaxFaults
BY DEF TypeOK, FetchPhoto, Fault

LEMMA FaultType ==
  ASSUME TypeOK, Fault \/ UNCHANGED faults
  PROVE  faults' \in 0..MaxFaults
BY DEF TypeOK, Fault

LEMMA EventType ==
  ASSUME TypeOK, NEW type \in EventTypes, Handle(type)
  PROVE  /\ events' \in Seq(Events)
         /\ Head(events).type = type /\ Head(events).group \in Groups
<1>1. events \in Seq(Events) /\ events # <<>>
  BY DEF TypeOK, Handle
<1>2. Head(events) \in Events /\ Tail(events) \in Seq(Events)
  BY <1>1
<1> QED BY <1>2 DEF Handle, Events

-----------------------------------------------------------------------------
\* The actions.

LEMMA ToldType ==
  ASSUME TypeOK, NEW type \in EventTypes, NEW g \in Groups,
         Told(type, g) \/ UNCHANGED events
  PROVE  events' \in Seq(Events)
<1>1. [type |-> type, group |-> g] \in Events
  BY DEF Events
<1> QED BY <1>1 DEF Told, TypeOK

LEMMA ElsewhereType ==
  ASSUME TypeOK, topics' \in Topics, NEW type \in EventTypes, NEW g \in Groups,
         Elsewhere(type, g)
  PROVE  TypeOK'
<1>1. events' \in Seq(Events)
  BY ToldType DEF Elsewhere
<1>2. changes' \in 0..MaxUpsets
  BY DEF Elsewhere, Change, TypeOK
<1> QED BY <1>1, <1>2 DEF Elsewhere, TypeOK

LEMMA RequestedType ==
  ASSUME TypeOK, topics' \in Topics, NEW type \in EventTypes, NEW g \in Groups,
         NEW p \in Portals, Requested(type, g, p)
  PROVE  TypeOK'
<1>1. events' \in Seq(Events)
  BY ToldType DEF Requested
<1>2. changes' \in 0..MaxUpsets
  BY DEF Requested, Change, TypeOK
<1> QED BY <1>1, <1>2 DEF Requested, TypeOK

LEMMA ShownType ==
  ASSUME TypeOK, topics' \in Topics, NEW type \in EventTypes, NEW g \in Groups,
         NEW p \in Portals, Shown(type, g, p)
  PROVE  TypeOK'
<1>1. CASE Requested(type, g, p) BY <1>1, RequestedType
<1>2. CASE ~Requested(type, g, p)
  <2>1. faults' \in 0..MaxFaults
    BY <1>2, FaultType DEF Shown
  <2> QED BY <1>2, <2>1 DEF Shown, TypeOK
<1> QED BY <1>1, <1>2

LEMMA GroupStepType ==
  ASSUME TypeOK, ChangeGroup \/ ChangeTopic \/ JoinGroup
  PROVE  TypeOK'
<1>1. CASE ChangeGroup
  <2>1. topics' \in Topics
    BY <1>1 DEF ChangeGroup, TypeOK
  <2>2. PICK type \in EventTypes, g \in Groups : Elsewhere(type, g)
    <3>1. group \in Groups
      BY DEF TypeOK
    <3>2. /\ [group EXCEPT !.name = 1 - @] \in Groups
          /\ [group EXCEPT !.photo = 1 - @] \in Groups
          /\ [group EXCEPT !.disappearingTimer = 1 - @] \in Groups
      BY <3>1 DEF Groups
    <3>6. /\ [group EXCEPT !.isAnnounce = ~@] \in Groups
          /\ [group EXCEPT !.isLocked = ~@] \in Groups
      BY <3>1 DEF Groups
    <3>3. /\ [group EXCEPT !.role = "none"] \in Groups
          /\ [group EXCEPT !.role = "member"] \in Groups
          /\ [group EXCEPT !.role = "admin"] \in Groups
          /\ [group EXCEPT !.at = "gone"] \in Groups
      BY <3>1 DEF Groups
    <3>5. /\ [group EXCEPT !.muted = ~@] \in Groups
          /\ [group EXCEPT !.pinned = ~@] \in Groups
          /\ [group EXCEPT !.archived = ~@] \in Groups
      BY <3>1 DEF Groups
    <3>4. {"name", "picture", "announce", "locked", "ephemeral", "join", "leave", "promote",
           "demote", "mute", "pin", "archive", "delete"} \subseteq EventTypes
      BY DEF EventTypes, GroupInfo, LocalInfo
    <3> QED BY <1>1, <3>2, <3>3, <3>4, <3>5, <3>6 DEF ChangeGroup
  <2> QED BY <2>1, <2>2, ElsewhereType
<1>2. CASE ChangeTopic
  <2>1. topics' \in Topics
    BY <1>2 DEF ChangeTopic, TypeOK, Topics
  <2>2. [group EXCEPT !.topic = topics'] \in Groups
    BY <2>1 DEF TypeOK, Groups
  <2> QED BY <1>2, <2>1, <2>2, ElsewhereType DEF ChangeTopic, EventTypes, GroupInfo
<1>3. CASE JoinGroup
  <2>1. topics' \in Topics /\ group' \in Groups
    <3>1. NoGroup \in Groups
      BY DEF NoGroup, Groups, Topics
    <3>2. \A n \in Topics, role \in {"member", "superadmin"} :
            [NoGroup EXCEPT !.at = "here", !.topic = n, !.role = role] \in Groups
      BY <3>1 DEF Groups
    <3> QED BY <1>3, <3>2 DEF JoinGroup
  <2>2. events' \in Seq(Events)
    BY <1>3, <2>1, ToldType DEF JoinGroup, EventTypes
  <2> QED BY <1>3, <2>1, <2>2 DEF JoinGroup, TypeOK
<1> QED BY <1>1, <1>2, <1>3

LEMMA PortalStepType ==
  ASSUME TypeOK, PortalNext
  PROVE  TypeOK'
<1>1. CASE JoinedGroup
  <2>1. events' \in Seq(Events) /\ Head(events).group \in Groups
    BY <1>1, EventType DEF JoinedGroup, EventTypes
  <2>2. portal' \in Portals /\ faults' \in 0..MaxFaults /\ createDedup' \in BOOLEAN
    <3>1. CASE createDedup
      BY <1>1, <3>1 DEF JoinedGroup, TypeOK
    <3>2. CASE ~createDedup
      <4> DEFINE Entered(photo) ==
            [portal EXCEPT !.photo = photo, !.room = IF @ = "none" THEN "own" ELSE @]
      <4>1. \A photo \in 0..1 : Entered(photo) \in Portals
        BY DEF TypeOK, Portals
      <4> HIDE DEF Entered
      <4>2. PICK photo \in 0..1 :
              FetchPhoto(photo) /\ portal' = UpdateInfo(Head(events).group, Entered(photo))
        BY <1>1, <3>2 DEF JoinedGroup, Entered
      <4>3. portal' \in Portals /\ faults' \in 0..MaxFaults
        BY <2>1, <4>1, <4>2, UpdateInfoType, FetchPhotoType
      <4>4. createDedup' = createDedup
        BY <1>1, <3>2 DEF JoinedGroup
      <4> QED BY <4>3, <4>4 DEF TypeOK
    <3> QED BY <3>1, <3>2
  <2> QED BY <1>1, <2>1, <2>2 DEF JoinedGroup, TypeOK
<1>2. CASE PictureUpdate
  <2>1. events' \in Seq(Events)
    BY <1>2, EventType DEF PictureUpdate, EventTypes
  <2>2. portal' \in Portals /\ faults' \in 0..MaxFaults
    BY <1>2, PhotoType, FetchPhotoType, FaultType DEF PictureUpdate, TypeOK
  <2> QED BY <1>2, <2>1, <2>2 DEF PictureUpdate, TypeOK
<1>3. CASE ChatDelete
  <2>1. events' \in Seq(Events)
    BY <1>3, EventType DEF ChatDelete, EventTypes
  <2>2. NoPortal \in Portals
    BY DEF NoPortal, Portals, Topics, Levels
  <2> QED BY <1>3, <2>1, <2>2 DEF ChatDelete, TypeOK
<1>4. CASE ChatResync
  <2>1. events' \in Seq(Events)
    BY <1>4, EventType DEF ChatResync, EventTypes
  <2>2. portal' \in Portals /\ faults' \in 0..MaxFaults /\ lastSync' \in BOOLEAN
    BY <1>4, ChatInfoType, FetchPhotoType, FaultType DEF ChatResync, TypeOK
  <2> QED BY <1>4, <2>1, <2>2 DEF ChatResync, TypeOK
<1>5. ASSUME NEW type \in GroupInfo, GroupInfoChange(type) PROVE TypeOK'
  <2>1. events' \in Seq(Events) /\ Head(events).group \in Groups
    BY <1>5, EventType DEF GroupInfoChange, EventTypes
  <2> DEFINE Changed(p) == wrapGroupInfoChange(type, Head(events).group, p)
  <2>2. \A p \in Portals : Changed(p) \in Portals
    BY <2>1, GroupChangeType
  <2>3. \A photo \in 0..1 : [GetChatInfo(photo) EXCEPT !.room = "own"] \in Portals
    BY ChatInfoType, RoomType
  <2>4. portal' \in Portals /\ faults' \in 0..MaxFaults /\ lastSync' \in BOOLEAN
    <3> HIDE DEF Changed
    <3>1. \/ portal' = Changed(portal) /\ UNCHANGED <<lastSync, faults>>
          \/ /\ lastSync' = TRUE
             /\ \E photo \in 0..1 :
                  FetchPhoto(photo) /\ portal' = Changed([GetChatInfo(photo) EXCEPT !.room = "own"])
          \/ UNCHANGED <<portal, lastSync>> /\ (Fault \/ UNCHANGED faults)
      BY <1>5 DEF GroupInfoChange, Changed
    <3> QED BY <3>1, <2>2, <2>3, FetchPhotoType, FaultType DEF TypeOK
  <2> QED BY <1>5, <2>1, <2>4 DEF GroupInfoChange, TypeOK
<1>6. ASSUME NEW type \in LocalInfo, UserLocalPortalInfo(type) PROVE TypeOK'
  <2>1. events' \in Seq(Events) /\ Head(events).group \in Groups
    BY <1>6, EventType DEF UserLocalPortalInfo, EventTypes
  <2>2. portal' \in Portals
    BY <1>6, <2>1, LocalChangeType DEF UserLocalPortalInfo, TypeOK
  <2> QED BY <1>6, <2>1, <2>2 DEF UserLocalPortalInfo, TypeOK
<1> QED BY <1>1, <1>2, <1>3, <1>4, <1>5, <1>6 DEF PortalNext

LEMMA QueueStepType ==
  ASSUME TypeOK, Age \/ Message \/ ViewingChat \/ ResyncQueued
  PROVE  TypeOK'
<1>1. CASE Age
  BY <1>1 DEF Age, TypeOK
<1>2. CASE Message
  <2>1. \A photo \in 0..1 : [GetChatInfo(photo) EXCEPT !.room = "own"] \in Portals
    BY ChatInfoType, RoomType
  <2>2. /\ portal' \in Portals /\ faults' \in 0..MaxFaults
        /\ lastSync' \in BOOLEAN /\ queued' \in BOOLEAN
    BY <1>2, <2>1, FetchPhotoType DEF Message, TypeOK
  <2> QED BY <1>2, <2>2 DEF Message, TypeOK
<1>3. CASE ViewingChat
  BY <1>3 DEF ViewingChat, TypeOK
<1>4. CASE ResyncQueued
  <2>1. [type |-> "resync", group |-> group] \in Events
    BY DEF TypeOK, Events, EventTypes
  <2>2. events' \in Seq(Events)
    BY <1>4, <2>1 DEF ResyncQueued, TypeOK
  <2>3. faults' \in 0..MaxFaults
    BY <1>4, FaultType DEF ResyncQueued
  <2> QED BY <1>4, <2>2, <2>3 DEF ResyncQueued, TypeOK
<1> QED BY <1>1, <1>2, <1>3, <1>4

LEMMA RoomStepType ==
  ASSUME TypeOK, RoomSetting \/ RoomTopic \/ RoomState
  PROVE  TypeOK'
<1>1. {"name", "picture", "ephemeral", "topic", "join", "leave", "mute", "pin"}
        \subseteq EventTypes
  BY DEF EventTypes, GroupInfo, LocalInfo
<1>2. group \in Groups /\ portal \in Portals
  BY DEF TypeOK
<1>3. CASE RoomSetting
  <2>1. topics' \in Topics
    BY <1>3 DEF RoomSetting, TypeOK
  <2>2. /\ [group EXCEPT !.name = 1 - portal.name] \in Groups
        /\ [group EXCEPT !.photo = 1 - portal.photo] \in Groups
        /\ [group EXCEPT !.disappearingTimer = 1 - portal.disappear] \in Groups
    BY <1>2 DEF Groups, Portals
  <2>3. /\ [portal EXCEPT !.name = 1 - @] \in Portals
        /\ [portal EXCEPT !.photo = 1 - @] \in Portals
        /\ [portal EXCEPT !.disappear = 1 - @] \in Portals
    BY <1>2 DEF Portals
  <2> QED BY <1>1, <1>3, <2>1, <2>2, <2>3, RequestedType DEF RoomSetting
<1>4. CASE RoomTopic
  <2>1. topics' \in Topics
    BY <1>4 DEF RoomTopic, TypeOK, Topics
  <2>2. /\ [group EXCEPT !.topic = topics'] \in Groups
        /\ [portal EXCEPT !.topic = topics', !.topicID = topics'] \in Portals
    BY <1>2, <2>1 DEF Groups, Portals
  <2> QED BY <1>1, <1>4, <2>1, <2>2, RequestedType DEF RoomTopic
<1>5. CASE RoomState
  <2>1. topics' \in Topics
    BY <1>5 DEF RoomState, TypeOK
  <2>2. PICK type \in EventTypes, g \in Groups, p \in Portals : Shown(type, g, p)
    <3> DEFINE pinned == portal.tag = "pinned"
    <3>1. /\ [group EXCEPT !.role = IF @ = "none" THEN "member" ELSE @] \in Groups
          /\ [group EXCEPT !.role = "none"] \in Groups
          /\ [group EXCEPT !.muted = ~portal.muted] \in Groups
          /\ [group EXCEPT !.pinned = ~pinned] \in Groups
      BY <1>2 DEF Groups, Portals
    <3>2. /\ [portal EXCEPT !.joined = TRUE] \in Portals
          /\ [portal EXCEPT !.joined = FALSE] \in Portals
          /\ [portal EXCEPT !.muted = ~@] \in Portals
          /\ [portal EXCEPT !.tag = IF pinned THEN "none" ELSE "pinned"] \in Portals
      BY <1>2 DEF Portals
    <3>3. \/ Shown("join", [group EXCEPT !.role = IF @ = "none" THEN "member" ELSE @],
                   [portal EXCEPT !.joined = TRUE])
          \/ Shown("leave", [group EXCEPT !.role = "none"], [portal EXCEPT !.joined = FALSE])
          \/ Shown("mute", [group EXCEPT !.muted = ~portal.muted], [portal EXCEPT !.muted = ~@])
          \/ Shown("pin", [group EXCEPT !.pinned = ~pinned],
                   [portal EXCEPT !.tag = IF pinned THEN "none" ELSE "pinned"])
      BY <1>5 DEF RoomState
    <3> HIDE DEF pinned
    <3> QED BY <1>1, <3>1, <3>2, <3>3
  <2> QED BY <2>1, <2>2, ShownType
<1> QED BY <1>3, <1>4, <1>5

LEMMA CreateStepType ==
  ASSUME TypeOK, AddKey \/ CreateNext
  PROVE  TypeOK'
<1> DEFINE Steps == {"requested", "portal", "room", "photo", "topic", "done"}
<1>1. Idle \in Creations
  BY DEF Creations
<1>2. ASSUME NEW step \in Steps, NEW forRoom \in BOOLEAN, NEW g \in Groups
      PROVE  [at |-> step, forRoom |-> forRoom, group |-> g] \in Creations
  BY DEF Creations
<1>3. ASSUME creating # Idle
      PROVE  /\ creating = [at |-> creating.at, forRoom |-> creating.forRoom,
                            group |-> creating.group]
             /\ creating.forRoom \in BOOLEAN /\ creating.group \in Groups
  BY <1>3 DEF TypeOK, Creations
<1>4. NoGroup \in Groups
  BY DEF NoGroup, Groups, Topics
<1>5. CASE AddKey
  <2>1. creating' \in Creations /\ createDedup' \in BOOLEAN
    BY <1>2, <1>4, <1>5 DEF AddKey
  <2> QED BY <1>5, <2>1 DEF AddKey, TypeOK
<1>6. ASSUME CreateNext PROVE creating # Idle
  <2>1. creating.at \in Steps
    BY <1>6 DEF CreateNext, RequestGroup, FindPortal, UpdateMatrixRoomID, SetGroupPhoto,
                SetGroupTopic, CreateRoom, At
  <2>2. Idle.at \notin Steps
    BY DEF Idle
  <2> QED BY <2>1, <2>2
<1>7. ASSUME creating # Idle, NEW step \in Steps
      PROVE  [creating EXCEPT !.at = step] \in Creations
  BY <1>3, <1>7 DEF Creations
<1>8. CASE RequestGroup
  <2>1. creating # Idle
    BY <1>6, <1>8 DEF CreateNext
  <2>2. CASE \E timer \in 0..1, role \in {"none", "member"} :
               group' = [NoGroup EXCEPT !.at = "here", !.disappearingTimer = timer, !.role = role]
    <3>1. group' \in Groups
      BY <1>4, <2>2 DEF Groups
    <3>2. [creating EXCEPT !.at = "portal", !.group = group'] \in Creations
      BY <1>3, <2>1, <3>1 DEF Creations
    <3>3. Told("joined-group", group') \/ UNCHANGED events
      BY <1>8 DEF RequestGroup
    <3>4. events' \in Seq(Events)
      BY <3>1, <3>3, ToldType DEF EventTypes
    <3>5. creating' \in Creations /\ faults' \in 0..MaxFaults /\ createDedup' \in BOOLEAN
      BY <1>1, <1>8, <3>2, FaultType DEF RequestGroup, TypeOK
    <3> QED BY <1>8, <3>1, <3>4, <3>5 DEF RequestGroup, TypeOK
  <2>3. CASE Fault /\ creating' = Idle /\ createDedup' = FALSE /\ UNCHANGED <<group, events>>
    BY <1>1, <1>8, <2>3, FaultType DEF RequestGroup, TypeOK
  <2> QED BY <1>8, <2>2, <2>3 DEF RequestGroup
<1>9. CASE FindPortal
  <2>1. creating # Idle
    BY <1>6, <1>9 DEF CreateNext
  <2>2. creating' \in Creations /\ faults' \in 0..MaxFaults
    BY <1>1, <1>7, <1>9, <2>1, FaultType DEF FindPortal
  <2> QED BY <1>9, <2>2 DEF FindPortal, TypeOK
<1>10. CASE UpdateMatrixRoomID
  <2>1. creating # Idle /\ creating.group \in Groups
    BY <1>3, <1>6, <1>10 DEF CreateNext
  <2>2. \A photo \in 0..1 : [portal EXCEPT !.room = "user", !.photo = photo] \in Portals
    BY DEF TypeOK, Portals
  <2>3. creating' \in Creations /\ faults' \in 0..MaxFaults /\ portal' \in Portals
    BY <1>1, <1>7, <1>10, <2>1, <2>2, FaultType, FetchPhotoType, UpdateInfoType
       DEF UpdateMatrixRoomID, TypeOK
  <2> QED BY <1>10, <2>3 DEF UpdateMatrixRoomID, TypeOK
<1>11. CASE SetGroupPhoto
  <2>1. creating' \in Creations
    BY <1>6, <1>7, <1>11 DEF CreateNext, SetGroupPhoto
  <2>2. group' \in Groups /\ portal' \in Portals
    <3>1. group \in Groups /\ portal \in Portals
      BY DEF TypeOK
    <3>2. [group EXCEPT !.photo = 1] \in Groups
      BY <3>1 DEF Groups
    <3>3. [portal EXCEPT !.photo = 1] \in Portals
      BY <3>1 DEF Portals
    <3> QED BY <1>11, <3>1, <3>2, <3>3 DEF SetGroupPhoto
  <2>3. Told("picture", group') \/ UNCHANGED events
    BY <1>11 DEF SetGroupPhoto
  <2>4. events' \in Seq(Events)
    BY <2>2, <2>3, ToldType DEF EventTypes
  <2> QED BY <1>11, <2>1, <2>2, <2>4 DEF SetGroupPhoto, TypeOK
<1>12. CASE SetGroupTopic
  <2>1. creating # Idle
    BY <1>6, <1>12 DEF CreateNext
  <2>2. CASE topics < MaxTopic /\ topics' = topics + 1
    <3>1. topics' \in Topics
      BY <2>2 DEF TypeOK, Topics
    <3>2. /\ [group EXCEPT !.topic = topics'] \in Groups
          /\ [portal EXCEPT !.topic = topics', !.topicID = topics'] \in Portals
      BY <3>1 DEF TypeOK, Groups, Portals
    <3> DEFINE g == [creating.group EXCEPT !.topic = topics']
    <3>8. g \in Groups
      BY <1>3, <2>1, <3>1 DEF Groups
    <3> HIDE DEF g
    <3>3. [creating EXCEPT !.at = "done", !.group = g] \in Creations
      BY <1>3, <2>1, <3>8 DEF Creations
    <3>4. topics' # topics
      BY <2>2 DEF TypeOK, Topics
    <3>5. group' \in Groups /\ portal' \in Portals /\ creating' \in Creations
      BY <1>12, <3>2, <3>3, <3>4 DEF SetGroupTopic, g
    <3>6. Told("topic", group') \/ UNCHANGED events
      BY <1>12 DEF SetGroupTopic
    <3>7. events' \in Seq(Events)
      BY <3>5, <3>6, ToldType DEF EventTypes, GroupInfo
    <3> QED BY <1>12, <3>1, <3>5, <3>7 DEF SetGroupTopic, TypeOK
  <2>3. CASE creating' = [creating EXCEPT !.at = "done"]
             /\ UNCHANGED <<group, portal, events, topics>>
    <3>1. creating' \in Creations
      BY <1>7, <2>1, <2>3
    <3> QED BY <1>12, <2>3, <3>1 DEF SetGroupTopic, TypeOK
  <2> QED BY <1>12, <2>2, <2>3 DEF SetGroupTopic
<1>13. CASE CreateRoom
  <2>1. creating # Idle /\ creating.group \in Groups
    BY <1>3, <1>6, <1>13 DEF CreateNext
  <2>2. \A photo \in 0..1 : [portal EXCEPT !.room = "own", !.photo = photo] \in Portals
    BY DEF TypeOK, Portals
  <2>3. 0 \in Topics
    BY DEF Topics
  <2>4. portal' \in Portals /\ faults' \in 0..MaxFaults
    BY <1>13, <2>1, <2>2, <2>3, FetchPhotoType, GroupInfoType, TopicIDType
       DEF CreateRoom, TypeOK
  <2> QED BY <1>1, <1>13, <2>4 DEF CreateRoom, TypeOK
<1> QED BY <1>5, <1>8, <1>9, <1>10, <1>11, <1>12, <1>13 DEF CreateNext

LEMMA RestartType ==
  ASSUME TypeOK, Restart
  PROVE  TypeOK'
<1>1. events' \in Seq(Events)
  <2>1. PICK first \in 1..Len(events)+1 : events' = SubSeq(events, first, Len(events))
    BY DEF Restart
  <2>2. events \in Seq(Events)
    BY DEF TypeOK
  <2> QED BY <2>1, <2>2, SubSeqProperties
<1>2. faults' \in 0..MaxFaults /\ Idle \in Creations
  BY FaultType DEF Restart, Creations
<1> QED BY <1>1, <1>2 DEF Restart, TypeOK

\* Whatever the group, the room, failures and restarts do to the portal, its
\* row and what the room shows stay whole, events are of the known kinds, and
\* CreateGroup is at one of its steps.
THEOREM TypeCorrect == Spec => []TypeOK
<1>1. Init => TypeOK
  <2>1. NoGroup \in Groups /\ NoPortal \in Portals
    BY DEF NoGroup, Groups, NoPortal, Portals, Topics, Levels
  <2>2. Idle \in Creations /\ <<>> \in Seq(Events)
    BY DEF Creations
  <2>3. 0 \in Topics /\ 0 \in 0..MaxUpsets /\ 0 \in 0..MaxFaults
    BY DEF Topics
  <2> QED BY <2>1, <2>2, <2>3 DEF Init, TypeOK
<1>2. TypeOK /\ [Next]_vars => TypeOK'
  <2> SUFFICES ASSUME TypeOK, [Next]_vars PROVE TypeOK'
    OBVIOUS
  <2>1. CASE UNCHANGED vars
    BY <2>1 DEF vars, TypeOK
  <2>2. CASE Next
    BY <2>2, GroupStepType, PortalStepType, QueueStepType, RoomStepType, CreateStepType,
       RestartType DEF Next
  <2> QED BY <2>1, <2>2
<1> QED BY <1>1, <1>2, PTL DEF Spec

-----------------------------------------------------------------------------
(* Topics.                                                                 *)

\* No topic is one that nobody has set yet, wherever it is stored.
Numbered ==
  /\ portal.topic <= topics /\ group.topic <= topics
  /\ creating # Idle => creating.group.topic <= topics
  /\ \A i \in DOMAIN events : events[i].group.topic <= topics

\* Nothing is known of a group before it is.
Unborn ==
  group.at = "none" =>
    /\ portal = NoPortal /\ events = <<>> /\ topics = 0 /\ ~queued
    /\ creating.at \in {"idle", "requested"}

\* Only CreateGroup gives a portal without a room a topic; CreateRoom, which
\* does not set the ID, finds the portal with the topic it was given.
Unshown ==
  portal.room = "none" /\ portal.topicID # 0 =>
    /\ group.at # "none"
    /\ \/ creating.at = "idle"
       \/ creating.at = "done" /\ creating.group.topic = portal.topicID

\* An ID that the portal knows is that of its topic.
TopicInv ==
  /\ portal.topicID # 0 => portal.topicID = portal.topic
  /\ Numbered /\ Unborn /\ Unshown
  /\ creating.at = "requested" => group.at = "none"

SameTopic(p, q) == q.topic = p.topic /\ q.topicID = p.topicID /\ q.room = p.room
HasTopic(q, t)  == q.topic = t /\ q.topicID = t

\* UpdateInfo writes what wrapGroupInfo has of the group, and its topic's ID.
LEMMA UpdateInfoShows ==
  ASSUME NEW g \in Groups, NEW p \in Portals
  PROVE  LET q == UpdateInfo(g, p)
         IN /\ HasTopic(q, g.topic) /\ q.name = g.name
            /\ q.eventsPL = (IF g.isAnnounce /\ ~IsDefaultSubGroup THEN adminPL ELSE defaultPL)
            /\ {q.metaPL, q.timerPL} = {IF g.isLocked THEN adminPL ELSE defaultPL}
            /\ q.joined = (g.role # "none")
            /\ q.memberPL = adminPL <=> g.role = "admin"
            /\ q.memberPL = superAdminPL <=> g.role = "superadmin"
            /\ q.disappear = g.disappearingTimer
            /\ q.room = p.room /\ q.photo = p.photo /\ q.muted = p.muted /\ q.tag = p.tag
<1> DEFINE eventsPL == IF g.isAnnounce /\ ~IsDefaultSubGroup THEN adminPL ELSE defaultPL
           metaPL   == IF g.isLocked THEN adminPL ELSE defaultPL
           memberPL == CASE g.role = "superadmin" -> superAdminPL
                         [] g.role = "admin" -> adminPL
                         [] OTHER -> defaultPL
           joined   == g.role # "none"
           w == [p EXCEPT !.name = g.name, !.topic = g.topic,
                   !.eventsPL = eventsPL, !.metaPL = metaPL, !.timerPL = metaPL,
                   !.joined = joined, !.memberPL = memberPL,
                   !.disappear = g.disappearingTimer]
<1>1. /\ memberPL = adminPL <=> g.role = "admin"
      /\ memberPL = superAdminPL <=> g.role = "superadmin"
  BY DEF adminPL, superAdminPL, defaultPL
<1>2. w = wrapGroupInfo(g, p)
  BY DEF wrapGroupInfo
<1>3. w \in Portals
  BY <1>2, GroupInfoType
<1> HIDE DEF eventsPL, metaPL, memberPL, joined
<1>4. /\ w.topic = g.topic /\ w.name = g.name /\ w.eventsPL = eventsPL
      /\ w.metaPL = metaPL /\ w.timerPL = metaPL /\ w.joined = joined
      /\ w.memberPL = memberPL /\ w.disappear = g.disappearingTimer
      /\ w.room = p.room /\ w.photo = p.photo /\ w.muted = p.muted /\ w.tag = p.tag
  BY DEF Portals
<1> HIDE DEF w
<1>5. UpdateInfo(g, p) = [w EXCEPT !.topicID = g.topic]
  BY <1>2, <1>4 DEF UpdateInfo, setTopicID
<1> DEFINE q == UpdateInfo(g, p)
<1>6. /\ q.topic = w.topic /\ q.topicID = g.topic /\ q.name = w.name
      /\ q.eventsPL = w.eventsPL /\ q.metaPL = w.metaPL /\ q.timerPL = w.timerPL
      /\ q.joined = w.joined /\ q.memberPL = w.memberPL /\ q.disappear = w.disappear
      /\ q.room = w.room /\ q.photo = w.photo /\ q.muted = w.muted /\ q.tag = w.tag
  BY <1>3, <1>5 DEF Portals
<1> HIDE DEF q
<1>7. /\ HasTopic(q, g.topic) /\ q.name = g.name
      /\ q.eventsPL = eventsPL /\ {q.metaPL, q.timerPL} = {metaPL}
      /\ q.joined = joined
      /\ q.memberPL = adminPL <=> g.role = "admin"
      /\ q.memberPL = superAdminPL <=> g.role = "superadmin"
      /\ q.disappear = g.disappearingTimer
      /\ q.room = p.room /\ q.photo = p.photo /\ q.muted = p.muted /\ q.tag = p.tag
  BY <1>1, <1>4, <1>6 DEF HasTopic
<1> QED BY <1>7 DEF q, eventsPL, metaPL, joined

\* GetChatInfo adds the user's own settings.
LEMMA GetChatInfoShows ==
  ASSUME TypeOK, NEW photo \in 0..1, NEW room \in {"none", "own", "user"}
  PROVE  LET q == GetChatInfo(photo)
             p == [q EXCEPT !.room = room]
         IN /\ HasTopic(q, group.topic) /\ q.room = portal.room
            /\ HasTopic(p, group.topic) /\ p.room = room
            /\ q.muted = group.muted /\ p.muted = group.muted
<1> DEFINE u == UpdateInfo(group, [portal EXCEPT !.photo = photo])
           q == applyChatSettings(group, u)
<1>1. /\ group \in Groups /\ [portal EXCEPT !.photo = photo] \in Portals
      /\ [portal EXCEPT !.photo = photo].room = portal.room
  BY PhotoType DEF TypeOK, Portals
<1>2. u \in Portals /\ HasTopic(u, group.topic) /\ u.room = portal.room
  BY <1>1, UpdateInfoType, UpdateInfoShows
<1>3. GetChatInfo(photo) = q
  BY DEF GetChatInfo
<1>4. q \in Portals
  BY <1>3, ChatInfoType
<1> HIDE DEF u
<1>5. q.topic = u.topic /\ q.topicID = u.topicID /\ q.room = u.room /\ q.muted = group.muted
  BY <1>2 DEF applyChatSettings, Portals
<1> HIDE DEF q
<1>6. HasTopic(q, group.topic) /\ q.room = portal.room
  BY <1>2, <1>5 DEF HasTopic
<1>7. LET p == [q EXCEPT !.room = room]
      IN HasTopic(p, group.topic) /\ p.room = room /\ p.muted = q.muted
  BY <1>4, <1>6 DEF HasTopic, Portals
<1> QED BY <1>3, <1>5, <1>6, <1>7

\* Of the group's changes, only a new topic changes the topic.
LEMMA GroupChangeTopic ==
  ASSUME NEW type \in GroupInfo, NEW g \in Groups, NEW p \in Portals
  PROVE  LET q == wrapGroupInfoChange(type, g, p)
         IN /\ q.room = p.room
            /\ IF type = "topic" THEN HasTopic(q, g.topic) ELSE SameTopic(p, q)
<1>1. CASE type = "topic"
  <2> DEFINE r == [p EXCEPT !.topic = g.topic]
  <2>1. r \in Portals /\ r.topic = g.topic /\ r.room = p.room
    BY DEF Portals, Groups
  <2>2. wrapGroupInfoChange(type, g, p) = [r EXCEPT !.topicID = g.topic]
    BY <1>1, <2>1 DEF wrapGroupInfoChange, setTopicID
  <2> HIDE DEF r
  <2> QED BY <1>1, <2>1, <2>2 DEF HasTopic, Portals
<1>2. CASE type # "topic"
  BY <1>2 DEF wrapGroupInfoChange, GroupInfo, SameTopic, Portals
<1> QED BY <1>1, <1>2

LEMMA LocalChangeTopic ==
  ASSUME NEW type \in LocalInfo, NEW g \in Groups, NEW p \in Portals
  PROVE  SameTopic(p, handleWAUserLocalPortalInfo(type, g, p))
BY DEF handleWAUserLocalPortalInfo, LocalInfo, SameTopic, Portals

\* What a step of the portal does to the topic: it leaves it, or the portal has
\* the topic of the event or of the group, with its ID, or is deleted.
LEMMA PortalStepTopic ==
  ASSUME TypeOK, PortalNext
  PROVE  /\ UNCHANGED <<group, creating, queued, topics>>
         /\ events # <<>> /\ events' = Tail(events)
         /\ \/ SameTopic(portal, portal')
            \/ portal' = NoPortal
            \/ /\ portal'.room # "none"
               /\ HasTopic(portal', group.topic) \/ HasTopic(portal', Head(events).group.topic)
<1> USE DEF Handle
<1>1. CASE JoinedGroup
  <2>1. Head(events).group \in Groups
    BY <1>1, EventType DEF JoinedGroup, EventTypes
  <2>2. CASE createDedup
    BY <1>1, <2>2 DEF JoinedGroup, SameTopic
  <2>3. CASE ~createDedup
    <3> DEFINE Entered(photo) ==
          [portal EXCEPT !.photo = photo, !.room = IF @ = "none" THEN "own" ELSE @]
    <3>1. \A photo \in 0..1 : Entered(photo) \in Portals /\ Entered(photo).room # "none"
      BY DEF TypeOK, Portals
    <3> HIDE DEF Entered
    <3>2. PICK photo \in 0..1 : portal' = UpdateInfo(Head(events).group, Entered(photo))
      BY <1>1, <2>3 DEF JoinedGroup, Entered
    <3>3. portal'.room # "none" /\ HasTopic(portal', Head(events).group.topic)
      BY <2>1, <3>1, <3>2, UpdateInfoShows
    <3> QED BY <1>1, <3>3 DEF JoinedGroup
  <2> QED BY <2>2, <2>3
<1>2. CASE PictureUpdate
  <2>1. \A photo : SameTopic(portal, [portal EXCEPT !.photo = photo])
    BY DEF SameTopic, TypeOK, Portals
  <2>2. SameTopic(portal, portal)
    BY DEF SameTopic
  <2> QED BY <1>2, <2>1, <2>2 DEF PictureUpdate
<1>3. CASE ChatDelete
  BY <1>3 DEF ChatDelete
<1>4. CASE ChatResync
  <2>1. CASE UNCHANGED portal
    BY <1>4, <2>1 DEF ChatResync, SameTopic
  <2>2. CASE portal.room # "none" /\ \E photo \in 0..1 : portal' = GetChatInfo(photo)
    BY <1>4, <2>2, GetChatInfoShows DEF ChatResync
  <2> QED BY <1>4, <2>1, <2>2 DEF ChatResync
<1>5. ASSUME NEW type \in GroupInfo, GroupInfoChange(type)
      PROVE  /\ UNCHANGED <<group, creating, queued, topics>>
             /\ events # <<>> /\ events' = Tail(events)
             /\ \/ SameTopic(portal, portal')
                \/ /\ portal'.room # "none"
                   /\ HasTopic(portal', group.topic) \/ HasTopic(portal', Head(events).group.topic)
  <2>1. Head(events).group \in Groups
    BY <1>5, EventType DEF GroupInfoChange, EventTypes
  <2> DEFINE Changed(p) == wrapGroupInfoChange(type, Head(events).group, p)
  <2>2. ASSUME NEW p \in Portals, p.room # "none"
        PROVE  /\ Changed(p).room # "none"
               /\ SameTopic(p, Changed(p)) \/ HasTopic(Changed(p), Head(events).group.topic)
    BY <2>1, <2>2, GroupChangeTopic
  <2> HIDE DEF Changed
  <2>3. \/ portal.room # "none" /\ portal' = Changed(portal)
        \/ \E photo \in 0..1 : portal' = Changed([GetChatInfo(photo) EXCEPT !.room = "own"])
        \/ UNCHANGED portal
    BY <1>5 DEF GroupInfoChange, Changed
  <2>4. CASE portal.room # "none" /\ portal' = Changed(portal)
    BY <1>5, <2>2, <2>4 DEF GroupInfoChange, TypeOK
  <2>5. ASSUME NEW photo \in 0..1, portal' = Changed([GetChatInfo(photo) EXCEPT !.room = "own"])
        PROVE  /\ portal'.room # "none"
               /\ HasTopic(portal', group.topic) \/ HasTopic(portal', Head(events).group.topic)
    <3> DEFINE p == [GetChatInfo(photo) EXCEPT !.room = "own"]
    <3>1. p \in Portals
      BY ChatInfoType, RoomType
    <3>2. HasTopic(p, group.topic) /\ p.room = "own"
      BY GetChatInfoShows
    <3> HIDE DEF p
    <3>3. Changed(p).room # "none"
          /\ (SameTopic(p, Changed(p)) \/ HasTopic(Changed(p), Head(events).group.topic))
      BY <2>2, <3>1, <3>2
    <3>4. portal' = Changed(p)
      BY <2>5 DEF p
    <3> QED BY <3>2, <3>3, <3>4 DEF SameTopic, HasTopic
  <2>6. CASE UNCHANGED portal
    BY <1>5, <2>6 DEF GroupInfoChange, SameTopic
  <2> QED BY <1>5, <2>3, <2>4, <2>5, <2>6 DEF GroupInfoChange
<1>6. ASSUME NEW type \in LocalInfo, UserLocalPortalInfo(type)
      PROVE  /\ UNCHANGED <<group, creating, queued, topics>>
             /\ events # <<>> /\ events' = Tail(events)
             /\ SameTopic(portal, portal')
  <2>1. Head(events).group \in Groups
    BY <1>6, EventType DEF UserLocalPortalInfo, EventTypes
  <2>2. SameTopic(portal, portal)
    BY DEF SameTopic
  <2>3. SameTopic(portal, handleWAUserLocalPortalInfo(type, Head(events).group, portal))
    BY <2>1, LocalChangeTopic DEF TypeOK
  <2> QED BY <1>6, <2>2, <2>3 DEF UserLocalPortalInfo
<1> QED BY <1>1, <1>2, <1>3, <1>4, <1>5, <1>6 DEF PortalNext

\* The events of a shorter queue are among those of the longer one.
LEMMA FewerNumbered ==
  ASSUME TypeOK, Numbered, events # <<>>
  PROVE  /\ Head(events).group.topic <= topics
         /\ \A i \in DOMAIN Tail(events) : Tail(events)[i].group.topic <= topics
<1>1. events \in Seq(Events) /\ Len(events) > 0
  BY DEF TypeOK
<1>2. Head(events) = events[1] /\ 1 \in DOMAIN events
  BY <1>1
<1>3. \A i \in DOMAIN Tail(events) : Tail(events)[i] = events[i+1] /\ i+1 \in DOMAIN events
  BY <1>1
<1> QED BY <1>2, <1>3 DEF Numbered

\* An event about a group whose topic is known keeps the queue numbered.
LEMMA ToldNumbered ==
  ASSUME TypeOK, TypeOK', Numbered, topics <= topics',
         NEW type \in EventTypes, NEW g \in Groups, g.topic <= topics',
         Told(type, g) \/ UNCHANGED events
  PROVE  \A i \in DOMAIN events' : events'[i].group.topic <= topics'
<1>1. \A i \in DOMAIN events : events[i].group.topic \in Topics
  <2>1. \A e \in Events : e.group.topic \in Topics
    BY DEF Events, Groups
  <2>2. events \in Seq(Events)
    BY DEF TypeOK
  <2>3. \A i \in DOMAIN events : events[i] \in Events
    BY <2>2
  <2> QED BY <2>1, <2>3
<1>2. topics \in Int /\ topics' \in Int
  BY DEF TypeOK, Topics
<1>3. \A i \in DOMAIN events : events[i].group.topic <= topics'
  BY <1>1, <1>2 DEF Numbered, Topics
<1>4. CASE Told(type, g)
  <2>1. events \in Seq(Events) /\ events' = Append(events, [type |-> type, group |-> g])
    BY <1>4 DEF Told, TypeOK
  <2>2. \A i \in DOMAIN events' :
          \/ i \in DOMAIN events /\ events'[i] = events[i]
          \/ events'[i] = [type |-> type, group |-> g]
    BY <2>1
  <2> QED BY <1>3, <2>2
<1> QED BY <1>3, <1>4

LEMMA PortalStepTopics ==
  ASSUME TypeOK, TopicInv, PortalNext
  PROVE  TopicInv'
<1>1. /\ UNCHANGED <<group, creating, queued, topics>>
      /\ events # <<>> /\ events' = Tail(events)
  BY PortalStepTopic
<1>2. /\ Head(events).group.topic <= topics
      /\ \A i \in DOMAIN events' : events'[i].group.topic <= topics'
  BY <1>1, FewerNumbered DEF TopicInv
<1>3. \/ SameTopic(portal, portal')
      \/ portal' = NoPortal
      \/ /\ portal'.room # "none"
         /\ HasTopic(portal', group.topic) \/ HasTopic(portal', Head(events).group.topic)
  BY PortalStepTopic
<1>4. portal'.topic <= topics' /\ (portal'.topicID # 0 => portal'.topicID = portal'.topic)
  BY <1>1, <1>2, <1>3
     DEF TopicInv, Numbered, SameTopic, HasTopic, NoPortal, TypeOK, Topics
<1>5. Numbered'
  BY <1>1, <1>2, <1>4 DEF TopicInv, Numbered
<1>6. group.at # "none"
  BY <1>1 DEF TopicInv, Unborn
<1>7. Unshown'
  BY <1>1, <1>3, <1>6 DEF TopicInv, Unshown, SameTopic, HasTopic, NoPortal
<1> QED BY <1>1, <1>4, <1>5, <1>6, <1>7 DEF TopicInv, Unborn

LEMMA GroupStepTopics ==
  ASSUME TypeOK, TypeOK', TopicInv, ChangeGroup \/ ChangeTopic \/ JoinGroup
  PROVE  TopicInv'
<1>1. /\ topics \in Int /\ topics' \in Int /\ portal.topic \in Int /\ group.topic \in Int
      /\ creating # Idle => creating.group.topic \in Int
  BY DEF TypeOK, Topics, Portals, Groups, Creations
<1>2. /\ group \in Groups
      /\ {"name", "picture", "announce", "locked", "ephemeral", "join", "leave", "promote",
          "demote", "mute", "pin", "archive", "delete", "topic", "joined-group"} \subseteq EventTypes
  BY DEF EventTypes, GroupInfo, LocalInfo, TypeOK
<1>3. UNCHANGED <<portal, creating, queued>>
  BY DEF ChangeGroup, ChangeTopic, JoinGroup, Elsewhere
<1>4. ASSUME topics <= topics', group.at # "none",
             NEW type \in EventTypes, NEW g \in Groups, g.topic <= topics', g.at # "none",
             Elsewhere(type, g)
      PROVE  TopicInv'
  <2>1. \A i \in DOMAIN events' : events'[i].group.topic <= topics'
    BY <1>4, ToldNumbered DEF TopicInv, Elsewhere
  <2>2. group' = g
    BY <1>4 DEF Elsewhere
  <2>3. Numbered'
    BY <1>1, <1>3, <1>4, <2>1, <2>2 DEF TopicInv, Numbered
  <2> QED BY <1>3, <1>4, <2>2, <2>3 DEF TopicInv, Unborn, Unshown, Elsewhere
<1>5. CASE ChangeGroup
  <2> DEFINE Changes == {[group EXCEPT !.name = 1 - @], [group EXCEPT !.photo = 1 - @],
                   [group EXCEPT !.isAnnounce = ~@], [group EXCEPT !.isLocked = ~@],
                   [group EXCEPT !.disappearingTimer = 1 - @], [group EXCEPT !.role = "none"],
                   [group EXCEPT !.role = "member"], [group EXCEPT !.role = "admin"],
                   [group EXCEPT !.muted = ~@], [group EXCEPT !.pinned = ~@],
                   [group EXCEPT !.archived = ~@], [group EXCEPT !.at = "gone"]}
  <2>1. PICK type \in EventTypes, g \in Changes : Elsewhere(type, g)
    BY <1>2, <1>5 DEF ChangeGroup
  <2>2. group.at = "here" /\ topics' = topics
    BY <1>5, <2>1 DEF ChangeGroup, Elsewhere
  <2>3. \A c \in Changes : c.topic = group.topic /\ (c.at = group.at \/ c.at = "gone")
    <3> DEFINE Kept(c) == c.topic = group.topic /\ (c.at = group.at \/ c.at = "gone")
    <3>1. /\ Kept([group EXCEPT !.name = 1 - @]) /\ Kept([group EXCEPT !.photo = 1 - @])
          /\ Kept([group EXCEPT !.disappearingTimer = 1 - @])
      BY <1>2 DEF Groups
    <3>2. Kept([group EXCEPT !.isAnnounce = ~@]) /\ Kept([group EXCEPT !.isLocked = ~@])
      BY <1>2 DEF Groups
    <3>3. /\ Kept([group EXCEPT !.role = "none"]) /\ Kept([group EXCEPT !.role = "member"])
          /\ Kept([group EXCEPT !.role = "admin"]) /\ Kept([group EXCEPT !.at = "gone"])
      BY <1>2 DEF Groups
    <3>5. /\ Kept([group EXCEPT !.muted = ~@]) /\ Kept([group EXCEPT !.pinned = ~@])
          /\ Kept([group EXCEPT !.archived = ~@])
      BY <1>2 DEF Groups
    <3> HIDE DEF Kept
    <3>4. \A c \in Changes : Kept(c)
      BY <3>1, <3>2, <3>3, <3>5, Zenon
    <3> QED BY <3>4 DEF Kept
  <2>4. g = group' /\ g \in Groups
    BY <2>1 DEF Elsewhere, TypeOK
  <2> HIDE DEF Changes
  <2> QED BY <1>1, <1>4, <2>1, <2>2, <2>3, <2>4 DEF TopicInv, Numbered
<1>6. CASE ChangeTopic
  <2> DEFINE g == [group EXCEPT !.topic = topics']
  <2>1. Elsewhere("topic", g) /\ topics' = topics + 1
    BY <1>6 DEF ChangeTopic
  <2>2. g = group' /\ g \in Groups
    BY <2>1 DEF Elsewhere, TypeOK
  <2>3. g.topic = topics' /\ g.at = group.at
    BY <1>2 DEF Groups
  <2>4. group.at = "here" /\ topics <= topics'
    BY <1>1, <2>1 DEF Elsewhere
  <2>5. "topic" \in EventTypes
    BY DEF EventTypes, GroupInfo
  <2>7. g.topic <= topics' /\ g.at # "none"
    BY <1>1, <2>3, <2>4
  <2>6. Elsewhere("topic", g)
    BY <2>1
  <2> HIDE DEF g
  <2> QED BY <1>4, <2>2, <2>4, <2>5, <2>6, <2>7
<1>7. CASE JoinGroup
  <2>1. portal = NoPortal /\ events = <<>> /\ topics = 0 /\ creating.at = "idle"
    BY <1>7 DEF JoinGroup, TopicInv, Unborn
  <2>2. group'.topic = topics' /\ group'.at = "here" /\ Told("joined-group", group')
    BY <1>7 DEF JoinGroup, NoGroup
  <2>3. topics <= topics'
    BY <2>1, <1>1 DEF TypeOK, Topics
  <2>4. group' \in Groups /\ "joined-group" \in EventTypes
    BY DEF TypeOK, EventTypes
  <2>9. group'.topic <= topics'
    <3>1. \A n : n = topics' => n <= topics'
      BY <1>1
    <3>2. group'.topic = topics'
      BY <2>2
    <3> QED BY <3>1, <3>2, Zenon
  <2>5. \A i \in DOMAIN events' : events'[i].group.topic <= topics'
    BY <2>2, <2>3, <2>4, <2>9, ToldNumbered DEF TopicInv
  <2>6. portal'.topic <= topics' /\ (creating # Idle => creating.group.topic <= topics')
    BY <1>1, <1>3, <2>3 DEF TopicInv, Numbered
  <2>7. Numbered'
    BY <2>5, <2>6, <2>9, <1>3 DEF Numbered
  <2>8. portal'.topicID = 0 /\ creating' = creating
    BY <1>3, <2>1 DEF NoPortal
  <2> QED BY <2>1, <2>2, <2>7, <2>8 DEF TopicInv, Unborn, Unshown
<1> QED BY <1>5, <1>6, <1>7

LEMMA QueueStepTopics ==
  ASSUME TypeOK, TypeOK', TopicInv, Age \/ Message \/ ViewingChat \/ ResyncQueued
  PROVE  TopicInv'
<1>1. UNCHANGED <<group, creating, topics>>
  BY DEF Age, Message, ViewingChat, ResyncQueued
<1>2. topics \in Int /\ group \in Groups /\ "resync" \in EventTypes
  BY DEF TypeOK, Topics, EventTypes
<1>3. \/ UNCHANGED portal
      \/ group.at # "none" /\ portal'.room # "none" /\ HasTopic(portal', group.topic)
  <2>1. CASE Message
    BY <2>1, GetChatInfoShows DEF Message
  <2> QED BY <2>1 DEF Age, ViewingChat, ResyncQueued
<1>4. Told("resync", group) \/ UNCHANGED events
  BY DEF Age, Message, ViewingChat, ResyncQueued, Told
<1>5. \A i \in DOMAIN events' : events'[i].group.topic <= topics'
  BY <1>1, <1>2, <1>4, ToldNumbered DEF TopicInv, Numbered
<1>6. portal'.topic <= topics' /\ (portal'.topicID # 0 => portal'.topicID = portal'.topic)
  BY <1>1, <1>3 DEF TopicInv, Numbered, HasTopic
<1>7. Numbered'
  BY <1>1, <1>5, <1>6 DEF TopicInv, Numbered
<1>8. Unborn'
  <2>1. group.at = "none" => UNCHANGED <<portal, events, queued>>
    BY <1>3 DEF TopicInv, Unborn, NoPortal, Age, Message, ViewingChat, ResyncQueued
  <2> QED BY <1>1, <2>1 DEF TopicInv, Unborn
<1>9. Unshown'
  BY <1>1, <1>3 DEF TopicInv, Unshown
<1> QED BY <1>1, <1>6, <1>7, <1>8, <1>9 DEF TopicInv

\* A request of a Matrix user leaves the topics, or gives the group and the
\* portal a new one, with its ID.
LEMMA RoomStepTopic ==
  ASSUME TypeOK, RoomSetting \/ RoomTopic \/ RoomState
  PROVE  /\ UNCHANGED creating /\ portal.room # "none"
         /\ group'.at = group.at /\ portal'.room = portal.room
         /\ \E type \in EventTypes : Told(type, group') \/ UNCHANGED events
         /\ \/ /\ UNCHANGED topics
               /\ SameTopic(portal, portal') /\ group'.topic = group.topic
            \/ /\ RoomTopic /\ topics' = topics + 1
               /\ HasTopic(portal', topics') /\ group'.topic = topics'
<1>1. group \in Groups /\ portal \in Portals
  BY DEF TypeOK
<1>2. {"name", "picture", "ephemeral", "join", "leave", "mute", "pin"} \subseteq EventTypes
  BY DEF EventTypes, GroupInfo, LocalInfo
<1>3. "topic" \in EventTypes
  BY DEF EventTypes, GroupInfo
<1>4. \A v, w : LET p == [portal EXCEPT !.topic = v, !.topicID = v]
                    g == [group EXCEPT !.topic = v]
                IN HasTopic(p, v) /\ p.room = portal.room /\ g.topic = v /\ g.at = group.at
  BY <1>1 DEF Groups, Portals, HasTopic
<1> DEFINE KeptG(g) == g.topic = group.topic /\ g.at = group.at
<1>5. CASE RoomTopic
  <2>1. /\ topics' = topics + 1 /\ UNCHANGED creating /\ portal.room # "none"
        /\ group' = [group EXCEPT !.topic = topics']
        /\ portal' = [portal EXCEPT !.topic = topics', !.topicID = topics']
        /\ Told("topic", group') \/ UNCHANGED events
    BY <1>5 DEF RoomTopic, Requested
  <2>2. /\ HasTopic(portal', topics') /\ portal'.room = portal.room
        /\ group'.topic = topics' /\ group'.at = group.at
    BY <1>4, <2>1, Zenon
  <2> QED BY <1>3, <1>5, <2>1, <2>2
<1>6. CASE RoomSetting
  <2>1. /\ KeptG([group EXCEPT !.name = 1 - portal.name])
        /\ KeptG([group EXCEPT !.photo = 1 - portal.photo])
        /\ KeptG([group EXCEPT !.disappearingTimer = 1 - portal.disappear])
    BY <1>1 DEF Groups
  <2>2. /\ SameTopic(portal, [portal EXCEPT !.name = 1 - @])
        /\ SameTopic(portal, [portal EXCEPT !.photo = 1 - @])
        /\ SameTopic(portal, [portal EXCEPT !.disappear = 1 - @])
    BY <1>1 DEF Portals, SameTopic
  <2> HIDE DEF KeptG
  <2>3. PICK type, g, p :
          /\ type \in EventTypes /\ Requested(type, g, p)
          /\ KeptG(g) /\ SameTopic(portal, p)
    <3>1. PICK type \in {"name", "picture", "ephemeral"} : 
            \/ type = "name" /\ Requested(type, [group EXCEPT !.name = 1 - portal.name], [portal EXCEPT !.name = 1 - @])
            \/ type = "picture" /\ Requested(type, [group EXCEPT !.photo = 1 - portal.photo], [portal EXCEPT !.photo = 1 - @])
            \/ type = "ephemeral" /\ Requested(type, [group EXCEPT !.disappearingTimer = 1 - portal.disappear],
                         [portal EXCEPT !.disappear = 1 - @])
      BY <1>6, Zenon DEF RoomSetting
    <3>2. type \in EventTypes
      BY <1>2, <3>1
    <3> QED BY <2>1, <2>2, <3>1, <3>2, Zenon
  <2> USE DEF KeptG
  <2> QED BY <1>6, <2>3 DEF Requested, RoomSetting, SameTopic
<1>7. CASE RoomState
  <2> DEFINE pinned == portal.tag = "pinned"
  <2>1. /\ KeptG([group EXCEPT !.role = IF @ = "none" THEN "member" ELSE @])
        /\ KeptG([group EXCEPT !.role = "none"])
        /\ KeptG([group EXCEPT !.muted = ~portal.muted])
        /\ KeptG([group EXCEPT !.pinned = ~pinned])
    BY <1>1 DEF Groups
  <2>2. /\ SameTopic(portal, [portal EXCEPT !.joined = TRUE])
        /\ SameTopic(portal, [portal EXCEPT !.joined = FALSE])
        /\ SameTopic(portal, [portal EXCEPT !.muted = ~@])
        /\ SameTopic(portal, [portal EXCEPT !.tag = IF pinned THEN "none" ELSE "pinned"])
    BY <1>1 DEF Portals, SameTopic
  <2>3. \/ Shown("join", [group EXCEPT !.role = IF @ = "none" THEN "member" ELSE @],
                 [portal EXCEPT !.joined = TRUE])
        \/ Shown("leave", [group EXCEPT !.role = "none"], [portal EXCEPT !.joined = FALSE])
        \/ Shown("mute", [group EXCEPT !.muted = ~portal.muted], [portal EXCEPT !.muted = ~@])
        \/ Shown("pin", [group EXCEPT !.pinned = ~pinned],
                 [portal EXCEPT !.tag = IF pinned THEN "none" ELSE "pinned"])
    BY <1>7 DEF RoomState
  <2> HIDE DEF KeptG, pinned
  <2>4. "join" \in EventTypes /\ "leave" \in EventTypes /\ "mute" \in EventTypes /\ "pin" \in EventTypes
    BY <1>2
  <2>5. PICK type, g, p :
            type \in EventTypes /\ Shown(type, g, p) /\ KeptG(g) /\ SameTopic(portal, p)
    BY <2>1, <2>2, <2>3, <2>4, Zenon
  <2> USE DEF KeptG
  <2> QED BY <1>7, <2>5 DEF Shown, Requested, RoomState, SameTopic
<1> QED BY <1>5, <1>6, <1>7

LEMMA RoomStepTopics ==
  ASSUME TypeOK, TypeOK', TopicInv, RoomSetting \/ RoomTopic \/ RoomState
  PROVE  TopicInv'
<1>1. /\ topics \in Int /\ topics' \in Int /\ portal.topic \in Int /\ group.topic \in Int
      /\ creating # Idle => creating.group.topic \in Int
  BY DEF TypeOK, Topics, Portals, Groups, Creations
<1>2. /\ UNCHANGED creating /\ portal.room # "none"
      /\ group'.at = group.at /\ portal'.room = portal.room
  BY RoomStepTopic
<1>3. PICK type \in EventTypes : Told(type, group') \/ UNCHANGED events
  BY RoomStepTopic
<1>4. /\ topics <= topics' /\ portal'.topic <= topics' /\ group'.topic <= topics'
      /\ portal'.topicID # 0 => portal'.topicID = portal'.topic
  <2>1. CASE UNCHANGED topics /\ SameTopic(portal, portal') /\ group'.topic = group.topic
    BY <1>1, <2>1 DEF TopicInv, Numbered, SameTopic
  <2>2. CASE topics' = topics + 1 /\ HasTopic(portal', topics') /\ group'.topic = topics'
    BY <1>1, <2>2 DEF HasTopic
  <2> QED BY <2>1, <2>2, RoomStepTopic
<1>5. \A i \in DOMAIN events' : events'[i].group.topic <= topics'
  <2>1. group' \in Groups /\ Numbered
    BY DEF TypeOK, TopicInv
  <2> QED BY <1>3, <1>4, <2>1, ToldNumbered
<1>6. Numbered'
  BY <1>1, <1>2, <1>4, <1>5 DEF TopicInv, Numbered
<1>7. group.at # "none"
  BY <1>2 DEF TopicInv, Unborn, NoPortal
<1> QED BY <1>2, <1>4, <1>6, <1>7 DEF TopicInv, Unborn, Unshown

LEMMA CreateStepTopics ==
  ASSUME TypeOK, TypeOK', TopicInv, AddKey \/ CreateNext
  PROVE  TopicInv'
<1>1. /\ topics \in Int /\ topics' \in Int /\ portal.topic \in Int /\ group.topic \in Int
      /\ creating # Idle => creating.group.topic \in Int
  BY DEF TypeOK, Topics, Portals, Groups, Creations
<1>2. ASSUME creating # Idle
      PROVE  /\ creating \in [at: {"requested", "portal", "room", "photo", "topic", "done"},
                              forRoom: BOOLEAN, group: Groups]
             /\ creating.group \in Groups
  BY <1>2 DEF TypeOK, Creations
<1>3. Idle.at = "idle" /\ NoGroup.topic = 0 /\ NoPortal.topicID = 0
  BY DEF Idle, NoGroup, NoPortal
<1>4. ASSUME \E type \in EventTypes : Told(type, group') \/ UNCHANGED events,
             topics <= topics', group'.topic <= topics'
      PROVE  \A i \in DOMAIN events' : events'[i].group.topic <= topics'
  <2>1. group' \in Groups /\ Numbered
    BY DEF TypeOK, TopicInv
  <2> QED BY <1>4, <2>1, ToldNumbered
<1>5. "joined-group" \in EventTypes /\ "picture" \in EventTypes /\ "topic" \in EventTypes
  BY DEF EventTypes, GroupInfo
<1>6. CASE AddKey
  BY <1>1, <1>3, <1>6 DEF AddKey, At, TopicInv, Numbered, Unborn, Unshown, TypeOK, Topics
<1>7. CASE RequestGroup
  <2>1. /\ group.at = "none" /\ portal = NoPortal /\ topics = 0
        /\ UNCHANGED <<portal, queued, topics>>
    BY <1>7 DEF RequestGroup, At, TopicInv, Unborn
  <2>2. CASE UNCHANGED <<group, events>> /\ creating' = Idle
    BY <1>1, <1>3, <2>1, <2>2 DEF TopicInv, Numbered, Unborn, Unshown
  <2>3. CASE /\ \E timer \in 0..1, role \in {"none", "member"} :
                  group' = [NoGroup EXCEPT !.at = "here", !.disappearingTimer = timer, !.role = role]
             /\ Told("joined-group", group')
             /\ \/ creating' = [creating EXCEPT !.at = "portal", !.group = group']
                \/ creating' = Idle
    <3>1. group'.topic = 0 /\ group'.at = "here"
      BY <2>3 DEF NoGroup
    <3>2. \/ creating' = Idle
          \/ creating'.at = "portal" /\ creating'.group = group'
      <4>1. creating # Idle
        BY <1>3, <1>7 DEF RequestGroup, At
      <4> QED BY <1>2, <2>3, <4>1
    <3>3. \A i \in DOMAIN events' : events'[i].group.topic <= topics'
      <4>1. topics <= topics' /\ 0 <= topics'
        BY <1>1, <2>1
      <4>2. group'.topic <= topics'
        BY <3>1, <4>1, Zenon
      <4> QED BY <1>4, <1>5, <2>3, <4>1, <4>2
    <3>4. Numbered'
      BY <1>1, <2>1, <3>1, <3>2, <3>3 DEF TopicInv, Numbered
    <3>5. portal'.topicID = 0 /\ creating'.at # "requested"
      BY <1>3, <2>1, <3>2
    <3> QED BY <3>1, <3>4, <3>5 DEF TopicInv, Unborn, Unshown
  <2> QED BY <1>7, <2>2, <2>3 DEF RequestGroup
<1>8. ASSUME FindPortal \/ UpdateMatrixRoomID \/ SetGroupPhoto \/ SetGroupTopic \/ CreateRoom
      PROVE  creating # Idle /\ group.at # "none"
  BY <1>3, <1>8 DEF FindPortal, UpdateMatrixRoomID, SetGroupPhoto, SetGroupTopic, CreateRoom,
                    At, TopicInv, Unborn
<1>9. \A step : creating # Idle =>
        /\ [creating EXCEPT !.at = step].at = step
        /\ [creating EXCEPT !.at = step].group = creating.group
  BY <1>2
<1>10. CASE FindPortal
  <2>1. UNCHANGED <<group, portal, events, queued, topics>>
    BY <1>10 DEF FindPortal
  <2>2. \/ creating' = Idle
        \/ creating'.at \in {"room", "photo"} /\ creating'.group = creating.group
    BY <1>8, <1>9, <1>10 DEF FindPortal
  <2>3. ~(portal.room = "none" /\ portal.topicID # 0)
    BY <1>10 DEF FindPortal, At, TopicInv, Unshown
  <2>4. Numbered'
    BY <1>8, <1>10, <2>1, <2>2 DEF TopicInv, Numbered
  <2>5. creating'.at # "requested"
    BY <1>3, <2>2
  <2> QED BY <1>8, <1>10, <2>1, <2>3, <2>4, <2>5 DEF TopicInv, Unborn, Unshown
<1>11. CASE UpdateMatrixRoomID
  <2>1. UNCHANGED <<group, events, queued, topics>>
    BY <1>11 DEF UpdateMatrixRoomID
  <2>2. \/ creating' = Idle /\ UNCHANGED portal
        \/ /\ creating'.at = "photo" /\ creating'.group = creating.group
           /\ HasTopic(portal', creating.group.topic) /\ portal'.room = "user"
    <3>1. CASE creating' = Idle /\ UNCHANGED portal
      BY <3>1
    <3>2. CASE creating' = [creating EXCEPT !.at = "photo"]
      <4> DEFINE Entered(photo) == [portal EXCEPT !.room = "user", !.photo = photo]
      <4>1. \A photo \in 0..1 : Entered(photo) \in Portals /\ Entered(photo).room = "user"
        BY DEF TypeOK, Portals
      <4>2. creating # Idle
        BY <1>8, <1>11
      <4>3. creating'.at = "photo" /\ creating'.group = creating.group
        BY <1>9, <3>2, <4>2
      <4>4. creating' # Idle
        BY <1>3, <4>3
      <4> HIDE DEF Entered
      <4>5. PICK photo \in 0..1 : portal' = UpdateInfo(creating.group, Entered(photo))
        BY <1>11, <4>4 DEF UpdateMatrixRoomID, Entered
      <4>6. HasTopic(portal', creating.group.topic) /\ portal'.room = "user"
        BY <1>2, <4>1, <4>2, <4>5, UpdateInfoShows
      <4> QED BY <4>3, <4>6
    <3> QED BY <1>11, <3>1, <3>2 DEF UpdateMatrixRoomID
  <2>3. Numbered'
    BY <1>1, <1>8, <1>11, <2>1, <2>2 DEF TopicInv, Numbered, HasTopic
  <2>4. creating'.at # "requested"
    BY <1>3, <2>2
  <2>5. portal'.topicID # 0 => portal'.topicID = portal'.topic
    BY <2>2 DEF TopicInv, HasTopic
  <2>6. ~(portal.room = "none" /\ portal.topicID # 0)
    BY <1>11 DEF UpdateMatrixRoomID, At, TopicInv, Unshown
  <2>7. ~(portal'.room = "none" /\ portal'.topicID # 0)
    BY <2>2, <2>6
  <2> QED BY <1>8, <1>11, <2>1, <2>3, <2>4, <2>5, <2>7 DEF TopicInv, Unborn, Unshown
<1>12. CASE SetGroupPhoto
  <2>1. UNCHANGED <<queued, topics>> /\ (Told("picture", group') \/ UNCHANGED events)
    BY <1>12 DEF SetGroupPhoto
  <2>2. creating'.at = "topic" /\ creating'.group = creating.group
    BY <1>8, <1>9, <1>12 DEF SetGroupPhoto
  <2>3. /\ SameTopic(portal, portal')
        /\ group'.topic = group.topic /\ group'.at = group.at
    BY <1>12 DEF SetGroupPhoto, SameTopic, TypeOK, Portals, Groups
  <2>4. \A i \in DOMAIN events' : events'[i].group.topic <= topics'
    <3>1. topics <= topics' /\ group.topic <= topics'
      BY <1>1, <2>1 DEF TopicInv, Numbered
    <3>2. group'.topic <= topics'
      BY <2>3, <3>1, Zenon
    <3> QED BY <1>4, <1>5, <2>1, <3>1, <3>2
  <2>5. Numbered'
    BY <1>8, <1>12, <2>1, <2>2, <2>3, <2>4 DEF TopicInv, Numbered, SameTopic
  <2>6. ~(portal.room = "none" /\ portal.topicID # 0)
    BY <1>12 DEF SetGroupPhoto, At, TopicInv, Unshown
  <2> QED BY <1>8, <1>12, <2>2, <2>3, <2>5, <2>6 DEF TopicInv, Unborn, Unshown, SameTopic
<1>13. CASE SetGroupTopic
  <2>1. UNCHANGED queued /\ (Told("topic", group') \/ UNCHANGED events)
    BY <1>13 DEF SetGroupTopic
  <2>2. CASE topics < MaxTopic /\ topics' = topics + 1
    <3> DEFINE g == [creating.group EXCEPT !.topic = topics']
    <3>1. topics' # topics
      BY <1>1, <2>2
    <3>2. /\ group' = [group EXCEPT !.topic = topics']
          /\ portal' = [portal EXCEPT !.topic = topics', !.topicID = topics']
          /\ creating' = [creating EXCEPT !.at = "done", !.group = g]
      BY <1>13, <3>1 DEF SetGroupTopic
    <3>3. g.topic = topics'
      BY <1>2, <1>8, <1>13 DEF Groups
    <3> HIDE DEF g
    <3>4. group'.topic = topics' /\ group'.at = group.at
      BY <3>2 DEF TypeOK, Groups
    <3>5. HasTopic(portal', topics')
      BY <3>2 DEF TypeOK, Portals, HasTopic
    <3>6. creating'.at = "done" /\ creating'.group.topic = topics'
      BY <1>2, <1>8, <1>13, <3>2, <3>3
    <3>7. \A n : n = topics' => n <= topics'
      BY <1>1
    <3>8. topics <= topics' /\ group'.topic <= topics' /\ portal'.topic <= topics'
          /\ creating'.group.topic <= topics'
      BY <1>1, <2>2, <3>4, <3>5, <3>6, <3>7 DEF HasTopic
    <3>9. Numbered'
      BY <1>4, <1>5, <2>1, <3>8 DEF Numbered
    <3> QED BY <1>8, <1>13, <3>4, <3>5, <3>6, <3>9 DEF TopicInv, Unborn, Unshown, HasTopic
  <2>3. CASE creating' = [creating EXCEPT !.at = "done"]
             /\ UNCHANGED <<group, portal, events, topics>>
    <3>1. creating'.at = "done" /\ creating'.group = creating.group
      BY <1>8, <1>9, <1>13, <2>3
    <3>2. Numbered'
      BY <1>8, <1>13, <2>3, <3>1 DEF TopicInv, Numbered
    <3>3. ~(portal.room = "none" /\ portal.topicID # 0)
      BY <1>13 DEF SetGroupTopic, At, TopicInv, Unshown
    <3> QED BY <1>8, <1>13, <2>3, <3>1, <3>2, <3>3 DEF TopicInv, Unborn, Unshown
  <2> QED BY <1>13, <2>2, <2>3 DEF SetGroupTopic
<1>14. CASE CreateRoom
  <2>1. UNCHANGED <<group, events, queued, topics>> /\ creating' = Idle
    BY <1>14 DEF CreateRoom
  <2>2. CASE UNCHANGED portal
    BY <1>1, <1>3, <1>8, <1>14, <2>1, <2>2 DEF TopicInv, Numbered, Unborn, Unshown
  <2>3. ASSUME portal.room = "none", NEW photo \in 0..1,
               portal' = setTopicID(0, wrapGroupInfo(creating.group,
                                      [portal EXCEPT !.room = "own", !.photo = photo]))
        PROVE  TopicInv'
    <3> DEFINE p == [portal EXCEPT !.room = "own", !.photo = photo]
               w == wrapGroupInfo(creating.group, p)
    <3>1. p \in Portals /\ p.room = "own" /\ p.topicID = portal.topicID
      BY DEF TypeOK, Portals
    <3>2. creating.group \in Groups
      BY <1>2, <1>8, <1>14
    <3> HIDE DEF p
    <3>3. w \in Portals
      BY <3>1, <3>2, GroupInfoType
    <3>4. w.topic = creating.group.topic /\ w.topicID = p.topicID /\ w.room = p.room
      BY <3>1 DEF wrapGroupInfo, Portals
    <3>5. portal' = setTopicID(0, w)
      BY <2>3 DEF p
    <3> HIDE DEF w
    <3>6. /\ portal'.topic = creating.group.topic /\ portal'.room = "own"
          /\ portal'.topicID # 0 => portal'.topicID = portal.topicID
      BY <3>1, <3>3, <3>4, <3>5 DEF setTopicID, Portals
    <3>7. portal.topicID # 0 => creating.group.topic = portal.topicID
      BY <1>14, <2>3 DEF CreateRoom, At, TopicInv, Unshown
    <3>8. Numbered'
      BY <1>8, <1>14, <2>1, <3>6 DEF TopicInv, Numbered
    <3> QED BY <1>3, <1>8, <1>14, <2>1, <3>6, <3>7, <3>8 DEF TopicInv, Unborn, Unshown
  <2> QED BY <1>14, <2>2, <2>3 DEF CreateRoom
<1> QED BY <1>6, <1>7, <1>10, <1>11, <1>12, <1>13, <1>14 DEF CreateNext

LEMMA RestartTopics ==
  ASSUME TypeOK, TopicInv, Restart
  PROVE  TopicInv'
<1>1. PICK first \in 1..Len(events)+1 : events' = SubSeq(events, first, Len(events))
  BY DEF Restart
<1>2. events \in Seq(Events)
  BY DEF TypeOK
<1>3. /\ \A i \in DOMAIN events' : i + first - 1 \in DOMAIN events /\ events'[i] = events[i + first - 1]
      /\ events = <<>> => events' = <<>>
  BY <1>1, <1>2, SubSeqProperties
<1>4. /\ UNCHANGED <<group, portal, topics>> /\ creating' = Idle /\ ~queued'
  BY DEF Restart
<1>5. creating'.at = "idle"
  BY <1>4 DEF Idle
<1>6. Numbered'
  BY <1>3, <1>4 DEF TopicInv, Numbered
<1> QED BY <1>3, <1>4, <1>5, <1>6 DEF TopicInv, Unborn, Unshown

LEMMA AlwaysTopicInv == Spec => []TopicInv
<1>1. Init => TopicInv
  BY DEF Init, TopicInv, Numbered, Unborn, Unshown, NoGroup, NoPortal, Idle
<1>2. TypeOK /\ TypeOK' /\ TopicInv /\ [Next]_vars => TopicInv'
  <2> SUFFICES ASSUME TypeOK, TypeOK', TopicInv, [Next]_vars PROVE TopicInv'
    OBVIOUS
  <2>1. CASE UNCHANGED vars
    BY <2>1 DEF vars, TopicInv, Numbered, Unborn, Unshown
  <2>2. CASE Next
    BY <2>2, GroupStepTopics, PortalStepTopics, QueueStepTopics, RoomStepTopics,
       CreateStepTopics, RestartTopics DEF Next
  <2> QED BY <2>1, <2>2
<1> QED BY <1>1, <1>2, TypeCorrect, PTL DEF Spec

\* A new topic reaches the group and the room in one step only from the room,
\* whose portal names the ID of the topic that WhatsApp has: so the topic it
\* takes the place of is the one the room showed, whatever events wait, and
\* whichever way the portal came to know the ID.
THEOREM TopicSafe == Spec => NoTopicOverwritten
<1> DEFINE Kept == portal.topicID # 0 /\ portal'.topic = topics' /\ topics' # topics /\ ~At("topic")
                     => portal.topic = group.topic
<1>1. TypeOK /\ TypeOK' /\ TopicInv /\ [Next]_vars => [Kept]_vars
  <2> SUFFICES ASSUME TypeOK, TypeOK', TopicInv, Next, portal.topicID # 0,
                      portal'.topic = topics', topics' # topics, ~At("topic")
               PROVE  portal.topic = group.topic
    OBVIOUS
  <2>1. topics \in Int /\ portal.topic \in Int
    BY DEF TypeOK, Topics, Portals
  <2>2. CASE ChangeTopic
    <3>1. topics' = topics + 1 /\ UNCHANGED portal
      BY <2>2 DEF ChangeTopic, Elsewhere
    <3>2. portal.topic <= topics
      BY DEF TopicInv, Numbered
    <3> QED BY <2>1, <3>1, <3>2
  <2>3. CASE JoinGroup
    <3>1. group.at = "none"
      BY <2>3 DEF JoinGroup
    <3>2. portal.topicID = 0
      BY <3>1 DEF TopicInv, Unborn, NoPortal
    <3> QED BY <3>2
  <2>4. CASE RoomTopic
    BY <2>4 DEF RoomTopic, Accepts, TopicInv
  <2>5. CASE SetGroupTopic
    BY <2>5 DEF SetGroupTopic
  <2>6. ASSUME PortalNext PROVE FALSE
    BY <2>6, PortalStepTopic
  <2> QED BY <2>2, <2>3, <2>4, <2>5, <2>6
          DEF Next, ChangeGroup, Age, Message, ViewingChat, ResyncQueued, RoomSetting,
              RoomState, AddKey, CreateNext, RequestGroup, FindPortal, UpdateMatrixRoomID,
              SetGroupPhoto, CreateRoom, Restart
<1>2. Spec => [][Kept]_vars
  BY <1>1, TypeCorrect, AlwaysTopicInv, PTL DEF Spec
<1> QED BY <1>2 DEF NoTopicOverwritten

-----------------------------------------------------------------------------
(* A group that is created for a room.                                     *)

InTime == creating # Idle /\ creating.forRoom /\ changes = 0 /\ faults = 0

\* What is told of the group meanwhile is what CreateGroup has made of it, or
\* asks for a resync ...
Reported(e, g, at) ==
  \/ e.type = "resync"
  \/ e.type = "picture" /\ e.group.photo = g.photo /\ at \in {"topic", "done"}
  \/ e.type = "topic" /\ e.group.topic = g.topic /\ at = "done"

\* ... but for the news of its creation, which comes first and is left to
\* CreateGroup as long as its key is remembered.
Announced ==
  \A i \in DOMAIN events :
    \/ i = 1 /\ events[i].type = "joined-group" /\ createDedup
    \/ Reported(events[i], group, creating.at)

CreatedInv ==
  InTime =>
    /\ creating.at = "requested" => createDedup
    /\ Announced
    /\ creating.at \in {"portal", "room"} =>
         /\ creating.group = group /\ ~group.pinned /\ ~group.archived
         /\ portal.muted = group.muted
    /\ creating.at \in {"photo", "topic", "done"} => portal.room = "user" /\ Agrees

\* A portal that takes the group's info over agrees with the group, if it has
\* its picture and the user's settings.
LEMMA UpdateInfoAgrees ==
  ASSUME TypeOK, TypeOK', NEW g \in Groups, NEW p \in Portals, group' = g,
         portal' = UpdateInfo(g, p) \/ portal' = applyChatSettings(g, UpdateInfo(g, p)),
         p.room # "none", p.photo = g.photo,
         portal' = applyChatSettings(g, UpdateInfo(g, p))
           \/ (p.muted = g.muted /\ ~g.pinned /\ ~g.archived)
  PROVE  Agrees' /\ portal'.room = p.room
<1> DEFINE u == UpdateInfo(g, p)
<1>1. u \in Portals
  BY UpdateInfoType
<1>2. /\ HasTopic(u, g.topic) /\ u.name = g.name
      /\ u.eventsPL = (IF g.isAnnounce /\ ~IsDefaultSubGroup THEN adminPL ELSE defaultPL)
      /\ {u.metaPL, u.timerPL} = {IF g.isLocked THEN adminPL ELSE defaultPL}
      /\ u.joined = (g.role # "none")
      /\ u.memberPL = adminPL <=> g.role = "admin"
      /\ u.memberPL = superAdminPL <=> g.role = "superadmin"
      /\ u.disappear = g.disappearingTimer
      /\ u.room = p.room /\ u.photo = p.photo /\ u.muted = p.muted /\ u.tag = p.tag
  BY UpdateInfoShows
<1> HIDE DEF u
<1>3. portal' = u \/ portal' = applyChatSettings(g, u)
  BY DEF u
<1>4. /\ portal'.topic = u.topic /\ portal'.topicID = u.topicID /\ portal'.name = u.name
      /\ portal'.eventsPL = u.eventsPL /\ portal'.metaPL = u.metaPL
      /\ portal'.timerPL = u.timerPL /\ portal'.joined = u.joined
      /\ portal'.memberPL = u.memberPL /\ portal'.disappear = u.disappear
      /\ portal'.room = u.room /\ portal'.photo = u.photo
  BY <1>1, <1>3 DEF applyChatSettings, Portals
<1>5. /\ portal'.muted = g.muted
      /\ g.pinned => portal'.tag = "pinned"
      /\ g.archived /\ ~g.pinned => portal'.tag = "archived"
  <2>1. CASE portal' = applyChatSettings(g, u)
    BY <1>1, <2>1 DEF applyChatSettings, Portals, Groups
  <2>2. CASE p.muted = g.muted /\ ~g.pinned /\ ~g.archived /\ portal' = u
    BY <1>2, <2>2
  <2> QED BY <1>3, <2>1, <2>2 DEF u
<1> QED BY <1>2, <1>4, <1>5, Zenon DEF Agrees, HasTopic

\* So does GetChatInfo with the picture there is.
LEMMA GetChatInfoAgrees ==
  ASSUME TypeOK, TypeOK', portal.room # "none", UNCHANGED group,
         portal' = GetChatInfo(group.photo)
  PROVE  Agrees' /\ portal'.room = portal.room
<1> DEFINE p == [portal EXCEPT !.photo = group.photo]
<1>1. p \in Portals /\ p.room = portal.room /\ p.photo = group.photo /\ group \in Groups
  BY DEF TypeOK, Portals, Groups
<1>2. portal' = applyChatSettings(group, UpdateInfo(group, p))
  BY DEF GetChatInfo
<1> HIDE DEF p
<1> QED BY <1>1, <1>2, UpdateInfoAgrees

\* Changes and failures are counted.
LEMMA Counted ==
  ASSUME TypeOK, Next
  PROVE  changes' \in {changes, changes + 1} /\ faults' \in {faults, faults + 1}
<1> USE DEF Fault, FetchPhoto, Change
<1>1. CASE ChangeGroup \/ ChangeTopic
  BY <1>1, Zenon DEF ChangeGroup, ChangeTopic, Elsewhere
<1>2. CASE JoinGroup \/ Age \/ Message \/ ViewingChat \/ ResyncQueued
  BY <1>2 DEF JoinGroup, Age, Message, ViewingChat, ResyncQueued
<1>3. CASE JoinedGroup \/ PictureUpdate \/ ChatDelete \/ ChatResync
  BY <1>3 DEF JoinedGroup, PictureUpdate, ChatDelete, ChatResync
<1>4. ASSUME NEW type, GroupInfoChange(type) \/ UserLocalPortalInfo(type)
      PROVE  changes' \in {changes, changes + 1} /\ faults' \in {faults, faults + 1}
  BY <1>4 DEF GroupInfoChange, UserLocalPortalInfo
<1>5. CASE RoomSetting \/ RoomTopic
  BY <1>5, Zenon DEF RoomSetting, RoomTopic, Requested
<1>6. CASE RoomState
  BY <1>6, Zenon DEF RoomState, Shown, Requested
<1>7. CASE AddKey \/ CreateNext \/ Restart
  BY <1>7 DEF AddKey, CreateNext, RequestGroup, FindPortal, UpdateMatrixRoomID,
              SetGroupPhoto, SetGroupTopic, CreateRoom, Restart
<1> QED BY <1>1, <1>2, <1>3, <1>4, <1>5, <1>6, <1>7 DEF Next, PortalNext

\* Only steps without a change or failure keep the creation in time.
LEMMA StillInTime ==
  ASSUME TypeOK, Next, InTime'
  PROVE  changes = 0 /\ faults = 0 /\ ~(changes' = changes + 1) /\ ~(faults' = faults + 1)
<1>1. changes \in Nat /\ faults \in Nat
  BY DEF TypeOK
<1> QED BY <1>1, Counted DEF InTime

\* The portal handles an event in time.
LEMMA PortalStepCreated ==
  ASSUME TypeOK, TypeOK', TopicInv, CreatedInv, Next, PortalNext, InTime'
  PROVE  CreatedInv'
<1>1. /\ UNCHANGED <<group, creating, queued, topics>>
      /\ events # <<>> /\ events' = Tail(events)
  BY PortalStepTopic
<1>2. InTime /\ ~Fault /\ UNCHANGED faults
  <2>1. changes = 0 /\ faults = 0 /\ ~(faults' = faults + 1)
    BY StillInTime
  <2> QED BY <1>1, <2>1, Counted DEF InTime, Fault
<1> DEFINE e == Head(events)
<1>3. \/ e.type = "joined-group" /\ createDedup
      \/ Reported(e, group, creating.at)
  <2>1. events \in Seq(Events) /\ 1 \in DOMAIN events /\ e = events[1]
    BY <1>1 DEF TypeOK
  <2> QED BY <1>2, <2>1 DEF CreatedInv, Announced
<1>4. \A i \in DOMAIN events' : Reported(events'[i], group, creating.at)
  <2>1. events \in Seq(Events)
    BY DEF TypeOK
  <2>2. \A i \in DOMAIN events' : i+1 \in DOMAIN events /\ i+1 # 1 /\ events'[i] = events[i+1]
    BY <1>1, <2>1
  <2> QED BY <1>2, <2>2, Zenon DEF CreatedInv, Announced
<1>5. Announced'
  BY <1>1, <1>4 DEF Announced
<1>6. creating.at # "requested"
  BY <1>1 DEF TopicInv, Unborn
<1>7. CASE UNCHANGED portal
  BY <1>1, <1>2, <1>5, <1>6, <1>7 DEF CreatedInv, Agrees
<1>8. CASE ChatResync /\ ~UNCHANGED portal
  <2>1. portal.room # "none" /\ portal' = GetChatInfo(group.photo)
    BY <1>2, <1>8 DEF ChatResync, FetchPhoto
  <2>2. Agrees' /\ portal'.room = portal.room
    BY <1>1, <2>1, GetChatInfoAgrees
  <2>3. portal'.muted = group.muted
    BY <1>1, <2>2 DEF Agrees
  <2> QED BY <1>1, <1>2, <1>5, <1>6, <2>2, <2>3 DEF CreatedInv
<1>9. ASSUME NEW type \in GroupInfo, GroupInfoChange(type), ~UNCHANGED portal
      PROVE  CreatedInv'
  <2>1. e.type = type
    BY <1>9 DEF GroupInfoChange, Handle
  <2>2. type = "topic" /\ e.group.topic = group.topic /\ creating.at = "done"
    BY <1>3, <2>1, <1>9 DEF Reported, GroupInfo
  <2>3. portal.room = "user" /\ Agrees
    BY <1>2, <2>2 DEF CreatedInv
  <2>4. portal' = wrapGroupInfoChange("topic", e.group, portal)
    BY <1>9, <2>2, <2>3 DEF GroupInfoChange
  <2>5. portal' = [portal EXCEPT !.topic = group.topic, !.topicID = group.topic]
    BY <2>2, <2>4 DEF wrapGroupInfoChange, setTopicID, TypeOK, Portals
  <2>6. portal' = portal
    <3>1. \A p \in Portals : [p EXCEPT !.topic = p.topic, !.topicID = p.topicID] = p
      BY DEF Portals
    <3>2. portal \in Portals /\ portal.topic = group.topic /\ portal.topicID = group.topic
      BY <2>3 DEF Agrees, TypeOK
    <3> QED BY <2>5, <3>1, <3>2, Zenon
  <2> QED BY <1>9, <2>6
<1>10. CASE PictureUpdate /\ ~UNCHANGED portal
  <2>1. e.type = "picture"
    BY <1>10 DEF PictureUpdate, Handle
  <2>2. e.group.photo = group.photo /\ creating.at \in {"topic", "done"}
    BY <1>3, <2>1 DEF Reported
  <2>3. Agrees
    BY <1>2, <2>2 DEF CreatedInv
  <2> QED BY <1>10, <2>2, <2>3 DEF PictureUpdate, Agrees
<1>11. CASE JoinedGroup /\ ~UNCHANGED portal
  <2>1. e.type = "joined-group" /\ ~createDedup
    BY <1>11 DEF JoinedGroup, Handle
  <2> QED BY <1>3, <2>1 DEF Reported
<1>12. CASE ChatDelete
  BY <1>3, <1>12 DEF ChatDelete, Handle, Reported
<1>13. ASSUME NEW type \in LocalInfo, UserLocalPortalInfo(type)
       PROVE  FALSE
  BY <1>3, <1>13 DEF UserLocalPortalInfo, Handle, Reported, LocalInfo
<1> QED BY <1>7, <1>8, <1>9, <1>10, <1>11, <1>12, <1>13 DEF PortalNext

\* The queue asks for a resync, or a message makes the room before its time.
LEMMA QueueStepCreated ==
  ASSUME TypeOK, TypeOK', TopicInv, CreatedInv, Next, InTime',
         Age \/ Message \/ ViewingChat \/ ResyncQueued
  PROVE  CreatedInv'
<1>1. UNCHANGED <<group, creating, createDedup>>
  BY DEF Age, Message, ViewingChat, ResyncQueued
<1>2. InTime /\ ~Fault
  <2>1. changes = 0 /\ faults = 0 /\ ~(faults' = faults + 1)
    BY StillInTime
  <2> QED BY <1>1, <2>1 DEF InTime, Fault
<1>3. Announced'
  <2>1. \/ UNCHANGED events
        \/ events' = Append(events, [type |-> "resync", group |-> group])
    BY DEF Age, Message, ViewingChat, ResyncQueued
  <2>2. events \in Seq(Events)
    BY DEF TypeOK
  <2>3. \A i \in DOMAIN events' :
          \/ i \in DOMAIN events /\ events'[i] = events[i]
          \/ events'[i].type = "resync"
    BY <2>1, <2>2
  <2> QED BY <1>1, <1>2, <2>3 DEF CreatedInv, Announced, Reported
<1>4. CASE UNCHANGED portal
  BY <1>1, <1>2, <1>3, <1>4 DEF CreatedInv, Agrees
<1>5. CASE Message /\ portal.room = "none"
  <2>1. group.at = "here" /\ portal'.muted = group.muted
    BY <1>5, GetChatInfoShows DEF Message
  <2>2. creating.at \notin {"requested", "photo", "topic", "done"}
    BY <1>2, <1>5, <2>1 DEF CreatedInv, TopicInv
  <2> QED BY <1>1, <1>2, <1>3, <2>1, <2>2 DEF CreatedInv
<1> QED BY <1>4, <1>5 DEF Age, Message, ViewingChat, ResyncQueued

\* An event that is told first is the only one.
LEMMA FirstEvent ==
  ASSUME NEW s \in Seq(Events), Len(s) = 0, NEW e \in Events
  PROVE  \A i \in DOMAIN Append(s, e) : i = 1 /\ Append(s, e)[i] = e
<1>1. /\ Append(s, e) \in Seq(Events) /\ Len(Append(s, e)) = 1
      /\ Append(s, e)[1] = e
  BY AppendProperties
<1> QED BY <1>1

LEMMA CreateStepCreated ==
  ASSUME TypeOK, TypeOK', TopicInv, CreatedInv, Next, AddKey \/ CreateNext, InTime'
  PROVE  CreatedInv'
<1>1. creating' # Idle /\ creating'.forRoom /\ changes = 0 /\ faults = 0
      /\ ~Fault
  BY StillInTime DEF InTime, Fault
<1>2. Idle.at = "idle"
  BY DEF Idle
<1>3. CASE AddKey
  <2>1. createDedup' /\ creating'.at = "requested" /\ group.at = "none" /\ UNCHANGED events
    BY <1>1, <1>3 DEF AddKey
  <2>2. events' = <<>>
    BY <2>1 DEF TopicInv, Unborn
  <2> QED BY <2>1, <2>2 DEF CreatedInv, Announced
<1>4. ASSUME CreateNext
      PROVE  /\ creating \in [at: {"requested", "portal", "room", "photo", "topic", "done"},
                              forRoom: BOOLEAN, group: Groups]
             /\ InTime
  <2>1. creating # Idle
    BY <1>2, <1>4 DEF CreateNext, At, RequestGroup, FindPortal, UpdateMatrixRoomID,
                      SetGroupPhoto, SetGroupTopic, CreateRoom
  <2>2. creating \in [at: {"requested", "portal", "room", "photo", "topic", "done"},
                      forRoom: BOOLEAN, group: Groups]
    BY <2>1 DEF TypeOK, Creations
  <2>3. \A step : [creating EXCEPT !.at = step].forRoom = creating.forRoom
    BY <2>2
  <2>4. \A step, g : [creating EXCEPT !.at = step, !.group = g].forRoom = creating.forRoom
    BY <2>2
  <2>5. \/ creating' = Idle
        \/ \E step : creating' = [creating EXCEPT !.at = step]
        \/ \E step, g : creating' = [creating EXCEPT !.at = step, !.group = g]
    BY <1>4 DEF CreateNext, RequestGroup, FindPortal, UpdateMatrixRoomID,
                SetGroupPhoto, SetGroupTopic, CreateRoom
  <2>6. creating.forRoom
    BY <1>1, <2>3, <2>4, <2>5
  <2> QED BY <1>1, <2>1, <2>2, <2>6 DEF InTime
<1>5. CASE RequestGroup
  <2>1. /\ portal = NoPortal /\ events = <<>> /\ createDedup
    BY <1>4, <1>5 DEF RequestGroup, At, TopicInv, Unborn, CreatedInv, CreateNext
  <2>2. /\ creating' = [creating EXCEPT !.at = "portal", !.group = group']
        /\ \E timer \in 0..1, role \in {"none", "member"} :
             group' = [NoGroup EXCEPT !.at = "here", !.disappearingTimer = timer, !.role = role]
        /\ Told("joined-group", group') /\ UNCHANGED <<createDedup, portal>>
    BY <1>1, <1>5 DEF RequestGroup
  <2>3. ~group'.pinned /\ ~group'.archived /\ ~group'.muted
    BY <2>2 DEF NoGroup
  <2>4. creating'.at = "portal" /\ creating'.group = group'
    BY <1>4, <1>5, <2>2 DEF CreateNext
  <2>5. Announced'
    <3>1. \A i \in DOMAIN events' : i = 1 /\ events'[i].type = "joined-group"
      <4>1. events \in Seq(Events) /\ Len(events) = 0
        BY <2>1 DEF TypeOK
      <4> DEFINE e == [type |-> "joined-group", group |-> group']
      <4>2. events' = Append(events, e) /\ e.type = "joined-group"
        BY <2>2 DEF Told
      <4>4. e \in Events
        BY DEF TypeOK, Events, EventTypes
      <4> HIDE DEF e
      <4>3. \A i \in DOMAIN events' : i = 1 /\ events'[i] = e
        BY <4>1, <4>2, <4>4, FirstEvent, Zenon
      <4> QED BY <4>2, <4>3
    <3> QED BY <2>1, <2>2, <3>1 DEF Announced
  <2>6. portal'.muted = group'.muted
    <3>1. portal'.muted = FALSE
      BY <2>1, <2>2 DEF NoPortal
    <3>2. group'.muted = FALSE
      BY <2>2 DEF NoGroup
    <3> QED BY <3>1, <3>2
  <2> QED BY <2>3, <2>4, <2>5, <2>6 DEF CreatedInv
<1>6. CASE FindPortal
  <2>1. creating' = [creating EXCEPT !.at = "room"] /\ UNCHANGED <<group, portal, events, createDedup>>
    BY <1>1, <1>4, <1>6 DEF FindPortal, CreateNext, InTime
  <2>2. creating'.at = "room" /\ creating'.group = creating.group /\ creating.at = "portal"
    BY <1>4, <1>6, <2>1 DEF CreateNext, FindPortal, At
  <2>3. Announced'
    BY <1>4, <1>6, <2>1, <2>2 DEF CreateNext, CreatedInv, Announced, Reported
  <2> QED BY <1>4, <1>6, <2>1, <2>2, <2>3 DEF CreateNext, CreatedInv
<1>7. CASE UpdateMatrixRoomID
  <2>1. /\ creating' = [creating EXCEPT !.at = "photo"]
        /\ UNCHANGED <<group, events, createDedup>>
        /\ portal' = UpdateInfo(creating.group,
                                [portal EXCEPT !.room = "user", !.photo = group.photo])
    BY <1>1, <1>7 DEF UpdateMatrixRoomID, FetchPhoto
  <2>2. creating'.at = "photo" /\ creating.at = "room"
    BY <1>4, <1>7, <2>1 DEF CreateNext, UpdateMatrixRoomID, At
  <2>3. /\ creating.group = group /\ ~group.pinned /\ ~group.archived
        /\ portal.muted = group.muted
    BY <1>4, <1>7, <2>2 DEF CreateNext, CreatedInv
  <2> DEFINE p == [portal EXCEPT !.room = "user", !.photo = group.photo]
  <2>4. /\ p \in Portals /\ p.room = "user" /\ p.photo = group.photo
        /\ p.muted = portal.muted /\ group \in Groups
    BY DEF TypeOK, Portals, Groups
  <2>5. portal' = UpdateInfo(group, p)
    BY <2>1, <2>3
  <2> HIDE DEF p
  <2>6. Agrees' /\ portal'.room = "user"
    <3>1. group' = group /\ p.room # "none" /\ p.muted = group.muted
      BY <2>1, <2>3, <2>4
    <3> QED BY <2>3, <2>4, <2>5, <3>1, UpdateInfoAgrees
  <2>7. Announced'
    BY <1>4, <1>7, <2>1, <2>2 DEF CreateNext, CreatedInv, Announced, Reported
  <2> QED BY <2>2, <2>6, <2>7 DEF CreatedInv
<1>8. CASE SetGroupPhoto
  <2>1. /\ creating.at = "photo" /\ creating'.at = "topic" /\ UNCHANGED createDedup
        /\ portal.room = "user" /\ Agrees /\ Announced
    BY <1>4, <1>8 DEF CreateNext, SetGroupPhoto, At, CreatedInv
  <2>2. CASE UNCHANGED <<group, portal, events>>
    <3>1. Announced'
      BY <2>1, <2>2 DEF Announced, Reported
    <3> QED BY <2>1, <2>2, <3>1 DEF CreatedInv, Agrees
  <2>3. CASE /\ group' = [group EXCEPT !.photo = 1] /\ portal' = [portal EXCEPT !.photo = 1]
             /\ Told("picture", group') \/ UNCHANGED events
    <3>1. /\ group'.photo = 1 /\ group'.topic = group.topic
          /\ portal'.photo = 1 /\ portal'.room = portal.room
      BY <2>3 DEF TypeOK, Groups, Portals
    <3>5. /\ group'.name = group.name /\ group'.isAnnounce = group.isAnnounce /\ group'.isLocked = group.isLocked
          /\ group'.disappearingTimer = group.disappearingTimer /\ group'.role = group.role /\ group'.muted = group.muted
          /\ group'.pinned = group.pinned /\ group'.archived = group.archived /\ group'.topic = group.topic
      BY <2>3 DEF TypeOK, Groups
    <3>6. /\ portal'.name = portal.name /\ portal'.eventsPL = portal.eventsPL /\ portal'.metaPL = portal.metaPL
          /\ portal'.timerPL = portal.timerPL /\ portal'.joined = portal.joined /\ portal'.memberPL = portal.memberPL
          /\ portal'.disappear = portal.disappear /\ portal'.muted = portal.muted /\ portal'.tag = portal.tag
          /\ portal'.room = portal.room /\ portal'.topic = portal.topic /\ portal'.topicID = portal.topicID
      BY <2>3 DEF TypeOK, Portals
    <3>2. Agrees'
      BY <2>1, <3>1, <3>5, <3>6 DEF Agrees
    <3>3. \A i \in DOMAIN events' :
            \/ i \in DOMAIN events /\ events'[i] = events[i]
            \/ events'[i].type = "picture" /\ events'[i].group = group'
      <4>1. events \in Seq(Events)
        BY DEF TypeOK
      <4> QED BY <2>3, <4>1 DEF Told
    <3>4. Announced'
      <4> SUFFICES ASSUME NEW i \in DOMAIN events'
                   PROVE  \/ i = 1 /\ events'[i].type = "joined-group" /\ createDedup'
                          \/ Reported(events'[i], group', creating'.at)
        BY DEF Announced
      <4>1. CASE events'[i].type = "picture" /\ events'[i].group = group'
        BY <2>1, <4>1 DEF Reported
      <4>2. CASE i \in DOMAIN events /\ events'[i] = events[i]
        BY <2>1, <4>2 DEF Announced, Reported
      <4> QED BY <3>3, <4>1, <4>2
    <3> QED BY <2>1, <3>1, <3>2, <3>4 DEF CreatedInv
  <2> QED BY <1>8, <2>2, <2>3 DEF SetGroupPhoto
<1>9. CASE SetGroupTopic
  <2>1. /\ creating.at = "topic" /\ UNCHANGED createDedup
        /\ portal.room = "user" /\ Agrees /\ Announced
    BY <1>4, <1>9 DEF CreateNext, SetGroupTopic, At, CreatedInv
  <2>2. creating'.at = "done"
    BY <1>4, <1>9 DEF CreateNext, SetGroupTopic
  <2>3. CASE UNCHANGED <<group, portal, events>>
    <3>1. Announced'
      BY <2>1, <2>2, <2>3 DEF Announced, Reported
    <3> QED BY <2>1, <2>2, <2>3, <3>1 DEF CreatedInv, Agrees
  <2>4. CASE /\ group' = [group EXCEPT !.topic = topics']
             /\ portal' = [portal EXCEPT !.topic = topics', !.topicID = topics']
             /\ Told("topic", group') \/ UNCHANGED events
    <3>1. /\ group'.photo = group.photo /\ group'.topic = topics'
          /\ portal'.topic = topics' /\ portal'.topicID = topics'
      BY <2>4 DEF TypeOK, Groups, Portals
    <3>5. /\ group'.name = group.name /\ group'.isAnnounce = group.isAnnounce /\ group'.isLocked = group.isLocked
          /\ group'.disappearingTimer = group.disappearingTimer /\ group'.role = group.role /\ group'.muted = group.muted
          /\ group'.pinned = group.pinned /\ group'.archived = group.archived /\ group'.photo = group.photo
      BY <2>4 DEF TypeOK, Groups
    <3>6. /\ portal'.name = portal.name /\ portal'.eventsPL = portal.eventsPL /\ portal'.metaPL = portal.metaPL
          /\ portal'.timerPL = portal.timerPL /\ portal'.joined = portal.joined /\ portal'.memberPL = portal.memberPL
          /\ portal'.disappear = portal.disappear /\ portal'.muted = portal.muted /\ portal'.tag = portal.tag
          /\ portal'.room = portal.room /\ portal'.photo = portal.photo
      BY <2>4 DEF TypeOK, Portals
    <3>2. Agrees'
      BY <2>1, <3>1, <3>5, <3>6 DEF Agrees
    <3>3. \A i \in DOMAIN events' :
            \/ i \in DOMAIN events /\ events'[i] = events[i]
            \/ events'[i].type = "topic" /\ events'[i].group = group'
      <4>1. events \in Seq(Events)
        BY DEF TypeOK
      <4> QED BY <2>4, <4>1 DEF Told
    <3>4. Announced'
      <4> SUFFICES ASSUME NEW i \in DOMAIN events'
                   PROVE  \/ i = 1 /\ events'[i].type = "joined-group" /\ createDedup'
                          \/ Reported(events'[i], group', creating'.at)
        BY DEF Announced
      <4>1. CASE events'[i].type = "topic" /\ events'[i].group = group'
        BY <2>2, <4>1 DEF Reported
      <4>2. CASE i \in DOMAIN events /\ events'[i] = events[i]
        BY <2>1, <2>2, <3>1, <4>2 DEF Announced, Reported
      <4> QED BY <3>3, <4>1, <4>2
    <3> QED BY <2>1, <2>2, <3>2, <3>4, <3>6 DEF CreatedInv
  <2> QED BY <1>9, <2>3, <2>4 DEF SetGroupTopic
<1>10. CASE CreateRoom
  BY <1>1, <1>10 DEF CreateRoom
<1> QED BY <1>3, <1>5, <1>6, <1>7, <1>8, <1>9, <1>10 DEF CreateNext

LEMMA CreatedStep ==
  ASSUME TypeOK, TypeOK', TopicInv, CreatedInv, Next
  PROVE  CreatedInv'
<1> SUFFICES ASSUME InTime' PROVE CreatedInv'
  BY DEF CreatedInv
<1>1. /\ ~Fault /\ \A type : ~Change(type)
      /\ creating' # Idle
  BY StillInTime DEF Fault, Change, InTime
<1>2. CASE ChangeGroup \/ ChangeTopic
  BY <1>1, <1>2, Zenon DEF ChangeGroup, ChangeTopic, Elsewhere
<1>3. CASE JoinGroup
  <2>1. creating.at = "idle" /\ UNCHANGED creating
    BY <1>3 DEF JoinGroup
  <2>2. creating = Idle
    BY <2>1 DEF TypeOK, Creations
  <2> QED BY <1>1, <2>1, <2>2
<1>4. CASE RoomSetting \/ RoomTopic
  BY <1>1, <1>4, Zenon DEF RoomSetting, RoomTopic, Requested
<1>5. CASE RoomState
  BY <1>1, <1>5, Zenon DEF RoomState, Shown, Requested
<1>6. CASE Restart
  BY <1>1, <1>6 DEF Restart
<1> QED BY <1>2, <1>3, <1>4, <1>5, <1>6, PortalStepCreated, QueueStepCreated,
           CreateStepCreated DEF Next

\* However the news of its creation, messages and resyncs come between the steps
\* of CreateGroup: the room that asked for the group is the group's room in the
\* end, and shows its picture, topic, timer, members and levels as they are.
THEOREM CreationSafe == Spec => []CreatedForRoom
<1>1. Init => CreatedInv
  BY DEF Init, CreatedInv, InTime
<1>2. TypeOK /\ TypeOK' /\ TopicInv /\ CreatedInv /\ [Next]_vars => CreatedInv'
  <2> SUFFICES ASSUME TypeOK, TypeOK', TopicInv, CreatedInv, UNCHANGED vars PROVE CreatedInv'
    BY CreatedStep
  <2> QED BY DEF vars, CreatedInv, InTime, Announced, Agrees
<1>3. TypeOK /\ CreatedInv => CreatedForRoom
  BY DEF CreatedInv, InTime, CreatedForRoom, At, Idle
<1> QED BY <1>1, <1>2, <1>3, TypeCorrect, AlwaysTopicInv, PTL DEF Spec

-----------------------------------------------------------------------------
(* What a resync repairs.                                                  *)

\* The room shows the group, and the portal has nothing to handle but resyncs.
Agreed == Agrees /\ \A i \in DOMAIN events : events[i].type = "resync"

\* A resync leaves nothing to repair, and nothing comes after it on its own.
Repairs ==
  group.at = "here" /\ UNCHANGED <<changes, faults>> =>
    /\ ChatResync /\ portal.room # "none" => Agrees'
    /\ creating = Idle /\ Agreed => Agreed'
RepairsAll == [][Repairs]_vars

LEMMA ResyncAgrees ==
  ASSUME TypeOK, TypeOK', ChatResync, portal.room # "none", group.at = "here",
         UNCHANGED faults
  PROVE  Agrees'
<1>1. faults \in Nat /\ ~Fault
  BY DEF TypeOK, Fault
<1>2. PICK photo \in 0..1 : FetchPhoto(photo) /\ portal' = GetChatInfo(photo)
  BY <1>1 DEF ChatResync
<1>3. photo = group.photo /\ UNCHANGED group
  BY <1>1, <1>2 DEF FetchPhoto, ChatResync
<1> QED BY <1>2, <1>3, GetChatInfoAgrees

\* The portal's events are resyncs, which keep the room as the group is.
LEMMA AgreedHandled ==
  ASSUME TypeOK, TypeOK', PortalNext, group.at = "here", Agreed, UNCHANGED faults
  PROVE  Agreed'
<1>1. events \in Seq(Events) /\ portal.room # "none"
  BY DEF TypeOK, Agreed, Agrees
<1>2. events # <<>> /\ events' = Tail(events)
  BY PortalStepTopic
<1>3. Head(events).type = "resync"
  BY <1>1, <1>2 DEF Agreed
<1>4. ChatResync
  BY <1>3 DEF PortalNext, Handle, JoinedGroup, PictureUpdate, ChatDelete, GroupInfoChange,
              UserLocalPortalInfo, GroupInfo, LocalInfo
<1>5. \A i \in DOMAIN events' : i+1 \in DOMAIN events /\ events'[i] = events[i+1]
  BY <1>1, <1>2
<1> QED BY <1>1, <1>4, <1>5, ResyncAgrees DEF Agreed

LEMMA AgreedStep ==
  ASSUME TypeOK, TypeOK', Next, group.at = "here", Agreed, creating = Idle,
         UNCHANGED <<changes, faults>>
  PROVE  Agreed'
<1>1. /\ changes \in Nat /\ faults \in Nat
      /\ ~Fault /\ \A type : ~Change(type)
  BY DEF TypeOK, Fault, Change
<1>2. portal.room # "none"
  BY DEF Agreed, Agrees
<1>3. CASE ChangeGroup \/ ChangeTopic
  BY <1>1, <1>3, Zenon DEF ChangeGroup, ChangeTopic, Elsewhere
<1>4. CASE RoomSetting \/ RoomTopic \/ RoomState
  BY <1>1, <1>4, Zenon DEF RoomSetting, RoomTopic, RoomState, Shown, Requested
<1>5. CASE JoinGroup \/ AddKey \/ Restart
  BY <1>1, <1>5 DEF JoinGroup, AddKey, Restart
<1>6. CASE CreateNext
  BY <1>6 DEF CreateNext, RequestGroup, FindPortal, UpdateMatrixRoomID, SetGroupPhoto,
              SetGroupTopic, CreateRoom, At, Idle
<1>7. CASE PortalNext
  BY <1>7, AgreedHandled
<1>8. CASE Age \/ Message \/ ViewingChat
  BY <1>2, <1>8 DEF Age, Message, ViewingChat, Agreed, Agrees
<1>9. CASE ResyncQueued
  <2>1. UNCHANGED <<group, portal>>
    BY <1>9 DEF ResyncQueued
  <2>2. \A i \in DOMAIN events' : events'[i].type = "resync"
    <3>1. CASE UNCHANGED events
      BY <3>1 DEF Agreed
    <3>2. CASE events' = Append(events, [type |-> "resync", group |-> group])
      BY <3>2 DEF Agreed, TypeOK
    <3> QED BY <1>9, <3>1, <3>2 DEF ResyncQueued
  <2> QED BY <2>1, <2>2 DEF Agreed, Agrees
<1> QED BY <1>3, <1>4, <1>5, <1>6, <1>7, <1>8, <1>9 DEF Next

\* What Settles rests on: whatever was missed, applied late or overwritten, one
\* resync that does not fail (GetChatInfo, UpdateInfo, applyChatSettings) brings
\* the room back to the group, and no message, resync or viewing of the chat
\* disturbs it again: only changes, failures and what the portal had yet to handle.
THEOREM RepairSafe == Spec => RepairsAll
<1>1. TypeOK /\ TypeOK' /\ [Next]_vars => [Repairs]_vars
  <2> SUFFICES ASSUME TypeOK, TypeOK', Next PROVE Repairs
    OBVIOUS
  <2> QED BY ResyncAgrees, AgreedStep DEF Repairs
<1> QED BY <1>1, TypeCorrect, PTL DEF Spec, RepairsAll
=============================================================================
