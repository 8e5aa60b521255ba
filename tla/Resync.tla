------------------------------- MODULE Resync -------------------------------
(***************************************************************************)
(* How the ghost users of a contact get their names and avatars            *)
(* (connector/userinfo.go, syncGhost and HandleMatrixViewingChat).         *)
(*                                                                         *)
(* A contact has two ghosts, one for the phone number and one for the LID; *)
(* the contact store may have a row for each.  WhatsApp's events about the *)
(* contact start a syncGhost; what an event missed is repaired by the      *)
(* resync queue, which the messages of the contact fill and a loop empties *)
(* every ResyncLoopInterval.  The queue has one entry for a JID, be it for *)
(* a ghost or for the chat with the contact, whose key is the same JID.    *)
(* (ChatInfo has the resyncs of groups.)                                   *)
(*                                                                         *)
(* Names and pictures are numbered.  Two goroutines at a time write to the *)
(* ghosts: the loop, and one syncGhost (or resyncContacts).                *)
(***************************************************************************)
EXTENDS Naturals

CONSTANTS
  PN, LID,      \* the JIDs of the contact
  Unset,        \* what a ghost shows before its first sync
  MaxName, MaxPic,
  MaxChanges,   \* bound: changes of the contact, and resyncs of all contacts
  MaxFaults     \* bound: failed requests, restarts

Ghost  == {PN, LID}
DM     == PN            \* the key of the chat with the contact
alt(g) == IF g = PN THEN LID ELSE PN

ASSUME ResyncAssumption ==
  /\ PN # LID /\ MaxChanges \in Nat /\ MaxFaults \in Nat
  /\ MaxName \in Nat /\ MaxPic \in Nat /\ Unset \notin Nat

VARIABLES
  row,        \* the push name in the contact store, 0 for none
  known,      \* does the store map the LID to the phone number?
  pic,        \* the contact's picture, 0 for none
  due,        \* events whose syncGhost has not begun
  name, avatar,  \* of the ghosts
  lastSync,   \* is GhostMetadata.LastSync within ResyncMinInterval?
  queue,      \* resyncQueue
  step,       \* where the loop is
  batch,      \* the ghosts of the rotated queue that are left
  sync,       \* what each goroutine is applying
  changes, faults

contactVars == <<row, known, pic>>
ghostVars   == <<name, avatar, lastSync>>
loopVars    == <<step, batch>>
vars == <<contactVars, due, ghostVars, queue, loopVars, sync,
          changes, faults>>

Idle  == [at |-> "idle"]
Names == 0..MaxName
Pics  == 0..MaxPic
Syncs == {Idle} \cup [at: {"ghost", "alt"}, who: Ghost, name: Names,
                      picture: BOOLEAN, both: BOOLEAN]

Init ==
  /\ row \in [Ghost -> Names] /\ known = FALSE /\ pic = 0 /\ due = {}
  /\ name = [g \in Ghost |-> Unset] /\ avatar = [g \in Ghost |-> Unset]
  /\ lastSync = [g \in Ghost |-> FALSE]
  /\ queue = [g \in Ghost |-> "none"] /\ step = "wait" /\ batch = {}
  /\ sync = [p \in {"loop", "event"} |-> Idle]
  /\ changes = 0 /\ faults = 0

Fault == faults < MaxFaults /\ faults' = faults + 1

-----------------------------------------------------------------------------
(* The contact.                                                            *)

Change == changes < MaxChanges /\ changes' = changes + 1

\* A new push name is saved, and PushName, Contact or BusinessName is told.
Rename(g, n) ==
  /\ Change /\ row[g] # n /\ row' = [row EXCEPT ![g] = n]
  /\ due' = due \cup {<<g, "info">>}
  /\ UNCHANGED <<known, pic, ghostVars, queue, loopVars, sync, faults>>

\* Picture events are told of one of the JIDs.
NewPicture(g, p) ==
  /\ Change /\ pic # p /\ pic' = p
  /\ due' = due \cup {<<g, "picture">>}
  /\ UNCHANGED <<row, known, ghostVars, queue, loopVars, sync, faults>>

LearnLID ==
  /\ ~known /\ known' = TRUE
  /\ UNCHANGED <<row, pic, due, ghostVars, queue, loopVars, sync,
                 changes, faults>>

\* LastSync grows old.
Age(g) ==
  /\ lastSync[g] /\ lastSync' = [lastSync EXCEPT ![g] = FALSE]
  /\ UNCHANGED <<contactVars, due, name, avatar, queue, loopVars,
                 sync, changes, faults>>

-----------------------------------------------------------------------------
(* One sync of a ghost: read the store, update the ghost, update the other *)
(* ghost of the contact.                                                   *)

\* contactToUserInfo: what the row lacks is taken from the other row, and the
\* phone number's row wins when they differ.
contactToUserInfo(g) ==
  CASE ~known -> row[g]
    [] known /\ row[g] = 0 -> row[alt(g)]
    [] known /\ row[g] # 0 -> IF alt(g) = PN /\ row[PN] # 0 THEN row[PN] ELSE row[g]

Begin(g, picture, both) ==
  [at |-> "ghost", who |-> g, name |-> contactToUserInfo(g),
   picture |-> picture, both |-> both]

\* ghost.UpdateInfo, with updateGhostLastSyncAt and, if it was asked for,
\* fetchGhostAvatar, which may fail.
UpdateInfo(p, g) ==
  /\ name' = [name EXCEPT ![g] = sync[p].name]
  /\ lastSync' = [lastSync EXCEPT ![g] = TRUE]
  /\ \/ sync[p].picture /\ avatar' = [avatar EXCEPT ![g] = pic] /\ UNCHANGED faults
     \/ ~sync[p].picture /\ UNCHANGED <<avatar, faults>>
     \/ sync[p].picture /\ Fault /\ UNCHANGED avatar

UpdateGhost(p) ==
  /\ sync[p].at = "ghost" /\ UpdateInfo(p, sync[p].who)
  /\ sync' = [sync EXCEPT ![p] = IF @.both /\ known THEN [@ EXCEPT !.at = "alt"] ELSE Idle]
  /\ UNCHANGED <<contactVars, due, queue, loopVars, changes>>

\* syncAltGhostWithInfo.  The ghost may not be found.
UpdateAlt(p) ==
  /\ sync[p].at = "alt"
  /\ \/ UpdateInfo(p, alt(sync[p].who))
     \/ Fault /\ UNCHANGED ghostVars
  /\ sync' = [sync EXCEPT ![p] = Idle]
  /\ UNCHANGED <<contactVars, due, queue, loopVars, changes>>

\* syncGhost.  A picture event is ignored if the ghost has the picture.
syncGhost(g, what) ==
  /\ <<g, what>> \in due /\ due' = due \ {<<g, what>>}
  /\ \/ /\ what = "picture" /\ pic # 0 /\ avatar[g] = pic /\ UNCHANGED <<sync, faults>>
     \/ /\ ~(what = "picture" /\ pic # 0 /\ avatar[g] = pic) /\ sync["event"] = Idle
        /\ sync' = [sync EXCEPT !["event"] = Begin(g, what = "picture", TRUE)]
        /\ UNCHANGED faults
     \/ Fault /\ UNCHANGED sync
  /\ UNCHANGED <<contactVars, ghostVars, queue, loopVars, changes>>

\* resyncContacts, for each contact in turn.
resyncContacts(g, force) ==
  /\ Change /\ row[g] # 0 /\ sync["event"] = Idle
  /\ sync' = [sync EXCEPT !["event"] = Begin(g, force \/ avatar[g] = Unset, TRUE)]
  /\ UNCHANGED <<contactVars, due, ghostVars, queue, loopVars, faults>>

-----------------------------------------------------------------------------
(* The queue.                                                              *)

\* Mutant: a ghost that is queued counts as synced.
EnqueueMarksSynced(g) ==
  /\ queue' = IF ~lastSync[g] /\ queue[g] = "none" THEN [queue EXCEPT ![g] = "ghost"]
              ELSE queue
  /\ lastSync' = [lastSync EXCEPT ![g] = TRUE]

EnqueueGhostResync(g) ==
  /\ queue' = IF ~lastSync[g] /\ queue[g] = "none" THEN [queue EXCEPT ![g] = "ghost"]
              ELSE queue
  /\ UNCHANGED lastSync

\* GetUserInfo, which the bridge calls for the sender of a message: a ghost
\* without a name gets one at once, the others are queued.
GetUserInfo(g) ==
  /\ \/ /\ name[g] = Unset /\ sync["event"] = Idle
        /\ sync' = [sync EXCEPT !["event"] = Begin(g, avatar[g] = Unset, FALSE)]
        /\ UNCHANGED <<queue, lastSync>>
     \/ name[g] # Unset /\ EnqueueGhostResync(g) /\ queue' # queue /\ UNCHANGED sync
  /\ UNCHANGED <<contactVars, due, name, avatar, loopVars, changes,
                 faults>>

\* HandleMatrixViewingChat: the chat is queued (its LastSync is never set, so
\* it always is old), and then the ghost, which finds the chat in its place.
ViewingChat ==
  /\ queue' = IF queue[DM] = "none" THEN [queue EXCEPT ![DM] = "portal"] ELSE queue
  /\ lastSync' = IF name[DM] # Unset THEN [lastSync EXCEPT ![DM] = FALSE] ELSE lastSync
  /\ UNCHANGED <<contactVars, due, name, avatar, loopVars, sync, changes, faults>>

\* The loop's timer; rotateResyncQueue.
rotateResyncQueue ==
  /\ step = "wait" /\ \E g \in Ghost: queue[g] # "none"
  /\ queue' = [g \in Ghost |-> "none"]
  \* doGhostResync, up to its first request; a lost login drops the batch.
  /\ \/ /\ batch' = {g \in Ghost: queue[g] = "ghost" /\ ~lastSync[g]}
        /\ step' = (IF batch' = {} THEN "wait" ELSE "fetch") /\ UNCHANGED faults
     \/ Fault /\ UNCHANGED <<step, batch>>
  /\ UNCHANGED <<contactVars, due, ghostVars, sync, changes>>

\* Client.GetUserInfo for all of the batch.  It may fail, or lack some.
FetchInfos ==
  /\ step = "fetch"
  /\ \/ step' = "apply" /\ UNCHANGED <<batch, faults>>
     \/ Fault /\ step' = "wait" /\ batch' = {}
     \/ Fault /\ step' = "apply" /\ \E lack \in SUBSET batch: batch' = batch \ lack
  /\ UNCHANGED <<contactVars, due, ghostVars, queue, sync, changes>>

\* Mutant: the avatar is only fetched for a ghost that has none.
ApplyInfoOnce(g) ==
  /\ step = "apply" /\ g \in batch /\ sync["loop"] = Idle
  /\ batch' = batch \ {g}
  /\ sync' = [sync EXCEPT !["loop"] = Begin(g, pic # 0 /\ avatar[g] = Unset, TRUE)]
  /\ UNCHANGED <<contactVars, due, ghostVars, queue, step, changes, faults>>

ApplyInfo(g) ==
  /\ step = "apply" /\ g \in batch /\ sync["loop"] = Idle
  /\ batch' = batch \ {g}
  /\ sync' = [sync EXCEPT !["loop"] = Begin(g, pic # 0 /\ avatar[g] # pic, TRUE)]
  /\ UNCHANGED <<contactVars, due, ghostVars, queue, step, changes, faults>>

ResyncDone ==
  /\ step = "apply" /\ batch = {} /\ sync["loop"] = Idle /\ step' = "wait"
  /\ UNCHANGED <<contactVars, due, ghostVars, queue, batch, sync,
                 changes, faults>>

\* The bridge restarts.  LastSync may not have been saved.
Restart ==
  /\ Fault
  /\ due' = {} /\ queue' = [g \in Ghost |-> "none"] /\ step' = "wait" /\ batch' = {}
  /\ sync' = [p \in {"loop", "event"} |-> Idle]
  /\ lastSync' \in [Ghost -> BOOLEAN]
  /\ UNCHANGED <<contactVars, name, avatar, changes>>

-----------------------------------------------------------------------------
Next ==
  \/ \E g \in Ghost: \/ \E n \in Names: Rename(g, n)
                     \/ \E p \in Pics: NewPicture(g, p)
                     \/ Age(g) \/ GetUserInfo(g) \/ ApplyInfo(g)
                     \/ \E what \in {"info", "picture"}: syncGhost(g, what)
                     \/ \E force \in BOOLEAN: resyncContacts(g, force)
  \/ \E p \in {"loop", "event"}: UpdateGhost(p) \/ UpdateAlt(p)
  \/ LearnLID \/ ViewingChat \/ rotateResyncQueue \/ FetchInfos \/ ResyncDone
  \/ Restart

Spec == Init /\ [][Next]_vars

\* Goroutines run and time passes.  The contact writes again and again, from
\* its LID, also at times when nobody has just looked at the chat.
Fairness ==
  /\ \A p \in {"loop", "event"}: WF_vars(UpdateGhost(p)) /\ WF_vars(UpdateAlt(p))
  /\ \A g \in Ghost: WF_vars(Age(g)) /\ WF_vars(ApplyInfo(g))
  /\ WF_vars(rotateResyncQueue) /\ WF_vars(FetchInfos) /\ WF_vars(ResyncDone)
  /\ SF_vars(GetUserInfo(LID))

FairSpec == Spec /\ Fairness

-----------------------------------------------------------------------------
TypeOK ==
  /\ row \in [Ghost -> Names] /\ known \in BOOLEAN /\ pic \in Pics
  /\ due \subseteq Ghost \X {"info", "picture"}
  /\ name \in [Ghost -> Names \cup {Unset}] /\ avatar \in [Ghost -> Pics \cup {Unset}]
  /\ lastSync \in [Ghost -> BOOLEAN]
  /\ queue \in [Ghost -> {"none", "ghost", "portal"}]
  /\ step \in {"wait", "fetch", "apply"} /\ batch \subseteq Ghost
  /\ sync \in [{"loop", "event"} -> Syncs]
  /\ changes \in 0..MaxChanges /\ faults \in 0..MaxFaults

\* Whatever events were missed, requests failed and syncs overtook each other,
\* the ghost of a contact who keeps writing gets the contact's name, and so
\* does the other ghost of the contact once the two are known to be one.
NamesSettle ==
  <>[](\A g \in Ghost: g = LID \/ known => name[g] = contactToUserInfo(g))

\* One of the contact's ghosts also gets the contact's picture.  (The syncs of
\* one ghost can keep the other from being compared for ever, and a picture
\* that was removed is not noticed by the queue.)
AvatarsSettle == <>[](pic # 0 => \E g \in Ghost: avatar[g] = pic)
=============================================================================
