----------------------------- MODULE ResyncProofs -----------------------------
(***************************************************************************)
(* Theorems about Resync, for any names, pictures and bounds: types, and   *)
(* that a ghost keeps what it got right.  (That it gets it right is        *)
(* liveness, and left to TLC.)                                             *)
(***************************************************************************)
EXTENDS Resync, TLAPS

USE ResyncAssumption

Goroutine == {"loop", "event"}

\* What a goroutine applies is a sync, also when it goes on to the other ghost.
LEMMA BeginType ==
  ASSUME TypeOK, NEW g \in Ghost, NEW picture \in BOOLEAN, NEW both \in BOOLEAN
  PROVE  Begin(g, picture, both) \in Syncs
<1>1. alt(g) \in Ghost
  BY DEF alt, Ghost
<1>2. contactToUserInfo(g) \in Names
  BY <1>1 DEF contactToUserInfo, TypeOK
<1> QED BY <1>2 DEF Begin, Syncs

LEMMA AltType ==
  ASSUME NEW s \in Syncs, s.at # "idle"
  PROVE  [s EXCEPT !.at = "alt"] \in Syncs /\ s.who \in Ghost /\ s.name \in Names
BY DEF Syncs, Idle

\* A sync writes names and pictures of the contact to the ghosts.
LEMMA UpdateInfoType ==
  ASSUME TypeOK, NEW p \in Goroutine, NEW g \in Ghost, sync[p].at # "idle", UpdateInfo(p, g)
  PROVE  /\ name' \in [Ghost -> Names \cup {Unset}] /\ avatar' \in [Ghost -> Pics \cup {Unset}]
         /\ lastSync' \in [Ghost -> BOOLEAN] /\ faults' \in 0..MaxFaults
<1>1. sync[p].name \in Names
  BY AltType DEF TypeOK, Goroutine
<1> QED BY <1>1 DEF TypeOK, UpdateInfo, Fault

LEMMA GhostStepType ==
  ASSUME TypeOK, NEW p \in Goroutine, UpdateGhost(p) \/ UpdateAlt(p)
  PROVE  TypeOK'
<1>1. sync[p].at # "idle" /\ sync[p] \in Syncs
  BY DEF UpdateGhost, UpdateAlt, TypeOK, Goroutine
<1>2. sync[p].who \in Ghost /\ alt(sync[p].who) \in Ghost
  BY <1>1, AltType DEF alt, Ghost
<1>3. sync' \in [Goroutine -> Syncs]
  <2>1. Idle \in Syncs /\ [sync[p] EXCEPT !.at = "alt"] \in Syncs
    BY <1>1, AltType DEF Syncs
  <2> QED BY <2>1 DEF UpdateGhost, UpdateAlt, TypeOK, Goroutine
<1>4. /\ name' \in [Ghost -> Names \cup {Unset}] /\ avatar' \in [Ghost -> Pics \cup {Unset}]
      /\ lastSync' \in [Ghost -> BOOLEAN] /\ faults' \in 0..MaxFaults
  BY <1>1, <1>2, UpdateInfoType DEF UpdateGhost, UpdateAlt, ghostVars, Fault, TypeOK
<1>5. UNCHANGED <<row, known, pic, due, queue, step, batch, changes>>
  BY DEF UpdateGhost, UpdateAlt, contactVars, loopVars
<1> QED BY <1>3, <1>4, <1>5 DEF TypeOK, Goroutine

LEMMA ContactStepType ==
  ASSUME TypeOK, NEW g \in Ghost,
         \/ \E n \in Names : Rename(g, n)
         \/ \E p \in Pics : NewPicture(g, p)
         \/ LearnLID \/ Age(g)
  PROVE  TypeOK'
<1> USE DEF TypeOK, Change, ghostVars, loopVars, contactVars
<1>1. CASE \E n \in Names : Rename(g, n) BY <1>1 DEF Rename
<1>2. CASE \E p \in Pics : NewPicture(g, p) BY <1>2 DEF NewPicture
<1>3. CASE LearnLID
  <2>1. known' \in BOOLEAN
    BY <1>3, Zenon DEF LearnLID
  <2> QED BY <1>3, <2>1 DEF LearnLID
<1>4. CASE Age(g) BY <1>4 DEF Age
<1> QED BY <1>1, <1>2, <1>3, <1>4

LEMMA SyncStepType ==
  ASSUME TypeOK, NEW g \in Ghost,
         \/ \E what \in {"info", "picture"} : syncGhost(g, what)
         \/ \E force \in BOOLEAN : resyncContacts(g, force)
         \/ GetUserInfo(g) \/ ApplyInfo(g)
  PROVE  TypeOK'
<1> USE DEF TypeOK, Fault, Change, ghostVars, loopVars, contactVars
<1>1. \A picture \in BOOLEAN, both \in BOOLEAN : Begin(g, picture, both) \in Syncs
  BY BeginType
<1> HIDE DEF TypeOK
<1>2. sync' \in [Goroutine -> Syncs]
  <2>1. sync \in [Goroutine -> Syncs]
    BY DEF TypeOK, Goroutine
  <2>2. \/ UNCHANGED sync
        \/ \E p \in Goroutine, picture \in BOOLEAN, both \in BOOLEAN :
             sync' = [sync EXCEPT ![p] = Begin(g, picture, both)]
    <3>1. CASE \E what \in {"info", "picture"} : syncGhost(g, what)
      BY <3>1 DEF syncGhost, Goroutine
    <3>2. CASE \E force \in BOOLEAN : resyncContacts(g, force)
      BY <3>2 DEF resyncContacts, Goroutine
    <3>3. CASE GetUserInfo(g)
      BY <3>3 DEF GetUserInfo, Goroutine
    <3>4. CASE ApplyInfo(g)
      BY <3>4 DEF ApplyInfo, Goroutine
    <3> QED BY <3>1, <3>2, <3>3, <3>4
  <2> QED BY <1>1, <2>1, <2>2
<1>3. CASE \E what \in {"info", "picture"} : syncGhost(g, what)
  <2>1. UNCHANGED <<row, known, pic, name, avatar, lastSync, queue, step, batch, changes>>
    BY <1>3 DEF syncGhost
  <2>2. due' \subseteq due
    BY <1>3 DEF syncGhost
  <2>3. faults' = faults \/ Fault
    BY <1>3 DEF syncGhost
  <2>4. faults' \in 0..MaxFaults
    BY <2>3 DEF TypeOK
  <2> QED BY <1>2, <2>1, <2>2, <2>4 DEF TypeOK, Goroutine
<1>4. CASE \E force \in BOOLEAN : resyncContacts(g, force)
  <2>1. UNCHANGED <<row, known, pic, due, name, avatar, lastSync, queue, step, batch, faults>>
    BY <1>4 DEF resyncContacts
  <2>2. changes' \in 0..MaxChanges
    BY <1>4 DEF resyncContacts, TypeOK
  <2> QED BY <1>2, <2>1, <2>2 DEF TypeOK, Goroutine
<1>5. CASE GetUserInfo(g)
  BY <1>2, <1>5 DEF GetUserInfo, EnqueueGhostResync, TypeOK, Goroutine
<1>6. CASE ApplyInfo(g)
  BY <1>2, <1>6 DEF ApplyInfo, TypeOK, Goroutine
<1> QED BY <1>3, <1>4, <1>5, <1>6

LEMMA QueueStepType ==
  ASSUME TypeOK, ViewingChat \/ rotateResyncQueue \/ FetchInfos \/ ResyncDone \/ Restart
  PROVE  TypeOK'
<1> USE DEF TypeOK, Fault, ghostVars, loopVars, contactVars
<1>1. CASE ViewingChat       BY <1>1 DEF ViewingChat, DM, Ghost
<1>2. CASE rotateResyncQueue BY <1>2 DEF rotateResyncQueue
<1>3. CASE FetchInfos        BY <1>3 DEF FetchInfos
<1>4. CASE ResyncDone        BY <1>4 DEF ResyncDone
<1>5. CASE Restart           BY <1>5 DEF Restart, Syncs
<1> QED BY <1>1, <1>2, <1>3, <1>4, <1>5

\* The queue, the batch and the syncs under way only ever hold ghosts of the
\* contact, and the ghosts names and pictures that the contact had, whatever
\* events, requests and restarts do to the syncs.
THEOREM TypeCorrect == Spec => []TypeOK
<1>1. Init => TypeOK
  <2> SUFFICES ASSUME Init PROVE TypeOK
    OBVIOUS
  <2>1. known \in BOOLEAN
    BY Zenon DEF Init
  <2> QED BY <2>1 DEF Init, TypeOK, Names, Pics, Syncs
<1>2. TypeOK /\ [Next]_vars => TypeOK'
  <2> SUFFICES ASSUME TypeOK, [Next]_vars PROVE TypeOK'
    OBVIOUS
  <2>1. CASE UNCHANGED vars
    BY <2>1 DEF vars, contactVars, ghostVars, loopVars, TypeOK
  <2>2. CASE Next
    <3>1. Ghost # {}
      BY DEF Ghost
    <3> QED BY <2>2, <3>1, GhostStepType, ContactStepType, SyncStepType, QueueStepType
            DEF Next, Goroutine
  <2> QED BY <2>1, <2>2
<1> QED BY <1>1, <1>2, PTL DEF Spec

-----------------------------------------------------------------------------
(* What settles stays settled.                                             *)

\* Does the sync of p still have g to write to?
Brings(p, g) ==
  \/ sync[p].at = "ghost" /\ (sync[p].who = g \/ (sync[p].both /\ known))
  \/ sync[p].at = "alt" /\ alt(sync[p].who) = g

\* The ghost has the contact's name, and no sync brings it an older one.
Settled(g) ==
  /\ name[g] = contactToUserInfo(g)
  /\ \A p \in Goroutine : Brings(p, g) => sync[p].name = contactToUserInfo(g)

\* The name, once settled, and the picture change only with the contact's.
StaysSettled ==
  \A g \in Ghost :
    /\ Settled(g) /\ UNCHANGED <<row, known>> => Settled(g)'
    /\ avatar[g] = pic /\ UNCHANGED pic => avatar'[g] = pic
ContactStays == [][StaysSettled]_vars

\* The rows of a contact whose ghosts are known to be one agree on its name.
LEMMA OneName ==
  ASSUME known, NEW g \in Ghost, NEW h \in Ghost
  PROVE  contactToUserInfo(g) = contactToUserInfo(h)
BY DEF contactToUserInfo, alt, Ghost

LEMMA AltOf ==
  ASSUME NEW g \in Ghost
  PROVE  alt(g) \in Ghost /\ alt(alt(g)) = g /\ \A h \in Ghost : h = g \/ h = alt(g)
BY DEF alt, Ghost

\* A new sync brings what the store says now.
LEMMA BegunRight ==
  ASSUME TypeOK, NEW p \in Goroutine, NEW w \in Ghost, NEW picture \in BOOLEAN,
         NEW both \in BOOLEAN, sync' = [sync EXCEPT ![p] = Begin(w, picture, both)],
         UNCHANGED <<row, known, name>>, NEW g \in Ghost, Settled(g)
  PROVE  Settled(g)'
<1>1. contactToUserInfo(g)' = contactToUserInfo(g)
  BY DEF contactToUserInfo
<1>2. ASSUME NEW q \in Goroutine, Brings(q, g)'
      PROVE  sync'[q].name = contactToUserInfo(g)
  <2>1. CASE q = p
    <3>1. sync'[q] = Begin(w, picture, both)
      BY <2>1 DEF TypeOK, Goroutine
    <3>2. /\ sync'[q].at = "ghost" /\ sync'[q].who = w /\ sync'[q].both = both
          /\ sync'[q].name = contactToUserInfo(w)
      BY <3>1 DEF Begin
    <3>3. w = g \/ known
      BY <1>2, <3>2 DEF Brings
    <3> QED BY <3>2, <3>3, OneName
  <2>2. CASE q # p
    <3>1. sync'[q] = sync[q]
      BY <2>2 DEF TypeOK, Goroutine
    <3>2. Brings(q, g)
      BY <1>2, <3>1 DEF Brings
    <3> QED BY <3>1, <3>2 DEF Settled
  <2> QED BY <2>1, <2>2
<1> QED BY <1>1, <1>2 DEF Settled

\* A sync that has written to one ghost goes on with the same name, or is over.
LEMMA WrittenRight ==
  ASSUME TypeOK, NEW p \in Goroutine, UpdateGhost(p) \/ UpdateAlt(p),
         NEW g \in Ghost, Settled(g)
  PROVE  Settled(g)'
<1>1. UNCHANGED <<row, known>> /\ sync[p] \in Syncs /\ sync[p].at # "idle"
  BY DEF UpdateGhost, UpdateAlt, contactVars, TypeOK, Goroutine
<1>2. sync[p].who \in Ghost
  BY <1>1, AltType
<1>3. contactToUserInfo(g)' = contactToUserInfo(g)
  BY <1>1 DEF contactToUserInfo
<1>4. name'[g] = contactToUserInfo(g)
  <2>1. CASE UNCHANGED name
    BY <2>1 DEF Settled
  <2>2. CASE UpdateGhost(p) /\ sync[p].who = g
    <3>1. name'[g] = sync[p].name /\ Brings(p, g)
      BY <2>2 DEF UpdateGhost, UpdateInfo, TypeOK, Brings
    <3> QED BY <3>1 DEF Settled
  <2>3. CASE UpdateAlt(p) /\ UpdateInfo(p, alt(sync[p].who)) /\ alt(sync[p].who) = g
    <3>1. name'[g] = sync[p].name /\ Brings(p, g)
      BY <2>3 DEF UpdateAlt, UpdateInfo, TypeOK, Brings
    <3> QED BY <3>1 DEF Settled
  <2>4. CASE \E h \in Ghost : h # g /\ UpdateInfo(p, h)
    <3>1. name'[g] = name[g]
      BY <2>4 DEF UpdateInfo, TypeOK
    <3> QED BY <3>1 DEF Settled
  <2> QED BY <1>2, <2>1, <2>2, <2>3, <2>4, AltOf DEF UpdateGhost, UpdateAlt, ghostVars
<1>5. ASSUME NEW q \in Goroutine, Brings(q, g)'
      PROVE  sync'[q].name = contactToUserInfo(g)
  <2>1. CASE sync'[q] = sync[q]
    <3>1. Brings(q, g)
      BY <1>1, <1>5, <2>1 DEF Brings
    <3> QED BY <2>1, <3>1 DEF Settled
  <2>2. CASE sync'[q] = Idle
    BY <1>5, <2>2 DEF Brings, Idle
  <2>3. CASE q = p /\ UpdateGhost(p) /\ sync[p].both /\ known
    <3>1. sync'[p] = [sync[p] EXCEPT !.at = "alt"]
      BY <2>3 DEF UpdateGhost, TypeOK, Goroutine
    <3>2. sync'[p].name = sync[p].name
      BY <1>1, <3>1 DEF Syncs, Idle
    <3>3. Brings(p, g)
      BY <2>3 DEF UpdateGhost, Brings
    <3> QED BY <2>3, <3>2, <3>3 DEF Settled
  <2> QED BY <2>1, <2>2, <2>3 DEF UpdateGhost, UpdateAlt, TypeOK, Goroutine
<1> QED BY <1>3, <1>4, <1>5 DEF Settled

\* Everything else leaves the names and the syncs alone, or begins a sync.
LEMMA SettledStep ==
  ASSUME TypeOK, [Next]_vars, UNCHANGED <<row, known>>, NEW g \in Ghost, Settled(g)
  PROVE  Settled(g)'
<1>1. CASE UNCHANGED <<name, sync>>
  BY <1>1 DEF Settled, Brings, contactToUserInfo
<1>2. CASE \E p \in Goroutine, w \in Ghost, picture \in BOOLEAN, both \in BOOLEAN :
             /\ sync' = [sync EXCEPT ![p] = Begin(w, picture, both)]
             /\ UNCHANGED name
  BY <1>2, BegunRight
<1>3. CASE \E p \in Goroutine : UpdateGhost(p) \/ UpdateAlt(p)
  BY <1>3, WrittenRight
<1>4. CASE Restart
  <2>1. UNCHANGED name /\ \A p \in Goroutine : sync'[p] = Idle
    BY <1>4 DEF Restart, Goroutine
  <2> QED BY <2>1 DEF Settled, Brings, Idle, contactToUserInfo
<1>5. CASE \E w \in Ghost :
             \/ \E n \in Names : Rename(w, n)
             \/ \E p \in Pics : NewPicture(w, p)
             \/ Age(w)
  BY <1>1, <1>5 DEF Rename, NewPicture, Age, ghostVars
<1>6. CASE \E w \in Ghost : GetUserInfo(w) \/ ApplyInfo(w)
  BY <1>1, <1>2, <1>6 DEF GetUserInfo, ApplyInfo, ghostVars, Goroutine
<1>7. CASE \E w \in Ghost :
             \/ \E what \in {"info", "picture"} : syncGhost(w, what)
             \/ \E force \in BOOLEAN : resyncContacts(w, force)
  BY <1>1, <1>2, <1>7 DEF syncGhost, resyncContacts, ghostVars, Goroutine
<1>8. CASE LearnLID \/ ViewingChat \/ rotateResyncQueue \/ FetchInfos \/ ResyncDone
  BY <1>1, <1>8 DEF LearnLID, ViewingChat, rotateResyncQueue, FetchInfos, ResyncDone, ghostVars
<1> QED BY <1>1, <1>3, <1>4, <1>5, <1>6, <1>7, <1>8 DEF Next, Goroutine, vars, ghostVars

LEMMA AvatarStep ==
  ASSUME TypeOK, [Next]_vars, UNCHANGED pic, NEW g \in Ghost, avatar[g] = pic
  PROVE  avatar'[g] = pic
<1>1. CASE UNCHANGED avatar
  BY <1>1
<1>2. CASE \E p \in Goroutine, h \in Ghost : avatar' = [avatar EXCEPT ![h] = pic]
  BY <1>2 DEF TypeOK
<1>3. CASE \E p \in Goroutine : UpdateGhost(p) \/ UpdateAlt(p)
  <2>1. PICK p \in Goroutine : UpdateGhost(p) \/ UpdateAlt(p)
    BY <1>3
  <2>2. sync[p].who \in Ghost
    BY <2>1, AltType DEF UpdateGhost, UpdateAlt, TypeOK, Goroutine
  <2>3. alt(sync[p].who) \in Ghost
    BY <2>2, AltOf
  <2> QED BY <1>1, <1>2, <2>1, <2>2, <2>3 DEF UpdateGhost, UpdateAlt, UpdateInfo, ghostVars
<1>4. CASE ~\E p \in Goroutine : UpdateGhost(p) \/ UpdateAlt(p)
  BY <1>1, <1>4 DEF Next, Goroutine, vars, ghostVars, Rename, NewPicture, Age, GetUserInfo,
       ApplyInfo, syncGhost, resyncContacts, LearnLID, ViewingChat, rotateResyncQueue,
       FetchInfos, ResyncDone, Restart
<1> QED BY <1>3, <1>4

\* What NamesSettle and AvatarsSettle rest on: however many syncs of the two
\* ghosts run at a time (syncGhost, the loop, resyncContacts), fail or restart,
\* none takes a ghost's name away again that is the contact's, unless it began
\* before the contact had it, and none its picture.
THEOREM SettledSafe == Spec => ContactStays
<1>1. TypeOK /\ [Next]_vars => StaysSettled
  BY SettledStep, AvatarStep DEF StaysSettled
<1> QED BY <1>1, TypeCorrect, PTL DEF Spec, ContactStays
=============================================================================
