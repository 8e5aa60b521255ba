-------------------------- MODULE HistorySyncProofs --------------------------
(***************************************************************************)
(* Theorems about HistorySync, for every value of its constants.           *)
(***************************************************************************)
EXTENDS HistorySync, TLAPS

-----------------------------------------------------------------------------
(* Type correctness, one part of TypeOK at a time.                         *)

\* The tables: conversation rows, message rows and notification rows.
LEMMA TypeTablesStep == ASSUME TypeOK, [Next]_vars PROVE TypeTables'
<1> USE HistorySyncAssumption
    DEF Fault, dbVars, loginVars, handlerVars, wakeVars, mainVars,
        timerVars, creatorVars, roundVars, bounds
<1>0. TypeTables /\ TypeMain /\ TypeCreator
  BY DEF TypeOK
<1> USE DEF TypeTables, TypeMain, TypeCreator
<1>1. CASE HandlerNext
  BY <1>0, <1>1 DEF HandlerNext, Announce, SendWakeup, Deliver
<1>2. CASE MainNext
  <2>1. CASE TakeWakeup BY <1>0, <2>1 DEF TakeWakeup
  <2>2. CASE QueryQueue BY <1>0, <2>2 DEF QueryQueue
  <2>3. CASE StoreTxn BY <1>0, <2>3 DEF StoreTxn, StoredBy, OwedBy, Storable
  <2>4. CASE TakePayload BY <1>0, <2>4 DEF TakePayload, Storable
  <2>5. CASE \E c \in Chat : StoreConv(c) BY <1>0, <2>5 DEF StoreConv, StoredBy, OwedBy
  <2>6. CASE StoreDone BY <1>0, <2>6 DEF StoreDone
  <2>7. CASE Settle BY <1>0, <2>7 DEF Settle
  <2>8. CASE LoadPending BY <1>0, <2>8 DEF LoadPending
  <2>9. CASE ResetTimer BY <1>0, <2>9 DEF ResetTimer
  <2> QED BY <1>2, <2>1, <2>2, <2>3, <2>4, <2>5, <2>6, <2>7, <2>8, <2>9 DEF MainNext
<1>3. CASE LingerNext
  BY <1>0, <1>3 DEF LingerNext, LingerReturn, LingerSteal, LingerExit
<1>4. CASE CreatorNext
  BY <1>0, <1>4 DEF CreatorNext, Tick, ClearPending, QueryFails, StartRound,
           SkipChat, DropChat, RateLimited, QueueResync, AbortRound,
           FinishRound, Idle, WgDone, Recent
<1>5. CASE PortalNext
  BY <1>0, <1>5 DEF PortalNext, HandleResync, LoseResync, WgDone
<1>6. CASE WaiterNext
  BY <1>0, <1>6 DEF WaiterNext, RoundDone
<1>7. CASE LifecycleNext
  BY <1>0, <1>7 DEF LifecycleNext, StartLoops, StopLoops, Crash, Restart,
           SaveLogin, EnterLoops, AbandonCurrent, OrphanCurrent, OrphanRounds
<1>8. CASE UNCHANGED vars
  BY <1>0, <1>8 DEF vars
<1> QED BY <1>1, <1>2, <1>3, <1>4, <1>5, <1>6, <1>7, <1>8 DEF Next

\* The Boolean variables of the login, the handler and the loops.
LEMMA TypeFlagsStep == ASSUME TypeOK, [Next]_vars PROVE TypeFlags'
<1> USE HistorySyncAssumption
    DEF Fault, dbVars, loginVars, handlerVars, wakeVars, mainVars,
        timerVars, creatorVars, roundVars, bounds
<1>0. TypeFlags
  BY DEF TypeOK
<1> USE DEF TypeFlags
<1>1. CASE HandlerNext
  <2>1. CASE \E p \in Payload : Announce(p) BY <1>0, <2>1 DEF Announce
  <2>2. CASE \E p \in Payload : Deliver(p) BY <1>0, <2>2 DEF Deliver
  <2>3. CASE SendWakeup BY <1>0, <2>3 DEF SendWakeup
  <2> QED BY <1>1, <2>1, <2>2, <2>3 DEF HandlerNext
<1>2. CASE MainNext
  <2>1. CASE TakeWakeup BY <1>0, <2>1 DEF TakeWakeup
  <2>2. CASE QueryQueue BY <1>0, <2>2 DEF QueryQueue
  <2>3. CASE StoreTxn
    <3>1. reset' = FALSE \/ reset' = (job \in Resetting)
      BY <2>3, Zenon DEF StoreTxn
    <3>2. CASE reset' = FALSE BY <1>0, <2>3, <3>2 DEF StoreTxn
    <3>3. CASE reset' = (job \in Resetting)
      <4>1. reset' \in BOOLEAN BY <3>3
      <4> QED BY <1>0, <2>3, <4>1 DEF StoreTxn
    <3> QED BY <3>1, <3>2, <3>3
  <2>4. CASE TakePayload BY <1>0, <2>4 DEF TakePayload, Storable
  <2>5. CASE \E c \in Chat : StoreConv(c) BY <1>0, <2>5 DEF StoreConv, StoredBy, OwedBy
  <2>6. CASE StoreDone BY <1>0, <2>6 DEF StoreDone
  <2>7. CASE Settle BY <1>0, <2>7 DEF Settle
  <2>8. CASE LoadPending BY <1>0, <2>8 DEF LoadPending
  <2>9. CASE ResetTimer BY <1>0, <2>9 DEF ResetTimer
  <2> QED BY <1>2, <2>1, <2>2, <2>3, <2>4, <2>5, <2>6, <2>7, <2>8, <2>9 DEF MainNext
<1>3. CASE LingerNext
  <2>1. CASE LingerReturn BY <1>0, <2>1 DEF LingerReturn
  <2>2. CASE LingerSteal BY <1>0, <2>2 DEF LingerSteal
  <2>3. CASE LingerExit BY <1>0, <2>3 DEF LingerExit
  <2> QED BY <1>3, <2>1, <2>2, <2>3 DEF LingerNext
<1>4. CASE CreatorNext
  <2>1. CASE Tick BY <1>0, <2>1 DEF Tick, Idle, WgDone
  <2>2. CASE ClearPending BY <1>0, <2>2 DEF ClearPending, Idle, WgDone
  <2>3. CASE QueryFails BY <1>0, <2>3 DEF QueryFails, Idle, WgDone
  <2>4. CASE \E r \in Round : StartRound(r) BY <1>0, <2>4 DEF StartRound, Idle, WgDone
  <2>5. CASE \E c \in Chat : SkipChat(c) BY <1>0, <2>5 DEF SkipChat, Idle, WgDone
  <2>6. CASE \E c \in Chat : DropChat(c) BY <1>0, <2>6 DEF DropChat, Idle, WgDone
  <2>7. CASE \E c \in Chat : RateLimited(c) BY <1>0, <2>7 DEF RateLimited, Idle, WgDone
  <2>8. CASE \E c \in Chat : QueueResync(c) BY <1>0, <2>8 DEF QueueResync, Idle, WgDone
  <2>9. CASE AbortRound BY <1>0, <2>9 DEF AbortRound, Idle, WgDone
  <2>10. CASE FinishRound BY <1>0, <2>10 DEF FinishRound, Idle, WgDone
  <2> QED BY <1>4, <2>1, <2>2, <2>3, <2>4, <2>5, <2>6, <2>7, <2>8, <2>9, <2>10 DEF CreatorNext
<1>5. CASE PortalNext
  BY <1>0, <1>5 DEF PortalNext, HandleResync, LoseResync, WgDone
<1>6. CASE WaiterNext
  BY <1>0, <1>6 DEF WaiterNext, RoundDone
<1>7. CASE LifecycleNext
  <2>1. CASE SaveLogin BY <1>0, <2>1 DEF SaveLogin
  <2>2. CASE StartLoops BY <1>0, <2>2 DEF StartLoops, EnterLoops
  <2>3. CASE StopLoops BY <1>0, <2>3 DEF StopLoops, AbandonCurrent, OrphanCurrent
  <2>4. CASE Crash BY <1>0, <2>4 DEF Crash, OrphanRounds
  <2>5. CASE Restart BY <1>0, <2>5 DEF Restart, EnterLoops
  <2> QED BY <1>7, <2>1, <2>2, <2>3, <2>4, <2>5 DEF LifecycleNext
<1>8. CASE UNCHANGED vars
  BY <1>0, <1>8 DEF vars
<1> QED BY <1>1, <1>2, <1>3, <1>4, <1>5, <1>6, <1>7, <1>8 DEF Next

\* The payloads WhatsApp has and those in the historySyncs channel.
LEMMA TypeChannelsStep == ASSUME TypeOK, [Next]_vars PROVE TypeChannels'
<1> USE HistorySyncAssumption
    DEF Fault, dbVars, loginVars, handlerVars, wakeVars, mainVars,
        timerVars, creatorVars, roundVars, bounds
<1>0. TypeChannels
  BY DEF TypeOK
<1> USE DEF TypeChannels
<1>1. CASE HandlerNext
  BY <1>0, <1>1 DEF HandlerNext, Announce, SendWakeup, Deliver
<1>2. CASE MainNext
  <2>1. CASE TakeWakeup BY <1>0, <2>1 DEF TakeWakeup
  <2>2. CASE QueryQueue BY <1>0, <2>2 DEF QueryQueue
  <2>3. CASE StoreTxn BY <1>0, <2>3 DEF StoreTxn, StoredBy, OwedBy, Storable
  <2>4. CASE TakePayload BY <1>0, <2>4 DEF TakePayload, Storable
  <2>5. CASE \E c \in Chat : StoreConv(c) BY <1>0, <2>5 DEF StoreConv, StoredBy, OwedBy
  <2>6. CASE StoreDone BY <1>0, <2>6 DEF StoreDone
  <2>7. CASE Settle BY <1>0, <2>7 DEF Settle
  <2>8. CASE LoadPending BY <1>0, <2>8 DEF LoadPending
  <2>9. CASE ResetTimer BY <1>0, <2>9 DEF ResetTimer
  <2> QED BY <1>2, <2>1, <2>2, <2>3, <2>4, <2>5, <2>6, <2>7, <2>8, <2>9 DEF MainNext
<1>3. CASE LingerNext
  BY <1>0, <1>3 DEF LingerNext, LingerReturn, LingerSteal, LingerExit
<1>4. CASE CreatorNext
  BY <1>0, <1>4 DEF CreatorNext, Tick, ClearPending, QueryFails, StartRound,
           SkipChat, DropChat, RateLimited, QueueResync, AbortRound,
           FinishRound, Idle, WgDone, Recent
<1>5. CASE PortalNext
  BY <1>0, <1>5 DEF PortalNext, HandleResync, LoseResync, WgDone
<1>6. CASE WaiterNext
  BY <1>0, <1>6 DEF WaiterNext, RoundDone
<1>7. CASE LifecycleNext
  <2>1. CASE StartLoops BY <1>0, <2>1 DEF StartLoops, EnterLoops
  <2>2. CASE StopLoops BY <1>0, <2>2 DEF StopLoops
  <2>3. CASE Crash BY <1>0, <2>3 DEF Crash
  <2>4. CASE Restart BY <1>0, <2>4 DEF Restart, EnterLoops
  <2>5. CASE SaveLogin BY <1>0, <2>5 DEF SaveLogin
  <2> QED BY <1>7, <2>1, <2>2, <2>3, <2>4, <2>5 DEF LifecycleNext
<1>8. CASE UNCHANGED vars
  BY <1>0, <1>8 DEF vars
<1> QED BY <1>1, <1>2, <1>3, <1>4, <1>5, <1>6, <1>7, <1>8 DEF Next

\* The main loop, and a main loop that outlived its context.
LEMMA TypeMainStep == ASSUME TypeOK, [Next]_vars PROVE TypeMain'
<1> USE HistorySyncAssumption
    DEF Fault, dbVars, loginVars, handlerVars, wakeVars, mainVars,
        timerVars, creatorVars, roundVars, bounds
<1>0. TypeMain /\ TypeTables /\ TypeChannels
  BY DEF TypeOK
<1> USE DEF TypeMain, TypeTables, TypeChannels
<1>1. CASE HandlerNext
  BY <1>0, <1>1 DEF HandlerNext, Announce, SendWakeup, Deliver
<1>2. CASE MainNext
  <2>1. CASE TakeWakeup BY <1>0, <2>1 DEF TakeWakeup
  <2>2. CASE QueryQueue BY <1>0, <2>2 DEF QueryQueue
  <2>3. CASE StoreTxn BY <1>0, <2>3 DEF StoreTxn, StoredBy, OwedBy, Storable
  <2>4. CASE TakePayload BY <1>0, <2>4 DEF TakePayload, Storable
  <2>5. CASE \E c \in Chat : StoreConv(c) BY <1>0, <2>5 DEF StoreConv, StoredBy, OwedBy
  <2>6. CASE StoreDone BY <1>0, <2>6 DEF StoreDone
  <2>7. CASE Settle BY <1>0, <2>7 DEF Settle
  <2>8. CASE LoadPending BY <1>0, <2>8 DEF LoadPending
  <2>9. CASE ResetTimer BY <1>0, <2>9 DEF ResetTimer
  <2> QED BY <1>2, <2>1, <2>2, <2>3, <2>4, <2>5, <2>6, <2>7, <2>8, <2>9 DEF MainNext
<1>3. CASE LingerNext
  BY <1>0, <1>3 DEF LingerNext, LingerReturn, LingerSteal, LingerExit
<1>4. CASE CreatorNext
  BY <1>0, <1>4 DEF CreatorNext, Tick, ClearPending, QueryFails, StartRound,
           SkipChat, DropChat, RateLimited, QueueResync, AbortRound,
           FinishRound, Idle, WgDone, Recent
<1>5. CASE PortalNext
  BY <1>0, <1>5 DEF PortalNext, HandleResync, LoseResync, WgDone
<1>6. CASE WaiterNext
  BY <1>0, <1>6 DEF WaiterNext, RoundDone
<1>7. CASE LifecycleNext
  BY <1>0, <1>7 DEF LifecycleNext, StartLoops, StopLoops, Crash, Restart,
           SaveLogin, EnterLoops, AbandonCurrent, OrphanCurrent, OrphanRounds
<1>8. CASE UNCHANGED vars
  BY <1>0, <1>8 DEF vars
<1> QED BY <1>1, <1>2, <1>3, <1>4, <1>5, <1>6, <1>7, <1>8 DEF Next

\* The portal loop.
LEMMA TypeCreatorStep == ASSUME TypeOK, [Next]_vars PROVE TypeCreator'
<1> USE HistorySyncAssumption
    DEF Fault, dbVars, loginVars, handlerVars, wakeVars, mainVars,
        timerVars, creatorVars, roundVars, bounds
<1>0. TypeCreator /\ TypeTables
  BY DEF TypeOK
<1> USE DEF TypeCreator, TypeTables
<1>1. CASE HandlerNext
  BY <1>0, <1>1 DEF HandlerNext, Announce, SendWakeup, Deliver
<1>2. CASE MainNext
  BY <1>0, <1>2 DEF MainNext, TakeWakeup, QueryQueue, StoreTxn, TakePayload,
           StoreConv, StoreDone, Settle, LoadPending, ResetTimer, Storable
<1>3. CASE LingerNext
  BY <1>0, <1>3 DEF LingerNext, LingerReturn, LingerSteal, LingerExit
<1>4. CASE CreatorNext
  BY <1>0, <1>4 DEF CreatorNext, Tick, ClearPending, QueryFails, StartRound,
           SkipChat, DropChat, RateLimited, QueueResync, AbortRound,
           FinishRound, Idle, WgDone, Recent
<1>5. CASE PortalNext
  BY <1>0, <1>5 DEF PortalNext, HandleResync, LoseResync, WgDone
<1>6. CASE WaiterNext
  BY <1>0, <1>6 DEF WaiterNext, RoundDone
<1>7. CASE LifecycleNext
  BY <1>0, <1>7 DEF LifecycleNext, StartLoops, StopLoops, Crash, Restart,
           SaveLogin, EnterLoops, AbandonCurrent, OrphanCurrent, OrphanRounds
<1>8. CASE UNCHANGED vars
  BY <1>0, <1>8 DEF vars
<1> QED BY <1>1, <1>2, <1>3, <1>4, <1>5, <1>6, <1>7, <1>8 DEF Next

\* The rounds and the ChatResync events of each.
LEMMA TypeRoundsStep == ASSUME TypeOK, [Next]_vars PROVE TypeRounds'
<1> USE HistorySyncAssumption
    DEF Fault, dbVars, loginVars, handlerVars, wakeVars, mainVars,
        timerVars, creatorVars, roundVars, bounds
<1>0. TypeRounds /\ TypeTables /\ TypeCreator
  BY DEF TypeOK
<1> USE DEF TypeRounds, TypeTables, TypeCreator
<1>1. CASE HandlerNext
  BY <1>0, <1>1 DEF HandlerNext, Announce, SendWakeup, Deliver
<1>2. CASE MainNext
  BY <1>0, <1>2 DEF MainNext, TakeWakeup, QueryQueue, StoreTxn, TakePayload,
           StoreConv, StoreDone, Settle, LoadPending, ResetTimer, Storable
<1>3. CASE LingerNext
  BY <1>0, <1>3 DEF LingerNext, LingerReturn, LingerSteal, LingerExit
<1>4. CASE CreatorNext
  BY <1>0, <1>4 DEF CreatorNext, Tick, ClearPending, QueryFails, StartRound,
           SkipChat, DropChat, RateLimited, QueueResync, AbortRound,
           FinishRound, Idle, WgDone, Recent
<1>5. CASE PortalNext
  BY <1>0, <1>5 DEF PortalNext, HandleResync, LoseResync, WgDone
<1>6. CASE WaiterNext
  BY <1>0, <1>6 DEF WaiterNext, RoundDone
<1>7. CASE LifecycleNext
  BY <1>0, <1>7 DEF LifecycleNext, StartLoops, StopLoops, Crash, Restart,
           SaveLogin, EnterLoops, AbandonCurrent, OrphanCurrent, OrphanRounds
<1>8. CASE UNCHANGED vars
  BY <1>0, <1>8 DEF vars
<1> QED BY <1>1, <1>2, <1>3, <1>4, <1>5, <1>6, <1>7, <1>8 DEF Next

\* The counters of bounded events.
LEMMA TypeBoundsStep == ASSUME TypeOK, [Next]_vars PROVE TypeBounds'
<1> USE HistorySyncAssumption
    DEF Fault, dbVars, loginVars, handlerVars, wakeVars, mainVars,
        timerVars, creatorVars, roundVars, bounds
<1>0. TypeBounds
  BY DEF TypeOK
<1> USE DEF TypeBounds
<1>1. CASE HandlerNext
  BY <1>0, <1>1 DEF HandlerNext, Announce, SendWakeup, Deliver
<1>2. CASE MainNext
  <2>1. CASE TakeWakeup BY <1>0, <2>1 DEF TakeWakeup
  <2>2. CASE QueryQueue BY <1>0, <2>2 DEF QueryQueue
  <2>3. CASE StoreTxn BY <1>0, <2>3 DEF StoreTxn, StoredBy, OwedBy, Storable
  <2>4. CASE TakePayload BY <1>0, <2>4 DEF TakePayload, Storable
  <2>5. CASE \E c \in Chat : StoreConv(c) BY <1>0, <2>5 DEF StoreConv, StoredBy, OwedBy
  <2>6. CASE StoreDone BY <1>0, <2>6 DEF StoreDone
  <2>7. CASE Settle BY <1>0, <2>7 DEF Settle
  <2>8. CASE LoadPending BY <1>0, <2>8 DEF LoadPending
  <2>9. CASE ResetTimer BY <1>0, <2>9 DEF ResetTimer
  <2> QED BY <1>2, <2>1, <2>2, <2>3, <2>4, <2>5, <2>6, <2>7, <2>8, <2>9 DEF MainNext
<1>3. CASE LingerNext
  BY <1>0, <1>3 DEF LingerNext, LingerReturn, LingerSteal, LingerExit
<1>4. CASE CreatorNext
  BY <1>0, <1>4 DEF CreatorNext, Tick, ClearPending, QueryFails, StartRound,
           SkipChat, DropChat, RateLimited, QueueResync, AbortRound,
           FinishRound, Idle, WgDone, Recent
<1>5. CASE PortalNext
  BY <1>0, <1>5 DEF PortalNext, HandleResync, LoseResync, WgDone
<1>6. CASE WaiterNext
  BY <1>0, <1>6 DEF WaiterNext, RoundDone
<1>7. CASE LifecycleNext
  BY <1>0, <1>7 DEF LifecycleNext, StartLoops, StopLoops, Crash, Restart,
           SaveLogin, EnterLoops, AbandonCurrent, OrphanCurrent, OrphanRounds
<1>8. CASE UNCHANGED vars
  BY <1>0, <1>8 DEF vars
<1> QED BY <1>1, <1>2, <1>3, <1>4, <1>5, <1>6, <1>7, <1>8 DEF Next

\* Every variable of the history sync loops stays within its range.
THEOREM TypeCorrect == Spec => []TypeOK
<1>1. ASSUME Init PROVE TypeOK
  <2> USE <1>1 DEF Init
  <2>1. TypeTables BY DEF TypeTables
  <2>2. TypeFlags BY HistorySyncAssumption DEF TypeFlags
  <2>3. TypeChannels BY DEF TypeChannels
  <2>4. TypeMain BY DEF TypeMain
  <2>5. TypeCreator BY DEF TypeCreator
  <2>6. TypeRounds BY DEF TypeRounds
  <2>7. TypeBounds BY DEF TypeBounds
  <2> QED BY <2>1, <2>2, <2>3, <2>4, <2>5, <2>6, <2>7 DEF TypeOK
<1>2. TypeOK /\ [Next]_vars => TypeOK'
  BY TypeTablesStep, TypeFlagsStep, TypeChannelsStep, TypeMainStep,
     TypeCreatorStep, TypeRoundsStep, TypeBoundsStep DEF TypeOK
<1> QED BY <1>1, <1>2, PTL DEF Spec

-----------------------------------------------------------------------------
(* The dispatch is never lost.  NoLostDispatch is inductive: the portal    *)
(* loop clears timerPending only on its way to the database, and whoever   *)
(* disarms the timer passes through "rearm" afterwards.                    *)

LEMMA DispatchStep ==
  ASSUME TypeOK, NoLostDispatch, [Next]_vars
  PROVE  NoLostDispatch'
<1> USE DEF NoLostDispatch, dbVars, loginVars, handlerVars, wakeVars, mainVars,
            timerVars, creatorVars, roundVars
<1>0. TypeMain /\ TypeFlags
  BY DEF TypeOK
<1>1. CASE HandlerNext
  BY <1>1 DEF HandlerNext, Announce, SendWakeup, Deliver
<1>2. CASE MainNext
  <2>1. CASE TakeWakeup BY <2>1 DEF TakeWakeup
  <2>2. CASE QueryQueue BY <2>2 DEF QueryQueue
  <2>3. CASE StoreTxn
    \* What the payload adds is owed with resetTimer set.
    <3>1. CASE job \in Resetting /\ owed' # owed
      BY <2>3, <3>1 DEF StoreTxn, OwedBy
    <3>2. CASE owed' = owed
      BY <2>3, <3>2 DEF StoreTxn
    <3>3. job \notin Resetting => owed' = owed
      BY <2>3 DEF StoreTxn, OwedBy
    <3> QED BY <3>1, <3>2, <3>3
  <2>4. CASE TakePayload BY <2>4 DEF TakePayload
  <2>5. ASSUME NEW c \in Chat, StoreConv(c) PROVE NoLostDispatch'
    BY <2>5 DEF StoreConv, OwedBy
  <2>6. CASE StoreDone BY <2>6 DEF StoreDone
  <2>7. CASE Settle BY <1>0, <2>7 DEF Settle, TypeFlags
  <2>8. CASE LoadPending BY <2>8 DEF LoadPending
  <2>9. CASE ResetTimer BY <2>9 DEF ResetTimer
  <2> QED BY <1>2, <2>1, <2>2, <2>3, <2>4, <2>5, <2>6, <2>7, <2>8, <2>9 DEF MainNext
<1>3. CASE LingerNext
  BY <1>3 DEF LingerNext, LingerReturn, LingerSteal, LingerExit
<1>4. CASE CreatorNext
  BY <1>4 DEF CreatorNext, Tick, ClearPending, QueryFails, StartRound, SkipChat,
              DropChat, RateLimited, QueueResync, AbortRound, FinishRound
<1>5. CASE PortalNext
  BY <1>5 DEF PortalNext, HandleResync, LoseResync
<1>6. CASE WaiterNext
  BY <1>6 DEF WaiterNext, RoundDone
<1>7. CASE LifecycleNext
  BY <1>7 DEF LifecycleNext, StartLoops, StopLoops, Crash, Restart, SaveLogin,
              EnterLoops
<1>8. CASE UNCHANGED vars
  BY <1>8 DEF vars
<1> QED BY <1>1, <1>2, <1>3, <1>4, <1>5, <1>6, <1>7, <1>8 DEF Next

\* A conversation whose dispatch is owed always has a loop that is about to
\* look at it or a timer that will make one look.
THEOREM DispatchSafe == Spec => []NoLostDispatch
<1>1. Init => NoLostDispatch
  BY DEF Init, NoLostDispatch
<1> QED BY <1>1, DispatchStep, TypeCorrect, PTL DEF Spec

-----------------------------------------------------------------------------
(* The notification queue never sleeps.                                    *)

LEMMA QueueStep ==
  ASSUME TypeOK, QueueNeverSleeps, [Next]_vars
  PROVE  QueueNeverSleeps'
<1> USE DEF QueueNeverSleeps, Running, dbVars, handlerVars, wakeVars, mainVars
<1>0. TypeFlags
  BY DEF TypeOK
<1>1. CASE HandlerNext
  BY <1>1 DEF HandlerNext, Announce, SendWakeup, Deliver
<1>2. CASE MainNext
  <2>1. CASE TakeWakeup BY <2>1 DEF TakeWakeup
  <2>2. CASE QueryQueue BY <1>0, <2>2 DEF QueryQueue, TypeFlags
  <2>3. CASE StoreTxn BY <2>3 DEF StoreTxn
  <2>4. CASE TakePayload BY <2>4 DEF TakePayload
  <2>5. ASSUME NEW c \in Chat, StoreConv(c) PROVE QueueNeverSleeps'
    BY <2>5 DEF StoreConv
  <2>6. CASE StoreDone BY <2>6 DEF StoreDone
  <2>7. CASE Settle BY <2>7 DEF Settle
  <2>8. CASE LoadPending BY <2>8 DEF LoadPending
  <2>9. CASE ResetTimer BY <2>9 DEF ResetTimer
  <2> QED BY <1>2, <2>1, <2>2, <2>3, <2>4, <2>5, <2>6, <2>7, <2>8, <2>9 DEF MainNext
<1>3. CASE LingerNext
  BY <1>3 DEF LingerNext, LingerReturn, LingerSteal, LingerExit
<1>4. CASE CreatorNext
  BY <1>4 DEF CreatorNext, Tick, ClearPending, QueryFails, StartRound, SkipChat,
              DropChat, RateLimited, QueueResync, AbortRound, FinishRound
<1>5. CASE PortalNext
  BY <1>5 DEF PortalNext, HandleResync, LoseResync
<1>6. CASE WaiterNext
  BY <1>6 DEF WaiterNext, RoundDone
<1>7. CASE LifecycleNext
  BY <1>7 DEF LifecycleNext, StartLoops, StopLoops, Crash, Restart, SaveLogin,
              EnterLoops
<1>8. CASE UNCHANGED vars
  BY <1>8 DEF vars
<1> QED BY <1>1, <1>2, <1>3, <1>4, <1>5, <1>6, <1>7, <1>8 DEF Next

\* A queued notification always has a token, or somebody who will send one,
\* unless a failed read of the queue swallowed it.
THEOREM QueueAwake == Spec => []QueueNeverSleeps
<1>1. Init => QueueNeverSleeps
  BY DEF Init, QueueNeverSleeps
<1> QED BY <1>1, QueueStep, TypeCorrect, PTL DEF Spec

-----------------------------------------------------------------------------
(* The WaitGroup.  A conversation leaves the batch of the round for one    *)
(* ChatResync event at most, so that the event which counts it down is the *)
(* only one that does.                                                     *)

OneEventEach ==
  creator = "looping" =>
    /\ phase[current] = "looping"
    /\ \A c \in batch : <<current, c>> \notin resyncs

WaitGroupInv == WaitGroupCounts /\ OneEventEach

LEMMA WaitGroupStep ==
  ASSUME TypeOK, WaitGroupInv, [Next]_vars
  PROVE  WaitGroupInv'
<1> USE DEF WaitGroupInv, WaitGroupCounts, OneEventEach, creatorVars, roundVars,
            Idle, WgDone
<1>0. TypeCreator /\ TypeRounds
  BY DEF TypeOK
<1> USE DEF TypeCreator, TypeRounds
<1>1. CASE HandlerNext
  BY <1>1 DEF HandlerNext, Announce, SendWakeup, Deliver
<1>2. CASE MainNext
  BY <1>2 DEF MainNext, TakeWakeup, QueryQueue, StoreTxn, TakePayload,
              StoreConv, StoreDone, Settle, LoadPending, ResetTimer
<1>3. CASE LingerNext
  BY <1>3 DEF LingerNext, LingerReturn, LingerSteal, LingerExit
<1>4. CASE CreatorNext
  <2>1. CASE Tick BY <2>1 DEF Tick
  <2>2. CASE ClearPending BY <2>2 DEF ClearPending
  <2>3. CASE QueryFails BY <2>3 DEF QueryFails
  <2>4. ASSUME NEW r \in Round, StartRound(r) PROVE WaitGroupInv'
    BY <1>0, <2>4 DEF StartRound
  <2>5. ASSUME NEW c \in Chat, SkipChat(c) PROVE WaitGroupInv'
    BY <1>0, <2>5 DEF SkipChat
  <2>6. ASSUME NEW c \in Chat, DropChat(c) PROVE WaitGroupInv'
    BY <1>0, <2>6 DEF DropChat
  <2>7. ASSUME NEW c \in Chat, RateLimited(c) PROVE WaitGroupInv'
    BY <2>7 DEF RateLimited
  <2>8. ASSUME NEW c \in Chat, QueueResync(c) PROVE WaitGroupInv'
    BY <1>0, <2>8 DEF QueueResync
  <2>9. CASE AbortRound BY <1>0, <2>9 DEF AbortRound
  <2>10. CASE FinishRound BY <1>0, <2>10 DEF FinishRound
  <2> QED BY <1>4, <2>1, <2>2, <2>3, <2>4, <2>5, <2>6, <2>7, <2>8, <2>9, <2>10
          DEF CreatorNext
<1>5. CASE PortalNext
  BY <1>0, <1>5 DEF PortalNext, HandleResync, LoseResync
<1>6. CASE WaiterNext
  BY <1>0, <1>6 DEF WaiterNext, RoundDone
<1>7. CASE LifecycleNext
  <2>1. CASE StartLoops BY <2>1 DEF StartLoops, EnterLoops
  <2>2. CASE StopLoops
    BY <1>0, <2>2, HistorySyncAssumption
       DEF StopLoops, AbandonCurrent, OrphanCurrent, OrphanRounds
  <2>3. CASE Crash BY <2>3 DEF Crash
  <2>4. CASE Restart BY <2>4 DEF Restart, EnterLoops
  <2>5. CASE SaveLogin BY <2>5 DEF SaveLogin
  <2> QED BY <1>7, <2>1, <2>2, <2>3, <2>4, <2>5 DEF LifecycleNext
<1>8. CASE UNCHANGED vars
  BY <1>8 DEF vars
<1> QED BY <1>1, <1>2, <1>3, <1>4, <1>5, <1>6, <1>7, <1>8 DEF Next

LEMMA WaitGroupInductive == Spec => []WaitGroupInv
<1>1. Init => WaitGroupInv
  BY DEF Init, WaitGroupInv, WaitGroupCounts, OneEventEach
<1> QED BY <1>1, WaitGroupStep, TypeCorrect, PTL DEF Spec

\* The WaitGroup of a live round counts every event that is still queued.
THEOREM WaitGroupSafe == Spec => []WaitGroupCounts
<1>1. WaitGroupInv => WaitGroupCounts
  BY DEF WaitGroupInv
<1> QED BY <1>1, WaitGroupInductive, PTL

-----------------------------------------------------------------------------
(* The flag.  What is saved is never ahead of what is in memory, so that a *)
(* restart cannot clear the flag.                                          *)

SavedInv == needCreating => needSaved

LEMMA SavedInductive == Spec => []SavedInv
<1> USE DEF SavedInv, loginVars
<1>1. Init => SavedInv
  BY DEF Init
<1>2. TypeOK /\ SavedInv /\ [Next]_vars => SavedInv'
  <2> SUFFICES ASSUME TypeOK, SavedInv, [Next]_vars PROVE SavedInv'
    OBVIOUS
  <2>0. TypeFlags
    BY DEF TypeOK
  <2>1. CASE HandlerNext
    BY <2>1 DEF HandlerNext, Announce, SendWakeup, Deliver
  <2>2. CASE MainNext
    BY <2>2 DEF MainNext, TakeWakeup, QueryQueue, StoreTxn, TakePayload,
                StoreConv, StoreDone, Settle, LoadPending, ResetTimer
  <2>3. CASE LingerNext
    BY <2>3 DEF LingerNext, LingerReturn, LingerSteal, LingerExit
  <2>4. CASE CreatorNext
    BY <2>4 DEF CreatorNext, Tick, ClearPending, QueryFails, StartRound,
                SkipChat, DropChat, RateLimited, QueueResync, AbortRound,
                FinishRound
  <2>5. ASSUME NEW r \in Round, NEW c \in Chat, HandleResync(r, c) \/ LoseResync(r, c)
        PROVE  SavedInv'
    BY <2>5 DEF HandleResync, LoseResync
  <2>6. CASE WaiterNext
    BY <2>6 DEF WaiterNext, RoundDone
  <2>7. CASE LifecycleNext
    <3>1. CASE StartLoops BY <3>1 DEF StartLoops
    <3>2. CASE StopLoops BY <3>2 DEF StopLoops
    <3>3. CASE Crash BY <3>3 DEF Crash
    <3>4. CASE Restart BY <2>0, <3>4 DEF Restart, TypeFlags
    <3>5. CASE SaveLogin BY <2>0, <3>5 DEF SaveLogin, TypeFlags
    <3> QED BY <2>7, <3>1, <3>2, <3>3, <3>4, <3>5 DEF LifecycleNext
  <2>8. CASE UNCHANGED vars
    BY <2>8 DEF vars
  <2> QED BY <2>1, <2>2, <2>3, <2>4, <2>5, <2>6, <2>7, <2>8 DEF Next, PortalNext
<1> QED BY <1>1, <1>2, TypeCorrect, PTL DEF Spec

ClearedByRound ==
  needCreating /\ ~needCreating' =>
    \E r \in Round : /\ phase[r] \in {"waiting", "orphaned"}
                     /\ \A c \in Chat : <<r, c>> \notin resyncs

LEMMA FlagStep ==
  ASSUME WaitGroupCounts, SavedInv, [Next]_vars
  PROVE  ClearedByRound
<1> USE DEF ClearedByRound, loginVars
<1>1. CASE HandlerNext
  BY <1>1 DEF HandlerNext, Announce, SendWakeup, Deliver
<1>2. CASE MainNext
  BY <1>2 DEF MainNext, TakeWakeup, QueryQueue, StoreTxn, TakePayload,
              StoreConv, StoreDone, Settle, LoadPending, ResetTimer
<1>3. CASE LingerNext
  BY <1>3 DEF LingerNext, LingerReturn, LingerSteal, LingerExit
<1>4. CASE CreatorNext
  BY <1>4 DEF CreatorNext, Tick, ClearPending, QueryFails, StartRound, SkipChat,
              DropChat, RateLimited, QueueResync, AbortRound, FinishRound
<1>5. CASE PortalNext
  BY <1>5 DEF PortalNext, HandleResync, LoseResync
<1>6. ASSUME NEW r \in Round, RoundDone(r) PROVE ClearedByRound
  <2>1. \A c \in Chat : <<r, c>> \notin resyncs
    BY <1>6 DEF RoundDone, WaitGroupCounts
  <2> QED BY <1>6, <2>1 DEF RoundDone
<1>7. CASE LifecycleNext
  BY <1>7 DEF LifecycleNext, StartLoops, StopLoops, Crash, Restart, SaveLogin,
              SavedInv
<1>8. CASE UNCHANGED vars
  BY <1>8 DEF vars
<1> QED BY <1>1, <1>2, <1>3, <1>4, <1>5, <1>6, <1>7, <1>8 DEF Next, WaiterNext

\* The flag is cleared only by a round that is over and has no event queued.
THEOREM FlagSafe == Spec => FlagOutlivesRound
<1>1. ASSUME WaitGroupCounts, SavedInv, [Next]_vars
      PROVE  [ClearedByRound]_vars
  BY <1>1, FlagStep
<1>2. FlagOutlivesRound <=> [][ClearedByRound]_vars
  BY DEF FlagOutlivesRound, ClearedByRound
<1> QED BY <1>1, <1>2, WaitGroupSafe, SavedInductive, PTL DEF Spec

-----------------------------------------------------------------------------
(* The queued import implements HistoryImport.                             *)

QueueInv ==
  ManualDownload => /\ inbox = <<>> /\ main # "storing"
                    /\ main = "download" => job \in notifs

LEMMA QueueInductive == Spec => []QueueInv
<1> USE DEF QueueInv, dbVars, handlerVars, mainVars
<1>1. Init => QueueInv
  BY DEF Init
<1>2. QueueInv /\ [Next]_vars => QueueInv'
  <2> SUFFICES ASSUME QueueInv, [Next]_vars PROVE QueueInv'
    OBVIOUS
  <2>1. CASE HandlerNext
    BY <2>1 DEF HandlerNext, Announce, SendWakeup, Deliver
  <2>2. CASE MainNext
    BY <2>2 DEF MainNext, TakeWakeup, QueryQueue, StoreTxn, TakePayload,
                StoreConv, StoreDone, Settle, LoadPending, ResetTimer
  <2>3. CASE LingerNext
    BY <2>3 DEF LingerNext, LingerReturn, LingerSteal, LingerExit
  <2>4. CASE CreatorNext
    BY <2>4 DEF CreatorNext, Tick, ClearPending, QueryFails, StartRound,
                SkipChat, DropChat, RateLimited, QueueResync, AbortRound,
                FinishRound
  <2>5. CASE PortalNext
    BY <2>5 DEF PortalNext, HandleResync, LoseResync
  <2>6. CASE WaiterNext
    BY <2>6 DEF WaiterNext, RoundDone
  <2>7. CASE LifecycleNext
    <3>1. CASE StartLoops BY <3>1 DEF StartLoops, EnterLoops
    <3>2. CASE StopLoops BY <3>2 DEF StopLoops
    <3>3. CASE Crash BY <3>3 DEF Crash
    <3>4. CASE Restart BY <3>4 DEF Restart, EnterLoops
    <3>5. CASE SaveLogin BY <3>5 DEF SaveLogin
    <3> QED BY <2>7, <3>1, <3>2, <3>3, <3>4, <3>5 DEF LifecycleNext
  <2>8. CASE UNCHANGED vars
    BY <2>8 DEF vars
  <2> QED BY <2>1, <2>2, <2>3, <2>4, <2>5, <2>6, <2>7, <2>8 DEF Next
<1> QED BY <1>1, <1>2, PTL DEF Spec

LEMMA ImportStep ==
  ASSUME ManualDownload, TypeOK, QueueInv, [Next]_vars
  PROVE  [Import!Next]_<<conv, rows, notifs>>
<1> USE DEF dbVars, QueueInv
<1>0. TypeTables /\ TypeMain
  BY DEF TypeOK
<1>1. ASSUME NEW p \in Payload, Announce(p) \/ Deliver(p)
      PROVE  [Import!Next]_<<conv, rows, notifs>>
  <2>1. Import!Enqueue(p) \/ UNCHANGED <<conv, rows, notifs>>
    BY <1>1 DEF Announce, Deliver, Import!Enqueue
  <2> QED BY <2>1 DEF Import!Next
<1>2. CASE SendWakeup
  BY <1>2 DEF SendWakeup
<1>3. CASE MainNext
  <2>1. CASE StoreTxn
    <3>1. job \in Payload /\ job \in notifs
      BY <1>0, <2>1 DEF StoreTxn, TypeMain
    <3>2. Import!Import(job) \/ UNCHANGED <<conv, rows, notifs>>
      BY <2>1, <3>1 DEF StoreTxn, StoredBy, Import!Import
    <3> QED BY <3>1, <3>2 DEF Import!Next
  <2>2. CASE ~StoreTxn
    BY <1>3, <2>2 DEF MainNext, TakeWakeup, QueryQueue, TakePayload, StoreConv,
                      StoreDone, Settle, LoadPending, ResetTimer
  <2> QED BY <2>1, <2>2
<1>4. CASE LingerNext
  BY <1>4 DEF LingerNext, LingerReturn, LingerSteal, LingerExit
<1>5. CASE CreatorNext
  <2>1. ASSUME NEW c \in Chat, DropChat(c)
        PROVE  [Import!Next]_<<conv, rows, notifs>>
    <3>1. Import!Forget(c)
      BY <1>0, <2>1 DEF DropChat, TypeTables, Import!Forget
    <3> QED BY <3>1 DEF Import!Next
  <2>2. CASE ~ \E c \in Chat : DropChat(c)
    BY <1>5, <2>2 DEF CreatorNext, Tick, ClearPending, QueryFails, StartRound,
                      SkipChat, RateLimited, QueueResync, AbortRound, FinishRound
  <2> QED BY <2>1, <2>2
<1>6. ASSUME NEW r \in Round, NEW c \in Chat, HandleResync(r, c) \/ LoseResync(r, c)
      PROVE  [Import!Next]_<<conv, rows, notifs>>
  <2>1. Import!Sync(c) \/ UNCHANGED <<conv, rows, notifs>>
    BY <1>0, <1>6 DEF HandleResync, LoseResync, TypeTables, Import!Sync
  <2> QED BY <2>1 DEF Import!Next
<1>7. CASE WaiterNext
  BY <1>7 DEF WaiterNext, RoundDone
<1>8. CASE LifecycleNext
  BY <1>8 DEF LifecycleNext, StartLoops, StopLoops, Crash, Restart, SaveLogin,
              EnterLoops
<1>9. CASE UNCHANGED vars
  BY <1>9 DEF vars
<1> QED BY <1>1, <1>2, <1>3, <1>4, <1>5, <1>6, <1>7, <1>8, <1>9
        DEF Next, HandlerNext, PortalNext

\* With queued notifications the tables behave as HistoryImport says: a
\* payload leaves the queue and enters the tables in one step, or not at all.
THEOREM ImportRefined == ASSUME ManualDownload PROVE Spec => ImportsAtomically
<1>1. Init => Import!Init
  BY DEF Init, Import!Init
<1>2. TypeOK /\ QueueInv /\ [Next]_vars => [Import!Next]_(Import!vars)
  BY ImportStep DEF Import!vars
<1> QED BY <1>1, <1>2, TypeCorrect, QueueInductive, PTL
        DEF Spec, ImportsAtomically, Import!Spec
=============================================================================
