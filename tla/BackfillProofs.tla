---------------------------- MODULE BackfillProofs ----------------------------
(***************************************************************************)
(* Theorems about Backfill, for every set of messages, every assignment of *)
(* timestamps and every page size.                                         *)
(***************************************************************************)
EXTENDS Backfill, FiniteSetTheorems, TLAPS

-----------------------------------------------------------------------------
(* Lemmas about the operators a page is built from.                        *)

\* CutOff removes only messages with the oldest timestamp.
LEMMA CutOffKeeps ==
  ASSUME NEW B, NEW oldest, NEW m \in B, Ts[m] > oldest
  PROVE  m \in CutOff(B, oldest)
BY DEF CutOff

LEMMA CutOffSubset ==
  ASSUME NEW B, NEW oldest
  PROVE  CutOff(B, oldest) \subseteq B
BY DEF CutOff

\* What a page of at least one message leaves in the table is no newer than
\* anything in it.
LEMMA NewestOfBounds ==
  ASSUME NEW S, NEW n, NEW B \in NewestOf(S, n), NEW k \in S \ B, NEW m \in B
  PROVE  Ts[m] >= Ts[k]
BY DEF NewestOf

\* A page that is not full is all there is.
LEMMA NewestOfAll ==
  ASSUME NEW S, NEW B \in NewestOf(S, Count + 1), ~(Cardinality(B) > Count)
  PROVE  B = S
<1>1. CASE Cardinality(S) <= Count + 1
  BY <1>1 DEF NewestOf
<1>2. CASE ~(Cardinality(S) <= Count + 1)
  BY <1>2, BackfillAssumption DEF NewestOf
<1> QED BY <1>1, <1>2

-----------------------------------------------------------------------------
(* Type correctness.                                                       *)

LEMMA FetchType ==
  ASSUME TypeOK, NEW start, NEW end, NEW forward \in BOOLEAN,
         Fetch(start, end, forward), queue' \in BOOLEAN
  PROVE  TypeOK'
<1> USE DEF TypeOK, bounds
<1>1. PICK B \in NewestOf(Between(start, end), Count + 1) :
        \/ /\ B = {} /\ done' = (done \/ ~forward) /\ UNCHANGED page
        \/ \E first, last \in B :
             /\ page' = [batch   |-> CutOff(B, Ts[last]),
                         newest  |-> Ts[first],
                         oldest  |-> Ts[last],
                         more    |-> Cardinality(B) > Count,
                         forward |-> forward \/ end = {}]
             /\ UNCHANGED done
  BY DEF Fetch
<1>2. B \subseteq Msg
  BY <1>1 DEF NewestOf, Between
<1>3. ASSUME NEW first \in B, NEW last \in B
      PROVE  [batch   |-> CutOff(B, Ts[last]),
              newest  |-> Ts[first],
              oldest  |-> Ts[last],
              more    |-> Cardinality(B) > Count,
              forward |-> forward \/ end = {}] \in Page
  <2>1. CutOff(B, Ts[last]) \in SUBSET Msg
    BY <1>2, CutOffSubset
  <2>2. Ts[first] \in Nat /\ Ts[last] \in Nat
    BY <1>2, BackfillAssumption
  <2>3. (Cardinality(B) > Count) \in BOOLEAN /\ (forward \/ end = {}) \in BOOLEAN
    OBVIOUS
  <2> QED BY <2>1, <2>2, <2>3 DEF Page
<1>4. page' \in Page \cup {NoPage} /\ done' \in BOOLEAN
  BY <1>1, <1>3
<1> QED BY <1>4 DEF Fetch

LEMMA TypeStep == ASSUME TypeOK, [Next]_vars PROVE TypeOK'
<1> USE BackfillAssumption DEF bounds
<1>0. queue' \in BOOLEAN
  BY DEF Next, vars, TypeOK
<1>1. ASSUME NEW S \in SUBSET Msg, StorePayload(S) PROVE TypeOK'
  <2>1. table' \subseteq Msg /\ late' \subseteq Msg
    BY <1>1 DEF StorePayload, TypeOK
  <2>2. stores' \in Nat
    BY <1>1 DEF StorePayload, TypeOK
  <2>3. done' = FALSE
    BY <1>1 DEF StorePayload
  <2> QED BY <1>0, <1>1, <2>1, <2>2, <2>3 DEF StorePayload, TypeOK
<1>2. CASE FetchForward
  BY <1>0, <1>2, FetchType DEF FetchForward
<1>3. CASE FetchBackward
  BY <1>0, <1>3, FetchType DEF FetchBackward
<1>4. CASE SendPage
  BY <1>0, <1>4 DEF SendPage, Page, TypeOK
<1>5. CASE Complete
  <2>1. page \in Page
    BY <1>5 DEF Complete, TypeOK
  <2>2. page.oldest \in Nat /\ page.more \in BOOLEAN
    BY <2>1 DEF Page
  <2>3. cursor' \subseteq Nat /\ edge' \subseteq Nat /\ done' \in BOOLEAN
    BY <1>5, <2>2 DEF Complete, TypeOK
  <2>4. table' \subseteq Msg /\ faults' \in Nat
    BY <1>5 DEF Complete, TypeOK
  <2> QED BY <1>0, <1>5, <2>3, <2>4 DEF Complete, TypeOK
<1>6. CASE Crash
  <2>1. crashes' \in Nat
    BY <1>6 DEF Crash, TypeOK
  <2> QED BY <1>0, <1>6, <2>1 DEF Crash, TypeOK
<1>7. CASE UNCHANGED vars
  BY <1>7 DEF vars, TypeOK
<1> QED BY <1>1, <1>2, <1>3, <1>4, <1>5, <1>6, <1>7 DEF Next

\* Every variable of the backfill stays within its range.
THEOREM TypeCorrect == Spec => []TypeOK
<1>1. ASSUME Init PROVE TypeOK
  <2>1. queue \in BOOLEAN /\ table \subseteq Msg /\ room \subseteq Msg /\ late \subseteq Msg
    BY <1>1 DEF Init
  <2>2. cursor \subseteq Nat /\ edge \subseteq Nat
    BY <1>1 DEF Init
  <2>3. /\ done \in BOOLEAN /\ sent \in BOOLEAN /\ page \in Page \cup {NoPage}
        /\ stores \in Nat /\ crashes \in Nat /\ faults \in Nat
    BY <1>1 DEF Init
  <2> QED BY <2>1, <2>2, <2>3 DEF TypeOK
<1> QED BY <1>1, TypeStep, PTL DEF Spec

-----------------------------------------------------------------------------
(* The inductive invariant.  A page in flight covers the rows between its  *)
(* bounds, and nothing unsent is newer than it; the cursor and the room    *)
(* bound what is still unsent from below.                                  *)

\* What a page was fetched to be: every row between its bounds that was there
\* is in it, except the cut-off ones of the oldest second.
PageCovers(pg) ==
  /\ \A m \in pg.batch : pg.oldest <= Ts[m]
  /\ \A m \in table \ late :
       pg.oldest < Ts[m] /\ Ts[m] <= pg.newest => m \in pg.batch
  /\ \A m \in Unsent : Ts[m] <= pg.newest
  /\ ~pg.more /\ ~pg.forward => Unsent \subseteq pg.batch

BackfillInv ==
  /\ page # NoPage => PageCovers(page)
  /\ sent => page # NoPage /\ page.batch \subseteq room
  /\ \A m \in Unsent, t \in cursor : Ts[m] <= t
  /\ cursor # {} => edge # {}
  /\ NoGapBehind
  /\ DoneMeansDelivered

\* After the first page, rows are inserted late: nothing joins Unsent.
LEMMA StoreKeeps ==
  ASSUME TypeOK, BackfillInv, NEW S \in SUBSET Msg, StorePayload(S)
  PROVE  BackfillInv'
<1> USE DEF Unsent
<1>1. CASE Started
  <2>1. Unsent' = Unsent /\ table' \ late' = table \ late
    BY <1>1 DEF StorePayload
  <2>2. PageCovers(page) => PageCovers(page)'
    BY <2>1 DEF StorePayload, PageCovers
  <2> QED BY <2>1, <2>2 DEF StorePayload, BackfillInv, NoGapBehind, DoneMeansDelivered
<1>2. CASE ~Started
  <2>1. room = {} /\ cursor = {} /\ page = NoPage /\ ~sent
    BY <1>2 DEF Started, BackfillInv
  <2> QED BY <2>1 DEF StorePayload, BackfillInv, NoGapBehind, DoneMeansDelivered
<1> QED BY <1>1, <1>2

\* A fetched page covers what it should, provided the rows that are not between
\* the bounds of the query are either older than the room or not unsent.
LEMMA FetchKeeps ==
  ASSUME TypeOK, BackfillInv, NEW start \in SUBSET Nat, NEW end \in SUBSET Nat,
         NEW forward \in BOOLEAN, Fetch(start, end, forward),
         \A m \in Unsent, t \in end : Ts[m] <= t,
         ~forward => start = {}
  PROVE  BackfillInv'
<1> USE BackfillAssumption
<1> DEFINE R == Between(start, end)
<1>0. page = NoPage /\ UNCHANGED <<table, room, cursor, sent, late, edge>> /\ ~sent
  BY DEF Fetch, BackfillInv
<1>a. table \subseteq Msg /\ Unsent \subseteq table
  BY DEF TypeOK, Unsent
<1>b. \A m \in Msg : Ts[m] \in Nat
  OBVIOUS
<1>c. ~forward => Unsent \subseteq R
  BY <1>a DEF Between
<1>1. PICK B \in NewestOf(R, Count + 1) :
        \/ /\ B = {} /\ done' = (done \/ ~forward) /\ UNCHANGED page
        \/ \E first, last \in B :
             /\ \A m \in B : Ts[last] <= Ts[m] /\ Ts[m] <= Ts[first]
             /\ page' = [batch   |-> CutOff(B, Ts[last]),
                         newest  |-> Ts[first],
                         oldest  |-> Ts[last],
                         more    |-> Cardinality(B) > Count,
                         forward |-> forward \/ end = {}]
             /\ UNCHANGED done
  BY DEF Fetch
<1>2. CASE /\ B = {} /\ done' = (done \/ ~forward) /\ UNCHANGED page
  <2>1. ~forward => Unsent = {}
    <3>1. ~(Cardinality(B) > Count)
      BY <1>2, FS_EmptySet
    <3>2. R = {}
      BY <1>2, <3>1, NewestOfAll
    <3> QED BY <1>c, <3>2
  <2>2. Unsent' = Unsent
    BY <1>0 DEF Unsent
  <2>3. DoneMeansDelivered'
    BY <1>2, <2>1, <2>2 DEF DoneMeansDelivered, BackfillInv
  <2> QED BY <1>0, <1>2, <2>2, <2>3 DEF BackfillInv, NoGapBehind
<1>3. ASSUME NEW first \in B, NEW last \in B,
             \A m \in B : Ts[last] <= Ts[m] /\ Ts[m] <= Ts[first],
             page' = [batch   |-> CutOff(B, Ts[last]),
                      newest  |-> Ts[first],
                      oldest  |-> Ts[last],
                      more    |-> Cardinality(B) > Count,
                      forward |-> forward \/ end = {}],
             UNCHANGED done
      PROVE  BackfillInv'
  <2>1. B \subseteq R /\ R \subseteq table
    BY DEF NewestOf, Between
  <2>2. /\ page'.batch = CutOff(B, Ts[last]) /\ page'.newest = Ts[first]
        /\ page'.oldest = Ts[last] /\ page'.more = (Cardinality(B) > Count)
        /\ page'.forward = (forward \/ end = {})
    BY <1>3
  <2>3. \A m \in page'.batch : page'.oldest <= Ts[m]
    BY <1>3, <2>2, CutOffSubset
  <2>4. ASSUME NEW m \in table, page'.oldest < Ts[m], Ts[m] <= page'.newest
        PROVE  m \in page'.batch
    <3>1. Ts[m] \in Nat /\ Ts[first] \in Nat /\ Ts[last] \in Nat
      BY <1>a, <2>1
    <3>2. \A t \in start : t <= Ts[last]
      BY <2>1 DEF Between
    <3>3. \A t \in end : Ts[first] <= t
      BY <2>1 DEF Between
    <3>4. m \in R
      BY <2>2, <2>4, <3>1, <3>2, <3>3 DEF Between
    <3>5. m \in B
      BY <2>2, <2>4, <3>1, <3>4, NewestOfBounds
    <3> QED BY <2>2, <2>4, <3>5, CutOffKeeps
  <2>5. ASSUME NEW m \in Unsent PROVE Ts[m] <= page'.newest
    <3>1. m \in Msg /\ Ts[m] \in Nat /\ Ts[first] \in Nat
      BY <1>a, <2>1
    <3>2. CASE m \in R
      <4>1. CASE m \in B BY <1>3, <2>2, <4>1
      <4>2. CASE m \notin B
        <5>1. Ts[first] >= Ts[m] BY <3>2, <4>2, NewestOfBounds
        <5> QED BY <2>2, <3>1, <5>1
      <4> QED BY <4>1, <4>2
    <3>3. CASE m \notin R
      <4>1. PICK t \in start : ~(Ts[m] >= t)
        BY <1>a, <3>3 DEF Between
      <4>2. Ts[first] >= t
        BY <2>1 DEF Between
      <4> QED BY <2>2, <3>1, <4>1, <4>2
    <3> QED BY <3>2, <3>3
  <2>6. ASSUME ~page'.more, ~page'.forward PROVE Unsent \subseteq page'.batch
    <3>1. B = R
      BY <2>2, <2>6, NewestOfAll
    <3>2. page'.batch = B
      BY <2>2, <2>6 DEF CutOff
    <3> QED BY <1>c, <2>2, <2>6, <3>1, <3>2
  <2>7. Unsent' = Unsent /\ table' \ late' = table \ late
    BY <1>0 DEF Unsent
  <2>8. PageCovers(page)'
    BY <1>0, <2>3, <2>4, <2>5, <2>6, <2>7 DEF PageCovers
  <2> QED BY <1>0, <1>3, <2>7, <2>8 DEF BackfillInv, NoGapBehind, DoneMeansDelivered
<1> QED BY <1>1, <1>2, <1>3

\* What is left unsent after a page was sent is older than the page.
LEMMA SendKeeps ==
  ASSUME TypeOK, BackfillInv, SendPage
  PROVE  BackfillInv'
<1> USE BackfillAssumption
<1>0. page # NoPage /\ PageCovers(page) /\ room' = room \cup page.batch /\ sent'
  BY DEF SendPage, BackfillInv
<1>1. UNCHANGED <<table, cursor, done, page, late, edge>>
  BY DEF SendPage
<1>2. Unsent' \subseteq Unsent /\ \A m \in Unsent' : m \notin page.batch
  BY <1>0, <1>1 DEF Unsent
<1>3. PageCovers(page)'
  BY <1>0, <1>1, <1>2 DEF PageCovers
<1>4. NoGapBehind'
  <2>1. ASSUME NEW m \in Unsent', NEW k \in page.batch PROVE Ts[m] <= Ts[k]
    <3>1. page \in Page /\ m \in Msg /\ m \in table \ late
      BY <1>0, <1>1 DEF TypeOK, Unsent
    <3>2. k \in Msg /\ Ts[m] \in Nat /\ Ts[k] \in Nat /\ page.oldest \in Nat
      BY <3>1 DEF Page
    <3>3. ~(page.oldest < Ts[m]) /\ page.oldest <= Ts[k]
      BY <1>0, <1>2, <3>1 DEF PageCovers
    <3> QED BY <3>2, <3>3
  <2> QED BY <1>0, <1>2, <2>1 DEF NoGapBehind, BackfillInv
<1> QED BY <1>0, <1>1, <1>2, <1>3, <1>4 DEF BackfillInv, DoneMeansDelivered

\* What is left unsent after a page was completed is older than its cursor.
LEMMA CompleteKeeps ==
  ASSUME TypeOK, BackfillInv, Complete
  PROVE  BackfillInv'
<1> USE BackfillAssumption
<1>0. /\ page # NoPage /\ PageCovers(page) /\ page.batch \subseteq room
      /\ page' = NoPage /\ ~sent' /\ UNCHANGED <<room, late>>
  BY DEF Complete, BackfillInv
<1>1. Unsent' \subseteq Unsent
  BY <1>0 DEF Complete, Unsent, Deleted
<1>2. \A m \in Unsent : m \notin page.batch
  BY <1>0 DEF Unsent
<1>3. \A m \in Unsent : Ts[m] <= page.oldest
  <2> TAKE m \in Unsent
  <2>1. page \in Page /\ m \in Msg /\ m \in table \ late
    BY <1>0 DEF TypeOK, Unsent
  <2>2. Ts[m] \in Nat /\ page.oldest \in Nat
    BY <2>1 DEF Page
  <2> QED BY <1>0, <1>2, <2>1, <2>2 DEF PageCovers
<1>4. \A m \in Unsent', t \in cursor' : Ts[m] <= t
  BY <1>1, <1>3 DEF Complete, BackfillInv
<1>5. edge' # {}
  BY DEF Complete
<1>6. NoGapBehind'
  BY <1>0, <1>1 DEF NoGapBehind, BackfillInv
<1>7. DoneMeansDelivered'
  <2>1. CASE done' = done
    BY <1>1, <2>1 DEF DoneMeansDelivered, BackfillInv
  <2>2. CASE ~page.forward /\ done' = ~page.more
    <3>1. CASE page.more BY <2>2, <3>1 DEF DoneMeansDelivered
    <3>2. CASE ~page.more
      <4>1. Unsent = {} BY <1>0, <1>2, <2>2, <3>2 DEF PageCovers
      <4> QED BY <1>1, <4>1 DEF DoneMeansDelivered
    <3> QED BY <3>1, <3>2
  <2> QED BY <2>1, <2>2 DEF Complete
<1> QED BY <1>0, <1>4, <1>5, <1>6, <1>7 DEF BackfillInv

LEMMA BackfillInductive == Spec => []BackfillInv
<1>1. Init => BackfillInv
  BY DEF Init, BackfillInv, NoGapBehind, DoneMeansDelivered, Unsent
<1>2. TypeOK /\ BackfillInv /\ [Next]_vars => BackfillInv'
  <2> SUFFICES ASSUME TypeOK, BackfillInv, [Next]_vars PROVE BackfillInv'
    OBVIOUS
  <2>1. CASE \E S \in SUBSET Msg : StorePayload(S)
    BY <2>1, StoreKeeps
  <2>2. CASE FetchForward
    <3> DEFINE start == NewestAnchor
    <3>1. start \in SUBSET Nat
      BY BackfillAssumption DEF NewestAnchor, TypeOK
    <3>2. Fetch(start, {}, TRUE)
      BY <2>2 DEF FetchForward
    <3> HIDE DEF start
    <3>3. {} \in SUBSET Nat /\ TRUE \in BOOLEAN
      OBVIOUS
    <3> QED BY <3>1, <3>2, <3>3, FetchKeeps
  <2>3. CASE FetchBackward
    <3> DEFINE end == IF cursor # {} THEN cursor ELSE OldestAnchor
    <3>1. end \in SUBSET Nat
      BY BackfillAssumption DEF OldestAnchor, TypeOK
    <3>2. \A m \in Unsent, t \in end : Ts[m] <= t
      BY DEF OldestAnchor, BackfillInv, NoGapBehind
    <3>3. Fetch({}, end, FALSE)
      BY <2>3 DEF FetchBackward
    <3> HIDE DEF end
    <3> QED BY <3>1, <3>2, <3>3, FetchKeeps
  <2>4. CASE SendPage
    BY <2>4, SendKeeps
  <2>5. CASE Complete
    BY <2>5, CompleteKeeps
  <2>6. CASE Crash
    BY <2>6 DEF Crash, BackfillInv, NoGapBehind, DoneMeansDelivered, Unsent
  <2>7. CASE UNCHANGED vars
    BY <2>7 DEF vars, BackfillInv, NoGapBehind, DoneMeansDelivered, Unsent, PageCovers
  <2> QED BY <2>1, <2>2, <2>3, <2>4, <2>5, <2>6, <2>7 DEF Next
<1> QED BY <1>1, <1>2, TypeCorrect, PTL DEF Spec

-----------------------------------------------------------------------------
(* The theorems.                                                           *)

\* No page leaves a gap behind it: an unsent row is no newer than the room.
THEOREM NoGapSafe == Spec => []NoGapBehind
<1>1. BackfillInv => NoGapBehind
  BY DEF BackfillInv
<1> QED BY <1>1, BackfillInductive, PTL

\* The backfill task is closed only when nothing is left to send.
THEOREM DoneSafe == Spec => []DoneMeansDelivered
<1>1. BackfillInv => DoneMeansDelivered
  BY DEF BackfillInv
<1> QED BY <1>1, BackfillInductive, PTL

KeepsPassed ==
  queue => \A m \in table \ table' : m \in room \/ m \in late \/ Ts[m] \in edge'

LEMMA LossStep ==
  ASSUME TypeOK, BackfillInv, [Next]_vars
  PROVE  KeepsPassed
<1> USE DEF KeepsPassed
<1>1. CASE Complete
  <2> SUFFICES ASSUME queue, NEW m \in table \ table', m \notin room, m \notin late
               PROVE  Ts[m] = page.oldest
    BY <1>1 DEF Complete
  <2>1. /\ page \in Page /\ PageCovers(page) /\ page.batch \subseteq room
        /\ m \in Msg /\ m \in table \ late
    BY <1>1 DEF Complete, BackfillInv, TypeOK
  <2>2. page.oldest <= Ts[m] /\ Ts[m] <= page.newest
    BY <1>1 DEF Complete, Deleted, Passed
  <2>3. ~(page.oldest < Ts[m])
    BY <2>1, <2>2 DEF PageCovers
  <2>4. page.oldest \in Nat /\ Ts[m] \in Nat
    BY <2>1, BackfillAssumption DEF Page
  <2> QED BY <2>2, <2>3, <2>4
<1>2. CASE ~Complete
  <2>1. table \subseteq table'
    BY <1>2 DEF Next, StorePayload, FetchForward, FetchBackward, Fetch, SendPage,
                Crash, vars
  <2> QED BY <2>1
<1> QED BY <1>1, <1>2

\* A page deletes unsent rows only of its oldest second.
THEOREM LossSafe == Spec => LossOnlyAtEdge
<1>1. LossOnlyAtEdge <=> [][KeepsPassed]_vars
  BY DEF LossOnlyAtEdge, KeepsPassed
<1>2. TypeOK /\ BackfillInv /\ [Next]_vars => [KeepsPassed]_vars
  BY LossStep
<1> QED BY <1>1, <1>2, TypeCorrect, BackfillInductive, PTL DEF Spec

-----------------------------------------------------------------------------
(* Progress.                                                               *)

\* The page in flight holds rows of the table, at least one, which are between
\* its bounds: rows come meanwhile, but only its completion takes any away.
PageStored ==
  page # NoPage =>
    /\ page.batch # {} /\ page.batch \subseteq table
    /\ \A m \in page.batch : page.oldest <= Ts[m] /\ Ts[m] <= page.newest

\* A page whose rows are deleted had rows, and all of them are gone.
TakesRows ==
  Complete /\ UNCHANGED faults => page.batch # {} /\ page.batch \cap table' = {}
PagesProgress == [][TakesRows]_vars

\* A page is never cut down to nothing.
LEMMA CutOffLeaves ==
  ASSUME NEW B \in SUBSET Msg, B # {}, NEW oldest \in Nat
  PROVE  CutOff(B, oldest) # {} /\ CutOff(B, oldest) \subseteq B
BY DEF CutOff

LEMMA FetchStored ==
  ASSUME TypeOK, PageStored, NEW start \in SUBSET Nat, NEW end \in SUBSET Nat,
         NEW forward \in BOOLEAN, Fetch(start, end, forward)
  PROVE  PageStored'
<1>1. PICK B \in NewestOf(Between(start, end), Count + 1) :
        \/ B = {} /\ UNCHANGED page
        \/ \E first, last \in B :
             /\ \A m \in B : Ts[last] <= Ts[m] /\ Ts[m] <= Ts[first]
             /\ page' = [batch   |-> CutOff(B, Ts[last]),
                         newest  |-> Ts[first],
                         oldest  |-> Ts[last],
                         more    |-> Cardinality(B) > Count,
                         forward |-> forward \/ end = {}]
  BY DEF Fetch
<1>2. page = NoPage /\ UNCHANGED table
  BY DEF Fetch
<1>3. B \subseteq table /\ B \in SUBSET Msg
  BY DEF NewestOf, Between, TypeOK
<1>4. CASE B = {} /\ UNCHANGED page
  BY <1>2, <1>4 DEF PageStored
<1>5. ASSUME NEW first \in B, NEW last \in B,
             \A m \in B : Ts[last] <= Ts[m] /\ Ts[m] <= Ts[first],
             page' = [batch   |-> CutOff(B, Ts[last]),
                      newest  |-> Ts[first],
                      oldest  |-> Ts[last],
                      more    |-> Cardinality(B) > Count,
                      forward |-> forward \/ end = {}]
      PROVE  PageStored'
  <2>1. /\ page'.batch = CutOff(B, Ts[last]) /\ page'.newest = Ts[first]
        /\ page'.oldest = Ts[last]
    BY <1>5
  <2>2. Ts[last] \in Nat
    BY <1>3, BackfillAssumption
  <2>3. page'.batch # {} /\ page'.batch \subseteq B
    BY <1>3, <2>1, <2>2, CutOffLeaves
  <2> QED BY <1>2, <1>3, <1>5, <2>1, <2>3 DEF PageStored
<1> QED BY <1>1, <1>4, <1>5

LEMMA StoredInductive == Spec => []PageStored
<1>1. Init => PageStored
  BY DEF Init, PageStored
<1>2. TypeOK /\ PageStored /\ [Next]_vars => PageStored'
  <2> SUFFICES ASSUME TypeOK, PageStored, [Next]_vars PROVE PageStored'
    OBVIOUS
  <2>1. CASE \E S \in SUBSET Msg : StorePayload(S)
    BY <2>1 DEF StorePayload, PageStored
  <2>2. CASE FetchForward
    <3>1. NewestAnchor \in SUBSET Nat
      BY BackfillAssumption DEF NewestAnchor, TypeOK
    <3> QED BY <2>2, <3>1, FetchStored DEF FetchForward
  <2>3. CASE FetchBackward
    <3> DEFINE end == IF cursor # {} THEN cursor ELSE OldestAnchor
    <3>1. end \in SUBSET Nat
      BY BackfillAssumption DEF OldestAnchor, TypeOK
    <3>2. Fetch({}, end, FALSE)
      BY <2>3 DEF FetchBackward
    <3> HIDE DEF end
    <3> QED BY <3>1, <3>2, FetchStored
  <2>4. CASE SendPage
    BY <2>4 DEF SendPage, PageStored
  <2>5. CASE Complete \/ Crash
    BY <2>5 DEF Complete, Crash, PageStored
  <2>6. CASE UNCHANGED vars
    BY <2>6 DEF vars, PageStored
  <2> QED BY <2>1, <2>2, <2>3, <2>4, <2>5, <2>6 DEF Next
<1> QED BY <1>1, <1>2, TypeCorrect, PTL DEF Spec

\* What BackfillFinishes rests on: the deletion after a page (DeleteBetween, or
\* DeleteAllInChat) takes out every row that was sent, and a page has rows even
\* when all of a second must be cut off.  So nothing is fetched and sent again
\* unless the deletion failed, the process stopped or a payload brought it anew.
THEOREM ProgressSafe == Spec => PagesProgress
<1>1. TypeOK /\ PageStored /\ [Next]_vars => [TakesRows]_vars
  <2> SUFFICES ASSUME TypeOK, PageStored, Complete, UNCHANGED faults
               PROVE  page.batch # {} /\ page.batch \cap table' = {}
    BY DEF TakesRows
  <2>1. page # NoPage /\ faults \in Nat
    BY DEF Complete, TypeOK
  <2>2. table' = table \ Deleted
    BY <2>1 DEF Complete
  <2>3. page.batch \subseteq Deleted
    BY <2>1 DEF PageStored, Deleted, Passed
  <2> QED BY <2>1, <2>2, <2>3 DEF PageStored
<1> QED BY <1>1, TypeCorrect, StoredInductive, PTL DEF Spec, PagesProgress
=============================================================================
