--------------------------- MODULE PagedFetchProofs ---------------------------
(***************************************************************************)
(* What holds of the paged loops for any page size and any number of       *)
(* items that arrive while they fetch.                                     *)
(***************************************************************************)
EXTENDS PagedFetch, FiniteSetTheorems, TLAPS

\* Where the items of a page are: the newest one is start below the newest of all.
LEMMA PageIs ==
    ASSUME NEW start \in Nat, total \in Nat
    PROVE  /\ Page(start) = IF total - start < PageSize
                              THEN 1 .. total - start
                              ELSE total - start - PageSize + 1 .. total - start
           /\ Page(start) \subseteq 1 .. total
BY PagedFetchAssumption DEF Page

\* How many they are: a page is full unless it holds the oldest item.
LEMMA PageSizes ==
    ASSUME NEW start \in Nat, total \in Nat
    PROVE  Cardinality(Page(start)) = IF total - start >= PageSize THEN PageSize
                                      ELSE IF total > start THEN total - start ELSE 0
<1>1. CASE total - start >= PageSize
  <2>1. Page(start) = total - start - PageSize + 1 .. total - start
    BY <1>1, PageIs, PagedFetchAssumption
  <2>2. Cardinality(Page(start)) = (total - start) - (total - start - PageSize + 1) + 1
    BY <1>1, <2>1, FS_Interval, PagedFetchAssumption
  <2> QED
    BY <1>1, <2>2, PagedFetchAssumption
<1>2. CASE total - start < PageSize
  <2>1. Page(start) = 1 .. total - start
    BY <1>2, PageIs, PagedFetchAssumption
  <2>2. Cardinality(Page(start)) = IF 1 > total - start THEN 0 ELSE (total - start) - 1 + 1
    BY <2>1, FS_Interval
  <2> QED
    BY <1>2, <2>2, PagedFetchAssumption
<1> QED
    BY <1>1, <1>2, PagedFetchAssumption

\* The type of what an answer brings.
LEMMA ReplyType ==
    ASSUME TypeOK
    PROVE  /\ total \in Nat /\ startIndex \in Nat
           /\ \A start \in Nat : Reply(start) \subseteq Items
           /\ \A start \in Nat : Cardinality(Reply(start)) \in Nat
<1>1. total \in Nat /\ startIndex \in Nat /\ 1 .. total \subseteq Items
    BY PagedFetchAssumption DEF TypeOK, Items
<1>2. \A start \in Nat : Page(start) \subseteq Items /\ Cardinality(Page(start)) \in Nat
    BY <1>1, PageIs, PageSizes, PagedFetchAssumption
<1> QED
    BY <1>1, <1>2 DEF Reply

LEMMA AdvanceType ==
    ASSUME NEW start \in Nat, NEW n \in Nat
    PROVE  Advance(start, n) \in 0 .. MaxTotal
BY PagedFetchAssumption DEF Advance

LEMMA LaterPagesType ==
    ASSUME NEW n \in Nat
    PROVE  LaterPages(n) \subseteq 0 .. MaxTotal
<1>1. \A k \in 0 .. n : PageSize + 1 + k * PageSize \in Nat
    BY PagedFetchAssumption
<1> QED
    BY <1>1, AdvanceType DEF LaterPages

-----------------------------------------------------------------------------

LEMMA BringsType ==
    ASSUME TypeOK, NEW page \in SUBSET Items, Show(page), Extend(page)
    PROVE  /\ items' \subseteq Items /\ twice' \subseteq items'
           /\ shown' \subseteq Items /\ late' \subseteq shown'
BY DEF TypeOK, Show, Extend

LEMMA TypePreserved == TypeOK /\ [Next]_vars => TypeOK'
<1> SUFFICES ASSUME TypeOK, [Next]_vars PROVE TypeOK'
    OBVIOUS
<1> USE DEF environment, Nothing
<1>1. CASE Arrive
    BY <1>1, PagedFetchAssumption DEF TypeOK, Arrive
<1>2. CASE Abort
    BY <1>2 DEF TypeOK, Abort
<1>3. CASE Call
    BY <1>3 DEF TypeOK, Call, Ended
<1>4. CASE Receive
  <2>1. answers' \in {0, 1}
    BY <1>4 DEF Receive, TypeOK
  <2>2. \A start \in Nat : Reply(start) \in SUBSET Items /\ Cardinality(Reply(start)) \in Nat
    BY ReplyType
  <2>3. startIndex \in Nat /\ Advance(startIndex, Cardinality(Reply(startIndex))) \in 0 .. MaxTotal
    BY <2>2, ReplyType, AdvanceType
  <2>4. CASE AlertsPage
    BY <2>1, <2>2, <2>3, <2>4, BringsType DEF AlertsPage, TypeOK, Ended
  <2>5. CASE FirstFindings
    BY <2>1, <2>2, <2>5, BringsType, ReplyType, LaterPagesType DEF FirstFindings, TypeOK, Ended
  <2>6. CASE ThreatIntelFindings
    BY <2>1, <2>2, <2>3, <2>6, BringsType DEF ThreatIntelFindings, TypeOK, Ended
  <2>7. CASE Aborted \/ RequestFails
    BY <2>1, <2>7 DEF Aborted, RequestFails, TypeOK, Ended
  <2>8. ASSUME NEW start \in outstanding, NEW ok \in BOOLEAN, LaterFindings(start, ok)
        PROVE  TypeOK'
    <3>1. start \in Nat /\ Reply(start) \in SUBSET Items
      BY <2>2, PagedFetchAssumption DEF TypeOK
    <3>2. CASE ok
      BY <2>1, <2>8, <3>1, <3>2, BringsType DEF LaterFindings, TypeOK, Ended
    <3>3. CASE ~ok
      BY <2>1, <2>8, <3>3 DEF LaterFindings, TypeOK, Ended
    <3> QED
      BY <3>2, <3>3
  <2> QED
    BY <1>4, <2>4, <2>5, <2>6, <2>7, <2>8 DEF Receive
<1>5. CASE UNCHANGED vars
    BY <1>5 DEF vars, TypeOK
<1> QED
    BY <1>1, <1>2, <1>3, <1>4, <1>5 DEF Next

LEMMA TypeInit == Init => TypeOK
<1> SUFFICES ASSUME Init PROVE TypeOK
    OBVIOUS
<1>1. aborted \in BOOLEAN /\ failed \in BOOLEAN
    BY Zenon DEF Init
<1>2. initial \in 0 .. MaxTotal /\ total \in initial .. MaxTotal /\ startIndex \in 0 .. MaxTotal
    BY PagedFetchAssumption DEF Init
<1> QED
    BY <1>1, <1>2, Zenon DEF Init, TypeOK

\* Every variable keeps its type, whatever the page size and the number of items.
THEOREM TypeCorrect == Spec => []TypeOK
BY TypeInit, TypePreserved, PTL DEF Spec

-----------------------------------------------------------------------------

\* While a loop asks for one page after the other it has every first item above the
\* index it asks for: items that arrive only move the others below it.
Covered ==
    (loop \in {"threatIntelAlerts", "threatIntelFindings"} /\ at \in {"called", "waiting"})
        => \A i \in 1 .. initial : i > total - startIndex => i \in items

\* The next page covers what is between its index and the one after it ...
LEMMA PageCovers ==
    ASSUME TypeOK, Covered, at = "waiting", loop \in {"threatIntelAlerts", "threatIntelFindings"},
           NEW i \in 1 .. initial,
           i > total - Advance(startIndex, Cardinality(Page(startIndex)))
    PROVE  i \in items \cup Page(startIndex)
<1> DEFINE n == Cardinality(Page(startIndex))
<1>1. total \in Nat /\ startIndex \in Nat /\ initial \in Nat /\ total <= MaxTotal /\ i <= total
    BY PagedFetchAssumption DEF TypeOK, Covered
<1>2. n = IF total - startIndex >= PageSize THEN PageSize
          ELSE IF total > startIndex THEN total - startIndex ELSE 0
    BY <1>1, PageSizes
<1>3. n \in Nat /\ i > total - startIndex - n
    BY <1>1, <1>2, PagedFetchAssumption DEF Advance
<1>4. CASE i > total - startIndex
    BY <1>4 DEF Covered
<1>5. CASE i <= total - startIndex
    BY <1>1, <1>2, <1>3, <1>5, PageIs, PagedFetchAssumption
<1> QED
    BY <1>1, <1>4, <1>5

\* ... and one that is not full everything below.
LEMMA LastPageCovers ==
    ASSUME TypeOK, Covered, at = "waiting", loop \in {"threatIntelAlerts", "threatIntelFindings"},
           NEW i \in 1 .. initial, Cardinality(Page(startIndex)) # PageSize
    PROVE  i \in items \cup Page(startIndex)
<1>1. total \in Nat /\ startIndex \in Nat /\ initial \in Nat /\ i <= total
    BY PagedFetchAssumption DEF TypeOK, Covered
<1>2. total - startIndex < PageSize
    BY <1>1, PageSizes, PagedFetchAssumption
<1>3. CASE i > total - startIndex
    BY <1>3 DEF Covered
<1>4. CASE i <= total - startIndex
    BY <1>1, <1>2, <1>4, PageIs, PagedFetchAssumption
<1> QED
    BY <1>1, <1>3, <1>4

\* Every request of the alerts of a detector is for the first page.
LEMMA OnlyPageCovers ==
    ASSUME TypeOK, Covered, Cardinality(Page(0)) # PageSize
    PROVE  1 .. initial \subseteq Page(0)
<1>1. total \in Nat /\ initial \in Nat /\ initial <= total
    BY PagedFetchAssumption DEF TypeOK, Covered
<1>2. total < PageSize
    BY <1>1, PageSizes, PagedFetchAssumption
<1> QED
    BY <1>1, <1>2, PageIs, PagedFetchAssumption

PagesOfFindings == at = "pages" => loop = "findings"

Complete == TypeOK /\ Covered /\ PagesOfFindings /\ NothingMissed

LEMMA CompleteReceive ==
    ASSUME Complete, Receive
    PROVE  (Covered /\ PagesOfFindings /\ NothingMissed)'
<1> USE DEF environment, Nothing, Ended
<1>1. CASE AlertsPage
  <2>1. CASE loop = "alerts"
    BY <1>1, <2>1, OnlyPageCovers
    DEF Complete, AlertsPage, Extend, Reply, Covered, PagesOfFindings, NothingMissed
  <2>2. CASE loop = "threatIntelAlerts"
    <3>1. \A i \in 1 .. initial : i > total - startIndex' => i \in items'
      BY <1>1, <2>2, PageCovers DEF Complete, AlertsPage, Extend, Reply
    <3>2. at' = "returned" => 1 .. initial \subseteq items'
      BY <1>1, <2>2, LastPageCovers DEF Complete, AlertsPage, Extend, Reply
    <3> QED
      BY <1>1, <2>2, <3>1, <3>2
      DEF Complete, AlertsPage, Covered, PagesOfFindings, NothingMissed
  <2> QED
    BY <1>1, <2>1, <2>2 DEF AlertsPage
<1>2. CASE ThreatIntelFindings
  <2>1. \A i \in 1 .. initial : i > total - startIndex' => i \in items'
    BY <1>2, PageCovers DEF Complete, ThreatIntelFindings, Extend, Reply
  <2>2. total < PageSize => Cardinality(Page(startIndex)) # PageSize
    BY PageSizes, PagedFetchAssumption DEF Complete, TypeOK
  <2>3. total < PageSize => 1 .. initial \subseteq items'
    BY <1>2, <2>2, LastPageCovers DEF Complete, ThreatIntelFindings, Extend, Reply
  <2>4. at' = "returned" /\ ~aborted => 1 .. initial \subseteq items'
    BY <1>2, <2>3, PagedFetchAssumption DEF ThreatIntelFindings, Complete, TypeOK
  <2> QED
    BY <1>2, <2>1, <2>4
    DEF Complete, ThreatIntelFindings, Covered, PagesOfFindings, NothingMissed
<1>3. CASE FirstFindings
    BY <1>3 DEF Complete, FirstFindings, Covered, PagesOfFindings, NothingMissed
<1>4. CASE Aborted
    BY <1>4 DEF Complete, Aborted, Covered, PagesOfFindings, NothingMissed
<1>5. CASE RequestFails
    BY <1>5 DEF Complete, RequestFails, Covered, PagesOfFindings, NothingMissed
<1>6. ASSUME NEW start \in outstanding, NEW ok \in BOOLEAN, LaterFindings(start, ok)
      PROVE  (Covered /\ PagesOfFindings /\ NothingMissed)'
    BY <1>6 DEF Complete, LaterFindings, Covered, PagesOfFindings, NothingMissed
<1> QED
    BY <1>1, <1>2, <1>3, <1>4, <1>5, <1>6 DEF Receive

LEMMA CompletePreserved == Complete /\ [Next]_vars => Complete'
<1> SUFFICES ASSUME Complete, [Next]_vars PROVE Complete'
    OBVIOUS
<1>1. TypeOK'
    BY TypePreserved DEF Complete
<1> USE DEF Complete, Covered, PagesOfFindings, NothingMissed, environment, Nothing
<1>2. CASE Arrive
  <2>1. \A i \in 1 .. initial : i > total' - startIndex => i > total - startIndex
    BY <1>2, PagedFetchAssumption DEF Arrive, TypeOK
  <2> QED
    BY <1>1, <1>2, <2>1 DEF Arrive
<1>3. CASE Abort
    BY <1>1, <1>3 DEF Abort
<1>4. CASE Call
    BY <1>1, <1>4 DEF Call
<1>5. CASE Receive
    BY <1>1, <1>5, CompleteReceive
<1>6. CASE UNCHANGED vars
    BY <1>1, <1>6 DEF vars
<1> QED
    BY <1>2, <1>3, <1>4, <1>5, <1>6 DEF Next

LEMMA CompleteInit == Init => Complete
<1> SUFFICES ASSUME Init PROVE Complete
    OBVIOUS
<1>1. Covered
    BY TypeInit, PagedFetchAssumption DEF Init, Covered
<1> QED
    BY <1>1, TypeInit DEF Init, Complete, PagesOfFindings, NothingMissed

\* A loop over alerts or threat intelligence findings that was neither aborted nor failed
\* returns every item there was when it was called, whatever arrives meanwhile: an item
\* moves to a higher index only, and the loop stops at the first page that is not full.
THEOREM MissesNothing == Spec => []NothingMissed
<1>1. Complete => NothingMissed
    BY DEF Complete
<1> QED
    BY <1>1, CompleteInit, CompletePreserved, PTL DEF Spec

-----------------------------------------------------------------------------

\* What a loop was given it has shown, and a loop over threat intelligence alerts during
\* which nothing arrives has only what is above the index it asks for.
Shown ==
    /\ shown = items
    /\ loop \in {"alerts", "threatIntelAlerts"} => late = {}
    /\ (loop = "threatIntelAlerts" /\ total = initial) =>
         /\ twice = {}
         /\ at \in {"called", "waiting"} => \A i \in items : i > total - startIndex

\* A page is below what the pages before it brought.
LEMMA PageBelow ==
    ASSUME TypeOK, NEW i \in Page(startIndex)
    PROVE  i <= total - startIndex
BY PageIs, PagedFetchAssumption DEF TypeOK

\* ... and above the index after it, unless that is past the end of the list.
LEMMA PageAbove ==
    ASSUME TypeOK, NEW i \in Page(startIndex)
    PROVE  i > total - Advance(startIndex, Cardinality(Page(startIndex)))
<1> DEFINE n == Cardinality(Page(startIndex))
<1>1. total \in Nat /\ startIndex \in Nat /\ total <= MaxTotal
    BY PagedFetchAssumption DEF TypeOK
<1>2. n = IF total - startIndex >= PageSize THEN PageSize
          ELSE IF total > startIndex THEN total - startIndex ELSE 0
    BY <1>1, PageSizes
<1>3. i >= 1 /\ i > total - startIndex - n
    BY <1>1, <1>2, PageIs, PagedFetchAssumption
<1>4. n \in Nat
    BY <1>1, <1>2, PagedFetchAssumption
<1>5. i \in Nat
    BY <1>1, PageIs, PagedFetchAssumption
<1> QED
    BY <1>1, <1>3, <1>4, <1>5, PagedFetchAssumption DEF Advance

LEMMA FurtherDown ==
    ASSUME NEW n \in Nat, NEW start \in Nat, NEW next \in Nat, next >= start,
           NEW i \in Nat, i > n - start
    PROVE  i > n - next
OBVIOUS

LEMMA ShownReceive ==
    ASSUME TypeOK, PagesOfFindings, Shown, Receive
    PROVE  Shown'
<1> USE DEF environment, Nothing
<1>1. CASE AlertsPage
  <2>1. CASE loop = "threatIntelAlerts" /\ total = initial
    <3>1. \A i \in items : i > total - startIndex
      BY <1>1, <2>1 DEF AlertsPage, Shown
    <3>0. total \in Nat /\ startIndex \in Nat /\ items \subseteq Nat /\ Page(startIndex) \subseteq Nat
      BY PageIs, PagedFetchAssumption DEF TypeOK, Items
    <3>2. items \cap Page(startIndex) = {}
      <4>1. \A i \in Page(startIndex) : i <= total - startIndex
        BY PageBelow
      <4> QED
        BY <3>0, <3>1, <4>1
    <3>3. twice' = {} /\ items' = items \cup Page(startIndex)
      BY <1>1, <2>1, <3>2 DEF AlertsPage, Extend, Reply, Shown
    <3>4. startIndex' = Advance(startIndex, Cardinality(Page(startIndex)))
      BY <1>1, <2>1 DEF AlertsPage, Reply
    <3>5. Cardinality(Page(startIndex)) \in Nat /\ startIndex \in Nat /\ startIndex <= MaxTotal
      BY PageSizes, PagedFetchAssumption DEF TypeOK
    <3>6. startIndex' >= startIndex /\ startIndex' \in Nat
      BY <3>4, <3>5, PagedFetchAssumption DEF Advance
    <3>7. \A i \in Page(startIndex) : i > total - startIndex'
      BY <3>4, PageAbove
    <3>8. \A i \in items' : i > total - startIndex'
      <4>1. \A i \in items : i > total - startIndex'
        BY <3>0, <3>1, <3>6, FurtherDown
      <4> QED
        BY <3>3, <3>7, <4>1, Zenon
    <3> QED
      BY <1>1, <2>1, <3>3, <3>8 DEF AlertsPage, Show, Extend, Shown
  <2>2. CASE ~(loop = "threatIntelAlerts" /\ total = initial)
    BY <1>1, <2>2 DEF AlertsPage, Show, Extend, Shown
  <2> QED
    BY <2>1, <2>2
<1>2. CASE FirstFindings
    BY <1>2 DEF FirstFindings, Show, Extend, Shown
<1>3. CASE ThreatIntelFindings
    BY <1>3 DEF ThreatIntelFindings, Show, Extend, Shown
<1>4. CASE Aborted
    BY <1>4 DEF Aborted, Shown
<1>5. CASE RequestFails
    BY <1>5 DEF RequestFails, Shown, Ended
<1>6. ASSUME NEW start \in outstanding, NEW ok \in BOOLEAN, LaterFindings(start, ok)
      PROVE  Shown'
  <2>1. loop = "findings"
    BY <1>6 DEF LaterFindings, PagesOfFindings
  <2> QED
    BY <1>6, <2>1 DEF LaterFindings, Show, Extend, Shown
<1> QED
    BY <1>1, <1>2, <1>3, <1>4, <1>5, <1>6 DEF Receive

LEMMA ShownPreserved == Complete /\ Shown /\ [Next]_vars => Shown'
<1> SUFFICES ASSUME Complete, Shown, [Next]_vars PROVE Shown'
    OBVIOUS
<1> USE DEF Shown, environment, Nothing
<1>1. CASE Arrive
  <2>1. total' # initial'
    BY <1>1, PagedFetchAssumption DEF Arrive, Complete, TypeOK
  <2> QED
    BY <1>1, <2>1 DEF Arrive
<1>2. CASE Abort
    BY <1>2 DEF Abort
<1>3. CASE Call
    BY <1>3 DEF Call
<1>4. CASE Receive
    BY <1>4, ShownReceive DEF Complete
<1>5. CASE UNCHANGED vars
    BY <1>5 DEF vars
<1> QED
    BY <1>1, <1>2, <1>3, <1>4, <1>5 DEF Next

LEMMA AlwaysShown == Spec => [](Complete /\ Shown)
<1>1. Init => Shown
    BY DEF Init, Shown
<1> QED
    BY <1>1, CompleteInit, CompletePreserved, ShownPreserved, PTL DEF Spec

\* What the table was shown while the list was loading is what the call returns, and a
\* threat intelligence alert is fetched once unless items arrived meanwhile.
THEOREM ShowsOnce == Spec => []ShownOnce
<1>1. Shown => ShownOnce
    BY DEF Shown, ShownOnce
<1> QED
    BY <1>1, AlwaysShown, PTL

\* A loop over alerts looks at the signal after each await and before the callback: once
\* aborted it shows nothing any more.
THEOREM Quiet == Spec => []QuietAfterAbort
<1>1. Shown => QuietAfterAbort
    BY DEF Shown, QuietAfterAbort
<1> QED
    BY <1>1, AlwaysShown, PTL

=============================================================================
