------------------------------ MODULE PagedFetch ------------------------------
(***************************************************************************)
(* The four loops that fetch a long list page by page: getAlertsByDetector *)
(* and getThreatIntelAlerts (AlertsStore), getFindingsPerDetector           *)
(* (FindingsStore), getAllThreatIntelFindings (ThreatIntelStore), with the *)
(* plugin's server between them and the cluster.                           *)
(*                                                                         *)
(* One call of one of them is modelled.  The cluster lists items newest    *)
(* first, so that a new one moves the others to higher indexes.  Between   *)
(* two awaits the code runs in one step; the caller can abort, and items   *)
(* can arrive, while it waits.                                             *)
(***************************************************************************)
EXTENDS Integers, FiniteSets

CONSTANTS
    PageSize,       \* 10000, or the alertCount of the caller
    MaxTotal        \* how many items the cluster may come to hold (a bound for TLC)

ASSUME PagedFetchAssumption ==
    /\ PageSize \in Nat \ {0}
    /\ MaxTotal \in Nat

VARIABLES
    loop,           \* which of the four is called
    initial,        \* history: how many items there were when it was called
    total,          \* how many there are now; items are numbered as they arrive
    aborted,        \* signal.aborted
    at,             \* where the call is
    startIndex,     \* of the request the call waits for
    outstanding,    \* start indexes of the later pages of findings, all requested at once
    items,          \* what the call returns
    twice,          \* those of them it returns more than once
    shown,          \* what it handed to the onPartial... callback
    late,           \* history: what it handed to it after the abort
    failed,         \* history: a page was refused or lost
    answers         \* parity of the answers received: each is a step, even when it brings nothing

vars == <<loop, initial, total, aborted, at, startIndex, outstanding, items, twice,
          shown, late, failed, answers>>

Loops == {"alerts", "threatIntelAlerts", "findings", "threatIntelFindings"}
Ended == {"returned", "rejected"}

Items == 1 .. MaxTotal

TypeOK ==
    /\ loop \in Loops
    /\ initial \in 0 .. MaxTotal /\ total \in initial .. MaxTotal
    /\ aborted \in BOOLEAN /\ failed \in BOOLEAN
    /\ at \in {"called", "waiting", "pages"} \cup Ended
    /\ startIndex \in 0 .. MaxTotal
    /\ outstanding \subseteq 0 .. MaxTotal
    /\ items \subseteq Items /\ twice \subseteq items
    /\ shown \subseteq Items /\ late \subseteq shown
    /\ answers \in {0, 1}

\* The page of the cluster's list that starts at an index.
Page(start) == {i \in 1 .. total : total - i \in start .. start + PageSize - 1}

\* The server hands the query on to the cluster: getAlerts of AlertService without its
\* startIndex, the others with it.
Reply(start) == IF loop = "alerts" THEN Page(0) ELSE Page(start)

\* startIndex + n, any index from MaxTotal on standing for all of them: the pages
\* there are empty.
Advance(start, n) == IF start + n < MaxTotal THEN start + n ELSE MaxTotal

\* The callback is given a page ...
Show(page) ==
    /\ shown' = shown \cup page
    /\ late' = IF aborted THEN late \cup page ELSE late

\* (mutant: the list is replaced by the page)
ExtendByReplacing(page) ==
    /\ items' = page
    /\ twice' = twice \cup (items \cap page)

\* ... and the list is extended by it.
Extend(page) ==
    /\ items' = items \cup page
    /\ twice' = twice \cup (items \cap page)
Nothing == UNCHANGED <<items, twice, shown, late>>

environment == <<loop, initial, total, aborted>>

-----------------------------------------------------------------------------

Init ==
    /\ loop \in Loops
    /\ initial \in 0 .. MaxTotal
    /\ total = initial
    /\ aborted \in BOOLEAN
    /\ at = "called"
    /\ startIndex = 0
    /\ outstanding = {}
    /\ items = {} /\ twice = {} /\ shown = {} /\ late = {}
    /\ failed = FALSE
    /\ answers = 0

\* A new alert or finding.
Arrive ==
    /\ total < MaxTotal
    /\ total' = total + 1
    /\ UNCHANGED <<loop, initial, aborted, at, startIndex, outstanding, items, twice,
                   shown, late, failed, answers>>

\* The page that called goes away, or calls anew.
Abort ==
    /\ ~aborted
    /\ aborted' = TRUE
    /\ UNCHANGED <<loop, initial, total, at, startIndex, outstanding, items, twice,
                   shown, late, failed, answers>>

\* The call up to its first await.
Call ==
    /\ at = "called"
    /\ at' = IF aborted THEN "returned" ELSE "waiting"
    /\ UNCHANGED <<environment, startIndex, outstanding, failed, answers>>
    /\ Nothing

\* (mutant: no look at the signal after the await)
AlertsPageUnchecked ==
    LET page == Reply(startIndex) IN
    /\ loop \in {"alerts", "threatIntelAlerts"}
    /\ at = "waiting"
    /\ Show(page)
    /\ Extend(page)
    /\ startIndex' = Advance(startIndex, Cardinality(page))
    /\ at' = IF Cardinality(page) = PageSize THEN "waiting" ELSE "returned"
    /\ UNCHANGED <<environment, outstanding, failed>>

\* (mutant: startIndex goes past the page)
AlertsPageSkipping ==
    LET page == Reply(startIndex) IN
    /\ loop \in {"alerts", "threatIntelAlerts"}
    /\ at = "waiting"
    /\ ~aborted
    /\ Show(page)
    /\ Extend(page)
    /\ startIndex' = Advance(startIndex, Cardinality(page) + 1)
    /\ at' = IF Cardinality(page) = PageSize THEN "waiting" ELSE "returned"
    /\ UNCHANGED <<environment, outstanding, failed>>

\* (mutant: startIndex stays where it is)
AlertsPageStanding ==
    LET page == Reply(startIndex) IN
    /\ loop \in {"alerts", "threatIntelAlerts"}
    /\ at = "waiting"
    /\ ~aborted
    /\ Show(page)
    /\ Extend(page)
    /\ at' = IF Cardinality(page) = PageSize THEN "waiting" ELSE "returned"
    /\ UNCHANGED <<environment, startIndex, outstanding, failed>>

\* A page of alerts: as long as pages are full there is another request.
AlertsPage ==
    LET page == Reply(startIndex) IN
    /\ loop \in {"alerts", "threatIntelAlerts"}
    /\ at = "waiting"
    /\ ~aborted
    /\ Show(page)
    /\ Extend(page)
    /\ startIndex' = Advance(startIndex, Cardinality(page))
    /\ at' = IF Cardinality(page) = PageSize THEN "waiting" ELSE "returned"
    /\ UNCHANGED <<environment, outstanding, failed>>

\* Where the further pages of findings start when the first answer counts n of them.
LaterPages(n) ==
    {Advance(PageSize + 1 + k * PageSize, 0) : k \in {k \in 0 .. n : (k + 1) * PageSize < n}}

\* (mutant: the callback does not get the first page)
FirstFindingsHidden ==
    LET page == Reply(0) IN
    /\ loop = "findings"
    /\ at = "waiting"
    /\ ~aborted
    /\ Extend(page)
    /\ outstanding' = LaterPages(total)
    /\ at' = IF outstanding' = {} THEN "returned" ELSE "pages"
    /\ UNCHANGED <<environment, startIndex, shown, late, failed>>

\* The first page of findings: the others are requested together.
FirstFindings ==
    LET page == Reply(0) IN
    /\ loop = "findings"
    /\ at = "waiting"
    /\ ~aborted
    /\ Show(page)
    /\ Extend(page)
    /\ outstanding' = LaterPages(total)
    /\ at' = IF outstanding' = {} THEN "returned" ELSE "pages"
    /\ UNCHANGED <<environment, startIndex, failed>>

\* One of the others: shown as it comes, aborted or not; a failed one is left out
\* without a word.  The call returns when all have settled.
LaterFindings(start, ok) ==
    LET page == Reply(start) IN
    /\ at = "pages"
    /\ start \in outstanding
    /\ outstanding' = outstanding \ {start}
    /\ at' = IF outstanding' = {} THEN "returned" ELSE "pages"
    /\ \/ /\ ok
          /\ Show(page)
          /\ Extend(page)
          /\ UNCHANGED failed
       \/ /\ ~ok
          /\ failed' = TRUE
          /\ Nothing
    /\ UNCHANGED <<environment, startIndex>>

\* A page of threat intelligence findings: the signal is looked at after the callback,
\* and the count that decides whether to go on is that of all findings.
ThreatIntelFindings ==
    LET page == Reply(startIndex) IN
    /\ loop = "threatIntelFindings"
    /\ at = "waiting"
    /\ Show(page)
    /\ Extend(page)
    /\ startIndex' = Advance(startIndex, Cardinality(page))
    /\ at' = IF total >= PageSize /\ ~aborted THEN "waiting" ELSE "returned"
    /\ UNCHANGED <<environment, outstanding, failed>>

\* An aborted call drops the answer and returns what it has ...
Aborted ==
    /\ at = "waiting"
    /\ aborted
    /\ loop # "threatIntelFindings"
    /\ at' = "returned"
    /\ UNCHANGED <<environment, startIndex, outstanding, failed>>
    /\ Nothing

\* ... and so does one whose request the server refuses; a lost one rejects the call.
RequestFails ==
    /\ at = "waiting"
    /\ at' \in Ended
    /\ failed' = TRUE
    /\ UNCHANGED <<environment, startIndex, outstanding>>
    /\ Nothing

Receive ==
    /\ \/ AlertsPage \/ FirstFindings \/ ThreatIntelFindings
       \/ Aborted \/ RequestFails
       \/ \E start \in outstanding, ok \in BOOLEAN : LaterFindings(start, ok)
    /\ answers' = 1 - answers

Next == Arrive \/ Abort \/ Call \/ Receive

Spec == Init /\ [][Next]_vars

\* Requests are answered or fail, and the event loop runs continuations.
FairSpec == Spec /\ WF_vars(Call) /\ WF_vars(Receive)

-----------------------------------------------------------------------------
(* Properties *)

\* A loop over alerts or threat intelligence findings that was neither aborted nor
\* failed returns every item there was when it was called, although items that arrive
\* meanwhile move the others from one page to the next.
NothingMissed ==
    (loop # "findings" /\ at = "returned" /\ ~aborted /\ ~failed)
        => 1 .. initial \subseteq items

\* What the table was shown while the list was loading is what the call returns, and
\* threat intelligence alerts are among it once, unless items arrived meanwhile.
ShownOnce ==
    /\ at \in {"returned", "pages"} => shown = items
    /\ (loop = "threatIntelAlerts" /\ total = initial) => twice = {}

\* An aborted loop over alerts shows nothing any more, so that the page that aborted it
\* can start a new list.
QuietAfterAbort == loop \in {"alerts", "threatIntelAlerts"} => late = {}

\* Fetching threat intelligence alerts, and the findings of a detector, comes to an end,
\* although new ones arrive meanwhile (MaxTotal of them at most).
FetchEnds == loop \in {"threatIntelAlerts", "findings"} => <>(at \in Ended)

\* "... we make another call until the number of alerts is less then 10,000": fetching
\* the alerts of a detector comes to an end.
AlertsFetchEnds == loop = "alerts" => <>(at \in Ended)

\* "Fetch all findings and alerts for the detectors when displaying in the tables":
\* getFindingsPerDetector that was neither aborted nor failed returns every finding
\* there was when it was called.
FindingsComplete ==
    (loop = "findings" /\ at = "returned" /\ ~aborted /\ ~failed)
        => 1 .. initial \subseteq items

=============================================================================
