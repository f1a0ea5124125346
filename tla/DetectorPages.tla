----------------------------- MODULE DetectorPages -----------------------------
(***************************************************************************)
(* The pages about detectors and what they find, for TLC: those that edit  *)
(* a detector, the page of findings and that of correlations; and the way  *)
(* of the requests that all pages make.  They share no state of the        *)
(* program, so a behaviour follows one of them, chosen at the start.       *)
(* Variables of the same name in two of the modules are one variable here; *)
(* those that the part has no use for stay FALSE.                          *)
(***************************************************************************)
EXTENDS Naturals, FiniteSets

CONSTANTS NoCopy, MaxEdits, MaxCalls, MaxLoads, MaxDetectors, MaxPages, Findings, MaxViews,
          Local, Remotes, NoChoice, NoCall, MaxExtras

VARIABLES
    part,           \* the part of the application that is followed
    cluster, exists, page, hit, aim, copy, shown, submitting, remapped, edits, done,
    loading, calls,
    mounted, selectedTabId, findings, rules, at, tab, left, asked, aborted, requests,
    streaming, many,
    view, graph, info, loadingGraphData, loadingTableData, connected, rows, orderly,
    hidden,
    dataSourceEnabled, activeDataSource, call

ofEditing == <<cluster, exists, page, hit, aim, copy, shown, submitting, remapped, edits, done>>
ofFindings == <<mounted, selectedTabId, findings, rules, at, tab, left, asked, aborted,
                requests, streaming, many>>
ofCorrelations == <<view, graph, info, loadingGraphData, loadingTableData, connected, rows,
                    orderly, hidden>>
ofRequests == <<dataSourceEnabled, activeDataSource, call>>
vars == <<part, ofEditing, loading, calls, ofFindings, ofCorrelations, ofRequests>>

DE == INSTANCE DetectorEditing
FP == INSTANCE FindingsPage
CO == INSTANCE Correlations WITH MaxCalls <- MaxCalls + 1
RQ == INSTANCE Requests

ASSUME DetectorPagesAssumption ==
    /\ {MaxEdits, MaxLoads, MaxDetectors, MaxPages} \subseteq Nat /\ MaxViews \in Nat \ {0}
    /\ NoCopy \notin DE!Copies
    /\ {"none", "broken"} \cap Findings = {}
    /\ NoChoice \notin Remotes \cup {Local}

NoEditing ==
    /\ cluster = FALSE /\ exists = FALSE /\ page = FALSE /\ hit = FALSE /\ aim = FALSE
    /\ copy = FALSE /\ shown = FALSE /\ submitting = FALSE /\ remapped = FALSE
    /\ edits = FALSE /\ done = FALSE
NoFindings ==
    /\ mounted = FALSE /\ selectedTabId = FALSE /\ findings = FALSE /\ rules = FALSE
    /\ at = FALSE /\ tab = FALSE /\ left = FALSE /\ asked = FALSE /\ aborted = FALSE
    /\ requests = FALSE /\ streaming = FALSE /\ many = FALSE
NoCorrelations ==
    /\ view = FALSE /\ graph = FALSE /\ info = FALSE /\ loadingGraphData = FALSE
    /\ loadingTableData = FALSE /\ connected = FALSE /\ rows = FALSE /\ orderly = FALSE
    /\ hidden = FALSE

NoRequests == dataSourceEnabled = FALSE /\ activeDataSource = FALSE /\ call = FALSE

Init ==
    \/ part = "editing" /\ DE!Init /\ NoFindings /\ NoCorrelations /\ NoRequests
    \/ part = "findings" /\ FP!Init /\ calls = FALSE /\ NoEditing /\ NoCorrelations /\ NoRequests
    \/ part = "correlations" /\ CO!Init /\ loading = FALSE /\ NoEditing /\ NoFindings /\ NoRequests
    \/ /\ part = "requests" /\ RQ!Init
       /\ loading = FALSE /\ calls = FALSE /\ NoEditing /\ NoFindings /\ NoCorrelations

InEditing(A) ==
    part = "editing" /\ A /\ UNCHANGED <<part, ofFindings, ofCorrelations, ofRequests>>
InFindings(A) ==
    part = "findings" /\ A /\ UNCHANGED <<part, calls, ofEditing, ofCorrelations, ofRequests>>
InCorrelations(A) ==
    part = "correlations" /\ A /\ UNCHANGED <<part, loading, ofEditing, ofFindings, ofRequests>>
InRequests(A) ==
    part = "requests" /\ A /\ UNCHANGED <<part, loading, calls, ofEditing, ofFindings, ofCorrelations>>

Next ==
    InEditing(DE!Next) \/ InFindings(FP!Next) \/ InCorrelations(CO!Next) \/ InRequests(RQ!Next)

\* The fairness of each part: the answers that its liveness rests on do come.
Spec ==
    /\ Init /\ [][Next]_vars
    /\ WF_vars(InEditing(DE!AnswerSave))
    /\ WF_vars(InFindings(FP!Answers))
    /\ WF_vars(InCorrelations(CO!TableAnswers))

-----------------------------------------------------------------------------
(* The properties of the parts *)

\* The variables of the part that is followed have their types.
TypeOK ==
    /\ part = "editing" => DE!TypeOK
    /\ part = "findings" => FP!TypeOK
    /\ part = "correlations" => CO!TypeOK
    /\ part = "requests" => RQ!TypeOK

\* Nothing that was saved with success is undone by a page that writes the whole detector.
UndoesNothing == part = "editing" => DE!UndoesNothing

\* A finding is never listed before the rules it names were searched for.
RulesBeforeFindings == part = "findings" => FP!RulesBeforeFindings

\* A load of the page of findings that was aborted asks for nothing more.
AbortStops == [][part = "findings" => ~FP!AskedAborted]_vars

\* The graph of correlations is that of the finding in the flyout, and once nothing waits, the
\* page of correlations shows the present view; its graph stays empty only where the page was
\* opened for a finding that its filters hide.
CorrelationsCurrent == part = "correlations" => CO!GraphOfFinding /\ CO!CorrelationsSettle

\* Requests that a page may make are refused by no layer, lose none of their parameters but the
\* first index of a page of alerts, and run on the data source that they were made for, but for
\* two that lose it.
RequestsArrive == part = "requests" => RQ!RequestsArrive /\ RQ!AtItsSource

\* What a page waits for ends, whatever fails: saving the rules and the alert triggers, which
\* gives the button back or leaves the page; loading the page of findings, but for 10,000 threat
\* intelligence findings; and loading the table of correlations.
WaitingEnds ==
    /\ (part = "editing" /\ DE!Saving) ~> ~submitting
    /\ (part = "findings" /\ ~FP!Over) ~> FP!Over
    /\ (part = "correlations" /\ loadingTableData) ~> ~loadingTableData

=============================================================================
