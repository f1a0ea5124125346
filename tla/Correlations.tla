----------------------------- MODULE Correlations -----------------------------
(***************************************************************************)
(* The page of correlations (CorrelationsContainer): its graph, of all     *)
(* correlations in a window or of one finding, the flyout of that finding, *)
(* and its table, with what CorrelationsStore does for them.               *)
(*                                                                         *)
(* A view is what the page asks for: the time range, the filters and the   *)
(* data source; views are numbered as the user changes them.               *)
(***************************************************************************)
EXTENDS Naturals, FiniteSets

CONSTANTS
    Findings,
    MaxViews,       \* how many views there are (a bound for TLC)
    MaxCalls        \* how many calls wait at a time (a bound for TLC)

Views == 1 .. MaxViews

\* What the graph shows.
Empty == <<>>
AllOf(v) == <<"view", v>>
Of(f) == <<"finding", f>>

VARIABLES
    view,           \* 0 before the page is mounted
    graph,          \* graphData
    info,           \* specificFindingInfo, by its finding; "broken" if that is undefined
    loadingGraphData,
    loadingTableData,
    connected,      \* connectedFindings: the view they are of, or 0
    rows,           \* correlationsTableData: likewise
    calls,          \* the calls that wait
    orderly,        \* history: no load of a view overlapped another, and none was lost
    hidden          \* history: the view was opened for a finding that its filters hide

loading == <<loadingGraphData, loadingTableData>>
vars == <<view, graph, info, loading, connected, rows, calls, orderly, hidden>>

Call(step, v, f) == [step |-> step, view |-> v, finding |-> f]
OfViews == {"graph", "table", "groups"}

TypeOK ==
    /\ view \in 0 .. MaxViews
    /\ graph \in {Empty} \cup {AllOf(v) : v \in Views} \cup {Of(f) : f \in Findings}
    /\ info \in Findings \cup {"none", "broken"}
    /\ loadingGraphData \in BOOLEAN /\ loadingTableData \in BOOLEAN /\ orderly \in BOOLEAN
    /\ hidden \in BOOLEAN
    /\ connected \in 0 .. MaxViews /\ rows \in 0 .. MaxViews
    /\ calls \subseteq [step : OfViews \cup {"node", "inspect"}, view : 0 .. MaxViews,
                        finding : Findings \cup {"none"}]

Room == Cardinality(calls) < MaxCalls

Init ==
    /\ view = 0 /\ graph = Empty /\ info = "none"
    /\ loadingGraphData = FALSE /\ loadingTableData = FALSE
    /\ connected = 0 /\ rows = 0 /\ calls = {} /\ orderly = TRUE /\ hidden = FALSE

-----------------------------------------------------------------------------
(* What the user does; a broken page is gone *)

\* componentDidMount, with the finding of the location or without.  A finding that
\* shouldShowFinding refuses (of no severity, or of a log type without a filter) leaves the
\* graph empty, and no correlations are asked for instead.
Mount ==
    /\ view = 0
    /\ view' = 1 /\ loadingTableData' = TRUE
    /\ \/ /\ loadingGraphData' = TRUE
          /\ calls' = {Call("graph", 1, "none"), Call("table", 1, "none")}
          /\ UNCHANGED <<graph, info, hidden>>
       \/ \E f \in Findings :
            /\ info' = f /\ graph' = Of(f)
            /\ calls' = {Call("table", 1, "none")}
            /\ UNCHANGED <<loadingGraphData, hidden>>
       \/ /\ hidden' = TRUE
          /\ calls' = {Call("table", 1, "none")}
          /\ UNCHANGED <<graph, info, loadingGraphData>>
    /\ UNCHANGED <<connected, rows, orderly>>

\* A filter, the time range or the data source changes (componentDidUpdate); resetFilters
\* also closes the flyout.  updateState and fetchCorrelationsTableData start.
ChangeView ==
    /\ view \in 1 .. MaxViews - 1 /\ info # "broken" /\ Room
    /\ view' = view + 1
    /\ info' \in {info, "none"}
    /\ loadingGraphData' = TRUE /\ loadingTableData' = TRUE
    /\ calls' = calls \cup {Call("graph", view + 1, "none"), Call("table", view + 1, "none")}
    /\ orderly' = ~\E c \in calls : c.step \in OfViews
    /\ hidden' = FALSE
    /\ UNCHANGED <<graph, connected, rows>>

CloseFlyout ==
    /\ info \in Findings
    /\ info' = "none"
    /\ UNCHANGED <<view, graph, loading, connected, rows, calls, orderly, hidden>>

\* onNodeClick; the node is in the graph that is shown.
OnNodeClick(f) ==
    /\ graph # Empty /\ info \notin {f, "broken"} /\ Room
    /\ loadingGraphData' = TRUE
    /\ calls' = calls \cup {Call("node", 0, f)}
    /\ UNCHANGED <<view, graph, info, loadingTableData, connected, rows, orderly, hidden>>

\* onFindingInspect, from the flyout or the table.
OnFindingInspect(f) ==
    /\ info \in Findings \/ rows # 0
    /\ info # "broken" /\ Room
    /\ calls' = calls \cup {Call("inspect", 0, f)}
    /\ UNCHANGED <<view, graph, info, loading, connected, rows, orderly, hidden>>

-----------------------------------------------------------------------------
(* Answers *)

Done(c) == calls' = calls \ {c}

\* updateState gets the correlations of its window, none if they are refused.
GotGraph(c) ==
    /\ c.step = "graph"
    /\ graph' = AllOf(c.view) /\ info' = "none"
    /\ loadingGraphData' = FALSE
    /\ Done(c)
    /\ UNCHANGED <<view, loadingTableData, connected, rows, orderly, hidden>>

\* It is lost, or a finding is of a detector that is gone: nothing catches what is thrown.
GraphLost(c) ==
    /\ c.step = "graph"
    /\ orderly' = FALSE
    /\ Done(c)
    /\ UNCHANGED <<view, graph, info, loading, connected, rows, hidden>>

\* getCorrelatedFindings answers, or is refused and leaves the finding alone in its graph.
GotCorrelated(c) ==
    /\ c.step \in {"node", "inspect"}
    /\ info' = c.finding /\ graph' = Of(c.finding)
    /\ loadingGraphData' = (loadingGraphData /\ c.step # "node")
    /\ Done(c)
    /\ UNCHANGED <<view, loadingTableData, connected, rows, orderly, hidden>>

\* The detectors are refused: fetchAllFindings gives the findings of the call before,
\* among which this one need not be, and the page cannot be rendered.
GotOthers(c) ==
    /\ c.step \in {"node", "inspect"}
    /\ info' = "broken"
    /\ loadingGraphData' = FALSE /\ loadingTableData' = FALSE
    /\ calls' = {} /\ orderly' = FALSE
    /\ UNCHANGED <<view, graph, connected, rows, hidden>>

CorrelatedLost(c) ==
    /\ c.step \in {"node", "inspect"}
    /\ Done(c)
    /\ UNCHANGED <<view, graph, info, loading, connected, rows, orderly, hidden>>

\* fetchCorrelationsTableData has the correlations, and asks for what else a row shows.
GotConnected(c) ==
    /\ c.step = "table"
    /\ connected' = c.view
    /\ calls' = (calls \ {c}) \cup {Call("groups", c.view, "none")}
    /\ UNCHANGED <<view, graph, info, loading, rows, orderly, hidden>>

\* (mutant: the rows are only added to an empty table)
GotRowsOnce(c) ==
    /\ c.step = "groups"
    /\ rows' = IF rows = 0 THEN c.view ELSE rows
    /\ loadingTableData' = FALSE
    /\ Done(c)
    /\ UNCHANGED <<view, graph, info, loadingGraphData, connected, orderly, hidden>>

GotRows(c) ==
    /\ c.step = "groups"
    /\ rows' = c.view
    /\ loadingTableData' = FALSE
    /\ Done(c)
    /\ UNCHANGED <<view, graph, info, loadingGraphData, connected, orderly, hidden>>

TableFails(c) ==
    /\ c.step \in {"table", "groups"}
    /\ loadingTableData' = FALSE
    /\ orderly' = FALSE
    /\ Done(c)
    /\ UNCHANGED <<view, graph, info, loadingGraphData, connected, rows, hidden>>

OfTable(c) == GotConnected(c) \/ GotRows(c) \/ TableFails(c)

Answer(c) ==
    \/ GotGraph(c) \/ GraphLost(c)
    \/ GotCorrelated(c) \/ GotOthers(c) \/ CorrelatedLost(c)
    \/ OfTable(c)

TableAnswers == \E c \in calls : OfTable(c)

Next ==
    \/ Mount \/ ChangeView \/ CloseFlyout
    \/ \E f \in Findings : OnNodeClick(f) \/ OnFindingInspect(f)
    \/ \E c \in calls : Answer(c)

Spec == Init /\ [][Next]_vars

\* The calls of the table are answered or lost, in a time that nobody can tell.
FairSpec == Spec /\ WF_vars(TableAnswers)

-----------------------------------------------------------------------------
(* Properties *)

\* Whenever the flyout shows a finding, the graph is that finding's, whichever of the loads
\* of a window, clicks and inspections answers last.
GraphOfFinding == info \in Findings => graph = Of(info)

\* Once nothing waits, the page shows the present view, if the user did not change it
\* before the last one had come and nothing was lost.  A view that was opened for a finding
\* which its filters hide is the exception: its graph stays empty, though its table fills.
CorrelationsSettle ==
    (view # 0 /\ calls = {} /\ orderly) =>
        /\ graph \in {AllOf(view)} \cup {Of(f) : f \in Findings}
                    \cup (IF hidden THEN {Empty} ELSE {})
        /\ connected = view /\ rows = view

\* Loading the table ends, whatever fails.
TableLoadingEnds == loadingTableData ~> ~loadingTableData

=============================================================================
