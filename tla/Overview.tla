------------------------------- MODULE Overview -------------------------------
(***************************************************************************)
(* The Overview page and its OverviewViewModelActor: five steps that fill  *)
(* five parts of the page one after the other, asked for by a change of    *)
(* the time range, by a change of the data source and by the Refresh       *)
(* button, each with an abort controller of its own.                       *)
(*                                                                         *)
(* A part is what its requests were about: the refresh they belong to, the *)
(* data sources they went to (or that the detectors in them are from) and  *)
(* the time ranges they were made or filtered for.  The popover for new    *)
(* users and the contents of findings and alerts are left out.             *)
(***************************************************************************)
EXTENDS Naturals, Sequences, FiniteSets

CONSTANTS
    DataSources,
    MaxDetectors,   \* how many detectors a step asks about
    MaxChanges      \* how often the user changes or refreshes something

Ranges == {"day", "week"}
Steps == <<"detectors", "findings", "alerts", "threatIntelFindings", "correlations">>
Parts == {Steps[i] : i \in DOMAIN Steps}

VARIABLES
    active,         \* dataSourceInfo.activeDataSource, and the dataSource of the page
    dateTimeFilter, \* the time range that Main gives to the page
    window,         \* startTime and endTime of the actor
    refreshState,   \* "InProgress" or "Complete"
    running,        \* the refreshes under way
    overviewViewModel,      \* the parts
    loading,
    refreshes,      \* how many refreshes were begun
    clean,          \* history: the refresh that ended last was neither disturbed nor aborted
    changes         \* how often the user did something

overviewVars == <<active, dateTimeFilter, window, refreshState, running, overviewViewModel,
                  loading, refreshes, clean, changes>>

Part(id, sources, ranges) == [by |-> id, sources |-> sources, ranges |-> ranges]
Empty == Part(0, {}, {})

TypeOK ==
    /\ active \in DataSources /\ {dateTimeFilter, window} \subseteq Ranges
    /\ refreshState \in {"InProgress", "Complete"}
    /\ Cardinality(running) <= MaxChanges + 1
    /\ overviewViewModel \in [Parts -> [by : 0 .. refreshes, sources : SUBSET DataSources,
                                        ranges : SUBSET Ranges]]
    /\ {loading, clean} \subseteq BOOLEAN

\* A step asks for the range that the actor has now, and keeps to it.
Asking(r, step) ==
    [r EXCEPT !.step = step, !.asked = 1, !.range = window, !.sources = {active}]

\* OverviewViewModelActor.onRefresh, after the signal of the former call of this kind was
\* aborted: the range is kept in any case, but a refresh begins only when none is under way.
OnRefresh(kind, d, range) ==
    /\ window' = range
    /\ IF refreshState = "InProgress"
       THEN /\ running' = {[r EXCEPT !.aborted = @ \/ r.kind = kind, !.clean = FALSE] : r \in running}
            /\ UNCHANGED <<refreshState, refreshes>>
       ELSE /\ refreshState' = "InProgress" /\ refreshes' = refreshes + 1
            /\ running' = {[id |-> refreshes + 1, kind |-> kind, aborted |-> FALSE, clean |-> TRUE,
                            step |-> 1, asked |-> 1, range |-> range, sources |-> {d}]}

\* The page is mounted: the effect on the time range begins a refresh, that on the data source
\* finds it under way.
Init ==
    /\ active \in DataSources /\ dateTimeFilter \in Ranges /\ window = dateTimeFilter
    /\ refreshState = "InProgress" /\ refreshes = 1
    /\ running = {[id |-> 1, kind |-> "range", aborted |-> FALSE, clean |-> TRUE,
                   step |-> 1, asked |-> 1, range |-> window, sources |-> {active}]}
    /\ overviewViewModel = [p \in Parts |-> Empty]
    /\ loading = TRUE /\ clean = FALSE /\ changes = 0

\* The effect on the time range: it does not say that the page is loading.
OnTimeChange(range) ==
    /\ changes < MaxChanges /\ range # dateTimeFilter
    /\ dateTimeFilter' = range /\ changes' = changes + 1
    /\ OnRefresh("range", active, range)
    /\ UNCHANGED <<active, overviewViewModel, loading, clean>>

\* The effect on the data source, which is also another object when it is only named.
SelectDataSource(d) ==
    /\ changes < MaxChanges
    /\ active' = d /\ changes' = changes + 1
    /\ loading' = TRUE
    /\ OnRefresh("source", d, dateTimeFilter)
    /\ UNCHANGED <<dateTimeFilter, overviewViewModel, clean>>

\* The Refresh button.
Refresh ==
    /\ changes < MaxChanges
    /\ changes' = changes + 1
    /\ loading' = TRUE
    /\ OnRefresh("click", active, dateTimeFilter)
    /\ UNCHANGED <<active, dateTimeFilter, overviewViewModel, clean>>

\* runSteps after a step, which went well or not: the next one, or the end.
Proceed(r, ok) ==
    IF r.aborted \/ r.step = Len(Steps)
    THEN /\ running' = running \ {r}
         /\ loading' = FALSE /\ refreshState' = "Complete" /\ clean' = (r.clean /\ ok)
    ELSE /\ running' = (running \ {r}) \cup
                       {[Asking(r, r.step + 1) EXCEPT !.clean = @ /\ ok]}
         /\ UNCHANGED <<loading, refreshState, clean>>

\* The findings and alerts of one detector came: those of the next are asked for.
NextDetector(r) ==
    /\ Steps[r.step] \in {"findings", "alerts"} /\ r.asked < MaxDetectors
    /\ running' = (running \ {r}) \cup {[r EXCEPT !.asked = @ + 1, !.sources = @ \cup {active}]}
    /\ UNCHANGED <<active, dateTimeFilter, window, refreshState, overviewViewModel, loading,
                   refreshes, clean, changes>>

\* What a step puts into the page: items are filtered for the range of now, and those of
\* detectors are about the detectors that the page has.
Filled(r) ==
    CASE Steps[r.step] = "detectors" -> Part(r.id, r.sources, {})
      [] Steps[r.step] \in {"findings", "alerts"} ->
            Part(r.id, r.sources \cup overviewViewModel["detectors"].sources, {r.range, window})
      [] Steps[r.step] = "threatIntelFindings" -> Part(r.id, r.sources, {r.range, window})
      [] OTHER -> Part(r.id, r.sources, {r.range})

\* updateDetectors, updateFindings, updateAlerts, updateThreatIntelFindings and
\* updateCorrelationsCount end, and the page is told.
Update(r) ==
    /\ overviewViewModel' = [overviewViewModel EXCEPT ![Steps[r.step]] = Filled(r)]
    /\ Proceed(r, TRUE)
    /\ UNCHANGED <<active, dateTimeFilter, window, refreshes, changes>>

\* A request of theirs is refused: detectors stay as they are, the rest is what came before.
Refused(r) ==
    /\ overviewViewModel' =
          IF Steps[r.step] = "detectors" THEN overviewViewModel
          ELSE [overviewViewModel EXCEPT ![Steps[r.step]] = Filled(r)]
    /\ Proceed(r, FALSE)
    /\ UNCHANGED <<active, dateTimeFilter, window, refreshes, changes>>

\* The request for detectors is lost, which nothing catches: the actor stays InProgress.
Lost(r) ==
    /\ Steps[r.step] = "detectors"
    /\ running' = running \ {r}
    /\ UNCHANGED <<active, dateTimeFilter, window, refreshState, overviewViewModel, loading,
                   refreshes, clean, changes>>

Next ==
    \/ \E range \in Ranges : OnTimeChange(range)
    \/ \E d \in DataSources : SelectDataSource(d)
    \/ Refresh
    \/ \E r \in running : NextDetector(r) \/ Update(r) \/ Refused(r) \/ Lost(r)

-----------------------------------------------------------------------------

\* The page stops to say that it loads when no refresh is under way.  After one that was neither
\* aborted nor refused, and during which the user changed nothing, all parts are of this refresh,
\* of the data source and of the time range that the page names.
OverviewSettles ==
    refreshState = "Complete" =>
        /\ ~loading
        /\ clean => \A p \in Parts :
              overviewViewModel[p] =
                  Part(refreshes, {active}, IF p = "detectors" THEN {} ELSE {dateTimeFilter})
=============================================================================
