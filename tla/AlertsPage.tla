------------------------------ MODULE AlertsPage ------------------------------
(***************************************************************************)
(* The Alerts page (Alerts.tsx) and its loads.  Opening the page, another  *)
(* tab, another data source and the Refresh button each start a load of    *)
(* the list of the tab; the loads of a tab before it may still be waiting  *)
(* for the cluster and are aborted, with the exception of correlation      *)
(* alerts, which take no signal.                                           *)
(*                                                                         *)
(* An alert is known by where it is: its cluster, its detector and the     *)
(* range of time it falls into (ranges do not overlap), with the load that *)
(* fetched it.  The alerts of a detector fit one page: PagedFetch models   *)
(* how several are fetched.  After the page is left, nothing that its      *)
(* loads do is seen.                                                       *)
(***************************************************************************)
EXTENDS Naturals, FiniteSets

CONSTANTS
    Detectors,      \* detectors of a cluster whose alerts the page lists
    Clusters,       \* data sources the user can select
    Ranges,         \* time ranges the user can select
    StartCluster,   \* the data source ...
    StartRange,     \* ... and the time range that are selected when the page is opened
    MaxLoads        \* how many loads there are (a bound for TLC)

ASSUME AlertsPageAssumption ==
    /\ StartCluster \in Clusters /\ StartRange \in Ranges
    /\ MaxLoads \in Nat \ {0}

VARIABLES
    mounted,        \* the page is shown
    tab,            \* selectedTabId
    range,          \* props.dateTimeFilter
    cluster,        \* props.dataSource and the global the services read
    newest,         \* the newest load of each tab
    loads,          \* how many loads were started
    at,             \* what a load waits for
    kind,           \* the tab a load is for
    left,           \* the detectors it has not asked for yet
    asked,          \* the time range it asks for
    source,         \* the cluster its request went to
    aborted,        \* loads whose signal is aborted
    controllers,    \* abortControllers: loads to abort
    lists,          \* alerts, correlationAlerts, threatIntelAlerts
    filtered,       \* filteredAlerts, filteredCorrelationAlerts, filteredThreatIntelAlerts
    loading,        \* state.loading
    moved,          \* history: the range changed since the newest load of a tab started
    failed          \* history: loads that lost or were refused something

view == <<tab, range, cluster>>
list == <<lists, filtered, loading>>
vars == <<mounted, view, newest, loads, at, kind, left, asked, source, aborted,
          controllers, list, moved, failed>>

Tabs == {"detection", "correlations", "threatIntel"}
Loads == 1 .. MaxLoads

Items == [load : Loads, cluster : Clusters, detector : Detectors, range : Ranges]

Waiting == {"detectors", "alerts", "correlations", "rules", "threatIntel"}

TypeOK ==
    /\ mounted \in BOOLEAN /\ loading \in BOOLEAN
    /\ tab \in Tabs /\ range \in Ranges /\ cluster \in Clusters
    /\ loads \in 1 .. MaxLoads
    /\ newest \in [Tabs -> 0 .. loads]
    /\ at \in [Loads -> Waiting \cup {"unborn", "ended", "rejected"}]
    /\ kind \in [Loads -> Tabs]
    /\ left \in [Loads -> SUBSET Detectors]
    /\ asked \in [Loads -> Ranges]
    /\ source \in [Loads -> Clusters]
    /\ aborted \subseteq 1 .. loads
    /\ controllers \subseteq {loads} \ aborted
    /\ lists \in [Tabs -> SUBSET Items] /\ filtered \in [Tabs -> SUBSET Items]
    /\ moved \in BOOLEAN
    /\ failed \subseteq 1 .. loads

First == [detection |-> "detectors", correlations |-> "correlations",
          threatIntel |-> "threatIntel"]

\* filterAlerts
Within(alerts) == {alert \in alerts : alert.range = range}

\* What a load is given by a cluster for a detector.
Fetched(l, c, d) == [load |-> l, cluster |-> c, detector |-> d, range |-> asked[l]]

\* The place of a load and what it works on.
Await(l, place, detectors) ==
    /\ at' = [at EXCEPT ![l] = place]
    /\ left' = [left EXCEPT ![l] = detectors]
Ask(l) == source' = [source EXCEPT ![l] = cluster]

\* setState of the lists, which an unmounted page ignores.
SetState(newLists, newFiltered, busy) ==
    IF mounted THEN lists' = newLists /\ filtered' = newFiltered /\ loading' = busy
               ELSE UNCHANGED list

-----------------------------------------------------------------------------

\* The page is opened: its first load is under way.
Init ==
    /\ mounted = TRUE
    /\ tab \in Tabs /\ range = StartRange /\ cluster = StartCluster
    /\ loads = 1
    /\ newest = [t \in Tabs |-> IF t = tab THEN 1 ELSE 0]
    /\ at = [l \in Loads |-> IF l = 1 THEN First[tab] ELSE "unborn"]
    /\ kind = [l \in Loads |-> tab]
    /\ left = [l \in Loads |-> {}]
    /\ asked = [l \in Loads |-> range]
    /\ source = [l \in Loads |-> cluster]
    /\ aborted = {}
    /\ controllers = {1}
    /\ lists = [t \in Tabs |-> {}]
    /\ filtered = [t \in Tabs |-> {}]
    /\ loading = TRUE
    /\ moved = FALSE
    /\ failed = {}

\* (mutant: no abort)
AbortNobody(l) ==
    /\ aborted' = aborted
    /\ controllers' = {l}

\* (mutant: the controllers are kept)
AbortAgain(l) ==
    /\ aborted' = aborted \cup controllers
    /\ controllers' = controllers \cup {l}

\* abortPendingGetAlerts, and the controller of the new load.
AbortPending(l) ==
    /\ aborted' = aborted \cup controllers
    /\ controllers' = {l}

\* onRefresh: getAlertsAsPerTab up to the first await of the load it starts.
Refresh(t, c) ==
    LET l == loads + 1 IN
    /\ mounted
    /\ loads < MaxLoads
    /\ tab' = t
    /\ cluster' = c
    /\ loads' = l
    /\ newest' = [newest EXCEPT ![t] = l]
    /\ AbortPending(l)
    /\ at' = [at EXCEPT ![l] = First[t]]
    /\ kind' = [kind EXCEPT ![l] = t]
    /\ asked' = [asked EXCEPT ![l] = range]
    /\ source' = [source EXCEPT ![l] = c]
    /\ lists' = [lists EXCEPT ![t] = {}]
    /\ loading' = TRUE
    /\ moved' = FALSE
    /\ UNCHANGED <<mounted, range, left, filtered, failed>>

PressRefresh == Refresh(tab, cluster)
SelectTab(t) == t # tab /\ Refresh(t, cluster)
SelectDataSource(c) == c # cluster /\ Refresh(tab, c)

\* onTimeChange: filterAlertsOnStateChange finds the alerts as they were and filters
\* nothing.
SelectRange(r) ==
    /\ mounted
    /\ r # range
    /\ range' = r
    /\ moved' = TRUE
    /\ UNCHANGED <<mounted, tab, cluster, newest, loads, at, kind, left, asked, source,
                   aborted, controllers, list, failed>>

Unmount ==
    /\ mounted
    /\ mounted' = FALSE
    /\ aborted' = aborted \cup controllers
    /\ controllers' = {}
    /\ UNCHANGED <<view, newest, loads, at, kind, left, asked, source, list, moved, failed>>

page == <<mounted, view, newest, loads, kind, asked, aborted, controllers, moved>>

\* The end of getAlerts and getCorrelationAlerts: the list as it is, of whatever load,
\* is filtered.
Finish(l, alerts) ==
    LET t == kind[l] IN
    /\ Await(l, "ended", {})
    /\ SetState([lists EXCEPT ![t] = alerts], [filtered EXCEPT ![t] = Within(alerts)], FALSE)

(* getAlerts *)

\* The loop over the detectors: an aborted load asks for none of them any more.
NextDetector(l, detectors, alerts) ==
    \/ /\ detectors = {} \/ l \in aborted
       /\ Finish(l, alerts)
       /\ UNCHANGED source
    \/ /\ detectors # {} /\ l \notin aborted
       /\ Await(l, "alerts", detectors)
       /\ Ask(l)
       /\ SetState([lists EXCEPT !["detection"] = alerts], filtered, loading)

GotDetectors(l) ==
    /\ at[l] = "detectors"
    /\ NextDetector(l, Detectors, lists["detection"])
    /\ UNCHANGED <<page, failed>>

\* (mutant: the page is shown whether the load is aborted or not)
GotAlertsUnchecked(l, d) ==
    /\ at[l] = "alerts"
    /\ d \in left[l]
    /\ NextDetector(l, left[l] \ {d}, lists["detection"] \cup {Fetched(l, source[l], d)})
    /\ UNCHANGED <<page, failed>>

\* getAlertsByDetector resolves for the detector whose turn it is.
GotAlerts(l, d) ==
    /\ at[l] = "alerts"
    /\ d \in left[l]
    /\ NextDetector(l, left[l] \ {d},
           IF l \in aborted THEN lists["detection"]
                            ELSE lists["detection"] \cup {Fetched(l, source[l], d)})
    /\ UNCHANGED <<page, failed>>

\* A refused request for the alerts of a detector: the loop goes on.
AlertsRefused(l, d) ==
    /\ at[l] = "alerts"
    /\ d \in left[l]
    /\ failed' = failed \cup {l}
    /\ NextDetector(l, left[l] \ {d}, lists["detection"])
    /\ UNCHANGED page

(* getCorrelationAlerts *)

GotCorrelations(l) ==
    /\ at[l] = "correlations"
    /\ Await(l, "rules", {})
    /\ UNCHANGED <<page, source, list, failed>>

\* The correlation rules of the alerts: the list is replaced, even by an older load.
GotCorrelationRules(l) ==
    /\ at[l] = "rules"
    /\ Finish(l, {Fetched(l, source[l], d) : d \in Detectors})
    /\ UNCHANGED <<page, source, failed>>

\* (mutant: a failing load leaves the spinner)
LoadFailsSpinning(l) ==
    /\ at[l] \in {"detectors", "alerts", "correlations", "rules"}
    /\ failed' = failed \cup {l}
    /\ Await(l, "ended", {})
    /\ UNCHANGED <<page, source, list>>

\* A refused request for detectors or correlations, or a lost one, ends these two loads.
LoadFails(l) ==
    /\ at[l] \in {"detectors", "alerts", "correlations", "rules"}
    /\ failed' = failed \cup {l}
    /\ Finish(l, lists[kind[l]])
    /\ UNCHANGED <<page, source>>

(* getThreatIntelAlerts *)

\* A page is filtered as it comes.
GotThreatIntelAlerts(l) ==
    LET alerts == lists["threatIntel"] \cup {Fetched(l, source[l], d) : d \in Detectors} IN
    /\ at[l] = "threatIntel"
    /\ Await(l, "ended", {})
    /\ \/ /\ l \notin aborted
          /\ SetState([lists EXCEPT !["threatIntel"] = alerts],
                      [filtered EXCEPT !["threatIntel"] = Within(alerts)], FALSE)
       \/ /\ l \in aborted
          /\ SetState(lists, filtered, FALSE)
    /\ UNCHANGED <<page, source, failed>>

\* A refused request ends the load; nothing catches a lost one.
ThreatIntelFails(l, lost) ==
    /\ at[l] = "threatIntel"
    /\ failed' = failed \cup {l}
    /\ \/ /\ ~lost
          /\ Await(l, "ended", {})
          /\ SetState(lists, filtered, FALSE)
       \/ /\ lost
          /\ Await(l, "rejected", {})
          /\ UNCHANGED list
    /\ UNCHANGED <<page, source>>

Resume(l) ==
    \/ GotDetectors(l)
    \/ \E d \in Detectors : GotAlerts(l, d) \/ AlertsRefused(l, d)
    \/ GotCorrelations(l) \/ GotCorrelationRules(l) \/ LoadFails(l)
    \/ GotThreatIntelAlerts(l)
    \/ \E lost \in BOOLEAN : ThreatIntelFails(l, lost)

Next ==
    \/ PressRefresh \/ Unmount
    \/ \E t \in Tabs : SelectTab(t)
    \/ \E c \in Clusters : SelectDataSource(c)
    \/ \E r \in Ranges : SelectRange(r)
    \/ \E l \in Loads : Resume(l)

Spec == Init /\ [][Next]_vars

\* Requests are answered or fail, and the event loop runs continuations.
FairSpec == Spec /\ \A l \in Loads : WF_vars(Resume(l))

-----------------------------------------------------------------------------
(* Properties *)

\* When the newest load of detection or threat intelligence alerts has ended, the table
\* shows all alerts of the selected cluster in the selected range: no older load that
\* ends before or after it leaves something behind.
SettledCurrent ==
    (/\ mounted /\ ~moved
     /\ tab \in {"detection", "threatIntel"}
     /\ at[newest[tab]] = "ended"
     /\ newest[tab] \notin failed)
    => filtered[tab] = {[load |-> newest[tab], cluster |-> cluster, detector |-> d,
                         range |-> range] : d \in Detectors}

\* The lists of detection and of threat intelligence alerts are those of their newest
\* load: a superseded load adds nothing to them.
Detection == INSTANCE LatestLoad
    WITH newest <- newest["detection"], list <- lists["detection"]
ThreatIntel == INSTANCE LatestLoad
    WITH newest <- newest["threatIntel"], list <- lists["threatIntel"]

OnlyNewestLoad == Detection!Spec /\ ThreatIntel!Spec

\* The page does not stay in its loading state, unless it is left or a request for
\* threat intelligence alerts was lost.
LoadingEnds ==
    loading ~> \/ ~loading \/ ~mounted
               \/ \E l \in Loads : at[l] = "rejected"

=============================================================================
