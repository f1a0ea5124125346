---------------------------- MODULE AlertsPageProofs ----------------------------
(***************************************************************************)
(* What holds of the loads of the Alerts page for any detectors, data      *)
(* sources and time ranges, and any number of loads: the table shows what  *)
(* the newest load brought, and no older one disturbs it.                  *)
(***************************************************************************)
EXTENDS AlertsPage, TLAPS

-----------------------------------------------------------------------------
(* The inductive invariant *)

\* Loads are numbered as they start.
Born == \A l \in Loads : at[l] # "unborn" <=> l <= loads

\* A load waits for what loads of its tab wait for.
KindsFit ==
    \A l \in Loads :
        /\ at[l] \in {"detectors", "alerts"} => kind[l] = "detection"
        /\ at[l] \in {"correlations", "rules"} => kind[l] = "correlations"
        /\ at[l] = "threatIntel" => kind[l] = "threatIntel"

\* The newest load is that of the tab that is shown; all others are aborted, and it is not as
\* long as the page is shown.
OthersAborted ==
    /\ newest[tab] = loads
    /\ kind[loads] = tab
    /\ \A l \in 1 .. loads : l # loads => l \in aborted
    /\ mounted => controllers = {loads}

Typed == TypeOK /\ Born /\ KindsFit /\ OthersAborted

Brought(detectors) == {Fetched(loads, cluster, d) : d \in detectors}

\* What the newest load has brought so far, if nothing of it failed.
Progress ==
    /\ ~moved => asked[loads] = range
    /\ at[loads] \in {"detectors", "threatIntel"} => lists[tab] = {}
    /\ at[loads] \in {"alerts", "threatIntel"} => source[loads] = cluster
    /\ at[loads] = "alerts" => lists[tab] = Brought(Detectors \ left[loads])
    /\ at[loads] = "ended" /\ tab # "correlations" =>
          /\ lists[tab] = Brought(Detectors)
          /\ ~moved => filtered[tab] = Within(lists[tab])

Loaded == mounted /\ loads \notin failed => Progress

IInv == Typed /\ Loaded

-----------------------------------------------------------------------------
(* What a load does *)

LEMMA SetStateType ==
    ASSUME TypeOK, NEW newLists \in [Tabs -> SUBSET Items],
           NEW newFiltered \in [Tabs -> SUBSET Items], NEW busy \in BOOLEAN,
           SetState(newLists, newFiltered, busy)
    PROVE  /\ lists' \in [Tabs -> SUBSET Items] /\ filtered' \in [Tabs -> SUBSET Items]
           /\ loading' \in BOOLEAN
BY DEF TypeOK, SetState, list

LEMMA FetchedType ==
    ASSUME TypeOK, NEW l \in Loads, NEW c \in Clusters, NEW d \in Detectors
    PROVE  Fetched(l, c, d) \in Items
BY DEF TypeOK, Fetched, Items

LEMMA FinishType ==
    ASSUME TypeOK, NEW l \in Loads, NEW alerts \in SUBSET Items, Finish(l, alerts)
    PROVE  /\ lists' \in [Tabs -> SUBSET Items] /\ filtered' \in [Tabs -> SUBSET Items]
           /\ loading' \in BOOLEAN
<1>1. Within(alerts) \in SUBSET Items
    BY DEF Within
<1>2. /\ [lists EXCEPT ![kind[l]] = alerts] \in [Tabs -> SUBSET Items]
      /\ [filtered EXCEPT ![kind[l]] = Within(alerts)] \in [Tabs -> SUBSET Items]
    BY <1>1 DEF TypeOK
<1> QED
    BY <1>2, SetStateType DEF Finish

LEMMA NextDetectorType ==
    ASSUME TypeOK, NEW l \in Loads, NEW alerts \in SUBSET Items, NEW detectors \in SUBSET Detectors,
           NextDetector(l, detectors, alerts)
    PROVE  /\ lists' \in [Tabs -> SUBSET Items] /\ filtered' \in [Tabs -> SUBSET Items]
           /\ loading' \in BOOLEAN
           /\ source' \in [Loads -> Clusters]
           /\ \/ Await(l, "ended", {})
              \/ Await(l, "alerts", detectors)
<1>1. CASE Finish(l, alerts) /\ UNCHANGED source
    BY <1>1, FinishType DEF Finish, TypeOK
<1>2. CASE /\ Await(l, "alerts", detectors)
           /\ Ask(l)
           /\ SetState([lists EXCEPT !["detection"] = alerts], filtered, loading)
  <2>1. [lists EXCEPT !["detection"] = alerts] \in [Tabs -> SUBSET Items]
    BY DEF TypeOK
  <2>2. filtered \in [Tabs -> SUBSET Items] /\ loading \in BOOLEAN
    BY DEF TypeOK
  <2>3. source' \in [Loads -> Clusters]
    BY <1>2 DEF Ask, TypeOK
  <2> QED
    BY <1>2, <2>1, <2>2, <2>3, SetStateType
<1> QED
    BY <1>1, <1>2 DEF NextDetector

\* Continuing a load changes nothing but where it is, what it works on and the lists.
ResumesAs(l) ==
    /\ UNCHANGED page
    /\ lists' \in [Tabs -> SUBSET Items] /\ filtered' \in [Tabs -> SUBSET Items]
    /\ loading' \in BOOLEAN
    /\ source' \in [Loads -> Clusters]
    /\ failed' \in {failed, failed \cup {l}}
    /\ at[l] \in Waiting
    /\ \/ \E detectors \in SUBSET Detectors :
             at[l] \in {"detectors", "alerts"} /\ Await(l, "alerts", detectors)
       \/ at[l] = "correlations" /\ Await(l, "rules", {})
       \/ \E place \in {"ended", "rejected"} : Await(l, place, {})

LEMMA ResumeShape ==
    ASSUME Typed, NEW l \in Loads, Resume(l)
    PROVE  ResumesAs(l)
<1> USE DEF Typed, Waiting, ResumesAs
<1>0. /\ lists \in [Tabs -> SUBSET Items] /\ filtered \in [Tabs -> SUBSET Items]
      /\ loading \in BOOLEAN /\ source \in [Loads -> Clusters]
      /\ kind[l] \in Tabs /\ source[l] \in Clusters /\ left[l] \in SUBSET Detectors
      /\ {"detection", "threatIntel"} \subseteq Tabs
    BY DEF TypeOK, Tabs
<1>1. /\ lists["detection"] \in SUBSET Items /\ lists["threatIntel"] \in SUBSET Items
      /\ lists[kind[l]] \in SUBSET Items
      /\ \A d \in Detectors : Fetched(l, source[l], d) \in Items
    BY <1>0, FetchedType
<1>2. CASE GotDetectors(l)
    BY <1>0, <1>1, <1>2, NextDetectorType DEF GotDetectors
<1>3. ASSUME NEW d \in Detectors, GotAlerts(l, d) PROVE ResumesAs(l)
  <2>1. PICK alerts \in SUBSET Items : NextDetector(l, left[l] \ {d}, alerts)
    BY <1>0, <1>1, <1>3 DEF GotAlerts
  <2> QED
    BY <1>0, <1>3, <2>1, NextDetectorType DEF GotAlerts
<1>4. ASSUME NEW d \in Detectors, AlertsRefused(l, d) PROVE ResumesAs(l)
  <2>1. PICK alerts \in SUBSET Items : NextDetector(l, left[l] \ {d}, alerts)
    BY <1>1, <1>4 DEF AlertsRefused
  <2> QED
    BY <1>0, <1>4, <2>1, NextDetectorType DEF AlertsRefused
<1>5. CASE GotCorrelations(l)
    BY <1>0, <1>5 DEF GotCorrelations, list
<1>6. CASE GotCorrelationRules(l)
  <2>1. PICK alerts \in SUBSET Items : Finish(l, alerts)
    BY <1>1, <1>6 DEF GotCorrelationRules
  <2>2. Await(l, "ended", {})
    BY <2>1 DEF Finish
  <2> QED
    BY <1>0, <1>6, <2>1, <2>2, FinishType DEF GotCorrelationRules
<1>7. CASE LoadFails(l)
    BY <1>0, <1>1, <1>7, FinishType DEF LoadFails, Finish
<1>8. CASE GotThreatIntelAlerts(l)
  <2>1. PICK newLists \in [Tabs -> SUBSET Items], newFiltered \in [Tabs -> SUBSET Items] :
            SetState(newLists, newFiltered, FALSE)
    <3> DEFINE alerts == lists["threatIntel"] \cup {Fetched(l, source[l], d) : d \in Detectors}
    <3>1. alerts \in SUBSET Items /\ Within(alerts) \in SUBSET Items
      BY <1>1 DEF Within
    <3> QED
      BY <1>0, <1>8, <3>1 DEF GotThreatIntelAlerts
  <2> QED
    BY <1>0, <1>8, <2>1, SetStateType DEF GotThreatIntelAlerts
<1>9. ASSUME NEW lost \in BOOLEAN, ThreatIntelFails(l, lost) PROVE ResumesAs(l)
    BY <1>0, <1>9, SetStateType DEF ThreatIntelFails, list
<1> QED
    BY <1>2, <1>3, <1>4, <1>5, <1>6, <1>7, <1>8, <1>9 DEF Resume

-----------------------------------------------------------------------------
(* Types, and which load is the newest *)

LEMMA TypedInit == Init => Typed
<1> SUFFICES ASSUME Init PROVE Typed
    OBVIOUS
<1>1. 1 \in Loads /\ 1 \in 1 .. MaxLoads /\ tab \in Tabs
    BY AlertsPageAssumption DEF Loads, Init
<1>2. TypeOK
  <2>1. First[tab] \in Waiting
    BY <1>1 DEF First, Waiting, Tabs
  <2>2. newest \in [Tabs -> 0 .. 1] /\ controllers \subseteq {1} \ aborted
    BY DEF Init
  <2>3. /\ at \in [Loads -> Waiting \cup {"unborn", "ended", "rejected"}]
        /\ kind \in [Loads -> Tabs] /\ left \in [Loads -> SUBSET Detectors]
        /\ asked \in [Loads -> Ranges] /\ source \in [Loads -> Clusters]
    BY <1>1, <2>1, AlertsPageAssumption DEF Init
  <2> QED
    BY <1>1, <2>2, <2>3, AlertsPageAssumption DEF Init, TypeOK
<1>3. Born
    BY <1>1 DEF Init, Born, First, Loads, Tabs
<1>4. KindsFit
    BY DEF Init, KindsFit, First, Tabs
<1>5. OthersAborted
    BY <1>1 DEF Init, OthersAborted
<1> QED
    BY <1>2, <1>3, <1>4, <1>5 DEF Typed

LEMMA RefreshTyped ==
    ASSUME Typed, NEW t \in Tabs, NEW c \in Clusters, Refresh(t, c)
    PROVE  Typed'
<1> DEFINE l == loads + 1
<1>1. /\ l \in Loads /\ l \in 1 .. MaxLoads /\ loads \in Nat \ {0}
      /\ First[t] \in Waiting /\ {} \in SUBSET Items
      /\ 1 .. loads \subseteq 1 .. l /\ 0 .. loads \subseteq 0 .. l
    BY AlertsPageAssumption DEF Typed, TypeOK, Refresh, Loads, First, Waiting, Tabs
<1>2. /\ aborted' = aborted \cup controllers /\ controllers' = {l}
      /\ aborted' \subseteq 1 .. loads /\ l \notin aborted'
    BY <1>1 DEF Refresh, AbortPending, Typed, TypeOK
<1>3. TypeOK'
  <2>1. newest' \in [Tabs -> 0 .. l] /\ lists' \in [Tabs -> SUBSET Items]
    BY <1>1 DEF Typed, TypeOK, Refresh
  <2>2. /\ at' \in [Loads -> Waiting \cup {"unborn", "ended", "rejected"}]
        /\ kind' \in [Loads -> Tabs] /\ asked' \in [Loads -> Ranges]
        /\ source' \in [Loads -> Clusters]
    BY <1>1 DEF Typed, TypeOK, Refresh
  <2>3. failed' \subseteq 1 .. l /\ aborted' \subseteq 1 .. l
        /\ controllers' \subseteq {l} \ aborted'
    BY <1>1, <1>2 DEF Typed, TypeOK, Refresh
  <2> QED
    BY <1>1, <2>1, <2>2, <2>3 DEF Typed, TypeOK, Refresh
<1>4. Born'
    BY <1>1 DEF Typed, TypeOK, Born, Refresh, Waiting, Loads
<1>5. KindsFit'
    BY <1>1 DEF Typed, TypeOK, KindsFit, Refresh, First, Tabs
<1>6. OthersAborted'
  <2>1. newest'[tab'] = loads' /\ kind'[loads'] = tab'
    BY <1>1 DEF Typed, TypeOK, Refresh
  <2>2. \A k \in 1 .. l : k # l => k \in aborted'
    BY <1>1, <1>2 DEF Typed, OthersAborted, Refresh
  <2> QED
    BY <1>2, <2>1, <2>2 DEF OthersAborted, Refresh
<1> QED
    BY <1>3, <1>4, <1>5, <1>6 DEF Typed

LEMMA ResumeTyped ==
    ASSUME Typed, NEW l \in Loads, Resume(l)
    PROVE  Typed'
<1>1. ResumesAs(l)
    BY ResumeShape
<1>2. l \in 1 .. loads
    BY <1>1 DEF Typed, TypeOK, Born, ResumesAs, Waiting, Loads
<1>3. TypeOK'
    BY <1>1, <1>2 DEF Typed, TypeOK, ResumesAs, Await, page, view, Waiting
<1>4. Born'
    BY <1>1, <1>2 DEF Typed, TypeOK, Born, ResumesAs, Await, page, view, Waiting
<1>5. KindsFit'
    BY <1>1 DEF Typed, TypeOK, KindsFit, ResumesAs, Await, page
<1>6. OthersAborted'
    BY <1>1 DEF Typed, OthersAborted, ResumesAs, page, view
<1> QED
    BY <1>3, <1>4, <1>5, <1>6 DEF Typed

LEMMA TypedPreserved == Typed /\ [Next]_vars => Typed'
<1> SUFFICES ASSUME Typed, [Next]_vars PROVE Typed'
    OBVIOUS
<1>1. tab \in Tabs /\ cluster \in Clusters
    BY DEF Typed, TypeOK
<1>2. ASSUME NEW t \in Tabs, NEW c \in Clusters, Refresh(t, c) PROVE Typed'
    BY <1>2, RefreshTyped
<1>3. ASSUME NEW r \in Ranges, SelectRange(r) PROVE Typed'
  <2>1. TypeOK'
    BY <1>3 DEF SelectRange, Typed, TypeOK, list
  <2>2. Born' /\ KindsFit' /\ OthersAborted'
    BY <1>3 DEF SelectRange, Typed, Born, KindsFit, OthersAborted
  <2> QED
    BY <2>1, <2>2 DEF Typed
<1>4. CASE Unmount
  <2>1. aborted' \subseteq 1 .. loads /\ controllers' \subseteq {loads} \ aborted'
    BY <1>4 DEF Unmount, Typed, TypeOK
  <2>2. TypeOK'
    BY <1>4, <2>1 DEF Unmount, Typed, TypeOK, view, list
  <2>3. Born' /\ KindsFit'
    BY <1>4 DEF Unmount, Typed, Born, KindsFit
  <2>4. OthersAborted'
    BY <1>4 DEF Unmount, Typed, OthersAborted, view
  <2> QED
    BY <2>2, <2>3, <2>4 DEF Typed
<1>5. ASSUME NEW l \in Loads, Resume(l) PROVE Typed'
    BY <1>5, ResumeTyped
<1>6. CASE UNCHANGED vars
    BY <1>6 DEF vars, Typed, TypeOK, Born, KindsFit, OthersAborted, view, list
<1> QED
    BY <1>1, <1>2, <1>3, <1>4, <1>5, <1>6 DEF Next, PressRefresh, SelectTab, SelectDataSource

LEMMA AlwaysTyped == Spec => []Typed
BY TypedInit, TypedPreserved, PTL DEF Spec

\* Every variable keeps its type: among others, only the newest load can still be aborted, and
\* the numbers of loads stay within what was started.
THEOREM TypeCorrect == Spec => []TypeOK
<1>1. Typed => TypeOK
    BY DEF Typed
<1> QED
    BY <1>1, AlwaysTyped, PTL

-----------------------------------------------------------------------------
(* What a superseded load does to the lists *)

OfAlerts == {"detection", "threatIntel"}

\* The lists stay, and what is shown of one may be filtered anew.
Leaves(t) ==
    /\ lists'[t] = lists[t]
    /\ filtered'[t] \in {filtered[t], Within(lists[t])}

LEMMA FinishLeaves ==
    ASSUME Typed, NEW l \in Loads, Finish(l, lists[kind[l]]), NEW t \in OfAlerts
    PROVE  Leaves(t)
BY DEF Typed, TypeOK, Finish, SetState, list, OfAlerts, Tabs, Leaves

LEMMA StaleLoad ==
    ASSUME Typed, NEW l \in Loads, l # loads, Resume(l)
    PROVE  source'[loads] = source[loads] /\ \A t \in OfAlerts : Leaves(t)
<1>0. ResumesAs(l)
    BY ResumeShape
<1>1. l \in aborted
    BY <1>0 DEF Typed, TypeOK, Born, OthersAborted, ResumesAs, Waiting, Loads
<1>2. ASSUME Finish(l, lists[kind[l]]), UNCHANGED source
      PROVE  source'[loads] = source[loads] /\ \A t \in OfAlerts : Leaves(t)
    BY <1>2, FinishLeaves
<1>3. ASSUME NEW detectors, NextDetector(l, detectors, lists["detection"]), kind[l] = "detection"
      PROVE  source'[loads] = source[loads] /\ \A t \in OfAlerts : Leaves(t)
    BY <1>1, <1>2, <1>3 DEF NextDetector
<1>4. CASE GotDetectors(l)
    BY <1>3, <1>4 DEF GotDetectors, Typed, KindsFit
<1>5. ASSUME NEW d \in Detectors, GotAlerts(l, d) \/ AlertsRefused(l, d)
      PROVE  source'[loads] = source[loads] /\ \A t \in OfAlerts : Leaves(t)
    BY <1>1, <1>3, <1>5 DEF GotAlerts, AlertsRefused, Typed, KindsFit
<1>6. CASE GotCorrelations(l)
    BY <1>6 DEF GotCorrelations, list, Leaves
<1>7. CASE GotCorrelationRules(l)
  <2>1. kind[l] = "correlations"
    BY <1>7 DEF GotCorrelationRules, Typed, KindsFit
  <2> QED
    BY <1>7, <2>1 DEF GotCorrelationRules, Finish, SetState, list, OfAlerts, Leaves, Typed, TypeOK,
                    Tabs
<1>8. CASE LoadFails(l)
    BY <1>2, <1>8 DEF LoadFails
<1>9. CASE GotThreatIntelAlerts(l)
    BY <1>1, <1>9 DEF GotThreatIntelAlerts, SetState, list, Leaves
<1>10. ASSUME NEW lost \in BOOLEAN, ThreatIntelFails(l, lost)
       PROVE  source'[loads] = source[loads] /\ \A t \in OfAlerts : Leaves(t)
    BY <1>10 DEF ThreatIntelFails, SetState, list, Leaves
<1> QED
    BY <1>4, <1>5, <1>6, <1>7, <1>8, <1>9, <1>10 DEF Resume

-----------------------------------------------------------------------------
(* What the newest load brings *)

LEMMA LoadedInit == Init => Loaded
<1> SUFFICES ASSUME Init PROVE Loaded
    OBVIOUS
<1>1. 1 \in Loads /\ tab \in Tabs
    BY AlertsPageAssumption DEF Loads, Init
<1> QED
    BY <1>1 DEF Init, Loaded, Progress, First, Tabs

LEMMA RefreshLoaded ==
    ASSUME Typed, NEW t \in Tabs, NEW c \in Clusters, Refresh(t, c)
    PROVE  Loaded'
<1> DEFINE l == loads + 1
<1>1. l \in Loads /\ loads' = l /\ tab' = t /\ cluster' = c /\ range' = range
    BY AlertsPageAssumption DEF Refresh, Loads, Typed, TypeOK
<1>2. at'[l] = First[t] /\ asked'[l] = range /\ source'[l] = c /\ lists'[t] = {}
    BY <1>1 DEF Refresh, Typed, TypeOK
<1>3. First[t] \in {"detectors", "correlations", "threatIntel"}
    BY DEF First, Tabs
<1> QED
    BY <1>1, <1>2, <1>3 DEF Loaded, Progress

LEMMA StaleLoaded ==
    ASSUME IInv, NEW l \in Loads, l # loads, Resume(l)
    PROVE  Loaded'
<1>1. ResumesAs(l) /\ source'[loads] = source[loads] /\ \A t \in OfAlerts : Leaves(t)
    BY ResumeShape, StaleLoad DEF IInv
<1>2. /\ UNCHANGED <<mounted, tab, range, cluster, loads, asked, moved>>
      /\ loads \notin failed' => loads \notin failed
    BY <1>1 DEF ResumesAs, page, view
<1>3. at'[loads] = at[loads] /\ left'[loads] = left[loads]
  <2>1. loads \in Loads
    BY DEF IInv, Typed, TypeOK, Loads
  <2>2. PICK place, detectors : Await(l, place, detectors)
    BY <1>1 DEF ResumesAs
  <2> QED
    BY <2>1, <2>2 DEF Await, IInv, Typed, TypeOK
<1>4. tab \in OfAlerts => lists'[tab] = lists[tab]
    BY <1>1 DEF Leaves
<1>5. at[loads] \in {"detectors", "alerts", "threatIntel"} => tab \in OfAlerts
    BY DEF IInv, Typed, TypeOK, KindsFit, OthersAborted, OfAlerts, Loads
<1>6. tab # "correlations" => tab \in OfAlerts
    BY DEF IInv, Typed, TypeOK, Tabs, OfAlerts
<1>7. tab \in OfAlerts => filtered'[tab] \in {filtered[tab], Within(lists[tab])}
    BY <1>1 DEF Leaves
<1>8. ASSUME Progress PROVE Progress'
  <2>1. (~moved => asked[loads] = range)'
    BY <1>2, <1>8 DEF Progress
  <2>2. /\ (at[loads] \in {"detectors", "threatIntel"} => lists[tab] = {})'
        /\ (at[loads] \in {"alerts", "threatIntel"} => source[loads] = cluster)'
    BY <1>1, <1>2, <1>3, <1>4, <1>5, <1>8 DEF Progress
  <2>3. (at[loads] = "alerts" => lists[tab] = Brought(Detectors \ left[loads]))'
    BY <1>2, <1>3, <1>4, <1>5, <1>8 DEF Progress, Brought, Fetched
  <2>4. (at[loads] = "ended" /\ tab # "correlations" => lists[tab] = Brought(Detectors))'
    BY <1>2, <1>3, <1>4, <1>6, <1>8 DEF Progress, Brought, Fetched
  <2>5. (at[loads] = "ended" /\ tab # "correlations" /\ ~moved
            => filtered[tab] = Within(lists[tab]))'
    BY <1>2, <1>3, <1>4, <1>6, <1>7, <1>8 DEF Progress, Within
  <2> QED
    BY <2>1, <2>2, <2>3, <2>4, <2>5 DEF Progress
<1> QED
    BY <1>2, <1>8 DEF IInv, Loaded

\* Brought and the range of the newest load stay while loads continue.
LEMMA BroughtKept ==
    ASSUME UNCHANGED page, NEW detectors
    PROVE  {[load |-> loads', cluster |-> cluster', detector |-> d, range |-> asked'[loads']]
                : d \in detectors} = Brought(detectors)
BY DEF page, view, Brought, Fetched

\* The loop over the detectors, when those before have all brought their alerts.
LEMMA NextDetectorLoaded ==
    ASSUME Typed, mounted, ~moved => asked[loads] = range, UNCHANGED page,
           kind[loads] = "detection", NEW detectors \in SUBSET Detectors,
           NextDetector(loads, detectors, Brought(Detectors \ detectors))
    PROVE  Progress'
<1>1. /\ loads \in Loads /\ tab = "detection" /\ "detection" \in Tabs /\ loads \notin aborted
      /\ loads' = loads /\ tab' = tab
    BY DEF Typed, TypeOK, OthersAborted, Loads, Tabs, page, view
<1>2. (~moved => asked[loads] = range)'
    BY DEF page, view
<1>3. CASE detectors = {} /\ Finish(loads, Brought(Detectors \ detectors))
  <2>1. at'[loads] = "ended" /\ lists'[tab] = Brought(Detectors)
    BY <1>1, <1>3 DEF Finish, Await, SetState, Typed, TypeOK
  <2>2. filtered'[tab] = Within(Brought(Detectors))
    BY <1>1, <1>3 DEF Finish, SetState, Typed, TypeOK
  <2>3. lists'[tab] = Brought(Detectors)'
    BY <2>1, BroughtKept DEF Brought, Fetched
  <2>4. filtered'[tab] = Within(lists[tab])'
    BY <1>1, <2>1, <2>2 DEF Within, page, view
  <2> QED
    BY <1>1, <1>2, <2>1, <2>3, <2>4 DEF Progress
<1>4. CASE /\ Await(loads, "alerts", detectors)
           /\ Ask(loads)
           /\ SetState([lists EXCEPT !["detection"] = Brought(Detectors \ detectors)],
                       filtered, loading)
  <2>1. at'[loads] = "alerts" /\ left'[loads] = detectors
    BY <1>1, <1>4 DEF Await, Typed, TypeOK
  <2>2. (source[loads] = cluster)'
    BY <1>1, <1>4 DEF Ask, page, view, Typed, TypeOK
  <2>3. lists'[tab] = Brought(Detectors \ detectors)
    BY <1>1, <1>4 DEF SetState, Typed, TypeOK
  <2>4. (lists[tab] = Brought(Detectors \ left[loads]))'
    BY <1>1, <2>1, <2>3, BroughtKept DEF Brought, Fetched
  <2> QED
    BY <1>1, <1>2, <2>1, <2>2, <2>4 DEF Progress
<1> QED
    BY <1>1, <1>3, <1>4 DEF NextDetector

LEMMA NewestLoaded ==
    ASSUME IInv, Resume(loads), loads \in Loads
    PROVE  Loaded'
<1>1. ResumesAs(loads)
    BY ResumeShape DEF IInv
<1>2. UNCHANGED <<mounted, tab, range, cluster, loads, asked, moved, newest, aborted, kind>>
    BY <1>1 DEF ResumesAs, page, view
<1> SUFFICES ASSUME mounted, loads \notin failed' PROVE Progress'
    BY <1>2 DEF Loaded
<1>3. /\ loads \notin failed /\ Progress /\ Typed /\ UNCHANGED page
      /\ tab = kind[loads] /\ tab \in Tabs /\ loads \notin aborted
      /\ ~moved => asked[loads] = range
    BY <1>1 DEF IInv, Loaded, ResumesAs, Typed, TypeOK, OthersAborted, Progress
<1>4. CASE GotDetectors(loads)
  <2>1. kind[loads] = "detection" /\ lists["detection"] = Brought(Detectors \ Detectors)
    BY <1>3, <1>4 DEF GotDetectors, Typed, KindsFit, Progress, Brought
  <2> QED
    BY <1>3, <1>4, <2>1, NextDetectorLoaded DEF GotDetectors
<1>5. ASSUME NEW d \in Detectors, GotAlerts(loads, d) PROVE Progress'
  <2>1. /\ kind[loads] = "detection" /\ source[loads] = cluster /\ d \in left[loads]
        /\ left[loads] \in SUBSET Detectors
        /\ lists["detection"] = Brought(Detectors \ left[loads])
    BY <1>3, <1>5 DEF GotAlerts, Typed, TypeOK, KindsFit, Progress
  <2>2. lists["detection"] \cup {Fetched(loads, cluster, d)} = Brought(Detectors \ (left[loads] \ {d}))
    BY <2>1 DEF Brought
  <2>3. NextDetector(loads, left[loads] \ {d}, Brought(Detectors \ (left[loads] \ {d})))
    BY <1>3, <1>5, <2>1, <2>2 DEF GotAlerts
  <2> QED
    BY <1>3, <2>1, <2>3, NextDetectorLoaded
<1>6. ASSUME NEW d \in Detectors, AlertsRefused(loads, d) PROVE Progress'
    BY <1>6 DEF AlertsRefused
<1>7. CASE GotCorrelations(loads)
    BY <1>2, <1>3, <1>7 DEF GotCorrelations, Await, Typed, TypeOK, KindsFit, Progress
<1>8. CASE GotCorrelationRules(loads)
    BY <1>2, <1>3, <1>8 DEF GotCorrelationRules, Finish, Await, Typed, TypeOK, KindsFit, Progress
<1>9. CASE LoadFails(loads)
    BY <1>9 DEF LoadFails
<1>10. CASE GotThreatIntelAlerts(loads)
  <2>1. /\ tab = "threatIntel" /\ "threatIntel" \in Tabs
        /\ source[loads] = cluster /\ lists["threatIntel"] = {}
    BY <1>3, <1>10 DEF GotThreatIntelAlerts, Typed, KindsFit, Progress, Tabs
  <2>2. lists["threatIntel"] \cup {Fetched(loads, source[loads], d) : d \in Detectors}
            = Brought(Detectors)
    BY <2>1 DEF Brought
  <2>3. SetState([lists EXCEPT !["threatIntel"] = Brought(Detectors)],
                 [filtered EXCEPT !["threatIntel"] = Within(Brought(Detectors))], FALSE)
    BY <1>3, <1>10, <2>2 DEF GotThreatIntelAlerts
  <2>4. /\ at'[loads] = "ended" /\ lists'[tab] = Brought(Detectors)
        /\ filtered'[tab] = Within(Brought(Detectors))
    BY <1>3, <1>10, <2>1, <2>3 DEF GotThreatIntelAlerts, Await, SetState, Typed, TypeOK
  <2>5. lists'[tab] = Brought(Detectors)'
    BY <1>3, <2>4, BroughtKept DEF Brought, Fetched
  <2>6. filtered'[tab] = Within(lists[tab])'
    BY <1>2, <2>4 DEF Within
  <2> QED
    BY <1>2, <1>3, <2>4, <2>5, <2>6 DEF Progress
<1>11. ASSUME NEW lost \in BOOLEAN, ThreatIntelFails(loads, lost) PROVE Progress'
    BY <1>11 DEF ThreatIntelFails
<1> QED
    BY <1>4, <1>5, <1>6, <1>7, <1>8, <1>9, <1>10, <1>11 DEF Resume

LEMMA LoadedPreserved == IInv /\ [Next]_vars => Loaded'
<1> SUFFICES ASSUME IInv, [Next]_vars PROVE Loaded'
    OBVIOUS
<1>1. tab \in Tabs /\ cluster \in Clusters
    BY DEF IInv, Typed, TypeOK
<1>2. ASSUME NEW t \in Tabs, NEW c \in Clusters, Refresh(t, c) PROVE Loaded'
    BY <1>2, RefreshLoaded DEF IInv
<1>3. ASSUME NEW r \in Ranges, SelectRange(r) PROVE Loaded'
    BY <1>3 DEF SelectRange, IInv, Loaded, Progress, Brought, Fetched, list
<1>4. CASE Unmount
    BY <1>4 DEF Unmount, Loaded
<1>5. ASSUME NEW l \in Loads, Resume(l) PROVE Loaded'
    BY <1>5, NewestLoaded, StaleLoaded
<1>6. CASE UNCHANGED vars
    BY <1>6 DEF vars, view, list, IInv, Loaded, Progress, Brought, Fetched, Within
<1> QED
    BY <1>1, <1>2, <1>3, <1>4, <1>5, <1>6 DEF Next, PressRefresh, SelectTab, SelectDataSource

LEMMA Invariance == Spec => []IInv
<1>1. Init => IInv
    BY TypedInit, LoadedInit DEF IInv
<1>2. IInv /\ [Next]_vars => IInv'
    BY TypedPreserved, LoadedPreserved DEF IInv
<1> QED
    BY <1>1, <1>2, PTL DEF Spec

\* However loads, refreshes, tabs, data sources and answers interleave, once the newest load of
\* detection or threat intelligence alerts has ended with nothing failed, the table shows exactly
\* the alerts of the selected data source in the selected range.
THEOREM TableSettles == Spec => []SettledCurrent
<1>1. IInv => SettledCurrent
  <2> SUFFICES ASSUME IInv, mounted, ~moved, tab \in {"detection", "threatIntel"},
                      at[newest[tab]] = "ended", newest[tab] \notin failed
               PROVE  filtered[tab] = {[load |-> newest[tab], cluster |-> cluster,
                                        detector |-> d, range |-> range] : d \in Detectors}
    BY DEF SettledCurrent
  <2>1. newest[tab] = loads /\ Progress
    BY DEF IInv, Typed, OthersAborted, Loaded
  <2>2. asked[loads] = range /\ filtered[tab] = Within(Brought(Detectors))
    BY <2>1 DEF Progress
  <2>3. \A item \in Brought(Detectors) : item.range = range
    BY <2>2 DEF Brought, Fetched
  <2>4. filtered[tab] = Brought(Detectors)
    BY <2>2, <2>3 DEF Within
  <2> QED
    BY <2>1, <2>2, <2>4 DEF Brought, Fetched
<1> QED
    BY <1>1, Invariance, PTL

-----------------------------------------------------------------------------
(* The lists are those of their newest loads *)

\* Only the newest load of the tab that is shown changes a list of alerts, and it adds to it.
Adds(t, l) ==
    /\ newest[t] = l
    /\ lists[t] \subseteq lists'[t]
    /\ \A item \in lists'[t] \ lists[t] : item.load = l

LEMMA SetStateAdds ==
    ASSUME Typed, NEW t \in OfAlerts, NEW s \in OfAlerts, NEW alerts, NEW newFiltered, NEW busy,
           newest[s] = loads, lists[s] \subseteq alerts,
           \A item \in alerts \ lists[s] : item.load = loads,
           SetState([lists EXCEPT ![s] = alerts], newFiltered, busy)
    PROVE  lists'[t] = lists[t] \/ Adds(t, loads)
BY DEF SetState, list, OfAlerts, Adds, Typed, TypeOK, Tabs

LEMMA NewestAdds ==
    ASSUME Typed, Resume(loads), loads \in Loads, NEW t \in OfAlerts
    PROVE  lists'[t] = lists[t] \/ Adds(t, loads)
<1>1. newest[kind[loads]] = loads
    BY DEF Typed, OthersAborted
<1>2. ASSUME NEW detectors, NEW alerts, lists["detection"] \subseteq alerts,
             \A item \in alerts \ lists["detection"] : item.load = loads,
             NextDetector(loads, detectors, alerts), kind[loads] = "detection"
      PROVE  lists'[t] = lists[t] \/ Adds(t, loads)
    BY <1>1, <1>2, SetStateAdds DEF NextDetector, Finish, OfAlerts
<1>3. CASE GotDetectors(loads)
  <2>1. NextDetector(loads, Detectors, lists["detection"]) /\ kind[loads] = "detection"
    BY <1>3 DEF GotDetectors, Typed, KindsFit
  <2> QED
    BY <1>2, <2>1
<1>4. ASSUME NEW d \in Detectors, GotAlerts(loads, d)
      PROVE  lists'[t] = lists[t] \/ Adds(t, loads)
  <2>1. PICK alerts \in {lists["detection"],
                          lists["detection"] \cup {Fetched(loads, source[loads], d)}} :
            NextDetector(loads, left[loads] \ {d}, alerts)
    BY <1>4 DEF GotAlerts
  <2>2. kind[loads] = "detection" /\ Fetched(loads, source[loads], d).load = loads
    BY <1>4 DEF GotAlerts, Typed, KindsFit, Fetched
  <2> QED
    BY <1>2, <2>1, <2>2
<1>5. ASSUME NEW d \in Detectors, AlertsRefused(loads, d)
      PROVE  lists'[t] = lists[t] \/ Adds(t, loads)
  <2>1. /\ kind[loads] = "detection"
        /\ NextDetector(loads, left[loads] \ {d}, lists["detection"])
    BY <1>5 DEF AlertsRefused, Typed, KindsFit
  <2> QED
    BY <1>2, <2>1
<1>6. CASE GotCorrelations(loads)
    BY <1>6 DEF GotCorrelations, list
<1>7. CASE GotCorrelationRules(loads)
  <2>1. kind[loads] = "correlations"
    BY <1>7 DEF GotCorrelationRules, Typed, KindsFit
  <2> QED
    BY <1>7, <2>1 DEF GotCorrelationRules, Finish, SetState, list, OfAlerts, Typed, TypeOK, Tabs
<1>8. CASE LoadFails(loads)
    BY <1>8, FinishLeaves DEF LoadFails, Leaves
<1>9. CASE GotThreatIntelAlerts(loads)
  <2> DEFINE alerts == lists["threatIntel"] \cup {Fetched(loads, source[loads], d) : d \in Detectors}
  <2>1. /\ lists["threatIntel"] \subseteq alerts
        /\ \A item \in alerts \ lists["threatIntel"] : item.load = loads
    BY DEF Fetched
  <2>2. newest["threatIntel"] = loads /\ "threatIntel" \in OfAlerts
    BY <1>1, <1>9 DEF GotThreatIntelAlerts, Typed, KindsFit, OfAlerts
  <2>3. CASE \E newFiltered : SetState([lists EXCEPT !["threatIntel"] = alerts], newFiltered, FALSE)
    BY <2>1, <2>2, <2>3, SetStateAdds
  <2>4. CASE SetState(lists, filtered, FALSE)
    BY <2>4 DEF SetState, list
  <2> QED
    BY <1>9, <2>3, <2>4 DEF GotThreatIntelAlerts
<1>10. ASSUME NEW lost \in BOOLEAN, ThreatIntelFails(loads, lost) PROVE lists'[t] = lists[t]
    BY <1>10 DEF ThreatIntelFails, SetState, list
<1> QED
    BY <1>3, <1>4, <1>5, <1>6, <1>7, <1>8, <1>9, <1>10 DEF Resume

\* A step of the page starts a new load of a list, or extends it with what its newest load
\* brought, or leaves it.
LEMMA ListStep ==
    ASSUME Typed, [Next]_vars, NEW t \in OfAlerts
    PROVE  \/ newest'[t] \in Nat /\ newest'[t] > newest[t] /\ lists'[t] = {}
           \/ newest'[t] = newest[t] /\ (lists'[t] = lists[t] \/ Adds(t, newest[t]))
<1>0. t \in Tabs /\ tab \in Tabs /\ cluster \in Clusters /\ loads \in Nat
    BY DEF OfAlerts, Tabs, Typed, TypeOK
<1>1. ASSUME NEW s \in Tabs, NEW c \in Clusters, Refresh(s, c)
      PROVE  \/ newest'[t] \in Nat /\ newest'[t] > newest[t] /\ lists'[t] = {}
             \/ newest'[t] = newest[t] /\ lists'[t] = lists[t]
    BY <1>0, <1>1 DEF Refresh, Typed, TypeOK
<1>2. ASSUME NEW l \in Loads, Resume(l)
      PROVE  newest'[t] = newest[t] /\ (lists'[t] = lists[t] \/ Adds(t, newest[t]))
  <2>1. newest'[t] = newest[t]
    BY <1>2, ResumeShape DEF ResumesAs, page
  <2>2. CASE l = loads
    BY <1>2, <2>1, <2>2, NewestAdds DEF Adds
  <2>3. CASE l # loads
    BY <1>2, <2>1, <2>3, StaleLoad DEF Leaves
  <2> QED
    BY <2>2, <2>3
<1>3. ASSUME UNCHANGED <<newest, lists>> PROVE newest'[t] = newest[t] /\ lists'[t] = lists[t]
    BY <1>3
<1> QED
    BY <1>0, <1>1, <1>2, <1>3
    DEF Next, PressRefresh, SelectTab, SelectDataSource, SelectRange, Unmount, list, vars

\* The detection and the threat intelligence alerts each implement the list that only ever holds
\* what its newest load brought (LatestLoad), whatever superseded loads still receive.
THEOREM ListsRefine == Spec => OnlyNewestLoad
<1>1. Init => Detection!Init /\ ThreatIntel!Init
    BY AlertsPageAssumption DEF Init, Detection!Init, ThreatIntel!Init, Tabs
<1>2. Typed /\ [Next]_vars => [Detection!Next]_(Detection!vars)
  <2> SUFFICES ASSUME Typed, [Next]_vars PROVE [Detection!Next]_(Detection!vars)
    OBVIOUS
  <2>1. \/ /\ newest'["detection"] \in Nat /\ newest'["detection"] > newest["detection"]
           /\ lists'["detection"] = {}
        \/ /\ newest'["detection"] = newest["detection"]
           /\ \/ lists'["detection"] = lists["detection"]
              \/ Adds("detection", newest["detection"])
    BY ListStep DEF OfAlerts
  <2> QED
    BY <2>1 DEF Detection!Next, Detection!Begin, Detection!Extend, Detection!vars, Adds
<1>3. Typed /\ [Next]_vars => [ThreatIntel!Next]_(ThreatIntel!vars)
  <2> SUFFICES ASSUME Typed, [Next]_vars PROVE [ThreatIntel!Next]_(ThreatIntel!vars)
    OBVIOUS
  <2>1. \/ /\ newest'["threatIntel"] \in Nat /\ newest'["threatIntel"] > newest["threatIntel"]
           /\ lists'["threatIntel"] = {}
        \/ /\ newest'["threatIntel"] = newest["threatIntel"]
           /\ \/ lists'["threatIntel"] = lists["threatIntel"]
              \/ Adds("threatIntel", newest["threatIntel"])
    BY ListStep DEF OfAlerts
  <2> QED
    BY <2>1 DEF ThreatIntel!Next, ThreatIntel!Begin, ThreatIntel!Extend, ThreatIntel!vars, Adds
<1> QED
    BY <1>1, <1>2, <1>3, AlwaysTyped, PTL DEF Spec, OnlyNewestLoad, Detection!Spec, ThreatIntel!Spec

=============================================================================
