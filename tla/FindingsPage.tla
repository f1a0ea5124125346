----------------------------- MODULE FindingsPage -----------------------------
(***************************************************************************)
(* The page of findings (Findings): its loads, which overlap, with the     *)
(* loops of FindingsStore and ThreatIntelStore as far as they call for     *)
(* pages, hand them to the page and look at the signal of their load.      *)
(*                                                                         *)
(* A load first waits for the notification channels, then shows the tab    *)
(* that is selected by then: the findings of detectors, one detector after *)
(* the other, or those of threat intelligence.  A page of findings is its  *)
(* load and its number; what is on it is left to PagedFetch.               *)
(***************************************************************************)
EXTENDS Naturals

CONSTANTS
    MaxLoads,       \* how many loads are started (a bound for TLC)
    MaxDetectors,   \* how many detectors a load finds (a bound for TLC)
    MaxPages        \* how many pages a load calls for (a bound for TLC)

Tabs == {"detection-rules", "threat-intel"}
Loads == 1 .. MaxLoads
Pages == Loads \X (1 .. MaxPages)

VARIABLES
    mounted,
    selectedTabId,
    loading,
    findings,       \* by tab, the pages of findings in the list
    rules,          \* the pages whose rules were searched, merged or given up
    at,             \* where each load is
    tab,            \* the tab it loads
    left,           \* how many detectors it has still to ask for
    asked,          \* how many pages it has asked for
    aborted,        \* the loads whose signal is aborted
    requests,       \* the requests for pages that wait
    streaming,      \* the pages that wait for their rules in onStreamingFindings
    many            \* there are 10,000 threat intelligence findings or more

state == <<findings, rules, loading>>
load == <<at, tab, left, asked>>
vars == <<mounted, selectedTabId, state, load, aborted, requests, streaming, many>>

Ended == {"none", "ended"}

TypeOK ==
    /\ mounted \in BOOLEAN /\ loading \in BOOLEAN /\ many \in BOOLEAN
    /\ selectedTabId \in Tabs /\ findings \in [Tabs -> SUBSET Pages] /\ rules \subseteq Pages
    /\ at \in [Loads -> Ended \cup {"channels", "detectors", "first", "pages"}]
    /\ tab \in [Loads -> Tabs] /\ left \in [Loads -> 0 .. MaxDetectors]
    /\ asked \in [Loads -> 0 .. MaxPages] /\ aborted \subseteq Loads
    /\ requests \subseteq Pages /\ streaming \subseteq Pages

Init ==
    /\ mounted = TRUE /\ selectedTabId = "detection-rules" /\ loading = TRUE
    /\ findings = [t \in Tabs |-> {}] /\ rules = {}
    /\ at = [i \in Loads |-> IF i = 1 THEN "channels" ELSE "none"]
    /\ tab = [i \in Loads |-> "detection-rules"]
    /\ left = [i \in Loads |-> 0] /\ asked = [i \in Loads |-> 0]
    /\ aborted = {} /\ requests = {} /\ streaming = {} /\ many = FALSE

\* The loads whose AbortController exists.
Controlled == {i \in Loads : at[i] \notin {"none", "channels"}}

\* setState, which is in vain after componentWillUnmount.
SetState(newFindings, newRules, newLoading) ==
    IF mounted THEN findings' = newFindings /\ rules' = newRules /\ loading' = newLoading
               ELSE UNCHANGED state

-----------------------------------------------------------------------------
(* What the user does *)

\* onRefresh up to its first await.
Starts(i) ==
    /\ at[i] = "none" /\ \A j \in 1 .. i - 1 : at[j] # "none"
    /\ at' = [at EXCEPT ![i] = "channels"]

\* The button, or a change of the data source.
OnRefresh ==
    /\ mounted /\ \E i \in Loads : Starts(i)
    /\ UNCHANGED <<mounted, selectedTabId, state, tab, left, asked, aborted, requests,
                   streaming, many>>

SelectTab(t) ==
    /\ mounted /\ t # selectedTabId /\ \E i \in Loads : Starts(i)
    /\ selectedTabId' = t
    /\ UNCHANGED <<mounted, state, tab, left, asked, aborted, requests, streaming, many>>

\* componentWillUnmount
Leave ==
    /\ mounted /\ mounted' = FALSE /\ aborted' = Controlled
    /\ UNCHANGED <<selectedTabId, state, load, requests, streaming, many>>

\* Threat intelligence findings pile up in the cluster.
PileUp ==
    /\ ~many /\ many' = TRUE
    /\ UNCHANGED <<mounted, selectedTabId, state, load, aborted, requests, streaming>>

-----------------------------------------------------------------------------
(* The steps of a load *)

End(i) == at' = [at EXCEPT ![i] = "ended"]

\* The answer for which the load has waited is there, and it requests n pages at once.
Ask(i, n) ==
    /\ asked[i] + n <= MaxPages
    /\ asked' = [asked EXCEPT ![i] = @ + n]
    /\ requests' = {p \in requests : p[1] # i}
                       \cup {<<i, k>> : k \in asked[i] + 1 .. asked[i] + n}

\* The channels have come, or not: the older loads are aborted and the list is emptied.
GotChannels(i) ==
    /\ at[i] = "channels"
    /\ tab' = [tab EXCEPT ![i] = selectedTabId]
    /\ aborted' = aborted \cup Controlled
    /\ SetState([findings EXCEPT ![selectedTabId] = {}], rules, TRUE)
    /\ \/ /\ selectedTabId = "detection-rules"
          /\ at' = [at EXCEPT ![i] = "detectors"]
          /\ UNCHANGED <<asked, requests>>
       \/ /\ selectedTabId = "threat-intel"
          /\ at' = [at EXCEPT ![i] = "pages"]
          /\ Ask(i, 1)
    /\ UNCHANGED <<mounted, selectedTabId, left, streaming, many>>

\* (mutant: the signal is looked at after the answers only)
NextDetectorRegardless(i, n, newFindings) ==
    \/ /\ n > 0
       /\ at' = [at EXCEPT ![i] = "first"] /\ left' = [left EXCEPT ![i] = n - 1]
       /\ Ask(i, 1)
       /\ SetState(newFindings, rules, loading)
    \/ /\ n = 0
       /\ End(i) /\ SetState(newFindings, rules, FALSE)
       /\ left' = [left EXCEPT ![i] = 0]
       /\ requests' = {p \in requests : p[1] # i} /\ UNCHANGED asked

\* getFindingsPerDetector for the next of n detectors, or the end.
NextDetector(i, n, newFindings) ==
    \/ /\ n > 0 /\ i \notin aborted
       /\ at' = [at EXCEPT ![i] = "first"] /\ left' = [left EXCEPT ![i] = n - 1]
       /\ Ask(i, 1)
       /\ SetState(newFindings, rules, loading)
    \/ /\ n = 0 \/ i \in aborted
       /\ End(i) /\ SetState(newFindings, rules, FALSE)
       /\ left' = [left EXCEPT ![i] = 0]
       /\ requests' = {p \in requests : p[1] # i} /\ UNCHANGED asked

\* The detectors, or the detector of the address; none if that failed.
GotDetectors(i) ==
    /\ at[i] = "detectors"
    /\ \E n \in 0 .. MaxDetectors : NextDetector(i, n, findings)
    /\ UNCHANGED <<mounted, selectedTabId, tab, aborted, streaming, many>>

\* The first page of a detector, which says how many there are: the others are requested
\* at once.
GotFirst(p) ==
    LET i == p[1] IN
    /\ at[i] = "first" /\ p \in requests /\ i \notin aborted
    /\ streaming' = streaming \cup {p}
    /\ \/ NextDetector(i, left[i], findings)
       \/ \E n \in 1 .. MaxPages - asked[i] - left[i] :
            /\ Ask(i, n) /\ at' = [at EXCEPT ![i] = "pages"]
            /\ UNCHANGED <<state, left>>
    /\ UNCHANGED <<mounted, selectedTabId, tab, aborted, many>>

\* It is refused, or comes after the abort.
NoFirst(p) ==
    LET i == p[1] IN
    /\ at[i] = "first" /\ p \in requests
    /\ NextDetector(i, left[i], findings)
    /\ UNCHANGED <<mounted, selectedTabId, tab, aborted, streaming, many>>

\* A later page, also of a load that is aborted; or a failure, which nobody is told of.
GotPage(p) ==
    LET i == p[1] IN
    /\ at[i] = "pages" /\ tab[i] = "detection-rules" /\ p \in requests
    /\ streaming' \in {streaming, streaming \cup {p}}
    /\ \/ /\ \E q \in requests \ {p} : q[1] = i
          /\ requests' = requests \ {p}
          /\ UNCHANGED <<state, at, left, asked>>
       \/ /\ \A q \in requests \ {p} : q[1] # i
          /\ NextDetector(i, left[i], findings)
    /\ UNCHANGED <<mounted, selectedTabId, tab, aborted, many>>

\* (mutant: the end of the load is in its try block)
ThrowsPast(i) ==
    /\ at[i] \in {"detectors", "first"}
    /\ End(i)
    /\ requests' = {p \in requests : p[1] # i}
    /\ UNCHANGED <<mounted, selectedTabId, state, tab, left, asked, aborted, streaming, many>>

\* The first page or the detectors are lost: the load ends in its catch.
Throws(i) ==
    /\ at[i] \in {"detectors", "first"}
    /\ End(i) /\ SetState(findings, rules, FALSE)
    /\ requests' = {p \in requests : p[1] # i}
    /\ UNCHANGED <<mounted, selectedTabId, tab, left, asked, aborted, streaming, many>>

\* A page of threat intelligence is shown whatever the signal says, and then the loop asks
\* again as long as the total is 10,000 or more.
GotThreatIntelPage(p) ==
    LET i == p[1]
        now == [findings EXCEPT !["threat-intel"] = @ \cup {p}]
    IN
    /\ at[i] = "pages" /\ tab[i] = "threat-intel" /\ p \in requests
    /\ \/ /\ many /\ i \notin aborted
          /\ Ask(i, 1) /\ SetState(now, rules, loading) /\ UNCHANGED at
       \/ /\ ~many \/ i \in aborted
          /\ End(i) /\ SetState(now, rules, FALSE)
          /\ requests' = requests \ {p} /\ UNCHANGED asked
    /\ UNCHANGED <<mounted, selectedTabId, tab, left, aborted, streaming, many>>

NoThreatIntelPage(p) ==
    LET i == p[1] IN
    /\ at[i] = "pages" /\ tab[i] = "threat-intel" /\ p \in requests
    /\ End(i) /\ SetState(findings, rules, FALSE)
    /\ requests' = requests \ {p}
    /\ UNCHANGED <<mounted, selectedTabId, tab, left, asked, aborted, streaming, many>>

\* (mutant: the rules that come are those of the pages listed before)
GotRulesOfBefore(p) ==
    /\ p \in streaming
    /\ streaming' = streaming \ {p}
    /\ SetState([findings EXCEPT !["detection-rules"] = @ \cup {p}],
                findings["detection-rules"], loading)
    /\ UNCHANGED <<mounted, selectedTabId, load, aborted, requests, many>>

\* getRules ends: its rules are merged with those there are by now, or it failed; then the
\* page is appended to the list there is by now.
GotRules(p) ==
    /\ p \in streaming
    /\ streaming' = streaming \ {p}
    /\ SetState([findings EXCEPT !["detection-rules"] = @ \cup {p}], rules \cup {p}, loading)
    /\ UNCHANGED <<mounted, selectedTabId, load, aborted, requests, many>>

OfPage(p) ==
    \/ GotFirst(p) \/ NoFirst(p) \/ GotPage(p) \/ GotRules(p)
    \/ GotThreatIntelPage(p) \/ NoThreatIntelPage(p)
OfLoad(i) == GotChannels(i) \/ GotDetectors(i) \/ Throws(i)

Answers == (\E i \in Loads : OfLoad(i)) \/ (\E p \in Pages : OfPage(p))

Next ==
    \/ OnRefresh \/ Leave \/ PileUp
    \/ \E t \in Tabs : SelectTab(t)
    \/ \E i \in Loads : OfLoad(i)
    \/ \E p \in Pages : OfPage(p)

Spec == Init /\ [][Next]_vars

\* Every call is answered or lost, in a time that nobody can tell.
FairSpec == Spec /\ WF_vars(Answers)

-----------------------------------------------------------------------------
(* Properties *)

\* Loads overlap and pages arrive in any order, and yet a finding is never listed before the
\* rules it names were searched for: setState after an await takes effect at once, so
\* that two pages do not lose each other's rules.
RulesBeforeFindings == findings["detection-rules"] \subseteq rules

\* A load that was aborted asks for nothing more.
AskedAborted == \E p \in requests' \ requests : p[1] \in aborted
AbortStops == [][~AskedAborted]_vars

\* Loading ends, whatever fails, unless there are so many threat intelligence findings that
\* their loop does not: remaining is the total less one page, whichever page was asked for.
Over == ~loading \/ many \/ ~mounted
LoadingEnds == ~Over ~> Over

=============================================================================
