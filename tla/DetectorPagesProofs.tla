-------------------------- MODULE DetectorPagesProofs --------------------------
(***************************************************************************)
(* What holds of the pages about detectors and what they find for any      *)
(* number of loads, findings, calls and edits.  Each part of the           *)
(* application has an inductive invariant of its own.                      *)
(* Last the requests of the pages: for every set of data sources and       *)
(* whatever of its optional parameters a caller gives, no layer refuses a  *)
(* request, and it arrives where it was meant to run with what it was      *)
(* given.                                                                  *)
(***************************************************************************)
EXTENDS DetectorPages, TLAPS

-----------------------------------------------------------------------------
(* The page of findings *)

\* A load without a controller cannot be aborted.
AbortedAreControlled == aborted \subseteq FP!Controlled

Listing == FP!TypeOK /\ AbortedAreControlled /\ FP!RulesBeforeFindings

LEMMA ListingInit == ASSUME FP!Init PROVE Listing
<1>1. /\ findings \in [FP!Tabs -> SUBSET FP!Pages] /\ rules \subseteq FP!Pages
      /\ at \in [FP!Loads -> FP!Ended \cup {"channels", "detectors", "first", "pages"}]
      /\ tab \in [FP!Loads -> FP!Tabs]
    BY DEF FP!Init, FP!Tabs, FP!Ended
<1>2. left \in [FP!Loads -> 0 .. MaxDetectors] /\ asked \in [FP!Loads -> 0 .. MaxPages]
    BY DetectorPagesAssumption DEF FP!Init
<1>3. FP!TypeOK
    BY <1>1, <1>2 DEF FP!Init, FP!TypeOK, FP!Tabs
<1>4. AbortedAreControlled /\ FP!RulesBeforeFindings
    BY DEF FP!Init, AbortedAreControlled, FP!RulesBeforeFindings, FP!Tabs
<1> QED
    BY <1>3, <1>4 DEF Listing

\* What SetState leaves of the list, whatever it is given.
LEMMA SetStateKeeps ==
    ASSUME FP!TypeOK, FP!RulesBeforeFindings,
           NEW newFindings \in [FP!Tabs -> SUBSET FP!Pages], NEW newRules \in SUBSET FP!Pages,
           NEW newLoading \in BOOLEAN, newFindings["detection-rules"] \subseteq newRules,
           FP!SetState(newFindings, newRules, newLoading)
    PROVE  /\ findings' \in [FP!Tabs -> SUBSET FP!Pages] /\ rules' \in SUBSET FP!Pages
           /\ loading' \in BOOLEAN
           /\ FP!RulesBeforeFindings'
BY DEF FP!TypeOK, FP!SetState, FP!state, FP!RulesBeforeFindings

\* A load asks for pages of its own.
LEMMA AskKeeps ==
    ASSUME FP!TypeOK, NEW i \in FP!Loads, NEW n \in Nat, FP!Ask(i, n)
    PROVE  /\ asked' \in [FP!Loads -> 0 .. MaxPages]
           /\ requests' \in SUBSET FP!Pages
           /\ \A p \in requests' \ requests : p[1] = i
<1>1. asked[i] \in 0 .. MaxPages /\ asked[i] + n \in 0 .. MaxPages
    BY DetectorPagesAssumption DEF FP!TypeOK, FP!Ask
<1>2. \A k \in asked[i] + 1 .. asked[i] + n : <<i, k>> \in FP!Pages
    BY <1>1, DetectorPagesAssumption DEF FP!Pages
<1>3. asked' = [asked EXCEPT ![i] = asked[i] + n]
    BY DEF FP!Ask
<1> QED
    BY <1>1, <1>2, <1>3 DEF FP!TypeOK, FP!Ask

LEMMA ListingTypes ==
    ASSUME Listing
    PROVE  /\ mounted \in BOOLEAN /\ loading \in BOOLEAN /\ many \in BOOLEAN
           /\ selectedTabId \in FP!Tabs /\ findings \in [FP!Tabs -> SUBSET FP!Pages]
           /\ rules \in SUBSET FP!Pages
           /\ at \in [FP!Loads -> FP!Ended \cup {"channels", "detectors", "first", "pages"}]
           /\ tab \in [FP!Loads -> FP!Tabs] /\ left \in [FP!Loads -> 0 .. MaxDetectors]
           /\ asked \in [FP!Loads -> 0 .. MaxPages] /\ aborted \in SUBSET FP!Loads
           /\ requests \in SUBSET FP!Pages /\ streaming \in SUBSET FP!Pages
           /\ findings["detection-rules"] \subseteq rules
           /\ FP!TypeOK /\ FP!RulesBeforeFindings /\ AbortedAreControlled
BY DEF Listing, FP!TypeOK, FP!RulesBeforeFindings

LEMMA NextDetectorKeeps ==
    ASSUME Listing, NEW i \in FP!Loads, at[i] \notin {"none", "channels"},
           NEW n \in 0 .. MaxDetectors, FP!NextDetector(i, n, findings)
    PROVE  /\ findings' \in [FP!Tabs -> SUBSET FP!Pages] /\ rules' \in SUBSET FP!Pages
           /\ loading' \in BOOLEAN
           /\ at' \in [FP!Loads -> FP!Ended \cup {"channels", "detectors", "first", "pages"}]
           /\ left' \in [FP!Loads -> 0 .. MaxDetectors]
           /\ asked' \in [FP!Loads -> 0 .. MaxPages]
           /\ requests' \in SUBSET FP!Pages
           /\ \A j \in FP!Loads : at'[j] \in {"none", "channels"} => at[j] = at'[j]
           /\ FP!RulesBeforeFindings'
           /\ \A p \in requests' \ requests : p[1] \notin aborted
<1>1. /\ findings \in [FP!Tabs -> SUBSET FP!Pages] /\ rules \in SUBSET FP!Pages
      /\ loading \in BOOLEAN /\ FP!RulesBeforeFindings /\ FP!TypeOK
    BY DEF Listing, FP!TypeOK
<1>2. findings["detection-rules"] \subseteq rules
    BY <1>1 DEF FP!RulesBeforeFindings
<1>3. CASE /\ n > 0 /\ i \notin aborted
           /\ at' = [at EXCEPT ![i] = "first"] /\ left' = [left EXCEPT ![i] = n - 1]
           /\ FP!Ask(i, 1)
           /\ FP!SetState(findings, rules, loading)
  <2>1. n - 1 \in 0 .. MaxDetectors
    BY <1>3, DetectorPagesAssumption
  <2>2. at' \in [FP!Loads -> FP!Ended \cup {"channels", "detectors", "first", "pages"}]
        /\ left' \in [FP!Loads -> 0 .. MaxDetectors]
    BY <1>1, <1>3, <2>1 DEF FP!TypeOK
  <2>3. \A j \in FP!Loads : at'[j] \in {"none", "channels"} => at[j] = at'[j]
    BY <1>1, <1>3 DEF FP!TypeOK
  <2>4. /\ findings' \in [FP!Tabs -> SUBSET FP!Pages] /\ rules' \in SUBSET FP!Pages
        /\ loading' \in BOOLEAN /\ FP!RulesBeforeFindings'
    BY <1>1, <1>2, <1>3, SetStateKeeps
  <2>5. /\ asked' \in [FP!Loads -> 0 .. MaxPages] /\ requests' \in SUBSET FP!Pages
        /\ \A p \in requests' \ requests : p[1] = i
    BY <1>1, <1>3, AskKeeps
  <2>6. \A p \in requests' \ requests : p[1] \notin aborted
    BY <1>3, <2>5
  <2> QED
    BY <2>2, <2>3, <2>4, <2>5, <2>6
<1>4. CASE /\ FP!End(i) /\ FP!SetState(findings, rules, FALSE)
           /\ left' = [left EXCEPT ![i] = 0]
           /\ requests' = {p \in requests : p[1] # i} /\ UNCHANGED asked
  <2>1. left' \in [FP!Loads -> 0 .. MaxDetectors]
    BY <1>1, <1>4, DetectorPagesAssumption DEF FP!TypeOK
  <2>2. at' \in [FP!Loads -> FP!Ended \cup {"channels", "detectors", "first", "pages"}]
        /\ \A j \in FP!Loads : at'[j] \in {"none", "channels"} => at[j] = at'[j]
    BY <1>1, <1>4 DEF FP!TypeOK, FP!End, FP!Ended
  <2>3. requests' \subseteq requests /\ asked' \in [FP!Loads -> 0 .. MaxPages]
    BY <1>1, <1>4 DEF FP!TypeOK
  <2> QED
    BY <1>1, <1>2, <1>4, <2>1, <2>2, <2>3, SetStateKeeps DEF FP!TypeOK
<1> QED
    BY <1>3, <1>4 DEF FP!NextDetector

\* What every step of a load keeps, and that it asks for nothing when it is aborted.
LoadKeeps ==
    /\ findings' \in [FP!Tabs -> SUBSET FP!Pages] /\ rules' \in SUBSET FP!Pages
    /\ loading' \in BOOLEAN
    /\ at' \in [FP!Loads -> FP!Ended \cup {"channels", "detectors", "first", "pages"}]
    /\ tab' \in [FP!Loads -> FP!Tabs]
    /\ left' \in [FP!Loads -> 0 .. MaxDetectors]
    /\ asked' \in [FP!Loads -> 0 .. MaxPages]
    /\ aborted' \subseteq aborted \cup FP!Controlled
    /\ requests' \in SUBSET FP!Pages
    /\ streaming' \in SUBSET FP!Pages
    /\ UNCHANGED <<mounted, selectedTabId, many>>
    /\ \A j \in FP!Loads : at'[j] \in {"none", "channels"} => at[j] = at'[j]
    /\ FP!RulesBeforeFindings'
    /\ \A p \in requests' \ requests : p[1] \notin aborted

LEMMA GotChannelsKeeps == ASSUME Listing, NEW i \in FP!Loads, FP!GotChannels(i) PROVE LoadKeeps
<1> USE ListingTypes
<1> DEFINE emptied == [findings EXCEPT ![selectedTabId] = {}]
<1>1. emptied \in [FP!Tabs -> SUBSET FP!Pages] /\ emptied["detection-rules"] \subseteq rules
    OBVIOUS
<1>2. FP!SetState(emptied, rules, TRUE)
    BY DEF FP!GotChannels
<1>3. /\ findings' \in [FP!Tabs -> SUBSET FP!Pages] /\ rules' \in SUBSET FP!Pages
      /\ loading' \in BOOLEAN /\ FP!RulesBeforeFindings'
  <2> HIDE DEF emptied
  <2> QED
    BY <1>1, <1>2, SetStateKeeps
<1>4. i \notin aborted
    BY DEF FP!GotChannels, AbortedAreControlled, FP!Controlled
<1>5. /\ at' \in [FP!Loads -> FP!Ended \cup {"channels", "detectors", "first", "pages"}]
      /\ \A j \in FP!Loads : at'[j] \in {"none", "channels"} => at[j] = at'[j]
    BY DEF FP!GotChannels
<1>6. /\ asked' \in [FP!Loads -> 0 .. MaxPages] /\ requests' \in SUBSET FP!Pages
      /\ \A p \in requests' \ requests : p[1] \notin aborted
  <2>1. CASE UNCHANGED <<asked, requests>>
    BY <2>1
  <2>2. CASE FP!Ask(i, 1)
    BY <2>2, <1>4, AskKeeps
  <2> QED
    BY <2>1, <2>2 DEF FP!GotChannels
<1>7. /\ tab' \in [FP!Loads -> FP!Tabs] /\ left' \in [FP!Loads -> 0 .. MaxDetectors]
      /\ aborted' \subseteq aborted \cup FP!Controlled /\ streaming' \in SUBSET FP!Pages
      /\ UNCHANGED <<mounted, selectedTabId, many>>
    BY DEF FP!GotChannels
<1> QED
    BY <1>3, <1>5, <1>6, <1>7 DEF LoadKeeps


LEMMA GotDetectorsKeeps == ASSUME Listing, NEW i \in FP!Loads, FP!GotDetectors(i) PROVE LoadKeeps
<1>1. PICK n \in 0 .. MaxDetectors : FP!NextDetector(i, n, findings)
    BY DEF FP!GotDetectors
<1>2. at[i] \notin {"none", "channels"}
    BY DEF FP!GotDetectors
<1>3. /\ tab' \in [FP!Loads -> FP!Tabs]
      /\ aborted' \subseteq aborted \cup FP!Controlled /\ streaming' \in SUBSET FP!Pages
      /\ UNCHANGED <<mounted, selectedTabId, many>>
    BY ListingTypes DEF FP!GotDetectors
<1> QED
    BY <1>1, <1>2, <1>3, NextDetectorKeeps DEF LoadKeeps

LEMMA ThrowsKeeps == ASSUME Listing, NEW i \in FP!Loads, FP!Throws(i) PROVE LoadKeeps
<1> USE ListingTypes
<1>1. /\ findings' \in [FP!Tabs -> SUBSET FP!Pages] /\ rules' \in SUBSET FP!Pages
      /\ loading' \in BOOLEAN /\ FP!RulesBeforeFindings'
    BY SetStateKeeps DEF FP!Throws
<1>2. /\ at' \in [FP!Loads -> FP!Ended \cup {"channels", "detectors", "first", "pages"}]
      /\ \A j \in FP!Loads : at'[j] \in {"none", "channels"} => at[j] = at'[j]
    BY DEF FP!Throws, FP!End, FP!Ended
<1> QED
    BY <1>1, <1>2 DEF LoadKeeps, FP!Throws

LEMMA PageOfLoad == \A p \in FP!Pages : p[1] \in FP!Loads
BY DEF FP!Pages

LEMMA GotFirstKeeps == ASSUME Listing, NEW p \in FP!Pages, FP!GotFirst(p) PROVE LoadKeeps
<1> USE ListingTypes
<1> DEFINE i == p[1]
<1>1. i \in FP!Loads /\ at[i] = "first" /\ i \notin aborted
    BY PageOfLoad DEF FP!GotFirst
<1>2. /\ tab' \in [FP!Loads -> FP!Tabs]
      /\ aborted' \subseteq aborted \cup FP!Controlled /\ streaming' \in SUBSET FP!Pages
      /\ UNCHANGED <<mounted, selectedTabId, many>>
    BY DEF FP!GotFirst
<1>3. CASE FP!NextDetector(i, left[i], findings)
  <2>1. left[i] \in 0 .. MaxDetectors
    BY <1>1
  <2> QED
    BY <1>1, <1>2, <1>3, <2>1, NextDetectorKeeps DEF LoadKeeps
<1>4. ASSUME NEW n \in 1 .. MaxPages - asked[i] - left[i], FP!Ask(i, n),
             at' = [at EXCEPT ![i] = "pages"], UNCHANGED <<FP!state, left>>
      PROVE  LoadKeeps
  <2>1. n \in Nat
    BY <1>1, <1>4, DetectorPagesAssumption
  <2>2. /\ asked' \in [FP!Loads -> 0 .. MaxPages] /\ requests' \in SUBSET FP!Pages
        /\ \A q \in requests' \ requests : q[1] \notin aborted
    BY <1>1, <1>4, <2>1, AskKeeps
  <2>3. /\ at' \in [FP!Loads -> FP!Ended \cup {"channels", "detectors", "first", "pages"}]
        /\ \A j \in FP!Loads : at'[j] \in {"none", "channels"} => at[j] = at'[j]
    BY <1>1, <1>4
  <2>4. /\ UNCHANGED <<findings, rules, loading, left>>
        /\ FP!RulesBeforeFindings'
    BY <1>4 DEF FP!state, FP!RulesBeforeFindings
  <2> QED
    BY <1>2, <2>2, <2>3, <2>4 DEF LoadKeeps
<1> QED
    BY <1>3, <1>4 DEF FP!GotFirst

LEMMA NoFirstKeeps == ASSUME Listing, NEW p \in FP!Pages, FP!NoFirst(p) PROVE LoadKeeps
<1> USE ListingTypes
<1>1. p[1] \in FP!Loads /\ at[p[1]] = "first" /\ FP!NextDetector(p[1], left[p[1]], findings)
    BY PageOfLoad DEF FP!NoFirst
<1>2. left[p[1]] \in 0 .. MaxDetectors
    BY <1>1
<1>3. /\ tab' \in [FP!Loads -> FP!Tabs]
      /\ aborted' \subseteq aborted \cup FP!Controlled /\ streaming' \in SUBSET FP!Pages
      /\ UNCHANGED <<mounted, selectedTabId, many>>
    BY DEF FP!NoFirst
<1> QED
    BY <1>1, <1>2, <1>3, NextDetectorKeeps DEF LoadKeeps

LEMMA GotPageKeeps == ASSUME Listing, NEW p \in FP!Pages, FP!GotPage(p) PROVE LoadKeeps
<1> USE ListingTypes
<1>1. p[1] \in FP!Loads /\ at[p[1]] = "pages"
    BY PageOfLoad DEF FP!GotPage
<1>2. /\ tab' \in [FP!Loads -> FP!Tabs]
      /\ aborted' \subseteq aborted \cup FP!Controlled /\ streaming' \in SUBSET FP!Pages
      /\ UNCHANGED <<mounted, selectedTabId, many>>
    BY DEF FP!GotPage
<1>3. CASE requests' = requests \ {p} /\ UNCHANGED <<FP!state, at, left, asked>>
  <2>1. UNCHANGED <<findings, rules, loading>> /\ FP!RulesBeforeFindings'
    BY <1>3 DEF FP!state, FP!RulesBeforeFindings
  <2> QED
    BY <1>2, <1>3, <2>1 DEF LoadKeeps
<1>4. CASE FP!NextDetector(p[1], left[p[1]], findings)
  <2>1. left[p[1]] \in 0 .. MaxDetectors
    BY <1>1
  <2> QED
    BY <1>1, <1>2, <1>4, <2>1, NextDetectorKeeps DEF LoadKeeps
<1> QED
    BY <1>3, <1>4 DEF FP!GotPage


LEMMA GotThreatIntelPageKeeps ==
    ASSUME Listing, NEW p \in FP!Pages, FP!GotThreatIntelPage(p) PROVE LoadKeeps
<1> USE ListingTypes
<1> DEFINE now == [findings EXCEPT !["threat-intel"] = @ \cup {p}]
<1>1. p[1] \in FP!Loads /\ at[p[1]] = "pages"
    BY PageOfLoad DEF FP!GotThreatIntelPage
<1>2. now \in [FP!Tabs -> SUBSET FP!Pages] /\ now["detection-rules"] \subseteq rules
    BY DEF FP!Tabs
<1>3. /\ tab' \in [FP!Loads -> FP!Tabs] /\ left' \in [FP!Loads -> 0 .. MaxDetectors]
      /\ aborted' \subseteq aborted \cup FP!Controlled /\ streaming' \in SUBSET FP!Pages
      /\ UNCHANGED <<mounted, selectedTabId, many>>
    BY DEF FP!GotThreatIntelPage
<1>4. CASE p[1] \notin aborted /\ FP!Ask(p[1], 1) /\ FP!SetState(now, rules, loading)
           /\ UNCHANGED at
  <2> HIDE DEF now
  <2>1. /\ findings' \in [FP!Tabs -> SUBSET FP!Pages] /\ rules' \in SUBSET FP!Pages
        /\ loading' \in BOOLEAN /\ FP!RulesBeforeFindings'
    BY <1>2, <1>4, SetStateKeeps
  <2>2. /\ asked' \in [FP!Loads -> 0 .. MaxPages] /\ requests' \in SUBSET FP!Pages
        /\ \A q \in requests' \ requests : q[1] \notin aborted
    BY <1>1, <1>4, AskKeeps
  <2> QED
    BY <1>3, <1>4, <2>1, <2>2 DEF LoadKeeps
<1>5. CASE FP!End(p[1]) /\ FP!SetState(now, rules, FALSE)
           /\ requests' = requests \ {p} /\ UNCHANGED asked
  <2> HIDE DEF now
  <2>1. /\ findings' \in [FP!Tabs -> SUBSET FP!Pages] /\ rules' \in SUBSET FP!Pages
        /\ loading' \in BOOLEAN /\ FP!RulesBeforeFindings'
    BY <1>2, <1>5, SetStateKeeps
  <2>2. /\ at' \in [FP!Loads -> FP!Ended \cup {"channels", "detectors", "first", "pages"}]
        /\ \A j \in FP!Loads : at'[j] \in {"none", "channels"} => at[j] = at'[j]
    BY <1>5 DEF FP!End, FP!Ended
  <2> QED
    BY <1>3, <1>5, <2>1, <2>2 DEF LoadKeeps
<1> QED
    BY <1>4, <1>5 DEF FP!GotThreatIntelPage

LEMMA NoThreatIntelPageKeeps ==
    ASSUME Listing, NEW p \in FP!Pages, FP!NoThreatIntelPage(p) PROVE LoadKeeps
<1> USE ListingTypes
<1>1. /\ findings' \in [FP!Tabs -> SUBSET FP!Pages] /\ rules' \in SUBSET FP!Pages
      /\ loading' \in BOOLEAN /\ FP!RulesBeforeFindings'
    BY SetStateKeeps DEF FP!NoThreatIntelPage
<1>2. /\ at' \in [FP!Loads -> FP!Ended \cup {"channels", "detectors", "first", "pages"}]
      /\ \A j \in FP!Loads : at'[j] \in {"none", "channels"} => at[j] = at'[j]
    BY PageOfLoad DEF FP!NoThreatIntelPage, FP!End, FP!Ended
<1> QED
    BY <1>1, <1>2 DEF LoadKeeps, FP!NoThreatIntelPage

\* A page enters the list together with its rules.
LEMMA GotRulesKeeps == ASSUME Listing, NEW p \in FP!Pages, FP!GotRules(p) PROVE LoadKeeps
<1> USE ListingTypes
<1> DEFINE now == [findings EXCEPT !["detection-rules"] = @ \cup {p}]
<1>1. /\ now \in [FP!Tabs -> SUBSET FP!Pages] /\ rules \cup {p} \in SUBSET FP!Pages
      /\ now["detection-rules"] \subseteq rules \cup {p}
    BY DEF FP!Tabs
<1>2. FP!SetState(now, rules \cup {p}, loading)
    BY DEF FP!GotRules
<1>3. /\ findings' \in [FP!Tabs -> SUBSET FP!Pages] /\ rules' \in SUBSET FP!Pages
      /\ loading' \in BOOLEAN /\ FP!RulesBeforeFindings'
  <2> HIDE DEF now
  <2> QED
    BY <1>1, <1>2, SetStateKeeps
<1>4. /\ UNCHANGED <<at, tab, left, asked, aborted, requests, mounted, selectedTabId, many>>
      /\ streaming' \in SUBSET FP!Pages
    BY DEF FP!GotRules, FP!load
<1> QED
    BY <1>3, <1>4 DEF LoadKeeps

LEMMA AnswerKeeps ==
    ASSUME Listing,
           \/ \E i \in FP!Loads : FP!OfLoad(i)
           \/ \E p \in FP!Pages : FP!OfPage(p)
    PROVE  LoadKeeps
BY GotChannelsKeeps, GotDetectorsKeeps, ThrowsKeeps, GotFirstKeeps, NoFirstKeeps, GotPageKeeps,
   GotRulesKeeps, GotThreatIntelPageKeeps, NoThreatIntelPageKeeps DEF FP!OfLoad, FP!OfPage

\* Starting a load gives it no controller yet.
LEMMA StartKeeps ==
    ASSUME Listing, NEW i \in FP!Loads, FP!Starts(i)
    PROVE  /\ at' \in [FP!Loads -> FP!Ended \cup {"channels", "detectors", "first", "pages"}]
           /\ \A j \in FP!Loads : at'[j] \in {"none", "channels"} => at[j] \in {"none", "channels"}
BY ListingTypes DEF FP!Starts

LEMMA ListingStep == Listing /\ FP!Next => Listing' /\ ~FP!AskedAborted
<1> SUFFICES ASSUME Listing, FP!Next PROVE Listing' /\ ~FP!AskedAborted
    OBVIOUS
<1> USE ListingTypes
<1>1. CASE \/ \E i \in FP!Loads : FP!OfLoad(i)
           \/ \E p \in FP!Pages : FP!OfPage(p)
  <2>1. LoadKeeps
    BY <1>1, AnswerKeeps
  <2>2. FP!TypeOK'
    BY <2>1 DEF LoadKeeps, FP!TypeOK, FP!Controlled
  <2>3. AbortedAreControlled'
    BY <2>1 DEF LoadKeeps, AbortedAreControlled, FP!Controlled
  <2> QED
    BY <2>1, <2>2, <2>3 DEF LoadKeeps, Listing, FP!AskedAborted
<1>2. CASE FP!OnRefresh \/ \E t \in FP!Tabs : FP!SelectTab(t)
  <2>1. PICK i \in FP!Loads : FP!Starts(i)
    BY <1>2 DEF FP!OnRefresh, FP!SelectTab
  <2>2. /\ UNCHANGED <<mounted, findings, rules, loading, tab, left, asked, aborted, requests,
                       streaming, many>>
        /\ selectedTabId' \in FP!Tabs
    BY <1>2 DEF FP!OnRefresh, FP!SelectTab, FP!state
  <2>3. FP!TypeOK'
    BY <2>1, <2>2, StartKeeps DEF FP!TypeOK
  <2>4. AbortedAreControlled'
    BY <2>1, <2>2, StartKeeps DEF AbortedAreControlled, FP!Controlled
  <2> QED
    BY <2>2, <2>3, <2>4 DEF Listing, FP!RulesBeforeFindings, FP!AskedAborted
<1>3. CASE FP!Leave \/ FP!PileUp
  <2>1. /\ UNCHANGED <<selectedTabId, findings, rules, loading, at, tab, left, asked, requests,
                       streaming>>
        /\ aborted' \in {aborted, FP!Controlled} /\ mounted' \in BOOLEAN /\ many' \in BOOLEAN
    BY <1>3 DEF FP!Leave, FP!PileUp, FP!state, FP!load
  <2>2. FP!TypeOK' /\ AbortedAreControlled'
    BY <2>1 DEF FP!TypeOK, AbortedAreControlled, FP!Controlled
  <2> QED
    BY <2>1, <2>2 DEF Listing, FP!RulesBeforeFindings, FP!AskedAborted
<1> QED
    BY <1>1, <1>2, <1>3 DEF FP!Next


-----------------------------------------------------------------------------
(* The page of correlations *)

\* Calls are of a view or about a finding.
CallsFit ==
    \A c \in calls :
        /\ c.step \in CO!OfViews => c.view \in CO!Views
        /\ c.step \in {"node", "inspect"} => c.finding \in Findings

\* As long as no load of a view overlapped another and none was lost, what waits is of the
\* present view, and each part of the page that is not of the present view waits for it; but
\* for the empty graph of a view that was opened for a finding which its filters hide.
Underway ==
    view # 0 /\ orderly =>
        /\ \A c \in calls : c.step \in CO!OfViews => c.view = view
        /\ \/ \E c \in calls : c.step = "graph"
           \/ graph \in {CO!AllOf(view)} \cup {CO!Of(f) : f \in Findings}
           \/ hidden /\ graph = CO!Empty
        /\ \/ \E c \in calls : c.step = "table"
           \/ connected = view /\ (rows = view \/ \E c \in calls : c.step = "groups")

\* Nothing is shown before the page is mounted.
Unopened == view = 0 => graph = CO!Empty /\ info = "none" /\ rows = 0 /\ calls = {}

Correlating == CO!TypeOK /\ CO!GraphOfFinding /\ CallsFit /\ Unopened /\ Underway


LEMMA CorrelatingInit == ASSUME CO!Init PROVE Correlating
<1>1. 0 \in 0 .. MaxViews
    BY DetectorPagesAssumption
<1>2. loadingGraphData \in BOOLEAN /\ loadingTableData \in BOOLEAN /\ orderly \in BOOLEAN
      /\ hidden \in BOOLEAN
    BY DEF CO!Init
<1>3. graph \in {CO!Empty} /\ calls = {} /\ view = 0 /\ info = "none" /\ connected = 0 /\ rows = 0
    BY DEF CO!Init
<1>4. CO!TypeOK
    BY <1>1, <1>2, <1>3 DEF CO!TypeOK
<1> QED
    BY <1>4, DetectorPagesAssumption
    DEF CO!Init, Correlating, CO!GraphOfFinding, CallsFit, Unopened, Underway

LEMMA CorrelatingTypes ==
    ASSUME CO!TypeOK
    PROVE  /\ view \in 0 .. MaxViews
           /\ graph \in {CO!Empty} \cup {CO!AllOf(v) : v \in CO!Views}
                                   \cup {CO!Of(f) : f \in Findings}
           /\ info \in Findings \cup {"none", "broken"}
           /\ loadingGraphData \in BOOLEAN /\ loadingTableData \in BOOLEAN /\ orderly \in BOOLEAN
           /\ hidden \in BOOLEAN
           /\ connected \in 0 .. MaxViews /\ rows \in 0 .. MaxViews
           /\ \A c \in calls :
                 c \in [step : CO!OfViews \cup {"node", "inspect"}, view : 0 .. MaxViews,
                        finding : Findings \cup {"none"}]
BY DEF CO!TypeOK

LEMMA CallType ==
    ASSUME NEW s \in CO!OfViews \cup {"node", "inspect"}, NEW v \in 0 .. MaxViews,
           NEW f \in Findings \cup {"none"}
    PROVE  /\ CO!Call(s, v, f) \in [step : CO!OfViews \cup {"node", "inspect"},
                                    view : 0 .. MaxViews, finding : Findings \cup {"none"}]
           /\ CO!Call(s, v, f).step = s /\ CO!Call(s, v, f).view = v
           /\ CO!Call(s, v, f).finding = f
BY DEF CO!Call


\* The first view, whose table waits.
LEMMA MountKeeps == ASSUME Correlating, CO!Mount PROVE Correlating'
<1> USE CorrelatingTypes DEF Correlating
<1> DEFINE g == CO!Call("graph", 1, "none")
           t == CO!Call("table", 1, "none")
<1>1. 1 \in 0 .. MaxViews /\ view' = 1
    BY DetectorPagesAssumption DEF CO!Mount
<1>2. \A c \in {g, t} : c \in [step : CO!OfViews \cup {"node", "inspect"}, view : 0 .. MaxViews,
                               finding : Findings \cup {"none"}]
                        /\ c.view = 1
    BY <1>1, CallType DEF CO!OfViews
<1>3. g.step = "graph" /\ t.step = "table"
    BY DEF CO!Call
<1>4. /\ UNCHANGED <<connected, rows, orderly>> /\ loadingTableData' = TRUE
      /\ calls' \subseteq {g, t} /\ t \in calls'
      /\ \/ /\ loadingGraphData' = TRUE /\ UNCHANGED <<graph, info, hidden>> /\ g \in calls'
         \/ /\ UNCHANGED <<loadingGraphData, hidden>>
            /\ \E f \in Findings : info' = f /\ graph' = CO!Of(f)
         \/ hidden' = TRUE /\ graph = CO!Empty /\ UNCHANGED <<loadingGraphData, graph, info>>
    BY DEF CO!Mount, Unopened
<1> HIDE DEF g, t
<1>5. CO!TypeOK'
    BY <1>1, <1>2, <1>4 DEF CO!TypeOK
<1>6. CO!GraphOfFinding'
    BY <1>4 DEF CO!GraphOfFinding
<1>7. CallsFit'
    BY <1>1, <1>2, <1>3, <1>4, DetectorPagesAssumption DEF CallsFit, CO!Views
<1>8. Underway'
    BY <1>1, <1>2, <1>3, <1>4 DEF Underway
<1>9. Unopened'
    BY <1>1 DEF Unopened
<1> QED
    BY <1>5, <1>6, <1>7, <1>8, <1>9

\* A new view is orderly when none waits; its graph and its table wait.
LEMMA ChangeViewKeeps == ASSUME Correlating, CO!ChangeView PROVE Correlating'
<1> USE CorrelatingTypes DEF Correlating
<1> DEFINE g == CO!Call("graph", view + 1, "none")
           t == CO!Call("table", view + 1, "none")
<1>1. view' = view + 1 /\ view + 1 \in 0 .. MaxViews
    BY DetectorPagesAssumption DEF CO!ChangeView
<1>2. \A c \in {g, t} : c \in [step : CO!OfViews \cup {"node", "inspect"}, view : 0 .. MaxViews,
                               finding : Findings \cup {"none"}]
                        /\ c.view = view'
    BY <1>1, CallType DEF CO!OfViews
<1>3. g.step = "graph" /\ t.step = "table"
    BY DEF CO!Call
<1>4. /\ UNCHANGED <<graph, connected, rows>>
      /\ info' \in {info, "none"} /\ loadingGraphData' = TRUE /\ loadingTableData' = TRUE
      /\ calls' = calls \cup {g, t}
      /\ orderly' = ~\E c \in calls : c.step \in CO!OfViews
      /\ hidden' = FALSE /\ view # 0
    BY DEF CO!ChangeView
<1> HIDE DEF g, t
<1>5. orderly' \in BOOLEAN
    BY <1>4
<1>6. CO!TypeOK'
    BY <1>1, <1>2, <1>4, <1>5 DEF CO!TypeOK
<1>7. CO!GraphOfFinding'
    BY <1>4, DetectorPagesAssumption DEF CO!GraphOfFinding
<1>8. CallsFit'
    BY <1>1, <1>2, <1>3, <1>4 DEF CallsFit, CO!Views
<1>9. orderly' => \A c \in calls : c.step \notin CO!OfViews
    BY <1>4
<1>10. Underway'
    BY <1>1, <1>2, <1>3, <1>4, <1>9 DEF Underway
<1>11. Unopened'
    BY <1>1, CorrelatingTypes DEF Unopened
<1> QED
    BY <1>6, <1>7, <1>8, <1>10, <1>11

LEMMA CloseFlyoutKeeps == ASSUME Correlating, CO!CloseFlyout PROVE Correlating'
<1> USE CorrelatingTypes DEF Correlating
<1>1. UNCHANGED <<view, graph, loadingGraphData, loadingTableData, connected, rows, calls, orderly,
                  hidden>>
      /\ info' = "none"
    BY DEF CO!CloseFlyout, CO!loading
<1> QED
    BY <1>1, DetectorPagesAssumption
    DEF CO!TypeOK, CO!GraphOfFinding, CallsFit, Unopened, Underway

\* A click on a node or on the inspection of a finding makes a call of no view.
LEMMA AskedKeeps ==
    ASSUME Correlating, NEW f \in Findings, CO!OnNodeClick(f) \/ CO!OnFindingInspect(f)
    PROVE  Correlating'
<1> USE CorrelatingTypes DEF Correlating
<1>1. PICK s \in {"node", "inspect"} : calls' = calls \cup {CO!Call(s, 0, f)}
    BY DEF CO!OnNodeClick, CO!OnFindingInspect
<1>2. /\ UNCHANGED <<view, graph, info, loadingTableData, connected, rows, orderly, hidden>>
      /\ loadingGraphData' \in BOOLEAN
    BY DEF CO!OnNodeClick, CO!OnFindingInspect, CO!loading
<1> DEFINE c == CO!Call(s, 0, f)
<1>3. /\ c \in [step : CO!OfViews \cup {"node", "inspect"}, view : 0 .. MaxViews,
                finding : Findings \cup {"none"}]
      /\ c.step = s /\ c.finding = f
  <2>1. 0 \in 0 .. MaxViews
    BY DetectorPagesAssumption
  <2> QED
    BY <2>1, CallType
<1> HIDE DEF c
<1>4. CO!TypeOK'
    BY <1>1, <1>2, <1>3 DEF CO!TypeOK, c
<1>5. CO!GraphOfFinding' /\ CallsFit'
    BY <1>1, <1>2, <1>3 DEF CO!GraphOfFinding, CallsFit, CO!OfViews, c
<1>6. Underway'
    BY <1>1, <1>2, <1>3 DEF Underway, CO!OfViews, c
<1>7. Unopened'
  <2>1. graph # CO!Empty \/ info \in Findings \/ rows # 0
    BY DEF CO!OnNodeClick, CO!OnFindingInspect
  <2> QED
    BY <1>2, <2>1, DetectorPagesAssumption DEF Unopened
<1> QED
    BY <1>4, <1>5, <1>6, <1>7

\* The answers about the graph.
LEMMA GotGraphKeeps == ASSUME Correlating, NEW c \in calls, CO!GotGraph(c) PROVE Correlating'
<1> USE CorrelatingTypes DEF Correlating
<1>1. /\ c.step = "graph" /\ graph' = CO!AllOf(c.view) /\ info' = "none"
      /\ loadingGraphData' = FALSE /\ calls' = calls \ {c}
      /\ UNCHANGED <<view, loadingTableData, connected, rows, orderly, hidden>>
    BY DEF CO!GotGraph, CO!Done
<1>2. view # 0 /\ orderly => c.view = view
    BY <1>1 DEF Underway, CO!OfViews
<1>3. CO!GraphOfFinding' /\ CallsFit'
    BY <1>1, DetectorPagesAssumption DEF CO!GraphOfFinding, CallsFit
<1>4. Underway'
    BY <1>1, <1>2 DEF Underway, CO!OfViews
<1>5. c.view \in CO!Views
    BY <1>1 DEF CallsFit, CO!OfViews
<1>6. CO!TypeOK'
    BY <1>1, <1>5 DEF CO!TypeOK
<1>7. Unopened'
    BY <1>1 DEF Unopened
<1> QED
    BY <1>3, <1>4, <1>6, <1>7

LEMMA GotCorrelatedKeeps == ASSUME Correlating, NEW c \in calls, CO!GotCorrelated(c) PROVE Correlating'
<1> USE CorrelatingTypes DEF Correlating
<1>1. /\ c.step \in {"node", "inspect"} /\ c.finding \in Findings
      /\ graph' = CO!Of(c.finding) /\ info' = c.finding
      /\ loadingGraphData' \in BOOLEAN /\ calls' = calls \ {c}
      /\ UNCHANGED <<view, loadingTableData, connected, rows, orderly, hidden>>
    BY DEF CO!GotCorrelated, CO!Done, CallsFit
<1>2. CO!GraphOfFinding' /\ CallsFit'
    BY <1>1 DEF CO!GraphOfFinding, CallsFit
<1>3. Underway'
    BY <1>1 DEF Underway, CO!OfViews
<1>4. CO!TypeOK'
    BY <1>1 DEF CO!TypeOK
<1>5. Unopened'
    BY <1>1 DEF Unopened
<1> QED
    BY <1>2, <1>3, <1>4, <1>5

LEMMA GotOthersKeeps == ASSUME Correlating, NEW c \in calls, CO!GotOthers(c) PROVE Correlating'
<1> USE CorrelatingTypes DEF Correlating
<1>1. /\ info' = "broken" /\ calls' = {} /\ orderly' = FALSE
      /\ loadingGraphData' = FALSE /\ loadingTableData' = FALSE
      /\ UNCHANGED <<view, graph, connected, rows, hidden>>
    BY DEF CO!GotOthers
<1> QED
    BY <1>1, DetectorPagesAssumption DEF CO!TypeOK, CO!GraphOfFinding, CallsFit, Unopened, Underway

\* What is lost is not missed by the others.
LEMMA LostKeeps ==
    ASSUME Correlating, NEW c \in calls, CO!GraphLost(c) \/ CO!CorrelatedLost(c)
    PROVE  Correlating'
<1> USE CorrelatingTypes DEF Correlating
<1>1. /\ calls' = calls \ {c}
      /\ UNCHANGED <<view, graph, info, loadingGraphData, loadingTableData, connected, rows,
                     hidden>>
    BY DEF CO!GraphLost, CO!CorrelatedLost, CO!Done, CO!loading
<1>2. \/ orderly' = FALSE
      \/ orderly' = orderly /\ c.step \in {"node", "inspect"}
    BY DEF CO!GraphLost, CO!CorrelatedLost
<1>3. orderly' \in BOOLEAN
    BY <1>2
<1>4. CO!TypeOK' /\ CO!GraphOfFinding' /\ CallsFit'
    BY <1>1, <1>3 DEF CO!TypeOK, CO!GraphOfFinding, CallsFit
<1>5. Underway'
    BY <1>1, <1>2 DEF Underway, CO!OfViews
<1>6. Unopened'
    BY <1>1 DEF Unopened
<1> QED
    BY <1>4, <1>5, <1>6

\* The answers about the table.
LEMMA GotConnectedKeeps == ASSUME Correlating, NEW c \in calls, CO!GotConnected(c) PROVE Correlating'
<1> USE CorrelatingTypes DEF Correlating
<1> DEFINE g == CO!Call("groups", c.view, "none")
<1>1. /\ c.step = "table" /\ c.view \in CO!Views /\ connected' = c.view
      /\ calls' = (calls \ {c}) \cup {g}
      /\ UNCHANGED <<view, graph, info, loadingGraphData, loadingTableData, rows, orderly,
                     hidden>>
    BY DEF CO!GotConnected, CO!loading, CallsFit, CO!OfViews
<1>2. c.view \in 0 .. MaxViews
    OBVIOUS
<1>3. /\ g \in [step : CO!OfViews \cup {"node", "inspect"}, view : 0 .. MaxViews,
                finding : Findings \cup {"none"}]
      /\ g.step = "groups" /\ g.view = c.view
    BY <1>2, CallType DEF CO!OfViews
<1> HIDE DEF g
<1>4. view # 0 /\ orderly => c.view = view
    BY <1>1 DEF Underway, CO!OfViews
<1>5. CO!GraphOfFinding' /\ CallsFit'
    BY <1>1, <1>3 DEF CO!GraphOfFinding, CallsFit
<1>6. Underway'
    BY <1>1, <1>3, <1>4 DEF Underway, CO!OfViews
<1>7. CO!TypeOK'
    BY <1>1, <1>2, <1>3 DEF CO!TypeOK
<1>8. Unopened'
    BY <1>1 DEF Unopened
<1> QED
    BY <1>5, <1>6, <1>7, <1>8

LEMMA GotRowsKeeps == ASSUME Correlating, NEW c \in calls, CO!GotRows(c) PROVE Correlating'
<1> USE CorrelatingTypes DEF Correlating
<1>1. /\ c.step = "groups" /\ rows' = c.view /\ loadingTableData' = FALSE
      /\ calls' = calls \ {c}
      /\ UNCHANGED <<view, graph, info, loadingGraphData, connected, orderly, hidden>>
    BY DEF CO!GotRows, CO!Done
<1>2. view # 0 /\ orderly => c.view = view
    BY <1>1 DEF Underway, CO!OfViews
<1>3. CO!GraphOfFinding' /\ CallsFit'
    BY <1>1 DEF CO!GraphOfFinding, CallsFit
<1>4. Underway'
    BY <1>1, <1>2 DEF Underway, CO!OfViews
<1>5. CO!TypeOK'
    BY <1>1 DEF CO!TypeOK
<1>6. Unopened'
    BY <1>1 DEF Unopened
<1> QED
    BY <1>3, <1>4, <1>5, <1>6

LEMMA TableFailsKeeps == ASSUME Correlating, NEW c \in calls, CO!TableFails(c) PROVE Correlating'
<1> USE CorrelatingTypes DEF Correlating
<1>1. /\ calls' = calls \ {c} /\ loadingTableData' = FALSE /\ orderly' = FALSE
      /\ UNCHANGED <<view, graph, info, loadingGraphData, connected, rows, hidden>>
    BY DEF CO!TableFails, CO!Done
<1> QED
    BY <1>1 DEF CO!TypeOK, CO!GraphOfFinding, CallsFit, Unopened, Underway

LEMMA CorrelatingStep == Correlating /\ CO!Next => Correlating'
BY MountKeeps, ChangeViewKeeps, CloseFlyoutKeeps, AskedKeeps, GotGraphKeeps, GotCorrelatedKeeps,
   GotOthersKeeps, LostKeeps, GotConnectedKeeps, GotRowsKeeps, TableFailsKeeps
DEF CO!Next, CO!Answer, CO!OfTable

LEMMA CorrelatingSettles == Correlating => CO!GraphOfFinding /\ CO!CorrelationsSettle
BY DEF Correlating, Underway, CO!CorrelationsSettle

-----------------------------------------------------------------------------
(* Editing a detector: types *)

\* The values that edits have given so far, and the calls that carry them.
Made == [DE!Parts -> 0 .. edits + 1]
Steps == DE!Writes \cup {"load", "rules", "reload"}
MadeCalls == [page : DE!Pages, step : Steps, body : Made, aim : DE!Aims, live : BOOLEAN]

\* A step is made by the pages that have it.
Fits(c) ==
    /\ c.step \in {"reload", "delete"} => c.page = "list"
    /\ c.step = "rules" => c.page = "editRules"
    /\ c.step = "mappings" => c.page \in DE!EditPages

FormTyped ==
    /\ aim \in DE!Aims
    /\ copy \in Made \cup {NoCopy} /\ shown \in Made \cup {NoCopy}
    /\ page # "list" => copy # NoCopy
    /\ loading \in BOOLEAN /\ submitting \in BOOLEAN /\ remapped \in BOOLEAN

CallsTyped ==
    /\ calls \subseteq MadeCalls
    /\ \A c \in calls : (c.live => c.page = page) /\ Fits(c)

Editing ==
    /\ cluster \in Made /\ exists \in BOOLEAN
    /\ page \in DE!Pages /\ hit \in Made \cup {NoCopy}
    /\ FormTyped /\ CallsTyped
    /\ edits \in 0 .. MaxEdits /\ done \in Made \cup {NoCopy}

LEMMA EditingIsTyped == Editing => DE!TypeOK
<1> SUFFICES ASSUME Editing PROVE DE!TypeOK
    OBVIOUS
<1>1. Made \subseteq DE!Copies
    BY DetectorPagesAssumption DEF Editing, Made, DE!Copies
<1>2. calls \subseteq [page : DE!Pages, step : DE!Writes \cup {"load", "rules", "reload"},
                       body : DE!Copies, aim : DE!Aims, live : BOOLEAN]
    BY <1>1 DEF Editing, CallsTyped, MadeCalls, Steps
<1> QED
    BY <1>1, <1>2 DEF Editing, FormTyped, CallsTyped, DE!TypeOK

LEMMA NoCopyIsNone == Editing => NoCopy \notin Made
BY DetectorPagesAssumption DEF Editing, Made, DE!Copies

LEMMA EmptyIsMade == Editing => DE!Empty \in Made
BY DEF Editing, Made, DE!Empty

\* Edits only add values.
LEMMA MadeGrows ==
    ASSUME edits \in Nat, edits' \in {edits, edits + 1}
    PROVE  Made \subseteq Made' /\ MadeCalls \subseteq MadeCalls'
<1>1. edits' \in Nat /\ edits <= edits'
    OBVIOUS
<1>2. Made \subseteq Made'
    BY <1>1 DEF Made
<1> QED
    BY <1>2 DEF MadeCalls

LEMMA AimIsAim == \A h : DE!AimOf(h) \in DE!Aims
BY DEF DE!AimOf, DE!Aims

LEMMA CallIsMade ==
    ASSUME NEW pg \in DE!Pages, NEW s \in Steps, NEW b \in Made, NEW to \in DE!Aims
    PROVE  /\ DE!Call(pg, s, b, to) \in MadeCalls
           /\ DE!Call(pg, s, b, to).page = pg /\ DE!Call(pg, s, b, to).step = s
           /\ DE!Call(pg, s, b, to).body = b /\ DE!Call(pg, s, b, to).aim = to
           /\ DE!Call(pg, s, b, to).live
BY DEF DE!Call, MadeCalls

\* What is searched for after a step that makes no edit.
LEMMA SearchIsMade ==
    ASSUME Editing, UNCHANGED edits, cluster' \in Made, NEW pg \in DE!Pages,
           NEW s \in {"load", "reload"}
    PROVE  /\ DE!Search(pg, s) \in MadeCalls
           /\ DE!Search(pg, s).page = pg /\ DE!Search(pg, s).step = s
           /\ DE!Search(pg, s).body = IF exists' THEN cluster' ELSE DE!Empty
           /\ DE!Search(pg, s).aim = "detector" /\ DE!Search(pg, s).live
<1>1. (IF exists' THEN cluster' ELSE DE!Empty) \in Made
    BY EmptyIsMade
<1>2. "detector" \in DE!Aims /\ s \in Steps
    BY DEF DE!Aims, Steps
<1> QED
    BY <1>1, <1>2, CallIsMade DEF DE!Search, DE!Present, DE!Empty

LEMMA OutliveIsMade ==
    ASSUME NEW waiting \in SUBSET MadeCalls, \A c \in waiting : Fits(c)
    PROVE  /\ DE!Outlive(waiting) \subseteq MadeCalls
           /\ \A c \in DE!Outlive(waiting) : ~c.live /\ Fits(c)
BY DEF DE!Outlive, MadeCalls, Fits

LEMMA FoundIsMade ==
    ASSUME Editing, NEW c \in calls, NEW found \in DE!Found(c)
    PROVE  found \in Made /\ found # NoCopy /\ found # DE!Empty
BY NoCopyIsNone DEF DE!Found, DE!Present, Editing, CallsTyped, MadeCalls

LEMMA EditingInit == ASSUME DE!Init PROVE Editing
<1>1. cluster \in Made /\ done \in Made /\ edits \in 0 .. MaxEdits
    BY DetectorPagesAssumption DEF DE!Init, Made
<1>2. "list" \in DE!Pages /\ "load" \in Steps /\ "detector" \in DE!Aims /\ "nothing" \in DE!Aims
    BY DEF DE!Pages, Steps, DE!Aims
<1> DEFINE c == DE!Call("list", "load", cluster, "detector")
<1>3. c \in MadeCalls /\ c.page = "list" /\ c.step = "load"
    BY <1>1, <1>2, CallIsMade
<1>4. calls = {c} /\ page = "list"
    BY DEF DE!Init
<1> HIDE DEF c
<1>5. CallsTyped
    BY <1>3, <1>4 DEF CallsTyped, Fits
<1>6. FormTyped
    BY <1>2 DEF DE!Init, FormTyped
<1> QED
    BY <1>1, <1>2, <1>5, <1>6 DEF DE!Init, Editing


\* The page pg is mounted, after whatever happened in the cluster.
LEMMA MountTyped ==
    ASSUME Editing, cluster' \in Made, exists' \in BOOLEAN, UNCHANGED edits,
           NEW pg \in DE!Pages, NEW h \in Made \cup {NoCopy}, NEW waiting \in SUBSET calls,
           NEW saved \in Made \cup {NoCopy}, DE!Mount(pg, h, waiting, saved)
    PROVE  Editing'
<1>1. Made' = Made /\ MadeCalls' = MadeCalls
    BY DEF Made, MadeCalls
<1>2. page' = pg /\ hit' \in Made \cup {NoCopy} /\ done' \in Made \cup {NoCopy}
    BY DEF DE!Mount
<1>3. copy' \in Made \cup {NoCopy} /\ (pg # "list" => copy' # NoCopy)
    BY EmptyIsMade, NoCopyIsNone DEF DE!Mount, DE!Opens
<1>4. aim' \in DE!Aims
    BY AimIsAim DEF DE!Mount, DE!Aims
<1>5. shown' = NoCopy /\ loading' \in BOOLEAN /\ submitting' \in BOOLEAN /\ remapped' \in BOOLEAN
    BY DEF DE!Mount
<1>6. FormTyped'
    BY <1>1, <1>2, <1>3, <1>4, <1>5 DEF FormTyped
<1> DEFINE load == DE!Search(pg, "load")
<1>7. load \in MadeCalls /\ load.page = pg /\ Fits(load)
    BY SearchIsMade DEF Fits, DE!Writes
<1>8. /\ DE!Outlive(waiting) \subseteq MadeCalls
      /\ \A c \in DE!Outlive(waiting) : ~c.live /\ Fits(c)
  <2>1. waiting \in SUBSET MadeCalls /\ \A c \in waiting : Fits(c)
    BY DEF Editing, CallsTyped
  <2> QED
    BY <2>1, OutliveIsMade
<1>9. calls' \subseteq DE!Outlive(waiting) \cup {load}
    BY DEF DE!Mount
<1> HIDE DEF load
<1>10. CallsTyped'
    BY <1>1, <1>2, <1>7, <1>8, <1>9 DEF CallsTyped, Fits
<1> QED
    BY <1>1, <1>2, <1>6, <1>10 DEF Editing

LEMMA GoToTyped ==
    ASSUME Editing, cluster' \in Made, exists' \in BOOLEAN, UNCHANGED edits,
           NEW pg \in DE!Pages, NEW h \in Made \cup {NoCopy}, NEW waiting \in SUBSET calls,
           NEW saved \in Made \cup {NoCopy}, DE!GoTo(pg, h, waiting, saved)
    PROVE  Editing'
<1>1. CASE DE!Mount(pg, h, waiting, saved)
    BY <1>1, MountTyped
<1>2. CASE /\ page = pg
           /\ hit' = IF pg = "details" THEN NoCopy ELSE h
           /\ calls' = waiting /\ done' = saved
           /\ UNCHANGED <<page, DE!form>>
  <2>1. Made' = Made /\ MadeCalls' = MadeCalls
    BY DEF Made, MadeCalls
  <2>2. FormTyped'
    BY <1>2, <2>1 DEF Editing, FormTyped, DE!form
  <2>3. CallsTyped'
    BY <1>2, <2>1 DEF Editing, CallsTyped, Fits
  <2> QED
    BY <1>2, <2>1, <2>2, <2>3 DEF Editing
<1> QED
    BY <1>1, <1>2 DEF DE!GoTo

\* An answer changes the form of its page, and what waits.
LEMMA AnsweredTyped ==
    ASSUME Editing, cluster' \in Made, exists' \in BOOLEAN, UNCHANGED edits,
           done' \in Made \cup {NoCopy},
           NEW c \in calls, NEW more \in SUBSET MadeCalls,
           \A d \in more : (d.live => d.page = c.page) /\ Fits(d),
           NEW newCopy \in Made \cup {NoCopy}, page # "list" => newCopy # NoCopy,
           NEW newShown \in Made \cup {NoCopy},
           NEW newLoading \in BOOLEAN, NEW newSubmitting \in BOOLEAN,
           DE!SetForm(c, newCopy, newShown, newLoading, newSubmitting),
           DE!Continue(c, more)
    PROVE  Editing'
<1>1. Made' = Made /\ MadeCalls' = MadeCalls
    BY DEF Made, MadeCalls
<1>2. UNCHANGED <<page, hit>>
    BY DEF DE!Continue, DE!location
<1>3. FormTyped'
    BY <1>1, <1>2 DEF Editing, FormTyped, DE!SetForm, DE!form
<1>4. /\ DE!Outlive(more) \subseteq MadeCalls
      /\ \A d \in DE!Outlive(more) : ~d.live /\ Fits(d)
    BY OutliveIsMade
<1>5. /\ calls' \subseteq calls \cup more \cup DE!Outlive(more)
      /\ ~c.live => calls' \subseteq calls \cup DE!Outlive(more)
    BY DEF DE!Continue
<1>6. CallsTyped'
    BY <1>1, <1>2, <1>4, <1>5 DEF Editing, CallsTyped, Fits
<1> QED
    BY <1>1, <1>2, <1>3, <1>6 DEF Editing

LEMMA EditingTypes ==
    ASSUME Editing
    PROVE  /\ cluster \in Made /\ exists \in BOOLEAN
           /\ page \in DE!Pages /\ hit \in Made \cup {NoCopy}
           /\ aim \in DE!Aims
           /\ copy \in Made \cup {NoCopy} /\ shown \in Made \cup {NoCopy}
           /\ page # "list" => copy # NoCopy
           /\ loading \in BOOLEAN /\ submitting \in BOOLEAN /\ remapped \in BOOLEAN
           /\ edits \in 0 .. MaxEdits /\ edits \in Nat /\ done \in Made \cup {NoCopy}
           /\ calls \subseteq MadeCalls
           /\ \A c \in calls :
                 /\ c \in MadeCalls /\ (c.live => c.page = page) /\ Fits(c)
                 /\ c.page \in DE!Pages /\ c.step \in Steps /\ c.body \in Made
                 /\ c.aim \in DE!Aims /\ c.live \in BOOLEAN
BY DetectorPagesAssumption DEF Editing, FormTyped, CallsTyped, MadeCalls

\* The part of it that is about the form.
LEMMA FormTypes ==
    ASSUME Editing
    PROVE  /\ cluster \in Made /\ exists \in BOOLEAN /\ done \in Made \cup {NoCopy}
           /\ copy \in Made \cup {NoCopy} /\ shown \in Made \cup {NoCopy}
           /\ page # "list" => copy # NoCopy
           /\ loading \in BOOLEAN /\ submitting \in BOOLEAN
BY DEF Editing, FormTyped

\* What the user does.
LEMMA MovesTyped ==
    ASSUME Editing,
           \/ \E pg \in DE!Pages : DE!Visit(pg)
           \/ \E pg \in DE!EditPages : DE!OpenEditor(pg)
           \/ DE!Cancel
    PROVE  Editing'
<1> USE EditingTypes
<1>1. UNCHANGED <<cluster, exists, edits>>
    BY DEF DE!Visit, DE!OpenEditor, DE!Cancel
<1>2. PICK pg \in DE!Pages, h \in Made \cup {NoCopy} : DE!Mount(pg, h, calls, done)
    BY DEF DE!Visit, DE!OpenEditor, DE!Cancel, DE!Pages
<1> QED
    BY <1>1, <1>2, MountTyped


\* A page goes on being shown, and may make a call.
LEMMA StayedTyped ==
    ASSUME Editing, UNCHANGED <<cluster, exists, page, hit>>, edits' \in 0 .. MaxEdits,
           edits' \in {edits, edits + 1},
           aim' \in DE!Aims, copy' \in Made' \cup {NoCopy}, page # "list" => copy' # NoCopy,
           loading' \in BOOLEAN, submitting' \in BOOLEAN, remapped' \in BOOLEAN,
           UNCHANGED shown, done' \in Made' \cup {NoCopy},
           NEW more \in SUBSET MadeCalls', calls' \subseteq calls \cup more,
           \A c \in more : c.page = page /\ Fits(c)
    PROVE  Editing'
<1>1. Made \subseteq Made' /\ MadeCalls \subseteq MadeCalls'
    BY EditingTypes, MadeGrows
<1>2. FormTyped'
    BY <1>1 DEF Editing, FormTyped
<1>3. CallsTyped'
    BY <1>1 DEF Editing, CallsTyped, Fits
<1> QED
    BY <1>1, <1>2, <1>3 DEF Editing

LEMMA NewEdit ==
    ASSUME Editing, edits < MaxEdits, edits' = edits + 1
    PROVE  edits' \in 0 .. MaxEdits /\ edits + 2 \in 0 .. edits' + 1
BY DetectorPagesAssumption DEF Editing

LEMMA EditTyped == ASSUME Editing, DE!Edit PROVE Editing'
<1> USE EditingTypes
<1>1. /\ UNCHANGED <<cluster, exists, page, hit, shown, loading, submitting, remapped, calls, done>>
      /\ edits < MaxEdits /\ edits' = edits + 1 /\ page # "list"
      /\ copy' = [p \in DE!Parts |-> IF p \in DE!Own(page) THEN edits + 2 ELSE copy[p]]
    BY DEF DE!Edit, DE!location
<1>2. edits' \in 0 .. MaxEdits /\ edits + 2 \in 0 .. edits' + 1
    BY <1>1, NewEdit
<1>3. Made \subseteq Made'
    BY <1>1, MadeGrows
<1>4. copy \in Made'
    BY <1>1, <1>3
<1>5. copy' \in Made'
    BY <1>1, <1>2, <1>4 DEF Made
<1>6. NoCopy \notin Made'
    BY <1>2, DetectorPagesAssumption DEF Made, DE!Copies
<1>7. aim' \in DE!Aims
    BY AimIsAim DEF DE!Edit
<1>8. done' \in Made' \cup {NoCopy} /\ copy' \in Made' \cup {NoCopy} /\ copy' # NoCopy
    BY <1>1, <1>3, <1>5, <1>6
<1>9. {} \in SUBSET MadeCalls' /\ calls' \subseteq calls \cup {}
    BY <1>1
<1> QED
    BY <1>1, <1>2, <1>7, <1>8, <1>9, StayedTyped

LEMMA RemapTyped == ASSUME Editing, DE!Remap PROVE Editing'
<1> USE EditingTypes
<1>1. /\ UNCHANGED <<cluster, exists, page, hit, shown, copy, loading, submitting, calls, done, edits>>
      /\ remapped' = TRUE
    BY DEF DE!Remap, DE!location, DE!history
<1>2. aim' \in DE!Aims
    BY AimIsAim DEF DE!Remap
<1>3. Made' = Made /\ {} \in SUBSET MadeCalls' /\ calls' \subseteq calls \cup {}
    BY <1>1 DEF Made
<1> QED
    BY <1>1, <1>2, <1>3, StayedTyped

LEMMA SelectTyped == ASSUME Editing, DE!Select PROVE Editing'
<1> USE EditingTypes
<1>1. /\ UNCHANGED <<cluster, exists, page, hit, aim, shown, loading, submitting, remapped,
                     calls, done, edits>>
      /\ page = "list" /\ copy' \in {shown, NoCopy}
    BY DEF DE!Select, DE!location, DE!history
<1>2. Made' = Made /\ {} \in SUBSET MadeCalls' /\ calls' \subseteq calls \cup {}
    BY <1>1 DEF Made
<1> QED
    BY <1>1, <1>2, StayedTyped

LEMMA FirstWriteIsMade ==
    ASSUME Editing, page \in DE!EditPages
    PROVE  /\ DE!FirstWrite \in MadeCalls /\ DE!FirstWrite.page = page
           /\ DE!FirstWrite.step \in {"mappings", "update"}
           /\ DE!FirstWrite.body = copy
           /\ DE!FirstWrite.live
<1>1. page \in DE!Pages /\ copy \in Made
    BY EditingTypes DEF DE!Pages, DE!EditPages
<1>2. {"mappings", "update"} \subseteq Steps
    BY DEF Steps, DE!Writes
<1>3. aim \in DE!Aims /\ "detector" \in DE!Aims /\ DE!AimOf(hit) \in DE!Aims
    BY EditingTypes, AimIsAim DEF DE!Aims
<1>4. PICK to \in DE!Aims, s \in {"mappings", "update"} :
            DE!FirstWrite = DE!Call(page, s, copy, to)
    BY <1>3 DEF DE!FirstWrite
<1> QED
    BY <1>1, <1>2, <1>4, CallIsMade

LEMMA SaveTyped == ASSUME Editing, DE!Save PROVE Editing'
<1> USE EditingTypes
<1>1. /\ UNCHANGED <<cluster, exists, page, hit, aim, copy, shown, loading, remapped, edits>>
      /\ page \in DE!EditPages /\ submitting' = TRUE
      /\ calls' \subseteq calls \cup {DE!FirstWrite}
      /\ done' \in {done, NoCopy}
    BY DEF DE!Save, DE!location
<1>2. /\ DE!FirstWrite \in MadeCalls /\ DE!FirstWrite.page = page
      /\ DE!FirstWrite.step \in {"mappings", "update"}
    BY <1>1, FirstWriteIsMade
<1>3. Fits(DE!FirstWrite)
    BY <1>1, <1>2 DEF Fits
<1>4. Made' = Made /\ MadeCalls' = MadeCalls
    BY <1>1 DEF Made, MadeCalls
<1>5. {DE!FirstWrite} \in SUBSET MadeCalls'
    BY <1>2, <1>4
<1> QED
    BY <1>1, <1>2, <1>3, <1>4, <1>5, StayedTyped

LEMMA RefreshTyped == ASSUME Editing, DE!Refresh PROVE Editing'
<1> USE EditingTypes
<1> DEFINE load == DE!Search("list", "load")
<1>1. /\ UNCHANGED <<cluster, exists, page, hit, aim, copy, shown, submitting, remapped, edits, done>>
      /\ page = "list" /\ loading' = TRUE /\ calls' = calls \cup {load}
    BY DEF DE!Refresh, DE!location, DE!history
<1>2. load \in MadeCalls /\ load.page = "list" /\ load.step = "load"
    BY <1>1, SearchIsMade
<1> HIDE DEF load
<1>3. Made' = Made /\ MadeCalls' = MadeCalls
    BY <1>1 DEF Made, MadeCalls
<1>4. {load} \in SUBSET MadeCalls' /\ Fits(load)
    BY <1>2, <1>3 DEF Fits
<1> QED
    BY <1>1, <1>2, <1>3, <1>4, StayedTyped

LEMMA ToggledBody ==
    ASSUME Editing, copy # NoCopy, edits < MaxEdits, edits' = edits + 1
    PROVE  [copy EXCEPT !["enabled"] = edits + 2] \in Made'
<1>1. copy \in Made'
    BY EditingTypes, MadeGrows
<1>2. edits + 2 \in 0 .. edits' + 1
    BY NewEdit
<1> QED
    BY <1>1, <1>2 DEF Made

LEMMA ToggleTyped == ASSUME Editing, DE!ToggleDetector PROVE Editing'
<1> USE EditingTypes
<1> DEFINE c == DE!Call(page, "update", [copy EXCEPT !["enabled"] = edits + 2], DE!AimOf(copy))
<1>1. /\ UNCHANGED <<cluster, exists, page, hit, aim, copy, shown, submitting, remapped>>
      /\ edits < MaxEdits /\ edits' = edits + 1 /\ copy # NoCopy
      /\ loading' = TRUE /\ calls' = calls \cup {c}
      /\ done' \in {done, NoCopy}
    BY DEF DE!ToggleDetector, DE!location
<1>2. edits' \in 0 .. MaxEdits /\ Made \subseteq Made'
    BY <1>1, NewEdit, MadeGrows
<1>3. [copy EXCEPT !["enabled"] = edits + 2] \in Made'
    BY <1>1, ToggledBody
<1>4. c \in MadeCalls' /\ c.page = page /\ c.step = "update"
    BY <1>3, AimIsAim DEF DE!Call, MadeCalls, Steps, DE!Writes
<1> HIDE DEF c
<1>5. {c} \in SUBSET MadeCalls' /\ Fits(c)
    BY <1>4 DEF Fits
<1> QED
    BY <1>1, <1>2, <1>4, <1>5, StayedTyped

LEMMA DeleteTyped == ASSUME Editing, DE!OnClickDelete PROVE Editing'
<1> USE EditingTypes
<1> DEFINE c == DE!Call("list", "delete", DE!Empty, "detector")
<1>1. /\ UNCHANGED <<cluster, exists, page, hit, aim, copy, shown, submitting, remapped, edits, done>>
      /\ page = "list" /\ loading' = TRUE /\ calls' = calls \cup {c}
    BY DEF DE!OnClickDelete, DE!location, DE!history
<1>2. c \in MadeCalls /\ c.page = "list" /\ c.step = "delete"
  <2>1. "list" \in DE!Pages /\ "delete" \in Steps /\ "detector" \in DE!Aims /\ DE!Empty \in Made
    BY EmptyIsMade DEF DE!Pages, Steps, DE!Writes, DE!Aims
  <2> QED
    BY <2>1, CallIsMade
<1> HIDE DEF c
<1>3. Made' = Made /\ MadeCalls' = MadeCalls
    BY <1>1 DEF Made, MadeCalls
<1>4. {c} \in SUBSET MadeCalls' /\ Fits(c)
    BY <1>2, <1>3 DEF Fits
<1> QED
    BY <1>1, <1>2, <1>3, <1>4, StayedTyped


\* The answers.
LEMMA LoadedTyped == ASSUME Editing, NEW c \in calls, DE!Loaded(c) PROVE Editing'
<1> USE EditingTypes
<1> DEFINE r == DE!Call(page, "rules", DE!Empty, "detector")
<1>1. /\ UNCHANGED <<cluster, exists, page, submitting, remapped, edits, done>>
      /\ c.live /\ loading' \in BOOLEAN
      /\ calls' = (calls \ {c}) \cup (IF page = "editRules" THEN {r} ELSE {})
    BY DEF DE!Loaded, DE!history
<1>2. /\ hit' \in Made \cup {NoCopy} /\ copy' \in Made \cup {NoCopy}
      /\ shown' \in Made \cup {NoCopy} /\ (page # "list" => copy' # NoCopy)
    BY FoundIsMade DEF DE!Loaded
<1>3. aim' \in DE!Aims
    BY AimIsAim DEF DE!Loaded
<1>4. Made' = Made /\ MadeCalls' = MadeCalls
    BY <1>1 DEF Made, MadeCalls
<1>5. r \in MadeCalls /\ r.page = page /\ r.step = "rules"
  <2>1. "rules" \in Steps /\ "detector" \in DE!Aims
    BY DEF Steps, DE!Aims
  <2> QED
    BY <2>1, EmptyIsMade, CallIsMade
<1> HIDE DEF r
<1>6. FormTyped'
    BY <1>1, <1>2, <1>3, <1>4 DEF FormTyped
<1>7. page = "editRules" => Fits(r)
    BY <1>5 DEF Fits, DE!Writes
<1>8. CallsTyped'
    BY <1>1, <1>4, <1>5, <1>7 DEF CallsTyped, Fits
<1> QED
    BY <1>1, <1>2, <1>4, <1>6, <1>8 DEF Editing

LEMMA LoadedLateTyped == ASSUME Editing, NEW c \in calls, DE!LoadedLate(c) PROVE Editing'
<1>1. UNCHANGED <<cluster, exists, edits>>
    BY DEF DE!LoadedLate
<1>2. PICK found \in DE!Found(c) : DE!GoTo(c.page, found, calls \ {c}, done)
    BY DEF DE!LoadedLate
<1> QED
    BY <1>1, <1>2, EditingTypes, FoundIsMade, GoToTyped

LEMMA NoMore ==
    {} \in SUBSET MadeCalls /\ \A c : \A d \in {} : (d.live => d.page = c) /\ Fits(d)
OBVIOUS

LEMMA LoadFailsTyped == ASSUME Editing, NEW c \in calls, DE!LoadFails(c) PROVE Editing'
<1> USE EditingTypes
<1>1. UNCHANGED <<cluster, exists, edits, done>> /\ DE!Continue(c, {})
    BY DEF DE!LoadFails, DE!history
<1>2. PICK newShown \in {shown, NoCopy}, newLoading \in BOOLEAN :
            DE!SetForm(c, copy, newShown, newLoading, submitting)
    BY DEF DE!LoadFails
<1> HIDE EditingTypes
<1> QED
    BY <1>1, <1>2, FormTypes, NoMore, AnsweredTyped

LEMMA GotRulesTyped == ASSUME Editing, NEW c \in calls, DE!GotRules(c) PROVE Editing'
<1> USE EditingTypes
<1>1. /\ UNCHANGED <<cluster, exists, edits, done>> /\ DE!Continue(c, {})
      /\ c.page = "editRules"
    BY DEF DE!GotRules, DE!history, Fits
<1>2. CASE \/ DE!SetForm(c, copy, shown, FALSE, submitting)
           \/ DE!SetForm(c, copy, shown, loading, submitting)
    BY <1>1, <1>2, NoMore, AnsweredTyped
<1>3. CASE DE!SetForm(c, [copy EXCEPT !["rules"] = 0], shown, FALSE, submitting)
  <2>1. CASE c.live
    <3>1. page = "editRules" /\ copy \in Made
      BY <1>1, <2>1
    <3>2. 0 \in 0 .. edits + 1
      OBVIOUS
    <3>3. [copy EXCEPT !["rules"] = 0] \in Made
      BY <3>1, <3>2 DEF Made
    <3> QED
      BY <1>1, <1>3, <3>3, NoCopyIsNone, NoMore, AnsweredTyped
  <2>2. CASE ~c.live
    <3>1. DE!SetForm(c, copy, shown, FALSE, submitting)
      BY <1>3, <2>2 DEF DE!SetForm
    <3> QED
      BY <1>1, <3>1, NoMore, AnsweredTyped
  <2> QED
    BY <2>1, <2>2
<1> QED
    BY <1>2, <1>3 DEF DE!GotRules

LEMMA UpdateIsMade ==
    ASSUME Editing, NEW c \in calls, c.step = "mappings"
    PROVE  LET d == [c EXCEPT !.step = "update"] IN
           /\ {d} \in SUBSET MadeCalls /\ (d.live => d.page = c.page) /\ Fits(d)
           /\ d.step = "update" /\ d.body = c.body /\ d.aim = c.aim /\ d.page = c.page
           /\ d.live = c.live
BY EditingTypes DEF MadeCalls, Steps, DE!Writes, Fits

LEMMA MappingsStoredTyped == ASSUME Editing, NEW c \in calls, DE!MappingsStored(c) PROVE Editing'
<1> USE EditingTypes
<1> DEFINE d == [c EXCEPT !.step = "update"]
<1>1. /\ UNCHANGED <<cluster, exists, edits, done>>
      /\ UNCHANGED DE!form /\ c.step = "mappings"
    BY DEF DE!MappingsStored, DE!history
<1>2. DE!SetForm(c, copy, shown, loading, submitting)
    BY <1>1 DEF DE!SetForm, DE!form
<1>3. {d} \in SUBSET MadeCalls /\ (d.live => d.page = c.page) /\ Fits(d)
    BY <1>1, UpdateIsMade
<1>4. PICK more \in {{}, {d}} : DE!Continue(c, more)
    BY DEF DE!MappingsStored
<1>5. more \in SUBSET MadeCalls /\ \A e \in more : (e.live => e.page = c.page) /\ Fits(e)
    BY <1>3
<1> HIDE DEF d
<1> HIDE EditingTypes
<1> QED
    BY <1>1, <1>2, <1>4, <1>5, FormTypes, AnsweredTyped

LEMMA MappingsRefusedTyped == ASSUME Editing, NEW c \in calls, DE!MappingsRefused(c) PROVE Editing'
<1> USE EditingTypes
<1> DEFINE d == [c EXCEPT !.step = "update"]
<1>1. UNCHANGED <<cluster, exists, edits, done>> /\ c.step = "mappings"
    BY DEF DE!MappingsRefused, DE!history
<1>2. DE!SetForm(c, copy, shown, loading, submitting /\ page # "editRules")
    BY DEF DE!MappingsRefused
<1>3. {d} \in SUBSET MadeCalls /\ (d.live => d.page = c.page) /\ Fits(d)
    BY <1>1, UpdateIsMade
<1>4. PICK more \in {{}, {d}} : DE!Continue(c, more)
    BY DEF DE!MappingsRefused
<1>5. more \in SUBSET MadeCalls /\ \A e \in more : (e.live => e.page = c.page) /\ Fits(e)
    BY <1>3
<1> HIDE DEF d
<1> HIDE EditingTypes
<1> QED
    BY <1>1, <1>2, <1>4, <1>5, FormTypes, AnsweredTyped

LEMMA MappingsLostTyped == ASSUME Editing, NEW c \in calls, DE!MappingsLost(c) PROVE Editing'
<1> USE EditingTypes
<1>1. UNCHANGED <<cluster, exists, edits>>
    BY DEF DE!MappingsLost, DE!history
<1>2. CASE DE!GoTo("details", c.body, calls \ {c}, done)
  <2>1. "details" \in DE!Pages
    BY DEF DE!Pages
  <2> QED
    BY <1>1, <1>2, <2>1, GoToTyped
<1>3. CASE /\ DE!SetForm(c, copy, shown, loading, submitting /\ page # "editRules")
           /\ DE!Continue(c, {})
           /\ UNCHANGED DE!history
    BY <1>1, <1>3, NoMore, AnsweredTyped DEF DE!history
<1> QED
    BY <1>2, <1>3 DEF DE!MappingsLost


LEMMA AfterToggleTyped ==
    ASSUME Editing, cluster' \in Made, exists' \in BOOLEAN, UNCHANGED edits,
           done' \in Made \cup {NoCopy}, NEW c \in calls, NEW ok \in BOOLEAN,
           DE!AfterToggle(c, ok)
    PROVE  Editing'
<1> USE EditingTypes
<1> DEFINE s == DE!Search("list", "reload")
           newCopy == IF ok /\ page = "details" THEN [copy EXCEPT !["enabled"] = c.body["enabled"]]
                                                ELSE copy
<1>1. newCopy \in Made \cup {NoCopy} /\ (page # "list" => newCopy # NoCopy)
  <2>1. CASE ok /\ page = "details"
    <3>1. copy \in Made /\ c.body \in Made
      BY <2>1
    <3>2. newCopy \in Made
      BY <2>1, <3>1 DEF Made
    <3> QED
      BY <3>2, NoCopyIsNone
  <2>2. CASE ~(ok /\ page = "details")
    BY <2>2
  <2> QED
    BY <2>1, <2>2
<1>2. s \in MadeCalls /\ s.page = "list" /\ s.step = "reload"
  <2>1. "list" \in DE!Pages
    BY DEF DE!Pages
  <2> QED
    BY <2>1, SearchIsMade
<1>3. PICK newLoading \in BOOLEAN : DE!SetForm(c, newCopy, shown, newLoading, submitting)
  <2>1. (loading /\ page = "list") \in BOOLEAN
    OBVIOUS
  <2> QED
    BY <2>1 DEF DE!AfterToggle
<1>4. DE!Continue(c, {}) \/ (c.page = "list" /\ DE!Continue(c, {s}))
    BY DEF DE!AfterToggle
<1> HIDE DEF newCopy, s
<1>5. PICK more \in SUBSET MadeCalls :
            /\ \A d \in more : (d.live => d.page = c.page) /\ Fits(d)
            /\ DE!Continue(c, more)
  <2>1. CASE c.page = "list" /\ DE!Continue(c, {s})
    <3>1. {s} \in SUBSET MadeCalls /\ \A d \in {s} : (d.live => d.page = c.page) /\ Fits(d)
      BY <1>2, <2>1 DEF Fits
    <3> QED
      BY <2>1, <3>1
  <2> QED
    BY <1>4, <2>1, NoMore
<1> HIDE EditingTypes
<1>6. /\ newCopy \in Made \cup {NoCopy} /\ (page # "list" => newCopy # NoCopy)
      /\ shown \in Made \cup {NoCopy} /\ submitting \in BOOLEAN
      /\ \A d \in more : (d.live => d.page = c.page) /\ Fits(d)
    BY <1>1, <1>5, FormTypes
<1>7. DE!SetForm(c, newCopy, shown, newLoading, submitting) /\ DE!Continue(c, more)
    BY <1>3, <1>5
<1> QED
    BY <1>6, <1>7, AnsweredTyped

LEMMA AfterSaveTyped ==
    ASSUME Editing, cluster' \in Made, exists' \in BOOLEAN, UNCHANGED edits,
           NEW c \in calls, NEW saved \in Made \cup {NoCopy}, DE!AfterSave(c, saved)
    PROVE  Editing'
<1>1. "details" \in DE!Pages
    BY DEF DE!Pages
<1>2. PICK h \in Made \cup {NoCopy} : DE!GoTo("details", h, calls \ {c}, saved)
    BY EditingTypes DEF DE!AfterSave
<1> QED
    BY <1>1, <1>2, GoToTyped

Saved(c) == IF done = NoCopy THEN NoCopy
            ELSE [p \in DE!Parts |-> IF p \in DE!Own(c.page) THEN c.body[p] ELSE done[p]]

LEMMA UpdatedTyped == ASSUME Editing, NEW c \in calls, DE!Updated(c) PROVE Editing'
<1> USE EditingTypes
<1>1. cluster' \in Made /\ exists' \in BOOLEAN /\ UNCHANGED edits
    BY DEF DE!Updated
<1>2. Saved(c) \in Made \cup {NoCopy}
  <2>1. CASE done = NoCopy
    BY <2>1 DEF Saved
  <2>2. CASE done # NoCopy
    BY <2>2 DEF Saved, Made
  <2> QED
    BY <2>1, <2>2
<1>3. CASE DE!AfterSave(c, Saved(c))
    BY <1>1, <1>2, <1>3, AfterSaveTyped
<1>4. CASE DE!AfterToggle(c, TRUE) /\ done' = Saved(c)
  <2>1. done' \in Made \cup {NoCopy} /\ TRUE \in BOOLEAN
    BY <1>2, <1>4
  <2> QED
    BY <1>1, <1>4, <2>1, AfterToggleTyped
<1> QED
    BY <1>3, <1>4 DEF DE!Updated, Saved

LEMMA UpdateRefusedTyped == ASSUME Editing, NEW c \in calls, DE!UpdateRefused(c) PROVE Editing'
<1> USE EditingTypes
<1>1. cluster' \in Made /\ exists' \in BOOLEAN /\ UNCHANGED edits
    BY DEF DE!UpdateRefused
<1>2. CASE DE!AfterSave(c, done)
    BY <1>1, <1>2, AfterSaveTyped
<1>3. CASE DE!AfterToggle(c, FALSE) /\ UNCHANGED done
  <2>1. done' \in Made \cup {NoCopy} /\ FALSE \in BOOLEAN
    BY <1>3
  <2> QED
    BY <1>1, <1>3, <2>1, AfterToggleTyped
<1> QED
    BY <1>2, <1>3 DEF DE!UpdateRefused

LEMMA UpdateLostTyped == ASSUME Editing, NEW c \in calls, DE!UpdateLost(c) PROVE Editing'
<1> USE EditingTypes
<1>1. cluster' \in Made /\ exists' \in BOOLEAN /\ UNCHANGED edits
    BY DEF DE!UpdateLost
<1>2. CASE DE!AfterSave(c, done)
    BY <1>1, <1>2, AfterSaveTyped
<1>3. CASE DE!AfterToggle(c, FALSE) /\ UNCHANGED done
  <2>1. done' \in Made \cup {NoCopy} /\ FALSE \in BOOLEAN
    BY <1>3
  <2> QED
    BY <1>1, <1>3, <2>1, AfterToggleTyped
<1>4. CASE /\ DE!SetForm(c, copy, shown, loading, submitting /\ page # "editRules")
           /\ DE!Continue(c, {})
           /\ UNCHANGED done
  <2>1. done' \in Made \cup {NoCopy}
    BY <1>4
  <2> QED
    BY <1>1, <1>4, <2>1, NoMore, AnsweredTyped
<1> QED
    BY <1>2, <1>3, <1>4 DEF DE!UpdateLost

LEMMA ReloadedTyped == ASSUME Editing, NEW c \in calls, DE!Reloaded(c) PROVE Editing'
<1> USE EditingTypes
<1>1. UNCHANGED <<cluster, exists, edits, done>> /\ DE!Continue(c, {}) /\ c.page = "list"
    BY DEF DE!Reloaded, DE!history, Fits
<1>2. PICK now \in Made \cup {NoCopy} :
            DE!SetForm(c, IF copy = NoCopy THEN NoCopy ELSE now, now, FALSE, submitting)
    BY FoundIsMade DEF DE!Reloaded
<1> DEFINE newCopy == IF copy = NoCopy THEN NoCopy ELSE now
<1>3. CASE c.live
  <2>1. page = "list" /\ newCopy \in Made \cup {NoCopy}
    BY <1>1, <1>3
  <2> QED
    BY <1>1, <1>2, <2>1, NoMore, AnsweredTyped
<1>4. CASE ~c.live
  <2>1. DE!SetForm(c, copy, shown, FALSE, submitting)
    BY <1>2, <1>4 DEF DE!SetForm
  <2> QED
    BY <1>1, <2>1, NoMore, AnsweredTyped
<1> QED
    BY <1>3, <1>4

LEMMA DeletedTyped == ASSUME Editing, NEW c \in calls, DE!Deleted(c) PROVE Editing'
<1> USE EditingTypes
<1> DEFINE s == DE!Search("list", "load")
<1>1. /\ UNCHANGED <<cluster, edits, done>> /\ exists' \in BOOLEAN /\ c.page = "list"
      /\ DE!SetForm(c, copy, shown, FALSE, submitting)
      /\ DE!Continue(c, {s})
    BY DEF DE!Deleted, DE!history, Fits
<1>2. s \in MadeCalls /\ s.page = "list" /\ s.step = "load"
    BY <1>1, SearchIsMade
<1> HIDE DEF s
<1>3. {s} \in SUBSET MadeCalls /\ \A d \in {s} : (d.live => d.page = c.page) /\ Fits(d)
    BY <1>1, <1>2 DEF Fits
<1> HIDE EditingTypes
<1> QED
    BY <1>1, <1>3, FormTypes, AnsweredTyped

LEMMA EditingStep == Editing /\ DE!Next => Editing'
BY MovesTyped, EditTyped, RemapTyped, SaveTyped, SelectTyped, RefreshTyped, ToggleTyped,
   DeleteTyped, LoadedTyped, LoadedLateTyped, LoadFailsTyped, GotRulesTyped, MappingsStoredTyped,
   MappingsRefusedTyped, MappingsLostTyped, UpdatedTyped, UpdateRefusedTyped, UpdateLostTyped,
   ReloadedTyped, DeletedTyped
DEF DE!Next, DE!Answer


-----------------------------------------------------------------------------
(* Editing a detector: nothing is undone *)

\* x has in each part, or in each but one, what was last saved or something newer.
Kept(x) == \A p \in DE!Parts : x[p] >= done[p]
KeptButEnabled(x) == \A p \in DE!Parts \ {"enabled"} : x[p] >= done[p]

Content == {"mappings", "update"}

\* No call outlives its page, and one write waits at a time; while it waits, an edit page says
\* so, and the details page neither writes nor lets write before it has loaded.
InTurn ==
    /\ \A c \in calls : c.live
    /\ \A c, d \in calls : c.step \in Content /\ d.step \in Content => c = d
    /\ page \in DE!EditPages => \A c \in calls : c.step \in Content => submitting
    /\ page = "details" => \A c \in calls : c.step = "load" => loading /\ calls = {c}

\* What a search has found is kept, but for what the list itself changes.
ReadsKept ==
    \A c \in calls : c.step \in {"load", "reload"} /\ c.body # DE!Empty =>
        IF page = "list" THEN KeptButEnabled(c.body) ELSE Kept(c.body)

\* So is what is written.
WritesKept ==
    \A c \in calls : c.step \in Content /\ c.aim = "detector" =>
        Kept(c.body) /\ (page = "details" => Kept(copy))

\* A part outside the page's own has not been loaded; or the rules are gone.
Unloaded ==
    \/ \E p \in DE!Parts \ DE!Own(page) : copy[p] = 0
    \/ page = "editRules" /\ copy["rules"] = 0

\* The copy of the page is kept, once it is loaded.
CopyKept ==
    /\ page = "list" => /\ copy # NoCopy => KeptButEnabled(copy)
                        /\ shown # NoCopy => KeptButEnabled(shown)
    /\ page = "details" => copy = DE!Empty \/ Kept(copy)
    /\ page \in DE!EditPages => Unloaded \/ Kept(copy)

Careful == InTurn /\ Kept(cluster) /\ ReadsKept /\ WritesKept /\ CopyKept

\* Under TypeOK and as long as the user is careful.
Carefully == done # NoCopy => Careful

LEMMA PartsAre == DE!Parts = {"details", "rules", "triggers", "enabled"}
BY DEF DE!Parts

LEMMA CarefullyInit == ASSUME DE!Init PROVE Carefully
<1> DEFINE c == DE!Call("list", "load", cluster, "detector")
<1>1. /\ calls = {c} /\ page = "list" /\ copy = NoCopy /\ shown = NoCopy
      /\ \A p \in DE!Parts : cluster[p] = 1 /\ done[p] = 1
    BY DEF DE!Init
<1>2. c.live /\ c.step = "load" /\ c.body = cluster
    BY DEF DE!Call
<1> HIDE DEF c
<1>3. Kept(cluster) /\ KeptButEnabled(cluster)
    BY <1>1 DEF Kept, KeptButEnabled
<1>4. InTurn
    BY <1>1, <1>2 DEF InTurn, Content, DE!EditPages
<1>5. ReadsKept
    BY <1>1, <1>2, <1>3 DEF ReadsKept
<1>6. WritesKept
    BY <1>1, <1>2 DEF WritesKept, Content
<1>7. CopyKept
    BY <1>1 DEF CopyKept, DE!EditPages
<1> QED
    BY <1>3, <1>4, <1>5, <1>6, <1>7 DEF Carefully, Careful

\* What a page starts from.
LEMMA MountCareful ==
    ASSUME Editing, cluster' \in Made, UNCHANGED edits,
           NEW pg \in DE!Pages, NEW h \in Made \cup {NoCopy}, NEW waiting \in SUBSET calls,
           \A c \in waiting : c.live,
           NEW saved \in Made \cup {NoCopy}, DE!Mount(pg, h, waiting, saved), done' # NoCopy,
           \A p \in DE!Parts : cluster'[p] >= saved[p],
           \/ h = NoCopy \/ h = DE!Empty \/ pg = "details"
           \/ \A p \in DE!Parts : h[p] >= saved[p]
    PROVE  Careful'
<1> DEFINE load == DE!Search(pg, "load")
<1>1. page' = pg /\ done' = saved /\ copy' = DE!Opens(pg, h) /\ shown' = NoCopy
    BY DEF DE!Mount
<1>2. \A c \in waiting : ~DE!Outlives(c)
    BY DEF DE!Mount
<1>3. DE!Outlive(waiting) = {}
    BY <1>2 DEF DE!Outlive
<1>4. calls' \subseteq {load} /\ (pg = "details" => loading')
    BY <1>3 DEF DE!Mount
<1>5. /\ load.live /\ load.step = "load"
      /\ load.body = IF exists' THEN cluster' ELSE DE!Empty
    BY SearchIsMade
<1> HIDE DEF load
<1>6. Kept(cluster)' /\ KeptButEnabled(cluster)'
    BY <1>1 DEF Kept, KeptButEnabled
<1>7. InTurn'
    BY <1>1, <1>4, <1>5 DEF InTurn, Content
<1>8. ReadsKept'
    BY <1>1, <1>4, <1>5, <1>6 DEF ReadsKept, Kept, KeptButEnabled, DE!Empty
<1>9. WritesKept'
    BY <1>4, <1>5 DEF WritesKept, Content
<1>10. CopyKept'
  <2>1. CASE pg = "list"
    BY <1>1, <2>1 DEF CopyKept, DE!Opens, DE!EditPages
  <2>2. CASE pg = "details"
    BY <1>1, <2>2 DEF CopyKept, DE!Opens, DE!EditPages, DE!Empty
  <2>3. CASE pg \in DE!EditPages /\ copy' = DE!Empty
    <3>1. \E p \in DE!Parts \ DE!Own(pg) : DE!Empty[p] = 0
      BY <2>3 DEF DE!Own, DE!Empty, DE!Parts, DE!EditPages
    <3>2. Unloaded'
      BY <1>1, <2>3, <3>1 DEF Unloaded
    <3> QED
      BY <1>1, <2>3, <3>2 DEF CopyKept, DE!EditPages
  <2>4. CASE pg \in DE!EditPages /\ copy' # DE!Empty
    <3>1. copy' = h /\ h # NoCopy /\ h # DE!Empty
      BY <1>1, <2>4 DEF DE!Opens, DE!EditPages
    <3>2. Kept(copy)'
      BY <1>1, <2>4, <3>1 DEF Kept, DE!EditPages
    <3> QED
      BY <1>1, <2>4, <3>2 DEF CopyKept, DE!EditPages
  <2> QED
    BY <2>1, <2>2, <2>3, <2>4 DEF DE!Pages
<1> QED
    BY <1>6, <1>7, <1>8, <1>9, <1>10 DEF Careful


\* The user only forgets to be careful.
LEMMA CareIsLost ==
    ASSUME Editing, DE!Next, done' # NoCopy
    PROVE  done # NoCopy
<1>1. ASSUME NEW pg, NEW h, NEW w, NEW s, DE!GoTo(pg, h, w, s) PROVE s # NoCopy
    BY <1>1 DEF DE!GoTo, DE!Mount
<1>2. CASE \/ \E pg \in DE!Pages : DE!Visit(pg)
           \/ \E pg \in DE!EditPages : DE!OpenEditor(pg)
           \/ DE!Cancel
    BY <1>2 DEF DE!Visit, DE!OpenEditor, DE!Cancel, DE!Mount
<1>3. CASE DE!Edit \/ DE!Remap \/ DE!Select \/ DE!Refresh \/ DE!OnClickDelete
    BY <1>3 DEF DE!Edit, DE!Remap, DE!Select, DE!Refresh, DE!OnClickDelete, DE!history
<1>4. CASE DE!Save \/ DE!ToggleDetector
    BY <1>4 DEF DE!Save, DE!ToggleDetector
<1>5. ASSUME NEW c \in calls, DE!Answer(c) PROVE done # NoCopy
  <2>1. CASE DE!Loaded(c) \/ DE!LoadFails(c) \/ DE!GotRules(c) \/ DE!MappingsStored(c)
             \/ DE!MappingsRefused(c) \/ DE!Reloaded(c) \/ DE!Deleted(c)
    BY <2>1 DEF DE!Loaded, DE!LoadFails, DE!GotRules, DE!MappingsStored, DE!MappingsRefused,
                DE!Reloaded, DE!Deleted, DE!history
  <2>2. CASE DE!LoadedLate(c) \/ DE!MappingsLost(c)
    BY <1>1, <2>2 DEF DE!LoadedLate, DE!MappingsLost, DE!history
  <2>3. CASE DE!Updated(c)
    BY <1>1, <2>3 DEF DE!Updated, DE!AfterSave
  <2>4. CASE DE!UpdateRefused(c) \/ DE!UpdateLost(c)
    BY <1>1, <2>4 DEF DE!UpdateRefused, DE!UpdateLost, DE!AfterSave
  <2> QED
    BY <1>5, <2>1, <2>2, <2>3, <2>4 DEF DE!Answer
<1> QED
    BY <1>2, <1>3, <1>4, <1>5 DEF DE!Next

\* What the user does.
LEMMA MovesCareful ==
    ASSUME Editing, Careful, done # NoCopy, done' # NoCopy,
           \/ \E pg \in DE!Pages : DE!Visit(pg)
           \/ \E pg \in DE!EditPages : DE!OpenEditor(pg)
           \/ DE!Cancel
    PROVE  Careful'
<1> USE EditingTypes
<1>1. UNCHANGED <<cluster, exists, edits>>
    BY DEF DE!Visit, DE!OpenEditor, DE!Cancel
<1>2. PICK pg \in DE!Pages, h \in Made \cup {NoCopy} :
            /\ DE!Mount(pg, h, calls, done)
            /\ h = NoCopy \/ h = DE!Empty \/ pg = "details" \/ Kept(h)
    BY DEF DE!Visit, DE!OpenEditor, DE!Cancel, DE!Pages, Careful, CopyKept
<1>3. \A c \in calls : c.live
    BY DEF Careful, InTurn
<1>4. \A p \in DE!Parts : cluster'[p] >= done[p]
    BY <1>1 DEF Careful, Kept
<1> QED
    BY <1>1, <1>2, <1>3, <1>4, MountCareful DEF Kept

\* What is saved is no newer than the newest edit, so that the next one is newer.
LEMMA NextIsNewer ==
    ASSUME Editing, done # NoCopy, NEW p \in DE!Parts
    PROVE  edits + 2 >= done[p] /\ done[p] \in Nat
<1>1. done \in Made /\ edits \in Nat
    BY EditingTypes
<1>2. done[p] \in 0 .. edits + 1
    BY <1>1 DEF Made
<1> QED
    BY <1>1, <1>2

LEMMA EditCareful ==
    ASSUME Editing, Careful, done # NoCopy, DE!Edit
    PROVE  Careful'
<1> USE EditingTypes
<1>1. /\ UNCHANGED <<cluster, exists, page, hit, shown, loading, submitting, remapped, calls, done>>
      /\ copy' = [p \in DE!Parts |-> IF p \in DE!Own(page) THEN edits + 2 ELSE copy[p]]
      /\ page \in {"editDetails", "editTriggers", "editRules"}
      /\ page = "editRules" => copy["rules"] # 0
    BY DEF DE!Edit, DE!location
<1>2. page \in DE!EditPages
    BY <1>1 DEF DE!EditPages
<1>3. InTurn' /\ Kept(cluster)' /\ ReadsKept' /\ WritesKept'
  <2>1. page # "details"
    BY <1>1
  <2> QED
    BY <1>1, <2>1 DEF Careful, InTurn, Kept, KeptButEnabled, ReadsKept, WritesKept
<1>4. ASSUME Unloaded PROVE Unloaded'
  <2>1. PICK p \in DE!Parts \ DE!Own(page) : copy[p] = 0
    BY <1>1, <1>4 DEF Unloaded
  <2>2. copy'[p] = 0
    BY <1>1, <2>1
  <2> QED
    BY <1>1, <2>1, <2>2 DEF Unloaded
<1>5. ASSUME Kept(copy) PROVE Kept(copy)'
    BY <1>1, <1>5, NextIsNewer DEF Kept
<1>6. CopyKept'
    BY <1>1, <1>2, <1>4, <1>5 DEF Careful, CopyKept, DE!EditPages
<1> QED
    BY <1>3, <1>6 DEF Careful

LEMMA RemapCareful ==
    ASSUME Careful, DE!Remap
    PROVE  Careful'
<1>1. UNCHANGED <<cluster, exists, page, hit, shown, copy, loading, submitting, calls, done>>
    BY DEF DE!Remap, DE!location, DE!history
<1> QED
    BY <1>1 DEF Careful, InTurn, Kept, KeptButEnabled, ReadsKept, WritesKept, CopyKept, Unloaded

LEMMA SelectCareful ==
    ASSUME Careful, DE!Select
    PROVE  Careful'
<1>1. /\ UNCHANGED <<cluster, exists, page, shown, loading, submitting, calls, done>>
      /\ page = "list" /\ copy' \in {shown, NoCopy}
    BY DEF DE!Select, DE!location, DE!history
<1>2. CopyKept'
    BY <1>1 DEF Careful, CopyKept, KeptButEnabled, DE!EditPages
<1> QED
    BY <1>1, <1>2 DEF Careful, InTurn, Kept, KeptButEnabled, ReadsKept, WritesKept

\* The page saves what is kept, or its copy has a part that was not loaded.
LEMMA SaveCareful ==
    ASSUME Editing, Careful, done # NoCopy, DE!Save, done' # NoCopy
    PROVE  Careful'
<1> USE EditingTypes
<1>1. /\ UNCHANGED <<cluster, exists, page, hit, aim, copy, shown, loading, remapped, done>>
      /\ page \in DE!EditPages /\ submitting' = TRUE /\ ~submitting
      /\ calls' \subseteq calls \cup {DE!FirstWrite}
    BY DEF DE!Save, DE!location
<1>2. page # "details" /\ page # "list"
    BY <1>1 DEF DE!EditPages
<1>3. DE!FirstWrite.body = copy /\ DE!FirstWrite.live /\ DE!FirstWrite.step \in Content
    BY <1>1, FirstWriteIsMade DEF Content
<1>4. Kept(copy)
  <2>1. \A p \in DE!Parts : copy[p] # 0
    BY DEF DE!Save
  <2>2. "rules" \in DE!Parts
    BY DEF DE!Parts
  <2>3. ~Unloaded
    BY <2>1, <2>2 DEF Unloaded
  <2> QED
    BY <1>1, <2>3 DEF Careful, CopyKept
<1>5. \A c \in calls : c.step \notin Content
    BY <1>1 DEF Careful, InTurn
<1>6. InTurn'
  <2>1. \A c \in calls' : c.live
    BY <1>1, <1>3 DEF Careful, InTurn
  <2>2. \A c \in calls' : c.step \in Content => c = DE!FirstWrite
    BY <1>1, <1>5
  <2> QED
    BY <1>1, <1>2, <2>1, <2>2 DEF InTurn
<1>7. ReadsKept'
    BY <1>1, <1>2, <1>3 DEF Careful, ReadsKept, Kept, Content
<1>8. WritesKept'
    BY <1>1, <1>2, <1>3, <1>4, <1>5 DEF WritesKept, Kept
<1>9. Kept(cluster)' /\ CopyKept'
    BY <1>1, <1>2 DEF Careful, CopyKept, Kept, Unloaded
<1> QED
    BY <1>6, <1>7, <1>8, <1>9 DEF Careful


LEMMA KeptIsKept == ASSUME NEW x, Kept(x) PROVE KeptButEnabled(x)
BY DEF Kept, KeptButEnabled

\* What is there now is kept, and a search finds it.
LEMMA SearchKept ==
    ASSUME Kept(cluster)', NEW x, x = (IF exists' THEN cluster' ELSE DE!Empty), x # DE!Empty
    PROVE  Kept(x)'
BY DEF Kept

LEMMA RefreshCareful ==
    ASSUME Editing, Careful, DE!Refresh
    PROVE  Careful'
<1> USE EditingTypes
<1>1. /\ UNCHANGED <<cluster, exists, page, hit, aim, copy, shown, submitting, remapped, edits, done>>
      /\ page = "list" /\ calls' = calls \cup {DE!Search("list", "load")}
    BY DEF DE!Refresh, DE!location, DE!history
<1>2. PICK load : /\ calls' = calls \cup {load} /\ load.live /\ load.step = "load"
                  /\ load.body = IF exists' THEN cluster' ELSE DE!Empty
    BY <1>1, SearchIsMade
<1>3. Kept(cluster)'
    BY <1>1 DEF Careful, Kept
<1>4. InTurn'
    BY <1>1, <1>2 DEF Careful, InTurn, Content, DE!EditPages
<1>5. ReadsKept'
  <2>1. ASSUME load.body # DE!Empty PROVE KeptButEnabled(load.body)'
    BY <1>2, <1>3, <2>1 DEF Kept, KeptButEnabled
  <2> QED
    BY <1>1, <1>2, <2>1 DEF Careful, ReadsKept, KeptButEnabled, DE!Empty
<1>6. WritesKept'
    BY <1>1, <1>2 DEF Careful, WritesKept, Content, Kept
<1>7. CopyKept'
    BY <1>1 DEF Careful, CopyKept, KeptButEnabled, DE!EditPages
<1> QED
    BY <1>3, <1>4, <1>5, <1>6, <1>7 DEF Careful

\* The switch is changed in what the page shows, unless that was not loaded.
LEMMA ToggleCareful ==
    ASSUME Editing, Careful, done # NoCopy, DE!ToggleDetector, done' # NoCopy
    PROVE  Careful'
<1> USE EditingTypes
<1> DEFINE body == [copy EXCEPT !["enabled"] = edits + 2]
           c == DE!Call(page, "update", body, DE!AimOf(copy))
<1>1. /\ UNCHANGED <<cluster, exists, page, hit, aim, copy, shown, submitting, remapped, done>>
      /\ page \in {"details", "list"} /\ ~loading /\ copy # NoCopy
      /\ calls' = calls \cup {c} /\ ~DE!Overlaps
      /\ edits < MaxEdits /\ edits' = edits + 1
    BY DEF DE!ToggleDetector, DE!location
<1>2. /\ c.live /\ c.step = "update" /\ c.body = body /\ c.aim = DE!AimOf(copy)
    BY DEF DE!Call
<1>3. \A d \in calls : d.live /\ d.step \notin Content
    BY <1>1 DEF DE!Overlaps, DE!Writes, Content, Careful, InTurn
<1>4. ASSUME c.aim = "detector"
      PROVE  /\ Kept(body) /\ (page = "details" => Kept(copy))
  <2>1. copy \in Made /\ copy # DE!Empty
    BY <1>1, <1>2, <1>4 DEF DE!AimOf
  <2>2. /\ KeptButEnabled(copy) /\ (page = "details" => Kept(copy))
    BY <1>1, <2>1, KeptIsKept DEF Careful, CopyKept
  <2>3. \A p \in DE!Parts : body[p] = IF p = "enabled" THEN edits + 2 ELSE copy[p]
    BY <2>1 DEF Made
  <2> HIDE DEF body
  <2>4. Kept(body)
    BY <2>2, <2>3, NextIsNewer DEF Kept, KeptButEnabled
  <2> QED
    BY <2>2, <2>4
<1> HIDE DEF c, body
<1>5. InTurn'
  <2>1. \A d \in calls : page = "details" => d.step # "load"
    BY <1>1 DEF Careful, InTurn
  <2> QED
    BY <1>1, <1>2, <1>3, <2>1 DEF InTurn, DE!EditPages
<1>6. ReadsKept'
    BY <1>1, <1>2 DEF Careful, ReadsKept, Kept, KeptButEnabled, DE!Empty
<1>7. WritesKept'
    BY <1>1, <1>2, <1>3, <1>4 DEF WritesKept, Kept
<1>8. Kept(cluster)' /\ CopyKept'
    BY <1>1 DEF Careful, CopyKept, Kept, KeptButEnabled, DE!EditPages, DE!Empty
<1> QED
    BY <1>5, <1>6, <1>7, <1>8 DEF Careful

LEMMA DeleteCareful ==
    ASSUME Careful, DE!OnClickDelete
    PROVE  Careful'
<1> DEFINE c == DE!Call("list", "delete", DE!Empty, "detector")
<1>1. /\ UNCHANGED <<cluster, exists, page, copy, shown, submitting, done>>
      /\ page = "list" /\ calls' = calls \cup {c}
    BY DEF DE!OnClickDelete, DE!location, DE!history
<1>2. c.live /\ c.step = "delete"
    BY DEF DE!Call
<1> HIDE DEF c
<1> QED
    BY <1>1, <1>2 DEF Careful, InTurn, Kept, KeptButEnabled, ReadsKept, WritesKept, CopyKept,
                      Content, DE!EditPages, DE!Empty

\* A search of the page that is shown finds what is kept.
LEMMA FoundKept ==
    ASSUME Editing, Careful, NEW c \in calls, c.step \in {"load", "reload"},
           NEW found \in DE!Found(c)
    PROVE  IF page = "list" THEN KeptButEnabled(found) ELSE Kept(found)
<1>1. Kept(cluster) /\ KeptButEnabled(cluster)
    BY KeptIsKept DEF Careful
<1> QED
    BY <1>1 DEF Careful, ReadsKept, DE!Found, DE!Present

\* The other calls of a page wait on.
LEMMA FewerCareful ==
    ASSUME Careful, NEW c \in calls, calls' = calls \ {c},
           UNCHANGED <<cluster, page, submitting, done>>,
           page = "details" => calls = {c} \/ (UNCHANGED loading /\ (Kept(copy) => Kept(copy)'))
    PROVE  InTurn' /\ Kept(cluster)' /\ ReadsKept' /\ WritesKept'
<1>1. \A d \in calls' : d \in calls
    OBVIOUS
<1>2. InTurn'
  <2>1. page = "details" => \A d \in calls' : d.step = "load" => loading' /\ calls' = {d}
    BY DEF Careful, InTurn
  <2> QED
    BY <1>1, <2>1 DEF Careful, InTurn
<1>3. ReadsKept'
    BY <1>1 DEF Careful, ReadsKept, Kept, KeptButEnabled, DE!Empty
<1>4. WritesKept'
    BY <1>1 DEF Careful, WritesKept, Kept
<1> QED
    BY <1>2, <1>3, <1>4 DEF Careful, Kept

LEMMA LoadedCareful ==
    ASSUME Editing, Careful, NEW c \in calls, DE!Loaded(c)
    PROVE  Careful'
<1> USE EditingTypes
<1> DEFINE r == DE!Call(page, "rules", DE!Empty, "detector")
<1>1. /\ UNCHANGED <<cluster, exists, page, submitting, remapped, edits, done>>
      /\ c.live /\ c.step = "load"
      /\ calls' = (calls \ {c}) \cup (IF page = "editRules" THEN {r} ELSE {})
    BY DEF DE!Loaded, DE!history
<1>2. PICK found \in DE!Found(c) :
            /\ copy' = IF page = "list" THEN copy ELSE found
            /\ shown' = IF page = "list" THEN found ELSE NoCopy
    BY DEF DE!Loaded
<1>3. IF page = "list" THEN KeptButEnabled(found) ELSE Kept(found)
    BY <1>1, FoundKept
<1>4. CopyKept'
    BY <1>1, <1>2, <1>3 DEF Careful, CopyKept, Kept, KeptButEnabled, DE!EditPages
<1>5. r.live /\ r.step = "rules"
    BY DEF DE!Call
<1> HIDE DEF r
<1>6. page = "details" => calls = {c}
    BY <1>1 DEF Careful, InTurn
<1>7. CASE page # "editRules"
  <2>1. calls' = calls \ {c}
    BY <1>1, <1>7
  <2> QED
    BY <1>1, <1>4, <1>6, <2>1, FewerCareful DEF Careful
<1>8. CASE page = "editRules"
  <2>1. InTurn'
    BY <1>1, <1>5, <1>8 DEF Careful, InTurn, Content
  <2>2. ReadsKept'
    BY <1>1, <1>5, <1>8 DEF Careful, ReadsKept, Kept, DE!Empty
  <2>3. WritesKept'
    BY <1>1, <1>5, <1>8 DEF Careful, WritesKept, Kept, Content
  <2>4. Kept(cluster)'
    BY <1>1 DEF Careful, Kept
  <2> QED
    BY <1>4, <2>1, <2>2, <2>3, <2>4 DEF Careful
<1> QED
    BY <1>7, <1>8

LEMMA LoadedLateCareful ==
    ASSUME Careful, NEW c \in calls, DE!LoadedLate(c)
    PROVE  Careful'
BY DEF Careful, InTurn, DE!LoadedLate

\* An answer that only changes the form.
LEMMA AnsweredOut ==
    ASSUME NEW c \in calls, c.live, DE!Continue(c, {})
    PROVE  UNCHANGED <<page, hit>> /\ calls' = calls \ {c}
BY DEF DE!Continue, DE!location

LEMMA LoadFailsCareful ==
    ASSUME Editing, Careful, NEW c \in calls, DE!LoadFails(c)
    PROVE  Careful'
<1>1. /\ UNCHANGED <<cluster, exists, edits, done>> /\ DE!Continue(c, {})
      /\ c.live /\ c.step = "load"
    BY DEF DE!LoadFails, DE!history, Careful, InTurn
<1>2. UNCHANGED <<copy, submitting>> /\ shown' \in {shown, NoCopy}
    BY <1>1 DEF DE!LoadFails, DE!SetForm
<1>3. UNCHANGED <<page, hit>> /\ calls' = calls \ {c}
    BY <1>1, AnsweredOut
<1>4. page = "details" => calls = {c}
    BY <1>1 DEF Careful, InTurn
<1>5. InTurn' /\ Kept(cluster)' /\ ReadsKept' /\ WritesKept'
    BY <1>1, <1>2, <1>3, <1>4, FewerCareful
<1>6. CopyKept'
    BY <1>1, <1>2, <1>3 DEF Careful, CopyKept, Kept, KeptButEnabled, Unloaded, DE!EditPages, DE!Empty
<1> QED
    BY <1>5, <1>6 DEF Careful

LEMMA GotRulesCareful ==
    ASSUME Editing, Careful, NEW c \in calls, DE!GotRules(c)
    PROVE  Careful'
<1> USE EditingTypes
<1>1. /\ UNCHANGED <<cluster, exists, edits, done>> /\ DE!Continue(c, {})
      /\ c.live /\ page = "editRules"
    BY DEF DE!GotRules, DE!history, Careful, InTurn, Fits
<1>2. /\ copy' = copy \/ copy' = [copy EXCEPT !["rules"] = 0]
      /\ UNCHANGED <<shown, submitting>>
    BY <1>1 DEF DE!GotRules, DE!SetForm
<1>3. UNCHANGED <<page, hit>> /\ calls' = calls \ {c}
    BY <1>1, AnsweredOut
<1>4. InTurn' /\ Kept(cluster)' /\ ReadsKept' /\ WritesKept'
    BY <1>1, <1>2, <1>3, FewerCareful
<1>5. CASE copy' = copy
    BY <1>1, <1>3, <1>4, <1>5 DEF Careful, CopyKept, Kept, Unloaded, DE!EditPages
<1>6. CASE copy' = [copy EXCEPT !["rules"] = 0]
  <2>1. copy'["rules"] = 0
    BY <1>1, <1>6 DEF Made, DE!Parts
  <2> QED
    BY <1>1, <1>3, <1>4, <2>1 DEF Careful, CopyKept, Unloaded
<1> QED
    BY <1>2, <1>5, <1>6


\* The mappings are written, and the detector after them, or not.
LEMMA MappedCareful ==
    ASSUME Editing, Careful, NEW c \in calls, c.step = "mappings",
           UNCHANGED <<cluster, exists, page, copy, shown, loading, edits, done>>,
           \/ calls' = calls \ {c}
           \/ calls' = (calls \ {c}) \cup {[c EXCEPT !.step = "update"]} /\ UNCHANGED submitting
    PROVE  Careful'
<1>1. c.live /\ c.page = page /\ page \in DE!EditPages
    BY EditingTypes DEF Careful, InTurn, Fits
<1>2. page # "details" /\ page # "list"
    BY <1>1 DEF DE!EditPages
<1>3. PICK d : /\ d.live /\ d.step = "update" /\ d.body = c.body /\ d.aim = c.aim
               /\ \/ calls' = calls \ {c}
                  \/ calls' = (calls \ {c}) \cup {d} /\ UNCHANGED submitting
    BY <1>1, UpdateIsMade
<1>4. \A e \in calls \ {c} : e.live /\ e.step \notin Content
    BY DEF Careful, InTurn, Content
<1>5. InTurn'
  <2>1. \A e \in calls' : e.live /\ (e.step \in Content => e = d)
    BY <1>3, <1>4
  <2>2. submitting
    BY <1>1 DEF Careful, InTurn, Content
  <2>3. \A e \in calls' : e.step \in Content => submitting'
    BY <1>3, <1>4, <2>2
  <2> QED
    BY <1>2, <2>1, <2>3 DEF InTurn
<1>6. ReadsKept'
    BY <1>2, <1>3 DEF Careful, ReadsKept, Kept, DE!Empty
<1>7. WritesKept'
    BY <1>2, <1>3, <1>4 DEF Careful, WritesKept, Kept, Content
<1>8. Kept(cluster)' /\ CopyKept'
    BY <1>2 DEF Careful, CopyKept, Kept, Unloaded
<1> QED
    BY <1>5, <1>6, <1>7, <1>8 DEF Careful

LEMMA MappingsStoredCareful ==
    ASSUME Editing, Careful, NEW c \in calls, DE!MappingsStored(c)
    PROVE  Careful'
<1>1. /\ UNCHANGED <<cluster, exists, edits, done, page, copy, shown, loading, submitting>>
      /\ c.step = "mappings" /\ c.live
    BY DEF DE!MappingsStored, DE!history, DE!form, DE!Continue, DE!location, Careful, InTurn
<1>2. calls' = calls \ {c} \/ calls' = (calls \ {c}) \cup {[c EXCEPT !.step = "update"]}
    BY <1>1 DEF DE!MappingsStored, DE!Continue
<1> QED
    BY <1>1, <1>2, MappedCareful

LEMMA MappingsRefusedCareful ==
    ASSUME Editing, Careful, NEW c \in calls, DE!MappingsRefused(c)
    PROVE  Careful'
<1> USE EditingTypes
<1>1. c.step = "mappings" /\ c.live /\ c.page = page
    BY DEF DE!MappingsRefused, Careful, InTurn
<1>2. /\ UNCHANGED <<cluster, exists, edits, done, page, copy, shown, loading>>
      /\ submitting' = (submitting /\ page # "editRules")
    BY <1>1 DEF DE!MappingsRefused, DE!history, DE!SetForm, DE!Continue, DE!location
<1>3. CASE page = "editMappings"
  <2>1. UNCHANGED submitting
    BY <1>2, <1>3, Zenon
  <2>2. calls' = (calls \ {c}) \cup {[c EXCEPT !.step = "update"]}
    BY <1>1, <1>3 DEF DE!MappingsRefused, DE!Continue
  <2> QED
    BY <1>1, <1>2, <2>1, <2>2, MappedCareful
<1>4. CASE page # "editMappings"
  <2>1. calls' = calls \ {c}
    BY <1>1, <1>4 DEF DE!MappingsRefused, DE!Continue
  <2> QED
    BY <1>1, <1>2, <2>1, MappedCareful
<1> QED
    BY <1>3, <1>4

\* The end of a save takes the user to the details page.
LEMMA LeftCareful ==
    ASSUME Editing, Careful, cluster' \in Made, UNCHANGED edits,
           NEW c \in calls, c.page \in DE!EditPages,
           NEW h \in Made \cup {NoCopy}, NEW saved \in Made \cup {NoCopy},
           DE!GoTo("details", h, calls \ {c}, saved), done' # NoCopy,
           \A p \in DE!Parts : cluster'[p] >= saved[p]
    PROVE  Careful'
<1>1. page # "details" /\ "details" \in DE!Pages
    BY EditingTypes DEF Careful, InTurn, DE!EditPages, DE!Pages
<1>2. DE!Mount("details", h, calls \ {c}, saved)
    BY <1>1 DEF DE!GoTo
<1>3. \A d \in calls \ {c} : d.live
    BY DEF Careful, InTurn
<1> QED
    BY <1>1, <1>2, <1>3, MountCareful

LEMMA MappingsLostCareful ==
    ASSUME Editing, Careful, NEW c \in calls, DE!MappingsLost(c), done' # NoCopy
    PROVE  Careful'
<1> USE EditingTypes
<1>1. /\ UNCHANGED <<cluster, exists, edits>> /\ c.step = "mappings" /\ c.live
      /\ c.page \in DE!EditPages
    BY DEF DE!MappingsLost, DE!history, Careful, InTurn, Fits
<1>2. CASE DE!GoTo("details", c.body, calls \ {c}, done)
  <2>1. \A p \in DE!Parts : cluster'[p] >= done[p]
    BY <1>1 DEF Careful, Kept
  <2> QED
    BY <1>1, <1>2, <2>1, LeftCareful
<1>3. CASE /\ DE!SetForm(c, copy, shown, loading, submitting /\ page # "editRules")
           /\ DE!Continue(c, {})
           /\ UNCHANGED DE!history
  <2>1. UNCHANGED <<copy, shown, loading, done>>
    BY <1>1, <1>3 DEF DE!SetForm, DE!history
  <2>2. UNCHANGED page /\ calls' = calls \ {c}
    BY <1>1, <1>3, AnsweredOut
  <2> QED
    BY <1>1, <2>1, <2>2, MappedCareful
<1> QED
    BY <1>2, <1>3 DEF DE!MappingsLost

\* After a toggle or a deletion the list searches again.
LEMMA SearchedCareful ==
    ASSUME Editing, Careful, NEW c \in calls, page = "list",
           UNCHANGED <<page, edits, copy, shown>>, cluster' \in Made, Kept(cluster)',
           \A p \in DE!Parts \ {"enabled"} : done'[p] = done[p],
           UNCHANGED done \/ c.step \in Content,
           NEW s \in {"load", "reload"},
           calls' = (calls \ {c}) \cup {DE!Search("list", s)}
    PROVE  Careful'
<1>1. PICK load : /\ calls' = (calls \ {c}) \cup {load} /\ load.live /\ load.step = s
                  /\ load.body = IF exists' THEN cluster' ELSE DE!Empty
  <2>1. "list" \in DE!Pages
    BY DEF DE!Pages
  <2> QED
    BY <2>1, SearchIsMade
<1>2. InTurn'
    BY <1>1 DEF Careful, InTurn, Content, DE!EditPages
<1>3. ReadsKept'
  <2>1. ASSUME load.body # DE!Empty PROVE KeptButEnabled(load.body)'
    BY <1>1, <2>1 DEF Kept, KeptButEnabled
  <2> QED
    BY <1>1, <2>1 DEF Careful, ReadsKept, KeptButEnabled, DE!Empty
<1>4. WritesKept'
  <2>1. \A d \in calls' : d.step \in Content => d \in calls \ {c}
    BY <1>1 DEF Content
  <2>2. CASE c.step \in Content
    BY <2>1, <2>2 DEF Careful, InTurn, WritesKept
  <2>3. CASE UNCHANGED done
    BY <2>1, <2>3 DEF Careful, WritesKept, Kept
  <2> QED
    BY <2>2, <2>3
<1>5. CopyKept'
    BY DEF Careful, CopyKept, KeptButEnabled, DE!EditPages
<1> QED
    BY <1>2, <1>3, <1>4, <1>5 DEF Careful

\* The write of the details page ends.
LEMMA ToggledCareful ==
    ASSUME Editing, Careful, NEW c \in calls, c.step = "update", page = "details",
           UNCHANGED page, Kept(cluster)', calls' = calls \ {c},
           copy' = DE!Empty \/ Kept(copy)'
    PROVE  Careful'
<1>1. \A d \in calls' : d.live /\ d.step \notin Content /\ d.step # "load"
    BY DEF Careful, InTurn, Content
<1>2. \A d \in calls' : d.step # "reload"
    BY <1>1, EditingTypes DEF Fits
<1>3. InTurn' /\ ReadsKept' /\ WritesKept'
    BY <1>1, <1>2 DEF InTurn, ReadsKept, WritesKept, DE!EditPages
<1>4. CopyKept'
    BY DEF CopyKept, DE!EditPages, DE!Empty
<1> QED
    BY <1>3, <1>4 DEF Careful


LEMMA SavedIs ==
    ASSUME done # NoCopy, NEW c, NEW p \in DE!Parts
    PROVE  Saved(c)[p] = IF p \in DE!Own(c.page) THEN c.body[p] ELSE done[p]
BY DEF Saved

LEMMA AfterToggleCareful ==
    ASSUME Editing, Careful, NEW c \in calls, c.step = "update", c.page \notin DE!EditPages,
           cluster' \in Made, UNCHANGED edits, Kept(cluster)', NEW ok \in BOOLEAN,
           DE!AfterToggle(c, ok), done # NoCopy,
           IF ok THEN c.aim = "detector" /\ done' = Saved(c) ELSE UNCHANGED done
    PROVE  Careful'
<1> USE EditingTypes
<1>1. c.live /\ c.page = page /\ page \in {"list", "details"}
    BY DEF Careful, InTurn, DE!Pages
<1>2. DE!Own(page) = {"enabled"}
    BY <1>1 DEF DE!Own
<1>3. UNCHANGED <<page, shown>>
    BY <1>1 DEF DE!AfterToggle, DE!SetForm, DE!Continue, DE!location
<1>4. CASE page = "list"
  <2>1. UNCHANGED copy /\ calls' = (calls \ {c}) \cup {DE!Search("list", "reload")}
    BY <1>1, <1>4 DEF DE!AfterToggle, DE!SetForm, DE!Continue
  <2>2. \A p \in DE!Parts \ {"enabled"} : done'[p] = done[p]
    BY <1>1, <1>2, SavedIs
  <2>3. c.step \in Content
    BY DEF Content
  <2> QED
    BY <1>3, <1>4, <2>1, <2>2, <2>3, SearchedCareful
<1>5. CASE page = "details"
  <2>1. calls' = calls \ {c}
    BY <1>1, <1>5 DEF DE!AfterToggle, DE!Continue
  <2>2. copy' = DE!Empty \/ Kept(copy)'
    <3>1. CASE ok
      <4>1. copy' = [copy EXCEPT !["enabled"] = c.body["enabled"]]
        BY <1>1, <1>5, <3>1 DEF DE!AfterToggle, DE!SetForm
      <4>2. Kept(copy) /\ copy \in Made
        BY <1>5, <3>1 DEF Careful, WritesKept, Content
      <4>3. c.body["enabled"] \in Nat /\ \A p \in DE!Parts : copy[p] \in Nat
        BY <4>2, PartsAre DEF Made
      <4>4. \A p \in DE!Parts :
               /\ copy'[p] = IF p = "enabled" THEN c.body["enabled"] ELSE copy[p]
               /\ done'[p] = IF p = "enabled" THEN c.body["enabled"] ELSE done[p]
        BY <1>1, <1>2, <3>1, <4>1, <4>2, SavedIs DEF Made
      <4> QED
        BY <4>2, <4>3, <4>4 DEF Kept
    <3>2. CASE ~ok
      <4>1. UNCHANGED <<copy, done>>
        BY <1>1, <3>2 DEF DE!AfterToggle, DE!SetForm
      <4> QED
        BY <1>5, <4>1 DEF Careful, CopyKept, Kept
    <3> QED
      BY <3>1, <3>2
  <2> QED
    BY <1>3, <1>5, <2>1, <2>2, ToggledCareful
<1> QED
    BY <1>1, <1>4, <1>5

LEMMA AfterSaveCareful ==
    ASSUME Editing, Careful, cluster' \in Made, UNCHANGED edits,
           NEW c \in calls, c.page \in DE!EditPages, NEW saved \in Made \cup {NoCopy},
           DE!AfterSave(c, saved), done' # NoCopy,
           \A p \in DE!Parts : cluster'[p] >= saved[p]
    PROVE  Careful'
<1>1. PICK h \in Made \cup {NoCopy} : DE!GoTo("details", h, calls \ {c}, saved)
    BY EditingTypes DEF DE!AfterSave
<1> QED
    BY <1>1, LeftCareful

LEMMA UpdatedCareful ==
    ASSUME Editing, Careful, done # NoCopy, NEW c \in calls, DE!Updated(c), done' # NoCopy
    PROVE  Careful'
<1> USE EditingTypes
<1>1. /\ c.step = "update" /\ c.aim = "detector"
      /\ cluster' = c.body /\ cluster' \in Made /\ UNCHANGED edits
    BY DEF DE!Updated
<1>2. Kept(c.body)
    BY <1>1 DEF Careful, WritesKept, Content
<1>3. \A p \in DE!Parts : c.body[p] \in Nat
    BY DEF Made
<1>4. \A p \in DE!Parts : cluster'[p] >= Saved(c)[p]
    BY <1>1, <1>2, <1>3, SavedIs DEF Kept
<1>5. CASE c.page \in DE!EditPages /\ DE!AfterSave(c, Saved(c))
  <2>1. Saved(c) \in Made \cup {NoCopy}
    BY DEF Saved, Made
  <2> QED
    BY <1>1, <1>4, <1>5, <2>1, AfterSaveCareful
<1>6. CASE c.page \notin DE!EditPages /\ DE!AfterToggle(c, TRUE) /\ done' = Saved(c)
  <2>1. Kept(cluster)'
    BY <1>4, <1>6 DEF Kept
  <2>2. IF TRUE THEN c.aim = "detector" /\ done' = Saved(c) ELSE UNCHANGED done
    BY <1>1, <1>6
  <2> QED
    BY <1>1, <1>6, <2>1, <2>2, AfterToggleCareful
<1> QED
    BY <1>5, <1>6 DEF DE!Updated, Saved

LEMMA UpdateRefusedCareful ==
    ASSUME Editing, Careful, done # NoCopy, NEW c \in calls, DE!UpdateRefused(c), done' # NoCopy
    PROVE  Careful'
<1> USE EditingTypes
<1>1. c.step = "update" /\ UNCHANGED <<cluster, edits>> /\ cluster' \in Made
    BY DEF DE!UpdateRefused
<1>2. CASE c.page \in DE!EditPages /\ DE!AfterSave(c, done)
  <2>1. \A p \in DE!Parts : cluster'[p] >= done[p]
    BY <1>1 DEF Careful, Kept
  <2> QED
    BY <1>1, <1>2, <2>1, AfterSaveCareful
<1>3. CASE c.page \notin DE!EditPages /\ DE!AfterToggle(c, FALSE) /\ UNCHANGED done
  <2>1. Kept(cluster)'
    BY <1>1, <1>3 DEF Careful, Kept
  <2>2. IF FALSE THEN c.aim = "detector" /\ done' = Saved(c) ELSE UNCHANGED done
    BY <1>3
  <2> QED
    BY <1>1, <1>3, <2>1, <2>2, AfterToggleCareful
<1> QED
    BY <1>2, <1>3 DEF DE!UpdateRefused

\* The answer is lost: what was written is kept all the same.
LEMMA UpdateLostCareful ==
    ASSUME Editing, Careful, done # NoCopy, NEW c \in calls, DE!UpdateLost(c), done' # NoCopy
    PROVE  Careful'
<1> USE EditingTypes
<1>1. c.step = "update" /\ UNCHANGED edits /\ cluster' \in Made /\ c.live /\ c.page = page
    BY DEF DE!UpdateLost, Careful, InTurn
<1>2. \A p \in DE!Parts : cluster'[p] >= done[p]
    BY <1>1 DEF DE!UpdateLost, Careful, WritesKept, Content, Kept
<1>3. CASE c.page \in {"editMappings", "editTriggers"} /\ DE!AfterSave(c, done)
  <2>1. c.page \in DE!EditPages
    BY <1>3 DEF DE!EditPages
  <2> QED
    BY <1>1, <1>2, <1>3, <2>1, AfterSaveCareful
<1>4. CASE c.page \in {"details", "list"} /\ DE!AfterToggle(c, FALSE) /\ UNCHANGED done
  <2>1. Kept(cluster)'
    BY <1>2, <1>4 DEF Kept
  <2>2. IF FALSE THEN c.aim = "detector" /\ done' = Saved(c) ELSE UNCHANGED done
    BY <1>4
  <2>3. c.page \notin DE!EditPages
    BY <1>4 DEF DE!EditPages
  <2> QED
    BY <1>1, <1>4, <2>1, <2>2, <2>3, AfterToggleCareful
<1>5. CASE /\ c.page \in {"editDetails", "editRules"}
           /\ DE!SetForm(c, copy, shown, loading, submitting /\ page # "editRules")
           /\ DE!Continue(c, {})
           /\ UNCHANGED done
  <2>1. UNCHANGED <<copy, shown, loading>>
    BY <1>1, <1>5 DEF DE!SetForm
  <2>2. UNCHANGED page /\ calls' = calls \ {c}
    BY <1>1, <1>5, AnsweredOut
  <2>3. \A d \in calls' : d.live /\ d.step \notin Content
    BY <1>1, <2>2 DEF Careful, InTurn, Content
  <2>4. InTurn'
    BY <1>1, <1>5, <2>2, <2>3 DEF InTurn
  <2>5. ReadsKept' /\ WritesKept'
    BY <1>1, <1>5, <2>2, <2>3 DEF Careful, ReadsKept, WritesKept, Kept, DE!Empty
  <2>6. Kept(cluster)' /\ CopyKept'
    BY <1>1, <1>2, <1>5, <2>1, <2>2 DEF Careful, CopyKept, Kept, Unloaded
  <2> QED
    BY <2>4, <2>5, <2>6 DEF Careful
<1> QED
    BY <1>3, <1>4, <1>5 DEF DE!UpdateLost

LEMMA ReloadedCareful ==
    ASSUME Editing, Careful, NEW c \in calls, DE!Reloaded(c)
    PROVE  Careful'
<1>1. /\ UNCHANGED <<cluster, exists, edits, done>> /\ DE!Continue(c, {})
      /\ c.step = "reload" /\ c.live /\ page = "list"
    BY EditingTypes DEF DE!Reloaded, DE!history, Careful, InTurn, Fits
<1>2. PICK now \in DE!Found(c) \cup {shown, NoCopy} :
            DE!SetForm(c, IF copy = NoCopy THEN NoCopy ELSE now, now, FALSE, submitting)
    BY DEF DE!Reloaded
<1>3. copy' \in {NoCopy, now} /\ shown' = now /\ UNCHANGED submitting
    BY <1>1, <1>2 DEF DE!SetForm
<1>4. now # NoCopy => KeptButEnabled(now)
    BY <1>1, FoundKept DEF Careful, CopyKept
<1>5. UNCHANGED <<page, hit>> /\ calls' = calls \ {c}
    BY <1>1, AnsweredOut
<1>6. InTurn' /\ Kept(cluster)' /\ ReadsKept' /\ WritesKept'
    BY <1>1, <1>3, <1>5, FewerCareful
<1>7. CopyKept'
    BY <1>1, <1>3, <1>4, <1>5 DEF CopyKept, KeptButEnabled, DE!EditPages
<1> QED
    BY <1>6, <1>7 DEF Careful

LEMMA DeletedCareful ==
    ASSUME Editing, Careful, NEW c \in calls, DE!Deleted(c)
    PROVE  Careful'
<1> USE EditingTypes
<1>1. UNCHANGED <<cluster, edits, done>> /\ c.live /\ page = "list"
    BY DEF DE!Deleted, DE!history, Careful, InTurn, Fits
<1>2. UNCHANGED <<page, copy, shown>>
    BY <1>1 DEF DE!Deleted, DE!SetForm, DE!Continue, DE!location
<1>3. calls' = (calls \ {c}) \cup {DE!Search("list", "load")}
    BY <1>1 DEF DE!Deleted, DE!Continue
<1>4. Kept(cluster)'
    BY <1>1 DEF Careful, Kept
<1> QED
    BY <1>1, <1>2, <1>3, <1>4, SearchedCareful

LEMMA CarefullyStep == Editing /\ Carefully /\ DE!Next => Carefully'
<1> SUFFICES ASSUME Editing, Careful, DE!Next, done # NoCopy, done' # NoCopy PROVE Careful'
    BY CareIsLost DEF Carefully
<1> QED
    BY MovesCareful, EditCareful, RemapCareful, SaveCareful, SelectCareful, RefreshCareful,
       ToggleCareful, DeleteCareful, LoadedCareful, LoadedLateCareful, LoadFailsCareful,
       GotRulesCareful, MappingsStoredCareful, MappingsRefusedCareful, MappingsLostCareful,
       UpdatedCareful, UpdateRefusedCareful, UpdateLostCareful, ReloadedCareful, DeletedCareful
    DEF DE!Next, DE!Answer

LEMMA CarefullyKeeps == Carefully => DE!UndoesNothing
BY DEF Carefully, Careful, Kept, DE!UndoesNothing


-----------------------------------------------------------------------------
(* The pages together *)

\* Each part has its invariant while it is the one that is followed.
IInv ==
    /\ part = "editing" => Editing /\ Carefully
    /\ part = "findings" => Listing
    /\ part = "correlations" => Correlating

LEMMA IInvInit == Init => IInv
BY EditingInit, CarefullyInit, ListingInit, CorrelatingInit DEF Init, IInv

LEMMA EditingStays ==
    ASSUME UNCHANGED vars PROVE (Editing => Editing') /\ (Carefully => Carefully')
<1>1. UNCHANGED <<cluster, exists, page, hit, aim, copy, shown, submitting, remapped, edits, done,
                  loading, calls>>
    BY DEF vars, ofEditing
<1>2. Made' = Made /\ MadeCalls' = MadeCalls
    BY <1>1 DEF Made, MadeCalls
<1>3. Editing => Editing'
    BY <1>1, <1>2 DEF Editing, FormTyped, CallsTyped, Fits
<1>4. Carefully => Carefully'
    BY <1>1 DEF Carefully, Careful, InTurn, Kept, KeptButEnabled, ReadsKept, WritesKept, CopyKept,
                Unloaded, DE!Empty
<1> QED
    BY <1>3, <1>4

LEMMA ListingStays ==
    ASSUME UNCHANGED vars PROVE (Listing => Listing') /\ ~FP!AskedAborted
<1>1. UNCHANGED <<mounted, selectedTabId, findings, rules, at, tab, left, asked, aborted, requests,
                  streaming, many, loading>>
    BY DEF vars, ofFindings
<1> QED
    BY <1>1 DEF Listing, FP!TypeOK, AbortedAreControlled, FP!Controlled, FP!RulesBeforeFindings,
                FP!AskedAborted

LEMMA CorrelatingStays == ASSUME UNCHANGED vars PROVE Correlating => Correlating'
<1>1. UNCHANGED <<view, graph, info, loadingGraphData, loadingTableData, connected, rows, orderly,
                  hidden, calls>>
    BY DEF vars, ofCorrelations
<1> QED
    BY <1>1 DEF Correlating, CO!TypeOK, CO!GraphOfFinding, CallsFit, Unopened, Underway

LEMMA IInvStep ==
    IInv /\ [Next]_vars => IInv' /\ (part = "findings" => ~FP!AskedAborted)
<1> SUFFICES ASSUME IInv, [Next]_vars
             PROVE  IInv' /\ (part = "findings" => ~FP!AskedAborted)
    OBVIOUS
<1>1. CASE InEditing(DE!Next)
    BY <1>1, EditingStep, CarefullyStep DEF InEditing, IInv
<1>2. CASE InFindings(FP!Next)
    BY <1>2, ListingStep DEF InFindings, IInv
<1>3. CASE InCorrelations(CO!Next)
    BY <1>3, CorrelatingStep DEF InCorrelations, IInv
<1>4. CASE InRequests(RQ!Next)
    BY <1>4 DEF InRequests, IInv
<1>5. CASE UNCHANGED vars
  <2>1. UNCHANGED part
    BY <1>5 DEF vars
  <2> QED
    BY <1>5, <2>1, EditingStays, ListingStays, CorrelatingStays DEF IInv
<1> QED
    BY <1>1, <1>2, <1>3, <1>4, <1>5 DEF Next

LEMMA AlwaysIInv == Spec => []IInv
BY IInvInit, IInvStep, PTL DEF Spec

\* However many edits, calls and searches there are: nothing that was saved with success is undone
\* by the pages that write the whole detector, as long as the user waits for each write before
\* the next one and before leaving its page, and what is saved was loaded.
THEOREM SavesStay == Spec => []UndoesNothing
<1>1. IInv => UndoesNothing
    BY CarefullyKeeps DEF IInv, UndoesNothing
<1> QED
    BY <1>1, AlwaysIInv, PTL

\* The page of findings searches for the rules that a finding names before it lists the finding,
\* with loads that overlap, fail in any of their calls and leave their calls behind.
THEOREM RulesFirst == Spec => []RulesBeforeFindings
<1>1. IInv => RulesBeforeFindings
    BY DEF IInv, Listing, RulesBeforeFindings
<1> QED
    BY <1>1, AlwaysIInv, PTL

\* A load of that page that was aborted asks for nothing more, in whichever of its calls it was.
THEOREM AbortedStop == Spec => AbortStops
<1>1. IInv /\ [Next]_vars => [part = "findings" => ~FP!AskedAborted]_vars
    BY IInvStep
<1> QED
    BY <1>1, AlwaysIInv, PTL DEF Spec, AbortStops

\* The graph of correlations is that of the finding in the flyout, and a page of correlations that
\* waits for nothing shows the present view, if no load of a view overlapped another.
THEOREM CorrelationsStayCurrent == Spec => []CorrelationsCurrent
<1>1. IInv => CorrelationsCurrent
    BY CorrelatingSettles DEF IInv, CorrelationsCurrent
<1> QED
    BY <1>1, AlwaysIInv, PTL

-----------------------------------------------------------------------------
(* The tables of the layers that a request goes through, of which no two in a layer are about one
   operation *)

\* No other table is about an operation of t; and so for each of the tables.
Alone(t, tables) == \A u \in tables : \A op \in DOMAIN u \cap DOMAIN t : u = t
Apart(tables) == \A t \in tables : Alone(t, tables)

\* What tables say of an operation, they say joined.
LEMMA JoinedIs ==
    ASSUME NEW tables, Apart(tables), NEW t \in tables, NEW op \in DOMAIN t
    PROVE  op \in DOMAIN RQ!Joined(tables) /\ RQ!Joined(tables)[op] = t[op]
<1>1. op \in UNION {DOMAIN u : u \in tables}
    OBVIOUS
<1>2. (CHOOSE u \in tables : op \in DOMAIN u) = t
    BY DEF Apart, Alone
<1> QED
    BY <1>1, <1>2 DEF RQ!Joined

SentTables ==
    {RQ!SentForAlerts, RQ!SentForCorrelations, RQ!SentForDetectors, RQ!SentForMappings,
     RQ!SentForFindings, RQ!SentForIndexes, RQ!SentForLogTypes, RQ!SentForChannels,
     RQ!SentForDocuments, RQ!SentForRules, RQ!SentForSources, RQ!SentForMonitors}

LEMMA SentDomains ==
    /\ DOMAIN RQ!SentForAlerts = {"getAlerts", "acknowledgeAlerts", "getThreatIntelAlerts",
          "updateThreatIntelAlertsState"}
    /\ DOMAIN RQ!SentForCorrelations = {"acknowledgeCorrelationAlerts",
          "getAllCorrelationAlerts", "getCorrelatedFindings", "getCorrelationRules",
          "createCorrelationRule", "updateCorrelationRule", "deleteCorrelationRule",
          "getAllCorrelationsInTimeRange"}
    /\ DOMAIN RQ!SentForDetectors = {"createDetector", "searchDetectors", "getDetector",
          "updateDetector", "deleteDetector"}
    /\ DOMAIN RQ!SentForMappings = {"getMappingsView", "createMappings", "getMappings",
          "getIndexAliasFields"}
    /\ DOMAIN RQ!SentForFindings = {"getFindings", "getThreatIntelFindings"}
    /\ DOMAIN RQ!SentForIndexes = {"getIndexFields", "getIndices", "getAliases", "updateAliases"}
    /\ DOMAIN RQ!SentForLogTypes = {"createLogType", "searchLogTypes", "updateLogType",
          "deleteLogType"}
    /\ DOMAIN RQ!SentForChannels = {"getChannel", "getChannels", "getNotificationsFeatures"}
    /\ DOMAIN RQ!SentForDocuments = {"getPlugins", "documentIdsQuery"}
    /\ DOMAIN RQ!SentForRules = {"getRules", "createRule", "updateRule", "deleteRule"}
    /\ DOMAIN RQ!SentForSources = {"addThreatIntelSource", "updateThreatIntelSource",
          "searchThreatIntelSources", "getThreatIntelSource", "deleteThreatIntelSource",
          "refreshThreatIntelSource"}
    /\ DOMAIN RQ!SentForMonitors = {"createThreatIntelMonitor", "updateThreatIntelMonitor",
          "deleteThreatIntelMonitor", "searchThreatIntelMonitors", "getThreatIntelIocs"}
BY DEF RQ!SentForAlerts, RQ!SentForCorrelations, RQ!SentForDetectors, RQ!SentForMappings,
       RQ!SentForFindings, RQ!SentForIndexes, RQ!SentForLogTypes, RQ!SentForChannels,
       RQ!SentForDocuments, RQ!SentForRules, RQ!SentForSources, RQ!SentForMonitors

LEMMA SentApart == Apart(SentTables)
<1>1. Alone(RQ!SentForAlerts, SentTables)
    BY SentDomains DEF Alone, SentTables
<1>2. Alone(RQ!SentForCorrelations, SentTables)
    BY SentDomains DEF Alone, SentTables
<1>3. Alone(RQ!SentForDetectors, SentTables)
    BY SentDomains DEF Alone, SentTables
<1>4. Alone(RQ!SentForMappings, SentTables)
    BY SentDomains DEF Alone, SentTables
<1>5. Alone(RQ!SentForFindings, SentTables)
    BY SentDomains DEF Alone, SentTables
<1>6. Alone(RQ!SentForIndexes, SentTables)
    BY SentDomains DEF Alone, SentTables
<1>7. Alone(RQ!SentForLogTypes, SentTables)
    BY SentDomains DEF Alone, SentTables
<1>8. Alone(RQ!SentForChannels, SentTables)
    BY SentDomains DEF Alone, SentTables
<1>9. Alone(RQ!SentForDocuments, SentTables)
    BY SentDomains DEF Alone, SentTables
<1>10. Alone(RQ!SentForRules, SentTables)
    BY SentDomains DEF Alone, SentTables
<1>11. Alone(RQ!SentForSources, SentTables)
    BY SentDomains DEF Alone, SentTables
<1>12. Alone(RQ!SentForMonitors, SentTables)
    BY SentDomains DEF Alone, SentTables
<1> QED
    BY <1>1, <1>2, <1>3, <1>4, <1>5, <1>6, <1>7, <1>8, <1>9, <1>10, <1>11, <1>12
    DEF Apart, SentTables

LEMMA SentAt ==
    \A t \in SentTables : \A op \in DOMAIN t :
        op \in DOMAIN RQ!Sent /\ RQ!Sent[op] = t[op]
BY SentApart, JoinedIs DEF RQ!Sent, SentTables

RouteTables ==
    {RQ!AlertRoutes, RQ!CorrelationRoutes, RQ!DetectorRoutes, RQ!FieldMappingRoutes,
     RQ!FindingsRoutes, RQ!IndexRoutes, RQ!LogTypeRoutes, RQ!NotificationsRoutes,
     RQ!OpensearchRoutes, RQ!RulesRoutes, RQ!ThreatIntelRoutes}

LEMMA RouteDomains ==
    /\ DOMAIN RQ!AlertRoutes = {"getAlerts", "acknowledgeAlerts", "getThreatIntelAlerts",
          "updateThreatIntelAlertsState"}
    /\ DOMAIN RQ!CorrelationRoutes = {"getCorrelationRules", "createCorrelationRule",
          "updateCorrelationRule", "getCorrelatedFindings", "getAllCorrelationsInTimeRange",
          "deleteCorrelationRule", "getAllCorrelationAlerts", "acknowledgeCorrelationAlerts"}
    /\ DOMAIN RQ!DetectorRoutes = {"createDetector", "getDetector", "searchDetectors",
          "updateDetector", "deleteDetector"}
    /\ DOMAIN RQ!FieldMappingRoutes = {"getMappingsView", "getMappings", "createMappings",
          "getIndexAliasFields"}
    /\ DOMAIN RQ!FindingsRoutes = {"getFindings", "getThreatIntelFindings"}
    /\ DOMAIN RQ!IndexRoutes = {"getIndices", "getAliases", "getIndexFields", "updateAliases"}
    /\ DOMAIN RQ!LogTypeRoutes = {"createLogType", "searchLogTypes", "updateLogType",
          "deleteLogType"}
    /\ DOMAIN RQ!NotificationsRoutes = {"getChannel", "getChannels", "getNotificationsFeatures"}
    /\ DOMAIN RQ!OpensearchRoutes = {"documentIdsQuery", "getPlugins"}
    /\ DOMAIN RQ!RulesRoutes = {"getRules", "createRule", "deleteRule", "updateRule"}
    /\ DOMAIN RQ!ThreatIntelRoutes = {"addThreatIntelSource", "updateThreatIntelSource",
          "searchThreatIntelSources", "getThreatIntelSource", "createThreatIntelMonitor",
          "updateThreatIntelMonitor", "searchThreatIntelMonitors", "getThreatIntelIocs",
          "deleteThreatIntelSource", "refreshThreatIntelSource", "deleteThreatIntelMonitor"}
BY DEF RQ!AlertRoutes, RQ!CorrelationRoutes, RQ!DetectorRoutes, RQ!FieldMappingRoutes,
       RQ!FindingsRoutes, RQ!IndexRoutes, RQ!LogTypeRoutes, RQ!NotificationsRoutes,
       RQ!OpensearchRoutes, RQ!RulesRoutes, RQ!ThreatIntelRoutes

LEMMA RouteApart == Apart(RouteTables)
<1>1. Alone(RQ!AlertRoutes, RouteTables)
    BY RouteDomains DEF Alone, RouteTables
<1>2. Alone(RQ!CorrelationRoutes, RouteTables)
    BY RouteDomains DEF Alone, RouteTables
<1>3. Alone(RQ!DetectorRoutes, RouteTables)
    BY RouteDomains DEF Alone, RouteTables
<1>4. Alone(RQ!FieldMappingRoutes, RouteTables)
    BY RouteDomains DEF Alone, RouteTables
<1>5. Alone(RQ!FindingsRoutes, RouteTables)
    BY RouteDomains DEF Alone, RouteTables
<1>6. Alone(RQ!IndexRoutes, RouteTables)
    BY RouteDomains DEF Alone, RouteTables
<1>7. Alone(RQ!LogTypeRoutes, RouteTables)
    BY RouteDomains DEF Alone, RouteTables
<1>8. Alone(RQ!NotificationsRoutes, RouteTables)
    BY RouteDomains DEF Alone, RouteTables
<1>9. Alone(RQ!OpensearchRoutes, RouteTables)
    BY RouteDomains DEF Alone, RouteTables
<1>10. Alone(RQ!RulesRoutes, RouteTables)
    BY RouteDomains DEF Alone, RouteTables
<1>11. Alone(RQ!ThreatIntelRoutes, RouteTables)
    BY RouteDomains DEF Alone, RouteTables
<1> QED
    BY <1>1, <1>2, <1>3, <1>4, <1>5, <1>6, <1>7, <1>8, <1>9, <1>10, <1>11
    DEF Apart, RouteTables

LEMMA RouteAt ==
    \A t \in RouteTables : \A op \in DOMAIN t :
        op \in DOMAIN RQ!Routes /\ RQ!Routes[op] = t[op]
BY RouteApart, JoinedIs DEF RQ!Routes, RouteTables

HandlerTables ==
    {RQ!AlertService, RQ!ThreatIntelAlertService, RQ!CorrelationRuleService,
     RQ!CorrelationService, RQ!DetectorService, RQ!UpdateDetectorService, RQ!FieldMappingService,
     RQ!IndexFieldsService, RQ!FindingsService, RQ!IndexService, RQ!LogTypeService,
     RQ!NotificationsService, RQ!OpenSearchService, RQ!RulesService, RQ!UpdateRuleService,
     RQ!ThreatIntelService, RQ!ThreatIntelUpkeep, RQ!ThreatIntelMonitors}

LEMMA HandlerDomains ==
    /\ DOMAIN RQ!AlertService = {"getAlerts", "acknowledgeAlerts"}
    /\ DOMAIN RQ!ThreatIntelAlertService = {"getThreatIntelAlerts",
          "updateThreatIntelAlertsState"}
    /\ DOMAIN RQ!CorrelationRuleService = {"acknowledgeCorrelationAlerts",
          "getAllCorrelationAlerts", "createCorrelationRule", "updateCorrelationRule"}
    /\ DOMAIN RQ!CorrelationService = {"getCorrelationRules", "deleteCorrelationRule",
          "getCorrelatedFindings", "getAllCorrelationsInTimeRange"}
    /\ DOMAIN RQ!DetectorService = {"createDetector", "getDetector", "searchDetectors",
          "deleteDetector"}
    /\ DOMAIN RQ!UpdateDetectorService = {"updateDetector"}
    /\ DOMAIN RQ!FieldMappingService = {"getMappingsView", "createMappings", "getMappings"}
    /\ DOMAIN RQ!IndexFieldsService = {"getIndexAliasFields"}
    /\ DOMAIN RQ!FindingsService = {"getFindings", "getThreatIntelFindings"}
    /\ DOMAIN RQ!IndexService = {"getIndexFields", "getIndices", "getAliases", "updateAliases"}
    /\ DOMAIN RQ!LogTypeService = {"createLogType", "searchLogTypes", "updateLogType",
          "deleteLogType"}
    /\ DOMAIN RQ!NotificationsService = {"getChannel", "getChannels", "getNotificationsFeatures"}
    /\ DOMAIN RQ!OpenSearchService = {"documentIdsQuery", "getPlugins"}
    /\ DOMAIN RQ!RulesService = {"createRule", "getRules", "deleteRule"}
    /\ DOMAIN RQ!UpdateRuleService = {"updateRule"}
    /\ DOMAIN RQ!ThreatIntelService = {"addThreatIntelSource", "updateThreatIntelSource",
          "getThreatIntelSource", "searchThreatIntelSources"}
    /\ DOMAIN RQ!ThreatIntelUpkeep = {"deleteThreatIntelSource", "refreshThreatIntelSource",
          "getThreatIntelIocs"}
    /\ DOMAIN RQ!ThreatIntelMonitors = {"createThreatIntelMonitor", "updateThreatIntelMonitor",
          "searchThreatIntelMonitors", "deleteThreatIntelMonitor"}
BY DEF RQ!AlertService, RQ!ThreatIntelAlertService, RQ!CorrelationRuleService,
       RQ!CorrelationService, RQ!DetectorService, RQ!UpdateDetectorService,
       RQ!FieldMappingService, RQ!IndexFieldsService, RQ!FindingsService, RQ!IndexService,
       RQ!LogTypeService, RQ!NotificationsService, RQ!OpenSearchService, RQ!RulesService,
       RQ!UpdateRuleService, RQ!ThreatIntelService, RQ!ThreatIntelUpkeep, RQ!ThreatIntelMonitors

LEMMA HandlerApart == Apart(HandlerTables)
<1>1. Alone(RQ!AlertService, HandlerTables)
    BY HandlerDomains DEF Alone, HandlerTables
<1>2. Alone(RQ!ThreatIntelAlertService, HandlerTables)
    BY HandlerDomains DEF Alone, HandlerTables
<1>3. Alone(RQ!CorrelationRuleService, HandlerTables)
    BY HandlerDomains DEF Alone, HandlerTables
<1>4. Alone(RQ!CorrelationService, HandlerTables)
    BY HandlerDomains DEF Alone, HandlerTables
<1>5. Alone(RQ!DetectorService, HandlerTables)
    BY HandlerDomains DEF Alone, HandlerTables
<1>6. Alone(RQ!UpdateDetectorService, HandlerTables)
    BY HandlerDomains DEF Alone, HandlerTables
<1>7. Alone(RQ!FieldMappingService, HandlerTables)
    BY HandlerDomains DEF Alone, HandlerTables
<1>8. Alone(RQ!IndexFieldsService, HandlerTables)
    BY HandlerDomains DEF Alone, HandlerTables
<1>9. Alone(RQ!FindingsService, HandlerTables)
    BY HandlerDomains DEF Alone, HandlerTables
<1>10. Alone(RQ!IndexService, HandlerTables)
    BY HandlerDomains DEF Alone, HandlerTables
<1>11. Alone(RQ!LogTypeService, HandlerTables)
    BY HandlerDomains DEF Alone, HandlerTables
<1>12. Alone(RQ!NotificationsService, HandlerTables)
    BY HandlerDomains DEF Alone, HandlerTables
<1>13. Alone(RQ!OpenSearchService, HandlerTables)
    BY HandlerDomains DEF Alone, HandlerTables
<1>14. Alone(RQ!RulesService, HandlerTables)
    BY HandlerDomains DEF Alone, HandlerTables
<1>15. Alone(RQ!UpdateRuleService, HandlerTables)
    BY HandlerDomains DEF Alone, HandlerTables
<1>16. Alone(RQ!ThreatIntelService, HandlerTables)
    BY HandlerDomains DEF Alone, HandlerTables
<1>17. Alone(RQ!ThreatIntelUpkeep, HandlerTables)
    BY HandlerDomains DEF Alone, HandlerTables
<1>18. Alone(RQ!ThreatIntelMonitors, HandlerTables)
    BY HandlerDomains DEF Alone, HandlerTables
<1> QED
    BY <1>1, <1>2, <1>3, <1>4, <1>5, <1>6, <1>7, <1>8, <1>9, <1>10, <1>11, <1>12, <1>13, <1>14,
       <1>15, <1>16, <1>17, <1>18
    DEF Apart, HandlerTables

LEMMA HandlerAt ==
    \A t \in HandlerTables : \A op \in DOMAIN t :
        op \in DOMAIN RQ!Handlers /\ RQ!Handlers[op] = t[op]
BY HandlerApart, JoinedIs DEF RQ!Handlers, HandlerTables

MethodTables ==
    {RQ!addAlertsMethods, RQ!addCorrelationMethods, RQ!addDetectorMethods,
     RQ!addFieldMappingMethods, RQ!addFindingsMethods, RQ!addLogTypeMethods,
     RQ!addNotificationsMethods, RQ!addRulesMethods, RQ!addThreatIntelMethods, RQ!ClientMethods}

LEMMA MethodDomains ==
    /\ DOMAIN RQ!addAlertsMethods = {"getAlerts", "acknowledgeAlerts", "getThreatIntelAlerts",
          "updateThreatIntelAlertsState"}
    /\ DOMAIN RQ!addCorrelationMethods = {"getCorrelationRules", "createCorrelationRule",
          "updateCorrelationRule", "deleteCorrelationRule", "getCorrelatedFindings",
          "getAllCorrelationsInTimeRange", "getAllCorrelationAlerts",
          "acknowledgeCorrelationAlerts"}
    /\ DOMAIN RQ!addDetectorMethods = {"createDetector", "getDetector", "searchDetectors",
          "updateDetector", "deleteDetector"}
    /\ DOMAIN RQ!addFieldMappingMethods = {"getMappingsView", "createMappings", "getMappings",
          "getIndexAliasFields"}
    /\ DOMAIN RQ!addFindingsMethods = {"getFindings", "getThreatIntelFindings"}
    /\ DOMAIN RQ!addLogTypeMethods = {"searchLogTypes", "createLogType", "updateLogType",
          "deleteLogType"}
    /\ DOMAIN RQ!addNotificationsMethods = {"getChannel", "getChannels",
          "getNotificationsFeatures"}
    /\ DOMAIN RQ!addRulesMethods = {"createRule", "getRules", "deleteRule", "updateRule"}
    /\ DOMAIN RQ!addThreatIntelMethods = {"addThreatIntelSource", "updateThreatIntelSource",
          "searchThreatIntelSources", "getThreatIntelSource", "createThreatIntelMonitor",
          "updateThreatIntelMonitor", "searchThreatIntelMonitors", "getThreatIntelIocs",
          "deleteThreatIntelSource", "refreshThreatIntelSource", "deleteThreatIntelMonitor"}
    /\ DOMAIN RQ!ClientMethods = {"getIndexFields", "getIndices", "getAliases", "updateAliases",
          "documentIdsQuery", "getPlugins"}
BY DEF RQ!addAlertsMethods, RQ!addCorrelationMethods, RQ!addDetectorMethods,
       RQ!addFieldMappingMethods, RQ!addFindingsMethods, RQ!addLogTypeMethods,
       RQ!addNotificationsMethods, RQ!addRulesMethods, RQ!addThreatIntelMethods, RQ!ClientMethods

LEMMA MethodApart == Apart(MethodTables)
<1>1. Alone(RQ!addAlertsMethods, MethodTables)
    BY MethodDomains DEF Alone, MethodTables
<1>2. Alone(RQ!addCorrelationMethods, MethodTables)
    BY MethodDomains DEF Alone, MethodTables
<1>3. Alone(RQ!addDetectorMethods, MethodTables)
    BY MethodDomains DEF Alone, MethodTables
<1>4. Alone(RQ!addFieldMappingMethods, MethodTables)
    BY MethodDomains DEF Alone, MethodTables
<1>5. Alone(RQ!addFindingsMethods, MethodTables)
    BY MethodDomains DEF Alone, MethodTables
<1>6. Alone(RQ!addLogTypeMethods, MethodTables)
    BY MethodDomains DEF Alone, MethodTables
<1>7. Alone(RQ!addNotificationsMethods, MethodTables)
    BY MethodDomains DEF Alone, MethodTables
<1>8. Alone(RQ!addRulesMethods, MethodTables)
    BY MethodDomains DEF Alone, MethodTables
<1>9. Alone(RQ!addThreatIntelMethods, MethodTables)
    BY MethodDomains DEF Alone, MethodTables
<1>10. Alone(RQ!ClientMethods, MethodTables)
    BY MethodDomains DEF Alone, MethodTables
<1> QED
    BY <1>1, <1>2, <1>3, <1>4, <1>5, <1>6, <1>7, <1>8, <1>9, <1>10
    DEF Apart, MethodTables

LEMMA MethodAt ==
    \A t \in MethodTables : \A op \in DOMAIN t :
        op \in DOMAIN RQ!Methods /\ RQ!Methods[op] = t[op]
BY MethodApart, JoinedIs DEF RQ!Methods, MethodTables

-----------------------------------------------------------------------------
(* What the layers agree on *)

\* The service s, the route r, the handler h and the method m of an operation: the route knows
\* what the service sends and asks for nothing else, the handler hands on all of it but what it
\* drops, and the method gets what it cannot do without.
Agree(op, s, r, h, m) ==
    /\ s.path = r.path /\ s.path \cap (s.query \cup s.optional) = {}
    /\ IF r.query THEN /\ r.required \subseteq s.query
                       /\ s.query \cup s.optional \subseteq r.required \cup r.optional
                  ELSE s.query \cup s.optional = {} /\ op = "getIndexAliasFields"
    /\ (s.path \cup s.query \cup s.optional) \ RQ!Dropped(op) \subseteq h.names \cup h.fromBody
    /\ h.fromBody \subseteq {"index", "category"}
    /\ m.names \subseteq RQ!Renamed((s.path \cup s.query) \cap h.names)
                         \cup (IF s.body /\ r.body THEN h.fromBody ELSE {})
    /\ m.body => h.body /\ r.body /\ s.body
    /\ op = "getAlerts" => {"detector_id", "detectorType"} \subseteq h.names
    /\ s.body \in BOOLEAN /\ r.body \in BOOLEAN /\ h.body \in BOOLEAN

\* The tables of the layers agree on an operation.
Agreed(op) == Agree(op, RQ!Sent[op], RQ!Routes[op], RQ!Handlers[op], RQ!Methods[op])

\* So do four tables, one of each layer.
InTables(op, s, r, h, m) ==
    /\ op \in DOMAIN s \cap DOMAIN r \cap DOMAIN h \cap DOMAIN m
    /\ Agree(op, s[op], r[op], h[op], m[op])

LEMMA Looks ==
    \A s \in SentTables, r \in RouteTables, h \in HandlerTables, m \in MethodTables :
        \A op : InTables(op, s, r, h, m) => Agreed(op)
BY SentAt, RouteAt, HandlerAt, MethodAt DEF InTables, Agreed

\* The handlers that hand on the whole query hand on what their routes let through.
LEMMA WholeQueries ==
    \A op \in {"getFindings", "getThreatIntelFindings", "getThreatIntelIocs"} :
        RQ!WholeQuery(op) = IF op = "getThreatIntelIocs"
                            THEN RQ!ThreatIntelRoutes[op].optional
                            ELSE RQ!FindingsRoutes[op].optional
<1>1. /\ RQ!Routes["getFindings"] = RQ!FindingsRoutes["getFindings"]
      /\ RQ!Routes["getThreatIntelFindings"] = RQ!FindingsRoutes["getThreatIntelFindings"]
      /\ RQ!Routes["getThreatIntelIocs"] = RQ!ThreatIntelRoutes["getThreatIntelIocs"]
    BY RouteAt, RouteDomains DEF RouteTables
<1>2. /\ RQ!FindingsRoutes["getFindings"].required = {}
      /\ RQ!FindingsRoutes["getThreatIntelFindings"].required = {}
      /\ RQ!ThreatIntelRoutes["getThreatIntelIocs"].required = {}
    BY DEF RQ!FindingsRoutes, RQ!ThreatIntelRoutes, RQ!Schema
<1> QED
    BY <1>1, <1>2 DEF RQ!WholeQuery

\* Each service of the server, with the operations that it handles.
USE DEF Agree, InTables, RQ!Dropped, RQ!Renamed, RQ!Sends, RQ!Schema, RQ!NoSchema, RQ!Passes,
        RQ!Nothing, RQ!TheBody, RQ!Needs, RQ!Free, RQ!ABody, RQ!Paging, RQ!Span

LEMMA AlertServiceAgrees ==
    \A op \in {"getAlerts", "acknowledgeAlerts"} : Agreed(op)
<1> DEFINE Fit(op) == InTables(op, RQ!SentForAlerts, RQ!AlertRoutes, RQ!AlertService,
                                   RQ!addAlertsMethods)
<1>1. Fit("getAlerts") /\ Fit("acknowledgeAlerts")
    BY DEF RQ!SentForAlerts, RQ!AlertRoutes, RQ!AlertService, RQ!addAlertsMethods
<1>2. /\ RQ!SentForAlerts \in SentTables /\ RQ!AlertRoutes \in RouteTables
      /\ RQ!AlertService \in HandlerTables /\ RQ!addAlertsMethods \in MethodTables
    BY DEF SentTables, RouteTables, HandlerTables, MethodTables
<1> HIDE DEF InTables, Agree
<1> QED
    BY <1>1, <1>2, Looks

LEMMA ThreatIntelAlertServiceAgrees ==
    \A op \in {"getThreatIntelAlerts", "updateThreatIntelAlertsState"} : Agreed(op)
<1> DEFINE Fit(op) == InTables(op, RQ!SentForAlerts, RQ!AlertRoutes, RQ!ThreatIntelAlertService,
                                   RQ!addAlertsMethods)
<1>1. Fit("getThreatIntelAlerts") /\ Fit("updateThreatIntelAlertsState")
    BY DEF RQ!SentForAlerts, RQ!AlertRoutes, RQ!ThreatIntelAlertService, RQ!addAlertsMethods
<1>2. /\ RQ!SentForAlerts \in SentTables /\ RQ!AlertRoutes \in RouteTables
      /\ RQ!ThreatIntelAlertService \in HandlerTables /\ RQ!addAlertsMethods \in MethodTables
    BY DEF SentTables, RouteTables, HandlerTables, MethodTables
<1> HIDE DEF InTables, Agree
<1> QED
    BY <1>1, <1>2, Looks

LEMMA CorrelationRuleServiceAgrees ==
    \A op \in {"acknowledgeCorrelationAlerts", "getAllCorrelationAlerts",
                "createCorrelationRule", "updateCorrelationRule"} : Agreed(op)
<1> DEFINE Fit(op) == InTables(op, RQ!SentForCorrelations, RQ!CorrelationRoutes,
                                   RQ!CorrelationRuleService, RQ!addCorrelationMethods)
<1>1. Fit("acknowledgeCorrelationAlerts") /\ Fit("getAllCorrelationAlerts") /\
      Fit("createCorrelationRule") /\ Fit("updateCorrelationRule")
    BY DEF RQ!SentForCorrelations, RQ!CorrelationRoutes, RQ!CorrelationRuleService,
           RQ!addCorrelationMethods
<1>2. /\ RQ!SentForCorrelations \in SentTables /\ RQ!CorrelationRoutes \in RouteTables
      /\ RQ!CorrelationRuleService \in HandlerTables /\ RQ!addCorrelationMethods \in MethodTables
    BY DEF SentTables, RouteTables, HandlerTables, MethodTables
<1> HIDE DEF InTables, Agree
<1> QED
    BY <1>1, <1>2, Looks

LEMMA CorrelationServiceAgrees ==
    \A op \in {"getCorrelationRules", "deleteCorrelationRule", "getCorrelatedFindings",
                "getAllCorrelationsInTimeRange"} : Agreed(op)
<1> DEFINE Fit(op) == InTables(op, RQ!SentForCorrelations, RQ!CorrelationRoutes,
                                   RQ!CorrelationService, RQ!addCorrelationMethods)
<1>1. Fit("getCorrelationRules") /\ Fit("deleteCorrelationRule") /\
      Fit("getCorrelatedFindings") /\ Fit("getAllCorrelationsInTimeRange")
    BY DEF RQ!SentForCorrelations, RQ!CorrelationRoutes, RQ!CorrelationService,
           RQ!addCorrelationMethods
<1>2. /\ RQ!SentForCorrelations \in SentTables /\ RQ!CorrelationRoutes \in RouteTables
      /\ RQ!CorrelationService \in HandlerTables /\ RQ!addCorrelationMethods \in MethodTables
    BY DEF SentTables, RouteTables, HandlerTables, MethodTables
<1> HIDE DEF InTables, Agree
<1> QED
    BY <1>1, <1>2, Looks

LEMMA DetectorServiceAgrees ==
    \A op \in {"createDetector", "getDetector", "searchDetectors", "deleteDetector"} : Agreed(op)
<1> DEFINE Fit(op) == InTables(op, RQ!SentForDetectors, RQ!DetectorRoutes, RQ!DetectorService,
                                   RQ!addDetectorMethods)
<1>1. Fit("createDetector") /\ Fit("getDetector") /\ Fit("searchDetectors") /\
      Fit("deleteDetector")
    BY DEF RQ!SentForDetectors, RQ!DetectorRoutes, RQ!DetectorService, RQ!addDetectorMethods
<1>2. /\ RQ!SentForDetectors \in SentTables /\ RQ!DetectorRoutes \in RouteTables
      /\ RQ!DetectorService \in HandlerTables /\ RQ!addDetectorMethods \in MethodTables
    BY DEF SentTables, RouteTables, HandlerTables, MethodTables
<1> HIDE DEF InTables, Agree
<1> QED
    BY <1>1, <1>2, Looks

LEMMA UpdateDetectorServiceAgrees ==
    \A op \in {"updateDetector"} : Agreed(op)
<1> DEFINE Fit(op) == InTables(op, RQ!SentForDetectors, RQ!DetectorRoutes,
                                   RQ!UpdateDetectorService, RQ!addDetectorMethods)
<1>1. Fit("updateDetector")
    BY DEF RQ!SentForDetectors, RQ!DetectorRoutes, RQ!UpdateDetectorService,
           RQ!addDetectorMethods
<1>2. /\ RQ!SentForDetectors \in SentTables /\ RQ!DetectorRoutes \in RouteTables
      /\ RQ!UpdateDetectorService \in HandlerTables /\ RQ!addDetectorMethods \in MethodTables
    BY DEF SentTables, RouteTables, HandlerTables, MethodTables
<1> HIDE DEF InTables, Agree
<1> QED
    BY <1>1, <1>2, Looks

LEMMA FieldMappingServiceAgrees ==
    \A op \in {"getMappingsView", "createMappings", "getMappings"} : Agreed(op)
<1> DEFINE Fit(op) == InTables(op, RQ!SentForMappings, RQ!FieldMappingRoutes,
                                   RQ!FieldMappingService, RQ!addFieldMappingMethods)
<1>1. Fit("getMappingsView") /\ Fit("createMappings") /\ Fit("getMappings")
    BY DEF RQ!SentForMappings, RQ!FieldMappingRoutes, RQ!FieldMappingService,
           RQ!addFieldMappingMethods
<1>2. /\ RQ!SentForMappings \in SentTables /\ RQ!FieldMappingRoutes \in RouteTables
      /\ RQ!FieldMappingService \in HandlerTables /\ RQ!addFieldMappingMethods \in MethodTables
    BY DEF SentTables, RouteTables, HandlerTables, MethodTables
<1> HIDE DEF InTables, Agree
<1> QED
    BY <1>1, <1>2, Looks

LEMMA IndexFieldsServiceAgrees ==
    \A op \in {"getIndexAliasFields"} : Agreed(op)
<1> DEFINE Fit(op) == InTables(op, RQ!SentForMappings, RQ!FieldMappingRoutes,
                                   RQ!IndexFieldsService, RQ!addFieldMappingMethods)
<1>1. Fit("getIndexAliasFields")
    BY DEF RQ!SentForMappings, RQ!FieldMappingRoutes, RQ!IndexFieldsService,
           RQ!addFieldMappingMethods
<1>2. /\ RQ!SentForMappings \in SentTables /\ RQ!FieldMappingRoutes \in RouteTables
      /\ RQ!IndexFieldsService \in HandlerTables /\ RQ!addFieldMappingMethods \in MethodTables
    BY DEF SentTables, RouteTables, HandlerTables, MethodTables
<1> HIDE DEF InTables, Agree
<1> QED
    BY <1>1, <1>2, Looks

LEMMA FindingsServiceAgrees ==
    \A op \in {"getFindings", "getThreatIntelFindings"} : Agreed(op)
<1> DEFINE Fit(op) == InTables(op, RQ!SentForFindings, RQ!FindingsRoutes, RQ!FindingsService,
                                   RQ!addFindingsMethods)
<1>1. Fit("getFindings") /\ Fit("getThreatIntelFindings")
    BY WholeQueries DEF RQ!SentForFindings, RQ!FindingsRoutes, RQ!FindingsService,
           RQ!addFindingsMethods
<1>2. /\ RQ!SentForFindings \in SentTables /\ RQ!FindingsRoutes \in RouteTables
      /\ RQ!FindingsService \in HandlerTables /\ RQ!addFindingsMethods \in MethodTables
    BY DEF SentTables, RouteTables, HandlerTables, MethodTables
<1> HIDE DEF InTables, Agree
<1> QED
    BY <1>1, <1>2, Looks

LEMMA IndexServiceAgrees ==
    \A op \in {"getIndexFields", "getIndices", "getAliases", "updateAliases"} : Agreed(op)
<1> DEFINE Fit(op) == InTables(op, RQ!SentForIndexes, RQ!IndexRoutes, RQ!IndexService,
                                   RQ!ClientMethods)
<1>1. Fit("getIndexFields") /\ Fit("getIndices") /\ Fit("getAliases") /\ Fit("updateAliases")
    BY DEF RQ!SentForIndexes, RQ!IndexRoutes, RQ!IndexService, RQ!ClientMethods
<1>2. /\ RQ!SentForIndexes \in SentTables /\ RQ!IndexRoutes \in RouteTables
      /\ RQ!IndexService \in HandlerTables /\ RQ!ClientMethods \in MethodTables
    BY DEF SentTables, RouteTables, HandlerTables, MethodTables
<1> HIDE DEF InTables, Agree
<1> QED
    BY <1>1, <1>2, Looks

LEMMA LogTypeServiceAgrees ==
    \A op \in {"createLogType", "searchLogTypes", "updateLogType", "deleteLogType"} : Agreed(op)
<1> DEFINE Fit(op) == InTables(op, RQ!SentForLogTypes, RQ!LogTypeRoutes, RQ!LogTypeService,
                                   RQ!addLogTypeMethods)
<1>1. Fit("createLogType") /\ Fit("searchLogTypes") /\ Fit("updateLogType") /\
      Fit("deleteLogType")
    BY DEF RQ!SentForLogTypes, RQ!LogTypeRoutes, RQ!LogTypeService, RQ!addLogTypeMethods
<1>2. /\ RQ!SentForLogTypes \in SentTables /\ RQ!LogTypeRoutes \in RouteTables
      /\ RQ!LogTypeService \in HandlerTables /\ RQ!addLogTypeMethods \in MethodTables
    BY DEF SentTables, RouteTables, HandlerTables, MethodTables
<1> HIDE DEF InTables, Agree
<1> QED
    BY <1>1, <1>2, Looks

LEMMA NotificationsServiceAgrees ==
    \A op \in {"getChannel", "getChannels", "getNotificationsFeatures"} : Agreed(op)
<1> DEFINE Fit(op) == InTables(op, RQ!SentForChannels, RQ!NotificationsRoutes,
                                   RQ!NotificationsService, RQ!addNotificationsMethods)
<1>1. Fit("getChannel") /\ Fit("getChannels") /\ Fit("getNotificationsFeatures")
    BY DEF RQ!SentForChannels, RQ!NotificationsRoutes, RQ!NotificationsService,
           RQ!addNotificationsMethods
<1>2. /\ RQ!SentForChannels \in SentTables /\ RQ!NotificationsRoutes \in RouteTables
      /\ RQ!NotificationsService \in HandlerTables /\ RQ!addNotificationsMethods \in MethodTables
    BY DEF SentTables, RouteTables, HandlerTables, MethodTables
<1> HIDE DEF InTables, Agree
<1> QED
    BY <1>1, <1>2, Looks

LEMMA OpenSearchServiceAgrees ==
    \A op \in {"documentIdsQuery", "getPlugins"} : Agreed(op)
<1> DEFINE Fit(op) == InTables(op, RQ!SentForDocuments, RQ!OpensearchRoutes,
                                   RQ!OpenSearchService, RQ!ClientMethods)
<1>1. Fit("documentIdsQuery") /\ Fit("getPlugins")
    BY DEF RQ!SentForDocuments, RQ!OpensearchRoutes, RQ!OpenSearchService, RQ!ClientMethods
<1>2. /\ RQ!SentForDocuments \in SentTables /\ RQ!OpensearchRoutes \in RouteTables
      /\ RQ!OpenSearchService \in HandlerTables /\ RQ!ClientMethods \in MethodTables
    BY DEF SentTables, RouteTables, HandlerTables, MethodTables
<1> HIDE DEF InTables, Agree
<1> QED
    BY <1>1, <1>2, Looks

LEMMA RulesServiceAgrees ==
    \A op \in {"createRule", "getRules", "deleteRule"} : Agreed(op)
<1> DEFINE Fit(op) == InTables(op, RQ!SentForRules, RQ!RulesRoutes, RQ!RulesService,
                                   RQ!addRulesMethods)
<1>1. Fit("createRule") /\ Fit("getRules") /\ Fit("deleteRule")
    BY DEF RQ!SentForRules, RQ!RulesRoutes, RQ!RulesService, RQ!addRulesMethods
<1>2. /\ RQ!SentForRules \in SentTables /\ RQ!RulesRoutes \in RouteTables
      /\ RQ!RulesService \in HandlerTables /\ RQ!addRulesMethods \in MethodTables
    BY DEF SentTables, RouteTables, HandlerTables, MethodTables
<1> HIDE DEF InTables, Agree
<1> QED
    BY <1>1, <1>2, Looks

LEMMA UpdateRuleServiceAgrees ==
    \A op \in {"updateRule"} : Agreed(op)
<1> DEFINE Fit(op) == InTables(op, RQ!SentForRules, RQ!RulesRoutes, RQ!UpdateRuleService,
                                   RQ!addRulesMethods)
<1>1. Fit("updateRule")
    BY DEF RQ!SentForRules, RQ!RulesRoutes, RQ!UpdateRuleService, RQ!addRulesMethods
<1>2. /\ RQ!SentForRules \in SentTables /\ RQ!RulesRoutes \in RouteTables
      /\ RQ!UpdateRuleService \in HandlerTables /\ RQ!addRulesMethods \in MethodTables
    BY DEF SentTables, RouteTables, HandlerTables, MethodTables
<1> HIDE DEF InTables, Agree
<1> QED
    BY <1>1, <1>2, Looks

LEMMA ThreatIntelServiceAgrees ==
    \A op \in {"addThreatIntelSource", "updateThreatIntelSource", "getThreatIntelSource",
                "searchThreatIntelSources"} : Agreed(op)
<1> DEFINE Fit(op) == InTables(op, RQ!SentForSources, RQ!ThreatIntelRoutes,
                                   RQ!ThreatIntelService, RQ!addThreatIntelMethods)
<1>1. Fit("addThreatIntelSource") /\ Fit("updateThreatIntelSource") /\
      Fit("getThreatIntelSource") /\ Fit("searchThreatIntelSources")
    BY DEF RQ!SentForSources, RQ!ThreatIntelRoutes, RQ!ThreatIntelService,
           RQ!addThreatIntelMethods
<1>2. /\ RQ!SentForSources \in SentTables /\ RQ!ThreatIntelRoutes \in RouteTables
      /\ RQ!ThreatIntelService \in HandlerTables /\ RQ!addThreatIntelMethods \in MethodTables
    BY DEF SentTables, RouteTables, HandlerTables, MethodTables
<1> HIDE DEF InTables, Agree
<1> QED
    BY <1>1, <1>2, Looks

LEMMA UpkeepOfSourcesAgrees ==
    \A op \in {"deleteThreatIntelSource", "refreshThreatIntelSource"} : Agreed(op)
<1> DEFINE Fit(op) == InTables(op, RQ!SentForSources, RQ!ThreatIntelRoutes, RQ!ThreatIntelUpkeep,
                                   RQ!addThreatIntelMethods)
<1>1. Fit("deleteThreatIntelSource") /\ Fit("refreshThreatIntelSource")
    BY DEF RQ!SentForSources, RQ!ThreatIntelRoutes, RQ!ThreatIntelUpkeep,
           RQ!addThreatIntelMethods
<1>2. /\ RQ!SentForSources \in SentTables /\ RQ!ThreatIntelRoutes \in RouteTables
      /\ RQ!ThreatIntelUpkeep \in HandlerTables /\ RQ!addThreatIntelMethods \in MethodTables
    BY DEF SentTables, RouteTables, HandlerTables, MethodTables
<1> HIDE DEF InTables, Agree
<1> QED
    BY <1>1, <1>2, Looks

LEMMA UpkeepOfMonitorsAgrees ==
    \A op \in {"getThreatIntelIocs"} : Agreed(op)
<1> DEFINE Fit(op) == InTables(op, RQ!SentForMonitors, RQ!ThreatIntelRoutes,
                                   RQ!ThreatIntelUpkeep, RQ!addThreatIntelMethods)
<1>1. Fit("getThreatIntelIocs")
    BY WholeQueries DEF RQ!SentForMonitors, RQ!ThreatIntelRoutes, RQ!ThreatIntelUpkeep,
           RQ!addThreatIntelMethods
<1>2. /\ RQ!SentForMonitors \in SentTables /\ RQ!ThreatIntelRoutes \in RouteTables
      /\ RQ!ThreatIntelUpkeep \in HandlerTables /\ RQ!addThreatIntelMethods \in MethodTables
    BY DEF SentTables, RouteTables, HandlerTables, MethodTables
<1> HIDE DEF InTables, Agree
<1> QED
    BY <1>1, <1>2, Looks

LEMMA ThreatIntelMonitorsAgrees ==
    \A op \in {"createThreatIntelMonitor", "updateThreatIntelMonitor",
                "searchThreatIntelMonitors", "deleteThreatIntelMonitor"} : Agreed(op)
<1> DEFINE Fit(op) == InTables(op, RQ!SentForMonitors, RQ!ThreatIntelRoutes,
                                   RQ!ThreatIntelMonitors, RQ!addThreatIntelMethods)
<1>1. Fit("createThreatIntelMonitor") /\ Fit("updateThreatIntelMonitor") /\
      Fit("searchThreatIntelMonitors") /\ Fit("deleteThreatIntelMonitor")
    BY DEF RQ!SentForMonitors, RQ!ThreatIntelRoutes, RQ!ThreatIntelMonitors,
           RQ!addThreatIntelMethods
<1>2. /\ RQ!SentForMonitors \in SentTables /\ RQ!ThreatIntelRoutes \in RouteTables
      /\ RQ!ThreatIntelMonitors \in HandlerTables /\ RQ!addThreatIntelMethods \in MethodTables
    BY DEF SentTables, RouteTables, HandlerTables, MethodTables
<1> HIDE DEF InTables, Agree
<1> QED
    BY <1>1, <1>2, Looks

HIDE DEF Agree, InTables, RQ!Dropped, RQ!Renamed, RQ!Sends, RQ!Schema, RQ!NoSchema, RQ!Passes,
         RQ!Nothing, RQ!TheBody, RQ!Needs, RQ!Free, RQ!ABody, RQ!Paging, RQ!Span

\* An operation is one that a service sends.
LEMMA SentOps == \A op \in RQ!Operations : \E t \in SentTables : op \in DOMAIN t
BY DEF RQ!Operations, RQ!Sent, RQ!Joined, SentTables

\* The layers agree on every operation there is.
LEMMA LayersAgree == \A op \in RQ!Operations : Agreed(op)
<1> SUFFICES ASSUME NEW op \in RQ!Operations PROVE Agreed(op)
    OBVIOUS
<1>1. PICK t \in SentTables : op \in DOMAIN t
    BY SentOps
<1>2. CASE t = RQ!SentForAlerts
    BY <1>1, <1>2, SentDomains, AlertServiceAgrees, ThreatIntelAlertServiceAgrees
<1>3. CASE t = RQ!SentForCorrelations
    BY <1>1, <1>3, SentDomains, CorrelationRuleServiceAgrees, CorrelationServiceAgrees
<1>4. CASE t = RQ!SentForDetectors
    BY <1>1, <1>4, SentDomains, DetectorServiceAgrees, UpdateDetectorServiceAgrees
<1>5. CASE t = RQ!SentForMappings
    BY <1>1, <1>5, SentDomains, FieldMappingServiceAgrees, IndexFieldsServiceAgrees
<1>6. CASE t = RQ!SentForFindings
    BY <1>1, <1>6, SentDomains, FindingsServiceAgrees
<1>7. CASE t = RQ!SentForIndexes
    BY <1>1, <1>7, SentDomains, IndexServiceAgrees
<1>8. CASE t = RQ!SentForLogTypes
    BY <1>1, <1>8, SentDomains, LogTypeServiceAgrees
<1>9. CASE t = RQ!SentForChannels
    BY <1>1, <1>9, SentDomains, NotificationsServiceAgrees
<1>10. CASE t = RQ!SentForDocuments
    BY <1>1, <1>10, SentDomains, OpenSearchServiceAgrees
<1>11. CASE t = RQ!SentForRules
    BY <1>1, <1>11, SentDomains, RulesServiceAgrees, UpdateRuleServiceAgrees
<1>12. CASE t = RQ!SentForSources
    BY <1>1, <1>12, SentDomains, ThreatIntelServiceAgrees, UpkeepOfSourcesAgrees
<1>13. CASE t = RQ!SentForMonitors
    BY <1>1, <1>13, SentDomains, UpkeepOfMonitorsAgrees, ThreatIntelMonitorsAgrees
<1> QED
    BY <1>1, <1>2, <1>3, <1>4, <1>5, <1>6, <1>7, <1>8, <1>9, <1>10, <1>11, <1>12,
       <1>13 DEF SentTables

-----------------------------------------------------------------------------
(* The request on its way *)

Calls ==
    [op : RQ!Operations, choice : RQ!Sources \cup {NoChoice}, meant : RQ!Sources,
     sent : SUBSET RQ!AllNames, names : SUBSET RQ!AllNames, source : RQ!Sources,
     body : BOOLEAN, at : {"route", "handler", "cluster"}]

\* A service sends what it always gives and some of what a caller may give.
Given(c) ==
    LET s == RQ!Sent[c.op] IN
    /\ s.path \cup s.query \subseteq c.sent /\ c.sent \subseteq s.path \cup s.query \cup s.optional
    /\ c.op = "getAlerts" => {"detector_id", "detectorType"} \cap c.sent # {}

\* What is left of it at each layer.
Carried(c) ==
    /\ c.at \in {"route", "handler"} => c.names = c.sent
    /\ c.at = "route" => (c.body <=> RQ!Sent[c.op].body)
    /\ c.at = "handler" => (c.body <=> RQ!Sent[c.op].body /\ RQ!Routes[c.op].body)
    /\ c.at = "cluster" => RQ!Renamed(c.sent \ RQ!Dropped(c.op))
                             \subseteq c.names \cup RQ!Handlers[c.op].fromBody

\* Where it is meant to run; without the plugin of data sources there is the local cluster only.
Destined(c) ==
    /\ ~dataSourceEnabled => c.source = Local
    /\ c.op # "getIndexAliasFields" /\ c.choice # Local => c.source = c.meant

Requesting ==
    /\ dataSourceEnabled \in BOOLEAN /\ activeDataSource \in RQ!Sources
    /\ ~dataSourceEnabled => activeDataSource = Local
    /\ call # NoCall => call \in Calls /\ Given(call) /\ Carried(call) /\ Destined(call)

LEMMA RequestingInit == RQ!Init => Requesting
BY DEF RQ!Init, Requesting, RQ!Sources

\* The parameters that a request may have at any layer.
LEMMA NamesAreKnown ==
    /\ \A op \in RQ!Operations :
          RQ!Sent[op].path \cup RQ!Sent[op].query \cup RQ!Sent[op].optional \subseteq RQ!AllNames
    /\ {"start_timestamp", "end_timestamp", "index", "category"} \subseteq RQ!AllNames
<1>1. \A op \in RQ!Operations : RQ!Methods[op].names \subseteq RQ!AllNames
    BY DEF RQ!AllNames
<1>2. {"getAllCorrelationsInTimeRange", "getIndexFields", "createRule"} \subseteq RQ!Operations
    BY SentAt, SentDomains DEF SentTables, RQ!Operations
<1>3. /\ RQ!Methods["getAllCorrelationsInTimeRange"]
           = RQ!addCorrelationMethods["getAllCorrelationsInTimeRange"]
      /\ RQ!Methods["getIndexFields"] = RQ!ClientMethods["getIndexFields"]
      /\ RQ!Methods["createRule"] = RQ!addRulesMethods["createRule"]
    BY MethodAt, MethodDomains DEF MethodTables
<1>4. {"start_timestamp", "end_timestamp"}
          \subseteq RQ!Methods["getAllCorrelationsInTimeRange"].names
    BY <1>3 DEF RQ!addCorrelationMethods, RQ!Needs
<1>5. "index" \in RQ!Methods["getIndexFields"].names
    BY <1>3 DEF RQ!ClientMethods, RQ!Needs
<1>6. "category" \in RQ!Methods["createRule"].names
    BY <1>3 DEF RQ!addRulesMethods, RQ!Needs
<1>7. {"start_timestamp", "end_timestamp", "index", "category"} \subseteq RQ!AllNames
    BY <1>1, <1>2, <1>4, <1>5, <1>6
<1> QED
    BY <1>7 DEF RQ!AllNames

LEMMA SelectKeeps ==
    ASSUME Requesting, NEW source \in RQ!Sources, RQ!SelectDataSource(source) PROVE Requesting'
BY DEF Requesting, RQ!SelectDataSource, Calls, Given, Carried, Destined, RQ!Sources

\* The choice of one detector or of its type is a choice of something.
LEMMA OneIsNamed ==
    ASSUME NEW op, NEW extras, RQ!OneDetector(op, extras)
    PROVE  op = "getAlerts" => extras \cap {"detector_id", "detectorType"} # {}
BY DEF RQ!OneDetector

\* A service of the browser sends what the layers agree on.
LEMMA AskRequests ==
    ASSUME Requesting, NEW op \in RQ!Operations, NEW extras \in RQ!Extras(op),
           NEW choice \in RQ!Choices(op), RQ!Ask(op, extras, choice)
    PROVE  Requesting'
<1> DEFINE s == RQ!Sent[op]
           sent == s.path \cup s.query \cup extras
           meant == IF choice = NoChoice THEN activeDataSource ELSE choice
<1>1. /\ extras \subseteq s.optional
      /\ op = "getAlerts" => extras \cap {"detector_id", "detectorType"} # {}
    BY OneIsNamed DEF RQ!Extras
<1>2. choice \in RQ!Sources \cup {NoChoice} /\ (~dataSourceEnabled => choice = NoChoice)
    BY DEF RQ!Choices
<1>3. /\ meant \in RQ!Sources /\ RQ!IdFor(choice) \in RQ!Sources
      /\ ~dataSourceEnabled => RQ!IdFor(choice) = Local
      /\ choice # Local => RQ!IdFor(choice) = meant
    BY <1>2, DetectorPagesAssumption DEF RQ!IdFor, RQ!Sources, Requesting
<1>4. sent \subseteq RQ!AllNames
    BY <1>1, NamesAreKnown
<1>5. s.body \in BOOLEAN
    BY LayersAgree DEF Agreed, Agree
<1>6. call' = [op |-> op, choice |-> choice, meant |-> meant, sent |-> sent, names |-> sent,
               source |-> RQ!IdFor(choice), body |-> s.body, at |-> "route"]
    BY DEF RQ!Ask
<1> HIDE DEF meant, sent
<1>7. call' \in Calls
    BY <1>2, <1>3, <1>4, <1>5, <1>6 DEF Calls
<1>8. Given(call')
    BY <1>1, <1>6 DEF Given, sent
<1>9. Carried(call')
    BY <1>5, <1>6 DEF Carried
<1>10. Destined(call)'
    BY <1>3, <1>6 DEF Destined, RQ!Ask
<1> QED
    BY <1>7, <1>8, <1>9, <1>10 DEF Requesting, RQ!Ask

\* What the schema of a route refuses, no service sends.
LEMMA RouteKeeps == ASSUME Requesting, RQ!Route PROVE Requesting'
<1> DEFINE op == call.op
           s == RQ!Sent[op]
           r == RQ!Routes[op]
<1>1. call \in Calls /\ Given(call) /\ Carried(call) /\ Destined(call) /\ call.at = "route"
    BY DEF RQ!Route, Requesting
<1>2. op \in RQ!Operations
    BY <1>1 DEF Calls
<1>3. Agree(op, s, r, RQ!Handlers[op], RQ!Methods[op])
    BY <1>2, LayersAgree DEF Agreed
<1>4. call.names = call.sent
    BY <1>1 DEF Carried
<1>5. RQ!Validates(r)
    BY <1>1, <1>3, <1>4 DEF RQ!Validates, Agree, Given
<1>6. ~r.query => call.names \cap r.path = call.sent /\ op = "getIndexAliasFields"
    BY <1>1, <1>3, <1>4 DEF Agree, Given
<1>7. call' = [call EXCEPT !.at = "handler",
                   !.names = IF r.query THEN @ ELSE @ \cap r.path,
                   !.source = IF r.query THEN @ ELSE Local,
                   !.body = @ /\ r.body]
    BY <1>5 DEF RQ!Route
<1>8. call'.at = "handler" /\ call'.op = op /\ call'.sent = call.sent /\ call'.names = call.sent
    BY <1>1, <1>4, <1>6, <1>7 DEF Calls
<1>9. call'.choice = call.choice /\ call'.meant = call.meant
      /\ call'.source = (IF r.query THEN call.source ELSE Local)
    BY <1>1, <1>7 DEF Calls
<1>10. call'.body <=> call.body /\ r.body
    BY <1>1, <1>7 DEF Calls
<1>11. call' \in Calls
    BY <1>1, <1>4, <1>6, <1>7 DEF Calls, RQ!Sources
<1>12. Given(call')
    BY <1>1, <1>8 DEF Given
<1>13. Carried(call')
    BY <1>1, <1>8, <1>10 DEF Carried
<1>14. Destined(call)'
    BY <1>1, <1>6, <1>8, <1>9 DEF Destined, RQ!Route
<1> QED
    BY <1>11, <1>12, <1>13, <1>14 DEF Requesting, RQ!Route

LEMMA RenamedGrows == \A a, b : a \subseteq b => RQ!Renamed(a) \subseteq RQ!Renamed(b)
BY DEF RQ!Renamed

\* What a method of the client cannot do without, its handler hands on.
LEMMA HandleKeeps == ASSUME Requesting, RQ!Handle PROVE Requesting'
<1> DEFINE op == call.op
           s == RQ!Sent[op]
           r == RQ!Routes[op]
           h == RQ!Handlers[op]
           m == RQ!Methods[op]
           body == h.body /\ call.body
           names == RQ!Renamed(call.names \cap h.names) \cup (IF call.body THEN h.fromBody ELSE {})
<1>1. call \in Calls /\ Given(call) /\ Carried(call) /\ Destined(call) /\ call.at = "handler"
    BY DEF RQ!Handle, Requesting
<1>2. op \in RQ!Operations
    BY <1>1 DEF Calls
<1>3. Agree(op, s, r, h, m)
    BY <1>2, LayersAgree DEF Agreed
<1>4. call.names = call.sent /\ (call.body <=> s.body /\ r.body)
    BY <1>1 DEF Carried
<1>5. m.names \subseteq names
  <2>1. RQ!Renamed((s.path \cup s.query) \cap h.names) \subseteq RQ!Renamed(call.names \cap h.names)
    BY <1>1, <1>4, RenamedGrows DEF Given
  <2> QED
    BY <1>3, <1>4, <2>1 DEF Agree
<1>6. m.body => body
    BY <1>3, <1>4 DEF Agree
<1>7. op = "getAlerts" => {"detector_id", "detectorType"} \cap names # {}
    BY <1>1, <1>3, <1>4 DEF Agree, Given, RQ!Renamed
<1>8. RQ!getClient(call.source) = call.source
    BY <1>1 DEF RQ!getClient, Destined
<1>9. call' = [call EXCEPT !.at = "cluster", !.names = names, !.body = body,
                           !.source = call.source]
    BY <1>1, <1>5, <1>6, <1>7, <1>8 DEF RQ!Handle
<1>10. names \subseteq RQ!AllNames
    BY <1>1, <1>3, <1>4, NamesAreKnown DEF Calls, Agree, RQ!Renamed
<1>11. RQ!Renamed(call.sent \ RQ!Dropped(op)) \subseteq names \cup h.fromBody
    BY <1>1, <1>3, <1>4 DEF Given, Agree, RQ!Renamed
<1> HIDE DEF names, body
<1>12. call' \in Calls
    BY <1>1, <1>3, <1>9, <1>10 DEF Calls, body, Agree
<1>13. call'.op = op /\ call'.at = "cluster" /\ call'.sent = call.sent /\ call'.names = names
    BY <1>1, <1>9 DEF Calls
<1>14. UNCHANGED <<call.choice, call.meant, call.source>>
    BY <1>1, <1>9 DEF Calls
<1>15. Given(call') /\ Carried(call')
    BY <1>1, <1>11, <1>13 DEF Given, Carried
<1>16. Destined(call)'
    BY <1>1, <1>13, <1>14 DEF Destined, RQ!Handle
<1> QED
    BY <1>12, <1>15, <1>16 DEF Requesting, RQ!Handle

LEMMA RequestingStep == Requesting /\ RQ!Next => Requesting'
<1> SUFFICES ASSUME Requesting, RQ!Next PROVE Requesting'
    OBVIOUS
<1>1. CASE RQ!Settle
    BY <1>1 DEF RQ!Settle, Requesting
<1> QED
    BY <1>1, SelectKeeps, AskRequests, RouteKeeps, HandleKeeps DEF RQ!Next

\* What is carried and destined so arrives.
LEMMA RequestingArrives ==
    Requesting => RQ!TypeOK /\ RQ!RequestsArrive /\ RQ!AtItsSource
<1>1. Requesting => RQ!TypeOK
    BY DEF Requesting, RQ!TypeOK, Calls
<1>2. Requesting => RQ!RequestsArrive
    BY DEF Requesting, RQ!RequestsArrive, Calls, Carried
<1>3. Requesting => RQ!AtItsSource
    BY DEF Requesting, RQ!AtItsSource, Destined
<1> QED
    BY <1>1, <1>2, <1>3

LEMMA RequestingStays == ASSUME UNCHANGED vars PROVE Requesting => Requesting'
BY DEF vars, ofRequests, Requesting, Calls, Given, Carried, Destined

-----------------------------------------------------------------------------
(* The requests and the pages together *)

AllIInv == IInv /\ (part = "requests" => Requesting)

LEMMA AllIInvInit == Init => AllIInv
BY IInvInit, RequestingInit DEF Init, AllIInv

LEMMA AllIInvStep == AllIInv /\ [Next]_vars => AllIInv'
<1> SUFFICES ASSUME AllIInv, [Next]_vars PROVE AllIInv'
    OBVIOUS
<1>1. IInv'
    BY IInvStep DEF AllIInv
<1>2. CASE InRequests(RQ!Next)
    BY <1>1, <1>2, RequestingStep DEF InRequests, AllIInv
<1>3. CASE InEditing(DE!Next) \/ InFindings(FP!Next) \/ InCorrelations(CO!Next)
    BY <1>1, <1>3 DEF InEditing, InFindings, InCorrelations, AllIInv
<1>4. CASE UNCHANGED vars
    BY <1>1, <1>4, RequestingStays DEF AllIInv, vars
<1> QED
    BY <1>2, <1>3, <1>4 DEF Next

LEMMA AlwaysAllIInv == Spec => []AllIInv
BY AllIInvInit, AllIInvStep, PTL DEF Spec

\* A request that a page may make is refused by none of the four layers and loses no parameter but
\* the index of a page of alerts, whichever optional ones it gives; and it runs on the data source
\* it was made for, whatever is selected while it is on its way, but for the two that lose it.
THEOREM RequestsAllArrive == Spec => []RequestsArrive
<1>1. AllIInv => RequestsArrive
    BY RequestingArrives DEF AllIInv, RequestsArrive
<1> QED
    BY <1>1, AlwaysAllIInv, PTL

\* The pages about detectors, findings and correlations and the requests keep their types,
\* however many edits, calls, loads, pages and data sources there are.
THEOREM TypeCorrect == Spec => []TypeOK
<1>1. AllIInv => TypeOK
    BY RequestingArrives, EditingIsTyped DEF AllIInv, IInv, TypeOK, Listing, Correlating
<1> QED
    BY <1>1, AlwaysAllIInv, PTL
===============================================================================
