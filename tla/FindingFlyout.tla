----------------------------- MODULE FindingFlyout -----------------------------
(***************************************************************************)
(* The flyout of a finding (FindingDetailsFlyout), opened from the table   *)
(* of findings or from the flyout of an alert, with its two tabs and the   *)
(* form that creates an index pattern for the documents.                   *)
(*                                                                         *)
(* What a tab shows is made once, when the tab is selected and at some     *)
(* other occasions, from what has been loaded by then; it does not follow  *)
(* what is loaded later.  One index pattern fits the index of the finding. *)
(* Rules, documents and correlations are known by whether they came.       *)
(***************************************************************************)
EXTENDS Naturals, FiniteSets

CONSTANTS
    Names,          \* names that the user gives to an index pattern
    DateFields,     \* the date fields of the indexes with such a name
    MaxClicks       \* how often the user does something

VARIABLES
    alertFlyout,    \* the flyout of an alert behind it: what it waits for
    opened,         \* the flyout is open
    waiting,        \* the requests under way
    allRules, indexPatternId, loadingIndexPatternId, correlatedFindings,
    areCorrelationsLoading, expanded, modal,     \* its state
    selectedTab,    \* the tab and the content made for it
    form,           \* CreateIndexPatternForm: name, timeField, timeFields, the pattern it created
    asks,           \* the requests of the form for date fields
    clicks,         \* how often the user did something
    behind,         \* history: something was loaded that the content, made before, would show
    settledName     \* history: fields came in the order of the names, the last before submitting

flyoutVars == <<alertFlyout, opened, waiting, allRules, indexPatternId, loadingIndexPatternId,
                correlatedFindings, areCorrelationsLoading, expanded, modal, selectedTab, form,
                asks, clicks, behind, settledName>>

FlyoutTabs == {"Details", "Correlations"}
Unset == "none"

Skeleton == [id |-> "Details", skeleton |-> TRUE, rules |-> FALSE, pattern |-> Unset,
             loading |-> FALSE, correlated |-> FALSE, expanded |-> FALSE]

\* getTabContent, from the state after the step: whether the pattern is still looked for is told
\* by the caller, and "no" by those that say nothing.
TabContent(id, loadingPattern) ==
    IF id = "Details"
    THEN [Skeleton EXCEPT !.skeleton = FALSE, !.rules = allRules', !.pattern = indexPatternId',
                          !.loading = loadingPattern, !.expanded = expanded']
    ELSE [Skeleton EXCEPT !.skeleton = FALSE, !.id = id, !.rules = allRules',
                          !.loading = areCorrelationsLoading', !.correlated = correlatedFindings']

Contents == [id : FlyoutTabs, skeleton : BOOLEAN, rules : BOOLEAN, pattern : Names \cup {Unset, "given"},
             loading : BOOLEAN, correlated : BOOLEAN, expanded : BOOLEAN]
Fields == UNION {DateFields[n] : n \in Names}
NoForm == [name |-> Unset, timeField |-> Unset, timeFields |-> {}, created |-> Unset, of |-> Unset,
           submitting |-> Unset]

TypeOK ==
    /\ alertFlyout \in {Unset, "findings", "rules", "shown"}
    /\ waiting \subseteq {"patterns", "rules", "findings", "correlationRules", "correlations"}
    /\ {opened, allRules, loadingIndexPatternId, correlatedFindings, areCorrelationsLoading,
        expanded, modal, behind, settledName} \subseteq BOOLEAN
    /\ indexPatternId \in Names \cup {Unset, "given"}
    /\ selectedTab \in Contents
    /\ form \in [name : Names \cup {Unset}, timeField : Fields \cup {Unset},
                 timeFields : SUBSET Fields, created : Names \cup {Unset},
                 of : Fields \cup {Unset}, submitting : Names \cup {Unset}]
    /\ asks \subseteq [n : Nat, name : Names, resets : BOOLEAN]

\* A flyout that is not open, and one that is closed.
Init ==
    /\ alertFlyout \in {Unset, "findings"} /\ opened = FALSE /\ waiting = {}
    /\ allRules = FALSE /\ indexPatternId = Unset /\ loadingIndexPatternId = TRUE
    /\ correlatedFindings = FALSE /\ areCorrelationsLoading = TRUE
    /\ expanded = FALSE /\ modal = FALSE /\ selectedTab = Skeleton /\ form = NoForm /\ asks = {}
    /\ clicks = 0 /\ behind = FALSE /\ settledName = TRUE

Unmount ==
    /\ opened' = FALSE /\ waiting' = {}
    /\ allRules' = FALSE /\ indexPatternId' = Unset /\ loadingIndexPatternId' = TRUE
    /\ correlatedFindings' = FALSE /\ areCorrelationsLoading' = TRUE
    /\ expanded' = FALSE /\ modal' = FALSE /\ selectedTab' = Skeleton /\ form' = NoForm
    /\ asks' = {} /\ behind' = FALSE /\ settledName' = TRUE

Click == clicks < MaxClicks /\ clicks' = clicks + 1

inForm == <<form, asks, settledName>>
loaded == <<allRules, indexPatternId, loadingIndexPatternId, correlatedFindings,
            areCorrelationsLoading>>

-----------------------------------------------------------------------------
(* Opening and loading *)

\* AlertFlyout and CorrelationAlertFlyout: findings, then their rules, whatever fails.
AlertLoaded ==
    /\ alertFlyout \in {"findings", "rules"}
    /\ alertFlyout' = IF alertFlyout = "findings" THEN "rules" ELSE "shown"
    /\ UNCHANGED <<opened, waiting, loaded, expanded, modal, selectedTab, inForm, clicks, behind>>

\* DataStore.findings.openFlyout and componentDidMount: from an alert, all findings are loaded
\* before correlations are asked for.
OpenFlyout ==
    /\ ~opened /\ alertFlyout # "findings" /\ Click
    /\ opened' = TRUE
    /\ waiting' = {"patterns", "rules", IF alertFlyout = Unset THEN "correlationRules" ELSE "findings"}
    /\ UNCHANGED <<alertFlyout, loaded, expanded, modal, selectedTab, inForm, behind>>

\* It is closed, and what comes later is not seen.
CloseFlyout ==
    /\ opened
    /\ Unmount
    /\ UNCHANGED <<alertFlyout, clicks>>

\* What the content shows of what changes without it being made anew.
Overtaken(about) == behind' = (behind \/ (~selectedTab.skeleton /\ selectedTab.id = about))

\* getIndexPatternId: a pattern, none, or no answer.
GotIndexPattern ==
    /\ "patterns" \in waiting
    /\ waiting' = waiting \ {"patterns"}
    /\ indexPatternId' \in {indexPatternId, "given"} /\ loadingIndexPatternId' = FALSE
    /\ Overtaken("Details")
    /\ UNCHANGED <<alertFlyout, opened, allRules, correlatedFindings, areCorrelationsLoading,
                   expanded, modal, selectedTab, inForm, clicks>>

\* getCorrelations up to the correlated findings.
GotForCorrelations(what) ==
    /\ what \in waiting \cap {"findings", "correlationRules"}
    /\ waiting' = (waiting \ {what}) \cup
                  {IF what = "findings" THEN "correlationRules" ELSE "correlations"}
    /\ UNCHANGED <<alertFlyout, opened, loaded, expanded, modal, selectedTab, inForm, clicks, behind>>

GotCorrelatedFindings ==
    /\ "correlations" \in waiting
    /\ waiting' = waiting \ {"correlations"}
    /\ correlatedFindings' \in BOOLEAN /\ areCorrelationsLoading' = FALSE
    /\ Overtaken("Correlations")
    /\ UNCHANGED <<alertFlyout, opened, allRules, indexPatternId, loadingIndexPatternId,
                   expanded, modal, selectedTab, inForm, clicks>>

\* The rules came: the details are made anew and selected, whatever tab the user looks at.
GotAllRules ==
    /\ "rules" \in waiting
    /\ waiting' = waiting \ {"rules"} /\ allRules' = TRUE
    /\ UNCHANGED <<alertFlyout, opened, indexPatternId, loadingIndexPatternId, correlatedFindings,
                   areCorrelationsLoading, expanded, modal, inForm, clicks>>
    /\ selectedTab' = TabContent("Details", FALSE) /\ behind' = FALSE

\* Nothing handles a request that is lost: correlations go on loading for ever, unless those of
\* the finding itself are.
Lost(what) ==
    /\ what \in waiting \ {"patterns"}
    /\ waiting' = waiting \ {what}
    /\ areCorrelationsLoading' = (areCorrelationsLoading /\ what # "correlations")
    /\ IF what = "correlations" THEN Overtaken("Correlations") ELSE UNCHANGED behind
    /\ UNCHANGED <<alertFlyout, opened, allRules, indexPatternId, loadingIndexPatternId,
                   correlatedFindings, expanded, modal, selectedTab, inForm, clicks>>

-----------------------------------------------------------------------------
(* The user *)

SelectTab(id) ==
    /\ opened /\ ~modal /\ Click
    /\ UNCHANGED <<alertFlyout, opened, waiting, loaded, expanded, modal, inForm>>
    /\ selectedTab' = TabContent(id, loadingIndexPatternId) /\ behind' = FALSE

\* A document is expanded or collapsed, and componentDidUpdate makes the content anew.
ToggleDocumentDetails ==
    /\ opened /\ ~modal /\ selectedTab.id = "Details" /\ ~selectedTab.skeleton /\ Click
    /\ expanded' = ~expanded
    /\ UNCHANGED <<alertFlyout, opened, waiting, loaded, modal, inForm>>
    /\ selectedTab' = TabContent(selectedTab.id, loadingIndexPatternId) /\ behind' = FALSE

\* View surrounding documents, which opens another window when the content knows a pattern.
ViewSurroundingDocuments ==
    /\ opened /\ ~modal /\ selectedTab.id = "Details" /\ ~selectedTab.skeleton
    /\ ~selectedTab.loading /\ selectedTab.pattern = Unset /\ Click
    /\ modal' = TRUE
    /\ \E name \in Names :
          /\ form' = [NoForm EXCEPT !.name = name]
          /\ asks' = {[n |-> clicks, name |-> name, resets |-> FALSE]}
    /\ settledName' = TRUE
    /\ UNCHANGED <<alertFlyout, opened, waiting, loaded, expanded, selectedTab, behind>>

\* The correlations page is opened with what the content shows.
GoToCorrelationsPage ==
    /\ opened /\ selectedTab.correlated
    /\ Unmount /\ alertFlyout' = Unset
    /\ UNCHANGED clicks

-----------------------------------------------------------------------------
(* CreateIndexPatternForm *)

InForm == modal /\ form.created = Unset

outsideForm == <<alertFlyout, opened, waiting, loaded, expanded, modal, selectedTab, behind>>

ChangeName(name) ==
    /\ InForm /\ name # form.name /\ Click
    /\ form' = [form EXCEPT !.name = name]
    /\ asks' = asks \cup {[n |-> clicks, name |-> name, resets |-> TRUE]}
    /\ UNCHANGED <<outsideForm, settledName>>

PickTimeField(field) ==
    /\ InForm /\ field \in form.timeFields \ {form.timeField} /\ Click
    /\ form' = [form EXCEPT !.timeField = field]
    /\ UNCHANGED <<outsideForm, asks, settledName>>

\* The date fields of a name came, or none as the request failed; the field chosen is dropped,
\* but not for the first name.
GotTimeFields(a, fields) ==
    form' = [form EXCEPT !.timeFields = fields,
                         !.timeField = IF a.resets THEN Unset ELSE @]

TimeFieldsAnswered(a) ==
    /\ modal
    /\ \E fields \in {DateFields[a.name], {}} : GotTimeFields(a, fields)
    /\ asks' = asks \ {a}
    /\ settledName' = (settledName /\ \A b \in asks : b.n >= a.n)
    /\ UNCHANGED <<outsideForm, clicks>>

\* A pattern is submitted when it has a name and a time field.
SubmitPattern ==
    /\ InForm /\ form.submitting = Unset /\ form.timeField # Unset
    /\ form' = [form EXCEPT !.submitting = form.name, !.of = form.timeField]
    /\ settledName' = (settledName /\ asks = {})
    /\ UNCHANGED <<outsideForm, asks, clicks>>

\* It is saved with the name and field that were submitted, or it is not.
PatternSaved(ok) ==
    /\ form.submitting # Unset
    /\ form' = [form EXCEPT !.submitting = Unset, !.created = IF ok THEN form.submitting ELSE Unset]
    /\ UNCHANGED <<outsideForm, asks, settledName, clicks>>

\* View surrounding documents after it was created: the flyout takes it over.
Created ==
    /\ modal /\ form.created # Unset
    /\ indexPatternId' = form.created /\ modal' = FALSE /\ form' = NoForm /\ asks' = {}
    /\ UNCHANGED <<alertFlyout, opened, waiting, allRules, loadingIndexPatternId,
                   correlatedFindings, areCorrelationsLoading, expanded, clicks, settledName>>
    /\ selectedTab' = TabContent("Details", FALSE) /\ behind' = FALSE

CloseModal ==
    /\ modal
    /\ modal' = FALSE /\ form' = NoForm /\ asks' = {}
    /\ UNCHANGED <<alertFlyout, opened, waiting, loaded, expanded, selectedTab, behind, clicks,
                   settledName>>

Next ==
    \/ AlertLoaded \/ OpenFlyout \/ CloseFlyout
    \/ GotIndexPattern \/ GotCorrelatedFindings \/ GotAllRules
    \/ \E what \in waiting : GotForCorrelations(what) \/ Lost(what)
    \/ \E id \in FlyoutTabs : SelectTab(id)
    \/ ToggleDocumentDetails \/ ViewSurroundingDocuments \/ GoToCorrelationsPage
    \/ \E name \in Names : ChangeName(name)
    \/ \E field \in Fields : PickTimeField(field)
    \/ \E a \in asks : TimeFieldsAnswered(a)
    \/ SubmitPattern \/ \E ok \in BOOLEAN : PatternSaved(ok)
    \/ Created \/ CloseModal

-----------------------------------------------------------------------------

\* The tab shows what has been loaded, documents as they were expanded, and the pattern that was
\* created, unless a pattern or correlations came after it was made, which it does not follow.
ContentCurrent ==
    opened /\ ~behind /\ ~selectedTab.skeleton =>
        /\ selectedTab.rules = allRules
        /\ selectedTab.id = "Details" =>
              selectedTab.pattern = indexPatternId /\ selectedTab.expanded = expanded
        /\ selectedTab.id = "Correlations" =>
              /\ selectedTab.correlated = correlatedFindings
              /\ selectedTab.loading = areCorrelationsLoading

\* The tab of details shows the rules once they came.
RulesShown == opened /\ allRules => ~selectedTab.skeleton

\* An index pattern is created with a time field of its own, if the fields of the names came in
\* their order and were waited for.
FieldOfPattern ==
    form.created # Unset /\ settledName => form.of \in DateFields[form.created]

FlyoutCurrent == ContentCurrent /\ RulesShown /\ FieldOfPattern
=============================================================================
