---------------------------- MODULE DetectorWizard ----------------------------
(***************************************************************************)
(* The wizard that defines a detector (CreateDetector) and what answers it *)
(* late: the rules of a log type (setupRulesState), a selection of indexes *)
(* that looks up their field mappings first (onSelectionChange of          *)
(* DetectorDataSource), and createMappings.  The menu of data sources      *)
(* stays usable on the first step.                                         *)
(*                                                                         *)
(* Of a detector there is its log type, whether it has indexes, and its    *)
(* rules; its name and schedule are taken as filled in.  The rules of a    *)
(* log type, custom and pre-packaged, are one on each cluster.             *)
(* setState of a wizard that was left does nothing: its state, loads and   *)
(* selections are dropped with it, and only onCreateClick goes on.         *)
(***************************************************************************)
EXTENDS Naturals, SequencesExt

CONSTANTS
    LogTypes,       \* log types of the list
    Clusters,       \* data sources of the menu
    None,           \* no log type, no cluster, nothing restored, no copy
    MaxLoads,       \* calls of setupRulesState at a time (a bound for TLC)
    MaxSelections,  \* selections that look up field mappings (a bound for TLC)
    MaxCreations    \* clicks that create a detector (a bound for TLC)

Rules == [type : LogTypes, cluster : Clusters]
Detectors == [type : LogTypes \cup {None}, indices : BOOLEAN, rules : SUBSET Rules]

ASSUME DetectorWizardAssumption ==
    /\ None \notin LogTypes \cup Clusters
    /\ None \notin Detectors
    /\ MaxLoads \in Nat \ {0} /\ MaxSelections \in Nat /\ MaxCreations \in Nat

VARIABLES
    dataSource,     \* the active cluster
    readOnly,       \* dataSourceMenuReadOnly of Main
    mounted,        \* the wizard is shown
    restored,       \* detectorInput of the history's state, or None
    step,           \* currentStep
    detector,       \* state.detector
    valid,          \* stepDataValid of the first step
    allRules,       \* rulesState.allRules ...
    enabled,        \* ... and those of them that are enabled
    loadingRules,   \* state.loadingRules
    creating,       \* state.creatingDetector
    loads,          \* the calls of setupRulesState that wait for their rules
    selections,     \* the calls of onSelectionChange that had to wait
    creations,      \* the calls of onCreateClick, and whether the detector each sends has
                    \* the rules of its log type
    overwritten,    \* history: a selection brought an old detector back
    newest          \* history: the newest load waits, was the last to bring rules, or neither

menu == <<dataSource, readOnly>>
rulesState == <<allRules, enabled>>
calls == <<loads, selections, creations>>
wizard == <<step, detector, valid, rulesState, loadingRules, creating, loads,
            selections, newest>>
history == <<overwritten, newest>>
vars == <<menu, mounted, restored, step, detector, valid, rulesState, loadingRules,
          creating, calls, history>>

\* What the search for the rules of a log type finds on a cluster.
RulesOf(type, cluster) ==
    {rule \in Rules : rule.type = type /\ rule.cluster = cluster}

EmptyDetector == [type |-> None, indices |-> FALSE, rules |-> {}]

TypeOK ==
    /\ dataSource \in Clusters
    /\ {readOnly, mounted, valid, loadingRules, creating, overwritten} \subseteq BOOLEAN
    /\ restored \in Detectors \cup {None}
    /\ step \in {"define", "alerts"}
    /\ detector \in Detectors
    /\ allRules \subseteq Rules /\ enabled \subseteq allRules
    /\ loads \in Seq([type : LogTypes \cup {None}, cluster : Clusters])
    /\ newest \in {"waiting", "shown", "over"}
    /\ selections \in Seq([at : {"waiting", "done"}, copy : Detectors \cup {None}])
    /\ creations \in Seq([at : {"mapping", "refused", "lost", "sent"}, left : BOOLEAN,
                          fits : BOOLEAN, mapped : Clusters,
                          created : Clusters \cup {None}])

\* setupRulesState up to its await, for each of some log types, on a cluster.
Load(types, cluster) ==
    /\ Len(loads) + Len(types) <= MaxLoads
    /\ loadingRules' = TRUE
    /\ loads' = loads \o [n \in 1 .. Len(types) |-> [type |-> types[n], cluster |-> cluster]]
    /\ newest' = "waiting"

\* (mutant: a new log type loads no rules)
ChangeDetectorKeepingRules(new) ==
    /\ detector' = new
    /\ UNCHANGED <<loads, loadingRules, newest>>

\* changeDetector and the componentDidUpdate after it: a new log type loads its rules.
ChangeDetector(new) ==
    /\ detector' = new
    /\ \/ /\ new.type = detector.type
          /\ UNCHANGED <<loads, loadingRules, newest>>
       \/ /\ new.type # detector.type
          /\ Load(<<new.type>>, dataSource)

\* updateDetectorCreationState
Update(new) ==
    /\ ChangeDetector(new)
    /\ valid' = (new.type # None /\ new.indices)

\* The wizard is unmounted.
Leave ==
    /\ mounted' = FALSE
    /\ readOnly' = FALSE
    /\ step' = "define"
    /\ detector' = EmptyDetector
    /\ valid' = FALSE
    /\ allRules' = {} /\ enabled' = {}
    /\ loadingRules' = FALSE
    /\ creating' = FALSE
    /\ loads' = <<>>
    /\ newest' = "over"
    /\ selections' = <<>>

-----------------------------------------------------------------------------

\* The wizard is opened from the list of detectors, or from a failed creation whose
\* state it restores: at the second step, maybe with another data source selected.
Init ==
    /\ dataSource \in Clusters
    /\ readOnly = FALSE
    /\ mounted = TRUE
    /\ \/ /\ restored = None
          /\ step = "define"
          /\ detector = EmptyDetector
          /\ valid = FALSE
          /\ loadingRules = TRUE
          /\ loads = <<[type |-> None, cluster |-> dataSource]>>
          /\ newest = "waiting"
       \/ /\ \E type \in LogTypes, cluster \in Clusters :
               restored = [type |-> type, indices |-> TRUE, rules |-> RulesOf(type, cluster)]
          /\ step = "alerts"
          /\ detector = restored
          /\ valid = TRUE
          /\ loadingRules = FALSE
          /\ loads = <<>>
          /\ newest = "over"
    /\ allRules = detector.rules
    /\ enabled = detector.rules
    /\ creating = FALSE
    /\ selections = <<>>
    /\ creations = <<>>
    /\ overwritten = FALSE

(* The first step *)

Defining == mounted /\ step = "define"

OnDetectorTypeChange(type) ==
    /\ Defining
    /\ type # detector.type
    /\ Update([detector EXCEPT !.type = type])
    /\ UNCHANGED <<menu, mounted, restored, step, rulesState, creating, selections,
                   creations, overwritten>>

\* onSelectionChange with no mappings to look up, because there is no log type yet or
\* they are known already.
SelectIndices(indices) ==
    /\ Defining
    /\ Update([detector EXCEPT !.indices = indices])
    /\ UNCHANGED <<menu, mounted, restored, step, rulesState, creating, selections,
                   creations, overwritten>>

\* onSelectionChange up to its await of getMappingsView.
LookUpMappings ==
    /\ Defining
    /\ detector.type # None
    /\ Len(selections) < MaxSelections
    /\ selections' = Append(selections, [at |-> "waiting", copy |-> None])
    /\ UNCHANGED <<menu, mounted, restored, step, detector, valid, rulesState,
                   loadingRules, creating, loads, creations, history>>

\* Its end: the indexes go into the detector that the first step knows, which is an old
\* one when that step has been left.
ApplySelection(n) ==
    LET known == IF selections[n].copy = None THEN detector ELSE selections[n].copy IN
    /\ selections[n].at = "waiting"
    /\ selections' = [selections EXCEPT ![n] = [at |-> "done", copy |-> None]]
    /\ Update([known EXCEPT !.indices = TRUE])
    /\ overwritten' = (overwritten \/ selections[n].copy # None)
    /\ UNCHANGED <<menu, mounted, restored, step, rulesState, creating, creations>>

\* (mutant: the detector keeps its rules)
ToggleShownOnly(rules) ==
    /\ Defining
    /\ enabled' = rules
    /\ UNCHANGED <<menu, mounted, restored, step, detector, valid, allRules, loadingRules,
                   creating, calls, history>>

\* onRuleToggle and onAllRulesToggle leave these rules enabled.
Toggle(rules) ==
    /\ Defining
    /\ enabled' = rules
    /\ detector' = [detector EXCEPT !.rules = rules]
    /\ UNCHANGED <<menu, mounted, restored, step, valid, allRules, loadingRules, creating,
                   calls, history>>

OnRuleToggle(rule) == Toggle(IF rule \in enabled THEN enabled \ {rule} ELSE enabled \cup {rule})
OnAllRulesToggle(on) == Toggle(IF on THEN allRules ELSE {})

(* The rules of a log type *)

Newest(n) == n = Len(loads) /\ newest = "waiting"

\* (mutant: a rule that was disabled stays so)
GotRulesKeepingToggles(n, rules) ==
    /\ loads' = RemoveAt(loads, n)
    /\ newest' = IF Newest(n) THEN "shown" ELSE IF newest = "waiting" THEN newest ELSE "over"
    /\ allRules' = rules
    /\ detector' = [detector EXCEPT !.rules = rules]
    /\ loadingRules' = FALSE
    /\ UNCHANGED <<menu, mounted, restored, step, valid, enabled, creating, selections,
                   creations, overwritten>>

\* setupRulesState after its await: the rules that came are all enabled, in whatever
\* detector there is by now.
GotRules(n, rules) ==
    /\ loads' = RemoveAt(loads, n)
    /\ newest' = IF Newest(n) THEN "shown" ELSE IF newest = "waiting" THEN newest ELSE "over"
    /\ allRules' = rules
    /\ enabled' = rules
    /\ detector' = [detector EXCEPT !.rules = rules]
    /\ loadingRules' = FALSE
    /\ UNCHANGED <<menu, mounted, restored, step, valid, creating, selections, creations,
                   overwritten>>

\* A lost search rejects the load: nothing catches it.
RulesLost(n) ==
    /\ loads' = RemoveAt(loads, n)
    /\ newest' = IF Newest(n) THEN "over" ELSE newest
    /\ UNCHANGED <<menu, mounted, restored, step, detector, valid, rulesState,
                   loadingRules, creating, selections, creations, overwritten>>

\* A refused search brings no rules.
LoadEnds(n) ==
    \/ \E rules \in SUBSET RulesOf(loads[n].type, loads[n].cluster) : GotRules(n, rules)
    \/ RulesLost(n)

(* The data source menu *)

\* The user picks another cluster.  A mounted wizard goes back to its initial state,
\* which is the restored one if there is one; the rules it loads are those of the log
\* type it had, and, when that has changed, those of its new one.
SelectDataSource(cluster) ==
    LET reset == IF restored = None THEN EmptyDetector ELSE restored IN
    /\ ~readOnly
    /\ cluster # dataSource
    /\ dataSource' = cluster
    /\ \/ /\ mounted
          /\ step' = IF restored = None THEN "define" ELSE "alerts"
          /\ detector' = reset
          /\ valid' = (restored # None)
          /\ allRules' = reset.rules /\ enabled' = reset.rules
          /\ creating' = FALSE
          /\ IF reset.type = detector.type THEN Load(<<detector.type>>, cluster)
                                           ELSE Load(<<detector.type, reset.type>>, cluster)
          /\ selections' = IF step = step' THEN selections
                           ELSE [n \in 1 .. Len(selections) |->
                                    IF selections[n].copy # None THEN selections[n]
                                    ELSE [selections[n] EXCEPT !.copy = detector]]
       \/ /\ ~mounted
          /\ UNCHANGED wizard
    /\ UNCHANGED <<readOnly, mounted, restored, creations, overwritten>>

(* The buttons *)

\* (mutant: the menu stays usable)
OnNextClickWithMenu ==
    /\ Defining
    /\ valid
    /\ step' = "alerts"
    /\ selections' = [n \in 1 .. Len(selections) |->
                        IF selections[n].copy # None THEN selections[n]
                        ELSE [selections[n] EXCEPT !.copy = detector]]
    /\ UNCHANGED <<menu, mounted, restored, detector, valid, rulesState, loadingRules,
                   creating, loads, creations, history>>

\* The first step goes away with its copy of the detector; rules may still be loading.
OnNextClick ==
    /\ Defining
    /\ valid
    /\ step' = "alerts"
    /\ readOnly' = TRUE
    /\ selections' = [n \in 1 .. Len(selections) |->
                        IF selections[n].copy # None THEN selections[n]
                        ELSE [selections[n] EXCEPT !.copy = detector]]
    /\ UNCHANGED <<dataSource, mounted, restored, detector, valid, rulesState,
                   loadingRules, creating, loads, creations, history>>

OnPreviousClick ==
    /\ mounted /\ step = "alerts"
    /\ ~creating
    /\ step' = "define"
    /\ readOnly' = FALSE
    /\ UNCHANGED <<dataSource, mounted, restored, detector, valid, rulesState,
                   loadingRules, creating, calls, history>>

RulesFit == \A rule \in detector.rules : rule.type = detector.type

\* onCreateClick up to its await of createMappings.
OnCreateClick ==
    /\ mounted /\ step = "alerts"
    /\ ~creating
    /\ Len(creations) < MaxCreations
    /\ creating' = TRUE
    /\ creations' = Append(creations,
           [at |-> "mapping", left |-> FALSE, fits |-> RulesFit,
            mapped |-> dataSource, created |-> None])
    /\ UNCHANGED <<menu, mounted, restored, step, detector, valid, rulesState,
                   loadingRules, loads, selections, history>>

\* createMappings is refused, or its answer is lost and the wizard stays as it is.
MappingsFail(n, lost) ==
    /\ creations[n].at = "mapping"
    /\ creations' = [creations EXCEPT ![n].at = IF lost THEN "lost" ELSE "refused"]
    /\ creating' = (creating /\ (lost \/ ~mounted))
    /\ UNCHANGED <<menu, mounted, restored, step, detector, valid, rulesState,
                   loadingRules, loads, selections, history>>

\* The mappings are stored: createDetector goes to the cluster that is active now, and
\* the user is taken to the details page.
MappingsStored(n) ==
    /\ creations[n].at = "mapping"
    /\ creations' = [creations EXCEPT ![n].at = "sent", ![n].created = dataSource]
    /\ \/ mounted /\ Leave
       \/ ~mounted /\ UNCHANGED <<readOnly, mounted, wizard>>
    /\ UNCHANGED <<dataSource, restored, overwritten>>

\* Cancel is a link to the list of detectors.
Cancel ==
    /\ mounted
    /\ Leave
    /\ creations' = [n \in 1 .. Len(creations) |->
                        [creations[n] EXCEPT !.left = @ \/ creations[n].at = "mapping"]]
    /\ UNCHANGED <<dataSource, restored, overwritten>>

Next ==
    \/ \E type \in LogTypes : OnDetectorTypeChange(type)
    \/ \E indices \in BOOLEAN : SelectIndices(indices)
    \/ LookUpMappings
    \/ \E rule \in allRules : OnRuleToggle(rule)
    \/ \E on \in BOOLEAN : OnAllRulesToggle(on)
    \/ \E cluster \in Clusters : SelectDataSource(cluster)
    \/ OnNextClick \/ OnPreviousClick \/ OnCreateClick \/ Cancel
    \/ \E n \in 1 .. Len(selections) : ApplySelection(n)
    \/ \E n \in 1 .. Len(loads) : LoadEnds(n)
    \/ \E n \in 1 .. Len(creations) :
         MappingsStored(n) \/ \E lost \in BOOLEAN : MappingsFail(n, lost)

Spec == Init /\ [][Next]_vars

-----------------------------------------------------------------------------
(* Properties *)

\* The rules that are sent with the detector are those the table shows as enabled, in
\* whatever order toggles, loads, selections and changes of the data source happen, as
\* long as no selection of indexes brings back the detector of a step that was left.
RulesAreToggled == (mounted /\ ~overwritten) => detector.rules = enabled

\* When the last rules that came are those of the newest load, the rules offered are of
\* the detector's log type on the active data source: neither a change of the log type
\* nor one of the data source forgets to load them anew.
RulesSettle ==
    (mounted /\ newest = "shown") => allRules \subseteq RulesOf(detector.type, dataSource)

\* The mappings and the detector are created on the same data source, unless the wizard
\* was restored or left: the menu is read-only at the second step.
MappedWhereCreated ==
    \A n \in 1 .. Len(creations) :
        (restored = None /\ creations[n].at = "sent" /\ ~creations[n].left)
            => creations[n].created = creations[n].mapped

\* "The detection rules are automatically populated based on your selected log type": a
\* detector that is created has rules of its log type.
RulesOfLogType ==
    \A n \in 1 .. Len(creations) : creations[n].at = "sent" => creations[n].fits

=============================================================================
