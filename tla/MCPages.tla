-------------------------------- MODULE MCPages --------------------------------
(***************************************************************************)
(* The pages that are checked each on its own, for TLC: those of a threat  *)
(* intelligence source, of the scan configuration, of log types, of a      *)
(* detection rule, of correlation rules, of alert triggers, of field       *)
(* mappings and of a new threat intelligence source; the way to them and   *)
(* the data source they show (Navigation); the Overview page; what is done *)
(* to alerts; and the flyouts of findings.  They share nothing but what    *)
(* is in each of the modules, so a behaviour follows one, chosen at the    *)
(* start.                                                                  *)
(* Variables of the same name in several of the modules are one variable   *)
(* here; those that the part has no use for stay FALSE.                    *)
(***************************************************************************)
EXTENDS Naturals, TLC

CONSTANTS NoSource, DataSources, MaxPage, MaxSelections, MaxMaps, MaxRules,
          FewEdits, MoreEdits, ManyEdits, MaxCalls, LogTypeNames, RuleNames, MaxTriggers,
          NoSelection, S3Fields, MaxReads, Alerts, Documents

VARIABLES
    part,           \* the part of the application that is followed
    calls, edits, cluster, active, page, touched, saved,
    exists, open, source, tab, item, isReadOnly, saveInProgress, pageIndex, iocs, failed,
    scanConfig, scanId, inputs, configureInProgress,
    version, globals, rows, logTypeToDelete, counted, logTypeDetails, initial, captured,
    isEditMode, orderly, tidy,
    stored, editor, detection, detectionObj, errors, isDetectionInvalid, unchecked, meant,
    rule, created, row, action, initialValues, values, period, dataFilterEnabled,
    groupByEnabled, loadingNotifications,
    form, stage, logType, threatIntel, triggers, panels, rulesOptions, searches, isValid, reused,
    retyped, misnamed, changes,
    mounted, selection, enabled, createdMappings, offered, fieldMappings, chosen, mixed,
    sourceType, valid, customSchema, fileUploadSource, customSchemaFileUploadSource,
    useCustomSchemaByType, inputErrors, inputTouched, submitInProgress, reads, schemaType,
    fileOwn, unread, clobbered, relaxed,
    loading,
    entries, at, ruleItem, selected, pending, shown, loadedFrom, navItem, dirty, moves, renders,
    aimed, told,
    dateTimeFilter, window, refreshState, running, overviewViewModel, refreshes, clean,
    selectedTabId, visit, listed, checked, selectedItems, flyoutData, changing, loads, announced,
    certain, alone,
    alertFlyout, opened, waiting, allRules, indexPatternId, loadingIndexPatternId,
    correlatedFindings, areCorrelationsLoading, expanded, modal, selectedTab, asks, clicks, behind,
    settledName,
    documentsByIndex, docIdToDocument, docIdToExpandedRowMap, fetches, toggles, wanted, calm

ofSource == <<exists, open, source, tab, item, isReadOnly, saveInProgress, pageIndex, iocs, failed>>
ofScan == <<scanConfig, scanId, inputs, configureInProgress>>
ofLogTypes == <<version, globals, rows, logTypeToDelete, counted, logTypeDetails, initial,
                captured, isEditMode, orderly, tidy>>
ofEditor == <<editor, detection, detectionObj, errors, isDetectionInvalid, unchecked, meant>>
ofRules == <<rule, created, row, action, initialValues, values, period, dataFilterEnabled,
             groupByEnabled, loadingNotifications>>
ofTriggers == <<stage, logType, threatIntel, triggers, panels, rulesOptions, searches, isValid,
                reused, retyped, misnamed>>
ofMappings == <<mounted, selection, createdMappings, offered, fieldMappings, chosen, mixed>>
ofNewSource == <<sourceType, valid, customSchema, fileUploadSource, customSchemaFileUploadSource,
                 useCustomSchemaByType, inputErrors, inputTouched, submitInProgress, reads,
                 schemaType, fileOwn, unread, clobbered, relaxed>>
ofNavigation == <<entries, at, ruleItem, selected, pending, shown, loadedFrom, navItem, dirty,
                  moves, renders, aimed, told>>
ofOverview == <<dateTimeFilter, window, refreshState, running, overviewViewModel, refreshes, clean>>
ofAlerts == <<selectedTabId, visit, listed, checked, selectedItems, flyoutData, changing, loads,
              announced, certain, alone>>
ofFlyout == <<alertFlyout, opened, waiting, allRules, indexPatternId, loadingIndexPatternId,
              correlatedFindings, areCorrelationsLoading, expanded, modal, selectedTab, asks,
              clicks, behind, settledName>>
ofDocuments == <<documentsByIndex, docIdToDocument, docIdToExpandedRowMap, fetches, toggles,
                 wanted, calm>>
ofFlyouts == <<ofAlerts, ofFlyout, ofDocuments>>
ofVisits == <<loading, ofNavigation, ofOverview>>
ofForms == <<ofSource, ofScan, ofLogTypes, ofEditor, ofRules, ofTriggers, ofMappings, ofNewSource>>
shared == <<calls, edits, cluster, active, page, touched, saved, stored, form, changes, enabled>>
vars == <<part, shared, ofForms, ofVisits, ofFlyouts>>

TS == INSTANCE ThreatIntelSource WITH MaxEdits <- MoreEdits
SC == INSTANCE ThreatIntelScan WITH MaxEdits <- FewEdits
LT == INSTANCE LogTypes WITH MaxEdits <- FewEdits
RE == INSTANCE RuleEditor WITH MaxEdits <- MoreEdits, MaxCalls <- 1
CR == INSTANCE CorrelationRules WITH MaxEdits <- ManyEdits
AT == INSTANCE AlertTriggers WITH LogTypes <- LogTypeNames, MaxChanges <- ManyEdits + 1
NS == INSTANCE NewThreatIntelSource WITH MaxChanges <- ManyEdits + 3

\* Of the fields of the rules, one is mapped automatically where the index has a mapping of
\* another and one where it has one of its own, the timestamp; a field of the log is missing in one
\* of the two.
OneMapping(f, field) == [g \in {f} |-> field]
FM == INSTANCE FieldMappings WITH
    RuleFields <- {"a", "b"}, Timestamp <- "b", ThreatFields <- {"a"},
    LogFields <- {"x", "y"}, MaxChanges <- ManyEdits + 1,
    Paths <- [s \in {"s1", "s2"} |->
                 IF s = "s1" THEN OneMapping("a", "x") ELSE OneMapping("b", "y")],
    Stored <- [s \in {"s1", "s2"} |-> OneMapping("b", IF s = "s1" THEN "x" ELSE "y")],
    Options <- [s \in {"s1", "s2"} |-> IF s = "s1" THEN {"x", "y"} ELSE {"y"}]

\* Of the paths with a data source of their own, one for each way to find its parent.
NA == INSTANCE Navigation WITH
    MaxMoves <- MoreEdits + 1,
    Visits <- {<<"overview">>, <<"detectors">>, <<"detector-details", "d">>,
               <<"log-types", "l">>, <<"edit-rule">>}
VW == INSTANCE Overview WITH MaxDetectors <- 2, MaxChanges <- MoreEdits
AA == INSTANCE AlertActions WITH MaxChanges <- MoreEdits

\* A field that two names of index patterns have, and one that only one of them has.
FF == INSTANCE FindingFlyout WITH
    Names <- {"p", "q"}, DateFields <- ("p" :> {"t", "u"}) @@ ("q" :> {"u"}),
    MaxClicks <- ManyEdits + 1
DF == INSTANCE DocumentFlyout WITH MaxToggles <- ManyEdits

ASSUME MCPagesAssumption ==
    /\ {FewEdits, MoreEdits, ManyEdits, MaxPage, MaxRules, MaxMaps} \subseteq Nat
    /\ {MaxCalls, MaxTriggers} \subseteq Nat \ {0} /\ MaxSelections \in Nat \ {0, 1}
    /\ S3Fields \cap {"name", "schedule", "customSchema", "s3Schema", "file", "fileSchema",
                      "iocFileUpload", "customSchemaIocFileUpload"} = {}
    /\ AA!Absent \notin Alerts /\ NA!Unset \notin DataSources

NoSourcePage ==
    /\ exists = FALSE /\ open = FALSE /\ source = FALSE /\ tab = FALSE /\ item = FALSE
    /\ isReadOnly = FALSE /\ saveInProgress = FALSE /\ pageIndex = FALSE /\ iocs = FALSE
    /\ failed = FALSE
NoScan == scanConfig = FALSE /\ scanId = FALSE /\ inputs = FALSE /\ configureInProgress = FALSE
NoLogTypes ==
    /\ version = FALSE /\ globals = FALSE /\ rows = FALSE /\ logTypeToDelete = FALSE
    /\ counted = FALSE /\ logTypeDetails = FALSE /\ initial = FALSE /\ captured = FALSE
    /\ isEditMode = FALSE /\ orderly = FALSE /\ tidy = FALSE
NoEditor ==
    /\ editor = FALSE /\ detection = FALSE /\ detectionObj = FALSE
    /\ errors = FALSE /\ isDetectionInvalid = FALSE /\ unchecked = FALSE /\ meant = FALSE
NoRules ==
    /\ rule = FALSE /\ created = FALSE /\ row = FALSE /\ action = FALSE
    /\ initialValues = FALSE /\ values = FALSE /\ period = FALSE
    /\ dataFilterEnabled = FALSE /\ groupByEnabled = FALSE /\ loadingNotifications = FALSE
NoTriggers ==
    /\ stage = FALSE /\ logType = FALSE /\ threatIntel = FALSE /\ triggers = FALSE
    /\ panels = FALSE /\ rulesOptions = FALSE /\ isValid = FALSE /\ reused = FALSE
    /\ retyped = FALSE /\ misnamed = FALSE /\ searches = FALSE
NoMappingForm ==
    /\ mounted = FALSE /\ selection = FALSE /\ createdMappings = FALSE /\ offered = FALSE
    /\ fieldMappings = FALSE /\ chosen = FALSE /\ mixed = FALSE
NoNewSource ==
    /\ sourceType = FALSE /\ valid = FALSE /\ customSchema = FALSE /\ fileUploadSource = FALSE
    /\ customSchemaFileUploadSource = FALSE /\ useCustomSchemaByType = FALSE
    /\ inputErrors = FALSE /\ inputTouched = FALSE /\ submitInProgress = FALSE
    /\ reads = FALSE /\ schemaType = FALSE /\ fileOwn = FALSE /\ unread = FALSE
    /\ clobbered = FALSE /\ relaxed = FALSE

NoForms ==
    /\ NoSourcePage /\ NoScan /\ NoLogTypes /\ NoEditor /\ NoRules /\ NoTriggers /\ NoMappingForm
    /\ NoNewSource
NoNavigation ==
    /\ entries = FALSE /\ at = FALSE /\ ruleItem = FALSE /\ selected = FALSE /\ pending = FALSE
    /\ shown = FALSE /\ loadedFrom = FALSE /\ navItem = FALSE /\ dirty = FALSE /\ moves = FALSE
    /\ renders = FALSE /\ aimed = FALSE /\ told = FALSE
NoOverview ==
    /\ dateTimeFilter = FALSE /\ window = FALSE /\ refreshState = FALSE /\ running = FALSE
    /\ overviewViewModel = FALSE /\ refreshes = FALSE /\ clean = FALSE
NoVisits == loading = FALSE /\ NoNavigation /\ NoOverview
NoAlerts ==
    /\ selectedTabId = FALSE /\ visit = FALSE /\ listed = FALSE /\ checked = FALSE
    /\ selectedItems = FALSE /\ flyoutData = FALSE /\ changing = FALSE /\ loads = FALSE
    /\ announced = FALSE /\ certain = FALSE /\ alone = FALSE
NoFlyout ==
    /\ alertFlyout = FALSE /\ opened = FALSE /\ waiting = FALSE /\ allRules = FALSE
    /\ indexPatternId = FALSE /\ loadingIndexPatternId = FALSE /\ correlatedFindings = FALSE
    /\ areCorrelationsLoading = FALSE /\ expanded = FALSE /\ modal = FALSE
    /\ selectedTab = FALSE /\ asks = FALSE /\ clicks = FALSE /\ behind = FALSE
    /\ settledName = FALSE
NoDocuments ==
    /\ documentsByIndex = FALSE /\ docIdToDocument = FALSE /\ docIdToExpandedRowMap = FALSE
    /\ fetches = FALSE /\ toggles = FALSE /\ wanted = FALSE /\ calm = FALSE
NoFlyouts == NoAlerts /\ NoFlyout /\ NoDocuments

Init ==
    \/ /\ part = "source" /\ TS!Init
       /\ active = FALSE /\ page = FALSE /\ touched = FALSE /\ stored = FALSE /\ form = FALSE
       /\ changes = FALSE /\ enabled = FALSE
       /\ NoScan /\ NoLogTypes /\ NoEditor /\ NoRules /\ NoTriggers /\ NoMappingForm
       /\ NoNewSource /\ NoVisits /\ NoFlyouts
    \/ /\ part = "scan" /\ SC!Init
       /\ touched = FALSE /\ stored = FALSE /\ form = FALSE /\ changes = FALSE /\ enabled = FALSE
       /\ NoSourcePage /\ NoLogTypes /\ NoEditor /\ NoRules /\ NoTriggers /\ NoMappingForm
       /\ NoNewSource /\ NoVisits /\ NoFlyouts
    \/ /\ part = "logTypes" /\ LT!Init
       /\ cluster = FALSE /\ saved = FALSE /\ stored = FALSE /\ form = FALSE /\ changes = FALSE
       /\ enabled = FALSE
       /\ NoSourcePage /\ NoScan /\ NoEditor /\ NoRules /\ NoTriggers /\ NoMappingForm
       /\ NoNewSource /\ NoVisits /\ NoFlyouts
    \/ /\ part = "editor" /\ RE!Init
       /\ cluster = FALSE /\ active = FALSE /\ page = FALSE /\ saved = FALSE /\ form = FALSE
       /\ changes = FALSE /\ enabled = FALSE
       /\ NoSourcePage /\ NoScan /\ NoLogTypes /\ NoRules /\ NoTriggers /\ NoMappingForm
       /\ NoNewSource /\ NoVisits /\ NoFlyouts
    \/ /\ part = "rules" /\ CR!Init
       /\ cluster = FALSE /\ active = FALSE /\ stored = FALSE /\ form = FALSE /\ changes = FALSE
       /\ enabled = FALSE
       /\ NoSourcePage /\ NoScan /\ NoLogTypes /\ NoEditor /\ NoTriggers /\ NoMappingForm
       /\ NoNewSource /\ NoVisits /\ NoFlyouts
    \/ /\ part = "triggers" /\ AT!Init
       /\ calls = FALSE /\ edits = FALSE /\ cluster = FALSE /\ active = FALSE /\ page = FALSE
       /\ touched = FALSE /\ saved = FALSE /\ enabled = FALSE
       /\ NoSourcePage /\ NoScan /\ NoLogTypes /\ NoEditor /\ NoRules /\ NoMappingForm
       /\ NoNewSource /\ NoVisits /\ NoFlyouts
    \/ /\ part = "mappings" /\ FM!Init
       /\ edits = FALSE /\ cluster = FALSE /\ active = FALSE /\ page = FALSE /\ touched = FALSE
       /\ saved = FALSE /\ stored = FALSE
       /\ NoSourcePage /\ NoScan /\ NoLogTypes /\ NoEditor /\ NoRules /\ NoTriggers /\ NoNewSource
       /\ NoVisits /\ NoFlyouts
    \/ /\ part = "newSource" /\ NS!Init
       /\ calls = FALSE /\ edits = FALSE /\ cluster = FALSE /\ active = FALSE /\ page = FALSE
       /\ touched = FALSE /\ saved = FALSE /\ stored = FALSE /\ form = FALSE
       /\ NoSourcePage /\ NoScan /\ NoLogTypes /\ NoEditor /\ NoRules /\ NoTriggers
       /\ NoMappingForm /\ NoVisits /\ NoFlyouts
    \/ /\ part = "navigation" /\ NA!Init
       /\ calls = FALSE /\ edits = FALSE /\ cluster = FALSE /\ touched = FALSE /\ saved = FALSE
       /\ stored = FALSE /\ form = FALSE /\ changes = FALSE /\ enabled = FALSE
       /\ NoForms /\ NoOverview /\ NoFlyouts
    \/ /\ part = "overview" /\ VW!Init
       /\ calls = FALSE /\ edits = FALSE /\ cluster = FALSE /\ page = FALSE /\ touched = FALSE
       /\ saved = FALSE /\ stored = FALSE /\ form = FALSE /\ enabled = FALSE
       /\ NoForms /\ NoNavigation /\ NoFlyouts
    \/ /\ part = "alerts" /\ AA!Init
       /\ calls = FALSE /\ edits = FALSE /\ active = FALSE /\ page = FALSE /\ touched = FALSE
       /\ saved = FALSE /\ stored = FALSE /\ form = FALSE /\ enabled = FALSE
       /\ NoForms /\ NoVisits /\ NoFlyout /\ NoDocuments
    \/ /\ part = "finding" /\ FF!Init
       /\ calls = FALSE /\ edits = FALSE /\ cluster = FALSE /\ active = FALSE /\ page = FALSE
       /\ touched = FALSE /\ saved = FALSE /\ stored = FALSE /\ changes = FALSE /\ enabled = FALSE
       /\ NoForms /\ NoVisits /\ NoAlerts /\ NoDocuments
    \/ /\ part = "documents" /\ DF!Init
       /\ calls = FALSE /\ edits = FALSE /\ cluster = FALSE /\ active = FALSE /\ touched = FALSE
       /\ saved = FALSE /\ form = FALSE /\ changes = FALSE /\ enabled = FALSE
       /\ NoForms /\ NoVisits /\ NoAlerts /\ NoFlyout

Next ==
    \/ /\ part = "source" /\ TS!Next
       /\ UNCHANGED <<part, active, page, touched, stored, form, changes, enabled, ofScan,
                      ofLogTypes, ofEditor, ofRules, ofTriggers, ofMappings, ofNewSource,
                      ofVisits, ofFlyouts>>
    \/ /\ part = "scan" /\ SC!Next
       /\ UNCHANGED <<part, touched, stored, form, changes, enabled, ofSource, ofLogTypes,
                      ofEditor, ofRules, ofTriggers, ofMappings, ofNewSource, ofVisits, ofFlyouts>>
    \/ /\ part = "logTypes" /\ LT!Next
       /\ UNCHANGED <<part, cluster, saved, stored, form, changes, enabled, ofSource, ofScan,
                      ofEditor, ofRules, ofTriggers, ofMappings, ofNewSource, ofVisits, ofFlyouts>>
    \/ /\ part = "editor" /\ RE!Next
       /\ UNCHANGED <<part, cluster, active, page, saved, form, changes, enabled, ofSource,
                      ofScan, ofLogTypes, ofRules, ofTriggers, ofMappings, ofNewSource, ofVisits,
                      ofFlyouts>>
    \/ /\ part = "rules" /\ CR!Next
       /\ UNCHANGED <<part, cluster, active, stored, form, changes, enabled, ofSource, ofScan,
                      ofLogTypes, ofEditor, ofTriggers, ofMappings, ofNewSource, ofVisits,
                      ofFlyouts>>
    \/ /\ part = "triggers" /\ AT!Next
       /\ UNCHANGED <<part, calls, edits, cluster, active, page, touched, saved, enabled,
                      ofSource, ofScan, ofLogTypes, ofEditor, ofRules, ofMappings, ofNewSource,
                      ofVisits, ofFlyouts>>
    \/ /\ part = "mappings" /\ FM!Next
       /\ UNCHANGED <<part, edits, cluster, active, page, touched, saved, stored, ofSource,
                      ofScan, ofLogTypes, ofEditor, ofRules, ofTriggers, ofNewSource, ofVisits,
                      ofFlyouts>>
    \/ /\ part = "newSource" /\ NS!Next
       /\ UNCHANGED <<part, calls, edits, cluster, active, page, touched, saved, stored, form,
                      ofSource, ofScan, ofLogTypes, ofEditor, ofRules, ofTriggers, ofMappings,
                      ofVisits, ofFlyouts>>
    \/ /\ part = "navigation" /\ NA!Next
       /\ UNCHANGED <<part, calls, edits, cluster, touched, saved, stored, form, changes, enabled,
                      ofForms, ofOverview, ofFlyouts>>
    \/ /\ part = "overview" /\ VW!Next
       /\ UNCHANGED <<part, calls, edits, cluster, page, touched, saved, stored, form, enabled,
                      ofForms, ofNavigation, ofFlyouts>>
    \/ /\ part = "alerts" /\ AA!Next
       /\ UNCHANGED <<part, calls, edits, active, page, touched, saved, stored, form, enabled,
                      ofForms, ofVisits, ofFlyout, ofDocuments>>
    \/ /\ part = "finding" /\ FF!Next
       /\ UNCHANGED <<part, calls, edits, cluster, active, page, touched, saved, stored, changes,
                      enabled, ofForms, ofVisits, ofAlerts, ofDocuments>>
    \/ /\ part = "documents" /\ DF!Next
       /\ UNCHANGED <<part, calls, edits, cluster, active, touched, saved, form, changes, enabled,
                      ofForms, ofVisits, ofAlerts, ofFlyout>>

Spec == Init /\ [][Next]_vars

\* No data source is special: the application starts on any of them.
Symmetry == Permutations(DataSources)

-----------------------------------------------------------------------------
(* The properties of the parts *)

\* The variables of the part that is followed have their types.
TypeOK ==
    /\ part = "source" => TS!TypeOK
    /\ part = "scan" => SC!TypeOK
    /\ part = "logTypes" => LT!TypeOK
    /\ part = "editor" => RE!TypeOK
    /\ part = "rules" => CR!TypeOK
    /\ part = "triggers" => AT!TypeOK
    /\ part = "mappings" => FM!TypeOK
    /\ part = "newSource" => NS!TypeOK
    /\ part = "navigation" => NA!TypeOK
    /\ part = "overview" => VW!TypeOK
    /\ part = "alerts" => AA!TypeOK
    /\ part = "finding" => FF!TypeOK
    /\ part = "documents" => DF!TypeOK

\* Page, form and button, which each write a whole source, do not undo each other.
SourceKept == part = "source" => TS!SourceKept

\* The overview and the form of the scan configuration do not undo each other.
ScanKept == part = "scan" => SC!ScanKept

\* What pages load settles on what they say they show: the log types that every page reads are
\* those of the active data source, and the page of a log type shows what the cluster holds; the
\* rows of indicators are of the page that the pagination names; all parts of the Overview are of
\* its data source and time range; and the flyouts of findings show what was loaded for them and
\* the documents that the user expanded.  Each but for the known ways to disturb it.
PagesCurrent ==
    /\ part = "logTypes" => LT!LogTypesSettle /\ LT!DetailsShown
    /\ part = "source" => TS!IocsMatchPage
    /\ part = "overview" => VW!OverviewSettles
    /\ part = "finding" => FF!FlyoutCurrent
    /\ part = "documents" => DF!DocumentsShown

\* After alerts were acknowledged or completed, wholly or in part, the page shows the states that
\* the cluster has, and has told of nothing else.
AlertsHandled == part = "alerts" => AA!AlertsHandled

\* Going somewhere, or selecting a data source, ends at the page that was meant, shown and loaded
\* for one data source.
NavigationSettles == part = "navigation" => NA!NavigationSettles

\* A rule that is opened again shows what was shown when it was submitted.
RuleShown == part = "editor" => RE!RuleShown

\* A correlation rule holds every part as it was last changed in a form that was saved.
PartsKept == part = "rules" => CR!PartsKept

\* Alert triggers are saved only when they are valid, shown by the panels as they are, and about
\* the rules and log type of their detector; but for the known ways to mix them up.
TriggersHold == part = "triggers" => AT!TriggersHold

\* What is shown and saved of the field mappings is what the user set.
MappingsHold == part = "mappings" => FM!MappingsHold

\* A new source can be submitted only when it has everything it needs; but for the known ways
\* around the checks of the form.
SubmitsComplete == part = "newSource" => NS!SubmitsComplete

=============================================================================
