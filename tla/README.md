# Security Analytics Dashboards: TLA+ models

The plugin is a user interface (`public/`, React class components and a few
singleton stores) and a thin server (`server/`) that forwards requests to the
Security Analytics plugin of an OpenSearch cluster. All its state is in the
browser and in the cluster. What makes it hard is that every page is a set of
promises: between any two awaits the user clicks, another answer arrives, the page
is left, or another cluster becomes the active one, and the continuation runs on
whatever state it then finds. The modules here model that.

Line numbers are those of `src/` at the commit these modules were written for;
`PROJECT.json` ("map") gives the lines of every definition.

## 1. Inventory

| Component | State | Operations | Talks to | Modules |
|---|---|---|---|---|
| Rules cache (`RulesStore.ts`) | `cache`: search -> rules | `getAllRules`, `getCustomRules`, `getPrePackagedRules`, `createRule`, `updateRule`, `deleteRule`, `invalidateCache` | rule routes; called by nine pages | `RulesStore` |
| Detector creation (`CreateDetector.onCreateClick`, `DetectorsStore`, `DetectorDetails`, `SavedObjectService`, `IndexPatternsService`) | the pending creation `DetectorsStore.state`, toasts, callout, details page; detector, index pattern and dashboard in the cluster | press Create, resolve a pending creation, make saved objects, load, delete, notification buttons | wizard and details page share the store; saved objects client | `DetectorCreation` |
| Detector wizard (`CreateDetector`, `DefineDetector`, `DetectorDataSource`) | the detector being defined, rules shown and enabled, step, validity, data source menu | log type, indexes, rule toggles, Next, Back, Create, Cancel, change of data source | RulesStore, field mappings, `Main` | `DetectorWizard` |
| Paged fetching (`AlertsStore`, `FindingsStore`, `ThreatIntelStore`) | local variables of one call | four loops over pages of at most 10,000 items | alert and finding routes; Alerts, Findings, Overview and details pages | `PagedFetch` |
| Alerts page (`Alerts.tsx`, its flyouts) | three lists, filtered lists, `loading`, `abortControllers`, selections, the alert in the flyout | load per tab, refresh, time range, abort; acknowledge and complete | paged fetching, CorrelationsStore | `AlertsPage` with `LatestLoad`, `AlertActions` |
| Findings page (`Findings.tsx`, its flyouts) | findings and their rules, two tabs; a flyout with its tabs and a form | load, group, filter, show a finding and its documents, make an index pattern | FindingsStore, RulesStore | `FindingsPage`, `FindingFlyout`, `DocumentFlyout` |
| Detector editing and list (`UpdateBasicDetails`, `UpdateRules`, `UpdateFieldMappings`, `UpdateAlertConditions`, `Detectors`) | a copy of the whole detector per page | load, change, save, toggle, delete | detector and mapping routes | `DetectorEditing` |
| Correlations (`CorrelationsStore`, container, rule form) | rules, graph, table, form | create and edit rules, build the graph and the table | correlation routes | `Correlations`, `CorrelationRules` |
| Threat intelligence (sources, scan configuration) | a source, its form and indicators; one scan configuration | add, edit, refresh, activate, delete, configure, start and stop the scan | threat intelligence routes | `ThreatIntelSource`, `NewThreatIntelSource`, `ThreatIntelScan` |
| Log types (`LogTypeStore`) | the globals `ruleTypes`, `logTypesByCategories` | list, create, update, delete | read by every page | `LogTypes` |
| Data sources and navigation (`Main`, `DataSourceMenuWrapper`, `dataSourceInfo`, the history of `security_analytics_app`) | the location with its `dataSourceId`, the selected and the active data source, the item of the side navigation | select, go somewhere, Back and Forward, redirect | every service reads the global | `Navigation` |
| Rule editor (`RuleEditorForm`, `DetectionVisualEditor`, `mappers.ts`) | form, Sigma rule | form to rule and back, YAML, validation | RulesStore | `RuleEditor` |
| Overview (`OverviewViewModel`) | five parts of a view model, the state of the refresh | refresh, time range, data source | the stores above | `Overview` |
| Field mappings (`ConfigureFieldMapping`, `EditFieldMapping`) | mappings of the form and of the page around it | load views and mappings, merge, set, remove | mapping routes | `FieldMappings` |
| Alert triggers (`ConfigureAlerts`, `AlertConditionPanel`) | triggers, one panel each with state of its own | add, change, delete, save | wizard, `UpdateAlertConditions` | `AlertTriggers` |
| Documents (`DocumentStore`) | documents by index and id | fetch one | threat intelligence flyout | `DocumentFlyout` |
| Server routes (`server/`) | none | one request each, through four layers | cluster | `Requests` |
| Presentation, metrics | none that matters | charts, wording, counters | - | - |

What makes each correct, in short:

- the rules cache never answers from before a write that was over when it was asked;
- one press of Create makes one detector, after its mappings; a page that resolves a
  creation resolves its own; what the user is told is what happened; deleting
  leaves no dashboard of a detector that is gone;
- the wizard creates what it shows, from rules of the detector's log type, on the
  cluster where it put the mappings;
- a loop over pages ends, misses nothing, and shows what it returns;
- a list holds what its newest load brought, and the spinner goes away;
- edits of a detector, a source, the scan configuration or a correlation rule do not undo
  each other; a rule that is opened again is the one that was submitted; triggers and mappings
  are what the user set;
- what a page shows of several answers is all of one data source, time range or finding; going
  somewhere ends there; a request runs on the cluster it was made for.

The hard behaviours: answers out of order, continuations after their page is gone,
half-done sequences of requests (none is a transaction), lost answers to requests
that were done, an unguarded global for the active cluster, aborts that are
looked at only here and there, arithmetic on start indexes. `PROJECT.json`
("hazards") lists them, each at its line, with the properties that would catch it.
There is no persistence in the browser and no thread, so that there are no crashes to
recover from and no data races.

## 2. Modules

An action is what runs between two awaits. An await is a place (`pc`, `task`,
`at`, an entry of `loads`), with the request the call waits for; the answer is chosen
when it arrives: an answer, a refusal (`ok: false`), or a rejected promise. Where the
answer of a write is lost, both are possible: the cluster did it, or not.
`setState` of an unmounted component is modelled as doing nothing, with its callback
not called.

### RulesStore (with MCRulesStore and RulesStoreProofs)

`cache`, `revision` (how often the custom rules of each cluster were written),
`generation` (how often the cache was invalidated). Calls are readers
(`getCustomRules`, `getPrePackagedRules`), loaders (`getAllRules`, two searches one
after the other) and writers. A list of rules is abstracted to where and when it was
read. `Lower` is the lower-casing of the categories: `getRules` puts the filter
object of its caller into lower case, after it made the cache key, so that the second
search of `getAllRules` has another key than a first search with the same
arguments would. A search without a filter is one whose
filter is in lower case already. Left out: YAML and validation.

### DetectorCreation (with DetectorCreationProofs)

An attempt is one opening of the wizard and names the detector it may create; a visit
is one mounted `DetectorDetails`. `store` is the creation `DetectorsStore` holds,
`task` is what a visit waits for: `pending`, `pattern`, `dashboard`, `lookup` in
`resolvePendingCreationRequest`, `find` to `dropDetector` in `onDelete`. The actions
follow `onCreateClick` (both sides of its await), `componentDidMount`,
`getPendingDetector`, `createSavedObject`, `getDetector`, `onDelete` and the buttons of
the notifications; `Finish` is shared by the three ways a resolution ends. The route
of the details page keeps the component when only the id changes (`PushDetails`).
The index pattern of a detector may or may not be found when it is deleted
(`DropPattern`): the lookup goes through a cache of another plugin.

### DetectorWizard (with MCDetectorWizard and DetectorWizardProofs)

The first and the last step of the wizard, with the data source menu. `loads` are the
calls of `setupRulesState` that wait, in the order they were made and answered in
any order; `selections` are selections of indexes that wait for field mappings, each
with the copy of the detector their step knew when it was left; `creations` are
presses of Create between `createMappings` and `createDetector`. A wizard may be
opened with the input of a failed creation (`restored`), which
`ReviewConfiguration` of DetectorCreation does. Name, schedule, mappings and triggers
are taken as filled in.

### PagedFetch (with PagedFetchProofs)

One call of one of the four loops: `getAlertsByDetector`, `getThreatIntelAlerts`,
`getFindingsPerDetector` (whose later pages are requested at once and come in any
order) and `getAllThreatIntelFindings`. Items are numbered as they arrive and listed
newest first, so that items move across pages while the loop runs. `Reply` is the
plugin's server, which forwards `startIndex` for all but the alerts of a detector.

### AlertsPage and LatestLoad (with AlertsPageProofs)

The Alerts page with any number of loads under way; a load for detections goes through
the detectors one after the other (which comes next is open: the order is that of
the answer). `AbortPending` aborts the loads before it; correlation alerts take no
signal. `LatestLoad` is the abstract promise of a page with a list: the list only
ever holds what the newest load brought. `AlertsPage` implements it twice
(`INSTANCE ... WITH`), once for detections and once for threat intelligence. It
composes with PagedFetch by its interface: there one call and its pages, here calls
that bring their whole answer or are aborted.

### DetectorPages: DetectorEditing, FindingsPage, Correlations, Requests (with DetectorPagesProofs)

`DetectorPages` composes four modules for TLC. They share no state of the program, so a
behaviour follows one of them, `part`, chosen at the start; the variables of the others stay
`FALSE`, and variables of the same name are one.

- **DetectorEditing**: the list, the details page and the four edit pages. `cluster` is the
  detector there; `copy` is what the page was handed or loaded, `shown` what it displays, `hit` the
  copy that the location carries. A part of a detector is the number of the edit that gave it its
  value; the switch of a detector is an edit as well, with numbers of its own. Calls outlive their
  page: `live` says whether the page is still the one that made them. A search carries what the
  cluster held when it was answered there (`Found`), and may reach the browser late; `Refresh`
  reloads the list while a write of it is on its way.
- **FindingsPage**: loads with their signals (`aborted`), the pages they asked for (`requests`), and
  those that came and wait for their rules (`streaming`). What is on a page is left to `PagedFetch`.
- **Correlations**: the graph and the table of `CorrelationsContainer`, each with calls of its own; a
  view is a time range, filters and a data source. The page may be opened for a finding handed over
  in the location, which `Mount` shows alone, or which its filters hide (`hidden`): then
  `updateState` returns early, and neither that finding nor the correlations of the window come.
- **Requests**: one request on its way through the service of the browser, the route with its
  schema, the handler that picks the client, and the method of the client. Each layer is a table
  with one line per operation, taken from the files of that layer and put together by `Joined`.

### MCPages: thirteen parts of the application (with FormsProofs and PagesProofs)

`MCPages` composes the others in the same way.

- **ThreatIntelSource**: the page of a source, its form and the table of indicators; page, form and
  the button of activation each write the whole source; its writes and its deletion go on when it
  is left. **NewThreatIntelSource**: the form that adds
  one, with files that are read while the user goes on, with or without indicators in them, or fail
  to be read, and a schema of which `parseCustomSchema` may drop entries. **ThreatIntelScan**: the one scan
  configuration, between the overview and a form that stays mounted across two routes.
- **LogTypes**: the globals that every page reads, the list and its dialog, creation, and the page of
  a log type with the copy it started from.
- **RuleEditor**: the form, the visual editor with its own `detectionObj`, which it compiles at every
  change, and the text editor; `Compile` and `Parse` are the mappers. `Names` has two that pass the
  check of names and are written in a way of their own: of the maps of `timeframe` one value is kept,
  and a selection named `condition` takes the place of the condition; the visual editor cannot be
  rendered with a rule like that (`Mountable`, `Breaks`). **CorrelationRules**: the list
  and the form, which loads the rule, its notification channels and its options apart; the query
  string is cut at colons, as `getCorrelationRules` cuts it.
- **AlertTriggers**: panels that are told apart by position and keep state of their own. In the
  wizard a new log type starts a search (`searches`); the rules of the former one are offered until
  it answers (`GotRules`), on whichever step the user is by then.
  **FieldMappings**: the form's mappings, the copy of the page around it, and the answers merged
  into them; one of the rule fields is the `timestamp`, which is needed as soon as a rule is, and
  one is listed for threat intelligence.
- **Navigation**: a location is replaced while `Main` is rendered, or by `componentDidUpdate`; one
  `Render` is the menu, the page and the update. The tables of routes, read-only paths, hidden and
  side navigation are those of the code. `told` records that the global data source was set at all.
- **Overview**: the five steps of `OverviewViewModelActor.onRefresh`, with its three callers and
  their abort controllers. A part of the page is known by the refresh, the data sources and the
  ranges that its requests were about.
- **AlertActions**: what the user does to alerts, detector by detector; `AlertsPage` is about loading
  them. The selection inside the table is not part of the source and stays when rows stay.
  A failed load empties the table, except the one of threat intelligence alerts, which keeps the
  rows it had.
- **FindingFlyout**: the flyout of a finding makes the content of a tab at some occasions
  (`TabContent`) and does not follow what comes later; with `CreateIndexPatternForm`.
  **DocumentFlyout**: rows that are expanded before their document came, with `DocumentStore`.

## 3. Runs

All runs are without deadlock checking, because these systems may stop: calls are
made a bounded number of times and a user may do nothing.

| Run | Shows | Bounds |
|---|---|---|
| `rules_store` | `CustomRulesFresh`, `CacheCoherent`: the custom rules of `getAllRules` hold every write done before it was called, and an entry that no write overlapped is what the cluster holds | one reader, one loader, one writer, two clusters, a filter in mixed and in lower case |
| `rules_store_stale` (violated) | `PrePackagedFresh`: the pre-packaged half can come from before the invalidation | two loaders, two clusters, one filter in lower case |
| `detector_creation` | `OneDetectorPerAttempt`, `ResolvesItsOwn`, `TruthfulToasts`, `NoOrphanDashboard`, and `CreationAnnounced` under fairness | two attempts, of which one has a dashboard, two visits |
| `detector_creation_twice` (violated) | `OneIndexPattern`: two visits resolve one creation and make two index patterns | the same |
| `paged_fetch` | `NothingMissed`, `ShownOnce`, `QuietAfterAbort`, and `FetchEnds` under fairness | pages of two, six items |
| `paged_fetch_alerts` (violated) | `AlertsFetchEnds`: with a full page of alerts the loop never ends | pages of two, four items |
| `paged_fetch_findings` (violated) | `FindingsComplete`: the finding between the first two pages is missed | pages of two, four items |
| `alerts_page` | `SettledCurrent`, the refinement `OnlyNewestLoad`, and `LoadingEnds` under fairness | two detectors, clusters, ranges; three loads |
| `detector_wizard` | `RulesAreToggled`, `RulesSettle`, `MappedWhereCreated` | two log types, two clusters, two loads at a time, a selection, a creation |
| `detector_wizard_rules` (violated) | `RulesOfLogType`: Create does not wait for the rules of the log type | the same, no selection |
| `detector_pages` | `UndoesNothing`, `RulesBeforeFindings`, `CorrelationsCurrent`, `RequestsArrive`, `AbortStops`, and `WaitingEnds` under fairness | editing: one edit and any number of saves, two calls that wait; findings: two loads, two detectors, two pages; correlations: two findings, three views, three calls; requests: the local cluster and two others, three optional parameters |
| `pages` | `SourceKept`, `ScanKept`, `PagesCurrent`, `AlertsHandled`, `NavigationSettles`, `RuleShown`, `PartsKept`, `TriggersHold`, `MappingsHold`, `SubmitsComplete` | two data sources; one to three edits per part (two in the rule editor, on a rule of two selections or of the second one alone), two calls that wait (one in the rule editor); table pages 0 and 1; two selections of two maps; one correlation rule; two triggers, four changes; two rule and two log fields, four changes; six changes of the form of a new source, one file read at a time; three moves over five paths; two detectors and two changes on the Overview; two alerts and two actions; two names of index patterns, four clicks; two documents, three toggles |

Every run also checks the module's `TypeOK` where it is a passing one.

Why these bounds are enough. The promises of these modules are broken by two actors in
an unfortunate order; there are two of each where they are of the same kind and one
of each where the kinds differ. In `rules_store` the interesting overlaps are of a
reader with a writer, and of either with a loader that makes two searches; the
theorems below hold for any number. Two visits are needed for one page to
resolve what another is resolving; two attempts for one to find the other's
creation in the store. Six items in pages of two make three full pages, with an item
arriving at any place between them; `MaxTotal` also caps the start index, and
every index from there on has an empty page. Three loads allow an older one that
ends before, and one that ends after, the newest but one. In the wizard, loads are
bounded by how many wait at a time, not by how many are made, so that the log type
and the data source change any number of times.

In `detector_pages` and `pages` a write of an old copy undoes an edit when a load, an edit and a
save of two pages overlap, which one edit and two waiting calls allow; where forms hand
copies on, two or three edits let a stale copy be the source of another. Three moves are enough to
open a details page, leave it by a link and come back; how often `Main` is rendered after a move is
not bounded by a guard but claimed (`renders`). Four changes of a form suffice to go to another
selection, change something, come back and remove it; the form of a new source has six because of
its two types, a tick and a file. Two edits of a rule reach a second selection of the same name: by a
rename, or by adding one beside "Selection_2". `MaxTriggers` is 10 in the code; two leave room to delete the
first of two and to add at the limit. Every bound is a constant whose comment says what it limits;
`MCPages` gives the numbers of changes in terms of `FewEdits`, `MoreEdits` and `ManyEdits`.

`SYMMETRY` is used in `detector_wizard`, over log types and clusters, and in `pages`, over data
sources: they occur in no temporal property and are not told apart by `Init`.

Fairness. `FairSpec` gives weak fairness to what answers a request and to the
continuation of each call, never to the user: the HTTP client answers, refuses or
rejects every request, and the browser's event loop runs every continuation that is
ready. An answer may always be a failure, so fairness promises no success. In
`DetectorCreation` each visit and each attempt has its own condition. `DetectorPages` has one
condition per part, for the answers that its liveness is about: those of a save
(`AnswerSave`), of the loads of findings (`Answers`) and of the table of correlations
(`TableAnswers`). `RulesStore`, `DetectorWizard` and `MCPages` have no liveness property and no
fairness.

Each property has a mutant in `PROJECT.json`: a plausible slip in the code (a dropped
guard, an index one too far, a missing reset) that breaks it. The mutated forms
are next to the definitions they replace, marked `(mutant: ...)`, and no specification
uses them.

## 4. What the runs show of the code

Most properties hold. Five statements of the repository do not:

1. `PrePackagedFresh`: `RulesStore.ts:17` says an invalidated cache leads to a new
   request. `getAllRules` invalidates before its first search only, and
   `RulesStore.ts:135-136` caches an answer whatever was invalidated while it was
   awaited: the pre-packaged answer that one call asked for before another call
   invalidated the cache arrives after it, and the other's pre-packaged search is
   served from there.
2. `OneIndexPattern`: `SavedObjectService.ts:32` says an existing index pattern is
   used again. It is never looked for, and two visits of a details page resolve the
   same creation.
3. `AlertsFetchEnds`: `AlertsStore.ts:61` describes a loop until a page is not full.
   `AlertService.ts:34` does not forward `startIndex`, so that every page is the first.
4. `FindingsComplete`: the second page starts at `findingsSize + 1`
   (`FindingsStore.ts:144`) and start indexes count from 0.
5. `RulesOfLogType`: rules are "automatically populated" from the log type, but a
   detector can be created before they are there.

Some properties have a premise that the code makes necessary, and say so:
`RulesAreToggled` leaves out a selection of indexes that brings back the detector of a
step that was left; `MappedWhereCreated` a wizard that was restored (its menu stays
usable at the last step) or left; `NoOrphanDashboard` a creation that was resolved
twice or while the detector was being deleted; `LoadingEnds` a lost request for
threat intelligence alerts; `SettledCurrent` a time range changed since, which does
not filter anew.

So do those of the two composed runs. No text of the repository promises more than they state, so
that these are not findings; the history variables that carry them are named for it.

| Property | Leaves out, because the code does otherwise |
|---|---|
| `UndoesNothing` | a user who leaves a page while it writes; a page that saves what it did not load; a toggle while an older one is on its way, which Refresh makes possible; a search of an edit page that comes when the user has left it and is back with an older copy |
| `WaitingEnds` | the page of the details and that of the mappings, which stay submitting when their first request is refused; 10,000 threat intelligence findings |
| `CorrelationsCurrent` | a view changed before the last one had come, and lost answers; the graph of a view that was opened for a finding which its filters hide, and which stays empty (`hidden`) |
| `RequestsArrive` | the start index of alerts; the fields of an index, whose route declares no query; the card of recent alerts, on which the local cluster cannot be chosen while another is active |
| `SourceKept`, `ScanKept`, `PartsKept` | a user who does not wait for an answer (`Careless`); a source that is activated while its form is open; a form of a correlation rule that is changed before everything has come, and values with a colon |
| `PagesCurrent`: log types | answers out of order (`orderly`); an edit that is cancelled after an update (`tidy`) |
| `PagesCurrent`: Overview | a refresh during which something changed (`clean`); a lost request for detectors leaves it loading for ever |
| `PagesCurrent`: flyout | what came after the content was made (`behind`); date fields out of order (`settledName`) |
| `PagesCurrent`: documents | a row toggled while a document is on its way (`calm`) |
| `AlertsHandled` | lists that failed or that an older load replaced (`certain`); the flyout of an alert of a rule or correlation, which says acknowledged at once |
| `NavigationSettles` | an application opened with another data source than the active one, until the first selection (`told`) |
| `RuleShown` | two maps with one key, or one without a key beside others; selections named `timeframe` or `condition` (`Fits`); selections of one name where no error is raised (`unchecked`) |
| `TriggersHold` | panels that were given the trigger of another (`reused`), log types changed under triggers (`retyped`), rules that were named when those of another log type were offered, which `Next` does not wait for (`misnamed`), triggers that are read late |
| `MappingsHold` | answers for another selection, and what was set in a form that was left with such (`mixed`) |
| `SubmitsComplete` | the ways around the checks of the form (`Unchecked`): errors that a failed read brings back, a file that is still read or of the other kind, a schema edited for the other type, errors that go with the tick, a file with its own schema that could not be read, a file without indicators, entries of a schema that are dropped |

## 5. Proofs

TLAPS checks the theorems below, for every value of the constants that satisfies the
assumptions of the module they are about. These only say that sets of values that stand
for different things are disjoint, that null values are not members of the sets they
stand beside, and that bounds are numbers: `RulesStoreAssumption`,
`DetectorCreationAssumption`, `AlertsPageAssumption`, `DetectorWizardAssumption`,
`DetectorPagesAssumption`, `MCPagesAssumption` (the names of the fields of an S3 source are those of
no other field, no alert is the absent one and no data source the unset one, at least one call
and one trigger fit, and at least the two selections that the rules of the run begin with), and
`PagedFetchAssumption`, where a page holds at least one item. The runs evaluate each of them.
The theorems about `MCPages` are about its instances: any data sources, alerts, rules and bounds,
with the two fields and two indexes of the field mappings and the five paths of the navigation that
`MCPages` names.

| Theorem | Statement |
|---|---|
| `RulesStoreProofs!TypeCorrect` | `Spec => []TypeOK` |
| `RulesStoreProofs!GetAllRulesFresh` | `Spec => []CustomRulesFresh` |
| `RulesStoreProofs!CoherentCache` | `Spec => []CacheCoherent` |
| `DetectorCreationProofs!TypeCorrect` | `Spec => []TypeOK` |
| `DetectorCreationProofs!OneDetector` | `Spec => []OneDetectorPerAttempt` |
| `DetectorCreationProofs!OwnCreation` | `Spec => []ResolvesItsOwn` |
| `DetectorCreationProofs!Truthful` | `Spec => []TruthfulToasts` |
| `DetectorCreationProofs!NoOrphans` | `Spec => []NoOrphanDashboard` |
| `PagedFetchProofs!TypeCorrect` | `Spec => []TypeOK` |
| `PagedFetchProofs!MissesNothing` | `Spec => []NothingMissed` |
| `PagedFetchProofs!ShowsOnce` | `Spec => []ShownOnce` |
| `PagedFetchProofs!Quiet` | `Spec => []QuietAfterAbort` |
| `AlertsPageProofs!TypeCorrect` | `Spec => []TypeOK` |
| `AlertsPageProofs!TableSettles` | `Spec => []SettledCurrent` |
| `AlertsPageProofs!ListsRefine` | `Spec => OnlyNewestLoad`, the refinement of `LatestLoad`, twice |
| `DetectorWizardProofs!TypeCorrect` | `Spec => []TypeOK` |
| `DetectorWizardProofs!Toggled` | `Spec => []RulesAreToggled` |
| `DetectorWizardProofs!Settles` | `Spec => []RulesSettle` |
| `DetectorWizardProofs!MappedThere` | `Spec => []MappedWhereCreated` |
| `DetectorPagesProofs!SavesStay` | `Spec => []UndoesNothing` |
| `DetectorPagesProofs!RulesFirst` | `Spec => []RulesBeforeFindings` |
| `DetectorPagesProofs!AbortedStop` | `Spec => AbortStops`, an action property |
| `DetectorPagesProofs!CorrelationsStayCurrent` | `Spec => []CorrelationsCurrent` |
| `DetectorPagesProofs!RequestsAllArrive` | `Spec => []RequestsArrive` |
| `DetectorPagesProofs!TypeCorrect` | `Spec => []TypeOK` |
| `FormsProofs!ScanStaysAsMeant` | `Spec => []ScanKept` |
| `FormsProofs!SourceStaysAsMeant` | `Spec => []SourceKept` |
| `FormsProofs!RulesStayAsMeant` | `Spec => []PartsKept` |
| `FormsProofs!NewSourcesAreComplete` | `Spec => []SubmitsComplete` |
| `FormsProofs!MappingsStayAsSet` | `Spec => []MappingsHold` |
| `FormsProofs!TriggersStayAsSet` | `Spec => []TriggersHold` |
| `FormsProofs!RulesAreShownAsStored` | `Spec => []RuleShown` |
| `PagesProofs!PagesStayCurrent` | `Spec => []PagesCurrent` |
| `PagesProofs!AlertsAreAsHandled` | `Spec => []AlertsHandled` |
| `PagesProofs!NavigationComesToRest` | `Spec => []NavigationSettles` |
| `PagesProofs!PagesKeepTypes` | `Spec => []TypeOK`, of all parts of `MCPages` |

Every proof has the same shape: an invariant `IInv` (or a conjunct per part) that `Init` makes
true, one lemma per action that keeps it, and the property read off it.

The rules cache. `CustomRulesFresh` speaks of a list that has arrived; it is kept
only because the request of a loader that still waits is of the cluster that was
active when the loader began, and will see at least the writes done by then. That is
`Sent`, with the bound of every request's snapshot by its cluster. `CacheCoherent` speaks of an
entry in the cache; it gets there from an answer, and the answer from a request. `InFlight` says
of an answer under way that was requested alone and has outlived every invalidation what
`CacheCoherent` says of an entry, and that no write is in progress beside it: a write that starts
later invalidates, which makes the answer too old to matter. `Cached` is the same for
entries. `IInv` is the conjunction; its parts are preserved in turn (`TypePreserved`,
`SentPreserved`, `FreshPreserved`, `CleanPreserved`), one step per action.

Detector creation. `Typed` adds to `TypeOK` that a visit that was born has a target,
without which `patterns[target[v]]` has no type. `OneDetectorPerAttempt` needs
`Submitted`: a click waits only while its wizard is creating, at most one does, and
nothing was asked of the cluster before the wizard is finished with. `ResolvesItsOwn` is
inductive together with `Typed`: a creation enters the store only from a mounted wizard, when no
details page is mounted, or while its own is. `TruthfulToasts` needs `Created`: a page that makes
saved objects does so for a detector that was created. `NoOrphanDashboard` needs four facts: a
creation in the store is counted as resolved (`StoreResolved`), only what was asked for is loaded
and deleted (`Requested`), a creation that is resolved once makes at most one dashboard, at the end
of what the one page that resolves it does (`OneDashboard`), and while its detector is deleted no
page resolves it (`NothingLeft`).

Paged fetching. Items are numbered, so that the invariant is arithmetic. `Covered`: a loop that asks
for one page after the other has every first item above the index that it asks for, because
arrivals move items down only; the loop stops at a page that is not full, so that at its end nothing
is missed. `Shown`: what was handed to the callback is what the call has, and without arrivals each
page is below those before it. How many items a page holds is `PageSizes`, from the library's facts
about intervals.

The Alerts page. `Typed` adds to the types that loads are numbered as they start, that a load waits
for what loads of its tab wait for, and that of all loads the newest is that of the tab that is shown
and the others are aborted (`OthersAborted`). `Loaded` follows the newest load: what the list of its
tab holds at each place it may be, as long as nothing of it failed. The
refinement is proved step by step: each action is a step of `LatestLoad` or leaves its variables
alone, for detections and for threat intelligence.

The wizard. `Shape` is `TypeOK`, with the booleans apart. `RulesAreToggled` is inductive with it.
`RulesSettle` needs `Awaited`: the newest load that waits is the last in `loads`, for the log type
and the data source of the moment. `MappedWhereCreated` needs `Locked`: a wizard that was not
restored keeps the menu of data sources read-only at its second step, at most one creation that was
not left waits for its mappings, and that one keeps the wizard there.

The pages about detectors. `Listing` adds to the types of the page of findings that only what its
list of controllers knows is aborted (`AbortedAreControlled`). `Correlating` says which calls carry a
view and which a finding (`CallsFit`), and that, while no load of a view overlapped another, each
part of the page that is not of the present view has a call that will make it so (`Underway`).
Editing needs most. `Editing` types what calls and copies hold: in each part a number that an edit
was given. `Careful` holds as long as `done` records what was saved. It is `InTurn`: no call outlives
its page, and one write waits at a time; `ReadsKept` and `WritesKept`: what a search brings, and what a
write holds, is at least what was saved, part by part; and `CopyKept`: so is the copy of the page, but
for `enabled` on the list, which the list itself changes, and on an edit page that has not loaded
(`Unloaded`). A user who was careless stays so (`CareIsLost`). With one edit the run
did not tell a toggle that overlaps an older one, or a search that comes late to a page that was
opened again, from what the property allows; the attempt to prove it for any number of edits did,
and the two are now among what `done` leaves out, as section 4 says. The theorem has no bound.

The requests. No two tables of a layer are about one operation (`Apart`), so that a joined table
says what its parts say. `Agree` is what the four layers have to agree on for an operation, with
nothing about values: the route lets through what the service sends and demands no more, the handler
hands on all but what it is known to drop, the method gets the names in its path and its body. It is
proved for each of the operations (`LayersAgree`), handler by handler. The request on its way then
carries at each layer what was given (`Carried`) and is bound for its data source (`Destined`).

The forms (FormsProofs). Each part of `MCPages` has an invariant of its own, and `FormsInv` says of
the part that is followed that its invariant holds; every other variable stays as it is.

- *Scan configuration.* `ScanCareful` holds until the user is careless: at most one call is under way,
  it is about the active data source, and what it brings or writes is what the writes before it were
  meant to make; a form that was opened holds the configuration of the cluster or is being loaded.
- *Source.* At most one call is about the whole source; the copy of the page is the source unless it
  is being loaded, and the copy of the form is as active as the source. The rows of indicators are
  apart: a call for them names its page, and only the newest may still be for the page of the pagination.
- *Correlation rules.* One write waits at most, creations and updates only on the form and deletions
  only on the list. A form that was not changed shows what it was mounted with, which is the rule but
  for values that reading cuts (`SameOrCut`), and the ids of rules that are gone never come back.
- *New source.* The errors stand for the values: a field without an error that was touched is valid,
  a schema without one is there, and a file without one was read well or is still being read; each
  but for the ways that `Unchecked` names. What is sent is judged by `Payload`, after
  `parseCustomSchema`, so that a schema counts only when none of its entries is dropped.
- *Field mappings.* Form and page are equal unless mixed; what the user set is in both, and in what each
  late answer will merge into the form.
- *Alert triggers.* A form that is judged valid has only valid triggers (`Judged`), the panels show the
  triggers at their positions unless one was reused (`PanelsShow`), and all triggers, stored ones
  included, fit the detector (`AllFit`), their rules as long as none was named from those of another
  log type. The searches of the wizard answer in any order and change what is offered, not what was
  named. The triggers are a sequence: that deleting one moves the others
  is proved from the library's facts about sequences.
- *Rule editor.* A rule shows what was shown because what is compiled to YAML is parsed to itself: the
  detection that the form holds is the one that the visual editor was mounted with, or what its own
  detection compiles to (`EditorInStep`). That holds only of selections with different names, as
  those of one name collapse into one; `NamesTold` says that names which are not different show an
  error, but where they are not compared (`unchecked`), and a detection with that error is not
  submitted. Every write under way that claims something was parsed to it when it was made
  (`Claimed`), so that whichever of them the cluster stores last, the claim goes with it. Nothing is
  claimed of a detection with a selection named `timeframe` or `condition` (`Fits`).

What the editor's proof rests on is `Collapse`: of entries with one key the last stays, at the place
of the first, as assigning the members of a JavaScript object does. It is written with the numbers
of the first entries and their rank among them. That what it returns has different keys
(`CollapseDistinct`), and that entries with different keys stay as they are (`CollapseKeeps`), holds
for sequences of any length: both need the least and the greatest of a set of numbers
(`LeastNumber`, from the library's fact that `<` is well founded; `GreatestNumber`), and that a rank
reaches every number (`RankReaches`), by the least number that it would not reach.

Proving `MappingsHold` for any number of changes found the model wrong where the run does not reach:
with six changes, a form that was left while page and form differed could be mounted again with the
mappings of the page, and the history variable `chosen` still claimed what only the form had held.
`OnPreviousClick` now forgets it then; section 4 says so.

The pages (PagesProofs), with the invariant `PagesInv`.

- *Log types.* While lists neither overlap nor fail (`ListsComeInOrder`), every list under way is of the
  active data source, and what does not show its log types yet waits for one. While the user waits
  (`CopiesOfCluster`), what a read will bring to the page of a log type is what the cluster holds, and so
  is what cancelling brings back before any update; one update waits at most, with what is shown.
- *Overview.* At most one refresh runs, the latest (`OneRefresh`). One that nothing disturbed is about
  the data source and the range that the page names, and the parts before its step are its own.
- *Alerts.* Where nothing spoils it (`certain`), the list is what the cluster holds, or a call will load it
  again, or a list on its way saw the present states (`ListComes`). A call only lists alerts as changed
  that the cluster changed (`CallsTrue`), and at most one is about the alert of a flyout (`FlyoutFits`).
- *Documents.* While the user waits, one document is fetched at most, for the rows as they are
  (`OneIsFetched`).
- *Flyout of a finding.* What is closed is empty. Content is current where it was made last
  (`ContentMade`). In the form of an index pattern (`FormInOrder`) the last request is about the name
  that is typed, the first, which alone leaves the field, was made before any field could be chosen, and
  when none is under way the fields are those of the name.
- *Navigation.* `NavInv` says what is still to be rendered, and that it makes up for what differs.
  When nothing is (`NavRendered`), page, path and data source are those of the location. No page is
  there before a data source is selected (`NavOpening`), which is why the first one is loaded from
  it. A read-only path in the history names its data source (`NavEntries`), so that going back to it
  renders it once more at most; it is not next to itself, or a step back would change nothing that is
  watched. `NavSources`: a page that loads once has loaded from the data source that its location
  names, or will be mounted anew, or reloads as what is selected changes. `NavItems` and `NavAims` carry
  the side navigation and the aim through the renders. `NavRenders` counts: a bound on the renders
  so far, for each thing that is left to do, from which the five of the property follow. The paths
  go through the routes of `Main` by cases (`RoutesOfPaths`): of each of the three lists, the lemmas say
  which route is the first that fits (`FirstOf`).

`NavInv` was checked with TLC from states that satisfy it but that no run reaches, chosen at random.
Two of its conjuncts were missing and came from steps out of such states: that nothing is mounted
while the first data source is awaited on a read-only path, and that a read-only path that is
linked to itself keeps the selected data source.

Types. `PagesKeepTypes` is read off the same invariants, with one more for the parts whose types bound
what they hold: `TriggersBounded` (no more triggers than may be added, in the form and as stored),
`MappingsTyped` (no more calls than may wait, about selections that there are) and `ViewTyped` (the
parts of the Overview are of refreshes that began).

Only model-checked: liveness (`CreationAnnounced`, `FetchEnds`, `LoadingEnds`, `WaitingEnds`), which
is out of the prover's reach. Every invariant that a passing run checks, the action property
`AbortStops` and the refinement `OnlyNewestLoad` are theorems. The five violated statements are of
course not.

## 6. Not modelled

For good: presentation (charts, formatting, layout, breadcrumbs' wording) and metrics, which
depend on no order of steps; the conversion of answers for display; YAML beyond what the rule
editor's conversion does.

Within the modelled components:

- detector creation: the callout and the timer that hides it, visualizations, starting and stopping
  on the details page;
- Alerts page: charts, grouping and filters; changes of tab or data source while alerts are being
  acknowledged (each is modelled alone);
- Findings page: the flyout that creates an alert trigger, filters, `getAllFindings` over detectors;
- correlation rules: alert triggers of a rule, conditions other than AND, a change of the data source
  while the form is open;
- alert triggers: severities, tags, messages and notification channels;
- threat intelligence: the list of sources, the interval of a schedule, the contents of a schema;
- navigation: jumps over several entries of the history, the navigation groups of the host;
- documents: `getDocuments`, which nothing calls;
- importing a rule from a file, and the list of rules.

## 7. Plan

Modelling that is left, in the order of what it adds: the flyout that creates a trigger
(`CreateAlertFlyout`), which loads a detector, rules and channels and writes the whole detector;
the list of rules and importing; correlation rules with a change of the data source; the callout
and its timer in `DetectorCreation`.

Proofs: every safety property of the runs is proved; what is modelled next is to be proved with
the part of `MCPages` it joins. No module that is proved about uses a RECURSIVE operator.
