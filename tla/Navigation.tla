------------------------------ MODULE Navigation ------------------------------
(***************************************************************************)
(* Where the user is, and whose data is shown there: the location with its *)
(* dataSourceId, the selected data source of Main, the global one that     *)
(* requests are sent to, the menu of data sources (DataSourceMenuWrapper), *)
(* the routes of Main and its side navigation.                             *)
(*                                                                         *)
(* A path is the sequence of its segments, ":" stands for any one of them. *)
(* The location is in the hash of the URL, so that what goes along with it *)
(* (a rule to edit) is lost by Back and Forward.  A location that is       *)
(* replaced while Main is rendered, or right after, is rendered next; the  *)
(* last replacement counts.  Multiple data sources are enabled.            *)
(***************************************************************************)
EXTENDS Naturals, Sequences

CONSTANTS
    DataSources,
    Visits,         \* the paths that the user opens
    MaxMoves        \* how often the user goes somewhere or selects something

VARIABLES
    entries, at,    \* the history of the browser, and where it is
    ruleItem,       \* location.state holds a rule
    selected, pending,      \* selectedDataSource of Main, and its state that is to be rendered
    active,         \* dataSourceInfo.activeDataSource
    loading,        \* dataSourceLoading; "ending" between the two setState of the menu
    shown, page,    \* the path and the page that were rendered last
    loadedFrom,     \* the data source that the page was last made to load from
    navItem,        \* selectedNavItemId
    dirty,          \* Main is to be rendered
    moves,          \* how often the user did something
    renders, aimed, told    \* history: renders since, where to, and see SourcesAgree

navigationVars == <<entries, at, ruleItem, selected, pending, active, loading, shown, page,
                    loadedFrom, navItem, dirty, moves, renders, aimed, told>>

Unset == "none"
NotMounted == <<"none">>
Landing == <<"overview">>
EditRule == <<"edit-rule">>

Matches(pattern, path) ==
    /\ Len(pattern) <= Len(path)
    /\ \A i \in DOMAIN pattern : pattern[i] \in {":", path[i]}

-----------------------------------------------------------------------------
(* Routes *)

Route(pattern, component, reloads) == [path |-> pattern, page |-> component, reloads |-> reloads]
    \* reloads: the page is given the selected data source, and loads again when it changes

DetectorAndRuleRoutes == <<
    Route(<<"findings">>, "Findings", TRUE),
    Route(<<"detectors">>, "Detectors", TRUE),
    Route(<<"create-detector">>, "CreateDetector", TRUE),
    Route(<<"rules">>, "Rules", TRUE),
    Route(<<"create-rule">>, "CreateRule", FALSE),
    Route(<<"edit-rule">>, "EditRule", FALSE),
    Route(<<"duplicate-rule">>, "DuplicateRule", FALSE),
    Route(<<"import-rule">>, "ImportRule", FALSE)>>

DetailsRoutes == <<
    Route(<<"overview">>, "Overview", TRUE),
    Route(<<"alerts">>, "Alerts", TRUE),
    Route(<<"detector-details", ":">>, "DetectorDetails", FALSE),
    Route(<<"edit-detector-details", ":">>, "UpdateDetectorBasicDetails", FALSE),
    Route(<<"edit-detector-rules", ":">>, "UpdateDetectorRules", FALSE),
    Route(<<"edit-field-mappings", ":">>, "UpdateFieldMappings", FALSE),
    Route(<<"edit-alert-triggers", ":">>, "UpdateAlertConditions", FALSE)>>

SettingsRoutes == <<
    Route(<<"correlations", "rules">>, "CorrelationRules", TRUE),
    Route(<<"correlations", "create-rule">>, "CreateCorrelationRule", TRUE),
    Route(<<"correlations", "rule", ":">>, "CreateCorrelationRule", TRUE),
    Route(<<"correlations">>, "Correlations", TRUE),
    Route(<<"log-types", ":">>, "LogType", FALSE),
    Route(<<"log-types">>, "LogTypes", TRUE),
    Route(<<"create-log-type">>, "CreateLogType", FALSE),
    Route(<<"add-threat-intel-source">>, "AddThreatIntelSource", FALSE),
    Route(<<"threat-intel">>, "ThreatIntelOverview", TRUE),
    Route(<<"create-scan-config">>, "ThreatIntelScanConfigForm", FALSE),
    Route(<<"edit-scan-config">>, "ThreatIntelScanConfigForm", FALSE),
    Route(<<"threat-intel-source", ":">>, "ThreatIntelSource", FALSE)>>

Redirect == Route(<<>>, "Redirect", FALSE)

\* The first of these routes that fits.
FirstOf(routes, path, otherwise) ==
    LET fits == {i \in DOMAIN routes : Matches(routes[i].path, path)}
    IN  IF fits = {} THEN otherwise ELSE routes[CHOOSE i \in fits : \A j \in fits : i <= j]

FirstRoute(path) ==
    FirstOf(DetectorAndRuleRoutes, path,
            FirstOf(DetailsRoutes, path, FirstOf(SettingsRoutes, path, Redirect)))

\* A rule is edited and duplicated only when it came along.
RouteOf(path, rule) ==
    LET first == FirstRoute(path)
    IN  IF first.page \in {"EditRule", "DuplicateRule"} /\ ~rule
        THEN [first EXCEPT !.page = "Rules", !.reloads = TRUE]
        ELSE first

\* readonlyDataSourcePaths with pathToParentMap.
ReadonlyToDetectors ==
    {<<"edit-alert-triggers">>, <<"edit-detector-details">>, <<"edit-detector-rules">>,
     <<"edit-field-mappings">>, <<"detector-details">>}
ReadonlyOfLists ==
    {<<"correlations", "rule">>, <<"log-types", ":">>, <<"alerts", ":">>, <<"findings", ":">>,
     <<"threat-intel-source", ":">>, <<"edit-scan-config">>}
ParentOf ==
    [p \in ReadonlyToDetectors \cup {EditRule} \cup ReadonlyOfLists |->
        IF p \in ReadonlyToDetectors THEN <<"detectors">>
        ELSE IF p = EditRule THEN <<"rules">>
        ELSE IF p[1] = "correlations" THEN <<"correlations", "rules">>
        ELSE IF p[1] \in {"threat-intel-source", "edit-scan-config"} THEN <<"threat-intel">>
        ELSE <<p[1]>>]

MatchedPaths(path) == {p \in DOMAIN ParentOf : Matches(p, path)}
IsReadonly(path) == MatchedPaths(path) # {}

NoItem == <<"none">>

\* navItemIdByRoute, which looks at how the path begins.
NavItemOf(path) ==
    IF path = <<>> THEN NoItem
    ELSE CASE path[1] \in {"overview", "findings", "alerts", "detectors", "rules"} -> <<path[1]>>
           [] path[1] \in {"threat-intel", "threat-intel-source"} -> <<"threat-intel">>
           [] path[1] \in {"detector-details", "edit-detector-details"} -> <<"detectors">>
           [] OTHER -> NoItem

\* HIDDEN_NAV_ROUTES, each looked for anywhere in the path.
HidesNav(path) ==
    \/ \E i \in DOMAIN path : path[i] \in
          {"create-detector", "create-rule", "edit-rule", "duplicate-rule", "import-rule",
           "edit-detector-details", "edit-detector-rules", "edit-field-mappings",
           "edit-alert-triggers", "create-log-type", "add-threat-intel-source",
           "create-scan-config", "edit-scan-config"}
    \/ Matches(<<"log-types", ":">>, path)

\* What a click in the side navigation opens.
SideNav == {<<"overview">>, <<"findings">>, <<"alerts">>, <<"threat-intel">>, <<"detectors">>,
            <<"rules">>, <<"log-types">>, <<"correlations">>, <<"correlations", "rules">>}

-----------------------------------------------------------------------------

Option(d, l) == [id |-> d, label |-> l]
Options == [id : DataSources \cup {Unset}, label : {Unset, "named"}]
Pages ==
    LET of(routes) == {routes[i].page : i \in DOMAIN routes}
    IN  of(DetectorAndRuleRoutes) \cup of(DetailsRoutes) \cup of(SettingsRoutes)
Paths == Visits \cup SideNav \cup {<<>>} \cup {ParentOf[p] : p \in DOMAIN ParentOf}

TypeOK ==
    /\ \A i \in DOMAIN entries :
          entries[i].path \in Paths /\ entries[i].ds \in DataSources \cup {Unset}
    /\ at \in DOMAIN entries
    /\ {selected, pending} \subseteq Options
    /\ active \in DataSources /\ loadedFrom \in DataSources \cup {Unset}
    /\ loading \in {"yes", "ending", "no"}
    /\ shown \in Paths \cup {NotMounted}
    /\ page \in Pages \cup {"Redirect", Unset}
    /\ {ruleItem, dirty, told} \subseteq BOOLEAN

\* The application is opened on some path, with or without a data source; the global one may be
\* left from before.
Init ==
    /\ \E p \in Visits \cup {<<>>}, d \in DataSources \cup {Unset} :
          /\ entries = <<[path |-> p, ds |-> d]>> /\ aimed = [path |-> p, by |-> "open"]
          /\ selected = Option(d, Unset) /\ pending = Option(d, Unset)
          /\ loading = IF d = Unset THEN "yes" ELSE "no"
    /\ active \in DataSources
    /\ told = (selected.id \in {active, Unset})
    /\ at = 1 /\ ruleItem = FALSE
    /\ shown = NotMounted /\ page = Unset /\ loadedFrom = Unset /\ navItem = <<"overview">>
    /\ dirty = TRUE /\ moves = 0 /\ renders = 0

\* Main.onDataSourceSelected, when the option is not the one that it has.
OnDataSourceSelected(option, present) ==
    IF option # present
    THEN active' = option.id /\ pending' = option /\ told' = TRUE
    ELSE UNCHANGED <<active, told>> /\ pending' = present

\* (mutant: the history is used as it is)
WithDataSourceGiven(path, d) == [path |-> path, ds |-> d]

\* The push and replace of the application always name the active data source.
WithDataSource(path, d) == [path |-> path, ds |-> active']

Replace(path, rule, d) ==
    /\ entries' = [entries EXCEPT ![at] = WithDataSource(path, d)]
    /\ ruleItem' = rule

\* What componentDidUpdate of Main looks at: the path or the selected data source changed.
Moved(path, option) == shown # NotMounted /\ (path # shown \/ option.id # selected.id)

\* updateSelectedNavItem, and the page of correlations as it is mounted.
NavItemAfter(path, component) ==
    IF component = "Correlations" /\ page # "Correlations" THEN <<"correlations">>
    ELSE IF path # shown /\ NavItemOf(path) # NoItem THEN NavItemOf(path)
    ELSE navItem

\* Main is rendered: the menu of data sources, which takes the data source of a read-only path
\* or goes to its parent, then the page, and at last componentDidUpdate.
Render ==
    /\ dirty
    /\ LET path == entries[at].path
           ds == entries[at].ds
           route == RouteOf(path, ruleItem)
           nameless == IsReadonly(path) /\ ds = Unset
           ruleless == loading = "no" /\ route # RouteOf(path, TRUE)
           lands == loading = "no" /\ route = Redirect /\ page # "Redirect"
       IN  /\ IF IsReadonly(path) /\ ds # Unset
              THEN OnDataSourceSelected(Option(ds, Unset), pending)
              ELSE UNCHANGED <<active, pending, told>>
           /\ IF Moved(path, pending) THEN Replace(path, ruleItem, pending.id)
              ELSE IF lands THEN Replace(Landing, FALSE, Unset)
              ELSE IF ruleless THEN Replace(<<"rules">>, FALSE, Unset)
              ELSE IF nameless
                   THEN Replace(ParentOf[CHOOSE p \in MatchedPaths(path) : TRUE], FALSE, Unset)
              ELSE UNCHANGED <<entries, ruleItem>>
           /\ selected' = pending /\ shown' = path
           /\ page' = IF loading = "no" THEN route.page ELSE Unset
           /\ loadedFrom' = IF /\ loading = "no"
                               /\ route.page # page \/ (route.reloads /\ pending # selected)
                            THEN active' ELSE loadedFrom
           /\ navItem' = NavItemAfter(path, page')
           /\ dirty' = (pending' # pending \/ Moved(path, pending) \/ lands \/ ruleless \/ nameless)
    /\ renders' = renders + 1
    /\ UNCHANGED <<at, loading, moves, aimed>>

\* The second setState of the menu's selection, which lets the pages be rendered.
EndLoading ==
    /\ ~dirty /\ loading = "ending"
    /\ loading' = "no" /\ dirty' = TRUE
    /\ UNCHANGED <<entries, at, ruleItem, selected, pending, active, shown, page, loadedFrom,
                   navItem, moves, renders, aimed, told>>

-----------------------------------------------------------------------------
(* The user, and the menu of data sources *)

Settled == ~dirty /\ loading = "no"

Goes(path, ds, rule, by) ==
    /\ Settled /\ moves < MaxMoves
    /\ [path |-> path, ds |-> ds] # entries[at]
    /\ entries' = Append(SubSeq(entries, 1, at), [path |-> path, ds |-> ds]) /\ at' = at + 1
    /\ ruleItem' = rule /\ dirty' = TRUE /\ moves' = moves + 1
    /\ renders' = 0 /\ aimed' = [path |-> path, by |-> by]
    /\ UNCHANGED <<selected, pending, active, loading, shown, page, loadedFrom, told>>

\* A page opens another one with history.push.
Push(path) ==
    /\ path # shown
    /\ Goes(path, active, path = EditRule, "push")
    /\ UNCHANGED navItem

\* An item of the side navigation, which is not shown beside every page.
OpenNavItem(path) ==
    /\ ~HidesNav(shown)
    /\ Goes(path, active, FALSE, "push")
    /\ navItem' = path

\* A link or a breadcrumb, which does not name the data source.
Follow(path) ==
    /\ Goes(path, Unset, FALSE, IF path = shown THEN "again" ELSE "link")
    /\ UNCHANGED navItem

\* Back and Forward of the browser.
Traverse(to) ==
    /\ Settled /\ moves < MaxMoves /\ to \in DOMAIN entries
    /\ at' = to /\ ruleItem' = FALSE /\ dirty' = TRUE /\ moves' = moves + 1
    /\ renders' = 0 /\ aimed' = [path |-> entries[to].path, by |-> "history"]
    /\ UNCHANGED <<entries, selected, pending, active, loading, shown, page, loadedFrom, navItem,
                   told>>

\* The menu, where it can be used, reports what it shows, or the default as nothing is selected.
Report(d) ==
    /\ ~dirty /\ loading # "ending" /\ ~IsReadonly(shown)
    /\ d = selected.id \/ loading = "yes"
    /\ Option(d, "named") # selected
    /\ OnDataSourceSelected(Option(d, "named"), selected)
    /\ loading' = IF loading = "yes" THEN "ending" ELSE loading
    /\ dirty' = TRUE /\ renders' = 0
    /\ UNCHANGED <<entries, at, ruleItem, selected, shown, page, loadedFrom, navItem, moves, aimed>>

\* The user selects another data source.
Select(d) ==
    /\ Settled /\ moves < MaxMoves /\ ~IsReadonly(shown) /\ d # selected.id
    /\ OnDataSourceSelected(Option(d, "named"), selected)
    /\ dirty' = TRUE /\ renders' = 0 /\ moves' = moves + 1
    /\ UNCHANGED <<entries, at, ruleItem, selected, loading, shown, page, loadedFrom, navItem,
                   aimed>>

Next ==
    \/ Render \/ EndLoading
    \/ \E path \in Visits : Push(path) \/ Follow(path)
    \/ \E path \in SideNav \cap Visits : OpenNavItem(path)
    \/ \E step \in {at - 1, at + 1} : Traverse(step)
    \/ \E d \in DataSources : Report(d) \/ Select(d)

-----------------------------------------------------------------------------
(* Properties *)

\* Location, Main, the requests and what the page has loaded agree on the data source.  A list
\* may be shown without one in its location.  Until the first selection after the application
\* was opened with another data source than the active one, requests still go to the latter.
SourcesAgree ==
    told => /\ selected.id = active /\ loadedFrom = active
            /\ IsReadonly(shown) => entries[at].ds = active

\* The user is where they wanted to go, except: a rule is edited only when it came along; a
\* details page that is opened without a data source, or linked to itself, shows its parent; and
\* the root is the landing page.
PageAsMeant ==
    \/ shown = aimed.path
    \/ aimed.by # "push" /\ aimed.path = EditRule /\ shown = <<"rules">>
    \/ aimed.by \in {"open", "again"} /\ \E p \in MatchedPaths(aimed.path) : shown = ParentOf[p]
    \/ aimed.by = "open" /\ aimed.path = <<>> /\ shown = Landing

\* Replacing locations while others are rendered comes to an end, at the page that was meant,
\* with one data source, and with the item of the side navigation that the path belongs to.
NavigationSettles ==
    /\ renders <= 5
    /\ Settled => /\ SourcesAgree /\ PageAsMeant
                  /\ NavItemOf(shown) \in {NoItem, navItem}

=============================================================================
