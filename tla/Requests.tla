------------------------------- MODULE Requests -------------------------------
(***************************************************************************)
(* A request of a page on its way to the cluster of its data source.  Four *)
(* layers, written apart, have to agree on every request: the service of   *)
(* the browser, which sends it with the data source that is active; the    *)
(* route, which refuses what it does not declare and drops the query that  *)
(* it has no schema of; the handler, which picks the client of the data    *)
(* source and rebuilds the parameters; and the method of the client, which *)
(* builds the path from them.  A table per file says what each layer does  *)
(* with the names of parameters; their values are left out.                *)
(***************************************************************************)
EXTENDS Naturals, FiniteSets

CONSTANTS
    Local,      \* the cluster of the dashboards server: the data source of the empty id
    Remotes,    \* the other data sources
    NoChoice,   \* the page leaves the data source to the service
    NoCall,     \* no request is on its way
    MaxExtras   \* optional parameters that one request gives

VARIABLES
    dataSourceEnabled,  \* the server has the plugin of data sources
    activeDataSource,   \* dataSourceInfo.activeDataSource of the browser
    call                \* the request on its way, or NoCall

requestVars == <<dataSourceEnabled, activeDataSource, call>>

Sources == Remotes \cup {Local}

\* One table of several that are about different operations.
Joined(tables) ==
    [op \in UNION {DOMAIN t : t \in tables} |-> (CHOOSE t \in tables : op \in DOMAIN t)[op]]

-----------------------------------------------------------------------------
(* The services of the browser: the parameters of the path, those of the   *)
(* query that are always given, those that a caller may give, and whether  *)
(* there is a body.  The id of the data source is in the query of all.     *)

Sends(path, query, optional, body) ==
    [path |-> path, query |-> query, optional |-> optional, body |-> body]

Paging == {"sortOrder", "size", "startIndex"}
Span == {"startTime", "endTime"}

\* getAlerts names the detector or its type: see OneDetector.
SentForAlerts ==
    [getAlerts |-> Sends({}, Paging, Span \cup {"detector_id", "detectorType"}, FALSE),
     acknowledgeAlerts |-> Sends({"detector_id"}, {}, {}, TRUE),
     getThreatIntelAlerts |-> Sends({}, Paging, Span, FALSE),
     updateThreatIntelAlertsState |-> Sends({}, {"state", "alert_ids"}, {}, FALSE)]
SentForCorrelations ==
    [acknowledgeCorrelationAlerts |-> Sends({}, {}, {}, TRUE),
     getAllCorrelationAlerts |-> Sends({}, {}, {}, FALSE),
     getCorrelatedFindings |->
        Sends({}, {"finding", "detector_type", "nearby_findings"}, {}, FALSE),
     getCorrelationRules |-> Sends({}, {}, {}, TRUE),
     createCorrelationRule |-> Sends({}, {}, {}, TRUE),
     updateCorrelationRule |-> Sends({"ruleId"}, {}, {}, TRUE),
     deleteCorrelationRule |-> Sends({"ruleId"}, {}, {}, FALSE),
     getAllCorrelationsInTimeRange |-> Sends({}, {"start_time", "end_time"}, {}, FALSE)]
SentForDetectors ==
    [createDetector |-> Sends({}, {}, {}, TRUE),
     searchDetectors |-> Sends({}, {}, {}, TRUE),
     getDetector |-> Sends({"detectorId"}, {}, {}, FALSE),
     updateDetector |-> Sends({"detectorId"}, {}, {}, TRUE),
     deleteDetector |-> Sends({"detectorId"}, {}, {}, FALSE)]
SentForMappings ==
    [getMappingsView |-> Sends({}, {"indexName"}, {"ruleTopic"}, FALSE),
     createMappings |-> Sends({}, {}, {}, TRUE),
     getMappings |-> Sends({}, {"indexName"}, {}, FALSE),
     getIndexAliasFields |-> Sends({"indexName"}, {}, {}, FALSE)]
SentForFindings ==
    [getFindings |->
        Sends({}, {"sortOrder", "size"}, {"startIndex", "detector_id", "findingIds"} \cup Span, FALSE),
     getThreatIntelFindings |->
        Sends({}, {"sortOrder", "size"}, {"startIndex", "findingIds"} \cup Span, FALSE)]
SentForIndexes ==
    [getIndexFields |-> Sends({}, {}, {}, TRUE),
     getIndices |-> Sends({}, {}, {}, FALSE),
     getAliases |-> Sends({}, {}, {}, FALSE),
     updateAliases |-> Sends({}, {}, {}, TRUE)]
SentForLogTypes ==
    [createLogType |-> Sends({}, {}, {}, TRUE),
     searchLogTypes |-> Sends({}, {}, {}, TRUE),
     updateLogType |-> Sends({"logTypeId"}, {}, {}, TRUE),
     deleteLogType |-> Sends({"logTypeId"}, {}, {}, FALSE)]
SentForChannels ==
    [getChannel |-> Sends({"id"}, {}, {}, FALSE),
     getChannels |-> Sends({}, {}, {}, FALSE),
     getNotificationsFeatures |-> Sends({}, {}, {}, FALSE)]
SentForDocuments ==
    [getPlugins |-> Sends({}, {}, {}, FALSE),
     documentIdsQuery |-> Sends({}, {}, {}, TRUE)]
SentForRules ==
    [getRules |-> Sends({}, {"prePackaged"}, {}, TRUE),
     createRule |-> Sends({}, {}, {}, TRUE),
     updateRule |-> Sends({"ruleId"}, {"category"}, {}, TRUE),
     deleteRule |-> Sends({"ruleId"}, {}, {}, FALSE)]
SentForSources ==
    [addThreatIntelSource |-> Sends({}, {}, {}, TRUE),
     updateThreatIntelSource |-> Sends({"sourceId"}, {}, {}, TRUE),
     searchThreatIntelSources |-> Sends({}, {}, {}, TRUE),
     getThreatIntelSource |-> Sends({"sourceId"}, {}, {}, FALSE),
     deleteThreatIntelSource |-> Sends({"sourceId"}, {}, {}, FALSE),
     refreshThreatIntelSource |-> Sends({"sourceId"}, {}, {}, FALSE)]
SentForMonitors ==
    [createThreatIntelMonitor |-> Sends({}, {}, {}, TRUE),
     updateThreatIntelMonitor |-> Sends({"monitorId"}, {}, {}, TRUE),
     deleteThreatIntelMonitor |-> Sends({"monitorId"}, {}, {}, FALSE),
     searchThreatIntelMonitors |-> Sends({}, {}, {}, TRUE),
     getThreatIntelIocs |-> Sends({}, {"feed_ids", "startIndex", "size"}, {"searchString"}, FALSE)]

Sent == Joined({
    SentForAlerts, SentForCorrelations, SentForDetectors, SentForMappings, SentForFindings,
    SentForIndexes, SentForLogTypes, SentForChannels, SentForDocuments, SentForRules,
    SentForSources, SentForMonitors})

Operations == DOMAIN Sent

-----------------------------------------------------------------------------
(* The routes: the parameters of the path, those of the query that must be *)
(* there, those that may, whether the body is taken and whether the query  *)
(* has a schema at all, which then knows the id of the data source.        *)

Schema(path, required, optional, body) ==
    [path |-> path, required |-> required, optional |-> optional, body |-> body, query |-> TRUE]
NoSchema(path) ==
    [path |-> path, required |-> {}, optional |-> {}, body |-> FALSE, query |-> FALSE]

AlertRoutes ==
    [getAlerts |-> Schema({}, {}, Paging \cup Span \cup {"detectorType", "detector_id"}, FALSE),
     acknowledgeAlerts |-> Schema({"detector_id"}, {}, {}, TRUE),
     getThreatIntelAlerts |-> Schema({}, {}, Paging \cup Span, FALSE),
     updateThreatIntelAlertsState |-> Schema({}, {"state", "alert_ids"}, {}, FALSE)]
CorrelationRoutes ==
    [getCorrelationRules |-> Schema({}, {}, {}, TRUE),
     createCorrelationRule |-> Schema({}, {}, {}, TRUE),
     updateCorrelationRule |-> Schema({"ruleId"}, {}, {}, TRUE),
     getCorrelatedFindings |->
        Schema({}, {"finding", "detector_type", "nearby_findings"}, {}, FALSE),
     getAllCorrelationsInTimeRange |-> Schema({}, {"start_time", "end_time"}, {}, FALSE),
     deleteCorrelationRule |-> Schema({"ruleId"}, {}, {}, FALSE),
     getAllCorrelationAlerts |-> Schema({}, {}, {}, FALSE),
     acknowledgeCorrelationAlerts |-> Schema({}, {}, {}, TRUE)]
DetectorRoutes ==
    [createDetector |-> Schema({}, {}, {}, TRUE),
     getDetector |-> Schema({"detectorId"}, {}, {}, FALSE),
     searchDetectors |-> Schema({}, {}, {}, TRUE),
     updateDetector |-> Schema({"detectorId"}, {}, {}, TRUE),
     deleteDetector |-> Schema({"detectorId"}, {}, {}, TRUE)]
FieldMappingRoutes ==
    [getMappingsView |-> Schema({}, {"indexName"}, {"ruleTopic"}, FALSE),
     getMappings |-> Schema({}, {"indexName"}, {}, FALSE),
     createMappings |-> Schema({}, {}, {}, TRUE),
     getIndexAliasFields |-> NoSchema({"indexName"})]
FindingsRoutes ==
    [getFindings |->
        Schema({}, {}, Paging \cup Span \cup {"detectorType", "detector_id", "detectionType",
                                              "severity", "searchString", "findingIds"}, FALSE),
     getThreatIntelFindings |->
        Schema({}, {}, Paging \cup Span \cup {"searchString", "findingIds", "iocIds"}, FALSE)]
\* (mutant: a route without a query)
IndexRoutesUnqueried ==
    [getIndices |-> Schema({}, {}, {}, FALSE),
     getAliases |-> NoSchema({}),
     getIndexFields |-> Schema({}, {}, {}, TRUE),
     updateAliases |-> Schema({}, {}, {}, TRUE)]

IndexRoutes ==
    [getIndices |-> Schema({}, {}, {}, FALSE),
     getAliases |-> Schema({}, {}, {}, FALSE),
     getIndexFields |-> Schema({}, {}, {}, TRUE),
     updateAliases |-> Schema({}, {}, {}, TRUE)]
LogTypeRoutes ==
    [createLogType |-> Schema({}, {}, {}, TRUE),
     searchLogTypes |-> Schema({}, {}, {}, TRUE),
     updateLogType |-> Schema({"logTypeId"}, {}, {}, TRUE),
     deleteLogType |-> Schema({"logTypeId"}, {}, {}, TRUE)]
NotificationsRoutes ==
    [getChannel |-> Schema({"id"}, {}, {}, FALSE),
     getChannels |-> Schema({}, {}, {}, FALSE),
     getNotificationsFeatures |-> Schema({}, {}, {}, FALSE)]
OpensearchRoutes ==
    [documentIdsQuery |-> Schema({}, {}, {}, TRUE),
     getPlugins |-> Schema({}, {}, {}, FALSE)]
RulesRoutes ==
    [getRules |-> Schema({}, {"prePackaged"}, {}, TRUE),
     createRule |-> Schema({}, {}, {"category"}, TRUE),
     deleteRule |-> Schema({"ruleId"}, {}, {}, FALSE),
     updateRule |-> Schema({"ruleId"}, {"category"}, {}, TRUE)]
ThreatIntelRoutes ==
    [addThreatIntelSource |-> Schema({}, {}, {}, TRUE),
     updateThreatIntelSource |-> Schema({"sourceId"}, {}, {}, TRUE),
     searchThreatIntelSources |-> Schema({}, {}, {}, TRUE),
     getThreatIntelSource |-> Schema({"sourceId"}, {}, {}, FALSE),
     createThreatIntelMonitor |-> Schema({}, {}, {}, TRUE),
     updateThreatIntelMonitor |-> Schema({"monitorId"}, {}, {}, TRUE),
     searchThreatIntelMonitors |-> Schema({}, {}, {}, TRUE),
     getThreatIntelIocs |->
        Schema({}, {}, {"startIndex", "size", "feed_ids", "ioc_types", "searchString",
                        "sortString"}, FALSE),
     deleteThreatIntelSource |-> Schema({"sourceId"}, {}, {}, FALSE),
     refreshThreatIntelSource |-> Schema({"sourceId"}, {}, {}, FALSE),
     deleteThreatIntelMonitor |-> Schema({"monitorId"}, {}, {}, FALSE)]

Routes == Joined({
    AlertRoutes, CorrelationRoutes, DetectorRoutes, FieldMappingRoutes, FindingsRoutes,
    IndexRoutes, LogTypeRoutes, NotificationsRoutes, OpensearchRoutes, RulesRoutes,
    ThreatIntelRoutes})

-----------------------------------------------------------------------------
(* The handlers: the parameters of path and query that they hand on when   *)
(* they are there, those that they take out of the body, and whether they  *)
(* hand on a body.                                                         *)

Passes(names, fromBody, body) == [names |-> names, fromBody |-> fromBody, body |-> body]
Nothing == Passes({}, {}, FALSE)
TheBody == Passes({}, {}, TRUE)

\* { ...request.query } without dataSourceId hands on what the route let through.
WholeQuery(op) == Routes[op].required \cup Routes[op].optional

\* startIndex is read nowhere: see Dropped.
AlertService ==
    [getAlerts |->
        Passes({"sortOrder", "size", "detector_id", "detectorType"} \cup Span, {}, FALSE),
     acknowledgeAlerts |-> Passes({"detector_id"}, {}, TRUE)]
ThreatIntelAlertService ==
    [getThreatIntelAlerts |-> Passes(Paging \cup Span, {}, FALSE),
     updateThreatIntelAlertsState |-> Passes({"state", "alert_ids"}, {}, FALSE)]
CorrelationRuleService ==
    [acknowledgeCorrelationAlerts |-> TheBody,
     getAllCorrelationAlerts |-> Nothing,
     createCorrelationRule |-> TheBody,
     updateCorrelationRule |-> Passes({"ruleId"}, {}, TRUE)]
CorrelationService ==
    [getCorrelationRules |-> TheBody,
     deleteCorrelationRule |-> Passes({"ruleId"}, {}, FALSE),
     getCorrelatedFindings |->
        Passes({"finding", "detector_type", "nearby_findings"}, {}, FALSE),
     getAllCorrelationsInTimeRange |-> Passes({"start_time", "end_time"}, {}, FALSE)]
DetectorService ==
    [createDetector |-> TheBody,
     getDetector |-> Passes({"detectorId"}, {}, FALSE),
     searchDetectors |-> TheBody,
     deleteDetector |-> Passes({"detectorId"}, {}, FALSE)]
UpdateDetectorService == [updateDetector |-> Passes({"detectorId"}, {}, TRUE)]
FieldMappingService ==
    [getMappingsView |-> Passes({"indexName", "ruleTopic"}, {}, FALSE),
     createMappings |-> TheBody,
     getMappings |-> Passes({"indexName"}, {}, FALSE)]
IndexFieldsService == [getIndexAliasFields |-> Passes({"indexName"}, {}, FALSE)]
FindingsService ==
    [getFindings |-> Passes(WholeQuery("getFindings"), {}, FALSE),
     getThreatIntelFindings |-> Passes(WholeQuery("getThreatIntelFindings"), {}, FALSE)]
IndexService ==
    [getIndexFields |-> Passes({}, {"index"}, FALSE),
     getIndices |-> Nothing,
     getAliases |-> Nothing,
     updateAliases |-> TheBody]
LogTypeService ==
    [createLogType |-> TheBody,
     searchLogTypes |-> TheBody,
     updateLogType |-> Passes({"logTypeId"}, {}, TRUE),
     deleteLogType |-> Passes({"logTypeId"}, {}, FALSE)]
NotificationsService ==
    [getChannel |-> Passes({"id"}, {}, FALSE),
     getChannels |-> Nothing,
     getNotificationsFeatures |-> Nothing]
OpenSearchService ==
    [documentIdsQuery |-> Passes({}, {"index"}, TRUE),
     getPlugins |-> Nothing]
RulesService ==
    [createRule |-> Passes({}, {"category"}, TRUE),
     getRules |-> Passes({"prePackaged"}, {}, TRUE),
     deleteRule |-> Passes({"ruleId"}, {}, FALSE)]
UpdateRuleService == [updateRule |-> Passes({"ruleId"}, {"category"}, TRUE)]
ThreatIntelService ==
    [addThreatIntelSource |-> TheBody,
     updateThreatIntelSource |-> Passes({"sourceId"}, {}, TRUE),
     getThreatIntelSource |-> Passes({"sourceId"}, {}, FALSE),
     searchThreatIntelSources |-> TheBody]
ThreatIntelUpkeep ==
    [deleteThreatIntelSource |-> Passes({"sourceId"}, {}, FALSE),
     refreshThreatIntelSource |-> Passes({"sourceId"}, {}, FALSE),
     getThreatIntelIocs |-> Passes(WholeQuery("getThreatIntelIocs"), {}, FALSE)]
ThreatIntelMonitors ==
    [createThreatIntelMonitor |-> TheBody,
     updateThreatIntelMonitor |-> Passes({"monitorId"}, {}, TRUE),
     searchThreatIntelMonitors |-> TheBody,
     deleteThreatIntelMonitor |-> Passes({"monitorId"}, {}, FALSE)]

Handlers == Joined({
    AlertService, ThreatIntelAlertService, CorrelationRuleService, CorrelationService,
    DetectorService, UpdateDetectorService, FieldMappingService, IndexFieldsService,
    FindingsService, IndexService, LogTypeService, NotificationsService, OpenSearchService,
    RulesService, UpdateRuleService, ThreatIntelService, ThreatIntelUpkeep, ThreatIntelMonitors})

\* The one handler that renames: the window of correlations is in time stamps there.
Renamed(names) ==
    (names \ {"start_time", "end_time"})
    \cup (IF "start_time" \in names THEN {"start_timestamp"} ELSE {})
    \cup (IF "end_time" \in names THEN {"end_timestamp"} ELSE {})

-----------------------------------------------------------------------------
(* The methods of the client: the parameters without which they have no    *)
(* path, and whether they refuse to run without a body.  Methods of the    *)
(* client itself (cat, indices, search) need what their documentation says.*)

Needs(names, body) == [names |-> names, body |-> body]
Free == Needs({}, FALSE)
ABody == Needs({}, TRUE)

addAlertsMethods ==
    [getAlerts |-> Free,
     acknowledgeAlerts |-> Needs({"detector_id"}, TRUE),
     getThreatIntelAlerts |-> Free,
     updateThreatIntelAlertsState |-> Needs({"state", "alert_ids"}, FALSE)]
addCorrelationMethods ==
    [getCorrelationRules |-> ABody,
     createCorrelationRule |-> ABody,
     updateCorrelationRule |-> Needs({"ruleId"}, TRUE),
     deleteCorrelationRule |-> Needs({"ruleId"}, FALSE),
     getCorrelatedFindings |-> Needs({"finding", "detector_type"}, FALSE),
     getAllCorrelationsInTimeRange |-> Needs({"start_timestamp", "end_timestamp"}, FALSE),
     getAllCorrelationAlerts |-> Free,
     acknowledgeCorrelationAlerts |-> ABody]
addDetectorMethods ==
    [createDetector |-> ABody,
     getDetector |-> Needs({"detectorId"}, FALSE),
     searchDetectors |-> ABody,
     updateDetector |-> Needs({"detectorId"}, TRUE),
     deleteDetector |-> Needs({"detectorId"}, FALSE)]
addFieldMappingMethods ==
    [getMappingsView |-> Needs({"indexName"}, FALSE),
     createMappings |-> ABody,
     getMappings |-> Needs({"indexName"}, FALSE),
     getIndexAliasFields |-> Needs({"indexName"}, FALSE)]
addFindingsMethods == [getFindings |-> Free, getThreatIntelFindings |-> Free]
addLogTypeMethods ==
    [searchLogTypes |-> ABody,
     createLogType |-> ABody,
     updateLogType |-> Needs({"logTypeId"}, TRUE),
     deleteLogType |-> Needs({"logTypeId"}, FALSE)]
addNotificationsMethods ==
    [getChannel |-> Needs({"id"}, FALSE), getChannels |-> Free, getNotificationsFeatures |-> Free]
addRulesMethods ==
    [createRule |-> Needs({"category"}, TRUE),
     getRules |-> Needs({"prePackaged"}, TRUE),
     deleteRule |-> Needs({"ruleId"}, FALSE),
     updateRule |-> Needs({"ruleId", "category"}, TRUE)]
addThreatIntelMethods ==
    [addThreatIntelSource |-> ABody,
     updateThreatIntelSource |-> Needs({"sourceId"}, TRUE),
     searchThreatIntelSources |-> ABody,
     getThreatIntelSource |-> Needs({"sourceId"}, FALSE),
     createThreatIntelMonitor |-> ABody,
     updateThreatIntelMonitor |-> Needs({"monitorId"}, TRUE),
     searchThreatIntelMonitors |-> ABody,
     getThreatIntelIocs |-> Free,
     deleteThreatIntelSource |-> Needs({"sourceId"}, FALSE),
     refreshThreatIntelSource |-> Needs({"sourceId"}, FALSE),
     deleteThreatIntelMonitor |-> Needs({"monitorId"}, FALSE)]
ClientMethods ==
    [getIndexFields |-> Needs({"index"}, FALSE), getIndices |-> Free, getAliases |-> Free,
     updateAliases |-> ABody, documentIdsQuery |-> Needs({"index"}, TRUE), getPlugins |-> Free]

Methods == Joined({
    addAlertsMethods, addCorrelationMethods, addDetectorMethods, addFieldMappingMethods,
    addFindingsMethods, addLogTypeMethods, addNotificationsMethods, addRulesMethods,
    addThreatIntelMethods, ClientMethods})

-----------------------------------------------------------------------------
(* A request *)

\* Alerts are asked of a detector, or of a type when no detector is named.
OneDetector(op, extras) ==
    op = "getAlerts" =>
        \E one \in {"detector_id", "detectorType"} :
            extras \cap {"detector_id", "detectorType"} = {one}

Extras(op) ==
    {extras \in SUBSET Sent[op].optional :
        Cardinality(extras) <= MaxExtras /\ OneDetector(op, extras)}

\* The two that may be asked of another data source than the active one, by the card of
\* recent alerts.
TakesChoice == {"getAlerts", "searchDetectors"}

Choices(op) ==
    IF op \in TakesChoice /\ dataSourceEnabled THEN Sources \cup {NoChoice} ELSE {NoChoice}

\* dataSource?.id || activeDataSource.id: the empty id of the local cluster is no id.
IdFor(choice) ==
    IF choice \in Remotes THEN choice ELSE activeDataSource

Init ==
    /\ dataSourceEnabled \in BOOLEAN
    /\ activeDataSource = Local
    /\ call = NoCall

\* The menu of data sources, which is there with the plugin only.
SelectDataSource(source) ==
    /\ dataSourceEnabled /\ source # activeDataSource
    /\ activeDataSource' = source
    /\ UNCHANGED <<dataSourceEnabled, call>>

\* A page calls a service of the browser.
Ask(op, extras, choice) ==
    /\ call = NoCall
    /\ call' = [op |-> op, choice |-> choice,
                meant |-> IF choice = NoChoice THEN activeDataSource ELSE choice,
                sent |-> Sent[op].path \cup Sent[op].query \cup extras,
                names |-> Sent[op].path \cup Sent[op].query \cup extras,
                source |-> IdFor(choice), body |-> Sent[op].body, at |-> "route"]
    /\ UNCHANGED <<dataSourceEnabled, activeDataSource>>

\* A schema refuses what it does not know and what is missing.
Validates(route) ==
    LET query == call.names \ Sent[call.op].path IN
    /\ Sent[call.op].path = route.path
    /\ route.query => route.required \subseteq query
                      /\ query \subseteq route.required \cup route.optional

\* Without a schema the handler gets an empty query, and so no data source.
Route ==
    LET route == Routes[call.op] IN
    /\ call # NoCall /\ call.at = "route"
    /\ call' = IF Validates(route)
               THEN [call EXCEPT !.at = "handler",
                        !.names = IF route.query THEN @ ELSE @ \cap route.path,
                        !.source = IF route.query THEN @ ELSE Local,
                        !.body = @ /\ route.body]
               ELSE [call EXCEPT !.at = "refused"]
    /\ UNCHANGED <<dataSourceEnabled, activeDataSource>>

\* MDSEnabledClientService.getClient: the cluster that the client of the handler talks to.
getClient(source) == IF dataSourceEnabled /\ source # Local THEN source ELSE Local

\* The handler hands its parameters to the method of the client, which throws when it cannot
\* build a path or has no body; alerts of no detector are refused by the handler.
Handle ==
    LET handler == Handlers[call.op]
        method == Methods[call.op]
        names == Renamed(call.names \cap handler.names)
                 \cup (IF call.body THEN handler.fromBody ELSE {})
        body == handler.body /\ call.body
    IN  /\ call # NoCall /\ call.at = "handler"
        /\ call' = IF /\ method.names \subseteq names
                      /\ method.body => body
                      /\ call.op = "getAlerts" => {"detector_id", "detectorType"} \cap names # {}
                   THEN [call EXCEPT !.at = "cluster", !.names = names, !.body = body,
                                     !.source = getClient(@)]
                   ELSE [call EXCEPT !.at = "refused"]
        /\ UNCHANGED <<dataSourceEnabled, activeDataSource>>

\* The answer of the cluster or the refusal on the way: the handler makes both an answer.
Settle ==
    /\ call # NoCall /\ call.at \in {"cluster", "refused"}
    /\ call' = NoCall
    /\ UNCHANGED <<dataSourceEnabled, activeDataSource>>

Next ==
    \/ \E source \in Sources : SelectDataSource(source)
    \/ \E op \in Operations : \E extras \in Extras(op), choice \in Choices(op) :
          Ask(op, extras, choice)
    \/ Route
    \/ Handle
    \/ Settle

-----------------------------------------------------------------------------
(* Properties *)

AllNames ==
    (UNION {Sent[op].path \cup Sent[op].query \cup Sent[op].optional : op \in Operations})
    \cup (UNION {Methods[op].names : op \in Operations})

TypeOK ==
    /\ dataSourceEnabled \in BOOLEAN
    /\ activeDataSource \in Sources
    /\ call = NoCall \/
       /\ call.op \in Operations /\ call.choice \in Sources \cup {NoChoice}
       /\ call.meant \in Sources /\ call.source \in Sources /\ call.body \in BOOLEAN
       /\ call.sent \subseteq AllNames /\ call.names \subseteq AllNames
       /\ call.at \in {"route", "handler", "cluster", "refused"}

\* What is lost on the way: the handler of alerts does not read the first index of a page.
Dropped(op) == IF op = "getAlerts" THEN {"startIndex"} ELSE {}

\* The layers agree: a request that a page may make is refused by none of them, and each of its
\* parameters gets to the cluster, but for the index of a page of alerts.
RequestsArrive ==
    call # NoCall =>
        /\ call.at # "refused"
        /\ call.at = "cluster" => Renamed(call.sent \ Dropped(call.op)) \subseteq call.names
                                                                 \cup Handlers[call.op].fromBody

\* A request runs on the cluster of the data source that it was made for, whatever is selected
\* since; but for the fields of an index, whose route declares no query, and for the card of
\* recent alerts when the local cluster is chosen there while another is active.
AtItsSource ==
    (/\ call # NoCall /\ call.at = "cluster"
     /\ call.op # "getIndexAliasFields" /\ call.choice # Local) => call.source = call.meant

=============================================================================
