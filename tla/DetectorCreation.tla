--------------------------- MODULE DetectorCreation ---------------------------
(***************************************************************************)
(* How a detector comes into being and goes: the last step of the wizard   *)
(* (CreateDetector.onCreateClick), the pending creation that DetectorsStore *)
(* hands from the wizard to the details page, the details page itself      *)
(* (DetectorDetails), its notifications, and the saved objects (index      *)
(* pattern and dashboard) made for the detector (SavedObjectService).      *)
(*                                                                         *)
(* Every await is a place where the user can leave the page; the           *)
(* continuation runs all the same, but setState on an unmounted component  *)
(* does nothing and its callback is not called.  An attempt is one opening *)
(* of the wizard, and names the detector it may create.  A visit is one    *)
(* mounted DetectorDetails: the router keeps it when only the id in the    *)
(* URL changes.                                                            *)
(***************************************************************************)
EXTENDS Naturals

CONSTANTS
    Attempts,       \* openings of the wizard (finite: a bound for TLC)
    WithDashboard,  \* those whose log type is in logTypesWithDashboards
    Visits,         \* mounts of the details page (finite: a bound for TLC)
    None,           \* no attempt, no visit
    Pending         \* PENDING_DETECTOR_ID

ASSUME DetectorCreationAssumption ==
    /\ WithDashboard \subseteq Attempts
    /\ None \notin Attempts \cup Visits
    /\ Pending \notin Attempts \cup {None}

VARIABLES
    page,           \* the mounted page: where it is, and the attempt or visit it shows
    wizard,         \* the wizard of an attempt; "creating" is state.creatingDetector
    clicks,         \* onCreateClick calls of an attempt that wait for createMappings
    mapping,        \* what createMappings answered
    reply,          \* what createDetector answered
    requests,       \* how often createDetector was called for an attempt
    exists,         \* detectors in the cluster
    store,          \* DetectorsStore.state: the attempt whose requests it holds
    toasts,         \* DetectorsStore.toasts
    target,         \* the attempt a visit resolves, or the detector it loads
    task,           \* what a visit waits for
    patterns,       \* index patterns that refer to a detector
    dashboards,     \* dashboards that refer to a detector
    resolutions,    \* history: visits that resolved the creation of an attempt
    overlapped      \* history: detectors deleted while a visit resolved their creation

vars == <<page, wizard, clicks, mapping, reply, requests, exists, store, toasts,
          target, task, patterns, dashboards, resolutions, overlapped>>

Answers == {"ok", "error", "rejected"}

\* Where resolvePendingCreationRequest waits: for the detector, then for the steps of
\* createSavedObject, then (when one of them failed) for getDashboard.
Resolving == {"pending", "pattern", "dashboard", "lookup"}
\* Where onDelete waits.
Deleting == {"find", "dropDashboard", "dropPattern", "dropDetector"}
Idle == {"unborn", "loading", "loaded", "missing", "failed", "left", "crashed", "gone"}

Toasts == [kind : {"attempting", "failed", "created"}, attempt : Attempts]

TypeOK ==
    /\ page \in [at : {"detectors", "create", "details"}, attempt : Attempts \cup {None},
                 visit : Visits \cup {None}]
    /\ wizard \in [Attempts -> {"unused", "open", "creating", "finished"}]
    /\ clicks \in [Attempts -> Nat]
    /\ mapping \in [Attempts -> Answers \cup {"none", "awaited"}]
    /\ reply \in [Attempts -> Answers \cup {"none", "awaited"}]
    /\ requests \in [Attempts -> Nat]
    /\ exists \subseteq Attempts
    /\ store \in Attempts \cup {None}
    /\ toasts \subseteq Toasts
    /\ target \in [Visits -> Attempts \cup {None}]
    /\ task \in [Visits -> Resolving \cup Deleting \cup Idle]
    /\ patterns \in [Attempts -> Nat]
    /\ dashboards \in [Attempts -> Nat]
    /\ resolutions \in [Attempts -> Nat]
    /\ overlapped \subseteq Attempts

ListPage == [at |-> "detectors", attempt |-> None, visit |-> None]
WizardPage(a) == [at |-> "create", attempt |-> a, visit |-> None]
DetailsPage(v) == [at |-> "details", attempt |-> None, visit |-> v]

Open(a) == page = WizardPage(a)
Mounted(v) == page = DetailsPage(v)

Announced(kind, a) == [kind |-> kind, attempt |-> a]
Notify(kind, a) == toasts' = toasts \cup {Announced(kind, a)}

Await(v, what) == task' = [task EXCEPT ![v] = what]

\* (mutant: the visit resolves the detector of the URL)
MountForgetful(id, held) ==
    /\ held # None
    /\ \E v \in Visits :
        /\ task[v] = "unborn"
        /\ page' = DetailsPage(v)
        /\ target' = [target EXCEPT ![v] = id]
        /\ Await(v, "pending")
    /\ resolutions' = [resolutions EXCEPT ![held] = @ + 1]

\* A details page is mounted: it resolves what the store holds, whatever detector the
\* URL names, and loads the detector of the URL otherwise.  Without a pending creation
\* the constructor leaves a pending URL at once for the list.
Mount(id, held) ==
    \/ /\ held # None
       /\ \E v \in Visits :
           /\ task[v] = "unborn"
           /\ page' = DetailsPage(v)
           /\ target' = [target EXCEPT ![v] = held]
           /\ Await(v, "pending")
       /\ resolutions' = [resolutions EXCEPT ![held] = @ + 1]
    \/ /\ held = None
       /\ id # Pending
       /\ \E v \in Visits :
           /\ task[v] = "unborn"
           /\ page' = DetailsPage(v)
           /\ target' = [target EXCEPT ![v] = id]
           /\ Await(v, "loading")
       /\ UNCHANGED resolutions
    \/ /\ held = None
       /\ id = Pending
       /\ page' = ListPage
       /\ UNCHANGED <<target, task, resolutions>>

\* history.push of a details URL while the store holds an attempt or None: a details
\* page that is already there stays as it is.
PushDetails(id, held) ==
    \/ /\ page.at = "details"
       /\ UNCHANGED <<page, target, task, resolutions>>
    \/ /\ page.at # "details"
       /\ Mount(id, held)

cluster == <<reply, exists>>
savedObjects == <<patterns, dashboards>>
visits == <<target, task, resolutions>>
submission == <<clicks, mapping, requests>>

-----------------------------------------------------------------------------

Init ==
    /\ page = ListPage
    /\ wizard = [a \in Attempts |-> "unused"]
    /\ clicks = [a \in Attempts |-> 0]
    /\ mapping = [a \in Attempts |-> "none"]
    /\ reply = [a \in Attempts |-> "none"]
    /\ requests = [a \in Attempts |-> 0]
    /\ exists = {}
    /\ store = None
    /\ toasts = {}
    /\ target = [v \in Visits |-> None]
    /\ task = [v \in Visits |-> "unborn"]
    /\ patterns = [a \in Attempts |-> 0]
    /\ dashboards = [a \in Attempts |-> 0]
    /\ resolutions = [a \in Attempts |-> 0]
    /\ overlapped = {}

(* The wizard *)

OpenWizard(a) ==
    /\ page.at = "detectors"
    /\ wizard[a] = "unused"
    /\ wizard' = [wizard EXCEPT ![a] = "open"]
    /\ page' = WizardPage(a)
    /\ UNCHANGED <<submission, cluster, store, toasts, visits, savedObjects, overlapped>>

\* Cancel and the breadcrumbs are plain links: they work while the detector is created.
GoToList ==
    /\ page.at # "detectors"
    /\ page' = ListPage
    /\ UNCHANGED <<wizard, submission, cluster, store, toasts, visits, savedObjects,
                   overlapped>>

\* (mutant: no creatingDetector guard)
OnCreateClickUnguarded(a) ==
    /\ Open(a)
    /\ clicks[a] < 2
    /\ wizard' = [wizard EXCEPT ![a] = "creating"]
    /\ clicks' = [clicks EXCEPT ![a] = @ + 1]
    /\ mapping' = [mapping EXCEPT ![a] = "awaited"]
    /\ UNCHANGED <<page, requests, cluster, store, toasts, visits, savedObjects, overlapped>>

\* onCreateClick up to its await of createMappings.
OnCreateClick(a) ==
    /\ Open(a)
    /\ wizard[a] = "open"
    /\ wizard' = [wizard EXCEPT ![a] = "creating"]
    /\ clicks' = [clicks EXCEPT ![a] = @ + 1]
    /\ mapping' = [mapping EXCEPT ![a] = "awaited"]
    /\ UNCHANGED <<page, requests, cluster, store, toasts, visits, savedObjects, overlapped>>

\* createMappings of the plugin's server and the cluster.
AnswerMappings(a, answer) ==
    /\ mapping[a] = "awaited"
    /\ mapping' = [mapping EXCEPT ![a] = answer]
    /\ UNCHANGED <<page, wizard, clicks, requests, cluster, store, toasts, visits,
                   savedObjects, overlapped>>

\* onCreateClick after it: a refused mapping re-enables the button; a lost one (the
\* promise rejects) leaves creatingDetector set for good.
MappingsFailed(a) ==
    /\ clicks[a] > 0
    /\ mapping[a] \in {"error", "rejected"}
    /\ clicks' = [clicks EXCEPT ![a] = @ - 1]
    /\ mapping' = [mapping EXCEPT ![a] = "none"]
    /\ wizard' = IF mapping[a] = "error" /\ Open(a)
                   THEN [wizard EXCEPT ![a] = "open"] ELSE wizard
    /\ UNCHANGED <<page, requests, cluster, store, toasts, visits, savedObjects, overlapped>>

\* (mutant: the answer of createMappings is not looked at)
MappingsUnchecked(a) ==
    /\ clicks[a] > 0
    /\ mapping[a] \in {"ok", "error"}
    /\ clicks' = [clicks EXCEPT ![a] = @ - 1]
    /\ requests' = [requests EXCEPT ![a] = @ + 1]
    /\ reply' = [reply EXCEPT ![a] = "awaited"]
    /\ wizard' = [wizard EXCEPT ![a] = "finished"]
    /\ store' = a
    /\ Notify("attempting", a)
    /\ PushDetails(Pending, store')
    /\ UNCHANGED <<mapping, exists, savedObjects, overlapped>>

\* (mutant: the store takes the requests without waiting for the setState callback)
MappingsStoredAlways(a) ==
    /\ clicks[a] > 0
    /\ mapping[a] = "ok"
    /\ clicks' = [clicks EXCEPT ![a] = @ - 1]
    /\ requests' = [requests EXCEPT ![a] = @ + 1]
    /\ reply' = [reply EXCEPT ![a] = "awaited"]
    /\ wizard' = [wizard EXCEPT ![a] = "finished"]
    /\ store' = a
    /\ Notify("attempting", a)
    /\ PushDetails(Pending, store')
    /\ UNCHANGED <<mapping, exists, savedObjects, overlapped>>

\* A stored one sends createDetector.  A wizard that is still mounted leaves the two
\* requests in the store (the callback of its setState); mounted or not, the user is
\* taken to the pending details page.
MappingsStored(a) ==
    /\ clicks[a] > 0
    /\ mapping[a] = "ok"
    /\ clicks' = [clicks EXCEPT ![a] = @ - 1]
    /\ requests' = [requests EXCEPT ![a] = @ + 1]
    /\ reply' = [reply EXCEPT ![a] = "awaited"]
    /\ wizard' = [wizard EXCEPT ![a] = "finished"]
    /\ \/ /\ Open(a)
          /\ store' = a
          /\ Notify("attempting", a)
       \/ /\ ~Open(a)
          /\ UNCHANGED <<store, toasts>>
    /\ PushDetails(Pending, store')
    /\ UNCHANGED <<mapping, exists, savedObjects, overlapped>>

\* createDetector of the server and the cluster; a lost answer may follow a creation.
AnswerCreate(a, answer) ==
    /\ reply[a] = "awaited"
    /\ reply' = [reply EXCEPT ![a] = answer]
    /\ \/ /\ answer # "error"
          /\ exists' = exists \cup {a}
       \/ /\ answer # "ok"
          /\ UNCHANGED exists
    /\ UNCHANGED <<page, wizard, submission, store, toasts, visits, savedObjects, overlapped>>

(* resolvePendingCreationRequest, called by getPendingDetector of a visit *)

\* (mutant: the answer of createDetector is not looked at)
CreationFailedUnchecked(v) ==
    /\ task[v] = "pending"
    /\ reply[target[v]] \in {"ok", "error"}
    /\ Notify("failed", target[v])
    /\ Await(v, "failed")
    /\ UNCHANGED <<page, wizard, submission, cluster, store, target, resolutions,
                   savedObjects, overlapped>>

\* A creation was refused: either answer of Promise.all is not ok.
CreationFailed(v) ==
    LET a == target[v] IN
    /\ task[v] = "pending"
    /\ reply[a] \in {"ok", "error"}
    /\ mapping[a] # "ok" \/ reply[a] = "error"
    /\ Notify("failed", a)
    /\ Await(v, "failed")
    /\ UNCHANGED <<page, wizard, submission, cluster, store, target, resolutions,
                   savedObjects, overlapped>>

\* (mutant: the page that gets the ids announces them)
FinishQuietly(v) ==
    /\ \/ /\ Mounted(v)
          /\ store' = None
          /\ Notify("created", target[v])
          /\ Await(v, "loading")
       \/ /\ ~Mounted(v)
          /\ Await(v, "left")
          /\ UNCHANGED <<store, toasts>>
    /\ UNCHANGED <<page, wizard, submission, cluster, target, resolutions, overlapped>>

\* The page gets the ids.  Mounted, it drops the pending state, goes to the URL of the
\* detector (the visit stays) and loads it; otherwise the callback is lost.
Finish(v) ==
    LET a == target[v] IN
    /\ Notify("created", a)
    /\ \/ /\ Mounted(v)
          /\ store' = None
          /\ Await(v, "loading")
       \/ /\ ~Mounted(v)
          /\ Await(v, "left")
          /\ UNCHANGED store
    /\ UNCHANGED <<page, wizard, submission, cluster, target, resolutions, overlapped>>

\* The detector was created: a log type with dashboards gets its saved objects first.
CreationSucceeded(v) ==
    LET a == target[v] IN
    /\ task[v] = "pending"
    /\ mapping[a] = "ok" /\ reply[a] = "ok"
    /\ \/ /\ a \in WithDashboard
          /\ Await(v, "pattern")
          /\ UNCHANGED <<page, wizard, submission, cluster, store, toasts, target,
                         resolutions, overlapped>>
       \/ /\ a \notin WithDashboard
          /\ Finish(v)
    /\ UNCHANGED savedObjects

\* Promise.all rejects: nothing catches it, the page stays at Initializing.
CreationLost(v) ==
    /\ task[v] = "pending"
    /\ reply[target[v]] = "rejected"
    /\ Await(v, "crashed")
    /\ UNCHANGED <<page, wizard, submission, cluster, store, toasts, target, resolutions,
                   savedObjects, overlapped>>

\* createSavedObject: the alias and the index pattern.  Whatever fails, the caller
\* looks for a dashboard, and what was made stays.
CreatePattern(v, ok) ==
    /\ task[v] = "pattern"
    /\ \/ /\ ok
          /\ patterns' = [patterns EXCEPT ![target[v]] = @ + 1]
          /\ Await(v, "dashboard")
       \/ /\ ~ok
          /\ Await(v, "lookup")
          /\ UNCHANGED patterns
    /\ UNCHANGED <<page, wizard, submission, cluster, store, toasts, target, resolutions,
                   dashboards, overlapped>>

\* ... the visualizations, each of which may fail, and the dashboard.
CreateDashboard(v, ok) ==
    /\ task[v] = "dashboard"
    /\ \/ /\ ok
          /\ dashboards' = [dashboards EXCEPT ![target[v]] = @ + 1]
          /\ Finish(v)
       \/ /\ ~ok
          /\ Await(v, "lookup")
          /\ UNCHANGED <<page, wizard, submission, cluster, store, toasts, target,
                         resolutions, dashboards, overlapped>>
    /\ UNCHANGED patterns

\* getDashboard after a failure: found or not, the creation is announced.
LookUpDashboard(v, ok) ==
    /\ task[v] = "lookup"
    /\ \/ /\ ok
          /\ Finish(v)
       \/ /\ ~ok
          /\ Await(v, "crashed")
          /\ UNCHANGED <<page, wizard, submission, cluster, store, toasts, target,
                         resolutions, overlapped>>
    /\ UNCHANGED savedObjects

(* The details page *)

\* The user follows the link of a detector in the list.
OpenDetails(a) ==
    /\ page.at = "detectors"
    /\ a \in exists
    /\ PushDetails(a, store)
    /\ UNCHANGED <<wizard, submission, cluster, store, toasts, savedObjects, overlapped>>

\* getDetector: the search may fail, or no longer hold the detector.
GetDetector(v) ==
    /\ task[v] = "loading"
    /\ \/ /\ target[v] \in exists
          /\ Await(v, "loaded")
       \/ Await(v, "missing")
    /\ UNCHANGED <<page, wizard, submission, cluster, store, toasts, target, resolutions,
                   savedObjects, overlapped>>

\* onDelete, offered once the detector is on the page.
OnDelete(v) ==
    /\ Mounted(v)
    /\ task[v] = "loaded"
    /\ Await(v, "find")
    /\ overlapped' =
        IF \E u \in Visits : target[u] = target[v] /\ task[u] \in Resolving \cup Deleting
          THEN overlapped \cup {target[v]} ELSE overlapped
    /\ UNCHANGED <<page, wizard, submission, cluster, store, toasts, target, resolutions,
                   savedObjects>>

\* Any of its requests may fail, or be done and its answer lost: an error toast, and
\* what was deleted stays deleted.
DeleteStepFails(v) ==
    /\ task[v] \in Deleting
    /\ Await(v, "loaded")
    /\ \/ UNCHANGED <<exists, dashboards>>
       \/ /\ task[v] = "dropDashboard"
          /\ dashboards[target[v]] > 0
          /\ dashboards' = [dashboards EXCEPT ![target[v]] = @ - 1]
          /\ UNCHANGED exists
       \/ /\ task[v] = "dropDetector"
          /\ exists' = exists \ {target[v]}
          /\ UNCHANGED dashboards
    /\ UNCHANGED <<page, wizard, submission, reply, store, toasts, target, resolutions,
                   patterns, overlapped>>

\* getDashboard
FindDashboard(v) ==
    /\ task[v] = "find"
    /\ \/ /\ dashboards[target[v]] > 0
          /\ Await(v, "dropDashboard")
       \/ /\ dashboards[target[v]] = 0
          /\ Await(v, "dropPattern")
    /\ UNCHANGED <<page, wizard, submission, cluster, store, toasts, target, resolutions,
                   savedObjects, overlapped>>

\* (mutant: a failed deleteDashboard is ignored)
DropDashboardCarelessly(v) ==
    /\ task[v] = "dropDashboard"
    /\ Await(v, "dropPattern")
    /\ UNCHANGED <<page, wizard, submission, cluster, store, toasts, target, resolutions,
                   savedObjects, overlapped>>

\* deleteDashboard; the visualizations it refers to are deleted without waiting.
DropDashboard(v) ==
    /\ task[v] = "dropDashboard"
    /\ dashboards[target[v]] > 0
    /\ dashboards' = [dashboards EXCEPT ![target[v]] = @ - 1]
    /\ Await(v, "dropPattern")
    /\ UNCHANGED <<page, wizard, submission, cluster, store, toasts, target, resolutions,
                   patterns, overlapped>>

\* getIndexPattern looks into the cache of the index pattern service, which may not
\* know a pattern that was created as a plain saved object.
DropPattern(v) ==
    /\ task[v] = "dropPattern"
    /\ \/ /\ patterns[target[v]] > 0
          /\ patterns' = [patterns EXCEPT ![target[v]] = @ - 1]
       \/ UNCHANGED patterns
    /\ Await(v, "dropDetector")
    /\ UNCHANGED <<page, wizard, submission, cluster, store, toasts, target, resolutions,
                   dashboards, overlapped>>

\* deleteDetector: the user is taken to the list from wherever he is, and whatever
\* creation is pending is dropped with the notifications.
DropDetector(v) ==
    /\ task[v] = "dropDetector"
    /\ target[v] \in exists
    /\ exists' = exists \ {target[v]}
    /\ store' = None
    /\ toasts' = {}
    /\ page' = ListPage
    /\ Await(v, "gone")
    /\ UNCHANGED <<wizard, submission, reply, target, resolutions, savedObjects, overlapped>>

(* Notifications *)

HideToast(toast) ==
    /\ toast \in toasts
    /\ toasts' = toasts \ {toast}
    /\ UNCHANGED <<page, wizard, submission, cluster, store, visits, savedObjects, overlapped>>

\* "Review detector configuration" (viewDetectorConfiguration): the input of the
\* creation in the store, whichever it is, goes to a new wizard; a wizard that is
\* already there stays as it is.
ReviewConfiguration(a) ==
    /\ Announced("failed", a) \in toasts
    /\ toasts' = {}
    /\ store' = None
    /\ \/ /\ page.at # "create"
          /\ \E b \in Attempts :
              /\ wizard[b] = "unused"
              /\ wizard' = [wizard EXCEPT ![b] = "open"]
              /\ page' = WizardPage(b)
       \/ /\ page.at = "create"
          /\ UNCHANGED <<wizard, page>>
    /\ UNCHANGED <<submission, cluster, visits, savedObjects, overlapped>>

\* "View detector" (goToDetectorDetails)
ViewDetector(a) ==
    /\ Announced("created", a) \in toasts
    /\ toasts' = {}
    /\ store' = None
    /\ PushDetails(a, None)
    /\ UNCHANGED <<wizard, submission, cluster, savedObjects, overlapped>>

-----------------------------------------------------------------------------

Answer(a) ==
    \E answer \in Answers : AnswerMappings(a, answer) \/ AnswerCreate(a, answer)

Resume(v) ==
    \/ CreationFailed(v) \/ CreationSucceeded(v) \/ CreationLost(v)
    \/ \E ok \in BOOLEAN :
        CreatePattern(v, ok) \/ CreateDashboard(v, ok) \/ LookUpDashboard(v, ok)
    \/ GetDetector(v)
    \/ DeleteStepFails(v) \/ FindDashboard(v)
    \/ DropDashboard(v) \/ DropPattern(v) \/ DropDetector(v)

User ==
    \/ GoToList
    \/ \E a \in Attempts :
        \/ OpenWizard(a) \/ OnCreateClick(a) \/ OpenDetails(a)
        \/ ReviewConfiguration(a) \/ ViewDetector(a)
    \/ \E v \in Visits : OnDelete(v)
    \/ \E toast \in toasts : HideToast(toast)

Next ==
    \/ User
    \/ \E a \in Attempts : Answer(a) \/ MappingsFailed(a) \/ MappingsStored(a)
    \/ \E v \in Visits : Resume(v)

Spec == Init /\ [][Next]_vars

\* Requests are answered or fail, and the event loop runs continuations; the user need
\* do nothing.
Fairness ==
    /\ \A a \in Attempts :
        WF_vars(Answer(a)) /\ WF_vars(MappingsFailed(a)) /\ WF_vars(MappingsStored(a))
    /\ \A v \in Visits : WF_vars(Resume(v))

FairSpec == Spec /\ Fairness

-----------------------------------------------------------------------------
(* Properties *)

\* One press of Create makes at most one detector, and only when its field mappings
\* were stored: a double click, a refused mapping and a wizard the user left included.
OneDetectorPerAttempt ==
    \A a \in Attempts :
        /\ requests[a] <= 1
        /\ (requests[a] > 0 \/ a \in exists) => mapping[a] = "ok"

\* A details page that resolves a creation and is still shown never finds another
\* creation in the store, so that the deleteState in its callback can only drop its own.
ResolvesItsOwn ==
    \A v \in Visits :
        (Mounted(v) /\ task[v] \in Resolving) => store \in {target[v], None}

\* A success is announced only for a detector that the cluster created, a failure only
\* for one it refused, and the two never for the same attempt.
TruthfulToasts ==
    \A a \in Attempts :
        /\ Announced("created", a) \in toasts => reply[a] = "ok"
        /\ Announced("failed", a) \in toasts => reply[a] = "error"

\* A deleted detector leaves no dashboard behind, unless its creation was resolved
\* twice or was being resolved while it was deleted: a failing step of onDelete keeps
\* the detector, and the detector goes last.
NoOrphanDashboard ==
    \A v \in Visits :
        LET a == target[v] IN
        (task[v] = "gone" /\ resolutions[a] <= 1 /\ a \notin overlapped)
            => dashboards[a] = 0

\* A details page that starts to resolve a creation announces it as created or failed,
\* whether the user stays on the page or not, unless a request of it was lost.
CreationAnnounced ==
    \A v \in Visits :
        task[v] = "pending" ~>
            \/ task[v] = "crashed"
            \/ \E kind \in {"created", "failed"} : Announced(kind, target[v]) \in toasts

\* "if it already exists then use that id for visualizations": a detector has at most
\* one index pattern.
OneIndexPattern == \A a \in Attempts : patterns[a] <= 1

=============================================================================
