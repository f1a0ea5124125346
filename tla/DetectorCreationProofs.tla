------------------------ MODULE DetectorCreationProofs ------------------------
(***************************************************************************)
(* What holds of the creation of detectors for any number of attempts and  *)
(* visits of the details page.                                             *)
(***************************************************************************)
EXTENDS DetectorCreation, TLAPS

\* A visit that was mounted has a detector.
Targets == \A v \in Visits : task[v] # "unborn" => target[v] \in Attempts

Typed == TypeOK /\ Targets

-----------------------------------------------------------------------------

LEMMA MountType ==
    ASSUME TypeOK, NEW id \in Attempts \cup {Pending}, NEW held \in Attempts \cup {None},
           Mount(id, held)
    PROVE  /\ page' \in [at : {"detectors", "create", "details"},
                         attempt : Attempts \cup {None}, visit : Visits \cup {None}]
           /\ target' \in [Visits -> Attempts \cup {None}]
           /\ task' \in [Visits -> Resolving \cup Deleting \cup Idle]
           /\ resolutions' \in [Attempts -> Nat]
BY DEF TypeOK, Mount, DetailsPage, ListPage, Await, Resolving, Idle

LEMMA PushType ==
    ASSUME TypeOK, NEW id \in Attempts \cup {Pending}, NEW held \in Attempts \cup {None},
           PushDetails(id, held)
    PROVE  /\ page' \in [at : {"detectors", "create", "details"},
                         attempt : Attempts \cup {None}, visit : Visits \cup {None}]
           /\ target' \in [Visits -> Attempts \cup {None}]
           /\ task' \in [Visits -> Resolving \cup Deleting \cup Idle]
           /\ resolutions' \in [Attempts -> Nat]
BY MountType DEF TypeOK, PushDetails

LEMMA AwaitType ==
    ASSUME TypeOK, NEW v \in Visits, NEW what \in Resolving \cup Deleting \cup Idle,
           Await(v, what)
    PROVE  task' \in [Visits -> Resolving \cup Deleting \cup Idle]
BY DEF TypeOK, Await

LEMMA FinishType ==
    ASSUME TypeOK, NEW v \in Visits, target[v] \in Attempts, Finish(v),
           patterns' \in [Attempts -> Nat], dashboards' \in [Attempts -> Nat]
    PROVE  TypeOK'
<1>1. toasts' \subseteq Toasts
    BY DEF TypeOK, Finish, Notify, Announced, Toasts
<1>2. task' \in [Visits -> Resolving \cup Deleting \cup Idle]
    BY DEF TypeOK, Finish, Await, Idle
<1> QED
    BY <1>1, <1>2 DEF TypeOK, Finish, submission, cluster

\* A step that only moves visits on: what it awaits next, and new visits' targets.
LEMMA TargetsKept ==
    ASSUME Typed, NEW v \in Visits, NEW what, Await(v, what), UNCHANGED target,
           task[v] # "unborn"
    PROVE  Targets'
BY DEF Typed, Targets, TypeOK, Await

LEMMA PushTargets ==
    ASSUME Typed, NEW id \in Attempts \cup {Pending}, NEW held \in Attempts \cup {None},
           PushDetails(id, held)
    PROVE  Targets'
<1>1. CASE UNCHANGED <<target, task>>
    BY <1>1 DEF Typed, Targets
<1>2. ASSUME NEW v \in Visits, NEW what, NEW b \in Attempts, Await(v, what),
             target' = [target EXCEPT ![v] = b]
      PROVE  Targets'
    BY <1>2 DEF Typed, Targets, TypeOK, Await
<1> QED
    BY <1>1, <1>2 DEF PushDetails, Mount

LEMMA TypeInit == Init => Typed
BY DetectorCreationAssumption
DEF Init, Typed, TypeOK, Targets, ListPage, Idle

LEMMA WizardTyped ==
    ASSUME Typed, NEW a \in Attempts,
           \/ OpenWizard(a) \/ OnCreateClick(a) \/ MappingsFailed(a)
           \/ \E answer \in Answers : AnswerMappings(a, answer)
    PROVE  Typed'
<1> USE DEF Typed, TypeOK, Targets, submission, cluster, visits, savedObjects
<1>1. CASE OpenWizard(a)
    BY <1>1 DEF OpenWizard, WizardPage
<1>2. CASE OnCreateClick(a)
    BY <1>2 DEF OnCreateClick
<1>3. CASE MappingsFailed(a)
    BY <1>3 DEF MappingsFailed
<1>4. ASSUME NEW answer \in Answers, AnswerMappings(a, answer) PROVE Typed'
    BY <1>4 DEF AnswerMappings
<1> QED
    BY <1>1, <1>2, <1>3, <1>4

LEMMA MappingsStoredTyped ==
    ASSUME Typed, NEW a \in Attempts, MappingsStored(a)
    PROVE  Typed'
<1>1. store' \in Attempts \cup {None} /\ toasts' \subseteq Toasts
    BY DEF Typed, TypeOK, MappingsStored, Notify, Announced, Toasts
<1>2. PushDetails(Pending, store')
    BY DEF MappingsStored
<1>3. /\ clicks' \in [Attempts -> Nat]
      /\ requests' \in [Attempts -> Nat]
      /\ reply' \in [Attempts -> Answers \cup {"none", "awaited"}]
      /\ wizard' \in [Attempts -> {"unused", "open", "creating", "finished"}]
    BY DEF Typed, TypeOK, MappingsStored
<1>4. Targets'
    BY <1>1, <1>2, PushTargets DEF Typed
<1> QED
    BY <1>1, <1>2, <1>3, <1>4, PushType DEF Typed, TypeOK, MappingsStored, savedObjects

LEMMA ResolveTyped ==
    ASSUME Typed, NEW v \in Visits, NEW ok \in BOOLEAN,
           \/ CreationFailed(v) \/ CreationSucceeded(v) \/ CreationLost(v)
           \/ CreatePattern(v, ok) \/ CreateDashboard(v, ok) \/ LookUpDashboard(v, ok)
    PROVE  Typed'
<1>1. target[v] \in Attempts /\ task[v] # "unborn"
    BY DEF Typed, Targets, CreationFailed, CreationSucceeded, CreationLost,
           CreatePattern, CreateDashboard, LookUpDashboard
<1>2. ASSUME Finish(v), patterns' \in [Attempts -> Nat], dashboards' \in [Attempts -> Nat]
      PROVE  Typed'
  <2>1. Targets'
    BY <1>1, <1>2 DEF Typed, Targets, TypeOK, Finish, Await
  <2> QED
    BY <1>1, <1>2, <2>1, FinishType DEF Typed
<1>3. ASSUME NEW what \in Resolving \cup Idle, Await(v, what), UNCHANGED target,
             UNCHANGED <<page, wizard, submission, cluster, store, resolutions, overlapped>>,
             toasts' \subseteq Toasts, patterns' \in [Attempts -> Nat],
             dashboards' \in [Attempts -> Nat]
      PROVE  Typed'
  <2>1. task' \in [Visits -> Resolving \cup Deleting \cup Idle]
    BY <1>3, AwaitType DEF Typed
  <2>2. Targets'
    BY <1>1, <1>3, TargetsKept
  <2> QED
    BY <1>3, <2>1, <2>2 DEF Typed, TypeOK, submission, cluster
<1>4. toasts \subseteq Toasts /\ patterns \in [Attempts -> Nat] /\ dashboards \in [Attempts -> Nat]
    BY DEF Typed, TypeOK
<1>5. CASE CreationFailed(v)
  <2>1. toasts' \subseteq Toasts
    BY <1>1, <1>4, <1>5 DEF CreationFailed, Notify, Announced, Toasts
  <2> QED
    BY <1>3, <1>4, <1>5, <2>1 DEF CreationFailed, Idle, savedObjects
<1>6. CASE CreationSucceeded(v)
    BY <1>2, <1>3, <1>4, <1>6 DEF CreationSucceeded, Resolving, savedObjects
<1>7. CASE CreationLost(v)
    BY <1>3, <1>4, <1>7 DEF CreationLost, Idle, savedObjects
<1>8. CASE CreatePattern(v, ok)
  <2>1. patterns' \in [Attempts -> Nat]
    BY <1>4, <1>8 DEF CreatePattern
  <2> QED
    BY <1>3, <1>4, <1>8, <2>1 DEF CreatePattern, Resolving
<1>9. CASE CreateDashboard(v, ok)
  <2>1. dashboards' \in [Attempts -> Nat]
    BY <1>4, <1>9 DEF CreateDashboard
  <2> QED
    BY <1>2, <1>3, <1>4, <1>9, <2>1 DEF CreateDashboard, Resolving
<1>10. CASE LookUpDashboard(v, ok)
    BY <1>2, <1>3, <1>4, <1>10 DEF LookUpDashboard, Idle, savedObjects
<1> QED
    BY <1>5, <1>6, <1>7, <1>8, <1>9, <1>10

LEMMA DetailsTyped ==
    ASSUME Typed, NEW v \in Visits,
           \/ GetDetector(v) \/ OnDelete(v) \/ DeleteStepFails(v) \/ FindDashboard(v)
           \/ DropDashboard(v) \/ DropPattern(v) \/ DropDetector(v)
    PROVE  Typed'
<1> USE DEF Typed, TypeOK, submission, cluster, savedObjects
<1>1. target[v] \in Attempts /\ task[v] # "unborn" /\ UNCHANGED target
    BY DEF Targets, GetDetector, OnDelete, DeleteStepFails, FindDashboard,
           DropDashboard, DropPattern, DropDetector, Deleting
<1>2. PICK what \in Deleting \cup Idle : Await(v, what)
    BY DEF GetDetector, OnDelete, DeleteStepFails, FindDashboard,
           DropDashboard, DropPattern, DropDetector, Deleting, Idle
<1>3. task' \in [Visits -> Resolving \cup Deleting \cup Idle] /\ Targets'
    BY <1>1, <1>2, AwaitType, TargetsKept
<1>4. CASE GetDetector(v)
    BY <1>3, <1>4 DEF GetDetector
<1>5. CASE OnDelete(v)
    BY <1>1, <1>3, <1>5 DEF OnDelete
<1>6. CASE DeleteStepFails(v)
  <2>1. dashboards' \in [Attempts -> Nat]
    BY <1>1, <1>6 DEF DeleteStepFails
  <2>2. exists' \subseteq Attempts
    BY <1>6 DEF DeleteStepFails
  <2> QED
    BY <1>3, <1>6, <2>1, <2>2 DEF DeleteStepFails
<1>7. CASE FindDashboard(v)
    BY <1>3, <1>7 DEF FindDashboard
<1>8. CASE DropDashboard(v)
  <2>1. dashboards' \in [Attempts -> Nat]
    BY <1>1, <1>8 DEF DropDashboard
  <2> QED
    BY <1>3, <1>8, <2>1 DEF DropDashboard
<1>9. CASE DropPattern(v)
  <2>1. patterns' \in [Attempts -> Nat]
    BY <1>1, <1>9 DEF DropPattern
  <2> QED
    BY <1>3, <1>9, <2>1 DEF DropPattern
<1>10. CASE DropDetector(v)
    BY <1>3, <1>10 DEF DropDetector, ListPage
<1> QED
    BY <1>4, <1>5, <1>6, <1>7, <1>8, <1>9, <1>10

LEMMA OtherTyped ==
    ASSUME Typed,
           \/ GoToList
           \/ \E a \in Attempts :
               \/ OpenDetails(a) \/ ReviewConfiguration(a) \/ ViewDetector(a)
               \/ \E answer \in Answers : AnswerCreate(a, answer)
           \/ \E toast \in toasts : HideToast(toast)
    PROVE  Typed'
<1> USE DEF Typed, TypeOK, submission, cluster, visits, savedObjects
<1>1. CASE GoToList
    BY <1>1 DEF GoToList, ListPage, Targets
<1>2. ASSUME NEW a \in Attempts, OpenDetails(a) PROVE Typed'
  <2>1. PushDetails(a, store)
    BY <1>2 DEF OpenDetails
  <2>2. Targets'
    BY <2>1, PushTargets
  <2> QED
    BY <1>2, <2>1, <2>2, PushType DEF OpenDetails
<1>3. ASSUME NEW a \in Attempts, ReviewConfiguration(a) PROVE Typed'
    BY <1>3 DEF ReviewConfiguration, WizardPage, Targets
<1>4. ASSUME NEW a \in Attempts, ViewDetector(a) PROVE Typed'
  <2>1. PushDetails(a, None)
    BY <1>4 DEF ViewDetector
  <2>2. Targets'
    BY <2>1, PushTargets
  <2> QED
    BY <1>4, <2>1, <2>2, PushType DEF ViewDetector
<1>5. ASSUME NEW a \in Attempts, NEW answer \in Answers, AnswerCreate(a, answer)
      PROVE  Typed'
    BY <1>5 DEF AnswerCreate, Targets
<1>6. ASSUME NEW toast \in toasts, HideToast(toast) PROVE Typed'
    BY <1>6 DEF HideToast, Targets
<1> QED
    BY <1>1, <1>2, <1>3, <1>4, <1>5, <1>6

LEMMA TypedPreserved == Typed /\ [Next]_vars => Typed'
<1> SUFFICES ASSUME Typed, [Next]_vars PROVE Typed'
    OBVIOUS
<1>1. CASE User
    BY <1>1, WizardTyped, OtherTyped, DetailsTyped DEF User
<1>2. ASSUME NEW a \in Attempts, Answer(a) PROVE Typed'
    BY <1>2, WizardTyped, OtherTyped DEF Answer
<1>3. ASSUME NEW a \in Attempts, MappingsFailed(a) \/ MappingsStored(a) PROVE Typed'
    BY <1>3, WizardTyped, MappingsStoredTyped
<1>4. ASSUME NEW v \in Visits, Resume(v) PROVE Typed'
    BY <1>4, ResolveTyped, DetailsTyped DEF Resume
<1>5. CASE UNCHANGED vars
    BY <1>5 DEF vars, Typed, TypeOK, Targets
<1> QED
    BY <1>1, <1>2, <1>3, <1>4, <1>5 DEF Next

LEMMA AlwaysTyped == Spec => []Typed
BY TypeInit, TypedPreserved, PTL DEF Spec

\* Every variable keeps its type, for any number of attempts and visits.
THEOREM TypeCorrect == Spec => []TypeOK
<1>1. Typed => TypeOK
    BY DEF Typed
<1> QED
    BY <1>1, AlwaysTyped, PTL

-----------------------------------------------------------------------------

\* How far an attempt is: a click is pending only while the wizard shows it, and
\* nothing was asked of the cluster before the wizard is finished with.
Submitted ==
    \A a \in Attempts :
        /\ clicks[a] > 0 => wizard[a] = "creating"
        /\ clicks[a] <= 1
        /\ wizard[a] # "finished" => requests[a] = 0 /\ reply[a] = "none"
        /\ requests[a] <= 1
        /\ requests[a] > 0 => mapping[a] = "ok"
        /\ reply[a] # "none" => mapping[a] = "ok"
        /\ a \in exists => reply[a] # "none"

LEMMA SubmittedInit == Init => Submitted
<1> SUFFICES ASSUME Init PROVE Submitted
    OBVIOUS
<1>1. \A a \in Attempts : clicks[a] = 0 /\ requests[a] = 0 /\ reply[a] = "none"
    BY DEF Init
<1>2. exists = {}
    BY DEF Init
<1>3. 0 <= 1 /\ ~(0 > 0)
    OBVIOUS
<1>4. \A a \in Attempts :
        /\ clicks[a] <= 1 /\ ~(clicks[a] > 0)
        /\ requests[a] <= 1 /\ ~(requests[a] > 0)
    BY <1>1, <1>3
<1> QED
    BY <1>1, <1>2, <1>4, Zenon DEF Submitted

\* All other steps leave the attempt alone, or take a detector away.
LEMMA SubmittedKept ==
    ASSUME Submitted, UNCHANGED <<wizard, submission, reply>>, exists' \subseteq exists
    PROVE  Submitted'
BY DEF Submitted, submission

LEMMA SubmittedPreserved == Typed /\ Submitted /\ [Next]_vars => Submitted'
<1> SUFFICES ASSUME Typed, Submitted, [Next]_vars PROVE Submitted'
    OBVIOUS
<1> USE DEF Typed, TypeOK, Submitted
<1>1. ASSUME NEW a \in Attempts, OpenWizard(a) PROVE Submitted'
    BY <1>1 DEF OpenWizard, submission, cluster
<1>2. ASSUME NEW a \in Attempts, OnCreateClick(a) PROVE Submitted'
    BY <1>2 DEF OnCreateClick, cluster
<1>3. ASSUME NEW a \in Attempts, NEW answer \in Answers, AnswerMappings(a, answer)
      PROVE  Submitted'
    BY <1>3 DEF AnswerMappings, cluster
<1>4. ASSUME NEW a \in Attempts, MappingsFailed(a) PROVE Submitted'
    BY <1>4 DEF MappingsFailed, cluster
<1>5. ASSUME NEW a \in Attempts, MappingsStored(a) PROVE Submitted'
    BY <1>5 DEF MappingsStored
<1>6. ASSUME NEW a \in Attempts, NEW answer \in Answers, AnswerCreate(a, answer)
      PROVE  Submitted'
    BY <1>6 DEF AnswerCreate, submission, Answers
<1>7. ASSUME NEW a \in Attempts, ReviewConfiguration(a) PROVE Submitted'
    BY <1>7 DEF ReviewConfiguration, submission, cluster
<1>8. ASSUME UNCHANGED <<wizard, submission, reply>>, exists' \subseteq exists
      PROVE  Submitted'
    BY <1>8, SubmittedKept
<1>9. CASE User
    BY <1>1, <1>2, <1>7, <1>8, <1>9
    DEF User, GoToList, OpenDetails, ViewDetector, OnDelete, HideToast, cluster, submission
<1>10. CASE \E a \in Attempts : Answer(a) \/ MappingsFailed(a) \/ MappingsStored(a)
    BY <1>3, <1>4, <1>5, <1>6, <1>10 DEF Answer
<1>11. ASSUME NEW v \in Visits, Resume(v) PROVE Submitted'
  <2>1. UNCHANGED <<wizard, submission, reply>> /\ exists' \subseteq exists
    BY <1>11
    DEF Resume, CreationFailed, CreationSucceeded, CreationLost, CreatePattern,
        CreateDashboard, LookUpDashboard, Finish, GetDetector, DeleteStepFails,
        FindDashboard, DropDashboard, DropPattern, DropDetector, cluster, submission
  <2> QED
    BY <1>8, <2>1
<1>12. CASE UNCHANGED vars
    BY <1>8, <1>12 DEF vars
<1> QED
    BY <1>9, <1>10, <1>11, <1>12 DEF Next

\* One press of Create makes at most one detector, and none before its field mappings
\* were stored.
THEOREM OneDetector == Spec => []OneDetectorPerAttempt
<1>1. Typed /\ Submitted => OneDetectorPerAttempt
    BY DEF Typed, TypeOK, Submitted, OneDetectorPerAttempt
<1>2. Init => Typed /\ Submitted
    BY TypeInit, SubmittedInit
<1>3. (Typed /\ Submitted) /\ [Next]_vars => (Typed /\ Submitted)'
    BY TypedPreserved, SubmittedPreserved
<1> QED
    BY <1>1, <1>2, <1>3, PTL DEF Spec

-----------------------------------------------------------------------------

\* Mounting a page resolves what the store holds.
LEMMA PushResolvesOwn ==
    ASSUME Typed, NEW id \in Attempts \cup {Pending}, NEW held \in Attempts \cup {None},
           PushDetails(id, held), store' = held,
           page.at = "details" => held \in {store, None},
           ResolvesItsOwn
    PROVE  ResolvesItsOwn'
<1>1. CASE page.at = "details"
    BY <1>1 DEF PushDetails, ResolvesItsOwn, Mounted, DetailsPage, ListPage
<1>2. CASE page.at # "details"
  <2>1. CASE page' = ListPage
    BY <2>1 DEF ResolvesItsOwn, Mounted, DetailsPage, ListPage
  <2>2. ASSUME NEW v \in Visits, page' = DetailsPage(v), held # None,
               target' = [target EXCEPT ![v] = held]
        PROVE  ResolvesItsOwn'
    BY <2>2 DEF ResolvesItsOwn, Mounted, DetailsPage, Typed, TypeOK
  <2>3. CASE held = None
    BY <2>3 DEF ResolvesItsOwn
  <2> QED
    BY <1>2, <2>1, <2>2, <2>3 DEF PushDetails, Mount
<1> QED
    BY <1>1, <1>2

LEMMA ResolvesOwnPreserved == Typed /\ ResolvesItsOwn /\ [Next]_vars => ResolvesItsOwn'
<1> SUFFICES ASSUME Typed, ResolvesItsOwn, [Next]_vars PROVE ResolvesItsOwn'
    OBVIOUS
<1>1. ASSUME page' # page, page'.at # "details" PROVE ResolvesItsOwn'
    BY <1>1 DEF ResolvesItsOwn, Mounted, DetailsPage
<1>2. ASSUME UNCHANGED <<page, target, store>>,
             \A v \in Visits : task'[v] \in Resolving => task[v] \in Resolving
      PROVE  ResolvesItsOwn'
    BY <1>2 DEF ResolvesItsOwn, Mounted
<1>3. CASE store' = None
    BY <1>3 DEF ResolvesItsOwn
<1>4. ASSUME NEW a \in Attempts, OpenWizard(a) PROVE ResolvesItsOwn'
    BY <1>4 DEF OpenWizard, WizardPage, ResolvesItsOwn, Mounted, DetailsPage
<1>5. CASE GoToList
    BY <1>5 DEF GoToList, ListPage, ResolvesItsOwn, Mounted, DetailsPage
<1>6. ASSUME NEW a \in Attempts, MappingsStored(a) PROVE ResolvesItsOwn'
  <2>1. PushDetails(Pending, store') /\ store' \in Attempts \cup {None}
    BY <1>6 DEF MappingsStored, Typed, TypeOK
  <2>2. page.at = "details" => store' \in {store, None}
    BY <1>6 DEF MappingsStored, Open, WizardPage
  <2> QED
    BY <2>1, <2>2, PushResolvesOwn
<1>7. ASSUME NEW a \in Attempts, OpenDetails(a) PROVE ResolvesItsOwn'
    BY <1>7, PushResolvesOwn DEF OpenDetails, Typed, TypeOK
<1>8. ASSUME NEW v \in Visits, NEW what, Await(v, what),
             what \in Resolving => task[v] \in Resolving,
             UNCHANGED <<page, target, store>>
      PROVE  ResolvesItsOwn'
  <2>1. \A u \in Visits : task'[u] \in Resolving => task[u] \in Resolving
    BY <1>8 DEF Await, Typed, TypeOK
  <2> QED
    BY <1>2, <1>8, <2>1
<1>9. ASSUME NEW v \in Visits, Resume(v) PROVE ResolvesItsOwn'
  <2>1. CASE Finish(v)
    BY <1>3, <1>8, <2>1 DEF Finish, Resolving
  <2>2. CASE DropDetector(v)
    BY <1>3, <2>2 DEF DropDetector
  <2>3. CASE ~Finish(v) /\ ~DropDetector(v)
    BY <1>8, <1>9, <2>3
    DEF Resume, CreationFailed, CreationSucceeded, CreationLost, CreatePattern,
        CreateDashboard, LookUpDashboard, GetDetector, DeleteStepFails, FindDashboard,
        DropDashboard, DropPattern, Resolving
  <2> QED
    BY <2>1, <2>2, <2>3
<1>10. ASSUME NEW v \in Visits, OnDelete(v) PROVE ResolvesItsOwn'
    BY <1>8, <1>10 DEF OnDelete, Resolving
<1>11. ASSUME NEW a \in Attempts, ReviewConfiguration(a) \/ ViewDetector(a)
       PROVE  ResolvesItsOwn'
    BY <1>3, <1>11 DEF ReviewConfiguration, ViewDetector
<1>12. CASE UNCHANGED <<page, target, store, task>>
    BY <1>2, <1>12
<1> QED
    BY <1>4, <1>5, <1>6, <1>7, <1>9, <1>10, <1>11, <1>12
    DEF Next, User, Answer, OnCreateClick, AnswerMappings, MappingsFailed, AnswerCreate,
        HideToast, vars, visits

\* The deleteState that a details page runs when its detector was created can only
\* drop the creation this page resolved.
THEOREM OwnCreation == Spec => []ResolvesItsOwn
<1>1. Init => Typed /\ ResolvesItsOwn
    BY TypeInit DEF Init, ResolvesItsOwn
<1>2. (Typed /\ ResolvesItsOwn) /\ [Next]_vars => (Typed /\ ResolvesItsOwn)'
    BY TypedPreserved, ResolvesOwnPreserved
<1> QED
    BY <1>1, <1>2, PTL DEF Spec

-----------------------------------------------------------------------------

\* A page that makes saved objects does so for a detector that was created.
Created ==
    \A v \in Visits : task[v] \in {"pattern", "dashboard", "lookup"} => reply[target[v]] = "ok"

\* A visit keeps its detector once it is mounted.
LEMMA TargetKept ==
    ASSUME Typed, [Next]_vars, NEW v \in Visits, task[v] # "unborn"
    PROVE  target'[v] = target[v]
<1>1. ASSUME NEW id, NEW held, PushDetails(id, held) PROVE target'[v] = target[v]
    BY <1>1 DEF PushDetails, Mount, Typed, TypeOK
<1>2. CASE UNCHANGED target
    BY <1>2
<1>3. ASSUME NEW a \in Attempts, MappingsStored(a) PROVE target'[v] = target[v]
    BY <1>1, <1>3 DEF MappingsStored
<1>4. ASSUME NEW a \in Attempts, OpenDetails(a) \/ ViewDetector(a)
      PROVE  target'[v] = target[v]
    BY <1>1, <1>4 DEF OpenDetails, ViewDetector
<1> QED
    BY <1>2, <1>3, <1>4
    DEF Next, User, Answer, Resume, GoToList, OpenWizard, OnCreateClick, AnswerMappings,
        AnswerCreate, MappingsFailed, ReviewConfiguration, OnDelete, HideToast,
        CreationFailed, CreationSucceeded, CreationLost, CreatePattern, CreateDashboard,
        LookUpDashboard, Finish, GetDetector, DeleteStepFails, FindDashboard,
        DropDashboard, DropPattern, DropDetector, vars, visits

\* createDetector is called once for an attempt and answered once.
LEMMA ReplyKept ==
    ASSUME Typed, Submitted, [Next]_vars, NEW a \in Attempts, reply[a] \in Answers
    PROVE  reply'[a] = reply[a]
<1>1. ASSUME NEW b \in Attempts, MappingsStored(b) PROVE reply'[a] = reply[a]
  <2>1. wizard[b] = "creating"
    BY <1>1 DEF MappingsStored, Submitted
  <2>2. reply[b] = "none"
    BY <2>1 DEF Submitted
  <2>3. a # b
    BY <2>2 DEF Answers
  <2> QED
    BY <1>1, <2>3 DEF MappingsStored, Typed, TypeOK
<1>2. ASSUME NEW b \in Attempts, NEW answer \in Answers, AnswerCreate(b, answer)
      PROVE  reply'[a] = reply[a]
  <2>1. a # b
    BY <1>2 DEF AnswerCreate, Answers
  <2> QED
    BY <1>2, <2>1 DEF AnswerCreate, Typed, TypeOK
<1>3. CASE UNCHANGED reply
    BY <1>3
<1> QED
    BY <1>1, <1>2, <1>3
    DEF Next, User, Answer, Resume, GoToList, OpenWizard, OnCreateClick, AnswerMappings,
        MappingsFailed, ReviewConfiguration, OpenDetails, ViewDetector, OnDelete, HideToast,
        CreationFailed, CreationSucceeded, CreationLost, CreatePattern, CreateDashboard,
        LookUpDashboard, Finish, GetDetector, DeleteStepFails, FindDashboard,
        DropDashboard, DropPattern, DropDetector, vars, cluster

\* A visit comes to the saved objects only with a detector that was created.
LEMMA ReachesSavedObjects ==
    ASSUME Typed, [Next]_vars, NEW v \in Visits,
           task'[v] \in {"pattern", "dashboard", "lookup"}
    PROVE  \/ task[v] \in {"pattern", "dashboard", "lookup"}
           \/ task[v] = "pending" /\ reply[target[v]] = "ok"
<1> DEFINE Goal == \/ task[v] \in {"pattern", "dashboard", "lookup"}
                   \/ task[v] = "pending" /\ reply[target[v]] = "ok"
<1>1. ASSUME NEW id, NEW held, PushDetails(id, held) PROVE Goal
    BY <1>1 DEF PushDetails, Mount, Await, Typed, TypeOK
<1>2. CASE UNCHANGED task
    BY <1>2
<1>3. ASSUME NEW a \in Attempts, MappingsStored(a) \/ OpenDetails(a) \/ ViewDetector(a)
      PROVE  Goal
    BY <1>1, <1>3 DEF MappingsStored, OpenDetails, ViewDetector
<1>4. ASSUME NEW u \in Visits, NEW what, Await(u, what),
             what \in {"pattern", "dashboard", "lookup"} =>
                \/ task[u] \in {"pattern", "dashboard", "lookup"}
                \/ task[u] = "pending" /\ reply[target[u]] = "ok"
      PROVE  Goal
    BY <1>4 DEF Await, Typed, TypeOK
<1>5. ASSUME NEW u \in Visits, Resume(u) \/ OnDelete(u) PROVE Goal
    BY <1>4, <1>5
    DEF Resume, CreationFailed, CreationSucceeded, CreationLost, CreatePattern,
        CreateDashboard, LookUpDashboard, Finish, GetDetector, OnDelete, DeleteStepFails,
        FindDashboard, DropDashboard, DropPattern, DropDetector
<1> QED
    BY <1>2, <1>3, <1>5
    DEF Next, User, Answer, GoToList, OpenWizard, OnCreateClick, AnswerMappings,
        AnswerCreate, MappingsFailed, ReviewConfiguration, HideToast, vars, visits

LEMMA CreatedPreserved == Typed /\ Submitted /\ Created /\ [Next]_vars => Created'
<1> SUFFICES ASSUME Typed, Submitted, Created, [Next]_vars, NEW v \in Visits,
                    task'[v] \in {"pattern", "dashboard", "lookup"}
             PROVE  reply'[target'[v]] = "ok"
    BY DEF Created
<1>1. task[v] # "unborn" /\ reply[target[v]] = "ok"
    BY ReachesSavedObjects DEF Created
<1>2. target[v] \in Attempts
    BY <1>1 DEF Typed, Targets
<1> QED
    BY <1>1, <1>2, TargetKept, ReplyKept DEF Answers

\* A toast that appears is the truth.
LEMMA NewToasts ==
    ASSUME Typed, Submitted, Created, [Next]_vars, NEW a \in Attempts
    PROVE  /\ Announced("created", a) \in toasts' =>
                Announced("created", a) \in toasts \/ reply[a] = "ok"
           /\ Announced("failed", a) \in toasts' =>
                Announced("failed", a) \in toasts \/ reply[a] = "error"
<1> DEFINE Goal ==
        /\ Announced("created", a) \in toasts' =>
             Announced("created", a) \in toasts \/ reply[a] = "ok"
        /\ Announced("failed", a) \in toasts' =>
             Announced("failed", a) \in toasts \/ reply[a] = "error"
<1>1. CASE toasts' \subseteq toasts
    BY <1>1
<1>2. ASSUME NEW b \in Attempts, MappingsStored(b) PROVE Goal
    BY <1>2 DEF MappingsStored, Notify, Announced
<1>3. ASSUME NEW v \in Visits, Finish(v), reply[target[v]] = "ok" PROVE Goal
    BY <1>3 DEF Finish, Notify, Announced
<1>4. ASSUME NEW v \in Visits, CreationFailed(v) PROVE Goal
  <2>1. target[v] \in Attempts
    BY <1>4 DEF CreationFailed, Typed, Targets
  <2>2. reply[target[v]] = "error"
    BY <1>4, <2>1 DEF CreationFailed, Submitted
  <2> QED
    BY <1>4, <2>2 DEF CreationFailed, Notify, Announced
<1>5. ASSUME NEW v \in Visits, Resume(v) PROVE Goal
  <2>1. CASE CreationSucceeded(v)
    BY <1>1, <1>3, <2>1 DEF CreationSucceeded
  <2>2. ASSUME NEW ok \in BOOLEAN, CreateDashboard(v, ok) \/ LookUpDashboard(v, ok)
        PROVE  Goal
    BY <1>1, <1>3, <2>2 DEF CreateDashboard, LookUpDashboard, Created
  <2> QED
    BY <1>1, <1>4, <1>5, <2>1, <2>2
    DEF Resume, CreationLost, CreatePattern, GetDetector, DeleteStepFails, FindDashboard,
        DropDashboard, DropPattern, DropDetector
<1> QED
    BY <1>1, <1>2, <1>5
    DEF Next, User, Answer, GoToList, OpenWizard, OnCreateClick, AnswerMappings,
        AnswerCreate, MappingsFailed, ReviewConfiguration, OpenDetails, ViewDetector,
        OnDelete, HideToast, vars

LEMMA ToastsPreserved ==
    Typed /\ Submitted /\ Created /\ TruthfulToasts /\ [Next]_vars => TruthfulToasts'
BY NewToasts, ReplyKept DEF TruthfulToasts, Answers, Announced

\* A success is announced only for a detector the cluster created, and a failure only for
\* one it refused: createDetector is sent after its mappings were stored and answered once.
THEOREM Truthful == Spec => []TruthfulToasts
<1> DEFINE Inv == Typed /\ Submitted /\ Created /\ TruthfulToasts
<1>1. Init => Inv
    BY TypeInit, SubmittedInit DEF Init, Created, TruthfulToasts
<1>2. Inv /\ [Next]_vars => Inv'
    BY TypedPreserved, SubmittedPreserved, CreatedPreserved, ToastsPreserved
<1>3. Inv => TruthfulToasts
    OBVIOUS
<1> QED
    BY <1>1, <1>2, <1>3, PTL DEF Spec

-----------------------------------------------------------------------------

Resolves(v, a) == task[v] \in Resolving /\ target[v] = a

\* A creation in the store is being resolved, or was, and only a detector that was asked for
\* is loaded and deleted.
StoreResolved == \A a \in Attempts : store = a => resolutions[a] > 0
Requested ==
    \A v \in Visits : task[v] \in {"loaded", "gone"} \cup Deleting => reply[target[v]] # "none"

\* A creation that is resolved once makes one dashboard at most, at the end.
OneDashboard ==
    \A a \in Attempts :
        resolutions[a] <= 1 =>
            /\ dashboards[a] <= resolutions[a]
            /\ \A v \in Visits : Resolves(v, a) => dashboards[a] = 0 /\ resolutions[a] = 1
            /\ \A u, v \in Visits : Resolves(u, a) /\ Resolves(v, a) => u = v

\* While a detector is deleted no page makes a dashboard for it, and none is left when it goes.
NothingLeft ==
    \A v \in Visits : LET a == target[v] IN
        (task[v] \in {"gone"} \cup Deleting /\ resolutions[a] <= 1 /\ a \notin overlapped) =>
            /\ \A u \in Visits : ~Resolves(u, a)
            /\ task[v] \in {"dropPattern", "dropDetector", "gone"} => dashboards[a] = 0

Resolved == StoreResolved /\ Requested /\ OneDashboard /\ NothingLeft

\* A step that leaves the visits and the saved objects alone.
LEMMA ResolvedKept ==
    ASSUME Resolved, UNCHANGED <<visits, dashboards, overlapped>>,
           store' \in {store, None},
           \A a \in Attempts : reply'[a] = "none" => reply[a] = "none",
           Typed
    PROVE  Resolved'
<1>1. StoreResolved'
    BY DetectorCreationAssumption DEF Resolved, StoreResolved, visits
<1>2. Requested'
    BY DEF Resolved, Requested, visits, Typed, Targets, Deleting
<1>3. OneDashboard' /\ NothingLeft'
    BY DEF Resolved, OneDashboard, NothingLeft, Resolves, visits
<1> QED
    BY <1>1, <1>2, <1>3 DEF Resolved

\* A details page that is mounted for a creation: the first one finds nothing of it.
LEMMA ResolvedMountHeld ==
    ASSUME Typed, Resolved, NEW v \in Visits, NEW b \in Attempts,
           task[v] = "unborn", Await(v, "pending"),
           target' = [target EXCEPT ![v] = b],
           resolutions' = [resolutions EXCEPT ![b] = @ + 1],
           UNCHANGED <<dashboards, overlapped>>, store' \in {b, store, None},
           \A a \in Attempts : reply'[a] = "none" => reply[a] = "none",
           resolutions[b] = 0 => reply[b] = "none"
    PROVE  Resolved'
<1>1. /\ \A u \in Visits : u # v => task'[u] = task[u] /\ target'[u] = target[u]
      /\ task'[v] = "pending" /\ target'[v] = b
    BY DEF Typed, TypeOK, Await
<1>2. /\ \A a \in Attempts : a # b => resolutions'[a] = resolutions[a]
      /\ resolutions'[b] = resolutions[b] + 1
      /\ \A a \in Attempts : resolutions[a] \in Nat /\ dashboards[a] \in Nat
    BY DEF Typed, TypeOK
<1>3. StoreResolved'
    BY <1>2, DetectorCreationAssumption DEF Resolved, StoreResolved
<1>4. Requested'
    BY <1>1 DEF Resolved, Requested, Typed, Targets, Deleting
<1>5. OneDashboard'
  <2> SUFFICES ASSUME NEW a \in Attempts, resolutions'[a] <= 1
               PROVE  /\ dashboards[a] <= resolutions'[a]
                      /\ \A u \in Visits : Resolves(u, a)' => dashboards[a] = 0 /\ resolutions'[a] = 1
                      /\ \A u, w \in Visits : Resolves(u, a)' /\ Resolves(w, a)' => u = w
    BY DEF OneDashboard
  <2>1. CASE a # b
    <3>1. \A u \in Visits : Resolves(u, a)' <=> Resolves(u, a)
      BY <1>1, <2>1 DEF Resolves, Resolving
    <3> QED
      BY <1>2, <2>1, <3>1 DEF Resolved, OneDashboard
  <2>2. CASE a = b
    <3>1. resolutions[b] = 0 /\ resolutions'[b] = 1
      BY <1>2, <2>2
    <3>2. dashboards[b] = 0
      BY <1>2, <3>1 DEF Resolved, OneDashboard
    <3>3. \A u \in Visits : ~Resolves(u, b)
      BY <3>1 DEF Resolved, OneDashboard
    <3>4. \A u \in Visits : Resolves(u, b)' => u = v
      BY <1>1, <3>3 DEF Resolves
    <3> QED
      BY <2>2, <3>1, <3>2, <3>4
  <2> QED
    BY <2>1, <2>2
<1>6. NothingLeft'
  <2> SUFFICES ASSUME NEW w \in Visits, task'[w] \in {"gone"} \cup Deleting,
                      resolutions'[target'[w]] <= 1, target'[w] \notin overlapped
               PROVE  /\ \A u \in Visits : ~(task'[u] \in Resolving /\ target'[u] = target'[w])
                      /\ task'[w] \in {"dropPattern", "dropDetector", "gone"}
                            => dashboards[target'[w]] = 0
    BY DEF NothingLeft, Resolves
  <2>1. w # v /\ task[w] = task'[w] /\ target'[w] = target[w]
    BY <1>1 DEF Deleting
  <2>2. target[w] \in Attempts /\ reply[target[w]] # "none"
    BY <2>1 DEF Typed, Targets, Deleting, Resolved, Requested
  <2>3. target[w] # b
    BY <1>2, <2>1, <2>2
  <2>4. /\ \A u \in Visits : ~Resolves(u, target[w])
        /\ task[w] \in {"dropPattern", "dropDetector", "gone"} => dashboards[target[w]] = 0
    BY <1>2, <2>1, <2>2, <2>3 DEF Resolved, NothingLeft
  <2>5. \A u \in Visits : ~(task'[u] \in Resolving /\ target'[u] = target'[w])
    BY <1>1, <2>1, <2>3, <2>4 DEF Resolves
  <2> QED
    BY <2>1, <2>4, <2>5
<1> QED
    BY <1>3, <1>4, <1>5, <1>6 DEF Resolved

\* A details page that is mounted for a detector only loads it.
LEMMA ResolvedMountFree ==
    ASSUME Typed, Resolved, NEW v \in Visits, NEW b \in Attempts,
           task[v] = "unborn", Await(v, "loading"),
           target' = [target EXCEPT ![v] = b],
           UNCHANGED <<resolutions, dashboards, overlapped>>, store' \in {store, None},
           \A a \in Attempts : reply'[a] = "none" => reply[a] = "none"
    PROVE  Resolved'
<1>1. /\ \A u \in Visits : u # v => task'[u] = task[u] /\ target'[u] = target[u]
      /\ task'[v] = "loading" /\ target'[v] = b
    BY DEF Typed, TypeOK, Await
<1>2. \A u \in Visits, a \in Attempts : Resolves(u, a)' => Resolves(u, a)
    BY <1>1 DEF Resolves, Resolving
<1>3. StoreResolved'
    BY DetectorCreationAssumption DEF Resolved, StoreResolved
<1>4. Requested'
    BY <1>1 DEF Resolved, Requested, Typed, Targets, Deleting
<1>5. OneDashboard'
    BY <1>2 DEF Resolved, OneDashboard
<1>6. NothingLeft'
  <2> SUFFICES ASSUME NEW w \in Visits, task'[w] \in {"gone"} \cup Deleting,
                      resolutions[target'[w]] <= 1, target'[w] \notin overlapped
               PROVE  /\ \A u \in Visits : ~(task'[u] \in Resolving /\ target'[u] = target'[w])
                      /\ task'[w] \in {"dropPattern", "dropDetector", "gone"}
                            => dashboards[target'[w]] = 0
    BY DEF NothingLeft, Resolves
  <2>1. w # v /\ task[w] = task'[w] /\ target'[w] = target[w]
    BY <1>1 DEF Deleting
  <2>2. target[w] \in Attempts
    BY <2>1 DEF Typed, Targets, Deleting
  <2>3. /\ \A u \in Visits : ~Resolves(u, target[w])
        /\ task[w] \in {"dropPattern", "dropDetector", "gone"} => dashboards[target[w]] = 0
    BY <2>1 DEF Resolved, NothingLeft
  <2>4. \A u \in Visits : ~(task'[u] \in Resolving /\ target'[u] = target'[w])
    BY <1>1, <2>1, <2>3 DEF Resolves, Resolving
  <2> QED
    BY <2>1, <2>3, <2>4
<1> QED
    BY <1>3, <1>4, <1>5, <1>6 DEF Resolved

\* history.push of a details page.
LEMMA ResolvedPush ==
    ASSUME Typed, Resolved, NEW id \in Attempts \cup {Pending}, NEW held \in Attempts \cup {None},
           PushDetails(id, held), UNCHANGED <<dashboards, overlapped>>,
           store' \in {store, None} \/ (page.at # "details" /\ store' = held),
           \A a \in Attempts : reply'[a] = "none" => reply[a] = "none",
           \A a \in Attempts : held = a /\ resolutions[a] = 0 => reply[a] = "none"
    PROVE  Resolved'
<1>1. CASE UNCHANGED <<target, task, resolutions>> /\ store' \in {store, None}
    BY <1>1, ResolvedKept DEF visits
<1>2. CASE page.at # "details"
  <2>1. CASE held # None
    BY <1>2, <2>1, ResolvedMountHeld DEF PushDetails, Mount
  <2>2. CASE held = None
    BY <1>1, <1>2, <2>2, ResolvedMountFree DEF PushDetails, Mount
  <2> QED
    BY <2>1, <2>2
<1> QED
    BY <1>1, <1>2 DEF PushDetails


\* A visit goes on and makes no dashboard: it does not start to resolve, and while it
\* deletes it goes forward only when the dashboard is gone.
LEMMA ResolvedVisit ==
    ASSUME Typed, Resolved, NEW v \in Visits, NEW what, Await(v, what),
           task[v] # "unborn",
           UNCHANGED <<target, resolutions, dashboards, overlapped, reply>>,
           store' \in {store, None},
           what \in Resolving => task[v] \in Resolving,
           what \in {"gone"} \cup Deleting => task[v] \in Deleting,
           what \in {"dropPattern", "dropDetector", "gone"} =>
               task[v] \in {"dropPattern", "dropDetector"} \/ dashboards[target[v]] = 0,
           what \in {"loaded", "gone"} \cup Deleting => reply[target[v]] # "none"
    PROVE  Resolved'
<1>1. task'[v] = what /\ \A u \in Visits : u # v => task'[u] = task[u]
    BY DEF Typed, TypeOK, Await
<1>2. \A u \in Visits, a \in Attempts : Resolves(u, a)' => Resolves(u, a)
    BY <1>1 DEF Resolves
<1>3. StoreResolved'
    BY DetectorCreationAssumption DEF Resolved, StoreResolved
<1>4. Requested'
    BY <1>1 DEF Resolved, Requested
<1>5. OneDashboard'
    BY <1>2 DEF Resolved, OneDashboard
<1>6. NothingLeft'
  <2> SUFFICES ASSUME NEW w \in Visits, task'[w] \in {"gone"} \cup Deleting,
                      resolutions[target[w]] <= 1, target[w] \notin overlapped
               PROVE  /\ \A u \in Visits : ~(task'[u] \in Resolving /\ target[u] = target[w])
                      /\ task'[w] \in {"dropPattern", "dropDetector", "gone"}
                            => dashboards[target[w]] = 0
    BY DEF NothingLeft, Resolves
  <2>1. task[w] \in {"gone"} \cup Deleting
    BY <1>1
  <2>2. /\ \A u \in Visits : ~Resolves(u, target[w])
        /\ task[w] \in {"dropPattern", "dropDetector", "gone"} => dashboards[target[w]] = 0
    BY <2>1 DEF Resolved, NothingLeft
  <2>3. \A u \in Visits : ~(task'[u] \in Resolving /\ target[u] = target[w])
    BY <1>1, <2>2 DEF Resolves
  <2> QED
    BY <1>1, <2>2, <2>3
<1> QED
    BY <1>3, <1>4, <1>5, <1>6 DEF Resolved

\* The one page that resolves a creation makes its dashboard and is done with it.
LEMMA ResolvedMade ==
    ASSUME Typed, Resolved, NEW v \in Visits, NEW what \in {"loading", "left"}, Await(v, what),
           task[v] \in Resolving,
           dashboards' = [dashboards EXCEPT ![target[v]] = @ + 1],
           UNCHANGED <<target, resolutions, overlapped, reply>>, store' \in {store, None}
    PROVE  Resolved'
<1>1. task'[v] = what /\ \A u \in Visits : u # v => task'[u] = task[u]
    BY DEF Typed, TypeOK, Await
<1>2. target[v] \in Attempts /\ what \notin Resolving \cup Deleting \cup {"loaded", "gone"}
    BY DEF Typed, Targets, Resolving, Deleting
<1>3. /\ dashboards'[target[v]] = dashboards[target[v]] + 1
      /\ \A a \in Attempts : a # target[v] => dashboards'[a] = dashboards[a]
    BY <1>2 DEF Typed, TypeOK
<1>4. StoreResolved'
    BY DetectorCreationAssumption DEF Resolved, StoreResolved
<1>5. Requested'
    BY <1>1, <1>2 DEF Resolved, Requested
<1>6. OneDashboard'
  <2> SUFFICES ASSUME NEW a \in Attempts, resolutions[a] <= 1
               PROVE  /\ dashboards'[a] <= resolutions[a]
                      /\ \A u \in Visits : task'[u] \in Resolving /\ target[u] = a
                            => dashboards'[a] = 0 /\ resolutions[a] = 1
                      /\ \A u, w \in Visits :
                            /\ task'[u] \in Resolving /\ target[u] = a
                            /\ task'[w] \in Resolving /\ target[w] = a
                            => u = w
    BY DEF OneDashboard, Resolves
  <2>1. \A u \in Visits : task'[u] \in Resolving => u # v /\ Resolves(u, target[u])
    BY <1>1, <1>2 DEF Resolves
  <2>2. CASE a # target[v]
    BY <1>3, <2>1, <2>2 DEF Resolved, OneDashboard, Resolves
  <2>3. CASE a = target[v]
    <3>1. Resolves(v, a)
      BY <2>3 DEF Resolves
    <3>2. dashboards[a] = 0 /\ resolutions[a] = 1
      BY <3>1 DEF Resolved, OneDashboard
    <3>3. \A u \in Visits : Resolves(u, a) => u = v
      BY <3>1 DEF Resolved, OneDashboard
    <3> QED
      BY <1>3, <2>1, <2>3, <3>2, <3>3
  <2> QED
    BY <2>2, <2>3
<1>7. NothingLeft'
  <2> SUFFICES ASSUME NEW w \in Visits, task'[w] \in {"gone"} \cup Deleting,
                      resolutions[target[w]] <= 1, target[w] \notin overlapped
               PROVE  /\ \A u \in Visits : ~(task'[u] \in Resolving /\ target[u] = target[w])
                      /\ task'[w] \in {"dropPattern", "dropDetector", "gone"}
                            => dashboards'[target[w]] = 0
    BY DEF NothingLeft, Resolves
  <2>1. task[w] = task'[w]
    BY <1>1, <1>2
  <2>2. /\ \A u \in Visits : ~Resolves(u, target[w])
        /\ task[w] \in {"dropPattern", "dropDetector", "gone"} => dashboards[target[w]] = 0
    BY <2>1 DEF Resolved, NothingLeft
  <2>3. target[w] # target[v] /\ target[w] \in Attempts
    BY <2>1, <2>2 DEF Resolves, Typed, Targets, Deleting
  <2>4. \A u \in Visits : ~(task'[u] \in Resolving /\ target[u] = target[w])
    BY <1>1, <1>2, <2>2 DEF Resolves
  <2> QED
    BY <1>3, <2>1, <2>2, <2>3, <2>4
<1> QED
    BY <1>4, <1>5, <1>6, <1>7 DEF Resolved

\* A page that deletes drops the only dashboard there is.
LEMMA ResolvedDropped ==
    ASSUME Typed, Resolved, NEW v \in Visits, NEW what \in {"loaded", "dropPattern"},
           Await(v, what), task[v] = "dropDashboard", dashboards[target[v]] > 0,
           dashboards' = [dashboards EXCEPT ![target[v]] = @ - 1],
           UNCHANGED <<target, resolutions, overlapped, reply, store>>
    PROVE  Resolved'
<1>1. task'[v] = what /\ \A u \in Visits : u # v => task'[u] = task[u]
    BY DEF Typed, TypeOK, Await
<1>2. target[v] \in Attempts /\ what \notin Resolving
    BY DEF Typed, Targets, Resolving
<1>3. /\ dashboards'[target[v]] = dashboards[target[v]] - 1
      /\ \A a \in Attempts : a # target[v] => dashboards'[a] = dashboards[a]
      /\ \A a \in Attempts : dashboards[a] \in Nat /\ resolutions[a] \in Nat
    BY <1>2 DEF Typed, TypeOK
<1>4. StoreResolved'
    BY DEF Resolved, StoreResolved
<1>5. Requested'
    BY <1>1 DEF Resolved, Requested, Deleting
<1>6. \A u \in Visits : task'[u] \in Resolving => Resolves(u, target[u])
    BY <1>1, <1>2 DEF Resolves
<1>7. \A a \in Attempts : resolutions[a] <= 1 /\ a = target[v] =>
            dashboards[a] = 1 /\ dashboards'[a] = 0 /\ \A u \in Visits : ~Resolves(u, a)
    BY <1>3 DEF Resolved, OneDashboard
<1>8. OneDashboard'
  <2> SUFFICES ASSUME NEW a \in Attempts, resolutions[a] <= 1
               PROVE  /\ dashboards'[a] <= resolutions[a]
                      /\ \A u \in Visits : task'[u] \in Resolving /\ target[u] = a
                            => dashboards'[a] = 0 /\ resolutions[a] = 1
                      /\ \A u, w \in Visits :
                            /\ task'[u] \in Resolving /\ target[u] = a
                            /\ task'[w] \in Resolving /\ target[w] = a
                            => u = w
    BY DEF OneDashboard, Resolves
  <2>1. CASE a # target[v]
    BY <1>3, <1>6, <2>1 DEF Resolved, OneDashboard
  <2>2. CASE a = target[v]
    BY <1>3, <1>6, <1>7, <2>2
  <2> QED
    BY <2>1, <2>2
<1>9. NothingLeft'
  <2> SUFFICES ASSUME NEW w \in Visits, task'[w] \in {"gone"} \cup Deleting,
                      resolutions[target[w]] <= 1, target[w] \notin overlapped
               PROVE  /\ \A u \in Visits : ~(task'[u] \in Resolving /\ target[u] = target[w])
                      /\ task'[w] \in {"dropPattern", "dropDetector", "gone"}
                            => dashboards'[target[w]] = 0
    BY DEF NothingLeft, Resolves
  <2>1. task[w] \in {"gone"} \cup Deleting /\ (w # v => task[w] = task'[w])
    BY <1>1 DEF Deleting
  <2>2. target[w] \in Attempts
    BY <2>1 DEF Typed, Targets, Deleting
  <2>3. /\ \A u \in Visits : ~Resolves(u, target[w])
        /\ task[w] \in {"dropPattern", "dropDetector", "gone"} => dashboards[target[w]] = 0
    BY <2>1 DEF Resolved, NothingLeft
  <2>4. \A u \in Visits : ~(task'[u] \in Resolving /\ target[u] = target[w])
    BY <1>6, <2>3
  <2>5. CASE target[w] = target[v]
    BY <1>7, <2>2, <2>4, <2>5
  <2>6. CASE target[w] # target[v]
    BY <1>3, <2>1, <2>2, <2>3, <2>4, <2>6
  <2> QED
    BY <2>5, <2>6
<1> QED
    BY <1>4, <1>5, <1>8, <1>9 DEF Resolved

\* onDelete starts while no page resolves or deletes the detector, or is recorded.
LEMMA ResolvedDelete ==
    ASSUME Typed, Resolved, NEW v \in Visits, OnDelete(v)
    PROVE  Resolved'
<1> USE DEF OnDelete, cluster, savedObjects
<1>1. task'[v] = "find" /\ \A u \in Visits : u # v => task'[u] = task[u]
    BY DEF Typed, TypeOK, Await
<1>2. \A u \in Visits, a \in Attempts : Resolves(u, a)' => Resolves(u, a)
    BY <1>1 DEF Resolves, Resolving
<1>3. StoreResolved'
    BY DEF Resolved, StoreResolved
<1>4. Requested'
    BY <1>1 DEF Resolved, Requested
<1>5. OneDashboard'
    BY <1>2 DEF Resolved, OneDashboard
<1>6. NothingLeft'
  <2> SUFFICES ASSUME NEW w \in Visits, task'[w] \in {"gone"} \cup Deleting,
                      resolutions[target[w]] <= 1, target[w] \notin overlapped'
               PROVE  /\ \A u \in Visits : ~(task'[u] \in Resolving /\ target[u] = target[w])
                      /\ task'[w] \in {"dropPattern", "dropDetector", "gone"}
                            => dashboards[target[w]] = 0
    BY DEF NothingLeft, Resolves
  <2>1. target[w] \notin overlapped
    OBVIOUS
  <2>2. \A u \in Visits : task'[u] \in Resolving => task[u] \in Resolving
    BY <1>1 DEF Resolving
  <2>3. CASE w = v
    <3>1. \A u \in Visits : ~(target[u] = target[v] /\ task[u] \in Resolving \cup Deleting)
      BY <2>3
    <3> QED
      BY <1>1, <2>2, <2>3, <3>1
  <2>4. CASE w # v
    <3>1. task[w] = task'[w]
      BY <1>1, <2>4
    <3>2. /\ \A u \in Visits : ~Resolves(u, target[w])
          /\ task[w] \in {"dropPattern", "dropDetector", "gone"} => dashboards[target[w]] = 0
      BY <2>1, <3>1 DEF Resolved, NothingLeft
    <3> QED
      BY <2>2, <3>1, <3>2 DEF Resolves
  <2> QED
    BY <2>3, <2>4
<1> QED
    BY <1>3, <1>4, <1>5, <1>6 DEF Resolved


\* What the user, the wizard and the cluster do between the visits' own steps.
LEMMA ResolvedElsewhere ==
    ASSUME Typed, Submitted, Resolved, NEW a \in Attempts,
           \/ OpenWizard(a) \/ OnCreateClick(a) \/ MappingsFailed(a) \/ MappingsStored(a)
           \/ OpenDetails(a) \/ ReviewConfiguration(a) \/ ViewDetector(a)
           \/ Answer(a)
    PROVE  Resolved'
<1> USE DEF submission, cluster, visits, savedObjects
<1>1. CASE OpenWizard(a) \/ OnCreateClick(a) \/ MappingsFailed(a)
    BY <1>1, ResolvedKept DEF OpenWizard, OnCreateClick, MappingsFailed
<1>2. CASE MappingsStored(a)
  <2>1. \A b \in Attempts : reply'[b] = "none" => reply[b] = "none"
    BY <1>2 DEF MappingsStored, Typed, TypeOK
  <2>2. reply[a] = "none"
    BY <1>2 DEF MappingsStored, Submitted
  <2>3. store' = store \/ (Open(a) /\ store' = a)
    BY <1>2 DEF MappingsStored
  <2>4. PushDetails(Pending, store') /\ UNCHANGED <<dashboards, overlapped>>
        /\ store' \in Attempts \cup {None}
    BY <1>2, <2>3 DEF MappingsStored, Typed, TypeOK
  <2>5. store' \in {store, None} \/ (page.at # "details" /\ store' = store')
    BY <2>3 DEF Open, WizardPage
  <2>6. \A b \in Attempts : store' = b /\ resolutions[b] = 0 => reply[b] = "none"
    BY <2>2, <2>3 DEF Resolved, StoreResolved
  <2> QED
    BY <2>1, <2>4, <2>5, <2>6, ResolvedPush
<1>3. CASE OpenDetails(a)
  <2>1. \A b \in Attempts : store = b /\ resolutions[b] = 0 => reply[b] = "none"
    BY DEF Resolved, StoreResolved
  <2>2. PushDetails(a, store) /\ store \in Attempts \cup {None}
    BY <1>3 DEF OpenDetails, Typed, TypeOK
  <2> QED
    BY <1>3, <2>1, <2>2, ResolvedPush DEF OpenDetails
<1>4. CASE ReviewConfiguration(a)
    BY <1>4, ResolvedKept DEF ReviewConfiguration
<1>5. CASE ViewDetector(a)
    BY <1>5, ResolvedPush, DetectorCreationAssumption DEF ViewDetector
<1>6. ASSUME NEW answer \in Answers, AnswerMappings(a, answer) PROVE Resolved'
    BY <1>6, ResolvedKept DEF AnswerMappings
<1>7. ASSUME NEW answer \in Answers, AnswerCreate(a, answer) PROVE Resolved'
  <2>1. \A b \in Attempts : reply'[b] = "none" => reply[b] = "none"
    BY <1>7 DEF AnswerCreate, Answers, Typed, TypeOK
  <2> QED
    BY <1>7, <2>1, ResolvedKept DEF AnswerCreate
<1> QED
    BY <1>1, <1>2, <1>3, <1>4, <1>5, <1>6, <1>7 DEF Answer

LEMMA ResolvedResume ==
    ASSUME Typed, Submitted, Resolved, NEW v \in Visits, Resume(v)
    PROVE  Resolved'
<1> USE DEF submission, cluster, savedObjects
<1>1. CASE CreationFailed(v) \/ CreationLost(v)
    BY <1>1, ResolvedVisit DEF CreationFailed, CreationLost, Resolving, Deleting
<1>2. ASSUME Finish(v), task[v] \in Resolving, UNCHANGED dashboards PROVE Resolved'
    BY <1>2, ResolvedVisit DEF Finish, Resolving, Deleting
<1>3. CASE CreationSucceeded(v)
  <2>1. CASE Finish(v)
    BY <1>2, <1>3, <2>1 DEF CreationSucceeded, Resolving
  <2>2. CASE ~Finish(v)
    BY <1>3, <2>2, ResolvedVisit DEF CreationSucceeded, Resolving, Deleting
  <2> QED
    BY <2>1, <2>2
<1>4. ASSUME NEW ok \in BOOLEAN, CreatePattern(v, ok) PROVE Resolved'
    BY <1>4, ResolvedVisit DEF CreatePattern, Resolving, Deleting
<1>5. ASSUME NEW ok \in BOOLEAN, CreateDashboard(v, ok) PROVE Resolved'
  <2>1. CASE ok
    BY <1>5, <2>1, ResolvedMade DEF CreateDashboard, Finish, Resolving
  <2>2. CASE ~ok
    BY <1>5, <2>2, ResolvedVisit DEF CreateDashboard, Resolving, Deleting
  <2> QED
    BY <2>1, <2>2
<1>6. ASSUME NEW ok \in BOOLEAN, LookUpDashboard(v, ok) PROVE Resolved'
  <2>1. CASE ok
    BY <1>2, <1>6, <2>1 DEF LookUpDashboard, Resolving
  <2>2. CASE ~ok
    BY <1>6, <2>2, ResolvedVisit DEF LookUpDashboard, Resolving, Deleting
  <2> QED
    BY <2>1, <2>2
<1>7. CASE GetDetector(v)
  <2>1. target[v] \in Attempts
    BY <1>7 DEF GetDetector, Typed, Targets
  <2>2. target[v] \in exists => reply[target[v]] # "none"
    BY <2>1 DEF Submitted
  <2> QED
    BY <1>7, <2>2, ResolvedVisit DEF GetDetector, Resolving, Deleting
<1>8. task[v] \in Deleting => reply[target[v]] # "none"
    BY DEF Resolved, Requested
<1>9. CASE DeleteStepFails(v)
  <2>1. CASE UNCHANGED dashboards
    BY <1>8, <1>9, <2>1, ResolvedVisit DEF DeleteStepFails, Resolving, Deleting
  <2>2. CASE ~UNCHANGED dashboards
    BY <1>9, <2>2, ResolvedDropped DEF DeleteStepFails
  <2> QED
    BY <2>1, <2>2
<1>10. CASE FindDashboard(v)
    BY <1>8, <1>10, ResolvedVisit DEF FindDashboard, Resolving, Deleting
<1>11. CASE DropDashboard(v)
    BY <1>11, ResolvedDropped DEF DropDashboard
<1>12. CASE DropPattern(v)
    BY <1>8, <1>12, ResolvedVisit DEF DropPattern, Resolving, Deleting
<1>13. CASE DropDetector(v)
    BY <1>8, <1>13, ResolvedVisit DEF DropDetector, Resolving, Deleting
<1> QED
    BY <1>1, <1>3, <1>4, <1>5, <1>6, <1>7, <1>9, <1>10, <1>11, <1>12, <1>13 DEF Resume

LEMMA ResolvedInit == Init => Resolved
BY DetectorCreationAssumption
DEF Init, Resolved, StoreResolved, Requested, OneDashboard, NothingLeft, Resolves,
    Resolving, Deleting

LEMMA ResolvedPreserved == Typed /\ Submitted /\ Resolved /\ [Next]_vars => Resolved'
<1> SUFFICES ASSUME Typed, Submitted, Resolved, [Next]_vars PROVE Resolved'
    OBVIOUS
<1>1. CASE GoToList \/ \E toast \in toasts : HideToast(toast)
    BY <1>1, ResolvedKept DEF GoToList, HideToast, visits, savedObjects, cluster
<1>2. CASE UNCHANGED vars
    BY <1>2, ResolvedKept DEF vars, visits
<1> QED
    BY <1>1, <1>2, ResolvedElsewhere, ResolvedResume, ResolvedDelete DEF Next, User

\* A deleted detector leaves no dashboard behind, unless its creation was resolved twice
\* or while it was deleted: the page that resolves it is the only one that makes one, and
\* the detector goes only after the dashboard that was found.
THEOREM NoOrphans == Spec => []NoOrphanDashboard
<1> DEFINE Inv == Typed /\ Submitted /\ Resolved
<1>1. Init => Inv
    BY TypeInit, SubmittedInit, ResolvedInit
<1>2. Inv /\ [Next]_vars => Inv'
    BY TypedPreserved, SubmittedPreserved, ResolvedPreserved
<1>3. Inv => NoOrphanDashboard
    BY DEF Resolved, NothingLeft, NoOrphanDashboard
<1> QED
    BY <1>1, <1>2, <1>3, PTL DEF Spec

=============================================================================
