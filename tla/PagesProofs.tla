----------------------------- MODULE PagesProofs ------------------------------
(***************************************************************************)
(* What holds of the pages that show what they load, for any number of     *)
(* answers in any order: log types, the Overview, the lists of alerts,     *)
(* the flyouts of findings with their documents, and the navigation        *)
(* between pages and data sources.  Each has an inductive invariant of its *)
(* own; those of the forms are proved in FormsProofs.                      *)
(***************************************************************************)
EXTENDS FormsProofs, TLAPS

-----------------------------------------------------------------------------
(* Log types *)

VersionsOrNone == LT!Versions \cup {LT!Nothing}
LogTypeCalls ==
    [by : LT!Pages, step : {"list", "count", "delete", "get", "rules", "update", "create"},
     to : DataSources, item : LT!Types \cup {"all"}, body : VersionsOrNone,
     base : VersionsOrNone, live : BOOLEAN]

LogTypesTyped ==
    /\ version \in [DataSources -> VersionsOrNone] /\ active \in DataSources
    /\ globals \in DataSources \cup {"none"} /\ rows \in DataSources \cup {"none"}
    /\ page \in LT!Pages /\ edits \in LT!Versions
    /\ logTypeToDelete \in LT!Types \cup {"none"}
    /\ counted \in LT!Types \cup {"none", "refused"}
    /\ logTypeDetails \in VersionsOrNone /\ initial \in VersionsOrNone
    /\ captured \in VersionsOrNone
    /\ isEditMode \in BOOLEAN /\ orderly \in BOOLEAN /\ touched \in BOOLEAN /\ tidy \in BOOLEAN
    /\ calls \subseteq LogTypeCalls

\* A deletion that reaches its page was made on the page that is shown, and rules are counted for
\* one log type.
DeletesOfPage ==
    \A c \in calls : /\ c.step = "delete" /\ c.live => c.by = page
                     /\ c.step = "count" => c.item \in LT!Types

\* Without overlaps and failures, what lists log types lists those of the active data source, and
\* what does not show them yet waits for such a list.
ListsComeInOrder ==
    orderly =>
        /\ \A c \in calls : c.step = "list" => c.to = active
        /\ globals = active \/ \E c \in calls : c.step = "list"
        /\ page = "list" => rows = active \/ \E c \in calls : c.step = "list" /\ c.live

\* While the user waits, what a call brings to the page of the log type, and what cancelling before
\* any update brings back, is what the cluster holds; and at most one update is under way, with
\* what the page shows.
UpdateWaits(c) ==
    /\ c.body = logTypeDetails /\ c.to = active /\ c.live /\ isEditMode /\ touched
    /\ \A d \in calls : d.step \notin {"get", "rules"} /\ (d.step = "update" => d = c)
CopiesOfCluster ==
    (page = "details" /\ tidy) =>
        /\ \A c \in calls : c.step = "get" => c.to = active
        /\ \A c \in calls : c.step = "rules" =>
              version[active] \in {c.body, LT!Nothing} /\ (~touched => c.base = c.body)
        /\ \A c \in calls : c.step = "update" => UpdateWaits(c)
        /\ initial # LT!Nothing /\ ~touched => version[active] \in {initial, LT!Nothing}
        /\ logTypeDetails # LT!Nothing /\ ~isEditMode /\ (\A c \in calls : c.step # "update") =>
              version[active] \in {logTypeDetails, LT!Nothing}

LogTypesInv == LogTypesTyped /\ DeletesOfPage /\ ListsComeInOrder /\ CopiesOfCluster

LEMMA LogTypeFetch ==
    ASSUME page \in LT!Pages, NEW d \in DataSources, NEW b \in BOOLEAN
    PROVE  /\ LT!Fetch(d) \in LogTypeCalls /\ LT!Fetch(d).step = "list"
           /\ LT!Fetch(d).to = d /\ LT!Fetch(d).live
           /\ [LT!Fetch(d) EXCEPT !.live = b] \in LogTypeCalls
           /\ [LT!Fetch(d) EXCEPT !.live = b].step = "list"
           /\ [LT!Fetch(d) EXCEPT !.live = b].to = d
           /\ [LT!Fetch(d) EXCEPT !.live = b].live = b
<1>1. LT!Fetch(d) = [by |-> page, step |-> "list", to |-> d, item |-> "all",
                     body |-> LT!Nothing, base |-> LT!Nothing, live |-> TRUE]
  <2> DEFINE asked == LT!Call("list", "all", LT!Nothing, LT!Nothing)
  <2>1. asked = [by |-> page, step |-> "list", to |-> active, item |-> "all",
                 body |-> LT!Nothing, base |-> LT!Nothing, live |-> TRUE]
    BY DEF LT!Call
  <2>2. LT!Fetch(d) = [asked EXCEPT !.to = d]
    BY DEF LT!Fetch
  <2> HIDE DEF asked
  <2> QED
    BY <2>1, <2>2
<1>2. [LT!Fetch(d) EXCEPT !.live = b] =
         [by |-> page, step |-> "list", to |-> d, item |-> "all",
          body |-> LT!Nothing, base |-> LT!Nothing, live |-> b]
    BY <1>1
<1> QED
    BY <1>1, <1>2 DEF LogTypeCalls, VersionsOrNone

LEMMA LogTypeCall ==
    ASSUME LogTypesTyped, NEW step \in {"count", "delete", "get", "rules", "update", "create"},
           NEW of \in LT!Types, NEW body \in VersionsOrNone, NEW base \in VersionsOrNone
    PROVE  /\ LT!Call(step, of, body, base) \in LogTypeCalls
           /\ LT!Call(step, of, body, base).step = step
           /\ LT!Call(step, of, body, base).by = page
           /\ LT!Call(step, of, body, base).item = of
           /\ LT!Call(step, of, body, base).to = active
           /\ LT!Call(step, of, body, base).body = body
           /\ LT!Call(step, of, body, base).base = base
           /\ LT!Call(step, of, body, base).live
BY DEF LogTypesTyped, LT!Call, LogTypeCalls

LEMMA LogTypesInit == LT!Init => LogTypesInv
<1> SUFFICES ASSUME LT!Init PROVE LogTypesInv
    OBVIOUS
<1>1. /\ active \in DataSources /\ page = "list" /\ page \in LT!Pages /\ orderly = TRUE
      /\ calls = {LT!Fetch(active)}
    BY DEF LT!Init, LT!Pages
<1>2. LT!Fetch(active) \in LogTypeCalls /\ LT!Fetch(active).step = "list"
      /\ LT!Fetch(active).to = active /\ LT!Fetch(active).live
    BY <1>1, LogTypeFetch
<1>3. 0 \in LT!Versions
    BY MCPagesAssumption DEF MCPagesAssumption, LT!Versions
<1>4. LogTypesTyped
    BY <1>1, <1>2, <1>3 DEF LT!Init, LogTypesTyped, VersionsOrNone
<1> QED
    BY <1>1, <1>2, <1>4 DEF LogTypesInv, DeletesOfPage, ListsComeInOrder, CopiesOfCluster

LEMMA LogTypesMount ==
    ASSUME LogTypesInv, NEW pg \in LT!Pages, NEW sent \in SUBSET calls, LT!Mount(pg, sent),
           version' \in [DataSources -> VersionsOrNone], UNCHANGED <<active, globals, edits>>,
           globals = active \/ ~orderly \/ \E c \in sent : c.step = "list"
    PROVE  LogTypesInv'
<1> USE DEF LogTypesInv
<1> DEFINE kept == {w \in sent : w.step \notin {"count", "get", "rules"}}
           old == {[c EXCEPT !.live = FALSE] : c \in kept}
           get == LT!Call("get", "custom", version[active], LT!Nothing)
           new == IF pg = "list" THEN {LT!Fetch(active)}
                  ELSE IF pg = "details" THEN {get} ELSE {}
<1>1. calls' = old \cup new
    BY DEF LT!Mount, LT!Pages
<1>2. \A c \in old : /\ c \in LogTypeCalls /\ ~c.live /\ c.step \notin {"count", "get", "rules"}
                     /\ \E d \in sent : c.step = d.step /\ c.to = d.to
  <2> SUFFICES ASSUME NEW d \in kept
               PROVE  LET c == [d EXCEPT !.live = FALSE]
                      IN  /\ c \in LogTypeCalls /\ ~c.live /\ c.step = d.step /\ c.to = d.to
      BY Zenon
  <2>1. d \in LogTypeCalls
      BY DEF LogTypesTyped
  <2> QED
      BY <2>1 DEF LogTypeCalls
<1>3. /\ get \in LogTypeCalls /\ get.step = "get" /\ get.to = active
  <2>1. version[active] \in VersionsOrNone /\ LT!Nothing \in VersionsOrNone
      BY DEF LogTypesTyped, VersionsOrNone
  <2> QED
      BY <2>1, LogTypeCall DEF LT!Types
<1>4. /\ LT!Fetch(active) \in LogTypeCalls /\ LT!Fetch(active).step = "list"
      /\ LT!Fetch(active).to = active /\ LT!Fetch(active).live
    BY LogTypeFetch DEF LogTypesTyped
<1>5. \A d \in sent : d.step = "list" => \E c \in old : c.step = "list"
  <2> SUFFICES ASSUME NEW d \in sent, d.step = "list" PROVE \E c \in old : c.step = "list"
      OBVIOUS
  <2>1. d \in LogTypeCalls /\ [d EXCEPT !.live = FALSE] \in old
      BY DEF LogTypesTyped
  <2>2. [d EXCEPT !.live = FALSE].step = "list"
      BY <2>1 DEF LogTypeCalls
  <2> QED
      BY <2>1, <2>2
<1>6. (\E c \in kept : c.step = "update") <=> \E c \in old : c.step = "update"
  <2>1. \A d \in kept : [d EXCEPT !.live = FALSE].step = d.step
      BY DEF LogTypesTyped, LogTypeCalls
  <2> QED
      BY <2>1, ZenonT(60)
<1>7. /\ page' = pg /\ logTypeDetails' = LT!Nothing
      /\ rows' = "none" /\ logTypeToDelete' = "none" /\ counted' = "none"
      /\ initial' = LT!Nothing /\ captured' = LT!Nothing /\ isEditMode' = FALSE
      /\ touched' = FALSE /\ tidy' = ~\E c \in sent : c.step = "update"
      /\ orderly' = (orderly /\ ~(pg = "list" /\ LT!Listing(sent)))
    BY DEF LT!Mount
<1> HIDE DEF kept, old, get, new
<1>8. LogTypesTyped'
  <2>1. calls' \subseteq LogTypeCalls
      BY <1>1, <1>2, <1>3, <1>4 DEF new
  <2>2. LT!Nothing \in VersionsOrNone
      BY DEF VersionsOrNone
  <2>3. orderly' \in BOOLEAN
      BY <1>7
  <2>4. tidy' \in BOOLEAN
      BY <1>7
  <2> QED
      BY <1>7, <2>1, <2>2, <2>3, <2>4 DEF LogTypesTyped
<1>9. DeletesOfPage'
    BY <1>1, <1>2, <1>3, <1>4 DEF DeletesOfPage, new
<1>10. ListsComeInOrder'
  <2> SUFFICES ASSUME orderly' PROVE ListsComeInOrder'
      BY DEF ListsComeInOrder
  <2>1. orderly /\ (pg = "list" => \A c \in sent : c.step # "list")
      BY <1>7 DEF LT!Listing
  <2>2. \A c \in calls' : c.step = "list" => c.to = active'
      BY <1>1, <1>2, <1>3, <1>4, <2>1 DEF new, ListsComeInOrder
  <2>3. globals' = active' \/ \E c \in calls' : c.step = "list"
      BY <1>1, <1>5, <2>1
  <2>4. pg = "list" => \E c \in calls' : c.step = "list" /\ c.live
      BY <1>1, <1>4 DEF new
  <2> QED
      BY <1>7, <2>2, <2>3, <2>4 DEF ListsComeInOrder
<1>11. CopiesOfCluster'
  <2> SUFFICES ASSUME page' = "details", tidy' PROVE CopiesOfCluster'
      BY DEF CopiesOfCluster
  <2>1. new = {get} /\ \A c \in sent : c.step # "update"
      BY <1>7 DEF new
  <2>2. \A c \in calls' : c.step # "rules" /\ c.step # "update" /\ (c.step = "get" => c.to = active)
      BY <1>1, <1>2, <1>3, <2>1
  <2> QED
      BY <1>7, <2>2 DEF CopiesOfCluster
<1> QED
    BY <1>8, <1>9, <1>10, <1>11

LEMMA LogTypesVisit == ASSUME LogTypesInv, NEW pg \in LT!Pages, LT!Visit(pg) PROVE LogTypesInv'
<1>1. version' \in [DataSources -> VersionsOrNone] /\ UNCHANGED <<active, globals, edits>>
    BY DEF LT!Visit, LogTypesInv, LogTypesTyped
<1>2. LT!Mount(pg, calls) /\ calls \in SUBSET calls
    BY DEF LT!Visit
<1>3. globals = active \/ ~orderly \/ \E c \in calls : c.step = "list"
    BY DEF LogTypesInv, ListsComeInOrder
<1> QED
    BY <1>1, <1>2, <1>3, LogTypesMount

LEMMA LogTypesSelected ==
    ASSUME LogTypesInv, NEW d \in DataSources, LT!OnDataSourceSelected(d) PROVE LogTypesInv'
<1> USE DEF LogTypesInv
<1> DEFINE quiet == [LT!Fetch(d) EXCEPT !.live = FALSE]
           more == IF page = "list" THEN {LT!Fetch(d)} ELSE {}
<1>1. /\ page # "details" /\ active' = d /\ calls' = calls \cup {quiet} \cup more
      /\ orderly' = ~LT!Listing(calls)
      /\ UNCHANGED <<version, globals, page, rows, logTypeToDelete, counted, logTypeDetails,
                     initial, captured, isEditMode, edits, touched, tidy>>
  <2>1. {LT!Fetch(d) : p \in {page} \cap {"list"}} = more
      OBVIOUS
  <2> QED
      BY <2>1 DEF LT!OnDataSourceSelected, LT!list, LT!details
<1>2. /\ LT!Fetch(d) \in LogTypeCalls /\ LT!Fetch(d).step = "list"
      /\ LT!Fetch(d).to = d /\ LT!Fetch(d).live
      /\ quiet \in LogTypeCalls /\ quiet.step = "list" /\ quiet.to = d /\ quiet.live = FALSE
    BY LogTypeFetch DEF LogTypesTyped
<1> HIDE DEF quiet
<1>3. LogTypesTyped'
  <2>1. orderly' \in BOOLEAN
      BY <1>1
  <2> QED
      BY <1>1, <1>2, <2>1 DEF LogTypesTyped
<1>4. DeletesOfPage'
    BY <1>1, <1>2 DEF DeletesOfPage
<1>5. ListsComeInOrder'
    BY <1>1, <1>2 DEF ListsComeInOrder, LT!Listing
<1> QED
    BY <1>1, <1>3, <1>4, <1>5 DEF CopiesOfCluster

\* What changes no call, version or list of log types.
LEMMA LogTypesQuiet ==
    ASSUME LogTypesInv, LT!CloseModal \/ LT!StartEdit \/ LT!Edit \/ LT!OnCancel
    PROVE  LogTypesInv'
<1> USE DEF LogTypesInv
<1>1. UNCHANGED <<version, active, globals, page, rows, counted, initial, calls, orderly, touched>>
    BY DEF LT!CloseModal, LT!StartEdit, LT!Edit, LT!OnCancel, LT!list, LT!details
<1>2. ListsComeInOrder' /\ DeletesOfPage'
    BY <1>1 DEF ListsComeInOrder, DeletesOfPage
<1>3. CASE LT!CloseModal
  <2>1. logTypeToDelete' = "none"
        /\ UNCHANGED <<logTypeDetails, captured, isEditMode, edits, tidy>>
    BY <1>3 DEF LT!CloseModal, LT!details
  <2>2. LogTypesTyped'
    BY <1>1, <2>1 DEF LogTypesTyped
  <2> QED
    BY <1>1, <1>2, <2>1, <2>2 DEF CopiesOfCluster, UpdateWaits
<1>4. CASE LT!StartEdit
  <2>1. /\ ~isEditMode /\ isEditMode' = TRUE
        /\ UNCHANGED <<logTypeDetails, logTypeToDelete, captured, edits, tidy>>
    BY <1>4 DEF LT!StartEdit, LT!list
  <2>2. LogTypesTyped'
    BY <1>1, <2>1 DEF LogTypesTyped
  <2> QED
    BY <1>1, <1>2, <2>1, <2>2 DEF CopiesOfCluster, UpdateWaits
<1>5. CASE LT!Edit
  <2>1. /\ isEditMode /\ edits < FewEdits /\ edits' = edits + 1 /\ logTypeDetails' = edits + 1
        /\ captured' = initial /\ tidy' = (tidy /\ calls = {})
        /\ UNCHANGED <<logTypeToDelete, isEditMode>>
    BY <1>5 DEF LT!Edit, LT!list
  <2>2. edits + 1 \in LT!Versions
    BY <2>1, MCPagesAssumption DEF MCPagesAssumption, LT!Versions, LogTypesTyped
  <2>3. tidy' \in BOOLEAN /\ edits' \in LT!Versions /\ logTypeDetails' \in VersionsOrNone
    BY <2>1, <2>2 DEF VersionsOrNone
  <2>4. LogTypesTyped'
    BY <1>1, <2>1, <2>3 DEF LogTypesTyped
  <2> QED
    BY <1>1, <1>2, <2>1, <2>4 DEF CopiesOfCluster
<1>6. CASE LT!OnCancel
  <2>1. /\ logTypeDetails' = initial /\ captured' = initial /\ isEditMode' = FALSE
        /\ tidy' = (tidy /\ ~touched /\ calls = {})
        /\ UNCHANGED <<logTypeToDelete, edits>>
    BY <1>6 DEF LT!OnCancel, LT!list
  <2>2. tidy' \in BOOLEAN
    BY <2>1
  <2>3. LogTypesTyped'
    BY <1>1, <2>1, <2>2 DEF LogTypesTyped
  <2> QED
    BY <1>1, <1>2, <2>1, <2>3 DEF CopiesOfCluster
<1> QED
    BY <1>3, <1>4, <1>5, <1>6

\* What only sends a call that lists nothing.
LEMMA LogTypesSends ==
    ASSUME LogTypesInv,
           \/ \E of \in LT!Types : LT!OnDeleteClick(of)
           \/ LT!OnConfirm \/ LT!CreateLogType \/ LT!DeleteLogType
    PROVE  LogTypesInv'
<1> USE DEF LogTypesInv
<1>1. /\ UNCHANGED <<version, active, globals, page, rows, counted, logTypeDetails, initial,
                     captured, isEditMode, edits, orderly, touched, tidy>>
      /\ logTypeToDelete' \in LT!Types \cup {"none"}
    BY DEF LT!OnDeleteClick, LT!OnConfirm, LT!CreateLogType, LT!DeleteLogType, LT!list,
           LT!details, LogTypesTyped
<1>2. LT!Nothing \in VersionsOrNone /\ 0 \in VersionsOrNone
    BY MCPagesAssumption DEF MCPagesAssumption, VersionsOrNone, LT!Versions
<1>3. \E c \in LogTypeCalls :
         /\ calls' = calls \cup {c} /\ c.step \in {"count", "delete", "create"}
         /\ c.by = page /\ c.item \in LT!Types
  <2>1. CASE \E of \in LT!Types : LT!OnDeleteClick(of)
    <3>1. PICK of \in LT!Types : LT!OnDeleteClick(of)
      BY <2>1
    <3> QED
      BY <1>2, <3>1, LogTypeCall DEF LT!OnDeleteClick
  <2>2. CASE LT!OnConfirm
    <3>1. logTypeToDelete \in LT!Types
      BY <2>2 DEF LT!OnConfirm, LT!Offers, LogTypesTyped
    <3> QED
      BY <1>2, <2>2, <3>1, LogTypeCall DEF LT!OnConfirm
  <2>3. CASE LT!CreateLogType
    BY <1>2, <2>3, LogTypeCall DEF LT!CreateLogType, LT!Types
  <2>4. CASE LT!DeleteLogType
    BY <1>2, <2>4, LogTypeCall DEF LT!DeleteLogType, LT!Types
  <2> QED
    BY <2>1, <2>2, <2>3, <2>4
<1>4. PICK c \in LogTypeCalls :
         /\ calls' = calls \cup {c} /\ c.step \in {"count", "delete", "create"}
         /\ c.by = page /\ c.item \in LT!Types
    BY <1>3
<1>5. LogTypesTyped'
    BY <1>1, <1>4 DEF LogTypesTyped
<1>6. DeletesOfPage' /\ ListsComeInOrder'
    BY <1>1, <1>4 DEF DeletesOfPage, ListsComeInOrder
<1>7. CopiesOfCluster'
    BY <1>1, <1>4 DEF CopiesOfCluster, UpdateWaits
<1> QED
    BY <1>5, <1>6, <1>7

LEMMA LogTypesUpdates == ASSUME LogTypesInv, LT!OnUpdateLogType PROVE LogTypesInv'
<1> USE DEF LogTypesInv
<1>1. /\ UNCHANGED <<version, active, globals, page, rows, counted, logTypeToDelete,
                     logTypeDetails, initial, captured, isEditMode, edits, orderly>>
      /\ isEditMode /\ touched' = TRUE
      /\ calls' = calls \cup {LT!Call("update", "custom", logTypeDetails, LT!Nothing)}
      /\ tidy' = (tidy /\ calls = {})
    BY DEF LT!OnUpdateLogType, LT!list, LT!details
<1>2. PICK c \in LogTypeCalls :
         /\ calls' = calls \cup {c} /\ c.step = "update"
         /\ c.body = logTypeDetails /\ c.to = active /\ c.live
  <2> DEFINE u == LT!Call("update", "custom", logTypeDetails, LT!Nothing)
  <2>1. /\ u \in LogTypeCalls /\ u.step = "update" /\ u.body = logTypeDetails
        /\ u.to = active /\ u.live
    BY LogTypeCall DEF LT!Types, LogTypesTyped, VersionsOrNone
  <2>2. calls' = calls \cup {u}
    BY <1>1
  <2> HIDE DEF u
  <2> QED
    BY <2>1, <2>2
<1>3. LogTypesTyped'
  <2>1. tidy' \in BOOLEAN
    BY <1>1
  <2> QED
    BY <1>1, <1>2, <2>1 DEF LogTypesTyped
<1>4. DeletesOfPage' /\ ListsComeInOrder'
    BY <1>1, <1>2 DEF DeletesOfPage, ListsComeInOrder
<1>5. CopiesOfCluster'
  <2> SUFFICES ASSUME page' = "details", tidy' PROVE CopiesOfCluster'
    BY DEF CopiesOfCluster
  <2>1. calls' = {c}
    BY <1>1, <1>2
  <2>2. UpdateWaits(c)'
    BY <1>1, <1>2, <2>1 DEF UpdateWaits
  <2> QED
    BY <1>1, <1>2, <2>1, <2>2 DEF CopiesOfCluster
<1> QED
    BY <1>3, <1>4, <1>5

LEMMA LogTypesRefreshes == ASSUME LogTypesInv, LT!RefreshRules PROVE LogTypesInv'
<1> USE DEF LogTypesInv
<1> DEFINE c == LT!Call("rules", "custom", logTypeDetails, captured)
<1>1. /\ UNCHANGED <<version, active, globals, page, rows, counted, logTypeToDelete,
                     logTypeDetails, initial, captured, isEditMode, edits, orderly>>
      /\ logTypeDetails # LT!Nothing /\ calls' = calls \cup {c} /\ touched' = TRUE
      /\ tidy' = (tidy /\ ~isEditMode /\ calls = {})
    BY DEF LT!RefreshRules, LT!list, LT!details
<1>2. c \in LogTypeCalls /\ c.step = "rules" /\ c.body = logTypeDetails
    BY LogTypeCall DEF LT!Types, LogTypesTyped
<1> HIDE DEF c
<1>3. LogTypesTyped'
  <2>1. tidy' \in BOOLEAN
    BY <1>1
  <2> QED
    BY <1>1, <1>2, <2>1 DEF LogTypesTyped
<1>4. DeletesOfPage' /\ ListsComeInOrder'
    BY <1>1, <1>2 DEF DeletesOfPage, ListsComeInOrder
<1>5. CopiesOfCluster'
  <2> SUFFICES ASSUME page' = "details", tidy' PROVE CopiesOfCluster'
    BY DEF CopiesOfCluster
  <2>1. calls' = {c} /\ calls = {} /\ tidy /\ ~isEditMode /\ page = "details"
    BY <1>1
  <2>2. version[active] \in {logTypeDetails, LT!Nothing}
    BY <1>1, <2>1 DEF CopiesOfCluster
  <2> QED
    BY <1>1, <1>2, <2>1, <2>2 DEF CopiesOfCluster
<1> QED
    BY <1>3, <1>4, <1>5

-----------------------------------------------------------------------------
(* Answers about log types *)

\* Without a call that lists nothing, and with another such in its place or none.
LEMMA LogTypesAnswered ==
    ASSUME LogTypesInv, NEW c \in calls, c.step # "list", NEW more \in SUBSET LogTypeCalls,
           calls' = (calls \ {c}) \cup more,
           \A d \in more : d.step \notin {"count", "delete", "list"},
           UNCHANGED <<active, globals, page, rows>>, orderly' \in BOOLEAN, orderly' => orderly
    PROVE  DeletesOfPage' /\ ListsComeInOrder'
BY DEF LogTypesInv, DeletesOfPage, ListsComeInOrder

LEMMA LogTypesListed ==
    ASSUME LogTypesInv, NEW c \in calls, LT!GotLogTypes(c) \/ LT!LogTypesFail(c)
    PROVE  LogTypesInv'
<1> USE DEF LogTypesInv
<1>1. /\ c.step = "list" /\ calls' = (calls \ {c}) \cup {}
      /\ UNCHANGED <<version, active, page, logTypeToDelete, counted, logTypeDetails, initial,
                     captured, isEditMode, edits, touched, tidy>>
    BY DEF LT!GotLogTypes, LT!LogTypesFail, LT!Done, LT!details
<1>2. \/ globals' = c.to /\ rows' = (IF c.live THEN c.to ELSE rows) /\ orderly' = orderly
      \/ rows' \in {rows, "none"} /\ globals' = globals /\ orderly' = FALSE
    BY DEF LT!GotLogTypes, LT!LogTypesFail
<1>3. c \in LogTypeCalls /\ c.to \in DataSources
    BY DEF LogTypesTyped, LogTypeCalls
<1>4. LogTypesTyped'
  <2>1. globals' \in DataSources \cup {"none"} /\ rows' \in DataSources \cup {"none"}
    BY <1>2, <1>3 DEF LogTypesTyped
  <2>2. orderly' \in BOOLEAN
    BY <1>2 DEF LogTypesTyped
  <2> QED
    BY <1>1, <2>1, <2>2 DEF LogTypesTyped
<1>5. DeletesOfPage'
    BY <1>1 DEF DeletesOfPage
<1>6. ListsComeInOrder'
    BY <1>1, <1>2 DEF ListsComeInOrder
<1>7. CopiesOfCluster'
    BY <1>1 DEF CopiesOfCluster, UpdateWaits
<1> QED
    BY <1>4, <1>5, <1>6, <1>7

LEMMA LogTypesRead ==
    ASSUME LogTypesInv, NEW c \in calls, LT!Counted(c) \/ LT!ReadFails(c)
    PROVE  LogTypesInv'
<1> USE DEF LogTypesInv
<1>1. /\ c.step \in {"count", "get", "rules"} /\ calls' = (calls \ {c}) \cup {}
      /\ UNCHANGED <<version, active, globals, page, rows, logTypeToDelete, logTypeDetails,
                     initial, captured, isEditMode, edits, orderly, touched, tidy>>
    BY DEF LT!Counted, LT!ReadFails, LT!Done, LT!details, LT!list
<1>2. counted' \in LT!Types \cup {"none", "refused"}
  <2>1. c.step = "count" => c.item \in LT!Types
    BY DEF DeletesOfPage
  <2> QED
    BY <2>1 DEF LT!Counted, LT!ReadFails, LogTypesTyped, LT!list
<1>3. LogTypesTyped'
    BY <1>1, <1>2 DEF LogTypesTyped
<1>4. DeletesOfPage' /\ ListsComeInOrder'
  <2> DEFINE more == {}
  <2>1. more \in SUBSET LogTypeCalls /\ \A d \in more : d.step \notin {"count", "delete", "list"}
    OBVIOUS
  <2>2. c.step # "list" /\ calls' = (calls \ {c}) \cup more /\ orderly' = orderly
    BY <1>1
  <2>3. orderly' \in BOOLEAN
    BY <2>2 DEF LogTypesTyped
  <2> HIDE DEF more
  <2> QED
    BY <1>1, <2>1, <2>2, <2>3, LogTypesAnswered
<1>5. CopiesOfCluster'
    BY <1>1 DEF CopiesOfCluster, UpdateWaits
<1> QED
    BY <1>3, <1>4, <1>5

LEMMA LogTypesFound ==
    ASSUME LogTypesInv, NEW c \in calls, LT!GotLogType(c) PROVE LogTypesInv'
<1> USE DEF LogTypesInv
<1> DEFINE d == LT!Call("rules", "custom", version[c.to], version[c.to])
           more == {d}
<1>1. /\ c.step = "get" /\ calls' = (calls \ {c}) \cup more
      /\ UNCHANGED <<version, active, globals, page, rows, logTypeToDelete, counted,
                     logTypeDetails, initial, captured, isEditMode, edits, orderly, touched,
                     tidy>>
    BY DEF LT!GotLogType, LT!Done, LT!details, LT!list
<1>2. c \in LogTypeCalls /\ c.to \in DataSources /\ version[c.to] \in VersionsOrNone
    BY DEF LogTypesTyped, LogTypeCalls
<1>3. /\ d \in LogTypeCalls /\ d.step = "rules" /\ d.body = version[c.to]
      /\ d.base = version[c.to]
    BY <1>2, LogTypeCall DEF LT!Types
<1> HIDE DEF d
<1>4. LogTypesTyped'
    BY <1>1, <1>3 DEF LogTypesTyped
<1>5. DeletesOfPage' /\ ListsComeInOrder'
  <2>1. more \in SUBSET LogTypeCalls /\ \A e \in more : e.step \notin {"count", "delete", "list"}
    BY <1>3
  <2>2. orderly' \in BOOLEAN
    BY <1>1 DEF LogTypesTyped
  <2> HIDE DEF more
  <2> QED
    BY <1>1, <2>1, <2>2, LogTypesAnswered
<1>6. CopiesOfCluster'
  <2> SUFFICES ASSUME page = "details", tidy PROVE CopiesOfCluster'
    BY <1>1 DEF CopiesOfCluster
  <2>1. c.to = active /\ \A e \in calls : e.step # "update"
    BY <1>1 DEF CopiesOfCluster, UpdateWaits
  <2> QED
    BY <1>1, <1>3, <2>1 DEF CopiesOfCluster
<1> QED
    BY <1>4, <1>5, <1>6

LEMMA LogTypesLoaded ==
    ASSUME LogTypesInv, NEW c \in calls, LT!GotRules(c) PROVE LogTypesInv'
<1> USE DEF LogTypesInv
<1> DEFINE more == {}
<1>1. /\ c.step = "rules" /\ calls' = (calls \ {c}) \cup more
      /\ logTypeDetails' = c.body /\ captured' = initial /\ initial' = c.base
      /\ UNCHANGED <<version, active, globals, page, rows, logTypeToDelete, counted,
                     isEditMode, edits, orderly, touched, tidy>>
    BY DEF LT!GotRules, LT!Done, LT!list
<1>2. c.body \in VersionsOrNone /\ c.base \in VersionsOrNone
    BY DEF LogTypesTyped, LogTypeCalls
<1>3. LogTypesTyped'
    BY <1>1, <1>2 DEF LogTypesTyped
<1>4. DeletesOfPage' /\ ListsComeInOrder'
  <2>1. more \in SUBSET LogTypeCalls /\ \A e \in more : e.step \notin {"count", "delete", "list"}
    OBVIOUS
  <2>2. orderly' \in BOOLEAN
    BY <1>1 DEF LogTypesTyped
  <2> HIDE DEF more
  <2> QED
    BY <1>1, <2>1, <2>2, LogTypesAnswered
<1>5. CopiesOfCluster'
  <2> SUFFICES ASSUME page = "details", tidy PROVE CopiesOfCluster'
    BY <1>1 DEF CopiesOfCluster
  <2>1. /\ \A e \in calls : e.step # "update"
        /\ version[active] \in {c.body, LT!Nothing} /\ (~touched => c.base = c.body)
    BY <1>1 DEF CopiesOfCluster, UpdateWaits
  <2> QED
    BY <1>1, <2>1 DEF CopiesOfCluster
<1> QED
    BY <1>3, <1>4, <1>5

\* A deletion leaves the copies as current as they were: it is gone, or as before.
LEMMA LogTypesGone ==
    ASSUME LogTypesInv, NEW c \in calls, NEW more \in SUBSET LogTypeCalls,
           calls' = (calls \ {c}) \cup more, \A d \in more : d.step = "list",
           \A d \in DataSources : version'[d] \in {version[d], LT!Nothing},
           UNCHANGED <<active, page, logTypeDetails, initial, isEditMode, touched>>,
           tidy' => tidy
    PROVE  CopiesOfCluster'
<1> SUFFICES ASSUME page' = "details", tidy' PROVE CopiesOfCluster'
    BY DEF CopiesOfCluster
<1>1. page = "details" /\ tidy /\ CopiesOfCluster /\ active \in DataSources
    BY DEF LogTypesInv, LogTypesTyped
<1>2. version'[active'] \in {version[active], LT!Nothing}
    BY <1>1
<1>3. \A d \in calls' : d.step # "list" => d \in calls
    OBVIOUS
<1>4. \A d \in calls' : d.step = "get" => d.to = active'
    BY <1>1, <1>3 DEF CopiesOfCluster
<1>5. \A d \in calls' : d.step = "rules" =>
         version'[active'] \in {d.body, LT!Nothing} /\ (~touched' => d.base = d.body)
    BY <1>1, <1>2, <1>3 DEF CopiesOfCluster
<1>6. \A d \in calls' : d.step = "update" => UpdateWaits(d)'
    BY <1>1, <1>3 DEF CopiesOfCluster, UpdateWaits
<1>7. initial' # LT!Nothing /\ ~touched' => version'[active'] \in {initial', LT!Nothing}
    BY <1>1, <1>2 DEF CopiesOfCluster
<1>8. logTypeDetails' # LT!Nothing /\ ~isEditMode' /\ (\A d \in calls' : d.step # "update") =>
         version'[active'] \in {logTypeDetails', LT!Nothing}
  <2> SUFFICES ASSUME logTypeDetails # LT!Nothing, ~isEditMode
               PROVE  version'[active'] \in {logTypeDetails, LT!Nothing}
    OBVIOUS
  <2>1. \A d \in calls : d.step # "update"
    BY <1>1 DEF CopiesOfCluster, UpdateWaits
  <2> QED
    BY <1>1, <1>2, <2>1 DEF CopiesOfCluster
<1>9. LT!Nothing = LT!Nothing'
    BY DEF LT!Nothing
<1> QED
    BY <1>4, <1>5, <1>6, <1>7, <1>8, <1>9 DEF CopiesOfCluster

LEMMA LogTypesAfterDelete ==
    ASSUME LogTypesTyped, NEW c \in LogTypeCalls
    PROVE  /\ LT!AfterDelete(c) \in [DataSources -> VersionsOrNone]
           /\ \A d \in DataSources : LT!AfterDelete(c)[d] \in {version[d], LT!Nothing}
<1>1. LT!Nothing \in VersionsOrNone /\ c.to \in DataSources
    BY DEF VersionsOrNone, LogTypeCalls
<1> QED
    BY <1>1 DEF LT!AfterDelete, LogTypesTyped

LEMMA LogTypesDeleted ==
    ASSUME LogTypesInv, NEW c \in calls, LT!Deleted(c) PROVE LogTypesInv'
<1> USE DEF LogTypesInv
<1> DEFINE d == [LT!Fetch(active) EXCEPT !.live = c.live]
<1>1. /\ c.step = "delete" /\ c.by = "list" /\ version' = LT!AfterDelete(c)
      /\ calls' = (calls \ {c}) \cup {d}
      /\ orderly' = (~LT!Listing(calls) /\ (c.live \/ orderly))
      /\ UNCHANGED <<active, globals, page, rows, logTypeToDelete, counted, logTypeDetails,
                     initial, captured, isEditMode, edits, touched, tidy>>
    BY DEF LT!Deleted, LT!Done, LT!details, LT!list
<1>2. c \in LogTypeCalls /\ c.live \in BOOLEAN
    BY DEF LogTypesTyped, LogTypeCalls
<1>3. d \in LogTypeCalls /\ d.step = "list" /\ d.to = active /\ d.live = c.live
    BY <1>2, LogTypeFetch DEF LogTypesTyped
<1> HIDE DEF d
<1>4. /\ version' \in [DataSources -> VersionsOrNone]
      /\ \A e \in DataSources : version'[e] \in {version[e], LT!Nothing}
    BY <1>1, <1>2, LogTypesAfterDelete
<1>5. LogTypesTyped'
  <2>1. orderly' \in BOOLEAN
    BY <1>1
  <2> QED
    BY <1>1, <1>3, <1>4, <2>1 DEF LogTypesTyped
<1>6. DeletesOfPage'
    BY <1>1, <1>3 DEF DeletesOfPage
<1>7. ListsComeInOrder'
  <2> SUFFICES ASSUME orderly' PROVE ListsComeInOrder'
    BY DEF ListsComeInOrder
  <2>1. (\A e \in calls : e.step # "list") /\ (c.live \/ orderly)
    BY <1>1 DEF LT!Listing
  <2>2. \A e \in calls' : e.step = "list" => e.to = active'
    BY <1>1, <1>3, <2>1
  <2>3. \E e \in calls' : e.step = "list" /\ e.live = c.live
    BY <1>1, <1>3
  <2>4. ~c.live => rows = active \/ page # "list"
    BY <2>1 DEF ListsComeInOrder
  <2> QED
    BY <1>1, <2>2, <2>3, <2>4 DEF ListsComeInOrder
<1>8. CopiesOfCluster'
  <2> DEFINE more == {d}
  <2>1. more \in SUBSET LogTypeCalls /\ \A e \in more : e.step = "list"
    BY <1>3
  <2>2. calls' = (calls \ {c}) \cup more
    BY <1>1
  <2> HIDE DEF more
  <2> QED
    BY <1>1, <1>4, <2>1, <2>2, LogTypesGone
<1> QED
    BY <1>5, <1>6, <1>7, <1>8

LEMMA LogTypesBack ==
    ASSUME LogTypesInv, NEW c \in calls, c.step # "list", LT!GoToList(c),
           version' \in [DataSources -> VersionsOrNone], UNCHANGED <<active, globals, edits>>
    PROVE  LogTypesInv'
<1> USE DEF LogTypesInv
<1>1. CASE LT!Mount("list", calls \ {c})
  <2>1. "list" \in LT!Pages /\ calls \ {c} \in SUBSET calls
    BY DEF LT!Pages
  <2>2. globals = active \/ ~orderly \/ \E d \in calls \ {c} : d.step = "list"
    BY DEF ListsComeInOrder
  <2> QED
    BY <1>1, <2>1, <2>2, LogTypesMount
<1>2. CASE /\ page = "list"
           /\ LT!Done(c, {}) /\ orderly' = FALSE
           /\ UNCHANGED <<page, LT!list, LT!details, touched, tidy>>
  <2>1. /\ page' = "list" /\ calls' \subseteq calls /\ orderly' = FALSE
        /\ UNCHANGED <<page, rows, logTypeToDelete, counted, logTypeDetails, initial, captured,
                       isEditMode, touched, tidy>>
    BY <1>2 DEF LT!Done, LT!list, LT!details
  <2>2. LogTypesTyped'
    BY <2>1 DEF LogTypesTyped
  <2> QED
    BY <2>1, <2>2 DEF DeletesOfPage, ListsComeInOrder, CopiesOfCluster
<1> QED
    BY <1>1, <1>2 DEF LT!GoToList

LEMMA LogTypesToList ==
    ASSUME LogTypesInv, NEW c \in calls, LT!DeletedHere(c) \/ LT!Created(c) PROVE LogTypesInv'
<1>1. /\ c.step \in {"delete", "create"} /\ LT!GoToList(c)
      /\ UNCHANGED <<active, globals, edits>>
    BY DEF LT!DeletedHere, LT!Created
<1>2. c \in LogTypeCalls /\ LogTypesTyped
    BY DEF LogTypesInv, LogTypesTyped
<1>3. version' \in [DataSources -> VersionsOrNone]
  <2>1. CASE LT!DeletedHere(c)
    BY <1>2, <2>1, LogTypesAfterDelete DEF LT!DeletedHere
  <2>2. CASE LT!Created(c)
    <3>1. 0 \in VersionsOrNone
      BY MCPagesAssumption DEF MCPagesAssumption, VersionsOrNone, LT!Versions
    <3> QED
      BY <1>2, <2>2, <3>1 DEF LT!Created, LogTypesTyped
  <2> QED
    BY <2>1, <2>2
<1> QED
    BY <1>1, <1>3, LogTypesBack

LEMMA LogTypesUpdated ==
    ASSUME LogTypesInv, NEW c \in calls, LT!Updated(c) PROVE LogTypesInv'
<1> USE DEF LogTypesInv
<1> DEFINE more == {}
<1>1. /\ c.step = "update" /\ calls' = (calls \ {c}) \cup more
      /\ version' = [version EXCEPT ![c.to] = c.body]
      /\ isEditMode' = (isEditMode /\ ~c.live)
      /\ UNCHANGED <<active, globals, page, rows, logTypeToDelete, counted, logTypeDetails,
                     initial, captured, edits, orderly, touched, tidy>>
    BY DEF LT!Updated, LT!Done, LT!list
<1>2. c.body \in VersionsOrNone /\ c.to \in DataSources
    BY DEF LogTypesTyped, LogTypeCalls
<1>3. LogTypesTyped'
  <2>1. isEditMode' \in BOOLEAN
    BY <1>1
  <2>2. version' \in [DataSources -> VersionsOrNone]
    BY <1>1, <1>2 DEF LogTypesTyped
  <2> QED
    BY <1>1, <2>1, <2>2 DEF LogTypesTyped
<1>4. DeletesOfPage' /\ ListsComeInOrder'
  <2>1. more \in SUBSET LogTypeCalls /\ \A e \in more : e.step \notin {"count", "delete", "list"}
    OBVIOUS
  <2>2. orderly' \in BOOLEAN
    BY <1>1 DEF LogTypesTyped
  <2> HIDE DEF more
  <2> QED
    BY <1>1, <2>1, <2>2, LogTypesAnswered
<1>5. CopiesOfCluster'
  <2> SUFFICES ASSUME page = "details", tidy PROVE CopiesOfCluster'
    BY <1>1 DEF CopiesOfCluster
  <2>1. /\ c.body = logTypeDetails /\ c.to = active /\ c.live /\ touched
        /\ \A d \in calls : d.step \notin {"get", "rules"} /\ (d.step = "update" => d = c)
    BY <1>1 DEF CopiesOfCluster, UpdateWaits
  <2>2. version'[active] = logTypeDetails
    BY <1>1, <1>2, <2>1 DEF LogTypesTyped
  <2>3. \A d \in calls' : d.step \notin {"get", "rules", "update"}
    BY <1>1, <2>1
  <2> QED
    BY <1>1, <2>1, <2>2, <2>3 DEF CopiesOfCluster
<1> QED
    BY <1>3, <1>4, <1>5

LEMMA LogTypesNotWritten ==
    ASSUME LogTypesInv, NEW c \in calls, LT!WriteFails(c) PROVE LogTypesInv'
<1> USE DEF LogTypesInv
<1> DEFINE more == {}
<1>1. /\ c.step \in {"delete", "create", "update"} /\ calls' = (calls \ {c}) \cup more
      /\ UNCHANGED <<active, globals, page, rows, logTypeToDelete, counted, logTypeDetails,
                     initial, captured, isEditMode, edits, touched>>
    BY DEF LT!WriteFails, LT!Done, LT!list, LT!details
<1>2. \/ UNCHANGED <<version, orderly, tidy>>
      \/ /\ orderly' = FALSE /\ tidy' = FALSE
         /\ version' = IF c.step = "delete" THEN LT!AfterDelete(c)
                                            ELSE [version EXCEPT ![c.to] = c.body]
    BY DEF LT!WriteFails
<1>3. c \in LogTypeCalls /\ c.body \in VersionsOrNone /\ c.to \in DataSources
    BY DEF LogTypesTyped, LogTypeCalls
<1>4. version' \in [DataSources -> VersionsOrNone]
    BY <1>2, <1>3, LogTypesAfterDelete DEF LogTypesTyped
<1>5. orderly' \in BOOLEAN /\ tidy' \in BOOLEAN /\ (orderly' => orderly)
  <2>1. orderly \in BOOLEAN /\ tidy \in BOOLEAN
    BY DEF LogTypesTyped
  <2>2. orderly' \in {orderly, FALSE} /\ tidy' \in {tidy, FALSE}
    BY <1>2
  <2>3. orderly' => orderly
    BY <1>2
  <2> QED
    BY <2>1, <2>2, <2>3
<1>6. LogTypesTyped'
    BY <1>1, <1>4, <1>5 DEF LogTypesTyped
<1>7. DeletesOfPage' /\ ListsComeInOrder'
  <2>1. more \in SUBSET LogTypeCalls /\ \A e \in more : e.step \notin {"count", "delete", "list"}
    OBVIOUS
  <2> HIDE DEF more
  <2> QED
    BY <1>1, <1>5, <2>1, LogTypesAnswered
<1>8. CopiesOfCluster'
  <2>1. CASE tidy' = FALSE
    BY <2>1 DEF CopiesOfCluster
  <2>2. CASE UNCHANGED <<version, orderly, tidy>>
    <3>1. \A d \in DataSources : version'[d] \in {version[d], LT!Nothing}
      BY <2>2
    <3>2. more \in SUBSET LogTypeCalls /\ \A d \in more : d.step = "list"
      OBVIOUS
    <3> HIDE DEF more
    <3> QED
      BY <1>1, <2>2, <3>1, <3>2, LogTypesGone
  <2> QED
    BY <1>2, <2>1, <2>2
<1> QED
    BY <1>6, <1>7, <1>8

LEMMA LogTypesStep == ASSUME LogTypesInv, LT!Next PROVE LogTypesInv'
BY LogTypesVisit, LogTypesSelected, LogTypesQuiet, LogTypesSends, LogTypesUpdates,
   LogTypesRefreshes, LogTypesListed, LogTypesRead, LogTypesFound, LogTypesLoaded,
   LogTypesDeleted, LogTypesToList, LogTypesUpdated, LogTypesNotWritten DEF LT!Next, LT!Answer

LEMMA LogTypesStutter ==
    ASSUME LogTypesInv, UNCHANGED <<ofLogTypes, active, page, calls, edits, touched>>
    PROVE  LogTypesInv'
<1>1. UNCHANGED <<version, globals, rows, logTypeToDelete, counted, logTypeDetails, initial,
                  captured, isEditMode, orderly, tidy, active, page, calls, edits, touched>>
    BY DEF ofLogTypes
<1>2. LogTypesTyped'
    BY <1>1 DEF LogTypesInv, LogTypesTyped
<1>3. DeletesOfPage' /\ ListsComeInOrder'
    BY <1>1 DEF LogTypesInv, DeletesOfPage, ListsComeInOrder
<1>4. CopiesOfCluster'
    BY <1>1 DEF LogTypesInv, CopiesOfCluster, UpdateWaits
<1> QED
    BY <1>2, <1>3, <1>4 DEF LogTypesInv

LEMMA LogTypesAreTyped == LogTypesTyped => LT!TypeOK
BY DEF LogTypesTyped, LT!TypeOK, LogTypeCalls, VersionsOrNone

LEMMA LogTypesInvSettles == LogTypesInv => LT!LogTypesSettle /\ LT!DetailsShown
BY DEF LogTypesInv, ListsComeInOrder, CopiesOfCluster, LT!LogTypesSettle, LT!DetailsShown

-----------------------------------------------------------------------------
(* The Overview page *)

RefreshRecords ==
    [id : Nat, kind : {"range", "source", "click"}, aborted : BOOLEAN, clean : BOOLEAN,
     step : 1 .. 5, asked : Nat, range : VW!Ranges, sources : SUBSET DataSources]

OverviewTyped ==
    /\ active \in DataSources /\ dateTimeFilter \in VW!Ranges /\ window \in VW!Ranges
    /\ refreshState \in {"InProgress", "Complete"} /\ refreshes \in Nat
    /\ running \subseteq RefreshRecords
    /\ DOMAIN overviewViewModel = VW!Parts

\* At most one refresh is under way, the latest; the page says that it loads no longer than that.
OneRefresh ==
    /\ \A r, s \in running : r = s
    /\ \A r \in running : r.id = refreshes
    /\ refreshState = "Complete" => running = {} /\ ~loading

\* A part as it is after a refresh that nothing disturbed.
Settled(i) ==
    overviewViewModel[VW!Steps[i]] =
        VW!Part(refreshes, {active}, IF i = 1 THEN {} ELSE {dateTimeFilter})

\* A refresh that nothing has disturbed is about what the page names, and so are the parts that
\* it has filled.
FillsWhatIsNamed ==
    \A r \in running : r.clean =>
        /\ ~r.aborted /\ window = dateTimeFilter /\ r.range = dateTimeFilter
        /\ r.sources = {active}
        /\ \A i \in 1 .. 5 : i < r.step => Settled(i)

AllFilled == refreshState = "Complete" /\ clean => \A i \in 1 .. 5 : Settled(i)

OverviewInv == OverviewTyped /\ OneRefresh /\ FillsWhatIsNamed /\ AllFilled

LEMMA FiveSteps ==
    /\ Len(VW!Steps) = 5
    /\ VW!Parts = {VW!Steps[i] : i \in 1 .. 5}
    /\ VW!Steps[1] = "detectors" /\ VW!Steps[2] = "findings" /\ VW!Steps[3] = "alerts"
    /\ VW!Steps[4] = "threatIntelFindings" /\ VW!Steps[5] = "correlations"
    /\ \A i, j \in 1 .. 5 : VW!Steps[i] = VW!Steps[j] => i = j
<1>1. /\ Len(VW!Steps) = 5 /\ DOMAIN VW!Steps = 1 .. 5
      /\ VW!Steps[1] = "detectors" /\ VW!Steps[2] = "findings" /\ VW!Steps[3] = "alerts"
      /\ VW!Steps[4] = "threatIntelFindings" /\ VW!Steps[5] = "correlations"
    BY DEF VW!Steps
<1>2. \A i \in 1 .. 5 : i = 1 \/ i = 2 \/ i = 3 \/ i = 4 \/ i = 5
    OBVIOUS
<1>3. \A i, j \in 1 .. 5 : VW!Steps[i] = VW!Steps[j] => i = j
    BY <1>1, <1>2
<1> QED
    BY <1>1, <1>3 DEF VW!Parts

LEMMA OverviewInit == VW!Init => OverviewInv
<1> SUFFICES ASSUME VW!Init PROVE OverviewInv
    OBVIOUS
<1>1. OverviewTyped
    BY DEF VW!Init, OverviewTyped, RefreshRecords, VW!Ranges
<1> QED
    BY <1>1 DEF VW!Init, OverviewInv, OneRefresh, FillsWhatIsNamed, AllFilled, VW!Ranges

\* A change of the range or the data source, or a click, begins a refresh of what is named now,
\* or disturbs the one under way.
LEMMA OverviewRefreshes ==
    ASSUME OverviewInv, NEW kind \in {"range", "source", "click"}, NEW d \in DataSources,
           NEW range \in VW!Ranges, VW!OnRefresh(kind, d, range),
           active' = d, dateTimeFilter' = range, loading' \/ loading' = loading,
           UNCHANGED <<overviewViewModel, clean>>
    PROVE  OverviewInv'
<1>1. /\ OverviewTyped /\ OneRefresh /\ window' = range
    BY Zenon DEF OverviewInv, VW!OnRefresh
<1>2. CASE refreshState = "InProgress"
  <2>1. /\ running' = {[r EXCEPT !.aborted = @ \/ r.kind = kind, !.clean = FALSE] : r \in running}
        /\ UNCHANGED <<refreshState, refreshes>>
      BY <1>2 DEF VW!OnRefresh
  <2>2. ASSUME NEW s \in running'
        PROVE  /\ s \in RefreshRecords /\ s.id = refreshes /\ ~s.clean
               /\ \A t \in running' : t = s
    <3>1. PICK r \in running :
              s = [r EXCEPT !.aborted = @ \/ r.kind = kind, !.clean = FALSE]
        BY <2>1
    <3>2. \A t \in running' : t = s
        BY <1>1, <2>1, <3>1 DEF OneRefresh
    <3> QED
        BY <1>1, <3>1, <3>2 DEF OneRefresh, OverviewTyped, RefreshRecords
  <2> QED
      BY <1>1, <1>2, <2>1, <2>2
      DEF OverviewInv, OverviewTyped, OneRefresh, FillsWhatIsNamed, AllFilled
<1>3. CASE refreshState # "InProgress"
  <2> DEFINE new == [id |-> refreshes + 1, kind |-> kind, aborted |-> FALSE, clean |-> TRUE,
                     step |-> 1, asked |-> 1, range |-> range, sources |-> {d}]
  <2>1. refreshState' = "InProgress" /\ refreshes' = refreshes + 1 /\ running' = {new}
      BY <1>3 DEF VW!OnRefresh
  <2>2. new \in RefreshRecords
      BY <1>1 DEF RefreshRecords, OverviewTyped
  <2>3. OverviewTyped'
      BY <1>1, <2>1, <2>2 DEF OverviewTyped
  <2> QED
      BY <1>1, <2>1, <2>3 DEF OverviewInv, OneRefresh, FillsWhatIsNamed, AllFilled
<1> QED
    BY <1>2, <1>3

LEMMA OverviewUser ==
    ASSUME OverviewInv,
           \/ \E range \in VW!Ranges : VW!OnTimeChange(range)
           \/ \E d \in DataSources : VW!SelectDataSource(d)
           \/ VW!Refresh
    PROVE  OverviewInv'
<1>1. active \in DataSources /\ dateTimeFilter \in VW!Ranges
    BY DEF OverviewInv, OverviewTyped
<1>2. ASSUME NEW range \in VW!Ranges, VW!OnTimeChange(range) PROVE OverviewInv'
    BY <1>1, <1>2, OverviewRefreshes DEF VW!OnTimeChange
<1>3. ASSUME NEW d \in DataSources, VW!SelectDataSource(d) PROVE OverviewInv'
    BY <1>1, <1>3, OverviewRefreshes DEF VW!SelectDataSource
<1>4. ASSUME VW!Refresh PROVE OverviewInv'
    BY <1>1, <1>4, OverviewRefreshes DEF VW!Refresh
<1> QED
    BY <1>2, <1>3, <1>4

\* The next step, or the end, of a refresh whose step has filled its part.
LEMMA OverviewProceeds ==
    ASSUME OverviewInv, NEW r \in running, NEW ok \in BOOLEAN, VW!Proceed(r, ok),
           DOMAIN overviewViewModel' = VW!Parts,
           r.clean /\ ok => \A i \in 1 .. 5 : i <= r.step => Settled(i)',
           UNCHANGED <<active, dateTimeFilter, window, refreshes>>
    PROVE  OverviewInv'
<1>1. /\ OverviewTyped /\ r \in RefreshRecords /\ running = {r} /\ r.id = refreshes
      /\ r.clean => ~r.aborted /\ window = dateTimeFilter
    BY DEF OverviewInv, OverviewTyped, OneRefresh, FillsWhatIsNamed
<1>2. CASE r.aborted \/ r.step = Len(VW!Steps)
  <2>1. /\ running' = {} /\ ~loading' /\ refreshState' = "Complete" /\ clean' = (r.clean /\ ok)
      BY <1>1, <1>2 DEF VW!Proceed
  <2>2. ASSUME clean' PROVE \A i \in 1 .. 5 : Settled(i)'
    <3>1. r.clean /\ ok
        BY <2>1, <2>2
    <3>2. r.step = 5
        BY <1>1, <1>2, <3>1, FiveSteps
    <3> QED
        BY <3>1, <3>2
  <2>3. OverviewTyped'
      BY <1>1, <2>1 DEF OverviewTyped
  <2> QED
      BY <2>1, <2>2, <2>3 DEF OverviewInv, OneRefresh, FillsWhatIsNamed, AllFilled
<1>3. CASE ~(r.aborted \/ r.step = Len(VW!Steps))
  <2> DEFINE next == [VW!Asking(r, r.step + 1) EXCEPT !.clean = @ /\ ok]
  <2>1. running' = {next} /\ UNCHANGED <<loading, refreshState, clean>>
      BY <1>1, <1>3 DEF VW!Proceed
  <2>2. refreshState # "Complete"
      BY DEF OverviewInv, OneRefresh
  <2>3. /\ next \in RefreshRecords /\ next.id = r.id /\ next.clean = (r.clean /\ ok)
        /\ next.step = r.step + 1 /\ next.aborted = r.aborted /\ next.range = window
        /\ next.sources = {active}
    <3> DEFINE asking == VW!Asking(r, r.step + 1)
    <3>1. r.step + 1 \in 1 .. 5
        BY <1>1, <1>3, FiveSteps DEF RefreshRecords
    <3>2. /\ asking \in RefreshRecords /\ asking.id = r.id /\ asking.clean = r.clean
          /\ asking.step = r.step + 1 /\ asking.aborted = r.aborted /\ asking.range = window
          /\ asking.sources = {active}
        BY <1>1, <3>1 DEF VW!Asking, RefreshRecords, OverviewTyped
    <3>3. next = [asking EXCEPT !.clean = @ /\ ok]
        OBVIOUS
    <3> HIDE DEF asking, next
    <3>4. asking.clean \in BOOLEAN
        BY <3>2 DEF RefreshRecords
    <3>5. (asking.clean /\ ok) \in BOOLEAN
        OBVIOUS
    <3> QED
        BY <3>2, <3>3, <3>4, <3>5 DEF RefreshRecords
  <2> HIDE DEF next
  <2>4. OverviewTyped'
      BY <1>1, <2>1, <2>3 DEF OverviewTyped
  <2>5. OneRefresh'
      BY <1>1, <2>1, <2>2, <2>3 DEF OneRefresh
  <2>6. FillsWhatIsNamed'
    <3>1. r.step \in 1 .. 5
        BY <1>1 DEF RefreshRecords
    <3>2. ASSUME r.clean, ok PROVE \A i \in 1 .. 5 : i < r.step + 1 => Settled(i)'
        BY <3>1, <3>2
    <3>3. next.clean => /\ ~next.aborted /\ window' = dateTimeFilter'
                        /\ next.range = dateTimeFilter' /\ next.sources = {active'}
                        /\ \A i \in 1 .. 5 : i < next.step => Settled(i)'
        BY <1>1, <2>3, <3>2
    <3> QED
        BY <2>1, <3>3 DEF FillsWhatIsNamed
  <2> QED
      BY <2>1, <2>2, <2>4, <2>5, <2>6 DEF OverviewInv, AllFilled
<1> QED
    BY <1>2, <1>3

LEMMA OverviewFilled ==
    ASSUME OverviewInv, NEW r \in running, VW!Update(r) \/ VW!Refused(r) PROVE OverviewInv'
<1>1. PICK ok \in BOOLEAN :
          /\ VW!Proceed(r, ok)
          /\ ok => overviewViewModel' =
                       [overviewViewModel EXCEPT ![VW!Steps[r.step]] = VW!Filled(r)]
          /\ DOMAIN overviewViewModel' = DOMAIN overviewViewModel
          /\ UNCHANGED <<active, dateTimeFilter, window, refreshes>>
    BY DEF VW!Update, VW!Refused
<1>2. ASSUME r.clean, ok, NEW i \in 1 .. 5, i <= r.step PROVE Settled(i)'
  <2>1. /\ r.id = refreshes /\ r.sources = {active} /\ r.range = dateTimeFilter
        /\ window = dateTimeFilter /\ r.step \in 1 .. 5
        /\ \A j \in 1 .. 5 : j < r.step => Settled(j)
      BY <1>2 DEF OverviewInv, OverviewTyped, OneRefresh, FillsWhatIsNamed, RefreshRecords
  <2>2. CASE i < r.step
    <3>1. VW!Steps[i] # VW!Steps[r.step]
        BY <2>1, <2>2, FiveSteps
    <3>2. overviewViewModel'[VW!Steps[i]] = overviewViewModel[VW!Steps[i]]
      <4>1. VW!Steps[i] \in DOMAIN overviewViewModel
          BY FiveSteps DEF OverviewInv, OverviewTyped
      <4> QED
          BY <1>1, <1>2, <3>1, <4>1
    <3> QED
        BY <1>1, <2>1, <2>2, <3>2 DEF Settled
  <2>3. CASE i = r.step
    <3>1. overviewViewModel'[VW!Steps[i]] = VW!Filled(r)
        BY <1>1, <1>2, <2>3, FiveSteps DEF OverviewInv, OverviewTyped
    <3>2. VW!Filled(r) = VW!Part(refreshes, {active}, IF i = 1 THEN {} ELSE {dateTimeFilter})
      <4>1. CASE i = 1
          BY <2>1, <2>3, <4>1, FiveSteps DEF VW!Filled
      <4>2. CASE i = 2 \/ i = 3
        <5>1. overviewViewModel["detectors"] = VW!Part(refreshes, {active}, {})
            BY <2>1, <2>3, <4>2, FiveSteps DEF Settled
        <5>2. overviewViewModel["detectors"].sources = {active}
            BY <5>1 DEF VW!Part
        <5>3. VW!Filled(r) = VW!Part(r.id, r.sources \cup {active}, {r.range, window})
            BY <2>3, <4>2, <5>2, FiveSteps DEF VW!Filled
        <5> QED
            BY <2>1, <4>2, <5>3
      <4>3. CASE i = 4
          BY <2>1, <2>3, <4>3, FiveSteps DEF VW!Filled
      <4>4. CASE i = 5
          BY <2>1, <2>3, <4>4, FiveSteps DEF VW!Filled
      <4> QED
          BY <4>1, <4>2, <4>3, <4>4
    <3> QED
        BY <1>1, <3>1, <3>2 DEF Settled
  <2> QED
      BY <1>2, <2>1, <2>2, <2>3
<1>3. DOMAIN overviewViewModel' = VW!Parts
    BY <1>1 DEF OverviewInv, OverviewTyped
<1> QED
    BY <1>1, <1>2, <1>3, OverviewProceeds

LEMMA OverviewGoesOn ==
    ASSUME OverviewInv, NEW r \in running, VW!NextDetector(r) \/ VW!Lost(r) PROVE OverviewInv'
<1>1. /\ running = {r} /\ r \in RefreshRecords /\ OverviewTyped
      /\ UNCHANGED <<active, dateTimeFilter, window, refreshState, overviewViewModel, loading,
                     refreshes, clean>>
    BY DEF OverviewInv, OverviewTyped, OneRefresh, VW!NextDetector, VW!Lost
<1>2. CASE VW!NextDetector(r)
  <2> DEFINE next == [r EXCEPT !.asked = @ + 1, !.sources = @ \cup {active}]
  <2>1. running' = {next}
      BY <1>1, <1>2 DEF VW!NextDetector
  <2>2. /\ next \in RefreshRecords /\ next.id = r.id /\ next.clean = r.clean
        /\ next.step = r.step /\ next.aborted = r.aborted /\ next.range = r.range
        /\ next.sources = r.sources \cup {active}
    <3>1. r.asked + 1 \in Nat /\ r.sources \cup {active} \in SUBSET DataSources
        BY <1>1 DEF RefreshRecords, OverviewTyped
    <3> DEFINE asked == r.asked + 1
               sources == r.sources \cup {active}
    <3>2. next = [r EXCEPT !.asked = asked, !.sources = sources]
        OBVIOUS
    <3> HIDE DEF asked, sources, next
    <3>3. asked \in Nat /\ sources \in SUBSET DataSources
        BY <3>1 DEF asked, sources
    <3>4. next.sources = sources
        BY <1>1, <3>2 DEF RefreshRecords
    <3>5. /\ next.id = r.id /\ next.clean = r.clean /\ next.step = r.step
          /\ next.aborted = r.aborted /\ next.range = r.range
        BY <1>1, <3>2 DEF RefreshRecords
    <3>6. next \in RefreshRecords
        BY <1>1, <3>2, <3>3 DEF RefreshRecords
    <3> QED
        BY <3>4, <3>5, <3>6 DEF sources
  <2> HIDE DEF next
  <2>3. OverviewTyped'
      BY <1>1, <2>1, <2>2 DEF OverviewTyped
  <2>4. OneRefresh' /\ AllFilled'
      BY <1>1, <2>1, <2>2 DEF OverviewInv, OneRefresh, AllFilled, Settled
  <2>5. FillsWhatIsNamed'
      BY <1>1, <2>1, <2>2 DEF OverviewInv, FillsWhatIsNamed, Settled
  <2> QED
      BY <2>3, <2>4, <2>5 DEF OverviewInv
<1>3. CASE VW!Lost(r)
  <2>1. running' = {}
      BY <1>1, <1>3 DEF VW!Lost
  <2>2. OverviewTyped'
      BY <1>1, <2>1 DEF OverviewTyped
  <2> QED
      BY <1>1, <2>1, <2>2
      DEF OverviewInv, OneRefresh, FillsWhatIsNamed, AllFilled, Settled
<1> QED
    BY <1>2, <1>3

LEMMA OverviewStep == ASSUME OverviewInv, VW!Next PROVE OverviewInv'
BY OverviewUser, OverviewFilled, OverviewGoesOn DEF VW!Next

LEMMA OverviewStutter ==
    ASSUME OverviewInv, UNCHANGED <<ofOverview, loading, active>> PROVE OverviewInv'
<1>1. OverviewTyped'
    BY DEF ofOverview, OverviewInv, OverviewTyped
<1> QED
    BY <1>1 DEF ofOverview, OverviewInv, OneRefresh, FillsWhatIsNamed, AllFilled, Settled

LEMMA OverviewInvSettles == OverviewInv => VW!OverviewSettles
<1> SUFFICES ASSUME OverviewInv, refreshState = "Complete"
             PROVE  /\ ~loading
                    /\ clean => \A p \in VW!Parts :
                          overviewViewModel[p] =
                              VW!Part(refreshes, {active},
                                      IF p = "detectors" THEN {} ELSE {dateTimeFilter})
    BY DEF VW!OverviewSettles
<1>1. ASSUME clean, NEW p \in VW!Parts
      PROVE  overviewViewModel[p] =
                 VW!Part(refreshes, {active}, IF p = "detectors" THEN {} ELSE {dateTimeFilter})
  <2>1. PICK i \in 1 .. 5 : p = VW!Steps[i]
      BY FiveSteps
  <2>2. p = "detectors" <=> i = 1
      BY <2>1, FiveSteps
  <2>3. Settled(i)
      BY <1>1 DEF OverviewInv, AllFilled
  <2> QED
      BY <2>1, <2>2, <2>3 DEF Settled
<1> QED
    BY <1>1 DEF OverviewInv, OneRefresh

\* What the page shows is of refreshes that were begun.
ViewTyped ==
    /\ overviewViewModel \in [VW!Parts -> [by : 0 .. refreshes, sources : SUBSET DataSources,
                                           ranges : SUBSET VW!Ranges]]
    /\ loading \in BOOLEAN /\ clean \in BOOLEAN

LEMMA ViewTypedInit == VW!Init => ViewTyped
<1> SUFFICES ASSUME VW!Init PROVE ViewTyped
    OBVIOUS
<1>1. /\ refreshes = 1 /\ overviewViewModel = [p \in VW!Parts |-> VW!Empty]
      /\ loading = TRUE /\ clean = FALSE
    BY DEF VW!Init
<1>2. VW!Empty \in [by : 0 .. 1, sources : SUBSET DataSources, ranges : SUBSET VW!Ranges]
    BY DEF VW!Empty, VW!Part
<1>3. overviewViewModel \in [VW!Parts -> [by : 0 .. refreshes, sources : SUBSET DataSources,
                                         ranges : SUBSET VW!Ranges]]
    BY <1>1, <1>2
<1> QED
    BY <1>1, <1>3 DEF ViewTyped

LEMMA ViewTypedKept ==
    ASSUME ViewTyped, OverviewTyped, refreshes' \in {refreshes, refreshes + 1},
           overviewViewModel' = overviewViewModel, loading' \in BOOLEAN, clean' \in BOOLEAN
    PROVE  ViewTyped'
<1> DEFINE parts(n) ==
        [by : 0 .. n, sources : SUBSET DataSources, ranges : SUBSET VW!Ranges]
<1>1. 0 .. refreshes \subseteq 0 .. refreshes'
    BY DEF OverviewTyped
<1>2. parts(refreshes) \subseteq parts(refreshes')
    BY <1>1
<1>3. overviewViewModel' \in [VW!Parts -> parts(refreshes)]
    BY DEF ViewTyped
<1> HIDE DEF parts
<1>4. overviewViewModel' \in [VW!Parts -> parts(refreshes')]
    BY <1>2, <1>3
<1> QED
    BY <1>4 DEF ViewTyped, parts

\* A part is filled from the refresh that is under way.
LEMMA FilledTyped ==
    ASSUME OverviewInv, ViewTyped, NEW r \in running
    PROVE  VW!Filled(r) \in [by : 0 .. refreshes, sources : SUBSET DataSources,
                             ranges : SUBSET VW!Ranges]
<1>1. /\ r.id = refreshes /\ refreshes \in Nat /\ r.sources \subseteq DataSources
      /\ r.range \in VW!Ranges /\ window \in VW!Ranges
      /\ r.step = 1 \/ r.step = 2 \/ r.step = 3 \/ r.step = 4 \/ r.step = 5
    BY DEF OverviewInv, OverviewTyped, OneRefresh, RefreshRecords
<1>2. overviewViewModel["detectors"].sources \subseteq DataSources
  <2>1. "detectors" \in VW!Parts
      BY FiveSteps
  <2> QED
      BY <2>1 DEF ViewTyped
<1>3. PICK sources \in SUBSET DataSources, ranges \in SUBSET VW!Ranges :
          VW!Filled(r) = VW!Part(r.id, sources, ranges)
  <2>1. CASE r.step = 1
      BY <1>1, <2>1, FiveSteps DEF VW!Filled
  <2>2. CASE r.step = 2 \/ r.step = 3
    <3>1. VW!Filled(r) = VW!Part(r.id, r.sources \cup overviewViewModel["detectors"].sources,
                                 {r.range, window})
        BY <1>1, <2>2, FiveSteps DEF VW!Filled
    <3>2. /\ r.sources \cup overviewViewModel["detectors"].sources \in SUBSET DataSources
          /\ {r.range, window} \in SUBSET VW!Ranges
        BY <1>1, <1>2
    <3> QED
        BY <3>1, <3>2
  <2>3. CASE r.step = 4
    <3>1. VW!Filled(r) = VW!Part(r.id, r.sources, {r.range, window})
        BY <1>1, <2>3, FiveSteps DEF VW!Filled
    <3>2. r.sources \in SUBSET DataSources /\ {r.range, window} \in SUBSET VW!Ranges
        BY <1>1
    <3> QED
        BY <3>1, <3>2
  <2>4. CASE r.step = 5
    <3>1. VW!Filled(r) = VW!Part(r.id, r.sources, {r.range})
        BY <1>1, <2>4, FiveSteps DEF VW!Filled
    <3>2. r.sources \in SUBSET DataSources /\ {r.range} \in SUBSET VW!Ranges
        BY <1>1
    <3> QED
        BY <3>1, <3>2
  <2> QED
      BY <1>1, <2>1, <2>2, <2>3, <2>4
<1> QED
    BY <1>1, <1>3 DEF VW!Part

LEMMA ViewTypedStep == ASSUME OverviewInv, ViewTyped, VW!Next PROVE ViewTyped'
<1>1. OverviewTyped /\ loading \in BOOLEAN /\ clean \in BOOLEAN
    BY DEF OverviewInv, ViewTyped
<1>2. CASE \/ \E range \in VW!Ranges : VW!OnTimeChange(range)
           \/ \E d \in DataSources : VW!SelectDataSource(d)
           \/ VW!Refresh
  <2>1. /\ refreshes' \in {refreshes, refreshes + 1}
        /\ overviewViewModel' = overviewViewModel /\ clean' = clean
        /\ loading' \in {loading, TRUE}
      BY <1>2 DEF VW!OnTimeChange, VW!SelectDataSource, VW!Refresh, VW!OnRefresh
  <2> QED
      BY <1>1, <2>1, ViewTypedKept
<1>3. ASSUME NEW r \in running, VW!Update(r) \/ VW!Refused(r) PROVE ViewTyped'
  <2>1. /\ refreshes' = refreshes
        /\ \/ overviewViewModel' = overviewViewModel
           \/ overviewViewModel' = [overviewViewModel EXCEPT ![VW!Steps[r.step]] = VW!Filled(r)]
      BY <1>3 DEF VW!Update, VW!Refused
  <2>2. overviewViewModel' \in [VW!Parts -> [by : 0 .. refreshes, sources : SUBSET DataSources,
                                             ranges : SUBSET VW!Ranges]]
      BY <2>1, FilledTyped DEF ViewTyped
  <2>3. loading' \in BOOLEAN /\ clean' \in BOOLEAN
    <3>1. PICK ok \in BOOLEAN : VW!Proceed(r, ok)
        BY <1>3 DEF VW!Update, VW!Refused
    <3> QED
        BY <1>1, <3>1 DEF VW!Proceed
  <2> QED
      BY <2>1, <2>2, <2>3 DEF ViewTyped
<1>4. ASSUME NEW r \in running, VW!NextDetector(r) \/ VW!Lost(r) PROVE ViewTyped'
    BY <1>1, <1>4, ViewTypedKept DEF VW!NextDetector, VW!Lost
<1> QED
    BY <1>2, <1>3, <1>4 DEF VW!Next

LEMMA ViewTypedStutter ==
    ASSUME ViewTyped, UNCHANGED <<ofOverview, loading>> PROVE ViewTyped'
BY DEF ofOverview, ViewTyped

LEMMA OverviewIsTyped == OverviewInv /\ ViewTyped => VW!TypeOK
<1> SUFFICES ASSUME OverviewInv, ViewTyped PROVE VW!TypeOK
    OBVIOUS
<1>1. VW!Cardinality(running) <= MoreEdits + 1
  <2>1. running = {} \/ \E r \in running : running = {r}
      BY DEF OverviewInv, OneRefresh
  <2>2. MoreEdits \in Nat /\ VW!Cardinality(running) = Cardinality(running)
      BY MCPagesAssumption DEF VW!Cardinality, Cardinality
  <2>3. CASE running = {}
      BY <2>2, <2>3, FS_EmptySet
  <2>4. CASE \E r \in running : running = {r}
      BY <2>2, <2>4, FS_Singleton
  <2> QED
      BY <2>1, <2>3, <2>4
<1> QED
    BY <1>1 DEF OverviewInv, OverviewTyped, ViewTyped, VW!TypeOK

-----------------------------------------------------------------------------
(* What is done to alerts *)

LoadsOfAlerts == [n : Nat, seen : [Alerts -> AA!States \cup {AA!Absent}]]

AlertsTyped ==
    /\ selectedTabId \in AA!Tabs /\ visit \in Nat /\ changes \in Nat
    /\ cluster \in [Alerts -> AA!States] /\ listed \in [Alerts -> AA!States \cup {AA!Absent}]
    /\ checked \subseteq AA!Items /\ selectedItems \subseteq checked
    /\ flyoutData \in AA!Items \cup {AA!Nobody}
    /\ changing \subseteq AA!Calls /\ loads \subseteq LoadsOfAlerts
    /\ certain \in BOOLEAN /\ alone \in BOOLEAN /\ announced \subseteq AA!Items

OfThreats == selectedTabId = "threatIntel"

\* A call is about some alerts.  What it has done, and what was told, is done; of threat
\* intelligence it does everything at once.
CallsTrue ==
    /\ \A c \in changing :
          /\ c.now # {} /\ c.next # "ACTIVE"
          /\ c.at = "done" => \A a \in c.now : cluster[a] # "ACTIVE"
          /\ \A a \in c.ok : cluster[a] # "ACTIVE"
          /\ OfThreats => c.left = {} /\ c.ok = {}
    /\ \A i \in announced : cluster[i.alert] # "ACTIVE"

\* A call after which the list is loaded again in any case, but for a lost answer; and a load
\* that brings what the cluster has.
Reloads(c) == ~OfThreats \/ c.at = "done"
Fresh(l) == l.seen = AA!Waiting \/ l.seen = cluster

ListComes ==
    visit # 0 /\ certain =>
        /\ \A c \in changing : c.visit = visit
        /\ \/ \E c \in changing : Reloads(c)
           \/ \E l \in loads : Fresh(l)
           \/ loads = {} /\ listed = cluster

\* The flyout is of the page.  Its alert has the state that it shows, or there is one call about
\* it, of the flyout, which changes it or has changed it.
OpenFlyout == flyoutData # AA!Nobody
CallOfFlyout(c) ==
    /\ c.inFlyout /\ c.visit = visit
    /\ c.at = "done" => cluster[flyoutData.alert] = c.next
    /\ c.at = "sent" => flyoutData.state = cluster[flyoutData.alert]

FlyoutFits ==
    /\ OpenFlyout => visit # 0
    /\ OfThreats /\ OpenFlyout /\ alone =>
          /\ \A c, d \in changing :
                flyoutData.alert \in c.now /\ flyoutData.alert \in d.now => c = d
          /\ \A c \in changing : flyoutData.alert \in c.now => CallOfFlyout(c)
          /\ (\A c \in changing : flyoutData.alert \notin c.now) =>
                flyoutData.state = cluster[flyoutData.alert]

AlertsInv == AlertsTyped /\ CallsTrue /\ ListComes /\ FlyoutFits

LEMMA LoadBegins ==
    /\ AA!Waiting \in [Alerts -> AA!States \cup {AA!Absent}]
    /\ \A n \in Nat : AA!Load(n) \in LoadsOfAlerts /\ AA!Load(n).seen = AA!Waiting
BY DEF AA!Waiting, AA!Load, LoadsOfAlerts

LEMMA AlertsInit == AA!Init => AlertsInv
<1> SUFFICES ASSUME AA!Init PROVE AlertsInv
    OBVIOUS
<1>1. /\ AA!Waiting \in [Alerts -> AA!States \cup {AA!Absent}]
      /\ AA!Load(0) \in LoadsOfAlerts /\ AA!Load(0).seen = AA!Waiting
    BY DEF AA!Waiting, AA!Load, LoadsOfAlerts
<1>2. AlertsTyped
    BY <1>1 DEF AA!Init, AlertsTyped, AA!States
<1>3. ListComes
    BY <1>1 DEF AA!Init, ListComes, Fresh
<1> QED
    BY <1>2, <1>3 DEF AA!Init, AlertsInv, CallsTrue, FlyoutFits, OpenFlyout

\* A call begins, about alerts that are not about to be changed if the flyout is to be right.
LEMMA AlertsBegin ==
    ASSUME AlertsInv, NEW alerts \in SUBSET Alerts, alerts # {},
           NEW next \in {"ACKNOWLEDGED", "COMPLETED"}, NEW inFlyout \in BOOLEAN,
           AA!Begin(alerts, next, inFlyout),
           flyoutData' \in AA!Items \cup {AA!Nobody}, OpenFlyout' => OpenFlyout,
           OfThreats => flyoutData' = flyoutData,
           UNCHANGED <<selectedTabId, visit, cluster, listed, checked, selectedItems, loads,
                       announced, certain>>
    PROVE  AlertsInv'
<1>1. PICK batch \in AA!Batches(alerts) :
          changing' = changing \cup {[left |-> alerts \ batch, now |-> batch, next |-> next,
                                      ok |-> {}, at |-> "sent", visit |-> visit,
                                      inFlyout |-> inFlyout]}
    BY DEF AA!Begin
<1> DEFINE new == [left |-> alerts \ batch, now |-> batch, next |-> next, ok |-> {},
                   at |-> "sent", visit |-> visit, inFlyout |-> inFlyout]
<1>2. batch # {} /\ batch \subseteq alerts /\ (OfThreats => batch = alerts)
    BY DEF AA!Batches, OfThreats
<1>3. AlertsTyped /\ CallsTrue /\ ListComes /\ FlyoutFits
    BY DEF AlertsInv
<1>4. /\ changes' \in Nat /\ alone' \in BOOLEAN
      /\ alone' => alone /\ (flyoutData.alert \in alerts =>
                                /\ inFlyout
                                /\ \A c \in changing : flyoutData.alert \notin c.now \cup c.left)
  <2>1. changes' \in Nat
      BY <1>3 DEF AA!Begin, AlertsTyped
  <2>2. alone' = (alone /\ (flyoutData.alert \in alerts =>
                                /\ inFlyout
                                /\ \A c \in changing : flyoutData.alert \notin c.now \cup c.left))
      BY DEF AA!Begin
  <2>3. alone' \in BOOLEAN
      BY <2>2
  <2> QED
      BY <2>1, <2>2, <2>3
<1>5. /\ new \in AA!Calls /\ new.now # {} /\ new.next # "ACTIVE" /\ new.at = "sent" /\ new.ok = {}
      /\ new.visit = visit /\ new.now = batch /\ (OfThreats => new.left = {})
      /\ new.inFlyout = inFlyout
    BY <1>2, <1>3 DEF AA!Calls, AA!States, AlertsTyped
<1> HIDE DEF new
<1>6. changing' = changing \cup {new}
    BY <1>1 DEF new
<1>7. AlertsTyped'
    BY <1>3, <1>4, <1>5, <1>6 DEF AlertsTyped
<1>8. CallsTrue'
    BY <1>3, <1>5, <1>6 DEF CallsTrue, OfThreats
<1>9. ListComes'
    BY <1>3, <1>5, <1>6 DEF ListComes, Reloads, Fresh, OfThreats
<1>10. FlyoutFits'
  <2>1. OpenFlyout' => visit' # 0
      BY <1>3 DEF FlyoutFits
  <2>2. ASSUME OfThreats, OpenFlyout, alone', flyoutData' = flyoutData
        PROVE  /\ \A c, d \in changing' :
                     flyoutData.alert \in c.now /\ flyoutData.alert \in d.now => c = d
               /\ \A c \in changing' : flyoutData.alert \in c.now => CallOfFlyout(c)
               /\ (\A c \in changing' : flyoutData.alert \notin c.now) =>
                     flyoutData.state = cluster[flyoutData.alert]
    <3>1. alone
        BY <1>4, <2>2
    <3>2. flyoutData.alert \in new.now =>
              inFlyout /\ \A c \in changing : flyoutData.alert \notin c.now
        BY <1>2, <1>4, <1>5, <2>2
    <3> QED
        BY <1>3, <1>5, <1>6, <2>2, <3>1, <3>2 DEF FlyoutFits, CallOfFlyout
  <2> QED
      BY <2>1, <2>2 DEF FlyoutFits, OpenFlyout, CallOfFlyout, OfThreats
<1> QED
    BY <1>7, <1>8, <1>9, <1>10 DEF AlertsInv

LEMMA AlertsActed ==
    ASSUME AlertsInv,
           AA!ActOnSelection \/ AA!ActInFlyout \/ \E a \in Alerts : AA!ActOnRow(a)
    PROVE  AlertsInv'
<1>1. AlertsTyped
    BY DEF AlertsInv
<1>2. \A state : AA!NextState(state) \in {"ACKNOWLEDGED", "COMPLETED"}
    BY DEF AA!NextState
<1>3. CASE AA!ActOnSelection
  <2>1. PICK state \in AA!States :
            AA!Begin({i.alert : i \in selectedItems}, AA!NextState(state), FALSE)
      BY <1>3 DEF AA!ActOnSelection
  <2>2. {i.alert : i \in selectedItems} \in SUBSET Alerts /\ {i.alert : i \in selectedItems} # {}
      BY <1>1, <1>3 DEF AA!ActOnSelection, AlertsTyped, AA!Items
  <2>3. UNCHANGED <<selectedTabId, visit, cluster, listed, checked, selectedItems, flyoutData,
                    loads, announced, certain>>
      BY <1>3 DEF AA!ActOnSelection, AA!ofList
  <2> QED
      BY <1>1, <1>2, <2>1, <2>2, <2>3, AlertsBegin DEF AlertsTyped, OpenFlyout
<1>4. CASE AA!ActInFlyout
  <2>1. /\ AA!Begin({flyoutData.alert}, AA!NextState(flyoutData.state), TRUE)
        /\ flyoutData # AA!Nobody
        /\ flyoutData' = IF selectedTabId = "threatIntel" THEN flyoutData
                         ELSE [flyoutData EXCEPT !.state = "ACKNOWLEDGED"]
        /\ UNCHANGED <<selectedTabId, visit, cluster, listed, checked, selectedItems, loads,
                       announced, certain>>
      BY <1>4 DEF AA!ActInFlyout, AA!ofList
  <2>2. flyoutData \in AA!Items
      BY <1>1, <2>1 DEF AlertsTyped
  <2>3. {flyoutData.alert} \in SUBSET Alerts /\ flyoutData' \in AA!Items
      BY <2>1, <2>2 DEF AA!Items, AA!States
  <2> QED
      BY <1>2, <2>1, <2>3, AlertsBegin DEF OpenFlyout, OfThreats
<1>5. CASE \E a \in Alerts : AA!ActOnRow(a)
  <2>1. PICK a \in Alerts : AA!ActOnRow(a)
      BY <1>5
  <2>2. /\ AA!Begin({a}, AA!NextState(listed[a]), FALSE)
        /\ UNCHANGED <<selectedTabId, visit, cluster, listed, checked, selectedItems, flyoutData,
                       loads, announced, certain>>
      BY <2>1 DEF AA!ActOnRow, AA!ofList
  <2> QED
      BY <1>1, <1>2, <2>2, AlertsBegin DEF AlertsTyped, OpenFlyout
<1> QED
    BY <1>3, <1>4, <1>5

\* The rows, the flyout and the Refresh button.
LEMMA AlertsLooked ==
    ASSUME AlertsInv,
           \/ AA!OnFlyoutClose \/ AA!PressRefresh
           \/ \E a \in Alerts : AA!OnSelectionChange(a) \/ AA!SetFlyout(a)
    PROVE  AlertsInv'
<1>1. AlertsTyped /\ CallsTrue /\ ListComes /\ FlyoutFits
    BY DEF AlertsInv
<1>2. ASSUME NEW a \in Alerts, AA!OnSelectionChange(a) PROVE AlertsInv'
  <2>1. /\ checked' = IF \E i \in checked : i.alert = a THEN {i \in checked : i.alert # a}
                      ELSE checked \cup {[alert |-> a, state |-> listed[a]]}
        /\ selectedItems' = checked'
        /\ UNCHANGED <<selectedTabId, visit, cluster, listed, flyoutData, changing, loads, changes,
                       announced, certain, alone>>
      BY <1>2 DEF AA!OnSelectionChange, AA!history
  <2>2. listed[a] \in AA!States
      BY <1>2 DEF AA!OnSelectionChange, AA!Actionable, AA!States
  <2>3. checked' \subseteq AA!Items
      BY <1>1, <2>1, <2>2 DEF AlertsTyped, AA!Items
  <2>4. AlertsTyped'
      BY <1>1, <2>1, <2>3 DEF AlertsTyped
  <2> QED
      BY <1>1, <2>1, <2>4
      DEF AlertsInv, CallsTrue, ListComes, Reloads, Fresh, FlyoutFits, OpenFlyout, CallOfFlyout,
          OfThreats
<1>3. ASSUME NEW a \in Alerts, AA!SetFlyout(a) PROVE AlertsInv'
  <2>1. /\ visit # 0 /\ listed[a] # AA!Absent
        /\ flyoutData' = [alert |-> a, state |-> listed[a]]
        /\ alone' = (listed[a] = cluster[a] /\ \A c \in changing : a \notin c.now \cup c.left)
        /\ UNCHANGED <<selectedTabId, visit, cluster, listed, checked, selectedItems, changing,
                       loads, changes, announced, certain>>
      BY <1>3 DEF AA!SetFlyout, AA!ofList
  <2>2. flyoutData' \in AA!Items
      BY <1>1, <2>1 DEF AlertsTyped, AA!Items
  <2>3. AlertsTyped'
      BY <1>1, <2>1, <2>2 DEF AlertsTyped
  <2>4. FlyoutFits'
      BY <2>1 DEF FlyoutFits, OpenFlyout, CallOfFlyout, OfThreats
  <2> QED
      BY <1>1, <2>1, <2>3, <2>4 DEF AlertsInv, CallsTrue, ListComes, Reloads, Fresh, OfThreats
<1>4. CASE AA!OnFlyoutClose
  <2>1. /\ flyoutData' = AA!Nobody
        /\ UNCHANGED <<selectedTabId, visit, cluster, listed, checked, selectedItems, changing,
                       loads, changes, announced, certain, alone>>
      BY <1>4 DEF AA!OnFlyoutClose, AA!ofList, AA!history
  <2>2. AlertsTyped'
      BY <1>1, <2>1 DEF AlertsTyped
  <2> QED
      BY <1>1, <2>1, <2>2
      DEF AlertsInv, CallsTrue, ListComes, Reloads, Fresh, FlyoutFits, OpenFlyout, OfThreats
<1>5. CASE AA!PressRefresh
  <2>1. /\ changes' = changes + 1 /\ AA!Refresh(changes')
        /\ UNCHANGED <<selectedTabId, visit, cluster, listed, checked, selectedItems, flyoutData,
                       changing, announced, certain, alone>>
      BY <1>5 DEF AA!PressRefresh, AA!ofList, AA!history
  <2>2. loads' \subseteq LoadsOfAlerts /\ \E l \in loads' : Fresh(l)'
      BY <1>1, <2>1, LoadBegins DEF AlertsTyped, AA!Refresh, Fresh
  <2>3. AlertsTyped'
      BY <1>1, <2>1, <2>2 DEF AlertsTyped
  <2> QED
      BY <1>1, <2>1, <2>2, <2>3
      DEF AlertsInv, CallsTrue, ListComes, FlyoutFits, OpenFlyout, CallOfFlyout, OfThreats
<1> QED
    BY <1>2, <1>3, <1>4, <1>5

\* The user leaves, and comes back to a page that loads; what calls of the page before do to the
\* list is not certain.
LEMMA AlertsGone == ASSUME AlertsInv, AA!Leave \/ AA!Return PROVE AlertsInv'
<1>1. AlertsTyped /\ CallsTrue /\ ListComes /\ FlyoutFits
    BY DEF AlertsInv
<1>2. /\ AA!Waiting \in [Alerts -> AA!States \cup {AA!Absent}]
      /\ \A n \in Nat : AA!Load(n) \in LoadsOfAlerts /\ AA!Load(n).seen = AA!Waiting
    BY LoadBegins
<1>3. CASE AA!Leave
  <2>1. /\ visit' = 0 /\ loads' = {} /\ flyoutData' = AA!Nobody /\ changes' = changes + 1
        /\ listed' = AA!Waiting /\ checked' = {} /\ selectedItems' = {}
        /\ UNCHANGED <<selectedTabId, cluster, changing, announced, certain, alone>>
      BY <1>3 DEF AA!Leave, AA!history
  <2>2. AlertsTyped'
      BY <1>1, <1>2, <2>1 DEF AlertsTyped
  <2> QED
      BY <1>1, <2>1, <2>2 DEF AlertsInv, CallsTrue, ListComes, FlyoutFits, OpenFlyout, OfThreats
<1>4. CASE AA!Return
  <2>1. /\ visit = 0 /\ visit' = changes + 1 /\ loads' = {AA!Load(changes)}
        /\ certain' = (changing = {})
        /\ UNCHANGED <<selectedTabId, cluster, listed, checked, selectedItems, flyoutData,
                       changing, changes, announced, alone>>
      BY <1>4 DEF AA!Return, AA!ofList
  <2>2. AlertsTyped'
      BY <1>1, <1>2, <2>1 DEF AlertsTyped
  <2>3. ListComes'
      BY <1>1, <1>2, <2>1 DEF AlertsTyped, ListComes, Fresh
  <2> QED
      BY <1>1, <2>1, <2>2, <2>3 DEF AlertsInv, CallsTrue, FlyoutFits, OpenFlyout, OfThreats
<1> QED
    BY <1>3, <1>4

\* The cluster does what a call says.
LEMMA AlertsServed ==
    ASSUME AlertsInv, NEW c \in changing, AA!Serve(c) PROVE AlertsInv'
<1>1. AlertsTyped /\ CallsTrue /\ ListComes /\ FlyoutFits
    BY DEF AlertsInv
<1> DEFINE done == [c EXCEPT !.at = "done"]
<1>2. /\ c.at = "sent" /\ changing' = (changing \ {c}) \cup {done}
      /\ cluster' = [a \in Alerts |-> IF a \in c.now THEN c.next ELSE cluster[a]]
      /\ UNCHANGED <<selectedTabId, visit, listed, checked, selectedItems, flyoutData, loads,
                     changes, announced, certain, alone>>
    BY DEF AA!Serve, AA!ofList, AA!history
<1>3. /\ c \in AA!Calls /\ c.next \in AA!States /\ c.next # "ACTIVE" /\ c.now # {}
      /\ c.now \subseteq Alerts /\ c.ok \subseteq Alerts
    BY <1>1 DEF AlertsTyped, CallsTrue, AA!Calls
<1>4. /\ done \in AA!Calls /\ done.at = "done" /\ done.now = c.now /\ done.ok = c.ok
      /\ done.next = c.next /\ done.left = c.left /\ done.visit = c.visit
      /\ done.inFlyout = c.inFlyout
    BY <1>3 DEF AA!Calls
<1> HIDE DEF done
<1>5. AlertsTyped'
    BY <1>1, <1>2, <1>3, <1>4 DEF AlertsTyped
<1>6. ASSUME NEW a \in Alerts, cluster[a] # "ACTIVE" PROVE cluster'[a] # "ACTIVE"
    BY <1>1, <1>2, <1>3, <1>6 DEF AlertsTyped
<1>7. CallsTrue'
  <2>1. \A d \in changing : d.now \subseteq Alerts /\ d.ok \subseteq Alerts
      BY <1>1 DEF AlertsTyped, AA!Calls
  <2>2. \A i \in announced : i.alert \in Alerts
      BY <1>1 DEF AlertsTyped, AA!Items
  <2>3. \A a \in c.now : cluster'[a] # "ACTIVE"
      BY <1>2, <1>3
  <2>4. ASSUME NEW d \in changing'
        PROVE  /\ d.now # {} /\ d.next # "ACTIVE"
               /\ d.at = "done" => \A a \in d.now : cluster'[a] # "ACTIVE"
               /\ \A a \in d.ok : cluster'[a] # "ACTIVE"
               /\ OfThreats' => d.left = {} /\ d.ok = {}
    <3>1. CASE d \in changing
        BY <1>1, <1>2, <1>6, <2>1, <3>1 DEF CallsTrue, OfThreats
    <3>2. CASE d = done
        BY <1>1, <1>2, <1>3, <1>4, <1>6, <2>1, <2>3, <3>2 DEF CallsTrue, OfThreats
    <3> QED
        BY <1>2, <3>1, <3>2
  <2>5. \A i \in announced' : cluster'[i.alert] # "ACTIVE"
      BY <1>1, <1>2, <1>6, <2>2 DEF CallsTrue
  <2> QED
      BY <2>4, <2>5 DEF CallsTrue
<1>8. ListComes'
    BY <1>1, <1>2, <1>4 DEF ListComes, Reloads, OfThreats
<1>9. FlyoutFits'
  <2>1. OpenFlyout' => visit' # 0
      BY <1>1, <1>2 DEF FlyoutFits, OpenFlyout
  <2>2. ASSUME OfThreats, OpenFlyout, alone
        PROVE  /\ \A d, e \in changing' :
                     flyoutData.alert \in d.now /\ flyoutData.alert \in e.now => d = e
               /\ \A d \in changing' : flyoutData.alert \in d.now => CallOfFlyout(d)'
               /\ (\A d \in changing' : flyoutData.alert \notin d.now) =>
                     flyoutData.state = cluster'[flyoutData.alert]
    <3>1. flyoutData.alert \in Alerts
        BY <1>1, <2>2 DEF AlertsTyped, AA!Items, OpenFlyout
    <3>2. CASE flyoutData.alert \in c.now
      <4>1. /\ cluster'[flyoutData.alert] = c.next /\ CallOfFlyout(c)
            /\ \A d \in changing \ {c} : flyoutData.alert \notin d.now
          BY <1>1, <1>2, <2>2, <3>1, <3>2 DEF FlyoutFits
      <4>2. CallOfFlyout(done)'
          BY <1>2, <1>4, <4>1 DEF CallOfFlyout
      <4> QED
          BY <1>2, <1>4, <3>2, <4>1, <4>2
    <3>3. CASE flyoutData.alert \notin c.now
      <4>1. cluster'[flyoutData.alert] = cluster[flyoutData.alert]
          BY <1>2, <3>1, <3>3
      <4>2. ASSUME NEW d \in changing', flyoutData.alert \in d.now PROVE CallOfFlyout(d)'
        <5>1. d \in changing /\ CallOfFlyout(d)
            BY <1>1, <1>2, <1>4, <2>2, <3>3, <4>2 DEF FlyoutFits
        <5> QED
            BY <1>2, <4>1, <5>1 DEF CallOfFlyout
      <4> QED
          BY <1>1, <1>2, <1>4, <2>2, <3>3, <4>1, <4>2 DEF FlyoutFits
    <3> QED
        BY <3>2, <3>3
  <2> QED
      BY <1>2, <2>1, <2>2 DEF FlyoutFits, OpenFlyout, OfThreats
<1> QED
    BY <1>5, <1>7, <1>8, <1>9 DEF AlertsInv

\* A call goes on with the next detector.
LEMMA AlertsContinue ==
    ASSUME AlertsInv, NEW c \in changing, NEW ok \in SUBSET Alerts, c.left # {}, AA!Continue(c, ok),
           \A a \in ok : cluster[a] # "ACTIVE",
           UNCHANGED <<selectedTabId, visit, cluster, listed, checked, changes, certain, alone>>
    PROVE  AlertsInv'
<1>1. AlertsTyped /\ CallsTrue /\ ListComes /\ FlyoutFits
    BY DEF AlertsInv
<1>2. PICK batch \in AA!Batches(c.left) :
          changing' = (changing \ {c}) \cup {[c EXCEPT !.now = batch, !.left = @ \ batch,
                                                       !.at = "sent", !.ok = ok]}
    BY DEF AA!Continue
<1>3. UNCHANGED <<selectedItems, loads, flyoutData, announced>>
    BY DEF AA!Continue
<1> DEFINE rest == c.left \ batch
           next == [c EXCEPT !.now = batch, !.left = rest, !.at = "sent", !.ok = ok]
<1>4. changing' = (changing \ {c}) \cup {next}
    BY <1>2
<1>5. c \in AA!Calls /\ c.left \subseteq Alerts /\ ~OfThreats /\ c.next # "ACTIVE"
    BY <1>1 DEF AlertsTyped, CallsTrue, AA!Calls
<1>6. batch # {} /\ batch \subseteq c.left /\ rest \subseteq Alerts
    BY <1>5 DEF AA!Batches
<1> HIDE DEF rest
<1>7. /\ next \in AA!Calls /\ next.now = batch /\ next.at = "sent" /\ next.ok = ok
      /\ next.next = c.next /\ next.visit = c.visit
    BY <1>5, <1>6 DEF AA!Calls
<1> HIDE DEF next
<1>8. AlertsTyped'
    BY <1>1, <1>3, <1>4, <1>7 DEF AlertsTyped
<1>9. CallsTrue'
    BY <1>1, <1>3, <1>4, <1>5, <1>6, <1>7 DEF CallsTrue, OfThreats
<1>10. ListComes'
    BY <1>1, <1>3, <1>4, <1>5, <1>7 DEF ListComes, Reloads, OfThreats
<1>11. FlyoutFits'
    BY <1>1, <1>3, <1>5 DEF FlyoutFits, OpenFlyout, OfThreats
<1> QED
    BY <1>8, <1>9, <1>10, <1>11 DEF AlertsInv

\* A call ends: what it has done is told, and the list and the flyout learn of it.
LEMMA AlertsFinish ==
    ASSUME AlertsInv, NEW c \in changing, NEW ok \in SUBSET Alerts, AA!Finish(c, ok),
           \A a \in ok : cluster[a] # "ACTIVE",
           OfThreats => \/ c.at = "done" /\ ok = c.now
                        \/ ok = {} /\ (c.at = "sent" \/ (~certain' /\ ~alone')),
           certain' \in BOOLEAN, alone' \in BOOLEAN, certain' => certain, alone' => alone,
           UNCHANGED <<selectedTabId, visit, cluster, listed, checked, changes>>
    PROVE  AlertsInv'
<1>1. AlertsTyped /\ CallsTrue /\ ListComes /\ FlyoutFits /\ c \in AA!Calls /\ c.now # {}
    BY DEF AlertsInv, AlertsTyped, CallsTrue
<1>2. /\ changing' = changing \ {c}
      /\ announced' = announced \cup {[alert |-> a, state |-> c.next] : a \in ok}
    BY DEF AA!Finish
<1>3. selectedItems' = selectedItems \/ selectedItems' = {}
    BY DEF AA!Finish
<1>4. /\ loads' = loads \/ loads' = {AA!Load(changes)} \/ loads' = loads \cup {AA!Load(changes)}
      /\ c.visit = visit /\ (OfThreats => ok # {}) => AA!Load(changes) \in loads'
    BY DEF AA!Finish, AA!Refreshes, AA!Refresh, OfThreats
<1>5. flyoutData' = IF c.visit = visit /\ OfThreats /\ c.inFlyout /\ flyoutData.alert \in ok
                    THEN [flyoutData EXCEPT !.state = c.next] ELSE flyoutData
    BY DEF AA!Finish, OfThreats
<1>6. AA!Load(changes) \in LoadsOfAlerts /\ AA!Load(changes).seen = AA!Waiting
    BY <1>1, LoadBegins DEF AlertsTyped
<1>7. /\ flyoutData' \in AA!Items \cup {AA!Nobody}
      /\ OpenFlyout' => OpenFlyout
      /\ OpenFlyout => flyoutData \in AA!Items /\ flyoutData'.alert = flyoutData.alert
  <2>1. CASE flyoutData = AA!Nobody
    <3>1. flyoutData.alert \notin Alerts
        BY <2>1, MCPagesAssumption DEF AA!Nobody
    <3> QED
        BY <1>5, <2>1, <3>1 DEF OpenFlyout
  <2>2. CASE flyoutData # AA!Nobody
    <3>1. flyoutData \in AA!Items /\ c.next \in AA!States
        BY <1>1, <2>2 DEF AlertsTyped, AA!Calls
    <3> QED
        BY <1>5, <2>2, <3>1 DEF OpenFlyout, AA!Items
  <2> QED
      BY <2>1, <2>2
<1>8. announced' \subseteq AA!Items /\ \A i \in announced' : cluster[i.alert] # "ACTIVE"
  <2>1. \A a \in ok : /\ [alert |-> a, state |-> c.next] \in AA!Items
                      /\ [alert |-> a, state |-> c.next].alert = a
      BY <1>1 DEF AA!Calls, AA!Items
  <2> QED
      BY <1>1, <1>2, <2>1 DEF AlertsTyped, CallsTrue
<1>9. AlertsTyped'
    BY <1>1, <1>2, <1>3, <1>4, <1>6, <1>7, <1>8 DEF AlertsTyped
<1>10. CallsTrue'
    BY <1>1, <1>2, <1>8 DEF CallsTrue, OfThreats
<1>11. ListComes'
  <2> SUFFICES ASSUME visit # 0, certain'
               PROVE  /\ \A d \in changing' : d.visit = visit
                      /\ \/ \E d \in changing' : Reloads(d)
                         \/ \E l \in loads' : Fresh(l)
                         \/ loads' = {} /\ listed = cluster
      BY DEF ListComes, Reloads, Fresh, OfThreats
  <2>1. /\ \A d \in changing : d.visit = visit
        /\ \/ \E d \in changing : Reloads(d)
           \/ \E l \in loads : Fresh(l)
           \/ loads = {} /\ listed = cluster
      BY <1>1 DEF ListComes
  <2>2. CASE OfThreats => ok # {}
    <3>1. Fresh(AA!Load(changes)) /\ AA!Load(changes) \in loads'
        BY <1>4, <1>6, <2>1, <2>2 DEF Fresh
    <3> QED
        BY <1>2, <2>1, <3>1
  <2>3. CASE OfThreats /\ ok = {}
    <3>1. ~Reloads(c)
        BY <1>1, <2>3 DEF Reloads, AA!Calls
    <3>2. loads' = loads
        BY <2>3 DEF AA!Finish, AA!Refreshes, OfThreats
    <3> QED
        BY <1>2, <2>1, <3>1, <3>2
  <2> QED
      BY <2>2, <2>3
<1>12. FlyoutFits'
  <2>1. OpenFlyout' => visit' # 0
      BY <1>1, <1>7 DEF FlyoutFits
  <2>2. ASSUME OfThreats, OpenFlyout, alone'
        PROVE  /\ \A d, e \in changing' :
                     flyoutData'.alert \in d.now /\ flyoutData'.alert \in e.now => d = e
               /\ \A d \in changing' : flyoutData'.alert \in d.now => CallOfFlyout(d)'
               /\ (\A d \in changing' : flyoutData'.alert \notin d.now) =>
                     flyoutData'.state = cluster[flyoutData'.alert]
    <3>1. flyoutData'.alert = flyoutData.alert /\ flyoutData \in AA!Items
        BY <1>7, <2>2
    <3>2. /\ \A d, e \in changing :
                flyoutData.alert \in d.now /\ flyoutData.alert \in e.now => d = e
          /\ \A d \in changing : flyoutData.alert \in d.now => CallOfFlyout(d)
          /\ (\A d \in changing : flyoutData.alert \notin d.now) =>
                flyoutData.state = cluster[flyoutData.alert]
        BY <1>1, <2>2 DEF FlyoutFits
    <3>3. CASE flyoutData.alert \in c.now
      <4>1. CallOfFlyout(c) /\ \A d \in changing' : flyoutData.alert \notin d.now
          BY <1>2, <3>2, <3>3
      <4>2. flyoutData'.state = cluster[flyoutData.alert]
        <5>1. CASE c.at = "done" /\ ok = c.now
          <6>1. flyoutData' = [flyoutData EXCEPT !.state = c.next]
              BY <1>5, <2>2, <3>3, <4>1, <5>1 DEF CallOfFlyout
          <6> QED
              BY <3>1, <4>1, <5>1, <6>1 DEF CallOfFlyout, AA!Items
        <5>2. CASE ok = {} /\ c.at = "sent"
          <6>1. flyoutData' = flyoutData
              BY <1>5, <5>2
          <6> QED
              BY <4>1, <5>2, <6>1 DEF CallOfFlyout
        <5> QED
            BY <2>2, <5>1, <5>2
      <4> QED
          BY <3>1, <4>1, <4>2
    <3>4. CASE flyoutData.alert \notin c.now
      <4>1. flyoutData' = flyoutData
          BY <1>5, <2>2, <3>4
      <4>2. \A d \in changing' : flyoutData.alert \in d.now => CallOfFlyout(d)'
          BY <1>2, <3>2, <4>1 DEF CallOfFlyout
      <4> QED
          BY <1>2, <3>2, <3>4, <4>1, <4>2
    <3> QED
        BY <3>3, <3>4
  <2> QED
      BY <1>7, <2>1, <2>2 DEF FlyoutFits, OfThreats
<1> QED
    BY <1>9, <1>10, <1>11, <1>12 DEF AlertsInv

LEMMA AlertsAnswered ==
    ASSUME AlertsInv, NEW c \in changing,
           AA!Acknowledged(c) \/ AA!Refused(c) \/ AA!Lost(c)
    PROVE  AlertsInv'
<1>1. /\ AlertsTyped /\ c \in AA!Calls /\ c.now \subseteq Alerts /\ c.ok \subseteq Alerts
      /\ c.at = "done" => \A a \in c.now : cluster[a] # "ACTIVE"
      /\ \A a \in c.ok : cluster[a] # "ACTIVE"
      /\ OfThreats => c.left = {} /\ c.ok = {}
    BY DEF AlertsInv, AlertsTyped, CallsTrue, AA!Calls
<1>2. c.at \in {"sent", "done"} /\ certain \in BOOLEAN /\ alone \in BOOLEAN
    BY <1>1 DEF AA!Calls, AlertsTyped
<1>3. CASE AA!Acknowledged(c)
  <2> DEFINE ok == c.ok \cup c.now
  <2>1. /\ c.at = "done" /\ AA!Continue(c, ok)
        /\ UNCHANGED <<selectedTabId, visit, cluster, listed, checked, changes, certain, alone>>
      BY <1>3 DEF AA!Acknowledged
  <2>2. ok \in SUBSET Alerts /\ (\A a \in ok : cluster[a] # "ACTIVE") /\ (OfThreats => ok = c.now)
      BY <1>1, <2>1
  <2> HIDE DEF ok
  <2>3. CASE c.left # {}
      BY <2>1, <2>2, <2>3, AlertsContinue
  <2>4. CASE c.left = {}
    <3>1. AA!Finish(c, ok)
        BY <2>1, <2>4 DEF AA!Continue
    <3> QED
        BY <1>2, <2>1, <2>2, <3>1, AlertsFinish
  <2> QED
      BY <2>3, <2>4
<1>4. CASE AA!Refused(c)
  <2>1. /\ c.at = "sent" /\ AA!Continue(c, c.ok)
        /\ UNCHANGED <<selectedTabId, visit, cluster, listed, checked, changes, certain, alone>>
      BY <1>4 DEF AA!Refused
  <2>2. c.ok \in SUBSET Alerts
      BY <1>1
  <2>3. CASE c.left # {}
      BY <1>1, <2>1, <2>2, <2>3, AlertsContinue
  <2>4. CASE c.left = {}
    <3>1. AA!Finish(c, c.ok)
        BY <2>1, <2>4 DEF AA!Continue
    <3> QED
        BY <1>1, <1>2, <2>1, <2>2, <3>1, AlertsFinish
  <2> QED
      BY <2>3, <2>4
<1>5. CASE AA!Lost(c)
  <2>1. /\ AA!Finish(c, c.ok)
        /\ certain' = (certain /\ (selectedTabId = "threatIntel" => c.at = "sent"))
        /\ alone' = (alone /\ c.at = "sent")
        /\ UNCHANGED <<selectedTabId, visit, cluster, listed, checked, changes>>
      BY <1>5 DEF AA!Lost
  <2>2. c.ok \in SUBSET Alerts
      BY <1>1
  <2>3. certain' \in BOOLEAN /\ alone' \in BOOLEAN /\ (certain' => certain) /\ (alone' => alone)
      BY <2>1
  <2>4. OfThreats => c.ok = {} /\ (c.at = "sent" \/ (~certain' /\ ~alone'))
      BY <1>1, <2>1 DEF OfThreats
  <2> QED
      BY <1>1, <2>1, <2>2, <2>3, <2>4, AlertsFinish
<1> QED
    BY <1>3, <1>4, <1>5

\* The list: what was read before the cluster changed is followed by a load that was not.
LEMMA AlertsLoaded ==
    ASSUME AlertsInv, NEW l \in loads, AA!Read(l) \/ AA!Listed(l) \/ AA!LoadFails(l)
    PROVE  AlertsInv'
<1>1. /\ AlertsTyped /\ CallsTrue /\ ListComes /\ FlyoutFits /\ l \in LoadsOfAlerts
    BY DEF AlertsInv, AlertsTyped
<1>2. CASE AA!Read(l)
  <2> DEFINE read == [l EXCEPT !.seen = cluster]
  <2>1. /\ loads' = (loads \ {l}) \cup {read}
        /\ UNCHANGED <<selectedTabId, visit, cluster, listed, checked, selectedItems, flyoutData,
                       changing, changes, announced, certain, alone>>
      BY <1>2 DEF AA!Read, AA!ofList, AA!history
  <2>2. read \in LoadsOfAlerts /\ read.seen = cluster
    <3>1. cluster \in [Alerts -> AA!States \cup {AA!Absent}]
        BY <1>1 DEF AlertsTyped
    <3> QED
        BY <1>1, <3>1 DEF LoadsOfAlerts
  <2> HIDE DEF read
  <2>3. AlertsTyped'
      BY <1>1, <2>1, <2>2 DEF AlertsTyped
  <2>4. ListComes'
      BY <1>1, <2>1, <2>2 DEF ListComes, Reloads, Fresh, OfThreats
  <2> QED
      BY <1>1, <2>1, <2>3, <2>4
      DEF AlertsInv, CallsTrue, FlyoutFits, OpenFlyout, CallOfFlyout, OfThreats
<1>3. CASE AA!Listed(l)
  <2>1. /\ l.seen # AA!Waiting /\ listed' = l.seen /\ loads' = loads \ {l}
        /\ certain' = (certain /\ \A k \in loads : k.n >= l.n /\ (k # l => k.seen = AA!Waiting))
        /\ UNCHANGED <<selectedTabId, visit, cluster, checked, selectedItems, flyoutData,
                       changing, changes, announced, alone>>
      BY <1>3 DEF AA!Listed
  <2>2. certain' \in BOOLEAN
      BY <2>1
  <2>3. AlertsTyped'
      BY <1>1, <2>1, <2>2 DEF AlertsTyped, LoadsOfAlerts
  <2>4. ListComes'
    <3> SUFFICES ASSUME visit # 0, certain'
                 PROVE  /\ \A c \in changing : c.visit = visit
                        /\ \/ \E c \in changing : Reloads(c)
                           \/ \E k \in loads' : Fresh(k)
                           \/ loads' = {} /\ listed' = cluster
        BY <2>1 DEF ListComes, Reloads, Fresh, OfThreats
    <3>1. certain /\ \A k \in loads' : k.seen = AA!Waiting
        BY <2>1
    <3>2. CASE loads' = {}
      <4>1. loads = {l}
          BY <2>1, <3>2
      <4> QED
          BY <1>1, <2>1, <3>1, <3>2, <4>1 DEF ListComes, Fresh
    <3>3. CASE loads' # {}
      <4>1. PICK k \in loads' : k.seen = AA!Waiting
          BY <3>1, <3>3
      <4> QED
          BY <1>1, <3>1, <4>1 DEF ListComes, Fresh
    <3> QED
        BY <3>2, <3>3
  <2> QED
      BY <1>1, <2>1, <2>3, <2>4
      DEF AlertsInv, CallsTrue, FlyoutFits, OpenFlyout, CallOfFlyout, OfThreats
<1>4. CASE AA!LoadFails(l)
  <2>1. /\ loads' = loads \ {l} /\ certain' = FALSE
        /\ \/ UNCHANGED <<listed, checked, selectedItems>>
           \/ listed' = AA!Waiting /\ checked' = {} /\ selectedItems' = {}
        /\ UNCHANGED <<selectedTabId, visit, cluster, flyoutData, changing, changes, announced,
                       alone>>
      BY <1>4 DEF AA!LoadFails, AA!ofList
  <2>2. AlertsTyped'
    <3>1. CASE UNCHANGED <<listed, checked, selectedItems>>
        BY <1>1, <2>1, <3>1 DEF AlertsTyped
    <3>2. CASE listed' = AA!Waiting /\ checked' = {} /\ selectedItems' = {}
        BY <1>1, <2>1, <3>2, LoadBegins DEF AlertsTyped
    <3> QED
        BY <2>1, <3>1, <3>2
  <2> QED
      BY <1>1, <2>1, <2>2
      DEF AlertsInv, CallsTrue, ListComes, FlyoutFits, OpenFlyout, CallOfFlyout, OfThreats
<1> QED
    BY <1>2, <1>3, <1>4

LEMMA AlertsStep == ASSUME AlertsInv, AA!Next PROVE AlertsInv'
<1>1. CASE \E a \in Alerts : AA!OnSelectionChange(a) \/ AA!ActOnRow(a) \/ AA!SetFlyout(a)
    BY <1>1, AlertsLooked, AlertsActed
<1>2. CASE \/ AA!ActOnSelection \/ AA!OnFlyoutClose \/ AA!ActInFlyout \/ AA!PressRefresh
           \/ AA!Leave \/ AA!Return
    BY <1>2, AlertsActed, AlertsLooked, AlertsGone
<1>3. CASE \E c \in changing : AA!Serve(c) \/ AA!Acknowledged(c) \/ AA!Refused(c) \/ AA!Lost(c)
    BY <1>3, AlertsServed, AlertsAnswered
<1>4. CASE \E l \in loads : AA!Read(l) \/ AA!Listed(l) \/ AA!LoadFails(l)
    BY <1>4, AlertsLoaded
<1> QED
    BY <1>1, <1>2, <1>3, <1>4 DEF AA!Next

LEMMA AlertsStutter ==
    ASSUME AlertsInv, UNCHANGED <<ofAlerts, cluster, changes>> PROVE AlertsInv'
<1>1. AlertsTyped'
    BY DEF ofAlerts, AlertsInv, AlertsTyped
<1>2. ListComes' /\ CallsTrue'
    BY DEF ofAlerts, AlertsInv, ListComes, CallsTrue, Reloads, Fresh, OfThreats
<1>3. FlyoutFits'
    BY DEF ofAlerts, AlertsInv, FlyoutFits, OpenFlyout, CallOfFlyout, OfThreats
<1> QED
    BY <1>1, <1>2, <1>3 DEF AlertsInv

LEMMA AlertsAreTyped == AlertsTyped => AA!TypeOK
BY DEF AlertsTyped, AA!TypeOK, LoadsOfAlerts

LEMMA AlertsInvHolds == AlertsInv => AA!AlertsHandled
<1> SUFFICES ASSUME AlertsInv PROVE AA!AlertsHandled
    OBVIOUS
<1>1. AA!RowsTrue
    BY DEF AlertsInv, ListComes, AA!RowsTrue
<1>2. AA!FlyoutTrue
    BY DEF AlertsInv, FlyoutFits, OpenFlyout, OfThreats, AA!FlyoutTrue
<1>3. AA!ToldTrue
    BY DEF AlertsInv, CallsTrue, AA!ToldTrue
<1> QED
    BY <1>1, <1>2, <1>3 DEF AA!AlertsHandled

-----------------------------------------------------------------------------
(* The flyout of a finding *)

FlyoutNames == {"p", "q"}
FieldsOf == ("p" :> {"t", "u"}) @@ ("q" :> {"u"})
PatternForms ==
    [name : FlyoutNames \cup {FF!Unset}, timeField : FF!Fields \cup {FF!Unset},
     timeFields : SUBSET FF!Fields, created : FlyoutNames \cup {FF!Unset},
     of : FF!Fields \cup {FF!Unset}, submitting : FlyoutNames \cup {FF!Unset}]
Asks == [n : Nat, name : FlyoutNames, resets : BOOLEAN]

FlyoutTyped ==
    /\ alertFlyout \in {FF!Unset, "findings", "rules", "shown"}
    /\ waiting \subseteq {"patterns", "rules", "findings", "correlationRules", "correlations"}
    /\ opened \in BOOLEAN /\ allRules \in BOOLEAN /\ loadingIndexPatternId \in BOOLEAN
    /\ correlatedFindings \in BOOLEAN /\ areCorrelationsLoading \in BOOLEAN
    /\ expanded \in BOOLEAN /\ modal \in BOOLEAN /\ behind \in BOOLEAN /\ settledName \in BOOLEAN
    /\ indexPatternId \in FlyoutNames \cup {FF!Unset, "given"}
    /\ selectedTab \in FF!Contents
    /\ form \in PatternForms /\ asks \subseteq Asks /\ clicks \in Nat

\* A flyout that is closed shows and awaits nothing, and so does a form that is.
ClosedIsEmpty ==
    /\ ~opened => waiting = {} /\ ~modal /\ ~allRules /\ selectedTab = FF!Skeleton
    /\ ~modal => form = FF!NoForm /\ asks = {}

\* The last request for date fields is about the name that is typed; the first, which alone leaves
\* the chosen field, comes before any field can be chosen.  When none is under way the fields
\* offered and chosen are those of the name; and so is the field that was submitted.
LastAsk(a) == a.name = form.name /\ \A b \in asks : b.n <= a.n
FormInOrder ==
    (modal /\ settledName) =>
        /\ form.name \in FlyoutNames
        /\ \A a \in asks : a.n < clicks
        /\ \A a, b \in asks : a.n = b.n => a = b
        /\ asks # {} => \E a \in asks : LastAsk(a)
        /\ \A a \in asks : ~a.resets =>
              form.timeFields = {} /\ form.timeField = FF!Unset /\ \A b \in asks : a.n <= b.n
        /\ asks = {} => /\ form.timeFields \subseteq FieldsOf[form.name]
                        /\ form.timeField \in FieldsOf[form.name] \cup {FF!Unset}
        /\ form.submitting # FF!Unset => form.of \in FieldsOf[form.submitting]
        /\ form.created # FF!Unset => form.of \in FieldsOf[form.created]

FlyoutShows == FF!ContentCurrent /\ FF!RulesShown
FlyoutInv == FlyoutTyped /\ ClosedIsEmpty /\ FlyoutShows /\ FormInOrder

LEMMA FieldsAreFields == \A n \in FlyoutNames : FieldsOf[n] \subseteq FF!Fields
BY DEF FlyoutNames, FieldsOf, FF!Fields

LEMMA FlyoutContents ==
    FF!Contents = [id : {"Details", "Correlations"}, skeleton : BOOLEAN, rules : BOOLEAN,
                   pattern : FlyoutNames \cup {FF!Unset, "given"}, loading : BOOLEAN,
                   correlated : BOOLEAN, expanded : BOOLEAN]
BY DEF FF!Contents, FF!FlyoutTabs, FlyoutNames

LEMMA SkeletonIs ==
    /\ FF!Skeleton \in FF!Contents /\ FF!Skeleton.skeleton
    /\ FF!Skeleton.id = "Details" /\ ~FF!Skeleton.correlated
BY FlyoutContents DEF FF!Skeleton

LEMMA NoFormIs ==
    /\ FF!NoForm \in PatternForms /\ FF!NoForm.created = FF!Unset
    /\ FF!NoForm.submitting = FF!Unset /\ FF!NoForm.timeFields = {}
    /\ FF!NoForm.timeField = FF!Unset
BY DEF FF!NoForm, PatternForms

\* What the content of a tab shows when it has just been made.
LEMMA ContentMade ==
    ASSUME NEW id \in {"Details", "Correlations"}, NEW b \in BOOLEAN,
           selectedTab' = FF!TabContent(id, b), FlyoutTyped,
           allRules' \in BOOLEAN, expanded' \in BOOLEAN, correlatedFindings' \in BOOLEAN,
           areCorrelationsLoading' \in BOOLEAN,
           indexPatternId' \in FlyoutNames \cup {FF!Unset, "given"}
    PROVE  /\ selectedTab' \in FF!Contents /\ FlyoutShows'
<1>1. CASE id = "Details"
  <2>1. selectedTab' = [id |-> "Details", skeleton |-> FALSE, rules |-> allRules',
                        pattern |-> indexPatternId', loading |-> b, correlated |-> FALSE,
                        expanded |-> expanded']
    BY <1>1 DEF FF!TabContent, FF!Skeleton
  <2> QED
    BY <2>1, FlyoutContents DEF FlyoutShows, FF!ContentCurrent, FF!RulesShown
<1>2. CASE id = "Correlations"
  <2>1. selectedTab' = [id |-> "Correlations", skeleton |-> FALSE, rules |-> allRules',
                        pattern |-> FF!Unset, loading |-> areCorrelationsLoading',
                        correlated |-> correlatedFindings', expanded |-> FALSE]
    BY <1>2 DEF FF!TabContent, FF!Skeleton
  <2> QED
    BY <2>1, FlyoutContents DEF FlyoutShows, FF!ContentCurrent, FF!RulesShown
<1> QED
    BY <1>1, <1>2

LEMMA FlyoutInit == FF!Init => FlyoutInv
<1> SUFFICES ASSUME FF!Init PROVE FlyoutInv
    OBVIOUS
<1>1. FlyoutTyped
    BY SkeletonIs, NoFormIs DEF FF!Init, FlyoutTyped
<1>2. ClosedIsEmpty
    BY DEF FF!Init, ClosedIsEmpty
<1>3. FlyoutShows
    BY DEF FF!Init, FlyoutShows, FF!ContentCurrent, FF!RulesShown
<1>4. FormInOrder
    BY DEF FF!Init, FormInOrder
<1> QED
    BY <1>1, <1>2, <1>3, <1>4 DEF FlyoutInv

\* Nothing but the form itself changes what is in it; time passes.
LEMMA FormAside ==
    ASSUME FlyoutInv, UNCHANGED <<form, asks, settledName, modal>>,
           clicks' \in {clicks, clicks + 1}
    PROVE  FormInOrder'
<1>1. clicks \in Nat /\ \A a \in asks : a.n \in Nat
    BY DEF FlyoutInv, FlyoutTyped, Asks
<1>2. FormInOrder /\ \A a \in asks : a.n < clicks => a.n < clicks'
    BY <1>1 DEF FlyoutInv
<1> QED
    BY <1>2 DEF FormInOrder, LastAsk

LEMMA FlyoutUnmounts ==
    ASSUME FlyoutInv, FF!Unmount, UNCHANGED clicks, alertFlyout' \in {alertFlyout, FF!Unset}
    PROVE  FlyoutInv'
<1>1. /\ opened' = FALSE /\ waiting' = {}
      /\ allRules' = FALSE /\ indexPatternId' = FF!Unset /\ loadingIndexPatternId' = TRUE
      /\ correlatedFindings' = FALSE /\ areCorrelationsLoading' = TRUE
      /\ expanded' = FALSE /\ modal' = FALSE /\ selectedTab' = FF!Skeleton /\ form' = FF!NoForm
      /\ asks' = {} /\ behind' = FALSE /\ settledName' = TRUE
    BY DEF FF!Unmount
<1>2. FlyoutTyped'
    BY <1>1, SkeletonIs, NoFormIs DEF FlyoutInv, FlyoutTyped
<1>3. ClosedIsEmpty' /\ FormInOrder'
    BY <1>1 DEF ClosedIsEmpty, FormInOrder
<1>4. FlyoutShows'
    BY <1>1 DEF FlyoutShows, FF!ContentCurrent, FF!RulesShown
<1> QED
    BY <1>2, <1>3, <1>4 DEF FlyoutInv

LEMMA FlyoutOpens ==
    ASSUME FlyoutInv, FF!AlertLoaded \/ FF!OpenFlyout \/ FF!CloseFlyout \/ FF!GoToCorrelationsPage
    PROVE  FlyoutInv'
<1> USE DEF FlyoutInv
<1>1. CASE FF!AlertLoaded
  <2>1. /\ alertFlyout' \in {"rules", "shown"}
        /\ UNCHANGED <<opened, waiting, allRules, indexPatternId, loadingIndexPatternId,
                       correlatedFindings, areCorrelationsLoading, expanded, modal, selectedTab,
                       form, asks, settledName, clicks, behind>>
    BY <1>1 DEF FF!AlertLoaded, FF!loaded, FF!inForm
  <2>2. FlyoutTyped'
    BY <2>1 DEF FlyoutTyped
  <2>3. ClosedIsEmpty' /\ FlyoutShows'
    BY <2>1 DEF ClosedIsEmpty, FlyoutShows, FF!ContentCurrent, FF!RulesShown
  <2>4. FormInOrder'
    BY <2>1, FormAside
  <2> QED
    BY <2>2, <2>3, <2>4
<1>2. CASE FF!OpenFlyout
  <2>1. /\ ~opened /\ opened' = TRUE /\ clicks' = clicks + 1
        /\ waiting' \subseteq {"patterns", "rules", "correlationRules", "findings"}
        /\ UNCHANGED <<alertFlyout, allRules, indexPatternId, loadingIndexPatternId,
                       correlatedFindings, areCorrelationsLoading, expanded, modal, selectedTab,
                       form, asks, settledName, behind>>
    BY <1>2 DEF FF!OpenFlyout, FF!Click, FF!loaded, FF!inForm
  <2>2. FlyoutTyped'
    BY <2>1 DEF FlyoutTyped
  <2>3. selectedTab'.skeleton /\ ~allRules' /\ ~modal
    BY <2>1, SkeletonIs DEF ClosedIsEmpty
  <2>4. ClosedIsEmpty' /\ FlyoutShows'
    BY <2>1, <2>3 DEF ClosedIsEmpty, FlyoutShows, FF!ContentCurrent, FF!RulesShown
  <2>5. FormInOrder'
    BY <2>1, FormAside
  <2> QED
    BY <2>2, <2>4, <2>5
<1>3. CASE FF!CloseFlyout \/ FF!GoToCorrelationsPage
    BY <1>3, FlyoutUnmounts DEF FF!CloseFlyout, FF!GoToCorrelationsPage
<1> QED
    BY <1>1, <1>2, <1>3

\* What comes for the flyout, without the content being made anew.
LEMMA FlyoutGets ==
    ASSUME FlyoutInv,
           \/ FF!GotIndexPattern \/ FF!GotCorrelatedFindings
           \/ \E what \in waiting : FF!GotForCorrelations(what) \/ FF!Lost(what)
    PROVE  FlyoutInv'
<1> USE DEF FlyoutInv
<1>1. /\ waiting # {}
      /\ UNCHANGED <<alertFlyout, opened, allRules, expanded, modal, selectedTab, form, asks,
                     settledName, clicks>>
    BY DEF FF!GotIndexPattern, FF!GotCorrelatedFindings, FF!GotForCorrelations, FF!Lost,
           FF!loaded, FF!inForm
<1>2. waiting' \subseteq {"patterns", "rules", "findings", "correlationRules", "correlations"}
  <2>1. waiting \subseteq {"patterns", "rules", "findings", "correlationRules", "correlations"}
    BY DEF FlyoutTyped
  <2>2. waiting' \subseteq waiting \cup {"correlationRules", "correlations"}
    BY DEF FF!GotIndexPattern, FF!GotCorrelatedFindings, FF!GotForCorrelations, FF!Lost
  <2> QED
    BY <2>1, <2>2
<1>3. opened
    BY <1>1 DEF ClosedIsEmpty
<1>4. \/ /\ UNCHANGED <<correlatedFindings, areCorrelationsLoading>>
         /\ indexPatternId' \in {indexPatternId, "given"} /\ loadingIndexPatternId' = FALSE
         /\ FF!Overtaken("Details")
      \/ /\ UNCHANGED <<indexPatternId, loadingIndexPatternId>>
         /\ correlatedFindings' \in BOOLEAN /\ areCorrelationsLoading' \in BOOLEAN
         /\ FF!Overtaken("Correlations")
      \/ UNCHANGED <<indexPatternId, loadingIndexPatternId, correlatedFindings,
                     areCorrelationsLoading, behind>>
  <2>1. CASE FF!GotIndexPattern
    BY <2>1 DEF FF!GotIndexPattern
  <2>2. CASE FF!GotCorrelatedFindings
    BY <2>2 DEF FF!GotCorrelatedFindings
  <2>3. CASE \E what \in waiting : FF!GotForCorrelations(what)
    BY <2>3 DEF FF!GotForCorrelations, FF!loaded
  <2>4. CASE \E what \in waiting : FF!Lost(what)
    <3>1. PICK what \in waiting : FF!Lost(what)
      BY <2>4
    <3>2. correlatedFindings \in BOOLEAN /\ areCorrelationsLoading \in BOOLEAN
      BY DEF FlyoutTyped
    <3>3. /\ UNCHANGED <<indexPatternId, loadingIndexPatternId, correlatedFindings>>
          /\ areCorrelationsLoading' = (areCorrelationsLoading /\ what # "correlations")
      BY <3>1 DEF FF!Lost
    <3>4. areCorrelationsLoading' \in BOOLEAN
      BY <3>3
    <3>5. CASE what = "correlations"
      <4>1. FF!Overtaken("Correlations")
        BY <3>1, <3>5 DEF FF!Lost
      <4> QED
        BY <3>2, <3>3, <3>4, <4>1
    <3>6. CASE what # "correlations"
      <4>1. UNCHANGED behind /\ areCorrelationsLoading' = areCorrelationsLoading
        BY <3>1, <3>2, <3>3, <3>6 DEF FF!Lost
      <4> QED
        BY <3>3, <4>1
    <3> QED
      BY <3>5, <3>6
  <2> QED
    BY <2>1, <2>2, <2>3, <2>4
<1>5. behind' \in BOOLEAN
  <2>1. behind \in BOOLEAN
    BY DEF FlyoutTyped
  <2> QED
    BY <1>4, <2>1 DEF FF!Overtaken
<1>6. FlyoutTyped'
  <2>1. /\ indexPatternId' \in FlyoutNames \cup {FF!Unset, "given"}
        /\ loadingIndexPatternId' \in BOOLEAN /\ correlatedFindings' \in BOOLEAN
        /\ areCorrelationsLoading' \in BOOLEAN
    BY <1>4 DEF FlyoutTyped
  <2> QED
    BY <1>1, <1>2, <1>5, <2>1 DEF FlyoutTyped
<1>7. ClosedIsEmpty'
    BY <1>1, <1>3 DEF ClosedIsEmpty
<1>8. FlyoutShows'
  <2>1. FF!RulesShown'
    BY <1>1 DEF FlyoutShows, FF!RulesShown
  <2>2. FF!ContentCurrent'
    BY <1>1, <1>4 DEF FlyoutShows, FF!ContentCurrent, FF!Overtaken
  <2> QED
    BY <2>1, <2>2 DEF FlyoutShows
<1>9. FormInOrder'
    BY <1>1, FormAside
<1> QED
    BY <1>6, <1>7, <1>8, <1>9

\* What makes the content anew.
LEMMA FlyoutMakes ==
    ASSUME FlyoutInv,
           \/ FF!GotAllRules \/ FF!ToggleDocumentDetails
           \/ \E id \in FF!FlyoutTabs : FF!SelectTab(id)
    PROVE  FlyoutInv'
<1> USE DEF FlyoutInv
<1>1. /\ UNCHANGED <<alertFlyout, opened, indexPatternId, loadingIndexPatternId,
                     correlatedFindings, areCorrelationsLoading, modal, form, asks, settledName>>
      /\ clicks' \in {clicks, clicks + 1} /\ behind' = FALSE
      /\ waiting' \subseteq waiting /\ (opened \/ waiting # {})
    BY DEF FF!GotAllRules, FF!SelectTab, FF!ToggleDocumentDetails, FF!loaded, FF!inForm, FF!Click
<1>2. opened
    BY <1>1 DEF ClosedIsEmpty
<1>3. allRules' \in BOOLEAN /\ expanded' \in BOOLEAN
  <2>1. allRules \in BOOLEAN /\ expanded \in BOOLEAN
    BY DEF FlyoutTyped
  <2> QED
    BY <2>1 DEF FF!GotAllRules, FF!SelectTab, FF!ToggleDocumentDetails, FF!loaded
<1>4. \E id \in {"Details", "Correlations"}, b \in BOOLEAN : selectedTab' = FF!TabContent(id, b)
  <2>1. loadingIndexPatternId \in BOOLEAN /\ FALSE \in BOOLEAN
    BY DEF FlyoutTyped
  <2>2. CASE FF!GotAllRules
    BY <2>1, <2>2 DEF FF!GotAllRules
  <2>3. CASE \E id \in FF!FlyoutTabs : FF!SelectTab(id)
    BY <2>1, <2>3 DEF FF!SelectTab, FF!FlyoutTabs
  <2>4. CASE FF!ToggleDocumentDetails
    BY <2>1, <2>4 DEF FF!ToggleDocumentDetails
  <2> QED
    BY <2>2, <2>3, <2>4
<1>5. selectedTab' \in FF!Contents /\ FlyoutShows'
  <2>1. PICK id \in {"Details", "Correlations"}, b \in BOOLEAN :
           selectedTab' = FF!TabContent(id, b)
    BY <1>4
  <2>2. /\ correlatedFindings' \in BOOLEAN /\ areCorrelationsLoading' \in BOOLEAN
        /\ indexPatternId' \in FlyoutNames \cup {FF!Unset, "given"}
    BY <1>1 DEF FlyoutTyped
  <2> QED
    BY <1>3, <2>1, <2>2, ContentMade
<1>6. FlyoutTyped'
  <2>1. waiting' \subseteq {"patterns", "rules", "findings", "correlationRules", "correlations"}
    BY <1>1 DEF FlyoutTyped
  <2>2. clicks' \in Nat
    BY <1>1 DEF FlyoutTyped
  <2> QED
    BY <1>1, <1>3, <1>5, <2>1, <2>2 DEF FlyoutTyped
<1>7. ClosedIsEmpty'
    BY <1>1, <1>2 DEF ClosedIsEmpty
<1>8. FormInOrder'
    BY <1>1, FormAside
<1> QED
    BY <1>5, <1>6, <1>7, <1>8

LEMMA FlyoutFormOpens == ASSUME FlyoutInv, FF!ViewSurroundingDocuments PROVE FlyoutInv'
<1> USE DEF FlyoutInv
<1>1. /\ opened /\ modal' = TRUE /\ clicks' = clicks + 1 /\ settledName' = TRUE
      /\ UNCHANGED <<alertFlyout, opened, waiting, allRules, indexPatternId,
                     loadingIndexPatternId, correlatedFindings, areCorrelationsLoading, expanded,
                     selectedTab, behind>>
    BY DEF FF!ViewSurroundingDocuments, FF!loaded, FF!Click
<1>2. PICK name \in FlyoutNames :
         /\ form' = [FF!NoForm EXCEPT !.name = name]
         /\ asks' = {[n |-> clicks, name |-> name, resets |-> FALSE]}
    BY DEF FF!ViewSurroundingDocuments, FlyoutNames
<1>3. /\ form' \in PatternForms /\ form'.name = name /\ form'.created = FF!Unset
      /\ form'.submitting = FF!Unset /\ form'.timeFields = {} /\ form'.timeField = FF!Unset
  <2>1. form' = [name |-> name, timeField |-> FF!Unset, timeFields |-> {},
                 created |-> FF!Unset, of |-> FF!Unset, submitting |-> FF!Unset]
    BY <1>2 DEF FF!NoForm
  <2> QED
    BY <2>1 DEF PatternForms
<1>4. clicks \in Nat
    BY DEF FlyoutTyped
<1>5. PICK a \in Asks : asks' = {a} /\ a.n = clicks /\ a.name = name
  <2> DEFINE u == [n |-> clicks, name |-> name, resets |-> FALSE]
  <2>1. u \in Asks /\ u.n = clicks /\ u.name = name /\ asks' = {u}
    BY <1>2, <1>4 DEF Asks
  <2> HIDE DEF u
  <2> QED
    BY <2>1
<1>6. FlyoutTyped'
    BY <1>1, <1>3, <1>4, <1>5 DEF FlyoutTyped
<1>7. ClosedIsEmpty' /\ FlyoutShows'
    BY <1>1 DEF ClosedIsEmpty, FlyoutShows, FF!ContentCurrent, FF!RulesShown
<1>8. FormInOrder'
  <2>1. LastAsk(a)' /\ a.n < clicks'
    BY <1>1, <1>3, <1>4, <1>5 DEF LastAsk
  <2> QED
    BY <1>3, <1>4, <1>5, <2>1 DEF FormInOrder
<1> QED
    BY <1>6, <1>7, <1>8

LEMMA FlyoutFormCloses == ASSUME FlyoutInv, FF!Created \/ FF!CloseModal PROVE FlyoutInv'
<1> USE DEF FlyoutInv
<1>1. /\ modal /\ modal' = FALSE /\ form' = FF!NoForm /\ asks' = {}
      /\ UNCHANGED <<alertFlyout, opened, waiting, allRules, loadingIndexPatternId,
                     correlatedFindings, areCorrelationsLoading, expanded, clicks, settledName>>
    BY DEF FF!Created, FF!CloseModal, FF!loaded
<1>2. opened
    BY <1>1 DEF ClosedIsEmpty
<1>3. ClosedIsEmpty' /\ FormInOrder'
    BY <1>1, <1>2 DEF ClosedIsEmpty, FormInOrder
<1>4. CASE FF!Created
  <2>1. indexPatternId' \in FlyoutNames \cup {FF!Unset, "given"} /\ behind' = FALSE
    BY <1>4 DEF FF!Created, FlyoutTyped, PatternForms
  <2>2. /\ allRules' \in BOOLEAN /\ expanded' \in BOOLEAN /\ correlatedFindings' \in BOOLEAN
        /\ areCorrelationsLoading' \in BOOLEAN
    BY <1>1 DEF FlyoutTyped
  <2>3. selectedTab' = FF!TabContent("Details", FALSE)
    BY <1>4 DEF FF!Created
  <2>4. selectedTab' \in FF!Contents /\ FlyoutShows'
    BY <2>1, <2>2, <2>3, ContentMade
  <2>5. FlyoutTyped'
    BY <1>1, <2>1, <2>4, NoFormIs DEF FlyoutTyped
  <2> QED
    BY <1>3, <2>4, <2>5
<1>5. CASE FF!CloseModal
  <2>1. UNCHANGED <<indexPatternId, selectedTab, behind>>
    BY <1>5 DEF FF!CloseModal, FF!loaded
  <2>2. FlyoutTyped'
    BY <1>1, <2>1, NoFormIs, ZenonT(60) DEF FlyoutTyped
  <2>3. FlyoutShows'
    BY <1>1, <2>1 DEF FlyoutShows, FF!ContentCurrent, FF!RulesShown
  <2> QED
    BY <1>3, <2>2, <2>3
<1> QED
    BY <1>4, <1>5

\* What only concerns the form leaves the flyout as it is.
LEMMA OutsideForm ==
    ASSUME FlyoutInv, UNCHANGED FF!outsideForm, modal, form' \in PatternForms,
           asks' \subseteq Asks, clicks' \in {clicks, clicks + 1}, settledName' \in BOOLEAN
    PROVE  FlyoutTyped' /\ ClosedIsEmpty' /\ FlyoutShows'
<1>1. UNCHANGED <<alertFlyout, opened, waiting, allRules, indexPatternId, loadingIndexPatternId,
                  correlatedFindings, areCorrelationsLoading, expanded, modal, selectedTab,
                  behind>>
    BY DEF FF!outsideForm, FF!loaded
<1>2. FlyoutTyped'
    BY <1>1 DEF FlyoutInv, FlyoutTyped
<1>3. ClosedIsEmpty' /\ FlyoutShows'
    BY <1>1 DEF FlyoutInv, ClosedIsEmpty, FlyoutShows, FF!ContentCurrent, FF!RulesShown
<1> QED
    BY <1>2, <1>3

LEMMA FlyoutNamed ==
    ASSUME FlyoutInv, NEW name \in FlyoutNames, FF!ChangeName(name) PROVE FlyoutInv'
<1> USE DEF FlyoutInv
<1>1. /\ modal /\ form' = [form EXCEPT !.name = name] /\ clicks' = clicks + 1
      /\ UNCHANGED settledName /\ UNCHANGED FF!outsideForm /\ modal' = modal
      /\ asks' = asks \cup {[n |-> clicks, name |-> name, resets |-> TRUE]}
    BY DEF FF!ChangeName, FF!InForm, FF!Click, FF!outsideForm
<1>2. form \in PatternForms /\ asks \subseteq Asks /\ clicks \in Nat /\ settledName \in BOOLEAN
    BY DEF FlyoutTyped
<1>3. /\ form' \in PatternForms /\ form'.name = name
      /\ form'.timeFields = form.timeFields /\ form'.timeField = form.timeField
      /\ form'.created = form.created /\ form'.of = form.of
      /\ form'.submitting = form.submitting
    BY <1>1, <1>2 DEF PatternForms
<1>4. PICK a \in Asks : asks' = asks \cup {a} /\ a.n = clicks /\ a.name = name /\ a.resets
  <2> DEFINE u == [n |-> clicks, name |-> name, resets |-> TRUE]
  <2>1. u \in Asks /\ u.n = clicks /\ u.name = name /\ u.resets
    BY <1>2 DEF Asks
  <2>2. asks' = asks \cup {u}
    BY <1>1
  <2> HIDE DEF u
  <2> QED
    BY <2>1, <2>2
<1>5. \A b \in asks : b.n \in Nat
    BY <1>2 DEF Asks
<1>6. FlyoutTyped' /\ ClosedIsEmpty' /\ FlyoutShows'
    BY <1>1, <1>2, <1>3, <1>4, OutsideForm
<1>7. FormInOrder'
  <2> SUFFICES ASSUME settledName PROVE FormInOrder'
    BY <1>1 DEF FormInOrder
  <2>1. FormInOrder /\ \A b \in asks : b.n < clicks
    BY <1>1 DEF FormInOrder
  <2>2. \A b \in asks' : b.n < clicks' /\ b.n <= a.n
    BY <1>1, <1>2, <1>4, <1>5, <2>1
  <2>3. \A b, d \in asks' : b.n = d.n => b = d
    BY <1>1, <1>4, <1>5, <2>1 DEF FormInOrder
  <2>4. LastAsk(a)' /\ a \in asks'
    BY <1>3, <1>4, <2>2 DEF LastAsk
  <2>5. \A b \in asks' : ~b.resets =>
           form'.timeFields = {} /\ form'.timeField = FF!Unset /\ \A d \in asks' : b.n <= d.n
    BY <1>1, <1>3, <1>4, <1>5, <2>1, <2>2 DEF FormInOrder
  <2> QED
    BY <1>1, <1>3, <2>1, <2>2, <2>3, <2>4, <2>5 DEF FormInOrder
<1> QED
    BY <1>6, <1>7

LEMMA FlyoutPicked ==
    ASSUME FlyoutInv, NEW field \in FF!Fields, FF!PickTimeField(field) PROVE FlyoutInv'
<1> USE DEF FlyoutInv
<1>1. /\ modal /\ form' = [form EXCEPT !.timeField = field] /\ clicks' = clicks + 1
      /\ UNCHANGED <<asks, settledName>> /\ UNCHANGED FF!outsideForm /\ modal' = modal
      /\ field \in form.timeFields
    BY DEF FF!PickTimeField, FF!InForm, FF!Click, FF!outsideForm
<1>2. form \in PatternForms /\ asks \subseteq Asks /\ clicks \in Nat /\ settledName \in BOOLEAN
    BY DEF FlyoutTyped
<1>3. /\ form' \in PatternForms /\ form'.timeField = field
      /\ form'.timeFields = form.timeFields /\ form'.name = form.name
      /\ form'.created = form.created /\ form'.of = form.of
      /\ form'.submitting = form.submitting
    BY <1>1, <1>2 DEF PatternForms
<1>4. FlyoutTyped' /\ ClosedIsEmpty' /\ FlyoutShows'
    BY <1>1, <1>2, <1>3, OutsideForm
<1>5. FormInOrder'
  <2> SUFFICES ASSUME settledName PROVE FormInOrder'
    BY <1>1 DEF FormInOrder
  <2>1. \A a \in asks : a.n < clicks'
    BY <1>1, <1>2 DEF FormInOrder, Asks
  <2>2. \A a \in asks : a.resets
    BY <1>1 DEF FormInOrder
  <2>3. \A a \in asks : LastAsk(a) => LastAsk(a)'
    BY <1>1, <1>3 DEF LastAsk
  <2> QED
    BY <1>1, <1>3, <2>1, <2>2, <2>3 DEF FormInOrder
<1> QED
    BY <1>4, <1>5

LEMMA FlyoutFieldsCome ==
    ASSUME FlyoutInv, NEW a \in asks, FF!TimeFieldsAnswered(a) PROVE FlyoutInv'
<1> USE DEF FlyoutInv
<1>1. /\ modal /\ asks' = asks \ {a} /\ UNCHANGED clicks
      /\ settledName' = (settledName /\ \A b \in asks : b.n >= a.n)
      /\ UNCHANGED FF!outsideForm /\ modal' = modal
    BY DEF FF!TimeFieldsAnswered, FF!outsideForm
<1>2. PICK fields \in {FieldsOf[a.name], {}} :
         form' = [form EXCEPT !.timeFields = fields,
                              !.timeField = IF a.resets THEN FF!Unset ELSE @]
    BY DEF FF!TimeFieldsAnswered, FF!GotTimeFields, FieldsOf
<1>3. form \in PatternForms /\ asks \subseteq Asks /\ a \in Asks /\ a.name \in FlyoutNames
    BY DEF FlyoutTyped, Asks
<1>4. fields \in SUBSET FF!Fields
    BY <1>2, <1>3, FieldsAreFields
<1>5. /\ form' \in PatternForms /\ form'.timeFields = fields /\ form'.name = form.name
      /\ form'.timeField = (IF a.resets THEN FF!Unset ELSE form.timeField)
      /\ form'.created = form.created /\ form'.of = form.of
      /\ form'.submitting = form.submitting
    BY <1>2, <1>3, <1>4 DEF PatternForms
<1>6. FlyoutTyped' /\ ClosedIsEmpty' /\ FlyoutShows'
  <2>1. settledName' \in BOOLEAN /\ asks' \subseteq Asks
    BY <1>1, <1>3
  <2> QED
    BY <1>1, <1>5, <2>1, OutsideForm
<1>7. FormInOrder'
  <2> SUFFICES ASSUME settledName' PROVE FormInOrder'
    BY DEF FormInOrder
  <2>1. FormInOrder /\ settledName /\ \A b \in asks : b.n >= a.n
    BY <1>1
  <2>2. \A b \in asks : b.n \in Nat
    BY <1>3 DEF Asks
  <2>3. PICK z \in asks : LastAsk(z)
    BY <1>1, <2>1 DEF FormInOrder
  <2>4. asks' # {} => z \in asks' /\ LastAsk(z)'
    <3>1. z = a => asks' = {}
      BY <1>1, <2>1, <2>2, <2>3 DEF LastAsk, FormInOrder
    <3> QED
      BY <1>1, <1>5, <2>3, <3>1 DEF LastAsk
  <2>5. \A b \in asks' : b.resets
    <3> SUFFICES ASSUME NEW b \in asks', ~b.resets PROVE FALSE
      OBVIOUS
    <3>1. b \in asks /\ b # a /\ b.n <= a.n
      BY <1>1, <2>1 DEF FormInOrder
    <3>2. b.n = a.n
      BY <2>1, <2>2, <3>1
    <3> QED
      BY <1>1, <2>1, <3>1, <3>2 DEF FormInOrder
  <2>6. asks' = {} => /\ form'.timeFields \subseteq FieldsOf[form'.name]
                      /\ form'.timeField \in FieldsOf[form'.name] \cup {FF!Unset}
    <3> SUFFICES ASSUME asks' = {}
                 PROVE  /\ form'.timeFields \subseteq FieldsOf[form'.name]
                        /\ form'.timeField \in FieldsOf[form'.name] \cup {FF!Unset}
      OBVIOUS
    <3>1. z = a /\ a.name = form.name
      BY <1>1, <2>3 DEF LastAsk
    <3>2. ~a.resets => form.timeField = FF!Unset
      BY <1>1, <2>1 DEF FormInOrder
    <3> QED
      BY <1>2, <1>5, <3>1, <3>2
  <2> QED
    BY <1>1, <1>5, <2>1, <2>4, <2>5, <2>6 DEF FormInOrder
<1> QED
    BY <1>6, <1>7

LEMMA FlyoutSubmits ==
    ASSUME FlyoutInv, FF!SubmitPattern \/ \E ok \in BOOLEAN : FF!PatternSaved(ok)
    PROVE  FlyoutInv'
<1> USE DEF FlyoutInv
<1>1. form \in PatternForms /\ asks \subseteq Asks /\ clicks \in Nat /\ settledName \in BOOLEAN
    BY DEF FlyoutTyped
<1>2. CASE FF!SubmitPattern
  <2>1. /\ modal /\ form.created = FF!Unset
        /\ form' = [form EXCEPT !.submitting = form.name, !.of = form.timeField]
        /\ form.timeField # FF!Unset /\ settledName' = (settledName /\ asks = {})
        /\ UNCHANGED <<asks, clicks>> /\ UNCHANGED FF!outsideForm /\ modal' = modal
    BY <1>2 DEF FF!SubmitPattern, FF!InForm, FF!outsideForm
  <2>2. /\ form' \in PatternForms /\ form'.timeField = form.timeField
        /\ form'.timeFields = form.timeFields /\ form'.name = form.name
        /\ form'.created = form.created /\ form'.of = form.timeField
        /\ form'.submitting = form.name
    BY <1>1, <2>1 DEF PatternForms
  <2>3. FlyoutTyped' /\ ClosedIsEmpty' /\ FlyoutShows'
    <3>1. settledName' \in BOOLEAN
      BY <2>1
    <3> QED
      BY <1>1, <2>1, <2>2, <3>1, OutsideForm
  <2>4. FormInOrder'
    <3> SUFFICES ASSUME settledName, asks = {} PROVE FormInOrder'
      BY <2>1 DEF FormInOrder
    <3>1. form.name \in FlyoutNames /\ form.timeFields \subseteq FieldsOf[form.name]
          /\ form.timeField \in FieldsOf[form.name]
      BY <2>1 DEF FormInOrder
    <3> QED
      BY <2>1, <2>2, <3>1 DEF FormInOrder
  <2> QED
    BY <2>3, <2>4
<1>3. CASE \E ok \in BOOLEAN : FF!PatternSaved(ok)
  <2>1. PICK ok \in BOOLEAN : FF!PatternSaved(ok)
    BY <1>3
  <2>2. /\ form.submitting # FF!Unset
        /\ form' = [form EXCEPT !.submitting = FF!Unset,
                                !.created = IF ok THEN form.submitting ELSE FF!Unset]
        /\ UNCHANGED <<asks, settledName, clicks>> /\ UNCHANGED FF!outsideForm /\ modal' = modal
    BY <2>1 DEF FF!PatternSaved, FF!outsideForm
  <2>3. modal
    BY <2>2, NoFormIs DEF ClosedIsEmpty
  <2>4. /\ form' \in PatternForms /\ form'.timeField = form.timeField
        /\ form'.timeFields = form.timeFields /\ form'.name = form.name
        /\ form'.created \in {form.submitting, FF!Unset} /\ form'.of = form.of
        /\ form'.submitting = FF!Unset
    BY <1>1, <2>2 DEF PatternForms
  <2>5. FlyoutTyped' /\ ClosedIsEmpty' /\ FlyoutShows'
    BY <1>1, <2>2, <2>3, <2>4, OutsideForm
  <2>6. FormInOrder'
    <3>1. \A a \in asks : LastAsk(a) => LastAsk(a)'
      BY <2>2, <2>4 DEF LastAsk
    <3> QED
      BY <2>2, <2>4, <3>1 DEF FormInOrder
  <2> QED
    BY <2>5, <2>6
<1> QED
    BY <1>2, <1>3

LEMMA FlyoutStep == ASSUME FlyoutInv, FF!Next PROVE FlyoutInv'
BY FlyoutOpens, FlyoutGets, FlyoutMakes, FlyoutFormOpens, FlyoutFormCloses, FlyoutNamed,
   FlyoutPicked, FlyoutFieldsCome, FlyoutSubmits DEF FF!Next, FlyoutNames

LEMMA FlyoutStutter == ASSUME FlyoutInv, UNCHANGED <<ofFlyout, form>> PROVE FlyoutInv'
<1>1. UNCHANGED <<alertFlyout, opened, waiting, allRules, indexPatternId, loadingIndexPatternId,
                  correlatedFindings, areCorrelationsLoading, expanded, modal, selectedTab, asks,
                  clicks, behind, settledName, form>>
    BY DEF ofFlyout
<1>2. FlyoutTyped' /\ ClosedIsEmpty'
    BY <1>1 DEF FlyoutInv, FlyoutTyped, ClosedIsEmpty
<1>3. FlyoutShows'
    BY <1>1 DEF FlyoutInv, FlyoutShows, FF!ContentCurrent, FF!RulesShown
<1>4. FormInOrder'
    BY <1>1, FormAside DEF FlyoutInv
<1> QED
    BY <1>2, <1>3, <1>4 DEF FlyoutInv

LEMMA FlyoutIsTyped == FlyoutTyped => FF!TypeOK
BY DEF FlyoutTyped, FF!TypeOK, PatternForms, Asks, FlyoutNames

LEMMA FlyoutInvIsCurrent == FlyoutInv => FF!FlyoutCurrent
<1> SUFFICES ASSUME FlyoutInv PROVE FF!FieldOfPattern
    BY DEF FlyoutInv, FlyoutShows, FF!FlyoutCurrent
<1>1. form.created # FF!Unset => modal
    BY NoFormIs DEF FlyoutInv, ClosedIsEmpty
<1> QED
    BY <1>1 DEF FlyoutInv, FormInOrder, FF!FieldOfPattern, FieldsOf

-----------------------------------------------------------------------------
(* The documents of a finding *)

DocumentsTyped ==
    /\ documentsByIndex \in [Documents -> DF!Texts \cup {DF!NotYet}]
    /\ stored \in [Documents -> DF!Texts]
    /\ docIdToDocument \in [Documents -> DF!Texts \cup {DF!NotYet}]
    /\ docIdToExpandedRowMap \in [Documents -> DF!Blocks]
    /\ \A f \in fetches : f.doc \in Documents /\ f.rows \in [Documents -> DF!Blocks]
    /\ wanted \subseteq Documents /\ calm \in BOOLEAN

\* At most one document is on its way, for the rows as they are.
OneIsFetched ==
    /\ \A f, g \in fetches : f = g
    /\ \A f \in fetches :
          /\ f.page = page /\ f.rows = docIdToExpandedRowMap
          /\ docIdToExpandedRowMap[f.doc] = "spinner"

\* What the flyout has formatted, and what its rows show, is what the store has.
TextsAreKept ==
    \A d \in Documents :
        /\ docIdToDocument[d] \in DF!Texts => docIdToDocument[d] = documentsByIndex[d]
        /\ docIdToExpandedRowMap[d] \in DF!Texts => docIdToExpandedRowMap[d] = documentsByIndex[d]

ExpandedAsWanted == wanted = {d \in Documents : docIdToExpandedRowMap[d] # "collapsed"}

DocumentsInv ==
    /\ DocumentsTyped
    /\ calm => OneIsFetched /\ TextsAreKept /\ ExpandedAsWanted

LEMMA DocumentsInit == DF!Init => DocumentsInv
BY DEF DF!Init, DocumentsInv, DocumentsTyped, OneIsFetched, TextsAreKept, ExpandedAsWanted,
       DF!Texts, DF!Blocks, DF!NotYet

LEMMA DocumentsToggle ==
    ASSUME DocumentsInv, NEW d \in Documents, DF!ToggleDocumentDetails(d) PROVE DocumentsInv'
<1> DEFINE opens == docIdToExpandedRowMap[d] = "collapsed"
           text == IF docIdToDocument[d] # DF!NotYet THEN docIdToDocument[d]
                   ELSE documentsByIndex[d]
           block == IF text = DF!NotYet THEN "spinner" ELSE text
           shows == [docIdToExpandedRowMap EXCEPT ![d] = IF opens THEN block ELSE "collapsed"]
           fetch == [n |-> toggles, page |-> page, doc |-> d, rows |-> shows]
<1>1. /\ docIdToExpandedRowMap' = shows
      /\ docIdToDocument' = IF opens THEN [docIdToDocument EXCEPT ![d] = text] ELSE docIdToDocument
      /\ wanted' = IF opens THEN wanted \cup {d} ELSE wanted \ {d}
      /\ fetches' = fetches \cup {f \in {fetch} : opens /\ text = DF!NotYet}
      /\ calm' = (calm /\ ~\E f \in fetches : f.page = page)
      /\ UNCHANGED <<documentsByIndex, stored, page>>
    BY DEF DF!ToggleDocumentDetails
<1>2. /\ text \in DF!Texts \cup {DF!NotYet} /\ block \in DF!Texts \cup {"spinner"}
      /\ shows \in [Documents -> DF!Blocks]
    BY DEF DocumentsInv, DocumentsTyped, DF!Blocks, DF!Texts, DF!NotYet
<1>3. DocumentsTyped'
    BY <1>1, <1>2 DEF DocumentsInv, DocumentsTyped
<1>4. ASSUME calm' PROVE OneIsFetched' /\ TextsAreKept' /\ ExpandedAsWanted'
  <2>1. /\ calm /\ OneIsFetched /\ TextsAreKept /\ ExpandedAsWanted /\ DocumentsTyped
        /\ fetches = {}
      BY <1>1, <1>4 DEF DocumentsInv, OneIsFetched
  <2>2. OneIsFetched'
    <3>1. CASE opens /\ text = DF!NotYet
      <4>1. fetches' = {fetch} /\ shows[d] = "spinner"
          BY <1>1, <2>1, <3>1 DEF DocumentsTyped
      <4>2. fetch.page = page' /\ fetch.rows = docIdToExpandedRowMap' /\ fetch.doc = d
          BY <1>1
      <4> HIDE DEF fetch, shows
      <4> QED
          BY <1>1, <4>1, <4>2 DEF OneIsFetched
    <3>2. CASE ~(opens /\ text = DF!NotYet)
      <4>1. fetches' = {}
          BY <1>1, <2>1, <3>2
      <4> QED
          BY <4>1 DEF OneIsFetched
    <3> QED
        BY <3>1, <3>2
  <2>3. ASSUME NEW e \in Documents
        PROVE  /\ docIdToDocument'[e] \in DF!Texts => docIdToDocument'[e] = documentsByIndex[e]
               /\ shows[e] \in DF!Texts => shows[e] = documentsByIndex[e]
    <3>1. CASE e # d
        BY <1>1, <2>1, <3>1 DEF TextsAreKept, DocumentsTyped
    <3>2. CASE e = d
      <4>1. text \in DF!Texts => text = documentsByIndex[d]
          BY <2>1 DEF TextsAreKept, DocumentsTyped
      <4> QED
          BY <1>1, <1>2, <2>1, <3>2, <4>1 DEF TextsAreKept, DocumentsTyped, DF!Texts, DF!NotYet
    <3> QED
        BY <3>1, <3>2
  <2>4. TextsAreKept'
      BY <1>1, <2>3 DEF TextsAreKept
  <2>5. ExpandedAsWanted'
    <3>1. block # "collapsed"
        BY <1>2 DEF DF!Texts
    <3>2. ASSUME NEW e \in Documents PROVE e \in wanted' <=> shows[e] # "collapsed"
        BY <1>1, <2>1, <3>1 DEF ExpandedAsWanted, DocumentsTyped
    <3> QED
        BY <1>1, <1>3, <3>2 DEF ExpandedAsWanted, DocumentsTyped
  <2> QED
      BY <2>2, <2>4, <2>5
<1> QED
    BY <1>3, <1>4 DEF DocumentsInv

LEMMA DocumentsCome ==
    ASSUME DocumentsInv, NEW f \in fetches, DF!GotDocument(f) PROVE DocumentsInv'
<1>1. PICK text \in DF!Texts : documentsByIndex' = [documentsByIndex EXCEPT ![f.doc] = text]
    BY DEF DF!GotDocument, DocumentsInv, DocumentsTyped, DF!Texts
<1>2. /\ fetches' = fetches \ {f}
      /\ IF f.page = page
         THEN /\ docIdToExpandedRowMap' = [f.rows EXCEPT ![f.doc] = documentsByIndex'[f.doc]]
              /\ docIdToDocument' = [docIdToDocument EXCEPT ![f.doc] = documentsByIndex'[f.doc]]
         ELSE UNCHANGED <<docIdToExpandedRowMap, docIdToDocument>>
      /\ UNCHANGED <<stored, page, wanted, calm>>
    BY DEF DF!GotDocument, DF!OnDocUpdate
<1>3. f.doc \in Documents /\ f.rows \in [Documents -> DF!Blocks] /\ DocumentsTyped
    BY DEF DocumentsInv, DocumentsTyped
<1>4. documentsByIndex'[f.doc] = text /\ text \in DF!Blocks
    BY <1>1, <1>3 DEF DocumentsTyped, DF!Blocks
<1>5. DocumentsTyped'
    BY <1>1, <1>2, <1>3, <1>4 DEF DocumentsTyped
<1>6. ASSUME calm PROVE OneIsFetched' /\ TextsAreKept' /\ ExpandedAsWanted'
  <2>1. /\ OneIsFetched /\ TextsAreKept /\ ExpandedAsWanted
        /\ f.page = page /\ f.rows = docIdToExpandedRowMap
        /\ docIdToExpandedRowMap[f.doc] = "spinner" /\ fetches' = {}
      BY <1>2, <1>6 DEF DocumentsInv, OneIsFetched
  <2>2. /\ docIdToExpandedRowMap' = [docIdToExpandedRowMap EXCEPT ![f.doc] = text]
        /\ docIdToDocument' = [docIdToDocument EXCEPT ![f.doc] = text]
      BY <1>2, <1>4, <2>1
  <2>3. TextsAreKept'
      BY <1>1, <1>3, <2>1, <2>2 DEF TextsAreKept, DocumentsTyped
  <2>4. text # "collapsed"
      BY <1>1 DEF DF!Texts
  <2>5. ExpandedAsWanted'
      BY <1>2, <1>3, <2>1, <2>2, <2>4 DEF ExpandedAsWanted, DocumentsTyped
  <2> QED
      BY <2>1, <2>3, <2>5 DEF OneIsFetched
<1> QED
    BY <1>2, <1>5, <1>6 DEF DocumentsInv

LEMMA DocumentsStep == ASSUME DocumentsInv, DF!Next PROVE DocumentsInv'
<1>1. CASE \E d \in Documents : DF!ToggleDocumentDetails(d)
    BY <1>1, DocumentsToggle
<1>2. CASE \E f \in fetches : DF!GotDocument(f)
    BY <1>2, DocumentsCome
<1>3. CASE \E f \in fetches : DF!Lost(f)
  <2>1. PICK f \in fetches : DF!Lost(f)
      BY <1>3
  <2>2. DocumentsTyped'
      BY <2>1 DEF DF!Lost, DocumentsInv, DocumentsTyped
  <2> QED
      BY <2>1, <2>2 DEF DF!Lost, DocumentsInv, OneIsFetched, TextsAreKept, ExpandedAsWanted
<1>4. CASE DF!Reopen
  <2>1. DocumentsTyped'
      BY <1>4 DEF DF!Reopen, DocumentsInv, DocumentsTyped, DF!Blocks
  <2> QED
      BY <1>4, <2>1
      DEF DF!Reopen, DocumentsInv, OneIsFetched, TextsAreKept, ExpandedAsWanted, DF!Texts,
          DF!NotYet
<1> QED
    BY <1>1, <1>2, <1>3, <1>4 DEF DF!Next

LEMMA DocumentsStutter ==
    ASSUME DocumentsInv, UNCHANGED <<ofDocuments, stored, page>> PROVE DocumentsInv'
BY DEF ofDocuments, DocumentsInv, DocumentsTyped, OneIsFetched, TextsAreKept, ExpandedAsWanted

LEMMA DocumentsInvShows == DocumentsInv => DF!TypeOK /\ DF!DocumentsShown
BY DEF DocumentsInv, DocumentsTyped, TextsAreKept, ExpandedAsWanted, DF!TypeOK, DF!DocumentsShown

-----------------------------------------------------------------------------
(* Navigation *)

\* The paths that there are: those that the user opens, and the parents of those that only show
\* the data source they name.
Root == <<>>
StartPage == <<"overview">>
Detectors == <<"detectors">>
Details == <<"detector-details", "d">>
LogTypePage == <<"log-types", "l">>
RulesPage == <<"rules">>
LogTypesPage == <<"log-types">>
Plain == {StartPage, Detectors, RulesPage, LogTypesPage}
Readonly == {Details, LogTypePage, NA!EditRule}
NavPaths == {Root} \cup Plain \cup Readonly

Sources == DataSources \cup {NA!Unset}
Locations == [path : NavPaths, ds : Sources]
NavPages == {"Overview", "Detectors", "DetectorDetails", "LogType", "EditRule", "Rules", "LogTypes",
             "Redirect"}
Ways == {"open", "push", "link", "again", "history"}

Path == entries[at].path
Ds == entries[at].ds
PageTaken(path, carry) == NA!RouteOf(path, carry).page
Follows(path, carry) == NA!RouteOf(path, carry).reloads
Moving == NA!Moved(Path, pending)
Given == pending = NA!Option(Ds, NA!Unset)

NavTyped ==
    /\ entries \in Seq(Locations) /\ at \in 1 .. Len(entries)
    /\ selected \in NA!Options /\ pending \in NA!Options
    /\ active \in DataSources /\ loadedFrom \in Sources
    /\ loading \in {"yes", "ending", "no"}
    /\ shown \in NavPaths \cup {NA!NotMounted} /\ page \in NavPages \cup {NA!Unset}
    /\ ruleItem \in BOOLEAN /\ dirty \in BOOLEAN /\ told \in BOOLEAN
    /\ renders \in Nat /\ aimed \in [path : NavPaths, by : Ways]

\* When nothing is to be rendered, what is shown is what the location names.
NavRendered ==
    ~dirty =>
        /\ selected = pending /\ shown = Path
        /\ Path \in Readonly => Ds = pending.id
        /\ loading = "no" => page = PageTaken(Path, ruleItem) /\ Path # Root

\* No page is there until a data source is selected, and the root only until the landing page is.
NavOpening ==
    /\ loading # "no" => page = NA!Unset /\ Len(entries) = 1
    /\ loading = "yes" => /\ selected = NA!Option(NA!Unset, NA!Unset) /\ pending = selected
                          /\ Path \in Readonly => Ds = NA!Unset /\ shown = NA!NotMounted
    /\ loading = "ending" => Path \notin Readonly
    /\ loading # "yes" => pending.id # NA!Unset
    /\ shown = NA!NotMounted => dirty /\ page = NA!Unset /\ loading # "ending"
    /\ \A i \in 1 .. Len(entries) : entries[i].path = Root =>
          /\ Len(entries) = 1 /\ page = NA!Unset /\ aimed.by = "open"
          /\ shown \in {NA!NotMounted, Root}
          /\ loading = "no" => ~Moving

\* A read-only path in the history names its data source, and is not next to itself, but as it is
\* linked to once more.
NavEntries ==
    /\ \A i \in 1 .. Len(entries) :
          i # at /\ entries[i].path \in Readonly => entries[i].ds # NA!Unset
    /\ \A i \in 1 .. Len(entries) - 1 :
          entries[i].path = entries[i + 1].path /\ entries[i].path \in Readonly =>
              i + 1 = at /\ dirty /\ Ds = NA!Unset /\ shown = Path /\ pending.id = selected.id

\* A page that loads once has loaded from the data source that its location names, or is to load.
NavSources ==
    /\ told /\ loading # "yes" => pending.id = active
    /\ told /\ loading = "no" =>
          \/ loadedFrom = active
          \/ PageTaken(Path, ruleItem) # page
          \/ Follows(Path, ruleItem) /\ pending # selected
    /\ dirty /\ Path \in Readonly /\ PageTaken(Path, ruleItem) = page /\ ~Follows(Path, ruleItem) =>
          IF Ds = NA!Unset THEN shown = Path /\ pending.id = selected.id
          ELSE Ds = active /\ loadedFrom = active

NavItems ==
    (dirty /\ shown # Path) \/ NA!NavItemOf(shown) \in {NA!NoItem, navItem}

\* PageAsMeant of the location.
Meant(path) ==
    \/ path = aimed.path
    \/ aimed.by # "push" /\ aimed.path = NA!EditRule /\ path = RulesPage
    \/ /\ aimed.by \in {"open", "again"}
       /\ \E p \in NA!MatchedPaths(aimed.path) : path = NA!ParentOf[p]
    \/ aimed.by = "open" /\ aimed.path = Root /\ path = StartPage

NavAims ==
    /\ Meant(Path)
    /\ aimed.by = "push" /\ Path = NA!EditRule => ruleItem
    /\ ruleItem => Path = NA!EditRule /\ Ds # NA!Unset
    /\ Path \in Readonly /\ Ds = NA!Unset =>
          \/ aimed.by \in {"open", "again"}
          \/ aimed.by = "link" /\ Path # shown /\ shown # NA!NotMounted

\* What is still to be rendered after so many times.
NavRenders ==
    /\ renders <= 5
    /\ dirty => renders <= 4
    /\ dirty /\ Moving => renders <= 3
    /\ loading = "ending" => /\ renders <= 2
                             /\ dirty => renders <= 1
                             /\ dirty /\ Moving => renders = 0
    /\ dirty /\ Path = Root /\ loading = "no" => renders <= 2
    /\ dirty /\ Path \in Readonly =>
          /\ Ds = NA!Unset => renders = 0
          /\ Ds # NA!Unset /\ Ds # active => renders = 0
          /\ Ds # NA!Unset /\ ~Given => renders <= 1 /\ (Moving => renders = 0)
          /\ Moving => renders <= 2
          /\ renders <= 3
          /\ Path = NA!EditRule /\ ~ruleItem =>
                /\ renders <= 2
                /\ Moving => renders <= 1

NavInv ==
    /\ NavTyped /\ NavRendered /\ NavOpening /\ NavEntries /\ NavSources /\ NavItems /\ NavAims
    /\ NavRenders

\* The paths are different, by how many segments they have and what the first is.
LEMMA PathsDiffer ==
    /\ Root # StartPage /\ Root # Detectors /\ Root # Details /\ Root # LogTypePage
    /\ Root # RulesPage /\ Root # LogTypesPage /\ Root # NA!EditRule /\ Root # NA!NotMounted
    /\ StartPage # Detectors /\ StartPage # Details /\ StartPage # LogTypePage
    /\ StartPage # RulesPage /\ StartPage # LogTypesPage /\ StartPage # NA!EditRule
    /\ StartPage # NA!NotMounted
    /\ Detectors # Details /\ Detectors # LogTypePage /\ Detectors # RulesPage
    /\ Detectors # LogTypesPage /\ Detectors # NA!EditRule /\ Detectors # NA!NotMounted
    /\ Details # LogTypePage /\ Details # RulesPage /\ Details # LogTypesPage
    /\ Details # NA!EditRule /\ Details # NA!NotMounted
    /\ LogTypePage # RulesPage /\ LogTypePage # LogTypesPage /\ LogTypePage # NA!EditRule
    /\ LogTypePage # NA!NotMounted
    /\ RulesPage # LogTypesPage /\ RulesPage # NA!EditRule /\ RulesPage # NA!NotMounted
    /\ LogTypesPage # NA!EditRule /\ LogTypesPage # NA!NotMounted
    /\ NA!EditRule # NA!NotMounted
<1>1. /\ Len(Root) = 0
      /\ Len(StartPage) = 1 /\ StartPage[1] = "overview"
      /\ Len(Detectors) = 1 /\ Detectors[1] = "detectors"
      /\ Len(RulesPage) = 1 /\ RulesPage[1] = "rules"
      /\ Len(LogTypesPage) = 1 /\ LogTypesPage[1] = "log-types"
      /\ Len(NA!EditRule) = 1 /\ NA!EditRule[1] = "edit-rule"
      /\ Len(NA!NotMounted) = 1 /\ NA!NotMounted[1] = "none"
      /\ Len(Details) = 2 /\ Details[1] = "detector-details"
      /\ Len(LogTypePage) = 2 /\ LogTypePage[1] = "log-types"
    BY DEF Root, StartPage, Detectors, RulesPage, LogTypesPage, NA!EditRule, NA!NotMounted,
           Details, LogTypePage
<1> QED
    BY <1>1

\* A pattern of so many segments.
Segments(pattern, n) == DOMAIN pattern = 1 .. n /\ Len(pattern) = n

LEMMA MatchesOne ==
    ASSUME NEW pattern, Segments(pattern, 1), pattern[1] # ":", NEW path, Len(path) \in Nat
    PROVE  NA!Matches(pattern, path) <=> Len(path) >= 1 /\ path[1] = pattern[1]
BY DEF NA!Matches, Segments

LEMMA MatchesTwo ==
    ASSUME NEW pattern, Segments(pattern, 2), pattern[1] # ":", NEW path, Len(path) \in Nat
    PROVE  NA!Matches(pattern, path)
               <=> Len(path) >= 2 /\ path[1] = pattern[1] /\ pattern[2] \in {":", path[2]}
BY DEF NA!Matches, Segments

LEMMA MatchesThree ==
    ASSUME NEW pattern, Segments(pattern, 3), NEW path, Len(path) \in 0 .. 2
    PROVE  ~NA!Matches(pattern, path)
BY DEF NA!Matches, Segments

\* The first route that fits, of a list, and that none does.
LEMMA FirstOfList ==
    ASSUME NEW routes, NEW path, NEW otherwise, DOMAIN routes \subseteq Nat,
           NEW k \in DOMAIN routes, NA!Matches(routes[k].path, path),
           \A i \in DOMAIN routes : NA!Matches(routes[i].path, path) => k <= i
    PROVE  NA!FirstOf(routes, path, otherwise) = routes[k]
<1> DEFINE fits == {i \in DOMAIN routes : NA!Matches(routes[i].path, path)}
<1>1. k \in fits /\ \A j \in fits : k <= j
    OBVIOUS
<1>2. \A i \in fits : (\A j \in fits : i <= j) => i = k
    BY <1>1
<1>3. NA!FirstOf(routes, path, otherwise)
          = IF fits = {} THEN otherwise ELSE routes[CHOOSE i \in fits : \A j \in fits : i <= j]
    BY DEF NA!FirstOf
<1> HIDE DEF fits
<1>4. (CHOOSE i \in fits : \A j \in fits : i <= j) = k
    BY <1>1, <1>2
<1> QED
    BY <1>1, <1>3, <1>4

LEMMA NoneOfList ==
    ASSUME NEW routes, NEW path, NEW otherwise,
           \A i \in DOMAIN routes : ~NA!Matches(routes[i].path, path)
    PROVE  NA!FirstOf(routes, path, otherwise) = otherwise
BY DEF NA!FirstOf

\* The routes of detectors and rules, by the first segment.
LEMMA DetectorAndRuleRoutesFit ==
    ASSUME NEW path, Len(path) \in Nat, NEW otherwise
    PROVE  LET first == NA!FirstOf(NA!DetectorAndRuleRoutes, path, otherwise)
           IN  /\ Len(path) = 0 \/ path[1] \in {"overview", "detector-details", "log-types"}
                  => first = otherwise
               /\ Len(path) = 1 /\ path[1] = "detectors"
                  => first = NA!Route(<<"detectors">>, "Detectors", TRUE)
               /\ Len(path) = 1 /\ path[1] = "rules"
                  => first = NA!Route(<<"rules">>, "Rules", TRUE)
               /\ Len(path) = 1 /\ path[1] = "edit-rule"
                  => first = NA!Route(<<"edit-rule">>, "EditRule", FALSE)
<1> DEFINE routes == NA!DetectorAndRuleRoutes
<1>1. DOMAIN routes = 1 .. 8
    BY DEF NA!DetectorAndRuleRoutes
<1>2. /\ routes[1] = NA!Route(<<"findings">>, "Findings", TRUE)
      /\ routes[2] = NA!Route(<<"detectors">>, "Detectors", TRUE)
      /\ routes[3] = NA!Route(<<"create-detector">>, "CreateDetector", TRUE)
      /\ routes[4] = NA!Route(<<"rules">>, "Rules", TRUE)
      /\ routes[5] = NA!Route(<<"create-rule">>, "CreateRule", FALSE)
      /\ routes[6] = NA!Route(<<"edit-rule">>, "EditRule", FALSE)
      /\ routes[7] = NA!Route(<<"duplicate-rule">>, "DuplicateRule", FALSE)
      /\ routes[8] = NA!Route(<<"import-rule">>, "ImportRule", FALSE)
    BY DEF NA!DetectorAndRuleRoutes
<1>3. /\ Segments(routes[1].path, 1) /\ routes[1].path[1] = "findings"
      /\ Segments(routes[2].path, 1) /\ routes[2].path[1] = "detectors"
      /\ Segments(routes[3].path, 1) /\ routes[3].path[1] = "create-detector"
      /\ Segments(routes[4].path, 1) /\ routes[4].path[1] = "rules"
      /\ Segments(routes[5].path, 1) /\ routes[5].path[1] = "create-rule"
      /\ Segments(routes[6].path, 1) /\ routes[6].path[1] = "edit-rule"
      /\ Segments(routes[7].path, 1) /\ routes[7].path[1] = "duplicate-rule"
      /\ Segments(routes[8].path, 1) /\ routes[8].path[1] = "import-rule"
    BY <1>2 DEF NA!Route, Segments
<1> HIDE DEF routes
<1>4. /\ NA!Matches(routes[1].path, path) <=> Len(path) >= 1 /\ path[1] = "findings"
      /\ NA!Matches(routes[2].path, path) <=> Len(path) >= 1 /\ path[1] = "detectors"
      /\ NA!Matches(routes[3].path, path) <=> Len(path) >= 1 /\ path[1] = "create-detector"
      /\ NA!Matches(routes[4].path, path) <=> Len(path) >= 1 /\ path[1] = "rules"
      /\ NA!Matches(routes[5].path, path) <=> Len(path) >= 1 /\ path[1] = "create-rule"
      /\ NA!Matches(routes[6].path, path) <=> Len(path) >= 1 /\ path[1] = "edit-rule"
      /\ NA!Matches(routes[7].path, path) <=> Len(path) >= 1 /\ path[1] = "duplicate-rule"
      /\ NA!Matches(routes[8].path, path) <=> Len(path) >= 1 /\ path[1] = "import-rule"
    BY <1>3, MatchesOne
<1>5. ASSUME Len(path) = 0 \/ path[1] \in {"overview", "detector-details", "log-types"}
      PROVE  NA!FirstOf(routes, path, otherwise) = otherwise
  <2>1. \A i \in DOMAIN routes : ~NA!Matches(routes[i].path, path)
      BY <1>1, <1>4, <1>5
  <2> QED
      BY <2>1, NoneOfList
<1>6. ASSUME Len(path) = 1, path[1] = "detectors"
      PROVE  NA!FirstOf(routes, path, otherwise) = routes[2]
  <2>1. DOMAIN routes \subseteq Nat /\ 2 \in DOMAIN routes /\ NA!Matches(routes[2].path, path)
      BY <1>1, <1>4, <1>6
  <2>2. \A i \in DOMAIN routes : NA!Matches(routes[i].path, path) => 2 <= i
      BY <1>1, <1>4, <1>6
  <2> QED
      BY <2>1, <2>2, FirstOfList
<1>7. ASSUME Len(path) = 1, path[1] = "rules"
      PROVE  NA!FirstOf(routes, path, otherwise) = routes[4]
  <2>1. DOMAIN routes \subseteq Nat /\ 4 \in DOMAIN routes /\ NA!Matches(routes[4].path, path)
      BY <1>1, <1>4, <1>7
  <2>2. \A i \in DOMAIN routes : NA!Matches(routes[i].path, path) => 4 <= i
      BY <1>1, <1>4, <1>7
  <2> QED
      BY <2>1, <2>2, FirstOfList
<1>8. ASSUME Len(path) = 1, path[1] = "edit-rule"
      PROVE  NA!FirstOf(routes, path, otherwise) = routes[6]
  <2>1. DOMAIN routes \subseteq Nat /\ 6 \in DOMAIN routes /\ NA!Matches(routes[6].path, path)
      BY <1>1, <1>4, <1>8
  <2>2. \A i \in DOMAIN routes : NA!Matches(routes[i].path, path) => 6 <= i
      BY <1>1, <1>4, <1>8
  <2> QED
      BY <2>1, <2>2, FirstOfList
<1> QED
    BY <1>2, <1>5, <1>6, <1>7, <1>8 DEF routes

\* The routes of the overview, of alerts and of a detector.
LEMMA DetailsRoutesFit ==
    ASSUME NEW path, Len(path) \in 0 .. 2, NEW otherwise
    PROVE  LET first == NA!FirstOf(NA!DetailsRoutes, path, otherwise)
           IN  /\ Len(path) = 0 \/ path[1] \in {"detectors", "rules", "edit-rule", "log-types"}
                  => first = otherwise
               /\ Len(path) = 1 /\ path[1] = "overview"
                  => first = NA!Route(<<"overview">>, "Overview", TRUE)
               /\ Len(path) = 2 /\ path[1] = "detector-details"
                  => first = NA!Route(<<"detector-details", ":">>, "DetectorDetails", FALSE)
<1> DEFINE routes == NA!DetailsRoutes
<1>1. DOMAIN routes = 1 .. 7
    BY DEF NA!DetailsRoutes
<1>2. /\ routes[1] = NA!Route(<<"overview">>, "Overview", TRUE)
      /\ routes[2] = NA!Route(<<"alerts">>, "Alerts", TRUE)
      /\ routes[3] = NA!Route(<<"detector-details", ":">>, "DetectorDetails", FALSE)
      /\ routes[4] = NA!Route(<<"edit-detector-details", ":">>, "UpdateDetectorBasicDetails", FALSE)
      /\ routes[5] = NA!Route(<<"edit-detector-rules", ":">>, "UpdateDetectorRules", FALSE)
      /\ routes[6] = NA!Route(<<"edit-field-mappings", ":">>, "UpdateFieldMappings", FALSE)
      /\ routes[7] = NA!Route(<<"edit-alert-triggers", ":">>, "UpdateAlertConditions", FALSE)
    BY DEF NA!DetailsRoutes
<1>3. /\ Segments(routes[1].path, 1) /\ routes[1].path[1] = "overview"
      /\ Segments(routes[2].path, 1) /\ routes[2].path[1] = "alerts"
      /\ Segments(routes[3].path, 2) /\ routes[3].path[1] = "detector-details"
      /\ routes[3].path[2] = ":"
      /\ Segments(routes[4].path, 2) /\ routes[4].path[1] = "edit-detector-details"
      /\ routes[4].path[2] = ":"
      /\ Segments(routes[5].path, 2) /\ routes[5].path[1] = "edit-detector-rules"
      /\ routes[5].path[2] = ":"
      /\ Segments(routes[6].path, 2) /\ routes[6].path[1] = "edit-field-mappings"
      /\ routes[6].path[2] = ":"
      /\ Segments(routes[7].path, 2) /\ routes[7].path[1] = "edit-alert-triggers"
      /\ routes[7].path[2] = ":"
    BY <1>2 DEF NA!Route, Segments
<1> HIDE DEF routes
<1>4. /\ NA!Matches(routes[1].path, path) <=> Len(path) >= 1 /\ path[1] = "overview"
      /\ NA!Matches(routes[2].path, path) <=> Len(path) >= 1 /\ path[1] = "alerts"
      /\ NA!Matches(routes[3].path, path) <=> Len(path) >= 2 /\ path[1] = "detector-details"
      /\ NA!Matches(routes[4].path, path) <=> Len(path) >= 2 /\ path[1] = "edit-detector-details"
      /\ NA!Matches(routes[5].path, path) <=> Len(path) >= 2 /\ path[1] = "edit-detector-rules"
      /\ NA!Matches(routes[6].path, path) <=> Len(path) >= 2 /\ path[1] = "edit-field-mappings"
      /\ NA!Matches(routes[7].path, path) <=> Len(path) >= 2 /\ path[1] = "edit-alert-triggers"
  <2>1. /\ NA!Matches(routes[1].path, path) <=> Len(path) >= 1 /\ path[1] = "overview"
        /\ NA!Matches(routes[2].path, path) <=> Len(path) >= 1 /\ path[1] = "alerts"
      BY <1>3, MatchesOne
  <2>2. /\ NA!Matches(routes[3].path, path) <=> Len(path) >= 2 /\ path[1] = "detector-details"
        /\ NA!Matches(routes[4].path, path) <=> Len(path) >= 2 /\ path[1] = "edit-detector-details"
        /\ NA!Matches(routes[5].path, path) <=> Len(path) >= 2 /\ path[1] = "edit-detector-rules"
        /\ NA!Matches(routes[6].path, path) <=> Len(path) >= 2 /\ path[1] = "edit-field-mappings"
        /\ NA!Matches(routes[7].path, path) <=> Len(path) >= 2 /\ path[1] = "edit-alert-triggers"
      BY <1>3, MatchesTwo
  <2> QED
      BY <2>1, <2>2
<1>5. ASSUME Len(path) = 0 \/ path[1] \in {"detectors", "rules", "edit-rule", "log-types"}
      PROVE  NA!FirstOf(routes, path, otherwise) = otherwise
  <2>1. \A i \in DOMAIN routes : ~NA!Matches(routes[i].path, path)
      BY <1>1, <1>4, <1>5
  <2> QED
      BY <2>1, NoneOfList
<1>6. ASSUME Len(path) = 1, path[1] = "overview"
      PROVE  NA!FirstOf(routes, path, otherwise) = routes[1]
  <2>1. DOMAIN routes \subseteq Nat /\ 1 \in DOMAIN routes /\ NA!Matches(routes[1].path, path)
      BY <1>1, <1>4, <1>6
  <2>2. \A i \in DOMAIN routes : NA!Matches(routes[i].path, path) => 1 <= i
      BY <1>1, <1>4, <1>6
  <2> QED
      BY <2>1, <2>2, FirstOfList
<1>7. ASSUME Len(path) = 2, path[1] = "detector-details"
      PROVE  NA!FirstOf(routes, path, otherwise) = routes[3]
  <2>1. DOMAIN routes \subseteq Nat /\ 3 \in DOMAIN routes /\ NA!Matches(routes[3].path, path)
      BY <1>1, <1>4, <1>7
  <2>2. \A i \in DOMAIN routes : NA!Matches(routes[i].path, path) => 3 <= i
      BY <1>1, <1>4, <1>7
  <2> QED
      BY <2>1, <2>2, FirstOfList
<1> QED
    BY <1>2, <1>5, <1>6, <1>7 DEF routes

\* The routes of correlations, log types and threat intelligence.
LEMMA SettingsRoutesFit ==
    ASSUME NEW path, Len(path) \in 0 .. 2, NEW otherwise
    PROVE  LET first == NA!FirstOf(NA!SettingsRoutes, path, otherwise)
           IN  /\ \/ Len(path) = 0
                  \/ path[1] \in {"overview", "detectors", "detector-details", "rules", "edit-rule"}
                  => first = otherwise
               /\ Len(path) = 2 /\ path[1] = "log-types"
                  => first = NA!Route(<<"log-types", ":">>, "LogType", FALSE)
               /\ Len(path) = 1 /\ path[1] = "log-types"
                  => first = NA!Route(<<"log-types">>, "LogTypes", TRUE)
<1> DEFINE routes == NA!SettingsRoutes
<1>1. DOMAIN routes = 1 .. 12
    BY DEF NA!SettingsRoutes
<1>2. /\ routes[1] = NA!Route(<<"correlations", "rules">>, "CorrelationRules", TRUE)
      /\ routes[2] = NA!Route(<<"correlations", "create-rule">>, "CreateCorrelationRule", TRUE)
      /\ routes[3] = NA!Route(<<"correlations", "rule", ":">>, "CreateCorrelationRule", TRUE)
      /\ routes[4] = NA!Route(<<"correlations">>, "Correlations", TRUE)
      /\ routes[5] = NA!Route(<<"log-types", ":">>, "LogType", FALSE)
      /\ routes[6] = NA!Route(<<"log-types">>, "LogTypes", TRUE)
      /\ routes[7] = NA!Route(<<"create-log-type">>, "CreateLogType", FALSE)
      /\ routes[8] = NA!Route(<<"add-threat-intel-source">>, "AddThreatIntelSource", FALSE)
      /\ routes[9] = NA!Route(<<"threat-intel">>, "ThreatIntelOverview", TRUE)
      /\ routes[10] = NA!Route(<<"create-scan-config">>, "ThreatIntelScanConfigForm", FALSE)
      /\ routes[11] = NA!Route(<<"edit-scan-config">>, "ThreatIntelScanConfigForm", FALSE)
      /\ routes[12] = NA!Route(<<"threat-intel-source", ":">>, "ThreatIntelSource", FALSE)
    BY DEF NA!SettingsRoutes
<1>3. /\ Segments(routes[1].path, 2) /\ routes[1].path[1] = "correlations"
      /\ routes[1].path[2] = "rules"
      /\ Segments(routes[2].path, 2) /\ routes[2].path[1] = "correlations"
      /\ routes[2].path[2] = "create-rule"
      /\ Segments(routes[3].path, 3) /\ routes[3].path[1] = "correlations"
      /\ routes[3].path[2] = "rule" /\ routes[3].path[3] = ":"
      /\ Segments(routes[4].path, 1) /\ routes[4].path[1] = "correlations"
      /\ Segments(routes[5].path, 2) /\ routes[5].path[1] = "log-types" /\ routes[5].path[2] = ":"
      /\ Segments(routes[6].path, 1) /\ routes[6].path[1] = "log-types"
      /\ Segments(routes[7].path, 1) /\ routes[7].path[1] = "create-log-type"
      /\ Segments(routes[8].path, 1) /\ routes[8].path[1] = "add-threat-intel-source"
      /\ Segments(routes[9].path, 1) /\ routes[9].path[1] = "threat-intel"
      /\ Segments(routes[10].path, 1) /\ routes[10].path[1] = "create-scan-config"
      /\ Segments(routes[11].path, 1) /\ routes[11].path[1] = "edit-scan-config"
      /\ Segments(routes[12].path, 2) /\ routes[12].path[1] = "threat-intel-source"
      /\ routes[12].path[2] = ":"
    BY <1>2 DEF NA!Route, Segments
<1> HIDE DEF routes
<1>4. /\ NA!Matches(routes[1].path, path) <=> /\ Len(path) >= 2 /\ path[1] = "correlations"
                                              /\ path[2] = "rules"
      /\ NA!Matches(routes[2].path, path) <=> /\ Len(path) >= 2 /\ path[1] = "correlations"
                                              /\ path[2] = "create-rule"
      /\ ~NA!Matches(routes[3].path, path)
      /\ NA!Matches(routes[4].path, path) <=> Len(path) >= 1 /\ path[1] = "correlations"
      /\ NA!Matches(routes[5].path, path) <=> Len(path) >= 2 /\ path[1] = "log-types"
      /\ NA!Matches(routes[6].path, path) <=> Len(path) >= 1 /\ path[1] = "log-types"
      /\ NA!Matches(routes[7].path, path) <=> Len(path) >= 1 /\ path[1] = "create-log-type"
      /\ NA!Matches(routes[8].path, path) <=> Len(path) >= 1 /\ path[1] = "add-threat-intel-source"
      /\ NA!Matches(routes[9].path, path) <=> Len(path) >= 1 /\ path[1] = "threat-intel"
      /\ NA!Matches(routes[10].path, path) <=> Len(path) >= 1 /\ path[1] = "create-scan-config"
      /\ NA!Matches(routes[11].path, path) <=> Len(path) >= 1 /\ path[1] = "edit-scan-config"
      /\ NA!Matches(routes[12].path, path) <=> Len(path) >= 2 /\ path[1] = "threat-intel-source"
  <2>1. NA!Matches(routes[1].path, path)
          <=> Len(path) >= 2 /\ path[1] = "correlations" /\ path[2] = "rules"
      BY <1>3, MatchesTwo, SMTT(30)
  <2>2. NA!Matches(routes[2].path, path)
          <=> Len(path) >= 2 /\ path[1] = "correlations" /\ path[2] = "create-rule"
      BY <1>3, MatchesTwo, SMTT(30)
  <2>3. ~NA!Matches(routes[3].path, path)
      BY <1>3, MatchesThree, SMTT(30)
  <2>4. NA!Matches(routes[4].path, path) <=> Len(path) >= 1 /\ path[1] = "correlations"
      BY <1>3, MatchesOne, SMTT(30)
  <2>5. NA!Matches(routes[5].path, path) <=> Len(path) >= 2 /\ path[1] = "log-types"
      BY <1>3, MatchesTwo, SMTT(30)
  <2>6. NA!Matches(routes[6].path, path) <=> Len(path) >= 1 /\ path[1] = "log-types"
      BY <1>3, MatchesOne, SMTT(30)
  <2>7. NA!Matches(routes[7].path, path) <=> Len(path) >= 1 /\ path[1] = "create-log-type"
      BY <1>3, MatchesOne, SMTT(30)
  <2>8. NA!Matches(routes[8].path, path) <=> Len(path) >= 1 /\ path[1] = "add-threat-intel-source"
      BY <1>3, MatchesOne, SMTT(30)
  <2>9. NA!Matches(routes[9].path, path) <=> Len(path) >= 1 /\ path[1] = "threat-intel"
      BY <1>3, MatchesOne, SMTT(30)
  <2>10. NA!Matches(routes[10].path, path) <=> Len(path) >= 1 /\ path[1] = "create-scan-config"
      BY <1>3, MatchesOne, SMTT(30)
  <2>11. NA!Matches(routes[11].path, path) <=> Len(path) >= 1 /\ path[1] = "edit-scan-config"
      BY <1>3, MatchesOne, SMTT(30)
  <2>12. NA!Matches(routes[12].path, path) <=> Len(path) >= 2 /\ path[1] = "threat-intel-source"
      BY <1>3, MatchesTwo, SMTT(30)
  <2> QED
      BY <2>1, <2>2, <2>3, <2>4, <2>5, <2>6, <2>7, <2>8, <2>9, <2>10, <2>11, <2>12
<1>5. ASSUME Len(path) = 0 \/ path[1] \in {"overview", "detectors", "detector-details", "rules",
                                            "edit-rule"}
      PROVE  NA!FirstOf(routes, path, otherwise) = otherwise
  <2>1. \A i \in DOMAIN routes : ~NA!Matches(routes[i].path, path)
      BY <1>1, <1>4, <1>5
  <2> QED
      BY <2>1, NoneOfList
<1>6. ASSUME Len(path) = 2, path[1] = "log-types"
      PROVE  NA!FirstOf(routes, path, otherwise) = routes[5]
  <2>1. DOMAIN routes \subseteq Nat /\ 5 \in DOMAIN routes /\ NA!Matches(routes[5].path, path)
      BY <1>1, <1>4, <1>6
  <2>2. \A i \in DOMAIN routes : NA!Matches(routes[i].path, path) => 5 <= i
      BY <1>1, <1>4, <1>6
  <2> QED
      BY <2>1, <2>2, FirstOfList
<1>7. ASSUME Len(path) = 1, path[1] = "log-types"
      PROVE  NA!FirstOf(routes, path, otherwise) = routes[6]
  <2>1. DOMAIN routes \subseteq Nat /\ 6 \in DOMAIN routes /\ NA!Matches(routes[6].path, path)
      BY <1>1, <1>4, <1>7
  <2>2. \A i \in DOMAIN routes : NA!Matches(routes[i].path, path) => 6 <= i
      BY <1>1, <1>4, <1>7
  <2> QED
      BY <2>1, <2>2, FirstOfList
<1> QED
    BY <1>2, <1>5, <1>6, <1>7 DEF routes

\* The paths, by their segments.
LEMMA PathSegments ==
    /\ Len(Root) = 0 /\ DOMAIN Root = 1 .. 0
    /\ Segments(StartPage, 1) /\ StartPage[1] = "overview"
    /\ Segments(Detectors, 1) /\ Detectors[1] = "detectors"
    /\ Segments(RulesPage, 1) /\ RulesPage[1] = "rules"
    /\ Segments(LogTypesPage, 1) /\ LogTypesPage[1] = "log-types"
    /\ Segments(NA!EditRule, 1) /\ NA!EditRule[1] = "edit-rule"
    /\ Segments(Details, 2) /\ Details[1] = "detector-details"
    /\ Segments(LogTypePage, 2) /\ LogTypePage[1] = "log-types"
BY DEF Segments, Root, StartPage, Detectors, RulesPage, LogTypesPage, NA!EditRule, Details,
       LogTypePage

\* The route that each of the paths takes.
LEMMA FirstRoutes ==
    /\ NA!FirstRoute(Root) = NA!Redirect
    /\ NA!FirstRoute(StartPage) = NA!Route(<<"overview">>, "Overview", TRUE)
    /\ NA!FirstRoute(Detectors) = NA!Route(<<"detectors">>, "Detectors", TRUE)
    /\ NA!FirstRoute(RulesPage) = NA!Route(<<"rules">>, "Rules", TRUE)
    /\ NA!FirstRoute(LogTypesPage) = NA!Route(<<"log-types">>, "LogTypes", TRUE)
    /\ NA!FirstRoute(NA!EditRule) = NA!Route(<<"edit-rule">>, "EditRule", FALSE)
    /\ NA!FirstRoute(Details) = NA!Route(<<"detector-details", ":">>, "DetectorDetails", FALSE)
    /\ NA!FirstRoute(LogTypePage) = NA!Route(<<"log-types", ":">>, "LogType", FALSE)
<1> DEFINE third(path) == NA!FirstOf(NA!SettingsRoutes, path, NA!Redirect)
           second(path) == NA!FirstOf(NA!DetailsRoutes, path, third(path))
<1>1. \A path : NA!FirstRoute(path) = NA!FirstOf(NA!DetectorAndRuleRoutes, path, second(path))
    BY DEF NA!FirstRoute
<1>2. ASSUME NEW path, Len(path) \in 0 .. 2
      PROVE  /\ Len(path) = 0 => third(path) = NA!Redirect
             /\ Len(path) = 2 /\ path[1] = "log-types"
                    => third(path) = NA!Route(<<"log-types", ":">>, "LogType", FALSE)
             /\ Len(path) = 1 /\ path[1] = "log-types"
                    => third(path) = NA!Route(<<"log-types">>, "LogTypes", TRUE)
    BY <1>2, SettingsRoutesFit
<1> HIDE DEF third
<1>3. ASSUME NEW path, Len(path) \in 0 .. 2
      PROVE  /\ Len(path) = 0 \/ path[1] = "log-types" => second(path) = third(path)
             /\ Len(path) = 1 /\ path[1] = "overview"
                    => second(path) = NA!Route(<<"overview">>, "Overview", TRUE)
             /\ Len(path) = 2 /\ path[1] = "detector-details"
                    => second(path)
                         = NA!Route(<<"detector-details", ":">>, "DetectorDetails", FALSE)
    BY <1>3, DetailsRoutesFit
<1> HIDE DEF second
<1>4. ASSUME NEW path, Len(path) \in 0 .. 2
      PROVE  /\ Len(path) = 0 \/ path[1] \in {"overview", "detector-details", "log-types"}
                    => NA!FirstRoute(path) = second(path)
             /\ Len(path) = 1 /\ path[1] = "detectors"
                    => NA!FirstRoute(path) = NA!Route(<<"detectors">>, "Detectors", TRUE)
             /\ Len(path) = 1 /\ path[1] = "rules"
                    => NA!FirstRoute(path) = NA!Route(<<"rules">>, "Rules", TRUE)
             /\ Len(path) = 1 /\ path[1] = "edit-rule"
                    => NA!FirstRoute(path) = NA!Route(<<"edit-rule">>, "EditRule", FALSE)
  <2>1. Len(path) \in Nat
      BY <1>4
  <2>2. NA!FirstRoute(path) = NA!FirstOf(NA!DetectorAndRuleRoutes, path, second(path))
      BY <1>1
  <2> QED
      BY <2>1, <2>2, DetectorAndRuleRoutesFit
<1>5. NA!FirstRoute(Root) = NA!Redirect
  <2>1. Len(Root) \in 0 .. 2 /\ Len(Root) = 0
      BY PathSegments
  <2> QED
      BY <1>2, <1>3, <1>4, <2>1
<1>6. NA!FirstRoute(StartPage) = NA!Route(<<"overview">>, "Overview", TRUE)
  <2>1. Len(StartPage) \in 0 .. 2 /\ Len(StartPage) = 1 /\ StartPage[1] = "overview"
      BY PathSegments DEF Segments
  <2> QED
      BY <1>3, <1>4, <2>1
<1>7. NA!FirstRoute(Detectors) = NA!Route(<<"detectors">>, "Detectors", TRUE)
  <2>1. Len(Detectors) \in 0 .. 2 /\ Len(Detectors) = 1 /\ Detectors[1] = "detectors"
      BY PathSegments DEF Segments
  <2> QED
      BY <1>4, <2>1
<1>8. NA!FirstRoute(RulesPage) = NA!Route(<<"rules">>, "Rules", TRUE)
  <2>1. Len(RulesPage) \in 0 .. 2 /\ Len(RulesPage) = 1 /\ RulesPage[1] = "rules"
      BY PathSegments DEF Segments
  <2> QED
      BY <1>4, <2>1
<1>9. NA!FirstRoute(NA!EditRule) = NA!Route(<<"edit-rule">>, "EditRule", FALSE)
  <2>1. Len(NA!EditRule) \in 0 .. 2 /\ Len(NA!EditRule) = 1 /\ NA!EditRule[1] = "edit-rule"
      BY PathSegments DEF Segments
  <2> QED
      BY <1>4, <2>1
<1>10. NA!FirstRoute(LogTypesPage) = NA!Route(<<"log-types">>, "LogTypes", TRUE)
  <2>1. Len(LogTypesPage) \in 0 .. 2 /\ Len(LogTypesPage) = 1 /\ LogTypesPage[1] = "log-types"
      BY PathSegments DEF Segments
  <2> QED
      BY <1>2, <1>3, <1>4, <2>1
<1>11. NA!FirstRoute(Details) = NA!Route(<<"detector-details", ":">>, "DetectorDetails", FALSE)
  <2>1. Len(Details) \in 0 .. 2 /\ Len(Details) = 2 /\ Details[1] = "detector-details"
      BY PathSegments DEF Segments
  <2> QED
      BY <1>3, <1>4, <2>1
<1>12. NA!FirstRoute(LogTypePage) = NA!Route(<<"log-types", ":">>, "LogType", FALSE)
  <2>1. Len(LogTypePage) \in 0 .. 2 /\ Len(LogTypePage) = 2 /\ LogTypePage[1] = "log-types"
      BY PathSegments DEF Segments
  <2> QED
      BY <1>2, <1>3, <1>4, <2>1
<1> QED
    BY <1>5, <1>6, <1>7, <1>8, <1>9, <1>10, <1>11, <1>12

\* The page of a path, and whether it is given the selected data source.
LEMMA RoutesOfPaths ==
    ASSUME NEW carry \in BOOLEAN
    PROVE  /\ NA!RouteOf(Root, carry) = NA!Redirect
           /\ NA!RouteOf(Root, carry).page = "Redirect"
           /\ NA!RouteOf(StartPage, carry).page = "Overview" /\ NA!RouteOf(StartPage, carry).reloads
           /\ NA!RouteOf(Detectors, carry).page = "Detectors"
           /\ NA!RouteOf(Detectors, carry).reloads
           /\ NA!RouteOf(RulesPage, carry).page = "Rules" /\ NA!RouteOf(RulesPage, carry).reloads
           /\ NA!RouteOf(LogTypesPage, carry).page = "LogTypes"
           /\ NA!RouteOf(LogTypesPage, carry).reloads
           /\ NA!RouteOf(Details, carry).page = "DetectorDetails"
           /\ ~NA!RouteOf(Details, carry).reloads
           /\ NA!RouteOf(LogTypePage, carry).page = "LogType"
           /\ ~NA!RouteOf(LogTypePage, carry).reloads
           /\ carry => /\ NA!RouteOf(NA!EditRule, carry).page = "EditRule"
                       /\ ~NA!RouteOf(NA!EditRule, carry).reloads
           /\ ~carry => /\ NA!RouteOf(NA!EditRule, carry).page = "Rules"
                        /\ NA!RouteOf(NA!EditRule, carry).reloads
<1>1. ASSUME NEW path, NA!FirstRoute(path).page \notin {"EditRule", "DuplicateRule"}
      PROVE  NA!RouteOf(path, carry) = NA!FirstRoute(path)
    BY <1>1 DEF NA!RouteOf
<1>2. NA!RouteOf(Root, carry) = NA!Redirect /\ NA!Redirect.page = "Redirect"
    BY <1>1, FirstRoutes DEF NA!Redirect, NA!Route
<1>3. NA!RouteOf(StartPage, carry).page = "Overview" /\ NA!RouteOf(StartPage, carry).reloads
    BY <1>1, FirstRoutes DEF NA!Route
<1>4. NA!RouteOf(Detectors, carry).page = "Detectors" /\ NA!RouteOf(Detectors, carry).reloads
    BY <1>1, FirstRoutes DEF NA!Route
<1>5. NA!RouteOf(RulesPage, carry).page = "Rules" /\ NA!RouteOf(RulesPage, carry).reloads
    BY <1>1, FirstRoutes DEF NA!Route
<1>6. NA!RouteOf(LogTypesPage, carry).page = "LogTypes" /\ NA!RouteOf(LogTypesPage, carry).reloads
    BY <1>1, FirstRoutes DEF NA!Route
<1>7. NA!RouteOf(Details, carry).page = "DetectorDetails" /\ ~NA!RouteOf(Details, carry).reloads
    BY <1>1, FirstRoutes DEF NA!Route
<1>8. NA!RouteOf(LogTypePage, carry).page = "LogType" /\ ~NA!RouteOf(LogTypePage, carry).reloads
    BY <1>1, FirstRoutes DEF NA!Route
<1>9. carry => /\ NA!RouteOf(NA!EditRule, carry).page = "EditRule"
               /\ ~NA!RouteOf(NA!EditRule, carry).reloads
    BY FirstRoutes DEF NA!RouteOf, NA!Route
<1>10. ~carry => /\ NA!RouteOf(NA!EditRule, carry).page = "Rules"
                 /\ NA!RouteOf(NA!EditRule, carry).reloads
    BY FirstRoutes DEF NA!RouteOf, NA!Route
<1> QED
    BY <1>2, <1>3, <1>4, <1>5, <1>6, <1>7, <1>8, <1>9, <1>10

\* What the proofs use of the routes.
LEMMA Routing ==
    ASSUME NEW path \in NavPaths, NEW carry \in BOOLEAN
    PROVE  /\ PageTaken(path, carry) \in NavPages
           /\ NA!RouteOf(path, carry) = NA!Redirect <=> path = Root
           /\ PageTaken(path, carry) = "Redirect" <=> path = Root
           /\ NA!RouteOf(path, carry) # NA!RouteOf(path, TRUE) <=> path = NA!EditRule /\ ~carry
           /\ path \in Plain => Follows(path, carry)
           /\ path \in Readonly => (Follows(path, carry) <=> path = NA!EditRule /\ ~carry)
           /\ \A other \in NavPaths, also \in BOOLEAN :
                 /\ PageTaken(path, carry) = PageTaken(other, also)
                 /\ path \in Readonly /\ ~Follows(path, carry)
                 => other = path
<1>1. \A p \in NavPaths : p \in {Root, StartPage, Detectors, RulesPage, LogTypesPage, Details,
                                 LogTypePage, NA!EditRule}
    BY DEF NavPaths, Plain, Readonly
<1>2. /\ Plain = {StartPage, Detectors, RulesPage, LogTypesPage}
      /\ Readonly = {Details, LogTypePage, NA!EditRule}
    BY DEF Plain, Readonly
<1>3. NA!Redirect.page = "Redirect"
    BY DEF NA!Redirect, NA!Route
<1> HIDE DEF NavPaths, Plain, Readonly
<1>4. /\ PageTaken(path, carry) \in NavPages
      /\ NA!RouteOf(path, carry) = NA!Redirect <=> path = Root
      /\ PageTaken(path, carry) = "Redirect" <=> path = Root
    BY <1>1, <1>3, RoutesOfPaths, PathsDiffer DEF PageTaken, NavPages
<1>5. NA!RouteOf(path, carry) # NA!RouteOf(path, TRUE) <=> path = NA!EditRule /\ ~carry
  <2>1. CASE carry
      BY <2>1
  <2>2. CASE ~carry /\ path = NA!EditRule
      BY <2>2, RoutesOfPaths
  <2>3. CASE ~carry /\ path # NA!EditRule
    <3>1. \A r \in BOOLEAN : NA!RouteOf(path, r) = NA!FirstRoute(path)
      <4>1. NA!FirstRoute(path).page \notin {"EditRule", "DuplicateRule"}
          BY <1>1, <2>3, FirstRoutes DEF NA!Route, NA!Redirect
      <4> QED
          BY <4>1 DEF NA!RouteOf
    <3> QED
        BY <2>3, <3>1
  <2> QED
      BY <2>1, <2>2, <2>3
<1>6. /\ path \in Plain => Follows(path, carry)
      /\ path \in Readonly => (Follows(path, carry) <=> path = NA!EditRule /\ ~carry)
    BY <1>1, <1>2, RoutesOfPaths, PathsDiffer DEF Follows
<1>7. ASSUME NEW other \in NavPaths, NEW also \in BOOLEAN,
             PageTaken(path, carry) = PageTaken(other, also),
             path \in Readonly, ~Follows(path, carry)
      PROVE  other = path
  <2>1. /\ path = Details => PageTaken(path, carry) = "DetectorDetails"
        /\ path = LogTypePage => PageTaken(path, carry) = "LogType"
        /\ path = NA!EditRule => PageTaken(path, carry) = "EditRule"
      BY <1>6, <1>7, RoutesOfPaths DEF PageTaken
  <2>2. /\ PageTaken(other, also) = "DetectorDetails" => other = Details
        /\ PageTaken(other, also) = "LogType" => other = LogTypePage
        /\ PageTaken(other, also) = "EditRule" => other = NA!EditRule
    <3>1. other \in {Root, StartPage, Detectors, RulesPage, LogTypesPage, Details, LogTypePage,
                     NA!EditRule}
        BY <1>1
    <3> QED
        BY <3>1, RoutesOfPaths DEF PageTaken
  <2> QED
      BY <1>2, <1>7, <2>1, <2>2
<1> QED
    BY <1>4, <1>5, <1>6, <1>7

\* The paths that only show the data source they name, and what they go back to.
Parent(path) ==
    IF path = Details THEN Detectors ELSE IF path = LogTypePage THEN LogTypesPage ELSE RulesPage

ReadonlyPatterns == NA!ReadonlyToDetectors \cup {NA!EditRule} \cup NA!ReadonlyOfLists

LEMMA PatternSegments ==
    /\ NA!EditRule[1] = "edit-rule" /\ NA!EditRule \notin NA!ReadonlyToDetectors
    /\ \A q \in NA!ReadonlyToDetectors :
          /\ Segments(q, 1)
          /\ q[1] \in {"edit-alert-triggers", "edit-detector-details", "edit-detector-rules",
                       "edit-field-mappings", "detector-details"}
          /\ q[1] = "detector-details" <=> q = <<"detector-details">>
    /\ \A q \in NA!ReadonlyOfLists :
          /\ Len(q) \in 1 .. 2 /\ Segments(q, Len(q))
          /\ q[1] \in {"correlations", "log-types", "alerts", "findings", "threat-intel-source",
                       "edit-scan-config"}
          /\ q[1] = "log-types" <=> q = <<"log-types", ":">>
          /\ q \notin NA!ReadonlyToDetectors /\ q # NA!EditRule
<1>1. ASSUME NEW q \in NA!ReadonlyToDetectors
      PROVE  /\ Segments(q, 1)
             /\ q[1] \in {"edit-alert-triggers", "edit-detector-details", "edit-detector-rules",
                          "edit-field-mappings", "detector-details"}
             /\ q[1] = "detector-details" <=> q = <<"detector-details">>
  <2>1. CASE q = <<"edit-alert-triggers">>
      BY <2>1 DEF Segments
  <2>2. CASE q = <<"edit-detector-details">>
      BY <2>2 DEF Segments
  <2>3. CASE q = <<"edit-detector-rules">>
      BY <2>3 DEF Segments
  <2>4. CASE q = <<"edit-field-mappings">>
      BY <2>4 DEF Segments
  <2>5. CASE q = <<"detector-details">>
      BY <2>5 DEF Segments
  <2> QED
      BY <2>1, <2>2, <2>3, <2>4, <2>5 DEF NA!ReadonlyToDetectors
<1>2. NA!EditRule[1] = "edit-rule"
    BY DEF NA!EditRule
<1>3. ASSUME NEW q \in NA!ReadonlyOfLists
      PROVE  /\ Len(q) \in 1 .. 2 /\ Segments(q, Len(q))
             /\ q[1] \in {"correlations", "log-types", "alerts", "findings",
                          "threat-intel-source", "edit-scan-config"}
             /\ q[1] = "log-types" <=> q = <<"log-types", ":">>
  <2>1. CASE q = <<"correlations", "rule">>
      BY <2>1 DEF Segments
  <2>2. CASE q = <<"log-types", ":">>
      BY <2>2 DEF Segments
  <2>3. CASE q = <<"alerts", ":">>
      BY <2>3 DEF Segments
  <2>4. CASE q = <<"findings", ":">>
      BY <2>4 DEF Segments
  <2>5. CASE q = <<"threat-intel-source", ":">>
      BY <2>5 DEF Segments
  <2>6. CASE q = <<"edit-scan-config">>
      BY <2>6 DEF Segments
  <2> QED
      BY <2>1, <2>2, <2>3, <2>4, <2>5, <2>6 DEF NA!ReadonlyOfLists
<1>4. NA!EditRule \notin NA!ReadonlyToDetectors
    BY <1>1, <1>2
<1>5. \A q \in NA!ReadonlyOfLists : q \notin NA!ReadonlyToDetectors /\ q # NA!EditRule
    BY <1>1, <1>2, <1>3
<1> QED
    BY <1>1, <1>2, <1>3, <1>4, <1>5

LEMMA ReadonlyPaths ==
    /\ NA!MatchedPaths(Root) = {}
    /\ \A path \in Plain : NA!MatchedPaths(path) = {}
    /\ NA!MatchedPaths(Details) = {<<"detector-details">>}
    /\ NA!MatchedPaths(LogTypePage) = {<<"log-types", ":">>}
    /\ NA!MatchedPaths(NA!EditRule) = {NA!EditRule}
<1>1. \A path : NA!MatchedPaths(path) = {q \in ReadonlyPatterns : NA!Matches(q, path)}
    BY DEF NA!MatchedPaths, NA!ParentOf, ReadonlyPatterns
<1>2. \A q \in ReadonlyPatterns :
         \/ q \in NA!ReadonlyToDetectors
         \/ q = NA!EditRule
         \/ q \in NA!ReadonlyOfLists
    BY DEF ReadonlyPatterns
<1>3. ASSUME NEW q \in ReadonlyPatterns, NEW path, Len(path) \in 0 .. 2, NA!Matches(q, path)
      PROVE  /\ Len(q) \in 1 .. 2 /\ Segments(q, Len(q)) /\ Len(q) <= Len(path)
             /\ q[1] = path[1] /\ q[1] # ":"
  <2>1. Len(q) \in 1 .. 2 /\ Segments(q, Len(q)) /\ q[1] # ":"
      BY <1>2, PatternSegments, PathSegments DEF Segments
  <2> QED
      BY <1>3, <2>1 DEF NA!Matches, Segments
<1>4. NA!MatchedPaths(Root) = {}
    BY <1>1, <1>3, PathSegments
<1>5. ASSUME NEW path \in Plain PROVE NA!MatchedPaths(path) = {}
  <2>1. Len(path) = 1 /\ path[1] \in {"overview", "detectors", "rules", "log-types"}
      BY PathSegments DEF Plain, Segments
  <2>2. ASSUME NEW q \in ReadonlyPatterns, NA!Matches(q, path) PROVE FALSE
    <3>1. Len(q) = 1 /\ q[1] = path[1]
        BY <1>3, <2>1, <2>2
    <3>2. q[1] = "log-types" /\ q \in NA!ReadonlyOfLists
        BY <1>2, <2>1, <3>1, PatternSegments
    <3>3. q = <<"log-types", ":">>
        BY <3>2, PatternSegments
    <3>4. Len(<<"log-types", ":">>) = 2
        OBVIOUS
    <3> QED
        BY <3>1, <3>3, <3>4
  <2> QED
      BY <1>1, <2>2
<1>6. NA!MatchedPaths(Details) = {<<"detector-details">>}
  <2>1. \A q \in ReadonlyPatterns : NA!Matches(q, Details) => q = <<"detector-details">>
    <3>1. \A q \in ReadonlyPatterns : NA!Matches(q, Details) => q[1] = "detector-details"
        BY <1>3, PathSegments DEF Segments
    <3> QED
        BY <1>2, <3>1, PatternSegments
  <2>2. <<"detector-details">> \in ReadonlyPatterns
      BY DEF ReadonlyPatterns, NA!ReadonlyToDetectors
  <2>3. NA!Matches(<<"detector-details">>, Details)
      BY DEF NA!Matches, Details
  <2> QED
      BY <1>1, <2>1, <2>2, <2>3
<1>7. NA!MatchedPaths(LogTypePage) = {<<"log-types", ":">>}
  <2>1. \A q \in ReadonlyPatterns : NA!Matches(q, LogTypePage) => q = <<"log-types", ":">>
    <3>1. \A q \in ReadonlyPatterns : NA!Matches(q, LogTypePage) => q[1] = "log-types"
        BY <1>3, PathSegments DEF Segments
    <3> QED
        BY <1>2, <3>1, PatternSegments
  <2>2. <<"log-types", ":">> \in ReadonlyPatterns
      BY DEF ReadonlyPatterns, NA!ReadonlyOfLists
  <2>3. NA!Matches(<<"log-types", ":">>, LogTypePage)
      BY DEF NA!Matches, LogTypePage
  <2> QED
      BY <1>1, <2>1, <2>2, <2>3
<1>8. NA!MatchedPaths(NA!EditRule) = {NA!EditRule}
  <2>1. \A q \in ReadonlyPatterns : NA!Matches(q, NA!EditRule) => q = NA!EditRule
    <3>1. \A q \in ReadonlyPatterns : NA!Matches(q, NA!EditRule) => q[1] = "edit-rule"
        BY <1>3, PathSegments DEF Segments
    <3> QED
        BY <1>2, <3>1, PatternSegments
  <2>2. NA!EditRule \in ReadonlyPatterns
      BY DEF ReadonlyPatterns
  <2>3. NA!Matches(NA!EditRule, NA!EditRule)
      BY DEF NA!Matches, NA!EditRule
  <2> QED
      BY <1>1, <2>1, <2>2, <2>3
<1> QED
    BY <1>4, <1>5, <1>6, <1>7, <1>8

LEMMA Parents ==
    /\ NA!ParentOf[<<"detector-details">>] = Detectors
    /\ NA!ParentOf[<<"log-types", ":">>] = LogTypesPage
    /\ NA!ParentOf[NA!EditRule] = RulesPage
<1>1. /\ <<"detector-details">> \in NA!ReadonlyToDetectors
      /\ <<"log-types", ":">> \in NA!ReadonlyOfLists
    BY DEF NA!ReadonlyToDetectors, NA!ReadonlyOfLists
<1>2. /\ NA!EditRule \notin NA!ReadonlyToDetectors
      /\ <<"log-types", ":">> \notin NA!ReadonlyToDetectors /\ <<"log-types", ":">> # NA!EditRule
    BY <1>1, PatternSegments
<1>3. <<"log-types", ":">>[1] = "log-types"
    OBVIOUS
<1>4. NA!ParentOf[<<"detector-details">>] = Detectors
    BY <1>1 DEF NA!ParentOf, Detectors
<1>5. NA!ParentOf[<<"log-types", ":">>] = LogTypesPage
    BY <1>1, <1>2, <1>3 DEF NA!ParentOf, LogTypesPage
<1>6. NA!ParentOf[NA!EditRule] = RulesPage
    BY <1>2 DEF NA!ParentOf, RulesPage
<1> QED
    BY <1>4, <1>5, <1>6

LEMMA ReadonlyIs ==
    ASSUME NEW path \in NavPaths
    PROVE  /\ NA!IsReadonly(path) <=> path \in Readonly
           /\ \A q \in NA!MatchedPaths(path) : NA!ParentOf[q] = Parent(path)
           /\ path \in Readonly =>
                 NA!ParentOf[CHOOSE q \in NA!MatchedPaths(path) : TRUE] = Parent(path)
           /\ Parent(path) \in Plain
<1>1. NavPaths = {Root} \cup Plain \cup Readonly /\ Readonly = {Details, LogTypePage, NA!EditRule}
    BY DEF NavPaths, Readonly
<1>2. Plain = {StartPage, Detectors, RulesPage, LogTypesPage}
    BY DEF Plain
<1>3. Parent(path) \in Plain
    BY <1>2 DEF Parent
<1>4. ASSUME path \in Readonly
      PROVE  /\ NA!MatchedPaths(path) # {}
             /\ \A q \in NA!MatchedPaths(path) : NA!ParentOf[q] = Parent(path)
    BY <1>1, <1>4, ReadonlyPaths, Parents, PathsDiffer DEF Parent
<1>5. ASSUME path \notin Readonly
      PROVE  NA!MatchedPaths(path) = {}
    BY <1>1, <1>5, ReadonlyPaths
<1>6. path \in Readonly => NA!ParentOf[CHOOSE q \in NA!MatchedPaths(path) : TRUE] = Parent(path)
    BY <1>4
<1> QED
    BY <1>3, <1>4, <1>5, <1>6 DEF NA!IsReadonly

\* The items of the side navigation that the user opens.
LEMMA ItemsOpened ==
    ASSUME NEW path \in NA!SideNav,
           path \in {<<"overview">>, <<"detectors">>, <<"detector-details", "d">>,
                     <<"log-types", "l">>, <<"edit-rule">>}
    PROVE  /\ path \in Plain /\ NA!NavItemOf(path) = path
<1>1. \A q \in NA!SideNav : Len(q) = 1 \/ q[1] = "correlations"
    BY DEF NA!SideNav
<1>2. <<"edit-rule">> \notin NA!SideNav
    BY DEF NA!SideNav
<1>3. path \notin {Details, LogTypePage}
    BY <1>1, PathSegments DEF Segments
<1>4. path \in {StartPage, Detectors}
    BY <1>2, <1>3 DEF StartPage, Detectors, Details, LogTypePage
<1>5. NA!NavItemOf(StartPage) = StartPage /\ NA!NavItemOf(Detectors) = Detectors
    BY DEF NA!NavItemOf, StartPage, Detectors
<1> QED
    BY <1>4, <1>5 DEF Plain

\* What rendering Main does: it takes the data source that the path names, and replaces the
\* location for one of four reasons.
Taking == Path \in Readonly /\ Ds # NA!Unset /\ ~Given
Lands == loading = "no" /\ Path = Root /\ page # "Redirect"
Ruleless == loading = "no" /\ Path = NA!EditRule /\ ~ruleItem
Nameless == Path \in Readonly /\ Ds = NA!Unset

LEMMA Typing ==
    ASSUME NavTyped
    PROVE  /\ Path \in NavPaths /\ Ds \in Sources /\ entries[at] = [path |-> Path, ds |-> Ds]
           /\ pending.id \in Sources /\ selected.id \in Sources /\ ruleItem \in BOOLEAN
           /\ NA!Unset \notin DataSources
<1>1. entries[at] \in Locations
    BY ElementOfSeq DEF NavTyped
<1>2. /\ Path \in NavPaths /\ Ds \in Sources /\ entries[at] = [path |-> Path, ds |-> Ds]
    BY <1>1 DEF Locations, Path, Ds
<1>3. pending.id \in Sources /\ selected.id \in Sources
    BY DEF NavTyped, NA!Options, Sources
<1> QED
    BY <1>2, <1>3, MCPagesAssumption DEF NavTyped

LEMMA RenderIs ==
    ASSUME NavTyped, NA!Render
    PROVE  /\ dirty
           /\ Taking => active' = Ds /\ pending' = NA!Option(Ds, NA!Unset) /\ told' = TRUE
           /\ ~Taking => active' = active /\ pending' = pending /\ told' = told
           /\ Moving => /\ entries' = [entries EXCEPT ![at] = [path |-> Path, ds |-> active']]
                        /\ ruleItem' = ruleItem
           /\ ~Moving /\ Lands =>
                 /\ entries' = [entries EXCEPT ![at] = [path |-> StartPage, ds |-> active']]
                 /\ ruleItem' = FALSE
           /\ ~Moving /\ ~Lands /\ Ruleless =>
                 /\ entries' = [entries EXCEPT ![at] = [path |-> RulesPage, ds |-> active']]
                 /\ ruleItem' = FALSE
           /\ ~Moving /\ ~Lands /\ ~Ruleless /\ Nameless =>
                 /\ entries' = [entries EXCEPT ![at] = [path |-> Parent(Path), ds |-> active']]
                 /\ ruleItem' = FALSE
           /\ ~Moving /\ ~Lands /\ ~Ruleless /\ ~Nameless => UNCHANGED <<entries, ruleItem>>
           /\ selected' = pending /\ shown' = Path
           /\ page' = IF loading = "no" THEN PageTaken(Path, ruleItem) ELSE NA!Unset
           /\ loadedFrom' = IF /\ loading = "no"
                               /\ \/ PageTaken(Path, ruleItem) # page
                                  \/ Follows(Path, ruleItem) /\ pending # selected
                            THEN active' ELSE loadedFrom
           /\ navItem' = NA!NavItemAfter(Path, page')
           /\ dirty' \in BOOLEAN
           /\ dirty' <=> Taking \/ Moving \/ Lands \/ Ruleless \/ Nameless
           /\ renders' = renders + 1 /\ UNCHANGED <<at, loading, aimed>>
<1> USE DEF Path, Ds
<1>1. Path \in NavPaths /\ ruleItem \in BOOLEAN
    BY Typing
<1> DEFINE route == NA!RouteOf(Path, ruleItem)
           takes == NA!IsReadonly(Path) /\ Ds # NA!Unset
           ruleless == loading = "no" /\ route # NA!RouteOf(Path, TRUE)
           lands == loading = "no" /\ route = NA!Redirect /\ page # "Redirect"
           nameless == NA!IsReadonly(Path) /\ Ds = NA!Unset
<1>2. /\ takes <=> Path \in Readonly /\ Ds # NA!Unset
      /\ nameless <=> Nameless
      /\ ruleless <=> Ruleless
      /\ lands <=> Lands
  <2>1. NA!IsReadonly(Path) <=> Path \in Readonly
      BY <1>1, ReadonlyIs
  <2>2. /\ route # NA!RouteOf(Path, TRUE) <=> Path = NA!EditRule /\ ~ruleItem
        /\ route = NA!Redirect <=> Path = Root
      BY <1>1, Routing
  <2> HIDE DEF route, Path, Ds
  <2> QED
      BY <2>1, <2>2 DEF Nameless, Ruleless, Lands
<1>3. /\ dirty
      /\ IF takes THEN NA!OnDataSourceSelected(NA!Option(Ds, NA!Unset), pending)
         ELSE UNCHANGED <<active, pending, told>>
      /\ IF NA!Moved(Path, pending) THEN NA!Replace(Path, ruleItem, pending.id)
         ELSE IF lands THEN NA!Replace(NA!Landing, FALSE, NA!Unset)
         ELSE IF ruleless THEN NA!Replace(<<"rules">>, FALSE, NA!Unset)
         ELSE IF nameless
              THEN NA!Replace(NA!ParentOf[CHOOSE p \in NA!MatchedPaths(Path) : TRUE], FALSE,
                              NA!Unset)
         ELSE UNCHANGED <<entries, ruleItem>>
      /\ selected' = pending /\ shown' = Path
      /\ page' = IF loading = "no" THEN route.page ELSE NA!Unset
      /\ loadedFrom' = IF /\ loading = "no"
                          /\ route.page # page \/ (route.reloads /\ pending # selected)
                       THEN active' ELSE loadedFrom
      /\ navItem' = NA!NavItemAfter(Path, page')
      /\ dirty' = (pending' # pending \/ NA!Moved(Path, pending) \/ lands \/ ruleless \/ nameless)
      /\ renders' = renders + 1 /\ UNCHANGED <<at, loading, aimed>>
    BY DEF NA!Render
<1> HIDE DEF route, takes, ruleless, lands, nameless, Path, Ds
<1>4. /\ Taking => active' = Ds /\ pending' = NA!Option(Ds, NA!Unset) /\ told' = TRUE
      /\ ~Taking => active' = active /\ pending' = pending /\ told' = told
      /\ Taking => pending' # pending
  <2>1. CASE Taking
      BY <1>2, <1>3, <2>1 DEF Taking, Given, NA!OnDataSourceSelected, NA!Option
  <2>2. CASE ~Taking /\ takes
      BY <1>2, <1>3, <2>2 DEF Taking, Given, NA!OnDataSourceSelected
  <2>3. CASE ~Taking /\ ~takes
      BY <1>3, <2>3
  <2> QED
      BY <2>1, <2>2, <2>3
<1>5. Nameless => NA!ParentOf[CHOOSE p \in NA!MatchedPaths(Path) : TRUE] = Parent(Path)
    BY <1>1, ReadonlyIs DEF Nameless
<1>6. /\ Moving => /\ entries' = [entries EXCEPT ![at] = [path |-> Path, ds |-> active']]
                   /\ ruleItem' = ruleItem
      /\ ~Moving /\ Lands =>
            /\ entries' = [entries EXCEPT ![at] = [path |-> StartPage, ds |-> active']]
            /\ ruleItem' = FALSE
      /\ ~Moving /\ ~Lands /\ Ruleless =>
            /\ entries' = [entries EXCEPT ![at] = [path |-> RulesPage, ds |-> active']]
            /\ ruleItem' = FALSE
      /\ ~Moving /\ ~Lands /\ ~Ruleless /\ Nameless =>
            /\ entries' = [entries EXCEPT ![at] = [path |-> Parent(Path), ds |-> active']]
            /\ ruleItem' = FALSE
      /\ ~Moving /\ ~Lands /\ ~Ruleless /\ ~Nameless => UNCHANGED <<entries, ruleItem>>
    BY <1>2, <1>3, <1>5 DEF Moving, NA!Replace, NA!WithDataSource, NA!Landing, StartPage, RulesPage
<1>7. /\ dirty' \in BOOLEAN
      /\ dirty' <=> Taking \/ Moving \/ Lands \/ Ruleless \/ Nameless
  <2>1. pending' # pending <=> Taking
      BY <1>4
  <2>2. dirty' = (pending' # pending \/ Moving \/ lands \/ ruleless \/ nameless)
      BY <1>3 DEF Moving
  <2> QED
      BY <1>2, <2>1, <2>2
<1>8. /\ page' = IF loading = "no" THEN PageTaken(Path, ruleItem) ELSE NA!Unset
      /\ loadedFrom' = IF /\ loading = "no"
                          /\ \/ PageTaken(Path, ruleItem) # page
                             \/ Follows(Path, ruleItem) /\ pending # selected
                       THEN active' ELSE loadedFrom
    BY <1>3 DEF PageTaken, Follows, route
<1> QED
    BY <1>3, <1>4, <1>6, <1>7, <1>8

\* Where that leaves the history.
LEMMA RenderGoes ==
    ASSUME NavTyped, NA!Render
    PROVE  /\ entries' \in Seq(Locations) /\ Len(entries') = Len(entries)
           /\ at' \in 1 .. Len(entries)
           /\ at' = at /\ active' \in DataSources
           /\ \A i \in 1 .. Len(entries) : i # at => entries'[i] = entries[i]
           /\ Moving => Path' = Path /\ Ds' = active' /\ ruleItem' = ruleItem
           /\ ~Moving /\ Lands => Path' = StartPage /\ Ds' = active' /\ ruleItem' = FALSE
           /\ ~Moving /\ ~Lands /\ Ruleless =>
                 Path' = RulesPage /\ Ds' = active' /\ ruleItem' = FALSE
           /\ ~Moving /\ ~Lands /\ ~Ruleless /\ Nameless =>
                 Path' = Parent(Path) /\ Ds' = active' /\ ruleItem' = FALSE
           /\ ~Moving /\ ~Lands /\ ~Ruleless /\ ~Nameless =>
                 Path' = Path /\ Ds' = Ds /\ ruleItem' = ruleItem
<1>1. /\ entries \in Seq(Locations) /\ at \in 1 .. Len(entries) /\ at' = at
    BY RenderIs DEF NavTyped
<1>2. active' \in DataSources
    BY RenderIs, Typing DEF NavTyped, Taking, Sources
<1>3. ASSUME NEW p \in NavPaths,
             entries' = [entries EXCEPT ![at] = [path |-> p, ds |-> active']]
      PROVE  /\ entries' \in Seq(Locations) /\ Len(entries') = Len(entries)
             /\ \A i \in 1 .. Len(entries) : i # at => entries'[i] = entries[i]
             /\ Path' = p /\ Ds' = active'
  <2>1. [path |-> p, ds |-> active'] \in Locations
      BY <1>2 DEF Locations, Sources
  <2>2. /\ entries' \in Seq(Locations) /\ Len(entries') = Len(entries)
        /\ entries'[at] = [path |-> p, ds |-> active']
        /\ \A i \in 1 .. Len(entries) : i # at => entries'[i] = entries[i]
      BY <1>1, <1>3, <2>1, ExceptSeq
  <2> QED
      BY <1>1, <2>2 DEF Path, Ds
<1>4. /\ Path \in NavPaths /\ StartPage \in NavPaths /\ RulesPage \in NavPaths
      /\ Parent(Path) \in NavPaths
    BY Typing, ReadonlyIs DEF NavPaths, Plain
<1>5. CASE Moving
    BY <1>1, <1>2, <1>3, <1>4, <1>5, RenderIs
<1>6. CASE ~Moving /\ Lands
    BY <1>1, <1>2, <1>3, <1>4, <1>6, RenderIs
<1>7. CASE ~Moving /\ ~Lands /\ Ruleless
    BY <1>1, <1>2, <1>3, <1>4, <1>7, RenderIs
<1>8. CASE ~Moving /\ ~Lands /\ ~Ruleless /\ Nameless
    BY <1>1, <1>2, <1>3, <1>4, <1>8, RenderIs
<1>9. CASE ~Moving /\ ~Lands /\ ~Ruleless /\ ~Nameless
  <2>1. entries' = entries /\ ruleItem' = ruleItem
      BY <1>9, RenderIs
  <2>2. Path' = Path /\ Ds' = Ds
      BY <1>1, <2>1 DEF Path, Ds
  <2> QED
      BY <1>1, <1>2, <1>9, <2>1, <2>2
<1> QED
    BY <1>5, <1>6, <1>7, <1>8, <1>9

\* What the page was, at a path.
LEMMA PathsApart ==
    /\ Root \notin Plain /\ Root \notin Readonly
    /\ \A path \in Plain : path \notin Readonly /\ path # NA!EditRule /\ path # Root
    /\ NA!EditRule \in Readonly
    /\ StartPage \in Plain /\ RulesPage \in Plain /\ \A path : Parent(path) \in Plain
    /\ NavPaths = {Root} \cup Plain \cup Readonly
    /\ NA!NotMounted \notin NavPaths /\ NA!Unset \notin NavPages
BY PathsDiffer DEF Plain, Readonly, NavPaths, Parent, NavPages, NA!Unset

\* The location stays on a path that is not a list's, and comes from it.
LEMMA RenderStays ==
    ASSUME NavInv, NA!Render, Path' \notin Plain
    PROVE  /\ Path' = Path /\ ruleItem' = ruleItem
           /\ Moving \/ (~Lands /\ ~Ruleless /\ ~Nameless)
           /\ Moving => Ds' = active'
           /\ ~Moving => Ds' = Ds
<1>1. NavTyped
    BY DEF NavInv
<1> QED
    BY <1>1, RenderGoes, PathsApart

LEMMA RenderTypes ==
    ASSUME NavInv, NA!Render
    PROVE  NavTyped'
<1>1. NavTyped
    BY DEF NavInv
<1>2. /\ entries' \in Seq(Locations) /\ at' \in 1 .. Len(entries') /\ active' \in DataSources
    BY <1>1, RenderGoes
<1>3. Path \in NavPaths /\ Ds \in Sources /\ ruleItem \in BOOLEAN
    BY <1>1, Typing
<1>4. selected' \in NA!Options /\ pending' \in NA!Options
  <2>1. selected' = pending /\ pending \in NA!Options
      BY <1>1, RenderIs DEF NavTyped
  <2>2. NA!Option(Ds, NA!Unset) \in NA!Options
      BY <1>3 DEF NA!Options, NA!Option, Sources
  <2>3. pending' \in {pending, NA!Option(Ds, NA!Unset)}
      BY <1>1, RenderIs
  <2> QED
      BY <2>1, <2>2, <2>3
<1>5. loadedFrom' \in Sources /\ loading' \in {"yes", "ending", "no"}
    BY <1>1, <1>2, RenderIs DEF NavTyped, Sources
<1>6. shown' \in NavPaths \cup {NA!NotMounted} /\ page' \in NavPages \cup {NA!Unset}
    BY <1>1, <1>3, RenderIs, Routing
<1>7. ruleItem' \in BOOLEAN /\ dirty' \in BOOLEAN
    BY <1>1, <1>3, RenderIs, RenderGoes
<1>8. told' \in BOOLEAN
  <2>1. CASE Taking
      BY <1>1, <2>1, RenderIs
  <2>2. CASE ~Taking
      BY <1>1, <2>2, RenderIs DEF NavTyped
  <2> QED
      BY <2>1, <2>2
<1>9. renders' \in Nat /\ aimed' \in [path : NavPaths, by : Ways]
  <2>1. renders' = renders + 1 /\ aimed' = aimed
      BY <1>1, RenderIs
  <2> QED
      BY <1>1, <2>1 DEF NavTyped
<1> QED
    BY <1>2, <1>4, <1>5, <1>6, <1>7, <1>8, <1>9 DEF NavTyped

LEMMA RenderRendered ==
    ASSUME NavInv, NA!Render
    PROVE  NavRendered'
<1> SUFFICES ASSUME ~dirty'
             PROVE  /\ selected' = pending' /\ shown' = Path'
                    /\ Path' \in Readonly => Ds' = pending'.id
                    /\ loading' = "no" => page' = PageTaken(Path', ruleItem') /\ Path' # Root
    BY DEF NavRendered
<1>1. NavTyped /\ NavOpening
    BY DEF NavInv
<1>2. ~Taking /\ ~Moving /\ ~Lands /\ ~Ruleless /\ ~Nameless
    BY <1>1, RenderIs
<1>3. Path' = Path /\ Ds' = Ds /\ ruleItem' = ruleItem
    BY <1>1, <1>2, RenderGoes
<1>4. pending' = pending /\ selected' = pending /\ shown' = Path /\ loading' = loading
    BY <1>1, <1>2, RenderIs
<1>5. Path \in Readonly => Ds = pending.id
  <2>1. Path \in Readonly => pending = NA!Option(Ds, NA!Unset)
      BY <1>2 DEF Taking, Nameless, Given
  <2> QED
      BY <2>1 DEF NA!Option
<1>6. loading = "no" => page' = PageTaken(Path, ruleItem)
    BY <1>1, RenderIs
<1>7. loading = "no" => Path # Root
  <2>1. Path = Root => page = NA!Unset
      BY <1>1 DEF NavOpening, NavTyped, Path
  <2> QED
      BY <1>2, <2>1 DEF Lands, NA!Unset
<1> QED
    BY <1>3, <1>4, <1>5, <1>6, <1>7

LEMMA RenderOpening ==
    ASSUME NavInv, NA!Render
    PROVE  NavOpening'
<1>1. NavTyped /\ NavOpening
    BY DEF NavInv
<1>2. Path \in NavPaths /\ Ds \in Sources
    BY <1>1, Typing
<1>3. /\ Len(entries') = Len(entries) /\ at' = at /\ selected' = pending /\ shown' = Path
      /\ loading' = loading /\ aimed' = aimed /\ shown' # NA!NotMounted
    BY <1>1, <1>2, RenderIs, RenderGoes, PathsApart
<1>4. loading' # "no" => page' = NA!Unset /\ Len(entries') = 1
    BY <1>1, <1>3, RenderIs DEF NavOpening
<1>5. loading' = "yes" =>
          /\ selected' = NA!Option(NA!Unset, NA!Unset) /\ pending' = selected'
          /\ Path' \in Readonly => Ds' = NA!Unset /\ shown' = NA!NotMounted
  <2> HAVE loading' = "yes"
  <2>1. /\ loading = "yes" /\ selected = NA!Option(NA!Unset, NA!Unset) /\ pending = selected
        /\ Path \in Readonly => Ds = NA!Unset /\ shown = NA!NotMounted
      BY <1>1, <1>3 DEF NavOpening
  <2>2. ~Taking
      BY <2>1 DEF Taking
  <2>3. pending' = pending
      BY <1>1, <2>2, RenderIs
  <2>4. ASSUME Path' \in Readonly PROVE FALSE
    <3>1. Path' = Path /\ (Moving \/ ~Nameless)
        BY <2>4, RenderStays, PathsApart
    <3>2. Nameless /\ shown = NA!NotMounted
        BY <2>1, <2>4, <3>1 DEF Nameless
    <3> QED
        BY <3>1, <3>2 DEF Moving, NA!Moved
  <2> QED
      BY <1>3, <2>1, <2>3, <2>4
<1>6. loading' = "ending" => Path' \notin Readonly
    BY <1>1, <1>3, RenderStays, PathsApart DEF NavOpening
<1>7. loading' # "yes" => pending'.id # NA!Unset
  <2>1. CASE Taking
      BY <1>1, <2>1, RenderIs DEF Taking, NA!Option
  <2>2. CASE ~Taking
      BY <1>1, <1>3, <2>2, RenderIs DEF NavOpening
  <2> QED
      BY <2>1, <2>2
<1>8. ASSUME NEW i \in 1 .. Len(entries'), entries'[i].path = Root
      PROVE  /\ Len(entries') = 1 /\ page' = NA!Unset /\ aimed'.by = "open"
             /\ shown' \in {NA!NotMounted, Root}
             /\ loading' = "no" => ~Moving'
  <2>1. i = at => Path' = Root
      BY <1>3, <1>8 DEF Path
  <2>2. i # at => entries[i].path = Root
      BY <1>1, <1>3, <1>8, RenderGoes
  <2>3. i = at => Path = Root
      BY <2>1, RenderStays, PathsApart
  <2>4. entries[i].path = Root
      BY <2>2, <2>3 DEF Path
  <2>5. /\ Len(entries) = 1 /\ page = NA!Unset /\ aimed.by = "open"
        /\ shown \in {NA!NotMounted, Root}
        /\ loading = "no" => ~Moving
      BY <1>1, <1>3, <2>4 DEF NavOpening
  <2>6. i = at
      BY <1>1, <1>3, <2>5 DEF NavTyped
  <2>7. loading # "no"
    <3>1. ASSUME loading = "no" PROVE FALSE
      <4>1. Lands /\ ~Moving
          BY <2>3, <2>5, <2>6, <3>1 DEF Lands, NA!Unset
      <4>2. Path' = StartPage
          BY <1>1, <4>1, RenderGoes
      <4> QED
          BY <2>1, <2>6, <4>2, PathsApart
    <3> QED
        BY <3>1
  <2> QED
      BY <1>3, <1>4, <2>3, <2>5, <2>6, <2>7
<1> QED
    BY <1>3, <1>4, <1>5, <1>6, <1>7, <1>8 DEF NavOpening

LEMMA RenderEntries ==
    ASSUME NavInv, NA!Render
    PROVE  NavEntries'
<1>1. NavTyped /\ NavEntries
    BY DEF NavInv
<1>2. /\ Len(entries') = Len(entries) /\ at' = at /\ at \in 1 .. Len(entries)
      /\ \A i \in 1 .. Len(entries) : i # at => entries'[i] = entries[i]
    BY <1>1, RenderGoes
<1>3. ASSUME NEW i \in 1 .. Len(entries'), i # at', entries'[i].path \in Readonly
      PROVE  entries'[i].ds # NA!Unset
    BY <1>1, <1>2, <1>3 DEF NavEntries
<1>4. ASSUME NEW i \in 1 .. Len(entries') - 1, entries'[i].path = entries'[i + 1].path,
             entries'[i].path \in Readonly
      PROVE  FALSE
  <2>1. i \in 1 .. Len(entries) - 1 /\ i \in 1 .. Len(entries) /\ i + 1 \in 1 .. Len(entries)
      BY <1>1, <1>2 DEF NavTyped
  <2>2. ASSUME NEW j \in 1 .. Len(entries), entries'[j].path \in Readonly
        PROVE  entries'[j].path = entries[j].path
    <3>1. CASE j # at
        BY <1>2, <3>1
    <3>2. CASE j = at
      <4>1. Path' \in Readonly
          BY <1>2, <2>2, <3>2 DEF Path
      <4>2. Path' = Path
          BY <4>1, RenderStays, PathsApart
      <4> QED
          BY <1>2, <3>2, <4>2 DEF Path
    <3> QED
        BY <3>1, <3>2
  <2>3. entries[i].path = entries[i + 1].path /\ entries[i].path \in Readonly
      BY <1>4, <2>1, <2>2
  <2>4. i + 1 = at /\ Ds = NA!Unset /\ shown = Path /\ pending.id = selected.id
      BY <1>1, <2>1, <2>3 DEF NavEntries
  <2>5. ~Moving /\ Nameless
      BY <2>3, <2>4 DEF Moving, NA!Moved, Nameless, Path
  <2>6. Path' \in Readonly
      BY <1>2, <1>4, <2>4 DEF Path
  <2> QED
      BY <2>5, <2>6, RenderStays, PathsApart
<1> QED
    BY <1>3, <1>4 DEF NavEntries

LEMMA RenderSources ==
    ASSUME NavInv, NA!Render
    PROVE  NavSources'
<1>1. NavTyped /\ NavSources
    BY DEF NavInv
<1>2. /\ Path \in NavPaths /\ Ds \in Sources /\ ruleItem \in BOOLEAN
      /\ NA!Unset \notin DataSources /\ active' \in DataSources /\ dirty /\ loading' = loading
      /\ selected' = pending
    BY <1>1, Typing, RenderIs, RenderGoes
<1> DEFINE taken == PageTaken(Path, ruleItem)
           again == Follows(Path, ruleItem)
<1>3. page' = IF loading = "no" THEN taken ELSE NA!Unset
    BY <1>1, RenderIs
<1>4. loadedFrom' = IF loading = "no" /\ (taken # page \/ (again /\ pending # selected))
                    THEN active' ELSE loadedFrom
    BY <1>1, RenderIs
<1>5. /\ Taking => /\ active' = Ds /\ pending' = NA!Option(Ds, NA!Unset) /\ pending' # pending
                   /\ Path \in Readonly /\ Ds # NA!Unset
      /\ ~Taking => active' = active /\ pending' = pending /\ told' = told
    BY <1>1, RenderIs DEF Taking, Given
<1>6. /\ taken \in NavPages /\ NA!Unset \notin NavPages
      /\ Path \in Plain => again
      /\ Path \in Readonly => (again <=> Path = NA!EditRule /\ ~ruleItem)
      /\ Path = Root <=> taken = "Redirect"
      /\ Path \in Plain \/ Path \in Readonly \/ Path = Root
    BY <1>2, Routing, PathsApart
\* A page that is kept and loads once has loaded from the active data source.
<1>7. ASSUME loading = "no", taken = page, ~again, Path \in Readonly
      PROVE  /\ Ds = NA!Unset => ~Moving
             /\ Ds # NA!Unset => Ds = active /\ loadedFrom = active
    BY <1>1, <1>2, <1>7 DEF NavSources, Moving, NA!Moved
<1>8. told' /\ loading' # "yes" => pending'.id = active'
  <2>1. CASE Taking
      BY <1>5, <2>1 DEF NA!Option
  <2>2. CASE ~Taking
      BY <1>1, <1>2, <1>5, <2>2 DEF NavSources
  <2> QED
      BY <2>1, <2>2
<1>9. ASSUME told', loading' = "no"
      PROVE  \/ loadedFrom' = active'
             \/ PageTaken(Path', ruleItem') # page'
             \/ Follows(Path', ruleItem') /\ pending' # selected'
  <2>1. loading = "no" /\ page' = taken
      BY <1>2, <1>3, <1>9
  <2>2. CASE taken # page \/ (again /\ pending # selected)
      BY <1>4, <2>1, <2>2
  <2>3. CASE taken = page /\ again /\ pending = selected
    <3>1. CASE ~Taking
      <4>1. loadedFrom = active
          BY <1>1, <1>5, <1>9, <2>1, <2>3, <3>1 DEF NavSources
      <4> QED
          BY <1>4, <1>5, <2>3, <3>1, <4>1
    <3>2. CASE Taking
      <4>1. Path = NA!EditRule /\ ~ruleItem
          BY <1>5, <1>6, <2>3, <3>2
      <4>2. Ruleless
          BY <2>1, <4>1 DEF Ruleless
      <4>3. Follows(Path', ruleItem')
        <5>1. CASE Path' \in Plain
          <6>1. ruleItem' \in BOOLEAN
              BY <1>1, RenderTypes DEF NavTyped
          <6>2. Path' \in NavPaths
              BY <5>1, PathsApart
          <6> QED
              BY <5>1, <6>1, <6>2, Routing
        <5>2. CASE Path' \notin Plain
            BY <2>3, <5>2, RenderStays
        <5> QED
            BY <5>1, <5>2
      <4>4. pending' # selected'
          BY <1>2, <1>5, <3>2
      <4> QED
          BY <4>3, <4>4
    <3> QED
        BY <3>1, <3>2
  <2>4. CASE taken = page /\ ~again
    <3>1. CASE Path \in Readonly
      <4>1. CASE Ds = NA!Unset
        <5>1. ~Taking
            BY <1>5, <4>1
        <5>2. loadedFrom = active
            BY <1>1, <1>5, <1>9, <2>1, <2>4, <5>1 DEF NavSources
        <5> QED
            BY <1>4, <1>5, <2>4, <5>1, <5>2
      <4>2. CASE Ds # NA!Unset
        <5>1. Ds = active /\ loadedFrom = active
            BY <1>7, <2>1, <2>4, <3>1, <4>2
        <5> QED
            BY <1>4, <1>5, <2>4, <5>1
      <4> QED
          BY <4>1, <4>2
    <3>2. CASE Path \notin Readonly
      <4>1. Path = Root
          BY <1>6, <2>4, <3>2
      <4>2. page = NA!Unset
        <5>1. NavOpening
            BY DEF NavInv
        <5> QED
            BY <1>1, <4>1, <5>1 DEF NavOpening, NavTyped, Path
      <4> QED
          BY <1>6, <2>4, <4>2
    <3> QED
        BY <3>1, <3>2
  <2> QED
      BY <2>2, <2>3, <2>4
<1>10. ASSUME Path' \in Readonly, PageTaken(Path', ruleItem') = page', ~Follows(Path', ruleItem'),
              dirty'
       PROVE  IF Ds' = NA!Unset THEN shown' = Path' /\ pending'.id = selected'.id
              ELSE Ds' = active' /\ loadedFrom' = active'
  <2>1. /\ Path' = Path /\ ruleItem' = ruleItem
        /\ Moving \/ (~Lands /\ ~Ruleless /\ ~Nameless)
        /\ Moving => Ds' = active'
        /\ ~Moving => Ds' = Ds
      BY <1>10, RenderStays, PathsApart
  <2>2. taken = page' /\ ~again /\ Path \in Readonly
      BY <1>10, <2>1
  <2>3. loading = "no"
      BY <1>3, <1>6, <2>2
  <2>4. taken # page => loadedFrom' = active'
      BY <1>4, <2>3
  <2>5. taken = page => loadedFrom' = loadedFrom
      BY <1>4, <2>2
  <2>6. CASE Moving
    <3>1. Ds' = active' /\ Ds' # NA!Unset
        BY <1>2, <2>1, <2>6
    <3>2. loadedFrom' = active'
      <4>1. CASE taken = page
        <5>1. Ds = active /\ loadedFrom = active
            BY <1>7, <2>2, <2>3, <2>6, <4>1
        <5> QED
            BY <1>5, <2>5, <4>1, <5>1
      <4> QED
          BY <2>4, <4>1
    <3> QED
        BY <3>1, <3>2
  <2>7. CASE ~Moving
    <3>1. Taking
        BY <1>1, <1>10, <2>1, <2>7, RenderIs
    <3>2. Ds' = Ds /\ active' = Ds /\ Ds # NA!Unset
        BY <1>5, <2>1, <2>7, <3>1
    <3>3. loadedFrom' = active'
      <4>1. CASE taken = page
        <5>1. Ds = active /\ loadedFrom = active
            BY <1>7, <2>2, <2>3, <3>2, <4>1
        <5> QED
            BY <2>5, <3>2, <4>1, <5>1
      <4> QED
          BY <2>4, <4>1
    <3> QED
        BY <3>2, <3>3
  <2> QED
      BY <2>6, <2>7
<1> QED
    BY <1>8, <1>9, <1>10 DEF NavSources

LEMMA RenderItems ==
    ASSUME NavInv, NA!Render
    PROVE  NavItems'
<1>1. NavTyped /\ NavItems
    BY DEF NavInv
<1>2. Path \in NavPaths /\ ruleItem \in BOOLEAN
    BY <1>1, Typing
<1>3. page' # "Correlations"
    BY <1>1, <1>2, RenderIs, Routing DEF NavPages, NA!Unset
<1>4. shown' = Path /\ navItem' = NA!NavItemAfter(Path, page')
    BY <1>1, RenderIs
<1>5. navItem' = IF Path # shown /\ NA!NavItemOf(Path) # NA!NoItem THEN NA!NavItemOf(Path)
                 ELSE navItem
    BY <1>3, <1>4 DEF NA!NavItemAfter
<1>6. NA!NavItemOf(shown') \in {NA!NoItem, navItem'}
    BY <1>1, <1>4, <1>5 DEF NavItems
<1> QED
    BY <1>6 DEF NavItems

\* What was meant for a path that is not a list is the path.
LEMMA MeantIs ==
    ASSUME NavTyped, NEW path, path \notin Plain, Meant(path)
    PROVE  path = aimed.path
<1>1. aimed.path \in NavPaths
    BY DEF NavTyped
<1>2. \A q \in NA!MatchedPaths(aimed.path) : NA!ParentOf[q] \in Plain
    BY <1>1, ReadonlyIs
<1> QED
    BY <1>2, PathsApart DEF Meant

LEMMA RenderAims ==
    ASSUME NavInv, NA!Render
    PROVE  NavAims'
<1>1. NavTyped /\ NavAims
    BY DEF NavInv
<1>2. /\ aimed' = aimed /\ Path \in NavPaths /\ Ds \in Sources
      /\ active' \in DataSources /\ NA!Unset \notin DataSources
    BY <1>1, RenderIs, RenderGoes, Typing
<1>3. Meant(Path)
    BY <1>1 DEF NavAims
<1>4. Meant(Path')
  <2>1. CASE Path' = Path
      BY <1>3, <2>1
  <2>2. CASE ~Moving /\ Lands
    <3>1. aimed.path = Root
        BY <1>1, <1>3, <2>2, MeantIs, PathsApart DEF Lands
    <3>2. aimed.by = "open"
      <4>1. NavOpening
          BY DEF NavInv
      <4> QED
          BY <1>1, <2>2, <4>1 DEF NavOpening, NavTyped, Lands, Path
    <3>3. Path' = StartPage
        BY <1>1, <2>2, RenderGoes
    <3> QED
        BY <3>1, <3>2, <3>3 DEF Meant
  <2>3. CASE ~Moving /\ ~Lands /\ Ruleless
    <3>1. Path = NA!EditRule /\ ~ruleItem
        BY <2>3 DEF Ruleless
    <3>2. aimed.path = NA!EditRule
        BY <1>1, <1>3, <3>1, MeantIs, PathsApart
    <3>3. aimed.by # "push"
        BY <1>1, <3>1 DEF NavAims
    <3>4. Path' = RulesPage
        BY <1>1, <2>3, RenderGoes
    <3> QED
        BY <3>2, <3>3, <3>4 DEF Meant
  <2>4. CASE ~Moving /\ ~Lands /\ ~Ruleless /\ Nameless
    <3>1. Path \in Readonly /\ Ds = NA!Unset
        BY <2>4 DEF Nameless
    <3>2. aimed.path = Path
        BY <1>1, <1>3, <3>1, MeantIs, PathsApart
    <3>3. aimed.by \in {"open", "again"}
        BY <1>1, <2>4, <3>1 DEF NavAims, Moving, NA!Moved
    <3>4. Path' = Parent(Path)
        BY <1>1, <2>4, RenderGoes
    <3>5. \E q \in NA!MatchedPaths(Path) : NA!ParentOf[q] = Parent(Path)
        BY <1>2, <3>1, ReadonlyIs DEF NA!IsReadonly
    <3> QED
        BY <3>2, <3>3, <3>4, <3>5 DEF Meant
  <2>5. Path' = Path \/ (~Moving /\ (Lands \/ Ruleless \/ Nameless))
      BY <1>1, RenderGoes
  <2> QED
      BY <2>1, <2>2, <2>3, <2>4, <2>5
<1>5. Meant(Path)'
    BY <1>2, <1>4 DEF Meant
<1>6. aimed'.by = "push" /\ Path' = NA!EditRule => ruleItem'
    BY <1>1, <1>2, RenderStays, PathsApart DEF NavAims
<1>7. ruleItem' => Path' = NA!EditRule /\ Ds' # NA!Unset
  <2> HAVE ruleItem'
  <2>1. \/ Moving /\ Path' = Path /\ Ds' = active' /\ ruleItem' = ruleItem
        \/ Path' = Path /\ Ds' = Ds /\ ruleItem' = ruleItem
      BY <1>1, RenderGoes
  <2>2. ruleItem
      BY <2>1
  <2>3. Path = NA!EditRule /\ Ds # NA!Unset
      BY <1>1, <2>2 DEF NavAims
  <2> QED
      BY <1>2, <2>1, <2>3
<1>8. ~(Path' \in Readonly /\ Ds' = NA!Unset)
  <2> SUFFICES ASSUME Path' \in Readonly, Ds' = NA!Unset PROVE FALSE
      OBVIOUS
  <2>1. ~Moving /\ ~Nameless /\ Path' = Path /\ Ds' = Ds
      BY <1>2, RenderStays, PathsApart
  <2> QED
      BY <2>1 DEF Nameless
<1> QED
    BY <1>5, <1>6, <1>7, <1>8 DEF NavAims

LEMMA RenderRenders ==
    ASSUME NavInv, NA!Render
    PROVE  NavRenders'
<1>1. NavTyped /\ NavOpening /\ NavRenders
    BY DEF NavInv
<1>2. /\ dirty /\ renders \in Nat /\ renders' = renders + 1 /\ loading' = loading
      /\ selected' = pending /\ shown' = Path
      /\ (dirty' <=> Taking \/ Moving \/ Lands \/ Ruleless \/ Nameless)
    BY <1>1, RenderIs DEF NavTyped
<1>3. /\ Path \in NavPaths /\ Ds \in Sources /\ active' \in DataSources
      /\ NA!Unset \notin DataSources /\ loading \in {"yes", "ending", "no"}
    BY <1>1, Typing, RenderGoes DEF NavTyped
<1>4. /\ Taking => /\ active' = Ds /\ pending' = NA!Option(Ds, NA!Unset)
                   /\ Path \in Readonly /\ Ds # NA!Unset /\ ~Given
      /\ ~Taking => active' = active /\ pending' = pending
    BY <1>1, RenderIs DEF Taking
\* What may still be rendered.
<1>5. /\ renders <= 4
      /\ Moving => renders <= 3
      /\ loading = "ending" => renders <= 1 /\ Path \notin Readonly
      /\ loading = "ending" /\ Moving => renders = 0
      /\ Lands => renders <= 2
    BY <1>1, <1>2 DEF NavRenders, NavOpening, Lands
<1>6. Path \in Readonly =>
          /\ Ds = NA!Unset => renders = 0
          /\ Ds # NA!Unset /\ Ds # active => renders = 0
          /\ Ds # NA!Unset /\ ~Given => renders <= 1
          /\ Ds # NA!Unset /\ ~Given /\ Moving => renders = 0
          /\ Moving => renders <= 2
          /\ renders <= 3
          /\ Path = NA!EditRule /\ ~ruleItem => renders <= 2
          /\ Path = NA!EditRule /\ ~ruleItem /\ Moving => renders <= 1
    BY <1>1, <1>2 DEF NavRenders
<1>7. /\ Taking => renders <= 1
      /\ Taking /\ Moving => renders = 0
      /\ Nameless => renders = 0
      /\ Ruleless => renders <= 2
    BY <1>2, <1>4, <1>6, PathsApart DEF Nameless, Ruleless
<1>8. Moving' => Path' # Path \/ Taking
  <2>1. ASSUME Moving', Path' = Path, ~Taking PROVE FALSE
    <3>1. pending'.id # selected'.id
        BY <1>2, <2>1 DEF Moving, NA!Moved
    <3> QED
        BY <1>2, <1>4, <2>1, <3>1
  <2> QED
      BY <2>1
<1>9. Path' # Path => ~Moving /\ (Lands \/ Ruleless \/ Nameless)
    BY <1>1, RenderGoes
<1>10. renders' <= 5
    BY <1>2, <1>5
<1>11. dirty' => renders' <= 4
  <2>1. dirty' => renders <= 3
    <3>1. CASE Taking
        BY <1>2, <1>7, <3>1
    <3>2. CASE Moving
        BY <1>5, <3>2
    <3>3. CASE Lands
        BY <1>2, <1>5, <3>3
    <3>4. CASE Ruleless
        BY <1>2, <1>7, <3>4
    <3>5. CASE Nameless
        BY <1>2, <1>7, <3>5
    <3> QED
        BY <1>2, <3>1, <3>2, <3>3, <3>4, <3>5
  <2> QED
      BY <1>2, <2>1
<1>12. dirty' /\ Moving' => renders' <= 3
  <2>1. Moving' => renders <= 2
    <3>1. CASE Taking
        BY <1>2, <1>7, <3>1
    <3>2. CASE Path' # Path
        BY <1>2, <1>5, <1>7, <1>9, <3>2
    <3> QED
        BY <1>8, <3>1, <3>2
  <2> QED
      BY <1>2, <2>1
<1>13. ASSUME loading' = "ending"
       PROVE  renders' <= 2 /\ (dirty' => renders' <= 1) /\ ~Moving'
  <2>1. loading = "ending" /\ ~Taking /\ ~Lands /\ ~Ruleless /\ ~Nameless
      BY <1>2, <1>4, <1>5, <1>13 DEF Lands, Ruleless, Nameless
  <2>2. ~Moving'
      BY <1>8, <1>9, <2>1
  <2>3. renders' <= 2
      BY <1>2, <1>5, <2>1
  <2>4. dirty' => renders = 0
      BY <1>2, <1>5, <2>1
  <2> QED
      BY <1>2, <2>2, <2>3, <2>4
<1>14. ~(Path' = Root /\ loading' = "no")
  <2> SUFFICES ASSUME Path' = Root, loading' = "no" PROVE FALSE
      OBVIOUS
  <2>1. Path = Root /\ (Moving \/ ~Lands)
      BY RenderStays, PathsApart
  <2>2. ~Moving /\ page = NA!Unset
      BY <1>1, <1>2, <2>1 DEF NavOpening, NavTyped, Path
  <2>3. Lands
      BY <1>2, <2>1, <2>2 DEF Lands, NA!Unset
  <2> QED
      BY <2>1, <2>2, <2>3
<1>15. ASSUME dirty', Path' \in Readonly
       PROVE  /\ Ds' # NA!Unset /\ Ds' = active'
              /\ ~Given' => renders' <= 1 /\ ~Moving'
              /\ Moving' => renders' <= 2
              /\ renders' <= 3
              /\ Path' = NA!EditRule /\ ~ruleItem' => /\ renders' <= 2
                                                      /\ Moving' => renders' <= 1
  <2>1. /\ Path' = Path /\ ruleItem' = ruleItem
        /\ Moving \/ (~Lands /\ ~Ruleless /\ ~Nameless)
        /\ Moving => Ds' = active'
        /\ ~Moving => Ds' = Ds
      BY <1>15, RenderStays, PathsApart
  <2>2. ~Moving => Taking
      BY <1>2, <1>15, <2>1
  <2>3. Ds' # NA!Unset /\ Ds' = active'
      BY <1>3, <1>4, <2>1, <2>2
  <2>4. Moving' => Taking
      BY <1>8, <2>1
  <2>5. Taking => Given'
      BY <1>4, <2>3 DEF Given
  <2>6. ~Given' => renders = 0
    <3> HAVE ~Given'
    <3>1. ~Taking /\ Moving
        BY <2>2, <2>5
    <3>2. CASE Ds = NA!Unset
        BY <1>6, <1>15, <2>1, <3>2
    <3>3. CASE Ds # NA!Unset /\ Ds # active
        BY <1>6, <1>15, <2>1, <3>3
    <3>4. CASE Ds # NA!Unset /\ Ds = active
      <4>1. Given
          BY <1>15, <2>1, <3>1, <3>4 DEF Taking
      <4> QED
          BY <1>4, <2>3, <3>1, <3>4, <4>1 DEF Given
    <3> QED
        BY <3>2, <3>3, <3>4
  <2>7. ~Given' => renders' <= 1 /\ ~Moving'
      BY <1>2, <2>4, <2>5, <2>6
  <2>8. Moving' => renders' <= 2
      BY <1>2, <1>7, <2>4
  <2>9. renders' <= 3
    <3>1. CASE Moving
        BY <1>2, <1>6, <1>15, <2>1, <3>1
    <3>2. CASE Taking
        BY <1>2, <1>7, <3>2
    <3> QED
        BY <2>2, <3>1, <3>2
  <2>10. ASSUME Path' = NA!EditRule, ~ruleItem'
         PROVE  renders' <= 2 /\ (Moving' => renders' <= 1)
    <3>1. Moving
      <4>1. ASSUME ~Moving PROVE FALSE
        <5>1. ~Ruleless /\ Path = NA!EditRule /\ ~ruleItem /\ Ds # NA!Unset
            BY <1>4, <2>1, <2>2, <2>10, <4>1
        <5>2. loading # "no"
            BY <5>1 DEF Ruleless
        <5>3. loading = "yes" /\ Path \in Readonly
            BY <1>3, <1>5, <1>15, <2>1, <5>2
        <5> QED
            BY <1>1, <5>1, <5>3 DEF NavOpening
      <4> QED
          BY <4>1
    <3>2. renders <= 1
        BY <1>6, <1>15, <2>1, <2>10, <3>1
    <3>3. Moving' => renders = 0
        BY <1>7, <2>4, <3>1
    <3> QED
        BY <1>2, <3>2, <3>3
  <2> QED
      BY <2>3, <2>7, <2>8, <2>9, <2>10
<1> QED
    BY <1>10, <1>11, <1>12, <1>13, <1>14, <1>15 DEF NavRenders

LEMMA RenderKeeps ==
    ASSUME NavInv, NA!Render
    PROVE  NavInv'
BY RenderTypes, RenderRendered, RenderOpening, RenderEntries, RenderSources, RenderItems,
   RenderAims, RenderRenders DEF NavInv

\* What holds when nothing is to be rendered.
LEMMA QuietIs ==
    ASSUME NavInv, ~dirty
    PROVE  /\ selected = pending /\ shown = Path /\ ~Moving
           /\ Path \in NavPaths /\ Ds \in Sources /\ shown # NA!NotMounted
           /\ Path \in Readonly => Ds = pending.id
           /\ NA!NavItemOf(shown) \in {NA!NoItem, navItem}
           /\ \A i \in 1 .. Len(entries) - 1 :
                 ~(entries[i].path = entries[i + 1].path /\ entries[i].path \in Readonly)
           /\ loading = "no" => /\ page = PageTaken(Path, ruleItem)
                                /\ \A i \in 1 .. Len(entries) : entries[i].path # Root
                                /\ told => loadedFrom = active
                                /\ pending.id # NA!Unset
                                /\ told => pending.id = active
<1>1. /\ NavTyped /\ NavRendered /\ NavOpening /\ NavEntries /\ NavSources /\ NavItems
    BY DEF NavInv
<1>2. selected = pending /\ shown = Path /\ Path \in NavPaths /\ Ds \in Sources
    BY <1>1, Typing DEF NavRendered
<1>3. ~Moving /\ shown # NA!NotMounted
    BY <1>2, PathsApart DEF Moving, NA!Moved
<1>4. Path \in Readonly => Ds = pending.id
    BY <1>1 DEF NavRendered
<1>5. NA!NavItemOf(shown) \in {NA!NoItem, navItem}
    BY <1>1 DEF NavItems
<1>6. \A i \in 1 .. Len(entries) - 1 :
         ~(entries[i].path = entries[i + 1].path /\ entries[i].path \in Readonly)
    BY <1>1 DEF NavEntries
<1>7. ASSUME loading = "no"
      PROVE  /\ page = PageTaken(Path, ruleItem)
             /\ \A i \in 1 .. Len(entries) : entries[i].path # Root
             /\ told => loadedFrom = active
             /\ pending.id # NA!Unset
             /\ told => pending.id = active
  <2>1. page = PageTaken(Path, ruleItem) /\ Path # Root
      BY <1>1, <1>7 DEF NavRendered
  <2>2. ASSUME NEW i \in 1 .. Len(entries), entries[i].path = Root PROVE FALSE
    <3>1. Len(entries) = 1
        BY <1>1, <2>2 DEF NavOpening
    <3>2. i = at
        BY <1>1, <3>1 DEF NavTyped
    <3> QED
        BY <2>1, <2>2, <3>2 DEF Path
  <2>3. told => loadedFrom = active
      BY <1>1, <1>2, <1>7, <2>1 DEF NavSources
  <2>4. pending.id # NA!Unset /\ (told => pending.id = active)
      BY <1>1, <1>7 DEF NavOpening, NavSources
  <2> QED
      BY <2>1, <2>2, <2>3, <2>4
<1> QED
    BY <1>2, <1>3, <1>4, <1>5, <1>6, <1>7

LEMMA EndLoadingKeeps ==
    ASSUME NavInv, NA!EndLoading
    PROVE  NavInv'
<1>1. /\ NavTyped /\ NavRendered /\ NavOpening /\ NavEntries /\ NavSources /\ NavItems
      /\ NavAims /\ NavRenders
    BY DEF NavInv
<1>2. /\ ~dirty /\ loading = "ending" /\ loading' = "no" /\ dirty' = TRUE
      /\ UNCHANGED <<entries, at, ruleItem, selected, pending, active, shown, page, loadedFrom,
                     navItem, renders, aimed, told>>
    BY DEF NA!EndLoading
<1>3. Path' = Path /\ Ds' = Ds /\ (Moving' <=> Moving) /\ (Meant(Path)' <=> Meant(Path))
    BY <1>2 DEF Path, Ds, Moving, NA!Moved, Meant
<1>4. /\ ~Moving /\ Path \notin Readonly /\ page = NA!Unset /\ Len(entries) = 1
      /\ shown # NA!NotMounted /\ pending.id # NA!Unset /\ renders <= 2
      /\ NA!NavItemOf(shown) \in {NA!NoItem, navItem}
    BY <1>1, <1>2, QuietIs DEF NavOpening, NavRenders
<1>5. Path \in NavPaths /\ ruleItem \in BOOLEAN /\ PageTaken(Path, ruleItem) # NA!Unset
    BY <1>1, Typing, Routing, PathsApart
<1>6. NavTyped'
    BY <1>1, <1>2 DEF NavTyped
<1>7. NavRendered'
    BY <1>2 DEF NavRendered
<1>8. NavOpening'
    BY <1>1, <1>2, <1>3, <1>4 DEF NavOpening
<1>9. NavEntries'
    BY <1>1, <1>2, <1>3 DEF NavEntries
<1>10. NavSources'
    BY <1>1, <1>2, <1>3, <1>4, <1>5 DEF NavSources
<1>11. NavItems'
    BY <1>2, <1>4 DEF NavItems
<1>12. NavAims'
    BY <1>1, <1>2, <1>3 DEF NavAims
<1>13. NavRenders'
  <2>1. renders' <= 2 /\ renders' \in Nat
      BY <1>1, <1>2, <1>4 DEF NavTyped
  <2>2. ~Moving' /\ Path' \notin Readonly /\ loading' # "ending"
      BY <1>2, <1>3, <1>4
  <2> QED
      BY <2>1, <2>2 DEF NavRenders
<1> QED
    BY <1>6, <1>7, <1>8, <1>9, <1>10, <1>11, <1>12, <1>13 DEF NavInv

\* Somewhere else: a page that is not the root, with its data source unless it is linked to.
LEMMA GoesKeeps ==
    ASSUME NavInv, NEW path \in Plain \cup Readonly, NEW ds \in Sources, NEW carry \in BOOLEAN,
           NEW way \in {"push", "link", "again"}, NA!Goes(path, ds, carry, way),
           path \in Readonly /\ path = shown => ds = NA!Unset /\ way = "again",
           path \in Readonly /\ ds = NA!Unset => way \in {"again", "link"},
           carry => path = NA!EditRule /\ ds # NA!Unset,
           way = "push" /\ path = NA!EditRule => carry,
           path # shown \/ NA!NavItemOf(shown) \in {NA!NoItem, navItem'}
    PROVE  NavInv'
<1>1. NavTyped /\ NavOpening /\ NavEntries /\ NavRenders
    BY DEF NavInv
<1>2. /\ ~dirty /\ loading = "no"
      /\ entries' = Append(SubSeq(entries, 1, at), [path |-> path, ds |-> ds]) /\ at' = at + 1
      /\ ruleItem' = carry /\ dirty' = TRUE /\ renders' = 0
      /\ aimed' = [path |-> path, by |-> way]
      /\ UNCHANGED <<selected, pending, active, loading, shown, page, loadedFrom, told>>
    BY DEF NA!Goes, NA!Settled
<1>3. /\ selected = pending /\ shown = Path /\ ~Moving /\ Path \in NavPaths
      /\ shown # NA!NotMounted /\ pending.id # NA!Unset
      /\ Path \in Readonly => Ds = pending.id
      /\ page = PageTaken(Path, ruleItem)
      /\ \A i \in 1 .. Len(entries) : entries[i].path # Root
      /\ \A i \in 1 .. Len(entries) - 1 :
            ~(entries[i].path = entries[i + 1].path /\ entries[i].path \in Readonly)
      /\ told => loadedFrom = active /\ pending.id = active
    BY <1>2, QuietIs
<1>4. path \in NavPaths /\ path # Root
    BY PathsApart
<1>5. /\ entries' \in Seq(Locations) /\ Len(entries') = at + 1 /\ at \in Nat /\ at >= 1
      /\ at <= Len(entries) /\ Len(entries) \in Nat
      /\ entries'[at + 1] = [path |-> path, ds |-> ds]
      /\ \A i \in 1 .. at : entries'[i] = entries[i]
  <2>1. /\ entries \in Seq(Locations) /\ at \in 1 .. Len(entries) /\ Len(entries) \in Nat
        /\ [path |-> path, ds |-> ds] \in Locations
      BY <1>1, <1>4, LenProperties DEF NavTyped, Locations
  <2> DEFINE past == SubSeq(entries, 1, at)
  <2>2. /\ past \in Seq(Locations) /\ Len(past) = at
        /\ \A i \in 1 .. at : past[i] = entries[i]
      BY <2>1, SubSeqProperties
  <2> HIDE DEF past
  <2>3. entries' = Append(past, [path |-> path, ds |-> ds])
      BY <1>2 DEF past
  <2>4. /\ entries' \in Seq(Locations) /\ Len(entries') = Len(past) + 1
        /\ \A i \in 1 .. Len(past) : entries'[i] = past[i]
        /\ entries'[Len(past) + 1] = [path |-> path, ds |-> ds]
      BY <2>1, <2>2, <2>3, AppendProperties
  <2> QED
      BY <2>1, <2>2, <2>4
<1>6. Path' = path /\ Ds' = ds
    BY <1>2, <1>5 DEF Path, Ds
<1>7. NavTyped'
  <2>1. at' \in 1 .. Len(entries')
      BY <1>2, <1>5
  <2>2. aimed' \in [path : NavPaths, by : Ways]
      BY <1>2, <1>4 DEF Ways
  <2>3. ruleItem' \in BOOLEAN /\ dirty' \in BOOLEAN /\ renders' \in Nat
      BY <1>2
  <2> QED
      BY <1>1, <1>2, <1>5, <2>1, <2>2, <2>3 DEF NavTyped
<1>8. NavRendered'
    BY <1>2 DEF NavRendered
<1>9. NavOpening'
  <2>1. ASSUME NEW i \in 1 .. Len(entries') PROVE entries'[i].path # Root
    <3>1. CASE i = at + 1
        BY <1>4, <1>5, <3>1
    <3>2. CASE i \in 1 .. at
        BY <1>3, <1>5, <3>2
    <3> QED
        BY <1>5, <3>1, <3>2
  <2> QED
      BY <1>2, <1>3, <2>1 DEF NavOpening
<1>10. NavEntries'
  <2>1. ASSUME NEW i \in 1 .. Len(entries'), i # at', entries'[i].path \in Readonly
        PROVE  entries'[i].ds # NA!Unset
    <3>1. i \in 1 .. at /\ i \in 1 .. Len(entries) /\ entries'[i] = entries[i]
        BY <1>2, <1>5, <2>1
    <3>2. CASE i = at
        BY <1>3, <2>1, <3>1, <3>2 DEF Path, Ds
    <3>3. CASE i # at
        BY <1>1, <2>1, <3>1, <3>3 DEF NavEntries
    <3> QED
        BY <3>2, <3>3
  <2>2. ASSUME NEW i \in 1 .. Len(entries') - 1, entries'[i].path = entries'[i + 1].path,
               entries'[i].path \in Readonly
        PROVE  /\ i + 1 = at' /\ dirty' /\ Ds' = NA!Unset /\ shown' = Path'
               /\ pending'.id = selected'.id
    <3>1. CASE i = at
      <4>1. Path = path /\ path \in Readonly
          BY <1>5, <2>2, <3>1 DEF Path
      <4> QED
          BY <1>2, <1>3, <1>6, <3>1, <4>1
    <3>2. CASE i # at
      <4>1. i \in 1 .. Len(entries) - 1 /\ i \in 1 .. at /\ i + 1 \in 1 .. at
          BY <1>5, <3>2
      <4>2. entries[i].path = entries[i + 1].path /\ entries[i].path \in Readonly
          BY <1>5, <2>2, <4>1
      <4> QED
          BY <1>3, <4>1, <4>2
    <3> QED
        BY <3>1, <3>2
  <2> QED
      BY <2>1, <2>2 DEF NavEntries
<1>11. NavSources'
  <2>1. told' /\ loading' # "yes" => pending'.id = active'
      BY <1>2, <1>3
  <2>2. told' => loadedFrom' = active'
      BY <1>2, <1>3
  <2>3. ASSUME Path' \in Readonly, PageTaken(Path', ruleItem') = page',
               ~Follows(Path', ruleItem')
        PROVE  Ds' = NA!Unset /\ shown' = Path' /\ pending'.id = selected'.id
    <3>1. PageTaken(path, carry) = PageTaken(Path, ruleItem) /\ path \in Readonly
          /\ ~Follows(path, carry) /\ ruleItem \in BOOLEAN
        BY <1>1, <1>2, <1>3, <1>6, <2>3 DEF NavTyped
    <3>2. path = Path
        BY <1>3, <1>4, <3>1, Routing
    <3> QED
        BY <1>2, <1>3, <1>6, <3>1, <3>2
  <2> QED
      BY <2>1, <2>2, <2>3 DEF NavSources
<1>12. NavItems'
    BY <1>2, <1>6 DEF NavItems
<1>13. NavAims'
  <2>1. Meant(Path)'
      BY <1>2, <1>6 DEF Meant
  <2>2. aimed'.by = way
      BY <1>2
  <2>3. Path' \in Readonly /\ Ds' = NA!Unset =>
          \/ aimed'.by \in {"open", "again"}
          \/ aimed'.by = "link" /\ Path' # shown' /\ shown' # NA!NotMounted
      BY <1>2, <1>3, <1>6, <2>2
  <2> QED
      BY <1>2, <1>6, <2>1, <2>2, <2>3 DEF NavAims
<1>14. NavRenders'
  <2>1. renders' = 0 /\ loading' # "ending"
      BY <1>2
  <2> QED
      BY <2>1 DEF NavRenders
<1> QED
    BY <1>7, <1>8, <1>9, <1>10, <1>11, <1>12, <1>13, <1>14 DEF NavInv

NavVisits ==
    {<<"overview">>, <<"detectors">>, <<"detector-details", "d">>, <<"log-types", "l">>,
     <<"edit-rule">>}

LEMMA VisitsAre == NavVisits \subseteq Plain \cup Readonly
BY DEF NavVisits, Plain, Readonly, StartPage, Detectors, Details, LogTypePage, NA!EditRule

LEMMA PushKeeps ==
    ASSUME NavInv, NEW path \in NavVisits, NA!Push(path)
    PROVE  NavInv'
<1>1. path # shown /\ NA!Goes(path, active, path = NA!EditRule, "push")
    BY DEF NA!Push
<1>2. path \in Plain \cup Readonly /\ active \in Sources /\ active # NA!Unset
  <2>1. NavTyped
      BY DEF NavInv
  <2> QED
      BY <2>1, VisitsAre, MCPagesAssumption DEF NavTyped, Sources
<1> DEFINE carry == path = NA!EditRule
<1>3. carry \in BOOLEAN /\ (carry <=> path = NA!EditRule)
    OBVIOUS
<1>4. NA!Goes(path, active, carry, "push")
    BY <1>1
<1> HIDE DEF carry
<1> QED
    BY <1>1, <1>2, <1>3, <1>4, GoesKeeps

LEMMA OpenNavItemKeeps ==
    ASSUME NavInv, NEW path \in NA!SideNav, path \in NavVisits, NA!OpenNavItem(path)
    PROVE  NavInv'
<1>1. NA!Goes(path, active, FALSE, "push") /\ navItem' = path
    BY DEF NA!OpenNavItem
<1>2. path \in Plain /\ NA!NavItemOf(path) = path
    BY ItemsOpened DEF NavVisits
<1>3. active \in Sources
  <2>1. NavTyped
      BY DEF NavInv
  <2> QED
      BY <2>1 DEF NavTyped, Sources
<1>4. path \notin Readonly /\ path # NA!EditRule
    BY <1>2, PathsApart
<1>5. path # shown \/ NA!NavItemOf(shown) \in {NA!NoItem, navItem'}
    BY <1>1, <1>2
<1> QED
    BY <1>1, <1>2, <1>3, <1>4, <1>5, GoesKeeps

LEMMA FollowKeeps ==
    ASSUME NavInv, NEW path \in NavVisits, NA!Follow(path)
    PROVE  NavInv'
<1> DEFINE way == IF path = shown THEN "again" ELSE "link"
<1>1. NA!Goes(path, NA!Unset, FALSE, way) /\ navItem' = navItem
    BY DEF NA!Follow
<1>2. /\ way \in {"again", "link"} /\ way \in {"push", "link", "again"} /\ way # "push"
      /\ path = shown => way = "again"
    OBVIOUS
<1> HIDE DEF way
<1>3. path \in Plain \cup Readonly /\ NA!Unset \in Sources
    BY VisitsAre DEF Sources
<1>4. NA!NavItemOf(shown) \in {NA!NoItem, navItem'}
  <2>1. ~dirty
      BY <1>1 DEF NA!Goes, NA!Settled
  <2> QED
      BY <1>1, <2>1, QuietIs
<1> QED
    BY <1>1, <1>2, <1>3, <1>4, GoesKeeps

LEMMA TraverseKeeps ==
    ASSUME NavInv, NEW to \in {at - 1, at + 1}, NA!Traverse(to)
    PROVE  NavInv'
<1>1. NavTyped /\ NavOpening /\ NavEntries /\ NavAims
    BY DEF NavInv
<1>2. /\ ~dirty /\ loading = "no" /\ to \in DOMAIN entries
      /\ at' = to /\ ruleItem' = FALSE /\ dirty' = TRUE /\ renders' = 0
      /\ aimed' = [path |-> entries[to].path, by |-> "history"]
      /\ UNCHANGED <<entries, selected, pending, active, loading, shown, page, loadedFrom,
                     navItem, told>>
    BY DEF NA!Traverse, NA!Settled
<1>3. /\ selected = pending /\ shown = Path /\ Path \in NavPaths
      /\ shown # NA!NotMounted /\ pending.id # NA!Unset
      /\ Path \in Readonly => Ds = pending.id
      /\ page = PageTaken(Path, ruleItem)
      /\ \A i \in 1 .. Len(entries) : entries[i].path # Root
      /\ \A i \in 1 .. Len(entries) - 1 :
            ~(entries[i].path = entries[i + 1].path /\ entries[i].path \in Readonly)
      /\ told => loadedFrom = active /\ pending.id = active
      /\ NA!NavItemOf(shown) \in {NA!NoItem, navItem}
    BY <1>2, QuietIs
<1>4. /\ entries \in Seq(Locations) /\ at \in 1 .. Len(entries) /\ Len(entries) \in Nat
      /\ DOMAIN entries = 1 .. Len(entries)
    BY <1>1, LenProperties DEF NavTyped
<1>5. to \in 1 .. Len(entries) /\ to # at /\ entries[to] \in Locations
    BY <1>2, <1>4, ElementOfSeq
<1>6. Path' = entries[to].path /\ Ds' = entries[to].ds
    BY <1>2 DEF Path, Ds
<1>7. entries[to].path \in NavPaths
    BY <1>5 DEF Locations
<1>8. entries[to].path \in Readonly => entries[to].path # Path
  <2> SUFFICES ASSUME entries[to].path \in Readonly, entries[to].path = Path PROVE FALSE
      OBVIOUS
  <2>1. CASE to = at + 1
    <3>1. at \in 1 .. Len(entries) - 1
        BY <1>4, <1>5, <2>1
    <3> QED
        BY <1>3, <2>1, <3>1 DEF Path
  <2>2. CASE to = at - 1
    <3>1. to \in 1 .. Len(entries) - 1 /\ to + 1 = at
        BY <1>4, <1>5, <2>2
    <3> QED
        BY <1>3, <3>1 DEF Path
  <2> QED
      BY <2>1, <2>2
<1>9. \A i \in 1 .. Len(entries) : entries[i].path \in Readonly => entries[i].ds # NA!Unset
  <2>1. Path \in Readonly => Ds # NA!Unset
      BY <1>3
  <2> QED
      BY <1>1, <2>1 DEF NavEntries, Path, Ds
<1>10. NavTyped'
  <2>1. aimed' \in [path : NavPaths, by : Ways]
      BY <1>2, <1>7 DEF Ways
  <2>2. ruleItem' \in BOOLEAN /\ dirty' \in BOOLEAN /\ renders' \in Nat
      BY <1>2
  <2> QED
      BY <1>1, <1>2, <1>5, <2>1, <2>2 DEF NavTyped
<1>11. NavRendered'
    BY <1>2 DEF NavRendered
<1>12. NavOpening'
    BY <1>2, <1>3 DEF NavOpening
<1>13. NavEntries'
    BY <1>2, <1>3, <1>9 DEF NavEntries
<1>14. NavSources'
  <2>1. told' => loadedFrom' = active' /\ pending'.id = active'
      BY <1>2, <1>3
  <2>2. ASSUME Path' \in Readonly, PageTaken(Path', ruleItem') = page',
               ~Follows(Path', ruleItem')
        PROVE  FALSE
    <3>1. /\ PageTaken(Path', FALSE) = PageTaken(Path, ruleItem) /\ Path' \in Readonly
          /\ ~Follows(Path', FALSE) /\ ruleItem \in BOOLEAN /\ Path' \in NavPaths
        BY <1>1, <1>2, <1>3, <1>6, <1>7, <2>2 DEF NavTyped
    <3>2. Path' = Path
        BY <1>3, <3>1, Routing
    <3> QED
        BY <1>6, <1>8, <3>1, <3>2
  <2> QED
      BY <2>1, <2>2 DEF NavSources
<1>15. NavItems'
    BY <1>2, <1>3 DEF NavItems
<1>16. NavAims'
  <2>1. Meant(Path)'
      BY <1>2, <1>6 DEF Meant
  <2>2. aimed'.by = "history" /\ ruleItem' = FALSE
      BY <1>2
  <2>3. ~(Path' \in Readonly /\ Ds' = NA!Unset)
      BY <1>5, <1>6, <1>9
  <2> QED
      BY <2>1, <2>2, <2>3 DEF NavAims
<1>17. NavRenders'
  <2>1. renders' = 0 /\ loading' # "ending"
      BY <1>2
  <2> QED
      BY <2>1 DEF NavRenders
<1> QED
    BY <1>10, <1>11, <1>12, <1>13, <1>14, <1>15, <1>16, <1>17 DEF NavInv

\* The menu of data sources, whether it reports or the user selects.
LEMMA MenuKeeps ==
    ASSUME NavInv, NEW d \in DataSources, ~dirty, loading # "ending", ~NA!IsReadonly(shown),
           NA!OnDataSourceSelected(NA!Option(d, "named"), selected),
           NA!Option(d, "named") # selected,
           loading' = IF loading = "yes" THEN "ending" ELSE loading,
           dirty' = TRUE, renders' = 0,
           UNCHANGED <<entries, at, ruleItem, selected, shown, page, loadedFrom, navItem, aimed>>
    PROVE  NavInv'
<1>1. NavTyped /\ NavOpening /\ NavEntries /\ NavAims
    BY DEF NavInv
<1>2. /\ selected = pending /\ shown = Path /\ Path \in NavPaths /\ shown # NA!NotMounted
      /\ NA!NavItemOf(shown) \in {NA!NoItem, navItem}
      /\ \A i \in 1 .. Len(entries) - 1 :
            ~(entries[i].path = entries[i + 1].path /\ entries[i].path \in Readonly)
      /\ loading = "no" => /\ page = PageTaken(Path, ruleItem)
                           /\ \A i \in 1 .. Len(entries) : entries[i].path # Root
    BY QuietIs
<1>3. Path \notin Readonly
    BY <1>2, ReadonlyIs
<1>4. active' = d /\ pending' = NA!Option(d, "named") /\ told' = TRUE /\ pending' # selected'
  <2>1. active' = NA!Option(d, "named").id /\ pending' = NA!Option(d, "named") /\ told' = TRUE
      BY Zenon DEF NA!OnDataSourceSelected
  <2> QED
      BY <2>1 DEF NA!Option
<1>5. pending'.id = d /\ pending' \in NA!Options /\ d # NA!Unset
    BY <1>4, MCPagesAssumption DEF NA!Option, NA!Options
<1>6. Path' = Path /\ Ds' = Ds /\ (Meant(Path)' <=> Meant(Path))
    BY DEF Path, Ds, Meant
<1>7. loading' \in {"ending", "no"} /\ (loading' = "no" => loading = "no")
    BY <1>1 DEF NavTyped
<1>8. NavTyped'
  <2>1. dirty' \in BOOLEAN /\ told' \in BOOLEAN /\ renders' \in Nat
      BY <1>4
  <2> QED
      BY <1>1, <1>4, <1>5, <1>7, <2>1 DEF NavTyped
<1>9. NavRendered'
    BY DEF NavRendered
<1>10. NavOpening'
  <2>1. loading' # "no" => page' = NA!Unset /\ Len(entries') = 1
      BY <1>1, <1>7 DEF NavOpening
  <2>2. ASSUME NEW i \in 1 .. Len(entries'), entries'[i].path = Root
        PROVE  /\ Len(entries') = 1 /\ page' = NA!Unset /\ aimed'.by = "open"
               /\ shown' \in {NA!NotMounted, Root}
               /\ loading' # "no"
      BY <1>1, <1>2, <1>7, <2>2 DEF NavOpening
  <2> QED
      BY <1>2, <1>3, <1>5, <1>6, <1>7, <2>1, <2>2 DEF NavOpening
<1>11. NavEntries'
    BY <1>1, <1>2 DEF NavEntries
<1>12. NavSources'
  <2>1. loading' = "no" => Follows(Path', ruleItem')
    <3>1. loading' = "no" => Path \in Plain
        BY <1>1, <1>2, <1>3, <1>7, PathsApart DEF Path, NavTyped
    <3>2. ruleItem \in BOOLEAN
        BY <1>1 DEF NavTyped
    <3> QED
        BY <1>2, <1>6, <3>1, <3>2, Routing
  <2> QED
      BY <1>3, <1>4, <1>5, <1>6, <2>1 DEF NavSources
<1>13. NavItems'
    BY <1>2 DEF NavItems
<1>14. NavAims'
    BY <1>1, <1>3, <1>6 DEF NavAims
<1>15. NavRenders'
    BY <1>3, <1>6 DEF NavRenders
<1> QED
    BY <1>8, <1>9, <1>10, <1>11, <1>12, <1>13, <1>14, <1>15 DEF NavInv

LEMMA NavInit ==
    ASSUME NA!Init
    PROVE  NavInv
<1>1. PICK p \in NavVisits \cup {Root} : \E d \in Sources :
         /\ entries = <<[path |-> p, ds |-> d]>> /\ aimed = [path |-> p, by |-> "open"]
         /\ selected = NA!Option(d, NA!Unset) /\ pending = NA!Option(d, NA!Unset)
         /\ loading = IF d = NA!Unset THEN "yes" ELSE "no"
    BY DEF NA!Init, NavVisits, Sources, Root
<1>2. PICK d \in Sources :
         /\ entries = <<[path |-> p, ds |-> d]>> /\ aimed = [path |-> p, by |-> "open"]
         /\ selected = NA!Option(d, NA!Unset) /\ pending = NA!Option(d, NA!Unset)
         /\ loading = IF d = NA!Unset THEN "yes" ELSE "no"
    BY <1>1
<1>3. /\ active \in DataSources /\ told = (selected.id \in {active, NA!Unset})
      /\ at = 1 /\ ruleItem = FALSE
      /\ shown = NA!NotMounted /\ page = NA!Unset /\ loadedFrom = NA!Unset
      /\ dirty = TRUE /\ renders = 0
    BY DEF NA!Init
<1>4. p \in NavPaths /\ p # NA!NotMounted
    BY VisitsAre, PathsApart
<1>5. /\ entries \in Seq(Locations) /\ Len(entries) = 1 /\ entries[1] = [path |-> p, ds |-> d]
  <2>1. [path |-> p, ds |-> d] \in Locations
      BY <1>4 DEF Locations
  <2> QED
      BY <1>2, <2>1
<1>6. Path = p /\ Ds = d
    BY <1>3, <1>5 DEF Path, Ds
<1>7. /\ selected = pending /\ pending.id = d /\ pending \in NA!Options
    BY <1>2 DEF NA!Option, NA!Options, Sources
<1>8. loading \in {"yes", "no"} /\ (loading = "yes" <=> d = NA!Unset)
    BY <1>2
<1>9. ~Moving
    BY <1>3 DEF Moving, NA!Moved
<1>10. told \in BOOLEAN /\ (told <=> d \in {active, NA!Unset})
  <2>1. selected.id = d
      BY <1>7
  <2>2. told = (d \in {active, NA!Unset})
      BY <1>3, <2>1
  <2>3. CASE d \in {active, NA!Unset}
    <3>1. told = TRUE
        BY <2>2, <2>3, Zenon
    <3> QED
        BY <2>3, <3>1
  <2>4. CASE d \notin {active, NA!Unset}
    <3>1. (d \in {active, NA!Unset}) = FALSE
        BY <2>4
    <3>2. told = FALSE
        BY <2>2, <3>1
    <3> QED
        BY <2>4, <3>2
  <2> QED
      BY <2>3, <2>4
<1>11. NavTyped
  <2>1. at \in 1 .. Len(entries)
      BY <1>3, <1>5
  <2>2. aimed \in [path : NavPaths, by : Ways]
      BY <1>2, <1>4 DEF Ways
  <2>3. ruleItem \in BOOLEAN /\ dirty \in BOOLEAN /\ renders \in Nat
      BY <1>3
  <2>4. loadedFrom \in Sources /\ page \in NavPages \cup {NA!Unset}
        /\ shown \in NavPaths \cup {NA!NotMounted}
      BY <1>3 DEF Sources
  <2> QED
      BY <1>3, <1>5, <1>7, <1>8, <1>10, <2>1, <2>2, <2>3, <2>4 DEF NavTyped
<1>12. NavRendered
    BY <1>3 DEF NavRendered
<1>13. NavOpening
  <2>1. aimed.by = "open" /\ Len(entries) = 1
      BY <1>2, <1>5
  <2>2. d = NA!Unset => selected = NA!Option(NA!Unset, NA!Unset)
      BY <1>2
  <2> QED
      BY <1>3, <1>6, <1>7, <1>8, <1>9, <2>1, <2>2 DEF NavOpening
<1>14. NavEntries
    BY <1>3, <1>5 DEF NavEntries
<1>15. NavSources
  <2>1. page # PageTaken(Path, ruleItem)
      BY <1>3, <1>4, <1>6, Routing, PathsApart
  <2>2. told /\ loading # "yes" => pending.id = active
      BY <1>7, <1>8, <1>10
  <2> QED
      BY <2>1, <2>2 DEF NavSources
<1>16. NavItems
    BY <1>3, <1>4, <1>6 DEF NavItems
<1>17. NavAims
  <2>1. Meant(Path) /\ aimed.by = "open"
      BY <1>2, <1>6 DEF Meant
  <2> QED
      BY <1>3, <2>1 DEF NavAims
<1>18. NavRenders
  <2>1. renders = 0 /\ loading # "ending"
      BY <1>3, <1>8
  <2> QED
      BY <2>1 DEF NavRenders
<1> QED
    BY <1>11, <1>12, <1>13, <1>14, <1>15, <1>16, <1>17, <1>18 DEF NavInv

LEMMA NavStep ==
    ASSUME NavInv, NA!Next
    PROVE  NavInv'
<1>1. CASE NA!Render
    BY <1>1, RenderKeeps
<1>2. CASE NA!EndLoading
    BY <1>2, EndLoadingKeeps
<1>3. CASE \E path \in NavVisits : NA!Push(path) \/ NA!Follow(path)
    BY <1>3, PushKeeps, FollowKeeps
<1>4. CASE \E path \in NA!SideNav \cap NavVisits : NA!OpenNavItem(path)
    BY <1>4, OpenNavItemKeeps
<1>5. CASE \E step \in {at - 1, at + 1} : NA!Traverse(step)
    BY <1>5, TraverseKeeps
<1>6. ASSUME NEW d \in DataSources, NA!Report(d) PROVE NavInv'
  <2>1. /\ ~dirty /\ loading # "ending" /\ ~NA!IsReadonly(shown)
        /\ NA!OnDataSourceSelected(NA!Option(d, "named"), selected)
        /\ NA!Option(d, "named") # selected
        /\ loading' = IF loading = "yes" THEN "ending" ELSE loading
        /\ dirty' = TRUE /\ renders' = 0
        /\ UNCHANGED <<entries, at, ruleItem, selected, shown, page, loadedFrom, navItem, aimed>>
      BY <1>6 DEF NA!Report
  <2> QED
      BY <2>1, MenuKeeps
<1>7. ASSUME NEW d \in DataSources, NA!Select(d) PROVE NavInv'
  <2>1. /\ ~dirty /\ loading = "no" /\ ~NA!IsReadonly(shown) /\ d # selected.id
        /\ NA!OnDataSourceSelected(NA!Option(d, "named"), selected)
        /\ loading' = loading
        /\ dirty' = TRUE /\ renders' = 0
        /\ UNCHANGED <<entries, at, ruleItem, selected, shown, page, loadedFrom, navItem, aimed>>
      BY <1>7 DEF NA!Select, NA!Settled
  <2>2. NA!Option(d, "named") # selected
      BY <2>1 DEF NA!Option
  <2>3. loading' = IF loading = "yes" THEN "ending" ELSE loading
      BY <2>1
  <2> QED
      BY <2>1, <2>2, <2>3, MenuKeeps
<1> QED
    BY <1>1, <1>2, <1>3, <1>4, <1>5, <1>6, <1>7 DEF NA!Next, NavVisits

LEMMA NavStutters ==
    ASSUME NavInv, UNCHANGED <<ofNavigation, loading, active, page>>
    PROVE  NavInv'
BY DEF ofNavigation, NavInv, NavTyped, NavRendered, NavOpening, NavEntries, NavSources, NavItems,
       NavAims, NavRenders, Path, Ds, Moving, NA!Moved, Given, Meant

LEMMA NavInvSettles ==
    ASSUME NavInv
    PROVE  NA!NavigationSettles
<1>1. NavTyped /\ NavAims /\ NavRenders
    BY DEF NavInv
<1>2. ASSUME NA!Settled
      PROVE  NA!SourcesAgree /\ NA!PageAsMeant /\ NA!NavItemOf(shown) \in {NA!NoItem, navItem}
  <2>1. ~dirty /\ loading = "no"
      BY <1>2 DEF NA!Settled
  <2>2. /\ selected = pending /\ shown = Path /\ Path \in NavPaths
        /\ NA!NavItemOf(shown) \in {NA!NoItem, navItem}
        /\ Path \in Readonly => Ds = pending.id
        /\ told => loadedFrom = active /\ pending.id = active
      BY <2>1, QuietIs
  <2>3. NA!SourcesAgree
      BY <2>2, ReadonlyIs DEF NA!SourcesAgree, Ds
  <2>4. NA!PageAsMeant
    <3>1. Meant(shown)
        BY <1>1, <2>2 DEF NavAims
    <3> QED
        BY <3>1 DEF NA!PageAsMeant, Meant, RulesPage, StartPage, NA!Landing, Root
  <2> QED
      BY <2>2, <2>3, <2>4
<1> QED
    BY <1>1, <1>2 DEF NA!NavigationSettles, NavRenders

LEMMA NavInvIsTyped ==
    ASSUME NavInv
    PROVE  NA!TypeOK
<1>1. NavTyped
    BY DEF NavInv
<1>2. NavPaths \subseteq NA!Paths
    BY DEF NavPaths, Plain, Readonly, Root, StartPage, Detectors, RulesPage, LogTypesPage, Details,
           LogTypePage, NA!EditRule, NA!Paths, NA!SideNav
<1>3. NavPages \subseteq NA!Pages \cup {"Redirect"}
  <2>1. /\ \A i \in DOMAIN NA!DetectorAndRuleRoutes :
               NA!DetectorAndRuleRoutes[i].page \in NA!Pages
        /\ \A i \in DOMAIN NA!DetailsRoutes : NA!DetailsRoutes[i].page \in NA!Pages
        /\ \A i \in DOMAIN NA!SettingsRoutes : NA!SettingsRoutes[i].page \in NA!Pages
      BY DEF NA!Pages
  <2>2. /\ {2, 4, 6} \subseteq DOMAIN NA!DetectorAndRuleRoutes
        /\ NA!DetectorAndRuleRoutes[2].page = "Detectors"
        /\ NA!DetectorAndRuleRoutes[4].page = "Rules"
        /\ NA!DetectorAndRuleRoutes[6].page = "EditRule"
      BY DEF NA!DetectorAndRuleRoutes, NA!Route
  <2>3. /\ {1, 3} \subseteq DOMAIN NA!DetailsRoutes
        /\ NA!DetailsRoutes[1].page = "Overview"
        /\ NA!DetailsRoutes[3].page = "DetectorDetails"
      BY DEF NA!DetailsRoutes, NA!Route
  <2>4. /\ {5, 6} \subseteq DOMAIN NA!SettingsRoutes
        /\ NA!SettingsRoutes[5].page = "LogType"
        /\ NA!SettingsRoutes[6].page = "LogTypes"
      BY DEF NA!SettingsRoutes, NA!Route
  <2> HIDE DEF NA!Pages
  <2> QED
      BY <2>1, <2>2, <2>3, <2>4 DEF NavPages
<1>4. DOMAIN entries = 1 .. Len(entries) /\ \A i \in 1 .. Len(entries) : entries[i] \in Locations
    BY <1>1, LenProperties, ElementOfSeq DEF NavTyped
<1>5. \A i \in DOMAIN entries :
         entries[i].path \in NA!Paths /\ entries[i].ds \in DataSources \cup {NA!Unset}
    BY <1>2, <1>4 DEF Locations, Sources
<1>6. at \in DOMAIN entries /\ {selected, pending} \subseteq NA!Options
    BY <1>1, <1>4 DEF NavTyped
<1>7. /\ active \in DataSources /\ loadedFrom \in DataSources \cup {NA!Unset}
      /\ loading \in {"yes", "ending", "no"}
    BY <1>1 DEF NavTyped, Sources
<1>8. shown \in NA!Paths \cup {NA!NotMounted} /\ page \in NA!Pages \cup {"Redirect", NA!Unset}
    BY <1>1, <1>2, <1>3 DEF NavTyped
<1>9. {ruleItem, dirty, told} \subseteq BOOLEAN
    BY <1>1 DEF NavTyped
<1> QED
    BY <1>5, <1>6, <1>7, <1>8, <1>9 DEF NA!TypeOK

-----------------------------------------------------------------------------
(* The parts together *)

PagesInv ==
    /\ part = "logTypes" => LogTypesInv
    /\ part = "overview" => OverviewInv /\ ViewTyped
    /\ part = "alerts" => AlertsInv
    /\ part = "documents" => DocumentsInv
    /\ part = "finding" => FlyoutInv
    /\ part = "navigation" => NavInv

LEMMA PagesInvInit == Init => PagesInv
BY LogTypesInit, OverviewInit, ViewTypedInit, AlertsInit, DocumentsInit, FlyoutInit, NavInit
   DEF Init, PagesInv

LEMMA PagesInvNext == ASSUME PagesInv, Next PROVE PagesInv'
<1>1. /\ part' = part
      /\ part = "logTypes" => LT!Next
      /\ part = "overview" => VW!Next
      /\ part = "alerts" => AA!Next
      /\ part = "documents" => DF!Next
      /\ part = "finding" => FF!Next
      /\ part = "navigation" => NA!Next
    BY DEF Next
<1>2. CASE part = "overview"
    BY <1>1, <1>2, OverviewStep, ViewTypedStep DEF PagesInv
<1> QED
    BY <1>1, <1>2, LogTypesStep, AlertsStep, DocumentsStep, FlyoutStep, NavStep DEF PagesInv

LEMMA PagesInvStep == PagesInv /\ [Next]_vars => PagesInv'
<1> SUFFICES ASSUME PagesInv, [Next]_vars PROVE PagesInv'
    OBVIOUS
<1>1. CASE Next
    BY <1>1, PagesInvNext
<1>2. CASE UNCHANGED vars
  <2>1. UNCHANGED <<part, shared, ofForms, ofVisits, ofFlyouts>>
    BY <1>2 DEF vars
  <2>2. UNCHANGED <<ofLogTypes, active, page, calls, edits, touched>>
    BY <2>1 DEF shared, ofForms
  <2>3. /\ UNCHANGED <<ofOverview, loading, active>>
        /\ UNCHANGED <<ofAlerts, cluster, changes>>
        /\ UNCHANGED <<ofDocuments, stored, page>>
        /\ UNCHANGED <<ofFlyout, form>>
        /\ UNCHANGED <<ofNavigation, loading, active, page>>
    BY <2>1 DEF shared, ofVisits, ofFlyouts
  <2> QED
    BY <2>1, <2>2, <2>3, LogTypesStutter, OverviewStutter, ViewTypedStutter, AlertsStutter,
       DocumentsStutter, FlyoutStutter, NavStutters DEF PagesInv
<1> QED
    BY <1>1, <1>2

LEMMA PagesInvAlways == Spec => []PagesInv
BY PagesInvInit, PagesInvStep, PTL DEF Spec

\* What pages load settles on what they say they show, in whichever order answers come and
\* however often the user goes away, comes back, or asks for something else: the log types of the
\* active data source and the page of one (LogTypeStore, LogType), the rows of indicators
\* (IoCsTable), the parts of the Overview (OverviewViewModelActor), and the flyouts of findings
\* with their index pattern and documents (FindingDetailsFlyout, CreateIndexPatternForm,
\* DocumentStore); each but for the known ways to disturb it.
THEOREM PagesStayCurrent == Spec => []PagesCurrent
<1>1. PagesInv /\ FormsInv => PagesCurrent
  <2>1. FormsInv => (part = "source" => TS!IocsMatchPage)
    BY DEF FormsInv, SourceInv
  <2> QED
    BY <2>1, LogTypesInvSettles, OverviewInvSettles, DocumentsInvShows, FlyoutInvIsCurrent
       DEF PagesInv, PagesCurrent
<1> QED
    BY <1>1, FormsInvAlways, PagesInvAlways, PTL

\* After alerts were acknowledged or completed, wholly or in part, rows and flyout show the states
\* that the cluster has, and the user was told of nothing else, in whichever order the calls and
\* the lists that they load again are answered (Alerts, AlertFlyout, ThreatIntelAlertsTable).
THEOREM AlertsAreAsHandled == Spec => []AlertsHandled
<1>1. PagesInv => AlertsHandled
    BY AlertsInvHolds DEF PagesInv, AlertsHandled
<1> QED
    BY <1>1, PagesInvAlways, PTL

\* However the user opens the application, goes to pages, follows links, goes back and forth in
\* the history and selects data sources, the router comes to rest after a few renders at the page
\* that was meant, or at the one it redirects to, with the item of the navigation and the data
\* source of what is shown (Main, its Switch and DataSourceMenuWrapper).
THEOREM NavigationComesToRest == Spec => []NavigationSettles
<1>1. PagesInv => NavigationSettles
    BY NavInvSettles DEF PagesInv, NavigationSettles
<1> QED
    BY <1>1, PagesInvAlways, PTL

\* The parts only ever hold values of their types: every copy is of edits that were made, every id
\* of something that was created, every call one that a page can make, every path one that there
\* is; and no form holds more than it may (all components of MCPages).
THEOREM PagesKeepTypes == Spec => []TypeOK
<1>1. FormsInv => /\ part = "source" => TS!TypeOK
                  /\ part = "scan" => SC!TypeOK
                  /\ part = "rules" => CR!TypeOK
                  /\ part = "newSource" => NS!TypeOK
                  /\ part = "editor" => RE!TypeOK
                  /\ part = "triggers" => AT!TypeOK
                  /\ part = "mappings" => FM!TypeOK
    BY ScanIsTyped, SourceIsTyped, RulesIsTyped, NewSourceIsTyped, EditorInvShows,
       TriggersAreTyped, MappingsAreTyped
       DEF FormsInv, ScanInv, SourceInv, RulesInv, NewSourceInv
<1>2. PagesInv => /\ part = "logTypes" => LT!TypeOK
                  /\ part = "overview" => VW!TypeOK
                  /\ part = "alerts" => AA!TypeOK
                  /\ part = "finding" => FF!TypeOK
                  /\ part = "documents" => DF!TypeOK
                  /\ part = "navigation" => NA!TypeOK
    BY LogTypesAreTyped, OverviewIsTyped, AlertsAreTyped, FlyoutIsTyped, DocumentsInvShows,
       NavInvIsTyped
       DEF PagesInv, LogTypesInv, AlertsInv, FlyoutInv
<1>3. FormsInv /\ PagesInv => TypeOK
    BY <1>1, <1>2 DEF TypeOK
<1> QED
    BY <1>3, FormsInvAlways, PagesInvAlways, PTL

===============================================================================
