------------------------------- MODULE LogTypes -------------------------------
(***************************************************************************)
(* Log types: LogTypeStore, which fills the globals ruleTypes and          *)
(* logTypesByCategories that every page reads; the list (LogTypes) with    *)
(* its dialog of deletion; the page of one log type (LogType, with         *)
(* LogTypeDetails); the form that creates one; and the part of Main that   *)
(* changes the data source.                                                *)
(*                                                                         *)
(* There are two log types, one with detection rules and a custom one      *)
(* without.  The custom one is followed: it is created, shown, edited and  *)
(* deleted, and what it holds is the number of its last edit.  Of the log  *)
(* types that a page has, only the data source they are from is kept.      *)
(***************************************************************************)
EXTENDS Naturals, FiniteSets

CONSTANTS
    DataSources,
    MaxEdits,       \* how many edits the user makes (a bound for TLC)
    MaxCalls        \* how many calls wait at a time (a bound for TLC)

Pages == {"list", "details", "create"}
Types == {"used", "custom"}
Versions == 0 .. MaxEdits
Nothing == MaxEdits + 1         \* undefined, as a version

VARIABLES
    version,        \* by data source, what the custom log type holds, or Nothing
    active,         \* dataSourceInfo.activeDataSource
    globals,        \* ruleTypes and logTypesByCategories: whose log types they are
    page,           \* the page that is mounted
    rows,           \* logTypes of the list: likewise
    logTypeToDelete,    \* the dialog of the list is about this log type ...
    counted,        \* ... and deletionDetails was counted for this one
    logTypeDetails, \* of the page of the custom log type
    initial,        \* initialLogTypeDetails
    captured,       \* the initialLogTypeDetails that refreshRules has captured
    isEditMode,
    calls,          \* the calls that wait
    edits,          \* how many edits were made
    orderly,        \* history: getLogTypes calls did not overlap, and none failed
    touched,        \* history: the log type was updated or refreshed since it was opened
    tidy            \* history: what is claimed of the page of a log type; see DetailsShown

list == <<rows, logTypeToDelete, counted>>
details == <<logTypeDetails, initial, captured, isEditMode>>
vars == <<version, active, globals, page, list, details, calls, edits, orderly,
          touched, tidy>>

\* A call goes to the data source that is active when it is made.
Call(step, item, body, base) ==
    [by |-> page, step |-> step, to |-> active, item |-> item, body |-> body, base |-> base,
     live |-> TRUE]
Fetch(d) == [Call("list", "all", Nothing, Nothing) EXCEPT !.to = d]

TypeOK ==
    /\ version \in [DataSources -> Versions \cup {Nothing}] /\ active \in DataSources
    /\ globals \in DataSources \cup {"none"} /\ rows \in DataSources \cup {"none"}
    /\ page \in Pages
    /\ logTypeToDelete \in Types \cup {"none"} /\ counted \in Types \cup {"none", "refused"}
    /\ {logTypeDetails, initial, captured} \subseteq Versions \cup {Nothing}
    /\ {isEditMode, orderly, touched, tidy} \subseteq BOOLEAN
    /\ calls \subseteq [by : Pages,
                        step : {"list", "count", "delete", "get", "rules", "update", "create"},
                        to : DataSources, item : Types \cup {"all"},
                        body : Versions \cup {Nothing}, base : Versions \cup {Nothing},
                        live : BOOLEAN]
    /\ edits \in Versions

Room == Cardinality(calls) < MaxCalls
Listing(waiting) == \E c \in waiting : c.step = "list"

\* The application is started on the list.
Init ==
    /\ version = [d \in DataSources |-> 0]
    /\ active \in DataSources
    /\ globals = "none" /\ page = "list" /\ rows = "none"
    /\ logTypeToDelete = "none" /\ counted = "none"
    /\ logTypeDetails = Nothing /\ initial = Nothing /\ captured = Nothing /\ isEditMode = FALSE
    /\ calls = {Fetch(active)}
    /\ edits = 0 /\ orderly = TRUE /\ touched = FALSE /\ tidy = TRUE

-----------------------------------------------------------------------------
(* Navigation *)

\* The page pg is mounted; the calls of the page before go on, but no longer reach it.
Mount(pg, waiting) ==
    /\ page' = pg
    /\ rows' = "none" /\ logTypeToDelete' = "none" /\ counted' = "none"
    /\ logTypeDetails' = Nothing /\ initial' = Nothing /\ captured' = Nothing
    /\ isEditMode' = FALSE
    /\ touched' = FALSE /\ tidy' = ~\E c \in waiting : c.step = "update"
    /\ orderly' = (orderly /\ ~(pg = "list" /\ Listing(waiting)))
    /\ calls' = {[c EXCEPT !.live = FALSE] :
                    c \in {w \in waiting : w.step \notin {"count", "get", "rules"}}} \cup
           CASE pg = "list"    -> {Fetch(active)}
             [] pg = "details" -> {Call("get", "custom", version[active], Nothing)}
             [] OTHER          -> {}

\* Another page by a link, or from the list the page of the custom log type.
Visit(pg) ==
    /\ Room /\ pg # page
    /\ pg = "details" => page = "list" /\ rows # "none"
    /\ Mount(pg, calls)
    /\ UNCHANGED <<version, active, globals, edits>>

\* (mutant: the list asks for the log types only when it is mounted)
OnDataSourceSelectedOnce(d) ==
    /\ Room /\ page # "details" /\ d # active
    /\ active' = d
    /\ calls' = calls \cup {[Fetch(d) EXCEPT !.live = FALSE]}
    /\ orderly' = ~Listing(calls)
    /\ UNCHANGED <<version, globals, page, list, details, edits, touched, tidy>>

\* Main.onDataSourceSelected asks for the log types, and so does the list.
OnDataSourceSelected(d) ==
    /\ Room /\ page # "details" /\ d # active
    /\ active' = d
    /\ calls' = calls \cup {[Fetch(d) EXCEPT !.live = FALSE]}
                      \cup {Fetch(d) : p \in {page} \cap {"list"}}
    /\ orderly' = ~Listing(calls)
    /\ UNCHANGED <<version, globals, page, list, details, edits, touched, tidy>>

-----------------------------------------------------------------------------
(* The list and the form that creates *)

\* The dialog opens for an item and its rules are counted; what was counted for another
\* item stays until then.
OnDeleteClick(item) ==
    /\ page = "list" /\ rows # "none" /\ logTypeToDelete = "none" /\ Room
    /\ logTypeToDelete' = item
    /\ calls' = calls \cup {Call("count", item, Nothing, Nothing)}
    /\ UNCHANGED <<version, active, globals, page, rows, counted, details, edits,
                   orderly, touched, tidy>>

CloseModal ==
    /\ logTypeToDelete # "none"
    /\ logTypeToDelete' = "none"
    /\ UNCHANGED <<version, active, globals, page, rows, counted, details, calls, edits,
                   orderly, touched, tidy>>

\* The dialog spins until anything was counted, and offers to delete if that is no rule.
Offers == logTypeToDelete # "none" /\ counted \in {"custom", "refused"}

OnConfirm ==
    /\ Offers /\ Room
    /\ calls' = calls \cup {Call("delete", logTypeToDelete, Nothing, Nothing)}
    /\ logTypeToDelete' = "none"
    /\ UNCHANGED <<version, active, globals, page, rows, counted, details, edits,
                   orderly, touched, tidy>>

CreateLogType ==
    /\ page = "create" /\ Room
    /\ calls' = calls \cup {Call("create", "custom", 0, Nothing)}
    /\ UNCHANGED <<version, active, globals, page, list, details, edits, orderly,
                   touched, tidy>>

-----------------------------------------------------------------------------
(* The page of the custom log type *)

\* setIsEditMode, from the button.
StartEdit ==
    /\ logTypeDetails # Nothing /\ ~isEditMode
    /\ isEditMode' = TRUE
    /\ UNCHANGED <<version, active, globals, page, list, logTypeDetails, initial,
                   captured, calls, edits, orderly, touched, tidy>>

Edit ==
    /\ isEditMode /\ edits < MaxEdits
    /\ edits' = edits + 1 /\ logTypeDetails' = edits + 1 /\ captured' = initial
    /\ tidy' = (tidy /\ calls = {})
    /\ UNCHANGED <<version, active, globals, page, list, initial, isEditMode, calls,
                   orderly, touched>>

\* onCancel: back to what the page was opened with, whatever was saved since.
OnCancel ==
    /\ isEditMode
    /\ logTypeDetails' = initial /\ captured' = initial /\ isEditMode' = FALSE
    /\ tidy' = (tidy /\ ~touched /\ calls = {})
    /\ UNCHANGED <<version, active, globals, page, list, initial, calls, edits, orderly,
                   touched>>

OnUpdateLogType ==
    /\ isEditMode /\ Room
    /\ calls' = calls \cup {Call("update", "custom", logTypeDetails, Nothing)}
    /\ touched' = TRUE /\ tidy' = (tidy /\ calls = {})
    /\ UNCHANGED <<version, active, globals, page, list, details, edits, orderly>>

\* refreshRules, on the tab of the rules.
RefreshRules ==
    /\ logTypeDetails # Nothing /\ Room
    /\ calls' = calls \cup {Call("rules", "custom", logTypeDetails, captured)}
    /\ touched' = TRUE /\ tidy' = (tidy /\ ~isEditMode /\ calls = {})
    /\ UNCHANGED <<version, active, globals, page, list, details, edits, orderly>>

DeleteLogType ==
    /\ page = "details" /\ logTypeDetails # Nothing /\ Room
    /\ calls' = calls \cup {Call("delete", "custom", Nothing, Nothing)}
    /\ UNCHANGED <<version, active, globals, page, list, details, edits, orderly,
                   touched, tidy>>

-----------------------------------------------------------------------------
(* Answers *)

Done(c, more) == calls' = (calls \ {c}) \cup more

\* getLogTypes: it overwrites the globals, and the list shows what it brings.
GotLogTypes(c) ==
    /\ c.step = "list"
    /\ globals' = c.to
    /\ rows' = IF c.live THEN c.to ELSE rows
    /\ Done(c, {})
    /\ UNCHANGED <<version, active, page, logTypeToDelete, counted, details, edits,
                   orderly, touched, tidy>>

\* Refused, an empty list; lost, nothing.  The globals stay.
LogTypesFail(c) ==
    /\ c.step = "list"
    /\ rows' \in {rows, IF c.live THEN "none" ELSE rows}
    /\ orderly' = FALSE
    /\ Done(c, {})
    /\ UNCHANGED <<version, active, globals, page, logTypeToDelete, counted, details,
                   edits, touched, tidy>>

\* getAllRules for the dialog; a search that is refused counts as no rules, and a lost
\* one leaves the dialog as it is.
Counted(c) ==
    /\ c.step = "count"
    /\ counted' \in IF c.live THEN {counted, c.item, "refused"} ELSE {counted}
    /\ Done(c, {})
    /\ UNCHANGED <<version, active, globals, page, rows, logTypeToDelete, details, edits,
                   orderly, touched, tidy>>

AfterDelete(c) ==
    [version EXCEPT ![c.to] = IF c.item = "custom" THEN Nothing ELSE @]

\* deleteLogType of the list, which loads anew, also when it is gone.
Deleted(c) ==
    /\ c.step = "delete" /\ c.by = "list"
    /\ version' = AfterDelete(c)
    /\ Done(c, {[Fetch(active) EXCEPT !.live = c.live]})
    /\ orderly' = (~Listing(calls) /\ (c.live \/ orderly))
    /\ UNCHANGED <<active, globals, page, list, details, edits, touched, tidy>>

\* history.push to the list, which stays as it is when it is shown already.
GoToList(c) ==
    \/ page # "list" /\ Mount("list", calls \ {c})
    \/ /\ page = "list"
       /\ Done(c, {}) /\ orderly' = FALSE
       /\ UNCHANGED <<page, list, details, touched, tidy>>

\* deleteLogType of the page of the log type, and to the list.
DeletedHere(c) ==
    /\ c.step = "delete" /\ c.by = "details"
    /\ version' = AfterDelete(c)
    /\ GoToList(c)
    /\ UNCHANGED <<active, globals, edits>>

\* createLogType, and to the list.
Created(c) ==
    /\ c.step = "create" /\ version[c.to] = Nothing
    /\ version' = [version EXCEPT ![c.to] = 0]
    /\ GoToList(c)
    /\ UNCHANGED <<active, globals, edits>>

Updated(c) ==
    /\ c.step = "update" /\ version[c.to] # Nothing
    /\ version' = [version EXCEPT ![c.to] = c.body]
    /\ isEditMode' = (isEditMode /\ ~c.live)
    /\ Done(c, {})
    /\ UNCHANGED <<active, globals, page, list, logTypeDetails, initial, captured, edits,
                   orderly, touched, tidy>>

\* Refused: nothing happens.  Lost: the cluster may have changed all the same.
WriteFails(c) ==
    /\ c.step \in {"delete", "create", "update"}
    /\ \/ UNCHANGED <<version, orderly, tidy>>
       \/ /\ orderly' = FALSE /\ tidy' = FALSE
          /\ version' = IF c.step = "delete" THEN AfterDelete(c)
                                             ELSE [version EXCEPT ![c.to] = c.body]
    /\ Done(c, {})
    /\ UNCHANGED <<active, globals, page, list, details, edits, touched>>

\* getLogType finds the log type; its rules are then loaded by updateRules.
GotLogType(c) ==
    /\ c.step = "get"
    /\ version[c.to] # Nothing
    /\ Done(c, {Call("rules", "custom", version[c.to], version[c.to])})
    /\ UNCHANGED <<version, active, globals, page, list, details, edits, orderly,
                   touched, tidy>>

\* The end of updateRules: both copies become those it was called with.  The first of the
\* two assignments renders, and refreshRules captures what the second is about to replace.
GotRules(c) ==
    /\ c.step = "rules"
    /\ logTypeDetails' = c.body /\ captured' = initial /\ initial' = c.base
    /\ Done(c, {})
    /\ UNCHANGED <<version, active, globals, page, list, isEditMode, edits, orderly,
                   touched, tidy>>

\* The log type is not found, or a read fails.
ReadFails(c) ==
    /\ c.step \in {"get", "rules"}
    /\ Done(c, {})
    /\ UNCHANGED <<version, active, globals, page, list, details, edits, orderly,
                   touched, tidy>>

Answer(c) ==
    \/ GotLogTypes(c) \/ LogTypesFail(c) \/ Counted(c)
    \/ Deleted(c) \/ DeletedHere(c) \/ Created(c) \/ Updated(c) \/ WriteFails(c)
    \/ GotLogType(c) \/ GotRules(c) \/ ReadFails(c)

Next ==
    \/ \E pg \in Pages : Visit(pg)
    \/ \E d \in DataSources : OnDataSourceSelected(d)
    \/ \E item \in Types : OnDeleteClick(item)
    \/ CloseModal \/ OnConfirm \/ CreateLogType
    \/ StartEdit \/ Edit \/ OnCancel \/ OnUpdateLogType \/ RefreshRules \/ DeleteLogType
    \/ \E c \in calls : Answer(c)

Spec == Init /\ [][Next]_vars

-----------------------------------------------------------------------------
(* Properties *)

\* The log types that every page reads, and those in the list, are those of the active
\* data source, after creations, deletions and changes of the data source, once nothing
\* waits.  (The answers of calls that overlap come in any order, and one that fails
\* leaves the globals of the cluster before: these are excluded.)
LogTypesSettle ==
    (calls = {} /\ orderly) =>
        /\ globals = active
        /\ page = "list" => rows = active

\* What the page of a log type shows outside of edit mode is what the cluster holds, if it
\* is still there, as long as the user waits for answers and does not cancel an edit after
\* an update or a refresh.  (OnCancel would bring back the log type as it was first loaded,
\* or nothing at all: initialLogTypeDetails is not updated, and refreshRules loses it.)
DetailsShown ==
    (page = "details" /\ logTypeDetails # Nothing /\ ~isEditMode /\ tidy
        /\ ~\E c \in calls : c.step = "update")
            => version[active] \in {logTypeDetails, Nothing}

=============================================================================
