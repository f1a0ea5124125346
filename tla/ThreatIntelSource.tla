-------------------------- MODULE ThreatIntelSource --------------------------
(***************************************************************************)
(* The page of a threat intelligence source (ThreatIntelSource) and its    *)
(* tabs: the table of the indicators of compromise (IoCsTable) and the     *)
(* form of the source's details (ThreatIntelSourceDetails).                *)
(*                                                                         *)
(* The page, the form and the button of activation each write the whole    *)
(* source from a copy of their own.  A part of it is the number of the     *)
(* edit that gave it its value; whether the source is active is a parity.  *)
(* The interval that the form lets the user pick is left out: Save takes   *)
(* the schedule from the copy, which the picker does not change.           *)
(***************************************************************************)
EXTENDS Naturals, FiniteSets

CONSTANTS
    NoSource,       \* the page has no source yet
    MaxEdits,       \* how many edits the user makes (a bound for TLC)
    MaxCalls,       \* how many calls wait at a time (a bound for TLC)
    MaxPage         \* the last page of the table (a bound for TLC)

Parts == {"details", "enabled_for_scan"}
Copies == [Parts -> 0 .. MaxEdits]
TablePages == 0 .. MaxPage

VARIABLES
    cluster,        \* the source in the cluster ...
    exists,         \* ... and whether it is there
    open,           \* the page is mounted
    source,
    tab,            \* the tab that is mounted
    item,           \* sourceItemState and its companions, in the form
    isReadOnly,
    saveInProgress,
    pageIndex,      \* of the table ...
    iocs,           \* ... and the page that its rows are of
    failed,         \* edits, saved: the newest answer to the table was a failure
    calls,          \* the calls that wait
    edits,          \* how many edits were made
    saved           \* edits, saved: what the writes were meant to make of it, or Careless

form == <<item, isReadOnly, saveInProgress>>
table == <<pageIndex, iocs, failed>>
vars == <<cluster, exists, open, source, tab, form, table, calls, edits, saved>>

\* A call knows what it writes or has been asked for, and whether what it was made by is
\* still mounted.
Call(step, body, at) == [step |-> step, body |-> body, page |-> at, live |-> TRUE]
Get == Call("get", cluster, 0)
GetIocs(at) == Call("iocs", NoSource, at)

\* Once the user has not waited for an answer, has (de)activated the source with its form
\* open, or the load after a write was lost, nothing is claimed any more.
Careless == <<>>
Busy == \E c \in calls : c.step \in {"get", "toggle", "save"}
Wait == saved' = IF Busy THEN Careless ELSE saved

TypeOK ==
    /\ cluster \in Copies /\ exists \in BOOLEAN /\ open \in BOOLEAN
    /\ source \in Copies \cup {NoSource} /\ item \in Copies \cup {NoSource}
    /\ tab \in {"iocs", "details"} /\ isReadOnly \in BOOLEAN /\ saveInProgress \in BOOLEAN
    /\ pageIndex \in TablePages /\ iocs \in TablePages \cup {MaxPage + 1} /\ failed \in BOOLEAN
    /\ calls \subseteq [step : {"get", "iocs", "toggle", "save", "delete", "refresh"},
                        body : Copies \cup {NoSource}, page : TablePages, live : BOOLEAN]
    /\ edits \in 0 .. MaxEdits /\ saved \in Copies \cup {Careless}

Room == Cardinality(calls) < MaxCalls

\* The page is mounted with what the location carries: the source, or nothing.
Init ==
    /\ cluster = [p \in Parts |-> 0] /\ exists = TRUE
    /\ open = TRUE /\ source = NoSource
    /\ tab = "iocs" /\ item = NoSource /\ isReadOnly = TRUE /\ saveInProgress = FALSE
    /\ pageIndex = 0 /\ iocs = MaxPage + 1 /\ failed = FALSE
    /\ calls = {Get}
    /\ edits = 0 /\ saved = cluster

-----------------------------------------------------------------------------
(* What the user does *)

\* What is unmounted is forgotten.
EmptyForm == item' = NoSource /\ isReadOnly' = TRUE /\ saveInProgress' = FALSE
EmptyTable == pageIndex' = 0 /\ iocs' = MaxPage + 1 /\ failed' = FALSE

\* The page is left; the writes that wait are still done, and so is a deletion, which then goes
\* to the list from wherever the user is.
Unmount(waiting) ==
    /\ open' = FALSE /\ source' = NoSource /\ tab' = "iocs"
    /\ EmptyForm /\ EmptyTable
    /\ calls' = {[c EXCEPT !.live = FALSE] :
                    c \in {d \in waiting : d.step \in {"toggle", "save", "delete"}}}

Leave ==
    /\ open /\ Unmount(calls)
    /\ Wait
    /\ UNCHANGED <<cluster, exists, edits>>

\* From the list, which has just been loaded, or by the address.
Visit ==
    /\ ~open /\ Room
    /\ open' = TRUE
    /\ source' \in (IF exists THEN {cluster} ELSE {}) \cup {NoSource}
    /\ calls' = calls \cup {IF source' = NoSource THEN Get ELSE GetIocs(0)}
    /\ Wait
    /\ UNCHANGED <<cluster, exists, tab, form, table, edits>>

\* The tabs unmount each other; the form starts from the page's source.
SelectDetails ==
    /\ open /\ source # NoSource /\ tab = "iocs"
    /\ tab' = "details" /\ item' = source /\ EmptyTable
    /\ calls' = {c \in calls : c.step # "iocs"}
    /\ Wait
    /\ UNCHANGED <<cluster, exists, open, source, isReadOnly, saveInProgress, edits>>

SelectIocs ==
    /\ open /\ tab = "details" /\ Room
    /\ tab' = "iocs" /\ EmptyForm
    /\ calls' = {[c EXCEPT !.live = @ /\ c.step # "save"] : c \in calls} \cup {GetIocs(0)}
    /\ UNCHANGED <<cluster, exists, open, source, table, edits, saved>>

\* The form's Edit, a change of one of its inputs, and onDiscard.
StartEdit ==
    /\ open /\ tab = "details" /\ isReadOnly
    /\ isReadOnly' = FALSE
    /\ UNCHANGED <<cluster, exists, open, source, tab, item, saveInProgress, table, calls, edits, saved>>

Edit ==
    /\ open /\ tab = "details" /\ ~isReadOnly /\ edits < MaxEdits
    /\ edits' = edits + 1
    /\ item' = [item EXCEPT !["details"] = edits + 1]
    /\ UNCHANGED <<cluster, exists, open, source, tab, isReadOnly, saveInProgress, table, calls,
                   saved>>

OnDiscard ==
    /\ open /\ tab = "details" /\ ~isReadOnly /\ ~saveInProgress
    /\ isReadOnly' = TRUE /\ item' = source
    /\ UNCHANGED <<cluster, exists, open, source, tab, saveInProgress, table, calls, edits, saved>>

OnSave ==
    /\ open /\ tab = "details" /\ ~isReadOnly /\ ~saveInProgress /\ Room
    /\ saveInProgress' = TRUE
    /\ calls' = calls \cup {Call("save", item, 0)}
    /\ Wait
    /\ UNCHANGED <<cluster, exists, open, source, tab, item, isReadOnly, table, edits>>

ToggleActiveState ==
    /\ open /\ source # NoSource /\ Room /\ edits < MaxEdits
    /\ edits' = edits + 1
    /\ calls' = calls \cup {Call("toggle", [source EXCEPT !["enabled_for_scan"] = @ + 1], 0)}
    /\ saved' = IF Busy \/ tab = "details" THEN Careless ELSE saved
    /\ UNCHANGED <<cluster, exists, open, source, tab, form, table>>

OnDeleteConfirmed ==
    /\ open /\ source # NoSource /\ Room
    /\ calls' = calls \cup {Call("delete", NoSource, 0)}
    /\ UNCHANGED <<cluster, exists, open, source, tab, form, table, edits, saved>>

OnRefresh ==
    /\ open /\ source # NoSource /\ Room
    /\ calls' = calls \cup {Call("refresh", NoSource, 0)}
    /\ UNCHANGED <<cluster, exists, open, source, tab, form, table, edits, saved>>

\* onTableChange, and the effect that fetches the page.
OnTableChange ==
    /\ open /\ source # NoSource /\ tab = "iocs" /\ Room
    /\ \E at \in TablePages \ {pageIndex} :
        /\ pageIndex' = at
        /\ calls' = calls \cup {GetIocs(at)}
    /\ UNCHANGED <<cluster, exists, open, source, tab, form, iocs, failed, edits, saved>>

-----------------------------------------------------------------------------
(* Answers *)

Done(c, more) == calls' = (calls \ {c}) \cup more

\* getSource: what it brings is what was there when it was read.  The first source
\* mounts the table.
GotSource(c) ==
    /\ c.step = "get" /\ exists
    /\ source' \in {c.body, cluster}
    /\ Done(c, IF source = NoSource THEN {GetIocs(0)} ELSE {})
    /\ UNCHANGED <<cluster, exists, open, tab, form, table, edits, saved>>

\* Refused or lost: the page keeps what it has.
GetFails(c) ==
    /\ c.step = "get"
    /\ Done(c, {})
    /\ saved' = Careless
    /\ UNCHANGED <<cluster, exists, open, source, tab, form, table, edits>>

\* What a write that succeeds is meant to make of the source.
Meant(c) ==
    IF saved = Careless THEN saved
    ELSE IF c.step = "toggle" THEN [saved EXCEPT !["enabled_for_scan"] = @ + 1]
    ELSE [saved EXCEPT !["details"] = c.body["details"]]

\* (mutant: the page does not load the source after the form has saved it)
WrittenForgetting(c) ==
    /\ c.step \in {"toggle", "save"} /\ exists
    /\ cluster' = c.body
    /\ saved' = Meant(c)
    /\ IF c.step = "save" /\ c.live
       THEN isReadOnly' = TRUE /\ saveInProgress' = FALSE
       ELSE UNCHANGED <<isReadOnly, saveInProgress>>
    /\ Done(c, IF open /\ c.step = "toggle" THEN {Call("get", c.body, 0)} ELSE {})
    /\ UNCHANGED <<exists, open, source, tab, item, table, edits>>

\* updateThreatIntelSource is done, and the page loads the source anew.
Written(c) ==
    /\ c.step \in {"toggle", "save"} /\ exists
    /\ cluster' = c.body
    /\ saved' = Meant(c)
    /\ IF c.step = "save" /\ c.live
       THEN isReadOnly' = TRUE /\ saveInProgress' = FALSE
       ELSE UNCHANGED <<isReadOnly, saveInProgress>>
    /\ Done(c, IF open THEN {Call("get", c.body, 0)} ELSE {})
    /\ UNCHANGED <<exists, open, source, tab, item, table, edits>>

WriteRefused(c) ==
    /\ c.step \in {"toggle", "save"}
    /\ saveInProgress' = (saveInProgress /\ ~(c.step = "save" /\ c.live))
    /\ Done(c, {})
    /\ UNCHANGED <<cluster, exists, open, source, tab, item, isReadOnly, table, edits, saved>>

\* The answer is lost after the write was done or not; saveInProgress stays.
WriteLost(c) ==
    /\ c.step \in {"toggle", "save"}
    /\ \/ UNCHANGED cluster
       \/ exists /\ cluster' = c.body
    /\ Done(c, {})
    /\ saved' = Careless
    /\ UNCHANGED <<exists, open, source, tab, form, table, edits>>

\* The source is deleted and the page left, or neither, or the answer is lost.
Deleted(c) ==
    /\ c.step = "delete"
    /\ \/ exists' = FALSE /\ Unmount(calls \ {c})
       \/ exists' \in {exists, FALSE} /\ Done(c, {}) /\ UNCHANGED <<open, source, tab, form, table>>
    /\ UNCHANGED <<cluster, edits, saved>>

\* The handler that the table registered when it was mounted, with the page it had then.
Refreshed(c) ==
    /\ c.step = "refresh"
    /\ Done(c, {GetIocs(0) : ok \in {b \in BOOLEAN : b /\ tab = "iocs"}})
    /\ UNCHANGED <<cluster, exists, open, source, tab, form, table, edits, saved>>

RefreshFails(c) ==
    /\ c.step = "refresh"
    /\ Done(c, {})
    /\ UNCHANGED <<cluster, exists, open, source, tab, form, table, edits, saved>>

\* The rows come with the pagination that the call was made under, which may take the
\* table back to an older page and fetch that once more.
GotIocs(c) ==
    /\ c.step = "iocs"
    /\ iocs' = c.page /\ pageIndex' = c.page /\ failed' = FALSE
    /\ Done(c, {GetIocs(at) : at \in {c.page} \ {pageIndex}})
    /\ UNCHANGED <<cluster, exists, open, source, tab, form, edits, saved>>

IocsFail(c) ==
    /\ c.step = "iocs"
    /\ failed' = TRUE
    /\ Done(c, {})
    /\ UNCHANGED <<cluster, exists, open, source, tab, form, pageIndex, iocs, edits, saved>>

Answer(c) ==
    \/ GotSource(c) \/ GetFails(c)
    \/ Written(c) \/ WriteRefused(c) \/ WriteLost(c)
    \/ Deleted(c) \/ Refreshed(c) \/ RefreshFails(c)
    \/ GotIocs(c) \/ IocsFail(c)

Next ==
    \/ Leave \/ Visit \/ SelectDetails \/ SelectIocs
    \/ StartEdit \/ Edit \/ OnDiscard \/ OnSave
    \/ ToggleActiveState \/ OnDeleteConfirmed \/ OnRefresh \/ OnTableChange
    \/ \E c \in calls : Answer(c)

Spec == Init /\ [][Next]_vars

-----------------------------------------------------------------------------
(* Properties *)

\* Three places write the whole source from copies of their own, and yet none undoes what
\* another has saved, as long as the user waits for answers, what is loaded after a write
\* arrives, and the source is not (de)activated while its form is open: the form keeps the
\* copy it was opened with, and a later Save writes its enabled_for_scan back.
SourceKept == saved # Careless => cluster = saved

\* Whatever the order in which pages of indicators arrive, the table settles on rows of the
\* page that its pagination names, unless the newest answer was a failure.  (An answer
\* takes the pagination back to its own page, so that two calls can chase each other.)
IocsMatchPage ==
    (open /\ source # NoSource /\ tab = "iocs" /\ ~failed /\ ~\E c \in calls : c.step = "iocs")
        => iocs = pageIndex

=============================================================================
