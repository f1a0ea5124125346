---------------------------- MODULE DetectorEditing ----------------------------
(***************************************************************************)
(* The pages that change a detector: the list (Detectors), the details     *)
(* page (DetectorDetails) and the four edit pages.  Each of them holds a   *)
(* copy of the whole detector and writes the whole copy back, changed in   *)
(* its own part; the copies travel with the location from page to page.    *)
(* Calls that wait outlive their page, and their continuations still write *)
(* and still take the user elsewhere.                                      *)
(*                                                                         *)
(* One detector is followed, and one user.  A part of it is the number of  *)
(* the edit that gave it its value: 0 is the value of the empty detector   *)
(* that a page starts from, 1 the original; a toggle is an edit of         *)
(* "enabled".  Calls that are alike are one.                               *)
(***************************************************************************)
EXTENDS Naturals, FiniteSets

CONSTANTS
    NoCopy,         \* there is no copy
    MaxEdits,       \* how many edits the user makes (a bound for TLC)
    MaxCalls        \* how many calls wait at a time (a bound for TLC)

Parts == {"details", "rules", "triggers", "enabled"}
Copies == [Parts -> 0 .. MaxEdits + 1]

VARIABLES
    cluster,        \* the detector in the cluster ...
    exists,         \* ... and whether it is there
    page,           \* the page that is mounted
    hit,            \* location.state.detectorHit, where the page looks at it
    aim,            \* what UpdateBasicDetails would write to, by the hit that its callbacks
                    \* have captured
    copy,           \* the page's detector; in the list, the selected one
    shown,          \* the detector in the list
    loading,
    submitting,
    remapped,       \* the user changed field mappings
    calls,          \* the calls that wait
    edits,          \* how many edits were made
    done            \* history: the newest edit of each part that was saved with success, as
                    \* long as the user waits for a write before the next one, and before
                    \* leaving for all that would go on, and every copy that is saved was
                    \* loaded; then NoCopy

location == <<page, hit>>
form == <<aim, copy, shown, loading, submitting, remapped>>
history == <<edits, done>>
vars == <<cluster, exists, location, form, calls, history>>

EditPages == {"editDetails", "editRules", "editMappings", "editTriggers"}
Pages == EditPages \cup {"list", "details"}

\* EMPTY_DEFAULT_DETECTOR
Empty == [p \in Parts |-> 0]

\* The parts a page changes.
Own(pg) == CASE pg = "editDetails"  -> {"details"}
             [] pg = "editRules"    -> {"rules"}
             [] pg = "editTriggers" -> {"triggers"}
             [] pg = "editMappings" -> {}
             [] OTHER               -> {"enabled"}

Writes == {"mappings", "update", "delete"}

\* What an update is addressed to: the detector, the empty id of a page that has not
\* loaded, or nothing, as there is no hit to take the id from.
Aims == {"detector", "emptyId", "nothing"}
AimOf(h) == IF h = NoCopy THEN "nothing" ELSE IF h = Empty THEN "emptyId" ELSE "detector"

Call(pg, step, body, to) ==
    [page |-> pg, step |-> step, body |-> body, aim |-> to, live |-> TRUE]

\* A search, with what is there when it is made, after the step that makes it.
Present == IF exists THEN cluster ELSE Empty
Search(pg, step) == Call(pg, step, Present', "detector")

TypeOK ==
    /\ cluster \in Copies /\ exists \in BOOLEAN
    /\ page \in Pages
    /\ hit \in Copies \cup {NoCopy} /\ aim \in Aims
    /\ copy \in Copies \cup {NoCopy} /\ shown \in Copies \cup {NoCopy}
    /\ page # "list" => copy # NoCopy
    /\ loading \in BOOLEAN /\ submitting \in BOOLEAN /\ remapped \in BOOLEAN
    /\ calls \subseteq [page : Pages, step : Writes \cup {"load", "rules", "reload"},
                        body : Copies, aim : Aims, live : BOOLEAN]
    /\ \A c \in calls : c.live => c.page = page
    /\ edits \in 0 .. MaxEdits
    /\ done \in Copies \cup {NoCopy}

-----------------------------------------------------------------------------

Init ==
    /\ cluster = [p \in Parts |-> 1] /\ exists = TRUE
    /\ page = "list" /\ hit = NoCopy /\ aim = "nothing"
    /\ copy = NoCopy /\ shown = NoCopy
    /\ loading = TRUE /\ submitting = FALSE /\ remapped = FALSE
    /\ calls = {Call("list", "load", cluster, "detector")}
    /\ edits = 0 /\ done = [p \in Parts |-> 1]

\* (mutant: the constructors trust the location)
OpensTrusting(pg, h) ==
    CASE pg = "list" -> NoCopy
      [] pg \in {"details", "editRules"} -> Empty
      [] OTHER -> h

\* What the constructors start from.
Opens(pg, h) ==
    IF pg = "list" THEN NoCopy
    ELSE IF pg \in {"details", "editRules"} \/ h = NoCopy THEN Empty ELSE h

\* The calls that still do something when their page has been left: those that write, and
\* the searches whose answer replaces the location.
Replaces == {"editDetails", "editMappings"}
Outlives(c) == c.step \in Writes \/ (c.step = "load" /\ c.page \in Replaces)
Outlive(waiting) == {[c EXCEPT !.live = FALSE] : c \in {d \in waiting : Outlives(d)}}

\* The page pg is mounted with the hit h, and `waiting` are the calls of pages before it.
Mount(pg, h, waiting, saved) ==
    LET knows == pg = "editTriggers" /\ h \notin {NoCopy, Empty} IN
    /\ page' = pg
    /\ hit' = IF pg \in EditPages \ {"editRules"} THEN h ELSE NoCopy
    /\ aim' = IF pg = "editDetails" THEN AimOf(h) ELSE "nothing"
    /\ copy' = Opens(pg, h) /\ shown' = NoCopy
    /\ loading' = (pg # "editTriggers") /\ submitting' = FALSE /\ remapped' = FALSE
    /\ calls' = Outlive(waiting) \cup (IF knows THEN {} ELSE {Search(pg, "load")})
    /\ done' = IF \E c \in waiting : c.live /\ Outlives(c) THEN NoCopy ELSE saved

\* history.replace or push: a route keeps the page it already shows.
GoTo(pg, h, waiting, saved) ==
    \/ page # pg /\ Mount(pg, h, waiting, saved)
    \/ /\ page = pg
       /\ hit' = IF pg = "details" THEN NoCopy ELSE h
       /\ calls' = waiting /\ done' = saved
       /\ UNCHANGED <<page, form>>

-----------------------------------------------------------------------------
(* What the user does *)

Room == Cardinality(calls) < MaxCalls

\* A link, the back button, an address: the location has no state.
Visit(pg) ==
    /\ Room /\ pg # page
    /\ UNCHANGED <<cluster, exists, edits>>
    /\ Mount(pg, NoCopy, calls, done)

\* The links of the tabs of the details page, which are there once it has loaded.
OpenEditor(pg) ==
    /\ Room /\ page = "details"
    /\ \A c \in calls : ~(c.live /\ c.step = "load")
    /\ UNCHANGED <<cluster, exists, edits>>
    /\ Mount(pg, copy, calls, done)

\* onCancel of the edit pages.
Cancel ==
    /\ page \in EditPages
    /\ IF page = "editDetails" THEN ~loading ELSE ~submitting
    /\ UNCHANGED <<cluster, exists, edits>>
    /\ Mount("details", hit, calls, done)

\* The form is changed in the page's own part.
Edit ==
    /\ edits < MaxEdits
    /\ \/ page \in {"editDetails", "editTriggers"}
       \/ page = "editRules" /\ ~loading /\ copy["rules"] # 0
    /\ edits' = edits + 1
    /\ copy' = [p \in Parts |-> IF p \in Own(page) THEN edits + 2 ELSE copy[p]]
    /\ aim' = IF page = "editDetails" THEN AimOf(hit) ELSE aim
    /\ UNCHANGED <<cluster, exists, location, shown, loading, submitting, remapped, calls, done>>

\* onFieldMappingChange: the field mappings shown are changed.
Remap ==
    /\ page \in {"editDetails", "editRules", "editMappings"}
    /\ ~loading /\ ~remapped
    /\ remapped' = TRUE
    /\ aim' = IF page = "editDetails" THEN AimOf(hit) ELSE aim
    /\ UNCHANGED <<cluster, exists, location, copy, shown, loading, submitting, calls, history>>

\* The call that a press of Save begins with.
FirstWrite ==
    LET to == IF page = "editDetails" THEN aim
              ELSE IF page = "editRules" \/ hit = NoCopy THEN "detector" ELSE AimOf(hit)
    IN Call(page, IF remapped \/ page = "editMappings" THEN "mappings" ELSE "update", copy, to)

\* onSave up to its first await.  Without a hit, two of the pages throw where they look
\* for its id.
Save ==
    LET throws == \/ page = "editMappings" /\ hit = NoCopy
                  \/ FirstWrite.step = "update" /\ FirstWrite.aim = "nothing"
    IN
    /\ Room /\ page \in EditPages /\ ~submitting
    /\ page \in {"editDetails", "editRules"} => ~loading
    /\ submitting' = TRUE
    /\ calls' = IF throws THEN calls ELSE calls \cup {FirstWrite}
    /\ done' = IF \E p \in Parts : copy[p] = 0 THEN NoCopy ELSE done
    /\ UNCHANGED <<cluster, exists, location, aim, copy, shown, loading, remapped, edits>>

\* onSelectionChange of the list.
Select ==
    /\ page = "list" /\ shown # NoCopy
    /\ copy' \in {shown, NoCopy} \ {copy}
    /\ UNCHANGED <<cluster, exists, location, aim, shown, loading, submitting, remapped,
                   calls, history>>

\* The refresh button of the list, which is there also while it is loading.
Refresh ==
    /\ Room /\ page = "list"
    /\ UNCHANGED <<cluster, exists, location, aim, copy, shown, submitting, remapped, history>>
    /\ loading' = TRUE
    /\ calls' = calls \cup {Search("list", "load")}

\* A write of the page waits: another one now would overlap it.
Overlaps == \E c \in calls : c.live /\ c.step \in Writes

\* toggleDetector, of the details page and of the list, up to the write.
ToggleDetector ==
    /\ Room /\ page \in {"details", "list"} /\ ~loading /\ copy # NoCopy
    /\ edits < MaxEdits
    /\ edits' = edits + 1
    /\ loading' = TRUE
    /\ calls' = calls \cup {Call(page, "update", [copy EXCEPT !["enabled"] = edits + 2],
                                 AimOf(copy))}
    /\ done' = IF Overlaps THEN NoCopy ELSE done
    /\ UNCHANGED <<cluster, exists, location, aim, copy, shown, submitting, remapped>>

\* onClickDelete of the list.
OnClickDelete ==
    /\ Room /\ page = "list" /\ ~loading /\ copy # NoCopy
    /\ loading' = TRUE
    /\ calls' = calls \cup {Call("list", "delete", Empty, "detector")}
    /\ UNCHANGED <<cluster, exists, location, aim, copy, shown, submitting, remapped, history>>

-----------------------------------------------------------------------------
(* Answers.  A call of a page that was left changes nothing on the page that is shown. *)

\* The state of the page that made the call c.
SetForm(c, newCopy, newShown, newLoading, newSubmitting) ==
    IF c.live THEN /\ copy' = newCopy /\ shown' = newShown
                   /\ loading' = newLoading /\ submitting' = newSubmitting
                   /\ UNCHANGED <<aim, remapped>>
              ELSE UNCHANGED form

\* The call goes on with `more`, unless nobody would see it.
Continue(c, more) ==
    /\ calls' = (calls \ {c}) \cup (IF c.live THEN more ELSE Outlive(more))
    /\ UNCHANGED location

\* What the search c may have found: what was there when it was made, or what is by now.
Found(c) == {c.body, Present} \ {Empty}

\* The search for detectors answers, and the detector is there.
Loaded(c) ==
    /\ c.step = "load" /\ c.live
    /\ \E found \in Found(c) :
        /\ hit' = IF page \in Replaces THEN found ELSE hit
        /\ copy' = IF page = "list" THEN copy ELSE found
        /\ shown' = IF page = "list" THEN found ELSE NoCopy
    /\ aim' = IF page = "editDetails" THEN AimOf(hit) ELSE aim
    /\ loading' = (page = "editRules")
    /\ calls' = (calls \ {c}) \cup (IF page = "editRules" THEN {Call(page, "rules", Empty, "detector")} ELSE {})
    /\ UNCHANGED <<cluster, exists, page, submitting, remapped, history>>

\* Two of the edit pages replace the location, wherever the user is by then.
LoadedLate(c) ==
    /\ c.step = "load" /\ ~c.live
    /\ UNCHANGED <<cluster, exists, edits>>
    /\ \E found \in Found(c) : GoTo(c.page, found, calls \ {c}, done)

\* The search is answered without the detector, refused, or lost.  `hit` of undefined
\* throws; only some pages catch what is thrown and stop loading.
LoadFails(c) ==
    /\ c.step = "load"
    /\ \E how \in {"absent", "refused", "lost"} :
        /\ how = "absent" => ~exists
        /\ SetForm(c, copy, IF page = "list" /\ how = "absent" THEN NoCopy ELSE shown,
                   loading /\ page \in {"editDetails", "editRules"} /\ how # "refused",
                   submitting)
    /\ Continue(c, {})
    /\ UNCHANGED <<cluster, exists, history>>

\* getAllRules: the rules, none when the searches were refused, or a rejection.
GotRules(c) ==
    /\ c.step = "rules"
    /\ \/ SetForm(c, copy, shown, FALSE, submitting)
       \/ SetForm(c, [copy EXCEPT !["rules"] = 0], shown, FALSE, submitting)
       \/ SetForm(c, copy, shown, loading, submitting)
    /\ Continue(c, {})
    /\ UNCHANGED <<cluster, exists, history>>

\* Mappings stored.  UpdateBasicDetails throws now when it has no hit.
MappingsStored(c) ==
    /\ c.step = "mappings"
    /\ UNCHANGED form
    /\ Continue(c, IF c.aim = "nothing" THEN {} ELSE {[c EXCEPT !.step = "update"]})
    /\ UNCHANGED <<cluster, exists, history>>

\* createMappings is refused: the page of the mappings updates the detector all the same,
\* that of the details goes on submitting.
MappingsRefused(c) ==
    /\ c.step = "mappings"
    /\ SetForm(c, copy, shown, loading, submitting /\ page # "editRules")
    /\ Continue(c, IF c.page = "editMappings" THEN {[c EXCEPT !.step = "update"]} ELSE {})
    /\ UNCHANGED <<cluster, exists, history>>

MappingsLost(c) ==
    /\ c.step = "mappings"
    /\ UNCHANGED <<cluster, exists>>
    /\ \/ /\ c.page = "editMappings"
          /\ GoTo("details", c.body, calls \ {c}, done)
          /\ UNCHANGED edits
       \/ /\ c.page # "editMappings"
          /\ SetForm(c, copy, shown, loading, submitting /\ page # "editRules")
          /\ Continue(c, {})
          /\ UNCHANGED history

\* (mutant: the details page keeps the switch as it was)
AfterToggleForgetting(c, ok) ==
    /\ SetForm(c, copy, shown, loading /\ page = "list", submitting)
    /\ Continue(c, IF c.page = "list" THEN {Search("list", "reload")} ELSE {})

\* The end of toggleDetector: the details page changes its copy, the list loads anew.
AfterToggle(c, ok) ==
    /\ SetForm(c, IF ok /\ page = "details" THEN [copy EXCEPT !["enabled"] = c.body["enabled"]]
                                           ELSE copy,
               shown, loading /\ page = "list", submitting)
    /\ Continue(c, IF c.page = "list" THEN {Search("list", "reload")} ELSE {})

\* The end of onSave after an answer: to the details page, wherever the user is.
AfterSave(c, saved) ==
    GoTo("details", IF c.page = "editRules" THEN NoCopy ELSE c.body, calls \ {c}, saved)

\* updateDetector is answered, or refused, or its answer is lost after it was done or not.
Updated(c) ==
    LET saved == IF done = NoCopy THEN NoCopy
                 ELSE [p \in Parts |-> IF p \in Own(c.page) THEN c.body[p] ELSE done[p]]
    IN
    /\ c.step = "update" /\ exists /\ c.aim = "detector"
    /\ cluster' = c.body
    /\ UNCHANGED <<exists, edits>>
    /\ \/ c.page \in EditPages /\ AfterSave(c, saved)
       \/ c.page \notin EditPages /\ AfterToggle(c, TRUE) /\ done' = saved

UpdateRefused(c) ==
    /\ c.step = "update"
    /\ UNCHANGED <<cluster, exists, edits>>
    /\ \/ c.page \in EditPages /\ AfterSave(c, done)
       \/ c.page \notin EditPages /\ AfterToggle(c, FALSE) /\ UNCHANGED done

UpdateLost(c) ==
    /\ c.step = "update"
    /\ \/ UNCHANGED cluster
       \/ exists /\ c.aim = "detector" /\ cluster' = c.body
    /\ UNCHANGED <<exists, edits>>
    /\ \/ c.page \in {"editMappings", "editTriggers"} /\ AfterSave(c, done)
       \/ c.page \in {"details", "list"} /\ AfterToggle(c, FALSE) /\ UNCHANGED done
       \/ /\ c.page \in {"editDetails", "editRules"}
          /\ SetForm(c, copy, shown, loading, submitting /\ page # "editRules")
          /\ Continue(c, {})
          /\ UNCHANGED done

\* The list after a toggle: what is selected is looked up in what is listed.
Reloaded(c) ==
    /\ c.step = "reload"
    /\ \E now \in Found(c) \cup (IF exists THEN {shown} ELSE {shown, NoCopy}) :
        SetForm(c, IF copy = NoCopy THEN NoCopy ELSE now, now, FALSE, submitting)
    /\ Continue(c, {})
    /\ UNCHANGED <<cluster, exists, history>>

\* deleteDetector of the list: done, refused or lost, the list loads anew.
Deleted(c) ==
    /\ c.step = "delete"
    /\ exists' \in {exists, FALSE}
    /\ UNCHANGED <<cluster, history>>
    /\ SetForm(c, copy, shown, FALSE, submitting)
    /\ Continue(c, {Search("list", "load")})

Answer(c) ==
    \/ Loaded(c) \/ LoadedLate(c) \/ LoadFails(c) \/ GotRules(c)
    \/ MappingsStored(c) \/ MappingsRefused(c) \/ MappingsLost(c)
    \/ Updated(c) \/ UpdateRefused(c) \/ UpdateLost(c)
    \/ Reloaded(c) \/ Deleted(c)

AnswerSave == \E c \in calls : c.live /\ c.step \in Writes /\ Answer(c)

Next ==
    \/ \E pg \in Pages : Visit(pg)
    \/ \E pg \in EditPages : OpenEditor(pg)
    \/ Cancel \/ Edit \/ Remap \/ Save
    \/ Select \/ Refresh \/ ToggleDetector \/ OnClickDelete
    \/ \E c \in calls : Answer(c)

Spec == Init /\ [][Next]_vars

-----------------------------------------------------------------------------
(* Properties *)

\* Nothing that was saved with success is undone, although every page writes the whole
\* detector: as long as the user waits for each write before leaving its page, and what is
\* saved was loaded, each part in the cluster is at least as new as its last saved edit
\* (the copies that pages pass to each other, load anew and change after a toggle).
UndoesNothing == done # NoCopy => \A p \in Parts : cluster[p] >= done[p]

\* Saving ends on the pages that take care of it: the Save button of the rules and of the
\* alert triggers comes back, or the page is left, whatever is refused or lost.  (A refusal
\* of the mappings leaves the page of the details submitting; without a hit that of the
\* mappings throws.)
Saving == submitting /\ page \in {"editRules", "editTriggers"}
SaveEnds == Saving ~> ~submitting

Fairness == WF_vars(AnswerSave)
FairSpec == Spec /\ Fairness

=============================================================================
