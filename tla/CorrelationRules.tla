--------------------------- MODULE CorrelationRules ---------------------------
(***************************************************************************)
(* Correlation rules: the list (CorrelationRules), the form that creates   *)
(* and edits one (CreateCorrelationRule), and what CorrelationsStore makes *)
(* of a rule when it writes and reads it.                                  *)
(*                                                                         *)
(* One rule is followed.  Its parts are its time window, the conditions of *)
(* its queries, and the fields they are grouped by; a part is the number   *)
(* of the edit that gave it its value, 1 for what a form starts from and 0 *)
(* for none.  Conditions also have a kind: "colon" if a value holds what   *)
(* the query string is split at, "cut" when it was, "blank" if they are to *)
(* be filled in.                                                           *)
(***************************************************************************)
EXTENDS Naturals, FiniteSets

CONSTANTS
    MaxEdits,       \* how many edits the user makes (a bound for TLC)
    MaxRules,       \* how many rules are created (a bound for TLC)
    MaxCalls        \* how many calls wait at a time (a bound for TLC)

Edits == 0 .. MaxEdits + 1
Conditions == Edits \X {"none", "blank", "plain", "colon", "cut"}
Contents == [window : Edits, conditions : Conditions, field : Edits]

NoConditions == <<0, "none">>
BlankConditions == <<0, "blank">>

\* An id is the number of its creation, 0 in a form that has not loaded a rule.
Rules == [id : 0 .. MaxRules, content : Contents]
None == <<>>

\* Nothing is claimed of the rule any more; no rule is without a window.
Careless == [window |-> 0, conditions |-> NoConditions, field |-> 0]

\* correlationRuleStateDefaultValue
Default == [id |-> 0, content |-> [window |-> 1, conditions |-> BlankConditions, field |-> 0]]

VARIABLES
    rule,           \* the rule in the cluster, or None
    created,        \* how many were created
    page,           \* list or form
    row,            \* the rule in the list, or None
    action,         \* Create or Edit
    initialValues,
    values,         \* of Formik
    period,         \* the time window that is shown
    dataFilterEnabled,
    groupByEnabled,
    loadingNotifications,
    calls,          \* the calls that wait
    edits,          \* how many edits were made
    touched,        \* history: the parts that the user changed in this form
    saved           \* history: what the user meant the rule to be, or Careless

types == <<period, dataFilterEnabled, groupByEnabled>>
form == <<action, initialValues, values, types, loadingNotifications, touched>>
vars == <<rule, created, page, row, form, calls, edits, saved>>

Parts == {"window", "conditions", "field"}

TypeOK ==
    /\ rule \in Rules \cup {None} /\ row \in Rules \cup {None} /\ created \in 0 .. MaxRules
    /\ page \in {"list", "form"} /\ action \in {"Create", "Edit"}
    /\ initialValues \in Rules /\ values \in Rules /\ period \in Edits
    /\ {dataFilterEnabled, groupByEnabled, loadingNotifications} \subseteq BOOLEAN
    /\ calls \subseteq [step : {"list", "get", "create", "update", "delete"}, id : 0 .. MaxRules,
                        body : Rules \cup {None}, meant : Contents \cup {None},
                        live : BOOLEAN]
    /\ edits \in 0 .. MaxEdits /\ touched \subseteq Parts
    /\ saved \in Contents \cup {None}

Room == Cardinality(calls) < MaxCalls
Writing == \E c \in calls : c.step \notin {"list", "get"}

\* The user goes on without waiting for a write.
Wait == saved' = IF Writing THEN Careless ELSE saved

Call(step, id, body, means) ==
    [step |-> step, id |-> id, body |-> body, meant |-> means, live |-> TRUE]
Load(step) == Call(step, 0, rule, None)

-----------------------------------------------------------------------------
(* The conversions *)

\* parseRuleQueryString
Read(r) ==
    IF r = None THEN None
    ELSE [r EXCEPT !.content.conditions = <<@[1], IF @[2] = "colon" THEN "cut" ELSE @[2]>>]

\* submit: what is not enabled is cleared.
Submitted ==
    [values EXCEPT !.content.conditions = IF dataFilterEnabled THEN @ ELSE NoConditions,
                   !.content.field = IF groupByEnabled THEN @ ELSE 0]

\* validateCorrelationRule, and Formik's own.
Valid ==
    /\ dataFilterEnabled \/ groupByEnabled
    /\ dataFilterEnabled => values.content.conditions # BlankConditions
    /\ groupByEnabled => values.content.field # 0

\* What the user means by it: the parts changed in this form, and no others.
Meant ==
    IF action = "Create" THEN Submitted.content
    ELSE IF saved \in {None, Careless} THEN saved
    ELSE [p \in Parts |-> IF p \in touched THEN Submitted.content[p] ELSE saved[p]]

-----------------------------------------------------------------------------
(* The pages *)

\* (mutant: the query types are those that a new rule has)
EffectAsCreated(init) ==
    /\ period' = init.content.window
    /\ dataFilterEnabled' = TRUE /\ groupByEnabled' = FALSE

\* The effect on initialValues and notificationChannels.
Effect(init) ==
    /\ period' = init.content.window
    /\ dataFilterEnabled' = (init.content.conditions # NoConditions)
    /\ groupByEnabled' = (init.content.field # 0)

\* The calls of the page before: writes go on.
Outlive(waiting) ==
    {[c EXCEPT !.live = FALSE] : c \in {d \in waiting : d.step \notin {"list", "get"}}}

\* The application is started on the list.
Init ==
    /\ rule = None /\ created = 0 /\ page = "list" /\ row = None
    /\ action = "Create" /\ initialValues = Default /\ values = Default
    /\ period = 1 /\ dataFilterEnabled = FALSE /\ groupByEnabled = FALSE
    /\ loadingNotifications = FALSE /\ touched = {}
    /\ calls = {Load("list")}
    /\ edits = 0 /\ saved = None

\* The form is mounted with the rule of the location, or the default, and Formik with it.
MountForm(act, init, waiting) ==
    /\ page' = "form" /\ row' = None
    /\ action' = act /\ initialValues' = init /\ values' = init /\ Effect(init)
    /\ loadingNotifications' = TRUE /\ touched' = {}
    /\ calls' = waiting
    /\ Wait
    /\ UNCHANGED <<rule, created, edits>>

CreateRule ==
    page = "list" /\ MountForm("Create", Default, Outlive(calls))

OnRuleNameClick ==
    page = "list" /\ row # None /\ MountForm("Edit", row, Outlive(calls))

\* The address of a rule: it has to be loaded.
VisitEdit ==
    /\ page = "list" /\ rule # None /\ Room
    /\ MountForm("Edit", Default, Outlive(calls) \cup {Load("get")})

MountList(waiting, at) ==
    /\ page' = "list" /\ row' = None
    /\ action' = "Create" /\ initialValues' = Default /\ values' = Default
    /\ period' = 1 /\ dataFilterEnabled' = FALSE /\ groupByEnabled' = FALSE
    /\ loadingNotifications' = FALSE /\ touched' = {}
    /\ calls' = Outlive(waiting) \cup {Call("list", 0, at, None)}

Cancel ==
    /\ page = "form" /\ MountList(calls, rule)
    /\ Wait
    /\ UNCHANGED <<rule, created, edits>>

\* onDeleteRuleConfirmed up to its await.
OnDeleteRuleConfirmed ==
    /\ page = "list" /\ row # None /\ Room
    /\ calls' = calls \cup {Call("delete", row.id, None, None)}
    /\ Wait
    /\ UNCHANGED <<rule, created, page, row, form, edits>>

-----------------------------------------------------------------------------
(* The form *)

Change(part, newValues) ==
    /\ page = "form" /\ edits < MaxEdits
    /\ edits' = edits + 1
    /\ values' = newValues /\ touched' = touched \cup {part}
    /\ UNCHANGED <<rule, created, page, row, action, initialValues, loadingNotifications,
                   calls, saved>>

EditWindow ==
    /\ Change("window", [values EXCEPT !.content.window = edits + 2])
    /\ period' = edits + 2
    /\ UNCHANGED <<dataFilterEnabled, groupByEnabled>>

\* The conditions are filled in, or all deleted, or one is added.
EditConditions ==
    /\ dataFilterEnabled
    /\ \E conditions \in {<<edits + 2, "plain">>, <<edits + 2, "colon">>,
                          NoConditions, BlankConditions} :
        Change("conditions", [values EXCEPT !.content.conditions = conditions])
    /\ UNCHANGED types

EditField ==
    /\ groupByEnabled
    /\ \E field \in {0, edits + 2} : Change("field", [values EXCEPT !.content.field = field])
    /\ UNCHANGED types

ToggleDataFilter ==
    /\ Change("conditions", values)
    /\ dataFilterEnabled' = ~dataFilterEnabled
    /\ UNCHANGED <<period, groupByEnabled>>

ToggleGroupBy ==
    /\ Change("field", values)
    /\ groupByEnabled' = ~groupByEnabled
    /\ UNCHANGED <<period, dataFilterEnabled>>

\* submit up to its await.  The button stays enabled.
Submit ==
    /\ page = "form" /\ Valid /\ Room
    /\ calls' = calls \cup
           {Call(IF action = "Edit" THEN "update" ELSE "create", values.id, Submitted, Meant)}
    /\ values' = Submitted
    /\ Wait
    /\ UNCHANGED <<rule, created, page, row, action, initialValues, types,
                   loadingNotifications, edits, touched>>

-----------------------------------------------------------------------------
(* Answers *)

\* The channels have come, or not: period and query types are set once more from
\* initialValues, whatever the user has chosen meanwhile.
GotChannels ==
    /\ page = "form" /\ loadingNotifications
    /\ loadingNotifications' = FALSE /\ Effect(initialValues)
    /\ saved' = IF touched = {} THEN saved ELSE Careless
    /\ UNCHANGED <<rule, created, page, row, action, initialValues, values, calls, edits, touched>>

Done(c, more) == calls' = (calls \ {c}) \cup more

\* getCorrelationRules, none if it is refused.
GotRules(c) ==
    /\ c.step = "list"
    /\ row' \in {Read(c.body), Read(rule), None}
    /\ Done(c, {})
    /\ UNCHANGED <<rule, created, page, form, edits, saved>>

\* getCorrelationRule: the form starts anew from what it brings, if anything.
GotRule(c) ==
    /\ c.step = "get"
    /\ \E found \in {Read(c.body), Read(rule), None} :
        IF found = None
        THEN UNCHANGED <<initialValues, values, types, saved>>
        ELSE /\ initialValues' = found /\ values' = found /\ Effect(found)
             /\ saved' = IF touched = {} THEN saved ELSE Careless
    /\ Done(c, {})
    /\ UNCHANGED <<rule, created, page, row, action, loadingNotifications, edits, touched>>

LoadLost(c) ==
    /\ c.step \in {"list", "get"}
    /\ Done(c, {})
    /\ UNCHANGED <<rule, created, page, row, form, edits, saved>>

\* What a write makes of the rule: a second rule is not followed, and an update or a
\* deletion of another id is refused.
Writes(c) ==
    \/ /\ c.step = "create" /\ created < MaxRules
       /\ created' = created + 1
       /\ rule' = IF rule = None THEN [c.body EXCEPT !.id = created + 1] ELSE rule
    \/ /\ rule # None /\ c.id = rule.id
       /\ c.step \in {"update", "delete"}
       /\ rule' = c.body
       /\ UNCHANGED created

\* The form goes to the list, which loads, also when the write was refused; the list loads
\* again after a deletion.
Goes(c) ==
    \/ c.step # "delete" /\ page = "form" /\ MountList(calls \ {c}, rule')
    \/ /\ c.step = "delete" \/ page = "list"
       /\ Done(c, IF c.step = "delete" /\ c.live THEN {Call("list", 0, rule', None)} ELSE {})
       /\ UNCHANGED <<page, row, form>>

Written(c) ==
    /\ Writes(c) /\ Goes(c)
    /\ saved' = IF saved = Careless \/ (c.step = "create" /\ rule # None) THEN saved
                                                                        ELSE c.meant
    /\ UNCHANGED edits

Refused(c) ==
    /\ c.step \in {"create", "update", "delete"}
    /\ \/ c.step # "delete" /\ UNCHANGED rule /\ Goes(c)
       \/ c.step = "delete" /\ Done(c, {}) /\ UNCHANGED <<rule, page, row, form>>
    /\ UNCHANGED <<created, edits, saved>>

\* The answer is lost after the write was done or not.
Lost(c) ==
    /\ c.step \in {"create", "update", "delete"}
    /\ Writes(c) \/ UNCHANGED <<rule, created>>
    /\ Done(c, {})
    /\ saved' = Careless
    /\ UNCHANGED <<page, row, form, edits>>

Next ==
    \/ CreateRule \/ OnRuleNameClick \/ VisitEdit \/ Cancel \/ OnDeleteRuleConfirmed
    \/ EditWindow \/ EditConditions \/ EditField \/ ToggleDataFilter \/ ToggleGroupBy
    \/ Submit \/ GotChannels
    \/ \E c \in calls :
        \/ GotRules(c) \/ GotRule(c) \/ LoadLost(c)
        \/ Written(c) \/ Refused(c) \/ Lost(c)

Spec == Init /\ [][Next]_vars

-----------------------------------------------------------------------------
(* Properties *)

\* A rule holds what the user meant it to: every part as it was last changed in a form that
\* was saved, and editing one part leaves the others as they were, as long as the user waits
\* for writes and does not change the form before the notification channels and the rule
\* have come.  (Then the window that is shown and the query types are set back.  Values that
\* the query string is split at are claimed nothing of: reading cuts them, and the next
\* save of any part stores what was cut.)
PartsKept ==
    (saved # Careless /\ (saved # None => saved.conditions[2] \in {"none", "plain"})) =>
        (IF rule = None THEN None ELSE rule.content) = saved

=============================================================================
