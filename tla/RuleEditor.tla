------------------------------ MODULE RuleEditor ------------------------------
(***************************************************************************)
(* The editor of a detection rule (RuleEditorContainer, RuleEditorForm)    *)
(* with its two editors of one detection: the visual one, which keeps a    *)
(* detectionObj of its own and compiles it at every change, and that of    *)
(* the YAML text.                                                          *)
(*                                                                         *)
(* One rule is followed, and of it the detection.  A selection is its      *)
(* name, n for "Selection_n" and 0 for none, and its maps; a map has a key *)
(* (field and modifier), or none, and the state of its values.  Two names  *)
(* pass the check of names and are written in a way of their own:          *)
(* "timeframe" and "condition".  The condition is well formed or not, or   *)
(* maps, when a selection is written in its place.  Names and keys that    *)
(* JavaScript objects treat apart (whole numbers, "__proto__") are none of *)
(* these.                                                                  *)
(***************************************************************************)
EXTENDS Naturals, Sequences, FiniteSetsExt

CONSTANTS
    MaxSelections,  \* how many selections there are (a bound for TLC)
    MaxMaps,        \* how many maps a selection has (a bound for TLC)
    MaxEdits,       \* how many edits are made (a bound for TLC)
    MaxCalls        \* how many writes wait at a time (a bound for TLC)

Timeframe == MaxSelections + 1
Condition == MaxSelections + 2
Names == 0 .. Condition
Maps == [key : {"none", "field"}, values : {"some", "blank", "cleared"}]
Selections == [name : Names, data : Seq(Maps)]

\* DetectionObject; `how` is the form of a selection in the YAML: a map, or a list of maps,
\* of which one has to match.
Detections ==
    [selections : Seq(Selections), condition : {"good", "bad", "maps"}, how : {"map", "list"}]

\* No detection; nothing is claimed of the rule.
None == <<>>

NameError == <<"name">>
ConditionError == <<"condition">>

VARIABLES
    stored,         \* the detection of the rule in the cluster
    editor,         \* selectedEditorType, or "closed"
    detection,      \* the detection of the form
    detectionObj,   \* of the visual editor
    errors,         \* errors.fields; that of the values of a map is <<selection, map>>
    isDetectionInvalid,
    touched,        \* the form was submitted
    calls,          \* the writes that wait
    edits,          \* how many edits were made
    unchecked,      \* history: names were made equal where they are not compared
    meant           \* history: what was shown when what is stored was submitted, or None

visual == <<detectionObj, errors, isDetectionInvalid>>
vars == <<stored, editor, detection, visual, touched, calls, edits, unchecked, meant>>

TypeOK ==
    /\ stored \in Detections
    /\ editor \in {"closed", "visual", "yaml"}
    /\ detection \in Detections \cup {None} /\ detectionObj \in Detections
    /\ errors \subseteq {NameError, ConditionError} \cup ((1 .. MaxSelections) \X (1 .. MaxMaps))
    /\ {isDetectionInvalid, touched, unchecked} \subseteq BOOLEAN
    /\ calls \subseteq [body : Detections, shown : Detections \cup {None}]
    /\ edits \in 0 .. MaxEdits /\ meant \in Detections \cup {None}

-----------------------------------------------------------------------------
(* The conversions *)

Blank == [key |-> "none", values |-> "blank"]
One(sel) == [selections |-> <<sel>>, condition |-> "good", how |-> "map"]
DefaultDetectionObj == One([name |-> 1, data |-> <<Blank>>])

\* A JavaScript object keeps the place of the first entry of a name and the value of the
\* last; keys are the names of the entries, and those of the name `but` are left out.
Collapse(s, keys, but) ==
    LET firsts == {i \in DOMAIN s : keys[i] # but /\ \A j \in 1 .. i - 1 : keys[j] # keys[i]}
        Rank(i) == Cardinality({j \in firsts : j <= i})
        Place(n) == CHOOSE i \in firsts : Rank(i) = n
        Latest(n) == Max({i \in DOMAIN s : keys[i] = keys[Place(n)]})
    IN [n \in 1 .. Cardinality(firsts) |-> s[Latest(n)]]

Keys(data) == [i \in DOMAIN data |-> data[i].key]
NamesOf(selections) == [i \in DOMAIN selections |-> selections[i].name]

\* Of the maps of a timeframe stays the first value of the last map.
CompileTimeframe(data) ==
    <<[key |-> "none", values |-> IF data[Len(data)].values = "some" THEN "some" ELSE "blank"]>>

\* A map without a key makes a list of its values of the whole selection.
CompileMaps(name, data) ==
    LET keyless == {i \in DOMAIN data : data[i].key = "none"} IN
    IF name = Timeframe THEN CompileTimeframe(data)
    ELSE IF keyless # {} THEN <<data[Max(keyless)]>>
    ELSE Collapse(data, Keys(data), "none")

\* createDetectionYml: a selection named condition takes the place of the condition.
Compile(obj) ==
    LET compiled == [i \in DOMAIN obj.selections |->
                        [obj.selections[i] EXCEPT !.data = CompileMaps(obj.selections[i].name, @)]]
        names == NamesOf(compiled)
    IN [selections |-> Collapse(compiled, names, Condition),
        condition |-> IF \E i \in DOMAIN names : names[i] = Condition
                      THEN "maps" ELSE obj.condition,
        how |-> "map"]

\* (mutant: there is no default for a rule without a detection)
ParseWithoutDefault(d) == IF d = None THEN None ELSE [d EXCEPT !.how = "map"]

\* parseDetectionYml: the maps of a list become maps of one selection.
Parse(d) == IF d = None THEN DefaultDetectionObj ELSE [d EXCEPT !.how = "map"]

\* What the visual editor can hold and YAML cannot: two maps of a selection with one key,
\* or one without a key beside others; the maps of a timeframe, and of a selection named
\* condition beside a condition.
Fits(obj) ==
    /\ obj.condition # "maps"
    /\ \A i \in DOMAIN obj.selections : LET data == obj.selections[i].data IN
          /\ obj.selections[i].name \notin {Timeframe, Condition}
          /\ \A j, k \in DOMAIN data :
                j # k => data[j].key # data[k].key /\ data[j].key # "none"

Distinct(selections) ==
    \A i, j \in DOMAIN selections : i # j => selections[i].name # selections[j].name

-----------------------------------------------------------------------------
(* Validation *)

\* validateValuesExist
ValuesExist(obj) ==
    \A i \in DOMAIN obj.selections : \A j \in DOMAIN obj.selections[i].data :
        obj.selections[i].data[j].values = "some"

\* The maps that are shown; an error of a map that is gone is not among them.
Shown(obj) ==
    {at \in (1 .. MaxSelections) \X (1 .. MaxMaps) :
        at[1] \in DOMAIN obj.selections /\ at[2] \in DOMAIN obj.selections[at[1]].data}

ValidateData(obj, errs) ==
    (errs \ Shown(obj))
        \cup {at \in Shown(obj) : obj.selections[at[1]].data[at[2]].values = "blank"}

ValidateCondition(obj, errs) ==
    IF obj.condition = "good" THEN errs \ {ConditionError} ELSE errs \cup {ConditionError}

Invalid(obj, errs) == errs # {} \/ ~ValuesExist(obj)

\* componentDidUpdate: the form is told, and all is validated when the form marks the
\* editor invalid or no longer does.
Update(obj, errs) ==
    LET marked == touched /\ isDetectionInvalid
        all == IF (touched /\ Invalid(obj, errs)) # marked
               THEN ValidateCondition(obj, ValidateData(obj, errs)) ELSE errs
    IN detectionObj' = obj /\ errors' = all /\ isDetectionInvalid' = Invalid(obj, all)

-----------------------------------------------------------------------------
(* Opening and leaving *)

\* A rule whose selections have these names, with one map each.
RuleWith(names) ==
    [selections |-> [i \in DOMAIN names |->
        [name |-> names[i], data |-> <<[key |-> "field", values |-> "some"]>>]],
     condition |-> "good", how |-> "map"]

\* The rule of the location, when the list was loaded after it was stored: one that was made
\* with the visual editor, or one of which a selection was deleted.
Init ==
    /\ stored \in {RuleWith(<<1, 2>>), RuleWith(<<2>>)}
    /\ editor = "closed" /\ detection = None
    /\ detectionObj = DefaultDetectionObj /\ errors = {} /\ isDetectionInvalid = FALSE
    /\ touched = FALSE /\ calls = {} /\ edits = 0 /\ unchecked = FALSE
    /\ meant = stored

\* The visual editor is mounted with a detection.  Maps in place of the condition are no
\* text for its code editor, and the page is gone.
Mountable(d) == d # None => d.condition # "maps"

Mount(d) == detectionObj' = Parse(d) /\ errors' = {}

\* EditRule, DuplicateRule, ImportRule, or CreateRule.
Open(d) ==
    /\ editor = "closed" /\ Mountable(d)
    /\ editor' = "visual" /\ detection' = d
    /\ Mount(d) /\ isDetectionInvalid' = FALSE
    /\ touched' = FALSE /\ unchecked' = FALSE
    /\ UNCHANGED <<stored, calls, edits, meant>>

Close ==
    /\ editor' = "closed" /\ detection' = None
    /\ detectionObj' = DefaultDetectionObj /\ errors' = {} /\ isDetectionInvalid' = FALSE
    /\ touched' = FALSE /\ unchecked' = FALSE

Cancel ==
    /\ editor # "closed" /\ Close
    /\ UNCHANGED <<stored, calls, edits, meant>>

\* onEditorTypeChange unmounts the one editor.  What the form knows of the validity stays.
OnEditorTypeChange ==
    /\ \/ editor = "visual" /\ editor' = "yaml" /\ Mount(None)
       \/ editor = "yaml" /\ editor' = "visual" /\ Mountable(detection) /\ Mount(detection)
    /\ unchecked' = FALSE
    /\ UNCHANGED <<stored, detection, isDetectionInvalid, touched, calls, edits, meant>>

Breaks ==
    /\ editor = "yaml" /\ ~Mountable(detection) /\ Close
    /\ UNCHANGED <<stored, calls, edits, meant>>

-----------------------------------------------------------------------------
(* Edits *)

Spend == edits < MaxEdits /\ edits' = edits + 1

\* The visual editor has a new detectionObj, and the form what it compiles to.
Change(obj, errs) ==
    /\ editor = "visual" /\ Spend
    /\ Update(obj, errs)
    /\ detection' = Compile(obj)
    /\ UNCHANGED <<stored, editor, touched, calls, meant>>

WithData(i, data) == [detectionObj EXCEPT !.selections[i].data = data]

\* updateDatumInState: by typing, by clearing a list, or from a file.
UpdateDatum(i, j, d) ==
    LET obj == [detectionObj EXCEPT !.selections[i].data[j] = d] IN
    /\ obj # detectionObj
    /\ Change(obj, ValidateData(obj, errors))
    /\ UNCHANGED unchecked

\* newSelections.splice(i, 1), and so for maps
Spliced(s, i) == SubSeq(s, 1, i - 1) \o SubSeq(s, i + 1, Len(s))

\* (mutant: the name is compared before it is changed)
RenameComparingBefore(i, name) ==
    LET obj == [detectionObj EXCEPT !.selections[i].name = name]
        wrong == name = 0 \/ ~Distinct(detectionObj.selections)
        named == IF wrong THEN errors \cup {NameError} ELSE errors \ {NameError}
    IN
    /\ name # detectionObj.selections[i].name
    /\ Change(obj, ValidateCondition(obj, named))
    /\ unchecked' = (unchecked \/ ~Distinct(Spliced(detectionObj.selections, i)))

\* updateSelection with a name, as it is typed and once more when the input is left: the
\* one name is compared with the others.
Rename(i, name) ==
    LET obj == [detectionObj EXCEPT !.selections[i].name = name]
        others == Spliced(detectionObj.selections, i)
        wrong == name = 0 \/ \E j \in DOMAIN others : others[j].name = name
        named == IF wrong THEN errors \cup {NameError} ELSE errors \ {NameError}
    IN
    /\ name # detectionObj.selections[i].name
    /\ Change(obj, ValidateCondition(obj, named))
    /\ unchecked' = (unchecked \/ ~Distinct(others))

\* updateSelection with maps: "Add map" and "Delete map".  The error of the names is gone,
\* unless this selection has none.
UpdateSelection(i, data) ==
    /\ LET nameless == detectionObj.selections[i].name = 0 IN
       Change(WithData(i, data),
              IF nameless THEN errors \cup {NameError} ELSE errors \ {NameError})
    /\ unchecked' = (unchecked \/ ~Distinct(detectionObj.selections))

AddMap(i) ==
    LET data == detectionObj.selections[i].data IN
    /\ Len(data) < MaxMaps /\ data[Len(data)].key # "none"
    /\ UpdateSelection(i, Append(data, Blank))

DeleteMap(i, j) ==
    LET data == detectionObj.selections[i].data IN
    /\ Len(data) > 1
    /\ UpdateSelection(i, Spliced(data, j))

\* "Add selection" numbers the new one by how many there are, and compares no names.
AddSelection ==
    LET n == Len(detectionObj.selections)
        obj == [detectionObj EXCEPT !.selections = Append(@, [name |-> n + 1, data |-> <<Blank>>])]
    IN
    /\ n < MaxSelections
    /\ Change(obj, errors)
    /\ unchecked' = (unchecked \/ ~Distinct(obj.selections))

\* "Delete selection" validates the condition anew, and nothing else.
DeleteSelection(i) ==
    LET obj == [detectionObj EXCEPT !.selections = Spliced(@, i)] IN
    /\ Len(detectionObj.selections) > 1
    /\ Change(obj, ValidateCondition(obj, errors))
    /\ UNCHANGED unchecked

UpdateCondition ==
    LET obj == [detectionObj EXCEPT !.condition = IF @ = "good" THEN "bad" ELSE "good"] IN
    /\ Change(obj, ValidateCondition(obj, errors))
    /\ UNCHANGED unchecked

\* Another input of the form changes and renders the visual editor once more.
Render ==
    /\ editor = "visual"
    /\ Update(detectionObj, errors) /\ visual' # visual
    /\ UNCHANGED <<stored, editor, detection, touched, calls, edits, unchecked, meant>>

\* onBlur of the YAML editor, with a text that loads.
OnBlur ==
    /\ editor = "yaml" /\ Spend
    /\ \E how \in {"map", "list"}, condition \in {"good", "bad"} :
        detection' = [stored EXCEPT !.how = how, !.condition = condition]
    /\ UNCHANGED <<stored, editor, visual, touched, calls, unchecked, meant>>

-----------------------------------------------------------------------------
(* Submitting *)

\* onSubmit of the form goes no further when the editor was invalid, whichever editor is
\* shown by now; a form without a detection is not submitted.
Submit ==
    LET shown == IF editor = "visual" THEN detectionObj ELSE Parse(detection)
        claimed == Fits(shown) /\ ~unchecked
    IN
    /\ editor # "closed"
    /\ touched' = TRUE
    /\ IF detection = None \/ isDetectionInvalid
       THEN UNCHANGED calls
       ELSE calls' = calls \cup
                    {[body |-> detection, shown |-> IF claimed THEN shown ELSE None]}
    /\ Cardinality(calls') <= MaxCalls
    /\ errors' = IF editor = "visual" /\ ~touched /\ isDetectionInvalid
                 THEN ValidateCondition(detectionObj, ValidateData(detectionObj, errors))
                 ELSE errors
    /\ UNCHANGED <<stored, editor, detection, detectionObj, isDetectionInvalid, edits,
                   unchecked, meant>>

Stored(c) == stored' = c.body /\ meant' = c.shown

\* updateRule, or createRule, whose rule is followed from now on.  Then the list is shown,
\* whatever the user is doing.
Written(c) ==
    /\ Stored(c) /\ Close
    /\ calls' = calls \ {c}
    /\ UNCHANGED edits

\* Refused, or the answer is lost after the rule was stored or not.
WriteFails(c) ==
    /\ Stored(c) \/ UNCHANGED <<stored, meant>>
    /\ calls' = calls \ {c}
    /\ UNCHANGED <<editor, detection, visual, touched, edits, unchecked>>

ChangeSelection(i) ==
    \/ \E name \in Names : Rename(i, name)
    \/ AddMap(i) \/ DeleteSelection(i)
    \/ \E j \in DOMAIN detectionObj.selections[i].data :
        \/ DeleteMap(i, j)
        \/ \E d \in Maps : UpdateDatum(i, j, d)

Next ==
    \/ \E d \in {stored, [stored EXCEPT !.how = "list"], None} : Open(d)
    \/ Cancel \/ OnEditorTypeChange \/ Breaks
    \/ \E i \in DOMAIN detectionObj.selections : ChangeSelection(i)
    \/ AddSelection \/ UpdateCondition \/ Render \/ OnBlur
    \/ Submit
    \/ \E c \in calls : Written(c) \/ WriteFails(c)

Spec == Init /\ [][Next]_vars

-----------------------------------------------------------------------------
(* Properties *)

\* A rule that is opened again shows every selection and map that was shown when it was
\* submitted, through renames, switches of the editor and what is compiled at each change.
\* (Two maps with one key, or one without a key beside others, are lost in silence; so are
\* the fields of a selection named timeframe and its values but one, and the condition of a
\* rule with a selection of that name; and so is a selection whose name is another's, where
\* no error is raised or the error was cleared: "Add selection" after a deletion, or any
\* change of maps after a rename.)
RuleShown == meant # None => Parse(stored) = meant

=============================================================================
