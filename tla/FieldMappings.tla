----------------------------- MODULE FieldMappings -----------------------------
(***************************************************************************)
(* The mappings from the fields that rules ask for to the fields of the    *)
(* log, in the wizard (ConfigureFieldMapping) and on the pages that edit a *)
(* detector (EditFieldMappings).  Each form keeps mappings of its own,     *)
(* shows these, merges the answers of the cluster into them, and hands     *)
(* copies to the page around it, which saves the copy.  A selection stands *)
(* for the first index and the log type of the detector.                   *)
(***************************************************************************)
EXTENDS FiniteSets, Naturals, Functions

CONSTANTS
    RuleFields, LogFields,
    Timestamp,      \* the rule field that every rule needs
    ThreatFields,   \* those that threat intelligence needs, if the detector uses it
    Paths,          \* the automatic mappings of each selection
    Stored,         \* the mappings that the index of each selection has already
    Options,        \* the fields of the log of each selection
    NoSelection,
    MaxCalls,       \* requests under way
    MaxChanges      \* how often the user changes something

VARIABLES
    form,           \* "wizard" or "edit"
    mounted,
    selection,      \* the index and log type of the detector
    enabled,        \* the fields of the rules that are enabled
    createdMappings,    \* of the form
    offered,        \* the rule fields that the form lists
    fieldMappings,  \* of the page around it
    calls,
    chosen,         \* history: the mappings that the user set and that still apply
    mixed,          \* history: page and form were reset apart, or an answer outlived its form
    changes

mappingVars == <<form, mounted, selection, enabled, createdMappings, offered, fieldMappings, calls,
                 chosen, mixed, changes>>

Selections == DOMAIN Paths
Mappings == UNION {[fields -> LogFields] : fields \in SUBSET RuleFields}
NoMappings == [f \in {} |-> f]
Without(map, fields) == Restrict(map, DOMAIN map \ fields)
Over(map, other) == [f \in DOMAIN map \cup DOMAIN other |->
                        IF f \in DOMAIN map THEN map[f] ELSE other[f]]

Within(map, other) == \A f \in DOMAIN map : f \in DOMAIN other /\ other[f] = map[f]

\* A request for the mappings of a selection; "mappings" is the second of the edit form, and
\* has the copy that was made between the two.  A form that is left answers from what it had.
Calls ==
    [step : {"view", "mappings"}, asked : Selections, copy : Mappings, alive : BOOLEAN,
     needed : SUBSET RuleFields]
Request(s) == [step |-> "view", asked |-> s, copy |-> NoMappings, alive |-> TRUE, needed |-> {}]

Init ==
    /\ form \in {"wizard", "edit"} /\ mounted = TRUE
    /\ enabled = {} /\ offered = {} /\ createdMappings = NoMappings /\ fieldMappings = NoMappings
    /\ \/ form = "wizard" /\ selection = NoSelection /\ calls = {}
       \/ form = "edit" /\ selection \in Selections /\ calls = {Request(selection)}
    /\ chosen = NoMappings /\ mixed = FALSE /\ changes = 0

-----------------------------------------------------------------------------
(* The user *)

Acts == changes < MaxChanges /\ changes' = changes + 1
Room == Cardinality(calls) < MaxCalls

\* getAllMappings, which asks nothing without an index and a type.
GetAllMappings(s) ==
    calls' = IF s = NoSelection THEN calls ELSE calls \cup {Request(s)}

\* Index or log type change, on either form.
Select(s) ==
    /\ mounted /\ Acts /\ Room /\ s # selection
    /\ selection' = s /\ GetAllMappings(s)
    /\ UNCHANGED <<form, mounted, enabled, createdMappings, offered, fieldMappings, chosen, mixed>>

\* Rules are switched on or off, or come: the mappings are asked for again.
ChangeRules(fields) ==
    /\ mounted /\ Acts /\ Room /\ fields # enabled
    /\ enabled' = fields /\ GetAllMappings(selection)
    /\ UNCHANGED <<form, mounted, selection, createdMappings, offered, fieldMappings, chosen, mixed>>

\* The wizard starts anew on another data source; the form, which has no selection to ask the
\* mappings of, keeps its own.
ChangeDataSource ==
    /\ form = "wizard" /\ mounted /\ Acts
    /\ selection' = NoSelection /\ enabled' = {} /\ fieldMappings' = NoMappings
    /\ mixed' = TRUE
    /\ UNCHANGED <<form, mounted, createdMappings, offered, calls, chosen>>

\* onMappingCreation: the copy for the page is of all the mappings of the form.
OnMappingCreation(f, field) ==
    /\ mounted /\ Acts /\ f \in offered
    /\ createdMappings' = Over([g \in {f} |-> field], createdMappings)
    /\ fieldMappings' = createdMappings'
    /\ chosen' = Over([g \in {f} |-> field], chosen)
    /\ UNCHANGED <<form, mounted, selection, enabled, offered, calls, mixed>>

OnMappingRemoval(f) ==
    /\ mounted /\ Acts /\ f \in offered \cap DOMAIN createdMappings
    /\ createdMappings' = Without(createdMappings, {f})
    /\ fieldMappings' = createdMappings'
    /\ chosen' = Without(chosen, {f})
    /\ UNCHANGED <<form, mounted, selection, enabled, offered, calls, mixed>>

\* The next step of the wizard unmounts the form; its requests go on.
OnNextClick ==
    /\ form = "wizard" /\ mounted /\ selection # NoSelection
    /\ mounted' = FALSE
    /\ calls' = {IF c.alive
                 THEN [c EXCEPT !.alive = FALSE, !.copy = createdMappings, !.needed = enabled]
                 ELSE c : c \in calls}
    /\ UNCHANGED <<form, selection, enabled, createdMappings, offered, fieldMappings, chosen, mixed,
                   changes>>

\* Back on the first step, the form starts with the mappings of the page; what only the form had,
\* that was left when page and form were mixed, is gone.
OnPreviousClick ==
    /\ form = "wizard" /\ ~mounted /\ Acts /\ Room
    /\ mounted' = TRUE /\ offered' = {}
    /\ createdMappings' = fieldMappings
    /\ GetAllMappings(selection)
    /\ mixed' = (mixed \/ calls # {})
    /\ chosen' = IF mixed THEN NoMappings ELSE chosen
    /\ UNCHANGED <<form, selection, enabled, fieldMappings>>

-----------------------------------------------------------------------------
(* The answers *)

\* The fields that are needed at all: those of the enabled rules, if any, and the timestamp.
Needed(c) ==
    LET fields == IF c.alive THEN enabled ELSE c.needed
    IN  IF fields = {} THEN {} ELSE fields \cup {Timestamp}
Unmapped(s) == RuleFields \ DOMAIN Paths[s]

\* (mutant: automatic mappings go before those of the form)
MergedAutomatically(c) ==
    LET own == IF c.alive THEN createdMappings ELSE c.copy
        paths == Restrict(Paths[c.asked], DOMAIN Paths[c.asked] \cap Needed(c))
    IN  Over(paths, Without(own, DOMAIN Paths[c.asked] \ Needed(c)))

\* What the wizard makes of an answer: automatic mappings that no enabled rule needs are taken
\* away, the others are added where the form has none, as it is when the answer comes.
Merged(c) ==
    LET own == IF c.alive THEN createdMappings ELSE c.copy
        paths == Restrict(Paths[c.asked], DOMAIN Paths[c.asked] \cap Needed(c))
    IN  Over(Without(own, DOMAIN Paths[c.asked] \ Needed(c)), paths)

\* The answer for the wizard, which tells the page even when its form is gone.  Unmapped fields
\* are listed also for the timestamp and, with threat intelligence switched on, for its fields.
GotMappingsView(c) ==
    LET merged == Merged(c) IN
    /\ form = "wizard"
    /\ calls' = calls \ {c}
    /\ fieldMappings' = merged
    /\ IF c.alive
       THEN /\ createdMappings' = merged
            /\ \E more \in {{Timestamp}, {Timestamp} \cup ThreatFields} :
                  offered' = Needed(c) \cup (Unmapped(c.asked) \cap more)
       ELSE UNCHANGED <<createdMappings, offered>>
    /\ chosen' = Without(chosen, DOMAIN Paths[c.asked] \ Needed(c))
    /\ UNCHANGED <<form, mounted, selection, enabled, mixed, changes>>

\* The first answer for the edit form, after which it copies its mappings and asks for more.
GotViewToEdit(c) ==
    /\ form = "edit" /\ c.step = "view"
    /\ calls' = (calls \ {c}) \cup {[c EXCEPT !.step = "mappings", !.copy = createdMappings]}
    /\ UNCHANGED <<form, mounted, selection, enabled, createdMappings, offered, fieldMappings,
                   chosen, mixed, changes>>

\* The rule fields of both tables of the edit form.
Listed(mapped, s) ==
    LET all == mapped \cup Unmapped(s) IN IF enabled = {} THEN all ELSE all \cap enabled

\* The second: mappings of the index go before those of the form, what is no field of the log
\* goes, and the page is told nothing.
GotMappings(c) ==
    LET merged == Over(Stored[c.asked], c.copy) IN
    /\ form = "edit" /\ c.step = "mappings"
    /\ calls' = calls \ {c}
    /\ createdMappings' =
            Restrict(merged, {f \in DOMAIN merged : merged[f] \in Options[c.asked]})
    /\ offered' = Listed(DOMAIN Stored[c.asked], c.asked)
    /\ chosen' = NoMappings
    /\ UNCHANGED <<form, mounted, selection, enabled, fieldMappings, mixed, changes>>

\* The second is refused: the copy takes the place of what the user has done since.
MappingsRefused(c) ==
    /\ form = "edit" /\ c.step = "mappings"
    /\ calls' = calls \ {c}
    /\ createdMappings' = c.copy
    /\ offered' = Listed({}, c.asked)
    /\ chosen' = NoMappings
    /\ UNCHANGED <<form, mounted, selection, enabled, fieldMappings, mixed, changes>>

\* An answer is refused or lost, and the form stays as it is.
NoAnswer(c) ==
    /\ calls' = calls \ {c}
    /\ UNCHANGED <<form, mounted, selection, enabled, createdMappings, offered, fieldMappings,
                   chosen, mixed, changes>>

Next ==
    \/ \E s \in Selections : Select(s)
    \/ \E fields \in SUBSET RuleFields : ChangeRules(fields)
    \/ ChangeDataSource
    \/ \E f \in RuleFields :
          \/ \E field \in LogFields : OnMappingCreation(f, field)
          \/ OnMappingRemoval(f)
    \/ OnNextClick \/ OnPreviousClick
    \/ \E c \in calls :
          GotMappingsView(c) \/ GotViewToEdit(c) \/ GotMappings(c) \/ MappingsRefused(c) \/ NoAnswer(c)

-----------------------------------------------------------------------------
(* Properties *)

TypeOK ==
    /\ form \in {"wizard", "edit"} /\ mounted \in BOOLEAN /\ mixed \in BOOLEAN
    /\ selection \in Selections \cup {NoSelection}
    /\ enabled \subseteq RuleFields /\ offered \subseteq RuleFields
    /\ {createdMappings, fieldMappings, chosen} \subseteq Mappings
    /\ calls \subseteq Calls /\ Cardinality(calls) <= MaxCalls
    /\ changes \in 0..MaxChanges

\* The mappings that the wizard shows are those that it saves with the detector.
MappingsAgree == (form = "wizard" /\ mounted /\ ~mixed) => createdMappings = fieldMappings

\* A mapping that the user set is shown until the user changes it, its rules are switched off, the
\* edit form loads again or a form that was mixed is left, in whichever order answers come; and it
\* is saved.
ChoicesKept ==
    /\ mounted => Within(chosen, createdMappings)
    /\ ~mixed => Within(chosen, fieldMappings)

\* What is shown and saved of the mappings is what the user set.
MappingsHold == MappingsAgree /\ ChoicesKept

=============================================================================
