----------------------------- MODULE AlertTriggers -----------------------------
(***************************************************************************)
(* The alert triggers of a detector, in the last step of the wizard and on *)
(* the page that edits them: ConfigureAlerts with a panel for each trigger.*)
(* A panel keeps state of its own (which detection types are ticked, which *)
(* rules are named), made from the trigger when it mounts; panels are told *)
(* apart by index, so the one at an index stays when another trigger gets  *)
(* there.  Whether the triggers are valid is kept beside them by the page. *)
(* The wizard searches for the rules of each log type that is chosen and   *)
(* offers those that it has, of whichever search answered last.  Saving is *)
(* left to DetectorEditing, rules switched on and off to DetectorWizard;   *)
(* severities, tags and notifications are left out, but that the message a *)
(* new trigger gets as its panel mounts types it.                          *)
(***************************************************************************)
EXTENDS Naturals, Sequences

CONSTANTS
    LogTypes,
    RuleNames,      \* the names of rules; each log type has all of them, in its own version
    MaxTriggers,    \* MAX_ALERT_CONDITIONS, which is 10 in the code
    MaxChanges      \* how often the user changes the detector and its triggers

VARIABLES
    form,           \* "wizard", "edit", "late": the edit page whose detector is to be fetched,
                    \* or "found" when it was
    stage,          \* "define", "triggers" or "done"
    logType, threatIntel,   \* of the detector
    triggers,       \* detector.triggers
    panels,         \* the state of the panel at each index
    rulesOptions,   \* the rules that the panels offer
    searches,       \* how many searches for the rules of each log type have not answered
    isValid,        \* stepDataValid of the wizard, isTriggerNameValid of the page
    stored,         \* the triggers that the edit page has not read yet
    reused,         \* history: a panel was given a trigger that it was not made for
    retyped,        \* history: the log type was changed when there were triggers
    misnamed,       \* history: rules were named when those of another log type were offered
    changes         \* how often the user changed something

triggerVars == <<form, stage, logType, threatIntel, triggers, panels, rulesOptions, searches,
                 isValid, stored, reused, retyped, misnamed, changes>>

Types == {"rules", "threat_intel"}
RulesOf(type) == {<<type, r>> : r \in RuleNames}
AllRules == UNION {RulesOf(type) : type \in LogTypes}

\* What is searched for: the wizard does so before a log type is chosen, and finds nothing.
Unchosen == ""
Searched == LogTypes \cup {Unchosen}
RulesFoundOf(type) == IF type \in LogTypes THEN RulesOf(type) ELSE {}
Triggers ==
    [name : {"", "good"}, detection_types : SUBSET Types, ids : SUBSET AllRules,
     types : SUBSET LogTypes]
Panels == [ticked : SUBSET Types, selectedNames : SUBSET AllRules]

-----------------------------------------------------------------------------

TriggerValid(t) == t.name = "good" /\ t.detection_types # {}
isTriggerValid(ts) == \A i \in DOMAIN ts : TriggerValid(ts[i])

EmptyAlertCondition(name, detection) ==
    [name |-> name, detection_types |-> detection, ids |-> {}, types |-> {}]

\* getTriggerName: the wizard numbers its triggers, the page leaves the name empty.
TriggerName == IF form = "wizard" THEN "good" ELSE ""
AddedCondition ==
    EmptyAlertCondition(TriggerName, {"rules"} \cup (IF threatIntel THEN {"threat_intel"} ELSE {}))

\* The state that a panel starts with.
Mounted(t) == [ticked |-> t.detection_types, selectedNames |-> {}]

\* prepareMessage on mount writes the message of a trigger that has none, and with it its types;
\* the triggers without a message are the new ones, which have no types.
Prepared(t) == IF t.types # {} THEN t ELSE [t EXCEPT !.types = {logType}]

\* The wizard makes its rule options anew on every render: its panels name the rules again.
Named(ps, ts, options) ==
    [i \in DOMAIN ps |-> [ps[i] EXCEPT !.selectedNames = ts[i].ids \cap options]]
Rerendered(ps, ts) == IF form = "wizard" THEN Named(ps, ts, rulesOptions) ELSE ps

\* ConfigureAlerts mounts over these triggers: without any it adds one.  A message that is
\* prepared has the triggers judged, whatever the page was told of them.
Mount(ts) ==
    LET all == IF ts = <<>> THEN <<AddedCondition>> ELSE ts IN
    /\ triggers' = [i \in DOMAIN all |-> Prepared(all[i])]
    /\ panels' = [i \in DOMAIN all |-> Mounted(all[i])]
    /\ isValid' = isTriggerValid(all)

\* What the user may do, within the bound.
Acts == changes < MaxChanges /\ changes' = changes + 1

\* onAlertTriggerChanged
Change(ts, ps) ==
    /\ triggers' = ts
    /\ panels' = Rerendered(ps, ts)
    /\ isValid' = isTriggerValid(ts)

\* updateTrigger: any change of a trigger brings its types up to date.
UpdateTrigger(i, t, ps) == Change([triggers EXCEPT ![i] = [t EXCEPT !.types = {logType}]], ps)

-----------------------------------------------------------------------------

\* Triggers as they are stored: they were valid and about the log type when they were saved.
StoredTriggers(type, threat) ==
    {[name |-> "good", detection_types |-> d, ids |-> ids, types |-> {type}] :
        d \in IF threat THEN (SUBSET Types) \ {{}} ELSE {{"rules"}}, ids \in SUBSET RulesOf(type)}
StoredLists(type, threat) ==
    UNION {[1 .. n -> StoredTriggers(type, threat)] : n \in 0 .. MaxTriggers}

\* The wizard starts as its first log type has been chosen, before any search has answered.
Init ==
    /\ form \in {"wizard", "edit", "late"}
    /\ logType \in LogTypes
    /\ triggers = <<>> /\ panels = <<>> /\ isValid = TRUE
    /\ reused = FALSE /\ retyped = FALSE /\ misnamed = FALSE /\ changes = 0
    /\ rulesOptions = {}
    /\ \/ /\ form = "wizard" /\ stage = "define"
          /\ threatIntel = FALSE /\ stored = <<>>
          /\ searches = [type \in Searched |-> IF type \in {Unchosen, logType} THEN 1 ELSE 0]
       \/ /\ form # "wizard" /\ stage = "open"
          /\ threatIntel \in BOOLEAN /\ searches = [type \in Searched |-> 0]
          /\ stored \in StoredLists(logType, threatIntel)

\* The edit page opens over the detector of the page before; without one it starts with an
\* empty detector, which gets an empty trigger, until the detector is found in the list.
Open ==
    /\ stage = "open" /\ stage' = "triggers"
    /\ IF form = "edit" THEN Mount(stored) /\ stored' = <<>>
       ELSE Mount(<<>>) /\ UNCHANGED stored
    /\ UNCHANGED <<form, logType, threatIntel, rulesOptions, searches, reused, retyped, misnamed,
                   changes>>

\* getRules: the detector that was found takes the place of the empty one, panels and judgement
\* of which stay.
DetectorFound ==
    /\ stage = "triggers" /\ form = "late" /\ form' = "found"
    /\ LET kept == IF Len(panels) < Len(stored) THEN Len(panels) ELSE Len(stored) IN
       panels' = [i \in DOMAIN stored |->
                    IF i <= kept THEN panels[i] ELSE Mounted(stored[i])]
    /\ triggers' = stored /\ stored' = <<>> /\ reused' = TRUE
    /\ UNCHANGED <<stage, logType, threatIntel, rulesOptions, searches, isValid, retyped,
                   misnamed, changes>>

\* getRules: the rules of the detector have come, and the panels name those of their triggers.
\* For a detector that was found, those of the empty one are asked for, and none come.
RulesFound ==
    /\ stage = "triggers" /\ form = "edit" /\ rulesOptions = {}
    /\ rulesOptions' = RulesOf(logType)
    /\ panels' = Named(panels, triggers, rulesOptions')
    /\ UNCHANGED <<form, stage, logType, threatIntel, triggers, searches, isValid, stored,
                   reused, retyped, misnamed, changes>>

-----------------------------------------------------------------------------
(* The first step of the wizard *)

Defining == form = "wizard" /\ stage = "define"

\* onDetectorTypeChange turns threat intelligence off, and leaves the triggers and the rules that
\* are offered as they are; componentDidUpdate has setupRulesState search for those of the type.
OnDetectorTypeChange(type) ==
    /\ Defining /\ Acts /\ type # logType
    /\ logType' = type /\ threatIntel' = FALSE
    /\ searches' = [searches EXCEPT ![type] = @ + 1]
    /\ retyped' = (retyped \/ triggers # <<>>)
    /\ UNCHANGED <<form, stage, triggers, panels, rulesOptions, isValid, stored, reused, misnamed>>

\* A search of setupRulesState answers, perhaps after a later one, and perhaps without the rules
\* of one of its two requests or of both: what it found is offered, whatever the log type is by
\* now and whichever step is shown; the panels name their rules again.
GotRules(type, found) ==
    /\ form = "wizard" /\ stage # "done" /\ searches[type] > 0
    /\ searches' = [searches EXCEPT ![type] = @ - 1]
    /\ rulesOptions' = found
    /\ panels' = Named(panels, triggers, found)
    /\ UNCHANGED <<form, stage, logType, threatIntel, triggers, isValid, stored, reused, retyped,
                   misnamed, changes>>

\* It is lost, and nothing catches what is thrown.
RulesLost(type) ==
    /\ form = "wizard" /\ stage # "done" /\ searches[type] > 0
    /\ searches' = [searches EXCEPT ![type] = @ - 1]
    /\ UNCHANGED <<form, stage, logType, threatIntel, triggers, panels, rulesOptions, isValid,
                   stored, reused, retyped, misnamed, changes>>

\* (mutant: the triggers are left as they are)
OnThreatIntelligenceChangedAlone(checked) ==
    /\ Defining /\ Acts /\ threatIntel # checked
    /\ threatIntel' = checked
    /\ UNCHANGED <<form, stage, logType, triggers, panels, rulesOptions, searches, isValid,
                   stored, reused, retyped, misnamed>>

\* onThreatIntelligenceChanged changes the triggers with it.
OnThreatIntelligenceChanged(checked) ==
    /\ Defining /\ Acts /\ threatIntel # checked
    /\ threatIntel' = checked
    /\ triggers' = [i \in DOMAIN triggers |->
                      [triggers[i] EXCEPT !.detection_types =
                          IF checked THEN @ \cup {"threat_intel"} ELSE @ \ {"threat_intel"}]]
    /\ UNCHANGED <<form, stage, logType, panels, rulesOptions, searches, isValid, stored, reused,
                   retyped, misnamed>>

\* Next, which waits for no search, and the panels mount; an empty list gets a trigger again.
OnNextClick ==
    /\ Defining /\ stage' = "triggers"
    /\ LET all == IF triggers = <<>> THEN <<AddedCondition>> ELSE triggers IN
       /\ triggers' = [i \in DOMAIN all |-> Prepared(all[i])]
       /\ panels' = Named([i \in DOMAIN all |-> Mounted(all[i])], all, rulesOptions)
       /\ isValid' = isTriggerValid(all)
    /\ UNCHANGED <<form, logType, threatIntel, rulesOptions, searches, stored, reused, retyped,
                   misnamed, changes>>

OnPreviousClick ==
    /\ form = "wizard" /\ stage = "triggers"
    /\ stage' = "define" /\ panels' = <<>>
    /\ UNCHANGED <<form, logType, threatIntel, triggers, rulesOptions, searches, isValid, stored,
                   reused, retyped, misnamed, changes>>

-----------------------------------------------------------------------------
(* The triggers *)

Editing == stage = "triggers" /\ Acts
KeptBut == UNCHANGED <<form, stage, logType, threatIntel, rulesOptions, searches, stored, retyped>>
Kept == KeptBut /\ UNCHANGED misnamed

AddCondition ==
    /\ Editing /\ Len(triggers) < MaxTriggers
    /\ LET added == AddedCondition IN
       Change(Append(triggers, Prepared(added)), Append(panels, Mounted(added)))
    /\ Kept /\ UNCHANGED reused

\* triggers.splice(i, 1)
Spliced(s, i) == SubSeq(s, 1, i - 1) \o SubSeq(s, i + 1, Len(s))

\* onDelete of ConfigureAlerts: the last panel goes, whichever trigger does.
OnDelete(i) ==
    /\ Editing
    /\ Change(Spliced(triggers, i), SubSeq(panels, 1, Len(panels) - 1))
    /\ reused' = (reused \/ i < Len(triggers))
    /\ Kept

OnNameChange(i, name) ==
    /\ Editing
    /\ UpdateTrigger(i, [triggers[i] EXCEPT !.name = name], panels)
    /\ Kept /\ UNCHANGED reused

\* The boxes of the detection types, which are there when the detector has threat intelligence:
\* what is ticked is up to the panel, what is added or taken away to the trigger.
OnDetectionTypeChange(i, type) ==
    LET enabled == type \notin panels[i].ticked
        Set(types) == IF enabled THEN types \cup {type} ELSE types \ {type}
    IN  /\ Editing /\ threatIntel
        /\ UpdateTrigger(i, [triggers[i] EXCEPT !.detection_types = Set(@)],
                         [panels EXCEPT ![i].ticked = Set(@)])
        /\ Kept /\ UNCHANGED reused

OnRuleNamesChange(i, ids) ==
    /\ Editing /\ "rules" \in panels[i].ticked
    /\ UpdateTrigger(i, [triggers[i] EXCEPT !.ids = ids],
                     [panels EXCEPT ![i].selectedNames = ids \cap rulesOptions])
    /\ misnamed' = (misnamed \/ ~(rulesOptions \subseteq RulesOf(logType)))
    /\ KeptBut /\ UNCHANGED reused

\* Create of the wizard and Save of the page, which are disabled by the judgement.
Save ==
    /\ stage = "triggers" /\ isValid /\ stage' = "done"
    /\ UNCHANGED <<form, logType, threatIntel, triggers, panels, rulesOptions, searches, isValid,
                   stored, reused, retyped, misnamed, changes>>

Next ==
    \/ Open \/ DetectorFound \/ RulesFound
    \/ \E type \in LogTypes : OnDetectorTypeChange(type)
    \/ \E type \in Searched :
          \/ \E found \in SUBSET RulesFoundOf(type) : GotRules(type, found)
          \/ RulesLost(type)
    \/ \E checked \in BOOLEAN : OnThreatIntelligenceChanged(checked)
    \/ OnNextClick \/ OnPreviousClick
    \/ AddCondition
    \/ \E i \in DOMAIN triggers :
          \/ OnDelete(i)
          \/ \E name \in {"", "good"} \ {triggers[i].name} : OnNameChange(i, name)
          \/ \E type \in Types : OnDetectionTypeChange(i, type)
          \/ \E ids \in SUBSET rulesOptions : OnRuleNamesChange(i, ids)
    \/ Save

-----------------------------------------------------------------------------
(* Properties *)

TypeOK ==
    /\ form \in {"wizard", "edit", "late", "found"}
    /\ stage \in {"open", "define", "triggers", "done"}
    /\ logType \in LogTypes /\ threatIntel \in BOOLEAN /\ isValid \in BOOLEAN
    /\ triggers \in Seq(Triggers) /\ Len(triggers) <= MaxTriggers /\ stored \in Seq(Triggers)
    /\ panels \in Seq(Panels)
    /\ rulesOptions \subseteq AllRules /\ searches \in [Searched -> Nat]
    /\ reused \in BOOLEAN /\ retyped \in BOOLEAN /\ misnamed \in BOOLEAN
    /\ changes \in 0 .. MaxChanges

\* A trigger without a valid name, or that nothing sets off, is never saved, although a new one
\* is not judged when it is added, nor are those that are read late.
SavedValid == stage = "done" => isTriggerValid(triggers)

\* A panel ticks the detection types of its trigger and names its rules among those that the
\* page has; but for panels that were given the trigger of another.
PanelsMatch ==
    (stage = "triggers" /\ ~reused) =>
        /\ Len(panels) = Len(triggers)
        /\ \A i \in DOMAIN panels :
              /\ panels[i].ticked = triggers[i].detection_types
              /\ panels[i].selectedNames = triggers[i].ids \cap rulesOptions

\* The triggers are about the log type of the detector, about its rules, and about threat
\* intelligence when the detector uses it; but for a change of the log type under them, and for
\* rules that were named when the page offered those of another log type: Next does not wait for
\* the rules of the log type, and an older search may answer after a newer one.
TriggersFit ==
    (stage \in {"triggers", "done"} /\ form # "late" /\ ~retyped) =>
        \A i \in DOMAIN triggers :
            /\ triggers[i].types = {logType}
            /\ ~misnamed => triggers[i].ids \subseteq RulesOf(logType)
            /\ "threat_intel" \in triggers[i].detection_types => threatIntel

\* The triggers that are shown and saved are the ones that were set.
TriggersHold == SavedValid /\ PanelsMatch /\ TriggersFit

=============================================================================
