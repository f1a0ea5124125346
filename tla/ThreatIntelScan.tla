--------------------------- MODULE ThreatIntelScan ---------------------------
(***************************************************************************)
(* The configuration of the threat intelligence scan: the overview         *)
(* (ThreatIntelOverview, with ThreatIntelLogScanConfig) shows it, starts   *)
(* and stops it and deletes it; the form (ThreatIntelScanConfigForm)       *)
(* creates and edits it.  The form is one component for two routes, so     *)
(* that it stays mounted, with what it holds, when the one replaces the    *)
(* other.                                                                  *)
(*                                                                         *)
(* A configuration is its id, the number of the edit that gave it its      *)
(* content (0: the empty form, which cannot be submitted), and whether it  *)
(* is enabled.  There is at most one in a cluster.                         *)
(***************************************************************************)
EXTENDS Naturals, FiniteSets

CONSTANTS
    DataSources,
    MaxEdits,       \* how many edits the user makes (a bound for TLC)
    MaxCalls        \* how many calls wait at a time (a bound for TLC)

\* An id names the cluster and the last edit before the configuration was created there.
NoId == <<>>
Ids == {NoId} \cup (DataSources \X (1 .. MaxEdits))
Configs == [id : Ids, content : 0 .. MaxEdits, enabled : BOOLEAN]

\* getEmptyScanConfigFormModel; also stands for undefined.
Empty == [id |-> NoId, content |-> 0, enabled |-> TRUE]

VARIABLES
    cluster,        \* by data source, the configuration there, or Empty
    active,         \* dataSourceInfo.activeDataSource
    page,           \* overview, create or edit
    scanConfig,     \* of the overview
    scanId,         \* of the form ...
    inputs,         \* ... and what it holds
    configureInProgress,
    calls,          \* the calls that wait
    edits,          \* how many edits were made
    saved           \* history: what the writes were meant to make of the clusters, or Careless

form == <<scanId, inputs, configureInProgress>>
vars == <<cluster, active, page, scanConfig, form, calls, edits, saved>>

Pages == {"overview", "create", "edit"}
FormPages == {"create", "edit"}

\* A call goes to the data source that is active when it is made.
Call(by, step, id, body) ==
    [by |-> by, step |-> step, to |-> active, id |-> id, body |-> body, live |-> TRUE]
Load(by, at, clusters) ==
    [by |-> by, step |-> "load", to |-> at, id |-> NoId, body |-> clusters[at], live |-> TRUE]

\* Once the user has not waited for an answer, or a load or an answer was lost, nothing is
\* claimed any more.
Careless == <<>>
Wait == saved' = IF calls = {} THEN saved ELSE Careless

TypeOK ==
    /\ cluster \in [DataSources -> Configs] /\ active \in DataSources
    /\ page \in Pages
    /\ scanConfig \in Configs /\ inputs \in Configs /\ scanId \in Ids
    /\ configureInProgress \in BOOLEAN
    /\ calls \subseteq [by : {"overview", "form"}, step : {"load", "create", "update", "delete"},
                        to : DataSources, id : Ids, body : Configs, live : BOOLEAN]
    /\ edits \in 0 .. MaxEdits
    /\ saved \in [DataSources -> Configs] \cup {Careless}

Room == Cardinality(calls) < MaxCalls

Init ==
    /\ cluster = [d \in DataSources |-> Empty]
    /\ active \in DataSources
    /\ page = "overview" /\ scanConfig = Empty
    /\ scanId = NoId /\ inputs = Empty /\ configureInProgress = FALSE
    /\ calls = {Load("overview", active, cluster)}
    /\ edits = 0 /\ saved = cluster

-----------------------------------------------------------------------------
(* Navigation *)

\* What outlives the page it was made by: writes, and the form's load, which may still
\* take the user to the form.
Outlive(waiting) ==
    {[c EXCEPT !.live = FALSE] : c \in {d \in waiting : d.step # "load" \/ d.by = "form"}}

\* The page pg is shown with a configuration in location.state, or Empty for none.  The
\* form asks for the configuration whenever it turns to editing without one.
Show(pg, given, waiting) ==
    /\ page' = pg
    /\ scanConfig' = Empty
    /\ IF page \in FormPages /\ pg \in FormPages
       THEN /\ UNCHANGED form
            /\ calls' = waiting \cup {Load("form", active, cluster) : p \in {pg} \ {page, "create"}}
       ELSE /\ scanId' = given.id /\ inputs' = given /\ configureInProgress' = FALSE
            /\ calls' = Outlive(waiting) \cup
                   CASE pg = "overview"             -> {Load("overview", active, cluster)}
                     [] pg = "edit" /\ given.id = NoId -> {Load("form", active, cluster)}
                     [] OTHER                       -> {}

\* By a link or the address, without a state.
Visit(pg) ==
    /\ Room /\ pg # page
    /\ Show(pg, Empty, calls)
    /\ Wait
    /\ UNCHANGED <<cluster, active, edits>>

\* onEditScanConfig, and the card "configure-scan" when there is a configuration.
OnEditScanConfig ==
    /\ page = "overview"
    /\ Show("edit", scanConfig, calls)
    /\ Wait
    /\ UNCHANGED <<cluster, active, edits>>

\* The data source is chosen, where it can be.
OnDataSourceSelected(d) ==
    /\ Room /\ page # "edit" /\ d # active
    /\ active' = d
    /\ calls' = calls \cup {Load("overview", d, cluster) : p \in {page} \cap {"overview"}}
    /\ Wait
    /\ UNCHANGED <<cluster, page, scanConfig, form, edits>>

-----------------------------------------------------------------------------
(* What the user does *)

ToggleScan ==
    /\ page = "overview" /\ scanConfig # Empty /\ Room
    /\ calls' = calls \cup
           {Call("overview", "update", scanConfig.id, [scanConfig EXCEPT !.enabled = ~@])}
    /\ Wait
    /\ UNCHANGED <<cluster, active, page, scanConfig, form, edits>>

OnDeleteConfirmed ==
    /\ page = "overview" /\ scanConfig # Empty /\ Room
    /\ calls' = calls \cup {Call("overview", "delete", scanConfig.id, Empty)}
    /\ Wait
    /\ UNCHANGED <<cluster, active, page, scanConfig, form, edits>>

\* onSourcesChange, onScheduleChange, onTriggersChange, with valid input.
Edit ==
    /\ page \in FormPages /\ edits < MaxEdits
    /\ edits' = edits + 1
    /\ inputs' = [inputs EXCEPT !.content = edits + 1]
    /\ UNCHANGED <<cluster, active, page, scanConfig, scanId, configureInProgress, calls, saved>>

\* onSubmit, which the step of the alert triggers offers.
OnSubmit ==
    /\ page \in FormPages /\ inputs.content # 0 /\ ~configureInProgress /\ Room
    /\ configureInProgress' = TRUE
    /\ calls' = calls \cup {IF page = "edit" THEN Call("form", "update", scanId, inputs)
                                             ELSE Call("form", "create", NoId, inputs)}
    /\ Wait
    /\ UNCHANGED <<cluster, active, page, scanConfig, scanId, inputs, edits>>

-----------------------------------------------------------------------------
(* Answers *)

Done(c, more) == calls' = (calls \ {c}) \cup more

\* getThreatIntelScanConfig finds a configuration.
Loaded(c) ==
    /\ c.step = "load"
    /\ \E found \in {c.body, cluster[c.to]} \ {Empty} :
        /\ scanConfig' = IF c.live /\ c.by = "overview" THEN found ELSE scanConfig
        /\ IF c.live /\ c.by = "form"
           THEN scanId' = found.id /\ inputs' = found
           ELSE UNCHANGED <<scanId, inputs>>
    /\ Done(c, {})
    /\ UNCHANGED <<cluster, active, page, configureInProgress, edits, saved>>

\* It finds none: the form goes on to create one, also when it was left.
LoadedNone(c) ==
    /\ c.step = "load" /\ Empty \in {c.body, cluster[c.to]}
    /\ \/ /\ c.by = "overview"
          /\ scanConfig' = IF c.live THEN Empty ELSE scanConfig
          /\ Done(c, {})
          /\ UNCHANGED <<page, form>>
       \/ c.by = "form" /\ Show("create", Empty, calls \ {c})
    /\ UNCHANGED <<cluster, active, edits, saved>>

LoadFails(c) ==
    /\ c.step = "load"
    /\ Done(c, {})
    /\ saved' = Careless
    /\ UNCHANGED <<cluster, active, page, scanConfig, form, edits>>

\* What a write makes of the cluster it goes to; an update of another id, or a second
\* creation, is refused.
Writes(c) ==
    LET there == cluster[c.to] IN
    /\ \/ c.step = "create" /\ there = Empty
          /\ cluster' = [cluster EXCEPT ![c.to] = [c.body EXCEPT !.id = <<c.to, edits>>]]
       \/ c.step = "update" /\ there # Empty /\ there.id = c.id
          /\ cluster' = [cluster EXCEPT ![c.to] = [c.body EXCEPT !.id = c.id]]
       \/ c.step = "delete" /\ there # Empty /\ there.id = c.id
          /\ cluster' = [cluster EXCEPT ![c.to] = Empty]

\* What it was meant to make of it: the form changes the content, the overview the rest.
Meant(c) ==
    CASE c.step = "create" -> [c.body EXCEPT !.id = <<c.to, edits>>]
      [] c.step = "delete" -> Empty
      [] OTHER -> IF c.by = "overview" THEN [saved[c.to] EXCEPT !.enabled = ~@]
                                       ELSE [saved[c.to] EXCEPT !.content = c.body.content]

\* (mutant: the overview loads the configuration again only when it was deleted)
LoadAgainRarely(c) ==
    {Load("overview", active, cluster') : s \in {c.step} \cap {"delete"}}

\* What the overview asks for after a write of its own, if it is still mounted.
LoadAgain(c) ==
    {Load("overview", active, cluster') : l \in {c.live} \cap {TRUE}}

\* The form goes to the overview; the overview loads the configuration again.
Written(c) ==
    /\ Writes(c)
    /\ saved' = IF saved = Careless THEN saved ELSE [saved EXCEPT ![c.to] = Meant(c)]
    /\ \/ /\ c.by = "form" /\ page # "overview"
          /\ page' = "overview" /\ scanConfig' = Empty
          /\ scanId' = NoId /\ inputs' = Empty /\ configureInProgress' = FALSE
          /\ calls' = Outlive(calls \ {c}) \cup
                 {Load("overview", active, cluster')}
       \/ /\ c.by = "overview" \/ page = "overview"
          /\ Done(c, LoadAgain(c))
          /\ UNCHANGED <<page, scanConfig, form>>
    /\ UNCHANGED <<active, edits>>

Refused(c) ==
    /\ c.step # "load"
    /\ configureInProgress' = (configureInProgress /\ ~(c.by = "form" /\ c.live))
    /\ Done(c, {})
    /\ UNCHANGED <<cluster, active, page, scanConfig, scanId, inputs, edits, saved>>

\* The answer is lost after the write was done or not; the form keeps waiting.
Lost(c) ==
    /\ c.step # "load"
    /\ Writes(c) \/ UNCHANGED cluster
    /\ Done(c, {})
    /\ saved' = Careless
    /\ UNCHANGED <<active, page, scanConfig, form, edits>>

Answer(c) ==
    \/ Loaded(c) \/ LoadedNone(c) \/ LoadFails(c)
    \/ Written(c) \/ Refused(c) \/ Lost(c)

Next ==
    \/ \E pg \in Pages : Visit(pg)
    \/ \E d \in DataSources : OnDataSourceSelected(d)
    \/ OnEditScanConfig \/ ToggleScan \/ OnDeleteConfirmed
    \/ Edit \/ OnSubmit
    \/ \E c \in calls : Answer(c)

Spec == Init /\ [][Next]_vars

-----------------------------------------------------------------------------
(* Properties *)

\* The overview and the form each write the whole configuration from a copy, and yet
\* starting, stopping, editing and deleting it do not undo each other, nor does a form that
\* was opened for one cluster change the configuration of another, as long as the user
\* waits for answers and everything that is loaded arrives.
ScanKept == saved # Careless => cluster = saved

=============================================================================
