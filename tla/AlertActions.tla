----------------------------- MODULE AlertActions -----------------------------
(***************************************************************************)
(* What the user does to alerts on the Alerts page: acknowledging those of *)
(* detection rules, detector by detector, and those of correlations, and   *)
(* acknowledging and completing those of threat intelligence; from a row,  *)
(* for the selection, and in the flyout of an alert.  After it the list is *)
(* loaded anew.                                                            *)
(*                                                                         *)
(* One tab is followed; AlertsPage is about changing tabs, ranges and data *)
(* sources.  An alert that is loaded again has the same row, so the table, *)
(* which is not part of the source, keeps what was checked there as it was *)
(* then.  The cluster does all of what it accepts.                         *)
(***************************************************************************)
EXTENDS Naturals, FiniteSets

CONSTANTS
    Alerts,         \* the alerts of the tab, each of a detector of its own
    MaxChanges      \* how often the user does something to alerts

Tabs == {"detection", "correlations", "threatIntel"}
States == {"ACTIVE", "ACKNOWLEDGED", "COMPLETED"}
Absent == "ABSENT"

VARIABLES
    selectedTabId,  \* the tab
    visit,          \* the page: how often it was opened, 0 while the user is elsewhere
    cluster,        \* the state of each alert
    listed,         \* the alerts that are listed, with their states
    checked,        \* what the table has selected
    selectedItems,  \* selected...AlertItems of the tab
    flyoutData,     \* the alert in the flyout, and the state that it is shown with
    changing,       \* the calls of onAcknowledge and onThreatIntelAlertStateChange
    loads,          \* the loads of the list
    changes,        \* how often the user did something
    announced,      \* history: the alerts and states of success toasts
    certain, alone  \* history: see RowsTrue and FlyoutTrue

ofList == <<listed, checked, selectedItems>>
history == <<announced, certain, alone>>
alertVars == <<selectedTabId, visit, cluster, ofList, flyoutData, changing, loads, changes, history>>

Nobody == [alert |-> Absent, state |-> Absent]
Items == [alert : Alerts, state : States]
Calls == [left : SUBSET Alerts, now : SUBSET Alerts, next : States, ok : SUBSET Alerts,
          at : {"sent", "done"}, visit : Nat, inFlyout : BOOLEAN]

TypeOK ==
    /\ selectedTabId \in Tabs /\ visit \in Nat
    /\ cluster \in [Alerts -> States] /\ listed \in [Alerts -> States \cup {Absent}]
    /\ checked \subseteq Items /\ selectedItems \subseteq checked
    /\ flyoutData \in Items \cup {Nobody}
    /\ changing \subseteq Calls
    /\ \A l \in loads : l.seen \in [Alerts -> States \cup {Absent}]
    /\ {certain, alone} \subseteq BOOLEAN /\ announced \subseteq Items

Waiting == [a \in Alerts |-> Absent]
Load(n) == [n |-> n, seen |-> Waiting]

\* The page is opened.
Init ==
    /\ selectedTabId \in Tabs /\ visit = 1
    /\ cluster = [a \in Alerts |-> "ACTIVE"] /\ listed = Waiting
    /\ checked = {} /\ selectedItems = {} /\ flyoutData = Nobody
    /\ changing = {} /\ loads = {Load(0)}
    /\ changes = 0 /\ announced = {} /\ certain = TRUE /\ alone = TRUE

\* onRefresh of a page that is shown: older loads are aborted, but for those of correlations.
Refresh(n) == loads' = (IF selectedTabId = "correlations" THEN loads ELSE {}) \cup {Load(n)}

-----------------------------------------------------------------------------
(* The user *)

\* What an action of the page makes of an alert in this state.
NextState(state) == IF state = "ACTIVE" THEN "ACKNOWLEDGED" ELSE "COMPLETED"
Actionable(state) == state = "ACTIVE" \/ (selectedTabId = "threatIntel" /\ state = "ACKNOWLEDGED")

\* Each request is about the alerts of one detector, or about all that are no alerts of detectors.
Batches(alerts) == IF selectedTabId = "detection" THEN {{a} : a \in alerts} ELSE {alerts}

Begin(alerts, next, inFlyout) ==
    /\ changes < MaxChanges /\ changes' = changes + 1
    /\ \E batch \in Batches(alerts) :
          changing' = changing \cup {[left |-> alerts \ batch, now |-> batch, next |-> next, ok |-> {},
                                    at |-> "sent", visit |-> visit, inFlyout |-> inFlyout]}
    /\ alone' = (alone /\ (flyoutData.alert \in alerts =>
                              inFlyout /\ \A c \in changing : flyoutData.alert \notin c.now \cup c.left))

\* A row is checked or unchecked, and the page is given all that the table has selected.
OnSelectionChange(a) ==
    /\ visit # 0 /\ Actionable(listed[a])
    /\ checked' = IF \E i \in checked : i.alert = a THEN {i \in checked : i.alert # a}
                  ELSE checked \cup {[alert |-> a, state |-> listed[a]]}
    /\ selectedItems' = checked'
    /\ UNCHANGED <<selectedTabId, visit, cluster, listed, flyoutData, changing, loads, changes,
                   history>>

\* The buttons above the table, of which those for threat intelligence need equal states.
ActOnSelection ==
    /\ visit # 0 /\ selectedItems # {}
    /\ \E state \in States :
          /\ selectedTabId = "threatIntel" => \A i \in selectedItems : i.state = state
          /\ Actionable(state) /\ state \in {i.state : i \in selectedItems}
          /\ Begin({i.alert : i \in selectedItems}, NextState(state), FALSE)
    /\ UNCHANGED <<selectedTabId, visit, cluster, ofList, flyoutData, loads, announced, certain>>

\* The button in a row.
ActOnRow(a) ==
    /\ visit # 0 /\ Actionable(listed[a])
    /\ Begin({a}, NextState(listed[a]), FALSE)
    /\ UNCHANGED <<selectedTabId, visit, cluster, ofList, flyoutData, loads, announced, certain>>

\* AlertFlyout, CorrelationAlertFlyout and ThreatIntelAlertFlyout keep the state that the row has.
SetFlyout(a) ==
    /\ visit # 0 /\ flyoutData = Nobody /\ listed[a] # Absent
    /\ flyoutData' = [alert |-> a, state |-> listed[a]]
    /\ alone' = (listed[a] = cluster[a] /\ \A c \in changing : a \notin c.now \cup c.left)
    /\ UNCHANGED <<selectedTabId, visit, cluster, ofList, changing, loads, changes, announced,
                   certain>>

OnFlyoutClose ==
    /\ flyoutData # Nobody
    /\ flyoutData' = Nobody
    /\ UNCHANGED <<selectedTabId, visit, cluster, ofList, changing, loads, changes, history>>

\* The button of the flyout: an acknowledged alert is shown as such before it is.
ActInFlyout ==
    /\ flyoutData # Nobody /\ Actionable(flyoutData.state)
    /\ Begin({flyoutData.alert}, NextState(flyoutData.state), TRUE)
    /\ flyoutData' = IF selectedTabId = "threatIntel" THEN flyoutData
                 ELSE [flyoutData EXCEPT !.state = "ACKNOWLEDGED"]
    /\ UNCHANGED <<selectedTabId, visit, cluster, ofList, loads, announced, certain>>

\* The Refresh button.
PressRefresh ==
    /\ visit # 0 /\ changes < MaxChanges
    /\ changes' = changes + 1 /\ Refresh(changes')
    /\ UNCHANGED <<selectedTabId, visit, cluster, ofList, flyoutData, changing, history>>

\* The user leaves the page, whose loads are aborted or not seen any more, and comes back later.
\* Calls go on.
Leave ==
    /\ visit # 0 /\ changes < MaxChanges
    /\ changes' = changes + 1
    /\ visit' = 0 /\ loads' = {} /\ flyoutData' = Nobody
    /\ listed' = Waiting /\ checked' = {} /\ selectedItems' = {}
    /\ UNCHANGED <<selectedTabId, cluster, changing, history>>

Return ==
    /\ visit = 0
    /\ visit' = changes + 1 /\ loads' = {Load(changes)}
    /\ certain' = (changing = {})
    /\ UNCHANGED <<selectedTabId, cluster, ofList, flyoutData, changing, changes, announced,
                   alone>>

-----------------------------------------------------------------------------
(* The cluster *)

\* The cluster does what the request says.
Serve(c) ==
    /\ c.at = "sent"
    /\ cluster' = [a \in Alerts |-> IF a \in c.now THEN c.next ELSE cluster[a]]
    /\ changing' = (changing \ {c}) \cup {[c EXCEPT !.at = "done"]}
    /\ UNCHANGED <<selectedTabId, visit, ofList, flyoutData, loads, changes, history>>

\* (mutant: the list is loaded anew only when all went well)
RefreshesIfDone(c, ok) == IF selectedTabId = "threatIntel" THEN ok # {} ELSE ok = c.ok \cup c.now

\* Alerts of threat intelligence are loaded anew only when some were changed.
Refreshes(c, ok) == selectedTabId = "threatIntel" => ok # {}

\* The call ends: what it did is told, the selection is dropped (that for threat intelligence is
\* not: another one is), the list is loaded anew, and the flyout learns how it went.
Finish(c, ok) ==
    /\ changing' = changing \ {c}
    /\ announced' = announced \cup {[alert |-> a, state |-> c.next] : a \in ok}
    /\ IF c.visit # visit
       THEN UNCHANGED <<selectedItems, loads, flyoutData>>
       ELSE /\ selectedItems' = IF selectedTabId = "threatIntel" THEN selectedItems ELSE {}
            /\ IF Refreshes(c, ok) THEN Refresh(changes) ELSE UNCHANGED loads
            /\ flyoutData' = IF selectedTabId = "threatIntel" /\ c.inFlyout /\ flyoutData.alert \in ok
                         THEN [flyoutData EXCEPT !.state = c.next] ELSE flyoutData

\* After an answer the next detector follows, if there is one left.
Continue(c, ok) ==
    IF c.left = {} THEN Finish(c, ok)
    ELSE /\ \E batch \in Batches(c.left) :
               changing' = (changing \ {c}) \cup {[c EXCEPT !.now = batch, !.left = @ \ batch,
                                                         !.at = "sent", !.ok = ok]}
         /\ UNCHANGED <<selectedItems, loads, flyoutData, announced>>

Acknowledged(c) ==
    /\ c.at = "done"
    /\ Continue(c, c.ok \cup c.now)
    /\ UNCHANGED <<selectedTabId, visit, cluster, listed, checked, changes, certain, alone>>

Refused(c) ==
    /\ c.at = "sent"
    /\ Continue(c, c.ok)
    /\ UNCHANGED <<selectedTabId, visit, cluster, listed, checked, changes, certain, alone>>

\* An answer is lost, which ends the call.
Lost(c) ==
    /\ Finish(c, c.ok)
    /\ certain' = (certain /\ (selectedTabId = "threatIntel" => c.at = "sent"))
    /\ alone' = (alone /\ c.at = "sent")
    /\ UNCHANGED <<selectedTabId, visit, cluster, listed, checked, changes>>

\* The cluster reads the alerts, and the page lists what was read, checked rows staying so.
Read(l) ==
    /\ l.seen = Waiting
    /\ loads' = (loads \ {l}) \cup {[l EXCEPT !.seen = cluster]}
    /\ UNCHANGED <<selectedTabId, visit, cluster, ofList, flyoutData, changing, changes, history>>

Listed(l) ==
    /\ l.seen # Waiting
    /\ listed' = l.seen /\ loads' = loads \ {l}
    /\ certain' = (certain /\ \A k \in loads : k.n >= l.n /\ (k # l => k.seen = Waiting))
    /\ UNCHANGED <<selectedTabId, visit, cluster, checked, selectedItems, flyoutData, changing,
                   changes, announced, alone>>

\* A load fails: the list becomes empty, and the table has nothing selected any more; but the
\* table of threat intelligence keeps the rows that were filtered before.
LoadFails(l) ==
    /\ loads' = loads \ {l} /\ certain' = FALSE
    /\ IF selectedTabId = "threatIntel" THEN UNCHANGED ofList
       ELSE listed' = Waiting /\ checked' = {} /\ selectedItems' = {}
    /\ UNCHANGED <<selectedTabId, visit, cluster, flyoutData, changing, changes, announced, alone>>

Next ==
    \/ \E a \in Alerts : OnSelectionChange(a) \/ ActOnRow(a) \/ SetFlyout(a)
    \/ ActOnSelection \/ OnFlyoutClose \/ ActInFlyout \/ PressRefresh \/ Leave \/ Return
    \/ \E c \in changing : Serve(c) \/ Acknowledged(c) \/ Refused(c) \/ Lost(c)
    \/ \E l \in loads : Read(l) \/ Listed(l) \/ LoadFails(l)

-----------------------------------------------------------------------------

\* When nothing is under way the list shows what the cluster has, also after a call of which only
\* a part went well.  Excluded: lists that could not be loaded, that older loads of correlations
\* replaced, or that were loaded while a call of a page left before was under way, and changes of
\* threat intelligence alerts whose answer was lost, after which nothing is loaded.
RowsTrue ==
    visit # 0 /\ changing = {} /\ loads = {} /\ certain => listed = cluster

\* When nothing is under way the flyout of a threat intelligence alert shows the state that it
\* has, if nothing else changed it since, nor was the button used while it was still changing.
FlyoutTrue ==
    /\ selectedTabId = "threatIntel" /\ flyoutData # Nobody /\ alone
    /\ \A c \in changing : flyoutData.alert \notin c.now
    => flyoutData.state = cluster[flyoutData.alert]

\* The user is told of changes only that the cluster made, possibly followed by others.
ToldTrue ==
    \A i \in announced : cluster[i.alert] # "ACTIVE"

AlertsHandled == RowsTrue /\ FlyoutTrue /\ ToldTrue
=============================================================================
