----------------------------- MODULE FormsProofs ------------------------------
(***************************************************************************)
(* What holds of the forms, and of the pages that write what they show,    *)
(* for any number of edits, calls and files: the scan configuration, a     *)
(* threat intelligence source, correlation rules, a new source, field      *)
(* mappings, alert triggers and the editor of a rule.  Each has an         *)
(* inductive invariant of its own, next to the lemmas that each of its     *)
(* actions keeps it.                                                       *)
(***************************************************************************)
EXTENDS MCPages, SequenceTheorems, WellFoundedInduction, FiniteSetTheorems, TLAPS

-----------------------------------------------------------------------------
(* The scan configuration *)

\* Contents are those of edits that were made, and only what has a content has an id.
ScanIds == {SC!NoId} \cup (DataSources \X (1 .. edits))
ScanConfigs == [id : ScanIds, content : 0 .. edits, enabled : BOOLEAN]
ScanCalls ==
    [by : {"overview", "form"}, step : {"load", "create", "update", "delete"},
     to : DataSources, id : ScanIds, body : ScanConfigs, live : BOOLEAN]

ScanTyped ==
    /\ cluster \in [DataSources -> ScanConfigs] /\ active \in DataSources
    /\ page \in SC!Pages
    /\ scanConfig \in ScanConfigs /\ inputs \in ScanConfigs /\ scanId \in ScanIds
    /\ configureInProgress \in BOOLEAN
    /\ calls \subseteq ScanCalls /\ \A c \in calls : c.step = "create" => c.body.content # 0
    /\ edits \in 0 .. FewEdits
    /\ saved \in [DataSources -> SC!Configs] \cup {SC!Careless}

\* While the user waits, a configuration that was created has an id.
There == cluster[active]

ScanIdle == \A c \in calls : c.step # "load"

\* What a call is about, which is the configuration of the data source that is active.
ScanFits(c) ==
    /\ c.live /\ c.to = active /\ (c.by = "overview" <=> page = "overview")
    /\ c.step = "load" => c.body = There
    /\ c.step = "create" => page = "create"
    /\ c.step \in {"update", "delete"} => c.id = There.id
    /\ c.step = "update" =>
          IF page = "overview" THEN c.body = [There EXCEPT !.enabled = ~@]
          ELSE page = "edit" /\ c.body.enabled = There.enabled

ScanCareful ==
    /\ cluster = saved
    /\ \A d \in DataSources : cluster[d] # SC!Empty => cluster[d].id # SC!NoId
    /\ \A c, d \in calls : c = d
    /\ \A c \in calls : ScanFits(c)
    /\ ScanIdle /\ page = "overview" => scanConfig = There
    /\ ScanIdle /\ page = "edit" =>
          There # SC!Empty /\ scanId = There.id /\ inputs.enabled = There.enabled

ScanInv == ScanTyped /\ (saved # SC!Careless => ScanCareful)

LEMMA ScanTypes ==
    ASSUME ScanTyped
    PROVE  /\ edits \in Nat /\ active \in DataSources /\ There \in ScanConfigs
           /\ SC!Empty \in ScanConfigs /\ SC!NoId \in ScanIds
           /\ ScanIds \subseteq SC!Ids /\ ScanConfigs \subseteq SC!Configs
<1>1. edits \in 0 .. FewEdits /\ FewEdits \in Nat
    BY MCPagesAssumption DEF ScanTyped
<1>2. SC!Empty \in ScanConfigs /\ SC!NoId \in ScanIds
    BY <1>1 DEF SC!Empty, ScanConfigs, ScanIds
<1>3. ScanIds \subseteq SC!Ids
    BY <1>1 DEF ScanIds, SC!Ids
<1>4. ScanConfigs \subseteq SC!Configs
    BY <1>1, <1>3 DEF ScanConfigs, SC!Configs
<1> QED
    BY <1>1, <1>2, <1>3, <1>4 DEF ScanTyped, There

LEMMA ScanIsTyped == ScanTyped => SC!TypeOK
<1> SUFFICES ASSUME ScanTyped PROVE SC!TypeOK
    OBVIOUS
<1>1. cluster \in [DataSources -> SC!Configs]
    BY ScanTypes DEF ScanTyped
<1>2. calls \subseteq [by : {"overview", "form"}, step : {"load", "create", "update", "delete"},
                       to : DataSources, id : SC!Ids, body : SC!Configs, live : BOOLEAN]
    BY ScanTypes DEF ScanTyped, ScanCalls
<1> QED
    BY <1>1, <1>2, ScanTypes DEF ScanTyped, SC!TypeOK

LEMMA LoadIsCall ==
    ASSUME ScanTyped, NEW by \in {"overview", "form"}, NEW ds \in DataSources,
           NEW clusters \in [DataSources -> ScanConfigs]
    PROVE  /\ SC!Load(by, ds, clusters) \in ScanCalls
           /\ SC!Load(by, ds, clusters).by = by /\ SC!Load(by, ds, clusters).step = "load"
           /\ SC!Load(by, ds, clusters).to = ds /\ SC!Load(by, ds, clusters).body = clusters[ds]
           /\ SC!Load(by, ds, clusters).live
BY ScanTypes DEF ScanCalls, SC!Load

LEMMA ScanInit == SC!Init => ScanInv
<1> SUFFICES ASSUME SC!Init PROVE ScanInv
    OBVIOUS
<1> DEFINE first == SC!Load("overview", active, cluster)
<1>1. SC!Empty \in ScanConfigs /\ SC!NoId \in ScanIds /\ SC!Empty \in SC!Configs
    BY MCPagesAssumption DEF SC!Init, SC!Empty, ScanConfigs, ScanIds, SC!Configs, SC!Ids
<1>2. /\ first \in ScanCalls /\ first.step = "load" /\ first.by = "overview"
      /\ first.to = active /\ first.body = SC!Empty /\ first.live
    BY <1>1 DEF SC!Init, SC!Load, ScanCalls
<1>3. calls = {first}
    BY DEF SC!Init
<1> HIDE DEF first
<1>4. /\ cluster = [d \in DataSources |-> SC!Empty] /\ active \in DataSources
      /\ page = "overview" /\ scanConfig = SC!Empty /\ scanId = SC!NoId /\ inputs = SC!Empty
      /\ configureInProgress \in BOOLEAN /\ edits = 0 /\ saved = cluster
    BY DEF SC!Init
<1>5. 0 \in 0 .. FewEdits
    BY MCPagesAssumption
<1>6. ScanTyped
    BY <1>1, <1>2, <1>3, <1>4, <1>5 DEF ScanTyped, SC!Pages
<1>7. ScanCareful
    BY <1>1, <1>2, <1>3, <1>4 DEF ScanCareful, ScanFits, There, ScanIdle
<1> QED
    BY <1>6, <1>7 DEF ScanInv

\* What outlives the page it was made by is still a call, and it is not alive.
LEMMA OutliveIsCall ==
    ASSUME NEW sent \in SUBSET ScanCalls
    PROVE  /\ SC!Outlive(sent) \subseteq ScanCalls
           /\ \A c \in SC!Outlive(sent) : \E d \in sent : c.step = d.step /\ c.body = d.body
           /\ sent = {} => SC!Outlive(sent) = {}
BY DEF SC!Outlive, ScanCalls

\* The steps of the scan configuration that give no content a new number.
ScanTypedParts ==
    /\ cluster' \in [DataSources -> ScanConfigs] /\ active' \in DataSources
    /\ page' \in SC!Pages
    /\ scanConfig' \in ScanConfigs /\ inputs' \in ScanConfigs /\ scanId' \in ScanIds
    /\ configureInProgress' \in BOOLEAN
    /\ calls' \subseteq ScanCalls /\ \A c \in calls' : c.step = "create" => c.body.content # 0
    /\ edits' = edits
    /\ saved' \in [DataSources -> SC!Configs] \cup {SC!Careless}

LEMMA ScanTypedIs == ASSUME ScanTyped, ScanTypedParts PROVE ScanTyped'
<1>1. ScanIds' = ScanIds /\ ScanConfigs' = ScanConfigs /\ ScanCalls' = ScanCalls
    BY DEF ScanTypedParts, ScanIds, ScanConfigs, ScanCalls
<1> QED
    BY <1>1 DEF ScanTyped, ScanTypedParts

LEMMA ShowTyped ==
    ASSUME ScanTyped, NEW pg \in SC!Pages, NEW given \in ScanConfigs,
           NEW sent \in SUBSET calls, SC!Show(pg, given, sent),
           UNCHANGED <<cluster, active, edits>>, saved' \in {saved, SC!Careless}
    PROVE  ScanTyped'
<1>1. given.id \in ScanIds
    BY DEF ScanConfigs
<1> DEFINE a == SC!Load("overview", active, cluster)
           b == SC!Load("form", active, cluster)
<1>2. a \in ScanCalls /\ b \in ScanCalls /\ a.step = "load" /\ b.step = "load"
    BY LoadIsCall, ScanTypes DEF ScanTyped
<1>4. sent \subseteq ScanCalls /\ SC!Outlive(sent) \subseteq ScanCalls
      /\ \A c \in SC!Outlive(sent) : c.step = "create" => c.body.content # 0
    BY OutliveIsCall DEF ScanTyped
<1>5. calls' \subseteq sent \cup SC!Outlive(sent) \cup {a, b}
    BY DEF SC!Show
<1> HIDE DEF a, b
<1>6. scanId' \in ScanIds /\ inputs' \in ScanConfigs /\ configureInProgress' \in BOOLEAN
    BY <1>1 DEF SC!Show, ScanTyped, SC!form
<1>7. page' = pg /\ scanConfig' = SC!Empty
    BY DEF SC!Show
<1>8. ScanTypedParts
    BY <1>2, <1>4, <1>5, <1>6, <1>7, ScanTypes DEF ScanTypedParts, ScanTyped
<1> QED
    BY <1>8, ScanTypedIs

\* A page that is shown while nothing waits shows what there is, or asks for it.
LEMMA ShowCareful ==
    ASSUME ScanTyped, ScanCareful, calls = {}, NEW pg \in SC!Pages, pg # page,
           NEW given, SC!Show(pg, given, {}),
           given = SC!Empty \/ (given = There /\ pg = "edit" /\ page = "overview"),
           UNCHANGED <<cluster, active, saved>>
    PROVE  ScanCareful'
<1> DEFINE a == SC!Load("overview", active, cluster)
           b == SC!Load("form", active, cluster)
<1>1. /\ a.by = "overview" /\ b.by = "form" /\ a.step = "load" /\ b.step = "load"
      /\ a.to = active /\ b.to = active /\ a.body = There /\ b.body = There
      /\ a.live /\ b.live
    BY LoadIsCall, ScanTypes DEF ScanTyped, There
<1>2. SC!Outlive({}) = {}
    BY DEF SC!Outlive
<1>3. There' = There /\ page' = pg /\ scanConfig' = SC!Empty
    BY DEF There, SC!Show
<1>4. CASE pg = "overview"
  <2>1. calls' = {a}
    BY <1>2, <1>4 DEF SC!Show, SC!FormPages
  <2> HIDE DEF a, b
  <2> QED
    BY <1>1, <1>3, <1>4, <2>1 DEF ScanCareful, ScanFits, ScanIdle
<1>5. CASE pg = "create"
  <2>1. calls' = {}
    BY <1>2, <1>5 DEF SC!Show, SC!FormPages
  <2> QED
    BY <1>3, <1>5, <2>1 DEF ScanCareful, ScanIdle
<1>6. CASE pg = "edit" /\ page = "create"
  <2>1. calls' = {b}
    BY <1>6 DEF SC!Show, SC!FormPages
  <2> HIDE DEF a, b
  <2> QED
    BY <1>1, <1>3, <1>6, <2>1 DEF ScanCareful, ScanFits, ScanIdle
<1>7. CASE pg = "edit" /\ page = "overview"
  <2>1. CASE given.id = SC!NoId
    <3>1. calls' = {b}
      BY <1>2, <1>7, <2>1 DEF SC!Show, SC!FormPages
    <3> HIDE DEF a, b
    <3> QED
      BY <1>1, <1>3, <1>7, <3>1 DEF ScanCareful, ScanFits, ScanIdle
  <2>2. CASE given.id # SC!NoId
    <3>1. calls' = {} /\ scanId' = given.id /\ inputs' = given
      BY <1>2, <1>7, <2>2 DEF SC!Show, SC!FormPages
    <3>2. given = There /\ There # SC!Empty
      BY <2>2 DEF SC!Empty
    <3> QED
      BY <1>3, <1>7, <3>1, <3>2 DEF ScanCareful, ScanIdle
  <2> QED
    BY <2>1, <2>2
<1> QED
    BY <1>4, <1>5, <1>6, <1>7 DEF ScanTyped, SC!Pages

LEMMA WaitIs ==
    ASSUME SC!Wait
    PROVE  /\ saved' \in {saved, SC!Careless}
           /\ saved' # SC!Careless => calls = {} /\ saved' = saved
BY DEF SC!Wait

LEMMA ScanVisit == ASSUME ScanInv, NEW pg \in SC!Pages, SC!Visit(pg) PROVE ScanInv'
<1>1. /\ SC!Show(pg, SC!Empty, calls) /\ pg # page /\ SC!Wait
      /\ UNCHANGED <<cluster, active, edits>>
    BY DEF SC!Visit
<1>2. ScanTyped'
    BY <1>1, WaitIs, ScanTypes, ShowTyped DEF ScanInv
<1>3. ASSUME saved' # SC!Careless PROVE ScanCareful'
  <2>1. calls = {} /\ saved' = saved
    BY <1>1, <1>3, WaitIs
  <2>2. SC!Show(pg, SC!Empty, {})
    BY <1>1, <2>1
  <2>3. ScanTyped /\ ScanCareful
    BY <1>3, <2>1 DEF ScanInv
  <2> QED
    BY <1>1, <2>1, <2>2, <2>3, ShowCareful
<1> QED
    BY <1>2, <1>3 DEF ScanInv

LEMMA ScanOpens == ASSUME ScanInv, SC!OnEditScanConfig PROVE ScanInv'
<1>1. /\ page = "overview" /\ "edit" \in SC!Pages
      /\ SC!Show("edit", scanConfig, calls) /\ SC!Wait
      /\ UNCHANGED <<cluster, active, edits>>
    BY DEF SC!OnEditScanConfig, SC!Pages
<1>2. scanConfig \in ScanConfigs
    BY DEF ScanInv, ScanTyped
<1>3. ScanTyped'
    BY <1>1, <1>2, WaitIs, ShowTyped DEF ScanInv
<1>4. ASSUME saved' # SC!Careless PROVE ScanCareful'
  <2>1. calls = {} /\ saved' = saved
    BY <1>1, <1>4, WaitIs
  <2>2. scanConfig = There
    BY <1>1, <1>4, <2>1 DEF ScanInv, ScanCareful, ScanIdle
  <2> QED
    BY <1>1, <1>4, <2>1, <2>2, ShowCareful DEF ScanInv
<1> QED
    BY <1>3, <1>4 DEF ScanInv

LEMMA ScanSelects ==
    ASSUME ScanInv, NEW d \in DataSources, SC!OnDataSourceSelected(d) PROVE ScanInv'
<1> DEFINE a == SC!Load("overview", d, cluster)
<1>1. /\ page # "edit" /\ active' = d /\ SC!Wait
      /\ UNCHANGED <<cluster, page, scanConfig, scanId, inputs, configureInProgress, edits>>
      /\ calls' = IF page = "overview" THEN calls \cup {a} ELSE calls
    BY DEF SC!OnDataSourceSelected, SC!form
<1>2. /\ a \in ScanCalls /\ a.by = "overview" /\ a.step = "load"
      /\ a.to = d /\ a.body = cluster[d] /\ a.live
    BY LoadIsCall DEF ScanInv, ScanTyped
<1> HIDE DEF a
<1>3. ScanTypedParts
    BY <1>1, <1>2, WaitIs DEF ScanInv, ScanTyped, ScanTypedParts
<1>4. ScanTyped'
    BY <1>3, ScanTypedIs DEF ScanInv
<1>5. ASSUME saved' # SC!Careless PROVE ScanCareful'
  <2>1. calls = {} /\ saved' = saved /\ saved # SC!Careless
    BY <1>1, <1>5, WaitIs
  <2>2. CASE page = "overview"
    <3>1. calls' = {a}
      BY <1>1, <2>1, <2>2
    <3> QED
      BY <1>1, <1>2, <2>1, <2>2, <3>1 DEF ScanInv, ScanCareful, ScanFits, ScanIdle, There
  <2>3. CASE page # "overview"
    BY <1>1, <2>1, <2>3 DEF ScanInv, ScanCareful, ScanFits, ScanIdle, There
  <2> QED
    BY <2>2, <2>3
<1> QED
    BY <1>4, <1>5 DEF ScanInv

\* A call that the page makes while nothing waits.
LEMMA ScanAsks ==
    ASSUME ScanInv, NEW c \in ScanCalls, SC!Wait,
           c.step = "create" => c.body.content # 0,
           saved' # SC!Careless => ScanFits(c) /\ c.step # "load",
           calls' = calls \cup {c}, configureInProgress' \in BOOLEAN,
           UNCHANGED <<cluster, active, page, scanConfig, scanId, inputs, edits>>
    PROVE  ScanInv'
<1>1. ScanTypedParts
    BY WaitIs DEF ScanInv, ScanTyped, ScanTypedParts
<1>2. ScanTyped'
    BY <1>1, ScanTypedIs DEF ScanInv
<1>3. ASSUME saved' # SC!Careless PROVE ScanCareful'
  <2>1. calls' = {c} /\ saved' = saved /\ saved # SC!Careless
    BY <1>3, WaitIs
  <2>2. There' = There
    BY DEF There
  <2>3. ScanFits(c) /\ c.step # "load"
    BY <1>3
  <2>4. \A d \in calls' : ScanFits(d)'
    BY <2>1, <2>2, <2>3 DEF ScanFits
  <2>5. ~ScanIdle' \/ calls = {}
    BY <1>3, WaitIs
  <2> QED
    BY <2>1, <2>2, <2>4, <2>5 DEF ScanInv, ScanCareful, ScanIdle
<1> QED
    BY <1>2, <1>3 DEF ScanInv

LEMMA CallIs ==
    ASSUME ScanTyped, NEW by \in {"overview", "form"},
           NEW step \in {"load", "create", "update", "delete"},
           NEW id \in ScanIds, NEW body \in ScanConfigs
    PROVE  /\ SC!Call(by, step, id, body) \in ScanCalls
           /\ SC!Call(by, step, id, body).by = by /\ SC!Call(by, step, id, body).step = step
           /\ SC!Call(by, step, id, body).id = id /\ SC!Call(by, step, id, body).body = body
           /\ SC!Call(by, step, id, body).to = active /\ SC!Call(by, step, id, body).live
BY ScanTypes DEF ScanCalls, SC!Call

LEMMA ScanToggles == ASSUME ScanInv, SC!ToggleScan PROVE ScanInv'
<1> DEFINE flipped == [scanConfig EXCEPT !.enabled = ~@]
           c == SC!Call("overview", "update", scanConfig.id, flipped)
<1>1. /\ page = "overview" /\ SC!Wait /\ calls' = calls \cup {c}
      /\ UNCHANGED <<cluster, active, page, scanConfig, scanId, inputs, configureInProgress, edits>>
    BY DEF SC!ToggleScan, SC!form
<1>2. ScanTyped /\ scanConfig \in ScanConfigs /\ configureInProgress \in BOOLEAN
    BY DEF ScanInv, ScanTyped
<1>3. flipped \in ScanConfigs /\ scanConfig.id \in ScanIds
    BY <1>2 DEF ScanConfigs
<1>4. /\ c \in ScanCalls /\ c.by = "overview" /\ c.step = "update" /\ c.id = scanConfig.id
      /\ c.body = flipped /\ c.to = active /\ c.live
    BY <1>2, <1>3, CallIs
<1>5. ASSUME saved' # SC!Careless PROVE scanConfig = There
    BY <1>1, <1>5, WaitIs DEF ScanInv, ScanCareful, ScanIdle
<1> HIDE DEF c
<1>6. ASSUME saved' # SC!Careless PROVE ScanFits(c)
    BY <1>1, <1>4, <1>5, <1>6 DEF ScanFits
<1> QED
    BY <1>1, <1>2, <1>4, <1>6, ScanAsks

LEMMA ScanDeletes == ASSUME ScanInv, SC!OnDeleteConfirmed PROVE ScanInv'
<1> DEFINE c == SC!Call("overview", "delete", scanConfig.id, SC!Empty)
<1>1. /\ page = "overview" /\ SC!Wait /\ calls' = calls \cup {c}
      /\ UNCHANGED <<cluster, active, page, scanConfig, scanId, inputs, configureInProgress, edits>>
    BY DEF SC!OnDeleteConfirmed, SC!form
<1>2. ScanTyped /\ scanConfig \in ScanConfigs /\ configureInProgress \in BOOLEAN
    BY DEF ScanInv, ScanTyped
<1>3. SC!Empty \in ScanConfigs /\ scanConfig.id \in ScanIds
    BY <1>2, ScanTypes DEF ScanConfigs
<1>4. /\ c \in ScanCalls /\ c.by = "overview" /\ c.step = "delete" /\ c.id = scanConfig.id
      /\ c.to = active /\ c.live
    BY <1>2, <1>3, CallIs
<1> HIDE DEF c
<1>5. ASSUME saved' # SC!Careless PROVE ScanFits(c)
  <2>1. scanConfig = There
    BY <1>1, <1>5, WaitIs DEF ScanInv, ScanCareful, ScanIdle
  <2> QED
    BY <1>1, <1>4, <2>1 DEF ScanFits
<1> QED
    BY <1>1, <1>2, <1>4, <1>5, ScanAsks

LEMMA ScanSubmits == ASSUME ScanInv, SC!OnSubmit PROVE ScanInv'
<1> DEFINE c == IF page = "edit" THEN SC!Call("form", "update", scanId, inputs)
                                 ELSE SC!Call("form", "create", SC!NoId, inputs)
<1>1. /\ page \in {"create", "edit"} /\ inputs.content # 0 /\ SC!Wait
      /\ calls' = calls \cup {c} /\ configureInProgress' \in BOOLEAN
      /\ UNCHANGED <<cluster, active, page, scanConfig, scanId, inputs, edits>>
    BY DEF SC!OnSubmit, SC!FormPages
<1>2. ScanTyped /\ inputs \in ScanConfigs /\ scanId \in ScanIds /\ SC!NoId \in ScanIds
    BY ScanTypes DEF ScanInv, ScanTyped
<1>3. /\ c \in ScanCalls /\ c.by = "form" /\ c.body = inputs /\ c.to = active /\ c.live
      /\ c.step = IF page = "edit" THEN "update" ELSE "create"
      /\ page = "edit" => c.id = scanId
    BY <1>2, CallIs
<1> HIDE DEF c
<1>4. ASSUME saved' # SC!Careless PROVE ScanFits(c)
  <2>1. page = "edit" => scanId = There.id /\ inputs.enabled = There.enabled
    BY <1>1, <1>4, WaitIs DEF ScanInv, ScanCareful, ScanIdle
  <2> QED
    BY <1>1, <1>3, <2>1 DEF ScanFits
<1> QED
    BY <1>1, <1>2, <1>3, <1>4, ScanAsks

\* An edit is the only step that makes more contents possible.
LEMMA ScanEdits == ASSUME ScanInv, SC!Edit PROVE ScanInv'
<1>1. /\ edits < FewEdits /\ edits' = edits + 1 /\ inputs' = [inputs EXCEPT !.content = edits + 1]
      /\ UNCHANGED <<cluster, active, page, scanConfig, scanId, configureInProgress, calls, saved>>
    BY DEF SC!Edit
<1>2. ScanTyped /\ edits \in Nat /\ FewEdits \in Nat /\ edits' \in 0 .. FewEdits
    BY <1>1, MCPagesAssumption DEF ScanInv, ScanTyped
<1>3. /\ edits + 1 \in 0 .. edits' /\ 0 .. edits \subseteq 0 .. edits'
      /\ 1 .. edits \subseteq 1 .. edits'
    BY <1>1, <1>2
<1>4. ScanIds \subseteq ScanIds'
    BY <1>3 DEF ScanIds, SC!NoId
<1>5. ScanConfigs \subseteq ScanConfigs'
    BY <1>3, <1>4 DEF ScanConfigs
<1>6. ScanCalls \subseteq ScanCalls'
    BY <1>4, <1>5 DEF ScanCalls
<1>7. inputs' \in ScanConfigs' /\ inputs'.enabled = inputs.enabled
    BY <1>1, <1>2, <1>3, <1>4 DEF ScanTyped, ScanConfigs
<1>8. ScanTyped'
    BY <1>1, <1>2, <1>4, <1>5, <1>6, <1>7 DEF ScanTyped
<1>9. ScanCareful => ScanCareful'
    BY <1>1, <1>7 DEF ScanCareful, ScanFits, ScanIdle, There
<1> QED
    BY <1>1, <1>8, <1>9 DEF ScanInv

\* What a call that waits is about.
LEMMA ScanAbout ==
    ASSUME ScanInv, NEW c \in calls
    PROVE  /\ ScanTyped /\ c \in ScanCalls
           /\ c.by \in {"overview", "form"} /\ c.to \in DataSources /\ c.id \in ScanIds
           /\ c.body \in ScanConfigs /\ cluster[c.to] \in ScanConfigs
           /\ c.step = "create" => c.body.content # 0
           /\ saved # SC!Careless =>
                 ScanCareful /\ ScanFits(c) /\ calls \ {c} = {} /\ c.to = active
<1>1. ScanTyped /\ c \in ScanCalls /\ (c.step = "create" => c.body.content # 0)
    BY DEF ScanInv, ScanTyped
<1>2. /\ c.by \in {"overview", "form"} /\ c.to \in DataSources /\ c.id \in ScanIds
      /\ c.body \in ScanConfigs
    BY <1>1 DEF ScanCalls
<1>3. cluster[c.to] \in ScanConfigs
    BY <1>1, <1>2 DEF ScanTyped
<1>4. saved # SC!Careless =>
          ScanCareful /\ ScanFits(c) /\ calls \ {c} = {} /\ c.to = active
    BY DEF ScanInv, ScanCareful, ScanFits
<1> QED
    BY <1>1, <1>2, <1>3, <1>4

LEMMA ScanLoaded == ASSUME ScanInv, NEW c \in calls, SC!Loaded(c) PROVE ScanInv'
<1>1. PICK found \in {c.body, cluster[c.to]} :
          /\ scanConfig' = IF c.live /\ c.by = "overview" THEN found ELSE scanConfig
          /\ IF c.live /\ c.by = "form"
             THEN scanId' = found.id /\ inputs' = found
             ELSE UNCHANGED <<scanId, inputs>>
          /\ found # SC!Empty
    BY DEF SC!Loaded
<1>2. /\ calls' = calls \ {c}
      /\ UNCHANGED <<cluster, active, page, configureInProgress, edits, saved>>
      /\ c.step = "load"
    BY DEF SC!Loaded, SC!Done
<1>3. found \in ScanConfigs /\ found.id \in ScanIds
    BY <1>1, ScanAbout DEF ScanConfigs
<1>4. /\ scanConfig' \in ScanConfigs /\ inputs' \in ScanConfigs /\ scanId' \in ScanIds
    BY <1>1, <1>3, ScanAbout DEF ScanTyped
<1>5. ScanTypedParts
    BY <1>2, <1>4, ScanAbout DEF ScanTyped, ScanTypedParts
<1>6. ASSUME saved' # SC!Careless PROVE ScanCareful'
  <2>1. ScanCareful /\ ScanFits(c) /\ calls' = {} /\ saved # SC!Careless /\ c.to = active
    BY <1>2, <1>6, ScanAbout
  <2>2. found = There
    BY <1>1, <1>2, <2>1 DEF ScanFits, There
  <2>3. There' = There
    BY <1>2 DEF There
  <2>4. /\ page = "overview" => scanConfig' = There
        /\ page # "overview" => scanId' = There.id /\ inputs' = There
    BY <1>1, <2>1, <2>2, ScanAbout DEF ScanFits
  <2> QED
    BY <1>1, <1>2, <2>1, <2>2, <2>3, <2>4 DEF ScanCareful
<1> QED
    BY <1>5, <1>6, ScanAbout, ScanTypedIs DEF ScanInv

LEMMA ScanLoadedNone == ASSUME ScanInv, NEW c \in calls, SC!LoadedNone(c) PROVE ScanInv'
<1>1. c.step = "load" /\ UNCHANGED <<cluster, active, edits, saved>>
    BY DEF SC!LoadedNone
<1>2. There' = There
    BY <1>1 DEF There
<1>3. CASE /\ c.by = "overview"
           /\ scanConfig' = IF c.live THEN SC!Empty ELSE scanConfig
           /\ calls' = calls \ {c}
           /\ UNCHANGED <<page, scanId, inputs, configureInProgress>>
           /\ SC!Empty \in {c.body, cluster[c.to]}
  <2>1. ScanTypedParts
    BY <1>1, <1>3, ScanAbout, ScanTypes DEF ScanTyped, ScanTypedParts
  <2>2. ASSUME saved' # SC!Careless PROVE ScanCareful'
    <3>1. ScanCareful /\ ScanFits(c) /\ calls' = {} /\ saved # SC!Careless /\ c.to = active
      BY <1>1, <1>3, <2>2, ScanAbout
    <3>2. There = SC!Empty /\ page = "overview" /\ c.live
      BY <1>1, <1>3, <3>1 DEF ScanFits, There
    <3> QED
      BY <1>1, <1>2, <1>3, <3>1, <3>2 DEF ScanCareful
  <2> QED
    BY <2>1, <2>2, ScanAbout, ScanTypedIs DEF ScanInv
<1>4. CASE c.by = "form" /\ SC!Show("create", SC!Empty, calls \ {c})
  <2>1. ScanTyped'
    <3>1. "create" \in SC!Pages /\ SC!Empty \in ScanConfigs /\ calls \ {c} \in SUBSET calls
      BY ScanAbout, ScanTypes DEF SC!Pages
    <3> QED
      BY <1>1, <1>4, <3>1, ScanAbout, ShowTyped
  <2>2. ASSUME saved' # SC!Careless PROVE ScanCareful'
    <3>1. ScanCareful /\ ScanFits(c) /\ calls \ {c} = {} /\ saved # SC!Careless
      BY <1>1, <2>2, ScanAbout
    <3>2. page \in SC!FormPages
      BY <1>4, <3>1, ScanAbout DEF ScanFits, ScanTyped, SC!Pages, SC!FormPages
    <3>3. page' = "create" /\ calls' = {}
      BY <1>4, <3>1, <3>2 DEF SC!Show, SC!FormPages
    <3> QED
      BY <1>1, <1>2, <3>1, <3>3 DEF ScanCareful
  <2> QED
    BY <2>1, <2>2 DEF ScanInv
<1> QED
    BY <1>3, <1>4 DEF SC!LoadedNone, SC!Done, SC!form

LEMMA ScanForgets ==
    ASSUME ScanTyped, ScanTypedParts, saved' = SC!Careless PROVE ScanInv'
BY ScanTypedIs DEF ScanInv

LEMMA ScanLoadFails == ASSUME ScanInv, NEW c \in calls, SC!LoadFails(c) PROVE ScanInv'
<1>1. ScanTypedParts
    BY ScanAbout DEF SC!LoadFails, SC!Done, SC!form, ScanTyped, ScanTypedParts
<1> QED
    BY <1>1, ScanAbout, ScanForgets DEF SC!LoadFails

\* A write is of a configuration that there may be.
LEMMA WritesTyped ==
    ASSUME ScanInv, NEW c \in calls, SC!Writes(c)
    PROVE  cluster' \in [DataSources -> ScanConfigs] /\ c.step # "load"
<1>1. \E new \in ScanConfigs : cluster' = [cluster EXCEPT ![c.to] = new]
  <2>1. CASE c.step = "create"
    <3>1. edits \in Nat /\ c.body.content \in 0 .. edits /\ c.body.content # 0
      BY <2>1, ScanAbout, ScanTypes DEF ScanConfigs
    <3>2. <<c.to, edits>> \in ScanIds
      BY <3>1, ScanAbout DEF ScanIds
    <3>3. [c.body EXCEPT !.id = <<c.to, edits>>] \in ScanConfigs
      BY <3>2, ScanAbout DEF ScanConfigs
    <3> QED
      BY <2>1, <3>3 DEF SC!Writes
  <2>2. CASE c.step = "update"
    <3>1. [c.body EXCEPT !.id = c.id] \in ScanConfigs
      BY ScanAbout DEF ScanConfigs
    <3> QED
      BY <2>2, <3>1 DEF SC!Writes
  <2>3. CASE c.step = "delete"
    BY <2>3, ScanAbout, ScanTypes DEF SC!Writes
  <2> QED
    BY <2>1, <2>2, <2>3 DEF SC!Writes
<1>2. cluster \in [DataSources -> ScanConfigs]
    BY ScanAbout DEF ScanTyped
<1>3. c.step # "load"
    BY DEF SC!Writes
<1> QED
    BY <1>1, <1>2, <1>3

LEMMA SameId == ASSUME NEW m \in ScanConfigs PROVE [m EXCEPT !.id = m.id] = m
BY DEF ScanConfigs

\* As long as the user waits, a write does what it is meant to do.
LEMMA WritesMeant ==
    ASSUME ScanInv, saved # SC!Careless, NEW c \in calls, SC!Writes(c)
    PROVE  /\ cluster' = [saved EXCEPT ![c.to] = SC!Meant(c)]
           /\ cluster'[active] # SC!Empty => cluster'[active].id # SC!NoId
<1>1. /\ ScanFits(c) /\ c.to = active /\ cluster = saved /\ There = cluster[active]
      /\ There \in ScanConfigs /\ c.body \in ScanConfigs /\ active \in DataSources
      /\ cluster \in [DataSources -> ScanConfigs]
      /\ There # SC!Empty => There.id # SC!NoId
    BY ScanAbout, ScanTypes DEF ScanCareful, There, ScanTyped
<1>2. CASE c.step = "create"
  <2>1. cluster' = [cluster EXCEPT ![c.to] = [c.body EXCEPT !.id = <<c.to, edits>>]]
    BY <1>2 DEF SC!Writes
  <2>2. SC!Meant(c) = [c.body EXCEPT !.id = <<c.to, edits>>]
    BY <1>2 DEF SC!Meant
  <2>3. cluster'[active].id = <<c.to, edits>>
    BY <1>1, <2>1 DEF ScanConfigs
  <2>4. <<c.to, edits>> # SC!NoId
    BY DEF SC!NoId
  <2> QED
    BY <1>1, <2>1, <2>2, <2>3, <2>4
<1>3. CASE c.step = "delete"
  <2>1. SC!Meant(c) = SC!Empty /\ cluster' = [cluster EXCEPT ![c.to] = SC!Empty]
    BY <1>3 DEF SC!Meant, SC!Writes
  <2> QED
    BY <1>1, <2>1
<1>4. CASE c.step = "update"
  <2> DEFINE new == [c.body EXCEPT !.id = c.id]
  <2>1. cluster' = [cluster EXCEPT ![c.to] = new] /\ There # SC!Empty /\ c.id = There.id
    BY <1>1, <1>4 DEF SC!Writes
  <2>2. SC!Meant(c) = IF c.by = "overview" THEN [There EXCEPT !.enabled = ~@]
                      ELSE [There EXCEPT !.content = c.body.content]
    BY <1>1, <1>4 DEF SC!Meant
  <2>3. new = SC!Meant(c)
    <3>1. CASE c.by = "overview"
      <4>1. c.body = [There EXCEPT !.enabled = ~@]
        BY <1>1, <1>4, <3>1 DEF ScanFits
      <4>2. c.body.id = There.id
        BY <1>1, <4>1 DEF ScanConfigs
      <4>3. new = [c.body EXCEPT !.id = c.body.id]
        BY <2>1, <4>2
      <4>4. SC!Meant(c) = c.body
        BY <2>2, <3>1, <4>1
      <4> HIDE DEF new
      <4> QED
        BY <1>1, <4>3, <4>4, SameId
    <3>2. CASE c.by # "overview"
      <4>1. c.body.enabled = There.enabled
        BY <1>1, <1>4, <3>2 DEF ScanFits
      <4> QED
        BY <1>1, <2>1, <2>2, <3>2, <4>1 DEF ScanConfigs
    <3> QED
      BY <3>1, <3>2
  <2>4. new.id = There.id
    BY <1>1, <2>1 DEF ScanConfigs
  <2> HIDE DEF new
  <2> QED
    BY <1>1, <2>1, <2>3, <2>4
<1> QED
    BY <1>2, <1>3, <1>4 DEF SC!Writes

LEMMA MeantTyped ==
    ASSUME ScanInv, saved # SC!Careless, NEW c \in calls, SC!Writes(c)
    PROVE  [saved EXCEPT ![c.to] = SC!Meant(c)] \in [DataSources -> SC!Configs]
BY WritesMeant, WritesTyped, ScanTypes, ScanAbout

LEMMA ScanWritten == ASSUME ScanInv, NEW c \in calls, SC!Written(c) PROVE ScanInv'
<1> DEFINE a == SC!Load("overview", active, cluster')
<1>1. /\ SC!Writes(c) /\ UNCHANGED <<active, edits>>
      /\ saved' = IF saved = SC!Careless THEN saved ELSE [saved EXCEPT ![c.to] = SC!Meant(c)]
    BY DEF SC!Written
<1>2. /\ a \in ScanCalls /\ a.by = "overview" /\ a.step = "load"
      /\ a.to = active /\ a.body = cluster'[active] /\ a.live
    BY <1>1, LoadIsCall, WritesTyped, ScanAbout, ScanTypes
<1>3. \/ /\ c.by = "form" /\ page # "overview" /\ page' = "overview"
         /\ scanConfig' = SC!Empty /\ scanId' = SC!NoId /\ inputs' = SC!Empty
         /\ configureInProgress' \in BOOLEAN /\ calls' = SC!Outlive(calls \ {c}) \cup {a}
      \/ /\ c.by = "overview" \/ page = "overview"
         /\ calls' = (calls \ {c}) \cup {a} \/ (calls' = calls \ {c} /\ ~c.live)
         /\ UNCHANGED <<page, scanConfig, scanId, inputs, configureInProgress>>
  <2>1. c.live \in BOOLEAN
    BY ScanAbout DEF ScanCalls
  <2> QED
    BY <2>1 DEF SC!Written, SC!LoadAgain, SC!Done, SC!form
<1> HIDE DEF a
<1>4. ScanTypedParts
  <2>1. saved' \in [DataSources -> SC!Configs] \cup {SC!Careless}
    BY <1>1, MeantTyped
  <2>2. /\ SC!Outlive(calls \ {c}) \subseteq ScanCalls
        /\ \A d \in SC!Outlive(calls \ {c}) : d.step = "create" => d.body.content # 0
    <3>1. calls \ {c} \in SUBSET ScanCalls
      BY ScanAbout DEF ScanTyped
    <3> QED
      BY <3>1, OutliveIsCall, ScanAbout DEF ScanTyped
  <2>3. calls' \subseteq ScanCalls /\ \A d \in calls' : d.step = "create" => d.body.content # 0
    BY <1>2, <1>3, <2>2, ScanAbout DEF ScanTyped
  <2>4. /\ page' \in SC!Pages /\ scanConfig' \in ScanConfigs /\ inputs' \in ScanConfigs
        /\ scanId' \in ScanIds /\ configureInProgress' \in BOOLEAN
    BY <1>3, ScanAbout, ScanTypes DEF ScanTyped, SC!Pages
  <2> QED
    BY <1>1, <2>1, <2>3, <2>4, WritesTyped, ScanAbout, ScanTypes DEF ScanTypedParts
<1>5. ASSUME saved' # SC!Careless PROVE ScanCareful'
  <2>1. ScanCareful /\ ScanFits(c) /\ calls \ {c} = {} /\ saved # SC!Careless /\ c.to = active
    BY <1>1, <1>5, ScanAbout
  <2>2. /\ cluster' = saved'
        /\ \A d \in DataSources : cluster'[d] # SC!Empty => cluster'[d].id # SC!NoId
    <3>1. /\ cluster' = saved' /\ cluster = saved /\ active' = active
          /\ cluster' = [cluster EXCEPT ![active] = SC!Meant(c)]
      BY <1>1, <2>1, WritesMeant DEF ScanCareful
    <3>2. \A d \in DataSources \ {active} : cluster'[d] = cluster[d]
      BY <3>1, ScanAbout DEF ScanTyped
    <3> QED
      BY <1>1, <2>1, <3>1, <3>2, WritesMeant DEF ScanCareful
  <2>3. calls' = {a} /\ page' = "overview"
    BY <1>3, <2>1, OutliveIsCall DEF ScanFits
  <2> QED
    BY <1>1, <1>2, <2>2, <2>3 DEF ScanCareful, ScanFits, ScanIdle, There
<1> QED
    BY <1>4, <1>5, ScanAbout, ScanTypedIs DEF ScanInv

LEMMA ScanRefused == ASSUME ScanInv, NEW c \in calls, SC!Refused(c) PROVE ScanInv'
<1>1. /\ calls' = calls \ {c} /\ configureInProgress' \in BOOLEAN /\ c.step # "load"
      /\ UNCHANGED <<cluster, active, page, scanConfig, scanId, inputs, edits, saved>>
    BY DEF SC!Refused, SC!Done
<1>2. ScanTypedParts
    BY <1>1, ScanAbout DEF ScanTyped, ScanTypedParts
<1>3. ASSUME saved' # SC!Careless PROVE ScanCareful'
    BY <1>1, <1>3, ScanAbout DEF ScanCareful, ScanIdle, There
<1> QED
    BY <1>2, <1>3, ScanAbout, ScanTypedIs DEF ScanInv

LEMMA ScanLost == ASSUME ScanInv, NEW c \in calls, SC!Lost(c) PROVE ScanInv'
<1>1. cluster' \in [DataSources -> ScanConfigs] /\ saved' = SC!Careless
    BY WritesTyped, ScanAbout DEF SC!Lost, ScanTyped
<1>2. ScanTypedParts
    BY <1>1, ScanAbout DEF SC!Lost, SC!Done, SC!form, ScanTyped, ScanTypedParts
<1> QED
    BY <1>1, <1>2, ScanAbout, ScanForgets

LEMMA ScanStep == ScanInv /\ SC!Next => ScanInv'
<1> SUFFICES ASSUME ScanInv, SC!Next PROVE ScanInv'
    OBVIOUS
<1>1. CASE \E pg \in SC!Pages : SC!Visit(pg)
    BY <1>1, ScanVisit
<1>2. CASE \E d \in DataSources : SC!OnDataSourceSelected(d)
    BY <1>2, ScanSelects
<1>3. CASE SC!OnEditScanConfig \/ SC!ToggleScan \/ SC!OnDeleteConfirmed \/ SC!Edit \/ SC!OnSubmit
    BY <1>3, ScanOpens, ScanToggles, ScanDeletes, ScanEdits, ScanSubmits
<1>4. CASE \E c \in calls : SC!Answer(c)
    BY <1>4, ScanLoaded, ScanLoadedNone, ScanLoadFails, ScanWritten, ScanRefused, ScanLost
    DEF SC!Answer
<1> QED
    BY <1>1, <1>2, <1>3, <1>4 DEF SC!Next

-----------------------------------------------------------------------------
(* A threat intelligence source *)

\* The parts of a copy are those of edits that were made.
SourceCopies == [TS!Parts -> 0 .. edits]
SourceCalls ==
    [step : {"get", "iocs", "toggle", "save", "delete", "refresh"},
     body : SourceCopies \cup {NoSource}, page : TS!TablePages, live : BOOLEAN]

SourceCallsTyped ==
    /\ calls \subseteq SourceCalls
    /\ \A c \in calls : c.step \in {"get", "toggle", "save"} => c.body \in SourceCopies

SourceTyped ==
    /\ cluster \in SourceCopies /\ exists \in BOOLEAN /\ open \in BOOLEAN
    /\ source \in SourceCopies \cup {NoSource} /\ item \in SourceCopies \cup {NoSource}
    /\ tab \in {"iocs", "details"} /\ isReadOnly \in BOOLEAN /\ saveInProgress \in BOOLEAN
    /\ pageIndex \in TS!TablePages /\ iocs \in TS!TablePages \cup {MaxPage + 1}
    /\ failed \in BOOLEAN /\ SourceCallsTyped
    /\ edits \in 0 .. MoreEdits /\ saved \in SourceCopies \cup {TS!Careless}
    /\ ~open =>
          /\ source = NoSource /\ tab = "iocs"
          /\ \A c \in calls : c.step \in {"toggle", "save", "delete"}
    /\ tab = "details" => source \in SourceCopies /\ item \in SourceCopies

Active == "enabled_for_scan"

\* While the user waits, at most one call is about the whole source; the page's copy is the
\* source unless it is being loaded; and what the form holds is as active as the source.
SourceCareful ==
    /\ \A c, d \in calls :
          c.step \in {"get", "toggle", "save"} /\ d.step \in {"get", "toggle", "save"} => c = d
    /\ \A c \in calls :
          /\ c.step = "get" => c.body = cluster
          /\ c.step = "toggle" => tab = "iocs" /\ c.body = [cluster EXCEPT ![Active] = @ + 1]
          /\ c.step = "save" => c.body[Active] = cluster[Active]
    /\ source = NoSource \/ source = cluster \/ \E c \in calls : c.step = "get"
    /\ tab = "details" => source[Active] = cluster[Active] /\ item[Active] = cluster[Active]

SourceInv ==
    /\ SourceTyped
    /\ saved # TS!Careless => cluster = saved /\ (exists => SourceCareful)
    /\ TS!IocsMatchPage

LEMMA SourceTypes ==
    ASSUME SourceTyped
    PROVE  /\ edits \in Nat /\ MoreEdits \in Nat /\ MaxPage \in Nat /\ 0 \in TS!TablePages
           /\ 0 .. edits \subseteq 0 .. MoreEdits /\ SourceCopies \subseteq TS!Copies
<1>1. edits \in 0 .. MoreEdits /\ MoreEdits \in Nat /\ MaxPage \in Nat
    BY MCPagesAssumption DEF SourceTyped
<1>2. 0 .. edits \subseteq 0 .. MoreEdits
    BY <1>1
<1>3. SourceCopies \subseteq TS!Copies
    BY <1>2 DEF SourceCopies, TS!Copies
<1> QED
    BY <1>1, <1>2, <1>3 DEF TS!TablePages

LEMMA SourceIsTyped == SourceTyped => TS!TypeOK
<1> SUFFICES ASSUME SourceTyped PROVE TS!TypeOK
    OBVIOUS
<1>1. calls \subseteq [step : {"get", "iocs", "toggle", "save", "delete", "refresh"},
                       body : TS!Copies \cup {NoSource}, page : TS!TablePages, live : BOOLEAN]
    BY SourceTypes DEF SourceTyped, SourceCallsTyped, SourceCalls
<1> QED
    BY <1>1, SourceTypes DEF SourceTyped, TS!TypeOK

LEMMA SourceInit == TS!Init => SourceInv
<1> SUFFICES ASSUME TS!Init PROVE SourceInv
    OBVIOUS
<1>1. /\ 0 \in TS!TablePages /\ 0 \in 0 .. MoreEdits /\ MaxPage \in Nat /\ edits = 0
      /\ cluster = [p \in TS!Parts |-> 0]
    BY MCPagesAssumption DEF TS!Init, TS!TablePages
<1>2. cluster \in SourceCopies
    BY <1>1 DEF SourceCopies
<1>3. /\ calls = {TS!Get} /\ TS!Get \in SourceCalls /\ TS!Get.body = cluster
      /\ TS!Get.step = "get"
    BY <1>1, <1>2 DEF TS!Init, TS!Get, TS!Call, SourceCalls
<1>4. /\ source = NoSource /\ item = NoSource /\ tab = "iocs" /\ open /\ saved = cluster
      /\ exists \in BOOLEAN /\ open \in BOOLEAN /\ isReadOnly \in BOOLEAN
      /\ saveInProgress \in BOOLEAN /\ failed \in BOOLEAN /\ pageIndex = 0 /\ iocs = MaxPage + 1
    BY DEF TS!Init
<1>5. SourceTyped
    BY <1>1, <1>2, <1>3, <1>4 DEF SourceTyped, SourceCallsTyped
<1>6. SourceCareful
    BY <1>3, <1>4 DEF SourceCareful
<1>7. TS!IocsMatchPage
    BY <1>4 DEF TS!IocsMatchPage
<1> QED
    BY <1>4, <1>5, <1>6, <1>7 DEF SourceInv

LEMMA SourceSame ==
    ASSUME edits' = edits PROVE SourceCopies' = SourceCopies /\ SourceCalls' = SourceCalls
BY DEF SourceCopies, SourceCalls

LEMMA SourceGrows ==
    ASSUME SourceTyped, edits < MoreEdits, edits' = edits + 1
    PROVE  /\ edits' \in 0 .. MoreEdits /\ edits' \in 0 .. edits'
           /\ 0 .. edits \subseteq 0 .. edits'
           /\ \A n \in 0 .. edits : n + 1 \in 0 .. edits'
           /\ SourceCopies \subseteq SourceCopies' /\ SourceCalls \subseteq SourceCalls'
<1>1. edits \in Nat /\ MoreEdits \in Nat
    BY SourceTypes
<1>2. 0 .. edits \subseteq 0 .. edits' /\ \A n \in 0 .. edits : n + 1 \in 0 .. edits'
    BY <1>1
<1>3. SourceCopies \subseteq SourceCopies'
    BY <1>2 DEF SourceCopies
<1>4. SourceCalls \subseteq SourceCalls'
    BY <1>3 DEF SourceCalls
<1> QED
    BY <1>1, <1>2, <1>3, <1>4

LEMMA SourceCallIs ==
    ASSUME NEW step, NEW body, NEW pg
    PROVE  /\ TS!Call(step, body, pg).step = step /\ TS!Call(step, body, pg).body = body
           /\ TS!Call(step, body, pg).page = pg
           /\ (SourceTyped /\ step \in {"get", "iocs", "toggle", "save", "delete", "refresh"}
               /\ body \in SourceCopies \cup {NoSource} /\ pg \in TS!TablePages)
                 => TS!Call(step, body, pg) \in SourceCalls
BY DEF TS!Call, SourceCalls

LEMMA SourceWaits ==
    ASSUME TS!Wait
    PROVE  /\ saved' \in {saved, TS!Careless}
           /\ saved' # TS!Careless =>
                 saved' = saved /\ \A c \in calls : c.step \notin {"get", "toggle", "save"}
BY DEF TS!Wait, TS!Busy

\* The page is unmounted, and nothing waits, or nothing is claimed, or the source is gone.
LEMMA SourceUnmounts ==
    ASSUME SourceInv, NEW rest \in SUBSET calls, TS!Unmount(rest),
           UNCHANGED <<cluster, edits>>, exists' \in BOOLEAN,
           saved' \in {saved, TS!Careless},
           exists' /\ saved' # TS!Careless =>
               \A c \in calls : c.step \notin {"get", "toggle", "save"}
    PROVE  SourceInv'
<1>1. /\ open' = FALSE /\ source' = NoSource /\ tab' = "iocs" /\ item' = NoSource
      /\ isReadOnly' \in BOOLEAN /\ saveInProgress' \in BOOLEAN
      /\ pageIndex' = 0 /\ iocs' = MaxPage + 1 /\ failed' \in BOOLEAN
    BY DEF TS!Unmount, TS!EmptyForm, TS!EmptyTable
<1>2. calls' = {[c EXCEPT !.live = FALSE] :
                   c \in {d \in rest : d.step \in {"toggle", "save", "delete"}}}
    BY DEF TS!Unmount
<1>3. SourceTyped /\ SourceCopies' = SourceCopies /\ SourceCalls' = SourceCalls
    BY SourceSame DEF SourceInv
<1>4. \A c \in SourceCalls : /\ [c EXCEPT !.live = FALSE] \in SourceCalls
                             /\ [c EXCEPT !.live = FALSE].step = c.step
                             /\ [c EXCEPT !.live = FALSE].body = c.body
    BY DEF SourceCalls
<1>5. ASSUME NEW d \in calls'
      PROVE  /\ d \in SourceCalls /\ d.step \in {"toggle", "save", "delete"}
             /\ d.step \in {"toggle", "save"} => d.body \in SourceCopies
             /\ \E c \in calls : c.step = d.step
  <2>1. PICK c \in calls : /\ c.step \in {"toggle", "save", "delete"}
                          /\ d = [c EXCEPT !.live = FALSE]
    BY <1>2
  <2>2. c \in SourceCalls /\ (c.step \in {"toggle", "save"} => c.body \in SourceCopies)
    BY <1>3, <2>1 DEF SourceTyped, SourceCallsTyped
  <2> QED
    BY <1>4, <2>1, <2>2
<1>6. SourceCallsTyped'
    BY <1>3, <1>5 DEF SourceCallsTyped
<1>7. SourceTyped'
    BY <1>1, <1>3, <1>5, <1>6, SourceTypes DEF SourceTyped
<1>8. ASSUME saved' # TS!Careless PROVE cluster' = saved' /\ (exists' => SourceCareful')
  <2>1. cluster' = saved'
    BY <1>8 DEF SourceInv
  <2>2. ASSUME exists' PROVE SourceCareful'
    <3>1. \A d \in calls' : d.step \notin {"get", "toggle", "save"}
      BY <1>5, <1>8, <2>2
    <3> QED
      BY <1>1, <3>1 DEF SourceCareful
  <2> QED
    BY <2>1, <2>2
<1>9. TS!IocsMatchPage'
    BY <1>1 DEF TS!IocsMatchPage
<1> QED
    BY <1>7, <1>8, <1>9 DEF SourceInv

LEMMA SourceLeft == ASSUME SourceInv, TS!Leave PROVE SourceInv'
<1>1. TS!Unmount(calls) /\ TS!Wait /\ UNCHANGED <<cluster, exists, edits>>
    BY DEF TS!Leave
<1>2. exists' \in BOOLEAN
    BY <1>1 DEF SourceInv, SourceTyped
<1> QED
    BY <1>1, <1>2, SourceWaits, SourceUnmounts

\* One more call waits.
LEMMA SourceCallAdded ==
    ASSUME SourceTyped, UNCHANGED edits, NEW c \in SourceCalls, calls' = calls \cup {c},
           c.step \in {"get", "toggle", "save"} => c.body \in SourceCopies
    PROVE  SourceCallsTyped'
BY SourceSame DEF SourceTyped, SourceCallsTyped

LEMMA SourceVisited == ASSUME SourceInv, TS!Visit PROVE SourceInv'
<1> DEFINE c == IF source' = NoSource THEN TS!Get ELSE TS!GetIocs(0)
<1>1. /\ ~open /\ open' = TRUE /\ TS!Wait /\ calls' = calls \cup {c}
      /\ UNCHANGED <<cluster, exists, tab, item, isReadOnly, saveInProgress,
                     pageIndex, iocs, failed, edits>>
      /\ source' \in {cluster, NoSource}
    BY DEF TS!Visit, TS!form, TS!table
<1>2. /\ SourceTyped /\ SourceCopies' = SourceCopies /\ SourceCalls' = SourceCalls /\ tab = "iocs"
      /\ cluster \in SourceCopies
    BY <1>1, SourceSame DEF SourceInv, SourceTyped
<1>3. /\ c \in SourceCalls
      /\ source' = NoSource => c.step = "get" /\ c.body = cluster
      /\ source' # NoSource => c.step = "iocs"
    BY <1>2, SourceCallIs, SourceTypes DEF TS!Get, TS!GetIocs
<1> HIDE DEF c
<1>4. SourceTyped'
    BY <1>1, <1>2, <1>3, SourceCallAdded, SourceWaits DEF SourceTyped
<1>5. ASSUME saved' # TS!Careless PROVE cluster' = saved' /\ (exists' => SourceCareful')
    BY <1>1, <1>2, <1>3, <1>5, SourceWaits DEF SourceInv, SourceCareful
<1>6. TS!IocsMatchPage'
    BY <1>1, <1>3 DEF TS!IocsMatchPage
<1> QED
    BY <1>4, <1>5, <1>6 DEF SourceInv

LEMMA SourceOpensDetails == ASSUME SourceInv, TS!SelectDetails PROVE SourceInv'
<1>1. /\ open /\ source # NoSource /\ tab = "iocs" /\ tab' = "details" /\ item' = source
      /\ TS!Wait /\ calls' = {c \in calls : c.step # "iocs"}
      /\ UNCHANGED <<cluster, exists, open, source, isReadOnly, saveInProgress, edits>>
      /\ pageIndex' = 0 /\ iocs' = MaxPage + 1 /\ failed' \in BOOLEAN
    BY DEF TS!SelectDetails, TS!EmptyTable
<1>2. SourceTyped /\ SourceCopies' = SourceCopies /\ SourceCalls' = SourceCalls
    BY <1>1, SourceSame DEF SourceInv
<1>3. SourceTyped'
    BY <1>1, <1>2, SourceWaits, SourceTypes DEF SourceTyped, SourceCallsTyped
<1>4. ASSUME saved' # TS!Careless PROVE cluster' = saved' /\ (exists' => SourceCareful')
    BY <1>1, <1>4, SourceWaits DEF SourceInv, SourceCareful
<1>5. TS!IocsMatchPage'
    BY <1>1 DEF TS!IocsMatchPage
<1> QED
    BY <1>3, <1>4, <1>5 DEF SourceInv

LEMMA SourceOpensIocs == ASSUME SourceInv, TS!SelectIocs PROVE SourceInv'
<1> DEFINE Kept(c) == [c EXCEPT !.live = @ /\ c.step # "save"]
<1>1. /\ open /\ tab = "details" /\ tab' = "iocs" /\ item' = NoSource
      /\ calls' = {Kept(c) : c \in calls} \cup {TS!GetIocs(0)}
      /\ UNCHANGED <<cluster, exists, open, source, pageIndex, iocs, failed, edits, saved>>
      /\ isReadOnly' \in BOOLEAN /\ saveInProgress' \in BOOLEAN
    BY DEF TS!SelectIocs, TS!EmptyForm, TS!table
<1>2. SourceTyped /\ SourceCopies' = SourceCopies /\ SourceCalls' = SourceCalls
    BY <1>1, SourceSame DEF SourceInv
<1>3. TS!GetIocs(0) \in SourceCalls /\ TS!GetIocs(0).step = "iocs"
    BY <1>2, SourceCallIs, SourceTypes DEF TS!GetIocs
<1>4. \A c \in SourceCalls :
          Kept(c) \in SourceCalls /\ Kept(c).step = c.step /\ Kept(c).body = c.body
    BY DEF SourceCalls
<1> HIDE DEF Kept
<1>5. SourceCallsTyped'
    BY <1>1, <1>2, <1>3, <1>4 DEF SourceTyped, SourceCallsTyped
<1>6. SourceTyped'
    BY <1>1, <1>2, <1>5, SourceTypes DEF SourceTyped
<1>7. ASSUME SourceCareful PROVE SourceCareful'
  <2>1. \A d \in calls' : d.step = "iocs" \/ \E c \in calls : d = Kept(c)
    BY <1>1, <1>3
  <2>2. \A c \in calls : /\ Kept(c) \in calls' /\ Kept(c).step = c.step
                         /\ Kept(c).body = c.body
    BY <1>1, <1>2, <1>4 DEF SourceTyped, SourceCallsTyped
  <2> QED
    BY <1>1, <1>7, <2>1, <2>2 DEF SourceCareful
<1>8. TS!IocsMatchPage'
    BY <1>1, <1>3 DEF TS!IocsMatchPage
<1> QED
    BY <1>1, <1>6, <1>7, <1>8 DEF SourceInv

\* What changes the form alone.
LEMMA SourceFormChanges ==
    ASSUME SourceInv, TS!StartEdit \/ TS!OnDiscard PROVE SourceInv'
<1>1. /\ tab = "details" /\ item' \in {item, source} /\ isReadOnly' \in BOOLEAN
      /\ UNCHANGED <<cluster, exists, open, source, tab, saveInProgress, pageIndex, iocs, failed,
                     calls, edits, saved>>
    BY DEF TS!StartEdit, TS!OnDiscard, TS!table
<1>2. SourceTyped /\ SourceCopies' = SourceCopies /\ SourceCalls' = SourceCalls
    BY <1>1, SourceSame DEF SourceInv
<1>3. SourceTyped'
    BY <1>1, <1>2 DEF SourceTyped, SourceCallsTyped
<1>4. SourceCareful => SourceCareful'
    BY <1>1 DEF SourceCareful
<1>5. TS!IocsMatchPage'
    BY <1>1 DEF TS!IocsMatchPage
<1> QED
    BY <1>1, <1>3, <1>4, <1>5 DEF SourceInv

LEMMA SourceEdited == ASSUME SourceInv, TS!Edit PROVE SourceInv'
<1>1. /\ tab = "details" /\ edits < MoreEdits /\ edits' = edits + 1
      /\ item' = [item EXCEPT !["details"] = edits + 1]
      /\ UNCHANGED <<cluster, exists, open, source, tab, isReadOnly, saveInProgress, pageIndex,
                     iocs, failed, calls, saved>>
    BY DEF TS!Edit, TS!table
<1>2. SourceTyped /\ item \in SourceCopies
    BY <1>1 DEF SourceInv, SourceTyped
<1>3. item' \in SourceCopies' /\ item'[Active] = item[Active]
    BY <1>1, <1>2, SourceGrows DEF SourceCopies, TS!Parts, Active
<1>4. SourceCallsTyped'
    BY <1>1, <1>2, SourceGrows DEF SourceTyped, SourceCallsTyped
<1>5. SourceTyped'
    BY <1>1, <1>2, <1>3, <1>4, SourceGrows DEF SourceTyped
<1>6. SourceCareful => SourceCareful'
    BY <1>1, <1>3 DEF SourceCareful
<1>7. TS!IocsMatchPage'
    BY <1>1 DEF TS!IocsMatchPage
<1> QED
    BY <1>1, <1>5, <1>6, <1>7 DEF SourceInv

LEMMA SourceSaves == ASSUME SourceInv, TS!OnSave PROVE SourceInv'
<1> DEFINE c == TS!Call("save", item, 0)
<1>1. /\ open /\ tab = "details" /\ TS!Wait /\ calls' = calls \cup {c}
      /\ saveInProgress' \in BOOLEAN
      /\ UNCHANGED <<cluster, exists, open, source, tab, item, isReadOnly, pageIndex, iocs,
                     failed, edits>>
    BY DEF TS!OnSave, TS!table
<1>2. /\ SourceTyped /\ SourceCopies' = SourceCopies /\ SourceCalls' = SourceCalls
      /\ item \in SourceCopies
    BY <1>1, SourceSame DEF SourceInv, SourceTyped
<1>3. c \in SourceCalls /\ c.step = "save" /\ c.body = item
    BY <1>2, SourceCallIs, SourceTypes
<1> HIDE DEF c
<1>4. SourceTyped'
    BY <1>1, <1>2, <1>3, SourceCallAdded, SourceWaits DEF SourceTyped
<1>5. ASSUME saved' # TS!Careless PROVE cluster' = saved' /\ (exists' => SourceCareful')
    BY <1>1, <1>3, <1>5, SourceWaits DEF SourceInv, SourceCareful
<1>6. TS!IocsMatchPage'
    BY <1>1 DEF TS!IocsMatchPage
<1> QED
    BY <1>4, <1>5, <1>6 DEF SourceInv

LEMMA SourceToggles == ASSUME SourceInv, TS!ToggleActiveState PROVE SourceInv'
<1> DEFINE flipped == [source EXCEPT ![Active] = @ + 1]
           c == TS!Call("toggle", flipped, 0)
<1>1. /\ open /\ source # NoSource /\ edits < MoreEdits /\ edits' = edits + 1
      /\ calls' = calls \cup {c}
      /\ saved' = IF TS!Busy \/ tab = "details" THEN TS!Careless ELSE saved
      /\ UNCHANGED <<cluster, exists, open, source, tab, item, isReadOnly, saveInProgress,
                     pageIndex, iocs, failed>>
    BY DEF TS!ToggleActiveState, TS!form, TS!table, Active
<1>2. SourceTyped /\ source \in SourceCopies
    BY <1>1 DEF SourceInv, SourceTyped
<1>3. flipped \in SourceCopies'
    BY <1>1, <1>2, SourceGrows DEF SourceCopies, TS!Parts, Active
<1>4. c \in SourceCalls' /\ c.step = "toggle" /\ c.body = flipped
    BY <1>3, <1>2, SourceTypes DEF TS!Call, SourceCalls
<1> HIDE DEF c
<1>5. SourceCallsTyped'
    BY <1>1, <1>2, <1>3, <1>4, SourceGrows DEF SourceTyped, SourceCallsTyped
<1>6. SourceTyped'
    BY <1>1, <1>2, <1>5, SourceGrows DEF SourceTyped
<1>7. ASSUME saved' # TS!Careless PROVE cluster' = saved' /\ (exists' => SourceCareful')
  <2>1. /\ saved' = saved /\ tab # "details"
        /\ \A d \in calls : d.step \notin {"get", "toggle", "save"}
    BY <1>1, <1>7 DEF TS!Busy
  <2>2. exists => source = cluster
    BY <1>1, <1>7, <2>1 DEF SourceInv, SourceCareful
  <2>3. tab = "iocs" /\ cluster = saved
    BY <1>2, <1>7, <2>1 DEF SourceInv, SourceTyped
  <2>4. exists => c.body = [cluster EXCEPT ![Active] = @ + 1]
    BY <1>4, <2>2
  <2> HIDE DEF flipped
  <2>5. \A d \in calls' : d.step \in {"get", "toggle", "save"} => d = c
    BY <1>1, <2>1
  <2>6. ASSUME exists PROVE SourceCareful'
    BY <1>1, <1>4, <2>2, <2>3, <2>4, <2>5, <2>6 DEF SourceCareful
  <2> QED
    BY <1>1, <2>1, <2>3, <2>6
<1>8. TS!IocsMatchPage'
    BY <1>1 DEF SourceInv, TS!IocsMatchPage
<1> QED
    BY <1>6, <1>7, <1>8 DEF SourceInv

\* A call that is not about the whole source.
LEMMA SourceAsks ==
    ASSUME SourceInv, open, NEW step \in {"iocs", "delete", "refresh"}, NEW pg \in TS!TablePages,
           calls' = calls \cup {TS!Call(step, NoSource, pg)},
           UNCHANGED <<cluster, exists, open, source, tab, item, isReadOnly, saveInProgress,
                       iocs, failed, edits, saved>>,
           pageIndex' = pageIndex \/ (pageIndex' = pg /\ step = "iocs")
    PROVE  SourceInv'
<1> DEFINE c == TS!Call(step, NoSource, pg)
<1>1. SourceTyped /\ SourceCopies' = SourceCopies /\ SourceCalls' = SourceCalls
    BY SourceSame DEF SourceInv
<1>2. c \in SourceCalls /\ c.step = step
    BY <1>1, SourceCallIs
<1> HIDE DEF c
<1>3. calls' = calls \cup {c}
    BY DEF c
<1>4. SourceTyped'
    BY <1>1, <1>2, <1>3, SourceCallAdded DEF SourceTyped
<1>5. SourceCareful => SourceCareful'
    BY <1>2, <1>3 DEF SourceCareful
<1>6. TS!IocsMatchPage'
    BY <1>2, <1>3 DEF SourceInv, TS!IocsMatchPage
<1> QED
    BY <1>4, <1>5, <1>6 DEF SourceInv

LEMMA SourceAsked ==
    ASSUME SourceInv, TS!OnDeleteConfirmed \/ TS!OnRefresh \/ TS!OnTableChange PROVE SourceInv'
<1>1. 0 \in TS!TablePages
    BY SourceTypes DEF SourceInv
<1>2. CASE TS!OnDeleteConfirmed
    BY <1>1, <1>2, SourceAsks DEF TS!OnDeleteConfirmed, TS!form, TS!table
<1>3. CASE TS!OnRefresh
    BY <1>1, <1>3, SourceAsks DEF TS!OnRefresh, TS!form, TS!table
<1>4. CASE TS!OnTableChange
  <2>1. PICK pg \in TS!TablePages :
            pageIndex' = pg /\ calls' = calls \cup {TS!Call("iocs", NoSource, pg)}
    BY <1>4 DEF TS!OnTableChange, TS!GetIocs
  <2> QED
    BY <1>4, <2>1, SourceAsks DEF TS!OnTableChange, TS!form
<1> QED
    BY <1>2, <1>3, <1>4

-----------------------------------------------------------------------------
(* The answers to the page of a source *)

LEMMA SourceAbout ==
    ASSUME SourceInv, NEW c \in calls
    PROVE  /\ SourceTyped /\ c \in SourceCalls /\ c.page \in TS!TablePages
           /\ c.step \in {"get", "toggle", "save"} => c.body \in SourceCopies
           /\ (saved # TS!Careless /\ exists /\ c.step \in {"get", "toggle", "save"}) =>
                 /\ cluster = saved /\ SourceCareful
                 /\ \A d \in calls \ {c} : d.step \notin {"get", "toggle", "save"}
BY DEF SourceInv, SourceTyped, SourceCallsTyped, SourceCalls, SourceCareful

LEMMA SourceGot == ASSUME SourceInv, NEW c \in calls, TS!GotSource(c) PROVE SourceInv'
<1> DEFINE more == IF source = NoSource THEN {TS!GetIocs(0)} ELSE {}
<1>1. /\ c.step = "get" /\ exists /\ source' \in {c.body, cluster}
      /\ calls' = (calls \ {c}) \cup more
      /\ UNCHANGED <<cluster, exists, open, tab, item, isReadOnly, saveInProgress, pageIndex,
                     iocs, failed, edits, saved>>
    BY DEF TS!GotSource, TS!Done, TS!form, TS!table
<1>2. SourceTyped /\ SourceCopies' = SourceCopies /\ SourceCalls' = SourceCalls
    BY <1>1, SourceSame DEF SourceInv
<1>3. TS!GetIocs(0) \in SourceCalls /\ TS!GetIocs(0).step = "iocs"
    BY <1>2, SourceCallIs, SourceTypes DEF TS!GetIocs
<1>4. more \subseteq SourceCalls /\ (\A d \in more : d.step = "iocs")
      /\ (source = NoSource => TS!GetIocs(0) \in more)
    BY <1>3
<1> HIDE DEF more
<1>5. SourceCallsTyped' /\ source' \in SourceCopies
    BY <1>1, <1>2, <1>4, SourceAbout DEF SourceTyped, SourceCallsTyped
<1>6. open
    BY <1>1, <1>2 DEF SourceTyped
<1>7. SourceTyped'
    BY <1>1, <1>2, <1>5, <1>6 DEF SourceTyped
<1>8. ASSUME saved' # TS!Careless PROVE cluster' = saved' /\ (exists' => SourceCareful')
  <2>1. cluster = saved /\ SourceCareful /\ source' = cluster
    BY <1>1, <1>8, SourceAbout DEF SourceCareful
  <2> QED
    BY <1>1, <1>4, <2>1 DEF SourceCareful
<1>9. TS!IocsMatchPage'
    BY <1>1, <1>3, <1>4 DEF SourceInv, TS!IocsMatchPage
<1> QED
    BY <1>7, <1>8, <1>9 DEF SourceInv

\* A call is over, and may be followed by others, with nothing else changed or nothing
\* claimed any more.
LEMMA SourceAnswered ==
    ASSUME SourceInv, NEW c \in calls, NEW more \in SUBSET SourceCalls,
           \A d \in more : d.step = "iocs", more = {} \/ open,
           calls' = (calls \ {c}) \cup more,
           cluster' \in SourceCopies, exists' \in BOOLEAN, exists' => exists,
           saveInProgress' \in BOOLEAN,
           UNCHANGED <<open, source, tab, item, isReadOnly, edits>>,
           pageIndex' \in TS!TablePages, iocs' \in TS!TablePages \cup {MaxPage + 1},
           failed' \in BOOLEAN, TS!IocsMatchPage',
           saved' = TS!Careless
           \/ (saved' = saved /\ UNCHANGED cluster /\ (c.step = "get" => ~exists'))
    PROVE  SourceInv'
<1>1. SourceTyped /\ SourceCopies' = SourceCopies /\ SourceCalls' = SourceCalls
    BY SourceSame DEF SourceInv
<1>2. SourceCallsTyped'
    BY <1>1 DEF SourceTyped, SourceCallsTyped
<1>3. SourceTyped'
    BY <1>1, <1>2 DEF SourceTyped
<1>4. ASSUME saved' # TS!Careless PROVE cluster' = saved' /\ (exists' => SourceCareful')
  <2>1. cluster' = saved' /\ saved # TS!Careless
    BY <1>4 DEF SourceInv
  <2>2. ASSUME exists' PROVE SourceCareful'
    <3>1. SourceCareful /\ c.step # "get" /\ UNCHANGED cluster
      BY <1>4, <2>1, <2>2 DEF SourceInv
    <3> QED
      BY <3>1 DEF SourceCareful
  <2> QED
    BY <2>1, <2>2
<1> QED
    BY <1>3, <1>4 DEF SourceInv

LEMMA SourceNoMore == {} \in SUBSET SourceCalls /\ \A d \in {} : d.step = "iocs"
OBVIOUS

\* The table is as it was, and so are the calls that are about it.
LEMMA SourceTableKept ==
    ASSUME SourceInv, NEW c \in calls, c.step # "iocs", calls \ {c} \subseteq calls',
           UNCHANGED <<open, source, tab, pageIndex, iocs, failed>>
    PROVE  /\ TS!IocsMatchPage' /\ SourceTyped /\ pageIndex' \in TS!TablePages
           /\ iocs' \in TS!TablePages \cup {MaxPage + 1} /\ failed' \in BOOLEAN
BY DEF SourceInv, SourceTyped, TS!IocsMatchPage

LEMMA SourceGetFails == ASSUME SourceInv, NEW c \in calls, TS!GetFails(c) PROVE SourceInv'
<1>1. /\ c.step = "get" /\ calls' = (calls \ {c}) \cup {} /\ saved' = TS!Careless
      /\ UNCHANGED <<cluster, exists, open, source, tab, item, isReadOnly, saveInProgress,
                     pageIndex, iocs, failed, edits>>
    BY DEF TS!GetFails, TS!Done, TS!form, TS!table
<1>2. cluster' \in SourceCopies /\ exists' \in BOOLEAN /\ saveInProgress' \in BOOLEAN
    BY <1>1 DEF SourceInv, SourceTyped
<1> QED
    BY <1>1, <1>2, SourceTableKept, SourceNoMore, SourceAnswered

LEMMA SourceRefused == ASSUME SourceInv, NEW c \in calls, TS!WriteRefused(c) PROVE SourceInv'
<1>1. /\ c.step \in {"toggle", "save"} /\ calls' = (calls \ {c}) \cup {}
      /\ saveInProgress' \in BOOLEAN
      /\ UNCHANGED <<cluster, exists, open, source, tab, item, isReadOnly,
                     pageIndex, iocs, failed, edits, saved>>
    BY DEF TS!WriteRefused, TS!Done, TS!table
<1>2. cluster' \in SourceCopies /\ exists' \in BOOLEAN
    BY <1>1 DEF SourceInv, SourceTyped
<1> QED
    BY <1>1, <1>2, SourceTableKept, SourceNoMore, SourceAnswered

LEMMA SourceLost == ASSUME SourceInv, NEW c \in calls, TS!WriteLost(c) PROVE SourceInv'
<1>1. /\ c.step \in {"toggle", "save"} /\ calls' = (calls \ {c}) \cup {} /\ saved' = TS!Careless
      /\ cluster' \in {cluster, c.body}
      /\ UNCHANGED <<exists, open, source, tab, item, isReadOnly, saveInProgress,
                     pageIndex, iocs, failed, edits>>
    BY DEF TS!WriteLost, TS!Done, TS!form, TS!table
<1>2. cluster' \in SourceCopies /\ exists' \in BOOLEAN /\ saveInProgress' \in BOOLEAN
    BY <1>1, SourceAbout DEF SourceTyped
<1> QED
    BY <1>1, <1>2, SourceTableKept, SourceNoMore, SourceAnswered

LEMMA SourceWritten == ASSUME SourceInv, NEW c \in calls, TS!Written(c) PROVE SourceInv'
<1> DEFINE g == TS!Call("get", c.body, 0)
           more == IF open THEN {g} ELSE {}
<1>1. /\ c.step \in {"toggle", "save"} /\ exists /\ cluster' = c.body /\ saved' = TS!Meant(c)
      /\ calls' = (calls \ {c}) \cup more
      /\ UNCHANGED <<exists, open, source, tab, item, pageIndex, iocs, failed, edits>>
    BY DEF TS!Written, TS!Done, TS!table
<1>2. isReadOnly' \in BOOLEAN /\ saveInProgress' \in BOOLEAN
    BY DEF TS!Written, SourceInv, SourceTyped
<1>3. /\ SourceTyped /\ SourceCopies' = SourceCopies /\ SourceCalls' = SourceCalls
      /\ c.body \in SourceCopies
    BY <1>1, SourceSame, SourceAbout
<1>4. g \in SourceCalls /\ g.step = "get" /\ g.body = c.body
    BY <1>3, SourceCallIs, SourceTypes
<1> HIDE DEF g
<1>5. SourceCallsTyped'
    BY <1>1, <1>3, <1>4 DEF SourceTyped, SourceCallsTyped
<1>6. ~open => \A d \in calls' : d.step \in {"toggle", "save", "delete"}
    BY <1>1, <1>3 DEF SourceTyped
<1>7. ASSUME saved # TS!Careless
      PROVE  saved' = cluster' /\ (source[Active] = cluster[Active] /\ c.step = "save"
                                   => source[Active] = cluster'[Active])
  <2>1. /\ cluster = saved /\ SourceCareful /\ cluster \in SourceCopies
        /\ c.body \in SourceCopies
    BY <1>1, <1>3, <1>7, SourceAbout DEF SourceTyped
  <2>2. CASE c.step = "toggle"
    BY <1>1, <1>7, <2>1, <2>2 DEF TS!Meant, SourceCareful, Active
  <2>3. CASE c.step = "save"
    <3>1. c.body[Active] = cluster[Active]
      BY <2>1, <2>3 DEF SourceCareful
    <3>2. c.body = [cluster EXCEPT !["details"] = c.body["details"]]
      BY <2>1, <3>1 DEF SourceCopies, TS!Parts, Active
    <3> QED
      BY <1>1, <1>7, <2>1, <2>3, <3>1, <3>2 DEF TS!Meant
  <2> QED
    BY <1>1, <2>2, <2>3
<1>8. saved' \in SourceCopies \cup {TS!Careless}
    BY <1>1, <1>3, <1>7 DEF TS!Meant
<1>9. SourceTyped'
    BY <1>1, <1>2, <1>3, <1>5, <1>6, <1>8 DEF SourceTyped
<1>10. ASSUME saved' # TS!Careless PROVE cluster' = saved' /\ (exists' => SourceCareful')
  <2>1. saved # TS!Careless
    BY <1>1, <1>10 DEF TS!Meant
  <2>2. /\ SourceCareful /\ \A d \in calls \ {c} : d.step \notin {"get", "toggle", "save"}
    BY <1>1, <2>1, SourceAbout
  <2>3. \A d \in calls' : d.step \in {"get", "toggle", "save"} => d = g /\ open
    BY <1>1, <2>2
  <2>4. source' = NoSource \/ \E d \in calls' : d.step = "get"
    BY <1>1, <1>3, <1>4 DEF SourceTyped
  <2>5. tab' = "details" => source'[Active] = cluster'[Active] /\ item'[Active] = cluster'[Active]
    BY <1>1, <1>7, <2>1, <2>2 DEF SourceCareful
  <2> HIDE DEF more
  <2>6. SourceCareful'
    BY <1>1, <1>4, <2>3, <2>4, <2>5 DEF SourceCareful
  <2> QED
    BY <1>7, <2>1, <2>6
<1>11. TS!IocsMatchPage'
    BY <1>1 DEF SourceInv, TS!IocsMatchPage
<1> QED
    BY <1>9, <1>10, <1>11 DEF SourceInv

LEMMA SourceDeleted == ASSUME SourceInv, NEW c \in calls, TS!Deleted(c) PROVE SourceInv'
<1>1. c.step = "delete" /\ UNCHANGED <<cluster, edits, saved>>
    BY DEF TS!Deleted
<1>2. CASE exists' = FALSE /\ TS!Unmount(calls \ {c})
  <2>1. exists' \in BOOLEAN
    BY <1>2
  <2> QED
    BY <1>1, <1>2, <2>1, SourceUnmounts
<1>3. CASE /\ (exists' = exists \/ exists' = FALSE) /\ calls' = (calls \ {c}) \cup {}
           /\ UNCHANGED <<open, source, tab, item, isReadOnly, saveInProgress, pageIndex, iocs,
                          failed>>
  <2>1. cluster' \in SourceCopies /\ exists \in BOOLEAN /\ saveInProgress' \in BOOLEAN
    BY <1>1, <1>3 DEF SourceInv, SourceTyped
  <2>2. CASE exists' = exists
    BY <1>1, <1>3, <2>1, <2>2, SourceTableKept, SourceNoMore, SourceAnswered
  <2>3. CASE exists' = FALSE
    <3>1. exists' \in BOOLEAN /\ ~exists'
      BY <2>3
    <3> QED
      BY <1>1, <1>3, <2>1, <3>1, SourceTableKept, SourceNoMore, SourceAnswered
  <2> QED
    BY <1>3, <2>2, <2>3
<1> QED
    BY <1>2, <1>3 DEF TS!Deleted, TS!Done, TS!form, TS!table

LEMMA SourceRefreshed ==
    ASSUME SourceInv, NEW c \in calls, TS!Refreshed(c) \/ TS!RefreshFails(c) PROVE SourceInv'
<1>1. PICK more \in SUBSET {TS!GetIocs(0)} :
          /\ c.step = "refresh" /\ calls' = (calls \ {c}) \cup more
          /\ UNCHANGED <<cluster, exists, open, source, tab, item, isReadOnly, saveInProgress,
                         pageIndex, iocs, failed, edits, saved>>
  <2> DEFINE more == {TS!GetIocs(0) : ok \in {b \in BOOLEAN : b /\ tab = "iocs"}}
  <2>1. more \in SUBSET {TS!GetIocs(0)} /\ {} \in SUBSET {TS!GetIocs(0)}
    OBVIOUS
  <2>2. CASE TS!Refreshed(c)
    <3>1. calls' = (calls \ {c}) \cup more
      BY <2>2 DEF TS!Refreshed, TS!Done
    <3> QED
      BY <2>1, <2>2, <3>1 DEF TS!Refreshed, TS!form, TS!table
  <2>3. CASE TS!RefreshFails(c)
    BY <2>1, <2>3 DEF TS!RefreshFails, TS!Done, TS!form, TS!table
  <2> QED
    BY <2>2, <2>3
<1>2. /\ open /\ cluster' \in SourceCopies /\ exists' \in BOOLEAN /\ saveInProgress' \in BOOLEAN
    BY <1>1 DEF SourceInv, SourceTyped
<1>3. TS!GetIocs(0) \in SourceCalls /\ TS!GetIocs(0).step = "iocs"
    BY SourceAbout, SourceCallIs, SourceTypes DEF TS!GetIocs
<1>4. more \in SUBSET SourceCalls /\ \A d \in more : d.step = "iocs"
    BY <1>3
<1> QED
    BY <1>1, <1>2, <1>4, SourceTableKept, SourceAnswered

LEMMA SourceGotIocs == ASSUME SourceInv, NEW c \in calls, TS!GotIocs(c) PROVE SourceInv'
<1> DEFINE more == {TS!GetIocs(pg) : pg \in {c.page} \ {pageIndex}}
<1>1. /\ c.step = "iocs" /\ iocs' = c.page /\ pageIndex' = c.page /\ failed' = FALSE
      /\ calls' = (calls \ {c}) \cup more
      /\ UNCHANGED <<cluster, exists, open, source, tab, item, isReadOnly, saveInProgress,
                     edits, saved>>
    BY DEF TS!GotIocs, TS!Done, TS!form
<1>2. /\ open /\ cluster' \in SourceCopies /\ exists' \in BOOLEAN /\ saveInProgress' \in BOOLEAN
      /\ failed' \in BOOLEAN
    BY <1>1 DEF SourceInv, SourceTyped
<1>3. more \in SUBSET SourceCalls /\ \A d \in more : d.step = "iocs"
    BY SourceAbout, SourceCallIs DEF TS!GetIocs
<1>4. TS!IocsMatchPage' /\ c.page \in TS!TablePages
    BY <1>1, SourceAbout DEF TS!IocsMatchPage
<1> HIDE DEF more
<1> QED
    BY <1>1, <1>2, <1>3, <1>4, SourceAnswered

LEMMA SourceIocsFail == ASSUME SourceInv, NEW c \in calls, TS!IocsFail(c) PROVE SourceInv'
<1>1. /\ c.step = "iocs" /\ failed' = TRUE /\ calls' = (calls \ {c}) \cup {}
      /\ UNCHANGED <<cluster, exists, open, source, tab, item, isReadOnly, saveInProgress,
                     pageIndex, iocs, edits, saved>>
    BY DEF TS!IocsFail, TS!Done, TS!form
<1>2. /\ cluster' \in SourceCopies /\ exists' \in BOOLEAN /\ saveInProgress' \in BOOLEAN
      /\ failed' \in BOOLEAN /\ pageIndex' \in TS!TablePages
      /\ iocs' \in TS!TablePages \cup {MaxPage + 1}
    BY <1>1 DEF SourceInv, SourceTyped
<1>3. TS!IocsMatchPage'
    BY <1>1 DEF TS!IocsMatchPage
<1> QED
    BY <1>1, <1>2, <1>3, SourceNoMore, SourceAnswered

LEMMA SourceStep == SourceInv /\ TS!Next => SourceInv'
<1> SUFFICES ASSUME SourceInv, TS!Next PROVE SourceInv'
    OBVIOUS
<1>1. CASE TS!Leave \/ TS!Visit \/ TS!SelectDetails \/ TS!SelectIocs
    BY <1>1, SourceLeft, SourceVisited, SourceOpensDetails, SourceOpensIocs
<1>2. CASE TS!StartEdit \/ TS!Edit \/ TS!OnDiscard \/ TS!OnSave \/ TS!ToggleActiveState
    BY <1>2, SourceFormChanges, SourceEdited, SourceSaves, SourceToggles
<1>3. CASE TS!OnDeleteConfirmed \/ TS!OnRefresh \/ TS!OnTableChange
    BY <1>3, SourceAsked
<1>4. CASE \E c \in calls : TS!Answer(c)
    BY <1>4, SourceGot, SourceGetFails, SourceWritten, SourceRefused, SourceLost, SourceDeleted,
       SourceRefreshed, SourceGotIocs, SourceIocsFail
    DEF TS!Answer
<1> QED
    BY <1>1, <1>2, <1>3, <1>4 DEF TS!Next

LEMMA SourceStutters ==
    ASSUME SourceInv,
           UNCHANGED <<cluster, exists, open, source, tab, item, isReadOnly, saveInProgress,
                       pageIndex, iocs, failed, calls, edits, saved>>
    PROVE  SourceInv'
<1>1. SourceTyped'
    BY SourceSame DEF SourceInv, SourceTyped, SourceCallsTyped
<1>2. SourceCareful => SourceCareful'
    BY DEF SourceCareful
<1>3. TS!IocsMatchPage'
    BY DEF SourceInv, TS!IocsMatchPage
<1> QED
    BY <1>1, <1>2, <1>3 DEF SourceInv

-----------------------------------------------------------------------------
(* Correlation rules *)

\* Ids are those of rules that were created; 0 stands for none.
KnownRules == [id : 0 .. created, content : CR!Contents]
RuleCalls ==
    {c \in [step : {"list", "get", "create", "update", "delete"}, id : 0 .. created,
            body : KnownRules \cup {CR!None}, meant : CR!Contents \cup {CR!None},
            live : BOOLEAN] :
        /\ c.step = "delete" => c.body = CR!None /\ c.meant = CR!None
        /\ c.step \in {"create", "update"} => c.body \in KnownRules
        /\ c.step = "update" => c.body.id = c.id}

\* A form that the user has not touched shows what it was mounted with.
Untouched ==
    /\ values = initialValues
    /\ dataFilterEnabled = (initialValues.content.conditions # CR!NoConditions)
    /\ groupByEnabled = (initialValues.content.field # 0)

RulesTyped ==
    /\ created \in 0 .. MaxRules
    /\ rule \in KnownRules \cup {CR!None} /\ row \in KnownRules \cup {CR!None}
    /\ rule # CR!None => rule.id # 0
    /\ page \in {"list", "form"} /\ action \in {"Create", "Edit"}
    /\ initialValues \in KnownRules /\ values \in KnownRules /\ period \in CR!Edits
    /\ dataFilterEnabled \in BOOLEAN /\ groupByEnabled \in BOOLEAN
    /\ loadingNotifications \in BOOLEAN
    /\ calls \subseteq RuleCalls
    /\ edits \in 0 .. ManyEdits /\ touched \subseteq CR!Parts
    /\ saved \in CR!Contents \cup {CR!None}
    /\ page = "form" /\ touched = {} => Untouched

\* Conditions are those that are meant, or what reading them has left of them.
SameOrCut(conditions, means) ==
    conditions = means \/ (means[2] = "colon" /\ conditions = <<means[1], "cut">>)

Matches(content, means) ==
    /\ content.window = means.window /\ content.field = means.field
    /\ SameOrCut(content.conditions, means.conditions)

\* What was read or loaded of the rule is the rule, unless it is of another that is gone.
IsRule(r) == r # CR!None /\ rule # CR!None /\ r.id = rule.id

CallCareful(c) ==
    /\ c.step = "list" => page = "list" /\ (IsRule(c.body) => c.body = rule)
    /\ c.step = "get" => page = "form" /\ action = "Edit" /\ (IsRule(c.body) => c.body = rule)
    /\ c.step = "create" => page = "form" /\ c.meant = c.body.content
    /\ c.step = "update" =>
          /\ page = "form"
          /\ rule # CR!None /\ c.id = rule.id =>
                c.meant \in CR!Contents /\ Matches(c.body.content, c.meant)
    /\ c.step = "delete" => page = "list"

\* What the form has of the parts that were not touched is what they are meant to be.
FormCareful ==
    page = "form" /\ action = "Edit" /\ IsRule(values) =>
        /\ "window" \in touched \/ values.content.window = saved.window
        /\ "field" \in touched \/ (IF groupByEnabled THEN values.content.field ELSE 0) = saved.field
        /\ "conditions" \in touched
           \/ SameOrCut(IF dataFilterEnabled THEN values.content.conditions ELSE CR!NoConditions,
                        saved.conditions)

RulesCareful ==
    /\ rule = CR!None => saved = CR!None
    /\ rule # CR!None => saved \in CR!Contents /\ Matches(rule.content, saved)
    /\ \A c, d \in calls :
          c.step \notin {"list", "get"} /\ d.step \notin {"list", "get"} => c = d
    /\ \A c \in calls : CallCareful(c)
    /\ IsRule(row) => row = CR!Read(rule)
    /\ FormCareful

RulesInv == RulesTyped /\ (saved # CR!Careless => RulesCareful)

LEMMA RecordsAreNotNone ==
    /\ \A r \in CR!Contents : r # CR!None
    /\ \A r \in KnownRules : r # CR!None
BY DEF CR!Contents, CR!None, KnownRules

LEMMA SameContent ==
    ASSUME NEW a \in CR!Contents, NEW b \in CR!Contents, a.window = b.window,
           a.conditions = b.conditions, a.field = b.field
    PROVE  a = b
BY DEF CR!Contents

LEMMA ReadIs ==
    ASSUME NEW r \in KnownRules
    PROVE  LET new == CR!Read(r) IN
           /\ new \in KnownRules /\ new.id = r.id
           /\ new.content.window = r.content.window /\ new.content.field = r.content.field
           /\ new.content.conditions =
                 IF r.content.conditions[2] = "colon" THEN <<r.content.conditions[1], "cut">>
                                                      ELSE r.content.conditions
<1>1. r.content \in CR!Contents /\ r.content.conditions \in CR!Conditions /\ r # CR!None
    BY RecordsAreNotNone DEF KnownRules, CR!Contents
<1>2. PICK n \in CR!Edits, k \in {"none", "blank", "plain", "colon", "cut"} :
          r.content.conditions = <<n, k>>
    BY <1>1 DEF CR!Conditions
<1> DEFINE cond == <<n, IF k = "colon" THEN "cut" ELSE k>>
<1>3. CR!Read(r) = [r EXCEPT !.content.conditions = cond]
    BY <1>1, <1>2 DEF CR!Read
<1>4. cond \in CR!Conditions
    BY DEF CR!Conditions
<1>5. cond = IF r.content.conditions[2] = "colon" THEN <<r.content.conditions[1], "cut">>
                                                   ELSE r.content.conditions
    BY <1>2
<1> HIDE DEF cond
<1> QED
    BY <1>1, <1>3, <1>4, <1>5 DEF KnownRules, CR!Contents

LEMMA SubmittedIs ==
    ASSUME RulesTyped
    PROVE  LET new == CR!Submitted IN
           /\ new \in KnownRules /\ new.id = values.id /\ new.content \in CR!Contents
           /\ new.content.window = values.content.window
           /\ new.content.field = IF groupByEnabled THEN values.content.field ELSE 0
           /\ new.content.conditions =
                 IF dataFilterEnabled THEN values.content.conditions ELSE CR!NoConditions
<1>1. values \in KnownRules /\ 0 \in CR!Edits /\ CR!NoConditions \in CR!Conditions
    BY MCPagesAssumption DEF RulesTyped, CR!Edits, CR!Conditions, CR!NoConditions
<1> QED
    BY <1>1 DEF CR!Submitted, KnownRules, CR!Contents

LEMMA RulesSame ==
    ASSUME created' = created PROVE KnownRules' = KnownRules /\ RuleCalls' = RuleCalls
BY DEF KnownRules, RuleCalls

LEMMA RulesGrow ==
    ASSUME RulesTyped, created < MaxRules, created' = created + 1
    PROVE  /\ created' \in 0 .. MaxRules /\ created' \in 0 .. created' /\ created' # 0
           /\ KnownRules \subseteq KnownRules' /\ RuleCalls \subseteq RuleCalls'
<1>1. created \in Nat /\ MaxRules \in Nat
    BY MCPagesAssumption DEF RulesTyped
<1>2. 0 .. created \subseteq 0 .. created'
    BY <1>1
<1>3. KnownRules \subseteq KnownRules'
    BY <1>2 DEF KnownRules
<1>4. RuleCalls \subseteq RuleCalls'
    BY <1>2, <1>3 DEF RuleCalls
<1> QED
    BY <1>1, <1>3, <1>4

LEMMA RuleCallIs ==
    ASSUME NEW step, NEW id, NEW body, NEW means
    PROVE  LET c == CR!Call(step, id, body, means) IN
           /\ c.step = step /\ c.id = id /\ c.body = body /\ c.meant = means
           /\ (/\ step \in {"list", "get", "create", "update", "delete"} /\ id \in 0 .. created
               /\ body \in KnownRules \cup {CR!None} /\ means \in CR!Contents \cup {CR!None}
               /\ step = "delete" => body = CR!None /\ means = CR!None
               /\ step \in {"create", "update"} => body \in KnownRules
               /\ step = "update" => body.id = id) => c \in RuleCalls
BY DEF CR!Call, RuleCalls

LEMMA LoadIs ==
    ASSUME RulesTyped, NEW step \in {"list", "get"}, NEW r \in KnownRules \cup {CR!None}
    PROVE  LET c == CR!Call(step, 0, r, CR!None) IN
           c \in RuleCalls /\ c.step = step /\ c.body = r
<1>1. 0 \in 0 .. created
    BY MCPagesAssumption DEF RulesTyped
<1> QED
    BY <1>1, RuleCallIs

LEMMA DefaultIsKnown ==
    RulesTyped => CR!Default \in KnownRules /\ CR!Default.id = 0 /\ 1 \in CR!Edits
<1> SUFFICES ASSUME RulesTyped PROVE CR!Default \in KnownRules /\ 1 \in CR!Edits
    BY DEF CR!Default
<1>1. 0 \in 0 .. created /\ 0 \in CR!Edits /\ 1 \in CR!Edits
    BY MCPagesAssumption DEF RulesTyped, CR!Edits
<1>2. CR!BlankConditions \in CR!Conditions
    BY <1>1 DEF CR!BlankConditions, CR!Conditions
<1> QED
    BY <1>1, <1>2 DEF CR!Default, KnownRules, CR!Contents

\* Writes go on when a page is left, and only they.
LEMMA Outlives ==
    ASSUME RulesTyped, NEW sent \in SUBSET calls
    PROVE  /\ CR!Outlive(sent) \subseteq RuleCalls
           /\ \A c \in CR!Outlive(sent) : c.step \notin {"list", "get"}
           /\ (\A c \in sent : c.step \in {"list", "get"}) => CR!Outlive(sent) = {}
<1>1. \A c \in RuleCalls : [c EXCEPT !.live = FALSE] \in RuleCalls
                           /\ [c EXCEPT !.live = FALSE].step = c.step
    BY DEF RuleCalls
<1> QED
    BY <1>1 DEF CR!Outlive, RulesTyped

LEMMA RulesWaits ==
    ASSUME CR!Wait
    PROVE  /\ saved' \in {saved, CR!Careless}
           /\ saved' # CR!Careless =>
                 saved' = saved /\ \A c \in calls : c.step \in {"list", "get"}
BY DEF CR!Wait, CR!Writing

LEMMA CarelessIs == CR!Careless \in CR!Contents
<1>1. 0 \in CR!Edits
    BY MCPagesAssumption DEF CR!Edits
<1>2. CR!NoConditions \in CR!Conditions
    BY <1>1 DEF CR!NoConditions, CR!Conditions
<1> QED
    BY <1>1, <1>2 DEF CR!Careless, CR!Contents

LEMMA RulesInit == CR!Init => RulesInv
<1> SUFFICES ASSUME CR!Init PROVE RulesInv
    OBVIOUS
<1>1. /\ rule = CR!None /\ created = 0 /\ page = "list" /\ row = CR!None /\ action = "Create"
      /\ initialValues = CR!Default /\ values = CR!Default /\ period = 1
      /\ dataFilterEnabled \in BOOLEAN /\ groupByEnabled \in BOOLEAN
      /\ loadingNotifications \in BOOLEAN /\ touched = {} /\ calls = {CR!Load("list")}
      /\ edits = 0 /\ saved = CR!None
    BY DEF CR!Init
<1>2. 0 \in 0 .. MaxRules /\ 0 \in 0 .. ManyEdits /\ 0 \in CR!Edits /\ 1 \in CR!Edits
      /\ 0 \in 0 .. created
    BY <1>1, MCPagesAssumption DEF CR!Edits
<1>3. CR!BlankConditions \in CR!Conditions
    BY <1>2 DEF CR!BlankConditions, CR!Conditions
<1>4. CR!Default \in KnownRules
    BY <1>2, <1>3 DEF CR!Default, KnownRules, CR!Contents
<1>5. CR!Load("list") \in RuleCalls /\ CR!Load("list").step = "list"
      /\ CR!Load("list").body = CR!None
    BY <1>1, <1>2, RuleCallIs DEF CR!Load
<1>6. RulesTyped
    BY <1>1, <1>2, <1>4, <1>5 DEF RulesTyped
<1>7. RulesCareful
    BY <1>1, <1>5 DEF RulesCareful, CallCareful, FormCareful, IsRule
<1> QED
    BY <1>6, <1>7 DEF RulesInv

\* Reading what is the rule gives what the form starts from.
LEMMA ReadKeeps ==
    ASSUME NEW content \in CR!Contents, NEW means, NEW r \in KnownRules, Matches(r.content, means),
           content = CR!Read(r).content
    PROVE  Matches(content, means)
<1>1. /\ content.window = r.content.window /\ content.field = r.content.field
      /\ content.conditions =
            IF r.content.conditions[2] = "colon" THEN <<r.content.conditions[1], "cut">>
                                                 ELSE r.content.conditions
    BY ReadIs
<1> QED
    BY <1>1 DEF Matches, SameOrCut

\* A form that shows what was read or loaded starts anew.
LEMMA FormStarts ==
    ASSUME RulesTyped, RulesTyped', UNCHANGED rule, CR!Effect(values'),
           initialValues' = values', saved' = saved, page' = "form", touched' = {},
           rule # CR!None => Matches(rule.content, saved),
           action' = "Edit" => (IsRule(values') => values' = CR!Read(rule))
    PROVE  FormCareful'
<1> SUFFICES ASSUME action' = "Edit", IsRule(values)'
             PROVE  /\ values'.content.window = saved.window
                    /\ (IF groupByEnabled' THEN values'.content.field ELSE 0) = saved.field
                    /\ SameOrCut(IF dataFilterEnabled' THEN values'.content.conditions
                                                       ELSE CR!NoConditions, saved.conditions)
    BY DEF FormCareful, SameOrCut
<1>1. values' = CR!Read(rule) /\ rule # CR!None
    BY DEF IsRule
<1>2. rule \in KnownRules /\ values' \in KnownRules' /\ values'.content \in CR!Contents
    BY <1>1 DEF RulesTyped, KnownRules
<1>3. Matches(values'.content, saved)
    BY <1>1, <1>2, ReadKeeps
<1>4. /\ dataFilterEnabled' = (values'.content.conditions # CR!NoConditions)
      /\ groupByEnabled' = (values'.content.field # 0)
    BY DEF CR!Effect
<1>5. (IF groupByEnabled' THEN values'.content.field ELSE 0) = values'.content.field
    BY <1>4
<1>6. (IF dataFilterEnabled' THEN values'.content.conditions ELSE CR!NoConditions)
          = values'.content.conditions
    BY <1>4
<1> QED
    BY <1>3, <1>5, <1>6 DEF Matches

LEMMA FormMounted ==
    ASSUME RulesInv, NEW act \in {"Create", "Edit"}, NEW init \in KnownRules, NEW sent,
           CR!MountForm(act, init, sent),
           sent \subseteq CR!Outlive(calls) \cup {CR!Load("get")},
           \A c \in sent : c.step = "get" => act = "Edit",
           saved # CR!Careless /\ act = "Edit" => (IsRule(init) => init = CR!Read(rule))
    PROVE  RulesInv'
<1>1. /\ page' = "form" /\ row' = CR!None /\ action' = act /\ initialValues' = init
      /\ values' = init /\ period' = init.content.window
      /\ dataFilterEnabled' = (init.content.conditions # CR!NoConditions)
      /\ groupByEnabled' = (init.content.field # 0)
      /\ loadingNotifications' \in BOOLEAN /\ touched' = {} /\ calls' = sent
      /\ CR!Wait /\ UNCHANGED <<rule, created, edits>> /\ CR!Effect(init)
    BY DEF CR!MountForm, CR!Effect
<1>2. RulesTyped /\ KnownRules' = KnownRules /\ RuleCalls' = RuleCalls
    BY <1>1, RulesSame DEF RulesInv
<1>3. init.content.window \in CR!Edits
    BY DEF KnownRules, CR!Contents
<1>4. CR!Load("get") \in RuleCalls /\ CR!Load("get").step = "get" /\ CR!Load("get").body = rule
    BY <1>2, LoadIs DEF CR!Load, RulesTyped
<1>5. sent \subseteq RuleCalls
    BY <1>2, <1>4, Outlives
<1>6. dataFilterEnabled' \in BOOLEAN /\ groupByEnabled' \in BOOLEAN
    BY <1>1
<1>7. Untouched'
    BY <1>1 DEF Untouched
<1>8. saved' \in CR!Contents \cup {CR!None}
    BY <1>1, <1>2, RulesWaits, CarelessIs DEF RulesTyped
<1>9. RulesTyped'
    BY <1>1, <1>2, <1>3, <1>5, <1>6, <1>7, <1>8 DEF RulesTyped
<1>10. ASSUME saved' # CR!Careless PROVE RulesCareful'
  <2>1. saved' = saved /\ \A c \in calls : c.step \in {"list", "get"}
    BY <1>1, <1>10, RulesWaits
  <2>2. RulesCareful
    BY <1>10, <2>1 DEF RulesInv
  <2>3. CR!Outlive(calls) = {}
    BY <1>2, <2>1, Outlives
  <2>4. sent \subseteq {CR!Load("get")}
    BY <2>3
  <2>5. \A c \in calls' : CallCareful(c)'
    BY <1>1, <1>4, <2>4 DEF CallCareful
  <2>6. FormCareful'
    BY <1>1, <1>2, <1>9, <1>10, <2>1, <2>2, FormStarts DEF RulesCareful, IsRule
  <2> QED
    BY <1>1, <1>4, <2>1, <2>2, <2>4, <2>5, <2>6 DEF RulesCareful, IsRule, Matches
<1> QED
    BY <1>9, <1>10 DEF RulesInv

LEMMA RuleFormOpens ==
    ASSUME RulesInv, CR!CreateRule \/ CR!OnRuleNameClick \/ CR!VisitEdit PROVE RulesInv'
<1>1. RulesTyped /\ CR!Default \in KnownRules /\ CR!Default.id = 0
    BY DefaultIsKnown DEF RulesInv
<1>2. \A c \in CR!Outlive(calls) : c.step \notin {"list", "get"}
    BY <1>1, Outlives
<1>3. CASE CR!CreateRule
  <2>1. CR!MountForm("Create", CR!Default, CR!Outlive(calls))
    BY <1>3 DEF CR!CreateRule
  <2> QED
    BY <1>1, <1>2, <2>1, FormMounted
<1>4. CASE CR!OnRuleNameClick
  <2>1. CR!MountForm("Edit", row, CR!Outlive(calls)) /\ row # CR!None
    BY <1>4 DEF CR!OnRuleNameClick
  <2>2. row \in KnownRules
    BY <1>1, <2>1 DEF RulesTyped
  <2>3. saved # CR!Careless => (IsRule(row) => row = CR!Read(rule))
    BY DEF RulesInv, RulesCareful
  <2> QED
    BY <1>2, <2>1, <2>2, <2>3, FormMounted
<1>5. CASE CR!VisitEdit
  <2>1. CR!MountForm("Edit", CR!Default, CR!Outlive(calls) \cup {CR!Load("get")})
    BY <1>5 DEF CR!VisitEdit
  <2>2. ~ IsRule(CR!Default)
    BY <1>1 DEF IsRule, RulesTyped
  <2> QED
    BY <1>1, <2>1, <2>2, FormMounted
<1> QED
    BY <1>3, <1>4, <1>5

LEMMA RulesDeletes == ASSUME RulesInv, CR!OnDeleteRuleConfirmed PROVE RulesInv'
<1> DEFINE c == CR!Call("delete", row.id, CR!None, CR!None)
<1>1. /\ page = "list" /\ row # CR!None /\ calls' = calls \cup {c} /\ CR!Wait
      /\ UNCHANGED <<rule, created, page, row, action, initialValues, values, period,
                     dataFilterEnabled, groupByEnabled, loadingNotifications, touched, edits>>
    BY DEF CR!OnDeleteRuleConfirmed, CR!form, CR!types
<1>2. RulesTyped /\ KnownRules' = KnownRules /\ RuleCalls' = RuleCalls
    BY <1>1, RulesSame DEF RulesInv
<1>3. row.id \in 0 .. created
    BY <1>1, <1>2 DEF RulesTyped, KnownRules
<1>4. c \in RuleCalls /\ c.step = "delete"
    BY <1>3, RuleCallIs
<1> HIDE DEF c
<1>5. saved' \in CR!Contents \cup {CR!None}
    BY <1>1, <1>2, RulesWaits, CarelessIs DEF RulesTyped
<1>6. RulesTyped'
    BY <1>1, <1>2, <1>4, <1>5 DEF RulesTyped, Untouched
<1>7. ASSUME saved' # CR!Careless PROVE RulesCareful'
  <2>1. saved' = saved /\ \A d \in calls : d.step \in {"list", "get"}
    BY <1>1, <1>7, RulesWaits
  <2>2. RulesCareful
    BY <1>7, <2>1 DEF RulesInv
  <2>3. \A d \in calls' : CallCareful(d)'
    BY <1>1, <1>4, <2>2 DEF RulesCareful, CallCareful, IsRule
  <2> QED
    BY <1>1, <1>4, <2>1, <2>2, <2>3 DEF RulesCareful, IsRule, FormCareful
<1> QED
    BY <1>6, <1>7 DEF RulesInv

\* The list is mounted over the rule as it is, and nothing else waits, or nothing is claimed.
LEMMA ListMounted ==
    ASSUME RulesTyped, NEW sent \in SUBSET calls, CR!MountList(sent, rule'),
           created' \in 0 .. MaxRules, 0 \in 0 .. created',
           KnownRules \subseteq KnownRules', RuleCalls \subseteq RuleCalls',
           rule' \in KnownRules' \cup {CR!None}, rule' # CR!None => rule'.id # 0,
           edits' = edits, saved' \in CR!Contents \cup {CR!None},
           saved' # CR!Careless =>
               /\ rule' = CR!None => saved' = CR!None
               /\ rule' # CR!None => saved' \in CR!Contents /\ Matches(rule'.content, saved')
               /\ \A c \in sent : c.step \in {"list", "get"}
    PROVE  RulesInv'
<1> DEFINE c == CR!Call("list", 0, rule', CR!None)
<1>1. /\ page' = "list" /\ row' = CR!None /\ action' = "Create" /\ initialValues' = CR!Default
      /\ values' = CR!Default /\ period' = 1 /\ dataFilterEnabled' \in BOOLEAN
      /\ groupByEnabled' \in BOOLEAN /\ loadingNotifications' \in BOOLEAN /\ touched' = {}
      /\ calls' = CR!Outlive(sent) \cup {c}
    BY DEF CR!MountList
<1>2. c \in RuleCalls' /\ c.step = "list" /\ c.body = rule'
    BY DEF CR!Call, RuleCalls
<1> HIDE DEF c
<1>3. CR!Default \in KnownRules /\ 1 \in CR!Edits
    BY DefaultIsKnown
<1>4. RulesTyped'
    BY <1>1, <1>2, <1>3, Outlives DEF RulesTyped
<1>5. ASSUME saved' # CR!Careless PROVE RulesCareful'
  <2>1. calls' = {c}
    BY <1>1, <1>5, Outlives
  <2> QED
    BY <1>1, <1>2, <1>5, <2>1 DEF RulesCareful, CallCareful, FormCareful, IsRule, Matches
<1> QED
    BY <1>4, <1>5 DEF RulesInv

LEMMA RuleCancelled == ASSUME RulesInv, CR!Cancel PROVE RulesInv'
<1>1. CR!MountList(calls, rule) /\ CR!Wait /\ UNCHANGED <<rule, created, edits>>
    BY DEF CR!Cancel
<1>2. RulesTyped /\ KnownRules' = KnownRules /\ RuleCalls' = RuleCalls
    BY <1>1, RulesSame DEF RulesInv
<1>3. /\ created \in 0 .. MaxRules /\ 0 \in 0 .. created
      /\ rule \in KnownRules \cup {CR!None} /\ (rule # CR!None => rule.id # 0)
    BY <1>2, MCPagesAssumption DEF RulesTyped
<1>4. saved' \in CR!Contents \cup {CR!None}
    BY <1>1, <1>2, RulesWaits, CarelessIs DEF RulesTyped
<1>5. saved' # CR!Careless =>
          /\ rule = CR!None => saved' = CR!None
          /\ rule # CR!None => saved' \in CR!Contents /\ Matches(rule.content, saved')
          /\ \A c \in calls : c.step \in {"list", "get"}
    BY <1>1, RulesWaits DEF RulesInv, RulesCareful
<1> QED
    BY <1>1, <1>2, <1>3, <1>4, <1>5, ListMounted

\* The user changes a part, or shows or hides it.
LEMMA RuleEdited ==
    ASSUME RulesInv, NEW changed \in CR!Parts, CR!Change(changed, values'), values' \in KnownRules,
           values'.id = values.id, period' \in CR!Edits, dataFilterEnabled' \in BOOLEAN,
           groupByEnabled' \in BOOLEAN,
           changed # "window" => values'.content.window = values.content.window,
           changed # "field" => values'.content.field = values.content.field
                              /\ groupByEnabled' = groupByEnabled,
           changed # "conditions" => values'.content.conditions = values.content.conditions
                                   /\ dataFilterEnabled' = dataFilterEnabled
    PROVE  RulesInv'
<1>1. /\ page = "form" /\ edits < ManyEdits /\ edits' = edits + 1
      /\ touched' = touched \cup {changed}
      /\ UNCHANGED <<rule, created, page, row, action, initialValues, loadingNotifications,
                     calls, saved>>
    BY DEF CR!Change
<1>2. RulesTyped /\ KnownRules' = KnownRules /\ RuleCalls' = RuleCalls
    BY <1>1, RulesSame DEF RulesInv
<1>3. edits' \in 0 .. ManyEdits
    BY <1>1, <1>2, MCPagesAssumption DEF RulesTyped
<1>4. RulesTyped'
    BY <1>1, <1>2, <1>3 DEF RulesTyped
<1>5. ASSUME saved' # CR!Careless PROVE RulesCareful'
  <2>1. RulesCareful
    BY <1>1, <1>5 DEF RulesInv
  <2>2. IsRule(values)' => IsRule(values)
    BY <1>1, <1>2, RecordsAreNotNone DEF IsRule, RulesTyped
  <2>3. FormCareful'
    BY <1>1, <2>1, <2>2 DEF RulesCareful, FormCareful, CR!Parts
  <2> QED
    BY <1>1, <2>1, <2>3 DEF RulesCareful, CallCareful, IsRule
<1> QED
    BY <1>4, <1>5 DEF RulesInv

LEMMA RuleEdits ==
    ASSUME RulesInv,
           \/ CR!EditWindow \/ CR!EditConditions \/ CR!EditField
           \/ CR!ToggleDataFilter \/ CR!ToggleGroupBy
    PROVE  RulesInv'
<1>1. /\ RulesTyped /\ period \in CR!Edits /\ dataFilterEnabled \in BOOLEAN
      /\ groupByEnabled \in BOOLEAN /\ values \in KnownRules
    BY DEF RulesInv, RulesTyped
<1>2. edits < ManyEdits => edits + 2 \in CR!Edits /\ 0 \in CR!Edits
    BY <1>1, MCPagesAssumption DEF CR!Edits, RulesTyped
<1>3. CASE CR!EditWindow
  <2>1. /\ CR!Change("window", [values EXCEPT !.content.window = edits + 2])
        /\ period' = edits + 2 /\ UNCHANGED <<dataFilterEnabled, groupByEnabled>>
    BY <1>3 DEF CR!EditWindow
  <2>2. edits < ManyEdits /\ values' = [values EXCEPT !.content.window = edits + 2]
    BY <2>1 DEF CR!Change
  <2>3. /\ values' \in KnownRules /\ values'.id = values.id
        /\ values'.content.conditions = values.content.conditions
        /\ values'.content.field = values.content.field
    BY <1>1, <1>2, <2>2 DEF KnownRules, CR!Contents
  <2>4. CR!Change("window", values') /\ "window" \in CR!Parts
    BY <2>1, <2>2 DEF CR!Parts
  <2> QED
    BY <1>1, <1>2, <2>1, <2>2, <2>3, <2>4, RuleEdited
<1>4. CASE CR!EditConditions
  <2>1. PICK conditions \in {<<edits + 2, "plain">>, <<edits + 2, "colon">>,
                             CR!NoConditions, CR!BlankConditions} :
            CR!Change("conditions", [values EXCEPT !.content.conditions = conditions])
            /\ UNCHANGED <<period, dataFilterEnabled, groupByEnabled>>
    BY <1>4 DEF CR!EditConditions, CR!types
  <2>2. edits < ManyEdits /\ values' = [values EXCEPT !.content.conditions = conditions]
    BY <2>1 DEF CR!Change
  <2>3. conditions \in CR!Conditions
    BY <1>2, <2>2 DEF CR!Conditions, CR!NoConditions, CR!BlankConditions
  <2>4. /\ values' \in KnownRules /\ values'.id = values.id
        /\ values'.content.window = values.content.window
        /\ values'.content.field = values.content.field
    BY <1>1, <1>2, <2>2, <2>3 DEF KnownRules, CR!Contents
  <2>5. CR!Change("conditions", values') /\ "conditions" \in CR!Parts
    BY <2>1, <2>2 DEF CR!Parts
  <2> QED
    BY <1>1, <2>1, <2>4, <2>5, RuleEdited
<1>5. CASE CR!EditField
  <2>1. PICK field \in {0, edits + 2} :
            CR!Change("field", [values EXCEPT !.content.field = field])
            /\ UNCHANGED <<period, dataFilterEnabled, groupByEnabled>>
    BY <1>5 DEF CR!EditField, CR!types
  <2>2. edits < ManyEdits /\ values' = [values EXCEPT !.content.field = field]
    BY <2>1 DEF CR!Change
  <2>3. /\ values' \in KnownRules /\ values'.id = values.id
        /\ values'.content.window = values.content.window
        /\ values'.content.conditions = values.content.conditions
    BY <1>1, <1>2, <2>1, <2>2 DEF KnownRules, CR!Contents
  <2>4. CR!Change("field", values') /\ "field" \in CR!Parts
    BY <2>1, <2>2 DEF CR!Parts
  <2> QED
    BY <1>1, <2>1, <2>3, <2>4, RuleEdited
<1>6. CASE CR!ToggleDataFilter
  <2>1. /\ CR!Change("conditions", values) /\ dataFilterEnabled' = ~dataFilterEnabled
        /\ UNCHANGED <<period, groupByEnabled>>
    BY <1>6 DEF CR!ToggleDataFilter
  <2>2. values' = values /\ dataFilterEnabled' \in BOOLEAN /\ "conditions" \in CR!Parts
    BY <2>1 DEF CR!Change, CR!Parts
  <2> QED
    BY <1>1, <2>1, <2>2, RuleEdited
<1>7. CASE CR!ToggleGroupBy
  <2>1. /\ CR!Change("field", values) /\ groupByEnabled' = ~groupByEnabled
        /\ UNCHANGED <<period, dataFilterEnabled>>
    BY <1>7 DEF CR!ToggleGroupBy
  <2>2. values' = values /\ groupByEnabled' \in BOOLEAN /\ "field" \in CR!Parts
    BY <2>1 DEF CR!Change, CR!Parts
  <2> QED
    BY <1>1, <2>1, <2>2, RuleEdited
<1> QED
    BY <1>3, <1>4, <1>5, <1>6, <1>7

\* What the user means by a form: the parts changed in it, and no others.
LEMMA MeantParts ==
    ASSUME NEW a \in CR!Contents, NEW b \in CR!Contents, NEW T
    PROVE  LET new == [p \in CR!Parts |-> IF p \in T THEN a[p] ELSE b[p]] IN
           /\ new \in CR!Contents
           /\ new.window = IF "window" \in T THEN a.window ELSE b.window
           /\ new.conditions = IF "conditions" \in T THEN a.conditions ELSE b.conditions
           /\ new.field = IF "field" \in T THEN a.field ELSE b.field
BY DEF CR!Contents, CR!Parts

LEMMA RuleSubmitted == ASSUME RulesInv, CR!Submit PROVE RulesInv'
<1> DEFINE step == IF action = "Edit" THEN "update" ELSE "create"
           c == CR!Call(step, values.id, CR!Submitted, CR!Meant)
<1>1. /\ page = "form" /\ calls' = calls \cup {c} /\ values' = CR!Submitted /\ CR!Wait
      /\ UNCHANGED <<rule, created, page, row, action, initialValues, period, dataFilterEnabled,
                     groupByEnabled, loadingNotifications, edits, touched>>
    BY DEF CR!Submit, CR!types
<1>2. RulesTyped /\ KnownRules' = KnownRules /\ RuleCalls' = RuleCalls
    BY <1>1, RulesSame DEF RulesInv
<1>3. /\ CR!Submitted \in KnownRules /\ CR!Submitted.id = values.id
      /\ CR!Submitted.content \in CR!Contents
      /\ CR!Submitted.content.window = values.content.window
      /\ CR!Submitted.content.field = IF groupByEnabled THEN values.content.field ELSE 0
      /\ CR!Submitted.content.conditions =
            IF dataFilterEnabled THEN values.content.conditions ELSE CR!NoConditions
    BY <1>2, SubmittedIs
<1>4. CR!Meant \in CR!Contents \cup {CR!None}
    BY <1>2, <1>3, CarelessIs, MeantParts DEF CR!Meant, RulesTyped
<1>5. values.id \in 0 .. created
    BY <1>2 DEF RulesTyped, KnownRules
<1>6. /\ c \in RuleCalls /\ c.step = step /\ c.id = values.id /\ c.body = CR!Submitted
      /\ c.meant = CR!Meant /\ step \in {"create", "update"}
      /\ step = "update" <=> action = "Edit"
    BY <1>3, <1>4, <1>5, RuleCallIs
<1> HIDE DEF c, step
<1>7. saved' \in CR!Contents \cup {CR!None}
    BY <1>1, <1>2, RulesWaits, CarelessIs DEF RulesTyped
<1>8. touched = {} => Untouched'
  <2> SUFFICES ASSUME touched = {} PROVE Untouched'
    OBVIOUS
  <2>1. Untouched
    BY <1>1, <1>2 DEF RulesTyped
  <2>2. CR!Submitted = values
    <3>1. values \in KnownRules
      BY <1>2 DEF RulesTyped
    <3>2. /\ CR!Submitted.content.field = values.content.field
          /\ CR!Submitted.content.conditions = values.content.conditions
      BY <1>3, <2>1 DEF Untouched
    <3>3. CR!Submitted.content = values.content
      BY <1>3, <3>1, <3>2, SameContent DEF KnownRules
    <3> QED
      BY <1>3, <3>1, <3>3 DEF KnownRules
  <2> QED
    BY <1>1, <2>1, <2>2 DEF Untouched
<1>9. RulesTyped'
    BY <1>1, <1>2, <1>3, <1>6, <1>7, <1>8 DEF RulesTyped
<1>10. ASSUME saved' # CR!Careless PROVE RulesCareful'
  <2>1. saved' = saved /\ \A d \in calls : d.step \in {"list", "get"}
    BY <1>1, <1>10, RulesWaits
  <2>2. RulesCareful
    BY <1>10, <2>1 DEF RulesInv
  <2>3. ASSUME action = "Edit", rule # CR!None, values.id = rule.id
        PROVE  CR!Meant \in CR!Contents /\ Matches(CR!Submitted.content, CR!Meant)
    <3>1. saved \in CR!Contents /\ saved \notin {CR!None, CR!Careless}
      BY <1>10, <2>1, <2>2, <2>3, RecordsAreNotNone DEF RulesCareful
    <3>2. CR!Meant = [p \in CR!Parts |-> IF p \in touched THEN CR!Submitted.content[p]
                                                         ELSE saved[p]]
      BY <2>3, <3>1 DEF CR!Meant
    <3>3. IsRule(values)
      BY <1>2, <2>3, RecordsAreNotNone DEF IsRule, RulesTyped
    <3>4. /\ "window" \in touched \/ CR!Submitted.content.window = saved.window
          /\ "field" \in touched \/ CR!Submitted.content.field = saved.field
          /\ "conditions" \in touched
             \/ SameOrCut(CR!Submitted.content.conditions, saved.conditions)
      BY <1>1, <1>3, <2>2, <2>3, <3>3 DEF RulesCareful, FormCareful
    <3> QED
      BY <1>3, <3>1, <3>2, <3>4, MeantParts DEF Matches, SameOrCut
  <2>4. action # "Edit" => CR!Meant = CR!Submitted.content
    BY <1>2 DEF CR!Meant, RulesTyped
  <2>5. /\ c.step = "create" => c.meant = c.body.content
        /\ c.step = "update" /\ rule # CR!None /\ c.id = rule.id =>
              c.meant \in CR!Contents /\ Matches(c.body.content, c.meant)
    BY <1>6, <2>3, <2>4
  <2>6. \A d \in calls' : CallCareful(d)'
    BY <1>1, <1>6, <2>2, <2>5 DEF RulesCareful, CallCareful, IsRule, Matches
  <2>7. FormCareful'
    BY <1>1, <1>2, <1>3, <2>1, <2>2, RecordsAreNotNone
    DEF RulesCareful, FormCareful, IsRule, RulesTyped
  <2> QED
    BY <1>1, <1>6, <2>1, <2>2, <2>6, <2>7 DEF RulesCareful, IsRule, Matches
<1> QED
    BY <1>9, <1>10 DEF RulesInv

LEMMA RuleGotChannels == ASSUME RulesInv, CR!GotChannels PROVE RulesInv'
<1>1. /\ page = "form" /\ loadingNotifications' = FALSE
      /\ period' = initialValues.content.window
      /\ dataFilterEnabled' = (initialValues.content.conditions # CR!NoConditions)
      /\ groupByEnabled' = (initialValues.content.field # 0)
      /\ saved' = (IF touched = {} THEN saved ELSE CR!Careless)
      /\ UNCHANGED <<rule, created, page, row, action, initialValues, values, calls, edits,
                     touched>>
    BY DEF CR!GotChannels, CR!Effect
<1>2. RulesTyped /\ KnownRules' = KnownRules /\ RuleCalls' = RuleCalls
    BY <1>1, RulesSame DEF RulesInv
<1>3. period' \in CR!Edits /\ dataFilterEnabled' \in BOOLEAN /\ groupByEnabled' \in BOOLEAN
    BY <1>1, <1>2 DEF RulesTyped, KnownRules, CR!Contents
<1>4. saved' \in CR!Contents \cup {CR!None}
    BY <1>1, <1>2, CarelessIs DEF RulesTyped
<1>5. touched = {} => Untouched'
    BY <1>1, <1>2 DEF RulesTyped, Untouched
<1>6. RulesTyped'
    BY <1>1, <1>2, <1>3, <1>4, <1>5 DEF RulesTyped
<1>7. ASSUME saved' # CR!Careless PROVE RulesCareful'
  <2>1. touched = {} /\ saved' = saved /\ RulesCareful
    BY <1>1, <1>7 DEF RulesInv
  <2>2. Untouched
    BY <1>1, <1>2, <2>1 DEF RulesTyped
  <2>3. dataFilterEnabled' = dataFilterEnabled /\ groupByEnabled' = groupByEnabled
    BY <1>1, <2>2 DEF Untouched
  <2> QED
    BY <1>1, <2>1, <2>3 DEF RulesCareful, CallCareful, IsRule, FormCareful
<1> QED
    BY <1>6, <1>7 DEF RulesInv

LEMMA RuleCallAbout ==
    ASSUME RulesTyped, NEW c \in calls
    PROVE  /\ c \in RuleCalls /\ c.id \in 0 .. created /\ c.body \in KnownRules \cup {CR!None}
           /\ c.meant \in CR!Contents \cup {CR!None}
           /\ c.step \in {"list", "get", "create", "update", "delete"}
           /\ c.step = "delete" => c.body = CR!None /\ c.meant = CR!None
           /\ c.step \in {"create", "update"} => c.body \in KnownRules
           /\ c.step = "update" => c.body.id = c.id
BY DEF RulesTyped, RuleCalls

\* What a load brings was the rule when it was sent, or is the rule, or nothing.
LEMMA RuleFound ==
    ASSUME RulesTyped, NEW body \in KnownRules \cup {CR!None},
           NEW found \in {CR!Read(body), CR!Read(rule), CR!None},
           saved # CR!Careless /\ IsRule(body) => body = rule
    PROVE  /\ found \in KnownRules \cup {CR!None}
           /\ saved # CR!Careless /\ IsRule(found) => found = CR!Read(rule)
<1>1. \A r \in KnownRules \cup {CR!None} :
          CR!Read(r) \in KnownRules \cup {CR!None}
          /\ (CR!Read(r) # CR!None => r # CR!None /\ CR!Read(r).id = r.id)
  <2>1. CR!Read(CR!None) = CR!None
    BY DEF CR!Read
  <2> QED
    BY <2>1, ReadIs
<1>2. rule \in KnownRules \cup {CR!None}
    BY DEF RulesTyped
<1> QED
    BY <1>1, <1>2 DEF IsRule

\* A load, or a refused deletion, changes nothing but what waits and, perhaps, the row.
LEMMA RuleCallDropped ==
    ASSUME RulesInv, NEW c \in calls, calls' = calls \ {c},
           UNCHANGED <<rule, created, page, action, initialValues, values, period,
                       dataFilterEnabled, groupByEnabled, loadingNotifications, touched, edits,
                       saved>>,
           row' \in KnownRules \cup {CR!None},
           saved # CR!Careless /\ IsRule(row') => row' = CR!Read(rule)
    PROVE  RulesInv'
<1>1. RulesTyped /\ KnownRules' = KnownRules /\ RuleCalls' = RuleCalls
    BY RulesSame DEF RulesInv
<1>2. RulesTyped'
    BY <1>1 DEF RulesTyped, Untouched
<1>3. ASSUME saved' # CR!Careless PROVE RulesCareful'
  <2>1. RulesCareful
    BY <1>3 DEF RulesInv
  <2> QED
    BY <1>3, <2>1 DEF RulesCareful, CallCareful, IsRule, FormCareful
<1> QED
    BY <1>2, <1>3 DEF RulesInv

LEMMA RulesLoaded == ASSUME RulesInv, NEW c \in calls, CR!GotRules(c) PROVE RulesInv'
<1>1. /\ c.step = "list" /\ row' \in {CR!Read(c.body), CR!Read(rule), CR!None}
      /\ calls' = calls \ {c}
      /\ UNCHANGED <<rule, created, page, action, initialValues, values, period,
                     dataFilterEnabled, groupByEnabled, loadingNotifications, touched, edits,
                     saved>>
    BY DEF CR!GotRules, CR!Done, CR!form, CR!types
<1>2. c.body \in KnownRules \cup {CR!None} /\ RulesTyped
    BY RuleCallAbout DEF RulesInv
<1>3. saved # CR!Careless /\ IsRule(c.body) => c.body = rule
    BY <1>1 DEF RulesInv, RulesCareful, CallCareful
<1> QED
    BY <1>1, <1>2, <1>3, RuleFound, RuleCallDropped

LEMMA RuleLoadLost == ASSUME RulesInv, NEW c \in calls, CR!LoadLost(c) PROVE RulesInv'
<1>1. /\ calls' = calls \ {c}
      /\ UNCHANGED <<rule, created, page, row, action, initialValues, values, period,
                     dataFilterEnabled, groupByEnabled, loadingNotifications, touched, edits,
                     saved>>
    BY DEF CR!LoadLost, CR!Done, CR!form, CR!types
<1>2. row' \in KnownRules \cup {CR!None}
      /\ (saved # CR!Careless /\ IsRule(row') => row' = CR!Read(rule))
    BY <1>1 DEF RulesInv, RulesTyped, RulesCareful
<1> QED
    BY <1>1, <1>2, RuleCallDropped

LEMMA RuleLoaded == ASSUME RulesInv, NEW c \in calls, CR!GotRule(c) PROVE RulesInv'
<1>1. PICK found \in {CR!Read(c.body), CR!Read(rule), CR!None} :
          IF found = CR!None
          THEN UNCHANGED <<initialValues, values, period, dataFilterEnabled, groupByEnabled,
                           saved>>
          ELSE /\ initialValues' = found /\ values' = found /\ CR!Effect(found)
               /\ saved' = IF touched = {} THEN saved ELSE CR!Careless
    BY DEF CR!GotRule, CR!types
<1>2. /\ c.step = "get" /\ calls' = calls \ {c}
      /\ UNCHANGED <<rule, created, page, row, action, loadingNotifications, edits, touched>>
    BY DEF CR!GotRule, CR!Done
<1>3. /\ RulesTyped /\ KnownRules' = KnownRules /\ RuleCalls' = RuleCalls
      /\ c.body \in KnownRules \cup {CR!None}
    BY <1>2, RuleCallAbout, RulesSame DEF RulesInv
<1>4. saved # CR!Careless /\ IsRule(c.body) => c.body = rule
    BY <1>2 DEF RulesInv, RulesCareful, CallCareful
<1>5. /\ found \in KnownRules \cup {CR!None}
      /\ saved # CR!Careless /\ IsRule(found) => found = CR!Read(rule)
    BY <1>3, <1>4, RuleFound
<1>6. CASE found = CR!None
  <2>1. row' \in KnownRules \cup {CR!None}
        /\ (saved # CR!Careless /\ IsRule(row') => row' = CR!Read(rule))
    BY <1>2 DEF RulesInv, RulesTyped, RulesCareful
  <2> QED
    BY <1>1, <1>2, <1>6, <2>1, RuleCallDropped
<1>7. CASE found # CR!None
  <2>1. /\ initialValues' = found /\ values' = found /\ CR!Effect(found)
        /\ saved' = (IF touched = {} THEN saved ELSE CR!Careless) /\ found \in KnownRules
    BY <1>1, <1>5, <1>7
  <2>2. /\ period' = found.content.window
        /\ dataFilterEnabled' = (found.content.conditions # CR!NoConditions)
        /\ groupByEnabled' = (found.content.field # 0)
    BY <2>1 DEF CR!Effect
  <2>3. period' \in CR!Edits /\ dataFilterEnabled' \in BOOLEAN /\ groupByEnabled' \in BOOLEAN
    BY <2>1, <2>2 DEF KnownRules, CR!Contents
  <2>4. Untouched'
    BY <2>1, <2>2 DEF Untouched
  <2>5. saved' \in CR!Contents \cup {CR!None}
    BY <1>3, <2>1, CarelessIs DEF RulesTyped
  <2>6. RulesTyped'
    BY <1>2, <1>3, <2>1, <2>3, <2>4, <2>5 DEF RulesTyped
  <2>7. ASSUME saved' # CR!Careless PROVE RulesCareful'
    <3>1. touched = {} /\ saved' = saved /\ RulesCareful
      BY <2>1, <2>7 DEF RulesInv
    <3>2. page' = "form" /\ touched' = {} /\ CR!Effect(values') /\ initialValues' = values'
      BY <1>2, <2>1, <3>1 DEF RulesCareful, CallCareful
    <3>3. action' = "Edit" => (IsRule(values') => values' = CR!Read(rule))
      BY <1>5, <2>1, <2>7, <3>1
    <3>4. rule # CR!None => Matches(rule.content, saved)
      BY <3>1 DEF RulesCareful
    <3>5. FormCareful'
      BY <1>2, <1>3, <2>6, <3>1, <3>2, <3>3, <3>4, FormStarts
    <3> QED
      BY <1>2, <3>1, <3>5 DEF RulesCareful, CallCareful, IsRule, Matches
  <2> QED
    BY <2>6, <2>7 DEF RulesInv
<1> QED
    BY <1>6, <1>7

LEMMA RuleWrites ==
    ASSUME RulesTyped, NEW c \in calls, CR!Writes(c)
    PROVE  /\ created' \in 0 .. MaxRules /\ 0 \in 0 .. created'
           /\ KnownRules \subseteq KnownRules' /\ RuleCalls \subseteq RuleCalls'
           /\ rule' \in KnownRules' \cup {CR!None} /\ (rule' # CR!None => rule'.id # 0)
           /\ c.step \in {"create", "update", "delete"}
           /\ \/ c.step = "create" /\ rule # CR!None /\ rule' = rule
              \/ c.step = "create" /\ rule = CR!None /\ rule'.content = c.body.content
                 /\ rule' # CR!None
              \/ c.step \in {"update", "delete"} /\ rule # CR!None /\ c.id = rule.id
                 /\ rule' = c.body
<1>1. /\ c.step \in {"create", "update"} => c.body \in KnownRules
      /\ c.step = "update" => c.body.id = c.id
      /\ c.step = "delete" => c.body = CR!None
    BY RuleCallAbout
<1>2. CASE c.step = "create" /\ created < MaxRules /\ created' = created + 1
           /\ rule' = IF rule = CR!None THEN [c.body EXCEPT !.id = created + 1] ELSE rule
  <2>1. /\ created' \in 0 .. MaxRules /\ created' \in 0 .. created' /\ created' # 0
        /\ KnownRules \subseteq KnownRules' /\ RuleCalls \subseteq RuleCalls'
    BY <1>2, RulesGrow
  <2>2. 0 \in 0 .. created'
    BY <2>1, MCPagesAssumption
  <2>3. CASE rule = CR!None
    <3>1. rule' = [c.body EXCEPT !.id = created'] /\ c.body \in KnownRules
      BY <1>1, <1>2, <2>3
    <3>2. rule' \in KnownRules' /\ rule'.id = created' /\ rule'.content = c.body.content
      BY <2>1, <3>1 DEF KnownRules
    <3>3. rule' # CR!None
      BY <3>1 DEF KnownRules, CR!None
    <3> QED
      BY <1>2, <2>1, <2>2, <2>3, <3>2, <3>3
  <2>4. CASE rule # CR!None
    <3>1. rule' = rule /\ rule \in KnownRules /\ rule.id # 0
      BY <1>2, <2>4 DEF RulesTyped
    <3> QED
      BY <1>2, <2>1, <2>2, <2>4, <3>1
  <2> QED
    BY <2>3, <2>4
<1>3. CASE rule # CR!None /\ c.id = rule.id /\ c.step \in {"update", "delete"}
           /\ rule' = c.body /\ created' = created
  <2>1. KnownRules' = KnownRules /\ RuleCalls' = RuleCalls
    BY <1>3, RulesSame
  <2>2. created \in 0 .. MaxRules /\ 0 \in 0 .. created /\ rule.id # 0
    BY <1>3, MCPagesAssumption DEF RulesTyped
  <2>3. rule' \in KnownRules \cup {CR!None} /\ (rule' # CR!None => rule'.id # 0)
    BY <1>1, <1>3, <2>2
  <2> QED
    BY <1>3, <2>1, <2>2, <2>3
<1> QED
    BY <1>2, <1>3 DEF CR!Writes

\* Where a write is answered: the form goes to the list, a deletion loads the list again.
LEMMA RuleAnswered ==
    ASSUME RulesInv, NEW c \in calls, c.step \in {"create", "update", "delete"}, CR!Goes(c),
           created' \in 0 .. MaxRules, 0 \in 0 .. created',
           KnownRules \subseteq KnownRules', RuleCalls \subseteq RuleCalls',
           rule' \in KnownRules' \cup {CR!None}, rule' # CR!None => rule'.id # 0,
           edits' = edits, saved' \in CR!Contents \cup {CR!None},
           c.step = "delete" => rule' \in {rule, CR!None},
           saved' # CR!Careless =>
               /\ saved # CR!Careless
               /\ rule' = CR!None => saved' = CR!None
               /\ rule' # CR!None => saved' \in CR!Contents /\ Matches(rule'.content, saved')
    PROVE  RulesInv'
<1>1. RulesTyped
    BY DEF RulesInv
<1>2. saved' # CR!Careless =>
          /\ \A d \in calls \ {c} : d.step \in {"list", "get"}
          /\ page = IF c.step = "delete" THEN "list" ELSE "form"
  <2> SUFFICES ASSUME saved' # CR!Careless
               PROVE  /\ \A d \in calls \ {c} : d.step \in {"list", "get"}
                      /\ page = IF c.step = "delete" THEN "list" ELSE "form"
    OBVIOUS
  <2>1. RulesCareful
    BY DEF RulesInv
  <2>2. page = IF c.step = "delete" THEN "list" ELSE "form"
    BY <2>1 DEF RulesCareful, CallCareful
  <2>3. \A d \in calls \ {c} : d.step \in {"list", "get"}
    BY <2>1 DEF RulesCareful
  <2> QED
    BY <2>2, <2>3
<1>3. CASE CR!MountList(calls \ {c}, rule')
  <2>1. calls \ {c} \in SUBSET calls
    OBVIOUS
  <2> QED
    BY <1>1, <1>2, <1>3, <2>1, ListMounted
<1>4. CASE /\ c.step = "delete" \/ page = "list"
           /\ CR!Done(c, IF c.step = "delete" /\ c.live
                         THEN {CR!Call("list", 0, rule', CR!None)} ELSE {})
           /\ UNCHANGED <<page, row, action, initialValues, values, period, dataFilterEnabled,
                          groupByEnabled, loadingNotifications, touched>>
  <2> DEFINE new == CR!Call("list", 0, rule', CR!None)
  <2>1. new \in RuleCalls' /\ new.step = "list" /\ new.body = rule'
    BY DEF CR!Call, RuleCalls
  <2> HIDE DEF new
  <2>2. calls' \subseteq (calls \ {c}) \cup {new}
    BY <1>4 DEF CR!Done, new
  <2>3. calls' \subseteq RuleCalls'
    BY <1>1, <2>1, <2>2 DEF RulesTyped
  <2>4. row \in KnownRules' \cup {CR!None} /\ initialValues \in KnownRules'
        /\ values \in KnownRules'
    BY <1>1 DEF RulesTyped
  <2>5. RulesTyped'
    BY <1>1, <1>4, <2>3, <2>4 DEF RulesTyped, Untouched
  <2>6. ASSUME saved' # CR!Careless PROVE RulesCareful'
    <3>1. c.step = "delete" /\ page = "list" /\ RulesCareful
      BY <1>2, <1>4, <2>6 DEF RulesInv
    <3>2. \A d \in calls' : d.step \in {"list", "get"}
      BY <1>2, <2>1, <2>2, <2>6
    <3>3. rule' \in {rule, CR!None}
      BY <3>1
    <3>4. \A d \in calls' : CallCareful(d)'
      BY <1>4, <2>1, <2>2, <3>1, <3>2, <3>3 DEF RulesCareful, CallCareful, IsRule
    <3>5. IsRule(row)' => row' = CR!Read(rule')
      BY <1>4, <3>1, <3>3 DEF RulesCareful, IsRule
    <3>6. FormCareful'
      BY <1>4, <3>1 DEF FormCareful
    <3> QED
      BY <2>6, <3>2, <3>4, <3>5, <3>6 DEF RulesCareful, Matches, CR!Read
  <2> QED
    BY <2>5, <2>6 DEF RulesInv
<1> QED
    BY <1>3, <1>4 DEF CR!Goes, CR!form, CR!types

LEMMA RuleWritten == ASSUME RulesInv, NEW c \in calls, CR!Written(c) PROVE RulesInv'
<1>1. /\ CR!Writes(c) /\ CR!Goes(c) /\ edits' = edits
      /\ saved' = IF saved = CR!Careless \/ (c.step = "create" /\ rule # CR!None)
                  THEN saved ELSE c.meant
    BY DEF CR!Written
<1>2. RulesTyped
    BY DEF RulesInv
<1>3. c.meant \in CR!Contents \cup {CR!None} /\ saved \in CR!Contents \cup {CR!None}
      /\ (c.step = "delete" => c.body = CR!None /\ c.meant = CR!None)
      /\ (c.step \in {"create", "update"} => c.body \in KnownRules)
    BY <1>2, RuleCallAbout DEF RulesTyped
<1>4. saved' # CR!Careless =>
          /\ saved # CR!Careless
          /\ rule' = CR!None => saved' = CR!None
          /\ rule' # CR!None => saved' \in CR!Contents /\ Matches(rule'.content, saved')
  <2> SUFFICES ASSUME saved' # CR!Careless
               PROVE  /\ saved # CR!Careless
                      /\ rule' = CR!None => saved' = CR!None
                      /\ rule' # CR!None =>
                            saved' \in CR!Contents /\ Matches(rule'.content, saved')
    OBVIOUS
  <2>1. saved # CR!Careless /\ RulesCareful
    BY <1>1 DEF RulesInv
  <2>2. CASE c.step = "create" /\ rule # CR!None /\ rule' = rule
    BY <1>1, <2>1, <2>2 DEF RulesCareful
  <2>3. CASE c.step = "create" /\ rule = CR!None /\ rule'.content = c.body.content
             /\ rule' # CR!None
    <3>1. saved' = c.body.content
      BY <1>1, <2>1, <2>3 DEF RulesCareful, CallCareful
    <3>2. c.body.content \in CR!Contents
      BY <1>3, <2>3 DEF KnownRules
    <3> QED
      BY <2>1, <2>3, <3>1, <3>2 DEF Matches, SameOrCut
  <2>4. CASE c.step = "update" /\ rule # CR!None /\ c.id = rule.id /\ rule' = c.body
    <3>1. c.meant \in CR!Contents /\ Matches(c.body.content, c.meant)
      BY <2>1, <2>4 DEF RulesCareful, CallCareful
    <3> QED
      BY <1>1, <1>3, <2>1, <2>4, <3>1, RecordsAreNotNone
  <2>5. CASE c.step = "delete" /\ rule' = c.body
    BY <1>1, <1>3, <2>1, <2>5
  <2> QED
    BY <1>1, <1>2, <2>2, <2>3, <2>4, <2>5, RuleWrites
<1>5. c.step = "delete" => rule' \in {rule, CR!None}
    BY <1>1, <1>2, <1>3, RuleWrites
<1>6. saved' \in CR!Contents \cup {CR!None}
    BY <1>1, <1>3
<1> QED
    BY <1>1, <1>2, <1>4, <1>5, <1>6, RuleWrites, RuleAnswered

LEMMA RuleRefused == ASSUME RulesInv, NEW c \in calls, CR!Refused(c) PROVE RulesInv'
<1>1. RulesTyped /\ UNCHANGED <<created, edits, saved>>
    BY DEF RulesInv, CR!Refused
<1>2. /\ KnownRules' = KnownRules /\ RuleCalls' = RuleCalls
      /\ created \in 0 .. MaxRules /\ 0 \in 0 .. created
      /\ rule \in KnownRules \cup {CR!None} /\ (rule # CR!None => rule.id # 0)
      /\ saved \in CR!Contents \cup {CR!None}
    BY <1>1, RulesSame, MCPagesAssumption DEF RulesTyped
<1>3. saved # CR!Careless =>
          /\ rule = CR!None => saved = CR!None
          /\ rule # CR!None => saved \in CR!Contents /\ Matches(rule.content, saved)
    BY DEF RulesInv, RulesCareful
<1>4. CASE c.step \in {"create", "update"} /\ UNCHANGED rule /\ CR!Goes(c)
    BY <1>1, <1>2, <1>3, <1>4, RuleAnswered
<1>5. CASE c.step = "delete" /\ CR!Done(c, {}) /\ UNCHANGED <<rule, page, row, CR!form>>
  <2>1. /\ calls' = calls \ {c}
        /\ UNCHANGED <<rule, page, row, action, initialValues, values, period,
                       dataFilterEnabled, groupByEnabled, loadingNotifications, touched>>
    BY <1>5 DEF CR!Done, CR!form, CR!types
  <2>2. row' \in KnownRules \cup {CR!None}
        /\ (saved # CR!Careless /\ IsRule(row') => row' = CR!Read(rule))
    BY <1>1, <2>1 DEF RulesInv, RulesTyped, RulesCareful
  <2> QED
    BY <1>1, <2>1, <2>2, RuleCallDropped
<1> QED
    BY <1>4, <1>5 DEF CR!Refused

LEMMA RuleAnswerLost == ASSUME RulesInv, NEW c \in calls, CR!Lost(c) PROVE RulesInv'
<1>1. /\ CR!Writes(c) \/ UNCHANGED <<rule, created>>
      /\ calls' = calls \ {c} /\ saved' = CR!Careless
      /\ UNCHANGED <<page, row, action, initialValues, values, period, dataFilterEnabled,
                     groupByEnabled, loadingNotifications, touched, edits>>
    BY DEF CR!Lost, CR!Done, CR!form, CR!types
<1>2. RulesTyped
    BY DEF RulesInv
<1>3. /\ created' \in 0 .. MaxRules
      /\ KnownRules \subseteq KnownRules' /\ RuleCalls \subseteq RuleCalls'
      /\ rule' \in KnownRules' \cup {CR!None} /\ (rule' # CR!None => rule'.id # 0)
  <2>1. CASE CR!Writes(c)
    BY <1>2, <2>1, RuleWrites
  <2>2. CASE UNCHANGED <<rule, created>>
    BY <1>2, <2>2, RulesSame DEF RulesTyped
  <2> QED
    BY <1>1, <2>1, <2>2
<1>4. row \in KnownRules' \cup {CR!None} /\ initialValues \in KnownRules'
      /\ values \in KnownRules' /\ calls' \subseteq RuleCalls'
    BY <1>1, <1>2, <1>3 DEF RulesTyped
<1>5. RulesTyped'
    BY <1>1, <1>2, <1>3, <1>4, CarelessIs DEF RulesTyped, Untouched
<1> QED
    BY <1>1, <1>5 DEF RulesInv

LEMMA RulesStep == ASSUME RulesInv, CR!Next PROVE RulesInv'
<1>1. CASE CR!CreateRule \/ CR!OnRuleNameClick \/ CR!VisitEdit
    BY <1>1, RuleFormOpens
<1>2. CASE CR!Cancel
    BY <1>2, RuleCancelled
<1>3. CASE CR!OnDeleteRuleConfirmed
    BY <1>3, RulesDeletes
<1>4. CASE \/ CR!EditWindow \/ CR!EditConditions \/ CR!EditField
           \/ CR!ToggleDataFilter \/ CR!ToggleGroupBy
    BY <1>4, RuleEdits
<1>5. CASE CR!Submit
    BY <1>5, RuleSubmitted
<1>6. CASE CR!GotChannels
    BY <1>6, RuleGotChannels
<1>7. ASSUME NEW c \in calls,
             \/ CR!GotRules(c) \/ CR!GotRule(c) \/ CR!LoadLost(c)
             \/ CR!Written(c) \/ CR!Refused(c) \/ CR!Lost(c)
      PROVE  RulesInv'
    BY <1>7, RulesLoaded, RuleLoaded, RuleLoadLost, RuleWritten, RuleRefused, RuleAnswerLost
<1> QED
    BY <1>1, <1>2, <1>3, <1>4, <1>5, <1>6, <1>7 DEF CR!Next

LEMMA RulesStutter ==
    ASSUME RulesInv,
           UNCHANGED <<rule, created, page, row, action, initialValues, values, period,
                       dataFilterEnabled, groupByEnabled, loadingNotifications, calls, edits,
                       touched, saved>>
    PROVE  RulesInv'
<1>1. RulesTyped /\ KnownRules' = KnownRules /\ RuleCalls' = RuleCalls
    BY RulesSame DEF RulesInv
<1>2. RulesTyped'
    BY <1>1 DEF RulesTyped, Untouched
<1>3. RulesCareful => RulesCareful'
    BY DEF RulesCareful, CallCareful, FormCareful, IsRule
<1> QED
    BY <1>2, <1>3 DEF RulesInv

\* Where conditions are not cut when they are read, what matches is what was meant.
LEMMA RulesInvKeeps == RulesInv => CR!PartsKept
<1> SUFFICES ASSUME RulesInv, saved # CR!Careless,
                    saved # CR!None => saved.conditions[2] \in {"none", "plain"}
             PROVE  (IF rule = CR!None THEN CR!None ELSE rule.content) = saved
    BY DEF CR!PartsKept
<1>1. RulesTyped /\ RulesCareful
    BY DEF RulesInv
<1>2. CASE rule = CR!None
    BY <1>1, <1>2 DEF RulesCareful
<1>3. CASE rule # CR!None
  <2>1. saved \in CR!Contents /\ Matches(rule.content, saved) /\ rule.content \in CR!Contents
    BY <1>1, <1>3 DEF RulesCareful, RulesTyped, KnownRules
  <2>2. saved.conditions[2] # "colon"
    BY <2>1, RecordsAreNotNone
  <2> QED
    BY <1>3, <2>1, <2>2, SameContent DEF Matches, SameOrCut
<1> QED
    BY <1>2, <1>3

LEMMA RulesIsTyped == RulesTyped => CR!TypeOK
<1> SUFFICES ASSUME RulesTyped PROVE CR!TypeOK
    OBVIOUS
<1>1. 0 .. created \subseteq 0 .. MaxRules
    BY MCPagesAssumption DEF RulesTyped
<1>2. KnownRules \subseteq CR!Rules
    BY <1>1 DEF KnownRules, CR!Rules
<1>3. calls \subseteq [step : {"list", "get", "create", "update", "delete"}, id : 0 .. MaxRules,
                       body : CR!Rules \cup {CR!None}, meant : CR!Contents \cup {CR!None},
                       live : BOOLEAN]
    BY <1>1, <1>2 DEF RulesTyped, RuleCalls
<1> QED
    BY <1>2, <1>3 DEF RulesTyped, CR!TypeOK

-----------------------------------------------------------------------------
(* A new threat intelligence source *)

NewSourceTyped ==
    /\ sourceType \in NS!Types /\ useCustomSchemaByType \subseteq NS!Types
    /\ valid \subseteq NS!Fields /\ customSchema \in NS!Schemas
    /\ inputErrors \subseteq NS!ErrorKeys
    /\ inputTouched \subseteq NS!Touches
    /\ fileUploadSource \in NS!Contents /\ customSchemaFileUploadSource \in NS!Contents
    /\ enabled \in BOOLEAN /\ submitInProgress \in BOOLEAN /\ fileOwn \in BOOLEAN
    /\ unread \in BOOLEAN /\ clobbered \in BOOLEAN /\ relaxed \in BOOLEAN
    /\ reads \subseteq [own : BOOLEAN, content : {"good", "empty", "bad"},
                       errors : SUBSET NS!ErrorKeys]
    /\ \A r \in reads : r.own => r.content # "bad"
    /\ schemaType \in NS!Types \cup {"none"} /\ changes \in 0 .. ManyEdits + 3

\* The error of a field stands for its value once it was touched; a schedule has a value.
FieldsChecked ==
    ~clobbered =>
        /\ \A f \in {"name"} \cup S3Fields :
              f \in inputTouched /\ f \notin inputErrors => f \in valid
        /\ "schedule" \notin inputErrors => "schedule" \in valid

\* So does that of the schema, where it was edited last.
SchemaChecked ==
    ~clobbered /\ ~relaxed =>
        /\ schemaType = "IOC_UPLOAD" /\ "fileSchema" \notin inputErrors => customSchema # "bad"
        /\ schemaType = "S3_CUSTOM" /\ "s3Schema" \notin inputErrors => customSchema # "bad"

\* A file of the kind that was chosen last was read and parses, or is still read.
FileChecked ==
    ~relaxed /\ "file" \notin inputErrors =>
        /\ fileOwn /\ ~unread /\ "customSchemaIocFileUpload" \in inputTouched =>
              customSchemaFileUploadSource \in {"good", "empty"} \/ \E r \in reads : r.own
        /\ ~fileOwn /\ "iocFileUpload" \in inputTouched =>
              fileUploadSource \in {"good", "empty"} \/ \E r \in reads : ~r.own

NewSourceInv == NewSourceTyped /\ FieldsChecked /\ SchemaChecked /\ FileChecked

\* The names of the S3 connection are none of the other names.
LEMMA FieldNames ==
    \A f \in S3Fields :
        f \notin {"name", "schedule", "customSchema", "s3Schema", "file", "fileSchema",
                  "iocFileUpload", "customSchemaIocFileUpload"}
BY MCPagesAssumption

LEMMA NewSourceInit == NS!Init => NewSourceInv
<1> SUFFICES ASSUME NS!Init PROVE NewSourceInv
    OBVIOUS
<1>1. 0 \in 0 .. ManyEdits + 3
    BY MCPagesAssumption
<1>2. NewSourceTyped
    BY <1>1 DEF NS!Init, NewSourceTyped, NS!Types, NS!Fields, NS!Contents, NS!Schemas
<1> QED
    BY <1>2 DEF NS!Init, NewSourceInv, FieldsChecked, SchemaChecked, FileChecked

LEMMA NewSourceActs ==
    ASSUME NewSourceTyped, NS!Acts PROVE changes' \in 0 .. ManyEdits + 3
BY MCPagesAssumption DEF NewSourceTyped, NS!Acts

LEMMA NewSourceFieldChanges ==
    ASSUME NewSourceInv, NEW f \in {"name", "schedule"} \cup S3Fields, NEW ok \in BOOLEAN,
           NS!OnFieldChange(f, ok)
    PROVE  NewSourceInv'
<1>1. /\ NS!Acts
      /\ valid' = (IF ok THEN valid \cup {f} ELSE valid \ {f})
      /\ inputErrors' = (IF ~ok THEN inputErrors \cup {f} ELSE inputErrors \ {f})
      /\ inputTouched' = inputTouched \cup {f}
      /\ UNCHANGED <<sourceType, customSchema, useCustomSchemaByType, enabled, schemaType, relaxed,
                     fileUploadSource, customSchemaFileUploadSource, reads, fileOwn, unread,
                     clobbered, submitInProgress>>
    BY DEF NS!OnFieldChange, NS!Set, NS!UploadKept, NS!SubmitKept
<1>2. f \in NS!Fields /\ f \in NS!ErrorKeys /\ f \in NS!Touches
    BY DEF NS!Fields, NS!ErrorKeys, NS!Touches
<1>3. NewSourceTyped'
    BY <1>1, <1>2, NewSourceActs DEF NewSourceInv, NewSourceTyped
<1>4. FieldsChecked'
    BY <1>1 DEF NewSourceInv, FieldsChecked
<1>5. f \notin {"s3Schema", "file", "fileSchema", "iocFileUpload",
                "customSchemaIocFileUpload"}
    BY FieldNames
<1>6. SchemaChecked' /\ FileChecked'
    BY <1>1, <1>5 DEF NewSourceInv, SchemaChecked, FileChecked
<1> QED
    BY <1>3, <1>4, <1>6 DEF NewSourceInv

LEMMA NewSourceSchemaChanges ==
    ASSUME NewSourceInv, NEW schema \in NS!Schemas, NS!OnCustomSchemaChange(schema)
    PROVE  NewSourceInv'
<1> DEFINE key == IF sourceType = "IOC_UPLOAD" THEN "fileSchema" ELSE "s3Schema"
<1>1. /\ NS!Acts
      /\ customSchema' = schema
      /\ inputErrors' = (IF schema = "bad" THEN inputErrors \cup {key} ELSE inputErrors \ {key})
      /\ inputTouched' = inputTouched \cup {"customSchema"} /\ schemaType' = sourceType
      /\ UNCHANGED <<sourceType, valid, useCustomSchemaByType, enabled, relaxed,
                     fileUploadSource, customSchemaFileUploadSource, reads, fileOwn, unread,
                     clobbered, submitInProgress>>
    BY DEF NS!OnCustomSchemaChange, NS!Set, NS!UploadKept, NS!SubmitKept
<1>2. key \in {"fileSchema", "s3Schema"} /\ (sourceType = "IOC_UPLOAD" <=> key = "fileSchema")
      /\ sourceType \in NS!Types
    BY DEF NewSourceInv, NewSourceTyped
<1> HIDE DEF key
<1>3. NewSourceTyped'
    BY <1>1, <1>2, NewSourceActs
    DEF NewSourceInv, NewSourceTyped, NS!Fields, NS!ErrorKeys, NS!Touches
<1>4. FieldsChecked'
    BY <1>1, <1>2, FieldNames DEF NewSourceInv, FieldsChecked
<1>5. SchemaChecked'
    BY <1>1, <1>2 DEF NewSourceInv, SchemaChecked, NS!Types
<1>6. FileChecked'
    BY <1>1, <1>2 DEF NewSourceInv, FileChecked
<1> QED
    BY <1>3, <1>4, <1>5, <1>6 DEF NewSourceInv

\* The switch, the type of the source, submitting and a refusal change no field.
LEMMA NewSourceSwitches ==
    ASSUME NewSourceInv,
           \/ NS!OnRefreshSwitchChange \/ \E type \in NS!Types : NS!SetSourceType(type)
           \/ NS!OnSubmit \/ NS!Refused
    PROVE  NewSourceInv'
<1>1. /\ sourceType' \in NS!Types /\ enabled' \in BOOLEAN /\ submitInProgress' \in BOOLEAN
      /\ changes' \in 0 .. ManyEdits + 3
      /\ UNCHANGED <<valid, customSchema, useCustomSchemaByType, inputErrors, inputTouched,
                     schemaType, relaxed,
                     fileUploadSource, customSchemaFileUploadSource, reads, fileOwn, unread,
                     clobbered>>
  <2>1. NewSourceTyped
    BY DEF NewSourceInv
  <2>2. CASE NS!OnRefreshSwitchChange
    BY <2>1, <2>2, NewSourceActs
    DEF NS!OnRefreshSwitchChange, NS!UploadKept, NS!SubmitKept, NewSourceTyped
  <2>3. CASE \E type \in NS!Types : NS!SetSourceType(type)
    BY <2>1, <2>3, NewSourceActs
    DEF NS!SetSourceType, NS!UploadKept, NS!SubmitKept, NewSourceTyped
  <2>4. CASE NS!OnSubmit \/ NS!Refused
    BY <2>1, <2>4 DEF NS!OnSubmit, NS!Refused, NS!UploadKept, NewSourceTyped
  <2> QED
    BY <2>2, <2>3, <2>4
<1>2. NewSourceTyped'
    BY <1>1 DEF NewSourceInv, NewSourceTyped
<1> QED
    BY <1>1, <1>2 DEF NewSourceInv, FieldsChecked, SchemaChecked, FileChecked

LEMMA NewSourceTicked == ASSUME NewSourceInv, NS!UseCustomSchema PROVE NewSourceInv'
<1>1. /\ NS!Acts
      /\ useCustomSchemaByType' = (IF sourceType \notin useCustomSchemaByType
                                   THEN useCustomSchemaByType \cup {sourceType}
                                   ELSE useCustomSchemaByType \ {sourceType})
      /\ \/ /\ inputErrors' = inputErrors \ {"file", "fileSchema"}
            /\ relaxed' = (relaxed \/ {"file", "fileSchema"} \cap inputErrors # {})
         \/ UNCHANGED <<inputErrors, relaxed>>
      /\ UNCHANGED <<sourceType, valid, customSchema, enabled, inputTouched, schemaType,
                     fileUploadSource, customSchemaFileUploadSource, reads, fileOwn, unread,
                     clobbered, submitInProgress>>
    BY DEF NS!UseCustomSchema, NS!Set, NS!UploadKept, NS!SubmitKept
<1>2. useCustomSchemaByType' \subseteq NS!Types /\ inputErrors' \subseteq NS!ErrorKeys
      /\ relaxed' \in BOOLEAN
  <2>1. relaxed \in BOOLEAN /\ sourceType \in NS!Types /\ useCustomSchemaByType \subseteq NS!Types
        /\ inputErrors \subseteq NS!ErrorKeys
    BY DEF NewSourceInv, NewSourceTyped
  <2>2. relaxed' \in BOOLEAN
    BY <1>1, <2>1
  <2> QED
    BY <1>1, <2>1, <2>2
<1>3. NewSourceTyped'
    BY <1>1, <1>2, NewSourceActs DEF NewSourceInv, NewSourceTyped
<1>4. /\ ~relaxed' => ~relaxed /\ inputErrors' = inputErrors
      /\ \A e : e \notin {"file", "fileSchema"} => (e \in inputErrors' <=> e \in inputErrors)
  <2>1. CASE /\ inputErrors' = inputErrors \ {"file", "fileSchema"}
             /\ relaxed' = (relaxed \/ {"file", "fileSchema"} \cap inputErrors # {})
    BY <2>1
  <2>2. CASE UNCHANGED <<inputErrors, relaxed>>
    BY <2>2
  <2> QED
    BY <1>1, <2>1, <2>2
<1>5. FieldsChecked'
    BY <1>1, <1>4, FieldNames DEF NewSourceInv, FieldsChecked
<1>6. SchemaChecked' /\ FileChecked'
    BY <1>1, <1>4 DEF NewSourceInv, SchemaChecked, FileChecked
<1> QED
    BY <1>3, <1>5, <1>6 DEF NewSourceInv

LEMMA NewSourceChooses ==
    ASSUME NewSourceInv, NEW own \in BOOLEAN, NEW content \in {"good", "empty", "bad"},
           own => content # "bad", NS!OnFileChange(own, content)
    PROVE  NewSourceInv'
<1> DEFINE r == [own |-> own, content |-> content, errors |-> inputErrors]
           upload == IF own THEN "customSchemaIocFileUpload" ELSE "iocFileUpload"
<1>1. /\ NS!Acts /\ inputErrors' = inputErrors \ {"file"}
      /\ inputTouched' = inputTouched \cup {upload}
      /\ fileOwn' = own /\ reads' = reads \cup {r}
      /\ UNCHANGED <<sourceType, valid, customSchema, fileUploadSource,
                     customSchemaFileUploadSource, useCustomSchemaByType, enabled, schemaType,
                     unread, clobbered, relaxed,
                     submitInProgress>>
    BY DEF NS!OnFileChange, NS!Choosing, NS!SubmitKept
<1>2. /\ r \in [own : BOOLEAN, content : {"good", "empty", "bad"}, errors : SUBSET NS!ErrorKeys]
      /\ r.own = own /\ r.content = content
    BY DEF NewSourceInv, NewSourceTyped
<1>3. upload \in {"customSchemaIocFileUpload", "iocFileUpload"}
    OBVIOUS
<1> HIDE DEF r, upload
<1>4. NewSourceTyped'
    BY <1>1, <1>2, <1>3, NewSourceActs DEF NewSourceInv, NewSourceTyped, NS!Touches
<1>5. FieldsChecked'
    BY <1>1, <1>3, FieldNames DEF NewSourceInv, FieldsChecked
<1>6. SchemaChecked'
    BY <1>1 DEF NewSourceInv, SchemaChecked
<1>7. FileChecked'
    BY <1>1, <1>2 DEF FileChecked
<1> QED
    BY <1>4, <1>5, <1>6, <1>7 DEF NewSourceInv

LEMMA NewSourceFileRefused ==
    ASSUME NewSourceInv, NEW own \in BOOLEAN, NEW touches \in BOOLEAN,
           NS!OnFileRefused(own, touches)
    PROVE  NewSourceInv'
<1>1. /\ NS!Acts /\ inputErrors' = inputErrors \cup {"file"}
      /\ \E T \in SUBSET {"customSchemaIocFileUpload", "iocFileUpload"} :
            inputTouched' = inputTouched \cup T
      /\ UNCHANGED <<sourceType, valid, customSchema, fileUploadSource,
                     customSchemaFileUploadSource, useCustomSchemaByType, enabled, schemaType,
                     unread, clobbered, relaxed,
                     submitInProgress, reads, fileOwn>>
  <2>1. \/ inputTouched' = inputTouched \cup {}
        \/ inputTouched' = inputTouched \cup {"customSchemaIocFileUpload"}
        \/ inputTouched' = inputTouched \cup {"iocFileUpload"}
    BY DEF NS!OnFileRefused
  <2> QED
    BY <2>1 DEF NS!OnFileRefused, NS!Choosing, NS!SubmitKept
<1>2. NewSourceTyped'
    BY <1>1, NewSourceActs DEF NewSourceInv, NewSourceTyped, NS!Touches, NS!ErrorKeys
<1>3. FieldsChecked'
    BY <1>1, FieldNames DEF NewSourceInv, FieldsChecked
<1>4. SchemaChecked' /\ FileChecked'
    BY <1>1 DEF NewSourceInv, SchemaChecked, FileChecked
<1> QED
    BY <1>2, <1>3, <1>4 DEF NewSourceInv

\* A file that was read: without an error, or with one beside those of when it was chosen.
LEMMA NewSourceFileRead ==
    ASSUME NewSourceInv, NEW r \in reads,
           \/ NS!OwnFileRead(r) \/ NS!OwnFileUnread(r)
           \/ NS!IocsRead(r) \/ NS!IocsInvalid(r) \/ NS!IocsUnread(r)
    PROVE  NewSourceInv'
<1>1. /\ reads' = reads \ {r}
      /\ UNCHANGED <<sourceType, valid, customSchema, useCustomSchemaByType, enabled, inputTouched,
                     schemaType, fileOwn, relaxed, changes, submitInProgress>>
    BY DEF NS!OwnFileRead, NS!OwnFileUnread, NS!IocsRead, NS!IocsInvalid, NS!IocsUnread,
           NS!ReadError, NS!ReadKept, NS!SubmitKept
<1>2. /\ r.own \in BOOLEAN /\ r.content \in {"good", "empty", "bad"}
      /\ r.errors \subseteq NS!ErrorKeys
      /\ r.own => r.content # "bad"
      /\ NewSourceTyped
    BY DEF NewSourceInv, NewSourceTyped
<1>3. \/ /\ r.own /\ customSchemaFileUploadSource' \in {"good", "empty"} /\ unread' = FALSE
         /\ UNCHANGED <<fileUploadSource, inputErrors, clobbered>>
      \/ /\ r.own /\ unread' = TRUE
         /\ UNCHANGED <<fileUploadSource, customSchemaFileUploadSource, inputErrors, clobbered>>
      \/ /\ ~r.own /\ fileUploadSource' \in {"good", "empty"}
         /\ UNCHANGED <<customSchemaFileUploadSource, inputErrors, unread, clobbered>>
      \/ /\ ~r.own /\ fileUploadSource' \in {"bad", fileUploadSource}
         /\ inputErrors' = r.errors \cup {"file"}
         /\ clobbered' = (clobbered \/ r.errors \ {"file"} # inputErrors \ {"file"})
         /\ UNCHANGED <<customSchemaFileUploadSource, unread>>
    BY <1>2 DEF NS!OwnFileRead, NS!OwnFileUnread, NS!IocsRead, NS!IocsInvalid, NS!IocsUnread,
                NS!ReadError
<1>4. /\ fileUploadSource' \in NS!Contents /\ customSchemaFileUploadSource' \in NS!Contents
      /\ inputErrors' \subseteq NS!ErrorKeys
    BY <1>2, <1>3 DEF NewSourceTyped, NS!Contents, NS!ErrorKeys
<1>5. clobbered' \in BOOLEAN /\ unread' \in BOOLEAN
    BY <1>2, <1>3 DEF NewSourceTyped
<1>6. NewSourceTyped'
    BY <1>1, <1>2, <1>4, <1>5 DEF NewSourceTyped
<1>7. ~clobbered' => ~clobbered /\ \A e : e # "file" => (e \in inputErrors' <=> e \in inputErrors)
  <2>1. CASE UNCHANGED <<inputErrors, clobbered>>
    BY <2>1
  <2>2. CASE /\ inputErrors' = r.errors \cup {"file"}
             /\ clobbered' = (clobbered \/ r.errors \ {"file"} # inputErrors \ {"file"})
    BY <2>2
  <2> QED
    BY <1>3, <2>1, <2>2
<1>8. FieldsChecked'
    BY <1>1, <1>7, FieldNames DEF NewSourceInv, FieldsChecked
<1>9. SchemaChecked'
    BY <1>1, <1>7 DEF NewSourceInv, SchemaChecked
<1>10. FileChecked'
    BY <1>1, <1>3 DEF NewSourceInv, FileChecked
<1> QED
    BY <1>6, <1>8, <1>9, <1>10 DEF NewSourceInv

LEMMA NewSourceStep == ASSUME NewSourceInv, NS!Next PROVE NewSourceInv'
<1>1. CASE \E f \in {"name", "schedule"} \cup S3Fields, ok \in BOOLEAN : NS!OnFieldChange(f, ok)
    BY <1>1, NewSourceFieldChanges
<1>2. CASE \E schema \in NS!Schemas : NS!OnCustomSchemaChange(schema)
    BY <1>2, NewSourceSchemaChanges
<1>3. CASE \/ NS!OnRefreshSwitchChange \/ \E type \in NS!Types : NS!SetSourceType(type)
           \/ NS!OnSubmit \/ NS!Refused
    BY <1>3, NewSourceSwitches
<1>4. CASE NS!UseCustomSchema
    BY <1>4, NewSourceTicked
<1>5. CASE \/ \E content \in {"good", "empty"} : NS!OnFileChange(TRUE, content)
           \/ \E content \in {"good", "empty", "bad"} : NS!OnFileChange(FALSE, content)
    BY <1>5, NewSourceChooses
<1>6. CASE \E own, touches \in BOOLEAN : NS!OnFileRefused(own, touches)
    BY <1>6, NewSourceFileRefused
<1>7. CASE \E r \in reads :
              \/ NS!OwnFileRead(r) \/ NS!OwnFileUnread(r)
              \/ NS!IocsRead(r) \/ NS!IocsInvalid(r) \/ NS!IocsUnread(r)
    BY <1>7, NewSourceFileRead
<1> QED
    BY <1>1, <1>2, <1>3, <1>4, <1>5, <1>6, <1>7 DEF NS!Next

LEMMA NewSourceStutter ==
    ASSUME NewSourceInv, UNCHANGED <<ofNewSource, enabled, changes>> PROVE NewSourceInv'
<1>1. NewSourceTyped'
    BY DEF ofNewSource, NewSourceInv, NewSourceTyped
<1> QED
    BY <1>1 DEF ofNewSource, NewSourceInv, FieldsChecked, SchemaChecked, FileChecked

LEMMA NewSourceIsTyped == NewSourceTyped => NS!TypeOK
BY DEF NewSourceTyped, NS!TypeOK, NS!Contents

LEMMA NewSourceCompletes == NewSourceInv => NS!SubmitsComplete
<1> SUFFICES ASSUME NewSourceInv, NS!ShouldEnableSubmit, NEW f \in NS!Required,
                    f \notin NS!Unchecked
             PROVE  f \in NS!Payload
    BY DEF NS!SubmitsComplete
<1>1. NewSourceTyped /\ FieldsChecked /\ SchemaChecked /\ FileChecked
    BY DEF NewSourceInv
<1>2. NS!ReqFieldsTouched /\ inputErrors \cap NS!ErrorsThatCount = {}
    BY DEF NS!ShouldEnableSubmit
<1>3. CASE f = "name"
  <2>1. ~clobbered
    BY <1>3 DEF NS!Unchecked, NS!Fields
  <2> QED
    BY <1>1, <1>2, <1>3, <2>1
    DEF NS!ReqFieldsTouched, NS!ErrorsThatCount, FieldsChecked, NS!Payload
<1>4. CASE f \in S3Fields
  <2>1. ~clobbered /\ sourceType = "S3_CUSTOM"
    BY <1>1, <1>4, FieldNames DEF NS!Unchecked, NS!Fields, NS!Required, NewSourceTyped, NS!Types
  <2> QED
    BY <1>1, <1>2, <1>4, <2>1
    DEF NS!ReqFieldsTouched, NS!ErrorsThatCount, FieldsChecked, NS!Payload
<1>5. CASE f = "schedule"
  <2>1. ~clobbered /\ sourceType = "S3_CUSTOM" /\ enabled
    BY <1>1, <1>5, FieldNames DEF NS!Unchecked, NS!Fields, NS!Required, NewSourceTyped, NS!Types
  <2> QED
    BY <1>1, <1>2, <1>5, <2>1 DEF NS!ErrorsThatCount, FieldsChecked, NS!Payload
<1>6. CASE f = "customSchema"
  <2>1. /\ ~relaxed /\ schemaType = sourceType /\ ~clobbered
        /\ customSchema \in {"complete", "bad"}
    BY <1>1, <1>6 DEF NS!Unchecked, NewSourceTyped, NS!Schemas
  <2>2. NS!Own
    BY <1>6, FieldNames DEF NS!Required
  <2>3. CASE sourceType = "IOC_UPLOAD"
    BY <1>1, <1>2, <1>6, <2>1, <2>2, <2>3 DEF NS!ErrorsThatCount, SchemaChecked, NS!Payload
  <2>4. CASE sourceType = "S3_CUSTOM"
    BY <1>1, <1>2, <1>6, <2>1, <2>2, <2>4 DEF NS!ErrorsThatCount, SchemaChecked, NS!Payload
  <2> QED
    BY <1>1, <2>3, <2>4 DEF NewSourceTyped, NS!Types
<1>7. CASE f = "file"
  <2>1. sourceType = "IOC_UPLOAD"
    BY <1>7, FieldNames DEF NS!Required
  <2>2. /\ reads = {} /\ fileOwn = NS!Own /\ ~relaxed
        /\ NS!Uploaded # "empty" /\ ~(NS!Own /\ unread)
    BY <1>7, FieldNames DEF NS!Unchecked, NS!Fields
  <2>3. "file" \notin inputErrors
    BY <1>2, <2>1 DEF NS!ErrorsThatCount
  <2>4. CASE NS!Own
    BY <1>1, <1>2, <1>7, <2>1, <2>2, <2>3, <2>4
    DEF NS!ReqFieldsTouched, FileChecked, NS!Payload, NS!Uploaded
  <2>5. CASE ~NS!Own
    BY <1>1, <1>2, <1>7, <2>1, <2>2, <2>3, <2>5
    DEF NS!ReqFieldsTouched, FileChecked, NS!Payload, NS!Uploaded
  <2> QED
    BY <2>4, <2>5
<1> QED
    BY <1>3, <1>4, <1>5, <1>6, <1>7 DEF NS!Required

-----------------------------------------------------------------------------
(* Field mappings *)

MappingFields == {"step", "asked", "copy", "alive", "needed"}

\* Page and form have the same mappings unless they were reset apart; what the user set is in
\* both; and the copies that late answers are merged into, of a form that is gone, have it too.
MappingsInv ==
    /\ \A c \in calls : DOMAIN c = MappingFields
    /\ form = "edit" => mounted
    /\ mounted /\ ~mixed => \A c \in calls : c.alive
    /\ ~mounted => \A c \in calls : ~c.alive
    /\ form = "wizard" /\ mounted /\ ~mixed => createdMappings = fieldMappings
    /\ mounted => FM!Within(chosen, createdMappings)
    /\ ~mixed => FM!Within(chosen, fieldMappings)
    /\ ~mounted /\ ~mixed => \A c \in calls : FM!Within(chosen, c.copy)

\* Setting a mapping in both, taking one away from both, and adding what is missing to the larger
\* keep one map within another.
LEMMA WithinNothing == ASSUME NEW map PROVE FM!Within(FM!NoMappings, map)
BY DEF FM!Within, FM!NoMappings

LEMMA WithinOver ==
    ASSUME NEW first, NEW map, NEW other, FM!Within(map, other)
    PROVE  FM!Within(FM!Over(first, map), FM!Over(first, other))
BY DEF FM!Within, FM!Over

LEMMA WithinWithout ==
    ASSUME NEW map, NEW other, NEW fields, FM!Within(map, other)
    PROVE  /\ FM!Within(FM!Without(map, fields), FM!Without(other, fields))
           /\ FM!Within(FM!Without(map, fields), other)
BY DEF FM!Within, FM!Without, FM!Restrict

LEMMA WithinMore ==
    ASSUME NEW map, NEW other, NEW more, FM!Within(map, other)
    PROVE  FM!Within(map, FM!Over(other, more))
BY DEF FM!Within, FM!Over

LEMMA MappingsInit == FM!Init => MappingsInv
<1> SUFFICES ASSUME FM!Init PROVE MappingsInv
    OBVIOUS
<1>1. chosen = FM!NoMappings /\ mounted /\ createdMappings = fieldMappings
    BY DEF FM!Init
<1>2. \A c \in calls : c.alive /\ DOMAIN c = MappingFields
    BY DEF FM!Init, FM!Request, MappingFields
<1> QED
    BY <1>1, <1>2, WithinNothing DEF MappingsInv

\* Requests begin alive, and only while the form is there.
LEMMA MappingsAsked ==
    ASSUME NEW s, FM!GetAllMappings(s), MappingsInv
    PROVE  /\ \A c \in calls' : DOMAIN c = MappingFields
           /\ (\A c \in calls : c.alive) => \A c \in calls' : c.alive
BY DEF MappingsInv, FM!GetAllMappings, FM!Request, MappingFields

LEMMA MappingsReload ==
    ASSUME MappingsInv,
           (\E s : FM!Select(s)) \/ (\E fields : FM!ChangeRules(fields))
    PROVE  MappingsInv'
<1>1. PICK s : FM!GetAllMappings(s)
    BY DEF FM!Select, FM!ChangeRules
<1>2. /\ mounted
      /\ UNCHANGED <<form, mounted, createdMappings, fieldMappings, chosen, mixed>>
    BY DEF FM!Select, FM!ChangeRules
<1> QED
    BY <1>1, <1>2, MappingsAsked DEF MappingsInv

LEMMA MappingsLeave ==
    ASSUME MappingsInv, FM!ChangeDataSource \/ FM!OnNextClick PROVE MappingsInv'
<1>1. CASE FM!ChangeDataSource
    BY <1>1 DEF FM!ChangeDataSource, MappingsInv
<1>2. CASE FM!OnNextClick
  <2>1. /\ form = "wizard" /\ mounted /\ ~mounted'
        /\ UNCHANGED <<form, createdMappings, fieldMappings, chosen, mixed>>
      BY <1>2 DEF FM!OnNextClick
  <2>2. \A d \in calls' : \E c \in calls :
            d = IF c.alive
                THEN [c EXCEPT !.alive = FALSE, !.copy = createdMappings, !.needed = enabled]
                ELSE c
      BY <1>2 DEF FM!OnNextClick
  <2>3. ASSUME NEW d \in calls' 
        PROVE  /\ ~d.alive /\ (~mixed => FM!Within(chosen, d.copy))
               /\ DOMAIN d = MappingFields
    <3>1. PICK c \in calls :
              d = IF c.alive
                  THEN [c EXCEPT !.alive = FALSE, !.copy = createdMappings, !.needed = enabled]
                  ELSE c
        BY <2>2
    <3> QED
        BY <2>1, <3>1 DEF MappingsInv, MappingFields
  <2> QED
      BY <2>1, <2>3 DEF MappingsInv
<1> QED
    BY <1>1, <1>2

LEMMA MappingsReturn == ASSUME MappingsInv, FM!OnPreviousClick PROVE MappingsInv'
<1>1. /\ form = "wizard" /\ ~mounted /\ mounted'
      /\ createdMappings' = fieldMappings
      /\ FM!GetAllMappings(selection)
      /\ mixed' = (mixed \/ calls # {})
      /\ chosen' = IF mixed THEN FM!NoMappings ELSE chosen
      /\ UNCHANGED <<form, fieldMappings>>
    BY DEF FM!OnPreviousClick
<1>2. /\ ~mixed' => \A c \in calls' : c.alive
      /\ \A c \in calls' : DOMAIN c = MappingFields
    BY <1>1, MappingsAsked
<1>3. FM!Within(chosen', fieldMappings)
    BY <1>1, WithinNothing DEF MappingsInv
<1> QED
    BY <1>1, <1>2, <1>3 DEF MappingsInv

LEMMA MappingsSet ==
    ASSUME MappingsInv, NEW f,
           FM!OnMappingRemoval(f) \/ \E field : FM!OnMappingCreation(f, field)
    PROVE  MappingsInv'
<1>1. /\ mounted /\ UNCHANGED <<form, mounted, calls, mixed>>
      /\ fieldMappings' = createdMappings'
    BY DEF FM!OnMappingRemoval, FM!OnMappingCreation
<1>2. FM!Within(chosen, createdMappings)
    BY <1>1 DEF MappingsInv
<1>3. FM!Within(chosen', createdMappings')
  <2>1. CASE FM!OnMappingRemoval(f)
      BY <1>2, <2>1, WithinWithout DEF FM!OnMappingRemoval
  <2>2. ASSUME NEW field, FM!OnMappingCreation(f, field)
        PROVE  FM!Within(chosen', createdMappings')
    <3> DEFINE set == [g \in {f} |-> field]
    <3>1. createdMappings' = FM!Over(set, createdMappings) /\ chosen' = FM!Over(set, chosen)
        BY <2>2 DEF FM!OnMappingCreation
    <3> HIDE DEF set
    <3> QED
        BY <1>2, <3>1, WithinOver
  <2> QED
      BY <2>1, <2>2
<1> QED
    BY <1>1, <1>3 DEF MappingsInv

\* An answer takes the same away from what the user set as from the mappings it is merged into.
LEMMA MappingsAnswered ==
    ASSUME MappingsInv, NEW c \in calls, FM!GotMappingsView(c) PROVE MappingsInv'
<1> DEFINE own == IF c.alive THEN createdMappings ELSE c.copy
           merged == FM!Merged(c)
<1>1. /\ form = "wizard" /\ calls' = calls \ {c} /\ fieldMappings' = merged
      /\ IF c.alive THEN createdMappings' = merged ELSE UNCHANGED createdMappings
      /\ UNCHANGED <<form, mounted, mixed>>
    BY DEF FM!GotMappingsView
<1>2. PICK unneeded, paths :
          /\ chosen' = FM!Without(chosen, unneeded)
          /\ merged = FM!Over(FM!Without(own, unneeded), paths)
    BY DEF FM!GotMappingsView, FM!Merged
<1> HIDE DEF own, merged
<1>3. FM!Within(chosen, own) => FM!Within(chosen', merged)
    BY <1>1, <1>2, WithinWithout, WithinMore
<1>4. ASSUME NEW map, FM!Within(chosen, map) PROVE FM!Within(chosen', map)
    BY <1>2, <1>4, WithinWithout
<1>5. mounted => FM!Within(chosen', createdMappings')
    BY <1>1, <1>3, <1>4 DEF MappingsInv, own
<1>6. ~mixed => FM!Within(chosen', fieldMappings')
    BY <1>1, <1>3 DEF MappingsInv, own
<1>7. ~mounted /\ ~mixed => \A d \in calls' : FM!Within(chosen', d.copy)
    BY <1>1, <1>4 DEF MappingsInv
<1>8. mounted /\ ~mixed => createdMappings' = fieldMappings'
    BY <1>1 DEF MappingsInv
<1> QED
    BY <1>1, <1>5, <1>6, <1>7, <1>8 DEF MappingsInv

\* The edit form, which is there as long as it is followed, loads what it shows anew.
LEMMA MappingsToEdit ==
    ASSUME MappingsInv, NEW c \in calls,
           FM!GotViewToEdit(c) \/ FM!GotMappings(c) \/ FM!MappingsRefused(c) \/ FM!NoAnswer(c)
    PROVE  MappingsInv'
<1>1. CASE FM!NoAnswer(c)
    BY <1>1 DEF FM!NoAnswer, MappingsInv
<1>2. CASE FM!GotViewToEdit(c)
  <2>1. /\ form = "edit"
        /\ UNCHANGED <<form, mounted, createdMappings, fieldMappings, chosen, mixed>>
        /\ calls' = (calls \ {c})
                    \cup {[c EXCEPT !.step = "mappings", !.copy = createdMappings]}
      BY <1>2 DEF FM!GotViewToEdit
  <2>2. /\ mounted /\ (~mixed => \A d \in calls' : d.alive)
        /\ \A d \in calls' : DOMAIN d = MappingFields
      BY <2>1 DEF MappingsInv, MappingFields
  <2> QED
      BY <2>1, <2>2 DEF MappingsInv
<1>3. CASE FM!GotMappings(c) \/ FM!MappingsRefused(c)
  <2>1. /\ form = "edit" /\ calls' = calls \ {c} /\ chosen' = FM!NoMappings
        /\ UNCHANGED <<form, mounted, fieldMappings, mixed>>
      BY <1>3 DEF FM!GotMappings, FM!MappingsRefused
  <2> QED
      BY <2>1, WithinNothing DEF MappingsInv
<1> QED
    BY <1>1, <1>2, <1>3

LEMMA MappingsStep == ASSUME MappingsInv, FM!Next PROVE MappingsInv'
<1>1. CASE (\E s \in FM!Selections : FM!Select(s)) \/ \E fields : FM!ChangeRules(fields)
    BY <1>1, MappingsReload
<1>2. CASE \E f : FM!OnMappingRemoval(f) \/ \E field : FM!OnMappingCreation(f, field)
    BY <1>2, MappingsSet
<1>3. CASE FM!ChangeDataSource \/ FM!OnNextClick \/ FM!OnPreviousClick
    BY <1>3, MappingsLeave, MappingsReturn
<1>4. CASE \E c \in calls : FM!GotMappingsView(c) \/ FM!GotViewToEdit(c) \/ FM!GotMappings(c)
                            \/ FM!MappingsRefused(c) \/ FM!NoAnswer(c)
    BY <1>4, MappingsAnswered, MappingsToEdit
<1> QED
    BY <1>1, <1>2, <1>3, <1>4 DEF FM!Next

LEMMA MappingsStutter ==
    ASSUME MappingsInv, UNCHANGED <<ofMappings, form, calls>> PROVE MappingsInv'
BY DEF ofMappings, MappingsInv

LEMMA MappingsInvHolds == MappingsInv => FM!MappingsHold
BY DEF MappingsInv, FM!MappingsHold, FM!MappingsAgree, FM!ChoicesKept

\* No form asks more than it may, of a selection that there is, and what it has maps fields of
\* rules to fields of the log.
MappingsTyped ==
    /\ form \in {"wizard", "edit"} /\ mounted \in BOOLEAN /\ mixed \in BOOLEAN
    /\ selection \in FM!Selections \cup {NoSelection}
    /\ enabled \subseteq {"a", "b"} /\ offered \subseteq {"a", "b"}
    /\ createdMappings \in FM!Mappings /\ fieldMappings \in FM!Mappings /\ chosen \in FM!Mappings
    /\ calls \subseteq FM!Calls /\ IsFiniteSet(calls) /\ Cardinality(calls) <= MaxCalls
    /\ changes \in 0 .. ManyEdits + 1

\* What a mapping is, without the union: a function on some of the fields of rules.
LEMMA MappingsAre ==
    ASSUME NEW map
    PROVE  map \in FM!Mappings <=>
             /\ map = [f \in DOMAIN map |-> map[f]] /\ DOMAIN map \subseteq {"a", "b"}
             /\ \A f \in DOMAIN map : map[f] \in {"x", "y"}
<1>1. ASSUME map \in FM!Mappings
      PROVE  /\ map = [f \in DOMAIN map |-> map[f]] /\ DOMAIN map \subseteq {"a", "b"}
             /\ \A f \in DOMAIN map : map[f] \in {"x", "y"}
  <2>1. PICK fields \in SUBSET {"a", "b"} : map \in [fields -> {"x", "y"}]
      BY <1>1 DEF FM!Mappings
  <2> QED
      BY <2>1
<1>2. ASSUME map = [f \in DOMAIN map |-> map[f]], DOMAIN map \subseteq {"a", "b"},
             \A f \in DOMAIN map : map[f] \in {"x", "y"}
      PROVE  map \in FM!Mappings
  <2>1. map \in [DOMAIN map -> {"x", "y"}]
      BY <1>2
  <2> QED
      BY <1>2, <2>1 DEF FM!Mappings
<1> QED
    BY <1>1, <1>2

LEMMA MappingsOperators ==
    ASSUME NEW map \in FM!Mappings, NEW other \in FM!Mappings, NEW fields
    PROVE  /\ FM!Over(map, other) \in FM!Mappings
           /\ FM!Without(map, fields) \in FM!Mappings
           /\ FM!Restrict(map, {f \in DOMAIN map : map[f] \in fields}) \in FM!Mappings
           /\ FM!Restrict(map, DOMAIN map \cap fields) \in FM!Mappings
<1>1. /\ DOMAIN map \subseteq {"a", "b"} /\ \A f \in DOMAIN map : map[f] \in {"x", "y"}
      /\ DOMAIN other \subseteq {"a", "b"} /\ \A f \in DOMAIN other : other[f] \in {"x", "y"}
    BY MappingsAre
<1>2. FM!Over(map, other) \in FM!Mappings
  <2> DEFINE over == FM!Over(map, other)
  <2>1. /\ over = [f \in DOMAIN over |-> over[f]] /\ DOMAIN over \subseteq {"a", "b"}
        /\ \A f \in DOMAIN over : over[f] \in {"x", "y"}
      BY <1>1 DEF FM!Over
  <2> HIDE DEF over
  <2>2. over \in FM!Mappings
      BY <2>1, MappingsAre
  <2> QED
      BY <2>2 DEF over
<1>3. ASSUME NEW kept \in SUBSET DOMAIN map PROVE FM!Restrict(map, kept) \in FM!Mappings
  <2> DEFINE less == FM!Restrict(map, kept)
  <2>1. /\ less = [f \in DOMAIN less |-> less[f]] /\ DOMAIN less \subseteq {"a", "b"}
        /\ \A f \in DOMAIN less : less[f] \in {"x", "y"}
      BY <1>1 DEF FM!Restrict
  <2> HIDE DEF less
  <2>2. less \in FM!Mappings
      BY <2>1, MappingsAre
  <2> QED
      BY <2>2 DEF less
<1>4. /\ DOMAIN map \ fields \in SUBSET DOMAIN map
      /\ {f \in DOMAIN map : map[f] \in fields} \in SUBSET DOMAIN map
      /\ DOMAIN map \cap fields \in SUBSET DOMAIN map
    OBVIOUS
<1> QED
    BY <1>2, <1>3, <1>4 DEF FM!Without

LEMMA MappingsConstants ==
    /\ FM!NoMappings \in FM!Mappings
    /\ FM!Selections = {"s1", "s2"}
    /\ \A f \in {"a", "b"}, field \in {"x", "y"} : OneMapping(f, field) \in FM!Mappings
<1>1. FM!Selections = {"s1", "s2"}
    BY DEF FM!Selections
<1>2. \A f \in {"a", "b"}, field \in {"x", "y"} : OneMapping(f, field) \in FM!Mappings
  <2> SUFFICES ASSUME NEW f \in {"a", "b"}, NEW field \in {"x", "y"}
               PROVE  OneMapping(f, field) \in FM!Mappings
      OBVIOUS
  <2>1. {f} \in SUBSET {"a", "b"} /\ OneMapping(f, field) \in [{f} -> {"x", "y"}]
      BY DEF OneMapping
  <2> QED
      BY <2>1 DEF FM!Mappings
<1>3. FM!NoMappings \in FM!Mappings
  <2>1. {} \in SUBSET {"a", "b"} /\ FM!NoMappings \in [{} -> {"x", "y"}]
      BY DEF FM!NoMappings
  <2> QED
      BY <2>1 DEF FM!Mappings
<1> QED
    BY <1>1, <1>2, <1>3

\* What the cluster answers with.
LEMMA MappingsOfCluster ==
    ASSUME NEW s \in FM!Selections
    PROVE  /\ s \in {"s1", "s2"}
           /\ (IF s = "s1" THEN OneMapping("a", "x") ELSE OneMapping("b", "y")) \in FM!Mappings
           /\ OneMapping("b", IF s = "s1" THEN "x" ELSE "y") \in FM!Mappings
BY MappingsConstants

LEMMA MappingsTypedInit == FM!Init => MappingsTyped
<1> SUFFICES ASSUME FM!Init PROVE MappingsTyped
    OBVIOUS
<1>1. /\ MaxCalls \in Nat \ {0} /\ ManyEdits \in Nat
      /\ FM!NoMappings \in FM!Mappings
    BY MCPagesAssumption, MappingsConstants
<1>2. calls \subseteq FM!Calls /\ IsFiniteSet(calls) /\ Cardinality(calls) <= MaxCalls
  <2>1. CASE calls = {}
      BY <1>1, <2>1, FS_EmptySet
  <2>2. CASE selection \in FM!Selections /\ calls = {FM!Request(selection)}
    <3>1. IsFiniteSet(calls) /\ Cardinality(calls) = 1
        BY <2>2, FS_Singleton
    <3>2. FM!Request(selection) \in FM!Calls
        BY <1>1, <2>2 DEF FM!Request, FM!Calls
    <3> QED
        BY <1>1, <2>2, <3>1, <3>2
  <2> QED
      BY <2>1, <2>2 DEF FM!Init
<1>3. /\ form \in {"wizard", "edit"} /\ selection \in FM!Selections \cup {NoSelection}
      /\ mounted = TRUE /\ mixed = FALSE /\ changes = 0 /\ enabled = {} /\ offered = {}
    BY DEF FM!Init
<1>4. /\ createdMappings = FM!NoMappings /\ fieldMappings = FM!NoMappings
      /\ chosen = FM!NoMappings
    BY DEF FM!Init
<1>5. mounted \in BOOLEAN /\ mixed \in BOOLEAN
    BY <1>3
<1>7. form \in {"wizard", "edit"} /\ selection \in FM!Selections \cup {NoSelection}
    BY <1>3
<1>8. changes \in 0 .. ManyEdits + 1
  <2>1. changes = 0 /\ ManyEdits \in Nat
      BY <1>1 DEF FM!Init
  <2> QED
      BY <2>1
<1>6. enabled \subseteq {"a", "b"} /\ offered \subseteq {"a", "b"}
    BY <1>3
<1> QED
    BY <1>1, <1>2, <1>4, <1>5, <1>6, <1>7, <1>8, Zenon DEF MappingsTyped

LEMMA OneMore ==
    ASSUME NEW S, IsFiniteSet(S), NEW x
    PROVE  /\ IsFiniteSet(S \cup {x}) /\ Cardinality(S \cup {x}) \in Nat
           /\ Cardinality(S \cup {x}) <= Cardinality(S) + 1
<1>1. IsFiniteSet(S \cup {x}) /\ Cardinality(S) \in Nat
    BY FS_AddElement, FS_CardinalityType
<1>2. Cardinality(S \cup {x}) = Cardinality(S) \/ Cardinality(S \cup {x}) = Cardinality(S) + 1
    BY FS_AddElement
<1> QED
    BY <1>1, <1>2

\* There is room for one more request; an answer, and what follows it, takes none.
LEMMA MappingsRoom ==
    ASSUME MappingsTyped, NEW more, calls' \subseteq calls \cup {more}, more \in FM!Calls,
           FM!Room \/ calls' \subseteq calls \/ \E c \in calls : calls' = (calls \ {c}) \cup {more}
    PROVE  calls' \subseteq FM!Calls /\ IsFiniteSet(calls') /\ Cardinality(calls') <= MaxCalls
<1>1. /\ IsFiniteSet(calls) /\ Cardinality(calls) <= MaxCalls /\ MaxCalls \in Nat
      /\ Cardinality(calls) \in Nat
    BY MCPagesAssumption, FS_CardinalityType DEF MappingsTyped
<1>2. /\ IsFiniteSet(calls \cup {more}) /\ Cardinality(calls \cup {more}) \in Nat
      /\ Cardinality(calls \cup {more}) <= Cardinality(calls) + 1
    BY <1>1, OneMore
<1>3. /\ IsFiniteSet(calls') /\ Cardinality(calls') \in Nat
      /\ Cardinality(calls') <= Cardinality(calls \cup {more})
      /\ calls' \subseteq calls => Cardinality(calls') <= Cardinality(calls)
  <2>1. IsFiniteSet(calls')
      BY <1>2, FS_Subset
  <2> QED
      BY <1>1, <1>2, <2>1, FS_Subset, FS_CardinalityType
<1>4. CASE FM!Room
  <2>1. FM!Cardinality(calls) = Cardinality(calls)
      BY DEF FM!Cardinality, Cardinality
  <2>2. Cardinality(calls) < MaxCalls
      BY <1>4, <2>1 DEF FM!Room
  <2> QED
      BY <1>1, <1>2, <1>3, <2>2 DEF MappingsTyped
<1>5. CASE calls' \subseteq calls
    BY <1>1, <1>3, <1>5 DEF MappingsTyped
<1>6. ASSUME NEW c \in calls, calls' = (calls \ {c}) \cup {more}
      PROVE  calls' \subseteq FM!Calls /\ Cardinality(calls') <= MaxCalls
  <2>1. IsFiniteSet(calls \ {c}) /\ Cardinality(calls \ {c}) = Cardinality(calls) - 1
      BY <1>1, FS_RemoveElement
  <2>2. Cardinality((calls \ {c}) \cup {more}) <= Cardinality(calls \ {c}) + 1
      BY <2>1, OneMore
  <2> QED
      BY <1>1, <1>3, <1>6, <2>1, <2>2 DEF MappingsTyped
<1> QED
    BY <1>3, <1>4, <1>5, <1>6

LEMMA MappingsAskedTyped ==
    ASSUME MappingsTyped, NEW s \in FM!Selections \cup {NoSelection}, FM!GetAllMappings(s), FM!Room
    PROVE  calls' \subseteq FM!Calls /\ IsFiniteSet(calls') /\ Cardinality(calls') <= MaxCalls
<1>1. CASE s = NoSelection
    BY <1>1 DEF FM!GetAllMappings, MappingsTyped
<1>2. CASE s # NoSelection
  <2>1. calls' = calls \cup {FM!Request(s)}
      BY <1>2 DEF FM!GetAllMappings
  <2>2. FM!Request(s) \in FM!Calls
      BY <1>2, MappingsConstants DEF FM!Request, FM!Calls
  <2> QED
      BY <2>1, <2>2, MappingsRoom
<1> QED
    BY <1>1, <1>2

LEMMA MappingsActs ==
    ASSUME MappingsTyped, FM!Acts PROVE changes' \in 0 .. ManyEdits + 1
BY MCPagesAssumption DEF MappingsTyped, FM!Acts

LEMMA MappingsUserTyped ==
    ASSUME MappingsTyped,
           \/ \E s \in FM!Selections : FM!Select(s)
           \/ \E fields \in SUBSET {"a", "b"} : FM!ChangeRules(fields)
           \/ FM!ChangeDataSource \/ FM!OnPreviousClick
    PROVE  MappingsTyped'
<1>1. FM!NoMappings \in FM!Mappings
    BY MappingsConstants
<1>2. ASSUME NEW s \in FM!Selections, FM!Select(s) PROVE MappingsTyped'
    BY <1>2, MappingsAskedTyped, MappingsActs DEF FM!Select, MappingsTyped
<1>3. ASSUME NEW fields \in SUBSET {"a", "b"}, FM!ChangeRules(fields) PROVE MappingsTyped'
  <2>1. selection \in FM!Selections \cup {NoSelection}
      BY DEF MappingsTyped
  <2>2. calls' \subseteq FM!Calls /\ IsFiniteSet(calls') /\ Cardinality(calls') <= MaxCalls
      BY <1>3, <2>1, MappingsAskedTyped DEF FM!ChangeRules
  <2> QED
      BY <1>3, <2>2, MappingsActs DEF FM!ChangeRules, MappingsTyped
<1>4. CASE FM!ChangeDataSource
    BY <1>1, <1>4, MappingsActs DEF FM!ChangeDataSource, MappingsTyped
<1>5. CASE FM!OnPreviousClick
  <2>1. selection \in FM!Selections \cup {NoSelection}
      BY DEF MappingsTyped
  <2>2. calls' \subseteq FM!Calls /\ IsFiniteSet(calls') /\ Cardinality(calls') <= MaxCalls
      BY <1>5, <2>1, MappingsAskedTyped DEF FM!OnPreviousClick
  <2>3. chosen' \in FM!Mappings /\ createdMappings' \in FM!Mappings /\ mixed' \in BOOLEAN
      BY <1>1, <1>5 DEF FM!OnPreviousClick, MappingsTyped
  <2> QED
      BY <1>5, <2>2, <2>3, MappingsActs DEF FM!OnPreviousClick, MappingsTyped
<1> QED
    BY <1>2, <1>3, <1>4, <1>5

LEMMA MappingsSetTyped ==
    ASSUME MappingsTyped, NEW f \in {"a", "b"},
           FM!OnMappingRemoval(f) \/ \E field \in {"x", "y"} : FM!OnMappingCreation(f, field)
    PROVE  MappingsTyped'
<1>1. createdMappings \in FM!Mappings /\ chosen \in FM!Mappings
    BY DEF MappingsTyped
<1>2. CASE FM!OnMappingRemoval(f)
  <2>1. createdMappings' \in FM!Mappings /\ chosen' \in FM!Mappings
      BY <1>1, <1>2, MappingsOperators DEF FM!OnMappingRemoval
  <2> QED
      BY <1>2, <2>1, MappingsActs DEF FM!OnMappingRemoval, MappingsTyped
<1>3. ASSUME NEW field \in {"x", "y"}, FM!OnMappingCreation(f, field) PROVE MappingsTyped'
  <2>1. [g \in {f} |-> field] \in FM!Mappings
      BY MappingsConstants DEF OneMapping
  <2>2. createdMappings' \in FM!Mappings /\ chosen' \in FM!Mappings
      BY <1>1, <1>3, <2>1, MappingsOperators DEF FM!OnMappingCreation
  <2> QED
      BY <1>3, <2>2, MappingsActs DEF FM!OnMappingCreation, MappingsTyped
<1> QED
    BY <1>2, <1>3

LEMMA MappingsLeaveTyped == ASSUME MappingsTyped, FM!OnNextClick PROVE MappingsTyped'
<1> DEFINE left(c) == IF c.alive
                      THEN [c EXCEPT !.alive = FALSE, !.copy = createdMappings, !.needed = enabled]
                      ELSE c
<1>1. calls' = {left(c) : c \in calls}
    BY DEF FM!OnNextClick
<1>2. \A c \in calls : left(c) \in FM!Calls
    BY DEF MappingsTyped, FM!Calls
<1>3. /\ IsFiniteSet(calls) /\ Cardinality(calls) <= MaxCalls /\ MaxCalls \in Nat
      /\ Cardinality(calls) \in Nat
    BY MCPagesAssumption, FS_CardinalityType DEF MappingsTyped
<1> HIDE DEF left
<1>4. IsFiniteSet(calls') /\ Cardinality(calls') <= Cardinality(calls)
  <2> DEFINE leaving == [c \in calls |-> left(c)]
  <2>1. leaving \in Surjection(calls, calls')
      BY <1>1 DEF Surjection, Range
  <2> QED
      BY <1>3, <2>1, FS_Surjection
<1>5. Cardinality(calls') \in Nat
    BY <1>4, FS_CardinalityType
<1>6. calls' \subseteq FM!Calls /\ Cardinality(calls') <= MaxCalls
    BY <1>1, <1>2, <1>3, <1>4, <1>5
<1> QED
    BY <1>4, <1>6 DEF FM!OnNextClick, MappingsTyped

LEMMA MappingsAnsweredTyped ==
    ASSUME MappingsTyped, NEW c \in calls,
           FM!GotMappingsView(c) \/ FM!GotMappings(c) \/ FM!MappingsRefused(c) \/ FM!NoAnswer(c)
    PROVE  MappingsTyped'
<1>1. /\ c \in FM!Calls /\ c.asked \in FM!Selections /\ c.copy \in FM!Mappings
      /\ c.needed \subseteq {"a", "b"} /\ enabled \subseteq {"a", "b"}
      /\ createdMappings \in FM!Mappings /\ chosen \in FM!Mappings
      /\ FM!NoMappings \in FM!Mappings
    BY MappingsConstants DEF MappingsTyped, FM!Calls
<1>2. calls' \subseteq calls
    BY DEF FM!GotMappingsView, FM!GotMappings, FM!MappingsRefused, FM!NoAnswer
<1>3. calls' \subseteq FM!Calls /\ IsFiniteSet(calls') /\ Cardinality(calls') <= MaxCalls
    BY <1>1, <1>2, MappingsRoom
<1>4. FM!Needed(c) \subseteq {"a", "b"}
    BY <1>1 DEF FM!Needed
<1> DEFINE paths == IF c.asked = "s1" THEN OneMapping("a", "x") ELSE OneMapping("b", "y")
           kept == OneMapping("b", IF c.asked = "s1" THEN "x" ELSE "y")
<1>5. paths \in FM!Mappings /\ kept \in FM!Mappings /\ c.asked \in {"s1", "s2"}
    BY <1>1, MappingsOfCluster
<1> HIDE DEF paths, kept
<1>6. DOMAIN kept \subseteq {"a", "b"}
    BY <1>5, MappingsAre
<1>7. CASE FM!GotMappingsView(c)
  <2> DEFINE own == IF c.alive THEN createdMappings ELSE c.copy
             less == FM!Without(own, DOMAIN paths \ FM!Needed(c))
             needed == FM!Restrict(paths, DOMAIN paths \cap FM!Needed(c))
  <2>1. FM!Merged(c) = FM!Over(less, needed)
      BY <1>5 DEF FM!Merged, paths
  <2>2. less \in FM!Mappings /\ needed \in FM!Mappings
      BY <1>1, <1>5, MappingsOperators
  <2> HIDE DEF less, needed
  <2>3. FM!Merged(c) \in FM!Mappings
      BY <2>1, <2>2, MappingsOperators
  <2>4. chosen' \in FM!Mappings
      BY <1>1, <1>7, MappingsOperators DEF FM!GotMappingsView
  <2> QED
      BY <1>1, <1>3, <1>4, <1>7, <2>3, <2>4 DEF FM!GotMappingsView, FM!Unmapped, MappingsTyped
<1>8. \A mapped : mapped \subseteq {"a", "b"} => FM!Listed(mapped, c.asked) \subseteq {"a", "b"}
    BY DEF FM!Listed, FM!Unmapped
<1>9. CASE FM!GotMappings(c)
  <2> DEFINE merged == FM!Over(kept, c.copy)
             ofLog == IF c.asked = "s1" THEN {"x", "y"} ELSE {"y"}
  <2>1. merged \in FM!Mappings
      BY <1>1, <1>5, MappingsOperators
  <2>2. /\ createdMappings' =
               FM!Restrict(merged, {f \in DOMAIN merged : merged[f] \in ofLog})
        /\ offered' = FM!Listed(DOMAIN kept, c.asked)
        /\ chosen' = FM!NoMappings
      BY <1>5, <1>9 DEF FM!GotMappings, kept
  <2> HIDE DEF merged, ofLog
  <2>3. createdMappings' \in FM!Mappings
      BY <2>1, <2>2, MappingsOperators
  <2> QED
      BY <1>1, <1>3, <1>6, <1>8, <1>9, <2>2, <2>3 DEF FM!GotMappings, MappingsTyped
<1>10. CASE FM!MappingsRefused(c)
    BY <1>1, <1>3, <1>8, <1>10 DEF FM!MappingsRefused, MappingsTyped
<1>11. CASE FM!NoAnswer(c)
    BY <1>3, <1>11 DEF FM!NoAnswer, MappingsTyped
<1> QED
    BY <1>7, <1>9, <1>10, <1>11

LEMMA MappingsGoOnTyped ==
    ASSUME MappingsTyped, NEW c \in calls, FM!GotViewToEdit(c) PROVE MappingsTyped'
<1> DEFINE next == [c EXCEPT !.step = "mappings", !.copy = createdMappings]
<1>1. calls' = (calls \ {c}) \cup {next}
    BY DEF FM!GotViewToEdit
<1>2. next \in FM!Calls
    BY DEF MappingsTyped, FM!Calls
<1> HIDE DEF next
<1>3. calls' \subseteq FM!Calls /\ IsFiniteSet(calls') /\ Cardinality(calls') <= MaxCalls
    BY <1>1, <1>2, MappingsRoom
<1> QED
    BY <1>3 DEF FM!GotViewToEdit, MappingsTyped

LEMMA MappingsTypedStep == ASSUME MappingsTyped, FM!Next PROVE MappingsTyped'
BY MappingsUserTyped, MappingsSetTyped, MappingsLeaveTyped, MappingsAnsweredTyped,
   MappingsGoOnTyped DEF FM!Next

LEMMA MappingsTypedStutter ==
    ASSUME MappingsTyped, UNCHANGED <<ofMappings, form, enabled, calls, changes>>
    PROVE  MappingsTyped'
BY DEF ofMappings, MappingsTyped

LEMMA MappingsAreTyped == MappingsTyped => FM!TypeOK
<1>1. FM!Cardinality(calls) = Cardinality(calls)
    BY DEF FM!Cardinality, Cardinality
<1> QED
    BY <1>1 DEF MappingsTyped, FM!TypeOK

-----------------------------------------------------------------------------
(* Alert triggers *)

LEMMA FunctionIsSeq ==
    ASSUME NEW S, NEW n \in Nat, NEW f \in [1 .. n -> S]
    PROVE  f \in Seq(S) /\ Len(f) = n
<1>1. f \in Seq(S)
    BY SeqDef
<1>2. DOMAIN f = 1 .. Len(f) /\ Len(f) \in Nat
    BY <1>1, LenProperties
<1> QED
    BY <1>1, <1>2

\* A trigger that is deleted leaves the others as they were; those before it stay at their index.
LEMMA Removed ==
    ASSUME NEW S, NEW s \in Seq(S), NEW i \in 1 .. Len(s)
    PROVE  /\ AT!Spliced(s, i) \in Seq(S) /\ Len(AT!Spliced(s, i)) = Len(s) - 1
           /\ \A j \in 1 .. Len(s) - 1 : \E k \in 1 .. Len(s) : AT!Spliced(s, i)[j] = s[k]
           /\ i = Len(s) => \A j \in 1 .. Len(s) - 1 : AT!Spliced(s, i)[j] = s[j]
<1> DEFINE before == SubSeq(s, 1, i - 1)
           after == SubSeq(s, i + 1, Len(s))
<1>1. Len(s) \in Nat /\ \A j \in 1 .. Len(s) : s[j] \in S
    BY LenProperties, ElementOfSeq
<1>2. /\ before \in Seq(S) /\ Len(before) = i - 1
      /\ \A j \in 1 .. i - 1 : before[j] = s[j]
    BY <1>1, SubSeqProperties
<1>3. /\ after \in Seq(S) /\ Len(after) = Len(s) - i
      /\ \A j \in 1 .. Len(s) - i : after[j] = s[i + j]
    BY <1>1, SubSeqProperties
<1>4. AT!Spliced(s, i) = before \o after
    BY DEF AT!Spliced
<1> HIDE DEF before, after
<1>5. /\ before \o after \in Seq(S) /\ Len(before \o after) = Len(s) - 1
      /\ \A j \in 1 .. Len(s) - 1 :
            (before \o after)[j] = IF j <= i - 1 THEN before[j] ELSE after[j - (i - 1)]
  <2>1. Len(before) + Len(after) = Len(s) - 1
      BY <1>1, <1>2, <1>3
  <2>2. /\ before \o after \in Seq(S) /\ Len(before \o after) = Len(before) + Len(after)
        /\ \A j \in 1 .. Len(before) + Len(after) :
              (before \o after)[j] = IF j <= Len(before) THEN before[j]
                                     ELSE after[j - Len(before)]
      BY <1>2, <1>3, ConcatProperties
  <2> QED
      BY <1>2, <2>1, <2>2
<1>6. ASSUME NEW j \in 1 .. Len(s) - 1
      PROVE  (before \o after)[j] = IF j <= i - 1 THEN s[j] ELSE s[j + 1]
  <2>1. CASE j <= i - 1
      BY <1>1, <1>2, <1>5, <2>1
  <2>2. CASE ~(j <= i - 1)
    <3>1. j - (i - 1) \in 1 .. Len(s) - i /\ i + (j - (i - 1)) = j + 1
        BY <1>1, <2>2
    <3> QED
        BY <1>3, <1>5, <2>2, <3>1
  <2> QED
      BY <2>1, <2>2
<1>7. \A j \in 1 .. Len(s) - 1 : \E k \in 1 .. Len(s) : (before \o after)[j] = s[k]
  <2> SUFFICES ASSUME NEW j \in 1 .. Len(s) - 1
               PROVE  \E k \in 1 .. Len(s) : (before \o after)[j] = s[k]
      OBVIOUS
  <2>1. j \in 1 .. Len(s) /\ j + 1 \in 1 .. Len(s)
      BY <1>1
  <2> QED
      BY <1>6, <2>1
<1>8. ASSUME i = Len(s), NEW j \in 1 .. Len(s) - 1 PROVE (before \o after)[j] = s[j]
  <2>1. j <= i - 1
      BY <1>1, <1>8
  <2> QED
      BY <1>6, <2>1
<1> QED
    BY <1>4, <1>5, <1>7, <1>8

\* A trigger is about the log type of the detector, what it uses and its rules, but for those that
\* were named when others were offered.
FitsBut(t, mis) ==
    /\ t.types = {logType} /\ (~mis => t.ids \subseteq AT!RulesOf(logType))
    /\ "threat_intel" \in t.detection_types => threatIntel
Fits(t) == FitsBut(t, misnamed)

\* A panel shows what its trigger has.
Ticks(p, t) == (p.ticked = t.detection_types)
Names(p, t) == p.selectedNames = t.ids \cap rulesOptions

TriggersTyped ==
    /\ form \in {"wizard", "edit", "late", "found"}
    /\ stage \in {"open", "define", "triggers", "done"}
    /\ logType \in LogTypeNames /\ threatIntel \in BOOLEAN /\ isValid \in BOOLEAN
    /\ triggers \in Seq(AT!Triggers) /\ panels \in Seq(AT!Panels)
    /\ stored \in Seq(AT!StoredTriggers(logType, threatIntel))
    /\ rulesOptions \subseteq AT!AllRules /\ searches \in [AT!Searched -> Nat]
    /\ reused \in BOOLEAN /\ retyped \in BOOLEAN /\ misnamed \in BOOLEAN
    /\ changes \in 0 .. ManyEdits + 1

\* What is not read yet, and what is there before anything is opened.
StageFits ==
    /\ form = "wizard" => stage # "open" /\ stored = <<>>
    /\ stage = "open" => rulesOptions = {} /\ triggers = <<>>
    /\ stage = "define" => panels = <<>>
    /\ stage = "triggers" => Len(panels) = Len(triggers)

Judged ==
    /\ stage = "triggers" /\ isValid => AT!isTriggerValid(triggers)
    /\ stage = "done" => AT!isTriggerValid(triggers)

PanelsShow ==
    stage = "triggers" /\ ~reused =>
        \A i \in 1 .. Len(triggers) : Ticks(panels[i], triggers[i]) /\ Names(panels[i], triggers[i])

AllFit == form # "late" /\ ~retyped => \A i \in 1 .. Len(triggers) : Fits(triggers[i])

TriggersInv == TriggersTyped /\ StageFits /\ Judged /\ PanelsShow /\ AllFit

\* What was stored is a valid trigger that fits.
LEMMA StoredFits ==
    ASSUME TriggersTyped, NEW t \in AT!StoredTriggers(logType, threatIntel)
    PROVE  t \in AT!Triggers /\ AT!TriggerValid(t) /\ Fits(t)
<1>1. PICK d \in (IF threatIntel THEN (SUBSET AT!Types) \ {{}} ELSE {{"rules"}}),
           ids \in SUBSET AT!RulesOf(logType) :
              t = [name |-> "good", detection_types |-> d, ids |-> ids, types |-> {logType}]
    BY DEF AT!StoredTriggers
<1>2. d # {} /\ d \subseteq AT!Types /\ ("threat_intel" \in d => threatIntel)
  <2>1. CASE threatIntel
    <3>1. d \in (SUBSET AT!Types) \ {{}}
        BY <1>1, <2>1
    <3> QED
        BY <2>1, <3>1
  <2>2. CASE ~threatIntel
    <3>1. d = {"rules"}
        BY <1>1, <2>2
    <3> QED
        BY <3>1 DEF AT!Types
  <2> QED
      BY <2>1, <2>2
<1>3. logType \in LogTypeNames /\ ids \subseteq AT!AllRules
    BY DEF TriggersTyped, AT!AllRules
<1> QED
    BY <1>1, <1>2, <1>3 DEF AT!Triggers, AT!TriggerValid, Fits, FitsBut

\* So is a trigger that is added, but for its name and types, which it gets as its panel mounts.
LEMMA AddedFits ==
    ASSUME TriggersTyped
    PROVE  /\ AT!AddedCondition \in AT!Triggers
           /\ AT!AddedCondition.ids = {} /\ AT!AddedCondition.types = {}
           /\ "threat_intel" \in AT!AddedCondition.detection_types => threatIntel
BY DEF TriggersTyped, AT!AddedCondition, AT!EmptyAlertCondition, AT!TriggerName, AT!Triggers,
       AT!Types

\* A message is prepared of the trigger as it is.
LEMMA PreparedKeeps ==
    ASSUME TriggersTyped, NEW t \in AT!Triggers
    PROVE  /\ AT!Prepared(t) \in AT!Triggers
           /\ AT!Prepared(t).name = t.name /\ AT!Prepared(t).ids = t.ids
           /\ AT!Prepared(t).detection_types = t.detection_types
           /\ AT!Prepared(t).types = IF t.types # {} THEN t.types ELSE {logType}
<1>1. CASE t.types # {}
    BY <1>1 DEF AT!Prepared
<1>2. CASE t.types = {}
    BY <1>2 DEF AT!Prepared, AT!Triggers, TriggersTyped
<1> QED
    BY <1>1, <1>2

LEMMA MountedTicks ==
    ASSUME NEW t \in AT!Triggers
    PROVE  /\ AT!Mounted(t) \in AT!Panels
           /\ AT!Mounted(t).ticked = t.detection_types /\ AT!Mounted(t).selectedNames = {}
BY DEF AT!Mounted, AT!Panels, AT!Triggers

\* Panels that name their rules again.
LEMMA NamedShow ==
    ASSUME NEW ps \in Seq(AT!Panels), NEW ts \in Seq(AT!Triggers), Len(ps) = Len(ts),
           NEW options, options \subseteq AT!AllRules
    PROVE  /\ AT!Named(ps, ts, options) \in Seq(AT!Panels)
           /\ Len(AT!Named(ps, ts, options)) = Len(ts)
           /\ \A i \in 1 .. Len(ts) :
                 /\ AT!Named(ps, ts, options)[i].ticked = ps[i].ticked
                 /\ AT!Named(ps, ts, options)[i].selectedNames = ts[i].ids \cap options
<1> DEFINE named == AT!Named(ps, ts, options)
<1>1. Len(ts) \in Nat /\ DOMAIN ps = 1 .. Len(ts) /\ \A i \in 1 .. Len(ts) : ps[i] \in AT!Panels
    BY LenProperties, ElementOfSeq
<1>2. named = [i \in 1 .. Len(ts) |-> [ps[i] EXCEPT !.selectedNames = ts[i].ids \cap options]]
    BY <1>1 DEF AT!Named
<1>3. ASSUME NEW i \in 1 .. Len(ts)
      PROVE  /\ named[i] \in AT!Panels /\ named[i].ticked = ps[i].ticked
             /\ named[i].selectedNames = ts[i].ids \cap options
  <2>1. named[i] = [ps[i] EXCEPT !.selectedNames = ts[i].ids \cap options]
      BY <1>2
  <2>2. ts[i].ids \cap options \subseteq AT!AllRules
      OBVIOUS
  <2> QED
      BY <1>1, <2>1, <2>2 DEF AT!Panels
<1> HIDE DEF named
<1>4. named \in [1 .. Len(ts) -> AT!Panels]
    BY <1>2, <1>3
<1> QED
    BY <1>1, <1>3, <1>4, FunctionIsSeq DEF named

LEMMA TriggersInit == AT!Init => TriggersInv
<1> SUFFICES ASSUME AT!Init PROVE TriggersInv
    OBVIOUS
<1>1. /\ triggers = <<>> /\ panels = <<>> /\ Len(triggers) = 0 /\ Len(panels) = 0
      /\ stage # "triggers" /\ stage # "done"
    BY DEF AT!Init
<1>2. stored \in Seq(AT!StoredTriggers(logType, threatIntel))
  <2>1. CASE stored = <<>>
      BY <2>1
  <2>2. CASE stored \in AT!StoredLists(logType, threatIntel)
      BY <2>2, SeqDef DEF AT!StoredLists
  <2> QED
      BY <2>1, <2>2 DEF AT!Init
<1>3. TriggersTyped
  <2>1. changes \in 0 .. ManyEdits + 1
      BY MCPagesAssumption DEF AT!Init
  <2>2. triggers \in Seq(AT!Triggers) /\ panels \in Seq(AT!Panels)
      BY <1>1
  <2>3. searches \in [AT!Searched -> Nat]
      BY DEF AT!Init
  <2> QED
      BY <1>2, <2>1, <2>2, <2>3 DEF AT!Init, TriggersTyped
<1> QED
    BY <1>1, <1>3 DEF AT!Init, TriggersInv, StageFits, Judged, PanelsShow, AllFit

\* Triggers and panels as they are mounted, over these.
LEMMA TriggersMount ==
    ASSUME TriggersInv, NEW all \in Seq(AT!Triggers),
           /\ triggers' = [i \in DOMAIN all |-> AT!Prepared(all[i])]
           /\ isValid' = AT!isTriggerValid(all),
           \/ /\ rulesOptions = {} /\ panels' = [i \in DOMAIN all |-> AT!Mounted(all[i])]
           \/ panels' = AT!Named([i \in DOMAIN all |-> AT!Mounted(all[i])], all, rulesOptions),
           form # "late" /\ ~retyped =>
               \A i \in 1 .. Len(all) :
                   /\ all[i].types = {} \/ all[i].types = {logType}
                   /\ ~misnamed => all[i].ids \subseteq AT!RulesOf(logType)
                   /\ "threat_intel" \in all[i].detection_types => threatIntel,
           stage' = "triggers", stored' = stored \/ stored' = <<>>,
           form = "wizard" => stored' = <<>>,
           UNCHANGED <<form, logType, threatIntel, rulesOptions, searches, reused, retyped,
                       misnamed, changes>>
    PROVE  TriggersInv'
<1>1. /\ TriggersTyped /\ Len(all) \in Nat /\ DOMAIN all = 1 .. Len(all)
      /\ \A i \in 1 .. Len(all) : all[i] \in AT!Triggers
    BY LenProperties, ElementOfSeq DEF TriggersInv
<1>2. ASSUME NEW i \in 1 .. Len(all)
      PROVE  /\ triggers'[i] \in AT!Triggers
             /\ triggers'[i].name = all[i].name /\ triggers'[i].ids = all[i].ids
             /\ triggers'[i].detection_types = all[i].detection_types
             /\ triggers'[i].types = IF all[i].types # {} THEN all[i].types ELSE {logType}
    BY <1>1, PreparedKeeps
<1>3. triggers' \in [1 .. Len(all) -> AT!Triggers]
    BY <1>1, <1>2
<1>4. /\ triggers' \in Seq(AT!Triggers) /\ Len(triggers') = Len(all)
      /\ DOMAIN triggers' = 1 .. Len(all)
    BY <1>1, <1>3, FunctionIsSeq
<1>5. /\ panels' \in Seq(AT!Panels) /\ Len(panels') = Len(all)
      /\ \A i \in 1 .. Len(all) :
            /\ panels'[i].ticked = all[i].detection_types
            /\ panels'[i].selectedNames = all[i].ids \cap rulesOptions
  <2> DEFINE mountedPanels == [i \in DOMAIN all |-> AT!Mounted(all[i])]
  <2>1. ASSUME NEW i \in 1 .. Len(all)
        PROVE  /\ mountedPanels[i] \in AT!Panels
               /\ mountedPanels[i].ticked = all[i].detection_types
               /\ mountedPanels[i].selectedNames = {}
      BY <1>1, MountedTicks
  <2>2. mountedPanels \in [1 .. Len(all) -> AT!Panels]
      BY <1>1, <2>1
  <2>3. mountedPanels \in Seq(AT!Panels) /\ Len(mountedPanels) = Len(all)
      BY <1>1, <2>2, FunctionIsSeq
  <2> HIDE DEF mountedPanels
  <2>4. CASE rulesOptions = {} /\ panels' = mountedPanels
      BY <2>1, <2>3, <2>4
  <2>5. CASE panels' = AT!Named(mountedPanels, all, rulesOptions)
    <3>1. rulesOptions \subseteq AT!AllRules
        BY <1>1 DEF TriggersTyped, AT!AllRules
    <3> QED
        BY <2>1, <2>3, <2>5, <3>1, NamedShow
  <2> QED
      BY <2>4, <2>5 DEF mountedPanels
<1>6. isValid' \in BOOLEAN /\ (isValid' => AT!isTriggerValid(triggers'))
    BY <1>1, <1>2, <1>4 DEF AT!isTriggerValid, AT!TriggerValid
<1>7. TriggersTyped'
  <2>1. stored' \in Seq(AT!StoredTriggers(logType, threatIntel))
      BY <1>1, EmptySeq DEF TriggersTyped
  <2> QED
      BY <1>1, <1>4, <1>5, <1>6, <2>1 DEF TriggersTyped
<1>8. StageFits'
    BY <1>4, <1>5 DEF TriggersInv, StageFits
<1>9. Judged'
    BY <1>6 DEF Judged
<1>10. PanelsShow'
    BY <1>2, <1>4, <1>5 DEF PanelsShow, Ticks, Names
<1>11. AllFit'
    BY <1>2, <1>4 DEF AllFit, Fits, FitsBut
<1> QED
    BY <1>7, <1>8, <1>9, <1>10, <1>11 DEF TriggersInv

\* Nothing, or one trigger that is added.
LEMMA NothingOrAdded ==
    ASSUME TriggersTyped
    PROVE  /\ <<AT!AddedCondition>> \in Seq(AT!Triggers) /\ Len(<<AT!AddedCondition>>) = 1
           /\ <<AT!AddedCondition>>[1] = AT!AddedCondition
           /\ AT!AddedCondition.ids = {} /\ AT!AddedCondition.types = {}
           /\ "threat_intel" \in AT!AddedCondition.detection_types => threatIntel
BY AddedFits

LEMMA TriggersOpened == ASSUME TriggersInv, AT!Open PROVE TriggersInv'
<1> DEFINE over == IF form = "edit" THEN stored ELSE <<>>
           all == IF over = <<>> THEN <<AT!AddedCondition>> ELSE over
<1>1. /\ TriggersTyped /\ form # "wizard" /\ rulesOptions = {} /\ stage = "open"
    BY DEF TriggersInv, StageFits, AT!Open
<1>2. /\ AT!Mount(over) /\ stage' = "triggers" /\ (stored' = stored \/ stored' = <<>>)
      /\ UNCHANGED <<form, logType, threatIntel, rulesOptions, searches, reused, retyped, misnamed,
                     changes>>
    BY DEF AT!Open
<1>3. /\ triggers' = [i \in DOMAIN all |-> AT!Prepared(all[i])]
      /\ panels' = [i \in DOMAIN all |-> AT!Mounted(all[i])]
      /\ isValid' = AT!isTriggerValid(all)
    BY <1>2 DEF AT!Mount
<1>4. /\ all \in Seq(AT!Triggers)
      /\ \A i \in 1 .. Len(all) :
             /\ all[i].types = {} \/ all[i].types = {logType}
             /\ ~misnamed => all[i].ids \subseteq AT!RulesOf(logType)
             /\ "threat_intel" \in all[i].detection_types => threatIntel
  <2>1. CASE all = <<AT!AddedCondition>>
    <3>1. Len(all) = 1 /\ all[1] = AT!AddedCondition
        BY <2>1
    <3>2. \A i \in 1 .. Len(all) : all[i] = AT!AddedCondition
        BY <3>1
    <3> QED
        BY <1>1, <2>1, <3>2, NothingOrAdded
  <2>2. CASE all = stored
    <3>1. \A t \in AT!StoredTriggers(logType, threatIntel) : t \in AT!Triggers /\ Fits(t)
        BY <1>1, StoredFits
    <3>2. stored \in Seq(AT!StoredTriggers(logType, threatIntel))
        BY <1>1 DEF TriggersTyped
    <3>3. stored \in Seq(AT!Triggers)
        BY <3>1, <3>2, SeqMonotonic
    <3>4. \A i \in 1 .. Len(stored) : Fits(stored[i])
        BY <3>1, <3>2, ElementOfSeq
    <3> QED
        BY <2>2, <3>3, <3>4 DEF Fits, FitsBut
  <2> QED
      BY <2>1, <2>2
<1> HIDE DEF over, all
<1> QED
    BY <1>1, <1>2, <1>3, <1>4, TriggersMount

LEMMA TriggersNext == ASSUME TriggersInv, AT!OnNextClick PROVE TriggersInv'
<1> DEFINE all == IF triggers = <<>> THEN <<AT!AddedCondition>> ELSE triggers
<1>1. TriggersTyped /\ form = "wizard" /\ stored = <<>>
    BY DEF TriggersInv, StageFits, AT!OnNextClick, AT!Defining
<1>2. /\ triggers' = [i \in DOMAIN all |-> AT!Prepared(all[i])]
      /\ panels' = AT!Named([i \in DOMAIN all |-> AT!Mounted(all[i])], all, rulesOptions)
      /\ isValid' = AT!isTriggerValid(all)
      /\ stage' = "triggers"
      /\ UNCHANGED <<form, logType, threatIntel, rulesOptions, searches, stored, reused, retyped,
                     misnamed, changes>>
    BY DEF AT!OnNextClick
<1>3. all \in Seq(AT!Triggers)
    BY <1>1, NothingOrAdded DEF TriggersTyped
<1>4. form # "late" /\ ~retyped =>
          \A i \in 1 .. Len(all) :
             /\ all[i].types = {} \/ all[i].types = {logType}
             /\ ~misnamed => all[i].ids \subseteq AT!RulesOf(logType)
             /\ "threat_intel" \in all[i].detection_types => threatIntel
  <2>1. CASE all = <<AT!AddedCondition>>
    <3>1. Len(all) = 1 /\ all[1] = AT!AddedCondition
        BY <2>1
    <3>2. \A i \in 1 .. Len(all) : all[i] = AT!AddedCondition
        BY <3>1
    <3> QED
        BY <1>1, <2>1, <3>2, NothingOrAdded
  <2>2. CASE all = triggers
      BY <2>2 DEF TriggersInv, AllFit, Fits, FitsBut
  <2> QED
      BY <2>1, <2>2
<1> HIDE DEF all
<1> QED
    BY <1>1, <1>2, <1>3, <1>4, TriggersMount

\* A change of the triggers and their panels: they are judged anew.
LEMMA TriggersChange ==
    ASSUME TriggersInv, stage = "triggers",
           NEW ts \in Seq(AT!Triggers), NEW ps \in Seq(AT!Panels), Len(ps) = Len(ts),
           NEW mis \in BOOLEAN, misnamed' = mis,
           AT!Change(ts, ps), AT!KeptBut, AT!Acts, reused' \in BOOLEAN,
           form # "late" /\ ~retyped => \A i \in 1 .. Len(ts) : FitsBut(ts[i], mis),
           ~reused' => \A i \in 1 .. Len(ts) : Ticks(ps[i], ts[i]) /\ Names(ps[i], ts[i])
    PROVE  TriggersInv'
<1>1. /\ TriggersTyped /\ triggers' = ts /\ panels' = AT!Rerendered(ps, ts)
      /\ isValid' = AT!isTriggerValid(ts)
      /\ UNCHANGED <<form, stage, logType, threatIntel, rulesOptions, searches, stored, retyped>>
      /\ changes' \in 0 .. ManyEdits + 1
    BY MCPagesAssumption, SMTT(30) DEF TriggersInv, TriggersTyped, AT!Change, AT!KeptBut, AT!Acts
<1>2. /\ panels' \in Seq(AT!Panels) /\ Len(panels') = Len(ts)
      /\ \A i \in 1 .. Len(ts) :
            /\ panels'[i].ticked = ps[i].ticked
            /\ Names(ps[i], ts[i]) => panels'[i].selectedNames = ts[i].ids \cap rulesOptions
  <2>1. CASE form = "wizard"
    <3>1. rulesOptions \subseteq AT!AllRules
        BY <1>1 DEF TriggersTyped, AT!AllRules
    <3>2. panels' = AT!Named(ps, ts, rulesOptions)
        BY <1>1, <2>1 DEF AT!Rerendered
    <3> QED
        BY <3>1, <3>2, NamedShow
  <2>2. CASE form # "wizard"
      BY <1>1, <2>2 DEF AT!Rerendered, Names
  <2> QED
      BY <2>1, <2>2
<1>3. TriggersTyped'
    BY <1>1, <1>2 DEF TriggersTyped, AT!isTriggerValid
<1>4. StageFits'
    BY <1>1, <1>2 DEF TriggersInv, StageFits
<1>5. Judged'
    BY <1>1 DEF Judged
<1>6. PanelsShow'
    BY <1>1, <1>2 DEF PanelsShow, Ticks, Names
<1>7. AllFit'
    BY <1>1 DEF AllFit, Fits, FitsBut
<1> QED
    BY <1>3, <1>4, <1>5, <1>6, <1>7 DEF TriggersInv

\* What holds of triggers and panels while they are edited.
LEMMA TriggersEdited ==
    ASSUME TriggersInv, stage = "triggers"
    PROVE  /\ Len(triggers) \in Nat /\ Len(panels) = Len(triggers)
           /\ DOMAIN triggers = 1 .. Len(triggers) /\ DOMAIN panels = 1 .. Len(triggers)
           /\ triggers \in Seq(AT!Triggers) /\ panels \in Seq(AT!Panels)
           /\ \A i \in 1 .. Len(triggers) : triggers[i] \in AT!Triggers /\ panels[i] \in AT!Panels
           /\ form # "late" /\ ~retyped => \A i \in 1 .. Len(triggers) : Fits(triggers[i])
           /\ ~reused => \A i \in 1 .. Len(triggers) :
                            Ticks(panels[i], triggers[i]) /\ Names(panels[i], triggers[i])
<1>1. /\ triggers \in Seq(AT!Triggers) /\ panels \in Seq(AT!Panels) /\ Len(panels) = Len(triggers)
    BY DEF TriggersInv, TriggersTyped, StageFits
<1> QED
    BY <1>1, LenProperties, ElementOfSeq DEF TriggersInv, PanelsShow, AllFit

LEMMA TriggersAdded == ASSUME TriggersInv, AT!AddCondition PROVE TriggersInv'
<1> DEFINE added == AT!AddedCondition
           ts == Append(triggers, AT!Prepared(added))
           ps == Append(panels, AT!Mounted(added))
<1>1. /\ TriggersTyped /\ stage = "triggers" /\ AT!Acts /\ AT!Change(ts, ps) /\ AT!KeptBut
      /\ reused' = reused /\ reused \in BOOLEAN /\ misnamed' = misnamed /\ misnamed \in BOOLEAN
    BY DEF TriggersInv, TriggersTyped, AT!AddCondition, AT!Editing, AT!Kept
<1>2. /\ added \in AT!Triggers /\ AT!Prepared(added) \in AT!Triggers
      /\ AT!Mounted(added) \in AT!Panels
      /\ Fits(AT!Prepared(added)) /\ Ticks(AT!Mounted(added), AT!Prepared(added))
      /\ Names(AT!Mounted(added), AT!Prepared(added))
    BY <1>1, AddedFits, PreparedKeeps, MountedTicks DEF Fits, FitsBut, Ticks, Names
<1>3. /\ ts \in Seq(AT!Triggers) /\ ps \in Seq(AT!Panels) /\ Len(ps) = Len(ts)
      /\ Len(ts) = Len(triggers) + 1
      /\ ts[Len(triggers) + 1] = AT!Prepared(added) /\ ps[Len(triggers) + 1] = AT!Mounted(added)
      /\ \A i \in 1 .. Len(triggers) : ts[i] = triggers[i] /\ ps[i] = panels[i]
  <2>1. Len(panels) = Len(triggers) /\ Len(triggers) \in Nat
      BY <1>1, TriggersEdited
  <2> QED
      BY <1>1, <1>2, <2>1, TriggersEdited, AppendProperties
<1>4. \A i \in 1 .. Len(ts) : i \in 1 .. Len(triggers) \/ i = Len(triggers) + 1
    BY <1>1, <1>3, TriggersEdited
<1> HIDE DEF ts, ps, added
<1>5. form # "late" /\ ~retyped => \A i \in 1 .. Len(ts) : FitsBut(ts[i], misnamed)
    BY <1>1, <1>2, <1>3, <1>4, TriggersEdited DEF Fits
<1>6. ~reused => \A i \in 1 .. Len(ts) : Ticks(ps[i], ts[i]) /\ Names(ps[i], ts[i])
    BY <1>1, <1>2, <1>3, <1>4, TriggersEdited
<1> QED
    BY <1>1, <1>3, <1>5, <1>6, TriggersChange

LEMMA TriggersDeleted ==
    ASSUME TriggersInv, NEW i \in DOMAIN triggers, AT!OnDelete(i) PROVE TriggersInv'
<1> DEFINE ts == AT!Spliced(triggers, i)
           ps == SubSeq(panels, 1, Len(panels) - 1)
<1>1. /\ TriggersTyped /\ stage = "triggers" /\ AT!Acts /\ AT!Change(ts, ps) /\ AT!KeptBut
      /\ reused' = (reused \/ i < Len(triggers)) /\ reused \in BOOLEAN
      /\ misnamed' = misnamed /\ misnamed \in BOOLEAN
    BY DEF TriggersInv, TriggersTyped, AT!OnDelete, AT!Editing, AT!Kept
<1>2. /\ i \in 1 .. Len(triggers) /\ Len(triggers) \in Nat /\ Len(panels) = Len(triggers)
      /\ triggers \in Seq(AT!Triggers)
      /\ \A j \in 1 .. Len(triggers) : panels[j] \in AT!Panels
    BY <1>1, TriggersEdited
<1>3. /\ ts \in Seq(AT!Triggers) /\ Len(ts) = Len(triggers) - 1
      /\ \A j \in 1 .. Len(triggers) - 1 : \E k \in 1 .. Len(triggers) : ts[j] = triggers[k]
      /\ i = Len(triggers) => \A j \in 1 .. Len(triggers) - 1 : ts[j] = triggers[j]
    BY <1>2, Removed
<1>4. /\ ps \in Seq(AT!Panels) /\ Len(ps) = Len(triggers) - 1
      /\ \A j \in 1 .. Len(triggers) - 1 : ps[j] = panels[j]
  <2>1. /\ Len(triggers) - 1 \in Int /\ 1 <= Len(triggers)
        /\ \A j \in 1 .. Len(triggers) - 1 : panels[j] \in AT!Panels
      BY <1>2
  <2>2. ps = SubSeq(panels, 1, Len(triggers) - 1)
      BY <1>2
  <2> HIDE DEF ps
  <2>3. /\ ps \in Seq(AT!Panels)
        /\ Len(ps) = IF 1 <= Len(triggers) - 1 THEN (Len(triggers) - 1) - 1 + 1 ELSE 0
        /\ \A j \in 1 .. (Len(triggers) - 1) - 1 + 1 : ps[j] = panels[1 + j - 1]
      BY <2>1, <2>2, SubSeqProperties
  <2> QED
      BY <1>2, <2>1, <2>3
<1> HIDE DEF ts, ps
<1>5. form # "late" /\ ~retyped => \A j \in 1 .. Len(ts) : FitsBut(ts[j], misnamed)
    BY <1>1, <1>3, TriggersEdited DEF Fits
<1>6. ~reused' => \A j \in 1 .. Len(ts) : Ticks(ps[j], ts[j]) /\ Names(ps[j], ts[j])
  <2> SUFFICES ASSUME ~reused', NEW j \in 1 .. Len(ts)
               PROVE  Ticks(ps[j], ts[j]) /\ Names(ps[j], ts[j])
      OBVIOUS
  <2>1. ~reused /\ ~(i < Len(triggers))
      BY <1>1
  <2>2. i = Len(triggers)
      BY <1>2, <2>1
  <2>3. j \in 1 .. Len(triggers) - 1 /\ j \in 1 .. Len(triggers)
      BY <1>2, <1>3
  <2> QED
      BY <1>1, <1>3, <1>4, <2>1, <2>2, <2>3, TriggersEdited
<1>7. Len(ps) = Len(ts) /\ reused' \in BOOLEAN
    BY <1>1, <1>3, <1>4
<1> QED
    BY <1>1, <1>3, <1>4, <1>5, <1>6, <1>7, TriggersChange

\* A trigger that is changed fits as before, and so does its panel.
LEMMA TriggersUpdated ==
    ASSUME TriggersInv, stage = "triggers", NEW i \in DOMAIN triggers,
           NEW t \in AT!Triggers, NEW p \in AT!Panels, NEW ps,
           ps = [panels EXCEPT ![i] = p],
           NEW mis \in BOOLEAN, misnamed' = mis, misnamed => mis,
           AT!UpdateTrigger(i, t, ps), AT!KeptBut, AT!Acts, reused' = reused,
           form # "late" /\ ~retyped => /\ ~mis => t.ids \subseteq AT!RulesOf(logType)
                                        /\ "threat_intel" \in t.detection_types => threatIntel,
           ~reused => Ticks(p, t) /\ Names(p, t)
    PROVE  TriggersInv'
<1> DEFINE u == [t EXCEPT !.types = {logType}]
           ts == [triggers EXCEPT ![i] = u]
<1>1. AT!Change(ts, ps) /\ logType \in LogTypeNames /\ reused \in BOOLEAN
    BY DEF AT!UpdateTrigger, TriggersInv, TriggersTyped
<1>2. /\ u \in AT!Triggers /\ u.types = {logType} /\ u.ids = t.ids /\ u.name = t.name
      /\ u.detection_types = t.detection_types
    BY <1>1 DEF AT!Triggers
<1> HIDE DEF u
<1>3. /\ i \in 1 .. Len(triggers) /\ Len(panels) = Len(triggers)
      /\ triggers \in Seq(AT!Triggers) /\ panels \in Seq(AT!Panels)
    BY TriggersEdited
<1>4. /\ ts \in Seq(AT!Triggers) /\ Len(ts) = Len(triggers)
      /\ \A j \in 1 .. Len(triggers) : ts[j] = IF j = i THEN u ELSE triggers[j]
    BY <1>2, <1>3, ExceptSeq
<1>5. /\ ps \in Seq(AT!Panels) /\ Len(ps) = Len(triggers)
      /\ \A j \in 1 .. Len(triggers) : ps[j] = IF j = i THEN p ELSE panels[j]
    BY <1>3, ExceptSeq
<1> HIDE DEF ts
<1>6. form # "late" /\ ~retyped => \A j \in 1 .. Len(ts) : FitsBut(ts[j], mis)
  <2>1. form # "late" /\ ~retyped => FitsBut(u, mis)
      BY <1>2 DEF FitsBut
  <2>2. \A v : Fits(v) => FitsBut(v, mis)
      BY DEF Fits, FitsBut
  <2> QED
      BY <1>4, <2>1, <2>2, TriggersEdited
<1>7. ~reused' => \A j \in 1 .. Len(ts) : Ticks(ps[j], ts[j]) /\ Names(ps[j], ts[j])
  <2>1. ~reused => Ticks(p, u) /\ Names(p, u)
      BY <1>2 DEF Ticks, Names
  <2> QED
      BY <1>4, <1>5, <2>1, TriggersEdited
<1> QED
    BY <1>1, <1>4, <1>5, <1>6, <1>7, TriggersChange

LEMMA TriggersRenamed ==
    ASSUME TriggersInv, NEW i \in DOMAIN triggers, NEW name \in {"", "good"},
           AT!OnNameChange(i, name)
    PROVE  TriggersInv'
<1> DEFINE t == [triggers[i] EXCEPT !.name = name]
<1>1. /\ stage = "triggers" /\ AT!Acts /\ AT!UpdateTrigger(i, t, panels) /\ AT!KeptBut
      /\ reused' = reused /\ misnamed' = misnamed /\ misnamed \in BOOLEAN
    BY DEF AT!OnNameChange, AT!Editing, AT!Kept, TriggersInv, TriggersTyped
<1>2. /\ i \in 1 .. Len(triggers) /\ DOMAIN panels = 1 .. Len(triggers)
      /\ triggers[i] \in AT!Triggers /\ panels[i] \in AT!Panels
    BY <1>1, TriggersEdited
<1>3. /\ t \in AT!Triggers /\ t.ids = triggers[i].ids
      /\ t.detection_types = triggers[i].detection_types
    BY <1>2 DEF AT!Triggers
<1>4. panels = [panels EXCEPT ![i] = panels[i]]
  <2>1. panels \in Seq(AT!Panels)
      BY <1>1, TriggersEdited
  <2> QED
      BY <1>2, <2>1, LenProperties
<1> HIDE DEF t
<1>5. form # "late" /\ ~retyped => Fits(triggers[i])
    BY <1>1, <1>2, TriggersEdited
<1>6. ~reused => Ticks(panels[i], triggers[i]) /\ Names(panels[i], triggers[i])
    BY <1>1, <1>2, TriggersEdited
<1> QED
    BY <1>1, <1>2, <1>3, <1>4, <1>5, <1>6, TriggersUpdated DEF Fits, FitsBut, Ticks, Names

LEMMA TriggersTicked ==
    ASSUME TriggersInv, NEW i \in DOMAIN triggers, NEW type \in AT!Types,
           AT!OnDetectionTypeChange(i, type)
    PROVE  TriggersInv'
<1> DEFINE Set(types) == IF type \notin panels[i].ticked THEN types \cup {type} ELSE types \ {type}
           dt == Set(triggers[i].detection_types)
           tk == Set(panels[i].ticked)
           t == [triggers[i] EXCEPT !.detection_types = dt]
           p == [panels[i] EXCEPT !.ticked = tk]
           ps == [panels EXCEPT ![i] = p]
<1>1. /\ stage = "triggers" /\ AT!Acts /\ AT!KeptBut /\ reused' = reused /\ threatIntel
      /\ misnamed' = misnamed /\ misnamed \in BOOLEAN
    BY DEF AT!OnDetectionTypeChange, AT!Editing, AT!Kept, TriggersInv, TriggersTyped
<1>2. AT!UpdateTrigger(i, t, ps)
    BY DEF AT!OnDetectionTypeChange
<1>3. /\ i \in 1 .. Len(triggers) /\ DOMAIN panels = 1 .. Len(triggers)
      /\ triggers[i] \in AT!Triggers /\ panels[i] \in AT!Panels
    BY <1>1, TriggersEdited
<1>4. dt \subseteq AT!Types /\ tk \subseteq AT!Types
  <2>1. triggers[i].detection_types \subseteq AT!Types /\ panels[i].ticked \subseteq AT!Types
      BY <1>3 DEF AT!Triggers, AT!Panels
  <2> QED
      BY <2>1
<1>5. triggers[i].detection_types = panels[i].ticked => dt = tk
    OBVIOUS
<1> HIDE DEF dt, tk
<1>6. t \in AT!Triggers /\ t.ids = triggers[i].ids /\ t.detection_types = dt
    BY <1>3, <1>4 DEF AT!Triggers
<1>7. p \in AT!Panels /\ p.ticked = tk /\ p.selectedNames = panels[i].selectedNames
    BY <1>3, <1>4 DEF AT!Panels
<1> HIDE DEF t, p
<1>8. form # "late" /\ ~retyped => Fits(triggers[i])
    BY <1>1, <1>3, TriggersEdited
<1>9. ~reused => Ticks(panels[i], triggers[i]) /\ Names(panels[i], triggers[i])
    BY <1>1, <1>3, TriggersEdited
<1>10. /\ form # "late" /\ ~retyped => /\ ~misnamed => t.ids \subseteq AT!RulesOf(logType)
                                       /\ "threat_intel" \in t.detection_types => threatIntel
       /\ ~reused => Ticks(p, t) /\ Names(p, t)
    BY <1>1, <1>5, <1>6, <1>7, <1>8, <1>9 DEF Fits, FitsBut, Ticks, Names
<1> QED
    BY <1>1, <1>2, <1>6, <1>7, <1>10, TriggersUpdated

LEMMA TriggersRuled ==
    ASSUME TriggersInv, NEW i \in DOMAIN triggers, NEW ids \in SUBSET rulesOptions,
           AT!OnRuleNamesChange(i, ids)
    PROVE  TriggersInv'
<1> DEFINE t == [triggers[i] EXCEPT !.ids = ids]
           p == [panels[i] EXCEPT !.selectedNames = ids \cap rulesOptions]
           ps == [panels EXCEPT ![i] = p]
           mis == misnamed \/ ~(rulesOptions \subseteq AT!RulesOf(logType))
<1>1. /\ stage = "triggers" /\ AT!Acts /\ AT!KeptBut /\ reused' = reused
      /\ misnamed' = mis /\ mis \in BOOLEAN
    BY DEF AT!OnRuleNamesChange, AT!Editing, TriggersInv, TriggersTyped
<1>2. AT!UpdateTrigger(i, t, ps)
    BY DEF AT!OnRuleNamesChange
<1>3. /\ i \in 1 .. Len(triggers) /\ DOMAIN panels = 1 .. Len(triggers)
      /\ triggers[i] \in AT!Triggers /\ panels[i] \in AT!Panels
    BY <1>1, TriggersEdited
<1>4. rulesOptions \subseteq AT!AllRules
    BY DEF TriggersInv, TriggersTyped
<1>5. /\ t \in AT!Triggers /\ t.ids = ids /\ t.detection_types = triggers[i].detection_types
  <2>1. ids \in SUBSET AT!AllRules
      BY <1>4
  <2> QED
      BY <1>3, <2>1 DEF AT!Triggers
<1>6. p \in AT!Panels /\ p.ticked = panels[i].ticked /\ p.selectedNames = ids \cap rulesOptions
  <2>1. ids \cap rulesOptions \in SUBSET AT!AllRules
      BY <1>4
  <2> QED
      BY <1>3, <2>1 DEF AT!Panels
<1> HIDE DEF t, p
<1>7. form # "late" /\ ~retyped => Fits(triggers[i])
    BY <1>1, <1>3, TriggersEdited
<1>8. ~reused => Ticks(panels[i], triggers[i])
    BY <1>1, <1>3, TriggersEdited
<1>9. /\ misnamed => mis
      /\ form # "late" /\ ~retyped => /\ ~mis => t.ids \subseteq AT!RulesOf(logType)
                                      /\ "threat_intel" \in t.detection_types => threatIntel
      /\ ~reused => Ticks(p, t) /\ Names(p, t)
    BY <1>4, <1>5, <1>6, <1>7, <1>8 DEF Fits, FitsBut, Ticks, Names
<1> HIDE DEF mis
<1> QED
    BY <1>1, <1>2, <1>5, <1>6, <1>9, TriggersUpdated

LEMMA TriggersFound ==
    ASSUME TriggersInv, AT!DetectorFound \/ AT!RulesFound PROVE TriggersInv'
<1>1. CASE AT!DetectorFound
  <2> DEFINE kept == IF Len(panels) < Len(stored) THEN Len(panels) ELSE Len(stored)
             ps == [i \in DOMAIN stored |->
                       IF i <= kept THEN panels[i] ELSE AT!Mounted(stored[i])]
  <2>1. /\ TriggersTyped /\ stage = "triggers" /\ form' = "found"
        /\ panels' = ps /\ triggers' = stored /\ stored' = <<>> /\ reused' = TRUE
        /\ UNCHANGED <<stage, logType, threatIntel, rulesOptions, searches, isValid, retyped,
                       misnamed, changes>>
      BY <1>1 DEF AT!DetectorFound, TriggersInv
  <2>2. \A t \in AT!StoredTriggers(logType, threatIntel) :
            t \in AT!Triggers /\ AT!TriggerValid(t) /\ Fits(t)
      BY <2>1, StoredFits
  <2>3. stored \in Seq(AT!StoredTriggers(logType, threatIntel))
      BY <2>1 DEF TriggersTyped
  <2>4. stored \in Seq(AT!Triggers)
      BY <2>2, <2>3, SeqMonotonic
  <2>5. /\ Len(stored) \in Nat /\ DOMAIN stored = 1 .. Len(stored)
        /\ \A i \in 1 .. Len(stored) :
              stored[i] \in AT!Triggers /\ AT!TriggerValid(stored[i]) /\ Fits(stored[i])
      BY <2>2, <2>3, ElementOfSeq, LenProperties
  <2>6. Len(panels) \in Nat /\ \A i \in 1 .. Len(panels) : panels[i] \in AT!Panels
      BY <2>1, TriggersEdited, LenProperties, ElementOfSeq
  <2>7. ASSUME NEW i \in 1 .. Len(stored) PROVE ps[i] \in AT!Panels
    <3>1. CASE i <= kept
      <4>1. i \in 1 .. Len(panels)
          BY <2>5, <2>6, <3>1
      <4> QED
          BY <2>5, <2>6, <3>1, <4>1
    <3>2. CASE ~(i <= kept)
        BY <2>5, <3>2, MountedTicks
    <3> QED
        BY <3>1, <3>2
  <2>8. ps \in [1 .. Len(stored) -> AT!Panels]
      BY <2>5, <2>7
  <2> HIDE DEF ps
  <2>9. ps \in Seq(AT!Panels) /\ Len(ps) = Len(stored)
      BY <2>5, <2>8, FunctionIsSeq
  <2>10. stored' \in Seq(AT!StoredTriggers(logType, threatIntel))
      BY <2>1, EmptySeq
  <2>11. TriggersTyped'
      BY <2>1, <2>4, <2>9, <2>10 DEF TriggersTyped
  <2>12. StageFits'
      BY <2>1, <2>9 DEF StageFits
  <2>13. AT!isTriggerValid(stored)
      BY <2>5 DEF AT!isTriggerValid
  <2>14. AllFit'
      BY <2>1, <2>5 DEF AllFit, Fits, FitsBut
  <2> QED
      BY <2>1, <2>11, <2>12, <2>13, <2>14 DEF TriggersInv, Judged, PanelsShow
<1>2. CASE AT!RulesFound
  <2>1. /\ TriggersTyped /\ stage = "triggers" /\ form = "edit"
        /\ rulesOptions' = AT!RulesOf(logType)
        /\ panels' = AT!Named(panels, triggers, rulesOptions')
        /\ UNCHANGED <<form, stage, logType, threatIntel, triggers, searches, isValid, stored,
                       reused, retyped, misnamed, changes>>
      BY <1>2 DEF AT!RulesFound, TriggersInv
  <2>2. rulesOptions' \subseteq AT!AllRules
      BY <2>1 DEF TriggersTyped, AT!AllRules
  <2>3. /\ panels' \in Seq(AT!Panels) /\ Len(panels') = Len(triggers)
        /\ \A i \in 1 .. Len(triggers) :
              /\ panels'[i].ticked = panels[i].ticked
              /\ panels'[i].selectedNames = triggers[i].ids \cap rulesOptions'
    <3>1. panels \in Seq(AT!Panels) /\ triggers \in Seq(AT!Triggers) /\ Len(panels) = Len(triggers)
        BY <2>1, TriggersEdited
    <3> QED
        BY <2>1, <2>2, <3>1, NamedShow
  <2>4. TriggersTyped'
      BY <2>1, <2>2, <2>3 DEF TriggersTyped
  <2>5. StageFits'
      BY <2>1, <2>3 DEF TriggersInv, StageFits
  <2>6. PanelsShow'
      BY <2>1, <2>3 DEF TriggersInv, PanelsShow, Ticks, Names
  <2>7. AllFit' /\ Judged'
      BY <2>1 DEF TriggersInv, AllFit, Fits, FitsBut, Judged
  <2> QED
      BY <2>4, <2>5, <2>6, <2>7 DEF TriggersInv
<1> QED
    BY <1>1, <1>2

\* The first step of the wizard.
LEMMA TriggersDefined ==
    ASSUME TriggersInv,
           \/ \E type \in LogTypeNames : AT!OnDetectorTypeChange(type)
           \/ \E uses \in BOOLEAN : AT!OnThreatIntelligenceChanged(uses)
    PROVE  TriggersInv'
<1>1. TriggersTyped /\ form = "wizard" /\ stage = "define" /\ stored = <<>>
    BY DEF TriggersInv, StageFits, AT!OnDetectorTypeChange, AT!OnThreatIntelligenceChanged,
           AT!Defining
<1>2. changes' \in 0 .. ManyEdits + 1
    BY <1>1, MCPagesAssumption
    DEF AT!OnDetectorTypeChange, AT!OnThreatIntelligenceChanged, AT!Acts, TriggersTyped
<1>3. ASSUME NEW type \in LogTypeNames, AT!OnDetectorTypeChange(type) PROVE TriggersInv'
  <2>1. /\ logType' = type /\ threatIntel' = FALSE
        /\ searches' = [searches EXCEPT ![type] = @ + 1]
        /\ retyped' = (retyped \/ triggers # <<>>)
        /\ UNCHANGED <<form, stage, triggers, panels, rulesOptions, isValid, stored, reused,
                       misnamed>>
      BY <1>3 DEF AT!OnDetectorTypeChange
  <2>2. stored' \in Seq(AT!StoredTriggers(logType', threatIntel'))
      BY <1>1, <2>1, EmptySeq
  <2>3. TriggersTyped'
    <3>1. searches' \in [AT!Searched -> Nat]
        BY <1>1, <2>1 DEF TriggersTyped, AT!Searched
    <3> QED
        BY <1>1, <1>2, <2>1, <2>2, <3>1 DEF TriggersTyped
  <2>4. AllFit'
    <3>1. ~retyped' => triggers = <<>>
        BY <2>1
    <3>2. triggers = <<>> => Len(triggers) = 0
        OBVIOUS
    <3> QED
        BY <2>1, <3>1, <3>2 DEF AllFit
  <2>5. StageFits' /\ Judged' /\ PanelsShow'
      BY <1>1, <2>1 DEF TriggersInv, StageFits, Judged, PanelsShow
  <2> QED
      BY <2>3, <2>4, <2>5 DEF TriggersInv
<1>4. ASSUME NEW uses \in BOOLEAN, AT!OnThreatIntelligenceChanged(uses) PROVE TriggersInv'
  <2> DEFINE Types(t) == IF uses THEN t.detection_types \cup {"threat_intel"}
                         ELSE t.detection_types \ {"threat_intel"}
             Set(t) == [t EXCEPT !.detection_types = Types(t)]
  <2>1. /\ threatIntel' = uses
        /\ triggers' = [i \in DOMAIN triggers |-> Set(triggers[i])]
        /\ UNCHANGED <<form, stage, logType, panels, rulesOptions, searches, isValid, stored,
                       reused, retyped, misnamed>>
      BY <1>4 DEF AT!OnThreatIntelligenceChanged
  <2>2. ASSUME NEW t \in AT!Triggers
        PROVE  /\ Set(t) \in AT!Triggers /\ Set(t).ids = t.ids /\ Set(t).types = t.types
               /\ "threat_intel" \in Set(t).detection_types => uses
    <3>1. Types(t) \subseteq AT!Types
        BY DEF AT!Triggers, AT!Types
    <3>2. "threat_intel" \in Types(t) => uses
        OBVIOUS
    <3> HIDE DEF Types
    <3> QED
        BY <3>1, <3>2 DEF AT!Triggers
  <2> HIDE DEF Set
  <2>3. /\ Len(triggers) \in Nat /\ DOMAIN triggers = 1 .. Len(triggers)
        /\ \A i \in 1 .. Len(triggers) : triggers[i] \in AT!Triggers
      BY <1>1, LenProperties, ElementOfSeq DEF TriggersTyped
  <2>4. triggers' \in [1 .. Len(triggers) -> AT!Triggers]
      BY <2>1, <2>2, <2>3
  <2>5. triggers' \in Seq(AT!Triggers) /\ Len(triggers') = Len(triggers)
      BY <2>3, <2>4, FunctionIsSeq
  <2>6. stored' \in Seq(AT!StoredTriggers(logType', threatIntel'))
      BY <1>1, <2>1, EmptySeq
  <2>7. TriggersTyped'
      BY <1>1, <1>2, <2>1, <2>5, <2>6 DEF TriggersTyped
  <2>8. AllFit'
      BY <2>1, <2>2, <2>3, <2>5 DEF TriggersInv, AllFit, Fits, FitsBut
  <2> QED
      BY <1>1, <2>1, <2>7, <2>8 DEF TriggersInv, StageFits, Judged, PanelsShow
<1> QED
    BY <1>3, <1>4

LEMMA TriggersLeft ==
    ASSUME TriggersInv, AT!OnPreviousClick \/ AT!Save PROVE TriggersInv'
<1>1. /\ TriggersTyped /\ stage = "triggers" /\ stage' \in {"define", "done"}
      /\ panels' = panels \/ panels' = <<>>
      /\ stage' = "define" => panels' = <<>>
      /\ stage' = "done" => isValid
      /\ UNCHANGED <<form, logType, threatIntel, triggers, rulesOptions, searches, isValid, stored,
                     reused, retyped, misnamed, changes>>
    BY DEF TriggersInv, AT!OnPreviousClick, AT!Save
<1>2. panels' \in Seq(AT!Panels)
    BY <1>1, EmptySeq DEF TriggersTyped
<1>3. TriggersTyped'
    BY <1>1, <1>2 DEF TriggersTyped
<1> QED
    BY <1>1, <1>3 DEF TriggersInv, StageFits, Judged, PanelsShow, AllFit, Fits, FitsBut

\* What a search found is offered, and named by the panels that are there.
LEMMA TriggersSearched ==
    ASSUME TriggersInv, NEW type \in AT!Searched,
           \/ \E found \in SUBSET AT!RulesFoundOf(type) : AT!GotRules(type, found)
           \/ AT!RulesLost(type)
    PROVE  TriggersInv'
<1>1. TriggersTyped /\ searches[type] > 0 /\ stage \in {"define", "triggers"} /\ form = "wizard"
    BY DEF TriggersInv, TriggersTyped, StageFits, AT!GotRules, AT!RulesLost
<1>2. searches' \in [AT!Searched -> Nat]
    BY <1>1 DEF TriggersTyped, AT!GotRules, AT!RulesLost
<1>3. UNCHANGED <<form, stage, logType, threatIntel, triggers, isValid, stored, reused, retyped,
                  misnamed, changes>>
    BY DEF AT!GotRules, AT!RulesLost
<1>4. CASE UNCHANGED <<panels, rulesOptions>>
  <2>1. TriggersTyped'
      BY <1>1, <1>2, <1>3, <1>4 DEF TriggersTyped
  <2> QED
      BY <1>3, <1>4, <2>1
      DEF TriggersInv, StageFits, Judged, PanelsShow, Ticks, Names, AllFit, Fits, FitsBut
<1>5. ASSUME NEW found \in SUBSET AT!RulesFoundOf(type), rulesOptions' = found,
             panels' = AT!Named(panels, triggers, found)
      PROVE  TriggersInv'
  <2>1. found \subseteq AT!AllRules
      BY DEF AT!RulesFoundOf, AT!AllRules
  <2>2. CASE stage = "define"
    <3>1. panels = <<>> /\ DOMAIN panels = {}
        BY <2>2 DEF TriggersInv, StageFits
    <3>2. panels' = <<>>
        BY <1>5, <3>1 DEF AT!Named
    <3>3. TriggersTyped'
        BY <1>1, <1>2, <1>3, <1>5, <2>1, <3>1, <3>2 DEF TriggersTyped
    <3> QED
        BY <1>1, <1>3, <2>2, <3>2, <3>3
        DEF TriggersInv, StageFits, Judged, PanelsShow, AllFit, Fits, FitsBut
  <2>3. CASE stage = "triggers"
    <3>1. /\ panels' \in Seq(AT!Panels) /\ Len(panels') = Len(triggers)
          /\ \A i \in 1 .. Len(triggers) :
                /\ panels'[i].ticked = panels[i].ticked
                /\ panels'[i].selectedNames = triggers[i].ids \cap found
        BY <1>5, <2>1, <2>3, TriggersEdited, NamedShow
    <3>2. TriggersTyped'
        BY <1>1, <1>2, <1>3, <1>5, <2>1, <3>1 DEF TriggersTyped
    <3>3. PanelsShow'
        BY <1>3, <1>5, <3>1 DEF TriggersInv, PanelsShow, Ticks, Names
    <3> QED
        BY <1>1, <1>3, <2>3, <3>1, <3>2, <3>3
        DEF TriggersInv, StageFits, Judged, AllFit, Fits, FitsBut
  <2> QED
      BY <1>1, <2>2, <2>3
<1> QED
    BY <1>4, <1>5 DEF AT!GotRules, AT!RulesLost

LEMMA TriggersStep == ASSUME TriggersInv, AT!Next PROVE TriggersInv'
<1>1. CASE AT!Open \/ AT!OnNextClick \/ AT!DetectorFound \/ AT!RulesFound
    BY <1>1, TriggersOpened, TriggersNext, TriggersFound
<1>2. CASE \/ \E type \in LogTypeNames : AT!OnDetectorTypeChange(type)
           \/ \E uses \in BOOLEAN : AT!OnThreatIntelligenceChanged(uses)
           \/ AT!OnPreviousClick \/ AT!Save
    BY <1>2, TriggersDefined, TriggersLeft
<1>3. CASE AT!AddCondition
    BY <1>3, TriggersAdded
<1>5. CASE \E type \in AT!Searched :
              \/ \E found \in SUBSET AT!RulesFoundOf(type) : AT!GotRules(type, found)
              \/ AT!RulesLost(type)
    BY <1>5, TriggersSearched
<1>4. CASE \E i \in DOMAIN triggers :
              \/ AT!OnDelete(i)
              \/ \E name \in {"", "good"} \ {triggers[i].name} : AT!OnNameChange(i, name)
              \/ \E type \in AT!Types : AT!OnDetectionTypeChange(i, type)
              \/ \E ids \in SUBSET rulesOptions : AT!OnRuleNamesChange(i, ids)
    BY <1>4, TriggersDeleted, TriggersRenamed, TriggersTicked, TriggersRuled
<1> QED
    BY <1>1, <1>2, <1>3, <1>4, <1>5 DEF AT!Next

LEMMA TriggersStutter ==
    ASSUME TriggersInv, UNCHANGED <<ofTriggers, form, stored, changes>> PROVE TriggersInv'
<1>1. TriggersTyped'
    BY DEF ofTriggers, TriggersInv, TriggersTyped
<1>2. AllFit' /\ PanelsShow' /\ Judged' /\ StageFits'
    BY DEF ofTriggers, TriggersInv, AllFit, Fits, FitsBut, PanelsShow, Ticks, Names, Judged,
           StageFits
<1> QED
    BY <1>1, <1>2 DEF TriggersInv

LEMMA TriggersInvHolds == TriggersInv => AT!TriggersHold
<1> SUFFICES ASSUME TriggersInv PROVE AT!TriggersHold
    OBVIOUS
<1>1. /\ DOMAIN triggers = 1 .. Len(triggers) /\ DOMAIN panels = 1 .. Len(panels)
    BY LenProperties DEF TriggersInv, TriggersTyped
<1>2. AT!SavedValid
    BY DEF TriggersInv, Judged, AT!SavedValid
<1>3. AT!PanelsMatch
    BY <1>1 DEF TriggersInv, StageFits, PanelsShow, Ticks, Names, AT!PanelsMatch
<1>4. AT!TriggersFit
    BY <1>1 DEF TriggersInv, AllFit, Fits, FitsBut, AT!TriggersFit
<1> QED
    BY <1>2, <1>3, <1>4 DEF AT!TriggersHold

\* The detector has no more triggers than it may have, nor had it when it was stored.
TriggersBounded == Len(triggers) <= MaxTriggers /\ Len(stored) <= MaxTriggers

LEMMA SameLength ==
    ASSUME NEW S, NEW T, NEW s \in Seq(S), NEW t \in Seq(T), DOMAIN t = DOMAIN s
    PROVE  Len(t) = Len(s)
<1>1. /\ DOMAIN s = 1 .. Len(s) /\ Len(s) \in Nat
      /\ DOMAIN t = 1 .. Len(t) /\ Len(t) \in Nat
    BY LenProperties
<1> QED
    BY <1>1

LEMMA TriggersBoundedInit == AT!Init => TriggersBounded
<1> SUFFICES ASSUME AT!Init PROVE TriggersBounded
    OBVIOUS
<1>1. Len(triggers) = 0 /\ MaxTriggers \in Nat
    BY MCPagesAssumption DEF AT!Init
<1>2. CASE stored = <<>>
    BY <1>1, <1>2 DEF TriggersBounded
<1>3. CASE stored \in AT!StoredLists(logType, threatIntel)
  <2>1. PICK n \in 0 .. MaxTriggers :
            stored \in [1 .. n -> AT!StoredTriggers(logType, threatIntel)]
      BY <1>3 DEF AT!StoredLists
  <2>2. Len(stored) = n
      BY <2>1, FunctionIsSeq
  <2> QED
      BY <1>1, <2>1, <2>2 DEF TriggersBounded
<1> QED
    BY <1>2, <1>3 DEF AT!Init

\* An empty list gets one trigger, and it may have one.
LEMMA TriggersBoundedMount ==
    ASSUME TriggersInv, TriggersInv', TriggersBounded,
           AT!Open \/ AT!OnNextClick \/ AT!DetectorFound
    PROVE  TriggersBounded'
<1>1. /\ TriggersTyped /\ triggers' \in Seq(AT!Triggers) /\ stored' \in {stored, <<>>}
      /\ MaxTriggers \in Nat \ {0}
    BY MCPagesAssumption
    DEF TriggersInv, TriggersTyped, AT!Open, AT!OnNextClick, AT!DetectorFound
<1>2. Len(stored') <= MaxTriggers
    BY <1>1 DEF TriggersBounded
<1>3. PICK all \in {<<AT!AddedCondition>>, triggers, stored, <<>>} : DOMAIN triggers' = DOMAIN all
  <2>1. CASE AT!DetectorFound
      BY <2>1 DEF AT!DetectorFound
  <2>2. CASE AT!OnNextClick
      BY <2>2 DEF AT!OnNextClick
  <2>3. CASE AT!Open
      BY <2>3 DEF AT!Open, AT!Mount
  <2> QED
      BY <2>1, <2>2, <2>3
<1>4. Len(all) <= MaxTriggers /\ \E T : all \in Seq(T)
  <2>1. CASE all = <<AT!AddedCondition>>
      BY <1>1, <2>1, NothingOrAdded
  <2>2. CASE all = triggers \/ all = stored
      BY <2>2 DEF TriggersBounded, TriggersInv, TriggersTyped
  <2>3. CASE all = <<>>
      BY <1>1, <2>3, EmptySeq
  <2> QED
      BY <1>3, <2>1, <2>2, <2>3
<1>5. Len(triggers') = Len(all)
    BY <1>1, <1>3, <1>4, SameLength
<1> QED
    BY <1>2, <1>4, <1>5 DEF TriggersBounded

\* The button that adds a trigger goes at the bound.
LEMMA TriggersBoundedEdit ==
    ASSUME TriggersInv, TriggersInv', TriggersBounded,
           \/ AT!AddCondition
           \/ \E i \in DOMAIN triggers :
                 \/ AT!OnDelete(i)
                 \/ \E name : AT!OnNameChange(i, name)
                 \/ \E type : AT!OnDetectionTypeChange(i, type)
                 \/ \E ids : AT!OnRuleNamesChange(i, ids)
    PROVE  TriggersBounded'
<1>1. /\ triggers \in Seq(AT!Triggers) /\ triggers' \in Seq(AT!Triggers) /\ stored' = stored
      /\ MaxTriggers \in Nat /\ Len(triggers) \in Nat /\ DOMAIN triggers = 1 .. Len(triggers)
    BY MCPagesAssumption, LenProperties
    DEF TriggersInv, TriggersTyped, AT!AddCondition, AT!OnDelete, AT!OnNameChange,
        AT!OnDetectionTypeChange, AT!OnRuleNamesChange, AT!Kept, AT!KeptBut
<1>2. CASE AT!AddCondition
  <2>1. Len(triggers) < MaxTriggers /\ triggers' = Append(triggers, AT!Prepared(AT!AddedCondition))
      BY <1>2 DEF AT!AddCondition, AT!Change
  <2>2. AT!Prepared(AT!AddedCondition) \in AT!Triggers
      BY AddedFits, PreparedKeeps DEF TriggersInv
  <2>3. Len(triggers') = Len(triggers) + 1
      BY <1>1, <2>1, <2>2, AppendProperties
  <2> QED
      BY <1>1, <2>1, <2>3 DEF TriggersBounded
<1>3. ASSUME NEW i \in DOMAIN triggers, AT!OnDelete(i) PROVE TriggersBounded'
  <2>1. triggers' = AT!Spliced(triggers, i)
      BY <1>3, SMTT(30) DEF AT!OnDelete, AT!Change
  <2>2. Len(triggers') = Len(triggers) - 1
      BY <1>1, <1>3, <2>1, Removed, Zenon
  <2> QED
      BY <1>1, <2>2 DEF TriggersBounded
<1>4. ASSUME NEW i \in DOMAIN triggers,
             \/ \E name : AT!OnNameChange(i, name)
             \/ \E type : AT!OnDetectionTypeChange(i, type)
             \/ \E ids : AT!OnRuleNamesChange(i, ids)
      PROVE  TriggersBounded'
  <2>1. DOMAIN triggers' = DOMAIN triggers
      BY <1>4, Zenon DEF AT!OnNameChange, AT!OnDetectionTypeChange, AT!OnRuleNamesChange,
                  AT!UpdateTrigger, AT!Change
  <2>2. Len(triggers') = Len(triggers)
      BY <1>1, <2>1, SameLength
  <2> QED
      BY <1>1, <2>2, SMTT(30) DEF TriggersBounded
<1> QED
    BY <1>2, <1>3, <1>4

LEMMA TriggersBoundedStep ==
    ASSUME TriggersInv, TriggersInv', TriggersBounded, AT!Next PROVE TriggersBounded'
<1>1. CASE AT!Open \/ AT!OnNextClick \/ AT!DetectorFound
    BY <1>1, TriggersBoundedMount
<1>2. CASE \/ AT!RulesFound \/ AT!OnPreviousClick \/ AT!Save
           \/ \E type \in LogTypeNames : AT!OnDetectorTypeChange(type)
           \/ \E type \in AT!Searched :
                 \/ \E found \in SUBSET AT!RulesFoundOf(type) : AT!GotRules(type, found)
                 \/ AT!RulesLost(type)
    BY <1>2 DEF TriggersBounded, AT!RulesFound, AT!OnPreviousClick, AT!Save,
                AT!OnDetectorTypeChange, AT!GotRules, AT!RulesLost
<1>3. ASSUME NEW uses \in BOOLEAN, AT!OnThreatIntelligenceChanged(uses) PROVE TriggersBounded'
  <2>1. stored' = stored /\ DOMAIN triggers' = DOMAIN triggers
      BY <1>3 DEF AT!OnThreatIntelligenceChanged
  <2>2. Len(triggers') = Len(triggers)
      BY <2>1, SameLength DEF TriggersInv, TriggersTyped
  <2> QED
      BY <2>1, <2>2 DEF TriggersBounded
<1>4. CASE \/ AT!AddCondition
           \/ \E i \in DOMAIN triggers :
                 \/ AT!OnDelete(i)
                 \/ \E name : AT!OnNameChange(i, name)
                 \/ \E type : AT!OnDetectionTypeChange(i, type)
                 \/ \E ids : AT!OnRuleNamesChange(i, ids)
    BY <1>4, TriggersBoundedEdit
<1> QED
    BY <1>1, <1>2, <1>3, <1>4 DEF AT!Next

LEMMA TriggersBoundedStutter ==
    ASSUME TriggersBounded, UNCHANGED <<ofTriggers, stored>> PROVE TriggersBounded'
BY DEF ofTriggers, TriggersBounded

LEMMA TriggersAreTyped == TriggersInv /\ TriggersBounded => AT!TypeOK
<1> SUFFICES ASSUME TriggersInv, TriggersBounded PROVE AT!TypeOK
    OBVIOUS
<1>1. stored \in Seq(AT!Triggers)
  <2>1. /\ stored \in Seq(AT!StoredTriggers(logType, threatIntel))
        /\ \A t \in AT!StoredTriggers(logType, threatIntel) : t \in AT!Triggers
      BY StoredFits DEF TriggersInv, TriggersTyped
  <2> QED
      BY <2>1, SeqMonotonic
<1>2. rulesOptions \subseteq AT!AllRules
    BY DEF TriggersInv, TriggersTyped, AT!AllRules
<1> QED
    BY <1>1, <1>2 DEF TriggersInv, TriggersTyped, TriggersBounded, AT!TypeOK

-----------------------------------------------------------------------------
(* The least and the greatest of a set of numbers *)

\* Every set of natural numbers that is not empty has a least element.
LEMMA LeastNumber ==
    ASSUME NEW S \in SUBSET Nat, S # {}
    PROVE  \E n \in S : \A m \in S : n <= m
<1> DEFINE R == OpToRel(<, Nat)
<1>1. IsWellFoundedOn(R, Nat)
    BY NatLessThanWellFounded
<1>2. \A x, y \in Nat : y < x => <<y, x>> \in R
    BY DEF OpToRel
<1> HIDE DEF R
<1>3. \E x \in S : \A y \in S : ~ (<<y, x>> \in R)
    BY <1>1, WFMin
<1>4. PICK x \in S : \A y \in S : ~ (<<y, x>> \in R)
    BY <1>3
<1>5. ASSUME NEW y \in S PROVE x <= y
  <2>1. x \in Nat /\ y \in Nat /\ ~ (y < x)
    BY <1>2, <1>4
  <2> QED
    BY <2>1
<1> QED
    BY <1>5

\* Max of the community modules is what its name says, of some of the first N numbers.
LEMMA GreatestNumber ==
    ASSUME NEW N \in Nat, NEW S \in SUBSET (1 .. N), S # {}
    PROVE  RE!Max(S) \in S /\ \A i \in S : i <= RE!Max(S)
<1> DEFINE T == {k \in Nat : N - k \in S}
<1>1. T \in SUBSET Nat /\ T # {}
  <2>1. PICK i \in S : i \in 1 .. N
    OBVIOUS
  <2>2. N - i \in Nat /\ N - (N - i) = i
    BY <2>1
  <2> QED
    BY <2>1, <2>2
<1>2. \E k \in T : \A m \in T : k <= m
    BY <1>1, LeastNumber
<1>3. PICK k \in T : \A m \in T : k <= m
    BY <1>2
<1>4. N - k \in S
    OBVIOUS
<1>5. ASSUME NEW i \in S PROVE i <= N - k
  <2>1. i \in 1 .. N /\ N - i \in Nat /\ N - (N - i) = i
    OBVIOUS
  <2>2. N - i \in T
    BY <2>1
  <2>3. k <= N - i
    BY <1>3, <2>2
  <2> QED
    BY <2>1, <2>3
<1>6. \E x \in S : \A y \in S : x >= y
    BY <1>4, <1>5
<1> QED
    BY <1>6 DEF RE!Max

-----------------------------------------------------------------------------
(* The detections that a rule can have *)

\* Numbering a finite set of numbers by how many are not greater reaches every number.
LEMMA RankReaches ==
    ASSUME NEW N \in Nat, NEW F \in SUBSET (1 .. N), NEW n \in 1 .. Cardinality(F)
    PROVE  \E i \in F : Cardinality({j \in F : j <= i}) = n
<1> DEFINE Below(i) == {j \in F : j <= i}
           T == {m \in Nat : Cardinality(Below(m)) >= n}
<1>1. IsFiniteSet(F) /\ Cardinality(F) \in Nat
  <2>1. IsFiniteSet(1 .. N)
    BY FS_Interval
  <2>2. IsFiniteSet(F)
    BY <2>1, FS_Subset
  <2> QED
    BY <2>2, FS_CardinalityType
<1>2. \A m : IsFiniteSet(Below(m)) /\ Cardinality(Below(m)) \in Nat
  <2>1. \A m : Below(m) \in SUBSET F
    OBVIOUS
  <2>2. \A m : IsFiniteSet(Below(m))
    BY <1>1, <2>1, FS_Subset
  <2> QED
    BY <2>2, FS_CardinalityType
<1>3. \A j \in F : j \in Nat /\ 1 <= j /\ j <= N
    OBVIOUS
<1>4. /\ Below(N) = F /\ Below(0) = {}
      /\ \A m \in Nat : m + 1 \notin F => Below(m + 1) = Below(m)
      /\ \A m \in Nat : m + 1 \in F => /\ Below(m + 1) = Below(m) \cup {m + 1}
                                      /\ m + 1 \notin Below(m)
  <2>1. \A j \in F : j <= N /\ ~ (j <= 0)
    BY <1>3
  <2>2. ASSUME NEW m \in Nat PROVE \A j \in F : j <= m + 1 <=> (j <= m \/ j = m + 1)
    BY <1>3
  <2>3. \A m \in Nat : ~ (m + 1 <= m)
    OBVIOUS
  <2>4. Below(N) = F
    BY <2>1, Zenon
  <2>5. Below(0) = {}
    BY <2>1, Zenon
  <2>6. ASSUME NEW m \in Nat, m + 1 \notin F PROVE Below(m + 1) = Below(m)
    BY <2>2, <2>6, Zenon
  <2>7. ASSUME NEW m \in Nat, m + 1 \in F
        PROVE  Below(m + 1) = Below(m) \cup {m + 1} /\ m + 1 \notin Below(m)
    <3>1. ASSUME NEW j \in F PROVE j \in Below(m + 1) <=> j \in Below(m) \/ j = m + 1
      BY <2>2
    <3>2. m + 1 \in Below(m + 1) /\ m + 1 \notin Below(m)
      BY <2>2, <2>3, <2>7
    <3> QED
      BY <2>7, <3>1, <3>2
  <2> QED
    BY <2>4, <2>5, <2>6, <2>7
<1>5. n \in Nat /\ 1 <= n /\ n <= Cardinality(F)
    BY <1>1
<1> HIDE DEF Below
<1>6. N \in T
    BY <1>1, <1>4, <1>5
<1>7. PICK m \in T : \A k \in T : m <= k
  <2>1. T \in SUBSET Nat /\ T # {}
    BY <1>6
  <2> QED
    BY <2>1, LeastNumber
<1>8. m \in Nat /\ Cardinality(Below(m)) >= n
    OBVIOUS
<1>9. m # 0
  <2>1. Cardinality({}) = 0
    BY FS_EmptySet
  <2> QED
    BY <1>4, <1>5, <1>8, <2>1
<1>10. PICK p \in Nat : m = p + 1
  <2>1. m - 1 \in Nat /\ m = (m - 1) + 1
    BY <1>8, <1>9
  <2> QED
    BY <2>1
<1>11. p \notin T
  <2>1. ~ (m <= p)
    BY <1>10
  <2> QED
    BY <1>7, <2>1
<1>12. Cardinality(Below(p)) < n
    BY <1>2, <1>5, <1>11
<1>13. m \in F
  <2>1. CASE m \notin F
    <3>1. Below(m) = Below(p)
      BY <1>4, <1>10, <2>1
    <3> QED
      BY <1>2, <1>5, <1>8, <1>12, <3>1
  <2> QED
    BY <2>1
<1>14. Cardinality(Below(m)) = Cardinality(Below(p)) + 1
  <2>1. Below(m) = Below(p) \cup {m} /\ m \notin Below(p)
    BY <1>4, <1>10, <1>13
  <2> QED
    BY <1>2, <2>1, FS_AddElement
<1>15. Cardinality(Below(m)) = n
    BY <1>2, <1>5, <1>8, <1>12, <1>14
<1> QED
    BY <1>13, <1>15 DEF Below

\* The cardinality that the parts count with is that of FiniteSets.
LEMMA EditorCounts == \A S : RE!Cardinality(S) = Cardinality(S)
BY DEF RE!Cardinality, Cardinality

\* What Collapse makes of entries: each is one of them, and no two have the same key.
LEMMA CollapseDistinct ==
    ASSUME NEW T, NEW s \in Seq(T), NEW keys, NEW but
    PROVE  \E N \in Nat : \E from \in [1 .. N -> DOMAIN s] :
              /\ RE!Collapse(s, keys, but) = [n \in 1 .. N |-> s[from[n]]]
              /\ \A m, n \in 1 .. N : m # n => keys[from[m]] # keys[from[n]]
<1> DEFINE firsts == {i \in DOMAIN s :
                        keys[i] # but /\ \A j \in 1 .. i - 1 : keys[j] # keys[i]}
           Rank(i) == RE!Cardinality({j \in firsts : j <= i})
           Place(n) == CHOOSE i \in firsts : Rank(i) = n
           Latest(n) == RE!Max({i \in DOMAIN s : keys[i] = keys[Place(n)]})
           N == RE!Cardinality(firsts)
           from == [n \in 1 .. N |-> Latest(n)]
<1>1. RE!Collapse(s, keys, but) = [n \in 1 .. N |-> s[Latest(n)]]
    BY DEF RE!Collapse
<1>2. DOMAIN s = 1 .. Len(s) /\ Len(s) \in Nat
    BY LenProperties
<1>3. firsts \in SUBSET (1 .. Len(s))
    BY <1>2
<1>4. N \in Nat
  <2>1. IsFiniteSet(1 .. Len(s))
    BY <1>2, FS_Interval
  <2>2. IsFiniteSet(firsts)
    BY <1>3, <2>1, FS_Subset
  <2> QED
    BY <2>2, FS_CardinalityType, EditorCounts
<1>5. ASSUME NEW n \in 1 .. N PROVE Place(n) \in firsts /\ Rank(Place(n)) = n
  <2> HIDE DEF firsts
  <2>1. \E i \in firsts : Rank(i) = n
    <3>1. n \in 1 .. Cardinality(firsts)
      BY EditorCounts
    <3>2. \E i \in firsts : Cardinality({j \in firsts : j <= i}) = n
      BY <1>2, <1>3, <3>1, RankReaches
    <3>3. \A i : Rank(i) = Cardinality({j \in firsts : j <= i})
      BY EditorCounts
    <3> HIDE DEF Rank
    <3> QED
      BY <3>2, <3>3
  <2> HIDE DEF Rank
  <2> QED
    BY <2>1
<1>6. ASSUME NEW i \in firsts, NEW j \in firsts, keys[i] = keys[j] PROVE i = j
  <2>1. i \in 1 .. Len(s) /\ j \in 1 .. Len(s)
    BY <1>2
  <2>2. ~ (i < j) /\ ~ (j < i)
    BY <1>6, <2>1
  <2> QED
    BY <1>2, <2>1, <2>2
<1>7. ASSUME NEW n \in 1 .. N PROVE Latest(n) \in DOMAIN s /\ keys[Latest(n)] = keys[Place(n)]
  <2> DEFINE same == {i \in DOMAIN s : keys[i] = keys[Place(n)]}
  <2>1. Place(n) \in same
    BY <1>5
  <2>2. same \in SUBSET (1 .. Len(s)) /\ same # {}
    BY <1>2, <2>1
  <2>3. RE!Max(same) \in same
    <3> HIDE DEF same
    <3> QED
      BY <1>2, <2>2, GreatestNumber
  <2> QED
    BY <2>3
<1>8. from \in [1 .. N -> DOMAIN s] /\ \A n \in 1 .. N : from[n] = Latest(n)
    BY <1>7
<1>9. ASSUME NEW m \in 1 .. N, NEW n \in 1 .. N, m # n PROVE keys[from[m]] # keys[from[n]]
  <2>1. Place(m) \in firsts /\ Place(n) \in firsts /\ Rank(Place(m)) # Rank(Place(n))
    BY <1>5, <1>9
  <2>2. keys[Place(m)] # keys[Place(n)]
    BY <1>6, <2>1
  <2> HIDE DEF Place, Latest, from
  <2> QED
    BY <1>7, <1>8, <2>2
<1>10. RE!Collapse(s, keys, but) = [n \in 1 .. N |-> s[from[n]]]
  <2> HIDE DEF Latest, from
  <2> QED
    BY <1>1, <1>8
<1> HIDE DEF firsts, Rank, Place, Latest, N, from
<1> QED
    BY <1>4, <1>8, <1>9, <1>10

\* Entries whose keys are different stay as they are, if none has the key that is left out.
LEMMA CollapseKeeps ==
    ASSUME NEW T, NEW s \in Seq(T), NEW keys, NEW but,
           \A i, j \in DOMAIN s : i # j => keys[i] # keys[j],
           \A i \in DOMAIN s : keys[i] # but
    PROVE  RE!Collapse(s, keys, but) = s
<1> DEFINE firsts == {i \in DOMAIN s :
                        keys[i] # but /\ \A j \in 1 .. i - 1 : keys[j] # keys[i]}
           Rank(i) == RE!Cardinality({j \in firsts : j <= i})
           Place(n) == CHOOSE i \in firsts : Rank(i) = n
           Latest(n) == RE!Max({i \in DOMAIN s : keys[i] = keys[Place(n)]})
           N == RE!Cardinality(firsts)
<1>1. RE!Collapse(s, keys, but) = [n \in 1 .. N |-> s[Latest(n)]]
    BY DEF RE!Collapse
<1>2. DOMAIN s = 1 .. Len(s) /\ Len(s) \in Nat
    BY LenProperties
<1>3. firsts = 1 .. Len(s)
  <2>1. ASSUME NEW i \in 1 .. Len(s), NEW j \in 1 .. i - 1 PROVE j \in 1 .. Len(s) /\ i # j
    BY <1>2
  <2> QED
    BY <1>2, <2>1
<1> HIDE DEF firsts
<1>4. N = Len(s)
  <2>1. Cardinality(1 .. Len(s)) = IF 1 > Len(s) THEN 0 ELSE Len(s) - 1 + 1
    BY <1>2, FS_Interval
  <2> QED
    BY <1>2, <1>3, <2>1, EditorCounts
<1>5. ASSUME NEW i \in 1 .. Len(s) PROVE Rank(i) = i
  <2>1. {j \in firsts : j <= i} = 1 .. i
    <3>1. \A j : j \in firsts /\ j <= i <=> j \in 1 .. i
      BY <1>2, <1>3
    <3> QED
      BY <3>1, Zenon
  <2>2. i \in Int /\ 1 \in Int /\ ~ (1 > i)
    BY <1>2
  <2>3. Cardinality(1 .. i) = i - 1 + 1
    BY <2>2, FS_Interval
  <2>4. Rank(i) = Cardinality(1 .. i)
    BY <2>1, EditorCounts
  <2> HIDE DEF Rank
  <2> QED
    BY <2>2, <2>3, <2>4
<1> HIDE DEF Rank
<1>6. ASSUME NEW n \in 1 .. N PROVE Latest(n) = n
  <2>1. Place(n) = n
    BY <1>3, <1>4, <1>5
  <2>2. {i \in DOMAIN s : keys[i] = keys[Place(n)]} = {n}
    BY <1>2, <1>4, <2>1
  <2>3. RE!Max({n}) \in {n}
    BY <1>2, <1>4, GreatestNumber
  <2> QED
    BY <2>2, <2>3
<1> HIDE DEF Latest, N
<1>7. [n \in 1 .. N |-> s[Latest(n)]] = [n \in DOMAIN s |-> s[n]]
    BY <1>2, <1>4, <1>6
<1>8. s = [n \in DOMAIN s |-> s[n]]
    BY LenProperties
<1> QED
    BY <1>1, <1>7, <1>8

\* A detection is a record, and none is not.
LEMMA SomeDetection == \A d \in RE!Detections : d # RE!None
<1>1. ASSUME NEW d \in RE!Detections PROVE "how" \in DOMAIN d
    BY DEF RE!Detections
<1>2. "how" \notin DOMAIN RE!None
    BY DEF RE!None
<1> QED
    BY <1>1, <1>2

\* The maps of a selection are compiled to maps.
LEMMA MapsCompiled ==
    ASSUME NEW data \in Seq(RE!Maps), NEW name
    PROVE  RE!CompileMaps(name, data) \in Seq(RE!Maps)
<1> DEFINE keyless == {i \in DOMAIN data : data[i].key = "none"}
<1>1. DOMAIN data = 1 .. Len(data) /\ Len(data) \in Nat
    BY LenProperties
<1>4. CASE name = RE!Timeframe
  <2>1. [key |-> "none", values |-> IF data[Len(data)].values = "some" THEN "some" ELSE "blank"]
            \in RE!Maps
    BY DEF RE!Maps
  <2>2. RE!CompileTimeframe(data) \in Seq(RE!Maps)
    BY <2>1 DEF RE!CompileTimeframe
  <2> QED
    BY <1>4, <2>2 DEF RE!CompileMaps
<1>2. CASE name # RE!Timeframe /\ keyless # {}
  <2>1. keyless \in SUBSET (1 .. Len(data))
    BY <1>1
  <2>2. RE!Max(keyless) \in keyless
    <3> HIDE DEF keyless
    <3> QED
      BY <1>1, <1>2, <2>1, GreatestNumber
  <2>3. data[RE!Max(keyless)] \in RE!Maps
    BY <2>2, ElementOfSeq, <1>1
  <2>4. RE!CompileMaps(name, data) = <<data[RE!Max(keyless)]>>
    BY <1>2 DEF RE!CompileMaps
  <2> HIDE DEF keyless
  <2> QED
    BY <2>3, <2>4
<1>3. CASE name # RE!Timeframe /\ keyless = {}
  <2>1. RE!CompileMaps(name, data) = RE!Collapse(data, RE!Keys(data), "none")
    BY <1>3 DEF RE!CompileMaps
  <2>5. PICK N \in Nat : \E from \in [1 .. N -> DOMAIN data] :
            RE!Collapse(data, RE!Keys(data), "none") = [n \in 1 .. N |-> data[from[n]]]
    BY CollapseDistinct
  <2>2. PICK from \in [1 .. N -> DOMAIN data] :
            RE!Collapse(data, RE!Keys(data), "none") = [n \in 1 .. N |-> data[from[n]]]
    BY <2>5
  <2>3. ASSUME NEW n \in 1 .. N PROVE data[from[n]] \in RE!Maps
    BY <1>1, ElementOfSeq
  <2>4. [n \in 1 .. N |-> data[from[n]]] \in Seq(RE!Maps)
    BY <2>3, IsASeq
  <2> QED
    BY <2>1, <2>2, <2>4
<1> QED
    BY <1>2, <1>3, <1>4

\* The selections as they are compiled, before those of one name collapse.
CompiledSelections(obj) ==
    [i \in DOMAIN obj.selections |->
        [obj.selections[i] EXCEPT !.data = RE!CompileMaps(obj.selections[i].name, @)]]

LEMMA SelectionsCompiled ==
    ASSUME NEW obj \in RE!Detections
    PROVE  /\ CompiledSelections(obj) \in Seq(RE!Selections)
           /\ DOMAIN CompiledSelections(obj) = DOMAIN obj.selections
           /\ \A i \in DOMAIN obj.selections :
                 /\ CompiledSelections(obj)[i].name = obj.selections[i].name
                 /\ CompiledSelections(obj)[i] \in RE!Selections
<1>1. obj.selections \in Seq(RE!Selections)
    BY DEF RE!Detections
<1>2. DOMAIN obj.selections = 1 .. Len(obj.selections) /\ Len(obj.selections) \in Nat
    BY <1>1, LenProperties
<1>3. ASSUME NEW i \in DOMAIN obj.selections
      PROVE  /\ CompiledSelections(obj)[i].name = obj.selections[i].name
             /\ CompiledSelections(obj)[i] \in RE!Selections
  <2>1. obj.selections[i] \in RE!Selections
    BY <1>1, <1>2, ElementOfSeq
  <2>2. RE!CompileMaps(obj.selections[i].name, obj.selections[i].data) \in Seq(RE!Maps)
    BY <2>1, MapsCompiled DEF RE!Selections
  <2> QED
    BY <2>1, <2>2 DEF RE!Selections, CompiledSelections
<1>4. DOMAIN CompiledSelections(obj) = DOMAIN obj.selections
    BY DEF CompiledSelections
<1>5. CompiledSelections(obj) \in Seq(RE!Selections)
  <2>1. CompiledSelections(obj) = [i \in 1 .. Len(obj.selections) |-> CompiledSelections(obj)[i]]
    BY <1>2 DEF CompiledSelections
  <2>2. \A i \in 1 .. Len(obj.selections) : CompiledSelections(obj)[i] \in RE!Selections
    BY <1>2, <1>3
  <2>3. [i \in 1 .. Len(obj.selections) |-> CompiledSelections(obj)[i]] \in Seq(RE!Selections)
    BY <1>2, <2>2, IsASeq
  <2> QED
    BY <2>1, <2>3
<1> QED
    BY <1>3, <1>4, <1>5

\* Whatever is compiled is a detection whose selections have different names.
LEMMA DetectionCompiled ==
    ASSUME NEW obj \in RE!Detections
    PROVE  /\ RE!Compile(obj) \in RE!Detections
           /\ RE!Distinct(RE!Compile(obj).selections)
           /\ RE!Compile(obj).how = "map"
<1> DEFINE compiled == CompiledSelections(obj)
           made == RE!Collapse(compiled, RE!NamesOf(compiled), RE!Condition)
           named == \E i \in DOMAIN RE!NamesOf(compiled) :
                        RE!NamesOf(compiled)[i] = RE!Condition
<1>1. RE!Compile(obj) = [selections |-> made,
                         condition |-> IF named THEN "maps" ELSE obj.condition, how |-> "map"]
    BY DEF RE!Compile, CompiledSelections
<1>2. compiled \in Seq(RE!Selections)
    BY SelectionsCompiled
<1> HIDE DEF compiled
<1>8. PICK N \in Nat : \E from \in [1 .. N -> DOMAIN compiled] :
          /\ made = [n \in 1 .. N |-> compiled[from[n]]]
          /\ \A m, n \in 1 .. N :
                m # n => RE!NamesOf(compiled)[from[m]] # RE!NamesOf(compiled)[from[n]]
  <2> DEFINE names == RE!NamesOf(compiled)
             but == RE!Condition
  <2>1. \E N \in Nat : \E from \in [1 .. N -> DOMAIN compiled] :
            /\ RE!Collapse(compiled, names, but) = [n \in 1 .. N |-> compiled[from[n]]]
            /\ \A m, n \in 1 .. N : m # n => names[from[m]] # names[from[n]]
    <3> HIDE DEF names, but
    <3> QED
      BY <1>2, CollapseDistinct, SMTT(60)
  <2> QED
    BY <2>1
<1>3. PICK from \in [1 .. N -> DOMAIN compiled] :
          /\ made = [n \in 1 .. N |-> compiled[from[n]]]
          /\ \A m, n \in 1 .. N :
                m # n => RE!NamesOf(compiled)[from[m]] # RE!NamesOf(compiled)[from[n]]
    BY <1>8
<1>4. DOMAIN compiled = 1 .. Len(compiled)
    BY <1>2, LenProperties
<1>5. ASSUME NEW n \in 1 .. N
      PROVE  compiled[from[n]] \in RE!Selections
             /\ RE!NamesOf(compiled)[from[n]] = compiled[from[n]].name
    BY <1>2, <1>4, ElementOfSeq DEF RE!NamesOf
<1>6. made \in Seq(RE!Selections)
  <2>1. [n \in 1 .. N |-> compiled[from[n]]] \in Seq(RE!Selections)
    BY <1>5, IsASeq
  <2> QED
    BY <1>3, <2>1
<1>7. RE!Distinct(made)
    BY <1>3, <1>5 DEF RE!Distinct
<1> HIDE DEF made, named
<1> QED
    BY <1>1, <1>6, <1>7 DEF RE!Detections

\* What fits into YAML, with different names, is compiled to itself.
LEMMA CompiledToItself ==
    ASSUME NEW obj \in RE!Detections, RE!Fits(obj), RE!Distinct(obj.selections),
           obj.how = "map"
    PROVE  RE!Compile(obj) = obj
<1> DEFINE compiled == CompiledSelections(obj)
           made == RE!Collapse(compiled, RE!NamesOf(compiled), RE!Condition)
           named == \E i \in DOMAIN RE!NamesOf(compiled) :
                        RE!NamesOf(compiled)[i] = RE!Condition
<1>1. RE!Compile(obj) = [selections |-> made,
                         condition |-> IF named THEN "maps" ELSE obj.condition, how |-> "map"]
    BY DEF RE!Compile, CompiledSelections
<1>2. /\ obj.selections \in Seq(RE!Selections)
      /\ DOMAIN obj.selections = 1 .. Len(obj.selections)
    BY LenProperties DEF RE!Detections
<1>3. ASSUME NEW i \in DOMAIN obj.selections
      PROVE  RE!CompileMaps(obj.selections[i].name, obj.selections[i].data)
                = obj.selections[i].data
  <2> DEFINE data == obj.selections[i].data
             name == obj.selections[i].name
             keyless == {j \in DOMAIN data : data[j].key = "none"}
  <2>1. obj.selections[i] \in RE!Selections
    BY <1>2, ElementOfSeq
  <2>2. data \in Seq(RE!Maps)
    BY <2>1 DEF RE!Selections
  <2>3. \A j, k \in DOMAIN data : j # k => data[j].key # data[k].key /\ data[j].key # "none"
    BY DEF RE!Fits
  <2>6. name # RE!Timeframe
    BY DEF RE!Fits
  <2> HIDE DEF data, name
  <2>4. DOMAIN data = 1 .. Len(data) /\ Len(data) \in Nat
    BY <2>2, LenProperties
  <2>5. RE!CompileMaps(name, data) = data
    <3>1. CASE keyless # {}
      <4>1. PICK k \in DOMAIN data : data[k].key = "none"
        BY <3>1
      <4>2. \A j \in DOMAIN data : j = k
        BY <2>3, <4>1
      <4>3. k = 1 /\ Len(data) = 1
        <5>1. 1 \in DOMAIN data /\ Len(data) \in DOMAIN data
          BY <2>4
        <5> QED
          BY <4>2, <5>1
      <4>4. keyless = {1}
        BY <4>1, <4>2, <4>3
      <4>5. RE!Max({1}) \in {1}
        BY GreatestNumber
      <4>6. RE!CompileMaps(name, data) = <<data[1]>>
        BY <2>6, <3>1, <4>4, <4>5 DEF RE!CompileMaps
      <4> QED
        BY <2>2, <2>4, <4>3, <4>6
    <3>2. CASE keyless = {}
      <4>1. RE!CompileMaps(name, data) = RE!Collapse(data, RE!Keys(data), "none")
        BY <2>6, <3>2 DEF RE!CompileMaps
      <4>2. /\ \A j, k \in DOMAIN data : j # k => RE!Keys(data)[j] # RE!Keys(data)[k]
            /\ \A j \in DOMAIN data : RE!Keys(data)[j] # "none"
        BY <2>3, <3>2 DEF RE!Keys
      <4> QED
        BY <2>2, <4>1, <4>2, CollapseKeeps
    <3> QED
      BY <3>1, <3>2
  <2> QED
    BY <2>5 DEF data, name
<1>4. compiled = obj.selections
  <2>1. ASSUME NEW i \in DOMAIN obj.selections
        PROVE  [obj.selections[i] EXCEPT !.data = RE!CompileMaps(obj.selections[i].name, @)]
                  = obj.selections[i]
    <3>1. obj.selections[i] \in RE!Selections
      BY <1>2, ElementOfSeq
    <3> QED
      BY <1>3, <3>1 DEF RE!Selections
  <2>2. obj.selections = [i \in DOMAIN obj.selections |-> obj.selections[i]]
    BY <1>2
  <2> QED
    BY <2>1, <2>2 DEF CompiledSelections
<1>5. /\ \A i, j \in DOMAIN compiled :
            i # j => RE!NamesOf(compiled)[i] # RE!NamesOf(compiled)[j]
      /\ \A i \in DOMAIN compiled : RE!NamesOf(compiled)[i] # RE!Condition
      /\ DOMAIN RE!NamesOf(compiled) = DOMAIN compiled
    BY <1>4 DEF RE!Distinct, RE!NamesOf, RE!Fits
<1>7. ~named
    BY <1>5
<1>6. made = obj.selections
  <2> HIDE DEF compiled
  <2> QED
    BY <1>2, <1>4, <1>5, CollapseKeeps
<1> HIDE DEF made, named
<1> QED
    BY <1>1, <1>6, <1>7 DEF RE!Detections

-----------------------------------------------------------------------------
(* The editor of a rule *)

EditorErrors == {RE!NameError, RE!ConditionError} \cup ((1 .. MaxSelections) \X (1 .. MaxMaps))

\* What a write that is stored makes of the claim that goes with it.
Claimed(body, shownThen) == shownThen # RE!None => RE!Parse(body) = shownThen

\* The detection of the form is the one that the visual editor was mounted with, or what its
\* detection compiles to, which is submitted only when it has no error of the names.
EditorInStep ==
    \/ RE!Parse(detection) = detectionObj
    \/ /\ detection = RE!Compile(detectionObj)
       /\ ~isDetectionInvalid => RE!NameError \notin errors

\* Names that are not different are told, but where they are not compared.
NamesTold == unchecked \/ RE!Distinct(detectionObj.selections) \/ RE!NameError \in errors

EditorInv ==
    /\ RE!TypeOK /\ detectionObj.how = "map"
    /\ RE!Distinct(stored.selections)
    /\ detection # RE!None => RE!Distinct(detection.selections)
    /\ \A c \in calls : RE!Distinct(c.body.selections) /\ Claimed(c.body, c.shown)
    /\ Claimed(stored, meant)
    /\ editor = "visual" => EditorInStep /\ NamesTold

\* A detection is parsed to one of the visual editor, with its names.
LEMMA DetectionParsed ==
    ASSUME NEW d \in RE!Detections \cup {RE!None},
           d # RE!None => RE!Distinct(d.selections)
    PROVE  /\ RE!Parse(d) \in RE!Detections
           /\ RE!Parse(d).how = "map"
           /\ RE!Distinct(RE!Parse(d).selections)
<1>1. CASE d = RE!None
  <2>1. RE!Parse(d) = RE!DefaultDetectionObj
    BY <1>1 DEF RE!Parse
  <2>2. <<[name |-> 1, data |-> <<RE!Blank>>]>> \in Seq(RE!Selections)
    <3>1. RE!Blank \in RE!Maps
      BY DEF RE!Blank, RE!Maps
    <3>2. <<RE!Blank>> \in Seq(RE!Maps)
      BY <3>1
    <3>3. 1 \in RE!Names
      BY MCPagesAssumption DEF RE!Names, RE!Condition
    <3>4. [name |-> 1, data |-> <<RE!Blank>>] \in RE!Selections
      BY <3>2, <3>3 DEF RE!Selections
    <3> QED
      BY <3>4
  <2> QED
    BY <2>1, <2>2 DEF RE!DefaultDetectionObj, RE!One, RE!Detections, RE!Distinct
<1>2. CASE d # RE!None
  <2>1. RE!Parse(d) = [d EXCEPT !.how = "map"] /\ d \in RE!Detections
    BY <1>2 DEF RE!Parse
  <2> QED
    BY <1>2, <2>1 DEF RE!Detections
<1> QED
    BY <1>1, <1>2

LEMMA EditorInit == RE!Init => EditorInv
<1> SUFFICES ASSUME RE!Init PROVE EditorInv
    OBVIOUS
<1>1. ASSUME NEW names \in {<<1, 2>>, << 2 >>}
      PROVE  /\ RE!RuleWith(names) \in RE!Detections
             /\ RE!RuleWith(names).how = "map"
             /\ RE!Distinct(RE!RuleWith(names).selections)
  <2> DEFINE Map == [key |-> "field", values |-> "some"]
             Sel(i) == [name |-> names[i], data |-> <<Map>>]
  <2>1. names \in Seq(RE!Names) /\ \A i, j \in DOMAIN names : i # j => names[i] # names[j]
    <3>1. 1 \in RE!Names /\ 2 \in RE!Names
      BY MCPagesAssumption DEF RE!Names, RE!Condition
    <3>2. CASE names = <<1, 2>>
      BY <3>1, <3>2
    <3>3. CASE names = << 2 >>
      BY <3>1, <3>3
    <3> QED
      BY <3>2, <3>3
  <2>2. DOMAIN names = 1 .. Len(names) /\ Len(names) \in Nat
    BY <2>1, LenProperties
  <2>3. <<Map>> \in Seq(RE!Maps)
    <3>1. Map \in RE!Maps
      BY DEF RE!Maps
    <3> HIDE DEF Map
    <3> QED
      BY <3>1
  <2>4. ASSUME NEW i \in 1 .. Len(names) PROVE Sel(i) \in RE!Selections
    <3>1. names[i] \in RE!Names
      BY <2>1, <2>2, ElementOfSeq
    <3> QED
      BY <2>3, <3>1 DEF RE!Selections
  <2>5. [i \in 1 .. Len(names) |-> Sel(i)] \in Seq(RE!Selections)
    <3> HIDE DEF Sel
    <3> QED
      BY <2>2, <2>4, IsASeq
  <2>6. RE!RuleWith(names) =
            [selections |-> [i \in 1 .. Len(names) |-> Sel(i)], condition |-> "good", how |-> "map"]
    BY <2>2 DEF RE!RuleWith
  <2>7. RE!Distinct([i \in 1 .. Len(names) |-> Sel(i)])
    BY <2>1, <2>2 DEF RE!Distinct
  <2> QED
    BY <2>5, <2>6, <2>7 DEF RE!Detections
<1>2. stored \in RE!Detections /\ stored.how = "map" /\ RE!Distinct(stored.selections)
    BY <1>1 DEF RE!Init
<1>3. /\ RE!DefaultDetectionObj \in RE!Detections
      /\ RE!DefaultDetectionObj.how = "map"
  <2>1. RE!Parse(RE!None) = RE!DefaultDetectionObj
    BY DEF RE!Parse
  <2> QED
    BY <2>1, DetectionParsed
<1>4. RE!Parse(stored) = stored
  <2>1. stored # RE!None
    BY <1>2, SomeDetection
  <2> QED
    BY <1>2, <2>1 DEF RE!Parse, RE!Detections
<1>5. RE!TypeOK
  <2>1. edits \in 0 .. MoreEdits
    BY MCPagesAssumption DEF RE!Init
  <2>2. {isDetectionInvalid, touched, unchecked} \subseteq BOOLEAN
    BY DEF RE!Init
  <2>3. meant \in RE!Detections /\ detectionObj \in RE!Detections
    BY <1>2, <1>3 DEF RE!Init
  <2> QED
    BY <1>2, <2>1, <2>2, <2>3 DEF RE!Init, RE!TypeOK
<1> QED
    BY <1>2, <1>3, <1>4, <1>5 DEF RE!Init, EditorInv, Claimed

LEMMA ErrorsDiffer ==
    /\ RE!NameError # RE!ConditionError
    /\ \A obj : RE!NameError \notin RE!Shown(obj) /\ RE!Shown(obj) \in SUBSET EditorErrors
<1>1. RE!NameError # RE!ConditionError
    BY DEF RE!NameError, RE!ConditionError
<1>2. \A p \in (1 .. MaxSelections) \X (1 .. MaxMaps) : p # RE!NameError
    BY DEF RE!NameError
<1> QED
    BY <1>1, <1>2 DEF RE!Shown, EditorErrors

\* What is validated anew leaves the error of the names as it is.
LEMMA ValidationKeepsNames ==
    ASSUME NEW obj, NEW errs \in SUBSET EditorErrors
    PROVE  /\ RE!ValidateData(obj, errs) \in SUBSET EditorErrors
           /\ RE!ValidateCondition(obj, errs) \in SUBSET EditorErrors
           /\ RE!NameError \in RE!ValidateData(obj, errs) <=> RE!NameError \in errs
           /\ RE!NameError \in RE!ValidateCondition(obj, errs) <=> RE!NameError \in errs
<1>1. RE!ConditionError \in EditorErrors
    BY DEF EditorErrors
<1> QED
    BY <1>1, ErrorsDiffer DEF RE!ValidateData, RE!ValidateCondition

LEMMA EditorUpdates ==
    ASSUME NEW obj \in RE!Detections, NEW errs \in SUBSET EditorErrors, RE!Update(obj, errs)
    PROVE  /\ detectionObj' = obj
           /\ errors' \in SUBSET EditorErrors
           /\ RE!NameError \in errors' <=> RE!NameError \in errs
           /\ isDetectionInvalid' \in BOOLEAN
           /\ ~isDetectionInvalid' => RE!NameError \notin errors'
<1> DEFINE all == RE!ValidateCondition(obj, RE!ValidateData(obj, errs))
<1>1. all \in SUBSET EditorErrors /\ (RE!NameError \in all <=> RE!NameError \in errs)
    BY ValidationKeepsNames
<1>2. errors' \in {all, errs}
    BY DEF RE!Update
<1>3. /\ detectionObj' = obj
      /\ isDetectionInvalid' = RE!Invalid(obj, errors')
    BY DEF RE!Update
<1> QED
    BY <1>1, <1>2, <1>3 DEF RE!Invalid

LEMMA EditorChanges ==
    ASSUME EditorInv, NEW obj \in RE!Detections, obj.how = "map",
           NEW errs \in SUBSET EditorErrors,
           RE!Change(obj, errs), unchecked' \in BOOLEAN,
           unchecked' \/ RE!Distinct(obj.selections) \/ RE!NameError \in errs
    PROVE  EditorInv'
<1>1. /\ detectionObj' = obj
      /\ errors' \in SUBSET EditorErrors
      /\ RE!NameError \in errors' <=> RE!NameError \in errs
      /\ isDetectionInvalid' \in BOOLEAN
      /\ ~isDetectionInvalid' => RE!NameError \notin errors'
    BY EditorUpdates DEF RE!Change
<1>2. /\ detection' = RE!Compile(obj) /\ RE!Compile(obj) \in RE!Detections
      /\ RE!Distinct(RE!Compile(obj).selections)
    BY DetectionCompiled DEF RE!Change
<1>3. UNCHANGED <<stored, editor, touched, calls, meant>>
    BY DEF RE!Change
<1>4. edits' \in 0 .. MoreEdits
    BY MCPagesAssumption DEF RE!Change, RE!Spend, EditorInv, RE!TypeOK
<1>5. RE!TypeOK'
    BY <1>1, <1>2, <1>3, <1>4 DEF EditorInv, RE!TypeOK, EditorErrors
<1>6. EditorInStep' /\ NamesTold'
    BY <1>1, <1>2 DEF EditorInStep, NamesTold
<1> QED
    BY <1>1, <1>2, <1>3, <1>5, <1>6 DEF EditorInv, Claimed

\* What is left of selections, or of maps, when one is taken away.
LEMMA OneRemoved ==
    ASSUME NEW S, NEW s \in Seq(S), NEW i \in DOMAIN s
    PROVE  /\ RE!Spliced(s, i) \in Seq(S)
           /\ DOMAIN RE!Spliced(s, i) = 1 .. Len(s) - 1
           /\ \A j \in 1 .. Len(s) - 1 : RE!Spliced(s, i)[j] = IF j < i THEN s[j] ELSE s[j + 1]
<1> DEFINE before == SubSeq(s, 1, i - 1)
           after == SubSeq(s, i + 1, Len(s))
<1>1. Len(s) \in Nat /\ DOMAIN s = 1 .. Len(s) /\ \A j \in 1 .. Len(s) : s[j] \in S
    BY LenProperties, ElementOfSeq
<1>8. i \in 1 .. Len(s)
    BY <1>1
<1>2. /\ before \in Seq(S) /\ Len(before) = i - 1
      /\ \A j \in 1 .. i - 1 : before[j] = s[j]
    BY <1>1, SubSeqProperties
<1>3. /\ after \in Seq(S) /\ Len(after) = Len(s) - i
      /\ \A j \in 1 .. Len(s) - i : after[j] = s[i + j]
    BY <1>1, SubSeqProperties
<1>4. RE!Spliced(s, i) = before \o after
    BY DEF RE!Spliced
<1> HIDE DEF before, after
<1>5. /\ before \o after \in Seq(S) /\ Len(before \o after) = Len(s) - 1
      /\ \A j \in 1 .. Len(s) - 1 :
            (before \o after)[j] = IF j <= i - 1 THEN before[j] ELSE after[j - (i - 1)]
  <2>1. Len(before) + Len(after) = Len(s) - 1
    BY <1>1, <1>2, <1>3, <1>8
  <2>2. /\ before \o after \in Seq(S) /\ Len(before \o after) = Len(before) + Len(after)
        /\ \A j \in 1 .. Len(before) + Len(after) :
              (before \o after)[j] = IF j <= Len(before) THEN before[j]
                                     ELSE after[j - Len(before)]
    BY <1>2, <1>3, ConcatProperties
  <2> QED
    BY <1>2, <2>1, <2>2
<1>6. DOMAIN (before \o after) = 1 .. Len(s) - 1
    BY <1>5, LenProperties
<1>7. ASSUME NEW j \in 1 .. Len(s) - 1
      PROVE  (before \o after)[j] = IF j < i THEN s[j] ELSE s[j + 1]
  <2>1. CASE j < i
    <3>1. j <= i - 1 /\ j \in 1 .. i - 1
      BY <1>1, <2>1
    <3> QED
      BY <1>2, <1>5, <2>1, <3>1
  <2>2. CASE ~ (j < i)
    <3>1. ~ (j <= i - 1) /\ j - (i - 1) \in 1 .. Len(s) - i /\ i + (j - (i - 1)) = j + 1
      BY <1>1, <2>2
    <3> QED
      BY <1>3, <1>5, <2>2, <3>1
  <2> QED
    BY <2>1, <2>2
<1> QED
    BY <1>4, <1>5, <1>6, <1>7

LEMMA SelectionsOf ==
    ASSUME NEW obj \in RE!Detections
    PROVE  /\ obj.selections \in Seq(RE!Selections)
           /\ DOMAIN obj.selections = 1 .. Len(obj.selections) /\ Len(obj.selections) \in Nat
           /\ \A i \in DOMAIN obj.selections :
                 /\ obj.selections[i] \in RE!Selections
                 /\ obj.selections[i].data \in Seq(RE!Maps)
                 /\ obj.selections[i].name \in RE!Names
<1>1. obj.selections \in Seq(RE!Selections)
    BY DEF RE!Detections
<1>2. DOMAIN obj.selections = 1 .. Len(obj.selections) /\ Len(obj.selections) \in Nat
    BY <1>1, LenProperties
<1>3. \A i \in DOMAIN obj.selections : obj.selections[i] \in RE!Selections
    BY <1>1, <1>2, ElementOfSeq
<1> QED
    BY <1>1, <1>2, <1>3 DEF RE!Selections

WithSelection(obj, i, sel) == [obj EXCEPT !.selections[i] = sel]
WithMaps(obj, i, data) == [obj EXCEPT !.selections[i].data = data]

\* One selection is another, and the rest of the detection stays.
LEMMA OneSelection ==
    ASSUME NEW obj \in RE!Detections, NEW i \in DOMAIN obj.selections,
           NEW sel \in RE!Selections
    PROVE  /\ WithSelection(obj, i, sel) \in RE!Detections
           /\ WithSelection(obj, i, sel).how = obj.how
           /\ WithSelection(obj, i, sel).selections = [obj.selections EXCEPT ![i] = sel]
<1>1. obj.selections \in Seq(RE!Selections)
    BY SelectionsOf
<1>2. [obj.selections EXCEPT ![i] = sel] \in Seq(RE!Selections)
    BY <1>1, ExceptSeq
<1> QED
    BY <1>2 DEF RE!Detections, WithSelection

\* A change of the maps of a selection.
LEMMA MapsChanged ==
    ASSUME NEW obj \in RE!Detections, NEW i \in DOMAIN obj.selections,
           NEW data \in Seq(RE!Maps)
    PROVE  /\ WithMaps(obj, i, data) \in RE!Detections
           /\ WithMaps(obj, i, data).how = obj.how
           /\ RE!Distinct(obj.selections) => RE!Distinct(WithMaps(obj, i, data).selections)
<1> DEFINE sel == [obj.selections[i] EXCEPT !.data = data]
<1>1. obj.selections[i] \in RE!Selections
    BY SelectionsOf
<1>2. sel \in RE!Selections /\ sel.name = obj.selections[i].name
    BY <1>1 DEF RE!Selections
<1>3. WithMaps(obj, i, data) = WithSelection(obj, i, sel)
    BY DEF WithMaps, WithSelection
<1> HIDE DEF sel
<1>4. /\ WithSelection(obj, i, sel) \in RE!Detections
      /\ WithSelection(obj, i, sel).how = obj.how
      /\ WithSelection(obj, i, sel).selections = [obj.selections EXCEPT ![i] = sel]
    BY <1>2, OneSelection
<1>5. RE!Distinct(obj.selections) => RE!Distinct([obj.selections EXCEPT ![i] = sel])
  <2>1. DOMAIN [obj.selections EXCEPT ![i] = sel] = DOMAIN obj.selections
    OBVIOUS
  <2>2. \A k \in DOMAIN obj.selections :
            [obj.selections EXCEPT ![i] = sel][k].name = obj.selections[k].name
    BY <1>2
  <2> QED
    BY <2>1, <2>2 DEF RE!Distinct
<1> QED
    BY <1>3, <1>4, <1>5

LEMMA EditorHas ==
    ASSUME EditorInv
    PROVE  /\ detectionObj \in RE!Detections /\ detectionObj.how = "map"
           /\ errors \in SUBSET EditorErrors /\ unchecked \in BOOLEAN
    BY DEF EditorInv, RE!TypeOK, EditorErrors

LEMMA EditorUpdatesDatum ==
    ASSUME EditorInv, NEW i \in DOMAIN detectionObj.selections,
           NEW j \in DOMAIN detectionObj.selections[i].data, NEW d \in RE!Maps,
           RE!UpdateDatum(i, j, d)
    PROVE  EditorInv'
<1> DEFINE obj == [detectionObj EXCEPT !.selections[i].data[j] = d]
           data == [detectionObj.selections[i].data EXCEPT ![j] = d]
<1>1. /\ RE!Change(obj, RE!ValidateData(obj, errors))
      /\ editor = "visual" /\ unchecked' = unchecked
    BY DEF RE!UpdateDatum, RE!Change
<1>2. data \in Seq(RE!Maps)
    BY EditorHas, SelectionsOf, ExceptSeq
<1>3. obj = WithMaps(detectionObj, i, data)
    BY DEF WithMaps
<1> HIDE DEF obj, data
<1>4. /\ obj \in RE!Detections /\ obj.how = "map"
      /\ RE!Distinct(detectionObj.selections) => RE!Distinct(obj.selections)
    BY <1>2, <1>3, EditorHas, MapsChanged
<1>5. /\ RE!ValidateData(obj, errors) \in SUBSET EditorErrors
      /\ RE!NameError \in errors => RE!NameError \in RE!ValidateData(obj, errors)
    BY EditorHas, ValidationKeepsNames
<1>6. unchecked \/ RE!Distinct(obj.selections) \/ RE!NameError \in RE!ValidateData(obj, errors)
    BY <1>1, <1>4, <1>5 DEF EditorInv, NamesTold
<1> QED
    BY <1>1, <1>4, <1>5, <1>6, EditorHas, EditorChanges

LEMMA EditorUpdatesSelection ==
    ASSUME EditorInv, NEW i \in DOMAIN detectionObj.selections,
           NEW data \in Seq(RE!Maps), RE!UpdateSelection(i, data)
    PROVE  EditorInv'
<1> DEFINE obj == RE!WithData(i, data)
           errs == IF detectionObj.selections[i].name = 0
                   THEN errors \cup {RE!NameError} ELSE errors \ {RE!NameError}
<1>1. /\ RE!Change(obj, errs)
      /\ unchecked' = (unchecked \/ ~RE!Distinct(detectionObj.selections))
    BY DEF RE!UpdateSelection
<1>5. obj = WithMaps(detectionObj, i, data)
    BY DEF RE!WithData, WithMaps
<1>2. /\ obj \in RE!Detections /\ obj.how = "map"
      /\ RE!Distinct(detectionObj.selections) => RE!Distinct(obj.selections)
    BY <1>5, EditorHas, MapsChanged
<1>3. errs \in SUBSET EditorErrors
    BY EditorHas DEF EditorErrors
<1> HIDE DEF obj, errs
<1>4. unchecked' \in BOOLEAN /\ (unchecked' \/ RE!Distinct(obj.selections))
    BY <1>1, <1>2
<1> QED
    BY <1>1, <1>2, <1>3, <1>4, EditorChanges

LEMMA EditorMaps ==
    ASSUME EditorInv, NEW i \in DOMAIN detectionObj.selections,
           \/ RE!AddMap(i)
           \/ \E j \in DOMAIN detectionObj.selections[i].data : RE!DeleteMap(i, j)
    PROVE  EditorInv'
<1> DEFINE data == detectionObj.selections[i].data
<1>1. data \in Seq(RE!Maps)
    BY EditorHas, SelectionsOf
<1>2. CASE RE!AddMap(i)
  <2>1. RE!Blank \in RE!Maps
    BY DEF RE!Blank, RE!Maps
  <2>2. Append(data, RE!Blank) \in Seq(RE!Maps)
    BY <1>1, <2>1, AppendProperties
  <2>3. RE!UpdateSelection(i, Append(data, RE!Blank))
    BY <1>2 DEF RE!AddMap
  <2> QED
    BY <2>2, <2>3, EditorUpdatesSelection
<1>3. ASSUME NEW j \in DOMAIN data, RE!DeleteMap(i, j) PROVE EditorInv'
  <2>1. RE!Spliced(data, j) \in Seq(RE!Maps)
    BY <1>1, OneRemoved
  <2>2. RE!UpdateSelection(i, RE!Spliced(data, j))
    BY <1>3 DEF RE!DeleteMap
  <2> QED
    BY <2>1, <2>2, EditorUpdatesSelection
<1> QED
    BY <1>2, <1>3

\* A new name is compared with those of the others.
LEMMA EditorRenames ==
    ASSUME EditorInv, NEW i \in DOMAIN detectionObj.selections, NEW name \in RE!Names,
           RE!Rename(i, name)
    PROVE  EditorInv'
<1> DEFINE sels == detectionObj.selections
           sel == [sels[i] EXCEPT !.name = name]
           obj == [detectionObj EXCEPT !.selections[i].name = name]
           others == RE!Spliced(sels, i)
           wrong == name = 0 \/ \E j \in DOMAIN others : others[j].name = name
           named == IF wrong THEN errors \cup {RE!NameError} ELSE errors \ {RE!NameError}
           errs == RE!ValidateCondition(obj, named)
<1>1. /\ RE!Change(obj, errs)
      /\ unchecked' = (unchecked \/ ~RE!Distinct(others))
    BY DEF RE!Rename
<1>2. /\ sels \in Seq(RE!Selections) /\ sels[i] \in RE!Selections
      /\ DOMAIN sels = 1 .. Len(sels) /\ Len(sels) \in Nat
    BY EditorHas, SelectionsOf
<1>3. sel \in RE!Selections /\ sel.name = name
    BY <1>2 DEF RE!Selections
<1>4. obj = WithSelection(detectionObj, i, sel)
    BY DEF WithSelection
<1> HIDE DEF sel, obj
<1>5. /\ obj \in RE!Detections /\ obj.how = "map"
      /\ obj.selections = [sels EXCEPT ![i] = sel]
    BY <1>3, <1>4, EditorHas, OneSelection
<1>6. named \in SUBSET EditorErrors
    BY EditorHas DEF EditorErrors
<1>7. errs \in SUBSET EditorErrors /\ (RE!NameError \in errs <=> RE!NameError \in named)
  <2> HIDE DEF named
  <2> QED
    BY <1>6, ValidationKeepsNames
<1>8. /\ others \in Seq(RE!Selections)
      /\ DOMAIN others = 1 .. Len(sels) - 1
      /\ \A j \in 1 .. Len(sels) - 1 : others[j] = IF j < i THEN sels[j] ELSE sels[j + 1]
    BY <1>2, OneRemoved
<1>9. ASSUME NEW a \in DOMAIN sels, a # i
      PROVE  LET to == IF a < i THEN a ELSE a - 1 IN
             to \in DOMAIN others /\ others[to] = sels[a]
  <2>1. CASE a < i
    <3>1. a \in 1 .. Len(sels) - 1
      BY <1>2, <2>1
    <3> QED
      BY <1>8, <2>1, <3>1
  <2>2. CASE ~ (a < i)
    <3>1. a - 1 \in 1 .. Len(sels) - 1 /\ ~ (a - 1 < i) /\ a - 1 + 1 = a
      BY <1>2, <1>9, <2>2
    <3> QED
      BY <1>8, <2>2, <3>1
  <2> QED
    BY <2>1, <2>2
<1> HIDE DEF sels, others
<1>10. ASSUME RE!Distinct(others), ~wrong PROVE RE!Distinct(obj.selections)
  <2>1. ASSUME NEW a \in DOMAIN sels, a # i PROVE sels[a].name # name
    BY <1>9, <1>10, <2>1
  <2>2. ASSUME NEW a \in DOMAIN sels, NEW b \in DOMAIN sels, a # i, b # i, a # b
        PROVE  sels[a].name # sels[b].name
    <3> DEFINE p == IF a < i THEN a ELSE a - 1
               q == IF b < i THEN b ELSE b - 1
    <3>1. /\ p \in DOMAIN others /\ others[p] = sels[a]
          /\ q \in DOMAIN others /\ others[q] = sels[b]
      BY <1>9, <2>2
    <3>2. p # q
      BY <1>2, <2>2 DEF sels
    <3> HIDE DEF p, q
    <3> QED
      BY <1>10, <3>1, <3>2 DEF RE!Distinct
  <2>3. DOMAIN obj.selections = DOMAIN sels
    BY <1>5
  <2>4. \A a \in DOMAIN sels : obj.selections[a] = IF a = i THEN sel ELSE sels[a]
    BY <1>5 DEF sels
  <2> QED
    BY <1>3, <2>1, <2>2, <2>3, <2>4 DEF RE!Distinct
<1>11. /\ unchecked' \in BOOLEAN
       /\ unchecked' \/ RE!Distinct(obj.selections) \/ RE!NameError \in errs
  <2>1. wrong => RE!NameError \in named
    OBVIOUS
  <2> HIDE DEF errs, named, wrong
  <2> QED
    BY <1>1, <1>7, <1>10, <2>1
<1> HIDE DEF errs
<1> QED
    BY <1>1, <1>5, <1>7, <1>11, EditorChanges

LEMMA EditorAdds == ASSUME EditorInv, RE!AddSelection PROVE EditorInv'
<1> DEFINE n == Len(detectionObj.selections)
           sel == [name |-> n + 1, data |-> <<RE!Blank>>]
           obj == [detectionObj EXCEPT !.selections = Append(@, sel)]
<1>1. /\ RE!Change(obj, errors) /\ n < MaxSelections
      /\ unchecked' = (unchecked \/ ~RE!Distinct(obj.selections))
    BY DEF RE!AddSelection
<1>2. detectionObj.selections \in Seq(RE!Selections) /\ n \in Nat
    BY EditorHas, SelectionsOf
<1>3. sel \in RE!Selections
  <2>1. RE!Blank \in RE!Maps
    BY DEF RE!Blank, RE!Maps
  <2>2. <<RE!Blank>> \in Seq(RE!Maps)
    BY <2>1
  <2>3. n + 1 \in RE!Names
    BY <1>1, <1>2, MCPagesAssumption DEF RE!Names, RE!Condition
  <2> QED
    BY <2>2, <2>3 DEF RE!Selections
<1> HIDE DEF sel
<1>4. Append(detectionObj.selections, sel) \in Seq(RE!Selections)
    BY <1>2, <1>3, AppendProperties
<1>5. obj \in RE!Detections /\ obj.how = "map"
    BY <1>4, EditorHas DEF RE!Detections
<1> HIDE DEF obj
<1>6. unchecked' \in BOOLEAN /\ (unchecked' \/ RE!Distinct(obj.selections))
    BY <1>1
<1> QED
    BY <1>1, <1>5, <1>6, EditorHas, EditorChanges

LEMMA EditorDeletes ==
    ASSUME EditorInv, NEW i \in DOMAIN detectionObj.selections, RE!DeleteSelection(i)
    PROVE  EditorInv'
<1> DEFINE sels == detectionObj.selections
           left == RE!Spliced(sels, i)
           obj == [detectionObj EXCEPT !.selections = RE!Spliced(@, i)]
           errs == RE!ValidateCondition(obj, errors)
<1>1. RE!Change(obj, errs) /\ editor = "visual" /\ unchecked' = unchecked
    BY DEF RE!DeleteSelection, RE!Change
<1>2. sels \in Seq(RE!Selections) /\ DOMAIN sels = 1 .. Len(sels) /\ Len(sels) \in Nat
    BY EditorHas, SelectionsOf
<1>3. /\ left \in Seq(RE!Selections)
      /\ DOMAIN left = 1 .. Len(sels) - 1
      /\ \A j \in 1 .. Len(sels) - 1 : left[j] = IF j < i THEN sels[j] ELSE sels[j + 1]
    BY <1>2, OneRemoved
<1> HIDE DEF left
<1>4. obj \in RE!Detections /\ obj.how = "map" /\ obj.selections = left
    BY <1>3, EditorHas DEF RE!Detections, left
<1> HIDE DEF obj, sels
<1>5. RE!Distinct(sels) => RE!Distinct(left)
  <2>1. ASSUME RE!Distinct(sels), NEW a \in 1 .. Len(sels) - 1, NEW b \in 1 .. Len(sels) - 1,
               a # b
        PROVE  left[a].name # left[b].name
    <3> DEFINE p == IF a < i THEN a ELSE a + 1
               q == IF b < i THEN b ELSE b + 1
    <3>1. p \in DOMAIN sels /\ q \in DOMAIN sels /\ p # q
      BY <1>2, <2>1 DEF sels
    <3>2. left[a] = sels[p] /\ left[b] = sels[q]
      BY <1>3
    <3> HIDE DEF p, q
    <3> QED
      BY <2>1, <3>1, <3>2 DEF RE!Distinct
  <2> QED
    BY <1>3, <2>1 DEF RE!Distinct
<1>6. /\ errs \in SUBSET EditorErrors
      /\ RE!NameError \in errs <=> RE!NameError \in errors
    BY EditorHas, ValidationKeepsNames
<1> HIDE DEF errs
<1>7. unchecked \/ RE!Distinct(left) \/ RE!NameError \in errs
    BY <1>1, <1>5, <1>6 DEF EditorInv, NamesTold, sels
<1> QED
    BY <1>1, <1>4, <1>6, <1>7, EditorHas, EditorChanges

LEMMA EditorCondition == ASSUME EditorInv, RE!UpdateCondition PROVE EditorInv'
<1> DEFINE obj == [detectionObj EXCEPT !.condition = IF @ = "good" THEN "bad" ELSE "good"]
           errs == RE!ValidateCondition(obj, errors)
<1>1. RE!Change(obj, errs) /\ editor = "visual" /\ unchecked' = unchecked
    BY DEF RE!UpdateCondition, RE!Change
<1>2. /\ obj \in RE!Detections /\ obj.how = "map"
      /\ obj.selections = detectionObj.selections
    BY EditorHas DEF RE!Detections
<1> HIDE DEF obj
<1>3. /\ errs \in SUBSET EditorErrors
      /\ RE!NameError \in errs <=> RE!NameError \in errors
    BY EditorHas, ValidationKeepsNames
<1> HIDE DEF errs
<1>4. unchecked \/ RE!Distinct(obj.selections) \/ RE!NameError \in errs
    BY <1>1, <1>2, <1>3 DEF EditorInv, NamesTold
<1> QED
    BY <1>1, <1>2, <1>3, <1>4, EditorHas, EditorChanges

LEMMA EditorRenders == ASSUME EditorInv, RE!Render PROVE EditorInv'
<1>1. /\ editor = "visual" /\ RE!Update(detectionObj, errors)
      /\ UNCHANGED <<stored, editor, detection, touched, calls, edits, unchecked, meant>>
    BY DEF RE!Render
<1>2. /\ detectionObj' = detectionObj
      /\ errors' \in SUBSET EditorErrors
      /\ RE!NameError \in errors' <=> RE!NameError \in errors
      /\ isDetectionInvalid' \in BOOLEAN
      /\ ~isDetectionInvalid' => RE!NameError \notin errors'
    BY <1>1, EditorHas, EditorUpdates
<1>3. RE!TypeOK'
    BY <1>1, <1>2 DEF EditorInv, RE!TypeOK, EditorErrors
<1>4. EditorInStep' /\ NamesTold'
  <2>1. EditorInStep /\ NamesTold
    BY <1>1 DEF EditorInv
  <2>2. EditorInStep'
    BY <1>1, <1>2, <2>1 DEF EditorInStep
  <2>3. NamesTold'
    BY <1>1, <1>2, <2>1 DEF NamesTold
  <2> QED
    BY <2>2, <2>3
<1> QED
    BY <1>1, <1>2, <1>3, <1>4 DEF EditorInv, Claimed

\* The visual editor is mounted with the detection of the form, or with none beside the text.
LEMMA EditorMounts ==
    ASSUME EditorInv, editor' \in {"visual", "yaml"},
           NEW d \in RE!Detections \cup {RE!None}, d # RE!None => RE!Distinct(d.selections),
           detection' = d,
           RE!Mount(IF editor' = "visual" THEN d ELSE RE!None),
           isDetectionInvalid' \in BOOLEAN, touched' \in BOOLEAN, unchecked' = FALSE,
           UNCHANGED <<stored, calls, edits, meant>>
    PROVE  EditorInv'
<1> DEFINE m == IF editor' = "visual" THEN d ELSE RE!None
<1>1. /\ detectionObj' = RE!Parse(m) /\ errors' = {}
      /\ RE!Parse(m) \in RE!Detections /\ RE!Parse(m).how = "map"
      /\ RE!Distinct(RE!Parse(m).selections)
    BY DetectionParsed DEF RE!Mount
<1>2. RE!TypeOK'
  <2>1. {isDetectionInvalid', touched', unchecked'} \subseteq BOOLEAN
    OBVIOUS
  <2> QED
    BY <1>1, <2>1 DEF EditorInv, RE!TypeOK
<1>3. editor' = "visual" => EditorInStep' /\ NamesTold'
    BY <1>1 DEF EditorInStep, NamesTold
<1> QED
    BY <1>1, <1>2, <1>3 DEF EditorInv, Claimed

LEMMA EditorOpens ==
    ASSUME EditorInv, NEW d \in {stored, [stored EXCEPT !.how = "list"], RE!None}, RE!Open(d)
    PROVE  EditorInv'
<1>1. /\ d \in RE!Detections \cup {RE!None}
      /\ d # RE!None => RE!Distinct(d.selections)
  <2>1. stored \in RE!Detections /\ RE!Distinct(stored.selections)
    BY DEF EditorInv, RE!TypeOK
  <2>2. CASE d = [stored EXCEPT !.how = "list"]
    BY <2>1, <2>2 DEF RE!Detections
  <2> QED
    BY <2>1, <2>2
<1>2. /\ editor' = "visual" /\ detection' = d /\ RE!Mount(d)
      /\ isDetectionInvalid' = FALSE /\ touched' = FALSE /\ unchecked' = FALSE
      /\ UNCHANGED <<stored, calls, edits, meant>>
    BY DEF RE!Open
<1> QED
    BY <1>1, <1>2, EditorMounts

LEMMA EditorSwitches == ASSUME EditorInv, RE!OnEditorTypeChange PROVE EditorInv'
<1>1. /\ detection \in RE!Detections \cup {RE!None}
      /\ detection # RE!None => RE!Distinct(detection.selections)
      /\ isDetectionInvalid \in BOOLEAN /\ touched \in BOOLEAN
    BY DEF EditorInv, RE!TypeOK
<1>2. /\ unchecked' = FALSE
      /\ UNCHANGED <<stored, detection, isDetectionInvalid, touched, calls, edits, meant>>
      /\ \/ editor' = "yaml" /\ RE!Mount(RE!None)
         \/ editor' = "visual" /\ RE!Mount(detection)
    BY DEF RE!OnEditorTypeChange
<1>3. RE!Mount(IF editor' = "visual" THEN detection ELSE RE!None)
    BY <1>2
<1> QED
    BY <1>1, <1>2, <1>3, EditorMounts

LEMMA EditorCloses ==
    ASSUME EditorInv, RE!Close, UNCHANGED edits,
           stored' \in RE!Detections, RE!Distinct(stored'.selections),
           meant' \in RE!Detections \cup {RE!None}, Claimed(stored', meant'),
           calls' \subseteq calls
    PROVE  EditorInv'
<1>1. /\ RE!DefaultDetectionObj \in RE!Detections
      /\ RE!DefaultDetectionObj.how = "map"
  <2>1. RE!Parse(RE!None) = RE!DefaultDetectionObj
    BY DEF RE!Parse
  <2> QED
    BY <2>1, DetectionParsed
<1>2. /\ editor' = "closed" /\ detection' = RE!None
      /\ detectionObj' = RE!DefaultDetectionObj /\ errors' = {}
      /\ isDetectionInvalid' = FALSE /\ touched' = FALSE /\ unchecked' = FALSE
    BY DEF RE!Close
<1>3. RE!TypeOK'
  <2>1. {isDetectionInvalid', touched', unchecked'} \subseteq BOOLEAN
    BY <1>2
  <2>2. calls' \subseteq [body : RE!Detections, shown : RE!Detections \cup {RE!None}]
    BY DEF EditorInv, RE!TypeOK
  <2>3. edits' \in 0 .. MoreEdits
    BY DEF EditorInv, RE!TypeOK
  <2> QED
    BY <1>1, <1>2, <2>1, <2>2, <2>3 DEF RE!TypeOK
<1> QED
    BY <1>1, <1>2, <1>3 DEF EditorInv

LEMMA EditorCancels == ASSUME EditorInv, RE!Cancel PROVE EditorInv'
<1>1. RE!Close /\ UNCHANGED <<stored, calls, edits, meant>>
    BY DEF RE!Cancel
<1>2. /\ stored \in RE!Detections /\ RE!Distinct(stored.selections)
      /\ meant \in RE!Detections \cup {RE!None} /\ Claimed(stored, meant)
    BY DEF EditorInv, RE!TypeOK
<1> QED
    BY <1>1, <1>2, EditorCloses

LEMMA EditorBreaks == ASSUME EditorInv, RE!Breaks PROVE EditorInv'
<1>1. RE!Close /\ UNCHANGED <<stored, calls, edits, meant>>
    BY DEF RE!Breaks
<1>2. /\ stored \in RE!Detections /\ RE!Distinct(stored.selections)
      /\ meant \in RE!Detections \cup {RE!None} /\ Claimed(stored, meant)
    BY DEF EditorInv, RE!TypeOK
<1> QED
    BY <1>1, <1>2, EditorCloses

LEMMA EditorBlurs == ASSUME EditorInv, RE!OnBlur PROVE EditorInv'
<1>1. PICK how \in {"map", "list"}, condition \in {"good", "bad"} :
          detection' = [stored EXCEPT !.how = how, !.condition = condition]
    BY DEF RE!OnBlur
<1>2. /\ editor = "yaml" /\ edits < MoreEdits /\ edits' = edits + 1
      /\ UNCHANGED <<stored, editor, detectionObj, errors, isDetectionInvalid, touched, calls,
                     unchecked, meant>>
    BY DEF RE!OnBlur, RE!Spend, RE!visual
<1>3. stored \in RE!Detections /\ RE!Distinct(stored.selections)
    BY DEF EditorInv, RE!TypeOK
<1>4. detection' \in RE!Detections /\ RE!Distinct(detection'.selections)
    BY <1>1, <1>3 DEF RE!Detections
<1>5. edits' \in 0 .. MoreEdits
    BY <1>2, MCPagesAssumption DEF EditorInv, RE!TypeOK
<1>6. RE!TypeOK'
    BY <1>2, <1>4, <1>5 DEF EditorInv, RE!TypeOK
<1> QED
    BY <1>2, <1>4, <1>6 DEF EditorInv, Claimed

\* What is submitted with a claim is parsed to what was shown.
LEMMA EditorClaims ==
    ASSUME EditorInv, editor = "visual", detection # RE!None, ~isDetectionInvalid,
           RE!Fits(detectionObj), ~unchecked
    PROVE  RE!Parse(detection) = detectionObj
<1>1. CASE RE!Parse(detection) = detectionObj
    BY <1>1
<1>2. CASE detection = RE!Compile(detectionObj) /\ RE!NameError \notin errors
  <2>1. RE!Distinct(detectionObj.selections)
    BY <1>2 DEF EditorInv, NamesTold
  <2>2. RE!Compile(detectionObj) = detectionObj
    BY <2>1, EditorHas, CompiledToItself
  <2> QED
    BY <1>2, <2>2, EditorHas DEF RE!Parse, RE!Detections
<1> QED
    BY <1>1, <1>2 DEF EditorInv, EditorInStep

LEMMA EditorSubmits == ASSUME EditorInv, RE!Submit PROVE EditorInv'
<1> DEFINE shownNow == IF editor = "visual" THEN detectionObj ELSE RE!Parse(detection)
           claim == IF RE!Fits(shownNow) /\ ~unchecked THEN shownNow ELSE RE!None
           sent == [body |-> detection, shown |-> claim]
           marked == RE!ValidateCondition(detectionObj, RE!ValidateData(detectionObj, errors))
<1>1. /\ touched' = TRUE
      /\ UNCHANGED <<stored, editor, detection, detectionObj, isDetectionInvalid, edits,
                     unchecked, meant>>
      /\ IF detection = RE!None \/ isDetectionInvalid
         THEN calls' = calls ELSE calls' = calls \cup {sent}
      /\ errors' = IF editor = "visual" /\ ~touched /\ isDetectionInvalid THEN marked ELSE errors
    BY DEF RE!Submit
<1>2. /\ detection \in RE!Detections \cup {RE!None}
      /\ detection # RE!None => RE!Distinct(detection.selections)
    BY DEF EditorInv, RE!TypeOK
<1>3. shownNow \in RE!Detections
    BY <1>2, EditorHas, DetectionParsed
<1>4. ASSUME detection # RE!None, ~isDetectionInvalid
      PROVE  /\ sent \in [body : RE!Detections, shown : RE!Detections \cup {RE!None}]
             /\ RE!Distinct(sent.body.selections) /\ Claimed(sent.body, sent.shown)
  <2>1. claim # RE!None => RE!Parse(detection) = claim
    BY <1>4, EditorClaims
  <2> HIDE DEF shownNow
  <2>2. claim \in RE!Detections \cup {RE!None}
    BY <1>3
  <2> HIDE DEF claim
  <2> QED
    BY <1>2, <1>4, <2>1, <2>2 DEF Claimed
<1>5. marked \in SUBSET EditorErrors /\ (RE!NameError \in marked <=> RE!NameError \in errors)
    BY EditorHas, ValidationKeepsNames
<1> HIDE DEF sent, marked
<1>6. /\ calls' \subseteq [body : RE!Detections, shown : RE!Detections \cup {RE!None}]
      /\ \A c \in calls' : RE!Distinct(c.body.selections) /\ Claimed(c.body, c.shown)
    BY <1>1, <1>4 DEF EditorInv, RE!TypeOK
<1>7. errors' \in SUBSET EditorErrors /\ (RE!NameError \in errors' <=> RE!NameError \in errors)
    BY <1>1, <1>5, EditorHas
<1>8. RE!TypeOK'
  <2>1. {isDetectionInvalid', touched', unchecked'} \subseteq BOOLEAN
    BY <1>1 DEF EditorInv, RE!TypeOK
  <2> QED
    BY <1>1, <1>6, <1>7, <2>1 DEF EditorInv, RE!TypeOK, EditorErrors
<1>9. editor' = "visual" => EditorInStep' /\ NamesTold'
    BY <1>1, <1>7 DEF EditorInv, EditorInStep, NamesTold
<1> QED
    BY <1>1, <1>6, <1>8, <1>9 DEF EditorInv, Claimed

LEMMA EditorAnswered ==
    ASSUME EditorInv, NEW c \in calls, RE!Written(c) \/ RE!WriteFails(c)
    PROVE  EditorInv'
<1>1. /\ c.body \in RE!Detections /\ c.shown \in RE!Detections \cup {RE!None}
      /\ RE!Distinct(c.body.selections) /\ Claimed(c.body, c.shown)
    BY DEF EditorInv, RE!TypeOK
<1>2. /\ stored \in RE!Detections /\ meant \in RE!Detections \cup {RE!None}
      /\ RE!Distinct(stored.selections) /\ Claimed(stored, meant)
    BY DEF EditorInv, RE!TypeOK
<1>3. CASE RE!Written(c)
    BY <1>1, <1>3, EditorCloses DEF RE!Written, RE!Stored
<1>4. CASE RE!WriteFails(c)
  <2>1. /\ calls' = calls \ {c}
        /\ UNCHANGED <<editor, detection, detectionObj, errors, isDetectionInvalid, touched, edits,
                       unchecked>>
        /\ (stored' = c.body /\ meant' = c.shown) \/ UNCHANGED <<stored, meant>>
    BY <1>4 DEF RE!WriteFails, RE!Stored, RE!visual
  <2>2. /\ stored' \in RE!Detections /\ meant' \in RE!Detections \cup {RE!None}
        /\ RE!Distinct(stored'.selections) /\ Claimed(stored', meant')
    BY <1>1, <1>2, <2>1
  <2>3. RE!TypeOK'
    BY <2>1, <2>2 DEF EditorInv, RE!TypeOK
  <2> QED
    BY <2>1, <2>2, <2>3 DEF EditorInv, EditorInStep, NamesTold
<1> QED
    BY <1>3, <1>4

LEMMA EditorStep == ASSUME EditorInv, RE!Next PROVE EditorInv'
<1>1. ASSUME NEW i \in DOMAIN detectionObj.selections, RE!ChangeSelection(i) PROVE EditorInv'
    BY <1>1, EditorRenames, EditorMaps, EditorDeletes, EditorUpdatesDatum
       DEF RE!ChangeSelection
<1> QED
    BY <1>1, EditorOpens, EditorCancels, EditorSwitches, EditorBreaks, EditorAdds, EditorCondition,
       EditorRenders, EditorBlurs, EditorSubmits, EditorAnswered DEF RE!Next

LEMMA EditorStutters ==
    ASSUME EditorInv, UNCHANGED <<ofEditor, stored, touched, calls, edits>> PROVE EditorInv'
<1>1. UNCHANGED <<stored, editor, detection, detectionObj, errors, isDetectionInvalid, touched,
                  calls, edits, unchecked, meant>>
    BY DEF ofEditor
<1>2. RE!TypeOK'
    BY <1>1 DEF EditorInv, RE!TypeOK
<1> QED
    BY <1>1, <1>2 DEF EditorInv, EditorInStep, NamesTold, Claimed

LEMMA EditorInvShows == EditorInv => RE!TypeOK /\ RE!RuleShown
BY DEF EditorInv, Claimed, RE!RuleShown

-----------------------------------------------------------------------------
(* The parts together *)

FormsInv ==
    /\ part = "scan" => ScanInv
    /\ part = "source" => SourceInv
    /\ part = "rules" => RulesInv
    /\ part = "newSource" => NewSourceInv
    /\ part = "mappings" => MappingsInv /\ MappingsTyped
    /\ part = "triggers" => TriggersInv /\ TriggersBounded
    /\ part = "editor" => EditorInv

LEMMA FormsInvInit == Init => FormsInv
BY ScanInit, SourceInit, RulesInit, NewSourceInit, MappingsInit, MappingsTypedInit, TriggersInit,
   TriggersBoundedInit, EditorInit DEF Init, FormsInv

LEMMA FormsInvNext == ASSUME FormsInv, Next PROVE FormsInv'
<1>1. /\ part' = part
      /\ part = "scan" => SC!Next
      /\ part = "source" => TS!Next
      /\ part = "rules" => CR!Next
      /\ part = "newSource" => NS!Next
      /\ part = "mappings" => FM!Next
      /\ part = "triggers" => AT!Next
      /\ part = "editor" => RE!Next
    BY DEF Next
<1>2. CASE part = "triggers"
    BY <1>1, <1>2, TriggersStep, TriggersBoundedStep DEF FormsInv
<1>3. CASE part = "mappings"
    BY <1>1, <1>3, MappingsStep, MappingsTypedStep DEF FormsInv
<1> QED
    BY <1>1, <1>2, <1>3, ScanStep, SourceStep, RulesStep, NewSourceStep, EditorStep DEF FormsInv

LEMMA FormsInvStep == FormsInv /\ [Next]_vars => FormsInv'
<1> SUFFICES ASSUME FormsInv, [Next]_vars PROVE FormsInv'
    OBVIOUS
<1>1. CASE Next
    BY <1>1, FormsInvNext
<1>2. CASE UNCHANGED vars
  <2>1. UNCHANGED <<part, shared, ofForms>>
    BY <1>2 DEF vars
  <2>2. UNCHANGED <<part, cluster, active, page, calls, edits, touched, saved, ofScan, ofSource,
                    ofRules>>
    BY <2>1 DEF shared, ofForms
  <2>3. UNCHANGED <<part, cluster, active, page, scanConfig, scanId, inputs,
                    configureInProgress, calls, edits, saved>>
    BY <2>2 DEF ofScan
  <2>4. UNCHANGED <<cluster, exists, open, source, tab, item, isReadOnly, saveInProgress,
                    pageIndex, iocs, failed, calls, edits, saved>>
    BY <2>2 DEF ofSource
  <2>5. UNCHANGED <<rule, created, page, row, action, initialValues, values, period,
                    dataFilterEnabled, groupByEnabled, loadingNotifications, calls, edits,
                    touched, saved>>
    BY <2>2 DEF ofRules
  <2>6. ScanInv => ScanInv'
    <3>1. ScanTyped => ScanTyped'
      BY <2>3 DEF ScanTyped, ScanIds, ScanConfigs, ScanCalls
    <3>2. ScanCareful => ScanCareful'
      BY <2>3 DEF ScanCareful, ScanFits, ScanIdle, There
    <3> QED
      BY <2>3, <3>1, <3>2 DEF ScanInv
  <2>7. /\ UNCHANGED <<ofNewSource, enabled, changes>>
        /\ UNCHANGED <<ofMappings, form, enabled, calls, changes>>
        /\ UNCHANGED <<ofTriggers, form, stored, changes>>
        /\ UNCHANGED <<ofEditor, stored, touched, calls, edits>>
    BY <2>1 DEF shared, ofForms
  <2> QED
    BY <2>1, <2>3, <2>4, <2>5, <2>6, <2>7, SourceStutters, RulesStutter, NewSourceStutter,
       MappingsStutter, MappingsTypedStutter, TriggersStutter, TriggersBoundedStutter,
       EditorStutters DEF FormsInv
<1> QED
    BY <1>1, <1>2

LEMMA FormsInvAlways == Spec => []FormsInv
BY FormsInvInit, FormsInvStep, PTL DEF Spec

\* However the user goes between the overview and the form of the scan configuration, and
\* between data sources, what was written is what the writes were meant to make of it, as long
\* as the user waits for answers and everything that is loaded arrives (ThreatIntelOverview,
\* ThreatIntelLogScanConfig, ThreatIntelScanConfigForm).
THEOREM ScanStaysAsMeant == Spec => []ScanKept
<1>1. FormsInv => ScanKept
    BY DEF FormsInv, ScanInv, ScanCareful, ScanKept, SC!ScanKept
<1> QED
    BY <1>1, FormsInvAlways, PTL

\* However the user goes between the indicators and the details of a threat intelligence source,
\* edits, activates, refreshes and deletes it, the page, its form and its button, which each write
\* the whole source, do not undo each other, as long as the user waits for the calls that are
\* about the source (ThreatIntelSource, SourceDetails, ThreatIntelService).
THEOREM SourceStaysAsMeant == Spec => []SourceKept
<1>1. FormsInv => SourceKept
    BY DEF FormsInv, SourceInv, SourceKept, TS!SourceKept
<1> QED
    BY <1>1, FormsInvAlways, PTL

\* A correlation rule holds every part as it was last changed in a form that was saved, and
\* editing one part leaves the others as they were, however often the rule is opened, edited,
\* deleted and created anew, as long as the user waits for writes and does not change the form
\* before channels and rule have come, and but for values that reading cuts
\* (CreateCorrelationRule, CorrelationRules, CorrelationsStore).
THEOREM RulesStayAsMeant == Spec => []PartsKept
<1>1. FormsInv => PartsKept
    BY RulesInvKeeps DEF FormsInv, PartsKept
<1> QED
    BY <1>1, FormsInvAlways, PTL

\* However fields are typed, types switched, files chosen and read and a custom schema ticked on
\* the form of a new threat intelligence source, its button is there only for a source that has
\* everything its type needs; but for the known ways around the checks (AddThreatIntelSource).
THEOREM NewSourcesAreComplete == Spec => []SubmitsComplete
<1>1. FormsInv => SubmitsComplete
    BY NewSourceCompletes DEF FormsInv, SubmitsComplete
<1> QED
    BY <1>1, FormsInvAlways, PTL

\* The page and the form of the field mappings hold the same mappings, and those that the user set
\* are among them, in whichever order the answers of the fields of an index come and however often
\* the wizard goes to the step and back (ConfigureFieldMapping, EditFieldMapping).
THEOREM MappingsStayAsSet == Spec => []MappingsHold
<1>1. FormsInv => MappingsHold
    BY MappingsInvHolds DEF FormsInv, MappingsHold
<1> QED
    BY <1>1, FormsInvAlways, PTL

\* However alert triggers are added, changed, deleted and visited again in the wizard and on the
\* edit page, only valid ones are saved, their panels show them, and they are about the rules and
\* the log type of their detector (ConfigureAlerts, AlertConditionPanel, UpdateAlertConditions).
THEOREM TriggersStayAsSet == Spec => []TriggersHold
<1>1. FormsInv => TriggersHold
    BY TriggersInvHolds DEF FormsInv, TriggersHold
<1> QED
    BY <1>1, FormsInvAlways, PTL

\* However a rule is opened, edited in the visual editor or as YAML, switched between the two,
\* blurred, submitted and opened again, with any number of selections and maps, a rule that was
\* stored shows what was shown when it was submitted, but for the names that are never compared
\* and what YAML does not keep (RuleEditorContainer, RuleEditorForm, DetectionVisualEditor).
THEOREM RulesAreShownAsStored == Spec => []RuleShown
<1>1. FormsInv => RuleShown
    BY EditorInvShows DEF FormsInv, RuleShown
<1> QED
    BY <1>1, FormsInvAlways, PTL

===============================================================================
