------------------------- MODULE DetectorWizardProofs -------------------------
(***************************************************************************)
(* What holds of the wizard for any log types and clusters, and any number *)
(* of loads, selections and creations that wait at a time.                 *)
(***************************************************************************)
EXTENDS DetectorWizard, SequenceTheorems, TLAPS

LoadCalls == [type : LogTypes \cup {None}, cluster : Clusters]
SelectionCalls == [at : {"waiting", "done"}, copy : Detectors \cup {None}]
CreationCalls ==
    [at : {"mapping", "refused", "lost", "sent"}, left : BOOLEAN, fits : BOOLEAN,
     mapped : Clusters, created : Clusters \cup {None}]

\* A call that ends leaves the others in their order.
LEMMA RemoveAtProperties ==
    ASSUME NEW S, NEW s \in Seq(S), NEW n \in 1 .. Len(s)
    PROVE  /\ RemoveAt(s, n) \in Seq(S)
           /\ Len(RemoveAt(s, n)) = Len(s) - 1
           /\ n < Len(s) => RemoveAt(s, n)[Len(s) - 1] = s[Len(s)]
<1> DEFINE a == SubSeq(s, 1, n - 1)
           b == SubSeq(s, n + 1, Len(s))
<1>1. Len(s) \in Nat
    BY LenProperties
<1>2. a \in Seq(S) /\ Len(a) = n - 1
    BY <1>1, SubSeqProperties
<1>3. b \in Seq(S) /\ Len(b) = Len(s) - n
    BY <1>1, SubSeqProperties
<1>4. n < Len(s) => b[Len(s) - n] = s[Len(s)]
    BY <1>1, SubSeqProperties
<1>5. RemoveAt(s, n) = a \o b
    BY DEF RemoveAt
<1> HIDE DEF a, b
<1>6. Len(a \o b) = Len(s) - 1 /\ a \o b \in Seq(S)
  <2>1. a \o b \in Seq(S) /\ Len(a \o b) = Len(a) + Len(b)
    BY <1>2, <1>3, ConcatProperties
  <2> QED
    BY <1>1, <1>2, <1>3, <2>1
<1>7. n < Len(s) => (a \o b)[Len(s) - 1] = b[Len(s) - n]
  <2> SUFFICES ASSUME n < Len(s) PROVE (a \o b)[Len(s) - 1] = b[Len(s) - n]
    OBVIOUS
  <2>1. Len(s) - 1 \in 1 .. Len(a) + Len(b) /\ ~(Len(s) - 1 <= Len(a))
    BY <1>1, <1>2, <1>3
  <2>2. (Len(s) - 1) - Len(a) = Len(s) - n
    BY <1>1, <1>2
  <2>3. (a \o b)[Len(s) - 1] = b[(Len(s) - 1) - Len(a)]
    BY <1>2, <1>3, <2>1, ConcatProperties
  <2> QED
    BY <2>2, <2>3
<1> QED
    BY <1>4, <1>5, <1>6, <1>7

LEMMA MapInSeq ==
    ASSUME NEW S, NEW n \in Nat, NEW f \in [1 .. n -> S]
    PROVE  f \in Seq(S) /\ Len(f) = n
BY IsASeq, LenProperties

-----------------------------------------------------------------------------

Flags ==
    /\ readOnly \in BOOLEAN /\ mounted \in BOOLEAN /\ valid \in BOOLEAN
    /\ loadingRules \in BOOLEAN /\ creating \in BOOLEAN /\ overwritten \in BOOLEAN

\* The type invariant, flag by flag.
Shape ==
    /\ dataSource \in Clusters
    /\ Flags
    /\ restored \in Detectors \cup {None}
    /\ step \in {"define", "alerts"}
    /\ detector \in Detectors
    /\ allRules \subseteq Rules /\ enabled \subseteq allRules
    /\ loads \in Seq(LoadCalls)
    /\ newest \in {"waiting", "shown", "over"}
    /\ selections \in Seq(SelectionCalls)
    /\ creations \in Seq(CreationCalls)

LEMMA ShapeIsType == Shape <=> TypeOK
<1>1. Flags <=> {readOnly, mounted, valid, loadingRules, creating, overwritten} \subseteq BOOLEAN
    BY Zenon DEF Flags
<1> QED
    BY <1>1, Zenon DEF Shape, TypeOK, LoadCalls, SelectionCalls, CreationCalls

\* What waits after a load: its last call is for the last of the log types.
LEMMA LoadProperties ==
    ASSUME loads \in Seq(LoadCalls), NEW types \in Seq(LogTypes \cup {None}), types # <<>>,
           NEW cluster \in Clusters, Load(types, cluster)
    PROVE  /\ loads' \in Seq(LoadCalls) /\ Len(loads') > 0
           /\ loads'[Len(loads')] = [type |-> types[Len(types)], cluster |-> cluster]
           /\ loadingRules' = TRUE /\ newest' = "waiting"
<1> DEFINE new == [n \in 1 .. Len(types) |-> [type |-> types[n], cluster |-> cluster]]
<1>1. Len(types) \in Nat \ {0} /\ Len(loads) \in Nat
    BY EmptySeq, LenProperties
<1>2. new \in [1 .. Len(types) -> LoadCalls]
    BY ElementOfSeq DEF LoadCalls
<1>3. new \in Seq(LoadCalls) /\ Len(new) = Len(types)
    BY <1>1, <1>2, MapInSeq
<1>4. Len(types) \in 1 .. Len(types)
    BY <1>1
<1>5. new[Len(types)] = [type |-> types[Len(types)], cluster |-> cluster]
    BY <1>4
<1>6. loads' = loads \o new /\ loadingRules' = TRUE /\ newest' = "waiting"
    BY DEF Load
<1> HIDE DEF new
<1>7. loads' \in Seq(LoadCalls) /\ Len(loads') = Len(loads) + Len(types)
  <2>1. /\ loads \o new \in Seq(LoadCalls)
        /\ Len(loads \o new) = Len(loads) + Len(new)
    BY <1>3, ConcatProperties
  <2> QED
    BY <1>3, <1>6, <2>1
<1>8. loads'[Len(loads')] = new[Len(types)]
  <2>1. Len(loads') \in 1 .. Len(loads) + Len(new) /\ ~(Len(loads') <= Len(loads))
    BY <1>1, <1>3, <1>7
  <2>2. loads'[Len(loads')] = new[Len(loads') - Len(loads)]
    BY <1>3, <1>6, <2>1, ConcatProperties
  <2>3. Len(loads') - Len(loads) = Len(types)
    BY <1>1, <1>7
  <2> QED
    BY <2>2, <2>3
<1> QED
    BY <1>1, <1>5, <1>6, <1>7, <1>8

LEMMA OneType ==
    ASSUME NEW a \in LogTypes \cup {None}
    PROVE  /\ <<a>> \in Seq(LogTypes \cup {None}) /\ <<a>> # <<>>
           /\ Len(<<a>>) = 1 /\ <<a>>[1] = a
OBVIOUS

LEMMA TwoTypes ==
    ASSUME NEW a \in LogTypes \cup {None}, NEW b \in LogTypes \cup {None}
    PROVE  /\ <<a, b>> \in Seq(LogTypes \cup {None}) /\ <<a, b>> # <<>>
           /\ Len(<<a, b>>) = 2 /\ <<a, b>>[2] = b
OBVIOUS

\* A detector that changes its log type waits for the rules of the new one.
LEMMA UpdateProperties ==
    ASSUME Shape, NEW new \in Detectors, Update(new)
    PROVE  /\ detector' = new
           /\ loads' \in Seq(LoadCalls)
           /\ loadingRules' \in BOOLEAN /\ valid' \in BOOLEAN
           /\ newest' \in {"waiting", "shown", "over"}
           /\ \/ new.type = detector.type /\ UNCHANGED <<loads, newest>>
              \/ /\ newest' = "waiting" /\ Len(loads') > 0
                 /\ loads'[Len(loads')] = [type |-> new.type, cluster |-> dataSource]
<1>1. new.type \in LogTypes \cup {None}
    BY DEF Detectors
<1>2. CASE new.type = detector.type
    BY <1>2 DEF Update, ChangeDetector, Shape, Flags
<1>3. CASE new.type # detector.type
  <2>1. Load(<<new.type>>, dataSource) /\ detector' = new /\ valid' \in BOOLEAN
    BY <1>3 DEF Update, ChangeDetector
  <2>2. /\ loads' \in Seq(LoadCalls) /\ Len(loads') > 0
        /\ loads'[Len(loads')] = [type |-> new.type, cluster |-> dataSource]
        /\ loadingRules' = TRUE /\ newest' = "waiting"
    BY <1>1, <2>1, OneType, LoadProperties DEF Shape
  <2> QED
    BY <2>1, <2>2
<1> QED
    BY <1>2, <1>3

\* The copies that the selections of a step keep when it goes away.
LEMMA CopiesType ==
    ASSUME Shape
    PROVE  [n \in 1 .. Len(selections) |->
                IF selections[n].copy # None THEN selections[n]
                ELSE [selections[n] EXCEPT !.copy = detector]] \in Seq(SelectionCalls)
<1>1. \A n \in 1 .. Len(selections) : selections[n] \in SelectionCalls
    BY ElementOfSeq DEF Shape
<1>2. Len(selections) \in Nat
    BY LenProperties DEF Shape
<1>3. \A n \in 1 .. Len(selections) :
        [selections[n] EXCEPT !.copy = detector] \in SelectionCalls
    BY <1>1 DEF SelectionCalls, Shape
<1> QED
    BY <1>1, <1>2, <1>3, MapInSeq


-----------------------------------------------------------------------------

\* The selections, toggles and log types of the first step.
LEMMA DefineShape ==
    ASSUME Shape,
           \/ \E type \in LogTypes : OnDetectorTypeChange(type)
           \/ \E indices \in BOOLEAN : SelectIndices(indices)
           \/ LookUpMappings
           \/ \E rule \in allRules : OnRuleToggle(rule)
           \/ \E on \in BOOLEAN : OnAllRulesToggle(on)
           \/ \E n \in 1 .. Len(selections) : ApplySelection(n)
    PROVE  Shape'
<1> USE DEF menu, rulesState, history
<1>1. ASSUME NEW new \in Detectors, Update(new),
             UNCHANGED <<menu, mounted, restored, step, rulesState, creating, creations>>,
             selections' \in Seq(SelectionCalls), overwritten' \in BOOLEAN
      PROVE  Shape'
  <2>1. /\ detector' = new /\ loads' \in Seq(LoadCalls)
        /\ loadingRules' \in BOOLEAN /\ valid' \in BOOLEAN
        /\ newest' \in {"waiting", "shown", "over"}
    BY <1>1, UpdateProperties
  <2>2. Flags'
    BY <1>1, <2>1 DEF Shape, Flags
  <2> QED
    BY <1>1, <2>1, <2>2 DEF Shape
<1>2. ASSUME NEW type \in LogTypes, OnDetectorTypeChange(type) PROVE Shape'
  <2>1. [detector EXCEPT !.type = type] \in Detectors
    BY DEF Shape, Detectors
  <2> QED
    BY <1>1, <1>2, <2>1 DEF OnDetectorTypeChange, Shape, Flags
<1>3. ASSUME NEW indices \in BOOLEAN, SelectIndices(indices) PROVE Shape'
  <2>1. [detector EXCEPT !.indices = indices] \in Detectors
    BY DEF Shape, Detectors
  <2> QED
    BY <1>1, <1>3, <2>1 DEF SelectIndices, Shape, Flags
<1>4. CASE LookUpMappings
  <2>1. [at |-> "waiting", copy |-> None] \in SelectionCalls
    BY DEF SelectionCalls
  <2>2. selections' \in Seq(SelectionCalls)
    BY <1>4, <2>1, AppendProperties DEF LookUpMappings, Shape
  <2> QED
    BY <1>4, <2>2 DEF LookUpMappings, Shape, Flags
<1>5. ASSUME NEW rules \in SUBSET allRules, Toggle(rules) PROVE Shape'
  <2>1. detector' \in Detectors
    BY <1>5 DEF Toggle, Shape, Detectors
  <2> QED
    BY <1>5, <2>1 DEF Toggle, Shape, Flags, calls
<1>6. ASSUME NEW rule \in allRules, OnRuleToggle(rule) PROVE Shape'
  <2>1. (IF rule \in enabled THEN enabled \ {rule} ELSE enabled \cup {rule}) \in SUBSET allRules
    BY DEF Shape
  <2> QED
    BY <1>5, <1>6, <2>1 DEF OnRuleToggle
<1>7. ASSUME NEW on \in BOOLEAN, OnAllRulesToggle(on) PROVE Shape'
  <2>1. (IF on THEN allRules ELSE {}) \in SUBSET allRules
    OBVIOUS
  <2> QED
    BY <1>5, <1>7, <2>1 DEF OnAllRulesToggle
<1>8. ASSUME NEW n \in 1 .. Len(selections), ApplySelection(n) PROVE Shape'
  <2> DEFINE known == IF selections[n].copy = None THEN detector ELSE selections[n].copy
  <2>1. known \in Detectors
    <3>1. selections[n] \in SelectionCalls
      BY ElementOfSeq DEF Shape
    <3>2. selections[n].copy \in Detectors \cup {None}
      BY <3>1 DEF SelectionCalls
    <3> QED
      BY <3>2 DEF Shape
  <2>2. [known EXCEPT !.indices = TRUE] \in Detectors
    BY <2>1 DEF Detectors
  <2>3. [at |-> "done", copy |-> None] \in SelectionCalls
    BY DEF SelectionCalls
  <2>4. selections' \in Seq(SelectionCalls)
    BY <1>8, <2>3, ExceptSeq DEF ApplySelection, Shape
  <2>5. overwritten' \in BOOLEAN
    BY <1>8, Zenon DEF ApplySelection
  <2>6. Update([known EXCEPT !.indices = TRUE])
    BY <1>8 DEF ApplySelection
  <2>7. UNCHANGED <<menu, mounted, restored, step, rulesState, creating, creations>>
    BY <1>8 DEF ApplySelection
  <2> QED
    BY <1>1, <2>2, <2>4, <2>5, <2>6, <2>7
<1> QED
    BY <1>2, <1>3, <1>4, <1>6, <1>7, <1>8

LEMMA LoadEndsShape ==
    ASSUME Shape, NEW n \in 1 .. Len(loads), LoadEnds(n)
    PROVE  Shape'
<1> USE DEF menu, rulesState, history
<1>1. loads[n] \in LoadCalls
    BY ElementOfSeq DEF Shape
<1>2. RulesOf(loads[n].type, loads[n].cluster) \subseteq Rules
    BY DEF RulesOf
<1>3. RemoveAt(loads, n) \in Seq(LoadCalls)
    BY RemoveAtProperties DEF Shape
<1>4. ASSUME NEW rules \in SUBSET RulesOf(loads[n].type, loads[n].cluster), GotRules(n, rules)
      PROVE  Shape'
  <2>1. rules \subseteq Rules
    BY <1>2
  <2>2. detector' \in Detectors
    BY <1>4, <2>1 DEF GotRules, Shape, Detectors
  <2>3. newest' \in {"waiting", "shown", "over"}
    BY <1>4 DEF GotRules, Shape
  <2>4. Flags'
    BY <1>4 DEF GotRules, Shape, Flags
  <2> QED
    BY <1>3, <1>4, <2>1, <2>2, <2>3, <2>4 DEF GotRules, Shape
<1>5. CASE RulesLost(n)
    BY <1>3, <1>5 DEF RulesLost, Shape, Flags
<1> QED
    BY <1>4, <1>5 DEF LoadEnds

LEMMA SelectDataSourceShape ==
    ASSUME Shape, NEW cluster \in Clusters, SelectDataSource(cluster)
    PROVE  Shape'
<1> DEFINE reset == IF restored = None THEN EmptyDetector ELSE restored
<1> USE DEF menu, rulesState, history
<1>1. CASE ~mounted
    BY <1>1 DEF SelectDataSource, wizard, Shape, Flags
<1>2. CASE mounted
  <2>1. reset \in Detectors /\ detector \in Detectors
    BY DEF Shape, Detectors, EmptyDetector
  <2>2. reset.type \in LogTypes \cup {None} /\ detector.type \in LogTypes \cup {None}
        /\ reset.rules \subseteq Rules
    BY <2>1 DEF Detectors
  <2>3. Load(<<detector.type>>, cluster) \/ Load(<<detector.type, reset.type>>, cluster)
    BY <1>2 DEF SelectDataSource
  <2>4. /\ loads' \in Seq(LoadCalls)
        /\ loadingRules' = TRUE /\ newest' = "waiting"
    BY <2>2, <2>3, OneType, TwoTypes, LoadProperties DEF Shape
  <2>5. selections' \in Seq(SelectionCalls)
    BY <1>2, CopiesType DEF SelectDataSource, Shape
  <2>6. /\ dataSource' = cluster
        /\ step' = IF restored = None THEN "define" ELSE "alerts"
        /\ detector' = reset /\ allRules' = reset.rules /\ enabled' = reset.rules
        /\ UNCHANGED <<readOnly, mounted, restored, creations, overwritten>>
    BY <1>2 DEF SelectDataSource
  <2>7. valid' \in BOOLEAN /\ creating' \in BOOLEAN
    BY <1>2 DEF SelectDataSource
  <2>8. Flags'
    BY <2>4, <2>6, <2>7 DEF Shape, Flags
  <2> QED
    BY <2>1, <2>2, <2>4, <2>5, <2>6, <2>8 DEF Shape
<1> QED
    BY <1>1, <1>2

LEMMA LeaveShape ==
    ASSUME Shape, Leave, UNCHANGED <<dataSource, restored, overwritten>>,
           creations' \in Seq(CreationCalls)
    PROVE  Shape'
<1>1. <<>> \in Seq(LoadCalls) /\ <<>> \in Seq(SelectionCalls)
    OBVIOUS
<1>2. EmptyDetector \in Detectors
    BY DEF EmptyDetector, Detectors
<1>3. Flags'
    BY DEF Leave, Shape, Flags
<1> QED
    BY <1>1, <1>2, <1>3 DEF Leave, Shape

LEMMA ButtonsShape ==
    ASSUME Shape, OnNextClick \/ OnPreviousClick \/ OnCreateClick \/ Cancel
    PROVE  Shape'
<1> USE DEF menu, rulesState, history
<1>1. CASE OnNextClick
  <2>1. selections' \in Seq(SelectionCalls)
    BY <1>1, CopiesType DEF OnNextClick
  <2> QED
    BY <1>1, <2>1 DEF OnNextClick, Shape, Flags
<1>2. CASE OnPreviousClick
    BY <1>2 DEF OnPreviousClick, Shape, Flags, calls
<1>3. CASE OnCreateClick
  <2>1. [at |-> "mapping", left |-> FALSE, fits |-> RulesFit,
         mapped |-> dataSource, created |-> None] \in CreationCalls
    <3>1. RulesFit \in BOOLEAN
      BY Zenon DEF RulesFit
    <3> QED
      BY <3>1 DEF Shape, CreationCalls
  <2>2. creations' \in Seq(CreationCalls)
    BY <1>3, <2>1, AppendProperties DEF OnCreateClick, Shape
  <2> QED
    BY <1>3, <2>2 DEF OnCreateClick, Shape, Flags
<1>4. CASE Cancel
  <2>1. \A n \in 1 .. Len(creations) :
            [creations[n] EXCEPT !.left = @ \/ creations[n].at = "mapping"] \in CreationCalls
    <3>1. ASSUME NEW n \in 1 .. Len(creations)
          PROVE  [creations[n] EXCEPT !.left = @ \/ creations[n].at = "mapping"] \in CreationCalls
      <4>1. creations[n] \in CreationCalls
        BY ElementOfSeq DEF Shape
      <4>2. (creations[n].left \/ creations[n].at = "mapping") \in BOOLEAN
        BY Zenon
      <4> QED
        BY <4>1, <4>2 DEF CreationCalls
    <3> QED
      BY <3>1
  <2>2. creations' \in Seq(CreationCalls)
    BY <1>4, <2>1, MapInSeq, LenProperties DEF Cancel, Shape
  <2> QED
    BY <1>4, <2>2, LeaveShape DEF Cancel
<1> QED
    BY <1>1, <1>2, <1>3, <1>4

LEMMA MappingsShape ==
    ASSUME Shape, NEW n \in 1 .. Len(creations),
           MappingsStored(n) \/ \E lost \in BOOLEAN : MappingsFail(n, lost)
    PROVE  Shape'
<1> USE DEF menu, rulesState, history
<1>1. creations[n] \in CreationCalls
    BY ElementOfSeq DEF Shape
<1>2. CASE MappingsStored(n)
  <2>1. [creations[n] EXCEPT !.at = "sent", !.created = dataSource] \in CreationCalls
    BY <1>1 DEF CreationCalls, Shape
  <2>2. creations' = [creations EXCEPT
            ![n] = [creations[n] EXCEPT !.at = "sent", !.created = dataSource]]
    BY <1>1, <1>2, LenProperties DEF MappingsStored, Shape, CreationCalls
  <2>3. creations' \in Seq(CreationCalls)
    BY <2>1, <2>2, ExceptSeq DEF Shape
  <2>4. CASE Leave
    BY <1>2, <2>3, <2>4, LeaveShape DEF MappingsStored
  <2>5. CASE ~Leave
    BY <1>2, <2>3, <2>5 DEF MappingsStored, wizard, Shape, Flags
  <2> QED
    BY <2>4, <2>5
<1>3. ASSUME NEW lost \in BOOLEAN, MappingsFail(n, lost) PROVE Shape'
  <2>1. [creations[n] EXCEPT !.at = IF lost THEN "lost" ELSE "refused"] \in CreationCalls
    BY <1>1 DEF CreationCalls
  <2>2. creations' \in Seq(CreationCalls)
    BY <1>3, <2>1, ExceptSeq DEF MappingsFail, Shape
  <2>3. creating' \in BOOLEAN
    BY <1>3, Zenon DEF MappingsFail
  <2> QED
    BY <1>3, <2>2, <2>3 DEF MappingsFail, Shape, Flags
<1> QED
    BY <1>2, <1>3

LEMMA ShapePreserved == Shape /\ [Next]_vars => Shape'
<1>1. Shape /\ UNCHANGED vars => Shape'
    BY DEF vars, Shape, Flags, menu, rulesState, calls, history
<1> QED
    BY <1>1, DefineShape, LoadEndsShape, SelectDataSourceShape, ButtonsShape, MappingsShape
    DEF Next

LEMMA ShapeInit == Init => Shape
<1> SUFFICES ASSUME Init PROVE Shape
    OBVIOUS
<1>1. EmptyDetector \in Detectors
    BY DEF EmptyDetector, Detectors
<1>2. ASSUME NEW type \in LogTypes, NEW cluster \in Clusters
      PROVE  [type |-> type, indices |-> TRUE, rules |-> RulesOf(type, cluster)] \in Detectors
    BY DEF Detectors, RulesOf
<1>3. restored \in Detectors \cup {None} /\ detector \in Detectors
    BY <1>1, <1>2 DEF Init
<1>4. Flags
    BY DEF Init, Flags
<1>5. dataSource \in Clusters /\ step \in {"define", "alerts"} /\ newest \in {"waiting", "shown", "over"}
    BY DEF Init
<1>6. loads \in Seq(LoadCalls)
  <2>1. [type |-> None, cluster |-> dataSource] \in LoadCalls
    BY <1>5 DEF LoadCalls
  <2>2. <<[type |-> None, cluster |-> dataSource]>> \in Seq(LoadCalls) /\ <<>> \in Seq(LoadCalls)
    BY <2>1
  <2> QED
    BY <2>2 DEF Init
<1>7. selections \in Seq(SelectionCalls) /\ creations \in Seq(CreationCalls)
    BY DEF Init
<1>8. allRules \subseteq Rules /\ enabled \subseteq allRules
    BY <1>3 DEF Init, Detectors
<1> QED
    BY <1>3, <1>4, <1>5, <1>6, <1>7, <1>8 DEF Shape

LEMMA AlwaysShape == Spec => []Shape
BY ShapeInit, ShapePreserved, PTL DEF Spec

\* Every variable keeps its type, however many calls wait.
THEOREM TypeCorrect == Spec => []TypeOK
BY AlwaysShape, ShapeIsType, PTL


-----------------------------------------------------------------------------

LEMMA TogglesPreserved == Shape /\ RulesAreToggled /\ [Next]_vars => RulesAreToggled'
<1> SUFFICES ASSUME Shape, RulesAreToggled, [Next]_vars PROVE RulesAreToggled'
    OBVIOUS
<1> USE DEF RulesAreToggled, rulesState, menu, history
<1>1. ASSUME NEW new \in Detectors, Update(new), new.rules = detector.rules,
             UNCHANGED <<mounted, rulesState, overwritten>>
      PROVE  RulesAreToggled'
    BY <1>1, UpdateProperties
<1>2. ASSUME NEW type \in LogTypes, OnDetectorTypeChange(type) PROVE RulesAreToggled'
  <2>1. /\ [detector EXCEPT !.type = type] \in Detectors
        /\ [detector EXCEPT !.type = type].rules = detector.rules
    BY DEF Shape, Detectors
  <2> QED
    BY <1>1, <1>2, <2>1 DEF OnDetectorTypeChange
<1>3. ASSUME NEW indices \in BOOLEAN, SelectIndices(indices) PROVE RulesAreToggled'
  <2>1. /\ [detector EXCEPT !.indices = indices] \in Detectors
        /\ [detector EXCEPT !.indices = indices].rules = detector.rules
    BY DEF Shape, Detectors
  <2> QED
    BY <1>1, <1>3, <2>1 DEF SelectIndices
<1>4. ASSUME NEW rules, Toggle(rules) PROVE RulesAreToggled'
    BY <1>4 DEF Toggle, Shape, Detectors
<1>5. ASSUME NEW n \in 1 .. Len(selections), ApplySelection(n) PROVE RulesAreToggled'
  <2>1. CASE selections[n].copy # None
    BY <1>5, <2>1 DEF ApplySelection
  <2>2. CASE selections[n].copy = None
    <3>1. /\ [detector EXCEPT !.indices = TRUE] \in Detectors
          /\ [detector EXCEPT !.indices = TRUE].rules = detector.rules
      BY DEF Shape, Detectors
    <3>2. Update([detector EXCEPT !.indices = TRUE]) /\ UNCHANGED <<mounted, rulesState>>
      BY <1>5, <2>2 DEF ApplySelection
    <3>3. detector'.rules = detector.rules
      BY <3>1, <3>2, UpdateProperties
    <3>4. overwritten => overwritten'
      BY <1>5, Zenon DEF ApplySelection
    <3> QED
      BY <3>2, <3>3, <3>4
  <2> QED
    BY <2>1, <2>2
<1>6. ASSUME NEW n \in 1 .. Len(loads), LoadEnds(n) PROVE RulesAreToggled'
    BY <1>6 DEF LoadEnds, GotRules, RulesLost, Shape, Detectors
<1>7. ASSUME NEW cluster \in Clusters, SelectDataSource(cluster) PROVE RulesAreToggled'
    BY <1>7 DEF SelectDataSource, wizard
<1>8. CASE Cancel
    BY <1>8 DEF Cancel, Leave
<1>9. ASSUME NEW n \in 1 .. Len(creations), MappingsStored(n) PROVE RulesAreToggled'
    BY <1>9 DEF MappingsStored, Leave, wizard
<1>10. CASE UNCHANGED <<mounted, detector, enabled, overwritten>>
    BY <1>10
<1> QED
    BY <1>2, <1>3, <1>4, <1>5, <1>6, <1>7, <1>8, <1>9, <1>10
    DEF Next, OnRuleToggle, OnAllRulesToggle, LookUpMappings, OnNextClick, OnPreviousClick,
        OnCreateClick, MappingsFail, vars

\* The rules that are sent with the detector are those the table shows as enabled, in any
\* order of toggles, loads, selections and data sources, unless a selection of a step that
\* was left brings its detector back.
THEOREM Toggled == Spec => []RulesAreToggled
<1>1. Init => RulesAreToggled
    BY DEF Init, RulesAreToggled
<1> QED
    BY <1>1, ShapeInit, ShapePreserved, TogglesPreserved, PTL DEF Spec

-----------------------------------------------------------------------------

\* The newest load that waits is for the log type the detector has on the cluster that is
\* active.
Awaited ==
    (mounted /\ newest = "waiting") =>
        /\ Len(loads) > 0
        /\ loads[Len(loads)] = [type |-> detector.type, cluster |-> dataSource]

Settled == Awaited /\ RulesSettle

\* A detector that changes is settled for its new log type or waits for its rules.
LEMMA SettledUpdate ==
    ASSUME Shape, Settled, NEW new \in Detectors, Update(new),
           UNCHANGED <<dataSource, mounted, allRules>>
    PROVE  Settled'
BY UpdateProperties DEF Settled, Awaited, RulesSettle, RulesOf

LEMMA SettledLoadEnds ==
    ASSUME Shape, Settled, NEW n \in 1 .. Len(loads), LoadEnds(n)
    PROVE  Settled'
<1> USE DEF menu, rulesState, history
<1>1. /\ Len(loads) \in Nat /\ n <= Len(loads)
      /\ Len(RemoveAt(loads, n)) = Len(loads) - 1
      /\ n < Len(loads) => RemoveAt(loads, n)[Len(loads) - 1] = loads[Len(loads)]
    BY RemoveAtProperties, LenProperties DEF Shape
<1>2. UNCHANGED <<dataSource, mounted>> /\ loads' = RemoveAt(loads, n)
    BY DEF LoadEnds, GotRules, RulesLost
<1>3. detector'.type = detector.type
    BY DEF LoadEnds, GotRules, RulesLost, Shape, Detectors
<1>4. Awaited'
  <2> SUFFICES ASSUME mounted, newest' = "waiting"
               PROVE  /\ Len(loads') > 0
                      /\ loads'[Len(loads')] = [type |-> detector.type, cluster |-> dataSource]
    BY <1>2, <1>3 DEF Awaited
  <2>1. newest = "waiting" /\ n # Len(loads)
    BY DEF LoadEnds, GotRules, RulesLost, Newest
  <2>2. loads[Len(loads)] = [type |-> detector.type, cluster |-> dataSource]
    BY <2>1 DEF Settled, Awaited
  <2>3. n < Len(loads) /\ Len(loads') = Len(loads) - 1 /\ Len(loads) - 1 > 0
    BY <1>1, <1>2, <2>1
  <2> QED
    BY <1>1, <1>2, <2>2, <2>3
<1>5. RulesSettle'
  <2>1. ASSUME NEW rules \in SUBSET RulesOf(loads[n].type, loads[n].cluster), GotRules(n, rules)
        PROVE  RulesSettle'
    <3> SUFFICES ASSUME mounted, newest' = "shown"
                 PROVE  allRules' \subseteq RulesOf(detector.type, dataSource)
      BY <1>2, <1>3 DEF RulesSettle, RulesOf
    <3>1. newest = "waiting" /\ n = Len(loads)
      BY <2>1 DEF GotRules, Newest
    <3>2. loads[n] = [type |-> detector.type, cluster |-> dataSource]
      BY <3>1 DEF Settled, Awaited
    <3> QED
      BY <2>1, <3>2 DEF GotRules
  <2>2. CASE RulesLost(n)
    BY <2>2 DEF RulesLost, RulesSettle, Settled
  <2> QED
    BY <2>1, <2>2 DEF LoadEnds
<1> QED
    BY <1>4, <1>5 DEF Settled

LEMMA SettledSelect ==
    ASSUME Shape, Settled, NEW cluster \in Clusters, SelectDataSource(cluster)
    PROVE  Settled'
<1> DEFINE reset == IF restored = None THEN EmptyDetector ELSE restored
<1>1. CASE ~mounted
    BY <1>1 DEF SelectDataSource, Settled, Awaited, RulesSettle
<1>2. CASE mounted
  <2>1. reset \in Detectors /\ detector \in Detectors
    BY DEF Shape, Detectors, EmptyDetector
  <2>2. reset.type \in LogTypes \cup {None} /\ detector.type \in LogTypes \cup {None}
    BY <2>1 DEF Detectors
  <2>3. dataSource' = cluster /\ detector' = reset
    BY <1>2 DEF SelectDataSource
  <2>4. CASE reset.type = detector.type
    <3>1. Load(<<detector.type>>, cluster)
      BY <1>2, <2>4 DEF SelectDataSource
    <3>2. /\ Len(loads') > 0 /\ newest' = "waiting"
          /\ loads'[Len(loads')] = [type |-> detector.type, cluster |-> cluster]
      BY <2>2, <3>1, OneType, LoadProperties DEF Shape
    <3> QED
      BY <2>3, <2>4, <3>2 DEF Settled, Awaited, RulesSettle
  <2>5. CASE reset.type # detector.type
    <3>1. Load(<<detector.type, reset.type>>, cluster)
      BY <1>2, <2>5 DEF SelectDataSource
    <3>2. /\ Len(loads') > 0 /\ newest' = "waiting"
          /\ loads'[Len(loads')] = [type |-> reset.type, cluster |-> cluster]
      BY <2>2, <3>1, TwoTypes, LoadProperties DEF Shape
    <3> QED
      BY <2>3, <3>2 DEF Settled, Awaited, RulesSettle
  <2> QED
    BY <2>4, <2>5
<1> QED
    BY <1>1, <1>2

LEMMA SettledPreserved == Shape /\ Settled /\ [Next]_vars => Settled'
<1> SUFFICES ASSUME Shape, Settled, [Next]_vars PROVE Settled'
    OBVIOUS
<1> USE DEF rulesState, menu, history, calls
<1>1. ASSUME NEW type \in LogTypes, OnDetectorTypeChange(type) PROVE Settled'
  <2>1. [detector EXCEPT !.type = type] \in Detectors
    BY DEF Shape, Detectors
  <2> QED
    BY <1>1, <2>1, SettledUpdate DEF OnDetectorTypeChange
<1>2. ASSUME NEW indices \in BOOLEAN, SelectIndices(indices) PROVE Settled'
  <2>1. [detector EXCEPT !.indices = indices] \in Detectors
    BY DEF Shape, Detectors
  <2> QED
    BY <1>2, <2>1, SettledUpdate DEF SelectIndices
<1>3. ASSUME NEW n \in 1 .. Len(selections), ApplySelection(n) PROVE Settled'
  <2> DEFINE known == IF selections[n].copy = None THEN detector ELSE selections[n].copy
  <2>1. selections[n] \in SelectionCalls
    BY ElementOfSeq DEF Shape
  <2>2. known \in Detectors
    BY <2>1 DEF SelectionCalls, Shape
  <2>3. [known EXCEPT !.indices = TRUE] \in Detectors
    BY <2>2 DEF Detectors
  <2>4. Update([known EXCEPT !.indices = TRUE]) /\ UNCHANGED <<dataSource, mounted, allRules>>
    BY <1>3 DEF ApplySelection
  <2> QED
    BY <2>3, <2>4, SettledUpdate
<1>4. ASSUME NEW rules, Toggle(rules) PROVE Settled'
  <2>1. detector'.type = detector.type
    BY <1>4 DEF Toggle, Shape, Detectors
  <2> QED
    BY <1>4, <2>1 DEF Toggle, Settled, Awaited, RulesSettle, RulesOf
<1>5. ASSUME NEW n \in 1 .. Len(creations), MappingsStored(n) PROVE Settled'
    BY <1>5 DEF MappingsStored, Leave, wizard, Settled, Awaited, RulesSettle
<1>6. CASE Cancel
    BY <1>6 DEF Cancel, Leave, Settled, Awaited, RulesSettle
<1>7. CASE UNCHANGED <<dataSource, mounted, detector, allRules, loads, newest>>
    BY <1>7 DEF Settled, Awaited, RulesSettle, RulesOf
<1> QED
    BY <1>1, <1>2, <1>3, <1>4, <1>5, <1>6, <1>7, SettledLoadEnds, SettledSelect
    DEF Next, OnRuleToggle, OnAllRulesToggle, LookUpMappings, OnNextClick, OnPreviousClick,
        OnCreateClick, MappingsFail, vars

\* When the last rules that came are those of the newest load they are rules of the
\* detector's log type on the active data source: whatever changes either loads anew.
THEOREM Settles == Spec => []RulesSettle
<1>1. Init => Settled
  <2> SUFFICES ASSUME Init PROVE Settled
    OBVIOUS
  <2>1. RulesSettle
    BY DEF Init, RulesSettle
  <2>2. CASE newest = "waiting"
    <3>1. loads = <<[type |-> None, cluster |-> dataSource]>> /\ detector = EmptyDetector
      BY <2>2 DEF Init
    <3>2. Len(loads) = 1 /\ loads[1] = [type |-> None, cluster |-> dataSource]
      BY <3>1
    <3> QED
      BY <2>1, <3>1, <3>2 DEF Settled, Awaited, EmptyDetector
  <2> QED
    BY <2>1, <2>2 DEF Settled, Awaited
<1>2. Settled => RulesSettle
    BY DEF Settled
<1> QED
    BY <1>1, <1>2, ShapeInit, ShapePreserved, SettledPreserved, PTL DEF Spec

-----------------------------------------------------------------------------

Sending(n) == creations[n].at = "mapping" /\ ~creations[n].left

\* A wizard that was not restored keeps the menu of data sources read-only at its second
\* step, and the one creation that waits for its mappings keeps it there.
Locked ==
    restored = None =>
        /\ (mounted /\ step = "alerts") => readOnly
        /\ \A n \in 1 .. Len(creations) :
            /\ creations[n].left => ~mounted
            /\ Sending(n) => /\ mounted /\ step = "alerts" /\ creating
                             /\ creations[n].mapped = dataSource
            /\ \A m \in 1 .. Len(creations) : Sending(n) /\ Sending(m) => n = m


\* Steps that leave the creations and what they rely on alone.
LEMMA LockedKept ==
    ASSUME Locked, UNCHANGED <<restored, mounted, step, readOnly, creating, creations>>,
           restored = None /\ mounted /\ step = "alerts" => dataSource' = dataSource
    PROVE  Locked'
BY DEF Locked, Sending

\* Leaving the wizard while no creation that was not left waits.
LEMMA LockedLeft ==
    ASSUME Locked, UNCHANGED restored, ~mounted',
           restored = None => \A n \in 1 .. Len(creations') : ~Sending(n)'
    PROVE  Locked'
BY DEF Locked

\* A waiting creation is answered: the only one that was not left.
LEMMA LockedAnswered ==
    ASSUME Shape, Locked, restored = None, NEW n \in 1 .. Len(creations),
           creations[n].at = "mapping", NEW c \in CreationCalls, c.at # "mapping",
           creations' = [creations EXCEPT ![n] = c]
    PROVE  /\ Len(creations') = Len(creations)
           /\ \A m \in 1 .. Len(creations) : Sending(m)' => m # n /\ Sending(m) /\ ~Sending(n)
           /\ \A m \in 1 .. Len(creations) : m # n => creations'[m] = creations[m]
           /\ mounted => \A m \in 1 .. Len(creations) : ~Sending(m)'
<1>1. /\ Len(creations') = Len(creations)
      /\ \A m \in 1 .. Len(creations) : creations'[m] = IF m = n THEN c ELSE creations[m]
    BY ExceptSeq DEF Shape
<1>2. \A m \in 1 .. Len(creations) : Sending(m)' => m # n /\ Sending(m) /\ ~Sending(n)
    BY <1>1 DEF Sending, Locked
<1>3. mounted => Sending(n)
    BY DEF Locked, Sending
<1> QED
    BY <1>1, <1>2, <1>3

Lock == Locked /\ MappedWhereCreated

LEMMA LockStored ==
    ASSUME Shape, Lock, NEW n \in 1 .. Len(creations), MappingsStored(n)
    PROVE  Lock'
<1> SUFFICES ASSUME restored = None, UNCHANGED restored PROVE Lock'
    BY DEF MappingsStored, Lock, Locked, MappedWhereCreated
<1>1. creations[n] \in CreationCalls
    BY ElementOfSeq DEF Shape
<1> DEFINE c == [creations[n] EXCEPT !.at = "sent", !.created = dataSource]
<1>2. c \in CreationCalls /\ c.at = "sent" /\ c.created = dataSource
      /\ c.left = creations[n].left /\ c.mapped = creations[n].mapped
    BY <1>1 DEF CreationCalls, Shape
<1>3. creations' = [creations EXCEPT ![n] = c] /\ creations[n].at = "mapping"
    BY <1>1, LenProperties DEF MappingsStored, Shape, CreationCalls
<1> HIDE DEF c
<1>4. /\ Len(creations') = Len(creations)
      /\ \A m \in 1 .. Len(creations) : creations'[m] = IF m = n THEN c ELSE creations[m]
    BY <1>2, <1>3, ExceptSeq DEF Shape
<1>5. /\ \A m \in 1 .. Len(creations) : Sending(m)' => m # n /\ Sending(m) /\ ~Sending(n)
      /\ mounted => \A m \in 1 .. Len(creations) : ~Sending(m)'
    BY <1>2, <1>3, LockedAnswered DEF Lock
<1>6. ~mounted'
    BY DEF MappingsStored, Leave
<1>7. \A m \in 1 .. Len(creations) : ~Sending(m)'
    BY <1>5 DEF Lock, Locked
<1>8. Locked'
    BY <1>4, <1>6, <1>7, LockedLeft DEF Lock
<1>9. ~c.left => c.mapped = dataSource
    BY <1>2, <1>3 DEF Lock, Locked, Sending
<1>10. MappedWhereCreated'
    BY <1>2, <1>4, <1>9 DEF MappedWhereCreated, Lock
<1> QED
    BY <1>8, <1>10 DEF Lock

LEMMA LockFails ==
    ASSUME Shape, Lock, NEW n \in 1 .. Len(creations), NEW lost \in BOOLEAN,
           MappingsFail(n, lost)
    PROVE  Lock'
<1> SUFFICES ASSUME restored = None PROVE Lock'
    BY DEF MappingsFail, Lock, Locked, MappedWhereCreated
<1>1. creations[n] \in CreationCalls
    BY ElementOfSeq DEF Shape
<1> DEFINE c == [creations[n] EXCEPT !.at = IF lost THEN "lost" ELSE "refused"]
<1>2. c \in CreationCalls /\ c.at \notin {"mapping", "sent"} /\ c.left = creations[n].left
    BY <1>1 DEF CreationCalls
<1>3. creations' = [creations EXCEPT ![n] = c] /\ creations[n].at = "mapping"
    BY DEF MappingsFail
<1> HIDE DEF c
<1>4. /\ Len(creations') = Len(creations)
      /\ \A m \in 1 .. Len(creations) : creations'[m] = IF m = n THEN c ELSE creations[m]
    BY <1>2, <1>3, ExceptSeq DEF Shape
<1>5. /\ \A m \in 1 .. Len(creations) : Sending(m)' => Sending(m)
      /\ mounted => \A m \in 1 .. Len(creations) : ~Sending(m)'
    BY <1>2, <1>3, LockedAnswered DEF Lock
<1>6. \A m \in 1 .. Len(creations) : ~Sending(m)'
    BY <1>5 DEF Lock, Locked
<1>7. UNCHANGED <<restored, mounted, step, readOnly>>
    BY DEF MappingsFail, menu
<1>8. \A m \in 1 .. Len(creations) : creations'[m].left = creations[m].left
    BY <1>2, <1>4
<1>9. Locked'
    BY <1>4, <1>6, <1>7, <1>8 DEF Lock, Locked
<1>10. MappedWhereCreated'
    BY <1>2, <1>4, <1>7 DEF MappedWhereCreated, Lock
<1> QED
    BY <1>9, <1>10 DEF Lock

LEMMA LockCreate ==
    ASSUME Shape, Lock, OnCreateClick
    PROVE  Lock'
<1> SUFFICES ASSUME restored = None PROVE Lock'
    BY DEF OnCreateClick, Lock, Locked, MappedWhereCreated
<1> DEFINE c == [at |-> "mapping", left |-> FALSE, fits |-> RulesFit,
                 mapped |-> dataSource, created |-> None]
<1>1. c \in CreationCalls
  <2>1. RulesFit \in BOOLEAN
    BY Zenon DEF RulesFit
  <2> QED
    BY <2>1 DEF Shape, CreationCalls
<1>2. /\ Len(creations) \in Nat
      /\ Len(creations') = Len(creations) + 1
      /\ \A m \in 1 .. Len(creations) : creations'[m] = creations[m]
      /\ creations'[Len(creations) + 1] = c
    BY <1>1, AppendProperties, LenProperties DEF OnCreateClick, Shape
<1>3. \A m \in 1 .. Len(creations') : m \in 1 .. Len(creations) \/ m = Len(creations) + 1
    BY <1>2
<1>4. \A m \in 1 .. Len(creations) : ~Sending(m) /\ ~Sending(m)'
    BY <1>2 DEF Lock, Locked, OnCreateClick, Sending
<1>5. \A m \in 1 .. Len(creations) : ~creations'[m].left
    BY <1>2 DEF Lock, Locked, OnCreateClick
<1>6. /\ mounted' /\ step' = "alerts" /\ creating' /\ dataSource' = dataSource
      /\ restored' = restored /\ readOnly' = readOnly /\ readOnly
    BY DEF OnCreateClick, menu, Lock, Locked
<1>7. ASSUME NEW m \in 1 .. Len(creations')
      PROVE  /\ ~creations'[m].left
             /\ Sending(m)' => m = Len(creations) + 1 /\ creations'[m].mapped = dataSource
  <2>1. CASE m \in 1 .. Len(creations)
    BY <1>4, <1>5, <2>1
  <2>2. CASE m = Len(creations) + 1
    BY <1>2, <2>2
  <2> QED
    BY <1>3, <2>1, <2>2
<1>8. Locked'
    BY <1>6, <1>7 DEF Locked
<1>9. MappedWhereCreated'
    BY <1>2, <1>3 DEF MappedWhereCreated, Lock
<1> QED
    BY <1>8, <1>9 DEF Lock

LEMMA LockCancel ==
    ASSUME Shape, Lock, Cancel
    PROVE  Lock'
<1>1. Len(creations) \in Nat
    BY LenProperties DEF Shape
<1>2. \A n \in 1 .. Len(creations) : creations[n] \in CreationCalls
    BY ElementOfSeq DEF Shape
<1> DEFINE c(n) == [creations[n] EXCEPT !.left = @ \/ creations[n].at = "mapping"]
<1>3. creations' = [n \in 1 .. Len(creations) |-> c(n)] /\ UNCHANGED restored /\ ~mounted'
    BY DEF Cancel, Leave
<1>4. ASSUME NEW n \in 1 .. Len(creations)
      PROVE  /\ c(n) \in CreationCalls
             /\ c(n).at = creations[n].at /\ c(n).mapped = creations[n].mapped
             /\ c(n).created = creations[n].created
             /\ c(n).at = "mapping" => c(n).left
             /\ creations[n].left => c(n).left
  <2>1. (creations[n].left \/ creations[n].at = "mapping") \in BOOLEAN
    BY Zenon
  <2> QED
    BY <1>2, <2>1 DEF CreationCalls
<1>5. creations' \in [1 .. Len(creations) -> CreationCalls]
    BY <1>3, <1>4
<1>6. Len(creations') = Len(creations)
    BY <1>1, <1>5, MapInSeq
<1>7. \A n \in 1 .. Len(creations) : creations'[n] = c(n)
    BY <1>3
<1> HIDE DEF c
<1>8. \A n \in 1 .. Len(creations') : ~Sending(n)'
    BY <1>4, <1>6, <1>7 DEF Sending
<1>9. Locked'
    BY <1>3, <1>8, LockedLeft DEF Lock
<1>10. MappedWhereCreated'
    BY <1>3, <1>4, <1>6, <1>7 DEF MappedWhereCreated, Lock
<1> QED
    BY <1>9, <1>10 DEF Lock

LEMMA LockPreserved == Shape /\ Lock /\ [Next]_vars => Lock'
<1> SUFFICES ASSUME Shape, Lock, [Next]_vars PROVE Lock'
    OBVIOUS
<1> USE DEF menu, rulesState, history, calls
<1>1. ASSUME UNCHANGED <<restored, mounted, step, readOnly, creating, creations, dataSource>>
      PROVE  Lock'
    BY <1>1, LockedKept DEF Lock, MappedWhereCreated
<1>2. ASSUME NEW cluster \in Clusters, SelectDataSource(cluster) PROVE Lock'
  <2>1. CASE mounted
    <3>1. restored = None => step = "define" /\ step' = "define"
      BY <1>2, <2>1 DEF SelectDataSource, Lock, Locked, Shape
    <3>2. restored = None => \A n \in 1 .. Len(creations) : ~Sending(n) /\ ~creations[n].left
      BY <2>1, <3>1 DEF Lock, Locked
    <3>3. UNCHANGED <<restored, mounted, creations>>
      BY <1>2 DEF SelectDataSource
    <3>4. Locked'
      BY <3>1, <3>2, <3>3 DEF Locked, Sending
    <3> QED
      BY <3>3, <3>4 DEF Lock, MappedWhereCreated
  <2>2. CASE ~mounted
    <3>1. UNCHANGED <<restored, mounted, step, readOnly, creating, creations>>
      BY <1>2, <2>2 DEF SelectDataSource, wizard
    <3> QED
      BY <2>2, <3>1, LockedKept DEF Lock, MappedWhereCreated
  <2> QED
    BY <2>1, <2>2
<1>3. CASE OnNextClick
  <2>1. restored = None => \A n \in 1 .. Len(creations) : ~Sending(n)
    BY <1>3 DEF OnNextClick, Defining, Lock, Locked
  <2>2. UNCHANGED <<restored, mounted, creations>> /\ readOnly'
    BY <1>3 DEF OnNextClick
  <2>3. Locked'
    BY <2>1, <2>2 DEF Lock, Locked, Sending
  <2> QED
    BY <2>2, <2>3 DEF Lock, MappedWhereCreated
<1>4. CASE OnPreviousClick
  <2>1. restored = None => \A n \in 1 .. Len(creations) : ~Sending(n)
    BY <1>4 DEF OnPreviousClick, Lock, Locked
  <2>2. UNCHANGED <<restored, mounted, creations>> /\ step' = "define"
    BY <1>4 DEF OnPreviousClick
  <2>3. Locked'
    BY <2>1, <2>2 DEF Lock, Locked, Sending
  <2> QED
    BY <2>2, <2>3 DEF Lock, MappedWhereCreated
<1>5. ASSUME NEW n \in 1 .. Len(loads), LoadEnds(n) PROVE Lock'
    BY <1>1, <1>5 DEF LoadEnds, GotRules, RulesLost
<1> QED
    BY <1>1, <1>2, <1>3, <1>4, <1>5, LockStored, LockFails, LockCreate, LockCancel
    DEF Next, OnDetectorTypeChange, SelectIndices, ApplySelection, OnRuleToggle,
        OnAllRulesToggle, Toggle, LookUpMappings, vars

\* The mappings and the detector are created on the same data source, unless the wizard
\* was restored or left: the second step locks the menu and admits one creation.
THEOREM MappedThere == Spec => []MappedWhereCreated
<1>1. Init => Lock
  <2> SUFFICES ASSUME Init PROVE Lock
    OBVIOUS
  <2>1. Len(creations) = 0
    BY DEF Init
  <2>2. restored = None => step = "define"
    <3>1. ASSUME NEW type \in LogTypes, NEW cluster \in Clusters
          PROVE  [type |-> type, indices |-> TRUE, rules |-> RulesOf(type, cluster)] # None
      <4>1. [type |-> type, indices |-> TRUE, rules |-> RulesOf(type, cluster)] \in Detectors
        BY DEF Detectors, RulesOf
      <4> QED
        BY <4>1, DetectorWizardAssumption
    <3> QED
      BY <3>1 DEF Init
  <2> QED
    BY <2>1, <2>2 DEF Lock, Locked, MappedWhereCreated
<1>2. Lock => MappedWhereCreated
    BY DEF Lock
<1> QED
    BY <1>1, <1>2, ShapeInit, ShapePreserved, LockPreserved, PTL DEF Spec

=============================================================================
