--------------------------- MODULE RulesStoreProofs ---------------------------
(***************************************************************************)
(* What getAllRules promises and when the cache can be trusted, for any    *)
(* number of calls, data sources and filters.                              *)
(*                                                                         *)
(* CustomRulesFresh is inductive with Sent, which says of a request under  *)
(* way that its snapshot is not ahead of its cluster, and of the custom    *)
(* search of getAllRules that it belongs to the call's data source.        *)
(* CacheCoherent needs InFlight and Cached: a clean snapshot (no write     *)
(* under way when it was asked for, nothing invalidated since) excludes a  *)
(* write under way now, because a write invalidates as it leaves.          *)
(***************************************************************************)
EXTENDS RulesStore, TLAPS

Searching(c) == pc[c] \in {"reading", "custom", "prePackaged"}

Clean(rules) == rules.alone /\ rules.generation = generation

Sent ==
    /\ \A c \in Calls : Searching(c) =>
        request[c].rules.revision <= revision[request[c].rules.source]
    /\ \A c \in Loaders : pc[c] = "custom" =>
        /\ request[c].rules.source = began[c].source
        /\ request[c].rules.revision >= began[c].revision
    /\ \A c \in Loaders : pc[c] = "idle" => custom[c] = Empty

InFlight ==
    \A c \in Calls : Searching(c) =>
        /\ request[c].rules.generation <= generation
        /\ Clean(request[c].rules) =>
            ~Writing /\ request[c].rules.revision = revision[request[c].rules.source]

Cached ==
    \A k \in Keys : cache[k] # Empty =>
        /\ cache[k].generation <= generation
        /\ Clean(cache[k]) => ~Writing /\ cache[k].revision = revision[cache[k].source]

IInv == TypeOK /\ CustomRulesFresh /\ Sent /\ InFlight /\ Cached

-----------------------------------------------------------------------------

LEMMA NoRequestType == NoRequest \in Requests
<1>1. PICK t \in Terms : TRUE
    BY RulesStoreAssumption
<1>2. [prePackaged |-> TRUE, terms |-> t] \in Keys
    BY DEF Keys
<1>3. (CHOOSE k \in Keys : TRUE) \in Keys
    BY <1>2
<1>4. (CHOOSE d \in DataSources : TRUE) \in DataSources
    BY RulesStoreAssumption
<1> QED
    BY <1>3, <1>4 DEF NoRequest, Requests, Answers

LEMMA NowType ==
    ASSUME TypeOK, NEW g \in Nat
    PROVE  Now(g) \in Answers
<1>1. Writing \in BOOLEAN
    BY DEF Writing
<1> QED
    BY <1>1 DEF TypeOK, Now, Answers

LEMMA InitInv == Init => IInv
<1> SUFFICES ASSUME Init PROVE IInv
    OBVIOUS
<1>1. NoRequest.rules \in Answers
    BY NoRequestType DEF Requests
<1>2. TypeOK
    BY <1>1, NoRequestType DEF Init, TypeOK, EmptyCache, Places
<1>3. CustomRulesFresh /\ Cached
    BY DEF Init, CustomRulesFresh, Cached, EmptyCache
<1>4. \A c \in Calls : pc[c] = "idle"
    BY DEF Init
<1>5. Sent /\ InFlight
    BY <1>4 DEF Init, Sent, InFlight, Searching, Calls
<1> QED
    BY <1>2, <1>3, <1>5 DEF IInv

LEMMA SendType ==
    ASSUME TypeOK, NEW c \in Calls, NEW key \in Keys, NEW g \in Nat, Send(c, key, g)
    PROVE  request' \in [Calls -> Requests]
BY NowType DEF TypeOK, Send, Requests

LEMMA SettleType ==
    ASSUME TypeOK, NEW c \in Calls, NEW how \in {"returned", "rejected"}, Settle(c, how)
    PROVE  pc' \in [Calls -> Places] /\ request' \in [Calls -> Requests]
BY NoRequestType DEF TypeOK, Settle, Places

LEMMA ResolvedType ==
    ASSUME TypeOK, NEW c \in Calls
    PROVE  Resolved(c) \in Answers \cup {Empty}
BY DEF TypeOK, Resolved, Requests

LEMMA KeepType ==
    ASSUME TypeOK, NEW c \in Calls, Keep(c)
    PROVE  cache' \in [Keys -> Answers \cup {Empty}]
BY DEF TypeOK, Keep, Requests

LEMMA InvalidateType ==
    ASSUME TypeOK, Invalidate
    PROVE  cache' \in [Keys -> Answers \cup {Empty}] /\ generation' \in Nat
BY DEF TypeOK, Invalidate, EmptyCache

LEMMA TypePreserved == TypeOK /\ [Next]_vars => TypeOK'
<1> SUFFICES ASSUME TypeOK, [Next]_vars PROVE TypeOK'
    OBVIOUS
<1>1. ASSUME NEW d \in DataSources, SelectDataSource(d) PROVE TypeOK'
    BY <1>1 DEF SelectDataSource, TypeOK
<1>2. ASSUME NEW c \in Readers, NEW k \in Keys, GetRules(c, k) PROVE TypeOK'
  <2>1. c \in Calls /\ generation \in Nat
    BY DEF Calls, TypeOK
  <2>2. request' \in [Calls -> Requests]
    BY <1>2, <2>1, SendType DEF GetRules, TypeOK
  <2>3. pc' \in [Calls -> Places]
    BY <1>2, <2>1 DEF GetRules, TypeOK, Places
  <2> QED
    BY <1>2, <2>2, <2>3 DEF GetRules, TypeOK
<1>3. ASSUME NEW c \in Loaders, NEW t \in Terms, GetAllRules(c, t) PROVE TypeOK'
  <2>1. c \in Calls /\ generation + 1 \in Nat
    BY DEF Calls, TypeOK
  <2>2. [prePackaged |-> FALSE, terms |-> t] \in Keys
    BY DEF Keys
  <2>3. request' \in [Calls -> Requests]
    BY <1>3, <2>1, <2>2, SendType DEF GetAllRules
  <2>4. began' \in [Loaders -> Answers]
    BY <1>3, <2>1, NowType DEF GetAllRules, TypeOK
  <2>5. pc' \in [Calls -> Places]
    BY <1>3 DEF GetAllRules, TypeOK, Places
  <2> QED
    BY <1>3, <2>3, <2>4, <2>5, InvalidateType DEF GetAllRules, TypeOK
<1>4. ASSUME NEW c \in Writers, WriteRule(c) PROVE TypeOK'
  <2>1. c \in Calls /\ generation + 1 \in Nat /\ NoRequest.key \in Keys
    BY NoRequestType DEF Calls, TypeOK, Requests
  <2>2. request' \in [Calls -> Requests]
    BY <1>4, <2>1, SendType DEF WriteRule
  <2>3. pc' \in [Calls -> Places]
    BY <1>4 DEF WriteRule, TypeOK, Places
  <2> QED
    BY <1>4, <2>2, <2>3, InvalidateType DEF WriteRule, TypeOK
<1>5. ASSUME NEW c \in Calls, NEW reply \in {"ok", "error", "rejected"},
             AnswerRead(c, reply)
      PROVE  TypeOK'
  <2> DEFINE rules == request[c].rules
             seen == IF reply = "ok" THEN revision[rules.source] ELSE rules.revision
  <2>1. rules \in Answers /\ request[c].key \in Keys
    BY DEF TypeOK, Requests
  <2>2. seen \in Nat
    BY <2>1 DEF TypeOK, Answers
  <2>3. [rules EXCEPT !.revision = seen] \in Answers
    BY <2>1, <2>2 DEF Answers
  <2>4. request' \in [Calls -> Requests]
    BY <1>5, <2>1, <2>3 DEF AnswerRead, TypeOK, Requests
  <2> QED
    BY <1>5, <2>4 DEF AnswerRead, TypeOK
<1>6. ASSUME NEW c \in Calls, NEW reply \in {"ok", "error", "rejected"},
             AnswerWrite(c, reply)
      PROVE  TypeOK'
  <2>1. request' \in [Calls -> Requests]
    BY <1>6 DEF AnswerWrite, TypeOK, Requests, Answers
  <2>2. revision' \in [DataSources -> Nat]
    BY <1>6 DEF AnswerWrite, TypeOK
  <2> QED
    BY <1>6, <2>1, <2>2 DEF AnswerWrite, TypeOK
<1>7. ASSUME NEW c \in Calls, ReceiveRules(c) PROVE TypeOK'
    BY <1>7, SettleType, KeepType DEF ReceiveRules, TypeOK
<1>8. ASSUME NEW c \in Calls, ReceiveCustom(c) PROVE TypeOK'
  <2> DEFINE key == [prePackaged |-> TRUE, terms |-> Lower[request[c].key.terms]]
  <2>1. key \in Keys
    BY RulesStoreAssumption DEF TypeOK, Requests, Keys
  <2>2. pc' \in [Calls -> Places] /\ request' \in [Calls -> Requests]
    BY <1>8, <2>1, SendType, SettleType DEF ReceiveCustom, TypeOK, Places
  <2>3. custom' \in [Loaders -> Answers \cup {Empty}]
    BY <1>8, ResolvedType DEF ReceiveCustom, TypeOK
  <2>4. prePackaged' \in [Loaders -> Answers \cup {Empty}]
    BY <1>8, <2>1 DEF ReceiveCustom, TypeOK
  <2> QED
    BY <1>8, <2>2, <2>3, <2>4, KeepType DEF ReceiveCustom, TypeOK
<1>9. ASSUME NEW c \in Calls, ReceivePrePackaged(c) PROVE TypeOK'
  <2>1. prePackaged' \in [Loaders -> Answers \cup {Empty}]
    BY <1>9, ResolvedType DEF ReceivePrePackaged, TypeOK
  <2> QED
    BY <1>9, <2>1, SettleType, KeepType DEF ReceivePrePackaged, TypeOK
<1>10. ASSUME NEW c \in Calls, ReceiveWrite(c) \/ Reject(c) PROVE TypeOK'
    BY <1>10, SettleType DEF ReceiveWrite, Reject, TypeOK
<1>11. CASE UNCHANGED vars
    BY <1>11 DEF vars, TypeOK
<1> QED
    BY <1>1, <1>2, <1>3, <1>4, <1>5, <1>6, <1>7, <1>8, <1>9, <1>10, <1>11
    DEF Next, Respond, Resume

LEMMA SentPreserved == TypeOK /\ Sent /\ [Next]_vars => Sent'
<1> SUFFICES ASSUME TypeOK, Sent, [Next]_vars PROVE Sent'
    OBVIOUS
<1> USE DEF Sent, Searching, Calls
<1>1. ASSUME NEW d \in DataSources, SelectDataSource(d) PROVE Sent'
    BY <1>1 DEF SelectDataSource
<1>2. ASSUME NEW c \in Readers, NEW k \in Keys, GetRules(c, k) PROVE Sent'
    BY <1>2, RulesStoreAssumption DEF GetRules, TypeOK, Send, Now
<1>3. ASSUME NEW c \in Loaders, NEW t \in Terms, GetAllRules(c, t) PROVE Sent'
    BY <1>3 DEF GetAllRules, TypeOK, Send, Now
<1>4. ASSUME NEW c \in Writers, WriteRule(c) PROVE Sent'
    BY <1>4, RulesStoreAssumption DEF WriteRule, TypeOK, Send
<1>5. ASSUME NEW c \in Calls, NEW reply \in {"ok", "error", "rejected"},
             AnswerRead(c, reply)
      PROVE  Sent'
    BY <1>5 DEF AnswerRead, TypeOK, Requests, Answers
<1>6. ASSUME NEW c \in Calls, NEW reply \in {"ok", "error", "rejected"},
             AnswerWrite(c, reply)
      PROVE  Sent'
    BY <1>6 DEF AnswerWrite, TypeOK, Requests, Answers
<1>7. ASSUME NEW c \in Calls, ReceiveRules(c) PROVE Sent'
    BY <1>7 DEF ReceiveRules, Settle, TypeOK
<1>8. ASSUME NEW c \in Calls, ReceiveCustom(c) PROVE Sent'
    BY <1>8 DEF ReceiveCustom, Settle, TypeOK, Send, Now
<1>9. ASSUME NEW c \in Calls, ReceivePrePackaged(c) PROVE Sent'
    BY <1>9 DEF ReceivePrePackaged, Settle, TypeOK
<1>10. ASSUME NEW c \in Calls, ReceiveWrite(c) \/ Reject(c) PROVE Sent'
    BY <1>10 DEF ReceiveWrite, Reject, Settle, TypeOK
<1>11. CASE UNCHANGED vars
    BY <1>11 DEF vars
<1> QED
    BY <1>1, <1>2, <1>3, <1>4, <1>5, <1>6, <1>7, <1>8, <1>9, <1>10, <1>11
    DEF Next, Respond, Resume

LEMMA FreshPreserved ==
    TypeOK /\ Sent /\ CustomRulesFresh /\ [Next]_vars => CustomRulesFresh'
<1> SUFFICES ASSUME TypeOK, Sent, CustomRulesFresh, [Next]_vars PROVE CustomRulesFresh'
    OBVIOUS
<1> USE DEF CustomRulesFresh
<1>1. CASE UNCHANGED <<custom, began>>
    BY <1>1
<1>2. ASSUME NEW c \in Loaders, NEW t \in Terms, GetAllRules(c, t)
      PROVE  CustomRulesFresh'
    BY <1>2 DEF GetAllRules, TypeOK, Sent
<1>3. ASSUME NEW c \in Calls, ReceiveCustom(c) PROVE CustomRulesFresh'
    BY <1>3 DEF ReceiveCustom, Resolved, TypeOK, Sent
<1> QED
    BY <1>1, <1>2, <1>3
    DEF Next, Respond, Resume, SelectDataSource, GetRules, WriteRule, AnswerRead,
        AnswerWrite, ReceiveRules, ReceivePrePackaged, ReceiveWrite, Reject, vars

\* A search that leaves in the current generation keeps InFlight.
LEMMA SendInFlight ==
    ASSUME TypeOK, InFlight, NEW c \in Calls, NEW key \in Keys,
           Send(c, key, generation'), generation' \in Nat, generation <= generation',
           Writing' <=> Writing, UNCHANGED <<revision, activeDataSource>>,
           \A d \in Calls \ {c} : Searching(d)' => Searching(d)
    PROVE  InFlight'
<1> SUFFICES ASSUME NEW d \in Calls, Searching(d)'
             PROVE  /\ request'[d].rules.generation <= generation'
                    /\ Clean(request[d].rules)' =>
                        /\ ~Writing'
                        /\ request'[d].rules.revision = revision'[request'[d].rules.source]
    BY DEF InFlight
<1>1. CASE d = c
  <2>1. request'[c].rules = Now(generation')
    BY DEF Send, TypeOK
  <2>2. Now(generation').alone = ~Writing
    BY DEF Now
  <2>3. request'[c].rules.alone => ~Writing
    BY <2>1, <2>2, Zenon
  <2>4. Clean(request[d].rules)' => ~Writing'
    BY <1>1, <2>3 DEF Clean
  <2>5. /\ request'[c].rules.generation = generation'
        /\ request'[c].rules.revision = revision'[request'[c].rules.source]
    BY <2>1 DEF Now
  <2> QED
    BY <1>1, <2>4, <2>5
<1>2. CASE d # c
  <2>1. request'[d] = request[d] /\ Searching(d)
    BY <1>2 DEF Send, TypeOK
  <2>2. request[d].rules.generation \in Nat /\ generation \in Nat
    BY DEF TypeOK, Requests, Answers
  <2>3. request[d].rules.generation <= generation
    BY <2>1 DEF InFlight
  <2>4. Clean(request[d].rules)' => Clean(request[d].rules)
    BY <2>1, <2>2, <2>3 DEF Clean
  <2> QED
    BY <2>1, <2>2, <2>3, <2>4 DEF InFlight, Clean
<1> QED
    BY <1>1, <1>2

\* So does a step that sends nothing.
LEMMA KeptInFlight ==
    ASSUME TypeOK, InFlight, UNCHANGED <<revision, generation>>, Writing' => Writing,
           \A d \in Calls : Searching(d)' => Searching(d) /\ request'[d] = request[d]
    PROVE  InFlight'
BY DEF InFlight, Clean

\* A write invalidates as it leaves, so no snapshot of the generation it opens is
\* under way or cached; that generation's snapshots are taken while it is under way.
LEMMA CleanPreserved ==
    TypeOK /\ InFlight /\ Cached /\ [Next]_vars => InFlight' /\ Cached'
<1> SUFFICES ASSUME TypeOK, InFlight, Cached, [Next]_vars PROVE InFlight' /\ Cached'
    OBVIOUS
<1> USE DEF InFlight, Cached, Clean, Searching
<1>1. ASSUME NEW d \in DataSources, SelectDataSource(d) PROVE InFlight' /\ Cached'
    BY <1>1 DEF SelectDataSource, Writing
<1>2. ASSUME NEW c \in Readers, NEW k \in Keys, GetRules(c, k)
      PROVE  InFlight' /\ Cached'
  <2>1. c \in Calls /\ (Writing' <=> Writing)
    BY <1>2 DEF GetRules, TypeOK, Writing, Calls
  <2>2. Cached'
    BY <1>2, <2>1 DEF GetRules
  <2>3. CASE UNCHANGED request /\ pc' = [pc EXCEPT ![c] = "returned"]
    <3>1. \A d \in Calls : Searching(d)' => Searching(d) /\ request'[d] = request[d]
        BY <2>3 DEF TypeOK
    <3> QED
        BY <1>2, <2>1, <2>2, <3>1, KeptInFlight DEF GetRules
  <2>4. CASE Send(c, k, generation)
    <3>1. /\ generation' = generation /\ generation \in Nat
          /\ UNCHANGED <<revision, activeDataSource>>
        BY <1>2 DEF GetRules, TypeOK
    <3>2. \A d \in Calls \ {c} : Searching(d)' => Searching(d)
        BY <1>2 DEF GetRules, TypeOK
    <3>3. InFlight'
        BY <2>1, <2>4, <3>1, <3>2, SendInFlight
    <3> QED
        BY <2>2, <3>3
  <2> QED
    BY <1>2, <2>3, <2>4 DEF GetRules
<1>3. ASSUME NEW c \in Loaders, NEW t \in Terms, GetAllRules(c, t)
      PROVE  InFlight' /\ Cached'
  <2>1. c \in Calls /\ (Writing' <=> Writing)
    BY <1>3 DEF GetAllRules, TypeOK, Writing, Calls
  <2>2. Cached'
    BY <1>3 DEF GetAllRules, Invalidate, EmptyCache
  <2>3. InFlight'
    <3>1. [prePackaged |-> FALSE, terms |-> t] \in Keys
        BY DEF Keys
    <3>2. /\ generation' = generation + 1 /\ generation \in Nat
          /\ UNCHANGED <<revision, activeDataSource>>
        BY <1>3 DEF GetAllRules, Invalidate, TypeOK
    <3>3. \A d \in Calls \ {c} : Searching(d)' => Searching(d)
        BY <1>3 DEF GetAllRules, TypeOK
    <3>4. Send(c, [prePackaged |-> FALSE, terms |-> t], generation')
        BY <1>3, <3>2 DEF GetAllRules
    <3> QED
        BY <2>1, <3>1, <3>2, <3>3, <3>4, SendInFlight
  <2> QED
    BY <2>2, <2>3
<1>4. ASSUME NEW c \in Writers, WriteRule(c) PROVE InFlight' /\ Cached'
  <2>1. Cached'
    BY <1>4 DEF WriteRule, Invalidate, EmptyCache
  <2>2. ASSUME NEW d \in Calls, Searching(d)'
        PROVE  /\ request'[d].rules.generation <= generation'
               /\ ~Clean(request[d].rules)'
    <3>1. /\ request'[d] = request[d]
          /\ Searching(d)
        BY <1>4, <2>2 DEF WriteRule, TypeOK, Send, Calls
    <3>2. /\ request[d].rules.generation \in Nat
          /\ generation \in Nat
          /\ generation' = generation + 1
        BY <1>4 DEF WriteRule, Invalidate, TypeOK, Requests, Answers
    <3> QED
        BY <3>1, <3>2
  <2>3. InFlight'
    BY <2>2
  <2> QED
    BY <2>1, <2>3
<1>5. ASSUME NEW c \in Calls, NEW reply \in {"ok", "error", "rejected"},
             AnswerRead(c, reply)
      PROVE  InFlight' /\ Cached'
  <2>1. Writing' <=> Writing
    BY <1>5 DEF AnswerRead, Writing
  <2>2. Cached'
    BY <1>5, <2>1 DEF AnswerRead
  <2>3. \A d \in Calls \ {c} : request'[d] = request[d]
    BY <1>5 DEF AnswerRead, TypeOK
  <2>4. /\ request'[c].rules.source = request[c].rules.source
        /\ request'[c].rules.generation = request[c].rules.generation
        /\ request'[c].rules.alone = request[c].rules.alone
        /\ \/ request'[c].rules.revision = revision[request[c].rules.source]
           \/ request'[c].rules.revision = request[c].rules.revision
    BY <1>5 DEF AnswerRead, TypeOK, Requests, Answers
  <2>5. InFlight'
    BY <1>5, <2>1, <2>3, <2>4 DEF AnswerRead
  <2> QED
    BY <2>2, <2>5
<1>6. ASSUME NEW c \in Calls, NEW reply \in {"ok", "error", "rejected"},
             AnswerWrite(c, reply)
      PROVE  InFlight' /\ Cached'
  <2>1. Writing /\ Writing'
    BY <1>6 DEF AnswerWrite, Writing
  <2>2. Cached'
    BY <1>6, <2>1 DEF AnswerWrite
  <2>3. InFlight'
    BY <1>6, <2>1 DEF AnswerWrite, TypeOK, Requests
  <2> QED
    BY <2>2, <2>3
<1>7. ASSUME NEW c \in Calls, ReceiveRules(c) \/ ReceivePrePackaged(c)
      PROVE  InFlight' /\ Cached'
  <2>1. Writing' <=> Writing
    BY <1>7 DEF ReceiveRules, ReceivePrePackaged, Settle, TypeOK, Writing
  <2>2. Cached'
    BY <1>7, <2>1 DEF ReceiveRules, ReceivePrePackaged, Keep, TypeOK
  <2>3. InFlight'
    BY <1>7, <2>1 DEF ReceiveRules, ReceivePrePackaged, Settle, TypeOK
  <2> QED
    BY <2>2, <2>3
<1>8. ASSUME NEW c \in Calls, ReceiveCustom(c) PROVE InFlight' /\ Cached'
  <2>1. Writing' <=> Writing
    BY <1>8 DEF ReceiveCustom, Settle, TypeOK, Writing
  <2>2. Cached'
    BY <1>8, <2>1 DEF ReceiveCustom, Keep, TypeOK
  <2> DEFINE key == [prePackaged |-> TRUE, terms |-> Lower[request[c].key.terms]]
  <2>3. CASE Settle(c, "returned")
    <3>1. \A d \in Calls : Searching(d)' => Searching(d) /\ request'[d] = request[d]
        BY <2>3 DEF Settle, TypeOK
    <3> QED
        BY <1>8, <2>1, <2>2, <3>1, KeptInFlight DEF ReceiveCustom
  <2>4. CASE Send(c, key, generation) /\ pc' = [pc EXCEPT ![c] = "prePackaged"]
    <3>1. key \in Keys
        BY RulesStoreAssumption DEF TypeOK, Requests, Keys
    <3>2. /\ generation' = generation /\ generation \in Nat
          /\ UNCHANGED <<revision, activeDataSource>>
        BY <1>8 DEF ReceiveCustom, TypeOK
    <3>3. \A d \in Calls \ {c} : Searching(d)' => Searching(d)
        BY <2>4 DEF TypeOK
    <3>4. InFlight'
        BY <2>1, <2>4, <3>1, <3>2, <3>3, SendInFlight
    <3> QED
        BY <2>2, <3>4
  <2> QED
    BY <1>8, <2>2, <2>3, <2>4 DEF ReceiveCustom
<1>9. ASSUME NEW c \in Calls, ReceiveWrite(c) \/ Reject(c) PROVE InFlight' /\ Cached'
  <2>1. Writing' => Writing
    BY <1>9 DEF ReceiveWrite, Reject, Settle, TypeOK, Writing
  <2> QED
    BY <1>9, <2>1 DEF ReceiveWrite, Reject, Settle, TypeOK
<1>10. CASE UNCHANGED vars
    BY <1>10 DEF vars, Writing
<1> QED
    BY <1>1, <1>2, <1>3, <1>4, <1>5, <1>6, <1>7, <1>8, <1>9, <1>10
    DEF Next, Respond, Resume

\* Every variable of the rule store keeps its type, for any number of callers.
THEOREM TypeCorrect == Spec => []TypeOK
<1>1. Init => TypeOK
    BY InitInv DEF IInv
<1> QED
    BY <1>1, TypePreserved, PTL DEF Spec

LEMMA InductiveInvariant == Spec => []IInv
<1>1. IInv /\ [Next]_vars => IInv'
    BY TypePreserved, SentPreserved, FreshPreserved, CleanPreserved DEF IInv
<1> QED
    BY <1>1, InitInv, PTL DEF Spec

\* Read your writes: whatever other calls, writes and cluster switches happen while
\* getAllRules waits, its custom rules come from the cluster that was active when it
\* was called and include every write done by then.
THEOREM GetAllRulesFresh == Spec => []CustomRulesFresh
<1>1. IInv => CustomRulesFresh
    BY DEF IInv
<1> QED
    BY <1>1, InductiveInvariant, PTL

\* A custom rule list requested outside any write and never invalidated since is what
\* its cluster holds.
THEOREM CoherentCache == Spec => []CacheCoherent
<1>1. IInv => CacheCoherent
    BY DEF IInv, Cached, Clean, CacheCoherent
<1> QED
    BY <1>1, InductiveInvariant, PTL

=============================================================================
