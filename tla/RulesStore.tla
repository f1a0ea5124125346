------------------------------ MODULE RulesStore ------------------------------
(***************************************************************************)
(* The browser's cache of detection rules (public/store/RulesStore.ts) and *)
(* the rule requests it sends through RuleService.                         *)
(*                                                                         *)
(* Pages call the store concurrently: every call is a JavaScript promise   *)
(* that runs to its next await in one step and resumes when the answer     *)
(* arrives.  A call here is a member of Calls; it is made at most once.    *)
(* The data of a rule list is abstracted to where and when it was read:    *)
(* the data source, the revision of that source's custom rules, and the    *)
(* generation of the cache (how often it was invalidated) when the request *)
(* left the browser.                                                       *)
(***************************************************************************)
EXTENDS Naturals

CONSTANTS
    Readers,        \* calls of getCustomRules and getPrePackagedRules by a page
    Loaders,        \* calls of getAllRules
    Writers,        \* calls of createRule, updateRule and deleteRule
    DataSources,    \* OpenSearch clusters the user can select
    Terms,          \* filters a page passes: { 'rule.category': [...] }
    Lower,          \* a filter with its categories in lower case
    Empty           \* the empty list getRules returns when the server fails

Calls == Readers \cup Loaders \cup Writers

Keys == [prePackaged : BOOLEAN, terms : Terms]

\* The rules one search returned.  alone: no write was under way when it was sent.
Answers == [source : DataSources, revision : Nat, generation : Nat, alone : BOOLEAN]

\* What a request carries, and the reply once it is there.
Requests == [key : Keys, reply : {"awaited", "ok", "error", "rejected"}, rules : Answers]

ASSUME RulesStoreAssumption ==
    /\ Readers \cap Loaders = {} /\ Readers \cap Writers = {} /\ Loaders \cap Writers = {}
    /\ DataSources # {}
    /\ Terms # {}
    /\ Lower \in [Terms -> Terms]
    /\ Empty \notin Answers

VARIABLES
    activeDataSource,   \* dataSourceInfo.activeDataSource, a global of the page
    revision,           \* custom rules of each cluster: how often they were written
    cache,              \* this.cache; Empty where it has no entry
    generation,         \* how often invalidateCache ran
    pc,                 \* where each call is
    request,            \* the request each call waits for
    began,              \* what was active and written when getAllRules was called
    custom,             \* customRules of getAllRules
    prePackaged         \* prePackagedRules of getAllRules

vars == <<activeDataSource, revision, cache, generation, pc, request, began,
          custom, prePackaged>>

Places == {"idle", "reading", "custom", "prePackaged", "writing", "returned", "rejected"}
Waiting == {"reading", "custom", "prePackaged", "writing"}

TypeOK ==
    /\ activeDataSource \in DataSources
    /\ revision \in [DataSources -> Nat]
    /\ cache \in [Keys -> Answers \cup {Empty}]
    /\ generation \in Nat
    /\ pc \in [Calls -> Places]
    /\ request \in [Calls -> Requests]
    /\ began \in [Loaders -> Answers]
    /\ custom \in [Loaders -> Answers \cup {Empty}]
    /\ prePackaged \in [Loaders -> Answers \cup {Empty}]

Writing == \E c \in Calls : pc[c] = "writing"

\* What a search sent now, in generation g of the cache, is going to see at least.
Now(g) ==
    [source |-> activeDataSource, revision |-> revision[activeDataSource],
     generation |-> g, alone |-> ~Writing]

\* service.getRules: the request leaves for the data source active at that moment.
Send(c, key, g) ==
    request' = [request EXCEPT ![c] =
        [key |-> key, reply |-> "awaited", rules |-> Now(g)]]

\* A call that waits for nothing.
NoRequest ==
    [key |-> CHOOSE k \in Keys : TRUE, reply |-> "awaited",
     rules |-> [source |-> CHOOSE d \in DataSources : TRUE, revision |-> 0,
                generation |-> 0, alone |-> TRUE]]

EmptyCache == [k \in Keys |-> Empty]

\* (mutant: this.cache left undefined)
InvalidateToUndefined ==
    /\ cache' = Empty
    /\ generation' = generation + 1

\* invalidateCache
Invalidate ==
    /\ cache' = EmptyCache
    /\ generation' = generation + 1

-----------------------------------------------------------------------------

Init ==
    /\ activeDataSource \in DataSources
    /\ revision = [d \in DataSources |-> 0]
    /\ cache = EmptyCache
    /\ generation = 0
    /\ pc = [c \in Calls |-> "idle"]
    /\ request = [c \in Calls |-> NoRequest]
    /\ began = [c \in Loaders |-> NoRequest.rules]
    /\ custom = [c \in Loaders |-> Empty]
    /\ prePackaged = [c \in Loaders |-> Empty]

\* The user picks another cluster: the store is not told.
SelectDataSource(d) ==
    /\ activeDataSource # d
    /\ activeDataSource' = d
    /\ UNCHANGED <<revision, cache, generation, pc, request, began, custom, prePackaged>>

\* getCustomRules or getPrePackagedRules called by a page: a hit returns at once.
GetRules(c, key) ==
    /\ pc[c] = "idle"
    /\ \/ /\ cache[key] # Empty
          /\ pc' = [pc EXCEPT ![c] = "returned"]
          /\ UNCHANGED request
       \/ /\ cache[key] = Empty
          /\ Send(c, key, generation)
          /\ pc' = [pc EXCEPT ![c] = "reading"]
    /\ UNCHANGED <<activeDataSource, revision, cache, generation, began, custom,
                   prePackaged>>

\* (mutant: getAllRules that trusts the cache)
GetAllRulesCached(c, terms) ==
    LET key == [prePackaged |-> FALSE, terms |-> terms] IN
    /\ pc[c] = "idle"
    /\ began' = [began EXCEPT ![c] = Now(generation)]
    /\ \/ /\ cache[key] # Empty
          /\ custom' = [custom EXCEPT ![c] = cache[key]]
          /\ Send(c, [key EXCEPT !.prePackaged = TRUE], generation)
          /\ pc' = [pc EXCEPT ![c] = "prePackaged"]
       \/ /\ cache[key] = Empty
          /\ Send(c, key, generation)
          /\ pc' = [pc EXCEPT ![c] = "custom"]
          /\ UNCHANGED custom
    /\ UNCHANGED <<activeDataSource, revision, cache, generation, prePackaged>>

\* getAllRules invalidates, so that its search for custom rules always misses.
GetAllRules(c, terms) ==
    /\ pc[c] = "idle"
    /\ Invalidate
    /\ began' = [began EXCEPT ![c] = Now(generation + 1)]
    /\ Send(c, [prePackaged |-> FALSE, terms |-> terms], generation + 1)
    /\ pc' = [pc EXCEPT ![c] = "custom"]
    /\ UNCHANGED <<activeDataSource, revision, custom, prePackaged>>

\* (mutant: a write that leaves the cache)
WriteWithoutInvalidate(c) ==
    /\ pc[c] = "idle"
    /\ Send(c, NoRequest.key, generation)
    /\ pc' = [pc EXCEPT ![c] = "writing"]
    /\ UNCHANGED <<activeDataSource, revision, cache, generation, began, custom,
                   prePackaged>>

\* createRule, updateRule and deleteRule: the cache is emptied before the request.
WriteRule(c) ==
    /\ pc[c] = "idle"
    /\ Invalidate
    /\ Send(c, NoRequest.key, generation + 1)
    /\ pc' = [pc EXCEPT ![c] = "writing"]
    /\ UNCHANGED <<activeDataSource, revision, began, custom, prePackaged>>

\* The plugin's server and the cluster handle a search ...
AnswerRead(c, reply) ==
    /\ pc[c] \in {"reading", "custom", "prePackaged"}
    /\ request[c].reply = "awaited"
    /\ LET rules == request[c].rules
           seen == IF reply = "ok" THEN revision[rules.source] ELSE rules.revision
       IN  request' = [request EXCEPT ![c] =
               [key |-> request[c].key, reply |-> reply,
                rules |-> [rules EXCEPT !.revision = seen]]]
    /\ UNCHANGED <<activeDataSource, revision, cache, generation, pc, began, custom,
                   prePackaged>>

\* ... or a write: the answer may be lost ("rejected") after the write was done.
AnswerWrite(c, reply) ==
    /\ pc[c] = "writing"
    /\ request[c].reply = "awaited"
    /\ request' = [request EXCEPT ![c].reply = reply]
    /\ \/ /\ reply # "error"
          /\ revision' = [revision EXCEPT ![request[c].rules.source] = @ + 1]
       \/ /\ reply # "ok"
          /\ UNCHANGED revision
    /\ UNCHANGED <<activeDataSource, cache, generation, pc, began, custom, prePackaged>>

\* getRules after its await: an answer is cached, whatever happened meanwhile.
Resolved(c) == IF request[c].reply = "ok" THEN request[c].rules ELSE Empty
Keep(c) ==
    cache' = IF request[c].reply = "ok"
               THEN [cache EXCEPT ![request[c].key] = request[c].rules]
               ELSE cache

Settle(c, how) ==
    /\ pc' = [pc EXCEPT ![c] = how]
    /\ request' = [request EXCEPT ![c] = NoRequest]

\* The getRules a page called resolves.
ReceiveRules(c) ==
    /\ pc[c] = "reading"
    /\ request[c].reply \in {"ok", "error"}
    /\ Keep(c)
    /\ Settle(c, "returned")
    /\ UNCHANGED <<activeDataSource, revision, generation, began, custom, prePackaged>>

\* getAllRules goes on to the pre-packaged rules; its first search has put the
\* filter it was given into lower case.
ReceiveCustom(c) ==
    LET key == [prePackaged |-> TRUE, terms |-> Lower[request[c].key.terms]] IN
    /\ pc[c] = "custom"
    /\ request[c].reply \in {"ok", "error"}
    /\ Keep(c)
    /\ custom' = [custom EXCEPT ![c] = Resolved(c)]
    /\ \/ /\ cache[key] # Empty
          /\ prePackaged' = [prePackaged EXCEPT ![c] = cache[key]]
          /\ Settle(c, "returned")
       \/ /\ cache[key] = Empty
          /\ Send(c, key, generation)
          /\ pc' = [pc EXCEPT ![c] = "prePackaged"]
          /\ UNCHANGED prePackaged
    /\ UNCHANGED <<activeDataSource, revision, generation, began>>

\* The second search of getAllRules resolves, and with it the call.
ReceivePrePackaged(c) ==
    /\ pc[c] = "prePackaged"
    /\ request[c].reply \in {"ok", "error"}
    /\ Keep(c)
    /\ prePackaged' = [prePackaged EXCEPT ![c] = Resolved(c)]
    /\ Settle(c, "returned")
    /\ UNCHANGED <<activeDataSource, revision, generation, began, custom>>

\* A write resolves to response.ok.
ReceiveWrite(c) ==
    /\ pc[c] = "writing"
    /\ request[c].reply \in {"ok", "error"}
    /\ Settle(c, "returned")
    /\ UNCHANGED <<activeDataSource, revision, cache, generation, began, custom,
                   prePackaged>>

\* The HTTP client rejects: nothing in the store catches it.
Reject(c) ==
    /\ pc[c] \in Waiting
    /\ request[c].reply = "rejected"
    /\ Settle(c, "rejected")
    /\ UNCHANGED <<activeDataSource, revision, cache, generation, began, custom,
                   prePackaged>>

Respond(c) ==
    \E reply \in {"ok", "error", "rejected"} : AnswerRead(c, reply) \/ AnswerWrite(c, reply)

Resume(c) ==
    \/ ReceiveRules(c)
    \/ ReceiveCustom(c)
    \/ ReceivePrePackaged(c)
    \/ ReceiveWrite(c)
    \/ Reject(c)

Next ==
    \/ \E d \in DataSources : SelectDataSource(d)
    \/ \E c \in Readers, k \in Keys : GetRules(c, k)
    \/ \E c \in Loaders, t \in Terms : GetAllRules(c, t)
    \/ \E c \in Writers : WriteRule(c)
    \/ \E c \in Calls : Respond(c) \/ Resume(c)

Spec == Init /\ [][Next]_vars

-----------------------------------------------------------------------------
(* Properties *)

\* The custom rules getAllRules returns (what the Rules page shows after a rule was
\* saved) were read in the data source that was active when it was called, and hold
\* every write that was done by then.
CustomRulesFresh ==
    \A c \in Loaders : custom[c] # Empty =>
        /\ custom[c].source = began[c].source
        /\ custom[c].revision >= began[c].revision

\* A list of custom rules that was requested while no write was under way, and
\* survived every invalidation since, is what its cluster holds: reads and writes
\* that do not overlap never leave a stale entry, although the cache is emptied
\* before a write and not after it.
CacheCoherent ==
    \A k \in Keys :
        (/\ ~k.prePackaged
         /\ cache[k] # Empty
         /\ cache[k].alone
         /\ cache[k].generation = generation)
        => cache[k].revision = revision[cache[k].source]

\* The pre-packaged half of getAllRules was requested after the call invalidated the
\* cache: "If cache is invalidated then the request is made to get a new set of data."
PrePackagedFresh ==
    \A c \in Loaders : (pc[c] = "returned" /\ prePackaged[c] # Empty)
        => prePackaged[c].generation >= began[c].generation

=============================================================================
