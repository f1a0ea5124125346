----------------------------- MODULE DocumentFlyout -----------------------------
(***************************************************************************)
(* The documents in the flyout of a threat intelligence finding            *)
(* (ThreatIntelFindingDetailsFlyout), each fetched through DocumentStore   *)
(* when its row is expanded for the first time.  The store keeps what came *)
(* for as long as the application is open, also that there was nothing.    *)
(***************************************************************************)
EXTENDS Naturals, FiniteSets

CONSTANTS
    Documents,      \* related documents of the finding
    MaxToggles      \* how often the user expands or collapses a row

VARIABLES
    documentsByIndex,       \* what DocumentStore keeps of each
    stored,         \* what the cluster has of each
    page,           \* how often the flyout was opened
    docIdToDocument,        \* what the flyout has formatted
    docIdToExpandedRowMap,  \* the block under each row
    fetches,        \* the calls of getDocument under way
    toggles,        \* how often a row was toggled
    wanted,         \* history: the rows that the user has expanded
    calm            \* history: no document was on its way when it was opened or a row was toggled

documentVars == <<documentsByIndex, stored, page, docIdToDocument, docIdToExpandedRowMap, fetches,
                  toggles, wanted, calm>>

NotYet == "none"
Texts == {"document", "nothing"}    \* "nothing" is the formatted empty string
Blocks == Texts \cup {"spinner", "collapsed"}

TypeOK ==
    /\ documentsByIndex \in [Documents -> Texts \cup {NotYet}]
    /\ stored \in [Documents -> Texts]
    /\ docIdToDocument \in [Documents -> Texts \cup {NotYet}]
    /\ docIdToExpandedRowMap \in [Documents -> Blocks]
    /\ \A f \in fetches : f.doc \in Documents /\ f.rows \in [Documents -> Blocks]
    /\ wanted \subseteq Documents /\ calm \in BOOLEAN

Init ==
    /\ documentsByIndex = [d \in Documents |-> NotYet] /\ stored \in [Documents -> Texts]
    /\ page = 1
    /\ docIdToDocument = [d \in Documents |-> NotYet]
    /\ docIdToExpandedRowMap = [d \in Documents |-> "collapsed"]
    /\ fetches = {} /\ toggles = 0 /\ wanted = {} /\ calm = TRUE

\* toggleDocumentDetails with createDocumentBlock and getDocument: what is neither formatted nor
\* in the store is fetched, and its answer will be put into the rows as they are now.
ToggleDocumentDetails(d) ==
    /\ toggles < MaxToggles /\ toggles' = toggles + 1
    /\ LET open == docIdToExpandedRowMap[d] = "collapsed"
           text == IF docIdToDocument[d] # NotYet THEN docIdToDocument[d] ELSE documentsByIndex[d]
           block == IF text = NotYet THEN "spinner" ELSE text
           rows == [docIdToExpandedRowMap EXCEPT ![d] = IF open THEN block ELSE "collapsed"]
           fetch == [n |-> toggles, page |-> page, doc |-> d, rows |-> rows]
       IN  /\ docIdToExpandedRowMap' = rows
           /\ docIdToDocument' = IF open THEN [docIdToDocument EXCEPT ![d] = text]
                                 ELSE docIdToDocument
           /\ wanted' = IF open THEN wanted \cup {d} ELSE wanted \ {d}
           /\ fetches' = fetches \cup {f \in {fetch} : open /\ text = NotYet}
    /\ calm' = (calm /\ ~\E f \in fetches : f.page = page)
    /\ UNCHANGED <<documentsByIndex, stored, page>>

\* The rows as they were when the document was asked for, with the document.
OnDocUpdate(f) == [f.rows EXCEPT ![f.doc] = documentsByIndex'[f.doc]]

\* The document came, or a refusal, which counts as nothing; the store keeps the last answer.
GotDocument(f) ==
    /\ \E text \in {stored[f.doc], "nothing"} :
          documentsByIndex' = [documentsByIndex EXCEPT ![f.doc] = text]
    /\ fetches' = fetches \ {f}
    /\ IF f.page = page
       THEN /\ docIdToExpandedRowMap' = OnDocUpdate(f)
            /\ docIdToDocument' = [docIdToDocument EXCEPT ![f.doc] = documentsByIndex'[f.doc]]
       ELSE UNCHANGED <<docIdToExpandedRowMap, docIdToDocument>>
    /\ UNCHANGED <<stored, page, toggles, wanted, calm>>

\* A request that is lost is handled by nothing: the row goes on waiting.
Lost(f) ==
    /\ fetches' = fetches \ {f}
    /\ UNCHANGED <<documentsByIndex, stored, page, docIdToDocument, docIdToExpandedRowMap, toggles,
                   wanted, calm>>

\* The flyout is closed and opened again.
Reopen ==
    /\ page <= MaxToggles
    /\ page' = page + 1
    /\ docIdToDocument' = [d \in Documents |-> NotYet]
    /\ docIdToExpandedRowMap' = [d \in Documents |-> "collapsed"]
    /\ wanted' = {} /\ calm' = (fetches = {})
    /\ UNCHANGED <<documentsByIndex, stored, fetches, toggles>>

Next ==
    \/ \E d \in Documents : ToggleDocumentDetails(d)
    \/ \E f \in fetches : GotDocument(f) \/ Lost(f)
    \/ Reopen

-----------------------------------------------------------------------------

\* The rows are expanded that the user expanded, and a row with a text shows what the store has
\* of its document; unless the flyout was opened or a row was toggled while a document was on its
\* way, whose answer then undoes the one or replaces the other.
DocumentsShown ==
    calm =>
        /\ wanted = {d \in Documents : docIdToExpandedRowMap[d] # "collapsed"}
        /\ \A d \in Documents :
              docIdToExpandedRowMap[d] \in Texts => docIdToExpandedRowMap[d] = documentsByIndex[d]
=============================================================================
