---------------------------- MODULE MCRulesStore ----------------------------
(* One category written in two ways, as a page passes it and as the first      *)
(* search of getAllRules leaves it.                                            *)
EXTENDS RulesStore

MCTerms == {"Network", "network"}
MCLower == [t \in Terms |-> "network"]

(* A category that is in lower case already. *)
MCPlainTerms == {"network"}
MCPlain == [t \in Terms |-> t]

=============================================================================
