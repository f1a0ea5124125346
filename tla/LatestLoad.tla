------------------------------ MODULE LatestLoad ------------------------------
(***************************************************************************)
(* What a page that shows a list promises when it can load the list anew   *)
(* at any moment: the list only ever holds what the newest load brought.   *)
(* Loads are numbered; an item names the load that fetched it.             *)
(***************************************************************************)
EXTENDS Naturals

VARIABLES
    newest,     \* the newest load, 0 before the first
    list        \* what is shown

vars == <<newest, list>>

Init ==
    /\ newest \in Nat
    /\ list = {}

\* A new load empties the list.
Begin ==
    /\ newest' \in Nat
    /\ newest' > newest
    /\ list' = {}

\* The newest load brings some more.
Extend ==
    /\ newest' = newest
    /\ list \subseteq list'
    /\ \A item \in list' \ list : item.load = newest

Next == Begin \/ Extend

Spec == Init /\ [][Next]_vars

\* Every item shown was brought by the newest load.
OnlyNewest == \A item \in list : item.load = newest

=============================================================================
