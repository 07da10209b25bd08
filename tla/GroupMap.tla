------------------------------ MODULE GroupMap ------------------------------
(* What a groupTable promises its Aggregator: a map from group keys to        *)
(* groups, in which looking a key up finds its group, or makes one.           *)
EXTENDS Naturals

CONSTANT Key

VARIABLES
    asked,  \* the keys of which a row is being added
    count   \* rows per group; 0: there is no such group

vars == <<asked, count>>

Init == asked = {} /\ count = [k \in Key |-> 0]

Ask(k) ==
    /\ asked = {}
    /\ asked' = {k}
    /\ UNCHANGED count

Fold(k) ==
    /\ asked = {k}
    /\ count' = [count EXCEPT ![k] = @ + 1]
    /\ asked' = {}

Next == \E k \in Key : Ask(k) \/ Fold(k)

Safety == Init /\ [][Next]_vars

\* A row once asked for is folded in.
Spec == Safety /\ WF_vars(\E k \in Key : Fold(k))
=============================================================================
