-------------------------------- MODULE Job --------------------------------
(* What every run of a query promises, on one node or on many: it ends, once, *)
(* with the answer to the whole input or with an error, and with no answer at *)
(* all when the input calls for an error.                                     *)
CONSTANTS
    NoAnswer,   \* stands for the answer of an input that must be rejected
    Pending,    \* the outcome of a run that has not ended
    Rejected    \* the outcome of a run that ended in an error

VARIABLES
    expected,   \* the answer to the input, or NoAnswer
    outcome

vars == <<expected, outcome>>

Init == outcome = Pending

Answer ==
    /\ outcome = Pending
    /\ expected # NoAnswer
    /\ outcome' = expected
    /\ UNCHANGED expected

Reject ==
    /\ outcome = Pending
    /\ outcome' = Rejected
    /\ UNCHANGED expected

Next == Answer \/ Reject

Safety == Init /\ [][Next]_vars

\* It ends.
Ends == <>(outcome # Pending)

Spec == Safety /\ Ends
=============================================================================
