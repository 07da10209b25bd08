------------------------------ MODULE Fallible ------------------------------
(* Operations that may fail.  Such an operation yields the set of its result, *)
(* and the empty set stands for an error: a function of the code that returns *)
(* (value, err) yields {value} or {}.                                         *)
EXTENDS Functions

CONSTANT Nil     \* the absent pointer or message

\* "x, err := a; if err != nil { return err }; F(x)"
Then(a, F(_)) == UNION {F(x) : x \in a}

\* "if ok { return x }; return err"
If(ok, x) == IF ok THEN {x} ELSE {}

\* Where something must be present, Nil is an error.
Present(p, F(_)) == IF p = Nil THEN {} ELSE F(p)

\* F for every element of a sequence, stopping at the first error.
Each(F(_), s) == IF \A i \in DOMAIN s : F(s[i]) # {}
                 THEN {[i \in DOMAIN s |-> CHOOSE x \in F(s[i]) : TRUE]}
                 ELSE {}
=============================================================================
