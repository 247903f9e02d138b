------------------------------ MODULE MCCourse ------------------------------
EXTENDS Ledger
CONSTANTS a, b, c
Steps == {a, b, c}
Deps == [s \in Steps |-> IF s = c THEN {b} ELSE {}]

\* a and c are two steps of one capability; the planner's model has no price.
Ops == [s \in Steps |-> IF s = b THEN "review" ELSE "research"]
Prices == [f \in {<<"opus">>, <<"opus", "5">>} |-> [input |-> 50 * Len(f), cached |-> Unpriced]]
Said == [f \in {<<"opus", "5">>} |-> [input |-> 30, cached |-> 1]]
Answers == [s \in Scope \cup {Child} |->
             IF s = Planner THEN [model |-> <<"local">>, input |-> 1, cached |-> 0]
             ELSE [model |-> <<"opus", "5", "dated">>, input |-> 3, cached |-> 1]]
============================================================================
