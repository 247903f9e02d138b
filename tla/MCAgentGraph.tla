---------------------------- MODULE MCAgentGraph ----------------------------
(* Instances of AgentGraph for TLC: every way three steps can depend on the  *)
(* steps before them, by reference or by `after`, with or without a cycle,   *)
(* a step whose arguments are refused and steps that do not apply.           *)
EXTENDS ScoredRun

CONSTANTS a, b, c

Steps == {a, b, c}

Link == {"none", "ref", "after"}

\* The program with these links; ac makes the first step wait for the last.
ProgramOf(ba, ca, cb, ac, unfit, inapplicable) ==
    LET link == [s \in Steps |-> [d \in Steps |->
                    IF s = b /\ d = a THEN ba ELSE IF s = c /\ d = a THEN ca
                    ELSE IF s = c /\ d = b THEN cb ELSE IF s = a /\ d = c THEN ac ELSE "none"]]
    IN [steps |-> Steps, inapplicable |-> inapplicable, unfit |-> unfit,
        refs |-> [s \in Steps |-> {d \in Steps : link[s][d] = "ref"}],
        after |-> [s \in Steps |-> {d \in Steps : link[s][d] = "after"}]]

\* The orders that can be run, with a step whose arguments are refused or none.
Orders ==
    {ProgramOf(ba, ca, cb, "none", unfit, {}) :
        ba \in Link, ca \in Link, cb \in Link, unfit \in {{}, {a}, {b}}}

\* The plans that are refused, and those that lose steps.
Odd ==
    {ProgramOf(ba, "none", cb, ac, {}, inapplicable) :
        ba \in Link, cb \in Link, ac \in Link, inapplicable \in {{}, {a}, {c}, Steps}}
    \cup {[ProgramOf("none", "after", "none", "none", {}, {}) EXCEPT !.steps = steps] :
            steps \in {{}, {b, c}}}

Programs == Orders \cup Odd

\* The step that retrieves, and steps that go by their op's name.
Sources == {a}
ByOp == [s \in Steps |-> s]
\* One op in several steps.
OneOp == [s \in Steps |-> a]

=============================================================================
