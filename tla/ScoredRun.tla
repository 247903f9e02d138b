------------------------------ MODULE ScoredRun ------------------------------
(* The evaluation suite over the runs of AgentGraph: what run_case observes  *)
(* of an ended run, and what the checks of scoring.py and the probe say of   *)
(* the plans the planner accepts.                                            *)
EXTENDS AgentGraph, SequencesExt

CONSTANTS
    Source,   \* the steps whose op retrieves material
    OpOf      \* the op of a step: the name the checks know it by

ASSUME ScoredAssumption ==
    Source \subseteq Step /\ DOMAIN OpOf = Step /\ NoPlan \notin Nat

S == INSTANCE Scoring WITH Nothing <- NoPlan, ProcessWords <- {}

\* What a golden case claims of a request that is planned and answered.
Case == [route |-> NoPlan, terminal |-> "answer", document |-> NoPlan, format |-> NoPlan,
         min |-> 0, max |-> NoPlan, include |-> {}, exclude |-> {}]

\* The words of a step's result: its own, and those of the results its
\* arguments reference, which is all the executor hands it.
Words(s) ==
    LET reached == FoldLeft(LAMBDA seen, round : seen \cup UNION {plan.refs[t] : t \in seen},
                            {s}, SetToSeq(Step))
    IN {t \in reached : result[t] \in Successful}

\* A plan as the `plan` channel stores it.
StoredPlan(p) ==
    LET order == SetToSeq(p.steps)
    IN [i \in DOMAIN order |-> [capability |-> OpOf[order[i]], depends |-> Dependencies(p, order[i])]]

NoText == [words |-> {}, shapes |-> {}]

Reported == {s \in Step : result[s] # "none"}

(* run_case: the record and the last state of an ended run.                  *)
Observed(p) ==
    [error |-> FALSE, route |-> IF p = NoPlan THEN "direct" ELSE "plan",
     steps |-> IF p = NoPlan THEN <<>> ELSE StoredPlan(p),
     ok |-> [s \in Reported |-> result[s] \in Successful],
     found |-> [s \in Reported |-> IF s \in Source THEN {s} ELSE {}],
     read |-> [s \in Reported |-> IF p = NoPlan THEN {} ELSE Words(s)],
     terminal |-> terminal, answer |-> NoText, query |-> NoText, material |-> NoText,
     path |-> NoPlan, text |-> {}, expected |-> FALSE, format |-> "markdown",
     formats |-> {}, renderable |-> {}, registry |-> {OpOf[s] : s \in Step}, job |-> "job"]

-----------------------------------------------------------------------------
PlanChecks == {"plan_names_known", "plan_no_duplicates", "plan_deps_satisfiable", "plan_acyclic",
               "steps_all_ran"}

\* The suite blames a run for what it did, and for nothing else: an answered
\* plan passes every check of the plan's shape, all of its steps are scored as
\* run, steps_all_ok fails exactly when one of them failed, and material that
\* every step was handed is found in what they wrote (scoring.py against the
\* planner's and the executor's own rules).
RunsAreScored ==
    (node = "end" /\ terminal = "answer" /\ plan # NoPlan /\ plan.steps # {}) =>
        LET score == S!Score(Case, Observed(plan))
        IN /\ \A check \in PlanChecks : score[check] = "pass"
           /\ (S!StepFailureRate(Observed(plan)).failed = 0) = (score["steps_all_ok"] # "fail")
           /\ (score["steps_all_ok"] = "fail") = \E s \in plan.steps : result[s] \notin Successful
           /\ (/\ \A s \in plan.steps : plan.after[s] \subseteq plan.refs[s]
               /\ \A s \in plan.steps : result[s] \in Successful
               /\ Cardinality(Source \cap plan.steps) = 1)
              => score["grounding_reaches_reasoning"] # "fail"
           /\ S!SuiteExit(FALSE, <<score>>, "fake", NoPlan)
                = IF S!With(score, "fail") = {} THEN 0 ELSE 1

\* A program as the probe reads it.
ProgramSeq(raw) ==
    LET order == SetToSeq(raw.steps)
    IN [i \in DOMAIN order |-> [id |-> order[i], refs |-> raw.refs[order[i]],
                                after |-> raw.after[order[i]]]]

\* The probe calls a program valid exactly when the planner would accept it,
\* when every step applies: its figures are about the planner (strict_probe.py,
\* "Analysis checks 1 and 3"; planner.py, _validate_plan).
ProbeAgrees ==
    node = "planner" => \A raw \in Program : raw.inapplicable = {} =>
        (S!Judge(TRUE, TRUE, ProgramSeq(raw), {}) = "valid") = Accepted(raw)

\* What the suite and the probe say of a program and of its run is what the
\* planner and the executor did with them.
ScoredAsItRan == RunsAreScored /\ ProbeAgrees

=============================================================================
