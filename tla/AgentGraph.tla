----------------------------- MODULE AgentGraph -----------------------------
(* One run of the planner DAG: triage, the plan and its validation, the      *)
(* executor's waves with their refusals and retries, the generation pipeline *)
(* and its terminals.                                                        *)
(*                                                                           *)
(* A step of the model is a superstep of LangGraph: one node and the edge it *)
(* takes, or, in a wave, one capability after the other in any order, whose  *)
(* writes are applied together when the last one is over.  A node that       *)
(* raises or is stopped leaves the checkpoint at its superstep, and runs     *)
(* again when the job is resumed: nothing changes here.                      *)
EXTENDS Naturals, FiniteSets

CONSTANTS
    Step,        \* the ids a program may give its steps
    Program,     \* what the planner's model may answer
    MaxRetries,  \* AgentProfile.max_step_retries
    MaxRefine,   \* AgentProfile.max_refine
    NoPlan       \* no plan in the state yet

\* A program: its steps, those whose op does not apply to the request, what
\* their arguments reference, what they are after, and those whose arguments
\* their op's input_model refuses, or that name an input nobody gave.
ProgramType ==
    [steps : SUBSET Step, inapplicable : SUBSET Step, refs : [Step -> SUBSET Step],
     after : [Step -> SUBSET Step], unfit : SUBSET Step]

ASSUME GraphAssumption ==
    /\ IsFiniteSet(Step)
    /\ Program \subseteq ProgramType
    /\ NoPlan \notin ProgramType
    /\ MaxRetries \in Nat /\ MaxRefine \in Nat

\* What a step's run emits: full data, data that lacks the fields other steps
\* reference, a failure, a failure worth another try, one that is not to be
\* recovered from.
Outcome == {"ok", "thin", "failed", "transient", "fatal"}
Result == {"none", "ok", "thin", "failed", "transient"}
Successful == {"ok", "thin"}

Node == {"validate_input", "document_intent", "router", "planner", "direct_answer",
         "executor_dispatch", "capabilities", "merge_results", "generation",
         "validate_output", "refine", "post_process", "unanswered", "write_document",
         "execution_error", "escalate", "user_error", "end"}

VARIABLES
    node,      \* the node, or the wave of capabilities, that runs next
    plan,      \* the program that was accepted
    result,    \* what each step's last run emitted
    runs,      \* how often each step is in completed_capabilities
    fatal,     \* is there an unrecoverable entry in errors?
    running,   \* the steps of this wave that are not over
    wrote,     \* what the others emitted, applied when the wave is over
    draft,     \* who wrote draft_answer
    answered,  \* did the generator say it could answer?
    refined,   \* refine_count
    terminal   \* terminal_kind

vars == <<node, plan, result, runs, fatal, running, wrote, draft, answered, refined, terminal>>
execution == <<plan, result, runs, running, wrote>>
generated == <<draft, answered, refined, terminal>>

Init ==
    /\ node = "validate_input"
    /\ plan = NoPlan
    /\ result = [s \in Step |-> "none"]
    /\ runs = [s \in Step |-> 0]
    /\ fatal = FALSE
    /\ running = {}
    /\ wrote = [s \in Step |-> "none"]
    /\ draft = "none"
    /\ answered = TRUE
    /\ refined = 0
    /\ terminal = "none"

----------------------------------------------------------------------------
ValidateInput ==
    /\ node = "validate_input"
    /\ node' \in {"document_intent", "user_error"}
    /\ UNCHANGED <<execution, fatal, generated>>

(* Which document the request asked for: it never fails the run. *)
ChooseDocument ==
    /\ node = "document_intent"
    /\ node' = "router"
    /\ UNCHANGED <<execution, fatal, generated>>

Route ==
    /\ node = "router"
    /\ node' \in {"planner", "direct_answer"}
    /\ UNCHANGED <<execution, fatal, generated>>

----------------------------------------------------------------------------
Dependencies(p, s) == p.refs[s] \cup p.after[s]

\* Inapplicable steps are dropped, and pruned from `after` only: an argument
\* that references one would have no value.
Pruned(raw) ==
    [raw EXCEPT !.steps = raw.steps \ raw.inapplicable,
                !.after = [s \in Step |-> raw.after[s] \ raw.inapplicable]]

(* What Kahn's count decides: no set of steps wait for one another. *)
Acyclic(p) ==
    \A S \in SUBSET p.steps : S # {} => \E s \in S : Dependencies(p, s) \cap S = {}

\* Mutant: no check that the program can be put in an order.
AcceptedUnsorted(raw) ==
    /\ raw.steps # {}
    /\ \A s \in Pruned(raw).steps : Dependencies(Pruned(raw), s) \subseteq Pruned(raw).steps

(* _validate_plan: dependencies on steps that exist and apply, and no cycle. *)
Accepted(raw) ==
    /\ raw.steps # {}
    /\ \A s \in Pruned(raw).steps : Dependencies(Pruned(raw), s) \subseteq Pruned(raw).steps
    /\ Acyclic(Pruned(raw))

(* A plan with nothing left to run is answered directly; a refused one ends  *)
(* the run.                                                                  *)
MakePlan ==
    /\ node = "planner"
    /\ \E raw \in Program :
        \/ /\ Accepted(raw)
           /\ plan' = Pruned(raw)
           /\ node' = IF plan'.steps = {} THEN "direct_answer" ELSE "executor_dispatch"
           /\ UNCHANGED fatal
        \/ /\ ~Accepted(raw)
           /\ fatal' = TRUE
           /\ node' = "execution_error"
           /\ UNCHANGED plan
    /\ UNCHANGED <<result, runs, running, wrote, generated>>

----------------------------------------------------------------------------
(* _to_retry: failed, worth another try, and with tries left. *)
Retrying == {s \in Step : result[s] = "transient" /\ runs[s] <= MaxRetries}

(* _done: over for good, counting the steps a dispatch has just failed. *)
Done(failed) == ({s \in Step : runs[s] > 0} \ Retrying) \cup failed

\* Mutant: a step is ready once what it waits for has run, well or not.
ReadyOnceRun(failed) ==
    {s \in plan.steps \ Done(failed) :
        Dependencies(plan, s) \subseteq {d \in Step : runs[d] > 0} \cup failed}

Ready(failed) ==
    {s \in plan.steps \ Done(failed) : Dependencies(plan, s) \subseteq Done(failed)}

(* _arguments: a reference names a step with no successful result, or a      *)
(* field its result lacks; or the op refuses what the arguments resolve to.  *)
Refused(failed, s) ==
    \/ s \in plan.unfit
    \/ \E d \in plan.refs[s] : d \in failed \/ result[d] # "ok"

\* Mutant: the steps a failure makes ready are not looked at again.
FailedByOnePass(failed) == failed = {s \in Ready({}) : Refused({}, s)}

(* dispatch fails the ready steps whose arguments cannot be had, then the    *)
(* ones that became ready by it, until none is left: what it has failed is   *)
(* exactly what is waiting for nothing else and refused.  (Over an accepted  *)
(* plan one set is so, by its order.)                                        *)
FailedBy(failed) ==
    failed = {s \in plan.steps \ Done({}) :
                Dependencies(plan, s) \subseteq Done(failed) /\ Refused(failed, s)}

\* Mutant: the runs are counted, and not the steps.
WhereToByRuns(failed) ==
    IF fatal THEN "execution_error"
    ELSE IF Cardinality({s \in Step : runs[s] > 0} \cup failed) >= Cardinality(plan.steps)
    THEN "merge_results"
    ELSE IF Ready(failed) # {} THEN "capabilities" ELSE "execution_error"

(* route: nothing ready with steps left is the case that should not happen.  *)
WhereTo(failed) ==
    IF fatal THEN "execution_error"
    ELSE IF Cardinality(Done(failed)) >= Cardinality(plan.steps) THEN "merge_results"
    ELSE IF Ready(failed) # {} THEN "capabilities" ELSE "execution_error"

Dispatch ==
    /\ node = "executor_dispatch"
    /\ \E failed \in SUBSET plan.steps :
        /\ FailedBy(failed)
        /\ result' = [s \in Step |-> IF s \in failed THEN "failed" ELSE result[s]]
        /\ runs' = [s \in Step |-> IF s \in failed THEN runs[s] + 1 ELSE runs[s]]
        /\ node' = WhereTo(failed)
        /\ running' = IF node' = "capabilities" THEN Ready(failed) ELSE {}
    /\ UNCHANGED <<plan, wrote, fatal, generated>>

(* A capability's sub-graph is over: _emit_success or _emit_failure. *)
Emit(s, outcome) ==
    /\ node = "capabilities" /\ s \in running
    /\ wrote' = [wrote EXCEPT ![s] = outcome]
    /\ running' = running \ {s}
    /\ UNCHANGED <<node, plan, result, runs, fatal, generated>>

\* Mutant: a step hands back the completed steps it was sent, and its own.
GatherEcho ==
    /\ node = "capabilities" /\ running = {}
    /\ LET over == {s \in Step : wrote[s] # "none"} IN
        /\ result' = [s \in Step |-> IF s \notin over THEN result[s]
                                     ELSE IF wrote[s] = "fatal" THEN "failed" ELSE wrote[s]]
        /\ runs' = [s \in Step |-> runs[s] + Cardinality(over) * runs[s] + IF s \in over THEN 1 ELSE 0]
        /\ fatal' = (fatal \/ \E s \in over : wrote[s] = "fatal")
    /\ wrote' = [s \in Step |-> "none"]
    /\ node' = "executor_dispatch"
    /\ UNCHANGED <<plan, running, generated>>

(* The wave is over: results are merged, each run counted once.              *)
Gather ==
    /\ node = "capabilities" /\ running = {}
    /\ LET over == {s \in Step : wrote[s] # "none"} IN
        /\ result' = [s \in Step |-> IF s \notin over THEN result[s]
                                     ELSE IF wrote[s] = "fatal" THEN "failed" ELSE wrote[s]]
        /\ runs' = [s \in Step |-> IF s \in over THEN runs[s] + 1 ELSE runs[s]]
        /\ fatal' = (fatal \/ \E s \in over : wrote[s] = "fatal")
    /\ wrote' = [s \in Step |-> "none"]
    /\ node' = "executor_dispatch"
    /\ UNCHANGED <<plan, running, generated>>

----------------------------------------------------------------------------
MergeResults ==
    /\ node = "merge_results"
    /\ node' = "generation"
    /\ UNCHANGED <<execution, fatal, generated>>

(* A call to the model that is answered, or raises and is caught.            *)
Generation ==
    /\ node = "generation"
    /\ node' = "validate_output"
    /\ \/ draft' = "generated" /\ answered' \in BOOLEAN /\ UNCHANGED fatal
       \/ fatal' = TRUE /\ UNCHANGED <<draft, answered>>
    /\ UNCHANGED <<execution, refined, terminal>>

DirectAnswer ==
    /\ node = "direct_answer"
    /\ node' = "validate_output"
    /\ \/ draft' = "direct" /\ UNCHANGED fatal
       \/ fatal' = TRUE /\ UNCHANGED draft
    /\ UNCHANGED <<execution, answered, refined, terminal>>

\* Mutant: a refusal is consulted after the draft's validity.
AfterValidityFirst(valid) ==
    IF fatal THEN "execution_error"
    ELSE IF valid THEN "post_process"
    ELSE IF ~answered THEN "unanswered"
    ELSE IF refined >= MaxRefine THEN "execution_error" ELSE "refine"

(* _route_validate_output, whatever the rules say of the draft. *)
AfterValidation(valid) ==
    IF fatal THEN "execution_error"
    ELSE IF ~answered THEN "unanswered"
    ELSE IF valid THEN "post_process"
    ELSE IF refined >= MaxRefine THEN "execution_error" ELSE "refine"

ValidateOutput ==
    /\ node = "validate_output"
    /\ \E valid \in BOOLEAN : node' = AfterValidation(valid)
    /\ UNCHANGED <<execution, fatal, generated>>

\* Mutant: a refinement is not counted.
RefineUncounted ==
    /\ node = "refine"
    /\ node' = "generation"
    /\ \/ draft' = "refined" /\ UNCHANGED <<refined, fatal>>
       \/ fatal' = TRUE /\ UNCHANGED <<draft, refined>>
    /\ UNCHANGED <<execution, answered, terminal>>

Refine ==
    /\ node = "refine"
    /\ node' = "generation"
    /\ \/ draft' = "refined" /\ refined' = refined + 1 /\ UNCHANGED fatal
       \/ fatal' = TRUE /\ UNCHANGED <<draft, refined>>
    /\ UNCHANGED <<execution, answered, terminal>>

----------------------------------------------------------------------------
\* A terminal says what kind of ending the run reached.
Terminal(at, kind, next) ==
    /\ node = at
    /\ terminal' = kind
    /\ node' = next
    /\ UNCHANGED <<execution, fatal, draft, answered, refined>>

PostProcess == Terminal("post_process", "answer", "write_document")
Unanswered == Terminal("unanswered", "unanswered", "write_document")
Escalate == Terminal("escalate", "escalated", "end")
UserError == Terminal("user_error", "user_error", "end")

(* The document is written or not: an error of its own, never the run's. *)
WriteDocument ==
    /\ node = "write_document"
    /\ node' = "end"
    /\ UNCHANGED <<execution, fatal, generated>>

ExecutionError ==
    /\ node = "execution_error"
    /\ node' = IF \E s \in Step : result[s] \in Successful THEN "escalate" ELSE "user_error"
    /\ UNCHANGED <<execution, fatal, generated>>

----------------------------------------------------------------------------
Next ==
    \/ ValidateInput \/ ChooseDocument \/ Route \/ MakePlan
    \/ Dispatch \/ Gather \/ \E s \in Step, outcome \in Outcome : Emit(s, outcome)
    \/ MergeResults \/ Generation \/ DirectAnswer \/ ValidateOutput \/ Refine
    \/ PostProcess \/ Unanswered \/ WriteDocument
    \/ ExecutionError \/ Escalate \/ UserError

(* A run that is driven goes on: its nodes return. *)
Spec == Init /\ [][Next]_vars /\ WF_vars(Next)

----------------------------------------------------------------------------
\* Every variable holds a value of its kind, and a wave's writes are there
\* only during the wave (merge_results and the counters of state.py).
TypeOK ==
    /\ node \in Node
    /\ plan \in ProgramType \cup {NoPlan}
    /\ result \in [Step -> Result]
    /\ runs \in [Step -> Nat]
    /\ fatal \in BOOLEAN
    /\ running \subseteq Step
    /\ wrote \in [Step -> Outcome \cup {"none"}]
    /\ node # "capabilities" => running = {} /\ \A s \in Step : wrote[s] = "none"
    /\ draft \in {"none", "generated", "direct", "refined"}
    /\ answered \in BOOLEAN
    /\ refined \in 0..MaxRefine
    /\ terminal \in {"none", "answer", "unanswered", "escalated", "user_error"}

\* "route only ever Sends a step it can run" (executor.py, module docstring):
\* what a running step references has a result, with the field it names, and
\* its op accepts its arguments.  It rests on dispatch's loop having failed
\* every step that became ready by another's refusal.
OnlyWhatCanRun ==
    \A s \in running :
        /\ s \notin plan.unfit
        /\ \A d \in plan.refs[s] : result[d] = "ok"

\* No step runs more than max_step_retries times over, and no run reaches the
\* answer with a try left for a transient failure (_to_retry; issues 191, 194:
\* the count is read off a channel that sub-graphs write to).
RetriesAreSpent ==
    /\ \A s \in Step : runs[s] <= MaxRetries + 1
    /\ node = "merge_results" =>
        \A s \in Step : result[s] = "transient" => runs[s] = MaxRetries + 1

\* The answer is written when every step of the plan is over for good, well or
\* not: _all_done compares sizes, and not the steps themselves.
NothingLeftOut ==
    node = "merge_results" => plan.steps \subseteq Done({})

\* A run that says it answered did: it wrote a draft it did not declare a
\* refusal, nothing unrecoverable happened on the way, and if it had a plan
\* every step of it was over; a refusal is told as one; and a partial result
\* is escalated and never handed over as the user's mistake.
TerminalIsEarned ==
    /\ terminal \in {"answer", "unanswered"} =>
        /\ ~fatal /\ draft # "none"
        /\ answered <=> terminal = "answer"
        /\ plan # NoPlan => plan.steps \subseteq Done({})
    /\ terminal = "user_error" => \A s \in Step : result[s] \notin Successful

\* A result that a step was dispatched on stands: what it depends on is not
\* run again after it, so no step has worked from a result that was replaced
\* ("nothing that depends on it runs before it", executor.py, _done).
ResultsStand ==
    [][\A s, d \in Step :
        /\ plan # NoPlan /\ d \in Dependencies(plan, s)
        /\ runs[s] > 0 \/ s \in running
        => result'[d] = result[d] /\ d \notin running']_vars

\* "deadlock -- shouldn't happen" (executor.py, route): the executor gives up
\* only on an unrecoverable error, never because no step is ready with steps
\* left; it rests on what _validate_plan let through.
NeverStuck ==
    [][node = "executor_dispatch" /\ node' = "execution_error" => fatal]_vars

\* A refined draft is what the output rules then look at (generation.py,
\* "Refiner: LLM call to fix a rejected draft"): nothing is written over it
\* first.  The edge refine -> generation generates a new one.
RefinedIsJudged ==
    [][node = "generation" /\ draft = "refined" => draft' = "refined"]_vars

\* A run that is driven ends: waves, retries and refinements run out.
RunEnds == <>(node = "end")

============================================================================
