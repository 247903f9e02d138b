-------------------------- MODULE AgentGraphProofs --------------------------
(* What holds of AgentGraph whatever the steps, the programs and the bounds: *)
(* every one of its safety properties, from one inductive invariant; and     *)
(* what the suite and the probe, which look at a run from outside, say of it. *)
EXTENDS ScoredRun, FiniteSetTheorems, FunctionTheorems, TLAPS

\* Before there is a plan; while it is run; once it has been.
Early == {"validate_input", "document_intent", "router", "planner"}
Planned == {"executor_dispatch", "capabilities", "merge_results"}
Late == {"direct_answer", "merge_results", "generation", "validate_output", "refine",
         "post_process", "unanswered"}

\* A plan in the state was accepted.
PlanIsSound ==
    plan # NoPlan =>
        /\ Acyclic(plan)
        /\ \A s \in plan.steps : Dependencies(plan, s) \subseteq plan.steps

\* A step that ran is one of the plan's, what it depends on is over, it ran no
\* more often than it may, and only then has it a result.
Counted ==
    \A s \in Step :
        /\ runs[s] > 0 =>
            plan # NoPlan /\ s \in plan.steps /\ Dependencies(plan, s) \subseteq Done({})
        /\ result[s] # "none" <=> runs[s] > 0
        /\ runs[s] <= MaxRetries + 1

\* The steps of a wave are not over, and what they depend on is.
Waves ==
    \A s \in Step :
        s \in running \/ wrote[s] # "none" =>
            /\ plan # NoPlan /\ s \in plan.steps
            /\ s \notin Done({})
            /\ Dependencies(plan, s) \subseteq Done({})

\* What holds at each node.
Places ==
    /\ node \in Early => plan = NoPlan /\ \A s \in Step : runs[s] = 0
    /\ node \in Planned => plan # NoPlan
    /\ node \in Late /\ plan # NoPlan => plan.steps \subseteq Done({})
    /\ node = "refine" => refined < MaxRefine
    /\ node = "validate_output" /\ ~fatal => draft # "none"
    /\ node \in {"post_process", "unanswered"} =>
        ~fatal /\ draft # "none" /\ (answered <=> node = "post_process")
    /\ node = "user_error" => \A s \in Step : result[s] \notin Successful
    /\ terminal # "none" => node \in {"write_document", "end"}

IInv == TypeOK /\ PlanIsSound /\ Counted /\ Waves /\ Places /\ OnlyWhatCanRun /\ TerminalIsEarned

----------------------------------------------------------------------------
\* What is over stays over when a dispatch fails more steps.
LEMMA DoneGrows ==
    ASSUME NEW failed
    PROVE  Done(failed) = Done({}) \cup failed
    BY DEF Done

\* A sound plan with a step that is not over has one that is ready: the case
\* that route says should not happen does not.
LEMMA SomethingIsReady ==
    ASSUME PlanIsSound, plan # NoPlan, NEW failed, ~(plan.steps \subseteq Done(failed))
    PROVE  Ready(failed) # {}
<1> DEFINE Left == plan.steps \ Done(failed)
<1>1. Left \in SUBSET plan.steps /\ Left # {}
    OBVIOUS
<1>2. PICK s \in Left : Dependencies(plan, s) \cap Left = {}
    BY <1>1 DEF PlanIsSound, Acyclic
<1>3. Dependencies(plan, s) \subseteq plan.steps
    BY <1>2 DEF PlanIsSound
<1>4. s \in Ready(failed)
    BY <1>2, <1>3 DEF Ready
<1> QED BY <1>4

\* route compares sizes; over a plan's own steps, that compares the sets.
LEMMA SizesTell ==
    ASSUME IInv, plan # NoPlan, NEW failed \in SUBSET plan.steps
    PROVE  /\ Cardinality(Done(failed)) \in Nat /\ Cardinality(plan.steps) \in Nat
           /\ Cardinality(Done(failed)) >= Cardinality(plan.steps) <=> plan.steps \subseteq Done(failed)
<1>1. plan.steps \subseteq Step
    BY DEF IInv, TypeOK, ProgramType
<1>2. IsFiniteSet(plan.steps)
    BY <1>1, GraphAssumption, FS_Subset
<1>3. Done(failed) \subseteq plan.steps
    BY DEF Done, IInv, Counted
<1>4. IsFiniteSet(Done(failed)) /\ Cardinality(Done(failed)) <= Cardinality(plan.steps)
    BY <1>2, <1>3, FS_Subset
<1>5. Cardinality(plan.steps) = Cardinality(Done(failed)) => plan.steps = Done(failed)
    BY <1>2, <1>3, FS_Subset
<1>6. Cardinality(Done(failed)) \in Nat /\ Cardinality(plan.steps) \in Nat
    BY <1>2, <1>4, FS_CardinalityType
<1>7. plan.steps \subseteq Done(failed) => plan.steps = Done(failed)
    BY <1>3
<1> QED BY <1>4, <1>5, <1>6, <1>7

\* Where the executor goes, and what that says of the plan.
LEMMA WhereItGoes ==
    ASSUME IInv, plan # NoPlan, NEW failed \in SUBSET plan.steps
    PROVE  \/ fatal /\ WhereTo(failed) = "execution_error"
           \/ ~fatal /\ WhereTo(failed) = "merge_results" /\ plan.steps \subseteq Done(failed)
           \/ ~fatal /\ WhereTo(failed) = "capabilities"
<1>1. CASE fatal
    BY <1>1 DEF WhereTo
<1>2. CASE ~fatal /\ plan.steps \subseteq Done(failed)
  <2>1. Cardinality(Done(failed)) >= Cardinality(plan.steps)
      BY <1>2, SizesTell
  <2>2. ~(Cardinality(Done(failed)) < Cardinality(plan.steps))
      BY <2>1, SizesTell
  <2> QED BY <1>2, <2>1, <2>2 DEF WhereTo
<1>3. CASE ~fatal /\ ~(plan.steps \subseteq Done(failed))
  <2>1. ~(Cardinality(Done(failed)) >= Cardinality(plan.steps))
      BY <1>3, SizesTell
  <2>2. Cardinality(Done(failed)) < Cardinality(plan.steps)
      BY <2>1, SizesTell
  <2>3. Ready(failed) # {}
      BY <1>3, SomethingIsReady DEF IInv
  <2> QED BY <1>3, <2>1, <2>2, <2>3 DEF WhereTo
<1> QED BY <1>1, <1>2, <1>3

----------------------------------------------------------------------------
LEMMA InitIInv == Init => IInv
<1> SUFFICES ASSUME Init PROVE IInv
    OBVIOUS
<1>1. TypeOK
  <2>1. result \in [Step -> Result] /\ runs \in [Step -> Nat]
      BY DEF Init, Result
  <2>2. wrote \in [Step -> Outcome \cup {"none"}] /\ \A s \in Step : wrote[s] = "none"
      BY DEF Init
  <2>3. refined \in 0..MaxRefine
      BY GraphAssumption DEF Init
  <2> QED BY <2>1, <2>2, <2>3 DEF Init, TypeOK, Node
<1>2. PlanIsSound /\ Counted /\ Waves /\ OnlyWhatCanRun
    BY GraphAssumption DEF Init, PlanIsSound, Counted, Waves, OnlyWhatCanRun
<1>3. Places /\ TerminalIsEarned
    BY DEF Init, Places, TerminalIsEarned, Early, Planned, Late
<1> QED BY <1>1, <1>2, <1>3 DEF IInv

\* A node that leaves the execution alone leaves what is known of it.
LEMMA QuietStep ==
    ASSUME IInv, UNCHANGED execution
    PROVE  /\ PlanIsSound' /\ Counted' /\ Waves' /\ OnlyWhatCanRun'
           /\ Done({})' = Done({})
<1>1. Done({})' = Done({})
    BY DEF execution, Done, Retrying
<1>2. PlanIsSound'
    BY DEF execution, IInv, PlanIsSound, Acyclic, Dependencies
<1>3. Counted'
    BY <1>1 DEF execution, IInv, Counted, Dependencies
<1>4. Waves'
    BY <1>1 DEF execution, IInv, Waves, Dependencies
<1>5. OnlyWhatCanRun'
    BY DEF execution, IInv, OnlyWhatCanRun
<1> QED BY <1>1, <1>2, <1>3, <1>4, <1>5

LEMMA MakePlanIInv == IInv /\ MakePlan => IInv'
<1> SUFFICES ASSUME IInv, MakePlan PROVE IInv'
    OBVIOUS
<1>0. node = "planner" /\ plan = NoPlan /\ \A s \in Step : runs[s] = 0
    BY DEF MakePlan, IInv, Places, Early
<1>1. PICK raw \in Program :
        \/ /\ Accepted(raw)
           /\ plan' = Pruned(raw)
           /\ node' = IF plan'.steps = {} THEN "direct_answer" ELSE "executor_dispatch"
           /\ UNCHANGED fatal
        \/ /\ ~Accepted(raw)
           /\ fatal' = TRUE
           /\ node' = "execution_error"
           /\ UNCHANGED plan
    BY DEF MakePlan
<1>2. raw \in ProgramType
    BY GraphAssumption
<1>3. UNCHANGED <<result, runs, running, wrote, generated>>
    BY DEF MakePlan
<1>4. Pruned(raw) \in ProgramType
    BY <1>2 DEF Pruned, ProgramType
<1>5. plan' \in ProgramType \cup {NoPlan}
    BY <1>1, <1>4 DEF IInv, TypeOK
<1>6. running = {} /\ \A s \in Step : wrote[s] = "none"
    BY <1>0 DEF IInv, TypeOK
<1>7. TypeOK'
    BY <1>1, <1>3, <1>5, <1>6 DEF IInv, TypeOK, Node, generated
<1>8. PlanIsSound'
    BY <1>0, <1>1 DEF PlanIsSound, Accepted, Acyclic
<1>9. Counted'
    BY <1>0, <1>3 DEF IInv, Counted
<1>10. Waves' /\ OnlyWhatCanRun'
    BY <1>3, <1>6 DEF Waves, OnlyWhatCanRun
<1>11. terminal = "none"
    BY <1>0 DEF IInv, Places
<1>12. Places'
    BY <1>0, <1>1, <1>3, <1>4, <1>11, GraphAssumption
    DEF Places, Early, Planned, Late, generated
<1>13. TerminalIsEarned'
    BY <1>3, <1>11 DEF TerminalIsEarned, generated
<1> QED BY <1>7, <1>8, <1>9, <1>10, <1>12, <1>13 DEF IInv

\* What a dispatch fails, what that makes of Done, and what it sends.
LEMMA DispatchIInv == IInv /\ Dispatch => IInv'
<1> SUFFICES ASSUME IInv, Dispatch PROVE IInv'
    OBVIOUS
<1>0. node = "executor_dispatch" /\ plan # NoPlan /\ terminal = "none"
    BY DEF Dispatch, IInv, Places, Planned
<1>1. PICK failed \in SUBSET plan.steps :
        /\ FailedBy(failed)
        /\ result' = [s \in Step |-> IF s \in failed THEN "failed" ELSE result[s]]
        /\ runs' = [s \in Step |-> IF s \in failed THEN runs[s] + 1 ELSE runs[s]]
        /\ node' = WhereTo(failed)
        /\ running' = IF node' = "capabilities" THEN Ready(failed) ELSE {}
    BY DEF Dispatch
<1>2. UNCHANGED <<plan, wrote, fatal, generated>>
    BY DEF Dispatch
<1>3. plan.steps \subseteq Step /\ plan \in ProgramType
    BY <1>0 DEF IInv, TypeOK, ProgramType
<1>4. failed \cap Done({}) = {}
    BY <1>1 DEF FailedBy
<1>5. \A s \in failed : Dependencies(plan, s) \subseteq Done(failed)
    BY <1>1 DEF FailedBy
<1>6. \A s \in Step : wrote[s] = "none"
    BY <1>0 DEF IInv, TypeOK
<1>7. \/ fatal /\ node' = "execution_error"
      \/ ~fatal /\ node' = "merge_results" /\ plan.steps \subseteq Done(failed)
      \/ ~fatal /\ node' = "capabilities"
    BY <1>0, <1>1, WhereItGoes
<1>8. \A s \in Step : runs[s] \in Nat
    BY DEF IInv, TypeOK
<1>9. Done({})' = Done(failed)
    BY <1>1, <1>3, <1>8 DEF Done, Retrying
<1>10. Done({}) \subseteq Done(failed)
    BY DEF Done
<1>11. Ready(failed) \subseteq plan.steps \ Done(failed)
    BY DEF Ready
<1>12. \A s \in Step \ Done({}) : runs[s] <= MaxRetries
    BY <1>8, GraphAssumption DEF Done, Retrying
<1>13. TypeOK'
  <2>1. running' \subseteq Step /\ (node' # "capabilities" => running' = {})
      BY <1>1, <1>3, <1>11
  <2>2. result' \in [Step -> Result] /\ runs' \in [Step -> Nat]
      BY <1>1 DEF IInv, TypeOK, Result
  <2>3. node' \in Node
      BY <1>7 DEF Node
  <2> QED BY <1>2, <1>6, <2>1, <2>2, <2>3 DEF IInv, TypeOK, generated
<1>14. PlanIsSound'
    BY <1>2 DEF IInv, PlanIsSound, Acyclic, Dependencies
<1>15. Counted'
  <2> SUFFICES ASSUME NEW s \in Step
               PROVE  /\ runs'[s] > 0 => plan # NoPlan /\ s \in plan.steps
                                          /\ Dependencies(plan, s) \subseteq Done(failed)
                      /\ result'[s] # "none" <=> runs'[s] > 0
                      /\ runs'[s] <= MaxRetries + 1
      BY <1>2, <1>9 DEF Counted, Dependencies
  <2>1. CASE s \in failed
    <3>1. runs'[s] = runs[s] + 1
        BY <2>1, <1>1
    <3>2. runs[s] <= MaxRetries
        BY <2>1, <1>4, <1>12
    <3>3. runs'[s] > 0 /\ runs'[s] <= MaxRetries + 1
        BY <3>1, <3>2, <1>8, GraphAssumption
    <3>4. result'[s] # "none"
        BY <2>1, <1>1
    <3> QED BY <2>1, <1>0, <1>5, <3>3, <3>4
  <2>2. CASE s \notin failed
      BY <2>2, <1>1, <1>10 DEF IInv, Counted
  <2> QED BY <2>1, <2>2
<1>16. Waves'
  <2> SUFFICES ASSUME NEW s \in Step, s \in running'
               PROVE  s \in plan.steps /\ s \notin Done(failed)
                      /\ Dependencies(plan, s) \subseteq Done(failed)
      BY <1>0, <1>2, <1>6, <1>9 DEF Waves, Dependencies
  <2> QED BY <1>1 DEF Ready
<1>17. OnlyWhatCanRun'
  <2> SUFFICES ASSUME NEW s \in running'
               PROVE  s \notin plan.unfit /\ \A d \in plan.refs[s] : result'[d] = "ok"
      BY <1>2 DEF OnlyWhatCanRun
  <2>1. s \in Ready(failed) /\ s \in Step
      BY <1>1, <1>3, <1>11
  <2>2. s \notin failed /\ s \in plan.steps \ Done({})
      BY <2>1, <1>10 DEF Ready, Done
  <2>3. ~Refused(failed, s)
      BY <1>1, <2>1, <2>2 DEF FailedBy, Ready
  <2>4. plan.refs[s] \subseteq Step
      BY <2>1, <1>3 DEF ProgramType
  <2> QED BY <1>1, <2>3, <2>4 DEF Refused
<1>18. Places'
    BY <1>0, <1>2, <1>7, <1>9 DEF Places, Early, Planned, Late, generated
<1>19. TerminalIsEarned'
    BY <1>0, <1>2 DEF TerminalIsEarned, generated
<1> QED BY <1>13, <1>14, <1>15, <1>16, <1>17, <1>18, <1>19 DEF IInv

LEMMA EmitIInv ==
    ASSUME IInv, NEW s \in Step, NEW outcome \in Outcome, Emit(s, outcome)
    PROVE  IInv'
<1>0. node = "capabilities" /\ s \in running
    BY DEF Emit
<1>1. wrote' = [wrote EXCEPT ![s] = outcome] /\ running' = running \ {s}
    BY DEF Emit
<1>2. UNCHANGED <<node, plan, result, runs, fatal, generated>>
    BY DEF Emit
<1>3. TypeOK'
    BY <1>0, <1>1, <1>2 DEF IInv, TypeOK, generated
<1>4. Done({})' = Done({})
    BY <1>2 DEF Done, Retrying
<1>5. PlanIsSound'
    BY <1>2 DEF IInv, PlanIsSound, Acyclic, Dependencies
<1>6. Counted'
    BY <1>2, <1>4 DEF IInv, Counted, Dependencies
<1>7. \A t \in Step : t \in running' \/ wrote'[t] # "none" => t \in running \/ wrote[t] # "none"
    BY <1>0, <1>1 DEF IInv, TypeOK
<1>8. Waves'
    BY <1>2, <1>4, <1>7 DEF IInv, Waves, Dependencies
<1>9. OnlyWhatCanRun'
    BY <1>1, <1>2 DEF IInv, OnlyWhatCanRun
<1>10. Places'
    BY <1>2, <1>4 DEF IInv, Places, generated
<1>11. TerminalIsEarned'
    BY <1>2, <1>4 DEF IInv, TerminalIsEarned, generated
<1> QED BY <1>3, <1>5, <1>6, <1>8, <1>9, <1>10, <1>11 DEF IInv

\* Only steps that were not over get a new result, and a run counted.
LEMMA GatherIInv == IInv /\ Gather => IInv'
<1> SUFFICES ASSUME IInv, Gather PROVE IInv'
    OBVIOUS
<1> DEFINE Over == {s \in Step : wrote[s] # "none"}
<1>0. node = "capabilities" /\ running = {} /\ plan # NoPlan /\ terminal = "none"
    BY DEF Gather, IInv, Places, Planned
<1>1. /\ result' = [s \in Step |-> IF s \notin Over THEN result[s]
                                   ELSE IF wrote[s] = "fatal" THEN "failed" ELSE wrote[s]]
      /\ runs' = [s \in Step |-> IF s \in Over THEN runs[s] + 1 ELSE runs[s]]
    BY DEF Gather
<1>2. /\ fatal' \in BOOLEAN /\ wrote' = [s \in Step |-> "none"]
      /\ node' = "executor_dispatch" /\ UNCHANGED <<plan, running, generated>>
    BY DEF Gather, IInv, TypeOK
<1>3. \A s \in Step : runs[s] \in Nat
    BY DEF IInv, TypeOK
<1>4. Over \cap Done({}) = {}
    BY DEF IInv, Waves
<1>5. Done({}) \subseteq Done({})'
    BY <1>1, <1>4 DEF Done, Retrying
<1>6. \A s \in Step \ Done({}) : runs[s] <= MaxRetries
    BY <1>3, GraphAssumption DEF Done, Retrying
<1>7. TypeOK'
  <2>1. \A s \in Step : wrote[s] \in Outcome \cup {"none"} /\ result[s] \in Result
      BY DEF IInv, TypeOK
  <2>2. result' \in [Step -> Result]
      BY <1>1, <2>1 DEF Outcome, Result
  <2>3. runs' \in [Step -> Nat]
      BY <1>1, <1>3
  <2>4. running' = {} /\ node' \in Node
      BY <1>0, <1>2 DEF Node
  <2>5. wrote' \in [Step -> Outcome \cup {"none"}] /\ \A s \in Step : wrote'[s] = "none"
      BY <1>2
  <2> QED BY <1>2, <2>2, <2>3, <2>4, <2>5 DEF IInv, TypeOK, generated
<1>8. PlanIsSound'
    BY <1>2 DEF IInv, PlanIsSound, Acyclic, Dependencies
<1>9. Counted'
  <2> SUFFICES ASSUME NEW s \in Step
               PROVE  /\ runs'[s] > 0 => plan # NoPlan /\ s \in plan.steps
                                          /\ Dependencies(plan, s) \subseteq Done({})
                      /\ result'[s] # "none" <=> runs'[s] > 0
                      /\ runs'[s] <= MaxRetries + 1
      BY <1>2, <1>5 DEF Counted, Dependencies
  <2>1. CASE s \in Over
    <3>1. runs'[s] = runs[s] + 1 /\ runs[s] <= MaxRetries
        BY <2>1, <1>1, <1>4, <1>6
    <3>2. runs'[s] > 0 /\ runs'[s] <= MaxRetries + 1
        BY <3>1, <1>3, GraphAssumption
    <3>3. s \in plan.steps /\ Dependencies(plan, s) \subseteq Done({})
        BY <2>1 DEF IInv, Waves
    <3>4. result'[s] # "none"
        BY <2>1, <1>1
    <3> QED BY <1>0, <3>2, <3>3, <3>4
  <2>2. CASE s \notin Over
      BY <2>2, <1>1 DEF IInv, Counted
  <2> QED BY <2>1, <2>2
<1>10. Waves' /\ OnlyWhatCanRun'
    BY <1>0, <1>2 DEF Waves, OnlyWhatCanRun
<1>11. Places'
    BY <1>0, <1>2 DEF Places, Early, Planned, Late, generated
<1>12. TerminalIsEarned'
    BY <1>0, <1>2 DEF TerminalIsEarned, generated
<1> QED BY <1>7, <1>8, <1>9, <1>10, <1>11, <1>12 DEF IInv

\* The nodes that only look at the execution.
LEMMA QuietNodes ==
    ASSUME IInv,
           \/ ValidateInput \/ ChooseDocument \/ Route \/ MergeResults \/ Generation
           \/ DirectAnswer \/ ValidateOutput \/ Refine \/ PostProcess \/ Unanswered
           \/ WriteDocument \/ ExecutionError \/ Escalate \/ UserError
    PROVE  IInv'
<1> USE DEF generated
<1>1. UNCHANGED execution
    BY DEF ValidateInput, ChooseDocument, Route, MergeResults, Generation, DirectAnswer,
           ValidateOutput, Refine, PostProcess, Unanswered, WriteDocument, ExecutionError,
           Escalate, UserError, Terminal
<1>2. /\ PlanIsSound' /\ Counted' /\ Waves' /\ OnlyWhatCanRun'
      /\ Done({})' = Done({})
    BY <1>1, QuietStep
<1>3. SUFFICES TypeOK' /\ Places' /\ TerminalIsEarned'
    BY <1>2 DEF IInv
<1>4. UNCHANGED <<plan, result, runs, running, wrote>>
    BY <1>1 DEF execution
<1>5. node # "capabilities" /\ node' # "capabilities"
    BY DEF ValidateInput, ChooseDocument, Route, MergeResults, Generation, DirectAnswer,
           ValidateOutput, Refine, PostProcess, Unanswered, WriteDocument, ExecutionError,
           Escalate, UserError, Terminal, AfterValidation
<1>6. ASSUME node' \in Node, fatal' \in BOOLEAN,
             draft' \in {"none", "generated", "direct", "refined"}, answered' \in BOOLEAN,
             refined' \in 0..MaxRefine,
             terminal' \in {"none", "answer", "unanswered", "escalated", "user_error"}
      PROVE  TypeOK'
    BY <1>4, <1>5, <1>6 DEF IInv, TypeOK
<1>7. CASE ValidateInput
  <2>1. TypeOK'
      BY <1>6, <1>7 DEF ValidateInput, IInv, TypeOK, Node
  <2>2. \A s \in Step : result[s] = "none"
      BY <1>7 DEF ValidateInput, IInv, Places, Counted, Early
  <2>3. Places'
      BY <1>2, <1>4, <1>7, <2>2
      DEF ValidateInput, IInv, Places, Early, Planned, Late, Successful
  <2>4. TerminalIsEarned'
      BY <1>2, <1>4, <1>7 DEF ValidateInput, IInv, TerminalIsEarned
  <2> QED BY <2>1, <2>3, <2>4
<1>8. CASE ChooseDocument \/ Route
  <2>1. TypeOK'
      BY <1>6, <1>8 DEF ChooseDocument, Route, IInv, TypeOK, Node
  <2>2. Places'
      BY <1>2, <1>4, <1>8 DEF ChooseDocument, Route, IInv, Places, Early, Planned, Late
  <2>3. TerminalIsEarned'
      BY <1>2, <1>4, <1>8 DEF ChooseDocument, Route, IInv, TerminalIsEarned
  <2> QED BY <2>1, <2>2, <2>3
<1>9. CASE MergeResults \/ Generation \/ DirectAnswer
  <2>1. TypeOK'
      BY <1>6, <1>9 DEF MergeResults, Generation, DirectAnswer, IInv, TypeOK, Node
  <2>2. terminal = "none" /\ terminal' = "none"
      BY <1>9 DEF MergeResults, Generation, DirectAnswer, IInv, Places
  <2>3. Places'
      BY <1>2, <1>4, <1>9, <2>2
      DEF MergeResults, Generation, DirectAnswer, IInv, Places, Early, Planned, Late
  <2> QED BY <2>1, <2>2, <2>3 DEF TerminalIsEarned
<1>10. CASE ValidateOutput
  <2>1. PICK valid \in BOOLEAN : node' = AfterValidation(valid)
      BY <1>10 DEF ValidateOutput
  <2>2. node = "validate_output" /\ UNCHANGED <<fatal, draft, answered, refined, terminal>>
      BY <1>10 DEF ValidateOutput
  <2>3. TypeOK'
      BY <1>6, <2>1, <2>2 DEF AfterValidation, IInv, TypeOK, Node
  <2>4. terminal = "none"
      BY <2>2 DEF IInv, Places
  <2>5. MaxRefine \in Nat /\ refined \in 0..MaxRefine /\ answered \in BOOLEAN
      BY GraphAssumption DEF IInv, TypeOK
  <2>6. Places'
      BY <1>2, <1>4, <2>1, <2>2, <2>4, <2>5
      DEF AfterValidation, IInv, Places, Early, Planned, Late
  <2> QED BY <2>2, <2>3, <2>4, <2>6 DEF TerminalIsEarned
<1>11. CASE Refine
  <2>1. refined < MaxRefine /\ terminal = "none"
      BY <1>11 DEF Refine, IInv, Places
  <2>2. refined' \in 0..MaxRefine
      BY <1>11, <2>1, GraphAssumption DEF Refine, IInv, TypeOK
  <2>3. TypeOK'
      BY <1>6, <1>11, <2>2 DEF Refine, IInv, TypeOK, Node
  <2>4. Places'
      BY <1>2, <1>4, <1>11, <2>1 DEF Refine, IInv, Places, Early, Planned, Late
  <2> QED BY <1>11, <2>1, <2>3, <2>4 DEF Refine, TerminalIsEarned
<1>12. CASE PostProcess \/ Unanswered
  <2>1. TypeOK'
      BY <1>6, <1>12 DEF PostProcess, Unanswered, Terminal, IInv, TypeOK, Node
  <2>2. Places'
      BY <1>2, <1>4, <1>12
      DEF PostProcess, Unanswered, Terminal, IInv, Places, Early, Planned, Late
  <2>3. TerminalIsEarned'
      BY <1>2, <1>4, <1>12
      DEF PostProcess, Unanswered, Terminal, IInv, Places, Late, TerminalIsEarned
  <2> QED BY <2>1, <2>2, <2>3
<1>13. CASE WriteDocument
  <2>1. TypeOK'
      BY <1>6, <1>13 DEF WriteDocument, IInv, TypeOK, Node
  <2>2. Places'
      BY <1>2, <1>4, <1>13 DEF WriteDocument, IInv, Places, Early, Planned, Late
  <2>3. TerminalIsEarned'
      BY <1>2, <1>4, <1>13 DEF WriteDocument, IInv, TerminalIsEarned
  <2> QED BY <2>1, <2>2, <2>3
<1>14. CASE ExecutionError
  <2>1. TypeOK'
      BY <1>6, <1>14 DEF ExecutionError, IInv, TypeOK, Node
  <2>2. Places'
      BY <1>2, <1>4, <1>14 DEF ExecutionError, IInv, Places, Early, Planned, Late
  <2>3. TerminalIsEarned'
      BY <1>2, <1>4, <1>14 DEF ExecutionError, IInv, TerminalIsEarned
  <2> QED BY <2>1, <2>2, <2>3
<1>15. CASE Escalate \/ UserError
  <2>1. TypeOK'
      BY <1>6, <1>15 DEF Escalate, UserError, Terminal, IInv, TypeOK, Node
  <2>2. Places'
      BY <1>2, <1>4, <1>15
      DEF Escalate, UserError, Terminal, IInv, Places, Early, Planned, Late
  <2>3. TerminalIsEarned'
      BY <1>2, <1>4, <1>15 DEF Escalate, UserError, Terminal, IInv, Places, TerminalIsEarned
  <2> QED BY <2>1, <2>2, <2>3
<1> QED BY <1>7, <1>8, <1>9, <1>10, <1>11, <1>12, <1>13, <1>14, <1>15

LEMMA NextIInv == IInv /\ [Next]_vars => IInv'
<1> SUFFICES ASSUME IInv, [Next]_vars PROVE IInv'
    OBVIOUS
<1>1. CASE UNCHANGED vars
  <2>1. UNCHANGED execution /\ UNCHANGED <<node, fatal, draft, answered, refined, terminal>>
      BY <1>1 DEF vars, execution
  <2>2. PlanIsSound' /\ Counted' /\ Waves' /\ OnlyWhatCanRun' /\ Done({})' = Done({})
      BY <2>1, QuietStep
  <2>3. UNCHANGED <<plan, result, runs, running, wrote>>
      BY <2>1 DEF execution
  <2>4. TypeOK'
      BY <2>1, <2>3 DEF IInv, TypeOK
  <2>5. Places' /\ TerminalIsEarned'
      BY <2>1, <2>2, <2>3 DEF IInv, Places, TerminalIsEarned
  <2> QED BY <2>2, <2>4, <2>5 DEF IInv
<1>2. CASE MakePlan
    BY <1>2, MakePlanIInv
<1>3. CASE Dispatch
    BY <1>3, DispatchIInv
<1>4. CASE Gather
    BY <1>4, GatherIInv
<1>5. ASSUME NEW s \in Step, NEW outcome \in Outcome, Emit(s, outcome) PROVE IInv'
    BY <1>5, EmitIInv
<1>6. CASE \/ ValidateInput \/ ChooseDocument \/ Route \/ MergeResults \/ Generation
           \/ DirectAnswer \/ ValidateOutput \/ Refine \/ PostProcess \/ Unanswered
           \/ WriteDocument \/ ExecutionError \/ Escalate \/ UserError
    BY <1>6, QuietNodes
<1> QED BY <1>1, <1>2, <1>3, <1>4, <1>5, <1>6 DEF Next

LEMMA Invariance == Spec => []IInv
<1>1. Init => IInv
    BY InitIInv
<1>2. IInv /\ [Next]_vars => IInv'
    BY NextIInv
<1> QED BY <1>1, <1>2, PTL DEF Spec

\* The state of a run keeps its types, whatever was planned (state.py).
THEOREM RunTypeCorrect == Spec => []TypeOK
<1>1. IInv => TypeOK
    BY DEF IInv
<1> QED BY <1>1, Invariance, PTL

\* route only ever Sends a step whose arguments can be had (executor.py).
THEOREM SendsWhatCanRun == Spec => []OnlyWhatCanRun
<1>1. IInv => OnlyWhatCanRun
    BY DEF IInv
<1> QED BY <1>1, Invariance, PTL

\* A terminal says how the run ended (builder.py, _route_validate_output and
\* _route_execution_error).
THEOREM TerminalsAreEarned == Spec => []TerminalIsEarned
<1>1. IInv => TerminalIsEarned
    BY DEF IInv
<1> QED BY <1>1, Invariance, PTL

\* Comparing sizes, _all_done lets no step be left out.
THEOREM NoStepIsLeftOut == Spec => []NothingLeftOut
<1>1. IInv => NothingLeftOut
    BY DEF IInv, Places, Planned, Late, NothingLeftOut
<1> QED BY <1>1, Invariance, PTL

\* Retries are counted exactly: none beyond max_step_retries, and none unspent
\* when the answer is written (_to_retry).
THEOREM RetriesAreCounted == Spec => []RetriesAreSpent
<1>1. ASSUME IInv PROVE RetriesAreSpent
  <2>1. \A s \in Step : runs[s] <= MaxRetries + 1
      BY <1>1 DEF IInv, Counted
  <2>2. ASSUME node = "merge_results", NEW s \in Step, result[s] = "transient"
        PROVE  runs[s] = MaxRetries + 1
    <3>1. s \in Done({})
        BY <1>1, <2>2 DEF IInv, Places, Planned, Late, Counted
    <3>2. ~(runs[s] <= MaxRetries) /\ runs[s] \in Nat
        BY <1>1, <2>2, <3>1 DEF Done, Retrying, IInv, TypeOK
    <3> QED BY <2>1, <3>2, GraphAssumption
  <2> QED BY <2>1, <2>2 DEF RetriesAreSpent
<1> QED BY <1>1, Invariance, PTL

\* The executor's "deadlock" branch is never taken (executor.py, route).
THEOREM ExecutorNeverStuck == Spec => NeverStuck
<1>1. ASSUME IInv, [Next]_vars, node = "executor_dispatch", node' = "execution_error"
      PROVE  fatal
  <2>1. CASE Dispatch
    <3>1. plan # NoPlan
        BY <1>1 DEF IInv, Places, Planned
    <3>2. PICK failed \in SUBSET plan.steps : node' = WhereTo(failed)
        BY <2>1 DEF Dispatch
    <3> QED BY <1>1, <3>1, <3>2, WhereItGoes
  <2>2. CASE UNCHANGED vars
      BY <1>1, <2>2 DEF vars
  <2> QED BY <1>1, <2>1, <2>2
      DEF Next, ValidateInput, ChooseDocument, Route, MakePlan, Gather, Emit, MergeResults,
          Generation, DirectAnswer, ValidateOutput, Refine, PostProcess, Unanswered,
          WriteDocument, ExecutionError, Escalate, UserError, Terminal
<1>2. IInv /\ [Next]_vars => (node = "executor_dispatch" /\ node' = "execution_error" => fatal)
    BY <1>1
<1> QED BY <1>2, Invariance, PTL DEF Spec, NeverStuck

\* No step works from a result that is replaced later (executor.py, _done).
THEOREM ResultsAreFinal == Spec => ResultsStand
<1> DEFINE Used(s, d) == /\ plan # NoPlan /\ d \in Dependencies(plan, s)
                         /\ runs[s] > 0 \/ s \in running
           Stands == \A s, d \in Step : Used(s, d) => result'[d] = result[d] /\ d \notin running'
<1>1. ASSUME IInv, [Next]_vars, NEW s \in Step, NEW d \in Step, Used(s, d)
      PROVE  result'[d] = result[d] /\ d \notin running'
  <2>1. d \in Done({})
      BY <1>1 DEF IInv, Counted, Waves
  <2>2. d \notin running /\ wrote[d] = "none"
      BY <2>1, <1>1 DEF IInv, Waves
  <2>3. CASE Dispatch
    <3>1. PICK failed \in SUBSET plan.steps :
            /\ FailedBy(failed)
            /\ result' = [t \in Step |-> IF t \in failed THEN "failed" ELSE result[t]]
            /\ running' = IF node' = "capabilities" THEN Ready(failed) ELSE {}
        BY <2>3 DEF Dispatch
    <3>2. d \notin failed
        BY <2>1, <3>1 DEF FailedBy
    <3>3. d \notin Ready(failed)
        BY <2>1 DEF Ready, Done
    <3> QED BY <3>1, <3>2, <3>3
  <2>4. CASE Gather
      BY <2>2, <2>4 DEF Gather
  <2>5. ASSUME NEW t \in Step, NEW outcome \in Outcome, Emit(t, outcome)
        PROVE  result'[d] = result[d] /\ d \notin running'
      BY <2>2, <2>5 DEF Emit
  <2>6. CASE UNCHANGED vars
      BY <2>2, <2>6 DEF vars
  <2> QED BY <1>1, <2>2, <2>3, <2>4, <2>5, <2>6
      DEF Next, execution, ValidateInput, ChooseDocument, Route, MakePlan, MergeResults,
          Generation, DirectAnswer, ValidateOutput, Refine, PostProcess, Unanswered,
          WriteDocument, ExecutionError, Escalate, UserError, Terminal
<1>2. IInv /\ [Next]_vars => Stands
    BY <1>1
<1> QED BY <1>2, Invariance, PTL DEF Spec, ResultsStand

----------------------------------------------------------------------------
(* Rounds.  The suite and the probe count as Kahn did: a fold over a list    *)
(* that adds to a set what the set allows, a round for each entry.           *)

\* What induction on a finite set comes to: a smallest one of some subsets ...
LEMMA Smallest ==
    ASSUME NEW U, IsFiniteSet(U), NEW Some \in SUBSET SUBSET U, Some # {}
    PROVE  \E T \in Some : \A V \in Some : V \subseteq T => V = T
<1> DEFINE Order == StrictSubsetOrdering(U)
           Finite == FiniteSubsetsOf(U)
<1>1. IsWellFoundedOn(Order, Finite)
    BY FS_StrictSubsetOrderingWellFounded
<1>2. Some \subseteq Finite
    BY FS_Subset DEF FiniteSubsetsOf
<1>3. PICK T \in Some : \A V \in Some : ~ (<<V, T>> \in Order)
    <2> HIDE DEF Order, Finite
    <2> QED BY <1>1, <1>2, WFMin
<1>4. ASSUME NEW V \in Some, V \subseteq T, V # T PROVE FALSE
    BY <1>3, <1>4 DEF StrictSubsetOrdering
<1> QED BY <1>4

\* ... and on numbers, a least one.
LEMMA Least ==
    ASSUME NEW n \in Nat, NEW Some \in SUBSET (0..n), Some # {}
    PROVE  \E k \in Some : \A j \in Some : k <= j
<1> DEFINE Below(k) == {j \in Some : j < k}
           Cuts == {Below(k) : k \in Some}
           All == 0..n
<1>1. IsFiniteSet(All)
    BY FS_Interval
<1>2. Some \subseteq All /\ Some \subseteq Int
    OBVIOUS
<1>3. Cuts \in SUBSET SUBSET All /\ Cuts # {}
    <2> HIDE DEF All
    <2> QED BY <1>2
<1>4. PICK T \in Cuts : \A V \in Cuts : V \subseteq T => V = T
    <2> HIDE DEF Cuts, All
    <2> QED BY <1>1, <1>3, Smallest
<1>5. PICK k \in Some : T = Below(k)
    OBVIOUS
<1>6. ASSUME NEW j \in Some, j < k PROVE FALSE
  <2>1. Below(j) \in Cuts
      OBVIOUS
  <2>2. \A i \in Below(j) : i \in T
      BY <1>2, <1>5, <1>6
  <2>3. j \in T /\ j \notin Below(j)
      BY <1>2, <1>5, <1>6
  <2> HIDE DEF Cuts, Below
  <2> QED BY <1>4, <2>1, <2>2, <2>3
<1>7. \A j \in Some : ~(j < k) => k <= j
    BY <1>2
<1> QED BY <1>6, <1>7

\* The last of some places is one of them.
LEMMA TheLast ==
    ASSUME NEW n \in Nat, NEW T \in SUBSET (1..n), T # {}
    PROVE  Max(T) \in T /\ \A j \in T : Max(T) >= j
<1> DEFINE Back == {i \in 0..n : n - i \in T}
<1>1. \A k \in T : k \in Int /\ n - k \in Back /\ n - (n - k) = k
    OBVIOUS
<1>2. Back \in SUBSET (0..n) /\ Back # {}
    BY <1>1
<1>3. PICK b \in Back : \A j \in Back : b <= j
    <2> HIDE DEF Back
    <2> QED BY <1>2, Least
<1>4. n - b \in T /\ b \in Int
    OBVIOUS
<1>5. \A j \in T : n - b >= j
  <2> SUFFICES ASSUME NEW j \in T PROVE n - b >= j
      OBVIOUS
  <2>1. b <= n - j /\ j \in Int
      BY <1>1, <1>3
  <2> QED BY <1>4, <2>1
<1> HIDE DEF Back
<1> QED BY <1>4, <1>5 DEF Max

LEMMA TheLastOfAll ==
    ASSUME NEW n \in Nat, NEW k \in 1..n
    PROVE  /\ 1..k \in SUBSET (1..n) /\ 1..k # {}
           /\ Max(1..k) = k /\ (1..k) \ {k} = 1..(k - 1)
<1>1. k \in Nat /\ 1..k \in SUBSET (1..k) /\ k \in 1..k
    OBVIOUS
<1>2. 1..k # {}
    BY <1>1
<1>3. Max(1..k) \in 1..k /\ \A j \in 1..k : Max(1..k) >= j
  <2> DEFINE T == 1..k
  <2>1. T \in SUBSET (1..k) /\ T # {}
      BY <1>1
  <2> HIDE DEF T
  <2>2. Max(T) \in T /\ \A j \in T : Max(T) >= j
      BY <1>1, <2>1, TheLast
  <2> QED BY <2>2 DEF T
<1> QED BY <1>1, <1>2, <1>3

\* SetToSeq lists a set: all of it, each element once.
LEMMA Listed ==
    ASSUME NEW T, IsFiniteSet(T)
    PROVE  LET order == SetToSeq(T)
               n == Cardinality(T)
           IN  /\ n \in Nat
               /\ order \in [1..n -> T]
               /\ \A i, j \in 1..n : order[i] = order[j] => i = j
               /\ \A t \in T : \E i \in 1..n : order[i] = t
<1> DEFINE n == Cardinality(T)
           order == SetToSeq(T)
<1>1. n \in Nat /\ ExistsBijection(1..n, T)
    BY FS_CardinalityType
<1>2. PICK g \in Bijection(1..n, T) : TRUE
    BY <1>1 DEF ExistsBijection
<1>3. g \in [1..n -> T] /\ IsInjective(g)
    BY <1>2 DEF Bijection, Injection, IsInjective
<1>4. order \in [1..n -> T] /\ IsInjective(order)
    BY <1>3 DEF SetToSeq
<1> HIDE DEF order
<1>5. order \in Injection(1..n, T)
    BY <1>4 DEF Injection, IsInjective
<1>6. IsFiniteSet(1..n) /\ Cardinality(1..n) = n
    BY <1>1, FS_Interval
<1> HIDE DEF n
<1>7. order \in Surjection(1..n, T)
    BY <1>5, <1>6, FS_Injection DEF n
<1> QED BY <1>1, <1>4, <1>7 DEF n, order, Surjection, IsInjective

\* What a set is after each of n rounds of G.
Rounds(f, n, base, G) ==
    /\ f[0] = base
    /\ \A k \in 1..n : f[k] = G[f[k - 1]]

LEMMA RoundsExist ==
    ASSUME NEW D, NEW base \in D, NEW G \in [D -> D], NEW n \in Nat
    PROVE  \E f \in [0..n -> D] : Rounds(f, n, base, G)
<1> DEFINE Some == {k \in 0..n : ~ \E f \in [0..k -> D] : Rounds(f, k, base, G)}
<1>1. SUFFICES ASSUME Some # {} PROVE FALSE
    OBVIOUS
<1>2. PICK k \in Some : \A j \in Some : k <= j
  <2>1. Some \in SUBSET (0..n)
      OBVIOUS
  <2> HIDE DEF Some
  <2> QED BY <1>1, <2>1, Least
<1>3. k \in Nat /\ k <= n
    OBVIOUS
<1>4. k # 0
  <2>1. [i \in 0..0 |-> base] \in [0..0 -> D] /\ Rounds([i \in 0..0 |-> base], 0, base, G)
      BY DEF Rounds
  <2> QED BY <2>1
<1>5. k - 1 \in 0..n /\ k - 1 \notin Some
    BY <1>2, <1>3, <1>4
<1>6. PICK f \in [0..(k - 1) -> D] : Rounds(f, k - 1, base, G)
    BY <1>5
<1> DEFINE g == [i \in 0..k |-> IF i = k THEN G[f[k - 1]] ELSE f[i]]
<1>7. g \in [0..k -> D]
  <2>1. \A i \in 0..k : i # k => i \in 0..(k - 1)
      BY <1>3
  <2>2. f[k - 1] \in D
      BY <1>3, <1>4
  <2> QED BY <2>1, <2>2
<1>8. Rounds(g, k, base, G)
  <2>1. g[0] = base
      BY <1>3, <1>4, <1>6 DEF Rounds
  <2>2. ASSUME NEW i \in 1..k PROVE g[i] = G[g[i - 1]]
    <3>1. i - 1 \in 0..(k - 1) /\ g[i - 1] = f[i - 1]
        BY <1>3
    <3>2. CASE i = k
        BY <3>1, <3>2
    <3>3. CASE i # k
      <4>1. i \in 1..(k - 1) /\ i \in 0..k
          BY <3>3, <1>3
      <4> QED BY <3>1, <3>3, <4>1, <1>6 DEF Rounds
    <3> QED BY <3>2, <3>3
  <2> HIDE DEF g
  <2> QED BY <2>1, <2>2 DEF Rounds
<1> HIDE DEF g
<1> QED BY <1>3, <1>7, <1>8

\* A fold goes through the places of a list by taking the last one off.  There
\* is a function that does so, ...
Folds(iter, n, base, G) ==
    \A T \in SUBSET (1..n) :
        /\ T = {} => iter[T] = base
        /\ T # {} => T \ {Max(T)} \in SUBSET (1..n) /\ iter[T] = G[iter[T \ {Max(T)}]]

LEMMA FoldExists ==
    ASSUME NEW D, NEW base \in D, NEW G \in [D -> D], NEW n \in Nat
    PROVE  \E iter \in [SUBSET (1..n) -> D] : Folds(iter, n, base, G)
<1>1. PICK f \in [0..n -> D] : Rounds(f, n, base, G)
    BY RoundsExist
<1> DEFINE iter == [T \in SUBSET (1..n) |-> f[Cardinality(T)]]
<1>2. IsFiniteSet(1..n) /\ Cardinality(1..n) = n
    BY FS_Interval
<1>3. ASSUME NEW T \in SUBSET (1..n)
      PROVE  IsFiniteSet(T) /\ Cardinality(T) \in 0..n
  <2> DEFINE All == 1..n
  <2>1. IsFiniteSet(All) /\ Cardinality(All) = n /\ T \in SUBSET All
      BY <1>2
  <2> HIDE DEF All
  <2>2. IsFiniteSet(T) /\ Cardinality(T) <= n
      BY <2>1, FS_Subset
  <2>3. Cardinality(T) \in Nat
      BY <2>2, FS_CardinalityType
  <2> QED BY <2>2, <2>3
<1>4. iter \in [SUBSET (1..n) -> D]
    BY <1>3
<1>5. iter[{}] = base
  <2>1. Cardinality({}) = 0
      BY FS_EmptySet
  <2> QED BY <1>1, <2>1 DEF Rounds
<1>6. ASSUME NEW T \in SUBSET (1..n), T # {}
      PROVE  T \ {Max(T)} \in SUBSET (1..n) /\ iter[T] = G[iter[T \ {Max(T)}]]
  <2> DEFINE k == Cardinality(T)
             V == T \ {Max(T)}
  <2>1. Max(T) \in T
      BY <1>6, TheLast
  <2>2. k \in 0..n /\ Cardinality(V) = k - 1
      BY <1>3, <2>1, FS_RemoveElement
  <2>3. k # 0
      BY <1>3, <1>6, FS_EmptySet
  <2>4. k \in 1..n
      BY <2>2, <2>3
  <2>5. f[k] = G[f[k - 1]]
      BY <1>1, <2>4 DEF Rounds
  <2>6. V \in SUBSET (1..n)
      OBVIOUS
  <2>7. iter[V] = f[k - 1] /\ iter[T] = f[k]
      BY <2>2, <2>6
  <2> QED BY <2>5, <2>6, <2>7
<1> HIDE DEF iter
<1> QED BY <1>4, <1>5, <1>6 DEF Folds

\* ... and whichever does goes through the rounds.
Follows(iter, n, D, G) ==
    \A k \in 1..n : iter[1..(k - 1)] \in D => iter[1..k] = G[iter[1..(k - 1)]]

LEMMA FoldIsRounds ==
    ASSUME NEW D, NEW base \in D, NEW G \in [D -> D], NEW n \in Nat, NEW iter,
           iter[{}] = base, Follows(iter, n, D, G)
    PROVE  \E f \in [0..n -> D] : Rounds(f, n, base, G) /\ iter[1..n] = f[n]
<1> DEFINE f == [k \in 0..n |-> iter[1..k]]
           Some == {k \in 0..n : f[k] \notin D}
<1>1. 1..0 = {}
    OBVIOUS
<1>2. f[0] = base
    BY <1>1
<1>3. ASSUME NEW k \in 1..n, f[k - 1] \in D PROVE f[k] = G[f[k - 1]]
  <2>1. f[k] = iter[1..k] /\ f[k - 1] = iter[1..(k - 1)]
      OBVIOUS
  <2> QED BY <1>3, <2>1 DEF Follows
<1>4. f[n] = iter[1..n]
    OBVIOUS
<1>5. f = [k \in 0..n |-> f[k]]
    OBVIOUS
<1> HIDE DEF f
<1>6. Some = {}
  <2> SUFFICES ASSUME Some # {} PROVE FALSE
      OBVIOUS
  <2>1. PICK k \in Some : \A j \in Some : k <= j
    <3>1. Some \in SUBSET (0..n)
        OBVIOUS
    <3> HIDE DEF Some
    <3> QED BY <3>1, Least
  <2>2. k # 0 /\ k \in 1..n
      BY <1>2
  <2>3. k - 1 \in 0..n /\ k - 1 \notin Some
      BY <2>1, <2>2
  <2>4. f[k] = G[f[k - 1]] /\ f[k - 1] \in D
      BY <1>3, <2>2, <2>3
  <2> QED BY <2>4
<1>7. f \in [0..n -> D]
    BY <1>5, <1>6
<1>8. \A k \in 1..n : f[k] = G[f[k - 1]]
  <2> SUFFICES ASSUME NEW k \in 1..n PROVE f[k] = G[f[k - 1]]
      OBVIOUS
  <2>1. k - 1 \in 0..n
      OBVIOUS
  <2> QED BY <1>3, <1>7, <2>1
<1> QED BY <1>2, <1>4, <1>7, <1>8 DEF Rounds

\* Rounds on the subsets of X.
RoundsOf(X, f, n, base, G) ==
    /\ base \in SUBSET X
    /\ f \in [0..n -> SUBSET X]
    /\ Rounds(f, n, base, G)

\* What a set that is reached met first, it met in some round.
LEMMA FirstMeeting ==
    ASSUME NEW X, NEW base, NEW G, NEW n \in Nat, NEW f, RoundsOf(X, f, n, base, G),
           NEW T, base \cap T = {}, f[n] \cap T # {}
    PROVE  \E k \in 1..n : f[k - 1] \cap T = {} /\ f[k] \cap T # {}
<1> DEFINE Some == {k \in 0..n : f[k] \cap T # {}}
<1>1. Some \in SUBSET (0..n) /\ n \in Some
    OBVIOUS
<1>2. PICK k \in Some : \A j \in Some : k <= j
  <2> HIDE DEF Some
  <2> QED BY <1>1, Least
<1>3. k # 0 /\ k \in 1..n
    BY DEF Rounds, RoundsOf
<1>4. k - 1 \in 0..n /\ k - 1 \notin Some
    BY <1>2, <1>3
<1> QED BY <1>3, <1>4

\* Rounds that only add: what a round reached stays ...
Adds(G, X) ==
    /\ G \in [SUBSET X -> SUBSET X]
    /\ \A v \in SUBSET X : v \subseteq G[v]

LEMMA RoundsGrow ==
    ASSUME NEW X, NEW base, NEW G, Adds(G, X), NEW n \in Nat, NEW f, RoundsOf(X, f, n, base, G)
    PROVE  \A i, j \in 0..n : i <= j => f[i] \subseteq f[j]
<1> USE DEF Adds, RoundsOf
<1> SUFFICES ASSUME NEW i \in 0..n,
                    {j \in 0..n : i <= j /\ ~(f[i] \subseteq f[j])} # {}
             PROVE  FALSE
    OBVIOUS
<1> DEFINE Some == {j \in 0..n : i <= j /\ ~(f[i] \subseteq f[j])}
<1>1. PICK j \in Some : \A k \in Some : j <= k
  <2>1. Some \in SUBSET (0..n) /\ Some # {}
      OBVIOUS
  <2> HIDE DEF Some
  <2> QED BY <2>1, Least
<1>2. j # i /\ j \in 1..n /\ j - 1 \in 0..n /\ i <= j - 1
    OBVIOUS
<1>3. f[i] \subseteq f[j - 1]
    BY <1>1, <1>2
<1>4. f[j] = G[f[j - 1]] /\ f[j - 1] \in SUBSET X
    BY <1>2 DEF Rounds
<1> QED BY <1>3, <1>4 DEF Adds

\* ... and when there are as many as elements, the last adds nothing.
LEMMA RoundsSettle ==
    ASSUME NEW X, IsFiniteSet(X), NEW base, NEW G, Adds(G, X),
           NEW n \in Nat, Cardinality(X) <= n, NEW f, RoundsOf(X, f, n, base, G)
    PROVE  G[f[n]] = f[n]
<1> SUFFICES ASSUME G[f[n]] # f[n] PROVE FALSE
    OBVIOUS
<1> USE DEF Adds, RoundsOf
<1>0. Cardinality(X) \in Nat
    BY FS_CardinalityType
<1>1. \A v \in SUBSET X : IsFiniteSet(v) /\ Cardinality(v) \in Nat /\ Cardinality(v) <= Cardinality(X)
    BY FS_Subset, FS_CardinalityType
<1>2. \A k \in 0..n : G[f[k]] # f[k]
  <2> SUFFICES ASSUME NEW k \in 0..n, G[f[k]] = f[k] PROVE FALSE
      OBVIOUS
  <2> DEFINE Some == {j \in 0..n : k <= j /\ f[j] # f[k]}
  <2>1. n \in Some
      OBVIOUS
  <2>2. PICK j \in Some : \A i \in Some : j <= i
    <3>1. Some \in SUBSET (0..n) /\ Some # {}
        BY <2>1
    <3> HIDE DEF Some
    <3> QED BY <3>1, Least
  <2>3. j # k /\ j \in 1..n /\ j - 1 \in 0..n /\ k <= j - 1
      OBVIOUS
  <2>4. f[j - 1] = f[k]
      BY <2>2, <2>3
  <2>5. f[j] = G[f[j - 1]]
      BY <2>3 DEF Rounds
  <2> QED BY <2>4, <2>5
<1>3. \A v \in SUBSET X : G[v] # v => Cardinality(G[v]) > Cardinality(v)
  <2> SUFFICES ASSUME NEW v \in SUBSET X, G[v] # v PROVE Cardinality(G[v]) > Cardinality(v)
      OBVIOUS
  <2>1. v \in SUBSET G[v] /\ IsFiniteSet(G[v]) /\ Cardinality(G[v]) \in Nat /\ Cardinality(v) \in Nat
      BY <1>1 DEF Adds
  <2>2. Cardinality(v) <= Cardinality(G[v]) /\ (Cardinality(G[v]) = Cardinality(v) => G[v] = v)
      BY <2>1, FS_Subset
  <2> QED BY <2>1, <2>2
<1> DEFINE Low == {k \in 0..n : Cardinality(f[k]) < k}
<1>4. Low = {}
  <2> SUFFICES ASSUME Low # {} PROVE FALSE
      OBVIOUS
  <2>1. PICK k \in Low : \A j \in Low : k <= j
    <3>1. Low \in SUBSET (0..n)
        OBVIOUS
    <3> HIDE DEF Low
    <3> QED BY <3>1, Least
  <2>2. f[k] \in SUBSET X /\ Cardinality(f[k]) \in Nat /\ Cardinality(f[k]) < k
      BY <1>1
  <2>3. k \in 1..n /\ k - 1 \in 0..n
      BY <2>2
  <2>4. f[k] = G[f[k - 1]] /\ f[k - 1] \in SUBSET X
      BY <2>3 DEF Rounds
  <2>5. Cardinality(f[k]) > Cardinality(f[k - 1]) /\ Cardinality(f[k - 1]) \in Nat
      BY <1>1, <1>2, <1>3, <2>3, <2>4
  <2>6. k - 1 \notin Low
      BY <2>1, <2>3
  <2>7. ~(Cardinality(f[k - 1]) < k - 1)
      BY <2>3, <2>6
  <2> QED BY <2>2, <2>5, <2>7
<1>5. n \in 0..n /\ f[n] \in SUBSET X /\ G[f[n]] \in SUBSET X
    OBVIOUS
<1>6. ~(Cardinality(f[n]) < n)
    BY <1>4, <1>5
<1>7. Cardinality(G[f[n]]) > Cardinality(f[n])
    BY <1>3, <1>5
<1> QED BY <1>0, <1>1, <1>5, <1>6, <1>7

\* plan_acyclic: a step that waits for nothing unvisited is visited.
Unblocked(obs, v) ==
    {m \in S!Planned(obs) : \A t \in S!ToSet(obs.steps) :
        t.capability = m => t.depends \cap S!Planned(obs) \subseteq v}

LEMMA VisitedRounds ==
    ASSUME NEW obs, NEW n \in Nat, DOMAIN obs.steps = 1..n
    PROVE  \E G \in [SUBSET S!Planned(obs) -> SUBSET S!Planned(obs)], f \in [0..n -> SUBSET S!Planned(obs)] :
             /\ \A v \in SUBSET S!Planned(obs) : G[v] = v \cup Unblocked(obs, v)
             /\ Rounds(f, n, {}, G)
             /\ S!Visited(obs) = f[n]
<1> DEFINE X == S!Planned(obs)
           E == SUBSET X
           base == {}
           Free(v) == Unblocked(obs, v)
           G == [v \in E |-> v \cup Free(v)]
           Body(it) == [T \in SUBSET (DOMAIN obs.steps) |->
                          IF T = {} THEN base ELSE LET x == Max(T) IN it[T \ {x}] \cup Free(it[T \ {x}])]
           c == CHOOSE it : it = Body(it)
<1>1. S!Visited(obs) = c[DOMAIN obs.steps]
    BY Zenon DEF S!Visited, S!FoldLeft, S!MapThenFoldSet, S!Max, Max, Unblocked
<1>2. base \in E /\ \A v \in E : Free(v) \in E
    BY DEF Unblocked
<1> HIDE DEF X, E, base, Free
<1>3. G \in [E -> E] /\ \A v \in E : G[v] = v \cup Free(v)
    BY <1>2 DEF E
<1> HIDE DEF G
<1>4. \E it : it = Body(it)
  <2>1. PICK it \in [SUBSET (1..n) -> E] : Folds(it, n, base, G)
      BY <1>2, <1>3, FoldExists
  <2>2. ASSUME NEW T \in SUBSET (1..n)
        PROVE  it[T] = IF T = {} THEN base ELSE it[T \ {Max(T)}] \cup Free(it[T \ {Max(T)}])
      BY <1>3, <2>1 DEF Folds
  <2>3. it = [T \in SUBSET (1..n) |-> it[T]]
      BY <2>1
  <2>4. it = Body(it)
      BY <2>2, <2>3
  <2> QED BY <2>4
<1>5. c = Body(c)
  <2> HIDE DEF Body
  <2> QED BY <1>4
<1> HIDE DEF c
<1>6. PICK d : d = c
    OBVIOUS
<1>7. d = Body(d)
    BY <1>5, <1>6
<1>8. d[{}] = base
    BY <1>7
<1>9. Follows(d, n, E, G)
  <2> SUFFICES ASSUME NEW k \in 1..n, d[1..(k - 1)] \in E PROVE d[1..k] = G[d[1..(k - 1)]]
      BY DEF Follows
  <2>1. /\ 1..k \in SUBSET (1..n) /\ 1..k # {}
        /\ Max(1..k) = k /\ (1..k) \ {k} = 1..(k - 1)
      BY TheLastOfAll
  <2>2. d[1..k] = d[(1..k) \ {Max(1..k)}] \cup Free(d[(1..k) \ {Max(1..k)}])
      BY <1>7, <2>1
  <2> QED BY <1>3, <2>1, <2>2
<1> HIDE DEF Body
<1>10. \E f \in [0..n -> E] : Rounds(f, n, base, G) /\ d[1..n] = f[n]
  <2>1. base \in E /\ G \in [E -> E]
      BY <1>2, <1>3
  <2> QED BY <2>1, <1>8, <1>9, FoldIsRounds
<1> QED BY <1>1, <1>3, <1>6, <1>10 DEF X, E, base, Free

\* The probe's sort, of a program.
Sortable(steps, v) ==
    {id \in S!Ids(steps) : S!WaitsFor(steps, id) \cap S!Ids(steps) \subseteq v}

LEMMA CyclicRounds ==
    ASSUME NEW steps, NEW n \in Nat, DOMAIN steps = 1..n
    PROVE  \E G \in [SUBSET S!Ids(steps) -> SUBSET S!Ids(steps)], f \in [0..n -> SUBSET S!Ids(steps)] :
             /\ \A v \in SUBSET S!Ids(steps) : G[v] = v \cup Sortable(steps, v)
             /\ Rounds(f, n, {}, G)
             /\ S!Cyclic(steps) = (f[n] # S!Ids(steps))
<1> DEFINE X == S!Ids(steps)
           E == SUBSET X
           base == {}
           Free(v) == Sortable(steps, v)
           G == [v \in E |-> v \cup Free(v)]
           Body(it) == [T \in SUBSET (DOMAIN steps) |->
                          IF T = {} THEN base ELSE LET x == Max(T) IN it[T \ {x}] \cup Free(it[T \ {x}])]
           c == CHOOSE it : it = Body(it)
<1>1. S!Cyclic(steps) = (c[DOMAIN steps] # S!Ids(steps))
    BY Zenon DEF S!Cyclic, S!FoldLeft, S!MapThenFoldSet, S!Max, Max, Sortable
<1>2. base \in E /\ \A v \in E : Free(v) \in E
    BY DEF Sortable
<1> HIDE DEF X, E, base, Free
<1>3. G \in [E -> E] /\ \A v \in E : G[v] = v \cup Free(v)
    BY <1>2 DEF E
<1> HIDE DEF G
<1>4. \E it : it = Body(it)
  <2>1. PICK it \in [SUBSET (1..n) -> E] : Folds(it, n, base, G)
      BY <1>2, <1>3, FoldExists
  <2>2. ASSUME NEW T \in SUBSET (1..n)
        PROVE  it[T] = IF T = {} THEN base ELSE it[T \ {Max(T)}] \cup Free(it[T \ {Max(T)}])
      BY <1>3, <2>1 DEF Folds
  <2>3. it = [T \in SUBSET (1..n) |-> it[T]]
      BY <2>1
  <2>4. it = Body(it)
      BY <2>2, <2>3
  <2> QED BY <2>4
<1>5. c = Body(c)
  <2> HIDE DEF Body
  <2> QED BY <1>4
<1> HIDE DEF c
<1>6. PICK d : d = c
    OBVIOUS
<1>7. d = Body(d)
    BY <1>5, <1>6
<1>8. d[{}] = base
    BY <1>7
<1>9. Follows(d, n, E, G)
  <2> SUFFICES ASSUME NEW k \in 1..n, d[1..(k - 1)] \in E PROVE d[1..k] = G[d[1..(k - 1)]]
      BY DEF Follows
  <2>1. /\ 1..k \in SUBSET (1..n) /\ 1..k # {}
        /\ Max(1..k) = k /\ (1..k) \ {k} = 1..(k - 1)
      BY TheLastOfAll
  <2>2. d[1..k] = d[(1..k) \ {Max(1..k)}] \cup Free(d[(1..k) \ {Max(1..k)}])
      BY <1>7, <2>1
  <2> QED BY <1>3, <2>1, <2>2
<1> HIDE DEF Body
<1>10. \E f \in [0..n -> E] : Rounds(f, n, base, G) /\ d[1..n] = f[n]
  <2>1. base \in E /\ G \in [E -> E]
      BY <1>2, <1>3
  <2> QED BY <2>1, <1>8, <1>9, FoldIsRounds
<1> QED BY <1>1, <1>3, <1>6, <1>10 DEF X, E, base, Free

\* grounding_reaches_reasoning: what depends on what was reached is reached.
Behind(obs, v) ==
    {s.capability : s \in {t \in S!ToSet(obs.steps) : t.depends \cap v # {}}}

LEMMA DownstreamRounds ==
    ASSUME NEW obs, NEW sources, NEW n \in Nat, DOMAIN obs.steps = 1..n
    PROVE  \E G \in [SUBSET (sources \cup S!Planned(obs)) -> SUBSET (sources \cup S!Planned(obs))], f \in [0..n -> SUBSET (sources \cup S!Planned(obs))] :
             /\ \A v \in SUBSET (sources \cup S!Planned(obs)) : G[v] = v \cup Behind(obs, v)
             /\ Rounds(f, n, sources, G)
             /\ S!DownstreamOf(obs, sources) = (f[n] \cap S!Planned(obs)) \ sources
<1> DEFINE X == (sources \cup S!Planned(obs))
           E == SUBSET X
           base == sources
           Free(v) == Behind(obs, v)
           G == [v \in E |-> v \cup Free(v)]
           Body(it) == [T \in SUBSET (DOMAIN obs.steps) |->
                          IF T = {} THEN base ELSE LET x == Max(T) IN it[T \ {x}] \cup Free(it[T \ {x}])]
           c == CHOOSE it : it = Body(it)
<1>1. S!DownstreamOf(obs, sources) = (c[DOMAIN obs.steps] \cap S!Planned(obs)) \ sources
    BY Zenon DEF S!DownstreamOf, S!FoldLeft, S!MapThenFoldSet, S!Max, Max, Behind
<1>2. base \in E /\ \A v \in E : Free(v) \in E
    BY DEF Behind, S!Planned
<1> HIDE DEF X, E, base, Free
<1>3. G \in [E -> E] /\ \A v \in E : G[v] = v \cup Free(v)
    BY <1>2 DEF E
<1> HIDE DEF G
<1>4. \E it : it = Body(it)
  <2>1. PICK it \in [SUBSET (1..n) -> E] : Folds(it, n, base, G)
      BY <1>2, <1>3, FoldExists
  <2>2. ASSUME NEW T \in SUBSET (1..n)
        PROVE  it[T] = IF T = {} THEN base ELSE it[T \ {Max(T)}] \cup Free(it[T \ {Max(T)}])
      BY <1>3, <2>1 DEF Folds
  <2>3. it = [T \in SUBSET (1..n) |-> it[T]]
      BY <2>1
  <2>4. it = Body(it)
      BY <2>2, <2>3
  <2> QED BY <2>4
<1>5. c = Body(c)
  <2> HIDE DEF Body
  <2> QED BY <1>4
<1> HIDE DEF c
<1>6. PICK d : d = c
    OBVIOUS
<1>7. d = Body(d)
    BY <1>5, <1>6
<1>8. d[{}] = base
    BY <1>7
<1>9. Follows(d, n, E, G)
  <2> SUFFICES ASSUME NEW k \in 1..n, d[1..(k - 1)] \in E PROVE d[1..k] = G[d[1..(k - 1)]]
      BY DEF Follows
  <2>1. /\ 1..k \in SUBSET (1..n) /\ 1..k # {}
        /\ Max(1..k) = k /\ (1..k) \ {k} = 1..(k - 1)
      BY TheLastOfAll
  <2>2. d[1..k] = d[(1..k) \ {Max(1..k)}] \cup Free(d[(1..k) \ {Max(1..k)}])
      BY <1>7, <2>1
  <2> QED BY <1>3, <2>1, <2>2
<1> HIDE DEF Body
<1>10. \E f \in [0..n -> E] : Rounds(f, n, base, G) /\ d[1..n] = f[n]
  <2>1. base \in E /\ G \in [E -> E]
      BY <1>2, <1>3
  <2> QED BY <2>1, <1>8, <1>9, FoldIsRounds
<1> QED BY <1>1, <1>3, <1>6, <1>10 DEF X, E, base, Free

\* The words of a result: what its step was handed, from whatever that was handed.
Handed(v) == UNION {plan.refs[t] : t \in v}

LEMMA WordsRounds ==
    ASSUME NEW s \in Step, NEW n \in Nat, DOMAIN SetToSeq(Step) = 1..n,
           \A t \in Step : plan.refs[t] \in SUBSET Step
    PROVE  \E G \in [SUBSET Step -> SUBSET Step], f \in [0..n -> SUBSET Step] :
             /\ \A v \in SUBSET Step : G[v] = v \cup Handed(v)
             /\ Rounds(f, n, {s}, G)
             /\ Words(s) = {t \in f[n] : result[t] \in Successful}
<1> DEFINE X == Step
           E == SUBSET X
           base == {s}
           Free(v) == Handed(v)
           G == [v \in E |-> v \cup Free(v)]
           Body(it) == [T \in SUBSET (DOMAIN SetToSeq(Step)) |->
                          IF T = {} THEN base ELSE LET x == Max(T) IN it[T \ {x}] \cup Free(it[T \ {x}])]
           c == CHOOSE it : it = Body(it)
<1>1. Words(s) = {t \in c[DOMAIN SetToSeq(Step)] : result[t] \in Successful}
    BY Zenon DEF Words, FoldLeft, MapThenFoldSet, Handed
<1>2. base \in E /\ \A v \in E : Free(v) \in E
    BY DEF Handed
<1> HIDE DEF X, E, base, Free
<1>3. G \in [E -> E] /\ \A v \in E : G[v] = v \cup Free(v)
    BY <1>2 DEF E
<1> HIDE DEF G
<1>4. \E it : it = Body(it)
  <2>1. PICK it \in [SUBSET (1..n) -> E] : Folds(it, n, base, G)
      BY <1>2, <1>3, FoldExists
  <2>2. ASSUME NEW T \in SUBSET (1..n)
        PROVE  it[T] = IF T = {} THEN base ELSE it[T \ {Max(T)}] \cup Free(it[T \ {Max(T)}])
      BY <1>3, <2>1 DEF Folds
  <2>3. it = [T \in SUBSET (1..n) |-> it[T]]
      BY <2>1
  <2>4. it = Body(it)
      BY <2>2, <2>3
  <2> QED BY <2>4
<1>5. c = Body(c)
  <2> HIDE DEF Body
  <2> QED BY <1>4
<1> HIDE DEF c
<1>6. PICK d : d = c
    OBVIOUS
<1>7. d = Body(d)
    BY <1>5, <1>6
<1>8. d[{}] = base
    BY <1>7
<1>9. Follows(d, n, E, G)
  <2> SUFFICES ASSUME NEW k \in 1..n, d[1..(k - 1)] \in E PROVE d[1..k] = G[d[1..(k - 1)]]
      BY DEF Follows
  <2>1. /\ 1..k \in SUBSET (1..n) /\ 1..k # {}
        /\ Max(1..k) = k /\ (1..k) \ {k} = 1..(k - 1)
      BY TheLastOfAll
  <2>2. d[1..k] = d[(1..k) \ {Max(1..k)}] \cup Free(d[(1..k) \ {Max(1..k)}])
      BY <1>7, <2>1
  <2> QED BY <1>3, <2>1, <2>2
<1> HIDE DEF Body
<1>10. \E f \in [0..n -> E] : Rounds(f, n, base, G) /\ d[1..n] = f[n]
  <2>1. base \in E /\ G \in [E -> E]
      BY <1>2, <1>3
  <2> QED BY <2>1, <1>8, <1>9, FoldIsRounds
<1> QED BY <1>1, <1>3, <1>6, <1>10 DEF X, E, base, Free

\* Scoring counts as this module does.
LEMMA SameCount == ASSUME NEW U PROVE S!Cardinality(U) = Cardinality(U)
    BY Zenon DEF S!Cardinality, Cardinality

\* The checks know a step by its op: here a step is named after it, so that no
\* two steps have the same.
ByName == \A s \in Step : OpOf[s] = s

\* A step as the stored plan lists it.
Entry(p, s) == [capability |-> s, depends |-> Dependencies(p, s)]

\* What the checks see of a plan that is stored.
LEMMA Stored ==
    ASSUME ByName, NEW p \in ProgramType
    PROVE  LET obs == Observed(p)
               n == Cardinality(p.steps)
           IN  /\ obs.steps = StoredPlan(p)
               /\ n \in Nat /\ IsFiniteSet(p.steps) /\ p.steps \subseteq Step
               /\ DOMAIN obs.steps = 1..n /\ Len(obs.steps) = n
               /\ obs.steps = <<>> <=> p.steps = {}
               /\ S!ToSet(obs.steps) = {Entry(p, s) : s \in p.steps}
               /\ S!Planned(obs) = p.steps
<1> DEFINE n == Cardinality(p.steps)
           order == SetToSeq(p.steps)
           obs == Observed(p)
<1>0. p # NoPlan
    BY GraphAssumption
<1>1. p.steps \subseteq Step
    BY DEF ProgramType
<1>2. IsFiniteSet(p.steps)
    BY <1>1, GraphAssumption, FS_Subset
<1>3. /\ n \in Nat /\ order \in [1..n -> p.steps]
      /\ \A t \in p.steps : \E i \in 1..n : order[i] = t
    BY <1>2, Listed
<1>4. obs.steps = StoredPlan(p)
    BY <1>0 DEF Observed
<1> HIDE DEF n, order, obs
<1>5. StoredPlan(p) = [i \in 1..n |-> Entry(p, order[i])]
  <2>1. DOMAIN order = 1..n /\ \A i \in 1..n : OpOf[order[i]] = order[i]
      BY <1>1, <1>3 DEF ByName
  <2>2. StoredPlan(p) = [i \in DOMAIN order |-> [capability |-> OpOf[order[i]], depends |-> Dependencies(p, order[i])]]
      BY DEF StoredPlan, order
  <2> QED BY <2>1, <2>2 DEF Entry
<1>6. DOMAIN obs.steps = 1..n /\ Len(obs.steps) = n /\ \A i \in 1..n : obs.steps[i] = Entry(p, order[i])
    BY <1>3, <1>4, <1>5
<1>7. S!ToSet(obs.steps) = {Entry(p, s) : s \in p.steps}
    BY <1>3, <1>6 DEF S!ToSet
<1>8. S!Planned(obs) = p.steps
  <2>1. S!Planned(obs) = {t.capability : t \in {Entry(p, s) : s \in p.steps}}
      BY <1>7 DEF S!Planned
  <2>2. \A s : Entry(p, s).capability = s
      BY DEF Entry
  <2> QED BY <2>1, <2>2
<1>9. n = 0 <=> p.steps = {}
    BY <1>2, FS_EmptySet DEF n
<1>10. obs.steps = <<>> <=> n = 0
  <2>1. n = 0 => obs.steps = <<>>
    <3> SUFFICES ASSUME n = 0 PROVE obs.steps = <<>>
        OBVIOUS
    <3>1. 1..n = {}
        OBVIOUS
    <3> QED BY <3>1, <1>4, <1>5
  <2>2. Len(<<>>) = 0
      OBVIOUS
  <2> QED BY <2>1, <2>2, <1>6
<1> QED BY <1>1, <1>2, <1>3, <1>4, <1>6, <1>7, <1>8, <1>9, <1>10 DEF n, obs

\* An acyclic plan is visited whole.
LEMMA VisitedWhole ==
    ASSUME ByName, NEW p \in ProgramType, Acyclic(p)
    PROVE  S!Visited(Observed(p)) = p.steps
<1> DEFINE n == Cardinality(p.steps)
           obs == Observed(p)
           X == p.steps
<1>1. /\ n \in Nat /\ IsFiniteSet(X) /\ DOMAIN obs.steps = 1..n
      /\ S!ToSet(obs.steps) = {Entry(p, s) : s \in X}
      /\ S!Planned(obs) = X
    BY Stored
<1> HIDE DEF obs
<1>2. PICK G \in [SUBSET X -> SUBSET X], f \in [0..n -> SUBSET X] :
        /\ \A v \in SUBSET X : G[v] = v \cup Unblocked(obs, v)
        /\ Rounds(f, n, {}, G)
        /\ S!Visited(obs) = f[n]
  <2>1. \E G \in [SUBSET S!Planned(obs) -> SUBSET S!Planned(obs)],
           f \in [0..n -> SUBSET S!Planned(obs)] :
             /\ \A v \in SUBSET S!Planned(obs) : G[v] = v \cup Unblocked(obs, v)
             /\ Rounds(f, n, {}, G)
             /\ S!Visited(obs) = f[n]
      BY <1>1, VisitedRounds
  <2> QED BY <1>1, <2>1
<1>3. f[n] \in SUBSET X /\ {} \in SUBSET X /\ n <= n
    BY <1>1
<1>4. G[f[n]] = f[n]
  <2>1. Adds(G, X) /\ RoundsOf(X, f, n, {}, G)
      BY <1>2, <1>3 DEF Adds, RoundsOf
  <2>2. Cardinality(X) <= n /\ n \in Nat /\ IsFiniteSet(X)
      BY <1>1
  <2> HIDE DEF X, n
  <2> QED BY <2>1, <2>2, RoundsSettle
<1>5. Unblocked(obs, f[n]) \subseteq f[n]
    BY <1>2, <1>3, <1>4
<1>6. ASSUME NEW s \in X, Dependencies(p, s) \cap (X \ f[n]) = {} PROVE s \in f[n]
  <2>1. \A t \in S!ToSet(obs.steps) : t.capability = s => t.depends \cap X \subseteq f[n]
      BY <1>1, <1>6 DEF Entry
  <2>2. s \in Unblocked(obs, f[n])
      BY <1>1, <2>1 DEF Unblocked
  <2> QED BY <1>5, <2>2
<1>7. X \ f[n] = {}
  <2> SUFFICES ASSUME X \ f[n] # {} PROVE FALSE
      OBVIOUS
  <2>1. X \ f[n] \in SUBSET p.steps
      OBVIOUS
  <2>2. PICK s \in X \ f[n] : Dependencies(p, s) \cap (X \ f[n]) = {}
      BY <2>1 DEF Acyclic
  <2> QED BY <1>6, <2>2
<1>8. f[n] = X
    BY <1>3, <1>7
<1> QED BY <1>2, <1>8 DEF obs

\* A step as the probe's program lists it.
Line(raw, s) == [id |-> s, refs |-> raw.refs[s], after |-> raw.after[s]]

\* What the probe sees of a program.
LEMMA ProgramListed ==
    ASSUME NEW raw \in ProgramType
    PROVE  LET steps == ProgramSeq(raw)
               n == Cardinality(raw.steps)
           IN  /\ n \in Nat /\ IsFiniteSet(raw.steps) /\ raw.steps \subseteq Step
               /\ DOMAIN steps = 1..n /\ Len(steps) = n
               /\ steps = <<>> <=> raw.steps = {}
               /\ S!ToSet(steps) = {Line(raw, s) : s \in raw.steps}
               /\ S!Ids(steps) = raw.steps
               /\ \A s \in raw.steps :
                    S!WaitsFor(steps, s) = (raw.refs[s] \cap raw.steps) \cup raw.after[s]
<1> DEFINE n == Cardinality(raw.steps)
           order == SetToSeq(raw.steps)
           steps == ProgramSeq(raw)
<1>1. raw.steps \subseteq Step
    BY DEF ProgramType
<1>2. IsFiniteSet(raw.steps)
    BY <1>1, GraphAssumption, FS_Subset
<1>3. /\ n \in Nat /\ order \in [1..n -> raw.steps]
      /\ \A t \in raw.steps : \E i \in 1..n : order[i] = t
    BY <1>2, Listed
<1>4. steps = [i \in DOMAIN order |-> [id |-> order[i], refs |-> raw.refs[order[i]], after |-> raw.after[order[i]]]]
    BY DEF ProgramSeq
<1> HIDE DEF n, order, steps
<1>5. steps = [i \in 1..n |-> Line(raw, order[i])]
    BY <1>3, <1>4 DEF Line
<1>6. DOMAIN steps = 1..n /\ Len(steps) = n /\ \A i \in 1..n : steps[i] = Line(raw, order[i])
    BY <1>3, <1>5
<1>7. S!ToSet(steps) = {Line(raw, s) : s \in raw.steps}
    BY <1>3, <1>6 DEF S!ToSet
<1>8. S!Ids(steps) = raw.steps
  <2>1. S!Ids(steps) = {t.id : t \in {Line(raw, s) : s \in raw.steps}}
      BY <1>7 DEF S!Ids
  <2>2. \A s : Line(raw, s).id = s
      BY DEF Line
  <2> QED BY <2>1, <2>2
<1>9. n = 0 <=> raw.steps = {}
    BY <1>2, FS_EmptySet DEF n
<1>10. steps = <<>> <=> n = 0
  <2>1. n = 0 => steps = <<>>
    <3> SUFFICES ASSUME n = 0 PROVE steps = <<>>
        OBVIOUS
    <3>1. 1..n = {}
        OBVIOUS
    <3> QED BY <3>1, <1>5
  <2>2. Len(<<>>) = 0
      OBVIOUS
  <2> QED BY <2>1, <2>2, <1>6
<1>11. ASSUME NEW s \in raw.steps
       PROVE  S!WaitsFor(steps, s) = (raw.refs[s] \cap raw.steps) \cup raw.after[s]
  <2>1. {t \in S!ToSet(steps) : t.id = s} = {Line(raw, s)}
    <3>1. \A t : Line(raw, t).id = t
        BY DEF Line
    <3> QED BY <1>7, <1>11, <3>1
  <2>2. S!WaitsFor(steps, s) = UNION {(t.refs \cap raw.steps) \cup t.after : t \in {Line(raw, s)}}
      BY <1>8, <2>1 DEF S!WaitsFor
  <2>3. Line(raw, s).refs = raw.refs[s] /\ Line(raw, s).after = raw.after[s]
      BY DEF Line
  <2> QED BY <2>2, <2>3
<1> QED BY <1>1, <1>2, <1>3, <1>6, <1>7, <1>8, <1>9, <1>10, <1>11 DEF n, steps

\* Of a program whose dependencies are its own, the probe's sort finds the
\* cycles there are.
LEMMA CyclesAreFound ==
    ASSUME NEW raw \in ProgramType, \A s \in raw.steps : Dependencies(raw, s) \subseteq raw.steps
    PROVE  S!Cyclic(ProgramSeq(raw)) = ~Acyclic(raw)
<1> DEFINE n == Cardinality(raw.steps)
           steps == ProgramSeq(raw)
           X == raw.steps
<1>1. /\ n \in Nat /\ IsFiniteSet(X) /\ DOMAIN steps = 1..n /\ S!Ids(steps) = X
      /\ \A s \in X : S!WaitsFor(steps, s) = (raw.refs[s] \cap X) \cup raw.after[s]
    BY ProgramListed
<1>2. \A s \in X : S!WaitsFor(steps, s) \cap X = Dependencies(raw, s)
    BY <1>1 DEF Dependencies
<1> HIDE DEF steps
<1>3. PICK G \in [SUBSET X -> SUBSET X], f \in [0..n -> SUBSET X] :
        /\ \A v \in SUBSET X : G[v] = v \cup Sortable(steps, v)
        /\ Rounds(f, n, {}, G)
        /\ S!Cyclic(steps) = (f[n] # X)
  <2>1. \E G \in [SUBSET S!Ids(steps) -> SUBSET S!Ids(steps)], f \in [0..n -> SUBSET S!Ids(steps)] :
             /\ \A v \in SUBSET S!Ids(steps) : G[v] = v \cup Sortable(steps, v)
             /\ Rounds(f, n, {}, G)
             /\ S!Cyclic(steps) = (f[n] # S!Ids(steps))
      BY <1>1, CyclicRounds
  <2> QED BY <1>1, <2>1
<1>4. \A v \in SUBSET X : Sortable(steps, v) = {s \in X : Dependencies(raw, s) \subseteq v}
    BY <1>1, <1>2 DEF Sortable
<1>5. f[n] \in SUBSET X /\ {} \in SUBSET X
    BY <1>1
<1>6. Adds(G, X) /\ RoundsOf(X, f, n, {}, G)
    BY <1>3, <1>5 DEF Adds, RoundsOf
<1>7. G[f[n]] = f[n]
  <2>1. Cardinality(X) <= n /\ n \in Nat /\ IsFiniteSet(X)
      BY <1>1
  <2> HIDE DEF X, n
  <2> QED BY <1>6, <2>1, RoundsSettle
<1>8. ASSUME Acyclic(raw) PROVE f[n] = X
  <2> SUFFICES ASSUME X \ f[n] # {} PROVE FALSE
      BY <1>5
  <2>1. X \ f[n] \in SUBSET raw.steps
      OBVIOUS
  <2>2. PICK s \in X \ f[n] : Dependencies(raw, s) \cap (X \ f[n]) = {}
      BY <1>8, <2>1 DEF Acyclic
  <2>3. Dependencies(raw, s) \subseteq f[n]
      BY <2>2
  <2>4. s \in Sortable(steps, f[n])
      BY <1>4, <1>5, <2>3
  <2> QED BY <1>3, <1>5, <1>7, <2>4
<1>9. ASSUME f[n] = X, NEW T \in SUBSET X, T # {} PROVE \E s \in T : Dependencies(raw, s) \cap T = {}
  <2>1. {} \cap T = {} /\ f[n] \cap T # {} /\ n \in Nat
      BY <1>1, <1>9
  <2>2. PICK k \in 1..n : f[k - 1] \cap T = {} /\ f[k] \cap T # {}
    <3> DEFINE base == {}
    <3>1. base \cap T = {} /\ RoundsOf(X, f, n, base, G)
        BY <1>6
    <3> HIDE DEF X, n, base
    <3> QED BY <2>1, <3>1, FirstMeeting
  <2>3. f[k] = f[k - 1] \cup Sortable(steps, f[k - 1]) /\ f[k - 1] \in SUBSET X
    <3>1. k - 1 \in 0..n /\ f[k] = G[f[k - 1]]
        BY <1>1, <1>3 DEF Rounds
    <3> QED BY <1>3, <3>1
  <2>4. PICK s \in T : s \in Sortable(steps, f[k - 1])
      BY <2>2, <2>3
  <2>5. Dependencies(raw, s) \subseteq f[k - 1]
      BY <1>4, <2>3, <2>4
  <2> QED BY <2>2, <2>5
<1>10. f[n] = X => Acyclic(raw)
    BY <1>9 DEF Acyclic
<1> QED BY <1>3, <1>8, <1>10 DEF steps

\* The probe and the planner agree (strict_probe.py, planner.py).
LEMMA TheProbeAgrees == ProbeAgrees
<1> SUFFICES ASSUME NEW raw \in Program, raw.inapplicable = {}
             PROVE  (S!Judge(TRUE, TRUE, ProgramSeq(raw), {}) = "valid") = Accepted(raw)
    BY DEF ProbeAgrees
<1> DEFINE steps == ProgramSeq(raw)
           Closed == \A s \in raw.steps : Dependencies(raw, s) \subseteq raw.steps
<1>1. raw \in ProgramType
    BY GraphAssumption
<1>2. /\ Len(steps) = Cardinality(raw.steps) /\ S!Ids(steps) = raw.steps
      /\ steps = <<>> <=> raw.steps = {}
      /\ S!ToSet(steps) = {Line(raw, s) : s \in raw.steps}
    BY <1>1, ProgramListed
<1>3. Closed => S!Cyclic(steps) = ~Acyclic(raw)
    BY <1>1, CyclesAreFound
<1>4. Accepted(raw) = (raw.steps # {} /\ Closed /\ Acyclic(raw))
  <2>1. /\ Pruned(raw).steps = raw.steps /\ Pruned(raw).refs = raw.refs
        /\ \A s \in Step : Pruned(raw).after[s] = raw.after[s]
      BY <1>1 DEF Pruned, ProgramType
  <2>2. raw.steps \subseteq Step
      BY <1>1 DEF ProgramType
  <2>3. \A s \in raw.steps : Dependencies(Pruned(raw), s) = Dependencies(raw, s)
      BY <2>1, <2>2 DEF Dependencies
  <2>4. Acyclic(Pruned(raw)) = Acyclic(raw)
      BY <2>1, <2>3 DEF Acyclic
  <2> QED BY <2>1, <2>3, <2>4 DEF Accepted
<1> HIDE DEF steps
<1>5. (S!Findings(steps, {}) = {}) = (Closed /\ ~S!Cyclic(steps))
  <2>1. \A s : Line(raw, s).refs = raw.refs[s] /\ Line(raw, s).after = raw.after[s]
      BY DEF Line
  <2>2. (\E t \in S!ToSet(steps) : ~(t.refs \subseteq raw.steps)) = (\E s \in raw.steps : ~(raw.refs[s] \subseteq raw.steps))
      BY <1>2, <2>1
  <2>3. (\E t \in S!ToSet(steps) : ~(t.after \subseteq raw.steps)) = (\E s \in raw.steps : ~(raw.after[s] \subseteq raw.steps))
      BY <1>2, <2>1
  <2>4. Closed = (/\ ~ \E s \in raw.steps : ~(raw.refs[s] \subseteq raw.steps)
                  /\ ~ \E s \in raw.steps : ~(raw.after[s] \subseteq raw.steps))
      BY DEF Dependencies
  <2>5. "duplicate_id" \notin S!Findings(steps, {}) /\ "unknown_output" \notin S!Findings(steps, {})
    <3>1. Cardinality(S!Ids(steps)) = Len(steps) /\ {} \subseteq S!Ids(steps)
        BY <1>2
    <3>2. "duplicate_id" \in S!Findings(steps, {}) => Cardinality(S!Ids(steps)) # Len(steps)
        BY SameCount DEF S!Findings
    <3>3. "unknown_output" \in S!Findings(steps, {}) => ~({} \subseteq S!Ids(steps))
        BY DEF S!Findings
    <3> QED BY <3>1, <3>2, <3>3
  <2>6. /\ "unknown_ref" \in S!Findings(steps, {}) <=> \E s \in raw.steps : ~(raw.refs[s] \subseteq raw.steps)
        /\ "unknown_after" \in S!Findings(steps, {}) <=> \E s \in raw.steps : ~(raw.after[s] \subseteq raw.steps)
      BY <1>2, <2>2, <2>3 DEF S!Findings
  <2>7. "cycle" \in S!Findings(steps, {}) <=> S!Cyclic(steps)
      BY DEF S!Findings
  <2>8. S!Findings(steps, {}) \subseteq {"duplicate_id", "unknown_ref", "unknown_after", "unknown_output", "cycle"}
      BY DEF S!Findings
  <2> QED BY <2>4, <2>5, <2>6, <2>7, <2>8
<1>6. S!Judge(TRUE, TRUE, steps, {}) =
        IF steps = <<>> THEN "schema" ELSE IF S!Findings(steps, {}) # {} THEN "finding" ELSE "valid"
    BY DEF S!Judge
<1> HIDE DEF Closed
<1> QED BY <1>2, <1>3, <1>4, <1>5, <1>6 DEF steps

\* A step's words are among others those of the results it references.
LEMMA WordsReach ==
    ASSUME plan \in ProgramType, NEW t \in Step, NEW s \in plan.refs[t], result[s] \in Successful
    PROVE  s \in Words(t)
<1> DEFINE n == Cardinality(Step)
<1>1. /\ n \in Nat /\ DOMAIN SetToSeq(Step) = 1..n
  <2>1. IsFiniteSet(Step)
      BY GraphAssumption
  <2>2. n \in Nat /\ SetToSeq(Step) \in [1..n -> Step]
      BY <2>1, Listed
  <2> QED BY <2>2
<1>2. \A u \in Step : plan.refs[u] \in SUBSET Step
    BY DEF ProgramType
<1>3. n # 0
    BY GraphAssumption, FS_EmptySet
<1> HIDE DEF n
<1>4. PICK G \in [SUBSET Step -> SUBSET Step], f \in [0..n -> SUBSET Step] :
        /\ \A v \in SUBSET Step : G[v] = v \cup Handed(v)
        /\ Rounds(f, n, {t}, G)
        /\ Words(t) = {u \in f[n] : result[u] \in Successful}
    BY <1>1, <1>2, WordsRounds
<1>5. Adds(G, Step) /\ RoundsOf(Step, f, n, {t}, G)
    BY <1>4 DEF Adds, RoundsOf
<1>6. 0 \in 0..n /\ 1 \in 0..n /\ n \in 0..n /\ 1 \in 1..n /\ 1 <= n
    BY <1>1, <1>3
<1>7. f[1] \subseteq f[n]
  <2>1. \A i, j \in 0..n : i <= j => f[i] \subseteq f[j]
      BY <1>1, <1>5, RoundsGrow
  <2> QED BY <1>6, <2>1
<1>8. f[1] = {t} \cup Handed({t})
  <2>1. f[1] = G[f[1 - 1]] /\ f[0] = {t} /\ 1 - 1 = 0
      BY <1>4, <1>6 DEF Rounds
  <2>2. {t} \in SUBSET Step
      OBVIOUS
  <2> QED BY <1>4, <2>1, <2>2
<1>9. s \in f[1]
    BY <1>8 DEF Handed
<1> QED BY <1>4, <1>7, <1>9

\* If something is downstream of a step, a step that waits for it is.
LEMMA SomeWaits ==
    ASSUME ByName, NEW p \in ProgramType, NEW src \in p.steps,
           S!DownstreamOf(Observed(p), {src}) # {}
    PROVE  \E t \in S!DownstreamOf(Observed(p), {src}) \cap p.steps : src \in Dependencies(p, t)
<1> DEFINE n == Cardinality(p.steps)
           obs == Observed(p)
           X == p.steps
           base == {src}
<1>1. /\ n \in Nat /\ DOMAIN obs.steps = 1..n /\ S!Planned(obs) = X
      /\ S!ToSet(obs.steps) = {Entry(p, s) : s \in X}
    BY Stored
<1> HIDE DEF obs
<1>2. base \cup S!Planned(obs) = X
    BY <1>1
<1>3. PICK G \in [SUBSET X -> SUBSET X], f \in [0..n -> SUBSET X] :
        /\ \A v \in SUBSET X : G[v] = v \cup Behind(obs, v)
        /\ Rounds(f, n, base, G)
        /\ S!DownstreamOf(obs, base) = (f[n] \cap X) \ base
  <2> HIDE DEF X, n, base
  <2> DEFINE Y == (base \cup S!Planned(obs))
  <2>1. \E G \in [SUBSET Y -> SUBSET Y], f \in [0..n -> SUBSET Y] :
             /\ \A v \in SUBSET Y : G[v] = v \cup Behind(obs, v)
             /\ Rounds(f, n, base, G)
             /\ S!DownstreamOf(obs, base) = (f[n] \cap S!Planned(obs)) \ base
      BY <1>1, DownstreamRounds
  <2> QED BY <1>1, <1>2, <2>1
<1>4. Adds(G, X) /\ RoundsOf(X, f, n, base, G)
    BY <1>3 DEF Adds, RoundsOf
<1>5. \A v : \A t \in Behind(obs, v) : t \in X /\ Dependencies(p, t) \cap v # {}
    BY <1>1 DEF Behind, Entry
<1>6. PICK k \in 1..n : f[k - 1] \cap (X \ base) = {} /\ f[k] \cap (X \ base) # {}
  <2> DEFINE T == X \ base
  <2>1. base \cap T = {} /\ f[n] \cap T # {} /\ n \in Nat
      BY <1>1, <1>3 DEF obs
  <2> HIDE DEF X, n, base, T
  <2>2. \E k \in 1..n : f[k - 1] \cap T = {} /\ f[k] \cap T # {}
      BY <1>4, <2>1, FirstMeeting
  <2> QED BY <2>2 DEF T
<1>7. k - 1 \in 0..n /\ f[k] = G[f[k - 1]] /\ f[k - 1] \in SUBSET X
    BY <1>1, <1>3 DEF Rounds
<1>8. f[k] = f[k - 1] \cup Behind(obs, f[k - 1]) /\ f[k - 1] \subseteq base
    BY <1>3, <1>6, <1>7
<1>9. PICK t \in X \ base : t \in Behind(obs, f[k - 1])
    BY <1>6, <1>8
<1>10. src \in Dependencies(p, t)
    BY <1>5, <1>8, <1>9
<1>11. t \in f[n]
  <2>1. \A i, j \in 0..n : i <= j => f[i] \subseteq f[j]
    <3> HIDE DEF X, n, base
    <3> QED BY <1>1, <1>4, RoundsGrow
  <2>2. k \in 0..n /\ n \in 0..n /\ k <= n
      BY <1>1
  <2> QED BY <1>8, <1>9, <2>1, <2>2
<1> QED BY <1>3, <1>9, <1>10, <1>11 DEF obs

\* The tally of one score.
LEMMA OneTally ==
    ASSUME NEW score
    PROVE  S!Tally(<<score>>) =
             [passed |-> 0 + S!Cardinality(S!With(score, "pass")),
              applicable |-> 0 + S!Cardinality(DOMAIN score) - S!Cardinality(S!With(score, "skip"))]
<1> DEFINE seq == <<score>>
           zero == [passed |-> 0, applicable |-> 0]
           Add(t, s) == [passed |-> t.passed + S!Cardinality(S!With(s, "pass")),
                         applicable |-> t.applicable + S!Cardinality(DOMAIN s)
                                          - S!Cardinality(S!With(s, "skip"))]
           Body(it) == [T \in SUBSET (DOMAIN seq) |->
                          IF T = {} THEN zero ELSE LET x == Max(T) IN Add(it[T \ {x}], seq[x])]
           c == CHOOSE it : it = Body(it)
<1>1. S!Tally(seq) = c[DOMAIN seq]
    BY Zenon DEF S!Tally, S!FoldLeft, S!MapThenFoldSet, S!Max, Max
<1>2. DOMAIN seq = {1} /\ seq[1] = score
    OBVIOUS
<1> DEFINE one == Add(zero, score)
<1>3. Max({1}) = 1
    BY DEF Max
<1> HIDE DEF Add, zero, seq
<1> DEFINE g == [T \in SUBSET {1} |-> IF T = {} THEN zero ELSE one]
<1>4. g = Body(g)
  <2>1. ASSUME NEW T \in SUBSET {1}
        PROVE  g[T] = IF T = {} THEN zero ELSE LET x == Max(T) IN Add(g[T \ {x}], seq[x])
    <3>1. CASE T = {}
        BY <3>1
    <3>2. CASE T = {1}
      <4>1. T \ {1} = {} /\ Max(T) = 1 /\ T # {} /\ g[{}] = zero /\ g[T] = one
          BY <1>3, <3>2
      <4> HIDE DEF g
      <4> QED BY <1>2, <4>1
    <3> QED BY <3>1, <3>2
  <2>2. g = [T \in SUBSET {1} |-> g[T]]
      OBVIOUS
  <2> HIDE DEF g
  <2> QED BY <1>2, <2>1, <2>2
<1>5. c = Body(c)
  <2> HIDE DEF Body, g
  <2> QED BY <1>4
<1> HIDE DEF c
<1>6. c[{}] = zero
    BY <1>5
<1>7. c[{1}] = one
  <2>1. {1} \in SUBSET {1} /\ {1} # {} /\ {1} \ {1} = {}
      OBVIOUS
  <2>2. c[{1}] = Add(c[{1} \ {Max({1})}], seq[Max({1})])
      BY <1>2, <1>5, <2>1
  <2> QED BY <1>2, <1>3, <1>6, <2>1, <2>2
<1> QED BY <1>1, <1>2, <1>7 DEF seq, Add, zero

\* Scores of which one applies: the suite fails exactly when one fails.
LEMMA TheExit ==
    ASSUME NEW score, IsFiniteSet(DOMAIN score),
           \A name \in DOMAIN score : score[name] \in {"pass", "fail", "skip"},
           NEW check \in DOMAIN score, score[check] = "pass"
    PROVE  S!SuiteExit(FALSE, <<score>>, "fake", NoPlan) = IF S!With(score, "fail") = {} THEN 0 ELSE 1
<1> DEFINE D == DOMAIN score
           P == S!With(score, "pass")
           F == S!With(score, "fail")
           K == S!With(score, "skip")
           tally == S!Tally(<<score>>)
<1>1. /\ D = (P \cup F) \cup K /\ check \in P
      /\ P \cap F = {} /\ (P \cup F) \cap K = {}
    BY DEF S!With
<1>2. IsFiniteSet(P) /\ IsFiniteSet(F) /\ IsFiniteSet(K) /\ IsFiniteSet(D)
  <2>1. P \in SUBSET D /\ F \in SUBSET D /\ K \in SUBSET D
      BY DEF S!With
  <2> HIDE DEF P, F, K
  <2> QED BY <2>1, FS_Subset
<1>3. tally.passed = 0 + Cardinality(P) /\ tally.applicable = 0 + Cardinality(D) - Cardinality(K)
  <2>1. tally = [passed |-> 0 + S!Cardinality(P), applicable |-> 0 + S!Cardinality(D) - S!Cardinality(K)]
      BY OneTally
  <2>2. S!Cardinality(P) = Cardinality(P) /\ S!Cardinality(D) = Cardinality(D) /\ S!Cardinality(K) = Cardinality(K)
      BY SameCount
  <2> HIDE DEF P, F, K, D, tally
  <2> QED BY <2>1, <2>2
<1> HIDE DEF P, F, K, D, tally
<1>4. /\ Cardinality(P) \in Nat /\ Cardinality(F) \in Nat /\ Cardinality(K) \in Nat
      /\ Cardinality(P) # 0 /\ (Cardinality(F) = 0 <=> F = {})
    BY <1>1, <1>2, FS_CardinalityType, FS_EmptySet
<1>5. Cardinality(P \cup F) = Cardinality(P) + Cardinality(F) /\ IsFiniteSet(P \cup F)
  <2>1. Cardinality(P \cup F) = Cardinality(P) + Cardinality(F) - Cardinality(P \cap F) /\ IsFiniteSet(P \cup F)
      BY <1>2, FS_Union
  <2>2. Cardinality(P \cap F) = 0
      BY <1>1, FS_EmptySet
  <2> QED BY <1>4, <2>1, <2>2
<1>6. Cardinality(D) = Cardinality(P) + Cardinality(F) + Cardinality(K)
  <2>1. Cardinality(D) = Cardinality(P \cup F) + Cardinality(K) - Cardinality((P \cup F) \cap K)
      BY <1>1, <1>2, <1>5, FS_Union
  <2>2. Cardinality((P \cup F) \cap K) = 0
      BY <1>1, FS_EmptySet
  <2> QED BY <1>4, <1>5, <2>1, <2>2
<1>7. tally.passed = Cardinality(P) /\ tally.applicable = Cardinality(P) + Cardinality(F)
    BY <1>3, <1>4, <1>6
<1>8. S!Floor("fake", NoPlan) = 100 /\ 100 # NoPlan
    BY ScoredAssumption DEF S!Floor
<1>9. S!SuiteExit(FALSE, <<score>>, "fake", NoPlan) =
        IF tally.applicable = 0 \/ 100 * tally.passed < 100 * tally.applicable THEN 1 ELSE 0
  <2>1. <<score>> # <<>>
      OBVIOUS
  <2> QED BY <1>8, <2>1 DEF S!SuiteExit, tally
<1>10. (tally.applicable = 0 \/ 100 * tally.passed < 100 * tally.applicable) <=> F # {}
    BY <1>4, <1>7
<1> QED BY <1>9, <1>10 DEF F

\* The checks, by name.
Checks ==
    (({"run_completed", "router_route", "terminal_kind", "plan_present", "plan_names_known"}
      \cup {"plan_no_duplicates", "plan_deps_satisfiable", "plan_acyclic", "plan_size", "plan_required_steps"})
     \cup ({"plan_excluded_steps", "steps_all_ran", "steps_all_ok", "grounding_reaches_reasoning", "report_written"}
      \cup {"document_as_requested", "document_format", "report_title", "report_answer", "report_provenance"}))
    \cup ({"report_reader_facing", "report_answers_request", "refusal_declared"}
      \cup {"refusal_is_bare", "answer_invents_no_file", "answer_is_the_file"})

LEMMA FiveAreFinite == ASSUME NEW x1, NEW x2, NEW x3, NEW x4, NEW x5 PROVE IsFiniteSet({x1, x2, x3, x4, x5})
<1>1. IsFiniteSet({x1} \cup {x2}) /\ IsFiniteSet({x3} \cup {x4}) /\ IsFiniteSet({x5})
    BY FS_Singleton, FS_Union
<1>2. IsFiniteSet(({x1} \cup {x2}) \cup ({x3} \cup {x4}))
    BY <1>1, FS_Union
<1>3. IsFiniteSet((({x1} \cup {x2}) \cup ({x3} \cup {x4})) \cup {x5})
    BY <1>1, <1>2, FS_Union
<1>4. {x1, x2, x3, x4, x5} = (({x1} \cup {x2}) \cup ({x3} \cup {x4})) \cup {x5}
    OBVIOUS
<1> QED BY <1>3, <1>4

LEMMA ChecksAreFinite == IsFiniteSet(Checks)
<1> DEFINE A1 == {"run_completed", "router_route", "terminal_kind", "plan_present", "plan_names_known"}
           A2 == {"plan_no_duplicates", "plan_deps_satisfiable", "plan_acyclic", "plan_size", "plan_required_steps"}
           A3 == {"plan_excluded_steps", "steps_all_ran", "steps_all_ok", "grounding_reaches_reasoning", "report_written"}
           A4 == {"document_as_requested", "document_format", "report_title", "report_answer", "report_provenance"}
           A5 == {"report_reader_facing", "report_answers_request", "refusal_declared"}
           A6 == {"refusal_is_bare", "answer_invents_no_file", "answer_is_the_file"}
<1>1. IsFiniteSet(A1) /\ IsFiniteSet(A2) /\ IsFiniteSet(A3) /\ IsFiniteSet(A4)
    BY FiveAreFinite
<1>2. IsFiniteSet(A5)
  <2>1. A5 = {"report_reader_facing", "report_answers_request", "refusal_declared",
              "refusal_declared", "refusal_declared"}
      OBVIOUS
  <2> HIDE DEF A5
  <2> QED BY <2>1, FiveAreFinite
<1>3. IsFiniteSet(A6)
  <2>1. A6 = {"refusal_is_bare", "answer_invents_no_file", "answer_is_the_file",
              "answer_is_the_file", "answer_is_the_file"}
      OBVIOUS
  <2> HIDE DEF A6
  <2> QED BY <2>1, FiveAreFinite
<1>4. Checks = ((A1 \cup A2) \cup (A3 \cup A4)) \cup (A5 \cup A6)
    BY DEF Checks
<1> HIDE DEF A1, A2, A3, A4, A5, A6
<1>5. IsFiniteSet(A1 \cup A2) /\ IsFiniteSet(A3 \cup A4) /\ IsFiniteSet(A5 \cup A6)
    BY <1>1, <1>2, <1>3, FS_Union
<1>6. IsFiniteSet((A1 \cup A2) \cup (A3 \cup A4))
    BY <1>5, FS_Union
<1>7. IsFiniteSet(((A1 \cup A2) \cup (A3 \cup A4)) \cup (A5 \cup A6))
    BY <1>5, <1>6, FS_Union
<1> QED BY <1>4, <1>7

\* A check says pass, fail or skip, whatever it looks at.
LEMMA EachIsAVerdict ==
    ASSUME NEW case, NEW obs
    PROVE  LET score == S!Score(case, obs)
           IN  /\ DOMAIN score = Checks
               /\ \A name \in Checks : score[name] \in {"pass", "fail", "skip"}
<1> DEFINE score == S!Score(case, obs)
           Verdicts == {"pass", "fail", "skip"}
<1>1. DOMAIN score = Checks
    BY DEF S!Score, Checks
<1>2. \A a, o : S!Scored(a, o) \in Verdicts /\ S!Verdict(o) \in Verdicts
    BY DEF S!Scored, S!Verdict
<1> HIDE DEF Verdicts
<1>3. /\ S!RunCompleted(case, obs) \in Verdicts /\ S!RouterRoute(case, obs) \in Verdicts
      /\ S!TerminalKind(case, obs) \in Verdicts /\ S!PlanPresent(case, obs) \in Verdicts
      /\ S!NamesKnown(case, obs) \in Verdicts /\ S!NoDuplicates(case, obs) \in Verdicts
      /\ S!DepsSatisfiable(case, obs) \in Verdicts /\ S!PlanAcyclic(case, obs) \in Verdicts
      /\ S!PlanSize(case, obs) \in Verdicts /\ S!RequiredSteps(case, obs) \in Verdicts
      /\ S!ExcludedSteps(case, obs) \in Verdicts /\ S!StepsAllRan(case, obs) \in Verdicts
      /\ S!StepsAllOk(case, obs) \in Verdicts /\ S!GroundingReachesReasoning(case, obs) \in Verdicts
    BY <1>2, ZenonT(40) DEF S!RunCompleted, S!RouterRoute, S!TerminalKind, S!PlanPresent, S!NamesKnown,
       S!NoDuplicates, S!DepsSatisfiable, S!PlanAcyclic, S!PlanSize, S!RequiredSteps,
       S!ExcludedSteps, S!StepsAllRan, S!StepsAllOk, S!GroundingReachesReasoning
<1>4. /\ S!ReportWritten(case, obs) \in Verdicts /\ S!DocumentAsRequested(case, obs) \in Verdicts
      /\ S!DocumentFormat(case, obs) \in Verdicts /\ S!ReportTitle(case, obs) \in Verdicts
      /\ S!ReportAnswer(case, obs) \in Verdicts /\ S!ReportProvenance(case, obs) \in Verdicts
      /\ S!ReaderFacing(case, obs) \in Verdicts /\ S!AnswersRequest(case, obs) \in Verdicts
      /\ S!RefusalDeclared(case, obs) \in Verdicts /\ S!RefusalIsBare(case, obs) \in Verdicts
      /\ S!InventsNoFile(case, obs) \in Verdicts /\ S!AnswerIsTheFile(case, obs) \in Verdicts
    BY <1>2, Zenon DEF S!ReportWritten, S!DocumentAsRequested, S!DocumentFormat, S!ReportTitle,
       S!ReportAnswer, S!ReportProvenance, S!ReaderFacing, S!AnswersRequest, S!RefusalDeclared,
       S!RefusalIsBare, S!InventsNoFile, S!AnswerIsTheFile
<1>5. \A name \in Checks : score[name] \in Verdicts
    BY <1>3, <1>4 DEF S!Score, Checks
<1> QED BY <1>1, <1>5 DEF Verdicts

\* An answered run reports the steps of its plan, each of them.
LEMMA AllReported ==
    ASSUME IInv, terminal = "answer", plan # NoPlan
    PROVE  /\ plan \in ProgramType /\ Acyclic(plan) /\ plan.steps \subseteq Step
           /\ \A s \in plan.steps : Dependencies(plan, s) \subseteq plan.steps
           /\ Reported = plan.steps
<1>1. plan \in ProgramType
    BY DEF IInv, TypeOK
<1>2. plan.steps \subseteq Step
    BY <1>1 DEF ProgramType
<1>3. Acyclic(plan) /\ \A s \in plan.steps : Dependencies(plan, s) \subseteq plan.steps
    BY DEF IInv, PlanIsSound
<1>4. plan.steps \subseteq Done({})
    BY DEF IInv, TerminalIsEarned
<1>5. \A s \in Step : s \in Done({}) => runs[s] > 0
    BY DEF Done
<1>6. Reported = plan.steps
    BY <1>2, <1>4, <1>5 DEF IInv, Counted, Reported
<1> QED BY <1>1, <1>2, <1>3, <1>6

\* What the checks look at.
LEMMA WhatIsSeen ==
    ASSUME IInv, ByName, terminal = "answer", plan # NoPlan, plan.steps # {}
    PROVE  LET obs == Observed(plan)
           IN  /\ S!PlanApplies(obs) /\ obs.registry = Step
               /\ DOMAIN obs.ok = plan.steps
               /\ \A s \in plan.steps :
                    /\ obs.ok[s] <=> result[s] \in Successful
                    /\ obs.found[s] = IF s \in Source THEN {s} ELSE {}
                    /\ obs.read[s] = Words(s)
<1> DEFINE obs == Observed(plan)
<1>1. plan \in ProgramType /\ Reported = plan.steps
    BY AllReported
<1>2. obs.steps # <<>>
    BY <1>1, Stored
<1>3. /\ obs.error = FALSE /\ obs.registry = {OpOf[s] : s \in Step}
      /\ obs.ok = [s \in Reported |-> result[s] \in Successful]
      /\ obs.found = [s \in Reported |-> IF s \in Source THEN {s} ELSE {}]
      /\ obs.read = [s \in Reported |-> IF plan = NoPlan THEN {} ELSE Words(s)]
    BY DEF Observed
<1>4. obs.registry = Step
    BY <1>3 DEF ByName
<1> HIDE DEF obs
<1>5. S!PlanApplies(obs)
    BY <1>2, <1>3 DEF S!PlanApplies
<1> QED BY <1>1, <1>3, <1>4, <1>5 DEF obs

\* The plan's shape is passed, and its steps are scored as they ran.
LEMMA ShapeIsPassed ==
    ASSUME IInv, ByName, terminal = "answer", plan # NoPlan, plan.steps # {}
    PROVE  LET score == S!Score(Case, Observed(plan))
           IN  /\ \A check \in PlanChecks : score[check] = "pass"
               /\ score["steps_all_ok"] = "fail" <=> \E s \in plan.steps : result[s] \notin Successful
<1> DEFINE obs == Observed(plan)
           score == S!Score(Case, obs)
<1>1. /\ plan \in ProgramType /\ Acyclic(plan) /\ plan.steps \subseteq Step
      /\ \A s \in plan.steps : Dependencies(plan, s) \subseteq plan.steps
    BY AllReported
<1>2. /\ S!PlanApplies(obs) /\ obs.registry = Step /\ DOMAIN obs.ok = plan.steps
      /\ \A s \in plan.steps : obs.ok[s] <=> result[s] \in Successful
    BY WhatIsSeen
<1>3. /\ S!Planned(obs) = plan.steps /\ Len(obs.steps) = Cardinality(plan.steps)
      /\ S!ToSet(obs.steps) = {Entry(plan, s) : s \in plan.steps}
    BY <1>1, Stored
<1>4. S!Visited(obs) = plan.steps
    BY <1>1, VisitedWhole
<1>5. \A s \in plan.steps : s \notin Dependencies(plan, s)
  <2> SUFFICES ASSUME NEW s \in plan.steps PROVE s \notin Dependencies(plan, s)
      OBVIOUS
  <2>1. {s} \in SUBSET plan.steps /\ {s} # {}
      OBVIOUS
  <2>2. PICK t \in {s} : Dependencies(plan, t) \cap {s} = {}
      BY <1>1, <2>1 DEF Acyclic
  <2> QED BY <2>2
<1>6. /\ score["plan_names_known"] = S!NamesKnown(Case, obs)
      /\ score["plan_no_duplicates"] = S!NoDuplicates(Case, obs)
      /\ score["plan_deps_satisfiable"] = S!DepsSatisfiable(Case, obs)
      /\ score["plan_acyclic"] = S!PlanAcyclic(Case, obs)
      /\ score["steps_all_ran"] = S!StepsAllRan(Case, obs)
      /\ score["steps_all_ok"] = S!StepsAllOk(Case, obs)
    BY DEF S!Score
<1> HIDE DEF obs, score
<1> USE DEF S!Scored, S!Verdict
<1>7. S!NamesKnown(Case, obs) = "pass"
    BY <1>1, <1>2, <1>3 DEF S!NamesKnown
<1>8. S!NoDuplicates(Case, obs) = "pass"
    BY <1>2, <1>3, SameCount DEF S!NoDuplicates
<1>9. S!DepsSatisfiable(Case, obs) = "pass"
  <2>1. ASSUME NEW t \in S!ToSet(obs.steps) PROVE t.depends \subseteq S!Planned(obs) \ {t.capability}
    <3>1. PICK s \in plan.steps : t = Entry(plan, s)
        BY <1>3, <2>1
    <3>2. t.depends = Dependencies(plan, s) /\ t.capability = s
        BY <3>1 DEF Entry
    <3> QED BY <1>1, <1>3, <1>5, <3>2
  <2> QED BY <1>2, <2>1 DEF S!DepsSatisfiable
<1>10. S!PlanAcyclic(Case, obs) = "pass"
    BY <1>2, <1>3, <1>4, SameCount DEF S!PlanAcyclic
<1>11. S!StepsAllRan(Case, obs) = "pass"
    BY <1>2, <1>3 DEF S!StepsAllRan
<1>12. S!StepsAllOk(Case, obs) = "fail" <=> \E s \in plan.steps : result[s] \notin Successful
    BY <1>2 DEF S!StepsAllOk
<1>13. \A check \in PlanChecks : score[check] = "pass"
    BY <1>6, <1>7, <1>8, <1>9, <1>10, <1>11 DEF PlanChecks
<1> QED BY <1>6, <1>12, <1>13 DEF score, obs

\* Material that every step was handed is found in what they wrote.
LEMMA MaterialIsFound ==
    ASSUME IInv, ByName, terminal = "answer", plan # NoPlan, plan.steps # {},
           \A s \in plan.steps : plan.after[s] \subseteq plan.refs[s],
           \A s \in plan.steps : result[s] \in Successful,
           Cardinality(Source \cap plan.steps) = 1
    PROVE  S!Score(Case, Observed(plan))["grounding_reaches_reasoning"] # "fail"
<1> DEFINE obs == Observed(plan)
<1>1. /\ plan \in ProgramType /\ plan.steps \subseteq Step
      /\ \A s \in plan.steps : Dependencies(plan, s) \subseteq plan.steps
    BY AllReported
<1>2. /\ S!PlanApplies(obs) /\ DOMAIN obs.ok = plan.steps
      /\ \A s \in plan.steps :
           /\ obs.ok[s] <=> result[s] \in Successful
           /\ obs.found[s] = IF s \in Source THEN {s} ELSE {}
           /\ obs.read[s] = Words(s)
    BY WhatIsSeen
<1>3. S!Score(Case, obs)["grounding_reaches_reasoning"] = S!GroundingReachesReasoning(Case, obs)
    BY DEF S!Score
<1>4. obs.query.words = {}
    BY DEF Observed, NoText
<1>5. PICK src : Source \cap plan.steps = {src}
  <2>1. IsFiniteSet(plan.steps)
      BY <1>1, Stored
  <2>2. IsFiniteSet(Source \cap plan.steps)
      BY <2>1, FS_Intersection
  <2> QED BY <2>2, FS_Singleton
<1>6. src \in plan.steps /\ src \in Source
    BY <1>5
<1> HIDE DEF obs
<1>7. S!Retrieved(obs) = {src}
    BY <1>2, <1>5 DEF S!Retrieved
<1>8. UNION {obs.found[n] : n \in {src}} = {src}
  <2>1. obs.found[src] = {src}
      BY <1>2, <1>6
  <2>2. {obs.found[n] : n \in {src}} = {{src}}
      BY ONLY <2>1
  <2> QED BY ONLY <2>2
<1>9. ASSUME S!DownstreamOf(obs, {src}) # {}
      PROVE  src \in UNION {obs.read[n] : n \in S!DownstreamOf(obs, {src}) \cap DOMAIN obs.ok}
  <2>1. PICK t \in S!DownstreamOf(obs, {src}) \cap plan.steps : src \in Dependencies(plan, t)
      BY <1>1, <1>6, <1>9, SomeWaits DEF obs
  <2>2. src \in plan.refs[t]
      BY <2>1 DEF Dependencies
  <2>3. t \in Step /\ result[src] \in Successful
      BY <1>1, <1>6, <2>1
  <2>4. src \in Words(t)
      BY <1>1, <2>2, <2>3, WordsReach
  <2> QED BY <1>2, <2>1, <2>4
<1>10. ASSUME NEW part, src \in part PROVE S!Carries({src}, part)
  <2>1. {src} \cap part = {src}
      BY <1>10
  <2>2. S!Cardinality({src}) = 1
      BY SameCount, FS_Singleton
  <2> QED BY <2>1, <2>2 DEF S!Carries
<1>11. S!GroundingReachesReasoning(Case, obs) # "fail"
  <2> DEFINE downstream == S!DownstreamOf(obs, {src})
             material == {src} \ ({} \cup {})
             part == UNION {obs.read[n] : n \in downstream \cap DOMAIN obs.ok}
  <2>1. S!GroundingReachesReasoning(Case, obs) =
          S!Scored(S!PlanApplies(obs) /\ downstream # {} /\ material # {}, S!Carries(material, part))
      BY <1>4, <1>7, <1>8 DEF S!GroundingReachesReasoning
  <2>2. material = {src}
      OBVIOUS
  <2>3. downstream # {} => S!Carries(material, part)
      BY <1>9, <1>10, <2>2
  <2> HIDE DEF downstream, material, part
  <2> QED BY <2>1, <2>3 DEF S!Scored, S!Verdict
<1> QED BY <1>3, <1>11 DEF obs

\* What the suite and the probe say of a program and of its run is what the
\* planner and the executor did with them (scoring.py, strict_probe.py), where
\* a step goes by the name of its op, as the suite takes it to.
THEOREM RunsAreScoredAsTheyRan == ASSUME ByName PROVE Spec => []ScoredAsItRan
<1>1. ASSUME IInv, node = "end", terminal = "answer", plan # NoPlan, plan.steps # {}
      PROVE  LET score == S!Score(Case, Observed(plan))
             IN  /\ \A check \in PlanChecks : score[check] = "pass"
                 /\ (S!StepFailureRate(Observed(plan)).failed = 0) = (score["steps_all_ok"] # "fail")
                 /\ (score["steps_all_ok"] = "fail") = \E s \in plan.steps : result[s] \notin Successful
                 /\ (/\ \A s \in plan.steps : plan.after[s] \subseteq plan.refs[s]
                     /\ \A s \in plan.steps : result[s] \in Successful
                     /\ Cardinality(Source \cap plan.steps) = 1)
                    => score["grounding_reaches_reasoning"] # "fail"
                 /\ S!SuiteExit(FALSE, <<score>>, "fake", NoPlan)
                      = IF S!With(score, "fail") = {} THEN 0 ELSE 1
  <2> DEFINE obs == Observed(plan)
             score == S!Score(Case, obs)
             Bad == {n \in DOMAIN obs.ok : ~obs.ok[n]}
  <2>1. /\ \A check \in PlanChecks : score[check] = "pass"
        /\ score["steps_all_ok"] = "fail" <=> \E s \in plan.steps : result[s] \notin Successful
      BY <1>1, ShapeIsPassed
  <2>2. /\ DOMAIN obs.ok = plan.steps
        /\ \A s \in plan.steps : obs.ok[s] <=> result[s] \in Successful
      BY <1>1, WhatIsSeen
  <2>3. Bad = {} <=> ~ \E s \in plan.steps : result[s] \notin Successful
      BY <2>2
  <2>4. IsFiniteSet(Bad)
    <3>1. plan \in ProgramType
        BY <1>1, AllReported
    <3>2. IsFiniteSet(plan.steps)
        BY <3>1, Stored
    <3>3. Bad \in SUBSET plan.steps
        BY <2>2
    <3> HIDE DEF Bad
    <3> QED BY <3>2, <3>3, FS_Subset
  <2>5. S!StepFailureRate(obs).failed = Cardinality(Bad)
      BY SameCount DEF S!StepFailureRate
  <2>6. Cardinality(Bad) = 0 <=> Bad = {}
    <3> HIDE DEF Bad
    <3> QED BY <2>4, FS_EmptySet
  <2>7. (S!StepFailureRate(obs).failed = 0) = (score["steps_all_ok"] # "fail")
    <3> HIDE DEF Bad, score, obs
    <3> QED BY <2>1, <2>3, <2>5, <2>6
  <2>8. (/\ \A s \in plan.steps : plan.after[s] \subseteq plan.refs[s]
         /\ \A s \in plan.steps : result[s] \in Successful
         /\ Cardinality(Source \cap plan.steps) = 1)
        => score["grounding_reaches_reasoning"] # "fail"
      BY <1>1, MaterialIsFound
  <2>9. S!SuiteExit(FALSE, <<score>>, "fake", NoPlan) = IF S!With(score, "fail") = {} THEN 0 ELSE 1
    <3>1. DOMAIN score = Checks /\ \A name \in Checks : score[name] \in {"pass", "fail", "skip"}
        BY EachIsAVerdict
    <3>2. "plan_acyclic" \in Checks /\ "plan_acyclic" \in PlanChecks
        BY DEF Checks, PlanChecks
    <3> HIDE DEF score
    <3>3. IsFiniteSet(DOMAIN score)
        BY <3>1, ChecksAreFinite
    <3> QED BY <2>1, <3>1, <3>2, <3>3, TheExit
  <2> HIDE DEF Bad, score, obs
  <2> QED BY <2>1, <2>7, <2>8, <2>9 DEF score, obs
<1>2. IInv => RunsAreScored
    BY <1>1 DEF RunsAreScored
<1>3. IInv => ScoredAsItRan
    BY <1>2, TheProbeAgrees DEF ScoredAsItRan
<1> QED BY <1>3, Invariance, PTL
=============================================================================
