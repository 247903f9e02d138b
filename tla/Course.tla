------------------------------- MODULE Course -------------------------------
(* The course of one DAG run while it is stopped, resumed and amended:       *)
(* GraphRunner over its checkpoint (engine/runner.py), the executor's waves  *)
(* as far as they decide what is left to do (dag/executor.py), and           *)
(* DagJobs.drop_steps over JobManager.amend_job.                             *)
(*                                                                           *)
(* Two things say how far a run has got: the checkpoint, which the graph     *)
(* goes by, and the facts of the job's record, which its readers go by.  A   *)
(* fact is published from inside a node, before its checkpoint, and is       *)
(* persisted when the stream's reader comes to it.                           *)
EXTENDS Naturals, FiniteSets

CONSTANTS
    Step,       \* the steps a planner may plan
    Dep,        \* what each of them waits for, when that is planned too
    Caller,     \* those who call drop_steps, each at most once
    MaxStop,    \* bound on the cancels and crashes
    MayRace     \* may the run, or another caller, move on while drop_steps decides,
                \* and the record it goes by lag behind the checkpoint?

ASSUME CourseAssumption ==
    /\ IsFiniteSet(Step) /\ "plan" \notin Step /\ Dep \in [Step -> SUBSET Step]
    /\ MaxStop \in Nat /\ MayRace \in BOOLEAN

VARIABLES
    at,         \* the superstep the checkpoint stands before
    write,      \* the planner's task: nothing written, its state, or only its state for good
    draft,      \* the plan in the planner's write
    plan, done, \* the channels plan and completed_capabilities
    task,       \* the tasks of the wave: step -> running, published or written
    queue,      \* facts published and not persisted: the stream's buffer
    planFact, facts,   \* the facts of the record: the plan ({}: none yet), the steps that finished
    status,     \* of the record
    drop,       \* each drop_steps call: the step it drops, the plan it leaves
    dropped,    \* the steps that were dropped, and their caller answered
    stops       \* how often the run was stopped

vars == <<at, write, draft, plan, done, task, queue, planFact, facts, status, drop, dropped, stops>>
record == <<planFact, facts>>
checkpoint == <<at, write, draft, plan, done, task>>

NoTasks == [s \in {} |-> "running"]
NoDrop == [pc |-> "idle"]

Init ==
    /\ at = "planner" /\ write = "nothing" /\ draft = {} /\ plan = {} /\ done = {}
    /\ task = NoTasks /\ queue = {} /\ planFact = {} /\ facts = {}
    /\ status = "running" /\ drop = [c \in Caller |-> NoDrop] /\ dropped = {} /\ stops = 0

Deciding == \E c \in Caller : drop[c].pc \in {"checked", "stopped", "written"}

\* The run carries on: it is running, and overtakes no one that decides on it.
Running == status = "running" /\ (MayRace \/ ~Deciding)

----------------------------------------------------------------------------
(* The planner publishes its plan, then writes its state; its route, the     *)
(* edge to the next node, is written after that.                             *)
PlanIt ==
    /\ Running /\ at = "planner" /\ write = "nothing"
    /\ \E p \in (SUBSET Step) \ {{}} : draft' = p /\ queue' = queue \cup {"plan"}
    /\ write' = "state"
    /\ UNCHANGED <<at, plan, done, task, record, status, drop, dropped, stops>>

(* _apply: a fact is persisted as the stream brings it. *)
Persist(fact) ==
    /\ status = "running"
    /\ queue' = queue \ {fact}
    /\ \/ fact = "plan" /\ planFact' = draft /\ UNCHANGED facts
       \/ fact # "plan" /\ facts' = facts \cup {fact} /\ UNCHANGED planFact
    /\ UNCHANGED <<checkpoint, status, drop, dropped, stops>>

(* The superstep ends once the stream is read: its writes are one checkpoint. *)
Planned ==
    /\ Running /\ at = "planner" /\ write = "state" /\ queue = {}
    /\ plan' = draft /\ at' = "dispatch" /\ write' = "nothing"
    /\ UNCHANGED <<draft, done, task, queue, record, status, drop, dropped, stops>>

ReadySteps(p, finished) == {s \in p : s \notin finished /\ Dep[s] \cap p \subseteq finished}

(* Executor.route: over when as many steps are done as the plan has (_all_done  *)
(* compares the sizes), otherwise the steps that wait for nothing are sent.  *)
Dispatch ==
    /\ Running /\ at = "dispatch"
    /\ IF Cardinality(done) >= Cardinality(plan)
       THEN at' = "over" /\ status' = "done" /\ UNCHANGED task
       ELSE IF ReadySteps(plan, done) = {}
       THEN at' = "over" /\ status' = "failed" /\ UNCHANGED task
       ELSE /\ at' = "wave" /\ UNCHANGED status
            /\ task' = [s \in ReadySteps(plan, done) |-> "running"]
    /\ UNCHANGED <<write, draft, plan, done, queue, record, drop, dropped, stops>>

Publish(s) ==
    /\ Running /\ at = "wave" /\ s \in DOMAIN task /\ task[s] = "running"
    /\ task' = [task EXCEPT ![s] = "published"]
    /\ queue' = queue \cup {s}
    /\ UNCHANGED <<at, write, draft, plan, done, record, status, drop, dropped, stops>>

(* A task that finished has its writes saved beside the checkpoint. *)
Write(s) ==
    /\ Running /\ at = "wave" /\ s \in DOMAIN task /\ task[s] = "published"
    /\ task' = [task EXCEPT ![s] = "written"]
    /\ UNCHANGED <<at, write, draft, plan, done, queue, record, status, drop, dropped, stops>>

Written == {s \in DOMAIN task : task[s] = "written"}

Commit ==
    /\ Running /\ at = "wave" /\ Written = DOMAIN task /\ queue = {}
    /\ done' = done \cup Written /\ at' = "dispatch" /\ task' = NoTasks
    /\ UNCHANGED <<write, draft, plan, queue, record, status, drop, dropped, stops>>

----------------------------------------------------------------------------
(* The run is stopped where it stands.  What the stream still held is lost;  *)
(* a task that had not written runs again.  Between the planner's state and  *)
(* its edge, a cancel may keep the state with the error: half written.       *)
Stopped(cancelled) ==
    /\ queue' = {}
    /\ task' = [s \in DOMAIN task |-> IF task[s] = "written" THEN "written" ELSE "running"]
    /\ \/ write' = "nothing"
       \/ cancelled /\ write = "state" /\ write' = "half"
    /\ UNCHANGED <<at, draft, plan, done, record>>

(* A cancel, or a crash that a recovery settled. *)
Stop(cancelled) ==
    /\ status = "running" /\ stops < MaxStop
    /\ Stopped(cancelled)
    /\ status' = "stopped" /\ stops' = stops + 1
    /\ UNCHANGED <<drop, dropped>>

\* Mutant: what LangGraph calls next is all there is to run.
PendingByNext == IF at = "over" \/ write = "half" THEN {} ELSE {at}

(* pending: the next nodes (none, once a task counts as done without its     *)
(* edge) and the tasks caught half written.                                  *)
Pending ==
    (IF at = "over" \/ write = "half" THEN {} ELSE {at})
        \cup (IF write = "half" THEN {"planner"} ELSE {})

\* Mutant: a half-written task is re-entered as it is: it counts as done, and no edge follows.
ReenteredHalf ==
    IF write = "half" THEN at' = "over" /\ plan' = draft /\ status' = "done" /\ write' = "nothing"
    ELSE status' = "running" /\ UNCHANGED <<at, plan, write>>

(* _repaired: a half-written checkpoint is forked without its writes. *)
Reentered ==
    /\ write' = "nothing" /\ status' = "running"
    /\ UNCHANGED <<at, plan>>

Resume ==
    /\ status = "stopped" /\ Pending # {}
    /\ MayRace \/ ~Deciding
    /\ Reentered
    /\ UNCHANGED <<draft, done, task, queue, record, drop, dropped, stops>>

----------------------------------------------------------------------------
\* Mutant: a plan that is not in the checkpoint yet is amended all the same.
RefusesNever(s) == planFact \ {s} = {} \/ s \in facts

(* drop_steps refuses a step that is over, an empty plan, and a plan the     *)
(* checkpoint does not hold yet.                                             *)
Refuses(s) == planFact \ {s} = {} \/ s \in facts \/ "planner" \in Pending

\* What the checkpoint and its finished tasks say, the record says too.
UpToDate == queue = {} /\ done \cup Written \subseteq facts

(* drop_steps reads the record and asks the checkpoint what is pending ...   *)
Check(c) ==
    /\ drop[c].pc = "idle" /\ status \in {"running", "stopped"} /\ planFact # {}
    /\ MayRace \/ (~Deciding /\ UpToDate)
    /\ \E s \in planFact :
        drop' = [drop EXCEPT ![c] = IF Refuses(s) THEN [pc |-> "end"]
                                    ELSE [pc |-> "checked", step |-> s, left |-> planFact \ {s}]]
    /\ UNCHANGED <<checkpoint, queue, record, status, dropped, stops>>

(* ... amend_job stops the run, if it runs here ...                          *)
StopToAmend(c) ==
    /\ drop[c].pc = "checked"
    /\ drop' = [drop EXCEPT ![c].pc = "stopped"]
    /\ \/ status = "running" /\ Stopped(TRUE) /\ status' = "stopped"
       \/ status # "running" /\ UNCHANGED <<checkpoint, queue, record, status>>
    /\ UNCHANGED <<dropped, stops>>

(* ... refuses one that has nothing left to run, or writes the plan into the *)
(* checkpoint, which goes on from the node that last wrote there: a planner  *)
(* that had not ended plans again, the dispatch is routed again.  What the   *)
(* finished tasks of the stopped wave wrote is applied with it, or runs      *)
(* again ...                                                                 *)
Amend(c) ==
    /\ drop[c].pc = "stopped"
    /\ IF status = "stopped" /\ Pending # {}
       THEN /\ plan' = drop[c].left
            /\ done' \in {done, done \cup Written}
            /\ at' = IF at = "planner" THEN "planner" ELSE "dispatch"
            /\ write' = "nothing" /\ task' = NoTasks
            /\ drop' = [drop EXCEPT ![c].pc = "written"]
            /\ UNCHANGED draft
       ELSE /\ drop' = [drop EXCEPT ![c] = [pc |-> "end"]]
            /\ UNCHANGED checkpoint
    /\ UNCHANGED <<queue, record, status, dropped, stops>>

(* ... and records the plan fact and runs the job on. *)
RunOn(c) ==
    /\ drop[c].pc = "written"
    /\ planFact' = drop[c].left
    /\ dropped' = dropped \cup {drop[c].step}
    /\ status' = IF status = "stopped" THEN "running" ELSE status
    /\ drop' = [drop EXCEPT ![c] = [pc |-> "end"]]
    /\ UNCHANGED <<checkpoint, queue, facts, stops>>

Next ==
    \/ PlanIt \/ Planned \/ Dispatch \/ Commit \/ Resume
    \/ \E fact \in queue : Persist(fact)
    \/ \E cancelled \in BOOLEAN : Stop(cancelled)
    \/ \E s \in Step : Publish(s) \/ Write(s)
    \/ \E c \in Caller : Check(c) \/ StopToAmend(c) \/ Amend(c) \/ RunOn(c)

Spec == Init /\ [][Next]_vars

----------------------------------------------------------------------------
(* Types of the two accounts of the run. *)
TypeOK ==
    /\ at \in {"planner", "dispatch", "wave", "over"} /\ write \in {"nothing", "state", "half"}
    /\ {draft, plan, done, facts, dropped, DOMAIN task} \subseteq SUBSET Step
    /\ \A s \in DOMAIN task : task[s] \in {"running", "published", "written"}
    /\ planFact \subseteq Step /\ queue \subseteq Step \cup {"plan"}
    /\ status \in {"running", "stopped", "done", "failed"}
    /\ stops \in 0 .. MaxStop

(* A run that ends DONE did every step of the plan it ends with, whatever    *)
(* stopped it and whatever was dropped on the way.                           *)
NothingLeftOut == status = "done" => plan # {} /\ plan \subseteq done

(* A stop never leaves a job that says CANCELLED with steps to do and        *)
(* nothing to resume (decision 0202).                                        *)
StopsLeaveWork == status = "stopped" => Pending # {}

(* A step whose drop was answered never comes back into the plan, nor runs.  *)
DroppedStaysOut == \A s \in dropped : s \notin plan /\ s \notin DOMAIN task
============================================================================
