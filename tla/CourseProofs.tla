---------------------------- MODULE CourseProofs ----------------------------
(* What holds of Course for any steps, dependencies, callers and stops, as   *)
(* long as nothing moves on while drop_steps decides (~MayRace); that the    *)
(* runs whose spending Ledger books are runs of Course; and that the bill is *)
(* whole, in any regime.                                                     *)
EXTENDS Ledger, FiniteSetTheorems, TLAPS

DropType ==
    [pc : {"idle", "end"}] \cup [pc : {"checked", "stopped", "written"}, step : Step, left : SUBSET Step]

Typed == TypeOK /\ drop \in [Caller -> DropType]

\* Until the planner ended there is no plan to lose, and once it has, its fact
\* is persisted: the stream was read before its checkpoint.
PlanIsDrawn ==
    /\ at = "planner" => plan = {} /\ done = {} /\ DOMAIN task = {} /\ dropped = {}
    /\ at # "planner" => plan # {} /\ write = "nothing"
    /\ write = "state" => /\ status = "running" /\ draft # {}
                          /\ "plan" \notin queue => planFact = draft
    /\ write # "state" => "plan" \notin queue
    /\ write = "half" => status = "stopped"

\* What is done, under way or dropped, against the plan.
WorkIsPlanned ==
    /\ done \subseteq plan /\ DOMAIN task \subseteq plan \ done
    /\ dropped \cap plan = {}
    /\ at # "wave" => DOMAIN task = {}

EndsAreEarned ==
    /\ at = "over" <=> status \in {"done", "failed"}
    /\ status = "done" => plan \subseteq done

\* One caller at a time decides, and the record holds the plan it decides on.
OneDecides ==
    /\ \A c, e \in Caller :
        {drop[c].pc, drop[e].pc} \subseteq {"checked", "stopped", "written"} => c = e
    /\ at # "planner" /\ (\A c \in Caller : drop[c].pc # "written") => planFact = plan

\* Where a drop stands: its step is planned and not done, and leaves a plan.
DropsAreSound ==
    \A c \in Caller :
        /\ drop[c].pc \in {"checked", "stopped"} =>
             /\ at \in {"dispatch", "wave"}
             /\ drop[c].step \in plan /\ drop[c].step \notin done \cup Written
             /\ drop[c].left = plan \ {drop[c].step} /\ drop[c].left # {}
        /\ drop[c].pc = "written" =>
             at = "dispatch" /\ drop[c].left = plan /\ drop[c].step \notin plan
        /\ drop[c].pc \in {"stopped", "written"} => status = "stopped"

IInv == Typed /\ PlanIsDrawn /\ WorkIsPlanned /\ EndsAreEarned /\ OneDecides /\ DropsAreSound

-----------------------------------------------------------------------------
(* Proofs.                                                                   *)
LEMMA InitIInv == Init => IInv
    BY CourseAssumption
       DEF Init, IInv, Typed, TypeOK, DropType, PlanIsDrawn, WorkIsPlanned, EndsAreEarned, OneDecides,
           DropsAreSound, NoTasks, NoDrop

\* While the run carries on, or a drop begins, nobody decides.
LEMMA NobodyDecides ==
    ASSUME ~Deciding, NEW c \in Caller
    PROVE  drop[c].pc \notin {"checked", "stopped", "written"}
    BY DEF Deciding


\* The planner writes its plan.
LEMMA PlanItKeeps ==
    ASSUME ~MayRace, IInv, PlanIt
    PROVE  IInv'
<1> USE DEF IInv
<1>0. ~Deciding /\ \A c \in Caller : drop[c].pc \notin {"checked", "stopped", "written"}
    BY NobodyDecides DEF Running, PlanIt
<1>7. PICK p \in SUBSET Step : p # {} /\ draft' = p /\ queue' = queue \cup {"plan"}
    BY DEF PlanIt
<1>1. Typed'
    BY <1>0, <1>7 DEF Typed, TypeOK, DropType, PlanIt, Running, record
<1>2. PlanIsDrawn'
    BY <1>0, <1>7 DEF Typed, TypeOK, PlanIsDrawn, PlanIt, Running, record
<1>3. WorkIsPlanned'
    BY <1>0, <1>7 DEF Typed, TypeOK, PlanIsDrawn, WorkIsPlanned, PlanIt, Running, record
<1>4. EndsAreEarned'
    BY <1>0, <1>7 DEF Typed, TypeOK, PlanIsDrawn, WorkIsPlanned, EndsAreEarned, PlanIt, Running, record
<1>5. OneDecides'
    BY <1>0, <1>7 DEF Typed, PlanIsDrawn, OneDecides, PlanIt, Running, record
<1>6. DropsAreSound'
    BY <1>0, <1>7 DEF Typed, TypeOK, PlanIsDrawn, WorkIsPlanned, EndsAreEarned, OneDecides, DropsAreSound, Written, PlanIt, Running, record
<1> QED BY <1>1, <1>2, <1>3, <1>4, <1>5, <1>6

\* A fact is persisted; the plan's only while the planner stands.
LEMMA PersistKeeps ==
    ASSUME ~MayRace, IInv, NEW fact, fact \in queue, Persist(fact)
    PROVE  IInv'
<1> USE DEF IInv
<1>1. Typed'
    BY DEF Typed, TypeOK, DropType, Persist, checkpoint, record
<1>2. PlanIsDrawn'
    BY DEF Typed, TypeOK, PlanIsDrawn, Persist, checkpoint, record
<1>3. WorkIsPlanned'
    BY DEF Typed, TypeOK, PlanIsDrawn, WorkIsPlanned, Persist, checkpoint, record
<1>4. EndsAreEarned'
    BY DEF Typed, TypeOK, PlanIsDrawn, WorkIsPlanned, EndsAreEarned, Persist, checkpoint, record
<1>5. OneDecides'
    BY DEF Typed, PlanIsDrawn, OneDecides, Persist, checkpoint, record
<1>6. DropsAreSound'
    BY DEF Typed, TypeOK, PlanIsDrawn, WorkIsPlanned, EndsAreEarned, OneDecides, DropsAreSound, Written, Persist, checkpoint, record
<1> QED BY <1>1, <1>2, <1>3, <1>4, <1>5, <1>6

\* The planner's superstep ends.
LEMMA PlannedKeeps ==
    ASSUME ~MayRace, IInv, Planned
    PROVE  IInv'
<1> USE DEF IInv
<1>0. ~Deciding /\ \A c \in Caller : drop[c].pc \notin {"checked", "stopped", "written"}
    BY NobodyDecides DEF Running, Planned
<1>1. Typed'
    BY <1>0 DEF Typed, TypeOK, DropType, Planned, record
<1>2. PlanIsDrawn'
    BY <1>0 DEF Typed, TypeOK, PlanIsDrawn, Planned, record
<1>3. WorkIsPlanned'
    BY <1>0 DEF Typed, TypeOK, PlanIsDrawn, WorkIsPlanned, Planned, record
<1>4. EndsAreEarned'
    BY <1>0 DEF Typed, TypeOK, PlanIsDrawn, WorkIsPlanned, EndsAreEarned, Planned, record
<1>5. OneDecides'
    BY <1>0 DEF Typed, PlanIsDrawn, OneDecides, Planned, record
<1>6. DropsAreSound'
    BY <1>0 DEF Typed, TypeOK, PlanIsDrawn, WorkIsPlanned, EndsAreEarned, OneDecides, DropsAreSound, Written, Planned, record
<1> QED BY <1>1, <1>2, <1>3, <1>4, <1>5, <1>6

\* The executor routes: over, or the next wave.
LEMMA DispatchKeeps ==
    ASSUME ~MayRace, IInv, Dispatch
    PROVE  IInv'
<1> USE DEF IInv
<1>0. ~Deciding /\ \A c \in Caller : drop[c].pc \notin {"checked", "stopped", "written"}
    BY NobodyDecides DEF Running, Dispatch
<1>1. Typed'
    BY <1>0 DEF Typed, TypeOK, DropType, Dispatch, ReadySteps, record
<1>2. PlanIsDrawn'
    BY <1>0 DEF Typed, TypeOK, PlanIsDrawn, Dispatch, ReadySteps, record
<1>3. WorkIsPlanned'
    BY <1>0 DEF Typed, TypeOK, PlanIsDrawn, WorkIsPlanned, Dispatch, ReadySteps, record
<1>4. EndsAreEarned'
  <2>1. IsFiniteSet(plan) /\ done \subseteq plan
      BY CourseAssumption, FS_Subset DEF Typed, TypeOK, WorkIsPlanned
  <2>2. /\ Cardinality(plan) \in Nat /\ Cardinality(done) \in Nat
        /\ Cardinality(done) >= Cardinality(plan) => done = plan
      BY <2>1, FS_Subset, FS_CardinalityType
  <2> QED BY <2>2 DEF Dispatch, Running, EndsAreEarned
<1>5. OneDecides'
    BY <1>0 DEF Typed, PlanIsDrawn, OneDecides, Dispatch, ReadySteps, record
<1>6. DropsAreSound'
    BY <1>0 DEF Typed, TypeOK, PlanIsDrawn, WorkIsPlanned, EndsAreEarned, OneDecides, DropsAreSound, Written, Dispatch, ReadySteps, record
<1> QED BY <1>1, <1>2, <1>3, <1>4, <1>5, <1>6

\* A step finishes.
LEMMA PublishKeeps ==
    ASSUME ~MayRace, IInv, NEW s \in Step, Publish(s)
    PROVE  IInv'
<1> USE DEF IInv
<1>0. ~Deciding /\ \A c \in Caller : drop[c].pc \notin {"checked", "stopped", "written"}
    BY NobodyDecides DEF Running, Publish
<1>1. Typed'
    BY <1>0, CourseAssumption DEF Typed, TypeOK, DropType, Publish, record
<1>2. PlanIsDrawn'
    BY <1>0, CourseAssumption DEF Typed, TypeOK, PlanIsDrawn, Publish, record
<1>3. WorkIsPlanned'
    BY <1>0, CourseAssumption DEF Typed, TypeOK, PlanIsDrawn, WorkIsPlanned, Publish, record
<1>4. EndsAreEarned'
    BY <1>0, CourseAssumption DEF Typed, TypeOK, PlanIsDrawn, WorkIsPlanned, EndsAreEarned, Publish, record
<1>5. OneDecides'
    BY <1>0, CourseAssumption DEF Typed, PlanIsDrawn, OneDecides, Publish, record
<1>6. DropsAreSound'
    BY <1>0, CourseAssumption DEF Typed, TypeOK, PlanIsDrawn, WorkIsPlanned, EndsAreEarned, OneDecides, DropsAreSound, Written, Publish, record
<1> QED BY <1>1, <1>2, <1>3, <1>4, <1>5, <1>6

\* Its writes are saved.
LEMMA WriteKeeps ==
    ASSUME ~MayRace, IInv, NEW s \in Step, Write(s)
    PROVE  IInv'
<1> USE DEF IInv
<1>0. ~Deciding /\ \A c \in Caller : drop[c].pc \notin {"checked", "stopped", "written"}
    BY NobodyDecides DEF Running, Write
<1>1. Typed'
    BY <1>0 DEF Typed, TypeOK, DropType, Write, record
<1>2. PlanIsDrawn'
    BY <1>0 DEF Typed, TypeOK, PlanIsDrawn, Write, record
<1>3. WorkIsPlanned'
    BY <1>0 DEF Typed, TypeOK, PlanIsDrawn, WorkIsPlanned, Write, record
<1>4. EndsAreEarned'
    BY <1>0 DEF Typed, TypeOK, PlanIsDrawn, WorkIsPlanned, EndsAreEarned, Write, record
<1>5. OneDecides'
    BY <1>0 DEF Typed, PlanIsDrawn, OneDecides, Write, record
<1>6. DropsAreSound'
    BY <1>0 DEF Typed, TypeOK, PlanIsDrawn, WorkIsPlanned, EndsAreEarned, OneDecides, DropsAreSound, Written, Write, record
<1> QED BY <1>1, <1>2, <1>3, <1>4, <1>5, <1>6

\* The wave is merged.
LEMMA CommitKeeps ==
    ASSUME ~MayRace, IInv, Commit
    PROVE  IInv'
<1> USE DEF IInv
<1>0. ~Deciding /\ \A c \in Caller : drop[c].pc \notin {"checked", "stopped", "written"}
    BY NobodyDecides DEF Running, Commit
<1>1. Typed'
    BY <1>0 DEF Typed, TypeOK, DropType, Commit, NoTasks, Written, record
<1>2. PlanIsDrawn'
    BY <1>0 DEF Typed, TypeOK, PlanIsDrawn, Commit, NoTasks, Written, record
<1>3. WorkIsPlanned'
    BY <1>0 DEF Typed, TypeOK, PlanIsDrawn, WorkIsPlanned, Commit, NoTasks, Written, record
<1>4. EndsAreEarned'
    BY <1>0 DEF Typed, TypeOK, PlanIsDrawn, WorkIsPlanned, EndsAreEarned, Commit, NoTasks, Written, record
<1>5. OneDecides'
    BY <1>0 DEF Typed, PlanIsDrawn, OneDecides, Commit, NoTasks, Written, record
<1>6. DropsAreSound'
    BY <1>0 DEF Typed, TypeOK, PlanIsDrawn, WorkIsPlanned, EndsAreEarned, OneDecides, DropsAreSound, Written, Commit, NoTasks, record
<1> QED BY <1>1, <1>2, <1>3, <1>4, <1>5, <1>6

\* The run is stopped.
LEMMA StopKeeps ==
    ASSUME ~MayRace, IInv, NEW cancelled \in BOOLEAN, Stop(cancelled)
    PROVE  IInv'
<1> USE DEF IInv
<1>1. Typed'
    BY CourseAssumption DEF Typed, TypeOK, DropType, Stop, Stopped, record
<1>2. PlanIsDrawn'
    BY CourseAssumption DEF Typed, TypeOK, PlanIsDrawn, Stop, Stopped, record
<1>3. WorkIsPlanned'
    BY CourseAssumption DEF Typed, TypeOK, PlanIsDrawn, WorkIsPlanned, Stop, Stopped, record
<1>4. EndsAreEarned'
    BY CourseAssumption DEF Typed, TypeOK, PlanIsDrawn, WorkIsPlanned, EndsAreEarned, Stop, Stopped, record
<1>5. OneDecides'
    BY CourseAssumption DEF Typed, PlanIsDrawn, OneDecides, Stop, Stopped, record
<1>6. DropsAreSound'
    BY CourseAssumption DEF Typed, TypeOK, PlanIsDrawn, WorkIsPlanned, EndsAreEarned, OneDecides, DropsAreSound, Written, Stop, Stopped, record
<1> QED BY <1>1, <1>2, <1>3, <1>4, <1>5, <1>6

\* It is resumed.
LEMMA ResumeKeeps ==
    ASSUME ~MayRace, IInv, Resume
    PROVE  IInv'
<1> USE DEF IInv
<1>0. \A c \in Caller : drop[c].pc \notin {"checked", "stopped", "written"}
    BY NobodyDecides DEF Resume
<1>1. Typed'
    BY <1>0 DEF Typed, TypeOK, DropType, Resume, Reentered, record
<1>2. PlanIsDrawn'
    BY <1>0 DEF Typed, TypeOK, PlanIsDrawn, Resume, Reentered, record
<1>3. WorkIsPlanned'
    BY <1>0 DEF Typed, TypeOK, PlanIsDrawn, WorkIsPlanned, Resume, Reentered, record
<1>4. EndsAreEarned'
    BY <1>0 DEF Typed, TypeOK, PlanIsDrawn, WorkIsPlanned, EndsAreEarned, Resume, Reentered, record
<1>5. OneDecides'
    BY <1>0 DEF Typed, PlanIsDrawn, OneDecides, Resume, Reentered, record
<1>6. DropsAreSound'
    BY <1>0 DEF Typed, TypeOK, PlanIsDrawn, WorkIsPlanned, EndsAreEarned, OneDecides, DropsAreSound, Written, Resume, Reentered, record
<1> QED BY <1>1, <1>2, <1>3, <1>4, <1>5, <1>6

\* A caller asks whether its step can be dropped.
LEMMA CheckKeeps ==
    ASSUME ~MayRace, IInv, NEW c \in Caller, Check(c)
    PROVE  IInv'
<1> USE DEF IInv
<1>0. \A e \in Caller : drop[e].pc \notin {"checked", "stopped", "written"}
    BY NobodyDecides DEF Check
<1>1. Typed'
    BY <1>0 DEF Typed, TypeOK, DropType, Check, Refuses, Pending, UpToDate, checkpoint, record
<1>2. PlanIsDrawn'
    BY <1>0 DEF Typed, TypeOK, PlanIsDrawn, Check, Refuses, Pending, UpToDate, checkpoint, record
<1>3. WorkIsPlanned'
    BY <1>0 DEF Typed, TypeOK, PlanIsDrawn, WorkIsPlanned, Check, Refuses, Pending, UpToDate, checkpoint, record
<1>4. EndsAreEarned'
    BY <1>0 DEF Typed, TypeOK, PlanIsDrawn, WorkIsPlanned, EndsAreEarned, Check, Refuses, Pending, UpToDate, checkpoint, record
<1>5. OneDecides'
    BY <1>0 DEF Typed, PlanIsDrawn, OneDecides, Check, Refuses, Pending, UpToDate, checkpoint, record
<1>6. DropsAreSound'
    BY <1>0 DEF Typed, TypeOK, PlanIsDrawn, WorkIsPlanned, EndsAreEarned, OneDecides, DropsAreSound, Written, Check, Refuses, Pending, UpToDate, checkpoint, record
<1> QED BY <1>1, <1>2, <1>3, <1>4, <1>5, <1>6

\* It stops the run.
LEMMA StopToAmendKeeps ==
    ASSUME ~MayRace, IInv, NEW c \in Caller, StopToAmend(c)
    PROVE  IInv'
<1> USE DEF IInv
<1>1. Typed'
    BY DEF Typed, TypeOK, DropType, StopToAmend, Stopped, checkpoint, record
<1>2. PlanIsDrawn'
    BY DEF Typed, TypeOK, PlanIsDrawn, StopToAmend, Stopped, checkpoint, record
<1>3. WorkIsPlanned'
    BY DEF Typed, TypeOK, PlanIsDrawn, WorkIsPlanned, StopToAmend, Stopped, checkpoint, record
<1>4. EndsAreEarned'
    BY DEF Typed, TypeOK, PlanIsDrawn, WorkIsPlanned, EndsAreEarned, StopToAmend, Stopped, checkpoint, record
<1>5. OneDecides'
    BY DEF Typed, PlanIsDrawn, OneDecides, StopToAmend, Stopped, checkpoint, record
<1>6. DropsAreSound'
    BY DEF Typed, TypeOK, PlanIsDrawn, WorkIsPlanned, EndsAreEarned, OneDecides, DropsAreSound, Written, StopToAmend, Stopped, checkpoint, record
<1> QED BY <1>1, <1>2, <1>3, <1>4, <1>5, <1>6

\* It writes the plan without the step.
LEMMA AmendKeeps ==
    ASSUME ~MayRace, IInv, NEW c \in Caller, Amend(c)
    PROVE  IInv'
<1> USE DEF IInv
<1>0. drop \in [Caller -> DropType] /\ drop[c].pc = "stopped"
    BY DEF Typed, Amend
<1>7. /\ at \in {"dispatch", "wave"} /\ status = "stopped" /\ write = "nothing"
      /\ drop[c].step \in plan /\ drop[c].step \notin done \cup Written
      /\ drop[c].left = plan \ {drop[c].step} /\ drop[c].left # {}
    BY <1>0 DEF DropsAreSound, PlanIsDrawn
<1>8. /\ plan' = drop[c].left /\ done' \in {done, done \cup Written} /\ at' = "dispatch"
      /\ write' = "nothing" /\ task' = NoTasks /\ drop' = [drop EXCEPT ![c].pc = "written"]
      /\ UNCHANGED <<draft, queue, planFact, facts, status, dropped, stops>>
    BY <1>7 DEF Amend, Pending, record
<1>9. drop[c] \in [pc : {"checked", "stopped", "written"}, step : Step, left : SUBSET Step]
    BY <1>0 DEF DropType
<1>10. /\ drop' \in [Caller -> DropType]
       /\ drop'[c].pc = "written" /\ drop'[c].left = drop[c].left /\ drop'[c].step = drop[c].step
       /\ \A e \in Caller : e # c => drop'[e] = drop[e]
    BY <1>0, <1>8, <1>9 DEF DropType
<1>11. \A e \in Caller : e # c => drop[e].pc \notin {"checked", "stopped", "written"}
    BY <1>0 DEF OneDecides
<1>12. DOMAIN task' = {} /\ Written \subseteq DOMAIN task
    BY <1>8 DEF NoTasks, Written
<1>1. Typed'
    BY <1>0, <1>7, <1>8, <1>9, <1>10, <1>11, <1>12 DEF Typed, TypeOK, DropType
<1>2. PlanIsDrawn'
    BY <1>0, <1>7, <1>8, <1>9, <1>10, <1>11, <1>12 DEF Typed, TypeOK, PlanIsDrawn
<1>3. WorkIsPlanned'
    BY <1>0, <1>7, <1>8, <1>9, <1>10, <1>11, <1>12 DEF Typed, TypeOK, PlanIsDrawn, WorkIsPlanned
<1>4. EndsAreEarned'
    BY <1>0, <1>7, <1>8, <1>9, <1>10, <1>11, <1>12 DEF Typed, TypeOK, PlanIsDrawn, WorkIsPlanned, EndsAreEarned
<1>5. OneDecides'
    BY <1>0, <1>7, <1>8, <1>9, <1>10, <1>11, <1>12 DEF Typed, PlanIsDrawn, OneDecides
<1>6. DropsAreSound'
    BY <1>0, <1>7, <1>8, <1>9, <1>10, <1>11, <1>12 DEF Typed, TypeOK, PlanIsDrawn, WorkIsPlanned, EndsAreEarned, OneDecides, DropsAreSound, Written
<1> QED BY <1>1, <1>2, <1>3, <1>4, <1>5, <1>6

\* It records the plan and runs the job on.
LEMMA RunOnKeeps ==
    ASSUME ~MayRace, IInv, NEW c \in Caller, RunOn(c)
    PROVE  IInv'
<1> USE DEF IInv
<1>0. drop \in [Caller -> DropType] /\ drop[c].pc = "written"
    BY DEF Typed, RunOn
<1>7. /\ at = "dispatch" /\ status = "stopped" /\ drop[c].left = plan /\ drop[c].step \notin plan
    BY <1>0 DEF DropsAreSound
<1>8. drop[c] \in [pc : {"checked", "stopped", "written"}, step : Step, left : SUBSET Step]
    BY <1>0 DEF DropType
<1>9. /\ planFact' = plan /\ dropped' = dropped \cup {drop[c].step} /\ status' = "running"
      /\ drop' = [drop EXCEPT ![c] = [pc |-> "end"]]
      /\ UNCHANGED <<at, write, draft, plan, done, task, queue, facts, stops>>
    BY <1>7 DEF RunOn, checkpoint
<1>10. /\ drop' \in [Caller -> DropType] /\ drop'[c].pc = "end"
       /\ \A e \in Caller : e # c => drop'[e] = drop[e]
    BY <1>0, <1>9 DEF DropType
<1>11. \A e \in Caller : e # c => drop[e].pc \notin {"checked", "stopped", "written"}
    BY <1>0 DEF OneDecides
<1>1. Typed'
    BY <1>0, <1>7, <1>8, <1>9, <1>10, <1>11 DEF Typed, TypeOK, DropType
<1>2. PlanIsDrawn'
    BY <1>0, <1>7, <1>8, <1>9, <1>10, <1>11 DEF Typed, TypeOK, PlanIsDrawn
<1>3. WorkIsPlanned'
    BY <1>0, <1>7, <1>8, <1>9, <1>10, <1>11 DEF Typed, TypeOK, PlanIsDrawn, WorkIsPlanned
<1>4. EndsAreEarned'
    BY <1>0, <1>7, <1>8, <1>9, <1>10, <1>11 DEF Typed, TypeOK, PlanIsDrawn, WorkIsPlanned, EndsAreEarned
<1>5. OneDecides'
    BY <1>0, <1>7, <1>8, <1>9, <1>10, <1>11 DEF Typed, PlanIsDrawn, OneDecides
<1>6. DropsAreSound'
    BY <1>0, <1>7, <1>8, <1>9, <1>10, <1>11 DEF Typed, TypeOK, PlanIsDrawn, WorkIsPlanned, EndsAreEarned, OneDecides, DropsAreSound, Written
<1> QED BY <1>1, <1>2, <1>3, <1>4, <1>5, <1>6

-----------------------------------------------------------------------------
LEMMA NextIInv == ASSUME ~MayRace, IInv, [Next]_vars PROVE IInv'
<1>1. CASE UNCHANGED vars
    BY <1>1 DEF vars, IInv, Typed, TypeOK, PlanIsDrawn, WorkIsPlanned, EndsAreEarned, OneDecides,
                DropsAreSound, Written
<1>2. CASE PlanIt \/ Planned \/ Dispatch \/ Commit \/ Resume
    BY <1>2, PlanItKeeps, PlannedKeeps, DispatchKeeps, CommitKeeps, ResumeKeeps
<1>3. CASE \E fact \in queue : Persist(fact)
    BY <1>3, PersistKeeps
<1>4. CASE \E cancelled \in BOOLEAN : Stop(cancelled)
    BY <1>4, StopKeeps
<1>5. CASE \E s \in Step : Publish(s) \/ Write(s)
    BY <1>5, PublishKeeps, WriteKeeps
<1>6. CASE \E c \in Caller : Check(c) \/ StopToAmend(c) \/ Amend(c) \/ RunOn(c)
    BY <1>6, CheckKeeps, StopToAmendKeeps, AmendKeeps, RunOnKeeps
<1> QED BY <1>1, <1>2, <1>3, <1>4, <1>5, <1>6 DEF Next

LEMMA Always == ASSUME ~MayRace PROVE Spec => []IInv
<1>1. IInv /\ [Next]_vars => IInv'
    BY NextIInv
<1> QED BY <1>1, InitIInv, PTL DEF Spec

(* A run that ends DONE did every step of the plan it ends with: _all_done   *)
(* compares sizes only, and that is enough, whatever stopped the run.        *)
THEOREM NoStepIsLost == ASSUME ~MayRace PROVE Spec => []NothingLeftOut
<1>1. IInv => NothingLeftOut
    BY DEF IInv, EndsAreEarned, PlanIsDrawn, NothingLeftOut
<1> QED BY <1>1, Always, PTL

(* A stop never leaves a job that says CANCELLED with steps to do and        *)
(* nothing to resume.                                                        *)
THEOREM StoppedCanResume == ASSUME ~MayRace PROVE Spec => []StopsLeaveWork
<1>1. IInv => StopsLeaveWork
    BY DEF IInv, EndsAreEarned, StopsLeaveWork, Pending
<1> QED BY <1>1, Always, PTL

(* A step whose drop was answered never comes back into the plan, nor runs.  *)
THEOREM DropsAreFinal == ASSUME ~MayRace PROVE Spec => []DroppedStaysOut
<1>1. IInv => DroppedStaysOut
    BY DEF IInv, WorkIsPlanned, DroppedStaysOut
<1> QED BY <1>1, Always, PTL

-----------------------------------------------------------------------------
(* Ledger only watches: whatever books, saves or launches beside it, a run   *)
(* whose spending is booked is a run of Course, so that what is proved of    *)
(* Course holds of it.  Nothing is assumed of the regime.                    *)
THEOREM LedgerOnlyWatches == LedgerSpec => Spec
<1>1. LedgerInit => Init
    BY DEF LedgerInit
<1>2. [LedgerNext]_<<vars, bills>> => [Next]_vars
  <2> SUFFICES ASSUME [LedgerNext]_<<vars, bills>> PROVE [Next]_vars
      OBVIOUS
  <2>1. CASE UNCHANGED <<vars, bills>>
      BY <2>1
  <2>2. CASE \E scope \in Scope : Call(scope)
      BY <2>2 DEF Call
  <2>3. CASE \E s \in Step : StepEnds(s)
      BY <2>3 DEF StepEnds, Next
  <2>4. CASE \E s \in Launcher : Launch(s)
      BY <2>4 DEF Launch
  <2>5. CASE \E fact \in queue : Record(fact)
      BY <2>5 DEF Record, Next
  <2>6. CASE \E cancelled \in BOOLEAN : Halt(cancelled)
      BY <2>6 DEF Halt, Next
  <2>7. CASE \E c \in Caller : HaltToAmend(c)
      BY <2>7 DEF HaltToAmend, Next
  <2>8. CASE Again \/ Settle \/ Quiet
      BY <2>8 DEF Again, Settle, Quiet, Next
  <2>9. CASE ChildRuns \/ ChildCancelled
      BY <2>9 DEF ChildRuns, ChildCancelled
  <2> QED BY <2>1, <2>2, <2>3, <2>4, <2>5, <2>6, <2>7, <2>8, <2>9 DEF LedgerNext
<1> QED BY <1>1, <1>2, PTL DEF LedgerSpec, Spec

(* What is saved of the calls: once a job is no longer running, every call   *)
(* that counts is in its record's bill; a job that a step launched and that  *)
(* ran pays for its own call and no other's.                                 *)
SavedByTheEnd ==
    /\ status # "running" => made = kept
    /\ child.status = "done" => child.usage = Booked(AnswerOf[Child])

ChildIsARecord == child = [status |-> child.status, usage |-> child.usage]

LEMMA NextSaves ==
    ASSUME SavedByTheEnd, ChildIsARecord, [LedgerNext]_<<vars, bills>>
    PROVE  SavedByTheEnd' /\ ChildIsARecord'
<1> DEFINE LInv == SavedByTheEnd /\ ChildIsARecord
<1>1. ASSUME UNCHANGED child, status' # "running" => made' = kept' PROVE LInv'
    BY <1>1 DEF SavedByTheEnd, ChildIsARecord
<1>2. ASSUME UNCHANGED <<status, made, kept>>,
             \/ UNCHANGED child
             \/ child' = [status |-> "done", usage |-> Booked(AnswerOf[Child])]
             \/ \E st \in {"queued", "cancelled"} : \E u : child' = [status |-> st, usage |-> u]
      PROVE  LInv'
    BY <1>2 DEF SavedByTheEnd, ChildIsARecord
<1>3. CASE UNCHANGED <<vars, bills>>
    BY <1>2, <1>3 DEF vars, bills
<1>4. CASE \E scope \in Scope : Call(scope)
    BY <1>1, <1>4 DEF Call, Running, vars
<1>5. CASE \E s \in Step : StepEnds(s)
    BY <1>2, <1>5 DEF StepEnds, Publish
<1>6. CASE \E s \in Launcher : Launch(s)
  <2>1. child' = [status |-> "queued", usage |-> Total] /\ UNCHANGED <<vars, made, kept>>
      BY <1>6 DEF Launch, ChildIsARecord
  <2> QED BY <1>2, <2>1 DEF vars
<1>7. CASE \E fact \in queue : Record(fact)
    BY <1>1, <1>7 DEF Record, Persist, Save
<1>8. CASE \E cancelled \in BOOLEAN : Halt(cancelled)
    BY <1>1, <1>8 DEF Halt, Save, Unsaved
<1>9. CASE \E c \in Caller : HaltToAmend(c)
    BY <1>1, <1>9 DEF HaltToAmend, Save, Unsaved, StopToAmend, SavedByTheEnd
<1>10. CASE Again
    BY <1>1, <1>10 DEF Again, Resume, Reentered, RunOn, SavedByTheEnd
<1>11. CASE Settle
    BY <1>1, <1>11 DEF Settle, Save, Unsaved
<1>12. CASE Quiet
    BY <1>2, <1>12 DEF Quiet, bills, PlanIt, Planned, Commit, Write, Check, Amend
<1>13. CASE ChildRuns \/ ChildCancelled
  <2>1. /\ UNCHANGED <<vars, made, kept>>
        /\ \/ child' = [status |-> "done", usage |-> Booked(AnswerOf[Child])]
           \/ child' = [status |-> "cancelled", usage |-> child.usage]
      BY <1>13 DEF ChildRuns, ChildCancelled, ChildIsARecord
  <2> QED BY <1>2, <2>1 DEF vars
<1> QED BY <1>3, <1>4, <1>5, <1>6, <1>7, <1>8, <1>9, <1>10, <1>11, <1>12, <1>13 DEF LedgerNext

(* No call is forgotten: in any regime, once the job is no longer running    *)
(* every call that counts was in the bill at its last save, and a launched   *)
(* job that ran has the bill of its own call.                                *)
THEOREM NoCallIsForgotten == LedgerSpec => []SavedByTheEnd
<1> DEFINE LInv == SavedByTheEnd /\ ChildIsARecord
<1>1. LedgerInit => LInv
    BY DEF LedgerInit, Init, SavedByTheEnd, ChildIsARecord
<1>2. LInv /\ [LedgerNext]_<<vars, bills>> => LInv'
    BY NextSaves
<1>3. LInv => SavedByTheEnd
    OBVIOUS
<1> QED BY <1>1, <1>2, <1>3, PTL DEF LedgerSpec

-----------------------------------------------------------------------------
(* Bills.  Ledger adds them up with a fold over a set; that the order does   *)
(* not matter, and what follows from it, is proved of the fold itself, by    *)
(* least counterexamples among the subsets of a finite set.                  *)
\* What induction on a finite set comes to: a smallest one of some subsets.
LEMMA Smallest ==
    ASSUME NEW S, IsFiniteSet(S), NEW Some \in SUBSET SUBSET S, Some # {}
    PROVE  \E T \in Some : \A U \in Some : U \subseteq T => U = T
<1> DEFINE Order == StrictSubsetOrdering(S)
           Finite == FiniteSubsetsOf(S)
<1>1. IsWellFoundedOn(Order, Finite)
    BY FS_StrictSubsetOrderingWellFounded
<1>2. Some \subseteq Finite
    BY FS_Subset DEF FiniteSubsetsOf
<1>3. PICK T \in Some : \A U \in Some : ~ (<<U, T>> \in Order)
    <2> HIDE DEF Order, Finite
    <2> QED BY <1>1, <1>2, WFMin
<1>4. ASSUME NEW U \in Some, U \subseteq T, U # T PROVE FALSE
    BY <1>3, <1>4 DEF StrictSubsetOrdering
<1> QED BY <1>4

\* The tallies there can be: a monoid under Plus, whatever the prices.
Spent == [input : Nat, cached : Nat, calls : Nat, cost : Int \cup {Unpriced}]

LEMMA ZeroSpent == Zero \in Spent
    BY DEF Zero, Spent
LEMMA PlusSpent == \A u, v \in Spent : Plus(u, v) \in Spent
    BY LedgerAssumption DEF Plus, Spent, Amount
LEMMA PlusZero == \A u \in Spent : Plus(u, Zero) = u
<1> SUFFICES ASSUME NEW u \in Spent PROVE Plus(u, Zero) = u
    OBVIOUS
<1>1. u = [input |-> u.input, cached |-> u.cached, calls |-> u.calls, cost |-> u.cost]
    BY DEF Spent
<1> QED BY <1>1, LedgerAssumption DEF Plus, Spent, Amount, Zero
LEMMA PlusCommutes == \A u, v \in Spent : Plus(u, v) = Plus(v, u)
    BY LedgerAssumption DEF Plus, Spent, Amount
LEMMA AmountAdds ==
    \A u, v \in Spent : Amount(u) \in Int /\ Amount(Plus(u, v)) = Amount(u) + Amount(v)
    BY LedgerAssumption DEF Plus, Spent, Amount
LEMMA CostIsKnown ==
    ASSUME NEW u \in Spent, NEW v \in Spent
    PROVE  (Plus(u, v).cost = Unpriced) <=> (u.cost = Unpriced /\ v.cost = Unpriced)
<1>1. Amount(u) + Amount(v) \in Int
    BY AmountAdds
<1>2. Amount(u) + Amount(v) # Unpriced
    BY <1>1, LedgerAssumption
<1> QED BY <1>2 DEF Plus
LEMMA PlusAssociates == \A u, v, w \in Spent : Plus(u, Plus(v, w)) = Plus(Plus(u, v), w)
<1> SUFFICES ASSUME NEW u \in Spent, NEW v \in Spent, NEW w \in Spent
             PROVE  Plus(u, Plus(v, w)) = Plus(Plus(u, v), w)
    OBVIOUS
<1> DEFINE l == Plus(u, Plus(v, w))
           r == Plus(Plus(u, v), w)
<1>1. Plus(u, v) \in Spent /\ Plus(v, w) \in Spent
    BY PlusSpent
<1>2. l \in Spent /\ r \in Spent
    BY <1>1, PlusSpent
<1>3. l.input = r.input /\ l.cached = r.cached /\ l.calls = r.calls
    BY DEF Plus, Spent
<1>4. Amount(l) = Amount(r)
    BY <1>1, AmountAdds
<1>5. (l.cost = Unpriced) <=> (u.cost = Unpriced /\ v.cost = Unpriced /\ w.cost = Unpriced)
    BY <1>1, CostIsKnown
<1>6. (r.cost = Unpriced) <=> (u.cost = Unpriced /\ v.cost = Unpriced /\ w.cost = Unpriced)
    BY <1>1, CostIsKnown
<1>7. l.cost = r.cost
  <2> HIDE DEF l, r
  <2>1. CASE l.cost = Unpriced
      BY <2>1, <1>5, <1>6
  <2>2. CASE l.cost # Unpriced
    <3>1. r.cost # Unpriced
        BY <2>2, <1>5, <1>6
    <3> QED BY <3>1, <2>2, <1>4 DEF Amount
  <2> QED BY <2>1, <2>2
<1> HIDE DEF l, r
<1>8. l = [input |-> l.input, cached |-> l.cached, calls |-> l.calls, cost |-> l.cost]
    BY <1>2 DEF Spent
<1>9. r = [input |-> r.input, cached |-> r.cached, calls |-> r.calls, cost |-> r.cost]
    BY <1>2 DEF Spent
<1>10. l = r
    BY <1>3, <1>7, <1>8, <1>9
<1> QED BY <1>10 DEF l, r

\* The function that the fold computes, over the subsets of S.
IsIter(fun, iter, S) == iter = [s \in SUBSET S |-> IF s = {} THEN Zero ELSE
    LET x == CHOOSE y \in s : TRUE IN Plus(fun[x], iter[s \ {x}])]
Iter(fun, S) == CHOOSE iter : IsIter(fun, iter, S)
Bill(fun, S) == FoldFunctionOnSet(Plus, Zero, fun, S)

LEMMA BillIter == ASSUME NEW fun, NEW S PROVE Bill(fun, S) = Iter(fun, S)[S]
   BY Zenon DEF FoldFunctionOnSet, MapThenFoldSet, Iter, IsIter, Bill

LEMMA IterAt ==
    ASSUME NEW fun, NEW iter, NEW S, IsIter(fun, iter, S), NEW T \in SUBSET S
    PROVE  LET x == CHOOSE y \in T : TRUE
           IN  iter[T] = IF T = {} THEN Zero ELSE Plus(fun[x], iter[T \ {x}])
    BY DEF IsIter

LEMMA OneIter ==
    ASSUME NEW fun, NEW S, IsFiniteSet(S), NEW T, NEW g, NEW h,
           IsIter(fun, g, S), IsIter(fun, h, T), T \subseteq S
    PROVE  \A U \in SUBSET T : g[U] = h[U]
<1> DEFINE Some == {U \in SUBSET T : g[U] # h[U]}
<1> SUFFICES ASSUME Some # {} PROVE FALSE
    OBVIOUS
<1>1. PICK U \in Some : \A V \in Some : V \subseteq U => V = U
  <2>1. Some \in SUBSET SUBSET S
      OBVIOUS
  <2> HIDE DEF Some
  <2> QED BY <2>1, Smallest
<1> DEFINE x == CHOOSE y \in U : TRUE
<1>2. g[U] = IF U = {} THEN Zero ELSE Plus(fun[x], g[U \ {x}])
    BY IterAt
<1>3. h[U] = IF U = {} THEN Zero ELSE Plus(fun[x], h[U \ {x}])
    BY IterAt, U \in SUBSET T
<1>4. CASE U = {}
    BY <1>2, <1>3, <1>4
<1>5. CASE U # {}
  <2>1. x \in U
      BY <1>5
  <2> HIDE DEF x
  <2>2. U \ {x} \subseteq U /\ U \ {x} # U /\ U \ {x} \in SUBSET T
      BY <2>1
  <2>3. g[U \ {x}] = h[U \ {x}]
      BY <1>1, <2>2
  <2> QED BY <1>2, <1>3, <1>5, <2>3
<1> QED BY <1>4, <1>5

LEMMA IterExists ==
    ASSUME NEW fun, NEW S, IsFiniteSet(S)
    PROVE  \A T \in SUBSET S : IsIter(fun, Iter(fun, T), T)
<1> DEFINE Some == {T \in SUBSET S : ~IsIter(fun, Iter(fun, T), T)}
<1> SUFFICES ASSUME Some # {} PROVE FALSE
    OBVIOUS
<1>1. PICK T \in Some : \A U \in Some : U \subseteq T => U = T
  <2>1. Some \in SUBSET SUBSET S
      OBVIOUS
  <2> HIDE DEF Some
  <2> QED BY <2>1, Smallest
<1>2. IsFiniteSet(T)
    BY FS_Subset
<1>3. ASSUME NEW U \in SUBSET T, U # T PROVE IsIter(fun, Iter(fun, U), U)
    BY <1>1, <1>3
<1> DEFINE g == [s \in SUBSET T |-> IF s = {} THEN Zero ELSE
                    LET x == CHOOSE y \in s : TRUE IN Plus(fun[x], Iter(fun, s \ {x})[s \ {x}])]
<1>4. ASSUME NEW U \in SUBSET T, U # T PROVE g[U] = Iter(fun, U)[U]
  <2> DEFINE x == CHOOSE y \in U : TRUE
             V == U \ {x}
  <2>1. IsIter(fun, Iter(fun, U), U)
      BY <1>3, <1>4
  <2>2. Iter(fun, U)[U] = IF U = {} THEN Zero ELSE Plus(fun[x], Iter(fun, U)[V])
      BY <2>1, IterAt
  <2>3. g[U] = IF U = {} THEN Zero ELSE Plus(fun[x], Iter(fun, V)[V])
      OBVIOUS
  <2>4. ASSUME U # {} PROVE Iter(fun, U)[V] = Iter(fun, V)[V]
    <3>1. x \in U
        BY <2>4
    <3> HIDE DEF x
    <3>2. V \subseteq U /\ V \in SUBSET T /\ V # T
        BY <3>1
    <3>3. IsIter(fun, Iter(fun, V), V)
        BY <1>3, <3>2
    <3>4. IsFiniteSet(U)
        BY <1>2, FS_Subset
    <3> HIDE DEF V
    <3> QED BY <2>1, <3>2, <3>3, <3>4, OneIter
  <2> QED BY <2>2, <2>3, <2>4
<1>5. ASSUME NEW s \in SUBSET T
      PROVE  g[s] = IF s = {} THEN Zero ELSE LET x == CHOOSE y \in s : TRUE IN Plus(fun[x], g[s \ {x}])
  <2> DEFINE x == CHOOSE y \in s : TRUE
             V == s \ {x}
  <2>1. g[s] = IF s = {} THEN Zero ELSE Plus(fun[x], Iter(fun, V)[V])
      OBVIOUS
  <2>2. ASSUME s # {} PROVE g[V] = Iter(fun, V)[V]
    <3>1. x \in s
        BY <2>2
    <3> HIDE DEF x
    <3>2. V \in SUBSET T /\ V # T
        BY <3>1
    <3> HIDE DEF V, g
    <3> QED BY <1>4, <3>2
  <2> HIDE DEF g
  <2> QED BY <2>1, <2>2
<1>6. g = [s \in SUBSET T |-> g[s]]
    OBVIOUS
<1> HIDE DEF g
<1>7. IsIter(fun, g, T)
  <2>1. g = [s \in SUBSET T |-> IF s = {} THEN Zero ELSE LET x == CHOOSE y \in s : TRUE IN Plus(fun[x], g[s \ {x}])]
      BY <1>5, <1>6
  <2> QED BY <2>1 DEF IsIter
<1> QED BY <1>1, <1>7 DEF Iter

\* A bill unfolds ...
LEMMA BillUnfolds ==
    ASSUME NEW fun, NEW S, IsFiniteSet(S)
    PROVE  LET x == CHOOSE y \in S : TRUE
           IN  Bill(fun, S) = IF S = {} THEN Zero ELSE Plus(fun[x], Bill(fun, S \ {x}))
<1> DEFINE x == CHOOSE y \in S : TRUE
           T == S \ {x}
<1>1. IsIter(fun, Iter(fun, S), S) /\ IsIter(fun, Iter(fun, T), T)
    BY IterExists
<1>2. Iter(fun, S)[S] = IF S = {} THEN Zero ELSE Plus(fun[x], Iter(fun, S)[T])
    BY <1>1, IterAt
<1>3. Iter(fun, S)[T] = Iter(fun, T)[T]
    BY <1>1, OneIter
<1> HIDE DEF x, T
<1>4. Bill(fun, S) = Iter(fun, S)[S] /\ Bill(fun, T) = Iter(fun, T)[T]
    BY BillIter
<1> QED BY <1>2, <1>3, <1>4 DEF x, T

LEMMA BillSpent ==
    ASSUME NEW fun, NEW S, IsFiniteSet(S), \A y \in S : fun[y] \in Spent
    PROVE  \A T \in SUBSET S : Bill(fun, T) \in Spent
<1> DEFINE Some == {T \in SUBSET S : Bill(fun, T) \notin Spent}
<1> SUFFICES ASSUME Some # {} PROVE FALSE
    OBVIOUS
<1>1. PICK T \in Some : \A U \in Some : U \subseteq T => U = T
  <2>1. Some \in SUBSET SUBSET S
      OBVIOUS
  <2> HIDE DEF Some
  <2> QED BY <2>1, Smallest
<1> DEFINE x == CHOOSE y \in T : TRUE
<1>2. IsFiniteSet(T)
    BY FS_Subset
<1>3. Bill(fun, T) = IF T = {} THEN Zero ELSE Plus(fun[x], Bill(fun, T \ {x}))
    BY <1>2, BillUnfolds
<1>4. ASSUME T # {} PROVE x \in T
    BY <1>4
<1> HIDE DEF x
<1>5. ASSUME T # {} PROVE fun[x] \in Spent /\ Bill(fun, T \ {x}) \in Spent
  <2>1. x \in T /\ T \ {x} \subseteq T /\ T \ {x} # T
      BY <1>4, <1>5
  <2> QED BY <1>1, <2>1
<1> QED BY <1>1, <1>3, <1>5, ZeroSpent, PlusSpent

\* ... whichever entry is taken first.
LEMMA BillPicks ==
    ASSUME NEW fun, NEW S, IsFiniteSet(S), \A y \in S : fun[y] \in Spent
    PROVE  \A T \in SUBSET S : \A a \in T : Bill(fun, T) = Plus(fun[a], Bill(fun, T \ {a}))
<1> DEFINE Some == {T \in SUBSET S : \E a \in T : Bill(fun, T) # Plus(fun[a], Bill(fun, T \ {a}))}
<1> SUFFICES ASSUME Some # {} PROVE FALSE
    OBVIOUS
<1>1. PICK T \in Some : \A U \in Some : U \subseteq T => U = T
  <2>1. Some \in SUBSET SUBSET S
      OBVIOUS
  <2> HIDE DEF Some
  <2> QED BY <2>1, Smallest
<1>2. PICK a \in T : Bill(fun, T) # Plus(fun[a], Bill(fun, T \ {a}))
    OBVIOUS
<1> DEFINE x == CHOOSE y \in T : TRUE
<1>3. x \in T
    BY <1>2
<1>4. IsFiniteSet(T)
    BY FS_Subset
<1>5. Bill(fun, T) = Plus(fun[x], Bill(fun, T \ {x}))
    BY <1>2, <1>4, BillUnfolds
<1> HIDE DEF x
<1>6. x # a
    BY <1>2, <1>5
<1> DEFINE V == T \ {a, x}
<1>7. T \ {x} \in SUBSET S /\ T \ {a} \in SUBSET S /\ V \in SUBSET S
    OBVIOUS
<1>8. Bill(fun, T \ {x}) = Plus(fun[a], Bill(fun, V))
  <2>1. T \ {x} \notin Some /\ a \in T \ {x} /\ V = (T \ {x}) \ {a}
      BY <1>1, <1>3, <1>6
  <2> QED BY <1>7, <2>1
<1>9. Bill(fun, T \ {a}) = Plus(fun[x], Bill(fun, V))
  <2>1. T \ {a} \notin Some /\ x \in T \ {a} /\ V = (T \ {a}) \ {x}
      BY <1>1, <1>2, <1>3, <1>6
  <2> QED BY <1>7, <2>1
<1>10. fun[a] \in Spent /\ fun[x] \in Spent /\ Bill(fun, V) \in Spent
    BY <1>1, <1>2, <1>3, <1>7, BillSpent
<1>11. Plus(fun[x], Plus(fun[a], Bill(fun, V))) = Plus(fun[a], Plus(fun[x], Bill(fun, V)))
    BY <1>10, PlusAssociates, PlusCommutes
<1> QED BY <1>2, <1>5, <1>8, <1>9, <1>11

LEMMA BillOfNothing == ASSUME NEW fun PROVE Bill(fun, {}) = Zero
<1>1. IsFiniteSet({})
    BY FS_EmptySet
<1> QED BY <1>1, BillUnfolds

\* Entries that agree make one bill.
LEMMA BillAgrees ==
    ASSUME NEW f, NEW g, NEW S, IsFiniteSet(S), \A y \in S : f[y] = g[y] /\ f[y] \in Spent
    PROVE  \A T \in SUBSET S : Bill(f, T) = Bill(g, T)
<1> DEFINE Some == {T \in SUBSET S : Bill(f, T) # Bill(g, T)}
<1> SUFFICES ASSUME Some # {} PROVE FALSE
    OBVIOUS
<1>1. PICK T \in Some : \A U \in Some : U \subseteq T => U = T
  <2>1. Some \in SUBSET SUBSET S
      OBVIOUS
  <2> HIDE DEF Some
  <2> QED BY <2>1, Smallest
<1>2. T # {}
    BY BillOfNothing
<1>3. PICK a : a \in T
    BY <1>2
<1>4. Bill(f, T) = Plus(f[a], Bill(f, T \ {a})) /\ Bill(g, T) = Plus(g[a], Bill(g, T \ {a}))
    BY <1>3, BillPicks
<1>5. Bill(f, T \ {a}) = Bill(g, T \ {a})
    BY <1>1, <1>3
<1> QED BY <1>1, <1>3, <1>4, <1>5

LEMMA BillAdds ==
    ASSUME NEW f, NEW g, NEW S, IsFiniteSet(S), \A y \in S : f[y] \in Spent,
           NEW a \in S, NEW u \in Spent, g[a] = Plus(f[a], u), \A y \in S \ {a} : g[y] = f[y]
    PROVE  Bill(g, S) = Plus(Bill(f, S), u)
<1>1. \A y \in S : g[y] \in Spent
    BY PlusSpent
<1>2. Bill(g, S) = Plus(g[a], Bill(g, S \ {a})) /\ Bill(f, S) = Plus(f[a], Bill(f, S \ {a}))
    BY <1>1, BillPicks
<1>3. IsFiniteSet(S \ {a})
    BY FS_Subset
<1>4. Bill(g, S \ {a}) = Bill(f, S \ {a})
    BY <1>3, BillAgrees
<1>5. f[a] \in Spent /\ Bill(f, S \ {a}) \in Spent
    BY BillSpent
<1>6. Plus(Plus(f[a], u), Bill(f, S \ {a})) = Plus(Plus(f[a], Bill(f, S \ {a})), u)
    BY <1>5, PlusAssociates, PlusCommutes
<1> QED BY <1>2, <1>4, <1>6

LEMMA BillGrows ==
    ASSUME NEW f, NEW g, NEW S, IsFiniteSet(S), \A y \in S : f[y] \in Spent,
           NEW a, a \notin S, NEW u \in Spent, g[a] = u, \A y \in S : g[y] = f[y]
    PROVE  Bill(g, S \cup {a}) = Plus(Bill(f, S), u)
<1> DEFINE T == S \cup {a}
<1>1. IsFiniteSet(T) /\ T \ {a} = S /\ a \in T /\ \A y \in T : g[y] \in Spent
    BY FS_AddElement
<1> HIDE DEF T
<1>2. Bill(g, T) = Plus(u, Bill(g, S))
    BY <1>1, BillPicks
<1>3. Bill(g, S) = Bill(f, S) /\ Bill(f, S) \in Spent
    BY BillAgrees, BillSpent
<1>4. Plus(u, Bill(f, S)) = Plus(Bill(f, S), u)
    BY <1>3, PlusCommutes
<1> QED BY <1>2, <1>3, <1>4 DEF T

\* A bill of empty entries is empty.
LEMMA BillOfZeros ==
    ASSUME NEW f, NEW S, IsFiniteSet(S), \A y \in S : f[y] = Zero
    PROVE  Bill(f, S) = Zero
<1> DEFINE Some == {T \in SUBSET S : Bill(f, T) # Zero}
<1> SUFFICES ASSUME Some # {} PROVE FALSE
    OBVIOUS
<1>1. PICK T \in Some : \A U \in Some : U \subseteq T => U = T
  <2>1. Some \in SUBSET SUBSET S
      OBVIOUS
  <2> HIDE DEF Some
  <2> QED BY <2>1, Smallest
<1>2. PICK a : a \in T
    BY BillOfNothing
<1>3. Bill(f, T) = Plus(f[a], Bill(f, T \ {a}))
    BY <1>2, BillPicks, ZeroSpent
<1>4. Bill(f, T \ {a}) = Zero
    BY <1>1, <1>2
<1>5. Plus(Zero, Zero) = Zero
    BY ZeroSpent, PlusZero
<1> QED BY <1>2, <1>3, <1>4, <1>5

\* Nothing is spent without a call.
Called(u) == u.calls = 0 => u = Zero

LEMMA BillCalled ==
    ASSUME NEW f, NEW S, IsFiniteSet(S), \A y \in S : f[y] \in Spent /\ Called(f[y])
    PROVE  Called(Bill(f, S))
<1> DEFINE Some == {T \in SUBSET S : ~Called(Bill(f, T))}
<1> SUFFICES ASSUME Some # {} PROVE FALSE
    OBVIOUS
<1>1. PICK T \in Some : \A U \in Some : U \subseteq T => U = T
  <2>1. Some \in SUBSET SUBSET S
      OBVIOUS
  <2> HIDE DEF Some
  <2> QED BY <2>1, Smallest
<1>2. PICK a : a \in T
    BY BillOfNothing DEF Called
<1>3. Bill(f, T) = Plus(f[a], Bill(f, T \ {a})) /\ f[a] \in Spent /\ Bill(f, T \ {a}) \in Spent
    BY <1>2, BillPicks, BillSpent
<1>4. Called(f[a]) /\ Called(Bill(f, T \ {a}))
    BY <1>1, <1>2
<1>5. ASSUME Bill(f, T).calls = 0 PROVE f[a].calls = 0 /\ Bill(f, T \ {a}).calls = 0
    BY <1>3, <1>5 DEF Plus, Spent
<1>6. Plus(Zero, Zero) = Zero
    BY ZeroSpent, PlusZero
<1> QED BY <1>3, <1>4, <1>5, <1>6 DEF Called

-----------------------------------------------------------------------------
\* A tally that exceeds another nowhere.
Within(u, v) ==
    u.input <= v.input /\ u.cached <= v.cached /\ u.calls <= v.calls /\ Amount(u) <= Amount(v)

LEMMA WithinAdds ==
    ASSUME NEW u \in Spent, NEW v \in Spent, NEW x \in Spent, NEW y \in Spent, Within(u, x), Within(v, y)
    PROVE  Within(Plus(u, v), Plus(x, y))
<1>1. Amount(Plus(u, v)) <= Amount(Plus(x, y))
    BY AmountAdds DEF Within
<1> QED BY <1>1 DEF Within, Plus, Spent

LEMMA BillWithin ==
    ASSUME NEW f, NEW g, NEW S, IsFiniteSet(S),
           \A y \in S : f[y] \in Spent /\ g[y] \in Spent /\ Within(f[y], g[y])
    PROVE  Within(Bill(f, S), Bill(g, S))
<1> DEFINE Some == {T \in SUBSET S : ~Within(Bill(f, T), Bill(g, T))}
<1> SUFFICES ASSUME Some # {} PROVE FALSE
    OBVIOUS
<1>1. PICK T \in Some : \A U \in Some : U \subseteq T => U = T
  <2>1. Some \in SUBSET SUBSET S
      OBVIOUS
  <2> HIDE DEF Some
  <2> QED BY <2>1, Smallest
<1>2. Within(Zero, Zero)
    BY DEF Within, Zero, Amount
<1>3. PICK a : a \in T
    BY <1>2, BillOfNothing
<1>4. Bill(f, T) = Plus(f[a], Bill(f, T \ {a})) /\ Bill(g, T) = Plus(g[a], Bill(g, T \ {a}))
    BY <1>3, BillPicks
<1>5. Within(Bill(f, T \ {a}), Bill(g, T \ {a}))
    BY <1>1, <1>3
<1>6. f[a] \in Spent /\ g[a] \in Spent /\ Bill(f, T \ {a}) \in Spent /\ Bill(g, T \ {a}) \in Spent
    BY <1>3, BillSpent
<1>7. Within(f[a], g[a])
    BY <1>3
<1> QED BY <1>4, <1>5, <1>6, <1>7, WithinAdds

\* A part of a bill is within it.
LEMMA BillOfPart ==
    ASSUME NEW f, NEW S, IsFiniteSet(S), \A y \in S : f[y] \in Spent /\ Within(Zero, f[y]), NEW T \in SUBSET S
    PROVE  Within(Bill(f, T), Bill(f, S))
<1> DEFINE Some == {U \in SUBSET S : T \subseteq U /\ ~Within(Bill(f, T), Bill(f, U))}
<1> SUFFICES ASSUME Some # {} PROVE FALSE
    OBVIOUS
<1>1. PICK U \in Some : \A V \in Some : V \subseteq U => V = U
  <2>1. Some \in SUBSET SUBSET S
      OBVIOUS
  <2> HIDE DEF Some
  <2> QED BY <2>1, Smallest
<1>2. Bill(f, T) \in Spent
    BY BillSpent
<1>3. Within(Bill(f, T), Bill(f, T))
    BY <1>2, AmountAdds DEF Within, Spent
<1>4. PICK a : a \in U \ T
  <2>1. T \subseteq U /\ U # T
      BY <1>1, <1>3
  <2> QED BY <2>1
<1>5. Bill(f, U) = Plus(f[a], Bill(f, U \ {a})) /\ f[a] \in Spent /\ Bill(f, U \ {a}) \in Spent
    BY <1>4, BillPicks, BillSpent
<1>6. Within(Bill(f, T), Bill(f, U \ {a}))
    BY <1>1, <1>4
<1>7. Within(Plus(Zero, Bill(f, T)), Bill(f, U))
    BY <1>2, <1>4, <1>5, <1>6, WithinAdds, ZeroSpent
<1>8. Plus(Zero, Bill(f, T)) = Bill(f, T)
    BY <1>2, PlusZero, PlusCommutes, ZeroSpent
<1> QED BY <1>7, <1>8

-----------------------------------------------------------------------------
\* price_for finds a row of the table: there is a longest family that fits.
LEMMA LongestFits ==
    ASSUME NEW model \in Seq(STRING), Families(model) # {}
    PROVE  (CHOOSE f \in Families(model) : \A g \in Families(model) : Len(g) <= Len(f)) \in DOMAIN Table
<1> DEFINE Rest(f) == (Len(f) + 1)..Len(model)
           Some == {Rest(f) : f \in Families(model)}
           All == 1..Len(model)
<1>0. Len(model) \in Nat
    OBVIOUS
<1>1. \A f \in Families(model) : f \in DOMAIN Table /\ f \in Seq(STRING) /\ Len(f) <= Len(model)
    BY LedgerAssumption DEF Families, Table
<1>2. Some \in SUBSET SUBSET All /\ Some # {}
    BY <1>1
<1>3. IsFiniteSet(All)
    BY <1>0, FS_Interval
<1>4. PICK T \in Some : \A U \in Some : U \subseteq T => U = T
  <2> HIDE DEF Some, All
  <2> QED BY <1>2, <1>3, Smallest
<1>5. PICK f \in Families(model) : T = Rest(f)
    OBVIOUS
<1>6. ASSUME NEW g \in Families(model), ~(Len(g) <= Len(f)) PROVE FALSE
  <2>1. Len(f) \in Nat /\ Len(g) \in Nat /\ Len(f) < Len(g) /\ Len(g) <= Len(model)
      BY <1>1, <1>6
  <2>2. Rest(g) \subseteq Rest(f) /\ Len(g) \in Rest(f) /\ Len(g) \notin Rest(g)
      BY <2>1
  <2> QED BY <1>4, <1>5, <2>2
<1>7. \E h \in Families(model) : \A g \in Families(model) : Len(g) <= Len(h)
    BY <1>6
<1> QED BY <1>1, <1>7

LEMMA PriceType ==
    ASSUME NEW s \in Scope \cup {Child}, PriceFor(AnswerOf[s].model) # Unpriced
    PROVE  LET price == PriceFor(AnswerOf[s].model)
           IN  \E prices \in {DefaultPrices, Overrides} : \E f \in DOMAIN prices : price = prices[f]
<1> DEFINE longest == CHOOSE f \in Families(AnswerOf[s].model) :
                        \A g \in Families(AnswerOf[s].model) : Len(g) <= Len(f)
<1>1. longest \in DOMAIN Table /\ PriceFor(AnswerOf[s].model) = Table[longest]
    BY LongestFits, LedgerAssumption DEF PriceFor
<1> HIDE DEF longest
<1> QED BY <1>1 DEF Table

LEMMA BookedSpent ==
    ASSUME NEW s \in Scope \cup {Child}
    PROVE  Booked(AnswerOf[s]) \in Spent /\ Booked(AnswerOf[s]).calls = 1
<1> DEFINE answer == AnswerOf[s]
           price == PriceFor(answer.model)
           input == IF answer.input > answer.cached THEN answer.input - answer.cached ELSE 0
<1>1. answer.input \in Nat /\ answer.cached \in Nat
    BY LedgerAssumption
<1>2. input \in Nat
    BY <1>1
<1>3. ASSUME price # Unpriced PROVE Cost(price, input, answer.cached) \in Int
  <2>1. price.input \in Int /\ price.cached \in Int \cup {Unpriced}
      BY <1>3, PriceType, LedgerAssumption
  <2>2. price.input \div 10 \in Int
      BY <2>1
  <2> HIDE DEF price, input, answer
  <2>3. (IF price.cached = Unpriced THEN price.input \div 10 ELSE price.cached) \in Int
      BY <2>1, <2>2
  <2> QED BY <1>1, <1>2, <2>1, <2>3 DEF Cost
<1>4. Booked(answer) = [input |-> input, cached |-> answer.cached, calls |-> 1,
                        cost |-> IF price = Unpriced THEN Unpriced ELSE Cost(price, input, answer.cached)]
    BY DEF Booked
<1> HIDE DEF price, input, answer
<1>5. Booked(answer) \in Spent /\ Booked(answer).calls = 1
    BY <1>1, <1>2, <1>3, <1>4 DEF Spent
<1> QED BY <1>5 DEF answer

-----------------------------------------------------------------------------
(* What a number of calls of one scope costs, and all of them together.      *)
OneCall(s) == Booked(AnswerOf[s])
Calls(counts) == [s \in Scope |-> Times(counts[s], OneCall(s))]

LEMMA ScopeFinite == IsFiniteSet(Scope)
<1>1. IsFiniteSet({Planner})
    BY FS_Singleton
<1> QED BY <1>1, CourseAssumption, FS_Union DEF Scope

LEMMA ProductGrows ==
    ASSUME NEW n \in Nat, NEW x \in Int
    PROVE  n * x \in Int /\ (n + 1) * x = n * x + x /\ 0 * x = 0
    OBVIOUS

LEMMA TimesSpent ==
    ASSUME NEW n \in Nat, NEW s \in Scope
    PROVE  Times(n, OneCall(s)) \in Spent /\ Times(0, OneCall(s)) = Zero /\ Called(Times(n, OneCall(s)))
<1> DEFINE u == OneCall(s)
<1>1. u \in Spent /\ u.calls = 1
    BY BookedSpent DEF OneCall
<1> HIDE DEF u
<1>2. n * u.input \in Nat /\ n * u.cached \in Nat /\ n * u.calls = n
    BY <1>1 DEF Spent
<1>3. u.cost # Unpriced => n * u.cost \in Int
    BY <1>1 DEF Spent
<1>4. Times(n, u) \in Spent
    BY <1>2, <1>3 DEF Times, Spent
<1>5. Times(0, u) = Zero
    BY <1>1 DEF Times, Zero, Spent
<1>6. Called(Times(n, u))
    BY <1>2, <1>5 DEF Called, Times
<1> QED BY <1>4, <1>5, <1>6 DEF u

LEMMA TimesGrows ==
    ASSUME NEW n \in Nat, NEW s \in Scope
    PROVE  Times(n + 1, OneCall(s)) = Plus(Times(n, OneCall(s)), OneCall(s))
<1> DEFINE u == OneCall(s)
<1>1. u \in Spent
    BY BookedSpent DEF OneCall
<1> HIDE DEF u
<1>2. /\ (n + 1) * u.input = n * u.input + u.input
      /\ (n + 1) * u.cached = n * u.cached + u.cached
      /\ (n + 1) * u.calls = n * u.calls + u.calls
  <2>1. u.input \in Int /\ u.cached \in Int /\ u.calls \in Int
      BY <1>1 DEF Spent
  <2> QED BY <2>1, ProductGrows
<1>3. ASSUME u.cost # Unpriced
      PROVE  /\ (n + 1) * u.cost = n * u.cost + u.cost
             /\ n * u.cost \in Int /\ u.cost \in Int /\ 0 * u.cost = 0
    BY <1>1, <1>3, ProductGrows DEF Spent
<1>4. Times(n + 1, u).cost = Plus(Times(n, u), u).cost
  <2>1. CASE u.cost = Unpriced
      BY <2>1 DEF Times, Plus
  <2>2. CASE u.cost # Unpriced
    <3>1. Amount(u) = u.cost /\ n + 1 # 0
        BY <2>2 DEF Amount
    <3>2. Times(n + 1, u).cost = n * u.cost + u.cost
        BY <1>3, <2>2, <3>1 DEF Times
    <3>3. Amount(Times(n, u)) = n * u.cost
        BY <1>3, <2>2, LedgerAssumption DEF Times, Amount
    <3>4. Plus(Times(n, u), u).cost = n * u.cost + u.cost
        BY <2>2, <3>1, <3>3 DEF Plus
    <3> QED BY <3>2, <3>4
  <2> QED BY <2>1, <2>2
<1>5. Times(n + 1, u) = Plus(Times(n, u), u)
    BY <1>2, <1>4 DEF Times, Plus
<1> QED BY <1>5 DEF u

LEMMA CallsSpent ==
    ASSUME NEW counts \in [Scope -> Nat]
    PROVE  /\ BillOf(counts) = Bill(Calls(counts), Scope)
           /\ \A s \in Scope : Calls(counts)[s] = Times(counts[s], OneCall(s))
           /\ \A s \in Scope : Calls(counts)[s] \in Spent /\ Called(Calls(counts)[s])
           /\ BillOf(counts) \in Spent /\ Called(BillOf(counts))
<1>1. BillOf(counts) = Bill(Calls(counts), Scope)
    BY DEF BillOf, Bill, Calls, OneCall
<1>2. \A s \in Scope : Calls(counts)[s] = Times(counts[s], OneCall(s))
    BY DEF Calls
<1>3. \A s \in Scope : Calls(counts)[s] \in Spent /\ Called(Calls(counts)[s])
    BY <1>2, TimesSpent
<1>4. Bill(Calls(counts), Scope) \in Spent /\ Called(Bill(Calls(counts), Scope))
    BY <1>3, BillSpent, BillCalled, ScopeFinite
<1> QED BY <1>1, <1>2, <1>3, <1>4

LEMMA OneMoreCall ==
    ASSUME NEW counts \in [Scope -> Nat], NEW s \in Scope
    PROVE  LET more == [counts EXCEPT ![s] = @ + 1]
           IN  more \in [Scope -> Nat] /\ BillOf(more) = Plus(BillOf(counts), OneCall(s))
<1> DEFINE more == [counts EXCEPT ![s] = @ + 1]
<1>1. more \in [Scope -> Nat] /\ more[s] = counts[s] + 1 /\ \A r \in Scope \ {s} : more[r] = counts[r]
    OBVIOUS
<1> HIDE DEF more
<1>2. Calls(more)[s] = Plus(Calls(counts)[s], OneCall(s))
    BY <1>1, CallsSpent, TimesGrows
<1>3. \A r \in Scope \ {s} : Calls(more)[r] = Calls(counts)[r]
    BY <1>1, CallsSpent
<1>4. OneCall(s) \in Spent
    BY BookedSpent DEF OneCall
<1>5. \A r \in Scope : Calls(counts)[r] \in Spent
    BY CallsSpent
<1>6. Bill(Calls(more), Scope) = Plus(Bill(Calls(counts), Scope), OneCall(s))
    BY <1>2, <1>3, <1>4, <1>5, BillAdds, ScopeFinite
<1> QED BY <1>1, <1>6, CallsSpent DEF more

LEMMA NoCallNoBill == BillOf([s \in Scope |-> 0]) = Zero
<1> DEFINE none == [s \in Scope |-> 0]
<1>1. none \in [Scope -> Nat] /\ \A s \in Scope : none[s] = 0
    OBVIOUS
<1> HIDE DEF none
<1>2. \A s \in Scope : Calls(none)[s] = Zero
    BY <1>1, CallsSpent, TimesSpent
<1> QED BY <1>1, <1>2, CallsSpent, BillOfZeros, ScopeFinite DEF none

\* Some of the calls of a scope, and no other's.
Share(u, s, n) == \E k \in 0..n : u = Times(k, OneCall(s))

\* No save counts a call that was not made.
Counted ==
    /\ made \in [Scope -> Nat] /\ kept \in [Scope -> Nat]
    /\ \A s \in Scope : kept[s] <= made[s]

\* The ledger holds every call of the job, those of the attempts before as one entry.
InTheBook ==
    /\ DOMAIN book \subseteq Scope \cup {Earlier}
    /\ \A s \in DOMAIN book : IF s = Earlier THEN book[s] \in Spent ELSE Share(book[s], s, made[s])
    /\ status = "running" => Total = BillOf(made)

\* What steps carry, and what the record has of it, is of calls that were made, or saved.
OfTheStep ==
    /\ DOMAIN told = Step /\ DOMAIN stepUsage = Step
    /\ \A s \in Step : Share(told[s], s, made[s]) /\ Share(stepUsage[s], s, kept[s])

BInv == SavedByTheEnd /\ Counted /\ InTheBook /\ OfTheStep /\ usage = BillOf(kept)

LEMMA ShareSpent ==
    ASSUME NEW s \in Scope, NEW n \in Nat, NEW u, Share(u, s, n)
    PROVE  /\ u \in Spent
           /\ \A m \in Nat : n <= m => Share(u, s, m)
           /\ Share(Plus(u, OneCall(s)), s, n + 1)
<1>1. PICK k \in 0..n : u = Times(k, OneCall(s))
    BY DEF Share
<1>2. k \in Nat /\ k + 1 \in 0..(n + 1) /\ \A m \in Nat : n <= m => k \in 0..m
    OBVIOUS
<1>3. Plus(u, OneCall(s)) = Times(k + 1, OneCall(s))
    BY <1>1, <1>2, TimesGrows
<1> QED BY <1>1, <1>2, <1>3, TimesSpent DEF Share

LEMMA NoneIsAShare ==
    ASSUME NEW s \in Scope, NEW n \in Nat
    PROVE  Share(Zero, s, n)
<1>1. 0 \in 0..n /\ Zero = Times(0, OneCall(s))
    BY TimesSpent
<1> QED BY <1>1 DEF Share

LEMMA BookSpent ==
    ASSUME Counted, InTheBook
    PROVE  IsFiniteSet(DOMAIN book) /\ \A s \in DOMAIN book : book[s] \in Spent
<1>1. IsFiniteSet(Scope \cup {Earlier})
    BY ScopeFinite, FS_AddElement
<1>2. IsFiniteSet(DOMAIN book)
    BY <1>1, FS_Subset DEF InTheBook
<1>3. ASSUME NEW s \in DOMAIN book, s # Earlier PROVE book[s] \in Spent
  <2>1. s \in Scope /\ made[s] \in Nat /\ Share(book[s], s, made[s])
      BY <1>3 DEF Counted, InTheBook
  <2> QED BY <2>1, ShareSpent
<1> QED BY <1>2, <1>3 DEF InTheBook

LEMMA ScopeIsKnown == Earlier \notin Scope
    BY LedgerAssumption DEF Earlier, Scope, Planner

\* Booking a call adds it to the total.
LEMMA CallKeeps ==
    ASSUME BInv, NEW s \in Scope, Call(s)
    PROVE  BInv'
<1>1. /\ status = "running" /\ UNCHANGED <<status, told, usage, stepUsage, child, kept>>
      /\ made' = [made EXCEPT ![s] = @ + 1]
      /\ Add(s, OneCall(s))
    BY DEF Call, Running, vars, OneCall, ScopeOf
<1>2. Counted /\ InTheBook /\ OfTheStep /\ SavedByTheEnd /\ usage = BillOf(kept)
    BY DEF BInv
<1>3. made' \in [Scope -> Nat] /\ BillOf(made') = Plus(BillOf(made), OneCall(s))
    BY <1>1, <1>2, OneMoreCall DEF Counted
<1>4. made'[s] = made[s] + 1 /\ \A r \in Scope \ {s} : made'[r] = made[r]
    BY <1>1, <1>2 DEF Counted
<1>5. \A r \in Scope : made[r] \in Nat /\ kept[r] \in Nat /\ made'[r] \in Nat /\ made[r] <= made'[r]
    BY <1>2, <1>3, <1>4 DEF Counted
<1>6. Counted'
    BY <1>1, <1>2, <1>3, <1>5 DEF Counted
<1>7. OfTheStep'
  <2> SUFFICES ASSUME NEW r \in Step PROVE Share(told[r], r, made'[r])
      BY <1>1, <1>2 DEF OfTheStep
  <2>1. r \in Scope /\ Share(told[r], r, made[r])
      BY <1>2 DEF OfTheStep, Scope
  <2> QED BY <1>5, <2>1, ShareSpent
<1>8. /\ DOMAIN book' = DOMAIN book \cup {s}
      /\ book'[s] = Plus(Get(s), OneCall(s))
      /\ \A r \in DOMAIN book \ {s} : book'[r] = book[r]
    BY <1>1 DEF Add
<1>9. Share(Get(s), s, made[s])
    BY <1>2, <1>5, NoneIsAShare, ScopeIsKnown DEF Get, InTheBook
<1>10. \A r \in DOMAIN book' : IF r = Earlier THEN book'[r] \in Spent ELSE Share(book'[r], r, made'[r])
  <2> SUFFICES ASSUME NEW r \in DOMAIN book'
               PROVE  IF r = Earlier THEN book'[r] \in Spent ELSE Share(book'[r], r, made'[r])
      OBVIOUS
  <2>1. CASE r = s
      BY <2>1, <1>4, <1>5, <1>8, <1>9, ShareSpent, ScopeIsKnown
  <2>2. CASE r # s /\ r = Earlier
      BY <2>2, <1>2, <1>8 DEF InTheBook
  <2>3. CASE r # s /\ r # Earlier
    <3>1. r \in Scope /\ Share(book[r], r, made[r]) /\ book'[r] = book[r]
        BY <2>3, <1>2, <1>8 DEF InTheBook
    <3> QED BY <2>3, <3>1, <1>4
  <2> QED BY <2>1, <2>2, <2>3
<1>11. Bill(book', DOMAIN book') = Plus(Bill(book, DOMAIN book), OneCall(s))
  <2>1. IsFiniteSet(DOMAIN book) /\ \A r \in DOMAIN book : book[r] \in Spent
      BY <1>2, BookSpent
  <2>2. OneCall(s) \in Spent
      BY BookedSpent DEF OneCall
  <2>3. CASE s \in DOMAIN book
    <3>1. DOMAIN book' = DOMAIN book /\ book'[s] = Plus(book[s], OneCall(s))
        BY <2>3, <1>8 DEF Get
    <3>2. \A r \in DOMAIN book \ {s} : book'[r] = book[r]
        BY <1>8
    <3>3. Bill(book', DOMAIN book) = Plus(Bill(book, DOMAIN book), OneCall(s))
        BY <2>1, <2>2, <2>3, <3>1, <3>2, BillAdds
    <3> QED BY <3>1, <3>3
  <2>4. CASE s \notin DOMAIN book
    <3>1. book'[s] = OneCall(s) /\ \A r \in DOMAIN book : book'[r] = book[r]
        BY <2>2, <2>4, <1>8, PlusZero, PlusCommutes, ZeroSpent DEF Get
    <3>2. Bill(book', DOMAIN book \cup {s}) = Plus(Bill(book, DOMAIN book), OneCall(s))
        BY <2>1, <2>2, <2>4, <3>1, BillGrows
    <3> QED BY <3>2, <1>8
  <2> QED BY <2>3, <2>4
<1>12. InTheBook'
  <2>1. Total = Bill(book, DOMAIN book) /\ Total' = Bill(book', DOMAIN book')
      BY DEF Total, Bill
  <2>2. Total' = BillOf(made')
      BY <2>1, <1>1, <1>2, <1>3, <1>11 DEF InTheBook
  <2>3. DOMAIN book' \subseteq Scope \cup {Earlier}
      BY <1>2, <1>8 DEF InTheBook
  <2> QED BY <2>2, <2>3, <1>10 DEF InTheBook
<1>13. SavedByTheEnd'
    BY <1>1, <1>2 DEF SavedByTheEnd
<1>14. (usage = BillOf(kept))'
    BY <1>1, <1>2
<1> QED BY <1>6, <1>7, <1>12, <1>13, <1>14 DEF BInv

\* What books nothing and saves nothing.
LEMMA QuietKeeps ==
    ASSUME BInv, SavedByTheEnd', UNCHANGED <<book, usage, stepUsage, made, kept>>,
           status' = "running" => status = "running",
           told' = told \/ \E s \in Step : told' = [told EXCEPT ![s] = Get(ScopeOf(s))]
    PROVE  BInv'
<1>1. Counted' /\ InTheBook' /\ (usage = BillOf(kept))'
  <2>1. Total' = Total
      BY DEF Total
  <2> QED BY <2>1 DEF BInv, Counted, InTheBook
<1>2. ASSUME NEW s \in Step PROVE Share(Get(s), s, made[s])
  <2>1. s \in Scope /\ made[s] \in Nat /\ s # Earlier
      BY LedgerAssumption DEF BInv, Counted, Scope
  <2> QED BY <2>1, NoneIsAShare DEF Get, BInv, InTheBook
<1>3. OfTheStep'
  <2> SUFFICES ASSUME NEW s \in Step, told' = [told EXCEPT ![s] = Get(s)] PROVE OfTheStep'
      BY DEF BInv, OfTheStep, ScopeOf
  <2> QED BY <1>2 DEF BInv, OfTheStep
<1> QED BY <1>1, <1>3 DEF BInv

\* What closes the ledger: nothing is lost but what no save held.
LEMMA ClosingKeeps ==
    ASSUME BInv, SavedByTheEnd', status' # "running", book' = Nobody, UNCHANGED stepUsage,
           \/ status = "running" /\ Save /\ UNCHANGED made
           \/ Unsaved /\ made' = kept,
           told' = [s \in Step |-> Zero] \/ (UNCHANGED <<told, made>>)
    PROVE  BInv'
<1>1. made' \in [Scope -> Nat] /\ kept' \in [Scope -> Nat] /\ usage' = BillOf(kept')
    BY DEF BInv, Counted, InTheBook, Save, Unsaved
<1>2. \A s \in Scope : kept[s] <= kept'[s] /\ kept'[s] <= made'[s] /\ kept[s] \in Nat /\ kept'[s] \in Nat
  <2>1. \A s \in Scope : kept[s] \in Nat /\ made[s] \in Nat /\ kept[s] <= made[s]
      BY DEF BInv, Counted
  <2>2. (kept' = made /\ made' = made) \/ (kept' = kept /\ made' = kept)
      BY DEF Save, Unsaved
  <2> QED BY <2>1, <2>2
<1>3. Counted'
    BY <1>1, <1>2 DEF Counted
<1>4. InTheBook'
    BY DEF InTheBook, Nobody
<1>5. OfTheStep'
  <2>1. DOMAIN told' = Step /\ DOMAIN stepUsage' = Step
      BY DEF BInv, OfTheStep
  <2>2. ASSUME NEW s \in Step PROVE Share(stepUsage[s], s, kept'[s])
    <3>1. s \in Scope /\ Share(stepUsage[s], s, kept[s])
        BY DEF BInv, OfTheStep, Scope
    <3> QED BY <3>1, <1>2, ShareSpent
  <2>3. ASSUME NEW s \in Step PROVE Share(told'[s], s, made'[s])
    <3>1. s \in Scope /\ made'[s] \in Nat /\ Share(told[s], s, made[s])
        BY <1>1 DEF BInv, OfTheStep, Scope
    <3> QED BY <3>1, NoneIsAShare
  <2> QED BY <2>1, <2>2, <2>3 DEF OfTheStep
<1> QED BY <1>1, <1>3, <1>4, <1>5 DEF BInv

LEMMA RecordKeeps ==
    ASSUME BInv, SavedByTheEnd', NEW fact, Record(fact)
    PROVE  BInv'
<1>1. /\ status = "running" /\ usage' = Total /\ kept' = made /\ UNCHANGED <<status, book, told, made>>
      /\ stepUsage' = IF fact \in Step THEN [stepUsage EXCEPT ![fact] = told[fact]] ELSE stepUsage
    BY DEF Record, Persist, Save
<1>2. \A s \in Scope : kept[s] <= made[s] /\ kept[s] \in Nat /\ made[s] \in Nat
    BY DEF BInv, Counted
<1>3. Counted' /\ InTheBook' /\ (usage = BillOf(kept))'
  <2>1. Total' = Total
      BY <1>1 DEF Total
  <2> QED BY <1>1, <1>2, <2>1 DEF BInv, Counted, InTheBook
<1>4. OfTheStep'
  <2>1. ASSUME NEW s \in Step PROVE Share(stepUsage'[s], s, made[s])
    <3>1. s \in Scope /\ Share(stepUsage[s], s, kept[s]) /\ Share(told[s], s, made[s])
        BY DEF BInv, OfTheStep, Scope
    <3>2. stepUsage'[s] = stepUsage[s] \/ stepUsage'[s] = told[s]
        BY <1>1 DEF BInv, OfTheStep
    <3> QED BY <3>1, <3>2, <1>2, ShareSpent
  <2> QED BY <2>1, <1>1 DEF BInv, OfTheStep
<1> QED BY <1>3, <1>4 DEF BInv

\* The ledger of a resume holds what the record says was spent.
LEMMA AgainKeeps ==
    ASSUME BInv, SavedByTheEnd', Again
    PROVE  BInv'
<1>1. /\ UNCHANGED <<told, usage, stepUsage, made, kept>>
      /\ book' = IF status = "stopped" THEN Seeded ELSE book
      /\ status' = "running" => status \in {"running", "stopped"}
    BY DEF Again, Resume, Reentered, RunOn
<1>2. CASE status # "stopped"
    BY <1>1, <1>2, QuietKeeps
<1>3. CASE status = "stopped"
  <2>1. made = kept /\ kept \in [Scope -> Nat] /\ usage = BillOf(kept)
      BY <1>3 DEF BInv, SavedByTheEnd, Counted
  <2>2. usage \in Spent /\ Called(usage)
      BY <2>1, CallsSpent
  <2>3. Total' = Bill(Seeded, DOMAIN Seeded)
      BY <1>1, <1>3 DEF Total, Bill
  <2>4. CASE usage.calls = 0
    <3>1. Seeded = Nobody /\ DOMAIN Nobody = {} /\ usage = Zero
        BY <2>2, <2>4 DEF Seeded, Nobody, Called
    <3>2. Total' = BillOf(made) /\ book' = Nobody
        BY <1>1, <1>3, <2>1, <2>3, <3>1, BillOfNothing
    <3> QED BY <1>1, <2>1, <3>1, <3>2 DEF BInv, Counted, OfTheStep, InTheBook
  <2>5. CASE usage.calls # 0
    <3> DEFINE seed == [s \in {Earlier} |-> usage]
    <3>1. Seeded = seed /\ book' = seed
        BY <1>1, <1>3, <2>5 DEF Seeded
    <3>2. Total' = usage
      <4>1. DOMAIN seed = {Earlier} /\ seed[Earlier] = usage /\ IsFiniteSet({Earlier})
          BY FS_Singleton
      <4> HIDE DEF seed
      <4>2. Bill(seed, {Earlier}) = Plus(usage, Bill(seed, {Earlier} \ {Earlier}))
          BY <4>1, <2>2, BillPicks
      <4>3. {Earlier} \ {Earlier} = {}
          OBVIOUS
      <4>4. Bill(seed, {Earlier}) = usage
          BY <2>2, <4>2, <4>3, BillOfNothing, PlusZero
      <4> QED BY <2>3, <3>1, <4>1, <4>4
    <3>3. DOMAIN book' = {Earlier} /\ book'[Earlier] = usage
        BY <3>1
    <3>4. InTheBook'
        BY <1>1, <2>1, <2>2, <3>2, <3>3 DEF InTheBook
    <3> QED BY <1>1, <2>1, <3>4 DEF BInv, Counted, OfTheStep
  <2> QED BY <2>4, <2>5
<1> QED BY <1>2, <1>3

LEMMA NextBInv ==
    ASSUME BInv, ChildIsARecord, [LedgerNext]_<<vars, bills>>
    PROVE  BInv'
<1>1. SavedByTheEnd'
    BY NextSaves DEF BInv
<1>2. CASE UNCHANGED <<vars, bills>>
    BY <1>1, <1>2, QuietKeeps DEF vars, bills
<1>3. CASE \E scope \in Scope : Call(scope)
    BY <1>3, CallKeeps
<1>4. CASE \E s \in Step : StepEnds(s)
    BY <1>1, <1>4, QuietKeeps DEF StepEnds, Publish
<1>5. CASE \E s \in Launcher : Launch(s)
    BY <1>1, <1>5, QuietKeeps DEF Launch, ledger, vars
<1>6. CASE \E fact \in queue : Record(fact)
    BY <1>1, <1>6, RecordKeeps
<1>7. CASE \E cancelled \in BOOLEAN : Halt(cancelled)
  <2>1. /\ status = "running" /\ status' = "stopped" /\ book' = Nobody /\ UNCHANGED stepUsage
        /\ told' = [s \in Step |-> Zero]
        /\ (Save /\ UNCHANGED made) \/ (Unsaved /\ made' = kept)
      BY <1>7 DEF Halt, Stop
  <2> QED BY <1>1, <2>1, ClosingKeeps
<1>8. CASE \E c \in Caller : HaltToAmend(c)
  <2>1. CASE status = "running"
    <3>1. /\ status' = "stopped" /\ book' = Nobody /\ UNCHANGED <<stepUsage, made>>
          /\ told' = [s \in Step |-> Zero] /\ Save
        BY <1>8, <2>1 DEF HaltToAmend, StopToAmend
    <3> QED BY <1>1, <2>1, <3>1, ClosingKeeps
  <2>2. CASE status # "running"
    <3>1. UNCHANGED <<status, book, told, usage, stepUsage, made, kept>>
        BY <1>8, <2>2 DEF HaltToAmend, StopToAmend, Unsaved, ledger
    <3> QED BY <1>1, <3>1, QuietKeeps
  <2> QED BY <2>1, <2>2
<1>9. CASE Again
    BY <1>1, <1>9, AgainKeeps
<1>10. CASE Settle
  <2>1. status = "running" /\ UNCHANGED <<told, stepUsage, made>>
      BY <1>10 DEF Settle, Dispatch, Running
  <2>2. CASE status' # "running"
      BY <1>1, <1>10, <2>1, <2>2, ClosingKeeps DEF Settle
  <2>3. CASE status' = "running"
      BY <1>1, <1>10, <2>1, <2>3, QuietKeeps DEF Settle, Unsaved
  <2> QED BY <2>2, <2>3
<1>11. CASE Quiet
  <2>1. UNCHANGED <<status, book, told, usage, stepUsage, made, kept>>
      BY <1>11 DEF Quiet, bills, PlanIt, Planned, Commit, Write, Check, Amend
  <2> QED BY <1>1, <2>1, QuietKeeps
<1>12. CASE ChildRuns \/ ChildCancelled
  <2>1. UNCHANGED <<status, book, told, usage, stepUsage, made, kept>>
      BY <1>12 DEF ChildRuns, ChildCancelled, vars, ledger
  <2> QED BY <1>1, <2>1, QuietKeeps
<1> QED BY <1>2, <1>3, <1>4, <1>5, <1>6, <1>7, <1>8, <1>9, <1>10, <1>11, <1>12 DEF LedgerNext

LEMMA InitBInv == LedgerInit => BInv /\ ChildIsARecord
<1> SUFFICES ASSUME LedgerInit PROVE BInv /\ ChildIsARecord
    OBVIOUS
<1>1. Total = BillOf(made) /\ usage = BillOf(kept)
  <2>1. Total = Bill(Nobody, {})
      BY DEF LedgerInit, Total, Bill, Nobody
  <2>2. Total = Zero
      BY <2>1, BillOfNothing
  <2> QED BY <2>2, NoCallNoBill DEF LedgerInit
<1>2. \A s \in Step : Share(Zero, s, 0)
    BY NoneIsAShare DEF Scope
<1>3. \A s \in Step : made[s] = 0 /\ kept[s] = 0
    BY DEF LedgerInit, Scope
<1> QED BY <1>1, <1>2, <1>3
        DEF BInv, LedgerInit, Init, SavedByTheEnd, Counted, InTheBook, OfTheStep, ChildIsARecord, Nobody

\* Nothing in _load_overrides refuses a price below zero.
NoNegativePrice ==
    \A prices \in {DefaultPrices, Overrides} : \A f \in DOMAIN prices :
        prices[f].input >= 0 /\ prices[f].cached \in Nat \cup {Unpriced}

LEMMA ProductOrder ==
    ASSUME NEW k \in Nat, NEW n \in Nat, k <= n, NEW x \in Nat
    PROVE  k * x <= n * x /\ k * x \in Nat /\ n * x \in Nat
<1>1. (n - k) \in Nat /\ n = k + (n - k)
    OBVIOUS
<1>2. ASSUME NEW d \in Nat PROVE (k + d) * x = k * x + d * x /\ d * x \in Nat /\ k * x \in Nat
    OBVIOUS
<1> QED BY <1>1, <1>2

LEMMA AmountKnown ==
    ASSUME NoNegativePrice, NEW s \in Scope
    PROVE  OneCall(s).cost \in Nat \cup {Unpriced}
<1> DEFINE answer == AnswerOf[s]
           price == PriceFor(answer.model)
           input == IF answer.input > answer.cached THEN answer.input - answer.cached ELSE 0
<1>1. answer.input \in Nat /\ answer.cached \in Nat
    BY LedgerAssumption
<1>2. input \in Nat
    BY <1>1
<1>3. ASSUME price # Unpriced PROVE Cost(price, input, answer.cached) \in Nat
  <2>1. price.input \in Nat /\ price.cached \in Nat \cup {Unpriced}
      BY <1>3, PriceType, LedgerAssumption DEF NoNegativePrice
  <2>2. price.input \div 10 \in Nat
      BY <2>1
  <2> HIDE DEF price, input, answer
  <2>3. (IF price.cached = Unpriced THEN price.input \div 10 ELSE price.cached) \in Nat
      BY <2>1, <2>2
  <2> QED BY <1>1, <1>2, <2>1, <2>3 DEF Cost
<1> QED BY <1>3 DEF OneCall, Booked

LEMMA FewerIsWithin ==
    ASSUME NoNegativePrice, NEW s \in Scope, NEW n \in Nat, NEW k \in 0..n
    PROVE  Within(Times(k, OneCall(s)), Times(n, OneCall(s)))
<1> DEFINE u == OneCall(s)
<1>1. u.input \in Nat /\ u.cached \in Nat /\ u.calls \in Nat /\ u.cost \in Nat \cup {Unpriced}
    BY BookedSpent, AmountKnown DEF OneCall, Spent
<1> HIDE DEF u
<1>2. k \in Nat /\ k <= n
    OBVIOUS
<1>3. k * u.input <= n * u.input /\ k * u.cached <= n * u.cached /\ k * u.calls <= n * u.calls
    BY <1>1, <1>2, ProductOrder
<1>4. Amount(Times(k, u)) <= Amount(Times(n, u))
  <2>1. CASE u.cost = Unpriced
      BY <2>1 DEF Amount, Times
  <2>2. CASE u.cost # Unpriced
    <3>1. u.cost \in Nat
        BY <1>1, <2>2
    <3>2. k * u.cost <= n * u.cost /\ k * u.cost \in Nat /\ n * u.cost \in Nat
        BY <3>1, <1>2, ProductOrder
    <3>3. Amount(Times(k, u)) \in {0, k * u.cost} /\ Amount(Times(n, u)) \in {0, n * u.cost}
        BY DEF Amount, Times
    <3>4. n = 0 => k = 0
        BY <1>2
    <3>5. n # 0 => Amount(Times(n, u)) = n * u.cost
        BY <2>2, <3>2, LedgerAssumption DEF Amount, Times
    <3>6. k = 0 => Amount(Times(k, u)) = 0
        BY DEF Amount, Times
    <3> QED BY <3>2, <3>3, <3>4, <3>5, <3>6
  <2> QED BY <2>1, <2>2
<1>5. Within(Times(k, u), Times(n, u))
    BY <1>3, <1>4 DEF Within, Times
<1> QED BY <1>5 DEF u

LEMMA PartsAddUp == ASSUME NoNegativePrice, BInv PROVE StepsAddUp
<1>1. kept \in [Scope -> Nat] /\ Step \subseteq Scope /\ usage = BillOf(kept)
    BY DEF BInv, Counted, Scope
<1>2. \A s \in Scope : Calls(kept)[s] \in Spent /\ Calls(kept)[s] = Times(kept[s], OneCall(s)) /\ kept[s] \in Nat
    BY <1>1, CallsSpent
<1>3. \A s \in Step : stepUsage[s] \in Spent /\ Within(stepUsage[s], Calls(kept)[s])
  <2> SUFFICES ASSUME NEW s \in Step PROVE stepUsage[s] \in Spent /\ Within(stepUsage[s], Calls(kept)[s])
      OBVIOUS
  <2>1. s \in Scope /\ Share(stepUsage[s], s, kept[s]) /\ kept[s] \in Nat
      BY <1>1, <1>2 DEF BInv, OfTheStep
  <2>2. PICK k \in 0..kept[s] : stepUsage[s] = Times(k, OneCall(s))
      BY <2>1 DEF Share
  <2> QED BY <1>2, <2>1, <2>2, ShareSpent, FewerIsWithin
<1>4. \A s \in Scope : Within(Zero, Calls(kept)[s])
  <2> SUFFICES ASSUME NEW s \in Scope PROVE Within(Zero, Calls(kept)[s])
      OBVIOUS
  <2>1. 0 \in 0..kept[s] /\ Times(0, OneCall(s)) = Zero
      BY <1>2, TimesSpent
  <2> QED BY <1>2, <2>1, FewerIsWithin
<1>5. Within(Bill(stepUsage, Step), Bill(Calls(kept), Step))
    BY <1>1, <1>2, <1>3, CourseAssumption, BillWithin
<1>6. Within(Bill(Calls(kept), Step), Bill(Calls(kept), Scope))
    BY <1>1, <1>2, <1>4, ScopeFinite, BillOfPart
<1>7. Bill(stepUsage, Step) \in Spent /\ Bill(Calls(kept), Step) \in Spent /\ usage \in Spent
    BY <1>1, <1>2, <1>3, BillSpent, CourseAssumption, CallsSpent
<1>8. usage = Bill(Calls(kept), Scope)
    BY <1>1, CallsSpent
<1>9. Amount(Bill(stepUsage, Step)) \in Int /\ Amount(Bill(Calls(kept), Step)) \in Int /\ Amount(usage) \in Int
    BY <1>7, AmountAdds
<1>10. Within(Bill(stepUsage, Step), usage)
  <2> DEFINE x == Bill(stepUsage, Step)
             y == Bill(Calls(kept), Step)
  <2>1. x \in Spent /\ y \in Spent /\ usage \in Spent /\ Within(x, y) /\ Within(y, usage)
      BY <1>5, <1>6, <1>7, <1>8
  <2>2. Amount(x) \in Int /\ Amount(y) \in Int /\ Amount(usage) \in Int
      BY <1>9
  <2> HIDE DEF x, y
  <2>3. Within(x, usage)
      BY <2>1, <2>2 DEF Within, Spent
  <2> QED BY <2>3 DEF x
<1> QED BY <1>10 DEF StepsAddUp, Within, Bill

(* The bill of the record, after any stops, crashes, resumes and amendments  *)
(* of any plan, whatever is launched meanwhile: every call that a save held, *)
(* once and at its price, the ledger of a resume being seeded with what the  *)
(* record says (_drive) and each step's calls booked under its own scope.    *)
(* A price may be any number.                                                *)
THEOREM EveryCallIsBilled == LedgerSpec => []CallsAreBilled
<1>1. LedgerInit => BInv /\ ChildIsARecord
    BY InitBInv
<1>2. BInv /\ ChildIsARecord /\ [LedgerNext]_<<vars, bills>> => (BInv /\ ChildIsARecord)'
    BY NextBInv, NextSaves DEF BInv
<1>3. BInv => CallsAreBilled
    BY DEF BInv, SavedByTheEnd, CallsAreBilled
<1> QED BY <1>1, <1>2, <1>3, PTL DEF LedgerSpec

(* Where no price is negative, the steps' bills are parts of the record's    *)
(* and never add up to more: no two steps carry the same call (decision      *)
(* 0217), nor does one that ran again carry what the record does not have.   *)
THEOREM TheBillIsWhole == ASSUME NoNegativePrice PROVE LedgerSpec => []BillIsWhole
<1>1. LedgerInit => BInv /\ ChildIsARecord
    BY InitBInv
<1>2. BInv /\ ChildIsARecord /\ [LedgerNext]_<<vars, bills>> => (BInv /\ ChildIsARecord)'
    BY NextBInv, NextSaves DEF BInv
<1>3. BInv => BillIsWhole
    BY PartsAddUp DEF BInv, SavedByTheEnd, CallsAreBilled, BillIsWhole
<1> QED BY <1>1, <1>2, <1>3, PTL DEF LedgerSpec

=============================================================================
