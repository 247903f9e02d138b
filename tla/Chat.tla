-------------------------------- MODULE Chat --------------------------------
(* A conversation, turn by turn: the front-end that sends it (tui/app.py,    *)
(* cli/repl.py), the stream it is rendered from (chat/runner.py, service.py),*)
(* the model's launch_job (chat/tools.py) and the endings it is told of      *)
(* (chat/session.py).  The model and LangGraph are external: what the model  *)
(* asks for is any choice, and an interrupted tool call runs again from its  *)
(* start when it is answered.                                                *)
(*                                                                           *)
(* Delivery models how an ending reaches the thread's checkpoint; here is    *)
(* what the person in front of the screen sees, answers and stops.           *)
EXTENDS Naturals, FiniteSets, Sequences, SequencesExt

CONSTANTS
    MaxJob,      \* bound on the jobs of the session, numbered as they are created
    Prefix,      \* the job-id prefixes the model may reference
    Matches,     \* the jobs whose id starts with each of them
    Gate,        \* pick_approval_required
    MaxQueue,    \* max_queue of the turn's subscription
    MaxTurn,     \* bound on the turns
    MayStrand    \* may a proposal be lost on its way to the screen, or the front-end be
                 \* opened again on a session that has one?

Job == 1 .. MaxJob

ASSUME ChatAssumption ==
    /\ MaxJob \in Nat /\ Matches \in [Prefix -> SUBSET Job]
    /\ MaxQueue \in Nat \ {0} /\ MaxTurn \in Nat
    /\ {Gate, MayStrand} \subseteq BOOLEAN

VARIABLES
    job,       \* the status of the session's jobs, in the order they came
    turn,      \* the turn, as far as the agent has got with it
    watch,     \* announce_plan: is it on, and the events of its queue
    pending,   \* the tool call the thread is interrupted on
    told,      \* the jobs whose ending is recorded in the thread
    shown,     \* what the turn has shown so far
    ui,        \* the prompt: free, streaming or awaiting an answer to what it shows
    turns      \* how many turns were sent

vars == <<job, turn, watch, pending, told, shown, ui, turns>>

NoTurn == [pc |-> "idle"]
NoWatch == [on |-> FALSE, queue |-> <<>>, shed |-> FALSE]
NoCall == [refs |-> {"no call"}]
Free == [pc |-> "free"]
Settled == {"answered", "stopped"}

Init ==
    /\ job = <<>> /\ turn = NoTurn /\ watch = NoWatch /\ pending = NoCall /\ told = {}
    /\ shown = <<>> /\ ui = Free /\ turns = 0

Known == DOMAIN job
Item(what, about) == [what |-> what, about |-> about]

----------------------------------------------------------------------------
(* A job of the session, created by whoever holds the session's id.          *)
Created == Len(job) < MaxJob /\ job' = Append(job, "running")

(* POST /jobs, or /bg of the REPL (the bound leaves the turn its own job).   *)
LaunchElsewhere ==
    /\ turn.pc \in {"call", "create"} \/ pending # NoCall => Len(job) + 1 < MaxJob
    /\ Created
    /\ UNCHANGED <<turn, watch, pending, told, shown, ui, turns>>

(* A save of job j publishes an event; a full queue drops it. *)
Published(j) ==
    watch' = IF ~watch.on THEN watch
             ELSE IF Len(watch.queue) = MaxQueue THEN [watch EXCEPT !.shed = TRUE]
             ELSE [watch EXCEPT !.queue = Append(@, j)]

(* The planner's fact, or the run's ending: a save each.  Which plan a job   *)
(* has is kept for the one the turn waits for.                               *)
Plan ==
    /\ turn.pc = "wait" /\ job[turn.job] = "running" /\ turn.plan = "none"
    /\ \E p \in {"one step", "steps"} : turn' = [turn EXCEPT !.plan = p]
    /\ Published(turn.job)
    /\ UNCHANGED <<job, pending, told, shown, ui, turns>>

End(j) ==
    /\ job[j] = "running"
    /\ \E s \in Settled : job' = [job EXCEPT ![j] = s]
    /\ Published(j)
    /\ UNCHANGED <<turn, pending, told, shown, ui, turns>>

----------------------------------------------------------------------------
PromptFree == ui = Free /\ turn = NoTurn

(* The prompt sends a message: one turn at a time, and not while a proposal  *)
(* waits for its answer (on_input_submitted).                                *)
Submit ==
    /\ PromptFree /\ turns < MaxTurn
    /\ ui' = [pc |-> "streaming"] /\ turn' = [pc |-> "notice"]
    /\ shown' = <<>> /\ turns' = turns + 1 /\ pending' = NoCall
    /\ UNCHANGED <<job, watch, told>>

(* y or n (a bare Enter is the n): the approval streams the turn that        *)
(* follows, in which the interrupted tool call runs again.                   *)
Answer ==
    /\ ui.pc = "awaiting" /\ turn = NoTurn
    /\ \E yes \in BOOLEAN :
        turn' = [pc |-> "call", refs |-> pending.refs, answer |-> IF yes THEN "yes" ELSE "no",
                 asked |-> ui.asked]
    /\ ui' = [pc |-> "streaming"] /\ shown' = <<>> /\ pending' = NoCall
    /\ UNCHANGED <<job, watch, told, turns>>

(* The terminal reaches the screen.                                          *)
Rendered ==
    /\ turn.pc = "over" /\ turn' = NoTurn
    /\ ui' = IF turn.terminal = "proposal" THEN [pc |-> "awaiting", asked |-> turn.refs]
             ELSE Free
    /\ UNCHANGED <<job, watch, pending, told, shown, turns>>

(* The connection or the agent's process is lost in the middle of the turn:  *)
(* the screen says so, and the jobs run on.                                  *)
Cut ==
    /\ turn # NoTurn /\ (pending = NoCall \/ MayStrand)
    /\ turn' = NoTurn /\ watch' = NoWatch /\ ui' = Free
    /\ shown' = Append(shown, Item("cut short", {}))
    /\ UNCHANGED <<job, pending, told, turns>>

(* The front-end is closed and opened again on its session.                  *)
Reopen ==
    /\ turn = NoTurn /\ (pending = NoCall \/ MayStrand)
    /\ ui' = Free /\ shown' = <<>>
    /\ UNCHANGED <<job, turn, watch, pending, told, turns>>

----------------------------------------------------------------------------
(* Before each call of the model: the endings that the thread has not been   *)
(* told, and the answers that belong in the conversation, in full (_deliver).*)
Notice ==
    /\ turn.pc = "notice"
    /\ LET endings == {j \in Known : job[j] \in Settled /\ j \notin told}
       IN \E inline \in SUBSET {j \in endings : job[j] = "answered"} :
            /\ shown' = IF inline = {} THEN shown ELSE Append(shown, Item("answer", inline))
            /\ turn' = [pc |-> "model", endings |-> endings]
    /\ UNCHANGED <<job, watch, pending, told, ui, turns>>

(* The model replies: the turn ends on a message.                            *)
Reply ==
    /\ turn.pc = "model"
    /\ told' = told \cup turn.endings
    /\ shown' = Append(shown, Item("message", {}))
    /\ turn' = [pc |-> "over", terminal |-> "message"]
    /\ UNCHANGED <<job, watch, pending, ui, turns>>

\* Mutant: the newest job that matches is taken.
FoundNewest(prefix) == {j \in Matches[prefix] \cap Known : \A k \in Matches[prefix] \cap Known : k <= j}

(* _find: the one job of the session that matches the prefix. *)
Found(prefix) ==
    IF Cardinality(Matches[prefix] \cap Known) = 1 THEN Matches[prefix] \cap Known ELSE {}

(* ... or it calls launch_job, on the work of an earlier job or not.         *)
Call ==
    /\ turn.pc = "model" /\ Len(job) < MaxJob
    /\ told' = told \cup turn.endings
    /\ \E refs \in {{}} \cup {{p} : p \in Prefix} :
        turn' = [pc |-> "call", refs |-> refs, answer |-> "none", asked |-> {}]
    /\ UNCHANGED <<job, watch, pending, shown, ui, turns>>

(* launch_job, up to its gate: a reference that is not one job of this       *)
(* session, and a document that cannot be made, are refused in words; the    *)
(* gate stops the turn on a proposal, and its answer is honoured.            *)
BackToModel == turn' = [pc |-> "notice"]

Check ==
    /\ turn.pc = "call"
    /\ LET found == UNION {Found(p) : p \in turn.refs}
       IN \/ BackToModel /\ UNCHANGED <<pending, shown>>     \* the document is refused
          \/ \E p \in turn.refs : Found(p) = {} /\ BackToModel /\ UNCHANGED <<pending, shown>>
          \/ /\ \A p \in turn.refs : Found(p) # {}
             /\ \/ /\ Gate /\ turn.answer = "none"
                   /\ pending' = [refs |-> turn.refs]
                   /\ shown' = Append(shown, Item("proposal", found))
                   /\ turn' = [pc |-> "over", terminal |-> "proposal", refs |-> found]
                \/ /\ Gate /\ turn.answer = "no" /\ BackToModel /\ UNCHANGED <<pending, shown>>
                \/ /\ ~Gate \/ turn.answer = "yes"
                   /\ turn' = [pc |-> "create", refs |-> found, asked |-> turn.asked]
                   /\ UNCHANGED <<pending, shown>>
    /\ UNCHANGED <<job, watch, told, ui, turns>>

(* The job is created and said to the reader, subscribed to, and only then   *)
(* started.                                                                  *)
Create ==
    /\ turn.pc = "create" /\ Created
    /\ shown' = Append(shown, Item("notice", {Len(job')}))
    /\ watch' = [NoWatch EXCEPT !.on = TRUE]
    /\ turn' = [pc |-> "wait", job |-> Len(job'), plan |-> "none", shed |-> FALSE]
    /\ UNCHANGED <<pending, told, ui, turns>>

(* announce_plan: the next event of the queue.  One of another job is passed *)
(* over; at the first that finds a plan, it is said, and the watch is over.  *)
Announce ==
    /\ watch.on /\ watch.queue # <<>>
    /\ LET rest == [watch EXCEPT !.queue = Tail(@)]
           p == turn.plan
       IN IF Head(watch.queue) = 0 \/ (Head(watch.queue) = turn.job /\ p # "none")
          THEN /\ watch' = NoWatch
               /\ shown' = IF Head(watch.queue) = turn.job /\ p = "steps"
                           THEN Append(shown, Item("plan", {turn.job})) ELSE shown
          ELSE watch' = rest /\ UNCHANGED shown
    /\ UNCHANGED <<job, turn, pending, told, ui, turns>>

(* run_for gives up waiting at its clock: the job is in the background.      *)
Promote ==
    /\ turn.pc = "wait" /\ job[turn.job] = "running"
    /\ BackToModel /\ watch' = NoWatch
    /\ UNCHANGED <<job, pending, told, shown, ui, turns>>

\* Mutant: the turn waits for the watch whether it could be asked to end or not.
DrainAnyway ==
    /\ turn' = [turn EXCEPT !.pc = "drain", !.shed = watch.shed]
    /\ watch' = IF watch.on /\ Len(watch.queue) < MaxQueue
                THEN [watch EXCEPT !.queue = Append(@, 0)] ELSE watch

\* Mutant: nothing is drained, the watch is cancelled as the run ends.
DrainNothing == turn' = [turn EXCEPT !.pc = "tell"] /\ watch' = NoWatch

(* The run has settled: the watch is asked to end, and waited for, unless    *)
(* its queue is full.                                                        *)
Drain ==
    IF watch.on /\ Len(watch.queue) < MaxQueue
    THEN /\ turn' = [turn EXCEPT !.pc = "drain", !.shed = watch.shed]
         /\ watch' = [watch EXCEPT !.queue = Append(@, 0)]
    ELSE turn' = [turn EXCEPT !.pc = "tell", !.shed = watch.on] /\ watch' = NoWatch

Settle ==
    /\ turn.pc = "wait" /\ job[turn.job] \in Settled
    /\ Drain
    /\ UNCHANGED <<job, pending, told, shown, ui, turns>>

Drained ==
    /\ turn.pc = "drain" /\ ~watch.on
    /\ turn' = [turn EXCEPT !.pc = "tell"]
    /\ UNCHANGED <<job, watch, pending, told, shown, ui, turns>>

(* The answer goes into the turn word for word; the tool's result and the    *)
(* record that it was told go into the thread together.                      *)
Tell ==
    /\ turn.pc = "tell"
    /\ shown' = IF job[turn.job] = "answered"
                THEN Append(shown, Item("answer", {turn.job})) ELSE shown
    /\ turn' = [turn EXCEPT !.pc = "record"]
    /\ UNCHANGED <<job, watch, pending, told, ui, turns>>

Record ==
    /\ turn.pc = "record"
    /\ told' = told \cup {turn.job} /\ BackToModel
    /\ UNCHANGED <<job, watch, pending, shown, ui, turns>>

Agent == Notice \/ Reply \/ Call \/ Check \/ Create \/ Announce \/ Promote \/ Settle
         \/ Drained \/ Tell \/ Record

Next ==
    \/ Agent \/ Rendered \/ Submit \/ Answer \/ Cut \/ Reopen
    \/ LaunchElsewhere \/ Plan \/ \E j \in Known : End(j)

(* The agent and the screen go on, the clock of run_for included; the model  *)
(* does not call tools for ever.  No job need ever end.                      *)
Fairness ==
    /\ WF_vars(Notice) /\ SF_vars(Reply) /\ WF_vars(Check) /\ WF_vars(Create)
    /\ WF_vars(Announce) /\ WF_vars(Promote \/ Settle) /\ WF_vars(Drained)
    /\ WF_vars(Tell) /\ WF_vars(Record) /\ WF_vars(Rendered)

Spec == Init /\ [][Next]_vars /\ Fairness

----------------------------------------------------------------------------
At(what, j) == {i \in DOMAIN shown : shown[i].what = what /\ j \in shown[i].about}

(* Types, and what can be on at the same time.                               *)
TypeOK ==
    /\ Len(job) <= MaxJob
    /\ job \in Seq(Settled \cup {"running"})
    /\ told \subseteq Known /\ Len(watch.queue) <= MaxQueue
    /\ watch.on => turn.pc \in {"wait", "drain"}
    /\ ui.pc = "streaming" <=> turn # NoTurn

(* Behind the gate, the run that starts builds on the very jobs the person   *)
(* was shown and approved, however many jobs came while the proposal stood.  *)
ApprovedIsLaunched == Gate /\ turn.pc = "create" => turn.refs = turn.asked

(* A proposal is answered before anything else: the thread never leaves it   *)
(* for a message (on_input_submitted).                                       *)
ProposalFirst ==
    [][pending # NoCall /\ pending' = NoCall =>
        turn'.pc = "call" /\ turn'.answer \in {"yes", "no"} /\ turn'.refs = pending.refs]_vars

(* A job that is answered in its turn has its notice before its plan and its *)
(* plan before its answer, and no plan that was decided goes unsaid, unless  *)
(* the queue has shed events.                                                *)
SaidInOrder ==
    \A j \in Known :
        /\ \A i \in At("plan", j), k \in At("answer", j) : i < k
        /\ \A i \in At("notice", j), k \in At("plan", j) : i < k
        /\ Cardinality(At("answer", j)) <= 1 /\ Cardinality(At("plan", j)) <= 1
        /\ (/\ turn.pc = "record" /\ turn.job = j /\ ~turn.shed
            /\ turn.plan = "steps") => At("plan", j) # {}

(* A turn comes to its end, or is cut, though the job it started never does. *)
TurnEnds == ui.pc = "streaming" ~> ui.pc # "streaming"
============================================================================
