------------------------------ MODULE Delivery ------------------------------
(* How the ending of a job reaches whoever asked for it: engine/delivery.py, *)
(* the delivery half of JobManager, and the conversation that pulls          *)
(* (adapters/langchain).  One job, its attempts, the processes that push its *)
(* endings, and the thread that is told of them turn by turn.                *)
(*                                                                           *)
(* JobEngine models how a run is owned, stopped and resumed; here a resume,  *)
(* a recovery and an amendment are one step each, and what is kept apart is  *)
(* what delivery tells apart: a record read, and the same record written     *)
(* back with its stamp.                                                      *)
EXTENDS Naturals

CONSTANTS
    Proc,            \* JobManager instances on one store
    MaxAttempt,      \* bound on the attempts of the job
    MaxFault,        \* bound on the crashes and the turns that die
    MayOverlap,      \* may a job be resumed while an ending of it is being stamped?
    MayPauseInTurn   \* may a job pause for an answer in the turn that launched it?

Attempt == 1 .. MaxAttempt
Kind == {"none", "pull", "push"}                       \* Nobody, Pulled, Pushed
Settled == {"done", "failed", "cancelled"}
Resumable == {"failed", "cancelled"}
Record == [status : Settled \cup {"running", "needs_input"}, attempt : Attempt, stamped : BOOLEAN]

ASSUME DeliveryAssumption ==
    /\ MaxAttempt \in Nat \ {0} /\ MaxFault \in Nat
    /\ {MayOverlap, MayPauseInTurn} \subseteq BOOLEAN

VARIABLES
    kind,      \* the kind of the job's return address
    rec,       \* its summary in the store; stamped: delivered_at is set
    run,       \* the run of the job, if a process has one: driving it, or saving its ending
    amend,     \* amend_job, if a process is in it (_amending)
    push,      \* the push task of each process for each attempt, and the record it read
    turn,      \* the conversation: where its turn stands, in which process
    channel,   \* delivered_jobs in the thread's checkpoint: the attempt it was told of
    said,      \* how often the receiver was told of each attempt's ending (2: more than once)
    up,        \* the processes that run
    faults     \* how many crashes and dead turns there were

vars == <<kind, rec, run, amend, push, turn, channel, said, up, faults>>

NoRun == [pc |-> "off"]
NoPush == [pc |-> "off"]
Idle == [pc |-> "idle"]

Opened(n) == [status |-> "running", attempt |-> n, stamped |-> FALSE]

Init ==
    /\ kind \in Kind
    /\ rec = Opened(1)
    /\ up \in (SUBSET Proc) \ {{}}
    /\ \E p \in up :
        /\ run = [pc |-> "drive", by |-> p, rec |-> Opened(1)]
        /\ turn = IF kind = "pull" THEN [pc |-> "tool", by |-> p] ELSE Idle
    /\ amend = NoRun
    /\ push = [p \in Proc |-> [n \in Attempt |-> NoPush]]
    /\ channel = 0
    /\ said = [n \in Attempt |-> 0]
    /\ faults = 0

----------------------------------------------------------------------------
Amending(p) == amend.pc # "off" /\ amend.by = p

(* An ending process p has still to deliver: not the stop of an amendment. *)
Pending(r, p) == r.status \in Settled /\ ~r.stamped /\ ~Amending(p)

(* _persist_summary: nobody's job is delivered as it settles; a pushed       *)
(* ending is saved first, then handed to a task of its own, one per attempt. *)
Persist(r, p) ==
    /\ rec' = [r EXCEPT !.stamped = @ \/ (kind = "none" /\ Pending(r, p))]
    /\ push' = IF kind = "push" /\ Pending(r, p) /\ push[p][r.attempt] = NoPush
               THEN [push EXCEPT ![p][r.attempt] = [pc |-> "post", job |-> r]] ELSE push

(* _drive folds an update: the driver's own copy is written. *)
Advance(p) ==
    /\ run.pc = "drive" /\ run.by = p
    /\ Persist(run.rec, p)
    /\ UNCHANGED <<kind, run, amend, turn, channel, said, up, faults>>

(* The run is over, cancelled, or paused at an interrupt. *)
Conclude(p) ==
    /\ run.pc = "drive" /\ run.by = p
    /\ \E status \in {"done", "failed", "cancelled", "needs_input"} :
        /\ status = "needs_input" /\ turn.pc = "tool" => MayPauseInTurn
        /\ run' = [run EXCEPT !.pc = "save", !.rec.status = status]
    /\ UNCHANGED <<kind, rec, amend, push, turn, channel, said, up, faults>>

SaveEnding(p) ==
    /\ run.pc = "save" /\ run.by = p
    /\ Persist(run.rec, p)
    /\ run' = NoRun
    /\ UNCHANGED <<kind, amend, turn, channel, said, up, faults>>

(* A cancel that arrives at that write: it lands or not, and nothing follows *)
(* it, the push included.                                                    *)
CutShort(p) ==
    /\ run.pc = "save" /\ run.by = p
    /\ rec' \in {rec, [run.rec EXCEPT !.stamped = kind = "none" /\ Pending(run.rec, p)]}
    /\ run' = NoRun

LateCancel(p) ==
    /\ CutShort(p)
    /\ UNCHANGED <<kind, amend, push, turn, channel, said, up, faults>>

(* cancel_job of a job that waits for an answer: it stops here. *)
CancelPaused(p) ==
    /\ rec.status = "needs_input" /\ run = NoRun
    /\ Persist([rec EXCEPT !.status = "cancelled"], p)
    /\ UNCHANGED <<kind, run, amend, turn, channel, said, up, faults>>

----------------------------------------------------------------------------
(* Somebody is between reading the record and writing its stamp. *)
Stamping ==
    \/ turn.pc \in {"mark", "write"}
    \/ \E p \in Proc, n \in Attempt : push[p][n].pc = "write"

(* The regime without MayOverlap: nobody picks the job up meanwhile, which   *)
(* nothing in the code sees to.                                              *)
Undisturbed == MayOverlap \/ ~Stamping

(* _begin_resume: the next attempt, unstamped: a job picked back up is news. *)
Reopen(p) ==
    /\ run = NoRun /\ rec.attempt < MaxAttempt
    /\ rec' = Opened(rec.attempt + 1)
    /\ run' = [pc |-> "drive", by |-> p, rec |-> rec']

Resume(p) ==
    /\ rec.status \in Resumable \cup {"needs_input"}
    /\ Reopen(p)
    /\ UNCHANGED <<kind, amend, push, turn, channel, said, up, faults>>

(* amend_job stops the run where it stands, and hides the stop ...           *)
AmendStop(p) ==
    /\ amend = NoRun
    /\ amend' = [pc |-> "join", by |-> p]
    /\ \/ run.pc = "drive" /\ run.by = p
          /\ run' = [run EXCEPT !.pc = "save", !.rec.status = "cancelled"]
          /\ UNCHANGED rec
       \/ CutShort(p)
       \/ run = NoRun /\ rec.status \in Resumable
          /\ UNCHANGED <<run, rec>>
    /\ UNCHANGED <<kind, push, turn, channel, said, up, faults>>

(* ... writes the change and runs the job on; or is refused, since the job   *)
(* is not resumable or has nothing left to run, and stops hiding it.         *)
AmendGo(p) ==
    /\ Amending(p) /\ rec.status \in Resumable
    /\ Reopen(p)
    /\ amend' = NoRun
    /\ UNCHANGED <<kind, push, turn, channel, said, up, faults>>

AmendRefused(p) ==
    /\ Amending(p) /\ run = NoRun
    /\ amend' = NoRun
    /\ UNCHANGED <<kind, rec, run, push, turn, channel, said, up, faults>>

----------------------------------------------------------------------------
Told(n) == said' = [said EXCEPT ![n] = IF @ < 2 THEN @ + 1 ELSE @]

(* _push: the receiver has it; a failure is retried for ever. *)
Post(p, n) ==
    /\ push[p][n].pc = "post"
    /\ Told(n)
    /\ push' = [push EXCEPT ![p][n].pc = "look"]
    /\ UNCHANGED <<kind, rec, run, amend, turn, channel, up, faults>>

\* Mutant: whatever ending the record is by now is stamped.
LookAnyEnding(p, n) ==
    /\ push[p][n].pc = "look"
    /\ push' = [push EXCEPT ![p][n] =
            IF rec.status \in Settled /\ ~rec.stamped
            THEN [pc |-> "write", copy |-> [rec EXCEPT !.stamped = TRUE]] ELSE NoPush]
    /\ UNCHANGED <<kind, rec, run, amend, turn, channel, said, up, faults>>

(* Stamped only while the record is still that ending, as it was read ...    *)
Look(p, n) ==
    /\ push[p][n].pc = "look"
    /\ push' = [push EXCEPT ![p][n] =
            IF rec.attempt = n /\ rec.status \in Settled /\ ~rec.stamped
            THEN [pc |-> "write", copy |-> [rec EXCEPT !.stamped = TRUE]] ELSE NoPush]
    /\ UNCHANGED <<kind, rec, run, amend, turn, channel, said, up, faults>>

(* ... and written back whole.                                               *)
Stamp(p, n) ==
    /\ push[p][n].pc = "write"
    /\ rec' = push[p][n].copy
    /\ push' = [push EXCEPT ![p][n] = NoPush]
    /\ UNCHANGED <<kind, run, amend, turn, channel, said, up, faults>>

----------------------------------------------------------------------------
At(pc, p) == turn.pc = pc /\ turn.by = p

(* told: this ending is already in the thread. *)
InThread(n) == channel >= n

(* The launch tool returns: a job that ended in the turn is told with its    *)
(* result, and enters the channel in the same update; one still in flight is *)
(* promoted.  The model is called next.                                      *)
ToolReturns(p) ==
    /\ At("tool", p)
    /\ \/ rec.status = "running" /\ UNCHANGED <<channel, said>>
       \/ rec.status \in Settled /\ channel' = rec.attempt /\ Told(rec.attempt)
       \/ rec.status = "needs_input" /\ channel' = rec.attempt /\ UNCHANGED said
    /\ turn' = [pc |-> "ask", by |-> p]
    /\ UNCHANGED <<kind, rec, run, amend, push, up, faults>>

\* Mutant: what is pending is told, whether the thread has it or not.
AskAgain(p) ==
    /\ kind = "pull"
    /\ turn = Idle \/ At("ask", p)
    /\ turn' = IF Pending(rec, p)
               THEN [pc |-> "answer", by |-> p, n |-> rec.attempt] ELSE [pc |-> "index", by |-> p]
    /\ UNCHANGED <<kind, rec, run, amend, push, channel, said, up, faults>>

(* awrap_model_call: the endings pending for the thread and not told in it   *)
(* yet go into the request.                                                  *)
Ask(p) ==
    /\ kind = "pull"
    /\ turn = Idle \/ At("ask", p)
    /\ turn' = IF Pending(rec, p) /\ ~InThread(rec.attempt)
               THEN [pc |-> "answer", by |-> p, n |-> rec.attempt] ELSE [pc |-> "index", by |-> p]
    /\ UNCHANGED <<kind, rec, run, amend, push, channel, said, up, faults>>

(* The model answered: its message and the channel are one checkpoint. *)
Answer(p) ==
    /\ At("answer", p)
    /\ channel' = turn.n /\ Told(turn.n)
    /\ turn' = [pc |-> "index", by |-> p]
    /\ UNCHANGED <<kind, rec, run, amend, push, up, faults>>

(* The model call fails, or the turn is dropped: nothing is in the thread. *)
TurnDies(p) ==
    /\ turn.pc \in {"tool", "ask", "answer"} /\ turn.by = p
    /\ turn' = Idle
    /\ faults < MaxFault /\ faults' = faults + 1
    /\ UNCHANGED <<kind, rec, run, amend, push, channel, said, up>>

(* aafter_model: what is pending and told is marked; mark_delivered reads    *)
(* the record again, and writes it back stamped.                             *)
Index(p) ==
    /\ At("index", p)
    /\ turn' = IF Pending(rec, p) /\ InThread(rec.attempt)
               THEN [pc |-> "mark", by |-> p] ELSE Idle
    /\ UNCHANGED <<kind, rec, run, amend, push, channel, said, up, faults>>

MarkRead(p) ==
    /\ At("mark", p)
    /\ turn' = IF rec.stamped THEN Idle
               ELSE [pc |-> "write", by |-> p, copy |-> [rec EXCEPT !.stamped = TRUE]]
    /\ UNCHANGED <<kind, rec, run, amend, push, channel, said, up, faults>>

MarkWrite(p) ==
    /\ At("write", p)
    /\ rec' = turn.copy
    /\ turn' = Idle
    /\ UNCHANGED <<kind, run, amend, push, channel, said, up, faults>>

----------------------------------------------------------------------------
(* A process dies with its run, its pushes and its turn. *)
Crash(p) ==
    /\ up' = up \ {p}
    /\ run' = IF run # NoRun /\ run.by = p THEN NoRun ELSE run
    /\ amend' = IF Amending(p) THEN NoRun ELSE amend
    /\ push' = [push EXCEPT ![p] = [n \in Attempt |-> NoPush]]
    /\ turn' = IF turn # Idle /\ turn.by = p THEN Idle ELSE turn
    /\ faults < MaxFault /\ faults' = faults + 1
    /\ UNCHANGED <<kind, rec, channel, said>>

(* A process stops with nothing of the job under way. *)
Stop(p) ==
    /\ run # NoRun => run.by # p
    /\ turn # Idle => turn.by # p
    /\ ~Amending(p) /\ push[p] = [n \in Attempt |-> NoPush]
    /\ up' = up \ {p}
    /\ UNCHANGED <<kind, rec, run, amend, push, turn, channel, said, faults>>

\* Mutant: what a stopped process left pending is not pushed.
StartSilently(p) ==
    /\ p \notin up
    /\ up' = up \cup {p}
    /\ IF rec.status = "running" /\ run = NoRun
       THEN Persist([rec EXCEPT !.status = "failed"], p)
       ELSE UNCHANGED <<rec, push>>
    /\ UNCHANGED <<kind, run, amend, turn, channel, said, faults>>

(* A process starts: recover_interrupted settles a job nobody runs, then     *)
(* _push_pending pushes what a stopped process left.                         *)
Start(p) ==
    /\ p \notin up
    /\ up' = up \cup {p}
    /\ IF rec.status = "running" /\ run = NoRun
       THEN Persist([rec EXCEPT !.status = "failed"], p)
       ELSE /\ push' = IF kind = "push" /\ rec.status \in Settled /\ ~rec.stamped
                       THEN [push EXCEPT ![p][rec.attempt] = [pc |-> "post", job |-> rec]]
                       ELSE push
            /\ UNCHANGED rec
    /\ UNCHANGED <<kind, run, amend, turn, channel, said, faults>>

\* What a process does by itself, once it has begun.
Owe(p) ==
    \/ SaveEnding(p)
    \/ \E n \in Attempt : Post(p, n) \/ Look(p, n) \/ Stamp(p, n)
    \/ ToolReturns(p) \/ Answer(p) \/ MarkRead(p) \/ MarkWrite(p)

Next ==
    \/ \E p \in up :
        \/ Advance(p) \/ Conclude(p) \/ LateCancel(p) \/ CancelPaused(p)
        \/ Undisturbed /\ Resume(p)
        \/ AmendStop(p) \/ TurnDies(p) \/ Crash(p) \/ Stop(p)
        \/ Owe(p) \/ Ask(p) \/ Index(p) \/ AmendRefused(p)
        \/ Undisturbed /\ AmendGo(p)
    \/ \E p \in Proc : Start(p)

(* Processes carry on with what they began, and the conversation has turns,  *)
(* also while the job is not being amended.  Nobody need start a process or  *)
(* stop one.                                                                 *)
Fairness ==
    /\ \A p \in Proc :
        /\ WF_vars(p \in up /\ Owe(p))
        /\ WF_vars(p \in up /\ (AmendGo(p) \/ AmendRefused(p)))
    /\ SF_vars(\E p \in up : Pending(rec, p) /\ Ask(p))
    /\ SF_vars(\E p \in up : Pending(rec, p) /\ Index(p))

Safety == Init /\ [][Next]_vars
Spec == Safety /\ Fairness

----------------------------------------------------------------------------
(* Types: a copy is a whole record, and a driver only ever has one of its own. *)
TypeOK ==
    /\ kind \in Kind /\ rec \in Record /\ up \subseteq Proc
    /\ run \in {NoRun} \cup [pc : {"drive", "save"}, by : Proc, rec : Record]
    /\ amend \in {NoRun} \cup [pc : {"join"}, by : Proc]
    /\ push \in [Proc -> [Attempt -> {NoPush} \cup [pc : {"post", "look"}, job : Record]
                                        \cup [pc : {"write"}, copy : Record]]]
    /\ turn \in {Idle} \cup [pc : {"tool", "ask", "index", "mark"}, by : Proc]
                \cup [pc : {"answer"}, by : Proc, n : Attempt]
                \cup [pc : {"write"}, by : Proc, copy : Record]
    /\ channel \in 0 .. MaxAttempt
    /\ said \in [Attempt -> 0 .. 2]
    /\ faults \in 0 .. MaxFault

(* delivered_at is never ahead of the receiver: an ending that is stamped    *)
(* was posted, or stands in the thread (the index of the channel).           *)
StampIsEarned ==
    kind # "none" /\ rec.status \in Settled /\ rec.stamped => said[rec.attempt] > 0

(* The half of it that nothing in the code can break: a pushed ending is     *)
(* stamped when the receiver has that very ending, whatever attempt, stamp   *)
(* or restart fell between its post, the look and the stamp (_push).         *)
PushIsEarned == kind = "push" => StampIsEarned

(* The thread is told of each ending at most once, however the turns that    *)
(* carry it die, and whether the launch tool or a notice told it.            *)
ToldOnce == kind = "pull" => \A n \in Attempt : said[n] < 2

(* Stamped "only while the record is still that ending" (_push): a stamp     *)
(* never takes the job back, neither to an earlier attempt nor from a run to *)
(* the ending that run left (_push and mark_delivered write whole records).  *)
StampsLeaveTheRun ==
    [][/\ rec'.attempt >= rec.attempt
       /\ run.pc = "drive" /\ UNCHANGED run => rec'.status \notin Settled]_vars

Waits(n) ==
    kind # "none" /\ rec.attempt = n /\ rec.status \in Settled /\ ~rec.stamped

\* Process p has this ending to deliver: its push, or a conversation to have.
Has(p, n) == p \in up /\ Waits(n) /\ (kind = "pull" \/ push[p][n] # NoPush)

\* Some process is stopped and started over and over.
Restarts == \E p \in Proc : []<>(p \in up) /\ []<>(p \notin up)

(* An ending that waits reaches its receiver and is stamped, unless the job  *)
(* is picked up again, over failed posts and turns that die: by any process  *)
(* that has it, if that process stays up ("retried until it succeeds"), and  *)
(* by the next start, if none had it and processes are stopped and started   *)
(* ("a process that stops leaves it to the next start").                     *)
NothingIsLost ==
    \A n \in Attempt :
        /\ \A p \in Proc : Has(p, n) ~> (~Waits(n) \/ p \notin up)
        /\ Restarts => (Waits(n) ~> ~Waits(n))

(* What the deliverer says of a pushed ending, "retried ... until it         *)
(* succeeds", and what decision 0166 rejects, "a daemon that runs for weeks  *)
(* would then leave an ending undelivered until it restarts": where every    *)
(* process stays up, an ending that is saved is pushed.                      *)
EndingsArePushed ==
    \A n \in Attempt : (kind = "push" /\ Waits(n)) ~> (~Waits(n) \/ up # Proc)
============================================================================
