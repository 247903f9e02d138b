----------------------------- MODULE JobEngine -----------------------------
(* JobManager over a store that several processes share: one job, the calls  *)
(* made on it (run, resume, answer, cancel, recover), the lease and the      *)
(* heartbeat of engine/ownership.py.                                         *)
(*                                                                           *)
(* A call is one coroutine of one process.  Every await on the store is one  *)
(* step: the operation takes effect and the coroutine runs to its next       *)
(* await.  Steps of different calls, heartbeats and crashes interleave.      *)
(* The record is abstracted to its status and its attempt; facts, usage and  *)
(* delivery stamps ride on the same writes and are left out here.            *)
EXTENDS Naturals, FiniteSets

CONSTANTS
    Proc,             \* JobManager instances; a restart is another element
    Call,             \* the calls made on the job, each at most once
    KindOf,           \* what each call is
    ProcOf,           \* the process each call is made in
    Host,             \* the machine (and pid namespace) of each process
    MayStall,         \* may an event loop stall past LeasePolicy.ttl?
    MayCancelQueued,  \* may a cancel from elsewhere find the job QUEUED?
    MayOvertake,      \* may a resume begin while others still deal with its last attempt?
    NoLease, NoCall   \* "no lease in the store", "no task in _tasks"

Status == {"none", "queued", "running", "done", "failed", "cancelled", "needs_input"}
Settled == {"done", "failed", "cancelled"}
Resumable == {"failed", "cancelled"}
Kind == {"run", "resume", "answer", "cancel", "recover"}
Record == [status : Status, attempt : Nat]
Lease == [owner : Proc, live : BOOLEAN]

ASSUME ConstantsAssumption ==
    /\ KindOf \in [Call -> Kind]
    /\ ProcOf \in [Call -> Proc]
    /\ {MayStall, MayCancelQueued, MayOvertake} \subseteq BOOLEAN
    /\ NoLease \notin Lease
    /\ NoCall \notin Call

VARIABLES
    rec,        \* the job's summary in the store
    lease,      \* the job's lease in the store; live: expires_at not reached
    cancelReq,  \* is a cancel request recorded next to the lease?
    frontier,   \* does the checkpoint have nodes left to run (runner.pending)?
    up,         \* the processes that have not crashed
    pc,         \* where each call stands: the store operation it does next
    job,        \* the Job each call holds in memory; what it answered, at "end"
    seen,       \* the lease in the JobControl each call read last
    hb,         \* the Heartbeat of each run: off, asleep, or about to renew
    killed,     \* tasks with a CancelledError on its way, outside _drive's stream
    handle,     \* _tasks: the task each process would cancel
    awaits      \* the task each cancel_job awaits

vars == <<rec, lease, cancelReq, frontier, up, pc, job, seen, hb, killed, handle, awaits>>
store == <<rec, lease, cancelReq, frontier>>

Drivers == {c \in Call : KindOf[c] \in {"run", "resume", "answer"}}
Cancels == {c \in Call : KindOf[c] = "cancel"}
Recovers == {c \in Call : KindOf[c] = "recover"}

PC == {"idle", "load", "frontier", "clear", "lease", "control", "running", "refuse",
       "unlease", "spawn", "drive", "final", "release", "join", "request", "bury",
       "look", "summary", "poll", "owner", "fence", "second", "settle", "settling", "end"}

\* Between save_lease and release_lease: the process has a lease to keep.
Holding == {"control", "running", "refuse", "unlease", "spawn", "drive", "final", "release"}

\* A run giving up its lease, a canceller or a recovery deciding on the job.
Closing == {"release", "request", "bury", "look", "summary", "poll", "owner", "fence",
            "second", "settle", "settling"}

Mine(p, live) == [owner |-> p, live |-> live]
Alive(c) == ProcOf[c] \in up
Unstarted == [status |-> "none", attempt |-> 0]

Init ==
    /\ rec = Unstarted
    /\ lease = NoLease
    /\ cancelReq = FALSE
    /\ frontier = FALSE
    /\ up = Proc
    /\ pc = [c \in Call |-> "idle"]
    /\ job = [c \in Call |-> Unstarted]
    /\ seen = [c \in Call |-> NoLease]
    /\ hb = [c \in Call |-> "off"]
    /\ killed = {}
    /\ handle = [p \in Proc |-> NoCall]
    /\ awaits = [c \in Call |-> NoCall]

----------------------------------------------------------------------------
(* A task that ends runs its done callback, which pops whatever handle the   *)
(* process has for the job.  A coroutine that is not a task yet has none.    *)
IsTask(c) == KindOf[c] = "run" \/ pc[c] \in {"spawn", "drive", "final", "release"}

Ends(c, to) ==
    IF to = "end" /\ c \in Drivers /\ IsTask(c)
    THEN [handle EXCEPT ![ProcOf[c]] = NoCall]
    ELSE handle

(* The await returned: on to the next one, unless the task was cancelled     *)
(* meanwhile.  The operation has taken effect all the same.                  *)
Goto(c, next) ==
    LET to == IF c \in killed THEN "end" ELSE next
    IN  /\ pc' = [pc EXCEPT ![c] = to]
        /\ handle' = Ends(c, to)

At(c, here) == Alive(c) /\ pc[c] = here

(* recover_interrupted runs at startup, before the process serves anything.  *)
Serving(p) == \A r \in Recovers : ProcOf[r] = p => pc[r] = "end"
Invoked(c) == At(c, "idle") /\ Serving(ProcOf[c])

SetJob(c, status) == job' = [job EXCEPT ![c].status = status]

\* Mutant: a pid of this machine is taken for dead without asking.
PidGoneUnasked(l, p) == Host[l.owner] = Host[p]

(* owner_is_gone and death_is_certain, asked by process p of a lease it read. *)
PidGone(l, p) == Host[l.owner] = Host[p] /\ l.owner \notin up
DeathIsCertain(l, p) == l = NoLease \/ PidGone(l, p)
OwnerIsGone(l, p) == DeathIsCertain(l, p) \/ ~l.live

----------------------------------------------------------------------------
(* create_job, then start_job: a QUEUED record and a background task.        *)
Create(c) ==
    /\ KindOf[c] = "run" /\ Invoked(c)
    /\ rec.status = "none"
    /\ rec' = [status |-> "queued", attempt |-> 1]
    /\ pc' = [pc EXCEPT ![c] = "load"]
    /\ handle' = [handle EXCEPT ![ProcOf[c]] = c]
    /\ UNCHANGED <<lease, cancelReq, frontier, up, job, seen, hb, killed, awaits>>

(* run_job loads the record, and refuses one that is not QUEUED. *)
LoadQueued(c) ==
    /\ KindOf[c] = "run" /\ At(c, "load")
    /\ job' = [job EXCEPT ![c] = rec]
    /\ Goto(c, IF rec.status = "queued" THEN "lease" ELSE "end")
    /\ UNCHANGED <<store, up, seen, hb, killed, awaits>>

\* Mutant: the status of the job is not looked at.
LoadAnything(c) ==
    /\ KindOf[c] \in {"resume", "answer"} /\ Invoked(c)
    /\ rec.status # "none"
    /\ ~MayOvertake => \A d \in Call : Alive(d) => pc[d] \notin Closing
    /\ Goto(c, "frontier")
    /\ job' = [job EXCEPT ![c] = rec]
    /\ UNCHANGED <<store, up, seen, hb, killed, awaits>>

(* _begin_resume loads the record, and refuses a status it does not expect:  *)
(* a resume takes a stopped job, an answer a paused one.                     *)
LoadStopped(c) ==
    /\ KindOf[c] \in {"resume", "answer"} /\ Invoked(c)
    /\ rec.status # "none"
    /\ ~MayOvertake => \A d \in Call : Alive(d) => pc[d] \notin Closing
    /\ LET expect == IF KindOf[c] = "resume" THEN Resumable ELSE {"needs_input"}
       IN  Goto(c, IF rec.status \in expect THEN "frontier" ELSE "end")
    /\ job' = [job EXCEPT ![c] = rec]
    /\ UNCHANGED <<store, up, seen, hb, killed, awaits>>

(* ... and one whose checkpoint has nothing left to run; then it opens the   *)
(* next attempt, in memory.                                                  *)
AskFrontier(c) ==
    /\ At(c, "frontier")
    /\ job' = IF frontier THEN [job EXCEPT ![c].attempt = @ + 1] ELSE job
    /\ Goto(c, IF frontier THEN "clear" ELSE "end")
    /\ UNCHANGED <<store, up, seen, hb, killed, awaits>>

(* A cancel request is a message to the attempt it stopped: clear_cancel. *)
ClearCancel(c) ==
    /\ At(c, "clear")
    /\ cancelReq' = FALSE
    /\ Goto(c, "lease")
    /\ UNCHANGED <<rec, lease, frontier, up, job, seen, hb, killed, awaits>>

----------------------------------------------------------------------------
(* _begin: the lease first, then the control record, then RUNNING. *)
SaveLease(c) ==
    /\ At(c, "lease")
    /\ lease' = Mine(ProcOf[c], TRUE)
    /\ Goto(c, "control")
    /\ UNCHANGED <<rec, cancelReq, frontier, up, job, seen, hb, killed, awaits>>

HearCancel(c) ==
    /\ At(c, "control")
    /\ IF cancelReq THEN SetJob(c, "cancelled") ELSE SetJob(c, "running")
    /\ Goto(c, IF cancelReq THEN "refuse" ELSE "running")
    /\ UNCHANGED <<store, up, seen, hb, killed, awaits>>

(* A cancel heard before anything ran: CANCELLED is saved, the lease given   *)
(* up.  run_job then returns; _begin_resume does not look at the answer and  *)
(* its callers drive the run.                                                *)
Refuse(c) ==
    /\ At(c, "refuse")
    /\ rec' = job[c]
    /\ Goto(c, "unlease")
    /\ UNCHANGED <<lease, cancelReq, frontier, up, job, seen, hb, killed, awaits>>

(* A resume becomes a background task here, registered in _tasks. *)
Spawn(c) ==
    /\ pc' = [pc EXCEPT ![c] = "spawn"]
    /\ handle' = [handle EXCEPT ![ProcOf[c]] = c]

Unlease(c) ==
    /\ At(c, "unlease")
    /\ lease' = NoLease
    /\ IF KindOf[c] = "run" THEN Goto(c, "end") ELSE Spawn(c)
    /\ UNCHANGED <<rec, cancelReq, frontier, up, job, seen, hb, killed, awaits>>

MarkRunning(c) ==
    /\ At(c, "running")
    /\ rec' = job[c]
    /\ \/ /\ KindOf[c] = "run"
          /\ Goto(c, "drive")
          /\ hb' = [hb EXCEPT ![c] = IF c \in killed THEN "off" ELSE "asleep"]
       \/ /\ KindOf[c] # "run"
          /\ Spawn(c)
          /\ UNCHANGED hb
    /\ UNCHANGED <<lease, cancelReq, frontier, up, job, seen, killed, awaits>>

(* The first step of a resumed run's task: _drive starts its heartbeat. *)
EnterDrive(c) ==
    /\ At(c, "spawn") /\ c \notin killed
    /\ pc' = [pc EXCEPT ![c] = "drive"]
    /\ hb' = [hb EXCEPT ![c] = "asleep"]
    /\ UNCHANGED <<store, up, job, seen, killed, handle, awaits>>

----------------------------------------------------------------------------
(* _drive folds the run's updates: a fact or a finished node is persisted    *)
(* with the driver's own copy of the job; the checkpoint moves on.           *)
Apply(c) ==
    /\ At(c, "drive")
    /\ rec' = job[c]
    /\ frontier' \in BOOLEAN
    /\ UNCHANGED <<lease, cancelReq, up, pc, job, seen, hb, killed, handle, awaits>>

(* The stream is over or the run was cancelled: the heartbeat is stopped,    *)
(* the ending decided in memory, and persisted next.                         *)
Conclude(c, status) ==
    /\ SetJob(c, status)
    /\ pc' = [pc EXCEPT ![c] = "final"]
    /\ hb' = [hb EXCEPT ![c] = "off"]

Finish(c) ==
    /\ At(c, "drive")
    /\ \/ \E status \in {"done", "failed"} : Conclude(c, status) /\ frontier' = FALSE
       \/ Conclude(c, "needs_input") /\ frontier' = TRUE
    /\ UNCHANGED <<rec, lease, cancelReq, up, seen, killed, handle, awaits>>

\* Mutant: the lease is given up before the ending is persisted.
PersistEndingLast(c) ==
    /\ At(c, "final")
    /\ lease' = NoLease
    /\ Goto(c, "release")
    /\ UNCHANGED <<rec, cancelReq, frontier, up, job, seen, hb, killed, awaits>>

(* The graph raised: FAILED, with whatever the checkpoint has left. *)
Raise(c) ==
    /\ At(c, "drive")
    /\ Conclude(c, "failed")
    /\ UNCHANGED <<store, up, seen, killed, handle, awaits>>

PersistEnding(c) ==
    /\ At(c, "final")
    /\ rec' = job[c]
    /\ Goto(c, "release")
    /\ UNCHANGED <<lease, cancelReq, frontier, up, job, seen, hb, killed, awaits>>

Release(c) ==
    /\ At(c, "release")
    /\ lease' = NoLease
    /\ Goto(c, "end")
    /\ UNCHANGED <<rec, cancelReq, frontier, up, job, seen, hb, killed, awaits>>

(* A task cancelled at an await outside the stream: nothing catches the      *)
(* CancelledError, and the operation it waited for may not have happened.    *)
Escape(c) ==
    /\ Alive(c) /\ c \in killed /\ pc[c] # "end"
    /\ pc' = [pc EXCEPT ![c] = "end"]
    /\ handle' = Ends(c, "end")
    /\ UNCHANGED <<store, up, job, seen, hb, killed, awaits>>

----------------------------------------------------------------------------
Fenced(p) == lease # NoLease /\ lease.owner # p

\* Mutant: the heartbeat reads the lease and not the cancel request.
TickDeaf(c) ==
    /\ Alive(c) /\ hb[c] = "asleep"
    /\ ~Fenced(ProcOf[c])
    /\ hb' = [hb EXCEPT ![c] = "renew"]
    /\ UNCHANGED <<store, up, pc, job, seen, killed, handle, awaits>>

(* Heartbeat._loop: one read of the control record.  A lease that names      *)
(* another owner stops the run without a write (_abandon); a cancel request  *)
(* stops it through the cancelled path; otherwise the lease is renewed next. *)
Tick(c) ==
    /\ Alive(c) /\ hb[c] = "asleep"
    /\ \/ /\ Fenced(ProcOf[c])
          /\ pc' = [pc EXCEPT ![c] = "end"]
          /\ handle' = Ends(c, "end")
          /\ hb' = [hb EXCEPT ![c] = "off"]
          /\ UNCHANGED job
       \/ /\ ~Fenced(ProcOf[c]) /\ cancelReq
          /\ Conclude(c, "cancelled")
          /\ UNCHANGED handle
       \/ /\ ~Fenced(ProcOf[c]) /\ ~cancelReq
          /\ hb' = [hb EXCEPT ![c] = "renew"]
          /\ UNCHANGED <<pc, job, handle>>
    /\ UNCHANGED <<store, up, seen, killed, awaits>>

Renew(c) ==
    /\ Alive(c) /\ hb[c] = "renew"
    /\ lease' = Mine(ProcOf[c], TRUE)
    /\ hb' = [hb EXCEPT ![c] = "asleep"]
    /\ UNCHANGED <<rec, cancelReq, frontier, up, pc, job, seen, killed, handle, awaits>>

----------------------------------------------------------------------------
HasTask(p) == handle[p] # NoCall /\ pc[handle[p]] # "end"

(* cancel_job in the process that runs the job: cancel the task, await it,   *)
(* answer the record.  In the stream, _drive catches the cancellation; at    *)
(* any other await the task is stopped there (Escape, Goto).                 *)
CancelHere(c) ==
    /\ KindOf[c] = "cancel" /\ Invoked(c)
    /\ HasTask(ProcOf[c])
    /\ LET t == handle[ProcOf[c]]
       IN  /\ awaits' = [awaits EXCEPT ![c] = t]
           /\ \/ /\ pc[t] = "drive"
                 /\ SetJob(t, "cancelled")
                 /\ pc' = [pc EXCEPT ![c] = "join", ![t] = "final"]
                 /\ hb' = [hb EXCEPT ![t] = "off"]
                 /\ UNCHANGED killed
              \/ /\ pc[t] # "drive"
                 /\ killed' = killed \cup {t}
                 /\ pc' = [pc EXCEPT ![c] = "join"]
                 /\ UNCHANGED <<job, hb>>
    /\ UNCHANGED <<store, up, seen, handle>>

Join(c) ==
    /\ At(c, "join")
    /\ pc[awaits[c]] = "end"
    /\ job' = [job EXCEPT ![c] = rec]
    /\ Goto(c, "end")
    /\ UNCHANGED <<store, up, seen, hb, killed, awaits>>

\* Mutant: a settled job is stopped like any other.
CancelSettled(c) ==
    /\ KindOf[c] = "cancel" /\ Invoked(c)
    /\ ~HasTask(ProcOf[c])
    /\ rec.status \in {"none", "queued"} => MayCancelQueued
    /\ job' = [job EXCEPT ![c] = rec]
    /\ Goto(c, IF rec.status = "none" THEN "end" ELSE "request")
    /\ UNCHANGED <<store, up, seen, hb, killed, awaits>>

(* cancel_job in a process that does not run it: load the record first. *)
CancelElsewhere(c) ==
    /\ KindOf[c] = "cancel" /\ Invoked(c)
    /\ ~HasTask(ProcOf[c])
    /\ rec.status \in {"none", "queued"} => MayCancelQueued
    /\ job' = [job EXCEPT ![c] = rec]
    /\ Goto(c, CASE rec.status \in {"queued", "running"} -> "request"
                 [] rec.status = "needs_input" -> "bury"
                 [] OTHER -> "end")
    /\ UNCHANGED <<store, up, seen, hb, killed, awaits>>

\* Mutant: the tombstone is written without waiting for the owner to stop.
RequestAndBury(c) ==
    /\ At(c, "request")
    /\ cancelReq' = TRUE
    /\ Goto(c, "bury")
    /\ UNCHANGED <<rec, lease, frontier, up, job, seen, hb, killed, awaits>>

(* The request is recorded before anything else is decided. *)
Request(c) ==
    /\ At(c, "request")
    /\ cancelReq' = TRUE
    /\ Goto(c, IF job[c].status = "running" THEN "look" ELSE "bury")
    /\ UNCHANGED <<rec, lease, frontier, up, job, seen, hb, killed, awaits>>

(* The tombstone: the copy read at the start, written back as CANCELLED. *)
Bury(c) ==
    /\ At(c, "bury")
    /\ SetJob(c, "cancelled")
    /\ rec' = job'[c]
    /\ Goto(c, "end")
    /\ UNCHANGED <<lease, cancelReq, frontier, up, seen, hb, killed, awaits>>

(* _await_remote_stop: the control record first, the summary after it. *)
Look(c) ==
    /\ At(c, "look")
    /\ seen' = [seen EXCEPT ![c] = lease]
    /\ Goto(c, "summary")
    /\ UNCHANGED <<store, up, job, hb, killed, awaits>>

ReadSummary(c) ==
    /\ At(c, "summary")
    /\ job' = [job EXCEPT ![c] = rec]
    /\ Goto(c, CASE rec.status # "running" -> "end"
                 [] rec.status = "running" /\ OwnerIsGone(seen[c], ProcOf[c]) -> "fence"
                 [] OTHER -> "poll")
    /\ UNCHANGED <<store, up, seen, hb, killed, awaits>>

Poll(c) ==
    /\ At(c, "poll")
    /\ Goto(c, "look")
    /\ UNCHANGED <<store, up, job, seen, hb, killed, awaits>>

(* LeasePolicy.wait is over: the answer is RUNNING, and the request stands. *)
Deadline(c) ==
    /\ At(c, "poll")
    /\ Goto(c, "end")
    /\ UNCHANGED <<store, up, job, seen, hb, killed, awaits>>

----------------------------------------------------------------------------
\* Mutant: only the expiry of a lease is believed, not a missing pid.
ReadOwnerByClock(c) ==
    /\ At(c, "owner")
    /\ seen' = [seen EXCEPT ![c] = lease]
    /\ Goto(c, IF lease = NoLease \/ ~lease.live THEN "fence" ELSE "end")
    /\ UNCHANGED <<store, up, job, hb, killed, awaits>>

(* recover_interrupted at startup: a record that says RUNNING, with no task  *)
(* here, whose owner is gone.                                                *)
ListRunning(c) ==
    /\ KindOf[c] = "recover" /\ At(c, "idle")
    /\ job' = [job EXCEPT ![c] = rec]
    /\ Goto(c, IF rec.status = "running" /\ ~HasTask(ProcOf[c]) THEN "owner" ELSE "end")
    /\ UNCHANGED <<store, up, seen, hb, killed, awaits>>

ReadOwner(c) ==
    /\ At(c, "owner")
    /\ seen' = [seen EXCEPT ![c] = lease]
    /\ Goto(c, IF OwnerIsGone(lease, ProcOf[c]) THEN "fence" ELSE "end")
    /\ UNCHANGED <<store, up, job, hb, killed, awaits>>

\* Mutant: a takeover that failed starts over, whatever the deadline.
SecondLookAgain(c) ==
    /\ At(c, "second")
    /\ seen' = [seen EXCEPT ![c] = lease]
    /\ Goto(c, CASE lease # NoLease /\ ~Fenced(ProcOf[c]) -> "settle"
                 [] KindOf[c] = "cancel" -> "look"
                 [] OTHER -> "end")
    /\ UNCHANGED <<store, up, job, hb, killed, awaits>>

(* _take_over: overwrite the lease with one of ours already expired; unless  *)
(* the owner's death is certain, wait one heartbeat and read it again.       *)
Fence(c) ==
    /\ At(c, "fence")
    /\ lease' = Mine(ProcOf[c], FALSE)
    /\ Goto(c, IF DeathIsCertain(seen[c], ProcOf[c]) THEN "settle" ELSE "second")
    /\ UNCHANGED <<rec, cancelReq, frontier, up, job, seen, hb, killed, awaits>>

SecondLook(c) ==
    /\ At(c, "second")
    /\ seen' = [seen EXCEPT ![c] = lease]
    /\ Goto(c, CASE lease # NoLease /\ ~Fenced(ProcOf[c]) -> "settle"
                 [] KindOf[c] = "cancel" -> "poll"
                 [] OTHER -> "end")
    /\ UNCHANGED <<store, up, job, hb, killed, awaits>>

(* _settle: never over an ending already written, read once more ... *)
Settle(c) ==
    /\ At(c, "settle")
    /\ \/ /\ rec.status \notin {"queued", "running"}
          /\ job' = [job EXCEPT ![c] = rec]
          /\ Goto(c, "end")
       \/ /\ rec.status \in {"queued", "running"}
          /\ SetJob(c, IF KindOf[c] = "cancel" THEN "cancelled" ELSE "failed")
          /\ Goto(c, "settling")
    /\ UNCHANGED <<store, up, seen, hb, killed, awaits>>

(* ... and then written, from the copy the takeover started with. *)
WriteSettlement(c) ==
    /\ At(c, "settling")
    /\ rec' = job[c]
    /\ Goto(c, "end")
    /\ UNCHANGED <<lease, cancelReq, frontier, up, job, seen, hb, killed, awaits>>

----------------------------------------------------------------------------
Crash(p) ==
    /\ p \in up
    /\ up' = up \ {p}
    /\ UNCHANGED <<store, pc, job, seen, hb, killed, handle, awaits>>

(* A TTL passes without a renewal: its owner is dead, or no run of its holds *)
(* the job any more, or its event loop stalled.                              *)
Renewing(p) == p \in up /\ \E c \in Call : ProcOf[c] = p /\ pc[c] \in Holding

Expire ==
    /\ lease # NoLease /\ lease.live
    /\ Renewing(lease.owner) => MayStall
    /\ lease' = [lease EXCEPT !.live = FALSE]
    /\ UNCHANGED <<rec, cancelReq, frontier, up, pc, job, seen, hb, killed, handle, awaits>>

----------------------------------------------------------------------------
(* What the scheduler owes a call that has begun: its next step.  A run's    *)
(* stream owes nothing: a model may think for ever.                          *)
Proceed(c) ==
    \/ LoadQueued(c) \/ AskFrontier(c) \/ ClearCancel(c) \/ SaveLease(c)
    \/ HearCancel(c) \/ Refuse(c) \/ Unlease(c) \/ MarkRunning(c) \/ EnterDrive(c)
    \/ PersistEnding(c) \/ Release(c) \/ Escape(c)
    \/ Join(c) \/ Request(c) \/ Bury(c) \/ Look(c) \/ ReadSummary(c) \/ Poll(c)
    \/ ReadOwner(c) \/ Fence(c) \/ SecondLook(c) \/ Settle(c) \/ WriteSettlement(c)

Next ==
    \/ \E c \in Call :
        \/ Create(c) \/ LoadStopped(c) \/ CancelHere(c) \/ CancelElsewhere(c) \/ ListRunning(c)
        \/ Proceed(c) \/ Apply(c) \/ Finish(c) \/ Raise(c) \/ Tick(c) \/ Renew(c) \/ Deadline(c)
    \/ \E p \in Proc : Crash(p)
    \/ Expire

(* asyncio runs what is ready and its timers fire: a step, a heartbeat, and  *)
(* a deadline that the cancel loop keeps coming back to.                     *)
Fairness ==
    /\ \A c \in Call : WF_vars(Proceed(c))
    /\ \A c \in Drivers : WF_vars(Tick(c)) /\ WF_vars(Renew(c))
    /\ \A c \in Cancels : SF_vars(Deadline(c))

Safety == Init /\ [][Next]_vars
Spec == Safety /\ Fairness

----------------------------------------------------------------------------
(* What the store holds is a record, a lease or nothing, and what each call  *)
(* remembers is what load and load_control can return.                       *)
TypeOK ==
    /\ rec \in Record
    /\ lease \in Lease \cup {NoLease}
    /\ cancelReq \in BOOLEAN /\ frontier \in BOOLEAN
    /\ up \subseteq Proc
    /\ pc \in [Call -> PC]
    /\ job \in [Call -> Record]
    /\ seen \in [Call -> Lease \cup {NoLease}]
    /\ hb \in [Call -> {"off", "asleep", "renew"}]
    /\ killed \subseteq Call
    /\ handle \in [Proc -> Call \cup {NoCall}]
    /\ awaits \in [Call -> Call \cup {NoCall}]

Driving(c) == Alive(c) /\ pc[c] \in {"spawn", "drive"}

(* A run that is alive looks alive: its lease is in the store, unexpired, in *)
(* its own name.  This is what recover_interrupted and _await_remote_stop    *)
(* rely on when they read "gone" (ownership.py, owner_is_gone).              *)
LiveRunLooksAlive ==
    \A c \in Drivers : Driving(c) => lease = Mine(ProcOf[c], TRUE)

(* Two runs never work on one checkpoint at the same time: whoever resumes   *)
(* finds the last attempt's driver over (_begin_resume, recover_interrupted).*)
OneRun ==
    \A c, d \in Drivers : Driving(c) /\ Driving(d) => c = d

(* The rule _await_remote_stop rests on: a control record read with no lease *)
(* means that the summary read after it is final.                            *)
NoLeaseMeansFinal ==
    \A c \in Cancels : pc[c] = "summary" /\ seen[c] = NoLease => rec.status # "running"

(* cancel_job never answers CANCELLED for a run that carries on: no run of   *)
(* the attempt it answered for, or of an earlier one, is alive.              *)
CancelledMeansStopped ==
    \A c \in Cancels, d \in Drivers :
        pc[c] = "end" /\ job[c].status = "cancelled" /\ Driving(d) =>
            job[d].attempt > job[c].attempt

(* An ending stands: only a later attempt takes a settled record further     *)
(* (_settle never writes over an ending already written; an owner that was   *)
(* fenced, or a canceller, never brings a job back).                         *)
EndingStands ==
    [][rec.status \in Settled /\ rec' # rec => rec'.attempt > rec.attempt]_vars

(* A run that reached its end records it: a stop that arrives now is too     *)
(* late, and the ending stands (_drive).                                     *)
EndingIsRecorded ==
    [][\A c \in Drivers :
            pc[c] = "final" /\ job[c].status # "cancelled" /\ pc'[c] # "final" => rec' = job[c]]_vars

(* A cancel heard by _begin is honoured before anything runs: a call that    *)
(* was refused goes no further than giving the lease up.                     *)
BeginIsHeard ==
    [][\A c \in Drivers : pc[c] = "unlease" => pc'[c] \in {"unlease", "end"}]_vars

(* A request recorded while a run is alive stops that run, at a heartbeat.   *)
CancelIsHeard ==
    \A c \in Drivers : (cancelReq /\ Driving(c)) ~> (~Driving(c) \/ ~cancelReq)

(* Every cancel_job that began is answered, if its process lives: by the     *)
(* run's end, by a takeover, or by LeasePolicy.wait.                         *)
CancelIsAnswered ==
    \A c \in Cancels : (pc[c] # "idle") ~> (pc[c] = "end" \/ ~Alive(c))

(* A crash on this machine is recognised at once: a recovery that looks at   *)
(* the lease of a dead process of its own machine leaves no RUNNING record.  *)
CrashIsRecovered ==
    \A c \in Recovers : (pc[c] = "owner" /\ lease # NoLease /\ PidGone(lease, ProcOf[c]))
        ~> (rec.status # "running" \/ ~Alive(c))

\* The record's promise; the run that works on the job is any that drives it
\* or has an ending to record.
Promise == INSTANCE JobRecord WITH
    status <- rec.status,
    attempt <- rec.attempt,
    worked <- \E c \in Drivers : Alive(c) /\ pc[c] \in {"spawn", "drive", "final"}

(* The engine keeps the record's promise (JobRecord): a reader of job.status *)
(* sees only these transitions, whichever process wrote them.                *)
KeepsThePromise == Promise!Spec

============================================================================
