------------------------------ MODULE Relaunch ------------------------------
(* JobManager.recover_interrupted and relaunch_interrupted, in daemons that  *)
(* start over one store after the process that ran a job has died: claiming  *)
(* the job with a lease, waiting one heartbeat, resuming it.                 *)
(*                                                                           *)
(* JobEngine has the store operations of a recovery and of a resume one by   *)
(* one; here the recovery is one step, and what is kept apart is the claim:  *)
(* list, lease, wait, look, resume.  All daemons are of one machine, so that *)
(* a dead owner is known to be dead.                                         *)
EXTENDS Naturals

CONSTANTS
    Daemon,      \* the daemons; a restart is another element
    Bound,       \* GraphSpec.relaunch
    MayStraddle  \* may the steps from listing to claiming, or from looking to
                 \* RUNNING, be overtaken by those of another daemon?

ASSUME RelaunchAssumption ==
    Bound \in Nat /\ MayStraddle \in BOOLEAN /\ {"none", "gone"} \cap Daemon = {}

VARIABLES
    rec,    \* the record: its status, its attempt, the daemon that wrote RUNNING
    lease,  \* the owner the lease names (an expired one too), or "none"
    pc,     \* where each daemon stands
    copy    \* the attempt each daemon loaded to resume

vars == <<rec, lease, pc, copy>>

PC == {"down", "recover", "list", "claim", "wait", "load", "lease", "mark", "drive",
       "release", "serve", "dead"}

Dead(owner) == owner \in {"none", "gone"} \/ pc[owner] = "dead"

Init ==
    /\ rec = [status |-> "running", attempt |-> 1, by |-> "gone"]
    /\ lease = "gone"
    /\ pc = [d \in Daemon |-> "down"]
    /\ copy = [d \in Daemon |-> 0]

Goto(d, there) == pc' = [pc EXCEPT ![d] = there]
At(d, here) == pc[d] = here

Start(d) ==
    /\ At(d, "down")
    /\ Goto(d, "recover")
    /\ UNCHANGED <<rec, lease, copy>>

\* Mutant: only the first owner's lease is judged, a daemon's is taken for alive.
RecoverFirst(d) ==
    /\ At(d, "recover")
    /\ IF rec.status = "running" /\ lease = "gone"
       THEN rec' = [rec EXCEPT !.status = "failed"] /\ lease' = d
       ELSE UNCHANGED <<rec, lease>>
    /\ Goto(d, "list")
    /\ UNCHANGED copy

(* recover_interrupted: the owner is gone, its lease is overwritten with an  *)
(* expired one, and the job settled: FAILED, interrupted.                    *)
Recover(d) ==
    /\ At(d, "recover")
    /\ IF rec.status = "running" /\ Dead(lease)
       THEN rec' = [rec EXCEPT !.status = "failed"] /\ lease' = d
       ELSE UNCHANGED <<rec, lease>>
    /\ Goto(d, "list")
    /\ UNCHANGED copy

\* Mutant: the bound is not looked at.
RelaunchableUnbound == rec.status = "failed"

(* _relaunchable, of a job listed FAILED. *)
Relaunchable == rec.status = "failed" /\ rec.attempt <= Bound

List(d) ==
    /\ At(d, "list")
    /\ Goto(d, IF Relaunchable THEN "claim" ELSE "serve")
    /\ UNCHANGED <<rec, lease, copy>>

\* Between its look and RUNNING.
Taking(e) == pc[e] \in {"load", "lease", "mark"}

Claim(d) ==
    /\ At(d, "claim")
    /\ MayStraddle \/ (Relaunchable /\ \A e \in Daemon : ~At(e, "mark"))
    /\ lease' = d
    /\ Goto(d, "wait")
    /\ UNCHANGED <<rec, copy>>

\* Mutant: whoever claimed resumes.
LookAway(d) ==
    /\ At(d, "wait")
    /\ MayStraddle \/ \A e \in Daemon : ~Taking(e)
    /\ Goto(d, "load")
    /\ UNCHANGED <<rec, lease, copy>>

(* One heartbeat later: is the claim still ours? *)
Look(d) ==
    /\ At(d, "wait")
    /\ MayStraddle \/ \A e \in Daemon : ~Taking(e)
    /\ Goto(d, IF lease = d THEN "load" ELSE "serve")
    /\ UNCHANGED <<rec, lease, copy>>

(* start_resume: the record is read again; one that is not FAILED any more   *)
(* is refused, and the claim released.                                       *)
Load(d) ==
    /\ At(d, "load")
    /\ IF rec.status = "failed"
       THEN Goto(d, "lease") /\ copy' = [copy EXCEPT ![d] = rec.attempt + 1]
       ELSE Goto(d, "release") /\ UNCHANGED copy
    /\ UNCHANGED <<rec, lease>>

(* _begin: the lease, then RUNNING. *)
Take(d) ==
    /\ At(d, "lease")
    /\ lease' = d
    /\ Goto(d, "mark")
    /\ UNCHANGED <<rec, copy>>

Mark(d) ==
    /\ At(d, "mark")
    /\ rec' = [status |-> "running", attempt |-> copy[d], by |-> d]
    /\ Goto(d, "drive")
    /\ UNCHANGED <<lease, copy>>

(* The heartbeat: a lease that names another stops the run, which writes     *)
(* nothing more; otherwise it is renewed.                                    *)
Beat(d) ==
    /\ At(d, "drive")
    /\ IF lease \notin {d, "none"}
       THEN Goto(d, "serve") /\ UNCHANGED lease
       ELSE lease' = d /\ UNCHANGED pc
    /\ UNCHANGED <<rec, copy>>

Finish(d) ==
    /\ At(d, "drive")
    /\ rec' = [rec EXCEPT !.status = "done"]
    /\ Goto(d, "release")
    /\ UNCHANGED <<lease, copy>>

Release(d) ==
    /\ At(d, "release")
    /\ lease' = "none"
    /\ Goto(d, "serve")
    /\ UNCHANGED <<rec, copy>>

Crash(d) ==
    /\ pc[d] \notin {"down", "dead"}
    /\ Goto(d, "dead")
    /\ UNCHANGED <<rec, lease, copy>>

Work(d) ==
    \/ Start(d) \/ Recover(d) \/ List(d) \/ Claim(d) \/ Look(d) \/ Load(d) \/ Take(d)
    \/ Mark(d) \/ Finish(d) \/ Release(d)

Next == \E d \in Daemon : Work(d) \/ Beat(d) \/ Crash(d)

(* Processes carry on, and every daemon starts some day. *)
Spec == Init /\ [][Next]_vars /\ \A d \in Daemon : WF_vars(Work(d))

----------------------------------------------------------------------------
(* Types: who the store may name. *)
TypeOK ==
    /\ rec \in [status : {"running", "failed", "done"}, attempt : Nat \ {0},
                by : Daemon \cup {"gone"}]
    /\ lease \in Daemon \cup {"none", "gone"}
    /\ pc \in [Daemon -> PC]
    /\ copy \in [Daemon -> Nat]

(* The attempts a relaunch opens are bounded, although each daemon judges    *)
(* the bound on a listing and resumes the record it reads later (issue 189). *)
RelaunchIsBounded == rec.attempt <= Bound + 1

(* One run at a time, however many daemons claim the job at once.            *)
OneDriver == \A d, e \in Daemon : At(d, "drive") /\ At(e, "drive") => d = e

(* A record that says RUNNING is run by the daemon that wrote it, unless it  *)
(* died: no claim that comes late takes the lease of a run from it.          *)
RunningIsRun ==
    rec.status = "running" => rec.by = "gone" \/ pc[rec.by] \in {"drive", "dead"}

(* Of daemons that start at once and all live, one relaunches the job.       *)
SomebodyRelaunches ==
    (\A d \in Daemon : At(d, "serve")) /\ Bound > 0 => rec.status = "done"

(* What the daemons believe of the job agrees with its record: one driver,   *)
(* whose run the record names, and somebody to drive it when all of them     *)
(* started (relaunch_interrupted, "the job is its to relaunch").             *)
ClaimsAgree == OneDriver /\ RunningIsRun /\ SomebodyRelaunches

Abandoned == rec.status = "running" /\ Dead(rec.by)

(* A run left behind is recovered or relaunched by whoever starts after.     *)
LeftIsFound ==
    \A d \in Daemon :
        (At(d, "down") /\ Abandoned) ~> (~Abandoned \/ At(d, "dead"))
============================================================================
