---------------------------- MODULE MCJobEngine ----------------------------
(* Scripts for TLC: which calls are made on the job, and in which process.   *)
(* Processes a and b share a machine, c is on another.                       *)
EXTENDS JobEngine, TLC

Machines == [p \in Proc |-> IF p = "c" THEN "m2" ELSE "m1"]

(* A run, cancelled from its own process, from its machine and from another. *)
StopKind == "run" :> "run" @@ "here" :> "cancel" @@ "near" :> "cancel" @@ "far" :> "cancel"
StopProc == "run" :> "a" @@ "here" :> "a" @@ "near" :> "b" @@ "far" :> "c"

(* One canceller less, where event loops may stall past the TTL. *)
HearKind == "run" :> "run" @@ "here" :> "cancel" @@ "far" :> "cancel"
HearProc == "run" :> "a" @@ "here" :> "a" @@ "far" :> "c"

(* A run that may crash; a process that starts on its machine, recovers it,  *)
(* resumes it, and answers it when it pauses.                                *)
BackKind == "run" :> "run" @@ "boot" :> "recover" @@ "resume" :> "resume" @@ "answer" :> "answer"
BackProc == "run" :> "a" @@ "boot" :> "b" @@ "resume" :> "b" @@ "answer" :> "a"

(* The scripts of the disagreements: a cancel that finds the job QUEUED; a   *)
(* local cancel of a run that has just ended; an answer given as soon as the *)
(* run paused; a resume while a slow cancel of the last attempt is under way.*)
QueuedKind == "run" :> "run" @@ "far" :> "cancel"
QueuedProc == "run" :> "a" @@ "far" :> "b"

LateKind == "run" :> "run" @@ "here" :> "cancel"
LateProc == "run" :> "a" @@ "here" :> "a"

HandoverKind == "run" :> "run" @@ "answer" :> "answer"
HandoverProc == "run" :> "a" @@ "answer" :> "a"

BeginKind == "run" :> "run" @@ "far" :> "cancel" @@ "resume" :> "resume"
BeginProc == "run" :> "a" @@ "far" :> "b" @@ "resume" :> "a"

(* A run that crashes while one process cancels it and another recovers it.  *)
TakersKind == "run" :> "run" @@ "far" :> "cancel" @@ "boot" :> "recover"
TakersProc == "run" :> "a" @@ "far" :> "c" @@ "boot" :> "b"

============================================================================
