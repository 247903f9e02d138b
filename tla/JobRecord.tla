----------------------------- MODULE JobRecord -----------------------------
(* What a job's record promises whoever reads it, whatever processes and     *)
(* leases lie behind: which status may follow which, that only the run that  *)
(* works on a job ends it, and that an ending is left only by a new attempt. *)
EXTENDS Naturals

VARIABLES
    status,   \* what the record says
    attempt,  \* which attempt it says it of
    worked    \* is a run of the job alive, its ending not yet recorded?

vars == <<status, attempt, worked>>

Init == status = "none" /\ attempt = 0 /\ worked = FALSE

Create ==
    /\ status = "none"
    /\ status' = "queued" /\ attempt' = 1
    /\ UNCHANGED worked

\* A run begins; it may be stopped as the record first says so.
Start ==
    /\ status = "queued" /\ ~worked
    /\ status' = "running" /\ worked' \in BOOLEAN
    /\ UNCHANGED attempt

\* A cancel heard before the run began.
Refuse ==
    /\ status = "queued" /\ ~worked
    /\ status' = "cancelled"
    /\ UNCHANGED <<attempt, worked>>

\* The run records its own ending, or its pause.
End ==
    /\ status = "running" /\ worked
    /\ status' \in {"done", "failed", "cancelled", "needs_input"}
    /\ worked' = FALSE
    /\ UNCHANGED attempt

\* The run is gone without a word: a crash, a task stopped too late.
Die ==
    /\ worked
    /\ worked' = FALSE
    /\ UNCHANGED <<status, attempt>>

\* Somebody else ends a job that nobody runs.
Settle ==
    /\ status \in {"running", "needs_input"} /\ ~worked
    /\ status' \in {"failed", "cancelled"}
    /\ UNCHANGED <<attempt, worked>>

Resume ==
    /\ status \in {"failed", "cancelled", "needs_input"} /\ ~worked
    /\ status' = "running" /\ attempt' = attempt + 1 /\ worked' = TRUE

Next == Create \/ Start \/ Refuse \/ End \/ Die \/ Settle \/ Resume

Spec == Init /\ [][Next]_vars

============================================================================
