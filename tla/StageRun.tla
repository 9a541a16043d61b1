------------------------------ MODULE StageRun ------------------------------
(***************************************************************************)
(* What one run of a stage promises the job and the caller, without        *)
(* workers, futures or the scheduling queues: the stage starts, hands out  *)
(* the results of its tasks in task order, and signals stop once; it may   *)
(* be cancelled at any time, and an exception marks it cancelled as it     *)
(* stops.  Stage.tla implements it (see MCStage.tla), and Job.tla drives   *)
(* its stages through these steps.                                         *)
(***************************************************************************)
EXTENDS Naturals, Sequences

CONSTANT NumTasks

VARIABLES
    status,     \* "new", "running" or "stopped" (the Lifecycle flags)
    out,        \* the task ids whose results were handed out, in order
    cancelled   \* the Lifecycle cancelled flag

vars == <<status, out, cancelled>>

Status == {"new", "running", "stopped"}

Init ==
    /\ status = "new"
    /\ out = << >>
    /\ cancelled = FALSE

Begin ==
    /\ status = "new"
    /\ status' = "running"
    /\ UNCHANGED <<out, cancelled>>

(* The next result in task order.                                          *)
Yield ==
    /\ status = "running"
    /\ Len(out) < NumTasks
    /\ out' = Append(out, Len(out) + 1)
    /\ UNCHANGED <<status, cancelled>>

Stop ==
    /\ status = "running"
    /\ status' = "stopped"
    /\ cancelled' \in {cancelled, TRUE}
    /\ UNCHANGED out

Cancel ==
    /\ ~cancelled
    /\ cancelled' = TRUE
    /\ UNCHANGED <<status, out>>

Next == Begin \/ Yield \/ Stop \/ Cancel

Spec == Init /\ [][Next]_vars

=============================================================================
