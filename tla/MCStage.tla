------------------------------ MODULE MCStage ------------------------------
(* Stage with three tasks on two workers; a task may be pinned to either  *)
(* worker as preferred or allowed worker, or carry no hint.               *)
EXTENDS Stage

MCHints == {<< >>, <<1>>, <<2>>}

(* No task carries a placement hint: every worker is a candidate.       *)
MCHintsNone == {<< >>}

(* The refinement mapping: the stage's Lifecycle flags give the abstract  *)
(* status; out and the cancelled flag map directly.                       *)
StageStatus ==
    IF stage.stopped THEN "stopped"
    ELSE IF stage.started THEN "running" ELSE "new"

AbstractStage == INSTANCE StageRun WITH status <- StageStatus,
                                        cancelled <- stage.cancelled

(* Stage.execute with its callbacks and Stage.cancel implements StageRun: *)
(* it starts once, hands out results only while running and in task      *)
(* order, stops once and never hands out a result after stopping.         *)
StageImplementsStageRun == AbstractStage!Spec
====
