-------------------------------- MODULE Job --------------------------------
(***************************************************************************)
(* Job.execute, Job._stage_done and Job.cancel of bndl/execute/job.py.     *)
(* Job.execute is a generator: the caller gets one stage generator per     *)
(* stage and iterates it before asking for the next stage, or closes the   *)
(* job generator (break, or garbage collection after an exception).  A    *)
(* stage is abstracted to the steps of StageRun, which Stage.tla is shown  *)
(* to implement in MCStage.tla.  Job.cancel runs on another thread.        *)
(***************************************************************************)
EXTENDS Naturals

CONSTANTS
    NumStages,   \* len(job.stages)
    NumTasks     \* len(stage.tasks) of every stage

Stages == 1..NumStages
Status == {"new", "running", "stopped"}
JPC == {"start", "check", "suspended", "finally", "done"}

VARIABLES
    job,        \* Lifecycle flags of the job
    jpc,        \* where the job generator is
    cur,        \* the stage the for loop is at (NumStages + 1: past the end)
    listening,  \* the stages _stage_done was added to as a listener
    closed,     \* the caller closed the job generator at its yield
    st,         \* per stage: StageRun status, results yielded, cancelled
    raisedOut,  \* a stage generator raised into the caller
    kc          \* Job.cancel: 0 not called, k cancelling stage k, past the end: done

vars == <<job, jpc, cur, listening, closed, st, raisedOut, kc>>

----------------------------------------------------------------------------
(* Lifecycle (bndl.util.lifecycle): running is started, not stopped and    *)
(* not cancelled.                                                          *)
NewLife == [started |-> FALSE, stopped |-> FALSE, cancelled |-> FALSE]
Running(l) == l.started /\ ~l.stopped /\ ~l.cancelled

Init ==
    /\ job = NewLife
    /\ jpc = "start"
    /\ cur = 1
    /\ listening = {}
    /\ closed = FALSE
    /\ st = [s \in Stages |-> [status |-> "new", out |-> 0, cancelled |-> FALSE]]
    /\ raisedOut = FALSE
    /\ kc = 0

(* Stage.cancel: Lifecycle.cancel of the stage (and of its tasks).         *)
CancelStage(s) == [st EXCEPT ![s].cancelled = TRUE]

----------------------------------------------------------------------------
(* Job.execute: signal_start.                                              *)
JStart ==
    /\ jpc = "start"
    /\ job' = [job EXCEPT !.started = TRUE]
    /\ jpc' = "check"
    /\ UNCHANGED <<cur, listening, closed, st, raisedOut, kc>>

\* mutant: the listener is not added
JCheckWithoutListener ==
    /\ jpc = "check"
    /\ \/ /\ cur > NumStages \/ ~Running(job)
          /\ jpc' = "finally"
       \/ /\ cur <= NumStages /\ Running(job)
          /\ jpc' = "suspended"
    /\ UNCHANGED <<job, cur, listening, closed, st, raisedOut, kc>>

(* for stage in self.stages: if not self.running: break;                   *)
(* stage.add_listener(self._stage_done); yield stage.execute(...)          *)
JCheck ==
    /\ jpc = "check"
    /\ \/ /\ cur > NumStages \/ ~Running(job)
          /\ jpc' = "finally"
          /\ UNCHANGED listening
       \/ /\ cur <= NumStages /\ Running(job)
          /\ listening' = listening \cup {cur}
          /\ jpc' = "suspended"
    /\ UNCHANGED <<job, cur, closed, st, raisedOut, kc>>

(* The caller has iterated the stage generator to its end and asks for the *)
(* next stage.                                                             *)
JResume ==
    /\ jpc = "suspended"
    /\ st[cur].status = "stopped"
    /\ ~raisedOut
    /\ cur' = cur + 1
    /\ jpc' = "check"
    /\ UNCHANGED <<job, listening, closed, st, raisedOut, kc>>

(* The caller closes the generator: GeneratorExit at the yield is caught  *)
(* by the bare except, which signals stop and re-raises.                   *)
JClose ==
    /\ jpc = "suspended"
    /\ closed' = TRUE
    /\ job' = [job EXCEPT !.stopped = TRUE]
    /\ jpc' = "finally"
    /\ UNCHANGED <<cur, listening, st, raisedOut, kc>>

(* finally: stage.cancel() for every stage that is not stopped.            *)
JFinally ==
    /\ jpc = "finally"
    /\ st' = [s \in Stages |->
                IF st[s].status # "stopped" THEN [st[s] EXCEPT !.cancelled = TRUE]
                ELSE st[s]]
    /\ jpc' = "done"
    /\ UNCHANGED <<job, cur, listening, closed, raisedOut, kc>>

\* mutant: `and stage == self.stages[-1]` is dropped
StageDoneAnyStage(s) ==
    IF s \in listening THEN [job EXCEPT !.stopped = TRUE] ELSE job

(* _stage_done(stage), called by the stage's signal_stop when it is a      *)
(* listener: the job stops when its last stage has stopped.               *)
StageDone(s) ==
    IF s \in listening /\ s = NumStages
    THEN [job EXCEPT !.stopped = TRUE] ELSE job

(* Job.cancel: super().cancel(), then stage.cancel() for each stage in     *)
(* order; the loop of Job.execute runs in between.                         *)
JobCancel ==
    /\ kc = 0
    /\ job' = [job EXCEPT !.cancelled = TRUE]
    /\ kc' = 1
    /\ UNCHANGED <<jpc, cur, listening, closed, st, raisedOut>>

\* mutant: the loop over the stages runs one index too far
JobCancelStageOnePast ==
    /\ kc \in 1..(NumStages + 1)
    /\ st' = CancelStage(kc)
    /\ kc' = kc + 1
    /\ UNCHANGED <<job, jpc, cur, listening, closed, raisedOut>>

JobCancelStage ==
    /\ kc \in Stages
    /\ st' = CancelStage(kc)
    /\ kc' = kc + 1
    /\ UNCHANGED <<job, jpc, cur, listening, closed, raisedOut>>

----------------------------------------------------------------------------
(* The stage generator handed out at the yield, driven by the caller:      *)
(* Stage.execute starts, yields its results in order, and stops: at the    *)
(* end, by an exception (a task failed or was cancelled; it then raises    *)
(* into the caller and is marked cancelled), or when the caller abandoned *)
(* it and it is closed.                                                    *)
SBegin(s) ==
    /\ jpc = "suspended" /\ s = cur /\ ~closed
    /\ st[s].status = "new"
    /\ st' = [st EXCEPT ![s].status = "running"]
    /\ UNCHANGED <<job, jpc, cur, listening, closed, raisedOut, kc>>

SYield(s) ==
    /\ st[s].status = "running" /\ ~closed
    /\ st[s].out < NumTasks
    /\ st' = [st EXCEPT ![s].out = @ + 1]
    /\ UNCHANGED <<job, jpc, cur, listening, closed, raisedOut, kc>>

SStop(s) ==
    /\ st[s].status = "running"
    /\ \/ /\ st[s].out = NumTasks
          /\ st' = [st EXCEPT ![s].status = "stopped"]
          /\ UNCHANGED raisedOut
       \/ /\ ~closed
          /\ st' = [st EXCEPT ![s].status = "stopped", ![s].cancelled = TRUE]
          /\ raisedOut' = TRUE
       \/ /\ closed
          /\ st' = [st EXCEPT ![s].status = "stopped"]
          /\ UNCHANGED raisedOut
    /\ job' = StageDone(s)
    /\ UNCHANGED <<jpc, cur, listening, closed, kc>>

----------------------------------------------------------------------------
Next ==
    \/ JStart \/ JCheck \/ JResume \/ JClose \/ JFinally
    \/ JobCancel \/ JobCancelStage
    \/ \E s \in Stages : SBegin(s) \/ SYield(s) \/ SStop(s)

(* The job generator's thread runs; the caller either goes on or closes   *)
(* the generator (after an exception it is collected and closed); a       *)
(* running stage makes progress; a started Job.cancel finishes.  Whether   *)
(* Job.cancel is called is left open.                                      *)
Fairness ==
    /\ WF_vars(JStart) /\ WF_vars(JCheck) /\ WF_vars(JFinally)
    /\ WF_vars(JResume \/ JClose)
    /\ WF_vars(JobCancelStage)
    /\ \A s \in Stages : WF_vars(SBegin(s)) /\ WF_vars(SYield(s) \/ SStop(s))

Spec == Init /\ [][Next]_vars /\ Fairness

----------------------------------------------------------------------------
TypeOK ==
    /\ job \in [started : BOOLEAN, stopped : BOOLEAN, cancelled : BOOLEAN]
    /\ jpc \in JPC
    /\ cur \in 1..(NumStages + 1)
    /\ listening \subseteq Stages
    /\ closed \in BOOLEAN
    /\ st \in [Stages -> [status : Status, out : 0..NumTasks, cancelled : BOOLEAN]]
    /\ raisedOut \in BOOLEAN
    /\ kc \in 0..(NumStages + 1)

(* spec.md 4.3, lifecycle signals: a stage's stop triggers the job's stop *)
(* only when the stage is the last, and a job is terminal when its final   *)
(* stage terminates.  So a job that has signalled stop, other than by the  *)
(* except clause when its generator was closed, has run every stage to its *)
(* stop: _stage_done on the stage's thread, the caller moving on only      *)
(* after a stage ended, and Job.cancel racing the loop never let an        *)
(* observer see a stopped job with a stage that has not run.               *)
StopMeansStagesDone ==
    (job.stopped /\ ~closed) => \A s \in Stages : st[s].status = "stopped"

(* Every job reaches a terminal state: it signals stop (through           *)
(* _stage_done of its last stage, or when its generator is closed) or it  *)
(* is cancelled.  Stages are assumed to terminate (see stage_permit_leak). *)
JobTerminates == <>(job.stopped \/ job.cancelled)

=============================================================================
