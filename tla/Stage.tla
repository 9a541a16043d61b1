------------------------------- MODULE Stage -------------------------------
(***************************************************************************)
(* Stage.execute of bndl/execute/job.py: the driver thread that runs the   *)
(* stage generator (eager or one-by-one), the threads that complete the    *)
(* task futures and run their done callbacks, and a concurrent             *)
(* Stage.cancel.  A result is abstracted to the outcome of its future.     *)
(***************************************************************************)
EXTENDS Naturals, Sequences, SequencesExt, FiniteSets

CONSTANTS
    NumTasks,     \* len(stage.tasks)
    NumWorkers,   \* len(workers); worker i is workers[i-1]
    Hints         \* the lists a task's preferred/allowed_workers may be

ASSUME NumTasks \in Nat \ {0} /\ NumWorkers \in Nat \ {0}

Tasks == 1..NumTasks
Workers == 1..NumWorkers
WorkerList == [i \in Workers |-> i]
NoWorker == 0

ASSUME Hints \subseteq Seq(Workers) /\ << >> \in Hints

Outcome == {"ok", "error", "cancelled"}   \* a done future
FutureState == {"none", "pending"} \cup Outcome
CallbackState == {"idle", "stop", "release", "remove", "fin"}
PC == {"start", "loop", "acquire", "collect", "suspended",
       "obo", "obo_wait", "finally", "done"}

VARIABLES
    eager,       \* the eager argument of Stage.execute
    preferred,   \* task.preferred_workers (<< >> for None)
    allowed,     \* task.allowed_workers (<< >> for None)
    pc,          \* where the thread running the stage generator is
    stage,       \* Lifecycle flags of the stage
    life,        \* Lifecycle flags of each task
    fut,         \* task.future
    cb,          \* how far the done callbacks of task.future have run
    wk,          \* the worker a task was started on
    toSchedule,  \* to_schedule: pop() takes the last element
    toYield,     \* to_yield: to_yield[-1] is the next result to hand out
    occupied,    \* occupied
    permits,     \* the counter of the workers_available semaphore
    raised,      \* the generator is unwinding from an exception
    out          \* history: the tasks whose result the generator yielded

vars == <<eager, preferred, allowed, pc, stage, life, fut, cb, wk,
          toSchedule, toYield, occupied, permits, raised, out>>

----------------------------------------------------------------------------
(* Lifecycle (bndl.util.lifecycle): started, stopped and cancelled flags.  *)

NewLife == [started |-> FALSE, stopped |-> FALSE, cancelled |-> FALSE]
SignalStart(l) == [l EXCEPT !.started = TRUE]
SignalStop(l) == [l EXCEPT !.stopped = TRUE]
CancelLife(l) == [l EXCEPT !.cancelled = TRUE]

----------------------------------------------------------------------------
(* to_schedule = self.tasks[::-1]; to_yield = to_schedule[:]               *)
TaskList == [i \in Tasks |-> i]
\* mutant: to_schedule = self.tasks[:]
InitialQueueUnreversed == TaskList
InitialQueue == Reverse(TaskList)

Init ==
    /\ eager \in BOOLEAN
    /\ preferred \in [Tasks -> Hints]
    /\ allowed \in [Tasks -> Hints]
    /\ pc = "start"
    /\ stage = NewLife
    /\ life = [t \in Tasks |-> NewLife]
    /\ fut = [t \in Tasks |-> "none"]
    /\ cb = [t \in Tasks |-> "idle"]
    /\ wk = [t \in Tasks |-> NoWorker]
    /\ toSchedule = InitialQueue
    /\ toYield = InitialQueue
    /\ occupied = {}
    /\ permits = NumWorkers
    /\ raised = FALSE
    /\ out = << >>

----------------------------------------------------------------------------
(* Task.execute: signal_start, worker.run_task sends the task and returns  *)
(* a pending future.                                                       *)
Execute(t, w) ==
    /\ life' = [life EXCEPT ![t] = SignalStart(@)]
    /\ fut' = [fut EXCEPT ![t] = "pending"]
    /\ wk' = [wk EXCEPT ![t] = w]

(* start_task: occupied.add(worker), then task.execute(worker).           *)
StartTask(t, w) ==
    /\ occupied' = occupied \cup {w}
    /\ Execute(t, w)

(* chain(task.preferred_workers or (), task.allowed_workers or workers)   *)
Candidates(t) ==
    preferred[t] \o (IF allowed[t] = << >> THEN WorkerList ELSE allowed[t])

\* mutant: the loop variable is not reset, the last candidate is used
PlacementLastCandidate(t) ==
    LET c == Candidates(t)
        i == SelectInSeq(c, LAMBDA w : w \notin occupied)
    IN  IF i = 0 THEN c[Len(c)] ELSE c[i]

(* The first candidate not in occupied, NoWorker if there is none.        *)
Placement(t) ==
    LET c == Candidates(t)
        i == SelectInSeq(c, LAMBDA w : w \notin occupied)
    IN  IF i = 0 THEN NoWorker ELSE c[i]

(* Task.result: future.result() returns the result or raises.             *)
Result(t) ==
    \/ /\ fut[t] = "ok"
       /\ out' = Append(out, t)
       /\ pc' = "suspended"
       /\ UNCHANGED raised
    \/ /\ fut[t] \in {"error", "cancelled"}
       /\ raised' = TRUE
       /\ pc' = "finally"
       /\ UNCHANGED out

\* mutant: signal_start is forgotten
StartWithoutSignal ==
    /\ pc = "start"
    /\ pc' = IF eager THEN "loop" ELSE "obo"
    /\ UNCHANGED <<eager, preferred, allowed, stage, life, fut, cb, wk, toSchedule,
                   toYield, occupied, permits, raised, out>>

(* Stage.execute: signal_start, then the eager or the one-by-one loop.    *)
Start ==
    /\ pc = "start"
    /\ stage' = SignalStart(stage)
    /\ pc' = IF eager THEN "loop" ELSE "obo"
    /\ UNCHANGED <<eager, preferred, allowed, life, fut, cb, wk, toSchedule,
                   toYield, occupied, permits, raised, out>>

(* while to_yield: if to_schedule: ...                                     *)
Loop ==
    /\ pc = "loop"
    /\ pc' = CASE toYield = << >>    -> "finally"
               [] toSchedule # << >> -> "acquire"
               [] OTHER              -> "collect"
    /\ UNCHANGED <<eager, preferred, allowed, stage, life, fut, cb, wk,
                   toSchedule, toYield, occupied, permits, raised, out>>

(* workers_available.acquire(); task = to_schedule.pop(); start it on the *)
(* first free candidate, or put it back with to_schedule.insert(0, task). *)
(* The permit is kept in both cases.                                      *)
Acquire ==
    /\ pc = "acquire"
    /\ permits > 0
    /\ permits' = permits - 1
    /\ LET t == Last(toSchedule)
           w == Placement(t)
       IN  \/ /\ w # NoWorker
              /\ StartTask(t, w)
              /\ toSchedule' = Front(toSchedule)
           \/ /\ w = NoWorker
              /\ toSchedule' = Cons(t, Front(toSchedule))
              /\ UNCHANGED <<life, fut, wk, occupied>>
    /\ pc' = "collect"
    /\ UNCHANGED <<eager, preferred, allowed, stage, cb, toYield, raised, out>>

(* Yield available results: skip a head without a future, or a head that *)
(* is not done while there is still work to schedule; otherwise block on *)
(* the head and yield to_yield.pop().result().                           *)
Collect ==
    /\ pc = "collect"
    /\ LET t == Last(toYield) IN
       \/ /\ \/ fut[t] = "none"
             \/ fut[t] = "pending" /\ toSchedule # << >>
          /\ pc' = "loop"
          /\ UNCHANGED <<toYield, raised, out>>
       \/ /\ fut[t] \in Outcome
          /\ toYield' = Front(toYield)
          /\ Result(t)
    /\ UNCHANGED <<eager, preferred, allowed, stage, life, fut, cb, wk,
                   toSchedule, occupied, permits>>

(* The caller asks the suspended generator for the next result.           *)
Resume ==
    /\ pc = "suspended"
    /\ pc' = IF eager THEN "loop" ELSE "obo"
    /\ UNCHANGED <<eager, preferred, allowed, stage, life, fut, cb, wk,
                   toSchedule, toYield, occupied, permits, raised, out>>

(* The caller closes the generator: GeneratorExit is not caught by the    *)
(* except clause, so only the finally clause runs.                        *)
Close ==
    /\ pc = "suspended"
    /\ pc' = "finally"
    /\ UNCHANGED <<eager, preferred, allowed, stage, life, fut, cb, wk,
                   toSchedule, toYield, occupied, permits, raised, out>>

(* _execute_onebyone: the worker is the first preferred, else the first   *)
(* allowed, else workers[0]; the task is executed and waited for.         *)
FirstChoice(t) ==
    IF preferred[t] # << >> THEN Head(preferred[t])
    ELSE IF allowed[t] # << >> THEN Head(allowed[t]) ELSE Head(WorkerList)

OneByOne ==
    /\ pc = "obo"
    /\ \/ /\ Len(out) = NumTasks
          /\ pc' = "finally"
          /\ UNCHANGED <<life, fut, wk>>
       \/ /\ Len(out) < NumTasks
          /\ Execute(Len(out) + 1, FirstChoice(Len(out) + 1))
          /\ pc' = "obo_wait"
    /\ UNCHANGED <<eager, preferred, allowed, stage, cb, toSchedule, toYield,
                   occupied, permits, raised, out>>

OneByOneWait ==
    /\ pc = "obo_wait"
    /\ fut[Len(out) + 1] \in Outcome
    /\ Result(Len(out) + 1)
    /\ UNCHANGED <<eager, preferred, allowed, stage, life, fut, cb, wk,
                   toSchedule, toYield, occupied, permits>>

(* Task.cancel of every task in tasks: Lifecycle.cancel, then             *)
(* future.cancel(), which only takes effect on a pending future and then  *)
(* runs its done callbacks.                                               *)
CancelTasks(ts) ==
    /\ life' = [t \in Tasks |-> IF t \in ts THEN CancelLife(life[t]) ELSE life[t]]
    /\ fut' = [t \in Tasks |->
                 IF t \in ts /\ fut[t] = "pending" THEN "cancelled" ELSE fut[t]]
    /\ cb' = [t \in Tasks |->
                IF t \in ts /\ fut[t] = "pending" THEN "stop" ELSE cb[t]]

\* mutant: the finally clause only signals stop
FinallyWithoutCancel ==
    /\ pc = "finally"
    /\ stage' = SignalStop(IF raised THEN CancelLife(stage) ELSE stage)
    /\ pc' = "done"
    /\ UNCHANGED <<eager, preferred, allowed, life, fut, cb, wk, toSchedule,
                   toYield, occupied, permits, raised, out>>

(* except: self.cancelled = True; raise -- finally: cancel every task     *)
(* that is not stopped, then signal_stop.                                 *)
Finally ==
    /\ pc = "finally"
    /\ CancelTasks({t \in Tasks : ~life[t].stopped})
    /\ stage' = SignalStop(IF raised THEN CancelLife(stage) ELSE stage)
    /\ pc' = "done"
    /\ UNCHANGED <<eager, preferred, allowed, wk, toSchedule, toYield,
                   occupied, permits, raised, out>>

(* Stage.cancel from another thread (Job.cancel): Lifecycle.cancel, then  *)
(* Task.cancel of every task.                                             *)
CancelStage ==
    /\ ~stage.cancelled
    /\ stage' = CancelLife(stage)
    /\ CancelTasks(Tasks)
    /\ UNCHANGED <<eager, preferred, allowed, pc, wk, toSchedule, toYield,
                   occupied, permits, raised, out>>

----------------------------------------------------------------------------
(* The worker answers run_task: the future gets a result or an exception, *)
(* and the thread that sets it runs the done callbacks in the order they  *)
(* were added.                                                            *)
Complete(t) ==
    /\ fut[t] = "pending"
    /\ \E o \in {"ok", "error"} : fut' = [fut EXCEPT ![t] = o]
    /\ cb' = [cb EXCEPT ![t] = "stop"]
    /\ UNCHANGED <<eager, preferred, allowed, pc, stage, life, wk, toSchedule,
                   toYield, occupied, permits, raised, out>>

(* First callback, added by Task.execute: signal_stop of the task.  In    *)
(* eager mode start_task added task_done after it.                        *)
TaskStopped(t) ==
    /\ cb[t] = "stop"
    /\ life' = [life EXCEPT ![t] = SignalStop(@)]
    /\ cb' = [cb EXCEPT ![t] = IF eager THEN "release" ELSE "fin"]
    /\ UNCHANGED <<eager, preferred, allowed, pc, stage, fut, wk, toSchedule,
                   toYield, occupied, permits, raised, out>>

\* mutant: the release callback runs again
ReleaseRepeated(t) ==
    /\ cb[t] = "release"
    /\ permits' = permits + 1
    /\ UNCHANGED <<eager, preferred, allowed, pc, stage, life, fut, cb, wk,
                   toSchedule, toYield, occupied, raised, out>>

(* task_done: workers_available.release() ...                            *)
Release(t) ==
    /\ cb[t] = "release"
    /\ permits' = permits + 1
    /\ cb' = [cb EXCEPT ![t] = "remove"]
    /\ UNCHANGED <<eager, preferred, allowed, pc, stage, life, fut, wk,
                   toSchedule, toYield, occupied, raised, out>>

(* ... then occupied.remove(worker), a KeyError ignored.                  *)
Vacate(t) ==
    /\ cb[t] = "remove"
    /\ occupied' = occupied \ {wk[t]}
    /\ cb' = [cb EXCEPT ![t] = "fin"]
    /\ UNCHANGED <<eager, preferred, allowed, pc, stage, life, fut, wk,
                   toSchedule, toYield, raised, permits, out>>

----------------------------------------------------------------------------
Driver ==
    \/ Start \/ Loop \/ Acquire \/ Collect \/ Resume \/ Close
    \/ OneByOne \/ OneByOneWait \/ Finally

Callbacks(t) == Complete(t) \/ TaskStopped(t) \/ Release(t) \/ Vacate(t)

Next ==
    \/ Driver
    \/ CancelStage
    \/ \E t \in Tasks : Callbacks(t)

(* Threads are scheduled, workers answer, and the caller keeps consuming  *)
(* or closes the generator; a cancel need not come.                       *)
Fairness ==
    /\ WF_vars(Start) /\ WF_vars(Loop) /\ WF_vars(Acquire)
    /\ WF_vars(Collect) /\ WF_vars(Resume \/ Close)
    /\ WF_vars(OneByOne) /\ WF_vars(OneByOneWait) /\ WF_vars(Finally)
    /\ \A t \in Tasks : WF_vars(Callbacks(t))

Spec == Init /\ [][Next]_vars /\ Fairness

----------------------------------------------------------------------------
TypeOK ==
    /\ eager \in BOOLEAN
    /\ preferred \in [Tasks -> Hints]
    /\ allowed \in [Tasks -> Hints]
    /\ pc \in PC
    /\ stage \in [started : BOOLEAN, stopped : BOOLEAN, cancelled : BOOLEAN]
    /\ life \in [Tasks -> [started : BOOLEAN, stopped : BOOLEAN, cancelled : BOOLEAN]]
    /\ fut \in [Tasks -> FutureState]
    /\ cb \in [Tasks -> CallbackState]
    /\ wk \in [Tasks -> Workers \cup {NoWorker}]
    /\ toSchedule \in Seq(Tasks)
    /\ toYield \in Seq(Tasks)
    /\ occupied \subseteq Workers
    /\ permits \in 0..NumWorkers
    /\ raised \in BOOLEAN
    /\ out \in Seq(Tasks)

(* The generator hands out results in task order, each one the result of *)
(* a future that succeeded, whatever order the workers finish in          *)
(* (to_yield and the done()/result() checks of _execute_eagerly).         *)
ResultsInOrder ==
    /\ out = [i \in 1..Len(out) |-> i]
    /\ \A i \in 1..Len(out) : fut[out[i]] = "ok"

(* No worker runs two tasks of the stage at once: occupied, updated by    *)
(* start_task and by task_done on another thread, keeps every worker with *)
(* a pending future out of the placement.                                 *)
NoWorkerOversubscribed ==
    \A t1, t2 \in Tasks :
        (t1 # t2 /\ fut[t1] = "pending" /\ fut[t2] = "pending") => wk[t1] # wk[t2]

(* Once the stage has signalled stop, none of its tasks is still running: *)
(* the finally clause of Stage.execute cancels every task not stopped,    *)
(* whether the generator ran out, raised or was closed by the caller.     *)
StoppedStageIsQuiet ==
    stage.stopped => \A t \in Tasks : fut[t] # "pending"

(* The stage generator eventually finishes: a permit taken by             *)
(* workers_available.acquire() is given back whenever a task is placed    *)
(* back on to_schedule or finishes.                                       *)
StageTerminates == <>(pc = "done")

(* A task that was cancelled before it was started is never sent to a    *)
(* worker afterwards (Stage.cancel, Task.cancel against start_task).      *)
NoDispatchAfterCancel ==
    [][\A t \in Tasks : (life[t].cancelled /\ fut[t] = "none") => fut'[t] = "none"]_vars

====
