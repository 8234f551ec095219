------------------------------ MODULE PosixTask ------------------------------
(***************************************************************************)
(* OsTask (include/poski/OsTask.h) on pos_task_init() and                  *)
(* pos_task_remove() of the POSIX port (targets/posix/os_task.c), together *)
(* with the message queue that the tasks use: threads of PosixQueue are    *)
(* tasks, which managers start and remove at any moment.                   *)
(*                                                                         *)
(* pos_task_remove() is pthread_cancel(): the task goes on to its next     *)
(* cancellation point.  Inside the queue that is pthread_cond_wait(),      *)
(* which locks the mutex before the task dies; the code of the application *)
(* around the queue and in the callback may contain others.                *)
(***************************************************************************)
EXTENDS PosixQueue

CONSTANTS Tasks,     \* the threads that are tasks
          Managers   \* threads that call Start() and Remove() of the tasks

ASSUME TaskAssumption == Tasks \subseteq Threads /\ IsFiniteSet(Managers)

VARIABLES life,           \* of a task: "none", "running", "cancelled", "dead" or "ended"
          inited_,        \* OsTask::inited_
          s_task_count,
          job             \* what a manager has yet to do

taskVars  == <<life, inited_, s_task_count, job>>
queueVars == <<ringVars, alive, callVars, syncVars, sigVars>>
allVars   == <<queueVars, taskVars>>

\* A manager in pos_task_init() or pos_task_remove() has yet to count a task, and
\* may have loaded the counter for it.
Resting == [task |-> NoThread, add |-> 0, reg |-> 0]

TaskInit ==
    /\ Init
    /\ life = [t \in Threads |-> IF t \in Tasks THEN "none" ELSE "running"]
    /\ inited_ = [t \in Threads |-> FALSE]
    /\ s_task_count = 0
    /\ job = [m \in Managers |-> Resting]

NotLoaded == -1

Lively(t) == life[t] \in {"running", "cancelled"}

-----------------------------------------------------------------------------
Count(m, t, change) == job' = [job EXCEPT ![m] = [task |-> t, add |-> change, reg |-> NotLoaded]]

\* pos_task_init() up to pthread_create(), after which the task runs already.
\* When one of the calls fails there is no task and nothing is counted.
pos_task_init(m, t) ==
    /\ alive
    /\ job[m] = Resting
    /\ life[t] = "none"
    /\ \/ life' = [life EXCEPT ![t] = "running"] /\ Count(m, t, 1)
       \/ UNCHANGED <<life, job>>
    /\ UNCHANGED <<queueVars, inited_, s_task_count>>

\* Mutant: the count goes down also when pthread_cancel() fails.
pos_task_remove_counting(m, t) ==
    /\ alive
    /\ job[m] = Resting
    /\ inited_[t]
    /\ life' = [life EXCEPT ![t] = IF @ = "running" THEN "cancelled" ELSE @]
    /\ \/ Count(m, t, -1) /\ UNCHANGED s_task_count
       \/ life[t] \in {"dead", "ended"} /\ s_task_count' = s_task_count - 1 /\ UNCHANGED job
    /\ UNCHANGED <<queueVars, inited_>>

\* OsTask::Remove() looks at inited_; pthread_cancel() on a task that is over may
\* succeed or fail (ESRCH), and a failure is passed on without further ado.
pos_task_remove(m, t) ==
    /\ alive
    /\ job[m] = Resting
    /\ inited_[t]
    /\ life' = [life EXCEPT ![t] = IF @ = "running" THEN "cancelled" ELSE @]
    /\ \/ Count(m, t, -1)
       \/ life[t] \in {"dead", "ended"} /\ UNCHANGED job
    /\ UNCHANGED <<queueVars, inited_, s_task_count>>

\* "s_task_count += 1" or "s_task_count -= 1" is a load ...
CountLoad(m) ==
    /\ alive
    /\ job[m].reg = NotLoaded
    /\ job' = [job EXCEPT ![m].reg = s_task_count]
    /\ UNCHANGED <<queueVars, life, inited_, s_task_count>>

\* ... and a store, after which Start() or Remove() sets inited_.
CountStore(m) ==
    /\ alive
    /\ job[m] # Resting
    /\ job[m].reg # NotLoaded
    /\ s_task_count' = job[m].reg + job[m].add
    /\ inited_' = [inited_ EXCEPT ![job[m].task] = (job[m].add = 1)]
    /\ job' = [job EXCEPT ![m] = Resting]
    /\ UNCHANGED <<queueVars, life>>

\* The function of the task returns.
TaskEnds(t) ==
    /\ at(t, "idle")
    /\ Lively(t)
    /\ life' = [life EXCEPT ![t] = "ended"]
    /\ UNCHANGED <<queueVars, inited_, s_task_count, job>>

-----------------------------------------------------------------------------
Die(t) ==
    /\ life' = [life EXCEPT ![t] = "dead"]
    /\ UNCHANGED <<ringVars, alive, callVars, sigVars, inited_, s_task_count, job>>

\* A cancelled task that is blocked in pthread_cond_wait() locks the mutex and dies.
DieWaiting(t) ==
    /\ at(t, "get_wait")
    /\ t \in condv
    /\ life[t] = "cancelled"
    /\ lock(t)
    /\ condv' = condv \ {t}
    /\ Die(t)

\* Mutant: tasks are cancelled asynchronously, wherever they are.
DieAnywhere(t) ==
    /\ alive
    /\ life[t] = "cancelled"
    /\ pc[t] # "get_wait"
    /\ Die(t)
    /\ UNCHANGED syncVars

\* A cancelled task meets a cancellation point of the application.
DieOutside(t) ==
    /\ alive
    /\ pc[t] \in {"idle", "put_call_cb"}
    /\ life[t] = "cancelled"
    /\ Die(t)
    /\ UNCHANGED syncVars

-----------------------------------------------------------------------------
QueueStep(t) == Lively(t) /\ (PutStep(t) \/ GetStep(t) \/ SizeStep(t)) /\ UNCHANGED taskVars

TaskNext ==
    \/ \E t \in Threads :
          \/ QueueStep(t)
          \/ Lively(t) /\ (Calls(t) \/ SpuriousWakeup(t)) /\ UNCHANGED taskVars
          \/ DieWaiting(t) \/ DieOutside(t)
    \/ \E t \in Tasks :
          \/ TaskEnds(t)
          \/ \E m \in Managers : pos_task_init(m, t) \/ pos_task_remove(m, t)
    \/ \E m \in Managers : CountLoad(m) \/ CountStore(m)
    \/ Abort /\ UNCHANGED taskVars

TaskSpec == TaskInit /\ [][TaskNext]_allVars

\* As in PosixQueue, for the tasks that live; nobody has to start or to remove one,
\* managers may stop for good, and a cancelled task need not meet a cancellation point.
TaskFairSpec ==
    /\ TaskSpec
    /\ \A t \in Threads :
          /\ WF_allVars(QueueStep(t))
          /\ SF_allVars(Lively(t) /\ Acquire(t) /\ UNCHANGED taskVars)

-----------------------------------------------------------------------------
(***************************************************************************)
(* Properties                                                              *)
(***************************************************************************)

\* The variables have their types, and a task that is in the queue was started.
TaskTypeOK ==
    /\ life \in [Threads -> {"none", "running", "cancelled", "dead", "ended"}]
    /\ inited_ \in [Threads -> BOOLEAN]
    /\ s_task_count \in 0 .. Cardinality(Tasks)
    /\ job \in [Managers -> [task : Threads \cup {NoThread}, add : {-1, 0, 1},
                        reg : 0 .. Cardinality(Tasks) \cup {NotLoaded}]]
    /\ \A t \in Threads : life[t] \in {"none", "ended"} => pc[t] = "idle"

\* The mutex belongs to a task that is no more.
Orphaned == \E t \in Threads : mutex = t /\ ~Lively(t)

\* Removing a task takes the queue's mutex away from the others only if the task
\* was waiting for a message: a producer, a poller or a consumer that is on its way
\* through the queue leaves it first.
OrphanedOnlyByWaiter ==
    \A t \in Threads : mutex = t /\ ~Lively(t) => pc[t] = "get_wait" /\ tmo[t] # "NO_WAIT"

\* pos_task_count() counts every task that runs and was not told to stop, but for the
\* one being started, and never more than were started.
CountCoversRunning ==
    LET busy(change) == Cardinality({m \in Managers : job[m].add = change})
        tasks(lives) == Cardinality({t \in Tasks : life[t] \in lives})
    IN  /\ tasks({"running"}) <= s_task_count + busy(1)
        /\ s_task_count + busy(1) <= tasks({"running", "cancelled", "dead", "ended"}) + busy(-1)

\* A task blocked in get() does not stay blocked while there are messages, also when
\* tasks are removed, unless one of them has orphaned the mutex.
WaiterServedUnlessOrphaned ==
    \A t \in Consumers :
        (t \in condv /\ size > 0) ~> (t \notin condv \/ size = 0 \/ ~alive \/ Orphaned)

\* put(), is_empty() and a get() that may not wait come back, unless the task is
\* removed or the mutex orphaned.
CallsReturnUnlessOrphaned ==
    \A t \in Threads :
        pc[t] \in PutLabels \cup SizeLabels \/ (pc[t] \in GetLabels /\ tmo[t] = "NO_WAIT")
            ~> pc[t] = "idle" \/ ~alive \/ ~Lively(t) \/ Orphaned
=============================================================================
