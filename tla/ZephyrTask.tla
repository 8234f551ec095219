----------------------------- MODULE ZephyrTask -----------------------------
(***************************************************************************)
(* OsTask (include/poski/OsTask.h) on the tasks of the Zephyr port         *)
(* (targets/zephyr/os_task.c).  A task runs on one of MAX_TASKS static     *)
(* stacks; s_stack_used says which of them are taken.  Nothing protects    *)
(* the table: pos_task_init() looks for a free stack, and claims it, in    *)
(* separate steps, which the steps of other callers come between.          *)
(*                                                                         *)
(* A task object belongs to one caller at a time, and is started when it   *)
(* is not initialised ("Pointer to uninitialized struct pos_task",         *)
(* os_task.h).                                                             *)
(***************************************************************************)
EXTENDS Naturals, FiniteSets

CONSTANTS Callers,   \* threads that start and remove tasks
          Tasks,     \* task objects
          MaxTasks   \* MAX_TASKS

ASSUME TaskAssumption == MaxTasks \in Nat

Stacks == 0 .. MaxTasks - 1

NoStack == MaxTasks

VARIABLES s_stack_used,   \* which stacks are marked as taken
          stack,          \* t->stack
          thread,         \* the kernel thread in t->thread
          inited_,        \* OsTask::inited_
          pc,
          t_arg,          \* the task a caller is working on
          i               \* the loop variable, then stack_idx

callVars == <<pc, t_arg, i>>
vars     == <<s_stack_used, stack, thread, inited_, callVars>>

goto(c, label) == pc' = [pc EXCEPT ![c] = label]

Busy(t) == \E c \in Callers : pc[c] # "idle" /\ t_arg[c] = t

\* The table is static, and all task objects are new.
Init ==
    /\ s_stack_used = [s \in Stacks |-> FALSE]
    /\ stack = [t \in Tasks |-> NoStack]
    /\ thread = [t \in Tasks |-> "none"]
    /\ inited_ = [t \in Tasks |-> FALSE]
    /\ pc = [c \in Callers |-> "idle"]
    /\ t_arg \in [Callers -> Tasks]
    /\ i = [c \in Callers |-> 0]

-----------------------------------------------------------------------------
(***************************************************************************)
(* OsTask::Start() and pos_task_init(), for a stack_size that is accepted: *)
(* a larger one is refused before anything is touched.                     *)
(***************************************************************************)
StartCall(c, t) ==
    /\ pc[c] = "idle"
    /\ ~inited_[t]
    /\ ~Busy(t)
    /\ t_arg' = [t_arg EXCEPT ![c] = t]
    /\ i' = [i EXCEPT ![c] = 0]
    /\ goto(c, "scan")
    /\ UNCHANGED <<s_stack_used, stack, thread, inited_>>

\* One round of the loop; POS_ENOMEM when all stacks were taken.
Scan(c) ==
    /\ pc[c] = "scan"
    /\ \/ /\ i[c] = MaxTasks
          /\ goto(c, "no_memory")
          /\ UNCHANGED i
       \/ /\ i[c] < MaxTasks
          /\ ~s_stack_used[i[c]]
          /\ goto(c, "claim")
          /\ UNCHANGED i
       \/ /\ i[c] < MaxTasks
          /\ s_stack_used[i[c]]
          /\ i' = [i EXCEPT ![c] = @ + 1]
          /\ UNCHANGED pc
    /\ UNCHANGED <<s_stack_used, stack, thread, inited_, t_arg>>

Claim(c) ==
    /\ pc[c] = "claim"
    /\ s_stack_used' = [s_stack_used EXCEPT ![i[c]] = TRUE]
    /\ stack' = [stack EXCEPT ![t_arg[c]] = i[c]]
    /\ goto(c, "create")
    /\ UNCHANGED <<thread, inited_, t_arg, i>>

\* k_thread_create() starts the thread at once (K_NO_WAIT).
Create(c) ==
    /\ pc[c] = "create"
    /\ thread' = [thread EXCEPT ![t_arg[c]] = "running"]
    /\ inited_' = [inited_ EXCEPT ![t_arg[c]] = TRUE]
    /\ goto(c, "idle")
    /\ UNCHANGED <<s_stack_used, stack, t_arg, i>>

\* Mutant: a failure leaves the stack claimed.
CreateFailsLeaking(c) ==
    /\ pc[c] = "create"
    /\ goto(c, "idle")
    /\ UNCHANGED <<s_stack_used, stack, thread, inited_, t_arg, i>>

\* k_thread_create() has returned NULL: POS_ERROR, and the stack is given back.
CreateFails(c) ==
    /\ pc[c] = "create"
    /\ s_stack_used' = [s_stack_used EXCEPT ![i[c]] = FALSE]
    /\ goto(c, "idle")
    /\ UNCHANGED <<stack, thread, inited_, t_arg, i>>

\* POS_ENOMEM is returned.
NoMemory(c) ==
    /\ pc[c] = "no_memory"
    /\ goto(c, "idle")
    /\ UNCHANGED <<s_stack_used, stack, thread, inited_, t_arg, i>>

-----------------------------------------------------------------------------
(***************************************************************************)
(* The end of a task, and OsTask::Remove() with pos_task_remove()          *)
(***************************************************************************)

\* The task function returns, or the task removes itself, in which case
\* k_thread_abort() does not return to free the stack.
End(t) ==
    /\ thread[t] = "running"
    /\ thread' = [thread EXCEPT ![t] = "ended"]
    /\ UNCHANGED <<s_stack_used, stack, inited_, callVars>>

\* Mutant: the stack is marked as free and its thread runs on.
RemoveWithoutAbort(c, t) ==
    /\ pc[c] = "idle"
    /\ inited_[t]
    /\ ~Busy(t)
    /\ s_stack_used' = [s_stack_used EXCEPT ![stack[t]] = FALSE]
    /\ t_arg' = [t_arg EXCEPT ![c] = t]
    /\ goto(c, "free")
    /\ UNCHANGED <<stack, thread, inited_, i>>

\* k_thread_abort(), by another thread.
RemoveAbort(c, t) ==
    /\ pc[c] = "idle"
    /\ inited_[t]
    /\ ~Busy(t)
    /\ thread' = [thread EXCEPT ![t] = "ended"]
    /\ t_arg' = [t_arg EXCEPT ![c] = t]
    /\ goto(c, "free")
    /\ UNCHANGED <<s_stack_used, stack, inited_, i>>

\* Mutant: the last stack of the table is forgotten by the loop.
FreeOffByOne(c) ==
    /\ pc[c] = "free"
    /\ s_stack_used' = [s \in Stacks |->
                          IF s = stack[t_arg[c]] /\ s < MaxTasks - 1 THEN FALSE ELSE s_stack_used[s]]
    /\ inited_' = [inited_ EXCEPT ![t_arg[c]] = FALSE]
    /\ goto(c, "idle")
    /\ UNCHANGED <<stack, thread, t_arg, i>>

\* The loop looks for the index of t->stack and marks it as free.
Free(c) ==
    /\ pc[c] = "free"
    /\ s_stack_used' = [s \in Stacks |->
                          IF s = stack[t_arg[c]] THEN FALSE ELSE s_stack_used[s]]
    /\ inited_' = [inited_ EXCEPT ![t_arg[c]] = FALSE]
    /\ goto(c, "idle")
    /\ UNCHANGED <<stack, thread, t_arg, i>>

-----------------------------------------------------------------------------
Step(c) == Scan(c) \/ Claim(c) \/ Create(c) \/ CreateFails(c) \/ NoMemory(c) \/ Free(c)

Next ==
    \/ \E c \in Callers :
          \/ Step(c)
          \/ \E t \in Tasks : StartCall(c, t) \/ RemoveAbort(c, t)
    \/ \E t \in Tasks : End(t)

Spec == Init /\ [][Next]_vars

-----------------------------------------------------------------------------
(***************************************************************************)
(* Properties                                                              *)
(***************************************************************************)

\* Callers are at labels of the code, and what they claim and fill in after the
\* search is an entry of the table.
TypeOK ==
    /\ s_stack_used \in [Stacks -> BOOLEAN]
    /\ stack \in [Tasks -> Stacks \cup {NoStack}]
    /\ thread \in [Tasks -> {"none", "running", "ended"}]
    /\ inited_ \in [Tasks -> BOOLEAN]
    /\ pc \in [Callers -> {"idle", "scan", "no_memory", "claim", "create", "free"}]
    /\ t_arg \in [Callers -> Tasks]
    /\ i \in [Callers -> 0 .. MaxTasks]
    /\ \A c \in Callers : pc[c] \in {"claim", "create"} => i[c] \in Stacks

\* The tasks that hold a stack: started and not yet removed, or being started.
Holds(t, s) ==
    /\ stack[t] = s
    /\ \/ inited_[t]
       \/ \E c \in Callers : pc[c] = "create" /\ t_arg[c] = t

\* No stack leaks, however many callers there are: one that is marked as taken
\* belongs to a task that can still be removed, or is just being started.
NoStackLeak == \A s \in Stacks : s_stack_used[s] => \E t \in Tasks : Holds(t, s)

\* README.md: a task is "an independent context of code execution" that "will
\* always run with a consistent execution context and stack": no two tasks run on
\* the same stack.
StackExclusive ==
    \A t, u \in Tasks :
        t # u /\ thread[t] = "running" /\ thread[u] = "running" => stack[t] # stack[u]

\* With one caller, the stack of a task that has not been removed stays marked as
\* taken, and is not looked upon as free by pos_task_init().
HeldIsMarked ==
    \A t \in Tasks, s \in Stacks : Holds(t, s) => s_stack_used[s]

\* With one caller, POS_ENOMEM means what it says: as many tasks as there are
\* stacks have been started and not removed (whether or not they have ended).
NoMemoryMeansFull ==
    (\E c \in Callers : pc[c] = "no_memory") =>
        Cardinality({t \in Tasks : inited_[t]}) = MaxTasks
=============================================================================
