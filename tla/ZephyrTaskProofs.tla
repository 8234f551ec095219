-------------------------- MODULE ZephyrTaskProofs --------------------------
(***************************************************************************)
(* Proofs about the stack table of the Zephyr port: it leaks no stack for  *)
(* any number of callers, and for one caller it never gives a stack to two *)
(* tasks and refuses a task only when all stacks are held.                 *)
(***************************************************************************)
EXTENDS ZephyrTask, FiniteSetTheorems, TLAPS

Starting == {"scan", "no_memory", "claim", "create"}

\* A task that a caller works on is nobody else's, and is in the state that the
\* caller has found or put it in.
CallerOwns ==
    /\ \A c, d \in Callers :
          pc[c] # "idle" /\ pc[d] # "idle" /\ t_arg[c] = t_arg[d] => c = d
    /\ \A c \in Callers :
          /\ pc[c] \in Starting => ~inited_[t_arg[c]]
          /\ pc[c] = "create" => stack[t_arg[c]] = i[c]
          /\ pc[c] = "free" => inited_[t_arg[c]]

LeakInv == TypeOK /\ CallerOwns /\ NoStackLeak

\* The action that a step of the tasks is.
LEMMA TaskStepCases ==
    ASSUME Next
    PROVE  \/ \E c \in Callers, t \in Tasks : StartCall(c, t) \/ RemoveAbort(c, t)
           \/ \E c \in Callers : \/ Scan(c) \/ Claim(c) \/ Create(c)
                                 \/ CreateFails(c) \/ NoMemory(c) \/ Free(c)
           \/ \E t \in Tasks : End(t)
BY DEF Next, Step

\* The type invariant.
LEMMA TaskTypeStep == TypeOK /\ [Next]_vars => TypeOK'
<1> SUFFICES ASSUME TypeOK, [Next]_vars
             PROVE  TypeOK'
  OBVIOUS
<1> USE TaskAssumption DEF TypeOK, goto, Stacks, NoStack, callVars
<1>1. ASSUME NEW c \in Callers, NEW t \in Tasks, StartCall(c, t)
      PROVE  TypeOK'
  BY <1>1 DEF StartCall
<1>2. ASSUME NEW c \in Callers, NEW t \in Tasks, RemoveAbort(c, t)
      PROVE  TypeOK'
  BY <1>2 DEF RemoveAbort
<1>3. ASSUME NEW c \in Callers, Scan(c)
      PROVE  TypeOK'
  <2>1. i[c] \in 0 .. MaxTasks
    OBVIOUS
  <2>2. CASE i[c] = MaxTasks
    <3>1. /\ pc' = [pc EXCEPT ![c] = "no_memory"]
          /\ UNCHANGED <<s_stack_used, stack, thread, inited_, t_arg, i>>
      BY <1>3, <2>2 DEF Scan
    <3> QED
      BY <3>1
  <2>3. CASE i[c] < MaxTasks /\ ~s_stack_used[i[c]]
    <3>1. i[c] \in Stacks
      BY <2>1, <2>3
    <3>2. /\ pc' = [pc EXCEPT ![c] = "claim"]
          /\ UNCHANGED <<s_stack_used, stack, thread, inited_, t_arg, i>>
      BY <1>3, <2>1, <2>3 DEF Scan
    <3> QED
      BY <3>1, <3>2
  <2>4. CASE i[c] < MaxTasks /\ s_stack_used[i[c]]
    <3>1. i[c] + 1 \in 0 .. MaxTasks
      BY <2>1, <2>4
    <3>2. /\ i' = [i EXCEPT ![c] = @ + 1]
          /\ UNCHANGED <<s_stack_used, stack, thread, inited_, t_arg, pc>>
      BY <1>3, <2>1, <2>4 DEF Scan
    <3> QED
      BY <1>3, <3>1, <3>2 DEF Scan
  <2> QED
    BY <2>1, <2>2, <2>3, <2>4
<1>4. ASSUME NEW c \in Callers, Claim(c)
      PROVE  TypeOK'
  BY <1>4 DEF Claim
<1>5. ASSUME NEW c \in Callers, Create(c)
      PROVE  TypeOK'
  BY <1>5 DEF Create
<1>6. ASSUME NEW c \in Callers, CreateFails(c)
      PROVE  TypeOK'
  BY <1>6 DEF CreateFails
<1>7. ASSUME NEW c \in Callers, NoMemory(c)
      PROVE  TypeOK'
  BY <1>7 DEF NoMemory
<1>8. ASSUME NEW c \in Callers, Free(c)
      PROVE  TypeOK'
  BY <1>8 DEF Free
<1>9. ASSUME NEW t \in Tasks, End(t)
      PROVE  TypeOK'
  BY <1>9 DEF End
<1>10. CASE UNCHANGED vars
  BY <1>10 DEF vars
<1> QED
  BY <1>1, <1>2, <1>3, <1>4, <1>5, <1>6, <1>7, <1>8, <1>9, <1>10, TaskStepCases

\* Callers keep out of each other's tasks.
LEMMA CallerOwnsStep == TypeOK /\ CallerOwns /\ [Next]_vars => CallerOwns'
<1> SUFFICES ASSUME TypeOK, CallerOwns, [Next]_vars
             PROVE  CallerOwns'
  OBVIOUS
<1> USE DEF TypeOK, CallerOwns, goto, callVars, Starting
<1>1. ASSUME NEW c \in Callers, NEW t \in Tasks, StartCall(c, t)
      PROVE  CallerOwns'
  BY <1>1 DEF StartCall, Busy
<1>2. ASSUME NEW c \in Callers, NEW t \in Tasks, RemoveAbort(c, t)
      PROVE  CallerOwns'
  BY <1>2 DEF RemoveAbort, Busy
<1>3. ASSUME NEW c \in Callers, Scan(c)
      PROVE  CallerOwns'
  BY <1>3 DEF Scan
<1>4. ASSUME NEW c \in Callers, Claim(c)
      PROVE  CallerOwns'
  BY <1>4 DEF Claim
<1>5. ASSUME NEW c \in Callers, Create(c)
      PROVE  CallerOwns'
  BY <1>5 DEF Create
<1>6. ASSUME NEW c \in Callers, CreateFails(c)
      PROVE  CallerOwns'
  BY <1>6 DEF CreateFails
<1>7. ASSUME NEW c \in Callers, NoMemory(c)
      PROVE  CallerOwns'
  BY <1>7 DEF NoMemory
<1>8. ASSUME NEW c \in Callers, Free(c)
      PROVE  CallerOwns'
  BY <1>8 DEF Free
<1>9. ASSUME NEW t \in Tasks, End(t)
      PROVE  CallerOwns'
  BY <1>9 DEF End
<1>10. CASE UNCHANGED vars
  BY <1>10 DEF vars
<1> QED
  BY <1>1, <1>2, <1>3, <1>4, <1>5, <1>6, <1>7, <1>8, <1>9, <1>10, TaskStepCases

\* Every step keeps a holder for each stack that is marked: a stack is marked for
\* the task that takes it, and the one who lets go of a task unmarks its stack.
LEMMA NoStackLeakStep == LeakInv /\ [Next]_vars => NoStackLeak'
<1> SUFFICES ASSUME LeakInv, [Next]_vars,
                    NEW s \in Stacks, s_stack_used'[s]
             PROVE  \E t \in Tasks : Holds(t, s)'
  BY DEF NoStackLeak
<1> USE DEF goto, callVars
<1>1. TypeOK /\ CallerOwns /\ NoStackLeak
  BY DEF LeakInv
<1>2. ASSUME NEW u \in Tasks, Holds(u, s), UNCHANGED <<stack, inited_>>,
             \A c \in Callers : pc[c] = "create" => pc'[c] = "create" /\ t_arg'[c] = t_arg[c]
      PROVE  Holds(u, s)'
  BY <1>2 DEF Holds
<1>3. ASSUME NEW c \in Callers, NEW t \in Tasks, StartCall(c, t) \/ RemoveAbort(c, t)
      PROVE  \E u \in Tasks : Holds(u, s)'
  <2>1. PICK u \in Tasks : Holds(u, s)
    BY <1>1, <1>3 DEF NoStackLeak, StartCall, RemoveAbort
  <2>2. Holds(u, s)'
    BY <1>1, <1>2, <1>3, <2>1 DEF StartCall, RemoveAbort, TypeOK
  <2> QED
    BY <2>2
<1>4. ASSUME NEW c \in Callers, Scan(c) \/ NoMemory(c)
      PROVE  \E u \in Tasks : Holds(u, s)'
  <2>1. PICK u \in Tasks : Holds(u, s)
    BY <1>1, <1>4 DEF NoStackLeak, Scan, NoMemory
  <2>2. Holds(u, s)'
    BY <1>1, <1>2, <1>4, <2>1 DEF Scan, NoMemory, TypeOK
  <2> QED
    BY <2>2
<1>5. ASSUME NEW c \in Callers, Claim(c)
      PROVE  \E u \in Tasks : Holds(u, s)'
  <2>1. CASE s = i[c]
    <3>1. PICK u \in Tasks : u = t_arg[c]
      BY <1>1 DEF TypeOK
    <3>2. Holds(u, s)'
      BY <1>1, <1>5, <2>1, <3>1 DEF Claim, Holds, TypeOK
    <3> QED
      BY <3>2
  <2>2. CASE s # i[c]
    <3>1. PICK u \in Tasks : Holds(u, s)
      BY <1>1, <1>5, <2>2 DEF NoStackLeak, Claim, TypeOK
    <3>2. u # t_arg[c]
      BY <1>1, <1>5, <3>1 DEF Claim, Holds, CallerOwns, Starting
    <3>3. Holds(u, s)'
      BY <1>1, <1>5, <3>1, <3>2 DEF Claim, Holds, TypeOK
    <3> QED
      BY <3>3
  <2> QED
    BY <2>1, <2>2
<1>6. ASSUME NEW c \in Callers, Create(c)
      PROVE  \E u \in Tasks : Holds(u, s)'
  <2>1. PICK u \in Tasks : Holds(u, s)
    BY <1>1, <1>6 DEF NoStackLeak, Create
  <2>2. Holds(u, s)'
    BY <1>1, <1>6, <2>1 DEF Create, Holds, TypeOK
  <2> QED
    BY <2>2
<1>7. ASSUME NEW c \in Callers, CreateFails(c) \/ Free(c)
      PROVE  \E u \in Tasks : Holds(u, s)'
  <2>1. s_stack_used[s] /\ s # stack[t_arg[c]]
    <3>1. CASE CreateFails(c)
      BY <1>1, <3>1 DEF CreateFails, CallerOwns, TypeOK
    <3>2. CASE Free(c)
      BY <3>2 DEF Free
    <3> QED
      BY <1>7, <3>1, <3>2
  <2>2. PICK u \in Tasks : Holds(u, s)
    BY <1>1, <2>1 DEF NoStackLeak
  <2>3. u # t_arg[c]
    BY <2>1, <2>2 DEF Holds
  <2>4. Holds(u, s)'
    BY <1>1, <1>7, <2>2, <2>3 DEF CreateFails, Free, Holds, TypeOK
  <2> QED
    BY <2>4
<1>8. ASSUME NEW t \in Tasks, End(t)
      PROVE  \E u \in Tasks : Holds(u, s)'
  BY <1>1, <1>8 DEF End, NoStackLeak, Holds
<1>9. CASE UNCHANGED vars
  BY <1>1, <1>9 DEF vars, NoStackLeak, Holds
<1> QED
  BY <1>3, <1>4, <1>5, <1>6, <1>7, <1>8, <1>9, TaskStepCases

\* No stack is lost: for any number of callers and tasks, in every order of their
\* steps and whatever fails, a stack marked as taken has a task to give it back.
THEOREM StacksNotLeaked == Spec => [](TypeOK /\ NoStackLeak)
<1>1. Init => LeakInv
  BY TaskAssumption DEF Init, LeakInv, TypeOK, CallerOwns, NoStackLeak, Stacks, NoStack, Starting
<1>2. LeakInv /\ [Next]_vars => LeakInv'
  BY TaskTypeStep, CallerOwnsStep, NoStackLeakStep DEF LeakInv
<1>3. LeakInv => TypeOK /\ NoStackLeak
  BY DEF LeakInv
<1> QED
  BY <1>1, <1>2, <1>3, PTL DEF Spec

-----------------------------------------------------------------------------
(***************************************************************************)
(* One caller.                                                             *)
(***************************************************************************)
OneCallerOnly == \A c, d \in Callers : c = d

\* What one caller finds is still so when it acts upon it, each stack has one
\* holder, and a thread runs only in a task that holds its stack.
TableInv ==
    /\ HeldIsMarked
    /\ \A t, u \in Tasks, s \in Stacks : Holds(t, s) /\ Holds(u, s) => t = u
    /\ \A c \in Callers : pc[c] = "claim" => ~s_stack_used[i[c]]
    /\ \A c \in Callers : pc[c] = "free" => thread[t_arg[c]] # "running"
    /\ \A t \in Tasks : thread[t] = "running" => inited_[t]
    /\ \A t \in Tasks : inited_[t] => stack[t] \in Stacks

\* Every step of the only caller, or of a task, keeps the table in order.  The
\* caller claims a stack that it has found free, and nobody took it since.
LEMMA TableStep ==
    ASSUME OneCallerOnly
    PROVE  LeakInv /\ TableInv /\ [Next]_vars => TableInv'
<1> SUFFICES ASSUME LeakInv, TableInv, [Next]_vars
             PROVE  TableInv'
  OBVIOUS
<1> USE DEF goto, callVars, TableInv, HeldIsMarked, Holds
<1>1. TypeOK /\ CallerOwns /\ NoStackLeak
  BY DEF LeakInv
<1>2. \A c, d \in Callers : c = d
  BY DEF OneCallerOnly
<1>3. ASSUME NEW c \in Callers, NEW t \in Tasks, StartCall(c, t)
      PROVE  TableInv'
  BY <1>1, <1>2, <1>3 DEF StartCall, TypeOK
<1>4. ASSUME NEW c \in Callers, NEW t \in Tasks, RemoveAbort(c, t)
      PROVE  TableInv'
  BY <1>1, <1>2, <1>4 DEF RemoveAbort, TypeOK
<1>5. ASSUME NEW c \in Callers, Scan(c)
      PROVE  TableInv'
  BY <1>1, <1>2, <1>5 DEF Scan, TypeOK
<1>6. ASSUME NEW c \in Callers, Claim(c)
      PROVE  TableInv'
  BY <1>1, <1>2, <1>6 DEF Claim, TypeOK, CallerOwns, Starting
<1>7. ASSUME NEW c \in Callers, Create(c)
      PROVE  TableInv'
  BY <1>1, <1>2, <1>7 DEF Create, TypeOK, CallerOwns, Starting
<1>8. ASSUME NEW c \in Callers, CreateFails(c)
      PROVE  TableInv'
  BY <1>1, <1>2, <1>8 DEF CreateFails, TypeOK, CallerOwns, Starting
<1>9. ASSUME NEW c \in Callers, NoMemory(c)
      PROVE  TableInv'
  BY <1>1, <1>2, <1>9 DEF NoMemory, TypeOK
<1>10. ASSUME NEW c \in Callers, Free(c)
      PROVE  TableInv'
  <2>1. /\ s_stack_used' = [s \in Stacks |->
                             IF s = stack[t_arg[c]] THEN FALSE ELSE s_stack_used[s]]
        /\ inited_' = [inited_ EXCEPT ![t_arg[c]] = FALSE]
        /\ pc' = [pc EXCEPT ![c] = "idle"]
        /\ UNCHANGED <<stack, thread, t_arg, i>>
        /\ t_arg[c] \in Tasks /\ inited_[t_arg[c]] /\ thread[t_arg[c]] # "running"
    BY <1>1, <1>10 DEF Free, TypeOK, CallerOwns
  <2>2. \A t \in Tasks : ~inited_'[t_arg[c]] /\ (t # t_arg[c] => inited_'[t] = inited_[t])
    BY <1>1, <2>1 DEF TypeOK
  <2>3. \A d \in Callers : pc'[d] = "idle"
    BY <1>1, <1>2, <2>1 DEF TypeOK
  <2>4. \A t \in Tasks, s \in Stacks : Holds(t, s)' => t # t_arg[c] /\ Holds(t, s)
    BY <2>1, <2>2, <2>3
  <2>5. HeldIsMarked'
    <3> SUFFICES ASSUME NEW t \in Tasks, NEW s \in Stacks, Holds(t, s)'
                 PROVE  s_stack_used'[s]
      BY DEF HeldIsMarked
    <3>1. t # t_arg[c] /\ Holds(t, s) /\ s_stack_used[s]
      BY <2>4
    <3>2. s # stack[t_arg[c]]
      BY <2>1, <3>1
    <3> QED
      BY <2>1, <3>1, <3>2
  <2>6. \A t, u \in Tasks, s \in Stacks : Holds(t, s)' /\ Holds(u, s)' => t = u
    BY <2>4
  <2>7. \A t \in Tasks : thread'[t] = "running" => inited_'[t]
    BY <2>1, <2>2
  <2>8. \A t \in Tasks : inited_'[t] => stack'[t] \in Stacks
    BY <2>1, <2>2
  <2> QED
    BY <2>3, <2>5, <2>6, <2>7, <2>8
<1>11. ASSUME NEW t \in Tasks, End(t)
      PROVE  TableInv'
  BY <1>1, <1>2, <1>11 DEF End, TypeOK
<1>12. CASE UNCHANGED vars
  BY <1>12 DEF vars
<1> QED
  BY <1>3, <1>4, <1>5, <1>6, <1>7, <1>8, <1>9, <1>10, <1>11, <1>12, TaskStepCases

\* When all tasks are started and removed by one thread, no two of them ever run
\* on the same stack, and no stack in use is taken for a free one, for any number
\* of stacks and tasks.  (With two callers this is not so: MCZephyrTaskRace.cfg.)
THEOREM StacksExclusive ==
    ASSUME OneCallerOnly
    PROVE  Spec => [](StackExclusive /\ HeldIsMarked)
<1>1. Init => LeakInv /\ TableInv
  BY TaskAssumption DEF Init, LeakInv, TypeOK, CallerOwns, NoStackLeak, Stacks, NoStack,
                        Starting, TableInv, HeldIsMarked, Holds
<1>2. LeakInv /\ TableInv /\ [Next]_vars => (LeakInv /\ TableInv)'
  BY TaskTypeStep, CallerOwnsStep, NoStackLeakStep, TableStep DEF LeakInv
<1>3. LeakInv /\ TableInv => StackExclusive /\ HeldIsMarked
  BY DEF TableInv, StackExclusive, Holds
<1> QED
  BY <1>1, <1>2, <1>3, PTL DEF Spec

\* What the only caller has passed over in its search is still taken.
SearchInv ==
    \A c \in Callers :
        /\ pc[c] \in {"scan", "no_memory"} => \A s \in Stacks : s < i[c] => s_stack_used[s]
        /\ pc[c] = "no_memory" => i[c] = MaxTasks

\* The search goes on from a stack that is taken, and ends behind the last.
LEMMA SearchStep ==
    ASSUME OneCallerOnly
    PROVE  TypeOK /\ SearchInv /\ [Next]_vars => SearchInv'
<1> SUFFICES ASSUME TypeOK, SearchInv, [Next]_vars
             PROVE  SearchInv'
  OBVIOUS
<1> USE TaskAssumption
<1> USE DEF goto, callVars
<1>1. \A c, d \in Callers : c = d
  BY DEF OneCallerOnly
<1>2. ASSUME NEW c \in Callers, NEW t \in Tasks, StartCall(c, t)
      PROVE  SearchInv'
  <2>1. pc'[c] = "scan" /\ i'[c] = 0
    BY <1>2 DEF StartCall, TypeOK
  <2>2. \A s \in Stacks : ~(s < 0)
    BY DEF Stacks
  <2> QED
    BY <1>1, <2>1, <2>2 DEF SearchInv
<1>3. ASSUME NEW c \in Callers, Scan(c)
      PROVE  SearchInv'
  <2>1. i[c] \in 0 .. MaxTasks /\ s_stack_used' = s_stack_used /\ pc[c] = "scan"
    BY <1>3 DEF Scan, TypeOK
  <2>2. \A s \in Stacks : s < i[c] => s_stack_used[s]
    BY <2>1 DEF SearchInv
  <2>3. CASE i[c] < MaxTasks /\ s_stack_used[i[c]]
    <3>1. pc'[c] = "scan" /\ i'[c] = i[c] + 1
      BY <1>3, <2>1, <2>3 DEF Scan, TypeOK
    <3>2. \A s \in Stacks : s < i[c] + 1 => s < i[c] \/ s = i[c]
      BY <2>1 DEF Stacks
    <3> QED
      BY <1>1, <2>1, <2>2, <2>3, <3>1, <3>2 DEF SearchInv
  <2>4. CASE i[c] = MaxTasks
    <3>1. pc'[c] = "no_memory" /\ i' = i
      BY <1>3, <2>1, <2>4 DEF Scan, TypeOK
    <3> QED
      BY <1>1, <2>1, <2>2, <2>4, <3>1 DEF SearchInv
  <2>5. CASE i[c] < MaxTasks /\ ~s_stack_used[i[c]]
    <3>1. pc'[c] = "claim"
      BY <1>3, <2>1, <2>5 DEF Scan, TypeOK
    <3> QED
      BY <1>1, <3>1 DEF SearchInv
  <2> QED
    BY <2>1, <2>3, <2>4, <2>5
<1>4. ASSUME NEW c \in Callers, pc'[c] \notin {"scan", "no_memory"}
      PROVE  SearchInv'
  BY <1>1, <1>4 DEF SearchInv
<1>5. ASSUME NEW c \in Callers,
             \/ Claim(c) \/ Create(c) \/ CreateFails(c) \/ NoMemory(c) \/ Free(c)
             \/ \E t \in Tasks : RemoveAbort(c, t)
      PROVE  SearchInv'
  BY <1>4, <1>5 DEF Claim, Create, CreateFails, NoMemory, Free, RemoveAbort, TypeOK
<1>6. ASSUME UNCHANGED <<s_stack_used, pc, i>>
      PROVE  SearchInv'
  BY <1>6 DEF SearchInv
<1>7. ASSUME NEW t \in Tasks, End(t)
      PROVE  SearchInv'
  BY <1>6, <1>7 DEF End
<1>8. CASE UNCHANGED vars
  BY <1>6, <1>8 DEF vars
<1> QED
  BY <1>2, <1>3, <1>5, <1>7, <1>8, TaskStepCases

\* When the search has passed over all stacks, the tasks that have been started and
\* the stacks correspond one to one.
LEMMA AllStacksHeld ==
    ASSUME OneCallerOnly
    PROVE  LeakInv /\ TableInv /\ SearchInv => NoMemoryMeansFull
<1> SUFFICES ASSUME LeakInv, TableInv, SearchInv,
                    NEW c \in Callers, pc[c] = "no_memory"
             PROVE  Cardinality({t \in Tasks : inited_[t]}) = MaxTasks
  BY DEF NoMemoryMeansFull
<1> DEFINE Started == {t \in Tasks : inited_[t]}
           on(s) == CHOOSE t \in Started : stack[t] = s
           holder == [s \in Stacks |-> on(s)]
<1>1. TypeOK /\ NoStackLeak
  BY DEF LeakInv
<1>2. \A s \in Stacks : s_stack_used[s]
  <2>1. \A s \in Stacks : s < MaxTasks
    BY TaskAssumption DEF Stacks
  <2> QED
    BY <2>1 DEF SearchInv
<1>3. \A s \in Stacks : \E t \in Started : stack[t] = s
  BY <1>1, <1>2 DEF NoStackLeak, Holds, OneCallerOnly
<1>4. \A s \in Stacks : on(s) \in Started /\ stack[on(s)] = s
  BY <1>3
<1>5. \A t \in Started : stack[t] \in Stacks /\ on(stack[t]) = t
  <2> SUFFICES ASSUME NEW t \in Started
               PROVE  stack[t] \in Stacks /\ on(stack[t]) = t
    OBVIOUS
  <2>1. stack[t] \in Stacks
    BY DEF TableInv
  <2>2. on(stack[t]) \in Started /\ stack[on(stack[t])] = stack[t]
    BY <1>4, <2>1
  <2>3. Holds(t, stack[t]) /\ Holds(on(stack[t]), stack[t])
    BY <2>2 DEF Holds
  <2> QED
    BY <2>1, <2>2, <2>3 DEF TableInv
<1> HIDE DEF on
<1>6. holder \in Bijection(Stacks, Started)
  <2>1. holder \in [Stacks -> Started]
    BY <1>4
  <2>2. \A s, r \in Stacks : holder[s] = holder[r] => s = r
    BY <1>4
  <2>3. \A t \in Started : \E s \in Stacks : holder[s] = t
    BY <1>5
  <2> HIDE DEF holder, Started
  <2> QED
    BY <2>1, <2>2, <2>3 DEF Bijection, Injection, Surjection, IsInjective
<1>7. ExistsBijection(Stacks, Started)
  BY <1>6 DEF ExistsBijection
<1>8. IsFiniteSet(Stacks) /\ Cardinality(Stacks) = MaxTasks
  <2>1. 0 \in Int /\ MaxTasks - 1 \in Int
    BY TaskAssumption
  <2>2. IsFiniteSet(0 .. MaxTasks - 1)
        /\ Cardinality(0 .. MaxTasks - 1) = IF 0 > MaxTasks - 1 THEN 0 ELSE MaxTasks - 1 - 0 + 1
    BY <2>1, FS_Interval
  <2> QED
    BY <2>2, TaskAssumption DEF Stacks
<1> HIDE DEF Started
<1>9. Cardinality(Started) = MaxTasks
  BY <1>7, <1>8, FS_Bijection
<1> QED
  BY <1>9 DEF Started

\* When all tasks are started and removed by one thread, POS_ENOMEM is returned
\* only when as many tasks as there are stacks have been started and not removed,
\* for any number of stacks and tasks.
THEOREM NoMemoryOnlyWhenFull ==
    ASSUME OneCallerOnly
    PROVE  Spec => []NoMemoryMeansFull
<1>1. Init => LeakInv /\ TableInv /\ SearchInv
  BY TaskAssumption DEF Init, LeakInv, TypeOK, CallerOwns, NoStackLeak, Stacks, NoStack,
                        Starting, TableInv, HeldIsMarked, Holds, SearchInv
<1>2. LeakInv /\ TableInv /\ SearchInv /\ [Next]_vars => (LeakInv /\ TableInv /\ SearchInv)'
  BY TaskTypeStep, CallerOwnsStep, NoStackLeakStep, TableStep, SearchStep DEF LeakInv
<1> QED
  BY <1>1, <1>2, AllStacksHeld, PTL DEF Spec
=============================================================================
