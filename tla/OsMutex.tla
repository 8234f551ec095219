------------------------------ MODULE OsMutex ------------------------------
(***************************************************************************)
(* OsMutex (include/poski/OsMutex.h) on pos_mutex_init(), pos_mutex_lock() *)
(* and pos_mutex_unlock() of every port (os_mutex.c): a recursive native   *)
(* mutex and the count of locks that OsMutex keeps for its destructor      *)
(* (lock_depth_).  The POSIX port keeps a deadline in the mutex object     *)
(* itself (mu->wait); the others leave waiting to a kernel call.           *)
(*                                                                         *)
(* Neither mu->wait nor, by itself, lock_depth_ is protected: each access  *)
(* to them is a step.  The clock advances on its own.                      *)
(***************************************************************************)
EXTENDS PosixTimedWait, FiniteSets

CONSTANTS Ports,         \* the ports of the instance
          Threads,
          NoThread,
          MaxDepth,      \* bound on the recursion depth
          MaxMeddled,    \* bound on calls of Unlock() without the lock
          LastCall,      \* bound: no timed call starts after this time ...
          MaxClock       \* bound on the clock

ASSUME MutexAssumption ==
    /\ Ports \subseteq {"posix", "apple", "freertos", "zephyr", "rt-thread"}
    /\ IsFiniteSet(Threads)
    /\ MaxMeddled \in Nat
    /\ NoThread \notin Threads
    /\ MaxDepth \in Nat \ {0}
    /\ LastCall \in Nat
    /\ MaxClock \in Nat

VARIABLES port,           \* the port the program is built for
          phase,          \* of the object: "new", "alive", ..., or how the program aborted
          meddled,        \* history: calls of Unlock() without the lock
          clock,
          owner, depth,   \* the native mutex: its owner and its count
          wait,           \* mu->wait
          lock_depth_,    \* OsMutex::lock_depth_
          pc,
          tmo,            \* the timeout of a lock
          called,         \* history: when the lock was called
          deadline,       \* the deadline a thread blocks with
          ret,            \* what a call returns
          reg,            \* lock_depth_ as loaded by a thread
          held            \* how many locks each thread has yet to undo

objVars    == <<port, phase, meddled>>
nativeVars == <<owner, depth>>
timedVars  == <<tmo, called, deadline, ret>>
vars       == <<objVars, clock, nativeVars, wait, lock_depth_, pc, timedVars, reg, held>>

goto(t, label) == pc' = [pc EXCEPT ![t] = label]

NoTime == [tv_sec |-> 0, tv_nsec |-> 0]

Init ==
    /\ port \in Ports
    /\ phase = "new"
    /\ meddled = 0
    /\ clock = 0
    /\ owner = NoThread
    /\ depth = 0
    /\ wait = NoTime
    /\ lock_depth_ = 0
    /\ pc = [t \in Threads |-> "idle"]
    /\ tmo = [t \in Threads |-> Forever]
    /\ called = [t \in Threads |-> 0]
    /\ deadline = [t \in Threads |-> NoTime]
    /\ ret = [t \in Threads |-> "POS_OK"]
    /\ reg = [t \in Threads |-> 0]
    /\ held = [t \in Threads |-> 0]

\* ... and the clock goes beyond it only when no deadline is being computed, so
\* that every deadline is within MaxClock.
Tick ==
    /\ phase \in {"constructing", "alive"}
    /\ clock < MaxClock
    /\ clock >= LastCall =>
          \A t \in Threads : pc[t] \notin {"lock_clock", "lock_add", "lock_timed", "lock_kernel"}
    /\ clock' = clock + 1
    /\ UNCHANGED <<objVars, nativeVars, wait, lock_depth_, pc, timedVars, reg, held>>

-----------------------------------------------------------------------------
(***************************************************************************)
(* What each port makes of the result of the native call: "0", or "EBUSY"  *)
(* without and "EAGAIN" after waiting, and "EPERM" for an unlock by        *)
(* another thread than the owner (Zephyr's and POSIX's terms).             *)
(***************************************************************************)
pos_mutex_init_posix(created)     == IF created THEN "POS_OK" ELSE "POS_BAD_MUTEX"
pos_mutex_init_freertos(created)  == IF created THEN "POS_OK" ELSE "assert"
pos_mutex_init_zephyr(created)    == "POS_OK"
pos_mutex_init_rt_thread(created) == IF created THEN "POS_OK" ELSE "assert"

pos_mutex_init(created) ==
    CASE port \in {"posix", "apple"} -> pos_mutex_init_posix(created)
      [] port = "freertos"           -> pos_mutex_init_freertos(created)
      [] port = "zephyr"             -> pos_mutex_init_zephyr(created)
      [] port = "rt-thread"          -> pos_mutex_init_rt_thread(created)

pos_mutex_lock_freertos(err)  == IF err = "0" THEN "POS_OK" ELSE "POS_TIMEOUT"
pos_mutex_lock_rt_thread(err) == IF err = "0" THEN "POS_OK" ELSE "POS_BAD_MUTEX"
pos_mutex_lock_zephyr(err) ==
    CASE err = "0" -> "POS_OK" [] err = "EAGAIN" -> "POS_TIMEOUT" [] OTHER -> "POS_ERROR"

pos_mutex_lock(err) ==
    CASE port \in {"posix", "apple"} -> map_posix_to_osal_error(err)
      [] port = "freertos"           -> pos_mutex_lock_freertos(err)
      [] port = "zephyr"             -> pos_mutex_lock_zephyr(err)
      [] port = "rt-thread"          -> pos_mutex_lock_rt_thread(err)

pos_mutex_unlock_posix(err)     == map_posix_to_osal_error(err)
pos_mutex_unlock_freertos(err)  == IF err = "0" THEN "POS_OK" ELSE "POS_BAD_MUTEX"
pos_mutex_unlock_rt_thread(err) == IF err = "0" THEN "POS_OK" ELSE "POS_BAD_MUTEX"
pos_mutex_unlock_zephyr(err)    == IF err = "0" THEN "POS_OK" ELSE "POS_ERROR"

pos_mutex_unlock(err) ==
    CASE port \in {"posix", "apple"} -> pos_mutex_unlock_posix(err)
      [] port = "freertos"           -> pos_mutex_unlock_freertos(err)
      [] port = "zephyr"             -> pos_mutex_unlock_zephyr(err)
      [] port = "rt-thread"          -> pos_mutex_unlock_rt_thread(err)

-----------------------------------------------------------------------------
(***************************************************************************)
(* OsMutex::Lock() and pos_mutex_lock()                                    *)
(***************************************************************************)
Enter(t, timeout, label) ==
    /\ pc[t] = "idle"
    /\ held[t] < MaxDepth
    /\ timeout # Forever => clock <= LastCall
    /\ tmo' = [tmo EXCEPT ![t] = timeout]
    /\ called' = [called EXCEPT ![t] = clock]
    /\ goto(t, label)
    /\ UNCHANGED <<port, meddled, clock, nativeVars, wait, lock_depth_, deadline, ret, reg, held>>

\* How pos_mutex_lock() waits; the Apple branch ignores the timeout.
waiting(timeout) ==
    IF timeout = Forever \/ port = "apple" THEN "lock_forever"
    ELSE IF port = "posix" THEN "lock_clock" ELSE "lock_kernel"

\* Mutant: the timeout is ignored on every port.
LockCallBlocking(t, timeout) ==
    phase = "alive" /\ Enter(t, timeout, "lock_forever") /\ UNCHANGED phase

LockCall(t, timeout) ==
    phase = "alive" /\ Enter(t, timeout, waiting(timeout)) /\ UNCHANGED phase

\* The mutex is free, or the caller has it already.
Acquire(t) ==
    /\ owner \in {NoThread, t}
    /\ owner' = t
    /\ depth' = depth + 1
    /\ goto(t, "lock_load")

Fail(t, err) ==
    /\ ret' = [ret EXCEPT ![t] = pos_mutex_lock(err)]
    /\ goto(t, "lock_failed")

\* pthread_mutex_lock(), or the wait without end of a kernel.
LockForever(t) ==
    /\ pc[t] = "lock_forever"
    /\ Acquire(t)
    /\ UNCHANGED <<objVars, clock, wait, lock_depth_, timedVars, reg, held>>

LockClock(t) ==
    /\ pc[t] = "lock_clock"
    /\ wait' = gettime(clock)
    /\ goto(t, "lock_add")
    /\ UNCHANGED <<objVars, clock, nativeVars, lock_depth_, timedVars, reg, held>>

LockAdd(t) ==
    /\ pc[t] = "lock_add"
    /\ wait' = addTimeout(wait, tmo[t])
    /\ goto(t, "lock_timed")
    /\ UNCHANGED <<objVars, clock, nativeVars, lock_depth_, timedVars, reg, held>>

\* pthread_mutex_timedlock() looks at the deadline only if it has to block.
LockTimed(t) ==
    /\ pc[t] = "lock_timed"
    /\ \/ /\ Acquire(t)
          /\ UNCHANGED <<deadline, ret>>
       \/ /\ owner \notin {NoThread, t}
          /\ validTime(wait)
          /\ deadline' = [deadline EXCEPT ![t] = wait]
          /\ goto(t, "lock_blocked")
          /\ UNCHANGED <<nativeVars, ret>>
       \/ /\ owner \notin {NoThread, t}
          /\ ~validTime(wait)
          /\ Fail(t, "EINVAL")
          /\ UNCHANGED <<nativeVars, deadline>>
    /\ UNCHANGED <<objVars, clock, wait, lock_depth_, tmo, called, reg, held>>

\* xSemaphoreTakeRecursive(), k_mutex_lock(), rt_mutex_take()
LockKernel(t) ==
    /\ pc[t] = "lock_kernel"
    /\ \/ /\ Acquire(t)
          /\ UNCHANGED <<deadline, ret>>
       \/ /\ owner \notin {NoThread, t}
          /\ tmo[t] # 0
          /\ deadline' = [deadline EXCEPT ![t] = gettime(kernelDeadline(port, clock, tmo[t]))]
          /\ goto(t, "lock_blocked")
          /\ UNCHANGED <<nativeVars, ret>>
       \/ /\ owner \notin {NoThread, t}
          /\ tmo[t] = 0
          /\ Fail(t, "EBUSY")
          /\ UNCHANGED <<nativeVars, deadline>>
    /\ UNCHANGED <<objVars, clock, wait, lock_depth_, tmo, called, reg, held>>

\* A blocked pthread_mutex_timedlock() still has the address of mu->wait: woken up
\* and not given the mutex, it looks at the deadline again.
LockBlocked(t) ==
    /\ pc[t] = "lock_blocked"
    /\ \/ Acquire(t) /\ UNCHANGED <<deadline, ret>>
       \/ /\ reached(deadline[t], clock)
          /\ Fail(t, IF port = "posix" THEN "ETIMEDOUT" ELSE "EAGAIN")
          /\ UNCHANGED <<nativeVars, deadline>>
       \/ /\ port = "posix"
          /\ owner \notin {NoThread, t}
          /\ validTime(wait)
          /\ deadline' = [deadline EXCEPT ![t] = wait]
          /\ UNCHANGED <<nativeVars, pc, ret>>
       \/ /\ port = "posix"
          /\ owner \notin {NoThread, t}
          /\ ~validTime(wait)
          /\ Fail(t, "EINVAL")
          /\ UNCHANGED <<nativeVars, deadline>>
    /\ UNCHANGED <<objVars, clock, wait, lock_depth_, tmo, called, reg, held>>

\* "lock_depth_++" is a load ...
LockLoad(t) ==
    /\ pc[t] = "lock_load"
    /\ reg' = [reg EXCEPT ![t] = lock_depth_]
    /\ goto(t, "lock_store")
    /\ UNCHANGED <<objVars, clock, nativeVars, wait, lock_depth_, timedVars, held>>

\* ... and a store, after which Lock() returns POS_OK.  The constructor stores 1.
LockStore(t) ==
    /\ pc[t] = "lock_store"
    /\ lock_depth_' = IF phase = "constructing" THEN 1 ELSE reg[t] + 1
    /\ phase' = "alive"
    /\ reg' = [reg EXCEPT ![t] = 0]
    /\ held' = [held EXCEPT ![t] = @ + 1]
    /\ tmo' = [tmo EXCEPT ![t] = Forever]
    /\ called' = [called EXCEPT ![t] = 0]
    /\ deadline' = [deadline EXCEPT ![t] = NoTime]
    /\ goto(t, "idle")
    /\ UNCHANGED <<port, meddled, clock, nativeVars, wait, ret>>

\* Lock() passes the error on; the constructor asserts.
LockFailed(t) ==
    /\ pc[t] = "lock_failed"
    /\ phase' = IF phase = "constructing" THEN "abort_constructor" ELSE phase
    /\ ret' = [ret EXCEPT ![t] = "POS_OK"]
    /\ tmo' = [tmo EXCEPT ![t] = Forever]
    /\ called' = [called EXCEPT ![t] = 0]
    /\ deadline' = [deadline EXCEPT ![t] = NoTime]
    /\ goto(t, "idle")
    /\ UNCHANGED <<port, meddled, clock, nativeVars, wait, lock_depth_, reg, held>>

-----------------------------------------------------------------------------
(***************************************************************************)
(* OsMutex::Unlock() and pos_mutex_unlock(): "The mutex must already be    *)
(* locked by the calling task" (os_mutex.h), and Unlock() also copes with  *)
(* one that is not.                                                        *)
(***************************************************************************)
mayUnlock(t) ==
    /\ phase = "alive"
    /\ pc[t] = "idle"
    /\ held[t] = 0 => meddled < MaxMeddled
    /\ meddled' = meddled + (IF held[t] = 0 THEN 1 ELSE 0)

\* Mutant: the native mutex is released before the count is written back.
UnlockLoadReleasing(t) ==
    /\ mayUnlock(t)
    /\ held[t] > 0
    /\ reg' = [reg EXCEPT ![t] = lock_depth_]
    /\ depth' = depth - 1
    /\ owner' = IF depth = 1 THEN NoThread ELSE owner
    /\ goto(t, "unlock_store")
    /\ UNCHANGED <<port, phase, clock, wait, lock_depth_, timedVars, held>>

\* Mutant: the assertion is compiled out, and the decrement underflows.
UnlockLoadUnchecked(t) ==
    /\ mayUnlock(t)
    /\ reg' = [reg EXCEPT ![t] = lock_depth_]
    /\ goto(t, "unlock_store")
    /\ UNCHANGED <<port, phase, clock, nativeVars, wait, lock_depth_, timedVars, held>>

\* assert(lock_depth_ > 0), and the load of "lock_depth_--".
UnlockLoad(t) ==
    /\ mayUnlock(t)
    /\ IF lock_depth_ > 0
       THEN /\ reg' = [reg EXCEPT ![t] = lock_depth_]
            /\ goto(t, "unlock_store")
            /\ UNCHANGED phase
       ELSE phase' = "abort_unlock" /\ UNCHANGED <<reg, pc>>
    /\ UNCHANGED <<port, clock, nativeVars, wait, lock_depth_, timedVars, held>>

\* The decrement; an owner still holds the mutex.
UnlockStore(t) ==
    /\ pc[t] = "unlock_store"
    /\ lock_depth_' = reg[t] - 1
    /\ reg' = [reg EXCEPT ![t] = 0]
    /\ goto(t, "unlock_native")
    /\ UNCHANGED <<objVars, clock, nativeVars, wait, timedVars, held>>

\* The native mutex is released once by its owner.
Release ==
    /\ depth' = depth - 1
    /\ owner' = IF depth = 1 THEN NoThread ELSE owner

\* Mutant: the mutex is not recursive, one unlock frees it.
UnlockNativeAtOnce(t) ==
    /\ pc[t] = "unlock_native"
    /\ owner = t
    /\ depth' = depth - 1
    /\ owner' = NoThread
    /\ held' = [held EXCEPT ![t] = @ - 1]
    /\ goto(t, "idle")
    /\ UNCHANGED <<objVars, clock, wait, lock_depth_, timedVars, reg>>

\* pthread_mutex_unlock(), xSemaphoreGiveRecursive(), k_mutex_unlock(),
\* rt_mutex_release(): refused to all but the owner.
UnlockNative(t) ==
    /\ pc[t] = "unlock_native"
    /\ \/ /\ owner = t
          /\ Release
          /\ held' = [held EXCEPT ![t] = @ - 1]
          /\ goto(t, "idle")
       \/ /\ owner # t
          /\ goto(t, IF pos_mutex_unlock("EPERM") # "POS_OK" THEN "revert_load" ELSE "idle")
          /\ UNCHANGED <<nativeVars, held>>
    /\ UNCHANGED <<objVars, clock, wait, lock_depth_, timedVars, reg>>

\* "Revert if unlock failed": again a load and a store, without the mutex.
RevertLoad(t) ==
    /\ pc[t] = "revert_load"
    /\ reg' = [reg EXCEPT ![t] = lock_depth_]
    /\ goto(t, "revert_store")
    /\ UNCHANGED <<objVars, clock, nativeVars, wait, lock_depth_, timedVars, held>>

RevertStore(t) ==
    /\ pc[t] = "revert_store"
    /\ lock_depth_' = reg[t] + 1
    /\ reg' = [reg EXCEPT ![t] = 0]
    /\ goto(t, "idle")
    /\ UNCHANGED <<objVars, clock, nativeVars, wait, timedVars, held>>

-----------------------------------------------------------------------------
(***************************************************************************)
(* The constructor, with or without a lock, and the destructor.  Nobody    *)
(* else may use the object meanwhile.                                      *)
(***************************************************************************)
Construct(t) ==
    /\ phase = "new"
    /\ pos_mutex_init(TRUE) = "POS_OK"
    /\ \/ /\ phase' = "alive"
          /\ UNCHANGED <<port, meddled, clock, nativeVars, wait, lock_depth_, pc, timedVars,
                         reg, held>>
       \/ /\ phase' = "constructing"
          /\ \E timeout \in Timeouts \cup {Forever} : Enter(t, timeout, waiting(timeout))

\* pos_mutex_init() fails or asserts; k_mutex_init() does neither.
ConstructFails ==
    /\ phase = "new"
    /\ pos_mutex_init(FALSE) # "POS_OK"
    /\ phase' = "abort_init"
    /\ UNCHANGED <<port, meddled, clock, nativeVars, wait, lock_depth_, pc, timedVars, reg, held>>

Destruct(t) ==
    /\ phase = "alive"
    /\ \A u \in Threads : pc[u] = "idle"
    /\ phase' = "destructing"
    /\ goto(t, "destruct")
    /\ UNCHANGED <<port, meddled, clock, nativeVars, wait, lock_depth_, timedVars, reg, held>>

\* Mutant: the destructor unlocks once.
DestructLoopOnce(t) ==
    /\ pc[t] = "destruct"
    /\ phase = "destructing"
    /\ phase' = IF lock_depth_ > 0 /\ owner # t THEN "abort_destructor" ELSE "destroyed"
    /\ IF lock_depth_ > 0 /\ owner = t
       THEN Release /\ held' = [held EXCEPT ![t] = @ - 1] /\ lock_depth_' = lock_depth_ - 1
       ELSE UNCHANGED <<nativeVars, held, lock_depth_>>
    /\ UNCHANGED <<port, meddled, clock, wait, pc, timedVars, reg>>

\* One turn of the loop, or its end.
DestructLoop(t) ==
    /\ pc[t] = "destruct"
    /\ phase = "destructing"
    /\ \/ /\ lock_depth_ > 0
          /\ owner = t
          /\ Release
          /\ held' = [held EXCEPT ![t] = @ - 1]
          /\ lock_depth_' = lock_depth_ - 1
          /\ UNCHANGED phase
       \/ /\ lock_depth_ > 0
          /\ owner # t
          /\ phase' = "abort_destructor"
          /\ UNCHANGED <<nativeVars, held, lock_depth_>>
       \/ /\ lock_depth_ = 0
          /\ phase' = "destroyed"
          /\ UNCHANGED <<nativeVars, held, lock_depth_>>
    /\ UNCHANGED <<port, meddled, clock, wait, pc, timedVars, reg>>

-----------------------------------------------------------------------------
Aborted == phase \in {"abort_init", "abort_constructor", "abort_unlock", "abort_destructor"}

Step(t) ==
    /\ ~Aborted
    /\ \/ LockForever(t) \/ LockClock(t) \/ LockAdd(t) \/ LockTimed(t) \/ LockKernel(t)
       \/ LockBlocked(t) \/ LockLoad(t) \/ LockStore(t) \/ LockFailed(t)
       \/ UnlockStore(t) \/ UnlockNative(t) \/ RevertLoad(t) \/ RevertStore(t)

\* An assertion has failed, or the object is gone.
Terminated == (Aborted \/ phase = "destroyed") /\ UNCHANGED vars

Next ==
    \/ Tick
    \/ ConstructFails
    \/ Terminated
    \/ \E t \in Threads :
          \/ Step(t)
          \/ UnlockLoad(t)
          \/ Construct(t) \/ Destruct(t) \/ DestructLoop(t)
          \/ \E timeout \in Timeouts \cup {Forever} : LockCall(t, timeout)

Spec == Init /\ [][Next]_vars

\* Threads are scheduled and time passes (strong fairness, as the bound on the
\* clock suspends it now and then).  A holder need not unlock.
FairSpec == Spec /\ SF_vars(Tick) /\ \A t \in Threads : WF_vars(Step(t))

-----------------------------------------------------------------------------
(***************************************************************************)
(* Properties                                                              *)
(***************************************************************************)
\* The count is off by at most twice MaxDepth after each call of Unlock() without the
\* lock, by a stale decrement and a stale revert.
MaxCount == MaxDepth * (1 + (2 * MaxMeddled))

TimeSpec == [tv_sec : Nat, tv_nsec : Nat]

\* The variables have their types, and the native mutex is counted exactly by
\* those who hold it.
TypeOK ==
    /\ port \in Ports
    /\ phase \in {"new", "constructing", "alive", "destructing", "destroyed", "abort_init",
                  "abort_constructor", "abort_unlock", "abort_destructor"}
    /\ meddled \in 0 .. MaxMeddled
    /\ clock \in 0 .. MaxClock
    /\ owner \in Threads \cup {NoThread}
    /\ depth \in 0 .. MaxDepth
    /\ wait \in TimeSpec
    /\ lock_depth_ \in 0 .. MaxCount
    /\ pc \in [Threads -> {"idle", "lock_forever", "lock_clock", "lock_add", "lock_timed",
                           "lock_kernel", "lock_blocked", "lock_load", "lock_store",
                           "lock_failed", "unlock_store", "unlock_native", "revert_load",
                           "revert_store", "destruct"}]
    /\ tmo \in [Threads -> Timeouts \cup {Forever}]
    /\ called \in [Threads -> Nat]
    /\ deadline \in [Threads -> TimeSpec]
    /\ ret \in [Threads -> {"POS_OK", "POS_TIMEOUT", "POS_EINVAL", "POS_ERROR", "POS_BAD_MUTEX"}]
    /\ reg \in [Threads -> 0 .. MaxCount]
    /\ held \in [Threads -> 0 .. MaxDepth]

\* The count that OsMutex keeps for its destructor is the number of native locks
\* that its owner still has to undo, except between a native lock and the
\* increment, or the decrement and the native unlock: no update of lock_depth_
\* by one thread is lost to another one, because all happen under the mutex
\* ("Decrement first while holding the lock").  A call of Unlock() without the
\* lock ends this, for good: its decrement and its revert are not under the mutex.
DepthMatches ==
    meddled = 0 =>
        lock_depth_ + (IF \E t \in Threads : pc[t] \in {"lock_load", "lock_store", "unlock_native"}
                       THEN 1 ELSE 0) = depth

\* Recursive locks are undone one by one: the mutex is somebody else's to claim
\* only after as many unlocks as locks (os_mutex.h), also when others call
\* Unlock() without the lock.
HolderKeepsMutex == \A t \in Threads : held[t] > 0 => owner = t /\ depth >= held[t]

\* Unless somebody has called Unlock() without the lock, no assertion fails in
\* Unlock() or in the constructor's lock, one in the destructor fails only when
\* another thread holds the mutex, and the destructor leaves the mutex free.
AbortMeansMisuse ==
    meddled = 0 =>
        /\ phase \notin {"abort_unlock", "abort_constructor"}
        /\ phase = "abort_destructor" =>
              \E t \in Threads : pc[t] = "destruct" /\ owner \notin {NoThread, t}
        /\ phase = "destroyed" => owner = NoThread

\* A lock with a finite timeout comes back, even if the holder never unlocks; the
\* Apple port is the exception.
TimedLockReturns ==
    \A t \in Threads : tmo[t] # Forever ~> pc[t] = "idle" \/ Aborted \/ port = "apple"

\* os_mutex.h: "the calling task waits until the mutex becomes available or until
\* a timeout occurs": POS_TIMEOUT is not returned before the waiting period of
\* the caller is over.
TimeoutNotEarly ==
    \A t \in Threads :
        ret[t] = "POS_TIMEOUT" => clock >= called[t] + tmo[t]
=============================================================================
