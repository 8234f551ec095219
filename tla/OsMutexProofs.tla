--------------------------- MODULE OsMutexProofs ---------------------------
(***************************************************************************)
(* Proofs about OsMutex, for every port, any set of threads, any recursion *)
(* depth and any number of calls of Unlock() without the lock.             *)
(***************************************************************************)
EXTENDS OsMutex, FiniteSetTheorems, TLAPS

Labels == {"idle", "lock_forever", "lock_clock", "lock_add", "lock_timed", "lock_kernel",
           "lock_blocked", "lock_load", "lock_store", "lock_failed", "unlock_store",
           "unlock_native", "revert_load", "revert_store", "destruct"}

\* Between a native lock and the return of Lock().
Locking == {"lock_load", "lock_store"}

\* Before a native lock.
Waiting == {"lock_forever", "lock_clock", "lock_add", "lock_timed", "lock_kernel", "lock_blocked"}

\* The types, with natural numbers for the two counts that Unlock() without the lock
\* may falsify.
Types ==
    /\ port \in Ports
    /\ phase \in {"new", "constructing", "alive", "destructing", "destroyed", "abort_init",
                  "abort_constructor", "abort_unlock", "abort_destructor"}
    /\ meddled \in 0 .. MaxMeddled
    /\ clock \in 0 .. MaxClock
    /\ owner \in Threads \cup {NoThread}
    /\ depth \in 0 .. MaxDepth
    /\ wait \in TimeSpec
    /\ lock_depth_ \in Nat
    /\ pc \in [Threads -> Labels]
    /\ tmo \in [Threads -> Timeouts \cup {Forever}]
    /\ called \in [Threads -> Nat]
    /\ deadline \in [Threads -> TimeSpec]
    /\ ret \in [Threads -> {"POS_OK", "POS_TIMEOUT", "POS_EINVAL", "POS_ERROR", "POS_BAD_MUTEX"}]
    /\ reg \in [Threads -> Nat]
    /\ held \in [Threads -> 0 .. MaxDepth]

\* Which of the ways to wait a thread is on, and that it may lock once more.
Paths ==
    \A t \in Threads :
        /\ pc[t] \in {"lock_clock", "lock_add", "lock_timed"} => port = "posix"
        /\ pc[t] = "lock_kernel" => port \notin {"posix", "apple"}
        /\ pc[t] = "lock_blocked" => port # "apple"
        /\ pc[t] \in {"lock_clock", "lock_add", "lock_kernel"} => tmo[t] \in Timeouts
        /\ pc[t] \in Waiting \cup Locking => held[t] < MaxDepth
        /\ pc[t] = "unlock_store" => reg[t] > 0

\* The native locks that a thread has: those it has yet to undo and the one it has
\* not yet counted.
Native(t) == held[t] + (IF pc[t] \in Locking THEN 1 ELSE 0)

\* The native mutex is owned by the only thread that has locks, and counts them.
Ownership ==
    /\ owner = NoThread => depth = 0
    /\ \A t \in Threads : IF owner = t THEN depth = Native(t) /\ depth > 0
                          ELSE Native(t) = 0

\* While nobody meddles, lock_depth_ is used by the owner alone: it has in its
\* register what is in memory, and is at most one behind the native mutex.
Uncounted == {"lock_load", "lock_store", "unlock_native"}

OwnerCounts ==
    meddled = 0 =>
        /\ owner = NoThread => lock_depth_ = 0
        /\ \A t \in Threads :
              /\ owner = t => depth = lock_depth_ + (IF pc[t] \in Uncounted THEN 1 ELSE 0)
              /\ pc[t] \in {"unlock_store", "unlock_native"} => held[t] > 0
              /\ pc[t] \notin {"revert_load", "revert_store"}
              /\ pc[t] \in {"lock_store", "unlock_store"} => reg[t] = lock_depth_

\* What the phases of the object mean.  Its constructor is alone with it, and so
\* never waits and never fails.
Phases ==
    /\ phase = "new" =>
          /\ owner = NoThread /\ meddled = 0 /\ lock_depth_ = 0
          /\ \A t \in Threads : pc[t] = "idle"
    /\ phase = "constructing" =>
          /\ meddled = 0 /\ lock_depth_ = 0
          /\ \A t \in Threads : /\ held[t] = 0
                                /\ pc[t] \in {"idle"} \cup Locking \cup (Waiting \ {"lock_blocked"})
          /\ \A t, u \in Threads : pc[t] # "idle" /\ pc[u] # "idle" => t = u
    /\ phase \in {"destructing", "destroyed"} =>
          \A t \in Threads : pc[t] \in {"idle", "destruct"}
    /\ AbortMeansMisuse

MutexInv == Types /\ Paths /\ Ownership /\ OwnerCounts /\ Phases

-----------------------------------------------------------------------------
(***************************************************************************)
(* What the operators of the model compute, and what a change of label     *)
(* means for the parts of the invariant.                                   *)
(***************************************************************************)

\* A clock reading and a sum are timespecs.
LEMMA TimeTypes ==
    /\ \A c \in Nat : gettime(c) \in TimeSpec
    /\ \A w \in TimeSpec, d \in Nat : addTimeout(w, d) \in TimeSpec
<1>1. \A c \in Nat : c \div TicksPerSec \in Nat /\ c % TicksPerSec \in Nat
  BY TimeAssumption
<1> QED
  BY <1>1 DEF gettime, addTimeout, TimeSpec

\* A kernel call ends at some moment.
LEMMA KernelDeadlineType ==
    ASSUME NEW c \in Nat, NEW d \in Nat
    PROVE  kernelDeadline(port, c, d) \in Nat
<1>1. TicksPerSec \in Nat \ {0} /\ KernelHz \in Nat \ {0}
  BY TimeAssumption
<1>2. c * KernelHz \in Nat
  BY <1>1
<1>3. (c * KernelHz) \div TicksPerSec \in Nat
  BY <1>1, <1>2
<1>4. kernelTick(c) + d \in Nat
  BY <1>3 DEF kernelTick
<1>5. \A k \in Nat : tickTime(k) \in Nat
  <2> TAKE k \in Nat
  <2>1. (k * TicksPerSec) + KernelHz - 1 \in Nat
    BY <1>1
  <2> QED
    BY <1>1, <2>1 DEF tickTime
<1> QED
  BY <1>4, <1>5 DEF kernelDeadline

\* A lock that fails returns an error that its port knows.
LEMMA FailResult ==
    ASSUME Types,
           NEW err \in {"EINVAL", "ETIMEDOUT", "EBUSY", "EAGAIN"},
           port \in {"posix", "apple"} => err \in {"EINVAL", "ETIMEDOUT"}
    PROVE  pos_mutex_lock(err) \in {"POS_TIMEOUT", "POS_EINVAL", "POS_ERROR", "POS_BAD_MUTEX"}
BY MutexAssumption
DEF Types, pos_mutex_lock, pos_mutex_lock_freertos, pos_mutex_lock_zephyr,
    pos_mutex_lock_rt_thread, map_posix_to_osal_error

\* Every port refuses to unlock the mutex of somebody else.
LEMMA UnlockRefused ==
    ASSUME Types
    PROVE  pos_mutex_unlock("EPERM") # "POS_OK"
BY MutexAssumption
DEF Types, pos_mutex_unlock, pos_mutex_unlock_posix, pos_mutex_unlock_freertos,
    pos_mutex_unlock_zephyr, pos_mutex_unlock_rt_thread, map_posix_to_osal_error

\* A thread in a call is in one of the object's lifetime.
LEMMA LivePhase ==
    ASSUME MutexInv, ~Aborted, NEW t \in Threads, pc[t] \notin {"idle", "destruct"}
    PROVE  phase \in {"constructing", "alive"}
BY DEF MutexInv, Types, Phases, Aborted

\* A step that neither locks nor unlocks the native mutex.
LEMMA OwnershipStep ==
    ASSUME Types, Ownership, NEW t \in Threads, NEW new, goto(t, new),
           pc[t] \in Locking <=> new \in Locking,
           UNCHANGED <<owner, depth, held>>
    PROVE  Ownership'
BY DEF Types, Ownership, Native, goto

\* A step of a thread that has nothing to do with the count.
LEMMA CountsStep ==
    ASSUME Types, OwnerCounts, NEW t \in Threads, NEW new, goto(t, new),
           pc[t] \in {"idle", "lock_failed"} \cup Waiting,
           new \in {"idle", "lock_failed", "destruct"} \cup Waiting,
           UNCHANGED <<meddled, owner, depth, lock_depth_, reg, held>>
    PROVE  OwnerCounts'
<1>1. /\ pc[t] \notin Uncounted \cup {"unlock_store", "revert_load", "revert_store"}
      /\ new \notin Uncounted \cup {"unlock_store", "revert_load", "revert_store"}
  BY DEF Waiting, Uncounted
<1> SUFFICES ASSUME meddled = 0
             PROVE  OwnerCounts'
  BY DEF OwnerCounts
<1>2. ASSUME NEW u \in Threads
      PROVE  \/ u # t /\ pc'[u] = pc[u]
             \/ u = t /\ pc'[u] = new
  BY DEF Types, goto
<1> QED
  BY <1>1, <1>2 DEF OwnerCounts, Uncounted

\* A step of a call keeps the phase; a constructor goes on alone.
LEMMA PhasesStep ==
    ASSUME MutexInv, ~Aborted, NEW t \in Threads, NEW new, goto(t, new),
           pc[t] \notin {"idle", "destruct"},
           UNCHANGED phase,
           phase = "constructing" =>
               /\ UNCHANGED <<meddled, lock_depth_, held>>
               /\ new \in Locking \cup (Waiting \ {"lock_blocked"})
    PROVE  Phases'
<1>1. phase \in {"constructing", "alive"} /\ Types /\ Phases
  BY LivePhase DEF MutexInv
<1>2. CASE phase = "alive"
  BY <1>2 DEF Phases, AbortMeansMisuse
<1>3. CASE phase = "constructing"
  <2>1. /\ meddled' = 0 /\ lock_depth_' = 0
        /\ \A u \in Threads : held'[u] = 0
    BY <1>1, <1>3 DEF Phases
  <2>2. \A u \in Threads : u # t => pc[u] = "idle" /\ pc'[u] = "idle"
    BY <1>1, <1>3 DEF Phases, Types, goto
  <2>3. pc'[t] = new
    BY <1>1 DEF Types, goto
  <2> QED
    BY <1>3, <2>1, <2>2, <2>3 DEF Phases, AbortMeansMisuse
<1> QED
  BY <1>1, <1>2, <1>3

-----------------------------------------------------------------------------
(***************************************************************************)
(* The invariant, one lemma per group of actions.                          *)
(***************************************************************************)

\* Nobody has locked a new mutex.
LEMMA MutexInitInv == Init => MutexInv
<1> SUFFICES ASSUME Init
             PROVE  MutexInv
  OBVIOUS
<1>1. Types
  BY MutexAssumption, TimeAssumption DEF Init, Types, Labels, TimeSpec, NoTime
<1>2. Paths /\ Ownership /\ OwnerCounts /\ Phases
  BY <1>1, MutexAssumption
  DEF Init, Types, Paths, Ownership, Native, OwnerCounts, Phases, AbortMeansMisuse, Waiting,
      Locking, Uncounted
<1> QED
  BY <1>1, <1>2 DEF MutexInv

\* The one place where the native mutex is locked.
LEMMA AcquireStep ==
    ASSUME MutexInv, ~Aborted, NEW t \in Threads, pc[t] \in Waiting, Acquire(t),
           UNCHANGED <<objVars, clock, wait, lock_depth_, timedVars, reg, held>>
    PROVE  MutexInv'
<1>1. Types /\ Paths /\ Ownership /\ OwnerCounts /\ Phases
  BY DEF MutexInv
<1>2. /\ owner \in {NoThread, t} /\ owner' = t /\ depth' = depth + 1
      /\ goto(t, "lock_load")
      /\ UNCHANGED <<port, phase, meddled, clock, wait, lock_depth_, tmo, called, deadline, ret,
                     reg, held>>
  BY DEF Acquire, objVars, timedVars
<1>3. pc[t] \notin Locking \cup Uncounted \cup {"idle", "destruct"}
  BY DEF Waiting, Locking, Uncounted
<1>4. depth = held[t] /\ held[t] \in Nat /\ held[t] < MaxDepth
  BY <1>1, <1>2, <1>3 DEF Types, Paths, Ownership, Native
<1>5. Types'
  <2>1. depth' \in 0 .. MaxDepth
    BY <1>2, <1>4, MutexAssumption
  <2> QED
    BY <1>1, <1>2, <2>1 DEF Types, Labels, goto
<1>6. Paths'
  BY <1>1, <1>2, <1>4 DEF Types, Paths, Waiting, Locking, goto
<1>7. Ownership'
  <2> SUFFICES ASSUME NEW u \in Threads
               PROVE  IF owner' = u THEN depth' = Native(u)' /\ depth' > 0
                      ELSE Native(u)' = 0
    BY <1>2, MutexAssumption DEF Ownership
  <2>1. CASE u = t
    <3>1. Native(u)' = held[t] + 1
      BY <1>1, <1>2, <2>1 DEF Types, Native, Locking, goto
    <3> QED
      BY <1>2, <1>4, <2>1, <3>1
  <2>2. CASE u # t
    <3>1. Native(u)' = Native(u)
      BY <1>1, <1>2, <2>2 DEF Types, Native, goto
    <3>2. owner # u
      BY <1>2, <2>2, MutexAssumption
    <3> QED
      BY <1>1, <1>2, <2>2, <3>1, <3>2 DEF Ownership
  <2> QED
    BY <2>1, <2>2
<1>8. OwnerCounts'
  <2> SUFFICES ASSUME meddled = 0
               PROVE  OwnerCounts'
    BY <1>2 DEF OwnerCounts
  <2>1. depth = lock_depth_
    <3>1. CASE owner = NoThread
      BY <1>1, <3>1 DEF OwnerCounts, Ownership
    <3>2. CASE owner = t
      BY <1>1, <1>3, <3>2 DEF OwnerCounts, Types
    <3> QED
      BY <1>2, <3>1, <3>2
  <2>2. depth' = lock_depth_' + 1 /\ pc'[t] = "lock_load" /\ owner' # NoThread
    BY <1>1, <1>2, <2>1, MutexAssumption DEF Types, goto
  <2>3. ASSUME NEW u \in Threads, u # t
        PROVE  pc'[u] = pc[u]
    BY <1>1, <1>2, <2>3 DEF Types, goto
  <2> QED
    BY <1>1, <1>2, <2>2, <2>3 DEF OwnerCounts, Uncounted
<1>9. Phases'
  BY <1>2, <1>3, PhasesStep DEF Locking
<1> QED
  BY <1>5, <1>6, <1>7, <1>8, <1>9 DEF MutexInv

\* A lock before the native mutex is locked: called, waiting, or about to return an
\* error.  A constructor never gets to an error, nobody else has the mutex.
LEMMA QuietStep ==
    ASSUME MutexInv, NEW t \in Threads, NEW new, goto(t, new),
           pc[t] \in {"idle", "lock_failed"} \cup Waiting,
           new \in {"idle", "lock_failed"} \cup Waiting,
           UNCHANGED <<port, meddled, nativeVars, lock_depth_, reg, held>>,
           Types', Paths', Phases'
    PROVE  MutexInv'
<1>1. pc[t] \notin Locking /\ new \notin Locking
  BY DEF Waiting, Locking
<1>2. Ownership' /\ OwnerCounts'
  BY <1>1, OwnershipStep, CountsStep DEF MutexInv, nativeVars
<1> QED
  BY <1>2 DEF MutexInv

\* Two threads are at work in a constructor's lock only if they are the same.
LEMMA ConstructorAlone ==
    ASSUME MutexInv, NEW t \in Threads, pc[t] \in Waiting, owner \notin {NoThread, t}
    PROVE  phase # "constructing"
<1> SUFFICES ASSUME phase = "constructing"
             PROVE  FALSE
  OBVIOUS
<1>1. owner \in Threads /\ Native(owner) > 0
  BY DEF MutexInv, Types, Ownership
<1>2. held[owner] = 0
  BY <1>1 DEF MutexInv, Phases
<1>3. pc[owner] \in Locking
  BY <1>1, <1>2 DEF Native
<1>4. pc[owner] # "idle" /\ pc[t] # "idle"
  BY <1>3 DEF Locking, Waiting
<1> QED
  BY <1>1, <1>4 DEF MutexInv, Phases

\* Where pos_mutex_lock() starts to wait.
LEMMA WaitingLabel ==
    ASSUME Types, NEW timeout \in Timeouts \cup {Forever}
    PROVE  /\ waiting(timeout) \in {"lock_forever", "lock_clock", "lock_kernel"}
           /\ waiting(timeout) = "lock_clock" => port = "posix" /\ timeout \in Timeouts
           /\ waiting(timeout) = "lock_kernel" =>
                 port \notin {"posix", "apple"} /\ timeout \in Timeouts
BY DEF waiting

\* The call of a lock, by a thread or by the constructor.
LEMMA EnterStep ==
    ASSUME MutexInv, NEW t \in Threads, NEW timeout \in Timeouts \cup {Forever},
           Enter(t, timeout, waiting(timeout)),
           \/ phase = "alive" /\ phase' = "alive"
           \/ phase = "new" /\ phase' = "constructing"
    PROVE  MutexInv'
<1>1. Types /\ Paths /\ Ownership /\ OwnerCounts /\ Phases
  BY DEF MutexInv
<1> DEFINE new == waiting(timeout)
<1>2. /\ new \in {"lock_forever", "lock_clock", "lock_kernel"}
      /\ new = "lock_clock" => port = "posix" /\ timeout \in Timeouts
      /\ new = "lock_kernel" => port \notin {"posix", "apple"} /\ timeout \in Timeouts
  BY <1>1, WaitingLabel
<1>3. /\ pc[t] = "idle" /\ held[t] < MaxDepth
      /\ tmo' = [tmo EXCEPT ![t] = timeout]
      /\ called' = [called EXCEPT ![t] = clock]
      /\ goto(t, new)
      /\ UNCHANGED <<port, meddled, clock, nativeVars, wait, lock_depth_, deadline, ret, reg, held>>
  BY DEF Enter
<1> HIDE DEF new
<1>4. Types'
  <2>1. clock \in Nat
    BY <1>1, MutexAssumption DEF Types
  <2> QED
    BY <1>1, <1>2, <1>3, <2>1 DEF Types, Labels, goto, nativeVars
<1>5. Paths'
  BY <1>1, <1>2, <1>3 DEF Types, Paths, Waiting, Locking, goto
<1>6. Phases'
  <2>1. CASE phase' = "alive"
    BY <2>1 DEF Phases, AbortMeansMisuse
  <2>2. CASE phase = "new" /\ phase' = "constructing"
    <3>1. /\ owner = NoThread /\ meddled = 0 /\ lock_depth_ = 0
          /\ \A u \in Threads : pc[u] = "idle"
      BY <1>1, <2>2 DEF Phases
    <3>2. \A u \in Threads : held[u] = 0
      BY <1>1, <3>1, MutexAssumption DEF Types, Ownership, Native, Locking
    <3>3. \A u \in Threads : pc'[u] = IF u = t THEN new ELSE "idle"
      BY <1>1, <1>3, <3>1 DEF Types, goto
    <3> QED
      BY <1>2, <1>3, <2>2, <3>1, <3>2, <3>3 DEF Phases, AbortMeansMisuse, Waiting
  <2> QED
    BY <2>1, <2>2
<1> QED
  BY <1>2, <1>3, <1>4, <1>5, <1>6, QuietStep DEF Waiting

\* The computation of a deadline in mu->wait.
LEMMA DeadlineStep ==
    ASSUME MutexInv, ~Aborted, NEW t \in Threads, LockClock(t) \/ LockAdd(t)
    PROVE  MutexInv'
<1>1. Types /\ Paths /\ Phases
  BY DEF MutexInv
<1> DEFINE new == IF pc[t] = "lock_clock" THEN "lock_add" ELSE "lock_timed"
<1>2. /\ pc[t] \in {"lock_clock", "lock_add"}
      /\ goto(t, new)
      /\ UNCHANGED <<objVars, clock, nativeVars, lock_depth_, timedVars, reg, held>>
  BY DEF LockClock, LockAdd
<1>3. clock \in Nat /\ tmo[t] \in Nat /\ port = "posix" /\ held[t] < MaxDepth
  <2>1. tmo[t] \in Timeouts
    BY <1>1, <1>2 DEF Paths
  <2>2. port = "posix" /\ held[t] < MaxDepth
    BY <1>1, <1>2 DEF Paths, Waiting
  <2>3. clock \in Nat
    BY <1>1, MutexAssumption DEF Types
  <2> QED
    BY <2>1, <2>2, <2>3, TimeAssumption
<1>4. wait' \in TimeSpec
  BY <1>1, <1>3, TimeTypes DEF LockClock, LockAdd, Types
<1>5. new \in {"lock_add", "lock_timed"} /\ (new = "lock_add" => pc[t] = "lock_clock")
  OBVIOUS
<1> HIDE DEF new
<1>6. Types'
  BY <1>1, <1>2, <1>4, <1>5 DEF Types, Labels, goto, objVars, nativeVars, timedVars
<1>7. Paths'
  BY <1>1, <1>2, <1>3, <1>5 DEF Types, Paths, Waiting, Locking, goto, objVars, timedVars
<1>8. Phases'
  BY <1>2, <1>5, PhasesStep DEF objVars, Waiting
<1> QED
  BY <1>2, <1>5, <1>6, <1>7, <1>8, QuietStep DEF objVars, Waiting

\* A lock that finds the mutex with somebody else: it blocks ...
LEMMA BlockStep ==
    ASSUME MutexInv, ~Aborted, NEW t \in Threads,
           pc[t] \in {"lock_timed", "lock_kernel", "lock_blocked"}, owner \notin {NoThread, t}, NEW w \in TimeSpec,
           deadline' = [deadline EXCEPT ![t] = w], goto(t, "lock_blocked"),
           UNCHANGED <<objVars, clock, nativeVars, wait, lock_depth_, tmo, called, ret, reg, held>>
    PROVE  MutexInv'
<1>1. Types /\ Paths /\ Phases /\ pc[t] \in Waiting
  BY DEF MutexInv, Waiting
<1>2. phase # "constructing" /\ port # "apple" /\ held[t] < MaxDepth
  BY <1>1, ConstructorAlone DEF Paths
<1>3. Types'
  BY <1>1 DEF Types, Labels, goto, objVars, nativeVars
<1>4. Paths'
  BY <1>1, <1>2 DEF Types, Paths, Waiting, Locking, goto, objVars
<1>5. Phases'
  BY <1>2, PhasesStep DEF objVars
<1> QED
  BY <1>1, <1>3, <1>4, <1>5, QuietStep DEF objVars, Waiting

\* ... or fails, at once or after its deadline.
LEMMA FailStep ==
    ASSUME MutexInv, ~Aborted, NEW t \in Threads, pc[t] \in Waiting,
           phase # "constructing",
           NEW err \in {"EINVAL", "ETIMEDOUT", "EBUSY", "EAGAIN"}, Fail(t, err),
           port \in {"posix", "apple"} => err \in {"EINVAL", "ETIMEDOUT"},
           UNCHANGED <<objVars, clock, nativeVars, wait, lock_depth_, tmo, called, deadline, reg,
                       held>>
    PROVE  MutexInv'
<1>1. Types /\ Paths /\ Phases
  BY DEF MutexInv
<1>2. goto(t, "lock_failed") /\ ret' = [ret EXCEPT ![t] = pos_mutex_lock(err)]
  BY DEF Fail
<1>3. Types'
  <2>1. pos_mutex_lock(err) \in {"POS_TIMEOUT", "POS_EINVAL", "POS_ERROR", "POS_BAD_MUTEX"}
    BY <1>1, FailResult
  <2> QED
    BY <1>1, <1>2, <2>1 DEF Types, Labels, goto, objVars, nativeVars
<1>4. Paths'
  BY <1>1, <1>2 DEF Types, Paths, Waiting, Locking, goto, objVars
<1>5. Phases'
  <2>1. pc[t] \notin {"idle", "destruct"}
    BY DEF Waiting
  <2> QED
    BY <1>2, <2>1, PhasesStep DEF objVars
<1> QED
  BY <1>2, <1>3, <1>4, <1>5, QuietStep DEF objVars

\* The native call of a lock, in all its outcomes.
LEMMA NativeStep ==
    ASSUME MutexInv, ~Aborted, NEW t \in Threads,
           LockForever(t) \/ LockTimed(t) \/ LockKernel(t) \/ LockBlocked(t)
    PROVE  MutexInv'
<1>1. Types /\ Paths /\ Phases
  BY DEF MutexInv
<1>2. /\ pc[t] \in {"lock_forever", "lock_timed", "lock_kernel", "lock_blocked"}
      /\ pc[t] \in Waiting
      /\ UNCHANGED <<objVars, clock, wait, lock_depth_, tmo, called, reg, held>>
  BY DEF LockForever, LockTimed, LockKernel, LockBlocked, Waiting, timedVars
<1>3. CASE Acquire(t) /\ UNCHANGED <<deadline, ret>>
  BY <1>2, <1>3, AcquireStep DEF timedVars
<1>4. CASE LockForever(t)
  BY <1>3, <1>4 DEF LockForever, timedVars
<1>5. CASE LockTimed(t)
  <2>1. pc[t] = "lock_timed" /\ port = "posix" /\ wait \in TimeSpec
    BY <1>1, <1>5 DEF LockTimed, Paths, Types
  <2>2. CASE /\ owner \notin {NoThread, t}
             /\ deadline' = [deadline EXCEPT ![t] = wait]
             /\ goto(t, "lock_blocked")
             /\ UNCHANGED <<nativeVars, ret>>
    BY <1>2, <2>1, <2>2, BlockStep
  <2>3. CASE /\ owner \notin {NoThread, t}
             /\ Fail(t, "EINVAL")
             /\ UNCHANGED <<nativeVars, deadline>>
    BY <1>2, <2>1, <2>3, ConstructorAlone, FailStep
  <2> QED
    BY <1>3, <1>5, <2>2, <2>3 DEF LockTimed
<1>6. CASE LockKernel(t)
  <2>1. pc[t] = "lock_kernel" /\ port \notin {"posix", "apple"} /\ tmo[t] \in Timeouts
    BY <1>1, <1>6 DEF LockKernel, Paths
  <2>2. CASE /\ owner \notin {NoThread, t}
             /\ deadline' = [deadline EXCEPT ![t] = gettime(kernelDeadline(port, clock, tmo[t]))]
             /\ goto(t, "lock_blocked")
             /\ UNCHANGED <<nativeVars, ret>>
    <3>1. kernelDeadline(port, clock, tmo[t]) \in Nat
      <4>1. clock \in Nat
        BY <1>1, MutexAssumption DEF Types
      <4>2. tmo[t] \in Nat
        BY <2>1, TimeAssumption
      <4> QED
        BY <4>1, <4>2, KernelDeadlineType
    <3>2. gettime(kernelDeadline(port, clock, tmo[t])) \in TimeSpec
      BY <3>1, TimeTypes
    <3> QED
      BY <1>2, <2>1, <2>2, <3>2, BlockStep
  <2>3. CASE /\ owner \notin {NoThread, t}
             /\ Fail(t, "EBUSY")
             /\ UNCHANGED <<nativeVars, deadline>>
    BY <1>2, <2>1, <2>3, ConstructorAlone, FailStep
  <2> QED
    BY <1>3, <1>6, <2>2, <2>3 DEF LockKernel
<1>7. CASE LockBlocked(t)
  <2>1. pc[t] = "lock_blocked" /\ port # "apple" /\ wait \in TimeSpec
    BY <1>1, <1>7 DEF LockBlocked, Paths, Types
  <2>2. phase # "constructing"
    BY <1>1, <2>1 DEF Phases, Waiting, Locking
  <2>3. ASSUME NEW err \in {"EINVAL", "ETIMEDOUT", "EAGAIN"},
               port = "posix" => err \in {"EINVAL", "ETIMEDOUT"},
               Fail(t, err), UNCHANGED <<nativeVars, deadline>>
        PROVE  MutexInv'
    BY <1>2, <2>1, <2>2, <2>3, FailStep
  <2>4. CASE /\ owner \notin {NoThread, t}
             /\ deadline' = [deadline EXCEPT ![t] = wait]
             /\ UNCHANGED <<nativeVars, pc, ret>>
    <3>1. goto(t, "lock_blocked")
      BY <1>1, <2>1, <2>4 DEF Types, goto
    <3> QED
      BY <1>2, <2>1, <2>4, <3>1, BlockStep
  <2> QED
    BY <1>3, <1>7, <2>3, <2>4 DEF LockBlocked
<1> QED
  BY <1>4, <1>5, <1>6, <1>7

\* "lock_depth_++" under the mutex, and the end of a lock.
LEMMA CountLockStep ==
    ASSUME MutexInv, ~Aborted, NEW t \in Threads, LockLoad(t) \/ LockStore(t)
    PROVE  MutexInv'
<1>1. Types /\ Paths /\ Ownership /\ OwnerCounts /\ Phases
  BY DEF MutexInv
<1>2. pc[t] \in Locking /\ phase \in {"constructing", "alive"}
  BY LivePhase DEF LockLoad, LockStore, Locking
<1>3. owner = t /\ held[t] \in Nat /\ held[t] < MaxDepth
  BY <1>1, <1>2 DEF Types, Paths, Ownership, Native
<1>4. CASE LockLoad(t)
  <2>1. /\ pc[t] = "lock_load" /\ goto(t, "lock_store")
        /\ reg' = [reg EXCEPT ![t] = lock_depth_]
        /\ UNCHANGED <<port, phase, meddled, clock, owner, depth, wait, lock_depth_, tmo, called,
                       deadline, ret, held>>
    BY <1>4 DEF LockLoad, objVars, nativeVars, timedVars
  <2>2. Types'
    BY <1>1, <2>1 DEF Types, Labels, goto
  <2>3. Paths'
    BY <1>1, <1>3, <2>1 DEF Types, Paths, Waiting, Locking, goto
  <2>4. Ownership'
    BY <1>1, <2>1, OwnershipStep DEF Locking
  <2>5. OwnerCounts'
    BY <1>1, <2>1 DEF Types, OwnerCounts, Uncounted, goto
  <2>6. Phases'
    BY <2>1, PhasesStep DEF Locking
  <2> QED
    BY <2>2, <2>3, <2>4, <2>5, <2>6 DEF MutexInv
<1>5. CASE LockStore(t)
  <2>1. /\ pc[t] = "lock_store" /\ goto(t, "idle") /\ phase' = "alive"
        /\ lock_depth_' = IF phase = "constructing" THEN 1 ELSE reg[t] + 1
        /\ reg' = [reg EXCEPT ![t] = 0]
        /\ held' = [held EXCEPT ![t] = held[t] + 1]
        /\ tmo' = [tmo EXCEPT ![t] = Forever]
        /\ called' = [called EXCEPT ![t] = 0]
        /\ deadline' = [deadline EXCEPT ![t] = NoTime]
        /\ UNCHANGED <<port, meddled, clock, owner, depth, wait, ret>>
    BY <1>5 DEF LockStore, nativeVars
  <2>2. Types'
    <3>1. held[t] + 1 \in 0 .. MaxDepth /\ lock_depth_' \in Nat /\ NoTime \in TimeSpec
      BY <1>1, <1>3, <2>1, MutexAssumption DEF Types, NoTime, TimeSpec
    <3> QED
      BY <1>1, <2>1, <3>1 DEF Types, Labels, goto
  <2>3. Paths'
    BY <1>1, <2>1 DEF Types, Paths, Waiting, Locking, goto
  <2>4. Ownership'
    <3> SUFFICES ASSUME NEW u \in Threads
                 PROVE  IF owner' = u THEN depth' = Native(u)' /\ depth' > 0
                        ELSE Native(u)' = 0
      BY <1>1, <2>1 DEF Ownership
    <3>1. Native(u)' = Native(u)
      <4>1. CASE u = t
        BY <1>1, <1>3, <2>1, <4>1 DEF Types, Native, Locking, goto
      <4>2. CASE u # t
        BY <1>1, <2>1, <4>2 DEF Types, Native, goto
      <4> QED
        BY <4>1, <4>2
    <3> QED
      BY <1>1, <2>1, <3>1 DEF Ownership
  <2>5. OwnerCounts'
    <3> SUFFICES ASSUME meddled = 0
                 PROVE  OwnerCounts'
      BY <2>1 DEF OwnerCounts
    <3>1. depth = lock_depth_ + 1 /\ reg[t] = lock_depth_
      BY <1>1, <1>3, <2>1 DEF OwnerCounts, Uncounted
    <3>2. lock_depth_' = depth /\ depth' = depth
      BY <1>1, <2>1, <3>1 DEF Phases
    <3>3. owner' = t /\ t # NoThread /\ pc'[t] = "idle" /\ depth \in Nat
      BY <1>1, <1>3, <2>1, MutexAssumption DEF Types, goto
    <3>4. ASSUME NEW u \in Threads, u # t
          PROVE  /\ pc'[u] = pc[u] /\ held'[u] = held[u] /\ reg'[u] = reg[u]
                 /\ pc[u] \notin {"lock_store", "unlock_store"}
      BY <1>1, <1>3, <2>1, <3>4 DEF Types, Ownership, Native, OwnerCounts, Locking, goto
    <3> QED
      BY <1>1, <2>1, <3>2, <3>3, <3>4 DEF OwnerCounts, Uncounted
  <2>6. Phases'
    BY <2>1 DEF Phases, AbortMeansMisuse
  <2> QED
    BY <2>2, <2>3, <2>4, <2>5, <2>6 DEF MutexInv
<1> QED
  BY <1>4, <1>5

\* A lock that failed returns its error.
LEMMA LockFailedStep ==
    ASSUME MutexInv, ~Aborted, NEW t \in Threads, LockFailed(t)
    PROVE  MutexInv'
<1>1. Types /\ Paths /\ Phases
  BY DEF MutexInv
<1>2. /\ pc[t] = "lock_failed" /\ goto(t, "idle")
      /\ ret' = [ret EXCEPT ![t] = "POS_OK"]
      /\ tmo' = [tmo EXCEPT ![t] = Forever]
      /\ called' = [called EXCEPT ![t] = 0]
      /\ deadline' = [deadline EXCEPT ![t] = NoTime]
      /\ UNCHANGED <<port, meddled, clock, nativeVars, wait, lock_depth_, reg, held>>
  BY DEF LockFailed
<1>3. phase = "alive" /\ phase' = "alive"
  <2>1. phase \in {"constructing", "alive"}
    BY <1>2, LivePhase
  <2>2. phase # "constructing"
    BY <1>1, <1>2 DEF Phases, Locking, Waiting
  <2> QED
    BY <2>1, <2>2 DEF LockFailed
<1>4. Types'
  BY <1>1, <1>2, <1>3 DEF Types, Labels, goto, nativeVars, NoTime, TimeSpec
<1>5. Paths'
  BY <1>1, <1>2 DEF Types, Paths, Waiting, Locking, goto
<1>6. Phases'
  BY <1>3 DEF Phases, AbortMeansMisuse
<1> QED
  BY <1>2, <1>4, <1>5, <1>6, QuietStep

\* assert(lock_depth_ > 0), which holds for the owner, and the load.
LEMMA UnlockLoadStep ==
    ASSUME MutexInv, NEW t \in Threads, UnlockLoad(t)
    PROVE  MutexInv'
<1>1. Types /\ Paths /\ Ownership /\ OwnerCounts /\ Phases
  BY DEF MutexInv
<1>2. /\ phase = "alive" /\ pc[t] = "idle"
      /\ held[t] = 0 => meddled < MaxMeddled
      /\ meddled' = meddled + (IF held[t] = 0 THEN 1 ELSE 0)
      /\ UNCHANGED <<port, clock, owner, depth, wait, lock_depth_, tmo, called, deadline, ret, held>>
  BY DEF UnlockLoad, mayUnlock, nativeVars, timedVars
<1>3. meddled' \in 0 .. MaxMeddled
  BY <1>1, <1>2, MutexAssumption DEF Types
<1>4. ASSUME meddled' = 0
      PROVE  /\ meddled = 0 /\ held[t] > 0 /\ owner = t
             /\ depth = lock_depth_ /\ lock_depth_ > 0
  <2>1. meddled = 0 /\ held[t] > 0
    BY <1>1, <1>2, <1>4 DEF Types
  <2>2. owner = t /\ depth > 0
    BY <1>1, <2>1, <1>2 DEF Types, Ownership, Native, Locking
  <2> QED
    BY <1>1, <1>2, <2>1, <2>2 DEF Types, OwnerCounts, Uncounted
<1>5. CASE lock_depth_ > 0
  <2>1. /\ reg' = [reg EXCEPT ![t] = lock_depth_]
        /\ goto(t, "unlock_store") /\ phase' = "alive"
    BY <1>2, <1>5 DEF UnlockLoad
  <2>2. Types'
    BY <1>1, <1>2, <1>3, <2>1 DEF Types, Labels, goto
  <2>3. Paths'
    BY <1>1, <1>2, <1>5, <2>1 DEF Types, Paths, Waiting, Locking, goto
  <2>4. Ownership'
    BY <1>1, <1>2, <2>1, OwnershipStep DEF Locking
  <2>5. OwnerCounts'
    <3> SUFFICES ASSUME meddled' = 0
                 PROVE  OwnerCounts'
      BY DEF OwnerCounts
    <3>1. owner' = t /\ t # NoThread /\ pc'[t] = "unlock_store" /\ reg'[t] = lock_depth_'
      BY <1>1, <1>2, <1>4, <2>1, MutexAssumption DEF Types, goto
    <3>2. ASSUME NEW u \in Threads, u # t
          PROVE  pc'[u] = pc[u] /\ held'[u] = held[u] /\ reg'[u] = reg[u]
      BY <1>1, <1>2, <2>1, <3>2 DEF Types, goto
    <3>3. depth' = lock_depth_' + 0 /\ held'[t] > 0
      BY <1>1, <1>2, <1>4 DEF Types
    <3> QED
      BY <1>1, <1>2, <1>4, <3>1, <3>2, <3>3 DEF OwnerCounts, Uncounted
  <2>6. Phases'
    BY <2>1 DEF Phases, AbortMeansMisuse
  <2> QED
    BY <2>2, <2>3, <2>4, <2>5, <2>6 DEF MutexInv
<1>6. CASE ~(lock_depth_ > 0)
  <2>1. phase' = "abort_unlock" /\ UNCHANGED <<reg, pc>>
    BY <1>6 DEF UnlockLoad
  <2>2. meddled' # 0
    BY <1>4, <1>6
  <2>3. Types' /\ Paths'
    BY <1>1, <1>2, <1>3, <2>1 DEF Types, Paths
  <2>4. Ownership' /\ OwnerCounts' /\ Phases'
    BY <1>1, <1>2, <2>1, <2>2 DEF Ownership, Native, OwnerCounts, Phases, AbortMeansMisuse
  <2> QED
    BY <2>3, <2>4 DEF MutexInv
<1> QED
  BY <1>5, <1>6

\* The decrement, under the mutex unless somebody meddles.
LEMMA UnlockStoreStep ==
    ASSUME MutexInv, ~Aborted, NEW t \in Threads, UnlockStore(t)
    PROVE  MutexInv'
<1>1. Types /\ Paths /\ Ownership /\ OwnerCounts /\ Phases
  BY DEF MutexInv
<1>2. /\ pc[t] = "unlock_store" /\ goto(t, "unlock_native")
      /\ lock_depth_' = reg[t] - 1
      /\ reg' = [reg EXCEPT ![t] = 0]
      /\ UNCHANGED <<port, phase, meddled, clock, owner, depth, wait, tmo, called, deadline, ret,
                     held>>
  BY DEF UnlockStore, objVars, nativeVars, timedVars
<1>3. reg[t] \in Nat /\ reg[t] > 0 /\ lock_depth_' \in Nat
  BY <1>1, <1>2 DEF Types, Paths
<1>4. Types'
  BY <1>1, <1>2, <1>3 DEF Types, Labels, goto
<1>5. Paths'
  BY <1>1, <1>2 DEF Types, Paths, Waiting, Locking, goto
<1>6. Ownership'
  BY <1>1, <1>2, OwnershipStep DEF Locking
<1>7. OwnerCounts'
  <2> SUFFICES ASSUME meddled = 0
               PROVE  OwnerCounts'
    BY <1>2 DEF OwnerCounts
  <2>1. held[t] > 0 /\ reg[t] = lock_depth_
    BY <1>1, <1>2 DEF OwnerCounts
  <2>2. owner = t
    BY <1>1, <1>2, <2>1 DEF Types, Ownership, Native, Locking
  <2>3. depth = reg[t]
    BY <1>1, <1>2, <2>1, <2>2 DEF Types, OwnerCounts, Uncounted
  <2>4. /\ owner' = t /\ t # NoThread /\ pc'[t] = "unlock_native" /\ held'[t] > 0
        /\ depth' = lock_depth_' + 1
    BY <1>1, <1>2, <1>3, <2>1, <2>2, <2>3, MutexAssumption DEF Types, goto
  <2>5. ASSUME NEW u \in Threads, u # t
        PROVE  /\ pc'[u] = pc[u] /\ held'[u] = held[u]
               /\ pc[u] \notin {"lock_store", "unlock_store"}
    BY <1>1, <1>2, <2>2, <2>5 DEF Types, Ownership, Native, OwnerCounts, Locking, goto
  <2> QED
    BY <1>1, <1>2, <2>4, <2>5 DEF OwnerCounts, Uncounted
<1>8. Phases'
  <2>1. phase # "constructing"
    BY <1>1, <1>2 DEF Phases, Waiting, Locking
  <2> QED
    BY <1>2, <2>1, PhasesStep
<1> QED
  BY <1>4, <1>5, <1>6, <1>7, <1>8 DEF MutexInv

\* The owner of the mutex, outside of Lock(), unlocks it once.
LEMMA ReleaseFacts ==
    ASSUME MutexInv, NEW t \in Threads, owner = t, Release, pc[t] \notin Locking,
           held' = [held EXCEPT ![t] = held[t] - 1],
           NEW new, goto(t, new), new \notin Locking
    PROVE  /\ held' \in [Threads -> 0 .. MaxDepth] /\ depth' \in 0 .. MaxDepth
           /\ owner' \in Threads \cup {NoThread}
           /\ owner' = NoThread <=> depth = 1
           /\ depth = 1 \/ owner' = t
           /\ depth' = depth - 1
           /\ \A u \in Threads : held'[u] <= held[u]
           /\ Ownership'
<1>1. Types /\ Ownership
  BY DEF MutexInv
<1>2. /\ depth = held[t] /\ depth > 0 /\ depth \in 0 .. MaxDepth
      /\ held[t] \in Nat /\ MaxDepth \in Nat
  BY <1>1, MutexAssumption DEF Types, Ownership, Native
<1>3. depth' = depth - 1 /\ owner' = IF depth = 1 THEN NoThread ELSE t
  BY DEF Release
<1>4. t # NoThread
  BY MutexAssumption
<1>5. held' \in [Threads -> 0 .. MaxDepth] /\ depth' \in 0 .. MaxDepth
  BY <1>1, <1>2, <1>3 DEF Types
<1>6. Ownership'
  <2>1. owner' = NoThread => depth' = 0
    BY <1>2, <1>3, <1>4
  <2>2. ASSUME NEW u \in Threads
        PROVE  IF owner' = u THEN depth' = Native(u)' /\ depth' > 0 ELSE Native(u)' = 0
    <3>1. CASE u = t
      <4>1. Native(u)' = depth - 1
        BY <1>1, <1>2, <3>1 DEF Types, Native, goto
      <4> QED
        BY <1>2, <1>3, <1>4, <3>1, <4>1
    <3>2. CASE u # t
      <4>1. Native(u)' = Native(u) /\ owner' # u
        BY <1>1, <1>3, <3>2, MutexAssumption DEF Types, Native, goto
      <4> QED
        BY <1>1, <3>2, <4>1 DEF Ownership
    <3> QED
      BY <3>1, <3>2
  <2> QED
    BY <2>1, <2>2 DEF Ownership
<1>7. \A u \in Threads : held'[u] <= held[u]
  BY <1>1, <1>2 DEF Types
<1> QED
  BY <1>1, <1>2, <1>3, <1>4, <1>5, <1>6, <1>7 DEF Types

\* The native unlock, which only the owner succeeds with.
LEMMA UnlockNativeStep ==
    ASSUME MutexInv, ~Aborted, NEW t \in Threads, UnlockNative(t)
    PROVE  MutexInv'
<1>1. Types /\ Paths /\ Ownership /\ OwnerCounts /\ Phases
  BY DEF MutexInv
<1>2. /\ pc[t] = "unlock_native"
      /\ UNCHANGED <<port, phase, meddled, clock, wait, lock_depth_, tmo, called, deadline, ret, reg>>
  BY DEF UnlockNative, objVars, timedVars
<1>3. phase # "constructing"
  BY <1>1, <1>2 DEF Phases, Waiting, Locking
<1>4. CASE owner = t
  <2>1. Release /\ held' = [held EXCEPT ![t] = held[t] - 1] /\ goto(t, "idle")
    BY <1>4 DEF UnlockNative
  <2>2. /\ held' \in [Threads -> 0 .. MaxDepth] /\ depth' \in 0 .. MaxDepth
        /\ owner' \in Threads \cup {NoThread}
        /\ owner' = NoThread <=> depth = 1
        /\ depth = 1 \/ owner' = t
        /\ depth' = depth - 1
        /\ \A u \in Threads : held'[u] <= held[u]
        /\ Ownership'
    BY <1>2, <1>4, <2>1, ReleaseFacts DEF Locking
  <2>3. Types'
    BY <1>1, <1>2, <2>1, <2>2 DEF Types, Labels, goto
  <2>4. Paths'
    BY <1>1, <1>2, <2>1 DEF Types, Paths, Waiting, Locking, goto
  <2>5. OwnerCounts'
    <3> SUFFICES ASSUME meddled = 0
                 PROVE  OwnerCounts'
      BY <1>2 DEF OwnerCounts
    <3>1. depth = lock_depth_ + 1 /\ depth \in Nat /\ lock_depth_ \in Nat
      BY <1>1, <1>2, <1>4 DEF Types, OwnerCounts, Uncounted
    <3>2. /\ depth' = lock_depth_' + 0
          /\ owner' = NoThread => lock_depth_' = 0
          /\ pc'[t] = "idle"
      BY <1>1, <1>2, <2>1, <2>2, <3>1 DEF Types, goto
    <3>3. ASSUME NEW u \in Threads, u # t
          PROVE  pc'[u] = pc[u] /\ held'[u] = held[u] /\ owner' # u
      BY <1>1, <2>1, <2>2, <3>3, MutexAssumption DEF Types, goto
    <3> QED
      BY <1>1, <1>2, <3>2, <3>3 DEF OwnerCounts, Uncounted
  <2>6. Phases'
    BY <1>2, <1>3, <2>1, PhasesStep
  <2> QED
    BY <2>2, <2>3, <2>4, <2>5, <2>6 DEF MutexInv
<1>5. CASE owner # t
  <2>1. goto(t, "revert_load") /\ UNCHANGED <<owner, depth, held>>
    BY <1>1, <1>5, UnlockRefused DEF UnlockNative, nativeVars
  <2>2. meddled # 0
    BY <1>1, <1>2, <1>5 DEF Types, Ownership, Native, OwnerCounts, Locking
  <2>3. Types'
    BY <1>1, <1>2, <2>1 DEF Types, Labels, goto
  <2>4. Paths'
    BY <1>1, <1>2, <2>1 DEF Types, Paths, Waiting, Locking, goto
  <2>5. Ownership'
    BY <1>1, <1>2, <2>1, OwnershipStep DEF Locking
  <2>6. OwnerCounts'
    BY <1>2, <2>2 DEF OwnerCounts
  <2>7. Phases'
    BY <1>2, <1>3, <2>1, PhasesStep
  <2> QED
    BY <2>3, <2>4, <2>5, <2>6, <2>7 DEF MutexInv
<1> QED
  BY <1>4, <1>5

\* The revert of an Unlock() without the lock.
LEMMA RevertStep ==
    ASSUME MutexInv, ~Aborted, NEW t \in Threads, RevertLoad(t) \/ RevertStore(t)
    PROVE  MutexInv'
<1>1. Types /\ Paths /\ Ownership /\ OwnerCounts /\ Phases
  BY DEF MutexInv
<1> DEFINE new == IF pc[t] = "revert_load" THEN "revert_store" ELSE "idle"
<1>2. /\ pc[t] \in {"revert_load", "revert_store"}
      /\ goto(t, new)
      /\ UNCHANGED <<port, phase, meddled, clock, owner, depth, wait, tmo, called, deadline, ret,
                     held>>
  BY DEF RevertLoad, RevertStore, objVars, nativeVars, timedVars
<1>3. new \in {"revert_store", "idle"}
  OBVIOUS
<1> HIDE DEF new
<1>4. lock_depth_' \in Nat /\ reg' \in [Threads -> Nat] /\ \A u \in Threads \ {t} : reg'[u] = reg[u]
  BY <1>1 DEF Types, RevertLoad, RevertStore
<1>5. meddled # 0 /\ phase # "constructing"
  BY <1>1, <1>2 DEF OwnerCounts, Phases, Waiting, Locking
<1>6. Types'
  BY <1>1, <1>2, <1>3, <1>4 DEF Types, Labels, goto
<1>7. Paths'
  BY <1>1, <1>2, <1>3, <1>4 DEF Types, Paths, Waiting, Locking, goto
<1>8. Ownership'
  BY <1>1, <1>2, <1>3, OwnershipStep DEF Locking
<1>9. OwnerCounts'
  BY <1>2, <1>5 DEF OwnerCounts
<1>10. Phases'
  BY <1>2, <1>5, PhasesStep
<1> QED
  BY <1>6, <1>7, <1>8, <1>9, <1>10 DEF MutexInv

\* The constructor without a lock, or without a mutex, and the clock.
LEMMA ObjectStep ==
    ASSUME MutexInv,
           \/ Tick
           \/ ConstructFails
           \/ \E t \in Threads : Construct(t) /\ phase' = "alive"
    PROVE  MutexInv'
<1>1. Types /\ Paths /\ Ownership /\ OwnerCounts /\ Phases
  BY DEF MutexInv
<1>2. CASE Tick
  <2>1. /\ clock' \in 0 .. MaxClock
        /\ phase \in {"constructing", "alive"}
        /\ UNCHANGED <<objVars, nativeVars, wait, lock_depth_, pc, timedVars, reg, held>>
    BY <1>1, <1>2, MutexAssumption DEF Types, Tick
  <2>2. Types' /\ Paths'
    BY <1>1, <2>1 DEF Types, Paths, objVars, nativeVars, timedVars
  <2>3. Ownership' /\ OwnerCounts' /\ Phases'
    BY <1>1, <2>1
    DEF Ownership, Native, OwnerCounts, Phases, AbortMeansMisuse, objVars, nativeVars
  <2> QED
    BY <2>2, <2>3 DEF MutexInv
<1>3. CASE ~Tick
  <2>1. /\ phase' \in {"abort_init", "alive"}
        /\ UNCHANGED <<port, meddled, clock, nativeVars, wait, lock_depth_, pc, timedVars, reg,
                       held>>
    BY <1>3 DEF ConstructFails, Construct
  <2>2. Types' /\ Paths'
    BY <1>1, <2>1 DEF Types, Paths, nativeVars, timedVars
  <2>3. Ownership' /\ OwnerCounts' /\ Phases'
    BY <1>1, <2>1 DEF Ownership, Native, OwnerCounts, Phases, AbortMeansMisuse, nativeVars
  <2> QED
    BY <2>2, <2>3 DEF MutexInv
<1> QED
  BY <1>2, <1>3

\* The destructor: without meddling it finds in lock_depth_ what the native mutex
\* counts, and is refused only when that belongs to another thread.
LEMMA DestructStep ==
    ASSUME MutexInv, NEW t \in Threads, Destruct(t) \/ DestructLoop(t)
    PROVE  MutexInv'
<1>1. Types /\ Paths /\ Ownership /\ OwnerCounts /\ Phases
  BY DEF MutexInv
<1>2. CASE Destruct(t)
  <2>1. /\ \A u \in Threads : pc[u] = "idle"
        /\ phase' = "destructing" /\ goto(t, "destruct")
        /\ UNCHANGED <<port, meddled, clock, owner, depth, wait, lock_depth_, tmo, called,
                       deadline, ret, reg, held>>
    BY <1>2 DEF Destruct, nativeVars, timedVars
  <2>2. Types'
    BY <1>1, <2>1 DEF Types, Labels, goto
  <2>3. Paths'
    BY <1>1, <2>1 DEF Types, Paths, Waiting, Locking, goto
  <2>4. Ownership' /\ OwnerCounts'
    BY <1>1, <2>1, OwnershipStep, CountsStep DEF Locking
  <2>5. Phases'
    BY <1>1, <2>1 DEF Types, Phases, AbortMeansMisuse, goto
  <2> QED
    BY <2>2, <2>3, <2>4, <2>5 DEF MutexInv
<1>3. CASE DestructLoop(t)
  <2>1. /\ pc[t] = "destruct" /\ phase = "destructing"
        /\ UNCHANGED <<port, meddled, clock, wait, pc, tmo, called, deadline, ret, reg>>
    BY <1>3 DEF DestructLoop, timedVars
  <2>2. \A u \in Threads : pc[u] \in {"idle", "destruct"}
    BY <1>1, <2>1 DEF Phases
  <2>3. meddled = 0 => depth = lock_depth_
    <3>1. CASE owner = NoThread
      BY <1>1, <3>1 DEF Ownership, OwnerCounts
    <3>2. CASE owner \in Threads
      BY <1>1, <2>2, <3>2 DEF Types, OwnerCounts, Uncounted
    <3> QED
      BY <1>1, <3>1, <3>2 DEF Types
  <2>4. CASE lock_depth_ > 0 /\ owner = t
    <3>1. /\ Release /\ held' = [held EXCEPT ![t] = held[t] - 1]
          /\ lock_depth_' = lock_depth_ - 1 /\ phase' = phase
      BY <1>1, <1>3, <2>4 DEF DestructLoop, Types
    <3>2. goto(t, "destruct")
      BY <1>1, <2>1 DEF Types, goto
    <3>3. /\ held' \in [Threads -> 0 .. MaxDepth] /\ depth' \in 0 .. MaxDepth
          /\ owner' \in Threads \cup {NoThread}
          /\ owner' = NoThread <=> depth = 1
          /\ depth = 1 \/ owner' = t
          /\ depth' = depth - 1
          /\ Ownership'
      BY <2>1, <2>4, <3>1, <3>2, ReleaseFacts DEF Locking
    <3>4. Types'
      BY <1>1, <2>1, <2>4, <3>1, <3>3 DEF Types
    <3>5. Paths'
      BY <1>1, <2>1, <2>2, <3>1 DEF Types, Paths, Waiting, Locking
    <3>6. OwnerCounts'
      <4> SUFFICES ASSUME meddled = 0
                   PROVE  OwnerCounts'
        BY <2>1 DEF OwnerCounts
      <4>1. depth' = lock_depth_' + 0 /\ (depth = 1 => lock_depth_' = 0)
        BY <1>1, <2>3, <3>1, <3>3 DEF Types
      <4> QED
        BY <2>1, <2>2, <3>3, <4>1 DEF OwnerCounts, Uncounted
    <3>7. Phases'
      BY <1>1, <2>1, <2>2, <3>1 DEF Phases, AbortMeansMisuse
    <3> QED
      BY <3>3, <3>4, <3>5, <3>6, <3>7 DEF MutexInv
  <2>5. CASE ~(lock_depth_ > 0 /\ owner = t)
    <3>1. /\ UNCHANGED <<owner, depth, held, lock_depth_>>
          /\ \/ lock_depth_ > 0 /\ owner # t /\ phase' = "abort_destructor"
             \/ lock_depth_ = 0 /\ phase' = "destroyed"
      BY <1>3, <2>5 DEF DestructLoop, nativeVars
    <3>2. Types' /\ Paths'
      BY <1>1, <2>1, <3>1 DEF Types, Paths
    <3>3. Ownership' /\ OwnerCounts'
      BY <1>1, <2>1, <3>1 DEF Ownership, Native, OwnerCounts
    <3>4. AbortMeansMisuse'
      <4>1. meddled = 0 /\ lock_depth_ > 0 => owner # NoThread
        BY <1>1, <2>3 DEF Types, Ownership
      <4>2. meddled = 0 /\ lock_depth_ = 0 => owner = NoThread
        BY <1>1, <2>3 DEF Types, Ownership
      <4> QED
        BY <2>1, <3>1, <4>1, <4>2 DEF AbortMeansMisuse
    <3>5. Phases'
      BY <2>1, <2>2, <3>1, <3>4 DEF Phases
    <3> QED
      BY <3>2, <3>3, <3>5 DEF MutexInv
  <2> QED
    BY <2>4, <2>5
<1> QED
  BY <1>2, <1>3

\* Every step of a thread and of the clock preserves the invariant.
LEMMA MutexStepInv == MutexInv /\ [Next]_vars => MutexInv'
<1> SUFFICES ASSUME MutexInv, [Next]_vars
             PROVE  MutexInv'
  OBVIOUS
<1>1. CASE UNCHANGED vars
  BY <1>1 DEF vars, objVars, nativeVars, timedVars, MutexInv, Types, Paths, Ownership, Native,
              OwnerCounts, Phases, AbortMeansMisuse
<1>2. CASE Tick \/ ConstructFails
  BY <1>2, ObjectStep
<1>3. ASSUME NEW t \in Threads, Step(t)
      PROVE  MutexInv'
  BY <1>3, NativeStep, DeadlineStep, CountLockStep, LockFailedStep, UnlockStoreStep,
     UnlockNativeStep, RevertStep DEF Step
<1>4. ASSUME NEW t \in Threads, UnlockLoad(t) \/ Destruct(t) \/ DestructLoop(t)
      PROVE  MutexInv'
  BY <1>4, UnlockLoadStep, DestructStep
<1>5. ASSUME NEW t \in Threads, Construct(t)
      PROVE  MutexInv'
  BY <1>5, ObjectStep, EnterStep DEF Construct
<1>6. ASSUME NEW t \in Threads, NEW timeout \in Timeouts \cup {Forever}, LockCall(t, timeout)
      PROVE  MutexInv'
  BY <1>6, EnterStep DEF LockCall
<1> QED
  BY <1>1, <1>2, <1>3, <1>4, <1>5, <1>6 DEF Next, Terminated

\* The inductive invariant holds in every execution of OsMutex on every port.
THEOREM MutexInvariant == Spec => []MutexInv
BY MutexInitInv, MutexStepInv, PTL DEF Spec

-----------------------------------------------------------------------------
(***************************************************************************)
(* How far calls of Unlock() without the lock can drive lock_depth_.  Such *)
(* a call makes two stores that are not under the mutex, each of a value   *)
(* that was read at some other time: the decrement can lift the count by   *)
(* MaxDepth - 1, and the revert by MaxDepth + 1.                           *)
(***************************************************************************)

\* Those who have yet to decrement, and those who have yet to revert.
Decrementing == {t \in Threads : held[t] = 0 /\ pc[t] = "unlock_store"}
Reverting    == {t \in Threads : held[t] = 0 /\ pc[t] \in {"unlock_store", "unlock_native",
                                                           "revert_load", "revert_store"}}

\* What the stores so far can have added to the count.
Drift == ((MaxDepth - 1) * (meddled - Cardinality(Decrementing)))
            + ((MaxDepth + 1) * (meddled - Cardinality(Reverting)))

\* The native locks that lock_depth_ should know of.
Countable ==
    depth - (IF \E t \in Threads : owner = t /\ pc[t] \in Uncounted THEN 1 ELSE 0)

CountBound ==
    /\ lock_depth_ <= Countable + Drift
    /\ \A t \in Threads :
          /\ pc[t] \in {"lock_store", "unlock_store", "revert_store"} =>
                reg[t] <= (IF owner = t THEN Countable ELSE MaxDepth) + Drift
          /\ pc[t] \notin {"lock_store", "unlock_store", "revert_store"} => reg[t] = 0
          /\ pc[t] \in {"revert_load", "revert_store"} => held[t] = 0
    /\ Cardinality(Reverting) <= meddled

CountableByOwner ==
    /\ Countable \in 0 .. MaxDepth
    /\ \A t \in Threads : owner = t =>
          Countable = depth - (IF pc[t] \in Uncounted THEN 1 ELSE 0)
    /\ owner = NoThread => Countable = 0

\* The owner has at least the lock that is not counted yet.
LEMMA CountableFacts == MutexInv => CountableByOwner
<1> USE DEF CountableByOwner
<1> SUFFICES ASSUME MutexInv
             PROVE  CountableByOwner
  OBVIOUS
<1>1. Types /\ Ownership
  BY DEF MutexInv
<1>2. depth \in 0 .. MaxDepth /\ MaxDepth \in Nat
  BY <1>1, MutexAssumption DEF Types
<1>3. CASE owner = NoThread
  <2>1. depth = 0
    BY <1>1, <1>3 DEF Ownership
  <2>2. \A t \in Threads : owner # t
    BY <1>3, MutexAssumption
  <2>3. Countable = depth - 0
    BY <2>2 DEF Countable
  <2> QED
    BY <1>2, <1>3, <2>1, <2>2, <2>3
<1>4. CASE owner \in Threads
  <2>1. depth > 0 /\ owner # NoThread
    BY <1>1, <1>4, MutexAssumption DEF Ownership
  <2>2. Countable = depth - (IF pc[owner] \in Uncounted THEN 1 ELSE 0)
    BY <1>4 DEF Countable
  <2> QED
    BY <1>2, <1>4, <2>1, <2>2
<1> QED
  BY <1>1, <1>3, <1>4 DEF Types

\* The threads that have taken part of a meddling back are finitely many.
LEMMA DebtFacts ==
    /\ IsFiniteSet(Decrementing) /\ IsFiniteSet(Reverting)
    /\ Cardinality(Decrementing) \in Nat /\ Cardinality(Reverting) \in Nat
    /\ Cardinality(Decrementing) <= Cardinality(Reverting)
<1>1. Reverting \in SUBSET Threads /\ Decrementing \in SUBSET Reverting
  BY DEF Reverting, Decrementing
<1>2. IsFiniteSet(Reverting)
  BY <1>1, MutexAssumption, FS_Subset
<1> QED
  BY <1>1, <1>2, FS_Subset, FS_CardinalityType

\* A sum of products of natural numbers.
LEMMA DriftArithmetic ==
    ASSUME NEW M \in Nat, M > 0, NEW a \in Nat, NEW b \in Nat, NEW m \in Nat, a <= m, b <= m
    PROVE  /\ ((M - 1) * a) + ((M + 1) * b) \in Nat
           /\ ((M - 1) * a) + ((M + 1) * b) <= M * (2 * m)
           /\ ((M - 1) * (a + 1)) + ((M + 1) * b) = ((M - 1) * a) + ((M + 1) * b) + (M - 1)
           /\ ((M - 1) * a) + ((M + 1) * (b + 1)) = ((M - 1) * a) + ((M + 1) * b) + (M + 1)
<1>1. (M - 1) * a \in Nat /\ (M + 1) * b \in Nat
  OBVIOUS
<1>2. (M - 1) * a <= (M - 1) * m /\ (M + 1) * b <= (M + 1) * m
  OBVIOUS
<1>3. (M - 1) * m + (M + 1) * m = M * (2 * m)
  OBVIOUS
<1>4. (M - 1) * m \in Nat /\ (M + 1) * m \in Nat /\ M * (2 * m) \in Nat
  OBVIOUS
<1>5. (M - 1) * (a + 1) = ((M - 1) * a) + (M - 1)
  OBVIOUS
<1>6. (M + 1) * (b + 1) = ((M + 1) * b) + (M + 1)
  OBVIOUS
<1> QED
  BY <1>1, <1>2, <1>3, <1>4, <1>5, <1>6

\* The drift is a number, and each meddling Unlock() adds to it a bounded amount.
LEMMA DriftFacts ==
    MutexInv /\ CountBound => Drift \in Nat /\ Drift <= MaxDepth * (2 * meddled)
<1> SUFFICES ASSUME MutexInv, CountBound
             PROVE  Drift \in Nat /\ Drift <= MaxDepth * (2 * meddled)
  OBVIOUS
<1> DEFINE a == meddled - Cardinality(Decrementing)
           b == meddled - Cardinality(Reverting)
<1>1. meddled \in Nat /\ MaxDepth \in Nat /\ MaxDepth > 0
  BY MutexAssumption DEF MutexInv, Types
<1>2. a \in Nat /\ b \in Nat /\ a <= meddled /\ b <= meddled
  BY <1>1, DebtFacts DEF CountBound
<1>3. Drift = ((MaxDepth - 1) * a) + ((MaxDepth + 1) * b)
  BY DEF Drift
<1> HIDE DEF a, b
<1> QED
  BY <1>1, <1>2, <1>3, DriftArithmetic

\* A thread that does not come nearer to its store changes nothing.
LEMMA DebtSame ==
    ASSUME Types, NEW t \in Threads, NEW new, goto(t, new),
           \A u \in Threads \ {t} : held'[u] = held[u],
           t \in Decrementing <=> t \in Decrementing',
           t \in Reverting <=> t \in Reverting',
           UNCHANGED meddled
    PROVE  Reverting' = Reverting /\ Drift' = Drift
<1>1. ASSUME NEW u \in Threads, u # t
      PROVE  pc'[u] = pc[u] /\ held'[u] = held[u]
  BY <1>1 DEF Types, goto
<1>2. Reverting' = Reverting /\ Decrementing' = Decrementing
  BY <1>1 DEF Reverting, Decrementing
<1> QED
  BY <1>2 DEF Drift

\* What a step does to the threads that do not take it.
LEMMA BoundFrame ==
    ASSUME MutexInv, MutexInv', CountBound, NEW t \in Threads, NEW new, goto(t, new),
           \A u \in Threads \ {t} :
               /\ held'[u] = held[u]
               /\ reg'[u] = reg[u]
               /\ owner' = u <=> owner = u
               /\ owner = u => depth' = depth,
           Drift' \in Nat, Drift' >= Drift,
           lock_depth_' <= Countable' + Drift',
           new \in {"lock_store", "unlock_store", "revert_store"} =>
               reg'[t] <= (IF owner' = t THEN Countable' ELSE MaxDepth) + Drift',
           new \notin {"lock_store", "unlock_store", "revert_store"} => reg'[t] = 0,
           new \in {"revert_load", "revert_store"} => held'[t] = 0,
           Cardinality(Reverting)' <= meddled'
    PROVE  CountBound'
<1>1. Types /\ Types' /\ Drift \in Nat /\ MaxDepth \in Nat
  BY DriftFacts, MutexAssumption DEF MutexInv
<1> SUFFICES ASSUME NEW u \in Threads
             PROVE  /\ pc'[u] \in {"lock_store", "unlock_store", "revert_store"} =>
                          reg'[u] <= (IF owner' = u THEN Countable' ELSE MaxDepth) + Drift'
                    /\ pc'[u] \notin {"lock_store", "unlock_store", "revert_store"} => reg'[u] = 0
                    /\ pc'[u] \in {"revert_load", "revert_store"} => held'[u] = 0
  BY DEF CountBound
<1>2. CASE u = t
  BY <1>1, <1>2 DEF Types, goto
<1>3. CASE u # t
  <2>1. pc'[u] = pc[u] /\ reg'[u] = reg[u] /\ held'[u] = held[u]
    BY <1>1, <1>3 DEF Types, goto
  <2>2. ASSUME pc[u] \in {"lock_store", "unlock_store", "revert_store"}
        PROVE  reg[u] <= (IF owner' = u THEN Countable' ELSE MaxDepth) + Drift'
    <3>1. reg[u] <= (IF owner = u THEN Countable ELSE MaxDepth) + Drift /\ reg[u] \in Nat
      BY <1>1, <2>2 DEF CountBound, Types
    <3>2. CASE owner = u
      <4>1. owner' = u /\ depth' = depth /\ depth \in Int
        BY <1>1, <1>3, <3>2 DEF Types
      <4>2. Countable = depth - (IF pc[u] \in Uncounted THEN 1 ELSE 0)
        BY <3>2, CountableFacts DEF CountableByOwner
      <4>3. Countable' = Countable
        BY <2>1, <3>2, <4>1, <4>2 DEF Countable
      <4>4. Countable \in Int
        BY <4>1, <4>2
      <4> QED
        BY <1>1, <3>1, <3>2, <4>1, <4>3, <4>4
    <3>3. CASE owner # u
      BY <1>1, <1>3, <3>1, <3>3
    <3> QED
      BY <3>2, <3>3
  <2> QED
    BY <2>1, <2>2 DEF CountBound
<1> QED
  BY <1>2, <1>3

\* A step away from the count: a lock that waits or fails, and the destructor's call.
LEMMA QuietBound ==
    ASSUME MutexInv, MutexInv', CountBound, NEW t \in Threads, NEW new, goto(t, new),
           pc[t] \in {"idle", "lock_failed", "destruct"} \cup Waiting,
           new \in {"idle", "lock_failed", "destruct"} \cup Waiting,
           UNCHANGED <<meddled, owner, depth, lock_depth_, reg, held>>
    PROVE  CountBound'
<1>1. Types /\ CountableByOwner /\ Drift \in Nat
  BY CountableFacts, DriftFacts DEF MutexInv
<1>2. CountableByOwner'
  BY CountableFacts, PTL
<1>3. /\ pc[t] \notin Uncounted \cup {"lock_store", "unlock_store", "unlock_native", "revert_load",
                                      "revert_store"}
      /\ new \notin Uncounted \cup {"lock_store", "unlock_store", "unlock_native", "revert_load",
                                    "revert_store"}
      /\ pc'[t] = new
  BY <1>1 DEF Waiting, Uncounted, Types, goto
<1>4. Reverting' = Reverting /\ Drift' = Drift
  BY <1>1, <1>3, DebtSame DEF Reverting, Decrementing
<1>5. Countable' = Countable
  <2>1. ASSUME NEW u \in Threads
        PROVE  pc'[u] \in Uncounted <=> pc[u] \in Uncounted
    BY <1>1, <1>3 DEF Types, goto
  <2> QED
    BY <2>1 DEF Countable
<1>6. reg'[t] = 0 /\ Drift' \in Nat /\ Drift' >= Drift /\ Cardinality(Reverting)' <= meddled'
  BY <1>1, <1>3, <1>4 DEF CountBound
<1>7. lock_depth_' <= Countable' + Drift'
  BY <1>4, <1>5 DEF CountBound
<1> QED
  BY <1>3, <1>6, <1>7, BoundFrame

\* A native lock is not counted at once.
LEMMA AcquireBound ==
    ASSUME MutexInv, MutexInv', CountBound, NEW t \in Threads, pc[t] \in Waiting, Acquire(t),
           UNCHANGED <<meddled, lock_depth_, reg, held>>
    PROVE  CountBound'
<1>1. Types /\ Ownership /\ CountableByOwner /\ Drift \in Nat
  BY CountableFacts, DriftFacts DEF MutexInv
<1>2. CountableByOwner'
  BY CountableFacts, PTL
<1>3. /\ owner \in {NoThread, t} /\ owner' = t /\ depth' = depth + 1 /\ goto(t, "lock_load")
      /\ pc'[t] = "lock_load"
      /\ pc[t] \notin Uncounted \cup {"lock_store", "unlock_store", "unlock_native", "revert_load",
                                      "revert_store"}
  BY <1>1 DEF Acquire, Waiting, Uncounted, Types, goto
<1>4. Reverting' = Reverting /\ Drift' = Drift
  BY <1>1, <1>3, DebtSame DEF Reverting, Decrementing
<1>5. Countable' = Countable
  <2>1. depth \in Nat /\ (owner = NoThread => depth = 0)
    BY <1>1, MutexAssumption DEF Types, Ownership
  <2>2. Countable = depth
    BY <1>1, <1>3, <2>1 DEF CountableByOwner
  <2>3. Countable' = depth' - 1
    BY <1>2, <1>3 DEF CountableByOwner, Uncounted
  <2> QED
    BY <1>3, <2>1, <2>2, <2>3
<1>6. reg'[t] = 0 /\ Drift' \in Nat /\ Drift' >= Drift /\ Cardinality(Reverting)' <= meddled'
  BY <1>1, <1>3, <1>4 DEF CountBound
<1>7. lock_depth_' <= Countable' + Drift'
  BY <1>4, <1>5 DEF CountBound
<1>8. \A u \in Threads \ {t} : owner' # u /\ owner # u
  BY <1>3, MutexAssumption
<1> QED
  BY <1>3, <1>6, <1>7, <1>8, BoundFrame

\* "lock_depth_++"
LEMMA CountLockBound ==
    ASSUME MutexInv, MutexInv', CountBound, ~Aborted, NEW t \in Threads,
           LockLoad(t) \/ LockStore(t)
    PROVE  CountBound'
<1>1. Types /\ Ownership /\ CountableByOwner /\ Drift \in Nat /\ MaxDepth \in Nat
  BY CountableFacts, DriftFacts, MutexAssumption DEF MutexInv
<1>2. CountableByOwner'
  BY CountableFacts, PTL
<1>3. owner = t /\ depth \in Nat
  BY <1>1, MutexAssumption DEF Types, Ownership, Native, Locking, LockLoad, LockStore
<1>4. Countable = depth - 1
  BY <1>1, <1>3 DEF CountableByOwner, LockLoad, LockStore, Uncounted
<1>5. \A u \in Threads \ {t} : owner # u
  BY <1>3
<1>6. CASE LockLoad(t)
  <2>1. /\ pc[t] = "lock_load" /\ goto(t, "lock_store") /\ pc'[t] = "lock_store"
        /\ reg' = [reg EXCEPT ![t] = lock_depth_]
        /\ UNCHANGED <<meddled, owner, depth, lock_depth_, held>>
    BY <1>1, <1>6 DEF LockLoad, objVars, nativeVars, Types, goto
  <2>2. Reverting' = Reverting /\ Drift' = Drift
    BY <1>1, <2>1, DebtSame DEF Reverting, Decrementing
  <2>3. Countable' = Countable
    BY <1>2, <1>3, <1>4, <2>1 DEF CountableByOwner, Uncounted
  <2>4. lock_depth_' <= Countable' + Drift' /\ reg'[t] <= Countable' + Drift'
    BY <1>1, <2>1, <2>2, <2>3 DEF CountBound, Types
  <2>5. Drift' \in Nat /\ Drift' >= Drift /\ Cardinality(Reverting)' <= meddled'
    BY <1>1, <2>1, <2>2 DEF CountBound
  <2>6. \A u \in Threads \ {t} : reg'[u] = reg[u]
    BY <1>1, <2>1 DEF Types
  <2> QED
    BY <1>3, <2>1, <2>4, <2>5, <2>6, BoundFrame
<1>7. CASE LockStore(t)
  <2>1. /\ pc[t] = "lock_store" /\ goto(t, "idle") /\ pc'[t] = "idle"
        /\ lock_depth_' = IF phase = "constructing" THEN 1 ELSE reg[t] + 1
        /\ reg' = [reg EXCEPT ![t] = 0]
        /\ held' = [held EXCEPT ![t] = held[t] + 1]
        /\ UNCHANGED <<meddled, owner, depth>>
    BY <1>1, <1>7 DEF LockStore, nativeVars, Types, goto
  <2>2. \A u \in Threads \ {t} : reg'[u] = reg[u] /\ held'[u] = held[u]
    BY <1>1, <2>1 DEF Types
  <2>3. Reverting' = Reverting /\ Drift' = Drift
    BY <1>1, <2>1, <2>2, DebtSame DEF Reverting, Decrementing
  <2>4. Countable' = depth
    BY <1>2, <1>3, <2>1 DEF CountableByOwner, Uncounted
  <2>5. reg[t] <= Countable + Drift /\ reg[t] \in Nat /\ depth > 0 /\ depth \in Nat
    BY <1>1, <1>3, <2>1 DEF CountBound, Types, Ownership
  <2>6. lock_depth_' <= Countable' + Drift'
    BY <1>1, <1>4, <2>1, <2>3, <2>4, <2>5
  <2>7. /\ Drift' \in Nat /\ Drift' >= Drift /\ Cardinality(Reverting)' <= meddled'
        /\ reg'[t] = 0
    BY <1>1, <2>1, <2>3 DEF CountBound, Types
  <2> QED
    BY <1>3, <2>1, <2>2, <2>6, <2>7, BoundFrame
<1> QED
  BY <1>6, <1>7

\* A thread without the mutex does not change what its owner should have counted.
LEMMA OtherOwner ==
    ASSUME Types, NEW t \in Threads, NEW new, goto(t, new), owner # t, UNCHANGED <<owner, depth>>
    PROVE  Countable' = Countable
<1>1. ASSUME NEW u \in Threads
      PROVE  owner' = u /\ pc'[u] \in Uncounted <=> owner = u /\ pc[u] \in Uncounted
  BY DEF Types, goto
<1> QED
  BY <1>1 DEF Countable

\* A call of Unlock() without the lock begins: its two stores are owed.
LEMMA DebtMade ==
    ASSUME MutexInv, CountBound, NEW t \in Threads, goto(t, "unlock_store"), pc[t] = "idle",
           held[t] = 0, meddled' = meddled + 1, UNCHANGED held
    PROVE  Drift' = Drift /\ Cardinality(Reverting)' <= meddled'
<1>1. Types /\ meddled \in Nat
  BY MutexAssumption DEF MutexInv, Types
<1>2. t \notin Reverting /\ t \notin Decrementing
  BY DEF Reverting, Decrementing
<1>3. Reverting' = Reverting \cup {t} /\ Decrementing' = Decrementing \cup {t}
  BY <1>1 DEF Reverting, Decrementing, Types, goto
<1>4. /\ Cardinality(Reverting') = Cardinality(Reverting) + 1
      /\ Cardinality(Decrementing') = Cardinality(Decrementing) + 1
  BY <1>2, <1>3, DebtFacts, FS_AddElement
<1>5. /\ meddled' - Cardinality(Reverting') = meddled - Cardinality(Reverting)
      /\ meddled' - Cardinality(Decrementing') = meddled - Cardinality(Decrementing)
  BY <1>1, <1>4, DebtFacts
<1>6. Cardinality(Reverting') <= meddled'
  BY <1>1, <1>4, DebtFacts DEF CountBound
<1> QED
  BY <1>5, <1>6 DEF Drift

\* A store without the lock lifts the bound.
LEMMA DebtPaid ==
    ASSUME MutexInv, CountBound, NEW t \in Threads, held[t] = 0,
           UNCHANGED <<held, meddled>>,
           \/ pc[t] = "unlock_store" /\ goto(t, "unlock_native")
           \/ pc[t] = "revert_store" /\ goto(t, "idle")
    PROVE  /\ Drift' = Drift + (IF pc[t] = "unlock_store" THEN MaxDepth - 1 ELSE MaxDepth + 1)
           /\ Cardinality(Reverting)' <= meddled'
<1> DEFINE a == meddled - Cardinality(Decrementing)
           b == meddled - Cardinality(Reverting)
<1>1. Types /\ meddled \in Nat /\ MaxDepth \in Nat /\ MaxDepth > 0
  BY MutexAssumption DEF MutexInv, Types
<1>2. a \in Nat /\ b \in Nat /\ a <= meddled /\ b <= meddled
  BY <1>1, DebtFacts DEF CountBound
<1>3. Drift = ((MaxDepth - 1) * a) + ((MaxDepth + 1) * b)
  BY DEF Drift
<1>4. CASE pc[t] = "unlock_store"
  <2>1. t \in Decrementing /\ Reverting' = Reverting /\ Decrementing' = Decrementing \ {t}
    BY <1>1, <1>4 DEF Reverting, Decrementing, Types, goto
  <2>2. Cardinality(Decrementing') = Cardinality(Decrementing) - 1
    BY <2>1, DebtFacts, FS_RemoveElement
  <2>3. meddled' - Cardinality(Decrementing') = a + 1
    BY <1>1, <2>2, DebtFacts
  <2>4. Drift' = ((MaxDepth - 1) * (a + 1)) + ((MaxDepth + 1) * b)
    BY <2>1, <2>3 DEF Drift
  <2>5. Cardinality(Reverting)' <= meddled'
    BY <2>1 DEF CountBound
  <2> HIDE DEF a, b
  <2> QED
    BY <1>1, <1>2, <1>3, <1>4, <2>4, <2>5, DriftArithmetic
<1>5. CASE pc[t] = "revert_store"
  <2>1. t \in Reverting /\ Reverting' = Reverting \ {t} /\ Decrementing' = Decrementing
    BY <1>1, <1>5 DEF Reverting, Decrementing, Types, goto
  <2>2. Cardinality(Reverting') = Cardinality(Reverting) - 1
    BY <2>1, DebtFacts, FS_RemoveElement
  <2>3. meddled' - Cardinality(Reverting') = b + 1
    BY <1>1, <2>2, DebtFacts
  <2>4. Drift' = ((MaxDepth - 1) * a) + ((MaxDepth + 1) * (b + 1))
    BY <2>1, <2>3 DEF Drift
  <2>5. Cardinality(Reverting') <= meddled'
    BY <1>1, <2>2, DebtFacts DEF CountBound
  <2> HIDE DEF a, b
  <2> QED
    BY <1>1, <1>2, <1>3, <1>5, <2>4, <2>5, DriftArithmetic
<1> QED
  BY <1>4, <1>5

\* assert(lock_depth_ > 0), and the load of "lock_depth_--".
LEMMA UnlockLoadBound ==
    ASSUME MutexInv, MutexInv', CountBound, NEW t \in Threads, UnlockLoad(t), lock_depth_ > 0
    PROVE  CountBound'
<1>1. Types /\ Ownership /\ CountableByOwner /\ Drift \in Nat /\ MaxDepth \in Nat
  BY CountableFacts, DriftFacts, MutexAssumption DEF MutexInv
<1>2. /\ pc[t] = "idle" /\ goto(t, "unlock_store") /\ pc'[t] = "unlock_store"
      /\ meddled' = meddled + (IF held[t] = 0 THEN 1 ELSE 0)
      /\ reg' = [reg EXCEPT ![t] = lock_depth_]
      /\ UNCHANGED <<owner, depth, lock_depth_, held>>
  BY <1>1 DEF UnlockLoad, mayUnlock, nativeVars, Types, goto
<1>3. reg'[t] = lock_depth_ /\ \A u \in Threads \ {t} : reg'[u] = reg[u]
  BY <1>1, <1>2 DEF Types
<1>4. Countable' = Countable
  <2>1. ASSUME NEW u \in Threads
        PROVE  pc'[u] \in Uncounted <=> pc[u] \in Uncounted
    BY <1>1, <1>2 DEF Types, Uncounted, goto
  <2> QED
    BY <1>2, <2>1 DEF Countable
<1>5. /\ lock_depth_ <= Countable + Drift /\ lock_depth_ \in Nat
      /\ Countable \in 0 .. MaxDepth
      /\ Cardinality(Reverting) <= meddled
  BY <1>1 DEF CountBound, CountableByOwner, Types
<1>6. Drift' = Drift /\ Cardinality(Reverting)' <= meddled'
  <2>1. CASE held[t] = 0
    BY <1>2, <2>1, DebtMade
  <2>2. CASE held[t] # 0
    <3>1. meddled' = meddled
      BY <1>1, <1>2, <2>2 DEF Types
    <3>2. Reverting' = Reverting /\ Drift' = Drift
      BY <1>1, <1>2, <2>2, <3>1, DebtSame DEF Reverting, Decrementing
    <3> QED
      BY <1>5, <3>1, <3>2
  <2> QED
    BY <2>1, <2>2
<1>7. reg'[t] <= (IF owner' = t THEN Countable' ELSE MaxDepth) + Drift'
  BY <1>1, <1>3, <1>4, <1>5, <1>6
<1>8. lock_depth_' <= Countable' + Drift' /\ Drift' \in Nat /\ Drift' >= Drift
  BY <1>1, <1>2, <1>4, <1>5, <1>6
<1> QED
  BY <1>2, <1>3, <1>6, <1>7, <1>8, BoundFrame

\* The decrement, with or without the mutex.
LEMMA UnlockStoreBound ==
    ASSUME MutexInv, MutexInv', CountBound, NEW t \in Threads, UnlockStore(t)
    PROVE  CountBound'
<1>1. Types /\ Ownership /\ CountableByOwner /\ Drift \in Nat /\ MaxDepth \in Nat /\ MaxDepth > 0
  BY CountableFacts, DriftFacts, MutexAssumption DEF MutexInv
<1>2. CountableByOwner'
  BY CountableFacts, PTL
<1>3. /\ pc[t] = "unlock_store" /\ goto(t, "unlock_native") /\ pc'[t] = "unlock_native"
      /\ lock_depth_' = reg[t] - 1
      /\ reg' = [reg EXCEPT ![t] = 0]
      /\ UNCHANGED <<meddled, owner, depth, held>>
  BY <1>1 DEF UnlockStore, objVars, nativeVars, Types, goto
<1>4. reg'[t] = 0 /\ \A u \in Threads \ {t} : reg'[u] = reg[u]
  BY <1>1, <1>3 DEF Types
<1>5. /\ reg[t] \in Nat /\ held[t] \in Nat /\ depth \in Nat
      /\ reg[t] <= (IF owner = t THEN Countable ELSE MaxDepth) + Drift
  BY <1>1, <1>3, MutexAssumption DEF CountBound, Types
<1>6. CASE held[t] = 0
  <2>1. owner # t
    BY <1>1, <1>3, <1>6 DEF Ownership, Native, Locking
  <2>2. Drift' = Drift + (MaxDepth - 1) /\ Cardinality(Reverting)' <= meddled'
    BY <1>3, <1>6, DebtPaid
  <2>3. Countable' \in Nat
    BY <1>2, MutexAssumption DEF CountableByOwner
  <2>4. Drift' \in Nat /\ Drift' >= Drift
    BY <1>1, <2>2
  <2>5. lock_depth_' <= Countable' + Drift'
    <3>1. reg[t] - 1 <= Drift + (MaxDepth - 1)
      BY <1>1, <1>5, <2>1
    <3> QED
      BY <1>3, <1>5, <2>2, <2>3, <2>4, <3>1
  <2> QED
    BY <1>3, <1>4, <2>2, <2>4, <2>5, BoundFrame
<1>7. CASE held[t] # 0
  <2>1. owner = t
    BY <1>1, <1>3, <1>5, <1>7 DEF Ownership, Native, Locking
  <2>2. Reverting' = Reverting /\ Drift' = Drift
    BY <1>1, <1>3, <1>7, DebtSame DEF Reverting, Decrementing
  <2>3. Countable = depth /\ Countable' = depth - 1
    BY <1>1, <1>2, <1>3, <1>5, <2>1 DEF CountableByOwner, Uncounted
  <2>4. lock_depth_' <= Countable' + Drift'
    <3>1. reg[t] - 1 <= (depth - 1) + Drift
      BY <1>1, <1>5, <2>1, <2>3
    <3> QED
      BY <1>3, <2>2, <2>3, <3>1
  <2>5. Drift' \in Nat /\ Drift' >= Drift /\ Cardinality(Reverting)' <= meddled'
    BY <1>1, <1>3, <2>2 DEF CountBound
  <2> QED
    BY <1>3, <1>4, <2>1, <2>4, <2>5, BoundFrame
<1> QED
  BY <1>6, <1>7

\* The owner unlocks once, in Unlock() or in the destructor.
LEMMA ReleaseBound ==
    ASSUME MutexInv, MutexInv', CountBound, NEW t \in Threads, owner = t, Release,
           pc[t] \in {"unlock_native", "destruct"},
           held' = [held EXCEPT ![t] = held[t] - 1],
           NEW new \in {"idle", "destruct"}, goto(t, new),
           lock_depth_' = IF pc[t] = "destruct" THEN lock_depth_ - 1 ELSE lock_depth_,
           UNCHANGED <<meddled, reg>>
    PROVE  CountBound'
<1>1. Types /\ Ownership /\ CountableByOwner /\ Drift \in Nat /\ MaxDepth \in Nat
  BY CountableFacts, DriftFacts, MutexAssumption DEF MutexInv
<1>2. CountableByOwner' /\ Types'
  BY CountableFacts, PTL DEF MutexInv
<1>3. depth \in Nat /\ depth > 0 /\ held[t] > 0 /\ t # NoThread /\ pc'[t] = new
  BY <1>1, MutexAssumption DEF Types, Ownership, Native, Locking, goto
<1>4. depth' = depth - 1 /\ owner' = IF depth = 1 THEN NoThread ELSE t
  BY DEF Release
<1>5. \A u \in Threads \ {t} : owner' # u /\ owner # u /\ held'[u] = held[u]
  BY <1>1, <1>4, MutexAssumption DEF Types
<1>6. Reverting' = Reverting /\ Drift' = Drift
  <2>1. t \notin Reverting /\ t \notin Decrementing
    BY <1>3 DEF Reverting, Decrementing
  <2>2. t \notin Reverting' /\ t \notin Decrementing'
    BY <1>3 DEF Reverting, Decrementing
  <2> QED
    BY <1>1, <1>5, <2>1, <2>2, DebtSame
<1>7. Countable = depth - (IF pc[t] = "destruct" THEN 0 ELSE 1)
  BY <1>1 DEF CountableByOwner, Uncounted
<1>8. Countable' = depth - 1
  BY <1>2, <1>3, <1>4 DEF CountableByOwner, Uncounted
<1>9. lock_depth_' <= Countable' + Drift'
  <2>1. lock_depth_ \in Nat /\ lock_depth_ <= Countable + Drift
    BY <1>1 DEF Types, CountBound
  <2>2. CASE pc[t] = "destruct"
    <3>1. lock_depth_ - 1 <= (depth - 1) + Drift
      BY <1>1, <1>3, <1>7, <2>1, <2>2
    <3> QED
      BY <1>6, <1>8, <2>2, <3>1
  <2>3. CASE pc[t] = "unlock_native"
    BY <1>6, <1>7, <1>8, <2>1, <2>3
  <2> QED
    BY <2>2, <2>3
<1>10. /\ Drift' \in Nat /\ Drift' >= Drift /\ Cardinality(Reverting)' <= meddled'
       /\ reg'[t] = 0
  BY <1>1, <1>6 DEF CountBound
<1> QED
  BY <1>5, <1>9, <1>10, BoundFrame

\* The rest of a call of Unlock() without the lock.
LEMMA RevertBound ==
    ASSUME MutexInv, MutexInv', CountBound, NEW t \in Threads,
           (UnlockNative(t) /\ owner # t) \/ RevertLoad(t) \/ RevertStore(t)
    PROVE  CountBound'
<1>1. Types /\ Ownership /\ CountableByOwner /\ Drift \in Nat /\ MaxDepth \in Nat /\ MaxDepth > 0
  BY CountableFacts, DriftFacts, MutexAssumption DEF MutexInv
<1>2. /\ pc[t] \in {"unlock_native", "revert_load", "revert_store"}
      /\ owner # t /\ held[t] = 0
  <2>1. held[t] \in Nat
    BY <1>1 DEF Types
  <2>2. CASE UnlockNative(t) /\ owner # t
    BY <1>1, <2>1, <2>2 DEF UnlockNative, Ownership, Native, Locking
  <2>3. CASE RevertLoad(t) \/ RevertStore(t)
    BY <1>1, <2>1, <2>3 DEF RevertLoad, RevertStore, CountBound, Ownership, Native, Locking
  <2> QED
    BY <2>2, <2>3
<1>3. UNCHANGED <<meddled, owner, depth, held>>
  BY <1>2 DEF UnlockNative, RevertLoad, RevertStore, objVars, nativeVars
<1>4. /\ lock_depth_ \in Nat /\ lock_depth_ <= Countable + Drift
      /\ Countable \in 0 .. MaxDepth
  BY <1>1 DEF Types, CountBound, CountableByOwner
<1>5. CASE UnlockNative(t) \/ RevertLoad(t)
  <2> DEFINE new == IF pc[t] = "unlock_native" THEN "revert_load" ELSE "revert_store"
  <2>1. /\ goto(t, new) /\ UNCHANGED lock_depth_ /\ pc[t] \in {"unlock_native", "revert_load"}
        /\ reg' = IF pc[t] = "unlock_native" THEN reg ELSE [reg EXCEPT ![t] = lock_depth_]
    BY <1>1, <1>2, <1>5, UnlockRefused DEF UnlockNative, RevertLoad
  <2>2. new \in {"revert_load", "revert_store"} /\ (new = "revert_load" <=> pc[t] = "unlock_native")
    OBVIOUS
  <2> HIDE DEF new
  <2>3. pc'[t] = new
    BY <1>1, <2>1 DEF Types, goto
  <2>4. Reverting' = Reverting /\ Drift' = Drift
    BY <1>1, <1>2, <1>3, <2>1, <2>2, <2>3, DebtSame DEF Reverting, Decrementing
  <2>5. Countable' = Countable
    BY <1>1, <1>2, <1>3, <2>1, OtherOwner
  <2>6. /\ \A u \in Threads \ {t} : reg'[u] = reg[u]
        /\ new = "revert_load" => reg'[t] = 0
        /\ new = "revert_store" => reg'[t] = lock_depth_
    BY <1>1, <2>1, <2>2 DEF Types, CountBound
  <2>7. new = "revert_store" => reg'[t] <= MaxDepth + Drift'
    BY <1>1, <1>4, <2>4, <2>6
  <2>8. /\ lock_depth_' <= Countable' + Drift'
        /\ Drift' \in Nat /\ Drift' >= Drift /\ Cardinality(Reverting)' <= meddled'
    BY <1>1, <1>3, <1>4, <2>1, <2>4, <2>5 DEF CountBound
  <2> QED
    BY <1>2, <1>3, <2>1, <2>2, <2>6, <2>7, <2>8, BoundFrame
<1>6. CASE RevertStore(t)
  <2>1. /\ pc[t] = "revert_store" /\ goto(t, "idle")
        /\ lock_depth_' = reg[t] + 1
        /\ reg' = [reg EXCEPT ![t] = 0]
    BY <1>6 DEF RevertStore
  <2>2. Drift' = Drift + (MaxDepth + 1) /\ Cardinality(Reverting)' <= meddled'
    BY <1>2, <1>3, <2>1, DebtPaid
  <2>3. Countable' = Countable
    BY <1>1, <1>2, <1>3, <2>1, OtherOwner
  <2>4. reg[t] <= MaxDepth + Drift /\ reg[t] \in Nat
    BY <1>1, <1>2, <2>1 DEF CountBound, Types
  <2>5. Drift' \in Nat /\ Drift' >= Drift
    BY <1>1, <2>2
  <2>6. lock_depth_' <= Countable' + Drift'
    <3>1. reg[t] + 1 <= Countable + (Drift + (MaxDepth + 1))
      BY <1>1, <1>4, <2>4
    <3> QED
      BY <2>1, <2>2, <2>3, <3>1
  <2>7. reg'[t] = 0 /\ \A u \in Threads \ {t} : reg'[u] = reg[u]
    BY <1>1, <2>1 DEF Types
  <2> QED
    BY <1>3, <2>1, <2>2, <2>5, <2>6, <2>7, BoundFrame
<1> QED
  BY <1>5, <1>6

\* A step that is none of a thread's, or that aborts the program in Unlock().
LEMMA StillBound ==
    ASSUME MutexInv, CountBound, meddled' \in {meddled, meddled + 1},
           UNCHANGED <<owner, depth, lock_depth_, pc, reg, held>>
    PROVE  CountBound'
<1> DEFINE a == meddled - Cardinality(Decrementing)
           b == meddled - Cardinality(Reverting)
<1>1. /\ Types /\ CountableByOwner /\ Drift \in Nat
      /\ meddled \in Nat /\ MaxDepth \in Nat /\ MaxDepth > 0
  BY CountableFacts, DriftFacts, MutexAssumption DEF MutexInv, Types
<1>2. a \in Nat /\ b \in Nat /\ a <= meddled /\ b <= meddled
  BY <1>1, DebtFacts DEF CountBound
<1>3. Reverting' = Reverting /\ Decrementing' = Decrementing /\ Countable' = Countable
  BY DEF Reverting, Decrementing, Countable
<1>4. Cardinality(Reverting)' <= meddled'
  BY <1>1, <1>3, DebtFacts DEF CountBound
<1>5. Drift' \in Nat /\ Drift' >= Drift
  <2>1. CASE meddled' = meddled
    BY <1>1, <1>3, <2>1 DEF Drift
  <2>2. CASE meddled' = meddled + 1
    <3>1. /\ meddled' - Cardinality(Decrementing') = a + 1
          /\ meddled' - Cardinality(Reverting') = b + 1
      BY <1>1, <1>3, <2>2, DebtFacts
    <3>2. Drift' = ((MaxDepth - 1) * (a + 1)) + ((MaxDepth + 1) * (b + 1))
      BY <3>1 DEF Drift
    <3>3. Drift = ((MaxDepth - 1) * a) + ((MaxDepth + 1) * b)
      BY DEF Drift
    <3> HIDE DEF a, b
    <3>4. ((MaxDepth - 1) * (a + 1)) + ((MaxDepth + 1) * (b + 1))
            = ((MaxDepth - 1) * a) + ((MaxDepth + 1) * (b + 1)) + (MaxDepth - 1)
      BY <1>1, <1>2, DriftArithmetic
    <3>5. ((MaxDepth - 1) * a) + ((MaxDepth + 1) * (b + 1))
            = ((MaxDepth - 1) * a) + ((MaxDepth + 1) * b) + (MaxDepth + 1)
      BY <1>1, <1>2, DriftArithmetic
    <3>6. Drift' = Drift + (MaxDepth + 1) + (MaxDepth - 1)
      BY <3>2, <3>3, <3>4, <3>5
    <3> QED
      BY <1>1, <3>6
  <2> QED
    BY <2>1, <2>2
<1>6. ASSUME NEW c \in Nat, NEW n \in Nat, n <= c + Drift
      PROVE  n <= c + Drift'
  <2> DEFINE d == Drift'
  <2>1. d \in Nat /\ d >= Drift
    BY <1>5
  <2> HIDE DEF d
  <2>2. n <= c + d
    BY <1>1, <1>6, <2>1
  <2> QED
    BY <2>2 DEF d
<1>7. Countable \in Nat /\ lock_depth_ \in Nat /\ \A t \in Threads : reg[t] \in Nat
  BY <1>1 DEF CountableByOwner, Types
<1>8. lock_depth_ <= Countable + Drift'
  BY <1>6, <1>7 DEF CountBound
<1>9. ASSUME NEW t \in Threads, pc[t] \in {"lock_store", "unlock_store", "revert_store"}
      PROVE  reg[t] <= (IF owner = t THEN Countable ELSE MaxDepth) + Drift'
  <2>1. reg[t] <= (IF owner = t THEN Countable ELSE MaxDepth) + Drift
    BY <1>9 DEF CountBound
  <2>2. (IF owner = t THEN Countable ELSE MaxDepth) \in Nat
    BY <1>1, <1>7
  <2> QED
    BY <1>6, <1>7, <2>1, <2>2
<1> QED
  BY <1>3, <1>4, <1>8, <1>9 DEF CountBound

\* Nobody has stored anything yet.
LEMMA BoundInit == Init => CountBound
<1> SUFFICES ASSUME Init
             PROVE  CountBound
  OBVIOUS
<1>1. Reverting = {} /\ Decrementing = {}
  BY DEF Init, Reverting, Decrementing
<1>2. Cardinality(Reverting) = 0 /\ Cardinality(Decrementing) = 0
  BY <1>1, FS_EmptySet
<1>3. Drift = ((MaxDepth - 1) * 0) + ((MaxDepth + 1) * 0)
  BY <1>2 DEF Drift, Init
<1>4. Drift = 0
  BY <1>3, MutexAssumption
<1>5. Countable = 0 - 0
  BY MutexAssumption DEF Countable, Init
<1> QED
  BY <1>2, <1>4, <1>5 DEF CountBound, Init

\* The steps of a lock.
LEMMA LockBound ==
    ASSUME MutexInv, MutexInv', CountBound, ~Aborted, NEW t \in Threads,
           \/ LockForever(t) \/ LockClock(t) \/ LockAdd(t) \/ LockTimed(t) \/ LockKernel(t)
           \/ LockBlocked(t) \/ LockFailed(t)
    PROVE  CountBound'
<1>1. /\ pc[t] \in {"lock_failed"} \cup Waiting
      /\ UNCHANGED <<meddled, lock_depth_, reg, held>>
  BY DEF LockForever, LockClock, LockAdd, LockTimed, LockKernel, LockBlocked, LockFailed, Waiting,
         objVars
<1>2. CASE Acquire(t) /\ pc[t] \in Waiting
  BY <1>1, <1>2, AcquireBound
<1>3. ASSUME NEW new \in {"idle", "lock_failed"} \cup Waiting, goto(t, new), UNCHANGED nativeVars
      PROVE  CountBound'
  BY <1>1, <1>3, QuietBound DEF nativeVars
<1>4. CASE LockForever(t)
  BY <1>2, <1>4 DEF LockForever, Waiting
<1>5. CASE LockClock(t) \/ LockAdd(t) \/ LockFailed(t)
  BY <1>3, <1>5 DEF LockClock, LockAdd, LockFailed, Waiting
<1>6. CASE LockTimed(t) \/ LockKernel(t)
  BY <1>2, <1>3, <1>6 DEF LockTimed, LockKernel, Fail, Waiting
<1>7. CASE LockBlocked(t)
  <2>1. CASE UNCHANGED <<nativeVars, pc>>
    <3>1. goto(t, pc[t]) /\ pc[t] \in Waiting
      BY <1>7, <2>1 DEF LockBlocked, MutexInv, Types, Waiting, goto
    <3> QED
      BY <1>3, <2>1, <3>1
  <2> QED
    BY <1>2, <1>3, <1>7, <2>1 DEF LockBlocked, Fail, Waiting
<1> QED
  BY <1>4, <1>5, <1>6, <1>7

\* Every step preserves the bound.
LEMMA BoundStepInv == MutexInv /\ MutexInv' /\ CountBound /\ [Next]_vars => CountBound'
<1> SUFFICES ASSUME MutexInv, MutexInv', CountBound, [Next]_vars
             PROVE  CountBound'
  OBVIOUS
<1>1. Types
  BY DEF MutexInv
<1>2. CASE UNCHANGED vars \/ Tick \/ ConstructFails
  BY <1>2, StillBound DEF vars, objVars, nativeVars, Tick, ConstructFails
<1>3. ASSUME NEW t \in Threads, Step(t)
      PROVE  CountBound'
  <2>1. CASE UnlockNative(t) /\ owner = t
    BY <2>1, ReleaseBound DEF UnlockNative, objVars
  <2> QED
    BY <1>3, <2>1, LockBound, CountLockBound, UnlockStoreBound, RevertBound DEF Step
<1>4. ASSUME NEW t \in Threads, UnlockLoad(t)
      PROVE  CountBound'
  <2>1. CASE lock_depth_ > 0
    BY <1>4, <2>1, UnlockLoadBound
  <2>2. CASE ~(lock_depth_ > 0)
    <3>1. meddled' \in {meddled, meddled + 1}
      BY <1>1, <1>4 DEF UnlockLoad, mayUnlock, Types
    <3> QED
      BY <1>4, <2>2, <3>1, StillBound DEF UnlockLoad, nativeVars
  <2> QED
    BY <2>1, <2>2
<1>5. ASSUME NEW t \in Threads, Destruct(t)
      PROVE  CountBound'
  BY <1>5, QuietBound DEF Destruct, nativeVars
<1>6. ASSUME NEW t \in Threads, DestructLoop(t)
      PROVE  CountBound'
  <2>1. pc[t] = "destruct" /\ UNCHANGED <<meddled, pc, reg>> /\ goto(t, "destruct")
    BY <1>1, <1>6 DEF DestructLoop, Types, goto
  <2>2. CASE lock_depth_ > 0 /\ owner = t
    BY <1>1, <1>6, <2>1, <2>2, ReleaseBound DEF DestructLoop, Types
  <2>3. CASE ~(lock_depth_ > 0 /\ owner = t)
    BY <1>6, <2>1, <2>3, StillBound DEF DestructLoop, nativeVars
  <2> QED
    BY <2>2, <2>3
<1>7. ASSUME NEW t \in Threads, NEW timeout \in Timeouts \cup {Forever},
             Enter(t, timeout, waiting(timeout))
      PROVE  CountBound'
  <2>1. waiting(timeout) \in Waiting
    BY <1>1, WaitingLabel DEF Waiting
  <2> QED
    BY <1>7, <2>1, QuietBound DEF Enter, nativeVars
<1>8. ASSUME NEW t \in Threads, Construct(t)
      PROVE  CountBound'
  <2>1. CASE phase' = "alive"
    BY <1>8, <2>1, StillBound DEF Construct, nativeVars
  <2> QED
    BY <1>7, <1>8, <2>1 DEF Construct
<1> QED
  BY <1>2, <1>3, <1>4, <1>5, <1>6, <1>7, <1>8 DEF Next, Terminated, LockCall

-----------------------------------------------------------------------------
(***************************************************************************)
(* Results.                                                                *)
(***************************************************************************)

\* A thread that has locked the mutex of OsMutex keeps it until it has unlocked it
\* as often, whatever the others call in between.
THEOREM MutexHolderKeepsMutex == Spec => []HolderKeepsMutex
<1>1. MutexInv => HolderKeepsMutex
  <2> SUFFICES ASSUME MutexInv, NEW t \in Threads, held[t] > 0
               PROVE  owner = t /\ depth >= held[t]
    BY DEF HolderKeepsMutex
  <2>1. held[t] \in Nat
    BY DEF MutexInv, Types
  <2> QED
    BY <2>1 DEF MutexInv, Ownership, Native
<1> QED
  BY <1>1, MutexInvariant, PTL

\* lock_depth_ of OsMutex is an unprotected variable, yet no update is lost as long as
\* Unlock() is called with the lock only.
THEOREM MutexDepthMatches == Spec => []DepthMatches
<1>1. MutexInv => DepthMatches
  <2> SUFFICES ASSUME MutexInv, meddled = 0
               PROVE  DepthMatches
    BY DEF DepthMatches
  <2>1. Types /\ Ownership /\ OwnerCounts
    BY DEF MutexInv
  <2>2. ASSUME NEW t \in Threads, pc[t] \in Uncounted
        PROVE  owner = t
    <3>1. held[t] \in Nat /\ (pc[t] = "unlock_native" => held[t] > 0)
      BY <2>1 DEF Types, OwnerCounts
    <3> QED
      BY <2>1, <2>2, <3>1 DEF Ownership, Native, Locking, Uncounted
  <2>3. CASE owner = NoThread
    <3>1. ~ \E t \in Threads : pc[t] \in Uncounted
      BY <2>2, <2>3, MutexAssumption
    <3> QED
      BY <2>1, <2>3, <3>1 DEF Ownership, OwnerCounts, DepthMatches, Uncounted
  <2>4. CASE owner \in Threads
    <3>1. (\E t \in Threads : pc[t] \in Uncounted) <=> pc[owner] \in Uncounted
      BY <2>2, <2>4
    <3>2. depth = lock_depth_ + (IF pc[owner] \in Uncounted THEN 1 ELSE 0)
      BY <2>1, <2>4 DEF OwnerCounts
    <3> QED
      BY <3>1, <3>2 DEF DepthMatches, Uncounted
  <2> QED
    BY <2>1, <2>3, <2>4 DEF Types
<1> QED
  BY <1>1, MutexInvariant, PTL

\* The assertions of Unlock(), of the constructor and of the destructor of OsMutex
\* fail only when somebody unlocks or destroys what another thread holds.
THEOREM MutexAbortMeansMisuse == Spec => []AbortMeansMisuse
<1>1. MutexInv => AbortMeansMisuse
  BY DEF MutexInv, Phases
<1> QED
  BY <1>1, MutexInvariant, PTL

\* The variables of OsMutex have their types, and lock_depth_ is off by no more than
\* twice the recursion depth for each call of Unlock() without the lock.
THEOREM MutexTypeOK == Spec => []TypeOK
<1>1. MutexInv /\ CountBound => TypeOK
  <2> SUFFICES ASSUME MutexInv, CountBound
               PROVE  TypeOK
    OBVIOUS
  <2>1. Types /\ CountableByOwner
    BY CountableFacts DEF MutexInv
  <2>2. Drift \in Nat /\ Drift <= MaxDepth * (2 * meddled)
    BY DriftFacts
  <2>3. meddled \in Nat /\ meddled <= MaxMeddled /\ MaxMeddled \in Nat /\ MaxDepth \in Nat
    BY <2>1, MutexAssumption DEF Types
  <2>4. /\ MaxDepth * (2 * meddled) <= MaxDepth * (2 * MaxMeddled)
        /\ MaxCount = MaxDepth + (MaxDepth * (2 * MaxMeddled))
        /\ MaxDepth * (2 * MaxMeddled) \in Nat
        /\ MaxDepth * (2 * meddled) \in Nat
    BY <2>3 DEF MaxCount
  <2>5. MaxDepth + Drift <= MaxCount /\ MaxCount \in Nat
    BY <2>2, <2>3, <2>4
  <2>6. Countable \in 0 .. MaxDepth
    BY <2>1 DEF CountableByOwner
  <2>7. lock_depth_ \in 0 .. MaxCount
    <3>1. lock_depth_ \in Nat /\ lock_depth_ <= Countable + Drift
      BY <2>1 DEF Types, CountBound
    <3> QED
      BY <2>2, <2>3, <2>5, <2>6, <3>1
  <2>8. reg \in [Threads -> 0 .. MaxCount]
    <3>1. ASSUME NEW t \in Threads
          PROVE  reg[t] \in 0 .. MaxCount
      <4>1. reg[t] \in Nat
        BY <2>1 DEF Types
      <4>2. \/ reg[t] = 0
            \/ reg[t] <= Countable + Drift
            \/ reg[t] <= MaxDepth + Drift
        BY DEF CountBound
      <4> QED
        BY <2>2, <2>3, <2>5, <2>6, <4>1, <4>2
    <3> QED
      BY <2>1, <3>1 DEF Types
  <2> QED
    BY <2>1, <2>7, <2>8 DEF Types, TypeOK, Labels
<1> QED
  BY <1>1, MutexInitInv, MutexStepInv, BoundInit, BoundStepInv, PTL DEF Spec
=============================================================================
