# poski in TLA+

poski is a portable operating-system layer: one C interface
(`include/poski/osal/*.h`) for tasks, queues, timers, mutexes, semaphores and
time, C++ classes around it (`include/poski/Os*.h`), and ports to POSIX,
FreeRTOS, Zephyr and RT-Thread (`targets/*`).  This directory holds TLA+ models
of its concurrent parts, the TLC configurations that check them on small
instances, and TLAPS proofs of the results that matter most.

Every definition is a translation of code; `PROJECT.json` ("map") gives the lines.

## 1. The system

| Component | State | Operations | Interacts with | What makes it correct |
|---|---|---|---|---|
| `OsRing` (`include/poski/OsRing.h`) | buffer, two free-running `uint16_t` indices | constructor, `push_back`, `pop_front`, `front`, `size`, `empty`, `full` | storage of the POSIX queue; no lock of its own | bounded FIFO at every position of the indices |
| POSIX queue (`targets/posix/RingPthread.h`, `os_queue.cc`, `OsQueue.h`) | a ring, a recursive pthread mutex, a condition variable, `sig_cb`/`sig_arg` | init, put, get, is_empty, set_signal_cb, deinit | any number of producers and consumers; the callback runs in the producer's thread, outside of the mutex | linearizable; a sleeping consumer and a message do not stay side by side; each push is followed by a callback |
| POSIX tasks (`targets/posix/os_task.c`, `OsTask.h`) | pthread, `s_task_count`, `inited_` | init, remove (cancel), count, sleep | cancels threads that may be inside of a queue | a task that is removed takes no lock with it, but in one case; the count covers what runs |
| Queues of FreeRTOS, Zephyr, RT-Thread (`targets/*/os_queue.c`) | a queue of the kernel, in Zephyr `sig_cb`/`sig_arg` | init, put, get, is_empty, set_signal_cb, deinit | tasks that end or are removed, interrupt handlers | the same abstract queue as on POSIX |
| Timers (`targets/*/os_timer.c`, `OsTimer.h`) | a timer of the kernel; `tm_active`, `tm_ticks` on POSIX; a dispatch source on Apple | init, start, start_ms, stop, is_active, get_ticks, remaining_ticks, callback | callback threads (SIGEV_THREAD) without a lock; the FreeRTOS timer task and its command queue | one call for one start, not too early; a timer that has fired is inactive; nobody waits forever |
| Mutex (`targets/*/os_mutex.c`, `OsMutex.h`) | a recursive native mutex, `lock_depth_`, on POSIX the deadline `mu->wait` | constructor, destructor, lock, unlock | all callers share `mu->wait` and `lock_depth_` | recursive exclusion, exact count, honest timeouts |
| Semaphore (`targets/*/os_sem.c`, `OsSemaphore.h`) | a native semaphore, atomic `take_depth_` | constructor, destructor, take, give | any number of takers and givers, interrupt handlers, signals | tokens conserved, honest timeouts |
| Zephyr tasks (`targets/zephyr/os_task.c`, `OsTask.h`) | table of static stacks, `s_stack_used`, thread, `inited_` | init, remove | any thread may start a task; no lock on the table | a stack for every task and no stack lost |
| Tasks of FreeRTOS and RT-Thread (`targets/*/os_task.c`) | a task of the kernel | init, remove (RT-Thread), sleep | the queue they use | others are not affected by a removal |
| Time (`targets/*/os_time.c`, `os_port.h`, `OsTime.h`) | none | clock, conversions | all sleeps and timers; on Apple the calendar, which may be set | no more than a unit is lost, within a known range |

Hard behaviours: threads that interleave in the queue, the timer and the stack
table; a task cancelled in the middle of a call; a callback that comes late;
timeouts against late tokens; deadlines shared between callers; a queue (of
messages, of timer commands) or a semaphore at its limit; results of calls from interrupts
that are dropped; indices, clocks and `tv_nsec` at the end of their range.
`PROJECT.json` ("hazards") lists them, each at its line and with the properties
that would catch it.

## 2. Modules

| Module | Role |
|---|---|
| `BoundedFifo` | abstract: a bounded FIFO queue |
| `MessageQueue` | abstract: a linearizable bounded queue; calls are invoked, take effect at one moment, and return |
| `OsRing` | the ring, and a single client that may run into its assertions |
| `PosixQueue` | EXTENDS `OsRing`: threads, mutex, condition variable, callback; refines `BoundedFifo` and `MessageQueue` |
| `PosixTask` | EXTENDS `PosixQueue`: its threads are tasks, started and cancelled by managers |
| `KernelQueue` | the queues and tasks of FreeRTOS, Zephyr and RT-Thread; refines `MessageQueue` |
| `PosixTimedWait` | deadlines and error codes of the POSIX port, and how long kernels wait that are given a timeout |
| `OsMutex`, `OsSemaphore` | EXTEND `PosixTimedWait`: the C++ classes with the C functions of every port |
| `ZephyrTask` | `OsTask` on the Zephyr stack table |
| `PosixTimer` | the Linux timer: how starts, stops and callback threads interleave |
| `FreeRtosTimer` | the FreeRTOS timer: how tasks, interrupts and the timer task interleave |
| `OsTime`, `OsTimer` | clock, conversions, sleeps and timers of every port against real time |
| `PosixQueueProofs` | lemmas and theorems about `OsRing`, `PosixQueue` and `PosixTask`, which extend each other |
| `KernelQueueProofs`, `OsMutexProofs`, `OsSemaphoreProofs`, `PosixTimerProofs`, `ZephyrTaskProofs`, `FreeRtosTimerProofs`, `OsTimerProofs` | lemmas and theorems about the module in the name (`OsTimerProofs`: `OsTime` too) |
| `MC*` | constants for TLC |

Modules for several ports have a variable `port` that never changes.  Where the
ports differ there is one operator for each (`pos_sem_give_zephyr`,
`ms_to_ticks_freertos`, ...) and one that chooses; control that they share is written once.

How they correspond to the code:

* **OsRing.** `buffer`, `readIndex`, `writeIndex` are the members of the class.
  `IndexRange` stands for 2^16, and `inc` and `size` are computed modulo it, as the
  assignments to `uint16_t` do.  The constructor demands a power of two; the model
  assumes only what follows from it, that the capacity divides the range.  The
  Makefile and the Bazel files keep assertions on, so a failed `assert` sets `alive`
  to FALSE and ends everything.  Memory from `new` is not initialised: `Init` allows
  any contents.
* **PosixQueue.** A label for each point at which another thread can see a
  difference: lock, push, signal, unlock, test of `sig_cb`, call; lock, loop head, wait,
  wake-up, copy, pop, unlock.  `condv` is the set of threads that wait and were not
  unblocked.  `pthread_cond_wait` may wake up spuriously.  `sig_cb` is read twice
  without a lock; a build without optimisation may read it again before the call,
  so that a callback cleared in between is a call of NULL, which ends the process.
  `due` is a history variable for `SignalFollowsPush`.  The timeout is a flag, as it is
  in the code.
* **PosixTask.** `pos_task_remove` is `pthread_cancel`: a cancelled task lives on to its next
  cancellation point.  In the queue the only one is `pthread_cond_wait`, which locks the
  mutex before the task dies (`DieWaiting`) and for which no clean-up handler is
  installed; the application may have others around the queue and in the callback
  (`DieOutside`).  The task runs before it is counted, and `s_task_count += 1` is a load and a
  store.  A removed task object is not started again.
* **KernelQueue.** A call of the kernel takes effect at once or waits.  The ports differ in
  a full queue (FreeRTOS waits, or asserts in an interrupt handler; Zephyr and RT-Thread
  return POS_ERROR), a get that gives up (FreeRTOS returns POS_OK), a queue that could not be
  created (FreeRTOS does not notice).  In Zephyr the callback and its argument are two fields;
  `overlap` is a history variable: whether `pos_queue_set_signal_cb` came between
  the test and the call of a put.  The refinement mapping (`Seen`) looks at whether a get brought a message,
  and not at its result, because FreeRTOS returns POS_OK for both; `GetOkHasMessage` (section 3)
  is about the result.
* **PosixTimer.** Nothing is locked, so each assignment and system call is a step.
  A start has a number, which stands for its expiry time in `tm_ticks` and in
  the kernel (`armed`).  `Expire` hands the callback to a thread from `Notifiers`; from
  then on neither stop nor start can call it back.  `start_ms` differs by a
  conversion only.  `solo` is a history variable: whether clients have left the timer to its
  callback since the first start.
* **OsMutex, OsSemaphore.** The life of an object from its constructor, with or without a
  lock or take, to its destructor, which only a quiet object meets.  `phase` says how far it is, or which
  assertion has stopped the program.  A clock advances on its own.  A second has `TicksPerSec`
  ticks, and `tv_nsec` is counted in them, so that a carry which is missing shows after a few
  ticks.  The POSIX mutex computes its deadline in the shared `mu->wait` in two steps; the
  semaphore in a local variable.  `pthread_mutex_timedlock` is given a pointer to `mu->wait`, and a thread that
  is woken up without getting the mutex may look at it again (`LockBlocked`).  The kernels count their own ticks,
  `KernelHz` of them in a second: Zephyr converts milliseconds (`K_MSEC`), FreeRTOS and RT-Thread are given the number of
  milliseconds as a number of ticks (`kernelDeadline`).  The clock of the POSIX deadlines, CLOCK_REALTIME, is taken not to be set.
  `lock_depth_++` is a load and a store; `take_depth_` is
  atomic.  `Unlock()` is also called by threads that do not hold the mutex (`meddled` counts
  them).  A POSIX take may be interrupted by a signal handler.  glibc checks the deadline of
  `sem_timedwait` also when a token is there, POSIX leaves it open: both outcomes are in the
  model.  `lost` counts the gives that Zephyr drops.
* **ZephyrTask.** One step for each round of the search, the claim, the
  creation, the abort and the release.  A task object is in the hands of one caller at
  a time.
* **FreeRtosTimer.** `cmdq` is the kernel's command queue.  Tasks wait for room in it
  (`portMAX_DELAY`), interrupts do not and lose what does not fit.  `system` never
  changes and says whether interrupt handlers start the timer, and
  whether the timer task has priority over all callers, as `FreeRTOSConfig.h`
  (`configTIMER_TASK_PRIORITY`) gives it in the POSIX configuration of the port; other
  configurations belong to the application.  Only a timer task that preempts every caller (`Ordered`) has
  executed all commands when it looks at the timers; elsewhere a timer may expire before commands that are queued.  The timer task (`Command`, and that
  a one-shot timer is dormant when it calls back) is external and modelled from the way the port uses it.
* **OsTime, OsTimer.** Real time in nanoseconds, a second of `NsPerSec` of them.  What a port
  computes in `pos_time_t` is computed modulo `TimeRange` (2^32; Apple has 64 bits and no limit), except
  for the doubles of the POSIX port, whose conversion out of range is undefined: builds that wrap
  and builds that saturate are both in the instance.  `system` never changes: the port, its
  ticks per second, that choice, and the time at which the program starts.  The Apple port reads
  CALENDAR_CLOCK: `calendar` is by how much it is ahead of the time since boot, and `NewCalendar` sets it.
  The calls of one task are made of the steps that time can pass between, as in the code: on POSIX
  the read of the clock, the flag and `timer_settime` (`Start`, `StartActive`, `StartArm`), on Apple
  `dispatch_source_set_timer`, `dispatch_resume` and the flag (`StartArm`, `StartResume`, `StartActive`), on FreeRTOS
  three commands (`Start`, `StartSend`) that the timer task executes in its own time (`Command`), on RT-Thread
  `rt_timer_control` and `rt_timer_start`.  `Expire` only begins a callback, which clears the flag,
  cancels the source or queues a stop (`CbClear`, `CbCancel`, `CbStop`) and calls back (`CbCall`) after any delay,
  beside further starts and stops.  Starts have numbers: `armed` is the one that the kernel's timer
  runs for, `cb[s]` the callback of start `s`, `asked[s]` (history) what it asked for and when, and
  `due` (history) the last start while it is neither stopped nor called back.  Kernels count ticks from the one that
  is running; sleepers and timers are noticed up to `MaxLate` late.  `rt_timer_control` is taken to return what the port
  takes it for, the remaining time.  The deadline of a POSIX timer is relative, so that setting CLOCK_REALTIME does not move it.

## 3. Runs

Passing runs:

| Run | Instance | Shows |
|---|---|---|
| `queue` | a producer that also polls, a consumer that also produces, a consumer that also sets the callback; 2 messages, 2 slots, index range 4, get with and without waiting | linearizability (`QueueImplementsMessageQueue`), overflow included; `NoLostWakeup`, `CopyIsFront`, `SignalFollowsPush`; the ring is a bounded FIFO (`RingImplementsFifo`) |
| `tasks` | a producer and a consumer that are tasks, a consumer that stays, one manager; fair | the mutex dies only with a task cancelled in its wait (`OrphanedOnlyByWaiter`); otherwise `WaiterServedUnlessOrphaned`, `CallsReturnUnlessOrphaned`; `CountCoversRunning` |
| `kqueue` | 3 ports, 2 tasks of which one produces, an interrupt handler, 2 slots; fair | `KernelQueueImplementsMessageQueue`, `BoundedCallsReturn`, `CallbackOwnArgument` |
| `timer` | 2 clients that start and stop, 2 callback threads that may restart, 4 starts, durations 0 and 1; fair | `ActiveHasCause`, `OneShot`, `ActiveEnds`; `RunningIsActive` while no client has interfered (`solo`) |
| `mutex` | 5 ports, 2 threads, a kernel tick of 2 milliseconds, depth 2, an unlock without the lock, timeouts 0 and 3 with 2 ticks to a second; fair | `DepthMatches`, `HolderKeepsMutex`, `AbortMeansMisuse`, `TimedLockReturns` |
| `sem` | 5 ports, 2 takers, one of which gives, and a giver; a kernel tick of 2 milliseconds; 1 token, maximum 2; fair | `TokensConserved`, `TakeTimeoutNotEarly`, `AbortMeansOvergiven`, `TimedTakeReturns` |
| `ztask` | a caller, 4 tasks, 3 stacks | `StackExclusive`, `NoMemoryMeansFull`, `NoStackLeak` |
| `ftimer` | 2 tasks that start and stop, a callback that restarts, all four kinds of system, queue of 4; fair | `AtMostTwice`; `DaemonNeverBlocks` and `StartFires` where all callers are tasks that the timer task preempts (`Ordered`) |
| `ktimer` | 5 ports, kernels with fewer and (Zephyr) with more ticks than milliseconds, clocks that start at 0 and shortly before they wrap, a POSIX clock that saturates, a calendar at two offsets, 2 calls (sleeps, starts, stops, settings of the calendar) of 3 durations, a signal; fair | `SleepNotEarly`, `CallbackNotEarly`, `StartFires`, `FiredIsInactive`, `RemainingNeverOverstates`, `MsClockFollowsClock` |

Runs that show a disagreement of the code with a header or the README
(`PROJECT.json`, "findings"):

| Run | Shows |
|---|---|
| `queue_timeout` | a get with a finite timeout on an empty queue never returns |
| `mutex_early` | a second caller overwrites the deadline in `mu->wait`; the first one times out early |
| `ztask_race` | two callers find the same free stack, and two tasks run on it |

**Claims that a port does not keep.**  The headers, the tests and the README of the repository say more of
some ports than their code does.  The properties of the passing runs are stated so that they hold beside these
cases, each with its condition in sight; the claims themselves are properties too, with a configuration
in which TLC finds the counterexample (`tlc -config MCOsTimerWrap.cfg MCOsTimer`, and so on):

| Configuration | Property | Claim | What the code does |
|---|---|---|---|
| `MCPosixTimerLate.cfg` | `StartedIsActive` | `tests/test_os_timer_cpp_gtest.cpp:45-46`: active after a start | a late callback clears `tm_active` (`posix/os_timer.c:108`) of a timer that was started again meanwhile |
| `MCOsTimerRestart.cfg` | `RestartCountsAnew` | `os_timer.h:71-72`: "the timer begins counting down using the new duration" | POSIX: an expiry on its way to its thread still calls back (`posix/os_timer.c:109`), right after the restart |
| `MCOsTimerStillActive.cfg` | `CallbackSeesInactive` | `tests/test_os_timer.c:67`: "timer: fired, but still active" | Apple sets the flag (`posix/os_timer.c:72`) after it has resumed the source, when the callback may be over |
| `MCOsTimerCancelled.cfg` | `StopLeavesUsable` | `os_timer.h:88-89`: a stop of a timer that is not running "has no effect on the timer" | Apple: a stop, and every callback, cancels the source for good (`posix/os_timer.c:88`); later starts never call back |
| `MCOsTimerResumed.cfg` | `RestartPermitted` | `os_timer.h:70`: starting a running timer "is permitted" | Apple: the second `dispatch_resume` (`posix/os_timer.c:71`) ends the program |
| `MCOsTimerCalendar.cfg` | `ElapsedSinceBoot` | `os_time.h:35-36`: "the elapsed time since the system booted, in milliseconds" | Apple reads the calendar (`posix/os_time.c:41`) |
| `MCOsTimerMsClock.cfg` | `ElapsedSinceBoot` | the same | FreeRTOS multiplies ticks by 1000 in 32 bits (`os_port.h:126`): back to 0 after 71 minutes at 1 kHz |
| `MCOsTimerWrap.cfg` | `CallbackNeverEarly` | `README.md:163`: a callback "after a given amount of time has passed" | FreeRTOS and RT-Thread multiply milliseconds by the tick rate in 32 bits (`os_port.h:121`): a long duration is cut short |
| `MCOsSemaphoreTicks.cfg` | `TakeTimeoutNotEarly` | `os_sem.h:52`: "Waiting period to take the semaphore (in milliseconds)" | FreeRTOS (`os_sem.c:57`) and RT-Thread (`os_sem.c:51`) pass the number on as ticks; with more than 1000 of them a second the timeout is early, with fewer late |
| `MCFreeRtosTimerLost.cfg` | `EveryStartFires` | `os_timer.h:67-68`: "The timer begins counting down using the specified duration" | commands from interrupt handlers are dropped with POS_OK when the queue is full (`freertos/os_timer.c:59`), and a stop that `pos_timer_cb` sends may come after a later start |
| `MCKernelQueueEmpty.cfg` | `GetOkHasMessage` | `os_queue.h:61`: "POS_OK Message received." | FreeRTOS returns POS_OK also when it gives up (`os_queue.c:43-45`) |

**Further disagreements**, which the models contain:

* `posix/os_timer.c:220` says "TODO: fix bug where one-shot timer is still active after fired".  On Linux the comment is
  out of date: line 108 clears the flag before the callback, as `tests/test_os_timer.c:67` demands, and `ActiveHasCause`,
  `ActiveEnds` and `FiredIsInactive` say that it does.  On Apple the order of lines 71 and 72 can still make it true
  (`MCOsTimerStillActive.cfg`).
* The mutex and the queue are given milliseconds as ticks like the semaphore: `freertos/os_mutex.c:53`, `rt-thread/os_mutex.c:51`
  (`os_mutex.h:56`) and the `pos_queue_get` of both (`os_queue.h:58`).  No property of the passing runs depends on how long these waits are.
* `os_timer.h:57` calls the duration of `pos_timer_start_ms` ticks; every port takes milliseconds.
* A put into a full POSIX queue ends the process; `os_queue.h:78` names POS_EBUSY
  (`PutPush`; `PutOverflow` in `MessageQueue`).  Zephyr and RT-Thread return POS_ERROR, FreeRTOS waits
  (`whenFull`).
* Neither mutex nor semaphore carries `tv_nsec` over into `tv_sec`: depending on the
  moment of the call a timed lock or take fails at once with POS_EINVAL, which neither
  `os_mutex.h:59-61` nor `os_sem.h:55-57` lists (`addTimeout`, `LockTimed`, `TakeTimed`).
* A take without waiting returns POS_TIMEOUT or, in Zephyr, POS_ERROR; `os_sem.h:56` says
  POS_EBUSY.  The same is true of locks, and RT-Thread locks that time out return POS_BAD_MUTEX.
* Apple: a finite timeout of a take is a point in time in the past, and a lock ignores its timeout
  (`waits`, `waiting`).
* `Unlock()` without the lock corrupts `lock_depth_` for good, although it is reverted
  (`DepthMatches` holds only without such calls; the native mutex is safe, `HolderKeepsMutex`).
* Zephyr `OsSemaphore::Give()` at the limit counts a token that `k_sem_give` drops (`lost`).
* A consumer that is removed while it waits for a message dies with the mutex of the queue
  (`Orphaned`).
* FreeRTOS: `xTimerChangePeriod` and `xTimerReset` both start the timer, which may expire in
  between, so that one start makes two calls (`AtMostTwice`); without priority of the timer task, or with
  starts from interrupts, it may wait forever for room in its own queue (`DaemonNeverBlocks` is about the others, `Ordered`).
* FreeRTOS queues and timers that could not be created are not noticed (`BadHandle`, `Construct` of `OsTimer`).
* `pos_time_get` returns ticks; `os_time.h:35-36` calls them milliseconds.
* POSIX `pos_timer_remaining_ticks` takes the time that is left for a point in time, and is
  nearly always 0: `RemainingNeverOverstates` is what remains true.  The one of FreeRTOS is stale for a
  timer that does not run.
* `targets/zephyr/os_timer.c` implements an earlier interface (`chip_os_timer_*`).

**Bounds.**  Two threads of each role give every pairwise interleaving; a third
adds no label that the code tells apart, except in `mutex_early`, which needs a
holder and two who wait.  With two slots and an index range of twice
the capacity both indices wrap around at every fill level; larger rings are the subject of the proofs.
`MaxStarts`, `ClientStarts`,
`MaxDepth`, `MaxMeddled`, `MaxLost`, `LastCall`, `MaxClock`, `CallWindow`, `MaxCalls` and `MaxSignals` bound counters in guards:
four starts allow a
late callback, a restart and a stop at the same time; a timed call starts at one of the first two
ticks, and at one of them its deadline lacks a carry; two calls in `ktimer` are a sleep beside a timer that is started, or a start with a stop
or another start at each of the first five nanoseconds, between any two steps of the first and of its callback, which takes 1.6 million states.  `QueueLength` 4
takes one start and a command more, so that it fills up.  `ztask` has fewer stacks than tasks; that
two callers lose no stack is proved and not run.  `tasks` has one manager: with two, the plain
`s_task_count` loses updates.

Deadlock is not an error in three runs: in `ftimer`, because the timer task can really block for good (outside
of `Ordered`); in `tasks`, because everyone can wait for an orphaned mutex, or for messages after all producers
were removed; in `ktimer`, whose calls are used up at some point.

**Fairness.**  Weak fairness of each thread between its call and its return: the
kernel schedules runnable threads.  Strong fairness where a thread competes for
the queue's mutex or for room in the FreeRTOS command queue: a lock that is released again and
again, and room that is made again and again, reaches everyone who waits.  The clock ticks
and an armed timer expires; the clock of mutex and semaphore has strong fairness only because its bound
suspends it for a moment.  In `ktimer` the clock, the wake-up of a sleeper whose time has come, the expiry of a
timer that is due, the timer task, and a task that has begun a call or a callback are weakly fair.  No call is fair: nobody has to put, give, unlock, stop,
start or remove, no signal has to interrupt, nobody has to set the calendar, and a cancelled task need not meet a cancellation point.

## 4. Proofs

TLAPS checks these for every value of the constants that meets the module's assumption.
The invariants that TLC checks and the ones that are inductive are seldom the same; the last
column says what had to be added.

| Theorem | Says | Argument |
|---|---|---|
| `PosixQueueProofs!RingInvariant` | indices in range, fill level at most the capacity | inductive as it stands; `SizeFacts`, `PushBack`, `PopFront` say what a push and a pop do to `size` modulo the range |
| `PosixQueueProofs!RingRefinesFifo` | `RingSpec => RingImplementsFifo` | a push is an append to `Contents` and a pop its tail.  A push writes a slot that no item is in: fewer than `ItemCount` consecutive indices have different residues (`ModDistinct`), which needs that the capacity divides the range |
| `PosixQueueProofs!QueueSafety` | `TypeOK`, `RingBounded`, `MutualExclusion`, `CopyIsFront` | `CoreInv` (whoever is inside holds the mutex, so that what a consumer copied stays the front until it pops) and, for `QueueInv`, that whoever holds the mutex is inside |
| `PosixQueueProofs!WakeupsNotLost` | `NoLostWakeup`, for any number of threads | while someone sleeps there are as many threads on their way as messages: a push adds itself to them before the message counts, a signal exchanges the producer for the consumer it wakes, a consumer that goes to sleep has seen an empty ring |
| `PosixQueueProofs!SignalsFollowPushes` | `SignalFollowsPush` | `CallbackInv` adds that a call is owed only while a callback is registered, so that the put that owes it does not skip it at its test of the pointer |
| `PosixQueueProofs!QueueLinearizable` | `Spec => QueueImplementsMessageQueue` | the abstract call is a function of the label (`CallTable`); a put takes effect at its push, a get at its pop, or, if it does not wait, at the test of the empty ring.  Every other step leaves the abstract state alone.  Needs `CoreInv`, and `WaitInv`: only a get has a timeout, and one that may wait copies only when there is a message |
| `PosixQueueProofs!QueueRingIsFifo`, `RemovalKeepsRingFifo` | `RingImplementsFifo` for the queue and for the queue whose tasks are cancelled | `RingUsedAsFifo`: every step of the queue pushes at the back, pops the front or leaves the ring alone, by `CoreInv`; then as in `RingRefinesFifo`.  A death touches no index |
| `PosixQueueProofs!RemovalOrphansOnlyByWaiter` | `RingBounded`, `CopyIsFront`, `OrphanedOnlyByWaiter` | a task that dies keeps its label, so that `CoreInv`, which does not say that the owner of the mutex is alive, survives; `LifeInv` says that whoever is inside is alive, and that the owner of the mutex is inside or died in its wait |
| `PosixQueueProofs!RemovalKeepsQueueLinearizable` | `TaskSpec => QueueImplementsMessageQueue` | a step of a task in the queue is a step of `PosixQueue`, whose refinement is used again; a death leaves the abstract state alone |
| `PosixQueueProofs!CountCoversRunningTasks` | `CountCoversRunning` for a single manager | `CountInv`: `s_task_count` is the number of initialised task objects, what the manager has loaded is still the count, and a task that runs is initialised or about to be.  With two managers, updates are lost |
| `PosixQueueProofs!TaskTypes` | `TaskTypeOK` for a single manager | from `CountInv`, which bounds `s_task_count` by the initialised tasks, and `LifeInv` |
| `KernelQueueProofs!KernelQueueTypes` | `TypeOK` | `CallInv`: where a caller is agrees with the call it makes |
| `KernelQueueProofs!KernelCallbackOwnArgument` | `CallbackOwnArgument` | `CallbackInv`: pointer and argument differ only between their two assignments, and a put that nobody overlaps has not begun there |
| `KernelQueueProofs!KernelQueueLinearizable` | `Spec => KernelQueueImplementsMessageQueue` | the kernel's call is the moment of effect; `SeenRecord` says how the callers see a get that gave up |
| `OsMutexProofs!MutexHolderKeepsMutex`, `MutexDepthMatches`, `MutexAbortMeansMisuse`, `MutexTypeOK` | `HolderKeepsMutex`, `DepthMatches`, `AbortMeansMisuse`, `TypeOK`, on every port | `MutexInv`: `Ownership`: the owner is the only thread with native locks, the one it has yet to count included, and `depth` is their number; `OwnerCounts`: without misuse only the owner touches `lock_depth_`, which is at most one behind `depth`, and what it has loaded is what is in memory; `Phases` gives a cause for each abort.  `CountBound` limits what misuse can do to `lock_depth_` |
| `OsSemaphoreProofs!SemTypeOK`, `SemTokensConserved`, `SemTakeTimeoutNotEarly`, `SemAbortMeansOvergiven` | `TypeOK`, `TokensConserved`, `AbortMeansOvergiven`, on every port; `TakeTimeoutNotEarly` on POSIX and Zephyr, and on FreeRTOS and RT-Thread if a tick is a millisecond or more | `SemInv`: `TokensConserved` counts the threads between the native call and the update of `take_depth_`; `Deadlines` ties a computed deadline to the entry of its caller, in ticks where the kernel counts them (`LateEnough`); `Phases` gives a cause for each abort |
| `PosixTimerProofs!TimerNeverStuckActive` | `TypeOK`, `ActiveHasCause` | inductive with the part of `TypeOK` that says a start never passes 0 to the kernel |
| `PosixTimerProofs!TimerIsOneShot` | `OneShot` | each start makes one credit, which moves from the starting thread to the kernel and on to a callback thread |
| `PosixTimerProofs!TimerRunningIsActive` | `RunningIsActive` | `OnePlace`: while no client interferes the one start is in one place, in a thread, in the kernel or in the callback, never in two |
| `ZephyrTaskProofs!StacksNotLeaked` | `NoStackLeak` for any number of callers | with `CallerOwns`: what a caller works on is in nobody else's hands |
| `ZephyrTaskProofs!StacksExclusive` | `StackExclusive`, `HeldIsMarked` for a single caller | with `TableInv`: stacks that are held are different, and the one being claimed is held by nobody.  The assumption of one caller is needed: `ztask_race` |
| `ZephyrTaskProofs!NoMemoryOnlyWhenFull` | `NoMemoryMeansFull` for a single caller | `SearchInv`: each stack that the search has passed is still marked, and so, by `NoStackLeak`, a task's |
| `FreeRtosTimerProofs!FreeRtosTimerTypes` | `TypeOK` | inductive as it stands; commands of an interrupt handler that do not fit are dropped, those of a task wait |
| `FreeRtosTimerProofs!FreeRtosAtMostTwice` | `AtMostTwice`, in every kind of system | `CreditInv`: a start has two expiries to give, and each is with the task that has yet to send its command, in the command queue, with the running timer, with the callback, or has been called |
| `FreeRtosTimerProofs!FreeRtosDaemonNeverBlocks` | `DaemonNeverBlocks` for a queue of 4 entries, or of 2 if the callback does not start its timer | `DaemonInv`: from the expiry to the end of the callback nobody but the timer task sends, so that the length of the queue is known at each of its labels.  It needs that the timer task expires the timer only when its queue is empty |
| `FreeRtosTimerProofs!FreeRtosStartNotLost` | `StartNotLost` | the invariant behind `StartFires`: the last command decides whether the timer runs, and the stop that `pos_timer_cb` sends is in the queue before any later start (`DaemonInv`) |
| `OsTimerProofs!OsTimerTypes` | `TypeOK` of `OsTimer` | inductive as it stands; the conversions of every port give natural numbers |
| `OsTimerProofs!OsTimeMsClock` | `MsClockFollowsClock` | no invariant but the types: within its range the conversion of each port is exact, and rounding ticks down to milliseconds loses less than a tick; the clock is the calendar on Apple |
| `OsTimerProofs!OsSleepNotEarly` | `SleepNotEarly` | `SleepInv`: the end of a sleep is not before the earliest moment allowed, and in the loop around `nanosleep` what remains is counted from now, so that an interrupted sleep only becomes longer; `SleepInTime` computes, port by port, what a duration becomes |
| `OsTimerProofs!OsCallbackNotEarly`, `OsTimerRemaining` | `CallbackNotEarly`, `RemainingNeverOverstates`, on every port | `TimerInv`: wherever a start has got to, in the steps of its call (`ClientInv`), in FreeRTOS's queue (`QueueInv`), in the kernel's timer (`ArmedInv`) or in its callback (`CbInv`), the ticks it carries (`Pledge`) are enough from the moment of its call, and time only passes; expiries of kernel timers are whole ticks |
| `OsTimerProofs!OsFiredIsInactive` | `FiredIsInactive`, on every port but Apple | `ActiveInv`: a start that is not called back yet is in one place, so that nothing sets the flag after the callback of the last start has cleared it, and FreeRTOS's timer does not run while its task is in a callback |

The assumptions are those of the modules (finite sets of threads, a clock with ticks, capacities above 0),
which TLC evaluates in the runs, and three that are hypotheses of their theorems: `OneCallerOnly` (`ZephyrTaskProofs`),
`OneManagerOnly` (`PosixQueueProofs`) and `QueueLongEnough` (`FreeRtosTimerProofs`; the configuration in
`src/targets/freertos/config/posix/FreeRTOSConfig.h:53` has 10 entries).  `SemTakeTimeoutNotEarly` has the length of a tick as
a hypothesis in its statement.  `TimeAssumption` says of the Apple port that
its tick rate is a multiple of 1000, as `POS_TICKS_PER_SEC` is there (1000000): it divides one by the other.

The bound of `MsClockFollowsClock` is a tick rounded up to milliseconds.  With a tick shorter than a millisecond the clock may still
be one millisecond behind, when the rate is no multiple of 1000 and a tick begins in one millisecond and ends in the next.

`RingSpec`, the ring with a client of its own, is the subject of `RingInvariant` and `RingRefinesFifo`; TLC
checks `RingImplementsFifo` for the ring inside of `PosixQueue`.  What is proved for every instance and supports
the other results, `MutualExclusion`, `RingBounded`, `HeldIsMarked`, `StartNotLost`, `TaskTypeOK` and the `TypeOK` of `PosixQueue`, `PosixTimer`,
`ZephyrTask`, `FreeRtosTimer` and `OsTimer`, is not part of the runs.

Every invariant, every action property and every refinement that a passing run checks is also proved.  Only model-checked is
liveness (fairness and ENABLED are out of the prover's reach): `WaiterServedUnlessOrphaned`,
`CallsReturnUnlessOrphaned`, `BoundedCallsReturn`, `ActiveEnds`, `TimedLockReturns`, `TimedTakeReturns`, and `StartFires` of `FreeRtosTimer` and of
`OsTimer`.  The safety half of three of them is proved: `NoLostWakeup` (without cancellation) for `WaiterServedUnlessOrphaned`, `ActiveHasCause` for `ActiveEnds`,
`StartNotLost` for `StartFires` of `FreeRtosTimer`.

## 5. Not modelled, and why

* `pos_queue_deinit` of the POSIX port: use of freed memory has no state to model; the
  header does not say when it may be called.
* The capacity handed to the ring by the POSIX queue (`max_msgs` is a `size_t`, the ring takes a `uint16_t`) and
  the `uint16_t` stack size of POSIX tasks: conversions on one line.
* Removing a C task object a second time (Zephyr) or after its function has returned (RT-Thread): freed memory of the
  kernel; `OsTask` guards the first with `inited_`.
* The argument of the POSIX signal callback (as in Zephyr, which is modelled) and of timer callbacks.
* `yield`, identity of the current task, `pos_sched_start`, `pos_sem_get_count`, `*_inited`: no state of the layer.
* `pos_panic`: it ends the program.  `map_zephyr_to_osal_error`: nobody calls it.
* What the kernels do inside; they are modelled from how the ports use them.

## 6. What may follow

The proofs that were planned are done.  What could be added: the deinitialisation of the POSIX queue, once its header says when
it may be called; a count of tasks for several managers, once `s_task_count` is updated atomically (`CountCoversRunningTasks`
then no longer needs `OneManagerOnly`); and the stack table of Zephyr under a lock, for which `StacksExclusive` then no longer
needs `OneCallerOnly`.
