------------------------------- MODULE OsTimer -------------------------------
(***************************************************************************)
(* The passing of time in every port: a task that sleeps                   *)
(* (pos_task_sleep(), pos_task_sleep_ms()), and that starts and stops a    *)
(* one-shot timer (include/poski/OsTimer.h, os_timer.c).                   *)
(*                                                                         *)
(* Time may pass between any two steps: between the assignments and the    *)
(* kernel calls of a start or a stop, before an expiry is noticed, before  *)
(* the callback of an expiry runs and within it.  Starts are numbered, so  *)
(* that each callback has the start it belongs to.                         *)
(*                                                                         *)
(* Several tasks that share a timer are the subject of PosixTimer, the     *)
(* limits of FreeRTOS's command queue and callbacks that restart their     *)
(* timer those of FreeRtosTimer and PosixTimer.                            *)
(***************************************************************************)
EXTENDS OsTime, Sequences

CONSTANTS Durations,     \* the arguments of sleeps and starts
          CallWindow,    \* bound: calls begin this many nanoseconds from the start
          MaxCalls,      \* bound on the number of calls
          MaxLate,       \* bound on how late a sleep or an expiry is noticed, in ns
          MaxSignals     \* bound on the signals that interrupt a sleep

\* RT-Thread takes a number of milliseconds that is not in the positive half of the
\* range as "forever".
ASSUME TimerAssumption ==
    /\ \A d \in Durations : d \in Nat /\ 2 * d < TimeRange
    /\ CallWindow \in Nat
    /\ MaxCalls \in Nat
    /\ MaxLate \in Nat
    /\ MaxSignals \in Nat

VARIABLES phase,       \* of the timer object: "new", "alive", "aborted" or "crashed"
          handle,      \* whether the kernel's timer was created
          client,      \* of the task: the next step of its start or stop, or "idle",
                       \* the number of the start and its ticks
          armed, expiry,  \* the start the kernel's timer runs for, or 0, and its expiry
          cmdq,        \* the commands that FreeRTOS's timer task has not handled yet
          source,      \* the dispatch source: whether it is suspended and cancelled
          tm_active, tm_ticks,  \* fields of struct pos_timer (POSIX, Apple)
          cb,          \* the next step of the callback of each start
          pc,          \* its sleep: "idle", "sleeping" or "interrupted"
          sleep,       \* when its sleep ends; while it is interrupted, what remains
          signals,
          calls,
          asked, slept, \* history: the call of each start and of the sleep, and when
          due          \* history: the last start if it was not stopped and its callback
                       \* has not been called, or 0

timeVars   == <<system, now, calendar>>
kernelVars == <<armed, expiry, cmdq, source>>
timerVars  == <<phase, handle, client, kernelVars, tm_active, tm_ticks, cb, asked, due>>
sleepVars  == <<pc, sleep, signals, slept>>
vars       == <<timeVars, timerVars, sleepVars, calls>>

Starts  == 1 .. MaxCalls
Stopped == phase \in {"aborted", "crashed"}

\* Whether a callback is under way.
Handling == \E s \in Starts : cb[s] \notin {"none", "done"}

NoClient == [at |-> "idle", start |-> 0, ticks |-> 0]
NoCall   == [at |-> 0, unit |-> "ticks", d |-> 0]

Init ==
    /\ system \in Systems
    /\ now = system.start
    /\ calendar \in (IF port = "apple" THEN Calendars ELSE {0})
    /\ phase = "new"
    /\ handle = FALSE
    /\ client = NoClient
    /\ armed = 0 /\ expiry = 0
    /\ cmdq = << >>
    /\ source = [suspended |-> TRUE, cancelled |-> FALSE]
    /\ tm_active = FALSE /\ tm_ticks = 0
    /\ cb = [s \in Starts |-> "none"]
    /\ asked = [s \in Starts |-> NoCall]
    /\ due = 0
    /\ pc = "idle" /\ sleep = 0 /\ signals = 0 /\ slept = NoCall
    /\ calls = 0

InWindow == now < system.start + CallWindow

\* Time passes: in the window for calls, and then as long as somebody waits and every
\* task has made its steps.  What is overdue is at most MaxLate late.
Tick ==
    /\ ~Stopped
    /\ \/ InWindow
       \/ /\ client.at = "idle" /\ cmdq = << >> /\ pc # "interrupted"
          /\ pc = "sleeping" \/ armed # 0
    /\ pc = "sleeping" => now < sleep + MaxLate
    /\ armed # 0 => now < expiry + MaxLate
    /\ now' = now + 1
    /\ UNCHANGED <<system, calendar, timerVars, sleepVars, calls>>

\* The task makes a call.
Call ==
    /\ ~Stopped
    /\ client.at = "idle" /\ pc = "idle"
    /\ calls < MaxCalls
    /\ InWindow
    /\ calls' = calls + 1

\* Somebody sets the calendar.
NewCalendar ==
    /\ ~Stopped
    /\ calls < MaxCalls /\ InWindow
    /\ SetCalendar
    /\ calls' = calls + 1
    /\ UNCHANGED <<system, now, timerVars, sleepVars>>

-----------------------------------------------------------------------------
(***************************************************************************)
(* Waiting, in the terms of the kernels                                    *)
(***************************************************************************)

\* n ticks from the tick that is running.
kernel_ticks(n) == (uptime_ticks + n) * NsPerTick

\* A struct timespec of so many milliseconds, from now.
timespec_ms(ms) == now + (ms \div MsPerSec) * NsPerSec + (ms % MsPerSec) * NsPerMs

\* Zephyr waits for at least the time asked for, RT-Thread for the ticks.
k_sleep(ticks) == IF ticks = 0 THEN now ELSE kernel_ticks(ticks + 1)

sleep_ms_posix(ms)     == timespec_ms(ms)
sleep_ms_freertos(ms)  == kernel_ticks(ms_to_ticks_freertos(ms))
sleep_ms_zephyr(ms)    == k_sleep(Ceil(ms * POS_TICKS_PER_SEC, MsPerSec))
sleep_ms_rt_thread(ms) == kernel_ticks(Ceil(ms * POS_TICKS_PER_SEC, MsPerSec))

\* When a sleep ends that is called now.
pos_task_sleep_ms(ms) ==
    CASE port \in {"posix", "apple"} -> sleep_ms_posix(ms)
      [] port = "freertos"           -> sleep_ms_freertos(ms)
      [] port = "zephyr"             -> sleep_ms_zephyr(ms)
      [] port = "rt-thread"          -> sleep_ms_rt_thread(ms)

sleep_posix(ticks)     == sleep_ms_posix(ticks_to_ms_posix(ticks))
sleep_freertos(ticks)  == kernel_ticks(ticks)
sleep_zephyr(ticks)    == k_sleep(ticks)
sleep_rt_thread(ticks) == kernel_ticks(ticks)

pos_task_sleep(ticks) ==
    CASE port \in {"posix", "apple"} -> sleep_posix(ticks)
      [] port = "freertos"           -> sleep_freertos(ticks)
      [] port = "zephyr"             -> sleep_zephyr(ticks)
      [] port = "rt-thread"          -> sleep_rt_thread(ticks)

\* Mutant: a start with no ticks is not made one with one tick.
atLeastNone(ticks) == ticks

\* The ports but Zephyr's do not start a timer with no ticks; k_timer_start() itself
\* makes it one tick.
atLeastOne(ticks) == IF ticks = 0 THEN 1 ELSE ticks

\* The ticks of pos_timer_start_ms().  K_MSEC() rounds like pos_time_ms_to_ticks() and
\* does not wrap.
timer_start_ms_posix(ms)     == ms_to_ticks_posix(ms)
timer_start_ms_freertos(ms)  == ms_to_ticks_freertos(ms)
timer_start_ms_zephyr(ms)    == Ceil(ms * POS_TICKS_PER_SEC, MsPerSec)
timer_start_ms_rt_thread(ms) == ms_to_ticks_rt_thread(ms)

pos_timer_start_ms(ms) ==
    CASE port \in {"posix", "apple"} -> timer_start_ms_posix(ms)
      [] port = "freertos"           -> timer_start_ms_freertos(ms)
      [] port = "zephyr"             -> timer_start_ms_zephyr(ms)
      [] port = "rt-thread"          -> timer_start_ms_rt_thread(ms)

-----------------------------------------------------------------------------
(***************************************************************************)
(* How early a wait may end.  A kernel counts from the tick that is        *)
(* running, which takes up to a tick off; a conversion that rounds down    *)
(* takes off up to a unit of what it converts to, and one that wraps may   *)
(* take off everything.                                                    *)
(***************************************************************************)
Asked(unit, d) == IF unit = "ms" THEN d * NsPerMs ELSE d * NsPerTick

SleepSlack(unit) ==
    CASE port = "posix"     -> 0
      [] port = "apple"     -> IF unit = "ms" THEN 0 ELSE NsPerMs
      [] port = "freertos"  -> IF unit = "ms" THEN 2 * NsPerTick ELSE NsPerTick
      [] port = "zephyr"    -> 0
      [] port = "rt-thread" -> NsPerTick

TimerSlack(unit) ==
    CASE port \in {"posix", "apple"} -> 0
      [] port = "zephyr"             -> NsPerTick
      [] OTHER                       -> IF unit = "ms" THEN 2 * NsPerTick ELSE NsPerTick

\* Whether the product in pos_time_ms_to_ticks() wraps.
Wraps(unit, d) == unit = "ms" /\ d * POS_TICKS_PER_SEC >= TimeRange

\* The first moment after at + asks - slack, or at + asks without slack.
Earliest(at, asks, slack) ==
    IF slack = 0 THEN at + asks
    ELSE IF asks < slack THEN at ELSE at + asks - slack + 1

\* What a call asked for, and what it gets where the product wraps.
EarliestReturn(a) ==
    IF port = "freertos" /\ Wraps(a.unit, a.d) THEN a.at
    ELSE Earliest(a.at, Asked(a.unit, a.d), SleepSlack(a.unit))

ExpiryAsked(a)    == Earliest(a.at, Asked(a.unit, a.d), TimerSlack(a.unit))
EarliestExpiry(a) ==
    IF port \in {"freertos", "rt-thread"} /\ Wraps(a.unit, a.d) THEN a.at ELSE ExpiryAsked(a)

ACall(unit, d) == [at |-> now, unit |-> unit, d |-> d]

-----------------------------------------------------------------------------
(***************************************************************************)
(* OsTask::SleepMs() and OsTask::SleepTicks()                              *)
(***************************************************************************)
Sleep(unit, d) ==
    /\ Call
    /\ pc' = "sleeping"
    /\ sleep' = IF unit = "ms" THEN pos_task_sleep_ms(d) ELSE pos_task_sleep(d)
    /\ slept' = ACall(unit, d)
    /\ UNCHANGED <<timeVars, timerVars, signals>>

\* Mutant: errno is not looked at, a signal ends the sleep.
SleepInterruptedReturning ==
    /\ ~Stopped
    /\ port \in {"posix", "apple"}
    /\ pc = "sleeping" /\ now < sleep
    /\ signals < MaxSignals
    /\ signals' = signals + 1
    /\ pc' = "idle"
    /\ UNCHANGED <<timeVars, timerVars, sleep, slept, calls>>

\* nanosleep() fails with EINTR and stores the time that remains.
SleepInterrupted ==
    /\ ~Stopped
    /\ port \in {"posix", "apple"}
    /\ pc = "sleeping" /\ now < sleep
    /\ signals < MaxSignals
    /\ signals' = signals + 1
    /\ pc' = "interrupted"
    /\ sleep' = sleep - now
    /\ UNCHANGED <<timeVars, timerVars, slept, calls>>

\* The loop calls nanosleep() again with what remained.
SleepAgain ==
    /\ ~Stopped
    /\ pc = "interrupted"
    /\ pc' = "sleeping"
    /\ sleep' = now + sleep
    /\ UNCHANGED <<timeVars, timerVars, signals, slept, calls>>

SleepReturn ==
    /\ ~Stopped
    /\ pc = "sleeping" /\ now >= sleep
    /\ pc' = "idle"
    /\ sleep' = 0
    /\ slept' = NoCall
    /\ UNCHANGED <<timeVars, timerVars, signals, calls>>

-----------------------------------------------------------------------------
(***************************************************************************)
(* OsTimer                                                                 *)
(***************************************************************************)

\* pos_timer_init(), by whether the kernel's timer is created.  k_timer_init() cannot
\* fail, the FreeRTOS and RT-Thread ports do not look at the handle.
timer_init_posix(created)     == IF created THEN "POS_OK" ELSE "POS_ERROR"
timer_init_apple(created)     == "POS_OK"
timer_init_zephyr(created)    == "POS_OK"
timer_init_rt_thread(created) == "POS_OK"
timer_init_freertos(created)  == "POS_OK"

pos_timer_init(created) ==
    CASE port = "posix"     -> timer_init_posix(created)
      [] port = "apple"     -> timer_init_apple(created)
      [] port = "freertos"  -> timer_init_freertos(created)
      [] port = "zephyr"    -> timer_init_zephyr(created)
      [] port = "rt-thread" -> timer_init_rt_thread(created)

\* The constructor asserts POS_OK.
Construct ==
    /\ phase = "new"
    /\ handle' \in (IF port \in {"zephyr", "apple"} THEN {TRUE} ELSE BOOLEAN)
    /\ phase' = IF pos_timer_init(handle') = "POS_OK" THEN "alive" ELSE "aborted"
    /\ UNCHANGED <<timeVars, client, kernelVars, tm_active, tm_ticks, cb, asked, due,
                   sleepVars, calls>>

\* The next step of the call that the client makes, or its return.
goto(label) == client' = [client EXCEPT !.at = label]
return      == client' = NoClient

\* The kernel's timer runs for start s, or does not run any more.
Arm(s, at) == armed' = s /\ expiry' = at
Disarm     == Arm(0, 0)

\* FreeRTOS's kernel functions put commands in the queue of the timer task.
Send(op, s, ticks) ==
    cmdq' = Append(cmdq, [op |-> op, start |-> s, ticks |-> ticks, sent |-> uptime_ticks])

\* pos_timer_start(): the steps up to the first after which something else may happen.
timer_start_posix(s, ticks) ==
    /\ tm_ticks' = (pos_time_get + atLeastOne(ticks)) % TimeRange
    /\ client' = [at |-> "active", start |-> s, ticks |-> atLeastOne(ticks)]
    /\ UNCHANGED <<armed, expiry, cmdq>>
timer_start_apple(s, ticks) ==
    /\ tm_ticks' = pos_time_get + ticks
    /\ client' = [at |-> "arm", start |-> s, ticks |-> ticks]
    /\ UNCHANGED <<armed, expiry, cmdq>>
timer_start_freertos(s, ticks) ==
    /\ Send("stop", 0, 0)
    /\ client' = [at |-> "change", start |-> s, ticks |-> atLeastOne(ticks)]
    /\ UNCHANGED <<armed, expiry, tm_ticks>>
timer_start_zephyr(s, ticks) ==
    /\ Arm(s, kernel_ticks(atLeastOne(ticks)))
    /\ UNCHANGED <<client, cmdq, tm_ticks>>
\* RT_TIMER_CTRL_SET_TIME stops a timer that is running in newer kernels.
timer_start_rt_thread(s, ticks) ==
    /\ Disarm \/ UNCHANGED <<armed, expiry>>
    /\ client' = [at |-> "arm", start |-> s, ticks |-> atLeastOne(ticks)]
    /\ UNCHANGED <<cmdq, tm_ticks>>

\* Start() and StartMs(), also of a timer that is running.  The kernels crash when
\* they are given no handle.
Start(unit, d) ==
    /\ Call
    /\ phase = "alive"
    /\ LET s     == calls + 1
           ticks == IF unit = "ms" THEN pos_timer_start_ms(d) ELSE d
       IN  /\ \/ port = "posix"     /\ timer_start_posix(s, ticks)
              \/ port = "apple"     /\ timer_start_apple(s, ticks)
              \/ port = "freertos"  /\ timer_start_freertos(s, ticks)
              \/ port = "zephyr"    /\ timer_start_zephyr(s, ticks)
              \/ port = "rt-thread" /\ timer_start_rt_thread(s, ticks)
           /\ asked' = [asked EXCEPT ![s] = ACall(unit, d)]
           /\ due' = s
    /\ phase' = IF handle THEN phase ELSE "crashed"
    /\ UNCHANGED <<timeVars, handle, source, tm_active, cb, sleepVars>>

\* The POSIX port sets the flag and then arms the timer; the Apple port sets it last.
StartActive ==
    /\ ~Stopped
    /\ client.at = "active"
    /\ tm_active' = TRUE
    /\ IF port = "posix" THEN goto("arm") ELSE return
    /\ UNCHANGED <<timeVars, phase, handle, kernelVars, tm_ticks, cb, asked, due, sleepVars,
                   calls>>

\* timer_settime() disarms the timer if the value is zero.
arm_posix     == Arm(IF client.ticks = 0 THEN 0 ELSE client.start, timespec_ms(client.ticks))
arm_rt_thread == Arm(client.start, kernel_ticks(client.ticks))
\* A dispatch source that has been cancelled never fires.
arm_apple     == Arm(IF source.cancelled THEN 0 ELSE client.start,
                     now + client.ticks * NsPerTick)

StartArm ==
    /\ ~Stopped
    /\ client.at = "arm"
    /\ \/ port = "posix"     /\ arm_posix     /\ return
       \/ port = "apple"     /\ arm_apple     /\ goto("resume")
       \/ port = "rt-thread" /\ arm_rt_thread /\ return
    /\ UNCHANGED <<timeVars, phase, handle, cmdq, source, tm_active, tm_ticks, cb, asked, due,
                   sleepVars, calls>>

\* dispatch_resume() crashes the program if the source is not suspended.
StartResume ==
    /\ ~Stopped
    /\ client.at = "resume"
    /\ phase' = IF source.suspended THEN phase ELSE "crashed"
    /\ source' = [source EXCEPT !.suspended = FALSE]
    /\ goto("active")
    /\ UNCHANGED <<timeVars, handle, armed, expiry, cmdq, tm_active, tm_ticks, cb, asked, due,
                   sleepVars, calls>>

\* xTimerChangePeriod() and xTimerReset().
StartSend ==
    /\ ~Stopped
    /\ client.at \in {"change", "reset"}
    /\ Send(client.at, client.start, client.ticks)
    /\ IF client.at = "change" THEN goto("reset") ELSE return
    /\ UNCHANGED <<timeVars, phase, handle, armed, expiry, source, tm_active, tm_ticks, cb,
                   asked, due, sleepVars, calls>>

\* pos_timer_stop(), to the kernel call; the RT-Thread port has none.
timer_stop_posix    == Disarm /\ goto("clear") /\ UNCHANGED <<cmdq, source>>
timer_stop_apple    == Disarm /\ goto("clear") /\ UNCHANGED cmdq
                              /\ source' = [source EXCEPT !.cancelled = TRUE]
timer_stop_freertos == Send("stop", 0, 0) /\ UNCHANGED <<armed, expiry, source, client>>
timer_stop_zephyr   == Disarm /\ UNCHANGED <<cmdq, source, client>>

\* Stop().  The FreeRTOS port asserts a handle.
Stop ==
    /\ Call
    /\ phase = "alive"
    /\ \/ port = "posix"    /\ timer_stop_posix
       \/ port = "apple"    /\ timer_stop_apple
       \/ port = "freertos" /\ timer_stop_freertos
       \/ port = "zephyr"   /\ timer_stop_zephyr
    /\ due' = 0
    /\ phase' = IF handle THEN phase ELSE "crashed"
    /\ UNCHANGED <<timeVars, handle, tm_active, tm_ticks, cb, asked, sleepVars>>

\* Then tm_active is cleared.
StopClear ==
    /\ ~Stopped
    /\ client.at = "clear"
    /\ tm_active' = FALSE
    /\ return
    /\ UNCHANGED <<timeVars, phase, handle, kernelVars, tm_ticks, cb, asked, due, sleepVars,
                   calls>>

ClientStep == StartActive \/ StartArm \/ StartResume \/ StartSend \/ StopClear

\* FreeRTOS's timer task handles a command.  The period that a reset finds is that of
\* the change before it, which comes from the same start.
Command ==
    /\ ~Stopped
    /\ cmdq # << >> /\ ~Handling
    /\ LET c == Head(cmdq) IN
       \/ c.op = "stop"   /\ Disarm
       \/ c.op = "change" /\ Arm(c.start, kernel_ticks(c.ticks))
       \/ c.op = "reset"  /\ Arm(c.start, (c.sent + c.ticks) * NsPerTick)
    /\ cmdq' = Tail(cmdq)
    /\ UNCHANGED <<timeVars, phase, handle, client, source, tm_active, tm_ticks, cb, asked,
                   due, sleepVars, calls>>

\* The timer expires: a thread is created, the handler of the source is called, or the
\* callback in the timer task or the interrupt handler.
FirstOfCallback ==
    CASE port = "posix"    -> "clear"
      [] port = "apple"    -> "cancel"
      [] port = "freertos" -> "stop"
      [] OTHER             -> "call"

Expire ==
    /\ ~Stopped
    /\ armed # 0 /\ now >= expiry
    /\ port = "apple" => ~source.suspended
    /\ port = "freertos" => ~Handling
    /\ cb' = [cb EXCEPT ![armed] = FirstOfCallback]
    /\ Disarm
    /\ UNCHANGED <<timeVars, phase, handle, client, cmdq, source, tm_active, tm_ticks, asked,
                   due, sleepVars, calls>>

-----------------------------------------------------------------------------
(***************************************************************************)
(* pos_timer_cb() for the expiry of start s                                *)
(***************************************************************************)
cb_goto(s, from, to) == ~Stopped /\ cb[s] = from /\ cb' = [cb EXCEPT ![s] = to]

\* pos_timer_stop() of the Apple port.
CbCancel(s) ==
    /\ cb_goto(s, "cancel", "clear")
    /\ source' = [source EXCEPT !.cancelled = TRUE]
    /\ Disarm
    /\ UNCHANGED <<timeVars, phase, handle, client, cmdq, tm_active, tm_ticks, asked, due,
                   sleepVars, calls>>

\* Mutant: the callback leaves the flag as it is.
CbClearNot(s) ==
    /\ cb_goto(s, "clear", "call")
    /\ UNCHANGED <<timeVars, phase, handle, client, kernelVars, tm_active, tm_ticks, asked, due,
                   sleepVars, calls>>

CbClear(s) ==
    /\ cb_goto(s, "clear", "call")
    /\ tm_active' = FALSE
    /\ UNCHANGED <<timeVars, phase, handle, client, kernelVars, tm_ticks, asked, due,
                   sleepVars, calls>>

\* pos_timer_stop() of the FreeRTOS port.
CbStop(s) ==
    /\ cb_goto(s, "stop", "call")
    /\ Send("stop", 0, 0)
    /\ UNCHANGED <<timeVars, phase, handle, client, armed, expiry, source, tm_active,
                   tm_ticks, asked, due, sleepVars, calls>>

\* tm_cb() is called.
CbCall(s) ==
    /\ cb_goto(s, "call", "done")
    /\ due' = IF due = s THEN 0 ELSE due
    /\ UNCHANGED <<timeVars, phase, handle, client, kernelVars, tm_active, tm_ticks, asked,
                   sleepVars, calls>>

Callback(s) == CbCancel(s) \/ CbClear(s) \/ CbStop(s) \/ CbCall(s)

-----------------------------------------------------------------------------
\* What the kernel's timer has left.
ticks_left == IF armed # 0 /\ expiry \div NsPerTick > uptime_ticks
              THEN expiry \div NsPerTick - uptime_ticks ELSE 0
seconds_left == IF armed # 0 /\ expiry > now THEN (expiry - now) \div NsPerSec ELSE 0

\* xTimerGetExpiryTime()
expiry_tick == (expiry \div NsPerTick) % TimeRange

\* Mutant: the difference is taken in whichever order is positive.
remaining_distance(time) ==
    IF expiry_tick > time THEN expiry_tick - time ELSE time - expiry_tick

\* The POSIX port looks at the seconds of the time that timer_gettime() says is left
\* and takes that time for a point in time.
remaining_posix(time) ==
    LET exp == seconds_left * MsPerSec IN IF exp > time THEN exp - time ELSE 0
remaining_apple(time)     == 0
remaining_freertos(time)  == IF expiry_tick > time THEN expiry_tick - time ELSE 0
remaining_zephyr(time)    == ticks_left % TimeRange
remaining_rt_thread(time) == ticks_left % TimeRange

pos_timer_remaining_ticks(time) ==
    CASE port = "posix"     -> remaining_posix(time)
      [] port = "apple"     -> remaining_apple(time)
      [] port = "freertos"  -> remaining_freertos(time)
      [] port = "zephyr"    -> remaining_zephyr(time)
      [] port = "rt-thread" -> remaining_rt_thread(time)

is_active_posix     == tm_active
is_active_freertos  == armed # 0
is_active_zephyr    == ticks_left > 0
is_active_rt_thread == armed # 0

pos_timer_is_active ==
    CASE port \in {"posix", "apple"} -> is_active_posix
      [] port = "freertos"           -> is_active_freertos
      [] port = "zephyr"             -> is_active_zephyr
      [] port = "rt-thread"          -> is_active_rt_thread

-----------------------------------------------------------------------------
Next ==
    \/ Tick \/ NewCalendar
    \/ \E unit \in {"ms", "ticks"}, d \in Durations : Sleep(unit, d) \/ Start(unit, d)
    \/ SleepInterrupted \/ SleepAgain \/ SleepReturn
    \/ Construct \/ Stop \/ ClientStep
    \/ Command \/ Expire
    \/ \E s \in Starts : Callback(s)

Spec == Init /\ [][Next]_vars

\* Time passes, the kernel wakes sleepers and serves timers and commands, and a task
\* that has begun a call or a callback goes on with it.  Nobody has to call or to
\* interrupt.
Fairness ==
    /\ WF_vars(Tick)
    /\ WF_vars(SleepAgain \/ SleepReturn)
    /\ WF_vars(ClientStep)
    /\ WF_vars(Command)
    /\ WF_vars(Expire)
    /\ \A s \in Starts : WF_vars(Callback(s))

FairSpec == Spec /\ Fairness

-----------------------------------------------------------------------------
(***************************************************************************)
(* Properties                                                              *)
(***************************************************************************)

\* The variables have their types; tm_ticks keeps to pos_time_t.
CallRecord == [at : Nat, unit : {"ms", "ticks"}, d : Nat]
CommandRecord == [op : {"stop", "change", "reset"}, start : 0 .. MaxCalls, ticks : Nat, sent : Nat]
TypeOK ==
    /\ system \in Systems
    /\ now \in Nat
    /\ calendar \in Nat
    /\ phase \in {"new", "alive", "aborted", "crashed"}
    /\ handle \in BOOLEAN
    /\ client \in [at : {"idle", "active", "arm", "resume", "change", "reset", "clear"},
                   start : 0 .. MaxCalls, ticks : Nat]
    /\ armed \in 0 .. MaxCalls
    /\ expiry \in Nat
    /\ cmdq \in Seq(CommandRecord)
    /\ source \in [suspended : BOOLEAN, cancelled : BOOLEAN]
    /\ tm_active \in BOOLEAN
    /\ tm_ticks \in Nat /\ (port # "apple" => tm_ticks < TimeRange)
    /\ cb \in [Starts -> {"none", "cancel", "clear", "stop", "call", "done"}]
    /\ asked \in [Starts -> CallRecord]
    /\ due \in 0 .. MaxCalls
    /\ pc \in {"idle", "sleeping", "interrupted"}
    /\ sleep \in Nat
    /\ signals \in 0 .. MaxSignals
    /\ slept \in CallRecord
    /\ calls \in 0 .. MaxCalls

\* A sleep lasts as long as it was asked to, however often signals interrupt it, but
\* for the parts of ticks and milliseconds that the port's conversions take off, and
\* for FreeRTOS's conversion when it wraps.
SleepNotEarly == [][pc = "sleeping" /\ pc' = "idle" => now >= EarliestReturn(slept)]_vars

\* The callback of a start is called no earlier than that start asked for, whatever
\* starts and stops there are before and after it and however the commands of FreeRTOS
\* are delayed, but for the parts of ticks that the conversion and the kernel take off,
\* and for a conversion that wraps.
CallbackNotEarly ==
    [][\A s \in Starts : cb[s] = "call" /\ cb'[s] = "done" =>
          now >= EarliestExpiry(asked[s])]_vars

\* As long as a timer is running, pos_timer_remaining_ticks() is not more than what is
\* left, also when the clock wraps.
Pending == phase = "alive" /\ armed # 0 /\ now < expiry
RemainingNeverOverstates ==
    Pending => pos_timer_remaining_ticks(pos_time_get) <= Ceil(expiry - now, NsPerTick)

\* test_os_timer.c: "timer: fired, but still active".  The callback of a timer that has
\* not been started again finds it inactive.
CallbackSeesInactive ==
    \A s \in Starts : cb[s] = "call" /\ due = s => ~pos_timer_is_active

\* It does in every port but Apple's, which sets tm_active after it has resumed the
\* source.
FiredIsInactive == port # "apple" => CallbackSeesInactive

\* A timer that is started and not stopped or started again calls its callback, in the
\* Apple port if it has not expired and has not been stopped before; a late stop of
\* FreeRTOS's callback may take a later start with it.
StartFires ==
    \A s \in Starts :
        due = s /\ port # "freertos" /\ ~source.cancelled ~> due # s \/ Stopped

(***************************************************************************)
(* What the repository says of its timers that does not hold in a port.    *)
(***************************************************************************)

\* os_timer.h: "Attempting to stop a timer that is not running is permitted, but has no
\* effect on the timer": a start after it works.
StopLeavesUsable == \A s \in Starts : due = s ~> due # s \/ Stopped

\* os_timer.h: "Attempting to start a timer that is already running is permitted."
RestartPermitted == handle => phase # "crashed"

\* os_timer.h: "The timer's status is reset to zero and the timer begins counting down
\* using the new duration": once the start has returned, no callback is earlier than
\* that.
RestartCountsAnew ==
    [][\A s \in Starts : cb[s] = "call" /\ cb'[s] = "done" /\ client.at = "idle" /\ due # 0 =>
          now >= EarliestExpiry(asked[due])]_vars

\* README.md: "A timer triggers a callback function after a given amount of time has
\* passed", but for parts of ticks.
CallbackNeverEarly ==
    [][\A s \in Starts : cb[s] = "call" /\ cb'[s] = "done" =>
          now >= ExpiryAsked(asked[s])]_vars
=============================================================================
