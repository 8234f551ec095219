--------------------------- MODULE FreeRtosTimer ---------------------------
(***************************************************************************)
(* The one-shot timer of the FreeRTOS port (targets/freertos/os_timer.c,   *)
(* pos_timer_stop() in poski/osal/os_port.h).  A FreeRTOS timer belongs to *)
(* the timer task of the kernel: other tasks only put commands into its    *)
(* queue, and block while the queue is full (portMAX_DELAY); interrupt     *)
(* handlers cannot block, and what does not fit is dropped.  The timer     *)
(* task executes the commands in order, and calls pos_timer_cb() when the  *)
(* timer expires.  pos_timer_cb() puts a command into the same queue.      *)
(*                                                                         *)
(* What the kernel does with the commands, as the code uses it: "stop"     *)
(* makes the timer dormant; "change" (xTimerChangePeriod()) and "reset"    *)
(* both start it, with the new period; a one-shot timer is dormant when    *)
(* its callback is called.                                                 *)
(***************************************************************************)
EXTENDS Naturals, Sequences, FiniteSets

CONSTANTS Starters,      \* tasks that call pos_timer_start()
          Stoppers,      \* tasks that call pos_timer_stop()
          Restarting,    \* whether the callback itself calls pos_timer_start()
          Systems,       \* the systems to look at, see the variable system
          QueueLength,   \* configTIMER_QUEUE_LENGTH
          MaxStarts      \* bound on the number of starts

Tasks == Starters \cup Stoppers
Daemon == "timer task"

ASSUME TimerAssumption ==
    /\ IsFiniteSet(Tasks) /\ Daemon \notin Tasks
    /\ Restarting \in BOOLEAN
    /\ Systems \subseteq [preempts : BOOLEAN, interrupts : BOOLEAN]
    /\ QueueLength \in Nat \ {0}
    /\ MaxStarts \in Nat

VARIABLES system,   \* never changes: whether the timer task has priority over all
                    \* callers, and whether interrupt handlers call pos_timer_start()
          pc,       \* where each task is, and the timer task
          cmdq,     \* the command queue
          active,   \* xTimerIsTimerActive()
          starts,   \* the number of calls of pos_timer_start() so far
          fired,    \* the number of calls of timer->func so far
          due       \* history: a start has returned, and neither has the timer
                    \* expired nor has it been stopped since

vars == <<system, pc, cmdq, active, starts, fired, due>>

goto(t, label) == pc' = [pc EXCEPT ![t] = label]

\* Mutant: the timer task has no higher priority than the callers.
RunsAnyTime(t) == t \in Tasks \cup {Daemon}

\* A task that has a lower priority than the timer task runs only while that one
\* has nothing to do.
Runs(t) ==
    t # Daemon /\ system.preempts => pc[Daemon] = "wait" /\ cmdq = << >>

\* The systems in which every caller is a task that the timer task preempts.  In
\* all others a command may come between the expiry of the timer and the stop that
\* pos_timer_cb() sends, and the timer may expire before a command is executed.
Ordered == system.preempts /\ ~system.interrupts

\* pos_timer_init(): created dormant.
Init ==
    /\ system \in Systems
    /\ pc = [t \in Tasks \cup {Daemon} |-> IF t = Daemon THEN "wait" ELSE "idle"]
    /\ cmdq = << >>
    /\ active = FALSE
    /\ starts = 0
    /\ fired = 0
    /\ due = FALSE

\* A command is sent with portMAX_DELAY: it waits for room in the queue.
Send(t, command, label) ==
    /\ Len(cmdq) < QueueLength
    /\ cmdq' = Append(cmdq, command)
    /\ goto(t, label)

-----------------------------------------------------------------------------
(***************************************************************************)
(* pos_timer_start() by a task or by the callback, and by an interrupt     *)
(* handler                                                                 *)
(***************************************************************************)
MayStart(t) ==
    \/ t \in Starters /\ pc[t] = "idle"
    \/ Restarting /\ t = Daemon /\ pc[t] = "cb_user"

\* Mutant: xTimerStart() is called in the place of xTimerStop().
StartStopStarting(t) ==
    /\ Runs(t)
    /\ MayStart(t)
    /\ starts < MaxStarts
    /\ starts' = starts + 1
    /\ Send(t, "start", "start_change")
    /\ UNCHANGED <<system, active, fired, due>>

StartStop(t) ==
    /\ Runs(t)
    /\ MayStart(t)
    /\ starts < MaxStarts
    /\ starts' = starts + 1
    /\ Send(t, "stop", "start_change")
    /\ UNCHANGED <<system, active, fired, due>>

StartChange(t) ==
    /\ Runs(t)
    /\ pc[t] = "start_change"
    /\ Send(t, "change", "start_reset")
    /\ UNCHANGED <<system, active, starts, fired, due>>

\* Mutant: the stop is sent last.
StartResetStopping(t) ==
    /\ Runs(t)
    /\ pc[t] = "start_reset"
    /\ Send(t, "stop", IF t = Daemon THEN "cb_done" ELSE "idle")
    /\ due' = TRUE
    /\ UNCHANGED <<system, active, starts, fired>>

\* After the last command, POS_OK is returned.
StartReset(t) ==
    /\ Runs(t)
    /\ pc[t] = "start_reset"
    /\ Send(t, "reset", IF t = Daemon THEN "cb_done" ELSE "idle")
    /\ due' = TRUE
    /\ UNCHANGED <<system, active, starts, fired>>

\* The three commands in a row, each dropped if the queue is full; POS_OK is
\* returned in any case.
StartFromISR ==
    /\ system.interrupts
    /\ starts < MaxStarts
    /\ starts' = starts + 1
    /\ LET wanted == cmdq \o <<"stop", "change", "reset">>
       IN  cmdq' = IF Len(wanted) <= QueueLength THEN wanted
                                                 ELSE SubSeq(wanted, 1, QueueLength)
    /\ due' = TRUE
    /\ UNCHANGED <<system, pc, active, fired>>

\* pos_timer_stop() by a task.
Stop(t) ==
    /\ Runs(t)
    /\ t \in Stoppers
    /\ pc[t] = "idle"
    /\ Send(t, "stop", "idle")
    /\ due' = FALSE
    /\ UNCHANGED <<system, active, starts, fired>>

-----------------------------------------------------------------------------
(***************************************************************************)
(* The timer task of the kernel, and pos_timer_cb()                        *)
(***************************************************************************)
Command ==
    /\ pc[Daemon] = "wait"
    /\ cmdq # << >>
    /\ active' = (Head(cmdq) # "stop")
    /\ cmdq' = Tail(cmdq)
    /\ UNCHANGED <<system, pc, starts, fired, due>>

\* The timer expires and is dormant.  A timer task that preempts the callers has
\* executed all commands before it looks at the timers; others may come in between.
Expire ==
    /\ pc[Daemon] = "wait"
    /\ Ordered => cmdq = << >>
    /\ active
    /\ active' = FALSE
    /\ due' = FALSE
    /\ goto(Daemon, "cb_stop")
    /\ UNCHANGED <<system, cmdq, starts, fired>>

\* pos_timer_cb() calls pos_timer_stop() first.
CbStop ==
    /\ pc[Daemon] = "cb_stop"
    /\ Send(Daemon, "stop", "cb_call")
    /\ UNCHANGED <<system, active, starts, fired, due>>

CbCall ==
    /\ pc[Daemon] = "cb_call"
    /\ fired' = fired + 1
    /\ goto(Daemon, "cb_user")
    /\ UNCHANGED <<system, cmdq, active, starts, due>>

CbReturn ==
    /\ pc[Daemon] \in {"cb_user", "cb_done"}
    /\ goto(Daemon, "wait")
    /\ UNCHANGED <<system, cmdq, active, starts, fired, due>>

-----------------------------------------------------------------------------
StartStep(t) == StartChange(t) \/ StartReset(t)

DaemonStep == Command \/ Expire \/ CbStop \/ CbCall \/ CbReturn

Next ==
    \/ \E t \in Tasks \cup {Daemon} : StartStop(t) \/ StartStep(t) \/ Stop(t)
    \/ StartFromISR
    \/ DaemonStep

Spec == Init /\ [][Next]_vars

\* The kernel schedules the tasks, gives room in a queue to those who wait for it,
\* and time passes.  Nobody has to call.
Fairness ==
    /\ \A t \in Tasks : SF_vars(StartStep(t))
    /\ WF_vars(StartStep(Daemon) \/ Command \/ CbStop \/ CbCall \/ CbReturn)
    /\ WF_vars(Expire)

FairSpec == Spec /\ Fairness

-----------------------------------------------------------------------------
(***************************************************************************)
(* Properties                                                              *)
(***************************************************************************)

\* Tasks are at labels of the code and the command queue keeps to its length.
TypeOK ==
    /\ system \in Systems
    /\ pc \in [Tasks \cup {Daemon} -> {"idle", "start_change", "start_reset", "wait",
                                       "cb_stop", "cb_call", "cb_user", "cb_done"}]
    /\ cmdq \in Seq({"stop", "change", "reset"}) /\ Len(cmdq) <= QueueLength
    /\ active \in BOOLEAN
    /\ starts \in 0 .. MaxStarts
    /\ fired \in Nat
    /\ due \in BOOLEAN

\* The timer task never waits for room in the queue that only it can drain: if it
\* has priority over all callers, the stop that pos_timer_cb() sends and the three
\* commands of a restart from the callback always fit into four entries.
DaemonNeverBlocks ==
    Ordered /\ pc[Daemon] \in {"cb_stop", "cb_user", "start_change", "start_reset"}
        => Len(cmdq) < QueueLength

\* os_timer.h: once it has been started, the timer "begins counting down using the
\* new duration": it expires, if nobody stops it.  The stop that pos_timer_cb()
\* sends on every expiry does not cancel a later start.
StartFires == Ordered /\ due ~> ~due

\* The same for every caller for which pos_timer_start() has a branch, interrupt
\* handlers included.
EveryStartFires == due ~> ~due

\* A start starts the timer twice, by "change" and by "reset", and never more: the
\* callback is called at most two times for each start, whatever is dropped,
\* blocked or overtaken.
AtMostTwice == fired <= 2 * starts
=============================================================================
