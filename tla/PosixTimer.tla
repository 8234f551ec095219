----------------------------- MODULE PosixTimer -----------------------------
(***************************************************************************)
(* The one-shot timer of the POSIX port (targets/posix/os_timer.c, the     *)
(* Linux implementation).  The kernel timer is created with SIGEV_THREAD:  *)
(* every expiry runs pos_timer_cb() in a thread of its own, concurrently   *)
(* with the threads that call pos_timer_start() and pos_timer_stop().      *)
(* Nothing in struct pos_timer is protected by a lock, so each assignment  *)
(* and each system call is a step.                                         *)
(*                                                                         *)
(* Starts are numbered; the number of a start stands for its expiry time,  *)
(* in tm_ticks as well as in the kernel.                                   *)
(***************************************************************************)
EXTENDS Naturals, FiniteSets

CONSTANTS Starters,     \* threads that call pos_timer_start()
          Stoppers,     \* threads that call pos_timer_stop()
          Notifiers,    \* threads that run pos_timer_cb() (bounds the callbacks in flight)
          Restarting,   \* whether tm_cb may call pos_timer_start() itself, once
          Durations,    \* the ticks passed to pos_timer_start()
          ClientStarts, \* bound: clients start the timer up to this number only
          MaxStarts     \* bound on the number of starts

Clients == Starters \cup Stoppers
Threads == Clients \cup Notifiers

ASSUME TimerAssumption ==
    /\ IsFiniteSet(Threads)
    /\ Clients \cap Notifiers = {}
    /\ Restarting \in BOOLEAN
    /\ Durations \subseteq Nat
    /\ ClientStarts \in Nat
    /\ MaxStarts \in Nat

VARIABLES pc,          \* where each thread is
          its,         \* its.it_value of a start in progress, and its number
          tm_active,   \* timer->tm_active
          tm_ticks,    \* timer->tm_ticks
          armed,       \* the start for which the kernel timer runs, 0 if disarmed
          starts,      \* the number of starts so far
          fired,       \* the number of calls of tm_cb so far
          solo         \* history: no client has used the timer after its first start

vars == <<pc, its, tm_active, tm_ticks, armed, starts, fired, solo>>

goto(t, label) == pc' = [pc EXCEPT ![t] = label]

\* A call returns to the client or to the callback that has made it.
return(t) == goto(t, IF t \in Clients THEN "idle" ELSE "cb_done")

\* pos_timer_init(): created, disarmed and inactive.
Init ==
    /\ pc = [t \in Threads |-> IF t \in Clients THEN "idle" ELSE "none"]
    /\ its = [t \in Threads |-> [value |-> 0, id |-> 0]]
    /\ tm_active = FALSE
    /\ tm_ticks = 0
    /\ armed = 0
    /\ starts = 0
    /\ fired = 0
    /\ solo = TRUE

-----------------------------------------------------------------------------
(***************************************************************************)
(* pos_timer_start()                                                       *)
(***************************************************************************)
MayStart(t) ==
    \/ t \in Starters /\ pc[t] = "idle" /\ starts < ClientStarts
    \/ Restarting /\ pc[t] = "cb_user"

\* "if (ticks == 0) ticks = 1": an it_value of 0 would disarm the timer.
AtLeastOne(ticks) == IF ticks = 0 THEN 1 ELSE ticks

StartTicks(t, ticks) ==
    /\ MayStart(t)
    /\ starts < MaxStarts
    /\ starts' = starts + 1
    /\ tm_ticks' = starts + 1
    /\ its' = [its EXCEPT ![t] = [value |-> AtLeastOne(ticks), id |-> starts + 1]]
    /\ solo' = (solo /\ (t \in Clients => starts = 0))
    /\ goto(t, "start_active")
    /\ UNCHANGED <<tm_active, armed, fired>>

StartActive(t) ==
    /\ pc[t] = "start_active"
    /\ tm_active' = TRUE
    /\ goto(t, "start_settime")
    /\ UNCHANGED <<its, tm_ticks, armed, starts, fired, solo>>

\* timer_settime() replaces whatever the timer was set to; it disarms the timer
\* when the value is 0.  Its arguments are always valid here.
StartSettime(t) ==
    /\ pc[t] = "start_settime"
    /\ armed' = IF its[t].value = 0 THEN 0 ELSE its[t].id
    /\ its' = [its EXCEPT ![t] = [value |-> 0, id |-> 0]]
    /\ return(t)
    /\ UNCHANGED <<tm_active, tm_ticks, starts, fired, solo>>

-----------------------------------------------------------------------------
(***************************************************************************)
(* pos_timer_stop()                                                        *)
(***************************************************************************)
StopSettime(t) ==
    /\ t \in Stoppers
    /\ pc[t] = "idle"
    /\ armed' = 0
    /\ solo' = FALSE
    /\ goto(t, "stop_clear")
    /\ UNCHANGED <<its, tm_active, tm_ticks, starts, fired>>

StopClear(t) ==
    /\ pc[t] = "stop_clear"
    /\ tm_active' = FALSE
    /\ return(t)
    /\ UNCHANGED <<its, tm_ticks, armed, starts, fired, solo>>

-----------------------------------------------------------------------------
(***************************************************************************)
(* Expiry and pos_timer_cb()                                               *)
(***************************************************************************)

\* Mutant: it_interval is set, and the timer goes on after it has expired.
ExpirePeriodic(n) ==
    /\ armed # 0
    /\ pc[n] = "none"
    /\ goto(n, "cb_clear")
    /\ UNCHANGED <<its, tm_active, tm_ticks, armed, starts, fired, solo>>

\* it_interval is 0: the kernel timer expires once and is disarmed.  From here
\* on the callback will run, also if the timer is stopped or started again.
Expire(n) ==
    /\ armed # 0
    /\ pc[n] = "none"
    /\ armed' = 0
    /\ goto(n, "cb_clear")
    /\ UNCHANGED <<its, tm_active, tm_ticks, starts, fired, solo>>

\* Mutant: the callback does not touch tm_active.
CbClearMissing(n) ==
    /\ pc[n] = "cb_clear"
    /\ goto(n, "cb_call")
    /\ UNCHANGED <<its, tm_active, tm_ticks, armed, starts, fired, solo>>

CbClear(n) ==
    /\ pc[n] = "cb_clear"
    /\ tm_active' = FALSE
    /\ goto(n, "cb_call")
    /\ UNCHANGED <<its, tm_ticks, armed, starts, fired, solo>>

\* tm_cb(tm_arg) begins.
CbCall(n) ==
    /\ pc[n] = "cb_call"
    /\ fired' = fired + 1
    /\ goto(n, "cb_user")
    /\ UNCHANGED <<its, tm_active, tm_ticks, armed, starts, solo>>

\* Mutant: tm_active is cleared (again) when the callback is over.
CbReturnClearing(n) ==
    /\ pc[n] \in {"cb_user", "cb_done"}
    /\ tm_active' = FALSE
    /\ goto(n, "none")
    /\ UNCHANGED <<its, tm_ticks, armed, starts, fired, solo>>

CbReturn(n) ==
    /\ pc[n] \in {"cb_user", "cb_done"}
    /\ goto(n, "none")
    /\ UNCHANGED <<its, tm_active, tm_ticks, armed, starts, fired, solo>>

-----------------------------------------------------------------------------
Step(t) ==
    \/ StartActive(t) \/ StartSettime(t) \/ StopClear(t)
    \/ CbClear(t) \/ CbCall(t) \/ CbReturn(t)

Next ==
    \E t \in Threads :
        \/ Step(t)
        \/ \E ticks \in Durations : StartTicks(t, ticks)
        \/ t \in Stoppers /\ StopSettime(t)
        \/ t \in Notifiers /\ Expire(t)

Spec == Init /\ [][Next]_vars

\* Threads are scheduled, time passes and the kernel delivers the expiry; no
\* client has to start or stop the timer.
Fairness ==
    /\ \A t \in Threads : WF_vars(Step(t))
    /\ WF_vars(\E n \in Notifiers : Expire(n))

FairSpec == Spec /\ Fairness

-----------------------------------------------------------------------------
(***************************************************************************)
(* Properties                                                              *)
(***************************************************************************)
ClientLabels   == {"idle", "start_active", "start_settime", "stop_clear"}
NotifierLabels == {"none", "cb_clear", "cb_call", "cb_user", "cb_done",
                   "start_active", "start_settime"}

\* Threads are at labels of the code, and only what a start in progress will
\* pass to the kernel, which is never 0, is kept.
TypeOK ==
    /\ pc \in [Threads -> ClientLabels \cup NotifierLabels]
    /\ \A t \in Threads :
          /\ pc[t] \in IF t \in Clients THEN ClientLabels ELSE NotifierLabels
          /\ its[t].value # 0 <=> pc[t] \in {"start_active", "start_settime"}
          /\ its[t].id # 0 <=> pc[t] \in {"start_active", "start_settime"}
    /\ its \in [Threads -> [value : Nat, id : 0 .. MaxStarts]]
    /\ tm_active \in BOOLEAN
    /\ tm_ticks \in 0 .. MaxStarts
    /\ armed \in 0 .. MaxStarts
    /\ starts \in 0 .. MaxStarts
    /\ fired \in Nat
    /\ solo \in BOOLEAN

\* A timer reported as active always has something ahead that will clear it: the
\* kernel timer runs, or an expiry is on its way to pos_timer_cb(), or a start
\* has not armed it yet, or a stop has not cleared it yet.  However starts, stops
\* and expiries interleave, is_active() is not left true on a dead timer.
ActiveHasCause ==
    tm_active => \/ armed # 0
                 \/ \E t \in Threads : pc[t] \in {"cb_clear", "start_settime", "stop_clear"}

\* The expiries that are still to come, or to reach tm_cb.
Outstanding ==
    {t \in Threads : pc[t] \in {"start_active", "start_settime", "cb_clear", "cb_call"}}

\* One start makes at most one call of tm_cb, also when the timer is started again
\* while it runs: the calls made, under way and due never outnumber the starts.
OneShot ==
    fired + Cardinality(Outstanding) + (IF armed # 0 THEN 1 ELSE 0) <= starts

Quiet == \A t \in Threads : pc[t] \notin {"start_active", "start_settime", "stop_clear"}

\* A timer that nobody but its own callback restarts (a periodic timer built from
\* the one-shot one) is reported as active, and with the expiry time it really
\* has, whenever it runs: pos_timer_cb() clears tm_active before it calls tm_cb.
RunningIsActive == solo /\ armed # 0 /\ Quiet => tm_active /\ tm_ticks = armed

\* A timer that runs is reported as active, whoever has started it, as
\* tests/test_os_timer_cpp_gtest.cpp expects right after a start.
StartedIsActive == armed # 0 /\ Quiet => tm_active

\* A timer that is started finitely often becomes inactive, stopped or expired.
ActiveEnds == tm_active ~> ~tm_active
=============================================================================
