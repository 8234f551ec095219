--------------------------- MODULE PosixTimedWait ---------------------------
(***************************************************************************)
(* What pos_mutex_lock() and pos_sem_take() of the POSIX port share: the   *)
(* computation of an absolute deadline from a timeout, and the translation *)
(* of errno values (targets/posix/os_utils.c).  Beside it, how long the    *)
(* kernels wait to which the other ports pass a timeout.                   *)
(*                                                                         *)
(* Time is counted in units of the API (milliseconds), of which a second   *)
(* has TicksPerSec; the field tv_nsec is counted in the same units.  A     *)
(* kernel has a tick of its own, KernelHz times a second.                  *)
(***************************************************************************)
EXTENDS Integers

CONSTANTS TicksPerSec,   \* 1000 (milliseconds) in the code
          KernelHz,      \* configTICK_RATE_HZ, RT_TICK_PER_SECOND
          Timeouts,      \* finite timeouts, in milliseconds; 0 is POS_TIME_NO_WAIT
          Forever        \* POS_TIME_FOREVER

ASSUME TimeAssumption ==
    /\ TicksPerSec \in Nat \ {0}
    /\ KernelHz \in Nat \ {0}
    /\ Timeouts \subseteq Nat
    /\ Forever \notin Timeouts

\* clock_gettime(CLOCK_REALTIME)
gettime(clock) == [tv_sec |-> clock \div TicksPerSec, tv_nsec |-> clock % TicksPerSec]

\* Mutant: the part of the timeout below a second is forgotten.
addSecondsOnly(wait, timeout) ==
    [wait EXCEPT !.tv_sec = @ + (timeout \div TicksPerSec)]

\* The fields are added separately, and tv_nsec is not carried over into tv_sec.
addTimeout(wait, timeout) ==
    [tv_sec  |-> wait.tv_sec + (timeout \div TicksPerSec),
     tv_nsec |-> wait.tv_nsec + (timeout % TicksPerSec)]

\* What a timed wait accepts: a tv_nsec of less than a second.
validTime(wait) == wait.tv_nsec < TicksPerSec

reached(wait, clock) == (wait.tv_sec * TicksPerSec) + wait.tv_nsec <= clock

\* The tick count of a kernel, and the time of a tick, rounded up.
kernelTick(clock) == (clock * KernelHz) \div TicksPerSec
tickTime(tick)    == ((tick * TicksPerSec) + KernelHz - 1) \div KernelHz

\* When a kernel call with a timeout stops waiting.  K_MSEC() converts on Zephyr;
\* FreeRTOS and RT-Thread are given the number of milliseconds as a number of
\* ticks, and count the running tick as the first one.
kernelDeadline(port, clock, timeout) ==
    IF port = "zephyr" THEN clock + timeout ELSE tickTime(kernelTick(clock) + timeout)

\* The time within which a port can tell two moments apart.
resolution(port) == IF port \in {"freertos", "rt-thread"} THEN tickTime(1) ELSE 1

map_posix_to_osal_error(ret) ==
    CASE ret = "0"         -> "POS_OK"
      [] ret = "ENOMEM"    -> "POS_ENOMEM"
      [] ret = "ETIMEDOUT" -> "POS_TIMEOUT"
      [] ret = "EBUSY"     -> "POS_EBUSY"
      [] ret = "EINVAL"    -> "POS_EINVAL"
      [] ret = "EDEADLK"   -> "POS_BAD_MUTEX"
      [] ret = "EPERM"     -> "POS_ERR_PRIV"
      [] OTHER             -> "POS_ERROR"
=============================================================================
