-------------------------------- MODULE OsTime --------------------------------
(***************************************************************************)
(* OsTime (include/poski/OsTime.h) in every port: the clock, and the       *)
(* conversions between milliseconds and ticks.  pos_time_t is an unsigned  *)
(* 32-bit integer, on Apple one of 64 bits; what the ports compute in it   *)
(* wraps where they compute in it.                                         *)
(*                                                                         *)
(* Real time is counted in nanoseconds, of which a second has few in an    *)
(* instance.  The Apple port reads the calendar, which may be set; the     *)
(* others read a clock that counts from the boot of the system.            *)
(***************************************************************************)
EXTENDS Naturals

CONSTANTS NsPerSec,    \* 10^9
          MsPerSec,    \* 1000
          TimeRange,   \* 2^32
          Calendars,   \* by how much the calendar can be ahead of the time since boot
          Systems      \* the systems to look at, see the variable system

PortNames == {"posix", "apple", "freertos", "zephyr", "rt-thread"}

\* Milliseconds and ticks are whole numbers of nanoseconds, and RT-Thread has a
\* whole number of milliseconds per tick.  A POSIX tick is a millisecond, and a
\* millisecond is a whole number of ticks of the Apple port (microseconds).
ASSUME TimeAssumption ==
    /\ NsPerSec \in Nat \ {0}
    /\ MsPerSec \in Nat \ {0} /\ NsPerSec % MsPerSec = 0
    /\ TimeRange \in Nat \ {0}
    /\ Calendars \subseteq Nat
    /\ Systems \subseteq [port : PortNames, hz : Nat \ {0}, saturates : BOOLEAN, start : Nat]
    /\ \A s \in Systems :
          /\ NsPerSec % s.hz = 0
          /\ s.port = "rt-thread" => MsPerSec % s.hz = 0
          /\ s.port = "posix" => s.hz = MsPerSec
          /\ s.port = "apple" => s.hz % MsPerSec = 0

VARIABLES system,   \* never changes: the port, POS_TICKS_PER_SEC, how the build converts
                    \* a number that is out of range, the time at which the program starts
          now,      \* real time, from the boot of the system
          calendar  \* by how much the calendar is ahead of it (Apple)

port == system.port
POS_TICKS_PER_SEC == system.hz

NsPerMs   == NsPerSec \div MsPerSec
NsPerTick == NsPerSec \div POS_TICKS_PER_SEC

Ceil(a, b) == (a + b - 1) \div b

-----------------------------------------------------------------------------
\* The value of a double as a pos_time_t.  A value that is out of range is undefined
\* behaviour: processors wrap it or saturate it.
pos_time_t(x) ==
    CASE port = "apple" \/ x < TimeRange -> x
      [] OTHER -> IF system.saturates THEN TimeRange - 1 ELSE x % TimeRange

\* Mutant: dividing before multiplying.
ms_to_ticks_coarse(ms) == (ms \div MsPerSec) * POS_TICKS_PER_SEC

ms_to_ticks_posix(ms)     == pos_time_t((ms * POS_TICKS_PER_SEC) \div MsPerSec)
ms_to_ticks_freertos(ms)  == ((ms * POS_TICKS_PER_SEC) % TimeRange) \div MsPerSec
ms_to_ticks_rt_thread(ms) == ((ms * POS_TICKS_PER_SEC) % TimeRange) \div MsPerSec
ms_to_ticks_zephyr(ms)    == Ceil(ms * POS_TICKS_PER_SEC, MsPerSec) % TimeRange

pos_time_ms_to_ticks(ms) ==
    CASE port \in {"posix", "apple"} -> ms_to_ticks_posix(ms)
      [] port = "freertos"           -> ms_to_ticks_freertos(ms)
      [] port = "zephyr"             -> ms_to_ticks_zephyr(ms)
      [] port = "rt-thread"          -> ms_to_ticks_rt_thread(ms)

\* Mutant: the factors are swapped.
ticks_to_ms_swapped(ticks) == pos_time_t((ticks * POS_TICKS_PER_SEC) \div MsPerSec)

ticks_to_ms_posix(ticks)     == pos_time_t((ticks * MsPerSec) \div POS_TICKS_PER_SEC)
ticks_to_ms_freertos(ticks)  == ((ticks * MsPerSec) % TimeRange) \div POS_TICKS_PER_SEC
ticks_to_ms_rt_thread(ticks) == ((ticks * MsPerSec) % TimeRange) \div POS_TICKS_PER_SEC
ticks_to_ms_zephyr(ticks)    == ((ticks * MsPerSec) \div POS_TICKS_PER_SEC) % TimeRange

pos_time_ticks_to_ms(ticks) ==
    CASE port \in {"posix", "apple"} -> ticks_to_ms_posix(ticks)
      [] port = "freertos"           -> ticks_to_ms_freertos(ticks)
      [] port = "zephyr"             -> ticks_to_ms_zephyr(ticks)
      [] port = "rt-thread"          -> ticks_to_ms_rt_thread(ticks)

\* The ticks since boot.
uptime_ticks == now \div NsPerTick

\* The clock that pos_time_get() reads: CALENDAR_CLOCK on Apple, CLOCK_MONOTONIC in
\* the POSIX port, the tick counter of a kernel.
clock_ns == IF port = "apple" THEN now + calendar ELSE now

\* The calendar is set, forwards or backwards.
SetCalendar == port = "apple" /\ calendar' \in Calendars

time_get_posix     == pos_time_t(uptime_ticks)
time_get_apple     == pos_time_t(clock_ns \div NsPerTick)
time_get_freertos  == uptime_ticks % TimeRange
time_get_zephyr    == uptime_ticks % TimeRange
time_get_rt_thread == uptime_ticks % TimeRange

pos_time_get ==
    CASE port = "posix"     -> time_get_posix
      [] port = "apple"     -> time_get_apple
      [] port = "freertos"  -> time_get_freertos
      [] port = "zephyr"    -> time_get_zephyr
      [] port = "rt-thread" -> time_get_rt_thread

\* k_uptime_get_32() converts 64 bits of ticks, rt_tick_get_millisecond() 32.
time_get_ms_posix     == ticks_to_ms_posix(pos_time_get)
time_get_ms_freertos  == ticks_to_ms_freertos(pos_time_get)
time_get_ms_zephyr    == ((uptime_ticks * MsPerSec) \div POS_TICKS_PER_SEC) % TimeRange
time_get_ms_rt_thread == (pos_time_get * (MsPerSec \div POS_TICKS_PER_SEC)) % TimeRange

pos_time_get_ms ==
    CASE port \in {"posix", "apple"} -> time_get_ms_posix
      [] port = "freertos"           -> time_get_ms_freertos
      [] port = "zephyr"             -> time_get_ms_zephyr
      [] port = "rt-thread"          -> time_get_ms_rt_thread

-----------------------------------------------------------------------------
(***************************************************************************)
(* Properties                                                              *)
(***************************************************************************)

\* What a port's clock in milliseconds holds without wrapping: the FreeRTOS port
\* multiplies ticks by 1000 in 32 bits.
MsClockInRange ==
    CASE port = "freertos" -> uptime_ticks * MsPerSec < TimeRange
      [] port = "posix"    -> uptime_ticks < TimeRange
      [] port = "apple"    -> TRUE
      [] OTHER             -> now \div NsPerMs < TimeRange

\* The clock in milliseconds is right at a time, but for the tick that is running, in
\* whole milliseconds.
MsClockShows(time) ==
    /\ pos_time_get_ms <= time \div NsPerMs
    /\ time \div NsPerMs <= pos_time_get_ms + Ceil(MsPerSec, POS_TICKS_PER_SEC)

\* pos_time_get_ms() follows the clock that the port reads, the calendar on Apple and
\* the time since boot elsewhere, as long as the port's arithmetic is in its range,
\* which on FreeRTOS is a part of that of pos_time_t only.
MsClockFollowsClock == MsClockInRange => MsClockShows(clock_ns)

\* os_time.h: "the elapsed time since the system booted, in milliseconds": what
\* pos_time_get_ms() returns for as long as a pos_time_t can hold it.
ElapsedSinceBoot == now \div NsPerMs < TimeRange => MsClockShows(now)
=============================================================================
