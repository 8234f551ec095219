------------------------------ MODULE MCOsTimer ------------------------------
(***************************************************************************)
(* Instances of OsTimer for all ports.  A second has four milliseconds     *)
(* of two nanoseconds; a kernel has two ticks per second, or eight, where  *)
(* the product in the conversion wraps.  The POSIX clock and a kernel      *)
(* clock start at zero and shortly before they wrap.                       *)
(***************************************************************************)
EXTENDS OsTimer

Sys(ports, hz, starts) ==
    [port : ports, hz : {hz}, saturates : {FALSE}, start : starts]

MCSystems ==
    Sys({"posix"}, 4, {0, 30})
       \cup [port : {"posix"}, hz : {4}, saturates : {TRUE}, start : {30}]
       \cup Sys({"apple"}, 8, {0})
       \cup Sys({"freertos", "zephyr", "rt-thread"}, 2, {0, 59})
       \cup Sys({"zephyr"}, 8, {0})

OnPosix    == Sys({"posix"}, 4, {0})
OnApple    == Sys({"apple"}, 8, {0})
OnFreeRtos == Sys({"freertos"}, 8, {0})

MCCalendars == {0, 6}
MCDurations == {0, 1, 7}
=============================================================================
