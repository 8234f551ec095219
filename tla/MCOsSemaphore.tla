---------------------------- MODULE MCOsSemaphore ----------------------------
(***************************************************************************)
(* Instances of OsSemaphore: a second of two units, so that the fraction   *)
(* of a POSIX deadline overflows, and a semaphore that overflows at two    *)
(* tokens.  The tick of a kernel is of two units in the run for all ports, *)
(* and of half a unit in the one for the ports that take units for ticks.  *)
(***************************************************************************)
EXTENDS OsSemaphore

CONSTANTS t1, t2, g1

TwoTakers    == {t1, t2}
\* A thread that only gives, and one that does both.
MCGivers     == {g1, t1}
ZeroOrThree  == {0, 3}
AllPorts     == {"posix", "apple", "freertos", "zephyr", "rt-thread"}
\* The ports that pass milliseconds as ticks.
TickPorts    == {"freertos", "rt-thread"}
=============================================================================
