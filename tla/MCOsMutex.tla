----------------------------- MODULE MCOsMutex -----------------------------
(***************************************************************************)
(* Instances of OsMutex: a second of two units, so that the fraction of a  *)
(* POSIX deadline overflows, and timeouts of zero, a part of a second and  *)
(* more than a second.  Two deadlines computed at once can add up, so the  *)
(* clock runs to the last call plus twice the longest timeout.             *)
(***************************************************************************)
EXTENDS OsMutex

CONSTANTS t1, t2, t3

TwoThreads   == {t1, t2}
ThreeThreads == {t1, t2, t3}
ZeroOrThree  == {0, 3}
WholeSeconds == {0, 4}
AllPorts     == {"posix", "apple", "freertos", "zephyr", "rt-thread"}
PosixOnly    == {"posix"}
=============================================================================
