-------------------------- MODULE MCFreeRtosTimer --------------------------
(***************************************************************************)
(* Instances of FreeRtosTimer with a queue of four commands, the least in  *)
(* which the callback can stop and restart its timer: for every kind of    *)
(* system, and for interrupt handlers that start the timer.                *)
(***************************************************************************)
EXTENDS FreeRtosTimer

CONSTANTS s1, s2

TwoTasks   == {s1, s2}
AllSystems == [preempts : BOOLEAN, interrupts : BOOLEAN]
\* The configuration of the repository, with a handler that starts the timer.
WithInterrupts == {[preempts |-> TRUE, interrupts |-> TRUE]}
============================================================================
