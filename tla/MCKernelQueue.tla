---------------------------- MODULE MCKernelQueue ----------------------------
(***************************************************************************)
(* Instances of KernelQueue: two tasks and an interrupt handler share a    *)
(* queue of two messages.                                                  *)
(***************************************************************************)
EXTENDS KernelQueue

CONSTANTS t1, t2, isr, m1, m2

TwoTasks == {t1, t2}
OneIsr   == {isr}
\* One task only receives, one does both, and the interrupt handler sends.
MCProducers == {t1, isr}
TwoItems == {m1, m2}
AllPorts == {"freertos", "zephyr", "rt-thread"}
FreeRtos == {"freertos"}
=============================================================================
