---------------------------- MODULE MCZephyrTask ----------------------------
(***************************************************************************)
(* Instances of ZephyrTask with fewer stacks than task objects, so that    *)
(* the table fills up and stacks are used again.                           *)
(***************************************************************************)
EXTENDS ZephyrTask, TLC

CONSTANTS c1, c2,
          t1, t2, t3, t4

OneCaller  == {c1}
TwoCallers == {c1, c2}
ThreeTasks == {t1, t2, t3}
FourTasks  == {t1, t2, t3, t4}
=============================================================================
