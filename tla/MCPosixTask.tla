----------------------------- MODULE MCPosixTask -----------------------------
(***************************************************************************)
(* An instance of PosixTask: a task that produces, one that consumes, and  *)
(* a thread that nobody removes and that consumes too.                     *)
(***************************************************************************)
EXTENDS PosixTask

CONSTANTS a,          \* a message
          p1,         \* a producer
          c1, c2,     \* consumers
          m1          \* a manager

OneItem     == {a}
OneProducer == {p1}
MCConsumers == {c1, c2}
MCTasks     == {p1, c1}
OneManager  == {m1}
Nobody      == {}
WaitOrNot   == {"NO_WAIT", "FOREVER"}
=============================================================================
