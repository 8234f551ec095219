---------------------------- MODULE MCPosixQueue ----------------------------
(***************************************************************************)
(* Instances of PosixQueue: two slots and a 2-bit index, so that the ring  *)
(* fills up and the indices wrap while several threads are inside a call.  *)
(***************************************************************************)
EXTENDS PosixQueue, TLC

CONSTANTS a, b,             \* messages
          p1,               \* a producer
          c1, c2            \* consumers, of which c1 also produces

MCItems     == {a, b}
OneItem     == {a}
MCProducers == {p1, c1}
MCConsumers == {c1, c2}
OneProducer == {p1}
OneConsumer == {c1}
SecondConsumer == {c2}
WaitOrNot   == {"NO_WAIT", "FOREVER"}
Finite      == {"FINITE"}
Nobody      == {}

=============================================================================
