---------------------------- MODULE MCPosixTimer ----------------------------
(***************************************************************************)
(* Instances of PosixTimer with two threads for callbacks, so that one     *)
(* expiry can overtake the callback of the one before.                     *)
(***************************************************************************)
EXTENDS PosixTimer

CONSTANTS s1, s2,       \* clients
          n1, n2        \* threads of callbacks

TwoClients   == {s1, s2}
OneClient    == {s1}
Nobody       == {}
TwoNotifiers == {n1, n2}
ZeroOrOne    == {0, 1}
=============================================================================
