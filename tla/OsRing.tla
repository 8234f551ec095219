------------------------------- MODULE OsRing -------------------------------
(***************************************************************************)
(* poski::OsRing (include/poski/OsRing.h): a ring of ItemCount slots whose *)
(* read and write indices are free-running uint16_t counters.  They are    *)
(* never reduced to the capacity: a slot is picked by masking an index, and *)
(* the fill level is the difference of the two indices, both modulo the    *)
(* width of the counter.  IndexRange is that modulus (2^16 in the code).   *)
(*                                                                         *)
(* The class asserts its preconditions.  The repository's builds keep      *)
(* assertions enabled, so a failed assertion ends the process: alive       *)
(* becomes FALSE and nothing happens afterwards.                           *)
(***************************************************************************)
EXTENDS Integers, Sequences

CONSTANTS Items,       \* the values an item can have
          ItemCount,   \* _itemCount
          IndexRange   \* number of values of a uint16_t index

\* The constructor asserts that the capacity is a power of two; such a number
\* below the (power of two) range of the index divides it, and this is all
\* that the algorithm relies on.
ASSUME RingAssumption ==
    /\ ItemCount \in Nat \ {0}
    /\ IndexRange \in Nat
    /\ ItemCount < IndexRange
    /\ IndexRange % ItemCount = 0

VARIABLES buffer,      \* _buffer, one entry per slot
          readIndex,   \* _readIndex
          writeIndex,  \* _writeIndex
          alive        \* FALSE once the process has been ended

ringVars == <<buffer, readIndex, writeIndex>>

-----------------------------------------------------------------------------
\* index & (_itemCount - 1), for a power of two.
mask(index) == index % ItemCount

\* Mutant: the index is reduced to the capacity, as in a textbook ring.
inc_at_capacity(index) == (index + 1) % ItemCount

\* index + 1, stored back into a uint16_t.
inc(index) == (index + 1) % IndexRange

\* The difference is computed in int and returned as a uint16_t.
size == (writeIndex - readIndex) % IndexRange

empty == readIndex = writeIndex

full == size = ItemCount

\* The item under the read index (the code returns NULL when empty).
front == buffer[mask(readIndex)]

\* The body of push_back() after its assertion.
push_back(item) ==
    /\ buffer' = [buffer EXCEPT ![mask(writeIndex)] = item]
    /\ writeIndex' = inc(writeIndex)
    /\ UNCHANGED readIndex

\* The body of pop_front() after its assertion.
pop_front ==
    /\ readIndex' = inc(readIndex)
    /\ UNCHANGED <<buffer, writeIndex>>

assert_fails == alive' = FALSE /\ UNCHANGED ringVars

\* The constructor: the storage is allocated and not initialised.
RingInit ==
    /\ buffer \in [0 .. ItemCount - 1 -> Items]
    /\ readIndex = 0
    /\ writeIndex = 0
    /\ alive = TRUE
-----------------------------------------------------------------------------
(***************************************************************************)
(* A single client of the class, as in tests/test_os_ring.cpp, that calls  *)
(* push_back() and pop_front() in any order.                               *)
(***************************************************************************)
Push(item) ==
    /\ alive
    /\ \/ full /\ assert_fails
       \/ ~full /\ push_back(item) /\ UNCHANGED alive

Pop ==
    /\ alive
    /\ \/ empty /\ assert_fails
       \/ ~empty /\ pop_front /\ UNCHANGED alive

\* abort() has ended the process.
Aborted == ~alive /\ UNCHANGED <<ringVars, alive>>

RingNext == Pop \/ Aborted \/ \E item \in Items : Push(item)

RingSpec == RingInit /\ [][RingNext]_<<ringVars, alive>>

-----------------------------------------------------------------------------
(***************************************************************************)
(* Properties                                                              *)
(***************************************************************************)

\* The indices are uint16_t values and every slot holds an item.
RingTypeOK ==
    /\ buffer \in [0 .. ItemCount - 1 -> Items]
    /\ readIndex \in 0 .. IndexRange - 1
    /\ writeIndex \in 0 .. IndexRange - 1
    /\ alive \in BOOLEAN

\* The wrapping difference of the two indices never exceeds the capacity:
\* size() is the fill level also after either index has wrapped around.
RingBounded == size <= ItemCount

\* The items between the read and the write index, oldest first.
Contents == [i \in 1 .. size |-> buffer[mask(readIndex + i - 1)]]

Fifo == INSTANCE BoundedFifo WITH queue <- Contents, Capacity <- ItemCount

\* The ring implements a bounded FIFO queue: push_back() appends behind all
\* the items present and overwrites none of them, and pop_front() removes the
\* oldest, wherever the two uint16_t indices are in their range.
RingImplementsFifo == Fifo!Spec
=============================================================================
