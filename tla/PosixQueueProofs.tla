-------------------------- MODULE PosixQueueProofs --------------------------
(***************************************************************************)
(* Proofs about OsRing, PosixQueue and PosixTask: first the ring, for      *)
(* every capacity and every index width that satisfy RingAssumption; then  *)
(* the queue around it, for any number of threads and any set of messages; *)
(* then the queue when tasks that use it are removed, for any number of    *)
(* tasks and managers.  Each part rests on the one before.                 *)
(***************************************************************************)
EXTENDS PosixTask, SequenceTheorems, FiniteSetTheorems, TLAPS

(***************************************************************************)
(* Facts about remainders: the code computes with unsigned integers of a   *)
(* fixed width, and masks an index to a slot.                              *)
(***************************************************************************)

\* A remainder is smaller than its divisor.
LEMMA ModRange ==
    ASSUME NEW n \in Int, NEW R \in Nat \ {0}
    PROVE  n % R \in 0 .. R - 1
OBVIOUS

\* A number is a multiple of the divisor plus its remainder.
LEMMA ModDiv ==
    ASSUME NEW n \in Int, NEW R \in Nat \ {0}
    PROVE  \E q \in Int : n = (R * q) + (n % R)
<1>1. n \div R \in Int
  OBVIOUS
<1>2. n = (R * (n \div R)) + (n % R)
  OBVIOUS
<1> QED
  BY <1>1, <1>2

\* The remainder is determined by that decomposition.
LEMMA ModUnique ==
    ASSUME NEW R \in Nat \ {0}, NEW q \in Int, NEW r \in 0 .. R - 1
    PROVE  ((R * q) + r) % R = r
OBVIOUS

\* Reducing a number that is in range already changes nothing.
LEMMA ModSmall ==
    ASSUME NEW R \in Nat \ {0}, NEW r \in 0 .. R - 1
    PROVE  r % R = r
OBVIOUS

\* The only multiple of R strictly between -R and R is 0.
LEMMA SmallMultiple ==
    ASSUME NEW R \in Nat \ {0}, NEW k \in Int, R * k < R, R * k > -R
    PROVE  k = 0
OBVIOUS

\* Numbers that differ by a multiple of the divisor have the same remainder.
LEMMA ModShift ==
    ASSUME NEW R \in Nat \ {0}, NEW n \in Int, NEW k \in Int
    PROVE  (n + (R * k)) % R = n % R
<1>1. PICK q \in Int : n = (R * q) + (n % R)
  BY ModDiv
<1>2. n % R \in 0 .. R - 1
  BY ModRange
<1>3. n + (R * k) = (R * (q + k)) + (n % R)
  BY <1>1, <1>2
<1>4. q + k \in Int
  OBVIOUS
<1>5. ((R * (q + k)) + (n % R)) % R = n % R
  BY ONLY R \in Nat \ {0}, <1>2, <1>4, ModUnique
<1> QED
  BY ONLY <1>3, <1>5

\* Reducing modulo a multiple R of N first does not change a remainder by N.
LEMMA ModModAdd ==
    ASSUME NEW N \in Nat \ {0}, NEW R \in Nat \ {0}, R % N = 0,
           NEW a \in Int, NEW b \in Int
    PROVE  ((a % R) + b) % N = (a + b) % N
<1>1. PICK q \in Int : a = (R * q) + (a % R)
  BY ModDiv
<1>2. PICK m \in Int : R = (N * m) + 0
  BY ModDiv
<1>3. a % R \in Int
  BY ModRange
<1>4. R * q = N * (m * q)
  BY <1>2
<1>5. m * q \in Int
  OBVIOUS
<1>6. a = (N * (m * q)) + (a % R)
  BY ONLY <1>1, <1>4
<1>7. /\ (a % R) + b \in Int
      /\ a + b = ((a % R) + b) + (N * (m * q))
  BY ONLY <1>3, <1>5, <1>6, N \in Nat \ {0}, a \in Int, b \in Int
<1> QED
  BY ONLY N \in Nat \ {0}, <1>5, <1>7, ModShift

\* A term of a sum may be reduced before the sum is.
LEMMA ModAdd ==
    ASSUME NEW R \in Nat \ {0}, NEW a \in Int, NEW b \in Int
    PROVE  ((a % R) + b) % R = (a + b) % R
<1>1. R % R = 0
  BY ModUnique
<1> QED
  BY ONLY R \in Nat \ {0}, a \in Int, b \in Int, <1>1, ModModAdd

\* The subtrahend of a difference may be reduced before the difference is.
LEMMA ModSub ==
    ASSUME NEW R \in Nat \ {0}, NEW a \in Int, NEW b \in Int
    PROVE  (b - (a % R)) % R = (b - a) % R
<1>1. PICK q \in Int : a = (R * q) + (a % R)
  BY ModDiv
<1>2. a % R \in Int
  BY ModRange
<1>3. b - a \in Int /\ b - (a % R) = (b - a) + (R * q)
  BY <1>1, <1>2
<1> QED
  BY ONLY R \in Nat \ {0}, q \in Int, <1>3, ModShift

\* Two numbers less than N apart have different remainders by N.
LEMMA ModDistinct ==
    ASSUME NEW N \in Nat \ {0}, NEW a \in Int, NEW d \in 1 .. N - 1
    PROVE  (a + d) % N # a % N
<1> SUFFICES ASSUME (a + d) % N = a % N
             PROVE  FALSE
  OBVIOUS
<1>1. PICK q \in Int : a = (N * q) + (a % N)
  BY ModDiv
<1>2. a + d \in Int
  OBVIOUS
<1>3. PICK p \in Int : a + d = (N * p) + ((a + d) % N)
  BY ONLY N \in Nat \ {0}, <1>2, ModDiv
<1>4. a % N \in Int
  BY ModRange
<1>5. d = N * (p - q)
  BY <1>1, <1>3, <1>4
<1>6. p - q = 0
  BY <1>5, SmallMultiple
<1> QED
  BY <1>5, <1>6

-----------------------------------------------------------------------------
(***************************************************************************)
(* The ring.                                                               *)
(***************************************************************************)

\* The inductive invariant: the typing and the bound on the fill level are
\* only inductive together, as ItemCount < IndexRange keeps a full ring from
\* looking like an empty one.
RingInv == RingTypeOK /\ RingBounded

\* What the proofs use of the assumption on the capacity and the index range.
LEMMA ConstantFacts ==
    /\ ItemCount \in Nat \ {0}
    /\ IndexRange \in Nat \ {0}
    /\ ItemCount < IndexRange
    /\ IndexRange % ItemCount = 0
BY RingAssumption

\* size() is a number below IndexRange, and 0 exactly when empty() holds.
LEMMA SizeFacts ==
    ASSUME RingTypeOK
    PROVE  /\ size \in 0 .. IndexRange - 1
           /\ empty <=> size = 0
<1> USE ConstantFacts
<1>1. /\ readIndex \in 0 .. IndexRange - 1
      /\ writeIndex \in 0 .. IndexRange - 1
  BY DEF RingTypeOK
<1>2. size \in 0 .. IndexRange - 1
  BY <1>1, ModRange DEF size
<1>3. CASE readIndex = writeIndex
  BY <1>1, <1>2, <1>3, ModSmall DEF size, empty
<1>4. CASE readIndex < writeIndex
  <2>1. writeIndex - readIndex \in 1 .. IndexRange - 1
    BY <1>1, <1>4
  <2>2. size = writeIndex - readIndex
    BY <2>1, ModSmall DEF size
  <2> QED
    BY <1>1, <1>2, <1>4, <2>1, <2>2 DEF empty
<1>5. CASE writeIndex < readIndex
  <2>1. (writeIndex - readIndex) + IndexRange \in 1 .. IndexRange - 1
    BY <1>1, <1>5
  <2>2. size = (writeIndex - readIndex) + IndexRange
    <3>1. writeIndex - readIndex \in Int /\ 1 \in Int
      BY <1>1
    <3>2. size = ((writeIndex - readIndex) + (IndexRange * 1)) % IndexRange
      BY ONLY ConstantFacts, <3>1, ModShift DEF size
    <3>3. IndexRange * 1 = IndexRange
      OBVIOUS
    <3> QED
      BY ONLY ConstantFacts, <2>1, <3>2, <3>3, ModSmall
  <2> QED
    BY <1>1, <1>2, <1>5, <2>1, <2>2 DEF empty
<1> QED
  BY <1>1, <1>3, <1>4, <1>5

\* The slot under the write index is the one size places behind the front.
LEMMA WriteSlot ==
    ASSUME RingTypeOK
    PROVE  mask(writeIndex) = mask(readIndex + size)
<1> USE ConstantFacts
<1>1. readIndex \in Int /\ writeIndex \in Int /\ writeIndex - readIndex \in Int
  BY DEF RingTypeOK
<1>2. (size + readIndex) % ItemCount = ((writeIndex - readIndex) + readIndex) % ItemCount
  BY ONLY ConstantFacts, <1>1, ModModAdd DEF size
<1>3. size \in Int
  BY SizeFacts
<1> QED
  BY <1>1, <1>2, <1>3 DEF mask

\* Contents is the sequence of the size items from the front on.
LEMMA ContentsFacts ==
    ASSUME RingTypeOK
    PROVE  /\ Contents \in Seq(Items)
           /\ Len(Contents) = size
           /\ DOMAIN Contents = 1 .. size
<1> USE ConstantFacts
<1>1. size \in Nat
  BY SizeFacts
<1>2. ASSUME NEW i \in 1 .. size
      PROVE  buffer[mask(readIndex + i - 1)] \in Items
  <2>1. readIndex + i - 1 \in Int
    BY <1>1 DEF RingTypeOK
  <2>2. mask(readIndex + i - 1) \in 0 .. ItemCount - 1
    BY ONLY ConstantFacts, <2>1, ModRange DEF mask
  <2> QED
    BY <2>2 DEF RingTypeOK
<1> QED
  BY <1>1, <1>2 DEF Contents

\* push_back() below the capacity keeps the invariant and appends the item.
LEMMA PushBack ==
    ASSUME RingInv, ~full, NEW item \in Items, push_back(item),
           alive' \in BOOLEAN
    PROVE  /\ RingInv'
           /\ size' = size + 1
           /\ Contents' = Append(Contents, item)
<1> USE ConstantFacts
<1>1. RingTypeOK /\ size <= ItemCount /\ size # ItemCount
  BY DEF RingInv, RingBounded, full
<1>2. size \in 0 .. ItemCount - 1
  BY <1>1, SizeFacts
<1>3. readIndex \in Int /\ writeIndex \in Int
  BY <1>1 DEF RingTypeOK
<1>4. /\ readIndex' = readIndex
      /\ writeIndex' = (writeIndex + 1) % IndexRange
      /\ buffer' = [buffer EXCEPT ![mask(writeIndex)] = item]
  BY DEF push_back, inc
<1>5. mask(writeIndex) \in 0 .. ItemCount - 1
  BY <1>3, ModRange DEF mask
<1>6. RingTypeOK'
  <2>1. writeIndex' \in 0 .. IndexRange - 1
    BY <1>3, <1>4, ModRange
  <2> QED
    BY <1>1, <1>4, <1>5, <2>1 DEF RingTypeOK
<1>7. size' = size + 1
  <2>1. size' = (((writeIndex + 1) % IndexRange) + (- readIndex)) % IndexRange
    <3>1. (writeIndex + 1) % IndexRange \in Int
      BY <1>3, ModRange
    <3> QED
      BY <1>3, <1>4, <3>1 DEF size
  <2>2. writeIndex + 1 \in Int /\ - readIndex \in Int /\ writeIndex - readIndex \in Int
    BY <1>3
  <2>3. size' = ((writeIndex + 1) + (- readIndex)) % IndexRange
    BY ONLY ConstantFacts, <2>1, <2>2, ModAdd
  <2>4. (size + 1) % IndexRange = ((writeIndex - readIndex) + 1) % IndexRange
    BY ONLY ConstantFacts, <2>2, ModAdd DEF size
  <2>5. (writeIndex + 1) + (- readIndex) = (writeIndex - readIndex) + 1
    BY <1>3
  <2>6. (size + 1) % IndexRange = size + 1
    BY <1>2, ModSmall
  <2> QED
    BY ONLY <2>3, <2>4, <2>5, <2>6
<1>8. RingInv'
  BY <1>2, <1>6, <1>7 DEF RingInv, RingBounded
<1>9. Contents' = Append(Contents, item)
  <2>1. Contents' = [i \in 1 .. size + 1 |-> buffer'[mask(readIndex + i - 1)]]
    BY <1>4, <1>7 DEF Contents, mask
  <2>2. Contents \in Seq(Items) /\ Len(Contents) = size
    BY <1>1, ContentsFacts
  <2>3. ASSUME NEW i \in 1 .. size
        PROVE  buffer'[mask(readIndex + i - 1)] = Contents[i]
    <3>1. /\ readIndex + i - 1 \in Int
          /\ (size - i) + 1 \in 1 .. ItemCount - 1
          /\ readIndex + size = (readIndex + i - 1) + ((size - i) + 1)
      BY <1>2, <1>3
    <3>2. (readIndex + size) % ItemCount # (readIndex + i - 1) % ItemCount
      BY ONLY ConstantFacts, <3>1, ModDistinct
    <3>3. mask(writeIndex) # mask(readIndex + i - 1)
      BY <1>1, <3>2, WriteSlot DEF mask
    <3>4. mask(readIndex + i - 1) \in 0 .. ItemCount - 1
      BY ONLY ConstantFacts, <3>1, ModRange DEF mask
    <3> QED
      BY <1>1, <1>4, <3>3, <3>4 DEF RingTypeOK, Contents
  <2>4. buffer'[mask(readIndex + (size + 1) - 1)] = item
    <3>1. readIndex + (size + 1) - 1 = readIndex + size
      BY <1>2, <1>3
    <3>2. mask(readIndex + (size + 1) - 1) = mask(writeIndex)
      BY <1>1, <3>1, WriteSlot
    <3> QED
      BY <1>1, <1>4, <1>5, <3>2 DEF RingTypeOK
  <2>5. ASSUME NEW i \in 1 .. size + 1
        PROVE  /\ buffer'[mask(readIndex + i - 1)] = Append(Contents, item)[i]
               /\ buffer'[mask(readIndex + i - 1)] \in Items
    <3> HIDE DEF Contents
    <3>1. CASE i = size + 1
      BY <2>2, <2>4, <3>1, AppendProperties
    <3>2. CASE i # size + 1
      <4>1. i \in 1 .. size
        BY <1>2, <3>2
      <4> QED
        BY <2>2, <2>3, <4>1, AppendProperties
    <3> QED
      BY <3>1, <3>2
  <2>6. /\ Contents' \in Seq(Items)
        /\ Len(Contents') = size + 1
        /\ \A i \in 1 .. size + 1 : Contents'[i] = Append(Contents, item)[i]
    <3>1. size + 1 \in Nat
      BY <1>2
    <3>2. \A i \in 1 .. size + 1 : Contents'[i] = Append(Contents, item)[i]
      BY ONLY <2>1, <2>5
    <3>3. Contents' \in Seq(Items) /\ Len(Contents') = size + 1
      BY ONLY <2>1, <2>5, <3>1
    <3> QED
      BY ONLY <3>2, <3>3
  <2>7. Append(Contents, item) \in Seq(Items) /\ Len(Append(Contents, item)) = size + 1
    BY <2>2, AppendProperties
  <2> QED
    BY ONLY <2>6, <2>7, SeqEqual
<1> QED
  BY <1>7, <1>8, <1>9

\* pop_front() on a ring that is not empty keeps the invariant and removes the
\* oldest item, which front() returns.
LEMMA PopFront ==
    ASSUME RingInv, ~empty, pop_front, alive' \in BOOLEAN
    PROVE  /\ RingInv'
           /\ size' = size - 1
           /\ Contents # << >>
           /\ front = Head(Contents)
           /\ Contents' = Tail(Contents)
<1> USE ConstantFacts
<1>1. RingTypeOK /\ size <= ItemCount
  BY DEF RingInv, RingBounded
<1>2. size \in 1 .. ItemCount
  BY <1>1, SizeFacts
<1>3. readIndex \in Int /\ writeIndex \in Int
  BY <1>1 DEF RingTypeOK
<1>4. /\ readIndex' = (readIndex + 1) % IndexRange
      /\ writeIndex' = writeIndex
      /\ buffer' = buffer
  BY DEF pop_front, inc
<1>5. RingTypeOK'
  <2>1. readIndex' \in 0 .. IndexRange - 1
    BY <1>3, <1>4, ModRange
  <2> QED
    BY <1>1, <1>4, <2>1 DEF RingTypeOK
<1>6. size' = size - 1
  <2>1. readIndex + 1 \in Int /\ writeIndex - readIndex \in Int /\ -1 \in Int
    BY <1>3
  <2>2. size' = (writeIndex - (readIndex + 1)) % IndexRange
    BY ONLY ConstantFacts, <1>3, <1>4, <2>1, ModSub DEF size
  <2>3. (size + (-1)) % IndexRange = ((writeIndex - readIndex) + (-1)) % IndexRange
    BY ONLY ConstantFacts, <2>1, ModAdd DEF size
  <2>4. writeIndex - (readIndex + 1) = (writeIndex - readIndex) + (-1)
    BY <1>3
  <2>5. size + (-1) = size - 1 /\ size - 1 \in 0 .. IndexRange - 1
    BY <1>2
  <2>6. (size - 1) % IndexRange = size - 1
    BY ONLY ConstantFacts, <2>5, ModSmall
  <2> QED
    BY ONLY <2>2, <2>3, <2>4, <2>5, <2>6
<1>7. RingInv'
  BY <1>2, <1>5, <1>6 DEF RingInv, RingBounded
<1>8. Contents \in Seq(Items) /\ Len(Contents) = size /\ DOMAIN Contents = 1 .. size
  BY <1>1, ContentsFacts
<1>9. Contents # << >> /\ front = Head(Contents)
  <2>1. Contents # << >>
    BY <1>2, <1>8
  <2>2. Head(Contents) = Contents[1]
    BY <1>8, <2>1
  <2>3. Contents[1] = buffer[mask(readIndex + 1 - 1)]
    BY <1>2 DEF Contents
  <2>4. readIndex + 1 - 1 = readIndex
    BY <1>3
  <2> QED
    BY <2>1, <2>2, <2>3, <2>4 DEF front
<1>10. Contents' = Tail(Contents)
  <2>1. Contents' = [i \in 1 .. size - 1 |-> buffer[mask(readIndex' + i - 1)]]
    BY <1>4, <1>6 DEF Contents, mask
  <2>2. ASSUME NEW i \in 1 .. size - 1
        PROVE  buffer[mask(readIndex' + i - 1)] = Contents[i + 1]
    <3>1. /\ readIndex + 1 \in Int
          /\ i - 1 \in Int
          /\ i + 1 \in 1 .. size
          /\ (readIndex + 1) + (i - 1) = readIndex + (i + 1) - 1
      BY <1>2, <1>3
    <3>2. (((readIndex + 1) % IndexRange) + (i - 1)) % ItemCount
            = ((readIndex + 1) + (i - 1)) % ItemCount
      <4>1. \A k \in Int : (((readIndex + 1) % IndexRange) + k) % ItemCount
                              = ((readIndex + 1) + k) % ItemCount
        BY ONLY ConstantFacts, <3>1, ModModAdd
      <4> QED
        BY ONLY <3>1, <4>1
    <3>3. readIndex' + i - 1 = ((readIndex + 1) % IndexRange) + (i - 1)
      <4>1. (readIndex + 1) % IndexRange \in Int
        BY ONLY ConstantFacts, <3>1, ModRange
      <4> QED
        BY ONLY <1>4, <3>1, <4>1
    <3>4. mask(readIndex' + i - 1) = mask(readIndex + (i + 1) - 1)
      BY ONLY <3>1, <3>2, <3>3 DEF mask
    <3> QED
      BY <3>1, <3>4 DEF Contents
  <2>3. /\ Tail(Contents) \in Seq(Items)
        /\ Len(Tail(Contents)) = size - 1
        /\ \A i \in 1 .. size - 1 : Tail(Contents)[i] = Contents[i + 1]
    BY ONLY <1>8, <1>9, HeadTailProperties
  <2>4. ASSUME NEW i \in 1 .. size - 1
        PROVE  Contents[i + 1] \in Items
    BY <1>2, <1>8
  <2>5. /\ Contents' \in Seq(Items)
        /\ Len(Contents') = size - 1
        /\ \A i \in 1 .. size - 1 : Contents'[i] = Tail(Contents)[i]
    BY <1>2, <2>1, <2>2, <2>3, <2>4
  <2> QED
    BY ONLY <2>3, <2>5, SeqEqual
<1> QED
  BY <1>6, <1>7, <1>9, <1>10

\* Constructing the ring establishes the invariant, with no contents.
LEMMA RingInitInv == RingInit => RingInv /\ Contents = << >>
<1> SUFFICES ASSUME RingInit
             PROVE  RingInv /\ Contents = << >>
  OBVIOUS
<1> USE ConstantFacts
<1>1. RingTypeOK
  BY DEF RingInit, RingTypeOK
<1>2. size = 0
  BY <1>1, SizeFacts DEF RingInit, empty
<1>3. Contents = << >>
  BY <1>1, <1>2, ContentsFacts
<1> QED
  BY <1>1, <1>2, <1>3 DEF RingInv, RingBounded

\* Every step of the client keeps the invariant and is a step of the FIFO.
LEMMA RingStep ==
    RingInv /\ [RingNext]_<<ringVars, alive>> => RingInv' /\ [Fifo!Next]_Contents
<1> SUFFICES ASSUME RingInv, [RingNext]_<<ringVars, alive>>
             PROVE  RingInv' /\ [Fifo!Next]_Contents
  OBVIOUS
<1>1. RingTypeOK /\ alive \in BOOLEAN
  BY DEF RingInv, RingTypeOK
<1>2. ASSUME UNCHANGED ringVars, alive' \in BOOLEAN
      PROVE  RingInv' /\ [Fifo!Next]_Contents
  BY <1>2 DEF ringVars, RingInv, RingTypeOK, RingBounded, size, Contents, mask
<1>3. ASSUME NEW item \in Items, Push(item)
      PROVE  RingInv' /\ [Fifo!Next]_Contents
  <2>1. CASE full /\ assert_fails
    BY <1>2, <2>1 DEF assert_fails
  <2>2. CASE ~full /\ push_back(item) /\ UNCHANGED alive
    <3>1. RingInv' /\ Contents' = Append(Contents, item)
      BY <1>1, <2>2, PushBack
    <3>2. Len(Contents) < ItemCount
      <4>1. Len(Contents) = size /\ size \in Nat
        BY <1>1, ContentsFacts, SizeFacts, ConstantFacts
      <4> QED
        BY <2>2, <4>1, ConstantFacts DEF RingInv, RingBounded, full
    <3> QED
      BY <3>1, <3>2 DEF Fifo!Next, Fifo!Put
  <2> QED
    BY <1>3, <2>1, <2>2 DEF Push
<1>4. ASSUME Pop
      PROVE  RingInv' /\ [Fifo!Next]_Contents
  <2>1. CASE empty /\ assert_fails
    BY <1>2, <2>1 DEF assert_fails
  <2>2. CASE ~empty /\ pop_front /\ UNCHANGED alive
    BY <1>1, <2>2, PopFront DEF Fifo!Next, Fifo!Get
  <2> QED
    BY <1>4, <2>1, <2>2 DEF Pop
<1>5. CASE Aborted
  BY <1>1, <1>2, <1>5 DEF Aborted
<1>6. CASE UNCHANGED <<ringVars, alive>>
  BY <1>1, <1>2, <1>6
<1> QED
  BY <1>3, <1>4, <1>5, <1>6 DEF RingNext

\* size() never exceeds the capacity, and the indices keep their type, in every
\* execution of push_back() and pop_front(), wrapped around or not.
THEOREM RingInvariant == RingSpec => [](RingTypeOK /\ RingBounded)
<1>1. RingInit => RingInv
  BY RingInitInv
<1>2. RingInv /\ [RingNext]_<<ringVars, alive>> => RingInv'
  BY RingStep
<1>3. RingInv => RingTypeOK /\ RingBounded
  BY DEF RingInv
<1> QED
  BY <1>1, <1>2, <1>3, PTL DEF RingSpec

\* The ring is a bounded FIFO for every capacity that divides the range of the
\* index, which every power of two the constructor accepts does.
THEOREM RingRefinesFifo == RingSpec => RingImplementsFifo
<1>1. RingInit => RingInv /\ Fifo!Init
  BY RingInitInv DEF Fifo!Init
<1>2. RingInv /\ [RingNext]_<<ringVars, alive>> => RingInv' /\ [Fifo!Next]_Contents
  BY RingStep
<1> QED
  BY <1>1, <1>2, PTL DEF RingSpec, RingImplementsFifo, Fifo!Spec

-----------------------------------------------------------------------------
(***************************************************************************)
(* The queue.                                                              *)
(***************************************************************************)

\* A thread inside the queue holds the mutex, and one that waits does not.
InsideHolds ==
    /\ \A t \in Threads : pc[t] \in Inside => mutex = t
    /\ \A t \in condv : pc[t] = "get_wait"

\* The mutex is held by nobody who is not inside.  This fails when tasks are
\* removed, and what follows is kept apart from it.
MutexInUse == \A t \in Threads : mutex = t => pc[t] \in Inside

\* Exclusion and the copy made under the mutex need each other and the invariant
\* of the ring to be inductive.
CoreInv == TypeOK /\ RingBounded /\ InsideHolds /\ CopyIsFront

QueueInv == CoreInv /\ MutexInUse

\* The two halves of mutual exclusion.
LEMMA QueueInvFacts == QueueInv => CoreInv /\ MutualExclusion
BY DEF QueueInv, CoreInv, InsideHolds, MutexInUse, MutualExclusion

\* A step that leaves the ring alone leaves what is read from it alone.
LEMMA RingUnchanged ==
    ASSUME UNCHANGED ringVars
    PROVE  /\ size' = size
           /\ empty' <=> empty
           /\ full' <=> full
           /\ front' = front
           /\ Contents' = Contents
           /\ RingBounded' <=> RingBounded
BY DEF ringVars, size, empty, full, front, Contents, RingBounded, mask

\* The item under the read index is an item.
LEMMA FrontType ==
    ASSUME RingTypeOK
    PROVE  front \in Items
<1>1. mask(readIndex) \in 0 .. ItemCount - 1
  BY ConstantFacts, ModRange DEF RingTypeOK, mask
<1> QED
  BY <1>1 DEF RingTypeOK, front

\* A queue that has just been initialised satisfies the invariant.
LEMMA QueueInitInv == Init => QueueInv
<1> SUFFICES ASSUME Init
             PROVE  QueueInv
  OBVIOUS
<1>1. RingTypeOK /\ RingBounded
  BY RingInitInv DEF Init, RingInv
<1>2. InsideHolds /\ MutexInUse
  BY QueueAssumption DEF Init, InsideHolds, MutexInUse, Inside
<1> QED
  BY <1>1, <1>2 DEF Init, QueueInv, CoreInv, TypeOK, CopyIsFront, PutLabels, GetLabels

\* Every step of a thread keeps the core of the invariant.  The ring changes in two steps only, and in
\* both the mutex keeps every other thread away from the front of the ring.
LEMMA CoreStepInv == CoreInv /\ [Next]_vars => CoreInv'
<1> SUFFICES ASSUME CoreInv, [Next]_vars
             PROVE  CoreInv'
  OBVIOUS
<1> USE QueueAssumption
<1> USE DEF at, goto, lock, unlock, callVars, syncVars, sigVars
<1>1. TypeOK /\ RingTypeOK /\ RingBounded /\ InsideHolds /\ CopyIsFront
  BY DEF CoreInv, TypeOK
<1>2. ASSUME NEW t \in Threads, NEW item \in Items, PutCall(t, item)
      PROVE  CoreInv'
  <2>1. UNCHANGED <<ringVars, alive>>
    BY <1>2 DEF PutCall
  <2>2. TypeOK'
    BY <1>1, <1>2, <2>1 DEF PutCall, TypeOK, RingTypeOK, ringVars, PutLabels, GetLabels, SizeLabels
  <2>3. InsideHolds'
    BY <1>1, <1>2 DEF PutCall, InsideHolds, TypeOK, Inside
  <2>4. CopyIsFront'
    BY <1>1, <1>2, <2>1, RingUnchanged DEF PutCall, CopyIsFront, TypeOK
  <2> QED
    BY <1>1, <2>1, <2>2, <2>3, <2>4, RingUnchanged DEF CoreInv
<1>3. ASSUME NEW t \in Threads, PutLock(t)
      PROVE  CoreInv'
  <2>1. UNCHANGED <<ringVars, alive>>
    BY <1>3 DEF PutLock
  <2>2. TypeOK'
    BY <1>1, <1>3, <2>1 DEF PutLock, TypeOK, RingTypeOK, ringVars, PutLabels, GetLabels, SizeLabels
  <2>3. InsideHolds'
    BY <1>1, <1>3 DEF PutLock, InsideHolds, TypeOK, Inside
  <2>4. CopyIsFront'
    BY <1>1, <1>3, <2>1, RingUnchanged DEF PutLock, CopyIsFront, TypeOK
  <2> QED
    BY <1>1, <2>1, <2>2, <2>3, <2>4, RingUnchanged DEF CoreInv
<1>4. ASSUME NEW t \in Threads, PutSignal(t)
      PROVE  CoreInv'
  <2>1. UNCHANGED <<ringVars, alive>>
    BY <1>4 DEF PutSignal
  <2>2. TypeOK'
    BY <1>1, <1>4, <2>1 DEF PutSignal, TypeOK, RingTypeOK, ringVars, PutLabels, GetLabels, SizeLabels
  <2>3. InsideHolds'
    BY <1>1, <1>4 DEF PutSignal, InsideHolds, TypeOK, Inside
  <2>4. CopyIsFront'
    BY <1>1, <1>4, <2>1, RingUnchanged DEF PutSignal, CopyIsFront, TypeOK
  <2> QED
    BY <1>1, <2>1, <2>2, <2>3, <2>4, RingUnchanged DEF CoreInv
<1>5. ASSUME NEW t \in Threads, PutUnlock(t)
      PROVE  CoreInv'
  <2>1. UNCHANGED <<ringVars, alive>>
    BY <1>5 DEF PutUnlock
  <2>2. TypeOK'
    BY <1>1, <1>5, <2>1 DEF PutUnlock, TypeOK, RingTypeOK, ringVars, PutLabels, GetLabels, SizeLabels
  <2>3. InsideHolds'
    BY <1>1, <1>5 DEF PutUnlock, InsideHolds, TypeOK, Inside
  <2>4. CopyIsFront'
    BY <1>1, <1>5, <2>1, RingUnchanged DEF PutUnlock, CopyIsFront, TypeOK
  <2> QED
    BY <1>1, <2>1, <2>2, <2>3, <2>4, RingUnchanged DEF CoreInv
<1>6. ASSUME NEW t \in Threads, PutCheckCb(t)
      PROVE  CoreInv'
  <2>1. UNCHANGED <<ringVars, alive>>
    BY <1>6 DEF PutCheckCb
  <2>2. TypeOK'
    BY <1>1, <1>6, <2>1 DEF PutCheckCb, TypeOK, RingTypeOK, ringVars, PutLabels, GetLabels, SizeLabels
  <2>3. InsideHolds'
    BY <1>1, <1>6 DEF PutCheckCb, InsideHolds, TypeOK, Inside
  <2>4. CopyIsFront'
    BY <1>1, <1>6, <2>1, RingUnchanged DEF PutCheckCb, CopyIsFront, TypeOK
  <2> QED
    BY <1>1, <2>1, <2>2, <2>3, <2>4, RingUnchanged DEF CoreInv
<1>7. ASSUME NEW t \in Threads, PutCallCb(t)
      PROVE  CoreInv'
  <2>1. UNCHANGED ringVars /\ (alive' = alive \/ alive' = FALSE)
    BY <1>7 DEF PutCallCb
  <2>2. TypeOK'
    BY <1>1, <1>7, <2>1 DEF PutCallCb, TypeOK, RingTypeOK, ringVars, PutLabels, GetLabels, SizeLabels
  <2>3. InsideHolds'
    BY <1>1, <1>7 DEF PutCallCb, InsideHolds, TypeOK, Inside
  <2>4. CopyIsFront'
    BY <1>1, <1>7, <2>1, RingUnchanged DEF PutCallCb, CopyIsFront, TypeOK
  <2> QED
    BY <1>1, <2>1, <2>2, <2>3, <2>4, RingUnchanged DEF CoreInv
<1>8. ASSUME NEW t \in Threads, PutReturn(t)
      PROVE  CoreInv'
  <2>1. UNCHANGED <<ringVars, alive>>
    BY <1>8 DEF PutReturn
  <2>2. TypeOK'
    BY <1>1, <1>8, <2>1 DEF PutReturn, TypeOK, RingTypeOK, ringVars, PutLabels, GetLabels, SizeLabels
  <2>3. InsideHolds'
    BY <1>1, <1>8 DEF PutReturn, InsideHolds, TypeOK, Inside
  <2>4. CopyIsFront'
    BY <1>1, <1>8, <2>1, RingUnchanged DEF PutReturn, CopyIsFront, TypeOK
  <2> QED
    BY <1>1, <2>1, <2>2, <2>3, <2>4, RingUnchanged DEF CoreInv
<1>9. ASSUME NEW t \in Threads, NEW timeout \in Timeouts, GetCall(t, timeout)
      PROVE  CoreInv'
  <2>1. UNCHANGED <<ringVars, alive>>
    BY <1>9 DEF GetCall
  <2>2. TypeOK'
    BY <1>1, <1>9, <2>1 DEF GetCall, TypeOK, RingTypeOK, ringVars, PutLabels, GetLabels, SizeLabels
  <2>3. InsideHolds'
    BY <1>1, <1>9 DEF GetCall, InsideHolds, TypeOK, Inside
  <2>4. CopyIsFront'
    BY <1>1, <1>9, <2>1, RingUnchanged DEF GetCall, CopyIsFront, TypeOK
  <2> QED
    BY <1>1, <2>1, <2>2, <2>3, <2>4, RingUnchanged DEF CoreInv
<1>10. ASSUME NEW t \in Threads, GetLock(t)
      PROVE  CoreInv'
  <2>1. UNCHANGED <<ringVars, alive>>
    BY <1>10 DEF GetLock
  <2>2. TypeOK'
    BY <1>1, <1>10, <2>1 DEF GetLock, TypeOK, RingTypeOK, ringVars, PutLabels, GetLabels, SizeLabels
  <2>3. InsideHolds'
    BY <1>1, <1>10 DEF GetLock, InsideHolds, TypeOK, Inside
  <2>4. CopyIsFront'
    BY <1>1, <1>10, <2>1, RingUnchanged DEF GetLock, CopyIsFront, TypeOK
  <2> QED
    BY <1>1, <2>1, <2>2, <2>3, <2>4, RingUnchanged DEF CoreInv
<1>11. ASSUME NEW t \in Threads, GetLoop(t)
      PROVE  CoreInv'
  <2>1. UNCHANGED <<ringVars, alive>>
    BY <1>11 DEF GetLoop
  <2>2. TypeOK'
    BY <1>1, <1>11, <2>1 DEF GetLoop, TypeOK, RingTypeOK, ringVars, PutLabels, GetLabels, SizeLabels
  <2>3. InsideHolds'
    BY <1>1, <1>11 DEF GetLoop, InsideHolds, TypeOK, Inside
  <2>4. CopyIsFront'
    BY <1>1, <1>11, <2>1, RingUnchanged DEF GetLoop, CopyIsFront, TypeOK
  <2> QED
    BY <1>1, <2>1, <2>2, <2>3, <2>4, RingUnchanged DEF CoreInv
<1>12. ASSUME NEW t \in Threads, SpuriousWakeup(t)
      PROVE  CoreInv'
  <2>1. UNCHANGED <<ringVars, alive>>
    BY <1>12 DEF SpuriousWakeup
  <2>2. TypeOK'
    BY <1>1, <1>12, <2>1 DEF SpuriousWakeup, TypeOK, RingTypeOK, ringVars, PutLabels, GetLabels, SizeLabels
  <2>3. InsideHolds'
    BY <1>1, <1>12 DEF SpuriousWakeup, InsideHolds, TypeOK, Inside
  <2>4. CopyIsFront'
    BY <1>1, <1>12, <2>1, RingUnchanged DEF SpuriousWakeup, CopyIsFront, TypeOK
  <2> QED
    BY <1>1, <2>1, <2>2, <2>3, <2>4, RingUnchanged DEF CoreInv
<1>13. ASSUME NEW t \in Threads, GetWakeup(t)
      PROVE  CoreInv'
  <2>1. UNCHANGED <<ringVars, alive>>
    BY <1>13 DEF GetWakeup
  <2>2. TypeOK'
    BY <1>1, <1>13, <2>1 DEF GetWakeup, TypeOK, RingTypeOK, ringVars, PutLabels, GetLabels, SizeLabels
  <2>3. InsideHolds'
    BY <1>1, <1>13 DEF GetWakeup, InsideHolds, TypeOK, Inside
  <2>4. CopyIsFront'
    BY <1>1, <1>13, <2>1, RingUnchanged DEF GetWakeup, CopyIsFront, TypeOK
  <2> QED
    BY <1>1, <2>1, <2>2, <2>3, <2>4, RingUnchanged DEF CoreInv
<1>14. ASSUME NEW t \in Threads, GetCopy(t)
      PROVE  CoreInv'
  <2>1. UNCHANGED <<ringVars, alive>>
    BY <1>14 DEF GetCopy
  <2>2. TypeOK'
    <3>1. front \in Items
      BY <1>1, FrontType
    <3> QED
      BY <1>1, <1>14, <2>1, <3>1
      DEF GetCopy, TypeOK, RingTypeOK, ringVars, PutLabels, GetLabels, SizeLabels
  <2>3. InsideHolds'
    BY <1>1, <1>14 DEF GetCopy, InsideHolds, TypeOK, Inside
  <2>4. CopyIsFront'
    <3>1. ~empty <=> size # 0
      BY <1>1, SizeFacts
    <3> QED
      BY <1>1, <1>14, <2>1, <3>1, RingUnchanged DEF GetCopy, CopyIsFront, TypeOK
  <2> QED
    BY <1>1, <2>1, <2>2, <2>3, <2>4, RingUnchanged DEF CoreInv
<1>15. ASSUME NEW t \in Threads, GetUnlock(t)
      PROVE  CoreInv'
  <2>1. UNCHANGED <<ringVars, alive>>
    BY <1>15 DEF GetUnlock
  <2>2. TypeOK'
    BY <1>1, <1>15, <2>1 DEF GetUnlock, TypeOK, RingTypeOK, ringVars, PutLabels, GetLabels, SizeLabels
  <2>3. InsideHolds'
    BY <1>1, <1>15 DEF GetUnlock, InsideHolds, TypeOK, Inside
  <2>4. CopyIsFront'
    BY <1>1, <1>15, <2>1, RingUnchanged DEF GetUnlock, CopyIsFront, TypeOK
  <2> QED
    BY <1>1, <2>1, <2>2, <2>3, <2>4, RingUnchanged DEF CoreInv
<1>16. ASSUME NEW t \in Threads, GetReturn(t)
      PROVE  CoreInv'
  <2>1. UNCHANGED <<ringVars, alive>>
    BY <1>16 DEF GetReturn
  <2>2. TypeOK'
    BY <1>1, <1>16, <2>1 DEF GetReturn, TypeOK, RingTypeOK, ringVars, PutLabels, GetLabels, SizeLabels
  <2>3. InsideHolds'
    BY <1>1, <1>16 DEF GetReturn, InsideHolds, TypeOK, Inside
  <2>4. CopyIsFront'
    BY <1>1, <1>16, <2>1, RingUnchanged DEF GetReturn, CopyIsFront, TypeOK
  <2> QED
    BY <1>1, <2>1, <2>2, <2>3, <2>4, RingUnchanged DEF CoreInv
<1>17. ASSUME NEW t \in Threads, IsEmptyCall(t)
      PROVE  CoreInv'
  <2>1. UNCHANGED <<ringVars, alive>>
    BY <1>17 DEF IsEmptyCall
  <2>2. TypeOK'
    BY <1>1, <1>17, <2>1 DEF IsEmptyCall, TypeOK, RingTypeOK, ringVars, PutLabels, GetLabels, SizeLabels
  <2>3. InsideHolds'
    BY <1>1, <1>17 DEF IsEmptyCall, InsideHolds, TypeOK, Inside
  <2>4. CopyIsFront'
    BY <1>1, <1>17, <2>1, RingUnchanged DEF IsEmptyCall, CopyIsFront, TypeOK
  <2> QED
    BY <1>1, <2>1, <2>2, <2>3, <2>4, RingUnchanged DEF CoreInv
<1>18. ASSUME NEW t \in Threads, SizeLock(t)
      PROVE  CoreInv'
  <2>1. UNCHANGED <<ringVars, alive>>
    BY <1>18 DEF SizeLock
  <2>2. TypeOK'
    BY <1>1, <1>18, <2>1 DEF SizeLock, TypeOK, RingTypeOK, ringVars, PutLabels, GetLabels, SizeLabels
  <2>3. InsideHolds'
    BY <1>1, <1>18 DEF SizeLock, InsideHolds, TypeOK, Inside
  <2>4. CopyIsFront'
    BY <1>1, <1>18, <2>1, RingUnchanged DEF SizeLock, CopyIsFront, TypeOK
  <2> QED
    BY <1>1, <2>1, <2>2, <2>3, <2>4, RingUnchanged DEF CoreInv
<1>19. ASSUME NEW t \in Threads, SizeRead(t)
      PROVE  CoreInv'
  <2>1. UNCHANGED <<ringVars, alive>>
    BY <1>19 DEF SizeRead
  <2>2. TypeOK'
    BY <1>1, <1>19, <2>1 DEF SizeRead, TypeOK, RingTypeOK, ringVars, PutLabels, GetLabels, SizeLabels
  <2>3. InsideHolds'
    BY <1>1, <1>19 DEF SizeRead, InsideHolds, TypeOK, Inside
  <2>4. CopyIsFront'
    BY <1>1, <1>19, <2>1, RingUnchanged DEF SizeRead, CopyIsFront, TypeOK
  <2> QED
    BY <1>1, <2>1, <2>2, <2>3, <2>4, RingUnchanged DEF CoreInv
<1>20. ASSUME NEW t \in Threads, SizeUnlock(t)
      PROVE  CoreInv'
  <2>1. UNCHANGED <<ringVars, alive>>
    BY <1>20 DEF SizeUnlock
  <2>2. TypeOK'
    BY <1>1, <1>20, <2>1 DEF SizeUnlock, TypeOK, RingTypeOK, ringVars, PutLabels, GetLabels, SizeLabels
  <2>3. InsideHolds'
    BY <1>1, <1>20 DEF SizeUnlock, InsideHolds, TypeOK, Inside
  <2>4. CopyIsFront'
    BY <1>1, <1>20, <2>1, RingUnchanged DEF SizeUnlock, CopyIsFront, TypeOK
  <2> QED
    BY <1>1, <2>1, <2>2, <2>3, <2>4, RingUnchanged DEF CoreInv
<1>21. ASSUME NEW t \in Threads, NEW registered \in BOOLEAN, SetSignalCb(t, registered)
      PROVE  CoreInv'
  <2>1. UNCHANGED <<ringVars, alive>>
    BY <1>21 DEF SetSignalCb
  <2>2. TypeOK'
    BY <1>1, <1>21, <2>1 DEF SetSignalCb, TypeOK, RingTypeOK, ringVars, PutLabels, GetLabels, SizeLabels
  <2>3. InsideHolds'
    BY <1>1, <1>21 DEF SetSignalCb, InsideHolds, TypeOK, Inside
  <2>4. CopyIsFront'
    BY <1>1, <1>21, <2>1, RingUnchanged DEF SetSignalCb, CopyIsFront, TypeOK
  <2> QED
    BY <1>1, <2>1, <2>2, <2>3, <2>4, RingUnchanged DEF CoreInv
<1>22. ASSUME UNCHANGED <<ringVars, callVars, syncVars, sigVars>>, alive' \in BOOLEAN
      PROVE  CoreInv'
  <2>1. UNCHANGED ringVars
    BY <1>22
  <2>2. TypeOK'
    BY <1>1, <1>22 DEF TypeOK, RingTypeOK, ringVars
  <2>3. InsideHolds' /\ CopyIsFront'
    BY <1>1, <1>22, <2>1, RingUnchanged DEF InsideHolds, CopyIsFront
  <2> QED
    BY <1>1, <2>1, <2>2, <2>3, RingUnchanged DEF CoreInv
<1>23. ASSUME NEW t \in Threads, PutPush(t)
      PROVE  CoreInv'
  <2>1. CASE full /\ assert_fails /\ UNCHANGED <<pc, due>>
    BY <1>23, <1>22, <2>1 DEF PutPush, assert_fails
  <2>2. CASE ~full /\ push_back(msg[t]) /\ goto(t, "put_signal") /\ UNCHANGED alive
    <3>1. msg[t] \in Items
      BY <1>1, <1>23 DEF PutPush, TypeOK, PutLabels
    <3>2. RingInv'
      BY <1>1, <2>2, <3>1, PushBack DEF RingInv, RingTypeOK
    <3>3. TypeOK'
      BY <1>1, <1>23, <2>2, <3>2 DEF PutPush, TypeOK, RingInv, PutLabels, GetLabels, SizeLabels
    <3>4. InsideHolds'
      BY <1>1, <1>23, <2>2 DEF PutPush, InsideHolds, TypeOK, Inside
    <3>5. CopyIsFront'
      BY <1>1, <1>23, <2>2 DEF PutPush, InsideHolds, CopyIsFront, TypeOK, Inside
    <3> QED
      BY <3>2, <3>3, <3>4, <3>5 DEF CoreInv, RingInv
  <2> QED
    BY <1>23, <2>1, <2>2 DEF PutPush
<1>24. ASSUME NEW t \in Threads, GetPop(t)
      PROVE  CoreInv'
  <2>1. ~empty /\ pop_front /\ goto(t, "get_unlock") /\ UNCHANGED alive
    BY <1>1, <1>24 DEF GetPop, CopyIsFront
  <2>2. RingInv'
    BY <1>1, <2>1, PopFront DEF RingInv, RingTypeOK
  <2>3. TypeOK'
    BY <1>1, <1>24, <2>1, <2>2 DEF GetPop, TypeOK, RingInv, PutLabels, GetLabels, SizeLabels
  <2>4. InsideHolds'
    BY <1>1, <1>24, <2>1 DEF GetPop, InsideHolds, TypeOK, Inside
  <2>5. CopyIsFront'
    BY <1>1, <1>24, <2>1 DEF GetPop, InsideHolds, CopyIsFront, TypeOK, Inside
  <2> QED
    BY <2>2, <2>3, <2>4, <2>5 DEF CoreInv, RingInv
<1>25. CASE Abort
  BY <1>1, <1>22, <1>25 DEF Abort, Aborted, RingTypeOK
<1>26. CASE UNCHANGED vars
  BY <1>1, <1>22, <1>26 DEF vars, RingTypeOK
<1> QED
  BY <1>2, <1>3, <1>4, <1>5, <1>6, <1>7, <1>8, <1>9, <1>10, <1>11, <1>12, <1>13,
     <1>14, <1>15, <1>16, <1>17, <1>18, <1>19, <1>20, <1>21, <1>23, <1>24,
     <1>25, <1>26
  DEF Next, Calls, PutStep, GetStep, SizeStep

\* The thread that unlocks is the one that leaves.
LEMMA QueueStepInv == QueueInv /\ [Next]_vars => QueueInv'
<1> SUFFICES ASSUME QueueInv, [Next]_vars
             PROVE  QueueInv'
  OBVIOUS
<1> USE QueueAssumption
<1> USE DEF at, goto, lock, unlock, callVars, syncVars, sigVars, MutexInUse
<1>1. CoreInv /\ TypeOK /\ InsideHolds /\ MutexInUse
  BY DEF QueueInv, CoreInv
<1>2. ASSUME NEW t \in Threads, Calls(t)
      PROVE  MutexInUse'
  BY <1>1, <1>2
  DEF Calls, PutCall, GetCall, IsEmptyCall, SetSignalCb, TypeOK, Inside
<1>3. ASSUME NEW t \in Threads, PutStep(t)
      PROVE  MutexInUse'
  BY <1>1, <1>3
  DEF PutStep, PutLock, PutPush, PutSignal, PutUnlock, PutCheckCb, PutCallCb, PutReturn,
      TypeOK, Inside
<1>4. ASSUME NEW t \in Threads, GetStep(t) \/ SpuriousWakeup(t)
      PROVE  MutexInUse'
  BY <1>1, <1>4
  DEF GetStep, GetLock, GetLoop, GetWakeup, GetCopy, GetPop, GetUnlock, GetReturn,
      SpuriousWakeup, TypeOK, Inside
<1>5. ASSUME NEW t \in Threads, SizeStep(t)
      PROVE  MutexInUse'
  BY <1>1, <1>5 DEF SizeStep, SizeLock, SizeRead, SizeUnlock, TypeOK, Inside
<1>6. ASSUME Abort \/ UNCHANGED vars
      PROVE  MutexInUse'
  BY <1>1, <1>6 DEF Abort, vars
<1>7. MutexInUse'
  BY <1>2, <1>3, <1>4, <1>5, <1>6 DEF Next
<1>8. CoreInv'
  BY <1>1, CoreStepInv
<1> QED
  BY <1>7, <1>8 DEF QueueInv

-----------------------------------------------------------------------------
(***************************************************************************)
(* No wakeup is lost.                                                      *)
(***************************************************************************)

\* OnTheWay is finite, and so is every part of it.
LEMMA OnTheWayFinite ==
    /\ IsFiniteSet(OnTheWay)
    /\ IsFiniteSet(OnTheWay')
    /\ Cardinality(OnTheWay) \in Nat
    /\ Cardinality(OnTheWay') \in Nat
<1>1. OnTheWay \subseteq Threads /\ OnTheWay' \subseteq Threads
  BY DEF OnTheWay
<1> QED
  BY <1>1, QueueAssumption, FS_Subset, FS_CardinalityType

\* Most steps let nobody start to wait while there are messages, and drop
\* nobody from those on the way.
LEMMA NobodyLeaves ==
    ASSUME QueueInv, NoLostWakeup, UNCHANGED ringVars,
           OnTheWay \subseteq OnTheWay',
           condv' # {} => condv # {} \/ size = 0
    PROVE  NoLostWakeup'
<1>1. size' = size /\ size \in Nat
  BY RingUnchanged, SizeFacts, ConstantFacts DEF QueueInv, CoreInv, TypeOK
<1>2. Cardinality(OnTheWay) <= Cardinality(OnTheWay')
  BY OnTheWayFinite, FS_Subset
<1> QED
  BY <1>1, <1>2, OnTheWayFinite DEF NoLostWakeup

\* Every step keeps the balance between messages and threads on their way: a put
\* adds itself with its message, and hands over to the waiter it unblocks.
LEMMA NoLostWakeupStep == QueueInv /\ NoLostWakeup /\ [Next]_vars => NoLostWakeup'
<1> SUFFICES ASSUME QueueInv, NoLostWakeup, [Next]_vars
             PROVE  NoLostWakeup'
  OBVIOUS
<1> USE QueueAssumption
<1> USE DEF at, goto, lock, unlock, callVars, syncVars, sigVars
<1>1. TypeOK /\ MutualExclusion /\ CopyIsFront /\ RingInv
  BY QueueInvFacts DEF CoreInv, TypeOK, RingInv
<1>2. size \in Nat
  BY <1>1, SizeFacts, ConstantFacts DEF RingInv
\* The message pushed is matched by its sender, which signals next.
<1>3. ASSUME NEW t \in Threads, PutPush(t)
      PROVE  NoLostWakeup'
  <2>1. CASE full /\ assert_fails /\ UNCHANGED <<pc, due>>
    <3>1. OnTheWay' = OnTheWay /\ UNCHANGED <<ringVars, condv>>
      BY <1>3, <2>1 DEF PutPush, assert_fails, OnTheWay
    <3> QED
      BY <3>1, NobodyLeaves
  <2>2. CASE ~full /\ push_back(msg[t]) /\ goto(t, "put_signal") /\ UNCHANGED alive
    <3>1. size' = size + 1
      BY <1>1, <1>3, <2>2, PushBack
      DEF PutPush, TypeOK, PutLabels, RingInv, RingTypeOK
    <3>2. OnTheWay' = OnTheWay \cup {t} /\ t \notin OnTheWay
      BY <1>1, <1>3, <2>2 DEF PutPush, OnTheWay, TypeOK
    <3>3. Cardinality(OnTheWay') = Cardinality(OnTheWay) + 1
      BY <3>2, OnTheWayFinite, FS_AddElement
    <3> QED
      BY <1>2, <1>3, <3>1, <3>3, OnTheWayFinite DEF NoLostWakeup, PutPush
  <2> QED
    BY <1>3, <2>1, <2>2 DEF PutPush
\* The sender leaves, and the thread that it unblocks takes its place.
<1>4. ASSUME NEW t \in Threads, PutSignal(t)
      PROVE  NoLostWakeup'
  <2>1. UNCHANGED ringVars
    BY <1>4 DEF PutSignal
  <2>2. CASE condv = {}
    BY <1>4, <2>2 DEF PutSignal, NoLostWakeup
  <2>3. CASE condv # {}
    <3>1. PICK c \in condv : condv' = condv \ {c}
      BY <1>4, <2>3 DEF PutSignal
    <3>2. c \in Threads /\ pc[c] = "get_wait" /\ pc[t] = "put_signal"
      BY <1>1, <1>4, <3>1 DEF PutSignal, MutualExclusion, TypeOK
    <3>3. /\ OnTheWay' = (OnTheWay \ {t}) \cup {c}
          /\ t \in OnTheWay
          /\ c \notin OnTheWay
      BY <1>1, <1>4, <3>1, <3>2 DEF PutSignal, OnTheWay, TypeOK
    <3>4. /\ IsFiniteSet(OnTheWay \ {t})
          /\ Cardinality(OnTheWay \ {t}) = Cardinality(OnTheWay) - 1
      BY <3>3, OnTheWayFinite, FS_RemoveElement
    <3>5. Cardinality(OnTheWay') = Cardinality(OnTheWay \ {t}) + 1
      BY <3>3, <3>4, FS_AddElement
    <3>6. size' = size
      BY <2>1, RingUnchanged
    <3> QED
      BY <1>2, <2>3, <3>4, <3>5, <3>6, OnTheWayFinite DEF NoLostWakeup
  <2> QED
    BY <2>2, <2>3
\* The thread that leaves takes one message along.
<1>5. ASSUME NEW t \in Threads, GetPop(t)
      PROVE  NoLostWakeup'
  <2>1. ~empty /\ pop_front /\ goto(t, "get_unlock") /\ UNCHANGED alive
    BY <1>1, <1>5 DEF GetPop, CopyIsFront
  <2>2. size' = size - 1
    BY <1>1, <2>1, PopFront DEF RingInv, RingTypeOK
  <2>3. OnTheWay' = OnTheWay \ {t} /\ t \in OnTheWay
    BY <1>1, <1>5, <2>1 DEF GetPop, OnTheWay, TypeOK
  <2>4. Cardinality(OnTheWay') = Cardinality(OnTheWay) - 1
    BY <2>3, OnTheWayFinite, FS_RemoveElement
  <2> QED
    BY <1>2, <1>5, <2>2, <2>4, OnTheWayFinite DEF NoLostWakeup, GetPop
\* A thread that finds the ring empty leaves no message behind.
<1>6. ASSUME NEW t \in Threads, GetLoop(t) \/ GetCopy(t)
      PROVE  NoLostWakeup'
  <2>1. UNCHANGED ringVars
    BY <1>6 DEF GetLoop, GetCopy
  <2>2. CASE size = 0
    BY <2>1, <2>2, RingUnchanged, OnTheWayFinite DEF NoLostWakeup
  <2>3. CASE size # 0
    <3>1. OnTheWay' = OnTheWay /\ condv' = condv
      BY <1>1, <1>6, <2>3 DEF GetLoop, GetCopy, OnTheWay, TypeOK
    <3> QED
      BY <2>1, <3>1, NobodyLeaves
  <2> QED
    BY <2>2, <2>3
\* A thread unblocked for whatever reason, or new, joins those on the way.
<1>7. ASSUME NEW t \in Threads, GetLock(t) \/ SpuriousWakeup(t) \/ GetWakeup(t)
      PROVE  NoLostWakeup'
  <2>1. UNCHANGED ringVars /\ condv' \subseteq condv
    BY <1>7 DEF GetLock, SpuriousWakeup, GetWakeup
  <2>2. OnTheWay \subseteq OnTheWay'
    BY <1>1, <1>7 DEF GetLock, SpuriousWakeup, GetWakeup, OnTheWay, TypeOK
  <2> QED
    BY <2>1, <2>2, NobodyLeaves
<1>8. ASSUME NEW t \in Threads, Calls(t)
      PROVE  NoLostWakeup'
  <2>1. UNCHANGED <<ringVars, condv>>
    BY <1>8 DEF Calls, PutCall, GetCall, IsEmptyCall, SetSignalCb
  <2>2. OnTheWay \subseteq OnTheWay'
    BY <1>1, <1>8
    DEF Calls, PutCall, GetCall, IsEmptyCall, SetSignalCb, OnTheWay, TypeOK
  <2> QED
    BY <2>1, <2>2, NobodyLeaves
<1>9. ASSUME NEW t \in Threads,
             \/ PutLock(t) \/ PutUnlock(t) \/ PutCheckCb(t) \/ PutCallCb(t) \/ PutReturn(t)
             \/ GetUnlock(t) \/ GetReturn(t) \/ SizeStep(t)
      PROVE  NoLostWakeup'
  <2>1. UNCHANGED <<ringVars, condv>>
    BY <1>9 DEF PutLock, PutUnlock, PutCheckCb, PutCallCb, PutReturn, GetUnlock,
                GetReturn, SizeStep, SizeLock, SizeRead, SizeUnlock
  <2>2. OnTheWay \subseteq OnTheWay'
    BY <1>1, <1>9
    DEF PutLock, PutUnlock, PutCheckCb, PutCallCb, PutReturn, GetUnlock, GetReturn,
        SizeStep, SizeLock, SizeRead, SizeUnlock, OnTheWay, TypeOK
  <2> QED
    BY <2>1, <2>2, NobodyLeaves
<1>10. CASE Abort \/ UNCHANGED vars
  <2>1. UNCHANGED <<ringVars, condv>> /\ OnTheWay' = OnTheWay
    BY <1>10 DEF Abort, Aborted, vars, OnTheWay
  <2> QED
    BY <2>1, NobodyLeaves
<1> QED
  BY <1>3, <1>4, <1>5, <1>6, <1>7, <1>8, <1>9, <1>10 DEF Next, PutStep, GetStep

-----------------------------------------------------------------------------
(***************************************************************************)
(* The callback follows the message.                                       *)
(***************************************************************************)

\* Where put() is between its push and its callback.
Announcing == {"put_signal", "put_unlock", "put_check_cb", "put_call_cb"}

\* A call is owed only while a callback is registered, so that the thread that
\* owes it does not skip it when it tests the pointer.
CallbackInv == SignalFollowsPush /\ (due => sig_cb)

\* A thread that owes the call keeps it owed until the call has been made, or the
\* callback has been replaced.
LEMMA CallbackStep == TypeOK /\ CallbackInv /\ [Next]_vars => CallbackInv'
<1> SUFFICES ASSUME TypeOK, CallbackInv, [Next]_vars
             PROVE  CallbackInv'
  OBVIOUS
<1> USE DEF at, goto, callVars, syncVars, sigVars, TypeOK, CallbackInv, SignalFollowsPush
\* Steps that leave the history and the callback alone, and every thread that has
\* pushed between its push and its callback.
<1>1. ASSUME UNCHANGED sigVars,
             \A t \in Threads : pc[t] \in Announcing => pc'[t] \in Announcing
      PROVE  CallbackInv'
  BY <1>1 DEF Announcing
<1>2. ASSUME NEW t \in Threads, Calls(t)
      PROVE  CallbackInv'
  <2>1. CASE \E registered \in BOOLEAN : SetSignalCb(t, registered)
    BY <2>1 DEF SetSignalCb
  <2>2. CASE \/ \E item \in Items : PutCall(t, item)
             \/ \E timeout \in Timeouts : GetCall(t, timeout)
             \/ IsEmptyCall(t)
    <3>1. pc[t] = "idle" /\ UNCHANGED sigVars /\ \E l : pc' = [pc EXCEPT ![t] = l]
      BY <2>2 DEF PutCall, GetCall, IsEmptyCall
    <3> QED
      BY <1>1, <3>1 DEF Announcing
  <2> QED
    BY <1>2, <2>1, <2>2 DEF Calls
<1>3. ASSUME NEW t \in Threads, PutPush(t)
      PROVE  CallbackInv'
  <2>1. CASE full /\ assert_fails /\ UNCHANGED <<pc, due>>
    BY <1>1, <1>3, <2>1 DEF PutPush
  <2>2. CASE due' = (due \/ sig_cb) /\ goto(t, "put_signal")
    BY <1>3, <2>2 DEF PutPush
  <2> QED
    BY <1>3, <2>1, <2>2 DEF PutPush
\* The pointer is tested: if it is NULL, no call is owed.
<1>4. ASSUME NEW t \in Threads, PutCheckCb(t)
      PROVE  CallbackInv'
  <2>1. CASE sig_cb
    BY <1>1, <1>4, <2>1 DEF PutCheckCb, Announcing
  <2>2. CASE ~sig_cb
    BY <1>4, <2>2 DEF PutCheckCb
  <2> QED
    BY <2>1, <2>2
<1>5. ASSUME NEW t \in Threads, PutCallCb(t)
      PROVE  CallbackInv'
  BY <1>1, <1>5 DEF PutCallCb
<1>6. ASSUME NEW t \in Threads,
             \/ PutLock(t) \/ PutSignal(t) \/ PutUnlock(t) \/ PutReturn(t)
             \/ GetStep(t) \/ SizeStep(t) \/ SpuriousWakeup(t)
      PROVE  CallbackInv'
  <2>1. UNCHANGED sigVars
    BY <1>6
    DEF PutLock, PutSignal, PutUnlock, PutReturn, GetStep, GetLock, GetLoop, GetWakeup,
        GetCopy, GetPop, GetUnlock, GetReturn, SizeStep, SizeLock, SizeRead, SizeUnlock,
        SpuriousWakeup
  <2>2. CASE \/ PutSignal(t) \/ PutUnlock(t)
    BY <1>1, <2>1, <2>2 DEF PutSignal, PutUnlock, Announcing
  <2>3. CASE PutLock(t) \/ PutReturn(t) \/ GetStep(t) \/ SizeStep(t) \/ SpuriousWakeup(t)
    <3>1. pc[t] \notin Announcing /\ (UNCHANGED pc \/ \E l : pc' = [pc EXCEPT ![t] = l])
      BY <2>3
      DEF PutLock, PutReturn, GetStep, GetLock, GetLoop, GetWakeup, GetCopy, GetPop,
          GetUnlock, GetReturn, SizeStep, SizeLock, SizeRead, SizeUnlock,
          SpuriousWakeup, Announcing
    <3> QED
      BY <1>1, <2>1, <3>1
  <2> QED
    BY <1>6, <2>2, <2>3
<1>7. CASE Abort \/ UNCHANGED vars
  BY <1>1, <1>7 DEF Abort, vars
<1> QED
  BY <1>2, <1>3, <1>4, <1>5, <1>6, <1>7 DEF Next, PutStep

-----------------------------------------------------------------------------
(***************************************************************************)
(* Linearizability.                                                        *)
(***************************************************************************)

\* A timeout is set for the time of a get(), and one that may wait looks for a
\* message only after it has seen one under the mutex.
WaitInv ==
    \A t \in Threads :
        /\ pc[t] \notin GetLabels => tmo[t] = "NO_WAIT"
        /\ pc[t] = "get_copy" /\ tmo[t] # "NO_WAIT" => size # 0

\* The calls that the abstract queue sees.
AbstractCalls == [t \in Threads |-> callOf(t)]

\* What the abstract queue sees of a thread, by where the thread is.
CallTable ==
    \A t \in Threads :
        LET c(op, status, item) == [op |-> op, tmo |-> tmo[t], status |-> status, item |-> item]
        IN  /\ pc[t] \in {"put_lock", "put_push"} => callOf(t) = c("put", "pending", msg[t])
            /\ pc[t] \in {"put_signal", "put_unlock", "put_check_cb", "put_call_cb", "put_return"}
                  => callOf(t) = c("put", "POS_OK", msg[t])
            /\ pc[t] \in {"get_lock", "get_loop", "get_wait", "get_copy", "get_pop"}
                  => callOf(t) = c("get", "pending", NoItem)
            /\ pc[t] \in {"get_unlock", "get_return"} /\ msg[t] = NoItem
                  => callOf(t) = c("get", "POS_TIMEOUT", msg[t])
            /\ pc[t] \in {"get_unlock", "get_return"} /\ msg[t] # NoItem
                  => callOf(t) = c("get", "POS_OK", msg[t])
            /\ pc[t] \in {"size_lock", "size_read"} => callOf(t) = c("is_empty", "pending", NoItem)
            /\ pc[t] = "size_unlock_true" => callOf(t) = c("is_empty", "true", NoItem)
            /\ pc[t] = "size_unlock_false" => callOf(t) = c("is_empty", "false", NoItem)
            /\ pc[t] = "idle" => callOf(t) = c("idle", "pending", NoItem)

\* callOf() is what the table says.
LEMMA CallTableHolds == CallTable
BY DEF CallTable, callOf, PutLabels, GetLabels

\* A get() that may wait keeps the mutex from the test of the size to the copy.
LEMMA WaitStep == CoreInv /\ WaitInv /\ [Next]_vars => WaitInv'
<1> SUFFICES ASSUME CoreInv, WaitInv, [Next]_vars
             PROVE  WaitInv'
  OBVIOUS
<1> USE QueueAssumption
<1> USE DEF at, goto, lock, unlock, callVars, syncVars, sigVars
<1>1. TypeOK /\ InsideHolds
  BY DEF CoreInv
\* The steps that leave the ring alone.
<1>2. ASSUME NEW t \in Threads, UNCHANGED ringVars,
             \A u \in Threads \ {t} : pc'[u] = pc[u] /\ tmo'[u] = tmo[u],
             pc'[t] \notin GetLabels => tmo'[t] = "NO_WAIT",
             pc'[t] = "get_copy" /\ tmo'[t] # "NO_WAIT" => size # 0
      PROVE  WaitInv'
  <2>1. size' = size
    BY <1>2, RingUnchanged
  <2> QED
    BY <1>2, <2>1 DEF WaitInv
\* The steps that change it are taken by the thread that holds the mutex, so that
\* no other thread is between the test and the copy.
<1>3. ASSUME NEW t \in Threads, PutPush(t) \/ GetPop(t)
      PROVE  WaitInv'
  <2>1. /\ pc[t] \in {"put_push", "get_pop"}
        /\ UNCHANGED tmo
        /\ \/ UNCHANGED pc
           \/ pc[t] = "put_push" /\ pc' = [pc EXCEPT ![t] = "put_signal"]
           \/ pc[t] = "get_pop" /\ pc' = [pc EXCEPT ![t] = "get_unlock"]
    BY <1>3 DEF PutPush, GetPop
  <2>2. \A u \in Threads : pc[u] # "get_copy"
    BY <1>1, <2>1 DEF InsideHolds, Inside
  <2>3. \A u \in Threads : pc'[u] # "get_copy"
    BY <1>1, <2>1, <2>2 DEF TypeOK
  <2>4. \A u \in Threads : pc'[u] \notin GetLabels => tmo'[u] = "NO_WAIT"
    BY <1>1, <2>1 DEF TypeOK, WaitInv, GetLabels
  <2> QED
    BY <2>3, <2>4 DEF WaitInv
<1>4. ASSUME NEW t \in Threads, Calls(t)
      PROVE  WaitInv'
  BY <1>1, <1>2, <1>4
  DEF Calls, PutCall, GetCall, IsEmptyCall, SetSignalCb, TypeOK, WaitInv, GetLabels
<1>5. ASSUME NEW t \in Threads,
             \/ PutLock(t) \/ PutSignal(t) \/ PutUnlock(t) \/ PutCheckCb(t)
             \/ PutCallCb(t) \/ PutReturn(t) \/ SizeStep(t)
      PROVE  WaitInv'
  <2>1. UNCHANGED <<ringVars, tmo>> /\ pc[t] \notin GetLabels
    BY <1>5
    DEF PutLock, PutSignal, PutUnlock, PutCheckCb, PutCallCb, PutReturn,
        SizeStep, SizeLock, SizeRead, SizeUnlock, GetLabels
  <2>2. pc'[t] \notin GetLabels /\ \A u \in Threads \ {t} : pc'[u] = pc[u]
    BY <1>1, <1>5
    DEF PutLock, PutSignal, PutUnlock, PutCheckCb, PutCallCb, PutReturn,
        SizeStep, SizeLock, SizeRead, SizeUnlock, GetLabels, TypeOK
  <2>3. tmo'[t] = "NO_WAIT"
    BY <2>1 DEF WaitInv
  <2> QED
    BY <1>2, <2>1, <2>2, <2>3
<1>6. ASSUME NEW t \in Threads,
             \/ GetLock(t) \/ GetLoop(t) \/ GetWakeup(t) \/ GetCopy(t)
             \/ GetUnlock(t) \/ GetReturn(t) \/ SpuriousWakeup(t)
      PROVE  WaitInv'
  <2>1. UNCHANGED ringVars /\ \A u \in Threads \ {t} : pc'[u] = pc[u] /\ tmo'[u] = tmo[u]
    BY <1>1, <1>6
    DEF GetLock, GetLoop, GetWakeup, GetCopy, GetUnlock, GetReturn, SpuriousWakeup, TypeOK
  <2>2. pc'[t] \notin GetLabels => tmo'[t] = "NO_WAIT"
    BY <1>1, <1>6
    DEF GetLock, GetLoop, GetWakeup, GetCopy, GetUnlock, GetReturn, SpuriousWakeup,
        TypeOK, GetLabels
  <2>3. pc'[t] = "get_copy" /\ tmo'[t] # "NO_WAIT" => size # 0
    BY <1>1, <1>6
    DEF GetLock, GetLoop, GetWakeup, GetCopy, GetUnlock, GetReturn, SpuriousWakeup, TypeOK
  <2> QED
    BY <1>2, <2>1, <2>2, <2>3
<1>7. CASE Abort \/ UNCHANGED vars
  <2>1. UNCHANGED <<ringVars, pc, tmo>>
    BY <1>7 DEF Abort, Aborted, vars
  <2> QED
    BY <2>1, RingUnchanged DEF WaitInv
<1> QED
  BY <1>3, <1>4, <1>5, <1>6, <1>7 DEF Next, PutStep, GetStep

\* A step of one thread changes the call of that thread only.
LEMMA CallsFrame ==
    ASSUME NEW t \in Threads,
           \A u \in Threads \ {t} : pc'[u] = pc[u] /\ msg'[u] = msg[u] /\ tmo'[u] = tmo[u]
    PROVE  AbstractCalls' = [AbstractCalls EXCEPT ![t] = callOf(t)']
<1>1. ASSUME NEW u \in Threads \ {t}
      PROVE  callOf(u)' = callOf(u)
  BY <1>1 DEF callOf
<1> QED
  BY <1>1 DEF AbstractCalls

\* Changing fields of one entry is changing that entry.
LEMMA ExceptStatus ==
    ASSUME NEW f, NEW t, NEW status
    PROVE  [f EXCEPT ![t].status = status] = [f EXCEPT ![t] = [f[t] EXCEPT !.status = status]]
OBVIOUS

\* The same for two fields.
LEMMA ExceptStatusItem ==
    ASSUME NEW S, NEW f, f = [x \in S |-> f[x]], NEW t \in S, NEW status, NEW item
    PROVE  [f EXCEPT ![t].status = status, ![t].item = item]
             = [f EXCEPT ![t] = [f[t] EXCEPT !.status = status, !.item = item]]
OBVIOUS

\* A get() as the abstract queue sees it, and what receiving a message makes of it.
GetRecord(timeout, status, item) ==
    [op |-> "get", tmo |-> timeout, status |-> status, item |-> item]

Received(c, item) == [c EXCEPT !.status = "POS_OK", !.item = item]

\* Receiving changes the status and the message, and nothing else.
LEMMA ReceivedRecord ==
    ASSUME NEW timeout, NEW none, NEW item
    PROVE  Received(GetRecord(timeout, "pending", none), item)
             = GetRecord(timeout, "POS_OK", item)
<1> DEFINE before == GetRecord(timeout, "pending", none)
           after == GetRecord(timeout, "POS_OK", item)
           changed == Received(before, item)
<1> USE DEF GetRecord, Received
<1>1. /\ DOMAIN changed = DOMAIN before
      /\ changed = [k \in DOMAIN before |-> changed[k]]
  OBVIOUS
<1>2. /\ DOMAIN before = {"op", "tmo", "status", "item"}
      /\ DOMAIN after = DOMAIN before
      /\ after = [k \in DOMAIN after |-> after[k]]
  OBVIOUS
<1>3. /\ changed["op"] = after["op"]
      /\ changed["tmo"] = after["tmo"]
      /\ changed["status"] = after["status"]
      /\ changed["item"] = after["item"]
  OBVIOUS
<1> HIDE DEF before, after, changed, GetRecord, Received
<1>4. \A k \in DOMAIN before : changed[k] = after[k]
  BY ONLY <1>2, <1>3
<1>5. changed = after
  BY ONLY <1>1, <1>2, <1>4
<1> QED
  BY ONLY <1>5 DEF before, after, changed

\* The queue is empty and nobody calls.
LEMMA AbstractInit == Init => WaitInv /\ Abstract!Init
<1> SUFFICES ASSUME Init
             PROVE  WaitInv /\ Abstract!Init
  OBVIOUS
<1>1. WaitInv
  BY DEF Init, WaitInv
<1>2. Contents = << >> /\ alive = TRUE
  BY RingInitInv DEF Init, RingInit
<1>3. \A t \in Threads : callOf(t) = Abstract!Idle
  BY CallTableHolds DEF Init, CallTable, Abstract!Idle
<1> QED
  BY <1>1, <1>2, <1>3 DEF Abstract!Init

\* A step that is not the effect of a call leaves the abstract queue as it is.
LEMMA Stutters ==
    ASSUME NEW t \in Threads, UNCHANGED <<ringVars, alive>>,
           \A u \in Threads \ {t} : pc'[u] = pc[u] /\ msg'[u] = msg[u] /\ tmo'[u] = tmo[u],
           callOf(t)' = callOf(t)
    PROVE  UNCHANGED <<Contents, AbstractCalls, alive>>
<1>1. AbstractCalls' = [AbstractCalls EXCEPT ![t] = callOf(t)']
  BY CallsFrame
<1>2. AbstractCalls' = AbstractCalls
  BY <1>1 DEF AbstractCalls
<1> QED
  BY <1>2, RingUnchanged

\* Each step is the effect of one call on the queue, an invocation or a return of
\* it, the end of the process, or nothing that a caller can see.
LEMMA QueueRefines ==
    CoreInv /\ CoreInv' /\ WaitInv /\ [Next]_vars
        => [Abstract!Next]_<<Contents, AbstractCalls, alive>>
<1> SUFFICES ASSUME CoreInv, CoreInv', WaitInv, [Next]_vars
             PROVE  [Abstract!Next]_<<Contents, AbstractCalls, alive>>
  OBVIOUS
<1> USE QueueAssumption
<1> USE DEF at, goto, lock, unlock, callVars, syncVars, sigVars
<1>1. TypeOK /\ TypeOK' /\ CopyIsFront /\ RingInv
  BY DEF CoreInv, TypeOK, RingInv
<1>2. CallTable /\ CallTable'
  BY CallTableHolds, PTL
<1>3. Len(Contents) = size /\ size \in Nat /\ (Contents = << >> <=> size = 0)
  BY <1>1, ContentsFacts, SizeFacts, ConstantFacts DEF RingInv
<1>4. \A t \in Threads : AbstractCalls[t] = callOf(t)
  BY DEF AbstractCalls
\* Invocations.
<1>5. ASSUME NEW t \in Threads, NEW item \in Items, PutCall(t, item)
      PROVE  Abstract!Invoke(t)
  <2>1. AbstractCalls' = [AbstractCalls EXCEPT ![t] = callOf(t)']
    BY <1>1, <1>5, CallsFrame DEF PutCall, TypeOK
  <2>2. callOf(t) = Abstract!Idle
    BY <1>2, <1>5 DEF PutCall, CallTable, WaitInv, GetLabels, Abstract!Idle
  <2>3. callOf(t)' = [op |-> "put", tmo |-> "NO_WAIT", status |-> "pending", item |-> item]
    BY <1>1, <1>2, <1>5 DEF PutCall, CallTable, WaitInv, GetLabels, TypeOK
  <2>4. UNCHANGED <<Contents, alive>> /\ alive
    BY <1>5, RingUnchanged DEF PutCall
  <2> QED
    BY <2>1, <2>2, <2>3, <2>4 DEF Abstract!Invoke, AbstractCalls
<1>6. ASSUME NEW t \in Threads, NEW timeout \in Timeouts, GetCall(t, timeout)
      PROVE  Abstract!Invoke(t)
  <2>1. AbstractCalls' = [AbstractCalls EXCEPT ![t] = callOf(t)']
    BY <1>1, <1>6, CallsFrame DEF GetCall, TypeOK
  <2>2. callOf(t) = Abstract!Idle
    BY <1>2, <1>6 DEF GetCall, CallTable, WaitInv, GetLabels, Abstract!Idle
  <2>3. callOf(t)' = [op |-> "get", tmo |-> timeout, status |-> "pending", item |-> NoItem]
    BY <1>1, <1>2, <1>6 DEF GetCall, CallTable, TypeOK
  <2>4. UNCHANGED <<Contents, alive>> /\ alive
    BY <1>6, RingUnchanged DEF GetCall
  <2> QED
    BY <2>1, <2>2, <2>3, <2>4 DEF Abstract!Invoke, AbstractCalls
<1>7. ASSUME NEW t \in Threads, IsEmptyCall(t)
      PROVE  Abstract!Invoke(t)
  <2>1. AbstractCalls' = [AbstractCalls EXCEPT ![t] = callOf(t)']
    BY <1>1, <1>7, CallsFrame DEF IsEmptyCall, TypeOK
  <2>2. callOf(t) = Abstract!Idle
    BY <1>2, <1>7 DEF IsEmptyCall, CallTable, WaitInv, GetLabels, Abstract!Idle
  <2>3. callOf(t)' = [op |-> "is_empty", tmo |-> "NO_WAIT", status |-> "pending", item |-> NoItem]
    BY <1>1, <1>2, <1>7 DEF IsEmptyCall, CallTable, WaitInv, GetLabels, TypeOK
  <2>4. UNCHANGED <<Contents, alive>> /\ alive
    BY <1>7, RingUnchanged DEF IsEmptyCall
  <2> QED
    BY <2>1, <2>2, <2>3, <2>4 DEF Abstract!Invoke, AbstractCalls
\* put() takes effect when it pushes.
<1>8. ASSUME NEW t \in Threads, PutPush(t)
      PROVE  Abstract!Put(t) \/ Abstract!PutOverflow(t)
  <2>1. callOf(t) = [op |-> "put", tmo |-> tmo[t], status |-> "pending", item |-> msg[t]]
    BY <1>2, <1>8 DEF PutPush, CallTable
  <2>2. alive /\ AbstractCalls' = [AbstractCalls EXCEPT ![t] = callOf(t)']
    BY <1>1, <1>8, CallsFrame DEF PutPush, TypeOK
  <2>3. CASE full /\ assert_fails /\ UNCHANGED <<pc, due>>
    <3>1. UNCHANGED ringVars /\ alive' = FALSE /\ UNCHANGED <<pc, msg, tmo>>
      BY <1>8, <2>3 DEF PutPush, assert_fails
    <3>2. UNCHANGED <<Contents, AbstractCalls>>
      BY <3>1, RingUnchanged DEF AbstractCalls, callOf
    <3>3. Len(Contents) = ItemCount
      BY <1>3, <2>3 DEF full
    <3> QED
      BY <2>1, <2>2, <3>1, <3>2, <3>3 DEF Abstract!PutOverflow, Abstract!Pending, AbstractCalls
  <2>4. CASE ~full /\ push_back(msg[t]) /\ goto(t, "put_signal") /\ UNCHANGED alive
    <3>1. msg[t] \in Items
      BY <1>1, <1>8 DEF PutPush, TypeOK, PutLabels
    <3>2. Contents' = Append(Contents, msg[t])
      BY <1>1, <2>4, <3>1, PushBack DEF RingInv, RingTypeOK
    <3>3. Len(Contents) < ItemCount
      BY <1>1, <1>3, <2>4, ConstantFacts DEF RingInv, RingBounded, full
    <3>4. callOf(t)' = [op |-> "put", tmo |-> tmo[t], status |-> "POS_OK", item |-> msg[t]]
      BY <1>1, <1>2, <1>8, <2>4 DEF PutPush, CallTable, TypeOK
    <3>5. callOf(t)' = [callOf(t) EXCEPT !.status = "POS_OK"]
      BY <2>1, <3>4
    <3>6. AbstractCalls' = [AbstractCalls EXCEPT ![t].status = "POS_OK"]
      BY <1>4, <2>2, <3>5, ExceptStatus
    <3>7. Abstract!Pending(t, "put") /\ AbstractCalls[t].item = msg[t]
      BY <1>4, <2>1, <2>2 DEF Abstract!Pending
    <3> QED
      BY <2>4, <3>2, <3>3, <3>6, <3>7 DEF Abstract!Put, AbstractCalls
  <2> QED
    BY <1>8, <2>3, <2>4 DEF PutPush
\* get() takes effect when it removes the message that it has copied.
<1>9. ASSUME NEW t \in Threads, GetPop(t)
      PROVE  Abstract!Get(t)
  <2>1. ~empty /\ pop_front /\ goto(t, "get_unlock") /\ UNCHANGED alive /\ msg[t] = front
    BY <1>1, <1>9 DEF GetPop, CopyIsFront
  <2>2. callOf(t) = [op |-> "get", tmo |-> tmo[t], status |-> "pending", item |-> NoItem]
    BY <1>2, <1>9 DEF GetPop, CallTable
  <2>3. alive /\ AbstractCalls' = [AbstractCalls EXCEPT ![t] = callOf(t)']
    BY <1>1, <1>9, CallsFrame DEF GetPop, TypeOK
  <2>4. Contents # << >> /\ msg[t] = Head(Contents) /\ Contents' = Tail(Contents)
    BY <1>1, <2>1, PopFront DEF RingInv, RingTypeOK
  <2>5. msg[t] # NoItem
    BY <1>1, <1>9 DEF GetPop, TypeOK
  <2>6. callOf(t)' = [op |-> "get", tmo |-> tmo[t], status |-> "POS_OK", item |-> msg[t]]
    BY <1>1, <1>2, <1>9, <2>1, <2>5 DEF GetPop, CallTable, TypeOK
  <2>7. callOf(t)' = [callOf(t) EXCEPT !.status = "POS_OK", !.item = Head(Contents)]
    <3>1. callOf(t)' = [callOf(t) EXCEPT !.status = "POS_OK", !.item = msg[t]]
      <4>1. /\ callOf(t) = GetRecord(tmo[t], "pending", NoItem)
            /\ callOf(t)' = GetRecord(tmo[t], "POS_OK", msg[t])
        BY ONLY <2>2, <2>6 DEF GetRecord
      <4>2. callOf(t)' = Received(callOf(t), msg[t])
        BY ONLY <4>1, ReceivedRecord
      <4> QED
        BY ONLY <4>2 DEF Received
    <3> QED
      BY ONLY <2>4, <3>1
  <2>8. AbstractCalls' = [AbstractCalls EXCEPT ![t].status = "POS_OK", ![t].item = Head(Contents)]
    <3>1. AbstractCalls = [u \in Threads |-> AbstractCalls[u]]
      BY DEF AbstractCalls
    <3> QED
      BY <1>4, <2>3, <2>7, <3>1, ExceptStatusItem
  <2>9. Abstract!Pending(t, "get")
    BY <1>4, <2>2, <2>3 DEF Abstract!Pending
  <2> QED
    BY <2>1, <2>4, <2>8, <2>9 DEF Abstract!Get, AbstractCalls
\* It gives up only where it finds no message, and was told not to wait for one.
<1>10. ASSUME NEW t \in Threads, GetCopy(t), size = 0
      PROVE  Abstract!GetNothing(t)
  <2>1. callOf(t) = [op |-> "get", tmo |-> "NO_WAIT", status |-> "pending", item |-> NoItem]
    BY <1>2, <1>10 DEF GetCopy, CallTable, WaitInv
  <2>2. alive /\ AbstractCalls' = [AbstractCalls EXCEPT ![t] = callOf(t)']
    BY <1>1, <1>10, CallsFrame DEF GetCopy, TypeOK
  <2>3. msg[t] = NoItem
    BY <1>1, <1>10 DEF GetCopy, TypeOK, PutLabels
  <2>4. callOf(t)' = [op |-> "get", tmo |-> "NO_WAIT", status |-> "POS_TIMEOUT", item |-> NoItem]
    BY <1>1, <1>2, <1>10, <2>3 DEF GetCopy, CallTable, TypeOK, WaitInv
  <2>5. callOf(t)' = [callOf(t) EXCEPT !.status = "POS_TIMEOUT"]
    BY <2>1, <2>4
  <2>6. Contents = << >> /\ UNCHANGED <<Contents, alive>>
    BY <1>3, <1>10, RingUnchanged DEF GetCopy
  <2>7. AbstractCalls' = [AbstractCalls EXCEPT ![t].status = "POS_TIMEOUT"]
    BY <1>4, <2>2, <2>5, ExceptStatus
  <2>8. Abstract!Pending(t, "get") /\ AbstractCalls[t].tmo # "FOREVER"
    BY <1>4, <2>1, <2>2 DEF Abstract!Pending
  <2> QED
    BY <2>6, <2>7, <2>8 DEF Abstract!GetNothing, AbstractCalls
\* is_empty() takes effect when it reads the size.
<1>11. ASSUME NEW t \in Threads, SizeRead(t)
      PROVE  Abstract!IsEmpty(t)
  <2>1. callOf(t) = [op |-> "is_empty", tmo |-> tmo[t], status |-> "pending", item |-> NoItem]
    BY <1>2, <1>11 DEF SizeRead, CallTable
  <2>2. alive /\ AbstractCalls' = [AbstractCalls EXCEPT ![t] = callOf(t)']
    BY <1>1, <1>11, CallsFrame DEF SizeRead, TypeOK
  <2>3. callOf(t)' = [op |-> "is_empty", tmo |-> tmo[t],
                      status |-> IF size = 0 THEN "true" ELSE "false", item |-> NoItem]
    BY <1>1, <1>2, <1>11 DEF SizeRead, CallTable, TypeOK
  <2>4. callOf(t)' = [callOf(t) EXCEPT !.status = IF Contents = << >> THEN "true" ELSE "false"]
    BY <1>3, <2>1, <2>3
  <2>5. UNCHANGED <<Contents, alive>>
    BY <1>11, RingUnchanged DEF SizeRead
  <2>6. AbstractCalls'
          = [AbstractCalls EXCEPT ![t].status = IF Contents = << >> THEN "true" ELSE "false"]
    BY <1>4, <2>2, <2>4, ExceptStatus
  <2>7. Abstract!Pending(t, "is_empty")
    BY <1>4, <2>1, <2>2 DEF Abstract!Pending
  <2> QED
    BY <2>5, <2>6, <2>7 DEF Abstract!IsEmpty, AbstractCalls
\* Returns.
<1>12. ASSUME NEW t \in Threads, PutReturn(t) \/ GetReturn(t) \/ SizeUnlock(t)
      PROVE  Abstract!Return(t)
  <2>1. alive /\ AbstractCalls' = [AbstractCalls EXCEPT ![t] = callOf(t)']
    BY <1>1, <1>12, CallsFrame DEF PutReturn, GetReturn, SizeUnlock, TypeOK
  <2>2. callOf(t).status # "pending"
    BY <1>2, <1>12 DEF PutReturn, GetReturn, SizeUnlock, CallTable
  <2>3. pc'[t] = "idle" /\ tmo'[t] = "NO_WAIT"
    BY <1>1, <1>12 DEF PutReturn, GetReturn, SizeUnlock, TypeOK, WaitInv, GetLabels
  <2>4. callOf(t)' = Abstract!Idle
    BY <1>2, <2>3 DEF CallTable, Abstract!Idle
  <2>5. UNCHANGED <<Contents, alive>>
    BY <1>12, RingUnchanged DEF PutReturn, GetReturn, SizeUnlock
  <2> QED
    BY <2>1, <2>2, <2>4, <2>5 DEF Abstract!Return, AbstractCalls
\* The callback is made, or has gone and ends the process.
<1>13. ASSUME NEW t \in Threads, PutCallCb(t)
      PROVE  Abstract!PutCallbackGone(t) \/ UNCHANGED <<Contents, AbstractCalls, alive>>
  <2>1. callOf(t) = [op |-> "put", tmo |-> tmo[t], status |-> "POS_OK", item |-> msg[t]]
    BY <1>2, <1>13 DEF PutCallCb, CallTable
  <2>2. CASE due' = FALSE /\ goto(t, "put_return") /\ UNCHANGED alive
    <3>1. callOf(t)' = callOf(t)
      BY <1>1, <1>2, <1>13, <2>1, <2>2 DEF PutCallCb, CallTable, TypeOK
    <3> QED
      BY <1>1, <1>13, <2>2, <3>1, Stutters DEF PutCallCb, TypeOK
  <2>3. CASE alive' = FALSE /\ UNCHANGED <<pc, due>>
    <3>1. alive /\ UNCHANGED <<Contents, AbstractCalls>>
      BY <1>13, <2>3, RingUnchanged DEF PutCallCb, AbstractCalls, callOf
    <3>2. AbstractCalls[t].op = "put" /\ AbstractCalls[t].status = "POS_OK"
      BY <1>4, <2>1
    <3> QED
      BY <2>3, <3>1, <3>2 DEF Abstract!PutCallbackGone, AbstractCalls
  <2> QED
    BY <1>13, <2>2, <2>3 DEF PutCallCb
\* What no caller can see.
<1>14. ASSUME NEW t \in Threads,
              \/ PutLock(t) \/ PutSignal(t) \/ PutUnlock(t) \/ PutCheckCb(t) \/ SizeLock(t)
       PROVE  UNCHANGED <<Contents, AbstractCalls, alive>>
  <2>1. /\ UNCHANGED <<ringVars, alive, msg, tmo>>
        /\ \A u \in Threads \ {t} : pc'[u] = pc[u]
    BY <1>1, <1>14 DEF PutLock, PutSignal, PutUnlock, PutCheckCb, SizeLock, TypeOK
  <2>2. callOf(t)' = callOf(t)
    BY <1>1, <1>2, <1>14
    DEF PutLock, PutSignal, PutUnlock, PutCheckCb, SizeLock, TypeOK, CallTable
  <2> QED
    BY <2>1, <2>2, Stutters
<1>15. ASSUME NEW t \in Threads,
              \/ GetLock(t) \/ GetLoop(t) \/ GetWakeup(t) \/ GetUnlock(t)
              \/ SpuriousWakeup(t) \/ (GetCopy(t) /\ size # 0)
       PROVE  UNCHANGED <<Contents, AbstractCalls, alive>>
  <2>1. /\ UNCHANGED <<ringVars, alive, tmo>>
        /\ \A u \in Threads \ {t} : pc'[u] = pc[u] /\ msg'[u] = msg[u]
    BY <1>1, <1>15
    DEF GetLock, GetLoop, GetWakeup, GetUnlock, SpuriousWakeup, GetCopy, TypeOK
  <2>2. callOf(t)' = callOf(t)
    <3>1. CASE GetUnlock(t)
      BY <1>1, <1>2, <3>1 DEF GetUnlock, TypeOK, CallTable
    <3>2. CASE GetLock(t) \/ GetLoop(t) \/ GetWakeup(t) \/ SpuriousWakeup(t)
               \/ (GetCopy(t) /\ size # 0)
      BY <1>1, <1>2, <3>2
      DEF GetLock, GetLoop, GetWakeup, SpuriousWakeup, GetCopy, TypeOK, CallTable
    <3> QED
      BY <1>15, <3>1, <3>2
  <2> QED
    BY <2>1, <2>2, Stutters
<1>16. ASSUME NEW t \in Threads, NEW registered \in BOOLEAN, SetSignalCb(t, registered)
       PROVE  UNCHANGED <<Contents, AbstractCalls, alive>>
  BY <1>16, RingUnchanged DEF SetSignalCb, AbstractCalls, callOf
<1>17. CASE Abort \/ UNCHANGED vars
  BY <1>17, RingUnchanged DEF Abort, Aborted, vars, AbstractCalls, callOf
<1>18. ASSUME NEW t \in Threads,
              \/ Abstract!Invoke(t) \/ Abstract!Return(t) \/ Abstract!Put(t)
              \/ Abstract!PutOverflow(t) \/ Abstract!PutCallbackGone(t)
              \/ Abstract!Get(t) \/ Abstract!GetNothing(t) \/ Abstract!IsEmpty(t)
       PROVE  Abstract!Next
  BY <1>18 DEF Abstract!Next
<1>19. ASSUME NEW t \in Threads, Calls(t)
       PROVE  Abstract!Next \/ UNCHANGED <<Contents, AbstractCalls, alive>>
  BY <1>5, <1>6, <1>7, <1>16, <1>18, <1>19 DEF Calls
<1>20. ASSUME NEW t \in Threads, PutStep(t)
       PROVE  Abstract!Next \/ UNCHANGED <<Contents, AbstractCalls, alive>>
  BY <1>8, <1>12, <1>13, <1>14, <1>18, <1>20 DEF PutStep
<1>21. ASSUME NEW t \in Threads, GetStep(t) \/ SpuriousWakeup(t)
       PROVE  Abstract!Next \/ UNCHANGED <<Contents, AbstractCalls, alive>>
  BY <1>9, <1>10, <1>12, <1>15, <1>18, <1>21 DEF GetStep
<1>22. ASSUME NEW t \in Threads, SizeStep(t)
       PROVE  Abstract!Next \/ UNCHANGED <<Contents, AbstractCalls, alive>>
  BY <1>11, <1>12, <1>14, <1>18, <1>22 DEF SizeStep
<1> QED
  BY <1>17, <1>19, <1>20, <1>21, <1>22 DEF Next

-----------------------------------------------------------------------------
\* What the threads do to the ring, they do in the steps of a FIFO: in put() where the
\* assertion of push_back() holds, and in get() between the copy and the unlock.
LEMMA RingUsedAsFifo == CoreInv /\ [Next]_vars => [Fifo!Next]_Contents
<1> SUFFICES ASSUME CoreInv, [Next]_vars
             PROVE  [Fifo!Next]_Contents
  OBVIOUS
<1>1. TypeOK /\ RingInv /\ alive \in BOOLEAN
  BY DEF CoreInv, TypeOK, RingInv, RingTypeOK
<1>2. ASSUME UNCHANGED ringVars
      PROVE  [Fifo!Next]_Contents
  BY <1>2, RingUnchanged
<1>3. ASSUME NEW t \in Threads, PutPush(t)
      PROVE  [Fifo!Next]_Contents
  <2>1. CASE full /\ assert_fails
    BY <1>2, <2>1 DEF assert_fails
  <2>2. CASE ~full /\ push_back(msg[t]) /\ UNCHANGED alive
    <3>1. msg[t] \in Items
      BY <1>1, <1>3 DEF PutPush, at, TypeOK, PutLabels
    <3>2. Contents' = Append(Contents, msg[t])
      BY <1>1, <2>2, <3>1, PushBack
    <3>3. Len(Contents) < ItemCount
      <4>1. Len(Contents) = size /\ size \in Nat
        BY <1>1, ContentsFacts, SizeFacts, ConstantFacts DEF RingInv
      <4> QED
        BY <1>1, <2>2, <4>1, ConstantFacts DEF RingInv, RingBounded, full
    <3> QED
      BY <3>1, <3>2, <3>3 DEF Fifo!Next, Fifo!Put
  <2> QED
    BY <1>3, <2>1, <2>2 DEF PutPush
<1>4. ASSUME NEW t \in Threads, GetPop(t)
      PROVE  [Fifo!Next]_Contents
  <2>1. CASE empty /\ assert_fails
    BY <1>2, <2>1 DEF assert_fails
  <2>2. CASE ~empty /\ pop_front /\ UNCHANGED alive
    BY <1>1, <2>2, PopFront DEF Fifo!Next, Fifo!Get
  <2> QED
    BY <1>4, <2>1, <2>2 DEF GetPop
<1>5. ASSUME NEW t \in Threads, Calls(t)
      PROVE  UNCHANGED ringVars
  BY <1>5 DEF Calls, PutCall, GetCall, IsEmptyCall, SetSignalCb
<1>6. ASSUME NEW t \in Threads, PutStep(t), ~PutPush(t)
      PROVE  UNCHANGED ringVars
  BY <1>6 DEF PutStep, PutLock, PutSignal, PutUnlock, PutCheckCb, PutCallCb, PutReturn
<1>7. ASSUME NEW t \in Threads, GetStep(t), ~GetPop(t)
      PROVE  UNCHANGED ringVars
  BY <1>7 DEF GetStep, GetLock, GetLoop, GetWakeup, GetCopy, GetUnlock, GetReturn
<1>8. ASSUME NEW t \in Threads, SizeStep(t) \/ SpuriousWakeup(t)
      PROVE  UNCHANGED ringVars
  BY <1>8 DEF SizeStep, SizeLock, SizeRead, SizeUnlock, SpuriousWakeup
<1>9. CASE Abort \/ UNCHANGED vars
  BY <1>2, <1>9 DEF Abort, Aborted, vars
<1> QED
  BY <1>2, <1>3, <1>4, <1>5, <1>6, <1>7, <1>8, <1>9 DEF Next

-----------------------------------------------------------------------------
\* The types, mutual exclusion around the ring, and that get() removes the very
\* message it has copied, for any number of threads.
THEOREM QueueSafety == Spec => [](TypeOK /\ RingBounded /\ MutualExclusion /\ CopyIsFront)
<1>1. QueueInv => TypeOK /\ RingBounded /\ MutualExclusion /\ CopyIsFront
  BY QueueInvFacts DEF CoreInv
<1> QED
  BY <1>1, QueueInitInv, QueueStepInv, PTL DEF Spec

\* One pthread_cond_signal() per put() is enough: nobody stays blocked with a
\* message in the ring that no thread is on its way to take.
THEOREM WakeupsNotLost == Spec => []NoLostWakeup
<1>1. Init => NoLostWakeup
  BY DEF Init, NoLostWakeup
<1> QED
  BY <1>1, QueueInitInv, QueueStepInv, NoLostWakeupStep, PTL DEF Spec

\* No message is announced too early or not at all: as long as a call of the
\* registered callback is owed, a put() is between its push and that call, for
\* any number of threads that put, and that change the callback meanwhile.
THEOREM SignalsFollowPushes == Spec => []SignalFollowsPush
<1>1. Init => CallbackInv
  BY DEF Init, CallbackInv, SignalFollowsPush
<1>2. QueueInv => TypeOK
  BY DEF QueueInv, CoreInv
<1>3. CallbackInv => SignalFollowsPush
  BY DEF CallbackInv
<1> QED
  BY <1>1, <1>2, <1>3, QueueInitInv, QueueStepInv, CallbackStep, PTL DEF Spec

\* The queue of the POSIX port is linearizable: for any number of threads, any
\* capacity and every interleaving of their steps, what the callers see is one
\* bounded FIFO queue on which each call takes effect at one instant.
THEOREM QueueLinearizable == Spec => QueueImplementsMessageQueue
<1>1. Init => WaitInv /\ Abstract!Init
  BY AbstractInit
<1>2. [Abstract!Next]_<<Contents, AbstractCalls, alive>>
        <=> [Abstract!Next]_<<Contents, [t \in Threads |-> callOf(t)], alive>>
  BY DEF AbstractCalls
<1> QED
  BY <1>1, <1>2, QueueInitInv, QueueInvFacts, QueueStepInv, WaitStep, QueueRefines, PTL
  DEF Spec, QueueImplementsMessageQueue, Abstract!Spec

\* The ring inside pos_queue is used as a bounded FIFO by all threads together: no
\* interleaving makes push_back() overwrite a message or pop_front() skip one.
THEOREM QueueRingIsFifo == Spec => RingImplementsFifo
<1>1. Init => Fifo!Init
  BY RingInitInv DEF Init, Fifo!Init
<1> QED
  BY <1>1, QueueInitInv, QueueInvFacts, QueueStepInv, RingUsedAsFifo, PTL
  DEF Spec, RingImplementsFifo, Fifo!Spec

-----------------------------------------------------------------------------
(***************************************************************************)
(* The queue when the tasks that use it are removed.                       *)
(***************************************************************************)
Lives == {"none", "running", "cancelled", "dead", "ended"}

\* Only a thread that lives is inside the queue, and a thread that is no more holds
\* the mutex only if it died while it waited for a message, which it does only if
\* it may wait.
LifeInv ==
    /\ life \in [Threads -> Lives]
    /\ \A t \in Threads :
          /\ pc[t] \in Inside => Lively(t)
          /\ life[t] \in {"none", "ended"} => pc[t] = "idle"
          /\ mutex = t => pc[t] \in Inside \/ (pc[t] = "get_wait" /\ life[t] = "dead")
          /\ pc[t] \in {"get_loop", "get_wait"} => tmo[t] # "NO_WAIT"

RemovalInv == CoreInv /\ WaitInv /\ LifeInv

\* What the threads do in the queue, and what happens to tasks around it.
QueueAction ==
    /\ \E t \in Threads :
          /\ Lively(t)
          /\ Calls(t) \/ PutStep(t) \/ GetStep(t) \/ SizeStep(t) \/ SpuriousWakeup(t)
    /\ UNCHANGED taskVars

\* The steps of managers, and the ends of tasks.
LifeAction ==
    \/ \E t \in Threads : DieWaiting(t) \/ DieOutside(t)
    \/ \E t \in Tasks : \/ TaskEnds(t)
                        \/ \E m \in Managers : pos_task_init(m, t) \/ pos_task_remove(m, t)
    \/ \E m \in Managers : CountLoad(m) \/ CountStore(m)

\* A step is one in the queue, one in the life of a task, or leaves the tasks alone.
LEMMA TaskStepCases ==
    [TaskNext]_allVars =>
        \/ QueueAction
        \/ LifeAction
        \/ (Abort \/ UNCHANGED vars) /\ UNCHANGED taskVars
BY DEF TaskNext, allVars, queueVars, vars, QueueStep, QueueAction, LifeAction

\* A step in the queue is a step of PosixQueue.
LEMMA QueueActionIsStep == QueueAction => [Next]_vars
BY DEF QueueAction, Next

\* The steps outside the queue leave everything in it alone, but for a task that
\* dies waiting: it takes the mutex, when nobody is inside.
LEMMA LifeActionFrame ==
    ASSUME RemovalInv, LifeAction
    PROVE  /\ UNCHANGED <<ringVars, alive, pc, msg, tmo, sig_cb, due>>
           /\ \/ UNCHANGED <<mutex, condv>>
              \/ \E t \in Threads : DieWaiting(t)
<1> USE DEF queueVars, callVars, syncVars, sigVars
<1>1. ASSUME NEW t \in Threads, DieWaiting(t) \/ DieOutside(t)
      PROVE  /\ UNCHANGED <<ringVars, alive, pc, msg, tmo, sig_cb, due>>
             /\ UNCHANGED <<mutex, condv>> \/ DieWaiting(t)
  BY <1>1 DEF DieWaiting, DieOutside, Die
<1>2. ASSUME NEW t \in Tasks,
             TaskEnds(t) \/ \E m \in Managers : pos_task_init(m, t) \/ pos_task_remove(m, t)
      PROVE  UNCHANGED queueVars
  BY <1>2 DEF TaskEnds, pos_task_init, pos_task_remove
<1>3. ASSUME NEW m \in Managers, CountLoad(m) \/ CountStore(m)
      PROVE  UNCHANGED queueVars
  BY <1>3 DEF CountLoad, CountStore
<1> QED
  BY <1>1, <1>2, <1>3 DEF LifeAction

\* They keep what the queue relies on.
LEMMA LifeActionKeepsQueue == RemovalInv /\ LifeAction => CoreInv' /\ WaitInv'
<1> SUFFICES ASSUME RemovalInv, LifeAction
             PROVE  CoreInv' /\ WaitInv'
  OBVIOUS
<1>1. TypeOK /\ RingBounded /\ InsideHolds /\ CopyIsFront /\ WaitInv /\ LifeInv
  BY DEF RemovalInv, CoreInv
<1>2. UNCHANGED <<ringVars, alive, pc, msg, tmo, sig_cb, due>>
  BY LifeActionFrame
<1>3. RingBounded' /\ CopyIsFront' /\ WaitInv'
  BY <1>1, <1>2, RingUnchanged DEF CopyIsFront, WaitInv
<1>4. CASE UNCHANGED <<mutex, condv>>
  <2>1. TypeOK' /\ InsideHolds'
    BY <1>1, <1>2, <1>4 DEF TypeOK, RingTypeOK, ringVars, InsideHolds
  <2> QED
    BY <1>3, <2>1 DEF CoreInv
<1>5. ASSUME NEW t \in Threads, DieWaiting(t)
      PROVE  CoreInv' /\ WaitInv'
  <2>1. mutex = NoThread /\ mutex' = t /\ condv' \subseteq condv
    BY <1>5 DEF DieWaiting, lock
  <2>2. TypeOK'
    BY <1>1, <1>2, <2>1 DEF TypeOK, RingTypeOK, ringVars
  <2>3. \A u \in Threads : pc[u] \notin Inside
    BY <1>1, <2>1, QueueAssumption DEF InsideHolds
  <2>4. InsideHolds'
    BY <1>1, <1>2, <2>1, <2>3 DEF InsideHolds
  <2> QED
    BY <1>3, <2>2, <2>4 DEF CoreInv
<1> QED
  BY <1>4, <1>5, LifeActionFrame

\* Steps in the queue keep the dead out of it.
LEMMA QueueActionKeepsLife == RemovalInv /\ QueueAction => LifeInv'
<1> SUFFICES ASSUME RemovalInv, QueueAction
             PROVE  LifeInv'
  OBVIOUS
<1> USE QueueAssumption
<1> USE DEF at, goto, lock, unlock, callVars, syncVars, sigVars, Lively
<1>1. TypeOK /\ InsideHolds /\ LifeInv
  BY DEF RemovalInv, CoreInv
<1>2. PICK t \in Threads :
         /\ life[t] \in {"running", "cancelled"}
         /\ Calls(t) \/ PutStep(t) \/ GetStep(t) \/ SizeStep(t) \/ SpuriousWakeup(t)
  BY DEF QueueAction
<1>3. life' = life
  BY DEF QueueAction, taskVars
<1>4. CASE Calls(t)
  BY <1>1, <1>2, <1>3, <1>4
  DEF Calls, PutCall, GetCall, IsEmptyCall, SetSignalCb, TypeOK, Inside, LifeInv, InsideHolds
<1>5. CASE PutStep(t)
  BY <1>1, <1>2, <1>3, <1>5
  DEF PutStep, PutLock, PutPush, PutSignal, PutUnlock, PutCheckCb, PutCallCb, PutReturn,
      TypeOK, Inside, LifeInv, InsideHolds
<1>6. CASE GetStep(t) \/ SpuriousWakeup(t)
  BY <1>1, <1>2, <1>3, <1>6
  DEF GetStep, GetLock, GetLoop, GetWakeup, GetCopy, GetPop, GetUnlock, GetReturn,
      SpuriousWakeup, TypeOK, Inside, LifeInv, InsideHolds
<1>7. CASE SizeStep(t)
  BY <1>1, <1>2, <1>3, <1>7
  DEF SizeStep, SizeLock, SizeRead, SizeUnlock, TypeOK, Inside, LifeInv, InsideHolds
<1> QED
  BY <1>2, <1>4, <1>5, <1>6, <1>7

\* A task dies where it holds nothing, or while it waits.
LEMMA LifeActionKeepsLife == RemovalInv /\ LifeAction => LifeInv'
<1> SUFFICES ASSUME RemovalInv, LifeAction
             PROVE  LifeInv'
  OBVIOUS
<1> USE QueueAssumption, TaskAssumption
<1> USE DEF at, lock, queueVars, callVars, syncVars, sigVars, Lively, Lives
<1>1. TypeOK /\ InsideHolds /\ LifeInv
  BY DEF RemovalInv, CoreInv
<1>2. UNCHANGED <<pc, tmo>>
  BY LifeActionFrame
<1>3. ASSUME NEW t \in Threads, DieWaiting(t)
      PROVE  LifeInv'
  BY <1>1, <1>2, <1>3 DEF DieWaiting, Die, LifeInv, InsideHolds, Inside
<1>4. ASSUME NEW t \in Threads, DieOutside(t)
      PROVE  LifeInv'
  BY <1>1, <1>2, <1>4 DEF DieOutside, Die, LifeInv, Inside
<1>5. ASSUME NEW t \in Tasks, TaskEnds(t)
      PROVE  LifeInv'
  BY <1>1, <1>2, <1>5 DEF TaskEnds, LifeInv, Inside
<1>6. ASSUME NEW t \in Tasks, NEW m \in Managers, pos_task_init(m, t)
      PROVE  LifeInv'
  BY <1>1, <1>2, <1>6 DEF pos_task_init, LifeInv, Inside
<1>7. ASSUME NEW t \in Tasks, NEW m \in Managers, pos_task_remove(m, t)
      PROVE  LifeInv'
  BY <1>1, <1>2, <1>7 DEF pos_task_remove, LifeInv, Inside
<1>8. ASSUME NEW m \in Managers, CountLoad(m) \/ CountStore(m)
      PROVE  LifeInv'
  BY <1>1, <1>2, <1>8 DEF CountLoad, CountStore, LifeInv
<1> QED
  BY <1>3, <1>4, <1>5, <1>6, <1>7, <1>8 DEF LifeAction

\* Every step of the tasks, of their managers and of the queue keeps the invariant.
LEMMA RemovalStep == RemovalInv /\ [TaskNext]_allVars => RemovalInv'
<1> SUFFICES ASSUME RemovalInv, [TaskNext]_allVars
             PROVE  RemovalInv'
  OBVIOUS
<1>1. CoreInv /\ WaitInv /\ LifeInv
  BY DEF RemovalInv
<1>2. CASE QueueAction
  <2>1. [Next]_vars
    BY <1>2, QueueActionIsStep
  <2>2. CoreInv' /\ WaitInv'
    BY <1>1, <2>1, CoreStepInv, WaitStep
  <2> QED
    BY <1>2, <2>2, QueueActionKeepsLife DEF RemovalInv
<1>3. CASE LifeAction
  BY <1>3, LifeActionKeepsQueue, LifeActionKeepsLife DEF RemovalInv
<1>4. CASE (Abort \/ UNCHANGED vars) /\ UNCHANGED taskVars
  <2>1. [Next]_vars
    BY <1>4 DEF Next
  <2>2. CoreInv' /\ WaitInv'
    BY <1>1, <2>1, CoreStepInv, WaitStep
  <2>3. UNCHANGED <<pc, tmo, mutex, life>>
    BY <1>4 DEF Abort, vars, callVars, syncVars, taskVars
  <2>4. LifeInv'
    BY <1>1, <2>3 DEF LifeInv, Lively
  <2> QED
    BY <2>2, <2>4 DEF RemovalInv
<1> QED
  BY <1>2, <1>3, <1>4, TaskStepCases

\* Before the first task is started the invariant holds.
LEMMA RemovalInit == TaskInit => RemovalInv
<1> SUFFICES ASSUME TaskInit
             PROVE  RemovalInv
  OBVIOUS
<1>1. CoreInv /\ WaitInv
  BY QueueInitInv DEF TaskInit, QueueInv, Init, WaitInv
<1>2. LifeInv
  BY QueueAssumption DEF TaskInit, Init, LifeInv, Lives, Inside, Lively
<1> QED
  BY <1>1, <1>2 DEF RemovalInv

\* Whatever tasks are removed, wherever they are: the ring is not damaged, a get()
\* removes the message that it has copied, and the mutex is lost only with a task
\* that was blocked in get().
THEOREM RemovalOrphansOnlyByWaiter ==
    TaskSpec => [](RingBounded /\ CopyIsFront /\ OrphanedOnlyByWaiter)
<1>1. RemovalInv => RingBounded /\ CopyIsFront /\ OrphanedOnlyByWaiter
  BY DEF RemovalInv, CoreInv, LifeInv, OrphanedOnlyByWaiter
<1> QED
  BY <1>1, RemovalInit, RemovalStep, PTL DEF TaskSpec

\* Removing a task, also in the middle of a call, does not break the order of the
\* messages in the ring, or lose or double one.
THEOREM RemovalKeepsRingFifo == TaskSpec => RingImplementsFifo
<1>1. TaskInit => Fifo!Init
  BY RingInitInv DEF TaskInit, Init, Fifo!Init
<1>2. RemovalInv /\ [TaskNext]_allVars => [Fifo!Next]_Contents
  <2> SUFFICES ASSUME RemovalInv, [TaskNext]_allVars
               PROVE  [Fifo!Next]_Contents
    OBVIOUS
  <2>1. CASE QueueAction \/ ((Abort \/ UNCHANGED vars) /\ UNCHANGED taskVars)
    <3>1. [Next]_vars
      BY <2>1, QueueActionIsStep DEF Next
    <3> QED
      BY <3>1, RingUsedAsFifo DEF RemovalInv
  <2>2. CASE LifeAction
    <3>1. UNCHANGED ringVars
      BY <2>2, LifeActionFrame
    <3> QED
      BY <3>1, RingUnchanged
  <2> QED
    BY <2>1, <2>2, TaskStepCases
<1> QED
  BY <1>1, <1>2, RemovalInit, RemovalStep, PTL DEF TaskSpec, RingImplementsFifo, Fifo!Spec

\* The queue stays linearizable when tasks are removed in the middle of their calls:
\* such a call has taken effect once or not at all, and no other call notices.
THEOREM RemovalKeepsQueueLinearizable == TaskSpec => QueueImplementsMessageQueue
<1>1. TaskInit => Abstract!Init
  BY AbstractInit DEF TaskInit
<1>2. RemovalInv /\ RemovalInv' /\ [TaskNext]_allVars
        => [Abstract!Next]_<<Contents, AbstractCalls, alive>>
  <2> SUFFICES ASSUME RemovalInv, RemovalInv', [TaskNext]_allVars
               PROVE  [Abstract!Next]_<<Contents, AbstractCalls, alive>>
    OBVIOUS
  <2>1. CoreInv /\ CoreInv' /\ WaitInv
    BY DEF RemovalInv
  <2>2. CASE QueueAction \/ ((Abort \/ UNCHANGED vars) /\ UNCHANGED taskVars)
    <3>1. [Next]_vars
      BY <2>2, QueueActionIsStep DEF Next
    <3> QED
      BY <2>1, <3>1, QueueRefines
  <2>3. CASE LifeAction
    <3>1. UNCHANGED <<ringVars, alive, pc, msg, tmo>>
      BY <2>3, LifeActionFrame
    <3>2. UNCHANGED <<Contents, AbstractCalls, alive>>
      BY <3>1, RingUnchanged DEF AbstractCalls, callOf
    <3> QED
      BY <3>2
  <2> QED
    BY <2>2, <2>3, TaskStepCases
<1>3. [Abstract!Next]_<<Contents, AbstractCalls, alive>>
        <=> [Abstract!Next]_<<Contents, [t \in Threads |-> callOf(t)], alive>>
  BY DEF AbstractCalls
<1> QED
  BY <1>1, <1>2, <1>3, RemovalInit, RemovalStep, PTL
  DEF TaskSpec, QueueImplementsMessageQueue, Abstract!Spec
-----------------------------------------------------------------------------
(***************************************************************************)
(* pos_task_count(), when one thread starts and removes all tasks.         *)
(***************************************************************************)
OneManagerOnly == \A m, n \in Managers : m = n

Inited == {t \in Tasks : inited_[t]}

\* The count is that of the tasks whose OsTask is initialised, and what the only
\* manager has loaded is still the count.  A task that runs is initialised, or the
\* manager is on its way to initialise it; the task that it has just cancelled is.
Job(m) ==
    \/ job[m] = Resting
    \/ /\ job[m].task \in Tasks
       /\ job[m].reg \in {NotLoaded, s_task_count}
       /\ \/ job[m].add = 1 /\ ~inited_[job[m].task] /\ life[job[m].task] # "none"
          \/ job[m].add = -1 /\ inited_[job[m].task] /\ life[job[m].task] # "running"

CountInv ==
    /\ life \in [Threads -> Lives]
    /\ inited_ \in [Threads -> BOOLEAN]
    /\ job \in [Managers -> [task : Threads \cup {NoThread}, add : Int, reg : Int]]
    /\ s_task_count = Cardinality(Inited)
    /\ \A m \in Managers : Job(m)
    /\ \A t \in Tasks :
          /\ inited_[t] => life[t] # "none"
          /\ life[t] = "running" => inited_[t] \/ \E m \in Managers : job[m].add = 1 /\ job[m].task = t

\* There are finitely many initialised tasks.
LEMMA InitedFinite == IsFiniteSet(Tasks) /\ IsFiniteSet(Inited) /\ Cardinality(Inited) \in Nat
<1>1. IsFiniteSet(Tasks)
  BY QueueAssumption, TaskAssumption, FS_Subset
<1>2. Inited \in SUBSET Tasks
  BY DEF Inited
<1> QED
  BY <1>1, <1>2, FS_Subset, FS_CardinalityType

\* What keeps life, up to the end of a task, and leaves the managers alone.
LEMMA CountFrame ==
    ASSUME CountInv, UNCHANGED <<inited_, s_task_count, job>>, life' \in [Threads -> Lives],
           \A t \in Tasks : /\ life'[t] = "running" => life[t] = "running"
                            /\ life'[t] = "none" => life[t] = "none"
    PROVE  CountInv'
<1>1. Inited' = Inited
  BY DEF Inited
<1> QED
  BY <1>1 DEF CountInv, Job

\* Every step of the only manager keeps the count.
LEMMA CountStep ==
    ASSUME OneManagerOnly
    PROVE  CountInv /\ [TaskNext]_allVars => CountInv'
<1> SUFFICES ASSUME CountInv, [TaskNext]_allVars
             PROVE  CountInv'
  OBVIOUS
<1> USE QueueAssumption, TaskAssumption
<1>1. \A m, n \in Managers : m = n
  BY DEF OneManagerOnly
<1>2. s_task_count \in Nat /\ s_task_count = Cardinality(Inited)
  BY InitedFinite DEF CountInv
<1>3. ASSUME QueueAction \/ ((Abort \/ UNCHANGED vars) /\ UNCHANGED taskVars)
      PROVE  CountInv'
  <2>1. UNCHANGED taskVars
    BY <1>3 DEF QueueAction
  <2> QED
    BY <2>1, CountFrame DEF taskVars, CountInv
<1>4. ASSUME NEW t \in Threads, DieWaiting(t) \/ DieOutside(t)
      PROVE  CountInv'
  <2>1. life' = [life EXCEPT ![t] = "dead"] /\ UNCHANGED <<inited_, s_task_count, job>>
    BY <1>4 DEF DieWaiting, DieOutside, Die
  <2> QED
    BY <2>1, CountFrame DEF CountInv, Lives
<1>5. ASSUME NEW t \in Tasks, TaskEnds(t)
      PROVE  CountInv'
  <2>1. life' = [life EXCEPT ![t] = "ended"] /\ UNCHANGED <<inited_, s_task_count, job>>
    BY <1>5 DEF TaskEnds
  <2> QED
    BY <2>1, CountFrame DEF CountInv, Lives
\* A task that was never started is not initialised.
<1>6. ASSUME NEW t \in Tasks, NEW m \in Managers, pos_task_init(m, t)
      PROVE  CountInv'
  <2>1. /\ job[m] = Resting
        /\ life[t] = "none"
        /\ UNCHANGED <<inited_, s_task_count>>
    BY <1>6 DEF pos_task_init
  <2>2. CASE UNCHANGED <<life, job>>
    BY <2>1, <2>2, CountFrame DEF CountInv
  <2>3. CASE life' = [life EXCEPT ![t] = "running"] /\ Count(m, t, 1)
    <3>1. /\ job'[m] = [task |-> t, add |-> 1, reg |-> NotLoaded]
          /\ job' \in [Managers -> [task : Threads \cup {NoThread}, add : Int, reg : Int]]
      BY <2>3 DEF Count, CountInv, NotLoaded
    <3>2. Inited' = Inited
      BY <2>1 DEF Inited
    <3>3. /\ life' \in [Threads -> Lives]
          /\ life'[t] = "running"
          /\ \A u \in Tasks \ {t} : life'[u] = life[u]
      BY <2>3 DEF CountInv, Lives
    <3>4. ~inited_[t]
      BY <2>1 DEF CountInv
    <3>5. \A n \in Managers : Job(n)'
      BY <1>1, <2>1, <3>1, <3>3, <3>4 DEF Job
    <3>6. \A u \in Tasks : life[u] = "running" => inited_[u]
      BY <1>1, <2>1 DEF CountInv, Resting
    <3>7. ASSUME NEW u \in Tasks
          PROVE  /\ inited_'[u] => life'[u] # "none"
                 /\ life'[u] = "running" =>
                      inited_'[u] \/ \E n \in Managers : job'[n].add = 1 /\ job'[n].task = u
      BY <2>1, <3>1, <3>3, <3>6 DEF CountInv
    <3> QED
      BY <2>1, <3>1, <3>2, <3>3, <3>5, <3>7 DEF CountInv
  <2> QED
    BY <1>6, <2>2, <2>3 DEF pos_task_init
\* The task that is cancelled does not count as running any more.
<1>7. ASSUME NEW t \in Tasks, NEW m \in Managers, pos_task_remove(m, t)
      PROVE  CountInv'
  <2>1. /\ job[m] = Resting
        /\ inited_[t]
        /\ life' = [life EXCEPT ![t] = IF life[t] = "running" THEN "cancelled" ELSE life[t]]
        /\ UNCHANGED <<inited_, s_task_count>>
    BY <1>7 DEF pos_task_remove
  <2>2. /\ life' \in [Threads -> Lives]
        /\ life'[t] # "running" /\ life'[t] # "none"
        /\ \A u \in Tasks \ {t} : life'[u] = life[u]
    BY <2>1 DEF CountInv, Lives
  <2>3. CASE UNCHANGED job
    BY <2>1, <2>2, <2>3, CountFrame
  <2>4. CASE Count(m, t, -1)
    <3>1. /\ job'[m] = [task |-> t, add |-> -1, reg |-> NotLoaded]
          /\ job' \in [Managers -> [task : Threads \cup {NoThread}, add : Int, reg : Int]]
      BY <2>4 DEF Count, CountInv, NotLoaded
    <3>2. Inited' = Inited
      BY <2>1 DEF Inited
    <3>3. \A n \in Managers : Job(n)'
      BY <1>1, <2>1, <2>2, <3>1 DEF Job
    <3>4. \A u \in Tasks : life[u] = "running" => inited_[u]
      BY <1>1, <2>1 DEF CountInv, Resting
    <3>5. ASSUME NEW u \in Tasks
          PROVE  /\ inited_'[u] => life'[u] # "none"
                 /\ life'[u] = "running" => inited_'[u]
      BY <2>1, <2>2, <3>4 DEF CountInv
    <3> QED
      BY <2>1, <2>2, <3>1, <3>2, <3>3, <3>5 DEF CountInv
  <2> QED
    BY <1>7, <2>3, <2>4 DEF pos_task_remove
<1>8. ASSUME NEW m \in Managers, CountLoad(m)
      PROVE  CountInv'
  <2>1. /\ job[m].reg = NotLoaded
        /\ job' = [job EXCEPT ![m].reg = s_task_count]
        /\ UNCHANGED <<life, inited_, s_task_count>>
    BY <1>8 DEF CountLoad
  <2>2. job[m] # Resting
    BY <2>1 DEF Resting, NotLoaded
  <2>3. /\ job' \in [Managers -> [task : Threads \cup {NoThread}, add : Int, reg : Int]]
        /\ job'[m].task = job[m].task
        /\ job'[m].add = job[m].add
        /\ job'[m].reg = s_task_count
    BY <1>2, <2>1 DEF CountInv
  <2>4. Job(m)
    BY DEF CountInv
  <2>5. Job(m)'
    BY <2>1, <2>2, <2>3, <2>4 DEF Job
  <2>6. Inited' = Inited
    BY <2>1 DEF Inited
  <2> QED
    BY <1>1, <2>1, <2>3, <2>5, <2>6 DEF CountInv
\* What was loaded is still the count, and the task is counted as it is initialised.
<1>9. ASSUME NEW m \in Managers, CountStore(m)
      PROVE  CountInv'
  <2> DEFINE t == job[m].task
  <2>1. /\ job[m] # Resting
        /\ job[m].reg # NotLoaded
        /\ s_task_count' = job[m].reg + job[m].add
        /\ inited_' = [inited_ EXCEPT ![t] = (job[m].add = 1)]
        /\ job' = [job EXCEPT ![m] = Resting]
        /\ UNCHANGED life
    BY <1>9 DEF CountStore
  <2>2. /\ Job(m)
        /\ t \in Tasks
        /\ job[m].reg = s_task_count
    BY <2>1 DEF CountInv, Job
  <2>3. job'[m] = Resting /\ Job(m)'
    BY <2>1 DEF CountInv, Job
  <2>4. job' \in [Managers -> [task : Threads \cup {NoThread}, add : Int, reg : Int]]
    BY <2>1 DEF CountInv, Resting
  <2>5. CASE job[m].add = 1
    <3>1. ~inited_[t] /\ life[t] # "none" /\ s_task_count' = s_task_count + 1
      BY <2>1, <2>2, <2>5 DEF Job, Resting
    <3>2. /\ inited_' \in [Threads -> BOOLEAN]
          /\ inited_'[t]
          /\ \A u \in Tasks \ {t} : inited_'[u] = inited_[u]
      BY <2>1, <2>2, <2>5 DEF CountInv
    <3>3. Inited' = Inited \cup {t} /\ t \notin Inited
      BY <2>2, <3>1, <3>2 DEF Inited
    <3>4. s_task_count' = Cardinality(Inited')
      BY <1>2, <3>1, <3>3, InitedFinite, FS_AddElement
    <3>5. ASSUME NEW u \in Tasks
          PROVE  /\ inited_'[u] => life'[u] # "none"
                 /\ life'[u] = "running" => inited_'[u]
      BY <1>1, <2>1, <3>1, <3>2 DEF CountInv
    <3> QED
      BY <1>1, <2>1, <2>3, <2>4, <3>2, <3>4, <3>5 DEF CountInv
  <2>6. CASE job[m].add = -1
    <3>1. inited_[t] /\ life[t] # "running" /\ s_task_count' = s_task_count - 1
      BY <1>2, <2>1, <2>2, <2>6 DEF Job, Resting
    <3>2. /\ inited_' \in [Threads -> BOOLEAN]
          /\ ~inited_'[t]
          /\ \A u \in Tasks \ {t} : inited_'[u] = inited_[u]
      <4>1. (job[m].add = 1) = FALSE
        BY <2>6
      <4>2. inited_' = [inited_ EXCEPT ![t] = FALSE]
        BY <2>1, <4>1
      <4> QED
        BY <2>2, <4>2 DEF CountInv
    <3>3. Inited' = Inited \ {t} /\ t \in Inited
      BY <2>2, <3>1, <3>2 DEF Inited
    <3>4. s_task_count' = Cardinality(Inited')
      BY <1>2, <3>1, <3>3, InitedFinite, FS_RemoveElement
    <3>5. ASSUME NEW u \in Tasks
          PROVE  /\ inited_'[u] => life'[u] # "none"
                 /\ life'[u] = "running" => inited_'[u]
      BY <1>1, <2>1, <2>6, <3>1, <3>2 DEF CountInv
    <3> QED
      BY <1>1, <2>1, <2>3, <2>4, <3>2, <3>4, <3>5 DEF CountInv
  <2> QED
    BY <2>1, <2>2, <2>5, <2>6 DEF Job
<1> QED
  BY <1>3, <1>4, <1>5, <1>6, <1>7, <1>8, <1>9, TaskStepCases DEF LifeAction

\* The tasks that run are among those that count, and those among the started ones.
LEMMA CountBounds ==
    ASSUME OneManagerOnly
    PROVE  CountInv => CountCoversRunning
<1> SUFFICES ASSUME CountInv
             PROVE  CountCoversRunning
  OBVIOUS
<1> DEFINE busy(change) == {m \in Managers : job[m].add = change}
           tasks(lives) == {t \in Tasks : life[t] \in lives}
           Running == tasks({"running"})
           Started == tasks({"running", "cancelled", "dead", "ended"})
<1>1. /\ IsFiniteSet(Running) /\ Cardinality(Running) \in Nat
      /\ IsFiniteSet(Started) /\ Cardinality(Started) \in Nat
  <2>1. Running \in SUBSET Tasks /\ Started \in SUBSET Tasks
    OBVIOUS
  <2> QED
    BY <2>1, InitedFinite, FS_Subset, FS_CardinalityType
<1>2. IsFiniteSet(busy(-1)) /\ Cardinality(busy(-1)) \in Nat
  <2>1. busy(-1) \in SUBSET Managers
    OBVIOUS
  <2> QED
    BY <2>1, TaskAssumption, FS_Subset, FS_CardinalityType
<1>3. Inited \subseteq Started
  BY TaskAssumption DEF Inited, CountInv, Lives
<1>4. s_task_count = Cardinality(Inited) /\ s_task_count \in Nat
  BY InitedFinite DEF CountInv
<1>5. CASE \E m \in Managers : job[m].add = 1
  <2>1. PICK m \in Managers : job[m].add = 1
    BY <1>5
  <2>2. busy(1) = {m}
    BY <2>1 DEF OneManagerOnly
  <2>3. Cardinality(busy(1)) = 1
    BY <2>2, FS_Singleton
  <2> DEFINE t == job[m].task
  <2>4. t \in Tasks /\ ~inited_[t] /\ life[t] # "none"
    BY <2>1 DEF CountInv, Job, Resting
  <2>5. Running \subseteq Inited \cup {t}
    BY <2>1 DEF CountInv, Inited, OneManagerOnly
  <2>6. Inited \cup {t} \subseteq Started
    BY <1>3, <2>4, TaskAssumption DEF CountInv, Lives
  <2>7. /\ IsFiniteSet(Inited \cup {t})
        /\ Cardinality(Inited \cup {t}) = Cardinality(Inited) + 1
    <3>1. t \notin Inited
      BY <2>4 DEF Inited
    <3> QED
      BY <3>1, InitedFinite, FS_AddElement
  <2> HIDE DEF t, busy, tasks, Running, Started
  <2>8. Cardinality(Running) <= Cardinality(Inited \cup {t})
    BY <2>5, <2>7, FS_Subset
  <2>9. Cardinality(Inited \cup {t}) <= Cardinality(Started)
    BY <1>1, <2>6, FS_Subset
  <2>10. /\ Cardinality(Running) <= s_task_count + Cardinality(busy(1))
         /\ s_task_count + Cardinality(busy(1)) <= Cardinality(Started) + Cardinality(busy(-1))
    BY <1>1, <1>2, <1>4, <2>3, <2>7, <2>8, <2>9
  <2> QED
    BY <2>10 DEF CountCoversRunning, busy, tasks, Running, Started
<1>6. CASE ~\E m \in Managers : job[m].add = 1
  <2>1. busy(1) = {}
    BY <1>6
  <2>2. Cardinality(busy(1)) = 0
    BY <2>1, FS_EmptySet
  <2>3. Running \subseteq Inited
    BY <1>6 DEF CountInv, Inited
  <2> HIDE DEF busy, tasks, Running, Started
  <2>4. Cardinality(Running) <= Cardinality(Inited)
    BY <2>3, InitedFinite, FS_Subset
  <2>5. Cardinality(Inited) <= Cardinality(Started)
    BY <1>1, <1>3, FS_Subset
  <2>6. /\ Cardinality(Running) <= s_task_count + Cardinality(busy(1))
        /\ s_task_count + Cardinality(busy(1)) <= Cardinality(Started) + Cardinality(busy(-1))
    BY <1>1, <1>2, <1>4, <2>2, <2>4, <2>5
  <2> QED
    BY <2>6 DEF CountCoversRunning, busy, tasks, Running, Started
<1> QED
  BY <1>5, <1>6

\* No task has been started.
LEMMA CountInit == TaskInit => CountInv
<1> SUFFICES ASSUME TaskInit
             PROVE  CountInv
  OBVIOUS
<1>1. /\ life = [t \in Threads |-> IF t \in Tasks THEN "none" ELSE "running"]
      /\ inited_ = [t \in Threads |-> FALSE]
      /\ s_task_count = 0
      /\ job = [m \in Managers |-> Resting]
  BY DEF TaskInit
<1>2. Inited = {}
  BY <1>1, TaskAssumption DEF Inited
<1>3. Cardinality(Inited) = 0
  BY <1>2, FS_EmptySet
<1>4. \A m \in Managers : Job(m)
  BY <1>1 DEF Job
<1> QED
  BY <1>1, <1>3, <1>4, TaskAssumption DEF CountInv, Lives, Resting

\* With one manager, pos_task_count() covers the tasks that run at every moment,
\* whichever of them end, are removed, or fail to be removed, for any number of
\* tasks.  (With more managers, updates of the counter may be lost.)
THEOREM CountCoversRunningTasks ==
    ASSUME OneManagerOnly
    PROVE  TaskSpec => []CountCoversRunning
BY CountInit, CountStep, CountBounds, PTL DEF TaskSpec

\* With one manager, s_task_count never passes the number of tasks nor falls below 0,
\* and a task that has not been started or has returned is in no call of the queue.
THEOREM TaskTypes ==
    ASSUME OneManagerOnly
    PROVE  TaskSpec => []TaskTypeOK
<1>1. CountInv /\ LifeInv => TaskTypeOK
  <2> SUFFICES ASSUME CountInv, LifeInv
               PROVE  TaskTypeOK
    OBVIOUS
  <2>1. Inited \in SUBSET Tasks
    BY DEF Inited
  <2>2. Cardinality(Tasks) \in Nat /\ Cardinality(Inited) <= Cardinality(Tasks)
    BY <2>1, InitedFinite, FS_Subset, FS_CardinalityType
  <2>3. s_task_count \in 0 .. Cardinality(Tasks)
    BY <2>2, InitedFinite DEF CountInv
  <2>4. ASSUME NEW m \in Managers
        PROVE  job[m] \in [task : Threads \cup {NoThread}, add : {-1, 0, 1},
                           reg : 0 .. Cardinality(Tasks) \cup {NotLoaded}]
    <3>1. job[m] \in [task : Threads \cup {NoThread}, add : Int, reg : Int] /\ Job(m)
      BY DEF CountInv
    <3>2. job[m].add \in {-1, 0, 1} /\ job[m].reg \in 0 .. Cardinality(Tasks) \cup {NotLoaded}
      BY <2>2, <2>3, <3>1 DEF Job, Resting
    <3> QED
      BY <3>1, <3>2
  <2>5. job \in [Managers -> [task : Threads \cup {NoThread}, add : {-1, 0, 1},
                              reg : 0 .. Cardinality(Tasks) \cup {NotLoaded}]]
    BY <2>4 DEF CountInv
  <2> QED
    BY <2>3, <2>5 DEF TaskTypeOK, CountInv, LifeInv, Lives
<1>2. RemovalInv => LifeInv
  BY DEF RemovalInv
<1> QED
  BY <1>1, <1>2, CountInit, CountStep, RemovalInit, RemovalStep, PTL DEF TaskSpec
=============================================================================
