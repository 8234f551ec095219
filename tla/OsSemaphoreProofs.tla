-------------------------- MODULE OsSemaphoreProofs --------------------------
(***************************************************************************)
(* Proofs about OsSemaphore, for every port, any number of threads, any    *)
(* limit of the native semaphore, any length of a second and any rate of   *)
(* the ticks of a kernel.                                                  *)
(***************************************************************************)
EXTENDS OsSemaphore, FiniteSetTheorems, TLAPS

\* The moment that a timespec stands for, in ticks.
Instant(w) == (w.tv_sec * TicksPerSec) + w.tv_nsec

\* Which of the two ways to wait a thread is on, and with which timeout: the
\* POSIX port computes a deadline, the others do not.
Paths ==
    \A t \in Threads :
        /\ pc[t] \in {"take_clock", "take_timed"} => port = "posix"
        /\ pc[t] = "take_kernel" => port # "posix"
        /\ pc[t] \in {"take_clock", "take_timed", "take_kernel", "take_blocked"} =>
              tmo[t] \in Timeouts

\* A moment is not before the end of the waiting period of a thread, to within the
\* resolution of its port, unless the port takes milliseconds for shorter ticks.
SlowTicks == KernelHz <= TicksPerSec \/ port \in {"posix", "zephyr"}

LateEnough(moment, t) == SlowTicks => moment + resolution(port) > called[t] + tmo[t]

\* A deadline is late enough for its thread, and a timeout is reported by a call
\* that is about to return.
Deadlines ==
    \A t \in Threads :
        /\ called[t] <= clock
        /\ pc[t] \in {"take_timed", "take_blocked"} =>
              LateEnough(Instant(wait[t]), t)
        /\ ret[t] = "POS_TIMEOUT" =>
              /\ pc[t] = "failed"
              /\ port # "apple" => tmo[t] \in Timeouts /\ LateEnough(clock, t)

\* What the phases of the object mean: nobody is in a call before its construction
\* and in its destruction, nothing is given or counted before the constructor is through,
\* and only a full FreeRTOS semaphore fails an assertion.
Phases ==
    /\ phase \in {"new", "destructing", "destroyed"} =>
          \A t \in Threads : pc[t] = "idle"
    /\ phase \in {"new", "constructing"} => take_depth_ = 0
    /\ phase = "constructing" => \A t \in Threads : pc[t] # "give_count"
    /\ phase = "new" => lost = 0
    /\ phase = "abort_give" => port = "freertos" /\ value = SemValueMax
    /\ phase # "abort_destructor"

SemInv == TypeOK /\ Paths /\ Deadlines /\ Phases /\ TokensConserved

-----------------------------------------------------------------------------
(***************************************************************************)
(* What the operators of the model compute.                                *)
(***************************************************************************)

\* A clock reading is a timespec of the moment it was made.
LEMMA GettimeFacts ==
    ASSUME NEW c \in Nat
    PROVE  gettime(c) \in TimeSpec /\ Instant(gettime(c)) = c
<1>1. TicksPerSec \in Nat \ {0}
  BY TimeAssumption
<1>2. c \div TicksPerSec \in Nat /\ c % TicksPerSec \in Nat
  BY <1>1
<1>3. c = (TicksPerSec * (c \div TicksPerSec)) + (c % TicksPerSec)
  BY <1>1
<1>4. (c \div TicksPerSec) * TicksPerSec = TicksPerSec * (c \div TicksPerSec)
  BY <1>1, <1>2
<1> QED
  BY <1>2, <1>3, <1>4 DEF gettime, Instant, TimeSpec

\* Seconds are added before they are turned into ticks.
LEMMA Distributive ==
    ASSUME NEW a \in Nat, NEW b \in Nat, NEW R \in Nat
    PROVE  (a + b) * R = (a * R) + (R * b)
OBVIOUS

\* Without a carry the fields stand for the right moment nevertheless.
LEMMA AddTimeoutFacts ==
    ASSUME NEW w \in TimeSpec, NEW d \in Nat
    PROVE  addTimeout(w, d) \in TimeSpec /\ Instant(addTimeout(w, d)) = Instant(w) + d
<1>1. TicksPerSec \in Nat \ {0}
  BY TimeAssumption
<1>2. d \div TicksPerSec \in Nat /\ d % TicksPerSec \in Nat
  BY <1>1
<1>3. d = (TicksPerSec * (d \div TicksPerSec)) + (d % TicksPerSec)
  BY <1>1
<1>4. w.tv_sec \in Nat /\ w.tv_nsec \in Nat
  BY DEF TimeSpec
<1>5. (w.tv_sec + (d \div TicksPerSec)) * TicksPerSec
        = (w.tv_sec * TicksPerSec) + (TicksPerSec * (d \div TicksPerSec))
  BY ONLY <1>1, <1>2, <1>4, Distributive
<1>6. w.tv_sec * TicksPerSec \in Nat /\ TicksPerSec * (d \div TicksPerSec) \in Nat
  BY <1>1, <1>2, <1>4
<1> QED
  BY <1>2, <1>3, <1>4, <1>5, <1>6 DEF addTimeout, Instant, TimeSpec

\* The order of products is that of their factors.
LEMMA ProductOrder ==
    ASSUME NEW a \in Int, NEW b \in Int, NEW n \in Nat \ {0}, a * n < b * n
    PROVE  a < b
<1>1. ASSUME b <= a
      PROVE  b * n <= a * n
  <2>1. 0 <= (a - b) * n
    BY <1>1
  <2>2. (a - b) * n = (a * n) - (b * n)
    OBVIOUS
  <2>3. a * n \in Int /\ b * n \in Int
    OBVIOUS
  <2> QED
    BY <2>1, <2>2, <2>3
<1>2. a * n \in Int /\ b * n \in Int
  OBVIOUS
<1> QED
  BY <1>1, <1>2

\* The time of a tick is a number of milliseconds in which that many ticks fit.
LEMMA TickTimeFacts ==
    ASSUME NEW k \in Nat
    PROVE  /\ tickTime(k) \in Nat
           /\ k * TicksPerSec \in Nat
           /\ tickTime(k) * KernelHz >= k * TicksPerSec
<1> DEFINE x == k * TicksPerSec
           y == x + KernelHz - 1
<1>1. TicksPerSec \in Nat /\ KernelHz \in Nat \ {0}
  BY TimeAssumption
<1>2. x \in Nat
  BY <1>1
<1>3. y \in Nat
  BY <1>1, <1>2
<1>4. tickTime(k) = y \div KernelHz
  BY DEF tickTime
<1> HIDE DEF x, y
<1>5. y \div KernelHz \in Nat /\ y % KernelHz \in 0 .. (KernelHz - 1)
  BY <1>1, <1>3
<1>6. y = (KernelHz * (y \div KernelHz)) + (y % KernelHz)
  BY <1>1, <1>3
<1>7. KernelHz * (y \div KernelHz) = (y \div KernelHz) * KernelHz
  BY <1>1, <1>5
<1>8. (y \div KernelHz) * KernelHz \in Nat
  BY <1>1, <1>5
<1>9. y = x + KernelHz - 1
  BY DEF y
<1>10. (y \div KernelHz) * KernelHz >= x
  BY <1>1, <1>2, <1>5, <1>6, <1>7, <1>8, <1>9
<1> QED
  BY <1>2, <1>4, <1>5, <1>10 DEF x

\* A port can tell moments of a positive distance apart.
LEMMA ResolutionFacts ==
    ASSUME TypeOK
    PROVE  resolution(port) \in Nat \ {0}
<1>1. tickTime(1) \in Nat /\ tickTime(1) * KernelHz >= 1 * TicksPerSec
  BY TickTimeFacts
<1>2. tickTime(1) # 0
  BY <1>1, TimeAssumption
<1> QED
  BY <1>1, <1>2 DEF resolution

\* A kernel waits for as many ticks as it is given milliseconds, less the part of the
\* running tick that is over: ticks of a millisecond or more are long enough.
LEMMA KernelDeadlineFacts ==
    ASSUME TypeOK, NEW c \in Nat, NEW d \in Nat, port # "posix", port # "apple"
    PROVE  /\ kernelDeadline(port, c, d) \in Nat
           /\ SlowTicks => kernelDeadline(port, c, d) + resolution(port) > c + d
<1> DEFINE k == kernelTick(c)
           e == tickTime(k + d)
           r == tickTime(1)
<1>1. TicksPerSec \in Nat \ {0} /\ KernelHz \in Nat \ {0}
  BY TimeAssumption
<1>2. CASE port = "zephyr"
  BY <1>2 DEF kernelDeadline, resolution
<1>3. k \in Nat /\ k * TicksPerSec \in Nat /\ (k * TicksPerSec) + TicksPerSec > c * KernelHz
  <2> DEFINE z == c * KernelHz
  <2>1. z \in Nat
    BY <1>1
  <2>2. k = z \div TicksPerSec
    BY DEF kernelTick
  <2> HIDE DEF z, k
  <2>3. k \in Nat /\ z % TicksPerSec \in 0 .. (TicksPerSec - 1)
    BY <1>1, <2>1, <2>2
  <2>4. z = (TicksPerSec * k) + (z % TicksPerSec)
    BY <1>1, <2>1, <2>2
  <2>5. TicksPerSec * k = k * TicksPerSec /\ k * TicksPerSec \in Nat
    BY <1>1, <2>3
  <2> QED
    BY <1>1, <2>1, <2>3, <2>4, <2>5 DEF z
<1> HIDE DEF k
<1>4. e \in Nat /\ e * KernelHz >= (k + d) * TicksPerSec
  BY <1>3, TickTimeFacts
<1>5. r \in Nat /\ r * KernelHz >= TicksPerSec
  BY <1>1, TickTimeFacts
<1> HIDE DEF e, r
<1>6. ASSUME KernelHz <= TicksPerSec
      PROVE  (c + d) * KernelHz < (e + r) * KernelHz
  <2>1. (k + d) * TicksPerSec = (k * TicksPerSec) + (TicksPerSec * d)
    BY <1>1, <1>3, Distributive
  <2>2. (c + d) * KernelHz = (c * KernelHz) + (KernelHz * d)
    BY <1>1, Distributive
  <2>3. KernelHz * d <= TicksPerSec * d
    <3>1. 0 <= (TicksPerSec - KernelHz) * d
      BY <1>1, <1>6
    <3>2. (TicksPerSec - KernelHz) * d = (TicksPerSec * d) - (KernelHz * d)
      BY <1>1
    <3>3. TicksPerSec * d \in Nat /\ KernelHz * d \in Nat
      BY <1>1
    <3> QED
      BY <3>1, <3>2, <3>3
  <2>4. (e + r) * KernelHz = (e * KernelHz) + (r * KernelHz)
    BY <1>1, <1>4, <1>5
  <2>5. /\ e * KernelHz \in Nat /\ r * KernelHz \in Nat /\ c * KernelHz \in Nat
        /\ KernelHz * d \in Nat /\ TicksPerSec * d \in Nat
    BY <1>1, <1>4, <1>5
  <2> QED
    BY <1>1, <1>3, <1>4, <1>5, <2>1, <2>2, <2>3, <2>4, <2>5
<1>7. ASSUME KernelHz <= TicksPerSec
      PROVE  c + d < e + r
  BY <1>1, <1>4, <1>5, <1>6, <1>7, ProductOrder
<1>8. CASE port # "zephyr"
  <2>1. port \in {"freertos", "rt-thread"}
    BY <1>8, SemAssumption DEF TypeOK
  <2>2. kernelDeadline(port, c, d) = e /\ resolution(port) = r
    BY <1>8, <2>1 DEF kernelDeadline, resolution, e, r, k
  <2> QED
    BY <1>4, <1>5, <1>7, <1>8, <2>1, <2>2 DEF SlowTicks
<1> QED
  BY <1>2, <1>8

\* The threads at a label are finitely many.
LEMMA CountingType ==
    ASSUME NEW label
    PROVE  Counting(label) \in Nat
<1>1. {t \in Threads : pc[t] = label} \in SUBSET Threads
  OBVIOUS
<1> QED
  BY <1>1, SemAssumption, FS_Subset, FS_CardinalityType DEF Counting

\* What a thread that goes from one label to another does to their counts.
LEMMA CountingGoto ==
    ASSUME NEW label, NEW new, NEW t \in Threads, TypeOK, goto(t, new)
    PROVE  Counting(label)' = Counting(label)
                                + (IF new = label THEN 1 ELSE 0)
                                - (IF pc[t] = label THEN 1 ELSE 0)
<1> DEFINE S == {u \in Threads : pc[u] = label}
           T == {u \in Threads : pc'[u] = label}
<1>1. IsFiniteSet(S) /\ Cardinality(S) \in Nat
  BY SemAssumption, FS_Subset, FS_CardinalityType
<1>2. CASE new = label
  <2>1. T = S \cup {t}
    BY <1>2 DEF goto, TypeOK
  <2>2. Cardinality(T) = IF t \in S THEN Cardinality(S) ELSE Cardinality(S) + 1
    BY <1>1, <2>1, FS_AddElement
  <2> QED
    BY <1>1, <1>2, <2>2 DEF Counting
<1>3. CASE new # label
  <2>1. T = S \ {t}
    BY <1>3 DEF goto, TypeOK
  <2>2. Cardinality(T) = IF t \in S THEN Cardinality(S) - 1 ELSE Cardinality(S)
    BY <1>1, <2>1, FS_RemoveElement
  <2> QED
    BY <1>1, <1>3, <2>2 DEF Counting
<1> QED
  BY <1>2, <1>3

NativeResults == {"0", "-1", "EINTR", "EINVAL", "EBUSY", "ETIMEDOUT", "EAGAIN"}

\* Every port reports success for what succeeded and for nothing else.
LEMMA TakeResult ==
    ASSUME TypeOK, NEW err \in NativeResults, port = "posix" => err # "EBUSY"
    PROVE  /\ pos_sem_take(err) \in {"POS_OK", "POS_TIMEOUT", "POS_EINVAL", "POS_ERROR"}
           /\ pos_sem_take(err) = "POS_OK" <=> err = "0"
           /\ port = "posix" /\ pos_sem_take(err) = "POS_TIMEOUT" => err = "ETIMEDOUT"
BY SemAssumption
DEF NativeResults, TypeOK, pos_sem_take, pos_sem_take_apple, pos_sem_take_freertos,
    pos_sem_take_zephyr, pos_sem_take_rt_thread, map_posix_to_osal_error

\* A give that reports success has left a token, or has lost it on Zephyr; one that
\* fails has met a full semaphore.
LEMMA PostFacts ==
    ASSUME TypeOK, Post
    PROVE  /\ value' \in 0 .. SemValueMax
           /\ lost' \in 0 .. MaxLost
           /\ pos_sem_give.ret \in {"POS_OK", "POS_ERROR", "assert"}
           /\ pos_sem_give.ret = "POS_OK" => value' + lost' = value + lost + 1
           /\ pos_sem_give.ret # "POS_OK" =>
                 UNCHANGED <<value, lost>> /\ value = SemValueMax /\ port # "zephyr"
           /\ pos_sem_give.ret = "assert" => port = "freertos"
           /\ lost' > 0 => lost > 0 \/ port = "zephyr"
<1>1. /\ port \in {"posix", "apple", "freertos", "zephyr", "rt-thread"}
      /\ value \in 0 .. SemValueMax /\ lost \in 0 .. MaxLost
      /\ SemValueMax \in Nat /\ MaxLost \in Nat
  BY SemAssumption DEF TypeOK
<1>2. /\ pos_sem_give.token <=> value < SemValueMax \/ port = "apple"
      /\ pos_sem_give.ret \in {"POS_OK", "POS_ERROR", "assert"}
      /\ pos_sem_give.ret = "POS_OK" <=> value < SemValueMax \/ port \in {"apple", "zephyr"}
      /\ pos_sem_give.ret = "assert" => port = "freertos"
  <2>1. CASE port = "posix"
    BY <2>1 DEF pos_sem_give, pos_sem_give_posix, map_posix_to_osal_error
  <2>2. CASE port = "apple"
    BY <2>2 DEF pos_sem_give, pos_sem_give_apple
  <2>3. CASE port = "freertos"
    BY <2>3 DEF pos_sem_give, pos_sem_give_freertos
  <2>4. CASE port = "zephyr"
    BY <2>4 DEF pos_sem_give, pos_sem_give_zephyr
  <2>5. CASE port = "rt-thread"
    BY <2>5 DEF pos_sem_give, pos_sem_give_rt_thread
  <2> QED
    BY <1>1, <2>1, <2>2, <2>3, <2>4, <2>5
<1>3. CASE value < SemValueMax
  <2>1. value' = value + 1 /\ lost' = lost + 0
    BY <1>2, <1>3 DEF Post
  <2> QED
    BY <1>1, <1>2, <1>3, <2>1
<1>4. CASE value = SemValueMax
  <2>1. port # "apple" /\ (port = "zephyr" => lost < MaxLost)
    BY <1>1, <1>4 DEF Post, mayGive
  <2>2. value' = value + 0 /\ lost' = lost + (IF port = "zephyr" THEN 1 ELSE 0)
    BY <1>1, <1>2, <1>4, <2>1 DEF Post
  <2> QED
    BY <1>1, <1>2, <1>4, <2>1, <2>2
<1> QED
  BY <1>1, <1>3, <1>4

\* The arithmetic of a step: what the counters gain is what the labels explain.
LEMMA BalanceArithmetic ==
    ASSUME NEW n \in Int, NEW m \in Int, NEW initial \in Int,
           NEW takes \in Int, NEW gives \in Int,
           NEW takeNew \in Int, NEW takeOld \in Int, NEW giveNew \in Int, NEW giveOld \in Int,
           n + takes = initial + gives,
           m = n + (giveNew - giveOld) + (takeOld - takeNew)
    PROVE  m + (takes + takeNew - takeOld) = initial + (gives + giveNew - giveOld)
OBVIOUS

\* The balance, as far as it depends on labels and counters.
LEMMA Balance ==
    ASSUME TypeOK, TokensConserved, phase \notin {"new", "abort_constructor"},
           NEW t \in Threads, NEW new, goto(t, new), UNCHANGED port,
           value' + lost' + take_depth_' \in Int,
           lost' > 0 => lost > 0 \/ port = "zephyr",
           value' + lost' + take_depth_'
               = (value + lost + take_depth_)
                   + ((IF new = "give_count" THEN 1 ELSE 0)
                        - (IF pc[t] = "give_count" THEN 1 ELSE 0))
                   + ((IF pc[t] = "take_count" THEN 1 ELSE 0)
                        - (IF new = "take_count" THEN 1 ELSE 0))
    PROVE  TokensConserved'
<1> DEFINE takeNew == IF new = "take_count" THEN 1 ELSE 0
           takeOld == IF pc[t] = "take_count" THEN 1 ELSE 0
           giveNew == IF new = "give_count" THEN 1 ELSE 0
           giveOld == IF pc[t] = "give_count" THEN 1 ELSE 0
           n == value + lost + take_depth_
           m == value' + lost' + take_depth_'
<1>1. takeNew \in Int /\ takeOld \in Int /\ giveNew \in Int /\ giveOld \in Int
  OBVIOUS
<1>2. /\ Counting("take_count")' = Counting("take_count") + takeNew - takeOld
      /\ Counting("give_count")' = Counting("give_count") + giveNew - giveOld
  BY CountingGoto
<1>3. m \in Int /\ m = n + (giveNew - giveOld) + (takeOld - takeNew)
  OBVIOUS
<1>4. /\ Counting("take_count") \in Int
      /\ Counting("give_count") \in Int
      /\ InitialTokens \in Int
      /\ n \in Int
  BY CountingType, SemAssumption DEF TypeOK
<1>5. /\ n + Counting("take_count") = InitialTokens + Counting("give_count")
      /\ lost > 0 => port = "zephyr"
  BY DEF TokensConserved
<1>6. m + Counting("take_count")' = InitialTokens + Counting("give_count")'
  <2> HIDE DEF takeNew, takeOld, giveNew, giveOld, n, m
  <2> QED
    BY <1>1, <1>2, <1>3, <1>4, <1>5, BalanceArithmetic
<1> QED
  BY <1>5, <1>6 DEF TokensConserved

-----------------------------------------------------------------------------
(***************************************************************************)
(* The invariant.                                                          *)
(***************************************************************************)
\* Nothing has been given or taken in a new object.
LEMMA SemInitInv == Init => SemInv
<1> SUFFICES ASSUME Init
             PROVE  SemInv
  OBVIOUS
<1>1. TypeOK
  BY SemAssumption, TimeAssumption DEF Init, TypeOK, TimeSpec, NoTime
<1> QED
  BY <1>1 DEF Init, SemInv, Paths, Deadlines, LateEnough, SlowTicks, Phases, TokensConserved

\* The end of the native part of a take: the one place where tokens are taken.
LEMMA FinishStep ==
    ASSUME SemInv, ~Aborted,
           NEW t \in Threads, NEW err \in NativeResults, Finish(t, err),
           pc[t] \notin {"idle", "take_count", "give_count"},
           err = "0" => value > 0,
           port = "posix" => err # "EBUSY",
           pos_sem_take(err) = "POS_TIMEOUT" /\ port # "apple" =>
               tmo[t] \in Timeouts /\ LateEnough(clock, t),
           UNCHANGED <<port, phase, clock, tmo, called, wait>>
    PROVE  SemInv'
<1>1. TypeOK /\ Paths /\ Deadlines /\ Phases /\ TokensConserved
  BY DEF SemInv
<1>2. /\ pos_sem_take(err) \in {"POS_OK", "POS_TIMEOUT", "POS_EINVAL", "POS_ERROR"}
      /\ pos_sem_take(err) = "POS_OK" <=> err = "0"
  BY <1>1, TakeResult
<1> DEFINE new == IF err = "0" THEN "take_count" ELSE "failed"
<1>3. /\ goto(t, new)
      /\ ret' = [ret EXCEPT ![t] = pos_sem_take(err)]
      /\ value' = IF err = "0" THEN value - 1 ELSE value
      /\ UNCHANGED <<take_depth_, lost>>
  BY <1>2 DEF Finish
<1>4. value' \in 0 .. SemValueMax
  BY <1>1, <1>3, SemAssumption DEF TypeOK
<1>5. TypeOK'
  BY <1>1, <1>2, <1>3, <1>4 DEF TypeOK, goto
<1>6. Paths'
  BY <1>1, <1>3 DEF TypeOK, Paths, goto
<1>7. Deadlines'
  BY <1>1, <1>2, <1>3 DEF TypeOK, Deadlines, LateEnough, SlowTicks, goto
<1>8. Phases'
  BY <1>1, <1>3 DEF TypeOK, Phases, Aborted, goto
<1>9. TokensConserved'
  <2>1. phase \notin {"new", "abort_constructor"}
    BY <1>1 DEF Phases, Aborted
  <2>2. value' + lost' + take_depth_' - (value + lost + take_depth_)
          = (IF err = "0" THEN -1 ELSE 0)
    BY <1>1, <1>3, SemAssumption DEF TypeOK
  <2> QED
    BY <1>1, <1>3, <1>4, <1>5, <2>1, <2>2, Balance DEF TypeOK
<1> QED
  BY <1>5, <1>6, <1>7, <1>8, <1>9 DEF SemInv

\* An interrupt handler changes tokens and count at once.
LEMMA IsrStep ==
    ASSUME SemInv, IsrTake \/ IsrGive
    PROVE  SemInv'
<1>1. TypeOK /\ Paths /\ Deadlines /\ Phases /\ TokensConserved
  BY DEF SemInv
<1>2. UNCHANGED <<port, clock, pc, callVars>> /\ phase = "alive"
  BY DEF IsrTake, IsrGive
<1>3. /\ value' \in 0 .. SemValueMax /\ lost' \in 0 .. MaxLost /\ take_depth_' \in Int
      /\ value' + lost' + take_depth_' = value + lost + take_depth_
      /\ \/ phase' = "alive"
         \/ phase' = "abort_give" /\ port = "freertos" /\ value' = SemValueMax
      /\ lost' > 0 => lost > 0 \/ port = "zephyr"
  <2>1. CASE IsrTake
    BY <1>1, <1>2, <2>1, SemAssumption DEF IsrTake, TypeOK
  <2>2. CASE IsrGive
    <3>1. take_depth_' = IF pos_sem_give.ret = "POS_OK" THEN take_depth_ - 1 ELSE take_depth_
      BY <2>2 DEF IsrGive
    <3>2. phase' = IF pos_sem_give.ret = "assert" THEN "abort_give" ELSE "alive"
      BY <1>2, <2>2 DEF IsrGive
    <3>3. value \in Int /\ lost \in Int /\ take_depth_ \in Int
      BY <1>1 DEF TypeOK
    <3>4. CASE pos_sem_give.ret = "POS_OK"
      BY <1>1, <2>2, <3>1, <3>2, <3>3, <3>4, PostFacts, SemAssumption DEF IsrGive
    <3>5. CASE pos_sem_give.ret # "POS_OK"
      BY <1>1, <2>2, <3>1, <3>2, <3>3, <3>5, PostFacts DEF IsrGive
    <3> QED
      BY <3>4, <3>5
  <2> QED
    BY <2>1, <2>2
<1>4. TypeOK'
  BY <1>1, <1>2, <1>3 DEF TypeOK, callVars
<1>5. Paths' /\ Deadlines' /\ Phases'
  BY <1>1, <1>2, <1>3 DEF Paths, Deadlines, LateEnough, SlowTicks, Phases, callVars
<1>6. TokensConserved'
  <2>1. /\ Counting("take_count")' = Counting("take_count")
        /\ Counting("give_count")' = Counting("give_count")
    BY <1>2 DEF Counting
  <2> QED
    BY <1>1, <1>2, <1>3, <2>1 DEF TokensConserved
<1> QED
  BY <1>4, <1>5, <1>6 DEF SemInv

\* The thread of a take or give, outside of the native call.
LEMMA ThreadStep ==
    ASSUME SemInv, NEW t \in Threads,
           \/ \E timeout \in Timeouts \cup {Forever} : TakeCall(t, timeout)
           \/ Give(t)
           \/ ~Aborted /\ (TakeClock(t) \/ TakeCount(t) \/ Failed(t) \/ GiveCount(t))
    PROVE  SemInv'
<1>1. TypeOK /\ Paths /\ Deadlines /\ Phases /\ TokensConserved
  BY DEF SemInv
<1>2. clock \in Nat /\ value \in Nat /\ lost \in Nat /\ take_depth_ \in Int
  BY <1>1, SemAssumption DEF TypeOK
<1>3. ASSUME NEW timeout \in Timeouts \cup {Forever}, TakeCall(t, timeout)
      PROVE  SemInv'
  <2> DEFINE new == IF timeout = Forever THEN "take_forever"
                    ELSE IF port = "posix" THEN "take_clock" ELSE "take_kernel"
  <2>1. /\ phase = "alive" /\ pc[t] = "idle"
        /\ tmo' = [tmo EXCEPT ![t] = timeout]
        /\ called' = [called EXCEPT ![t] = clock]
        /\ goto(t, new)
        /\ UNCHANGED <<port, phase, clock, semVars, wait, ret>>
    BY <1>3 DEF TakeCall, Enter
  <2>2. /\ new \in {"take_forever", "take_clock", "take_kernel"}
        /\ new = "take_clock" => port = "posix" /\ timeout \in Timeouts
        /\ new = "take_kernel" => port # "posix" /\ timeout \in Timeouts
    OBVIOUS
  <2> HIDE DEF new
  <2>3. TypeOK'
    BY <1>1, <1>2, <2>1, <2>2 DEF TypeOK, goto, semVars
  <2>4. Paths'
    BY <1>1, <2>1, <2>2 DEF TypeOK, Paths, goto
  <2>5. Deadlines'
    BY <1>1, <1>2, <2>1, <2>2 DEF TypeOK, Deadlines, LateEnough, SlowTicks, goto
  <2>6. Phases'
    BY <1>1, <2>1 DEF TypeOK, Phases, semVars
  <2>7. TokensConserved'
    BY <1>1, <1>2, <2>1, <2>2, Balance DEF semVars
  <2> QED
    BY <2>3, <2>4, <2>5, <2>6, <2>7 DEF SemInv
<1>4. CASE Give(t)
  <2> DEFINE new == IF pos_sem_give.ret = "POS_OK" THEN "give_count" ELSE "failed"
  <2>1. /\ phase = "alive" /\ pc[t] = "idle" /\ Post
        /\ ret' = [ret EXCEPT ![t] = pos_sem_give.ret]
        /\ phase' = IF pos_sem_give.ret = "assert" THEN "abort_give" ELSE phase
        /\ goto(t, new)
        /\ UNCHANGED <<port, clock, take_depth_, tmo, called, wait>>
    BY <1>4 DEF Give
  <2>2. /\ value' \in 0 .. SemValueMax /\ lost' \in 0 .. MaxLost
        /\ pos_sem_give.ret \in {"POS_OK", "POS_ERROR", "assert"}
        /\ value' + lost' = value + lost + (IF new = "give_count" THEN 1 ELSE 0)
        /\ pos_sem_give.ret = "assert" => port = "freertos" /\ value' = SemValueMax
        /\ lost' > 0 => lost > 0 \/ port = "zephyr"
    <3>1. CASE pos_sem_give.ret = "POS_OK"
      BY <1>1, <1>2, <2>1, <3>1, PostFacts
    <3>2. CASE pos_sem_give.ret # "POS_OK"
      BY <1>1, <1>2, <2>1, <3>2, PostFacts
    <3> QED
      BY <3>1, <3>2
  <2>3. new \in {"give_count", "failed"}
    OBVIOUS
  <2>4. new = "failed" => pos_sem_give.ret # "POS_OK"
    OBVIOUS
  <2> HIDE DEF new
  <2>5. TypeOK'
    BY <1>1, <2>1, <2>2, <2>3 DEF TypeOK, goto
  <2>6. Paths'
    BY <1>1, <2>1, <2>3 DEF TypeOK, Paths, goto
  <2>7. Deadlines'
    BY <1>1, <2>1, <2>2, <2>3 DEF TypeOK, Deadlines, LateEnough, SlowTicks, goto
  <2>8. Phases'
    BY <1>1, <2>1, <2>2 DEF TypeOK, Phases
  <2>9. TokensConserved'
    <3>1. value' \in Int /\ lost' \in Int
      BY <2>2, SemAssumption
    <3>2. CASE new = "give_count"
      <4> DEFINE v == value'
                 l == lost'
      <4>1. v \in Int /\ l \in Int /\ v + l = value + lost + 1
        BY <2>2, <3>1, <3>2
      <4> HIDE DEF v, l
      <4>2. v + l + take_depth_ \in Int /\ v + l + take_depth_ = value + lost + take_depth_ + 1
        BY <1>2, <4>1
      <4>3. /\ value' + lost' + take_depth_' \in Int
            /\ value' + lost' + take_depth_' = value + lost + take_depth_ + 1
        BY <2>1, <4>2 DEF v, l
      <4>4. value' + lost' + take_depth_'
              = (value + lost + take_depth_)
                  + ((IF new = "give_count" THEN 1 ELSE 0)
                       - (IF pc[t] = "give_count" THEN 1 ELSE 0))
                  + ((IF pc[t] = "take_count" THEN 1 ELSE 0)
                       - (IF new = "take_count" THEN 1 ELSE 0))
        BY <1>2, <2>1, <3>2, <4>3
      <4> QED
        BY <1>1, <2>1, <2>2, <4>3, <4>4, Balance
    <3>3. CASE new = "failed"
      <4>1. value' = value /\ lost' = lost
        BY <1>1, <2>1, <2>4, <3>3, PostFacts
      <4> QED
        BY <1>1, <1>2, <2>1, <3>3, <4>1, Balance
    <3> QED
      BY <2>3, <3>2, <3>3
  <2> QED
    BY <2>5, <2>6, <2>7, <2>8, <2>9 DEF SemInv
\* The deadline that is computed is that of a moment not before the call.
<1>5. CASE ~Aborted /\ TakeClock(t)
  <2>1. /\ pc[t] = "take_clock"
        /\ wait' = [wait EXCEPT ![t] = addTimeout(gettime(clock), tmo[t])]
        /\ goto(t, "take_timed")
        /\ UNCHANGED <<port, phase, clock, semVars, tmo, called, ret>>
    BY <1>5 DEF TakeClock
  <2>2. port = "posix" /\ tmo[t] \in Nat /\ called[t] <= clock /\ called[t] \in Nat
    BY <1>1, <2>1, TimeAssumption DEF TypeOK, Paths, Deadlines, LateEnough, SlowTicks
  <2>3. /\ addTimeout(gettime(clock), tmo[t]) \in TimeSpec
        /\ Instant(addTimeout(gettime(clock), tmo[t])) = clock + tmo[t]
    BY <1>2, <2>2, GettimeFacts, AddTimeoutFacts
  <2>4. TypeOK'
    BY <1>1, <2>1, <2>3 DEF TypeOK, goto, semVars
  <2>5. Paths'
    BY <1>1, <2>1, <2>2 DEF TypeOK, Paths, goto
  <2>6. Deadlines'
    <3> SUFFICES ASSUME NEW u \in Threads
                 PROVE  Deadlines!(u)'
      BY DEF Deadlines
    <3>1. CASE u = t
      <4>1. /\ ret[t] # "POS_TIMEOUT" /\ pc'[t] = "take_timed"
            /\ wait'[t] = addTimeout(gettime(clock), tmo[t])
        BY <1>1, <2>1 DEF TypeOK, Deadlines, goto
      <4>2. resolution(port) \in Nat \ {0}
        BY <1>1, ResolutionFacts
      <4>3. (clock + tmo[t]) + resolution(port) > called[t] + tmo[t]
        BY <1>2, <2>2, <4>2
      <4> QED
        BY <2>1, <2>2, <2>3, <3>1, <4>1, <4>3 DEF LateEnough
    <3>2. CASE u # t
      BY <1>1, <2>1, <3>2 DEF TypeOK, Deadlines, LateEnough, SlowTicks, goto
    <3> QED
      BY <3>1, <3>2
  <2>7. Phases'
    BY <1>1, <2>1 DEF TypeOK, Phases, goto, semVars
  <2>8. TokensConserved'
    <3>1. phase \notin {"new", "abort_constructor"}
      BY <1>1, <1>5, <2>1 DEF Phases, Aborted
    <3> QED
      BY <1>1, <1>2, <2>1, <3>1, Balance DEF semVars
  <2> QED
    BY <2>4, <2>5, <2>6, <2>7, <2>8 DEF SemInv
<1>6. CASE ~Aborted /\ (TakeCount(t) \/ Failed(t))
  <2>1. /\ pc[t] \in {"take_count", "failed"}
        /\ goto(t, "idle")
        /\ tmo' = [tmo EXCEPT ![t] = Forever]
        /\ called' = [called EXCEPT ![t] = 0]
        /\ wait' = [wait EXCEPT ![t] = NoTime]
        /\ ret' = [ret EXCEPT ![t] = "POS_OK"]
        /\ UNCHANGED <<port, clock, value, lost>>
    BY <1>6 DEF TakeCount, Failed, Return, semVars
  <2>2. phase \in {"constructing", "alive"}
    BY <1>1, <1>6, <2>1 DEF TypeOK, Phases, Aborted
  <2>3. /\ take_depth_' = take_depth_ + (IF pc[t] = "take_count" THEN 1 ELSE 0)
        /\ phase' \in {"alive", "abort_constructor"}
    BY <1>1, <1>2, <1>6, <2>2 DEF TakeCount, Failed, Phases, semVars
  <2>4. TypeOK'
    BY <1>1, <1>2, <2>1, <2>3 DEF TypeOK, goto, NoTime, TimeSpec
  <2>5. Paths' /\ Deadlines'
    BY <1>1, <1>2, <2>1 DEF TypeOK, Paths, Deadlines, LateEnough, SlowTicks, goto
  <2>6. Phases'
    BY <1>1, <2>3 DEF Phases
  <2>7. TokensConserved'
    BY <1>1, <1>2, <2>1, <2>2, <2>3, Balance
  <2> QED
    BY <2>4, <2>5, <2>6, <2>7 DEF SemInv
<1>7. CASE ~Aborted /\ GiveCount(t)
  <2>1. /\ pc[t] = "give_count"
        /\ take_depth_' = take_depth_ - 1
        /\ goto(t, "idle")
        /\ UNCHANGED <<port, phase, clock, value, lost, callVars>>
    BY <1>7 DEF GiveCount
  <2>2. TypeOK'
    BY <1>1, <1>2, <2>1 DEF TypeOK, goto, callVars
  <2>3. Paths' /\ Deadlines'
    BY <1>1, <1>2, <2>1 DEF TypeOK, Paths, Deadlines, LateEnough, SlowTicks, goto, callVars
  <2>4. phase = "alive"
    BY <1>1, <1>7, <2>1 DEF TypeOK, Phases, Aborted
  <2>5. Phases'
    BY <1>1, <2>1, <2>4 DEF Phases
  <2>6. TokensConserved'
    BY <1>1, <1>2, <2>1, <2>4, Balance
  <2> QED
    BY <2>2, <2>3, <2>5, <2>6 DEF SemInv
<1> QED
  BY <1>3, <1>4, <1>5, <1>6, <1>7

\* A thread goes to sleep with a deadline that is late enough.
LEMMA BlockStep ==
    ASSUME SemInv, ~Aborted, NEW t \in Threads, pc[t] \in {"take_timed", "take_kernel"},
           NEW w \in TimeSpec, LateEnough(Instant(w), t),
           wait' = [wait EXCEPT ![t] = w], goto(t, "take_blocked"),
           UNCHANGED <<port, phase, clock, semVars, tmo, called, ret>>
    PROVE  SemInv'
<1>1. TypeOK /\ Paths /\ Deadlines /\ Phases /\ TokensConserved
  BY DEF SemInv
<1>2. TypeOK'
  BY <1>1 DEF TypeOK, goto, semVars
<1>3. Paths'
  BY <1>1 DEF TypeOK, Paths, goto
<1>4. Deadlines'
  BY <1>1 DEF TypeOK, Deadlines, LateEnough, SlowTicks, goto
<1>5. Phases'
  BY <1>1 DEF TypeOK, Phases, goto, semVars
<1>6. TokensConserved'
  <2>1. phase \notin {"new", "abort_constructor"}
    BY <1>1 DEF Phases, Aborted
  <2>2. value \in Nat /\ lost \in Nat /\ take_depth_ \in Int
    BY <1>1, SemAssumption DEF TypeOK
  <2> QED
    BY <1>1, <2>1, <2>2, Balance DEF semVars
<1> QED
  BY <1>2, <1>3, <1>4, <1>5, <1>6 DEF SemInv

\* The native call of a take, in all its outcomes.
LEMMA NativeStep ==
    ASSUME SemInv, ~Aborted, NEW t \in Threads,
           \/ TakeForever(t) \/ TakeInterrupted(t) \/ TakeTimed(t) \/ TakeKernel(t)
           \/ TakeBlocked(t)
    PROVE  SemInv'
<1>1. TypeOK /\ Paths /\ Deadlines /\ Phases /\ TokensConserved
  BY DEF SemInv
<1>2. /\ UNCHANGED <<port, phase, clock, tmo, called>>
      /\ pc[t] \notin {"idle", "take_count", "give_count"}
  BY DEF TakeForever, TakeInterrupted, TakeTimed, TakeKernel, TakeBlocked
<1>3. /\ clock \in Nat /\ called[t] \in Nat /\ called[t] <= clock
      /\ pc[t] \in {"take_timed", "take_kernel", "take_blocked"} => tmo[t] \in Nat
  <2>1. clock \in Nat /\ called[t] \in Nat
    BY <1>1, SemAssumption DEF TypeOK
  <2>2. called[t] <= clock
    BY <1>1 DEF Deadlines, LateEnough, SlowTicks
  <2>3. pc[t] \in {"take_timed", "take_kernel", "take_blocked"} => tmo[t] \in Timeouts
    BY <1>1 DEF Paths
  <2> QED
    BY <2>1, <2>2, <2>3, TimeAssumption
<1>4. ASSUME Decrement(t), UNCHANGED wait
      PROVE  SemInv'
  <2>1. pos_sem_take("0") = "POS_OK" /\ "0" \in NativeResults
    BY <1>1, TakeResult DEF NativeResults
  <2> QED
    BY <1>2, <1>4, <2>1, FinishStep DEF Decrement
<1>5. CASE TakeForever(t)
  BY <1>4, <1>5 DEF TakeForever
<1>6. CASE TakeInterrupted(t)
  <2>1. PICK err \in {"-1", "EINTR"} : Finish(t, err)
    BY <1>6 DEF TakeInterrupted
  <2>2. err \in NativeResults /\ err # "0" /\ err # "ETIMEDOUT" /\ err # "EBUSY"
    BY DEF NativeResults
  <2>3. port = "posix" /\ UNCHANGED wait
    BY <1>6 DEF TakeInterrupted
  <2>4. pos_sem_take(err) # "POS_TIMEOUT"
    BY <1>1, <2>2, <2>3, TakeResult
  <2> QED
    BY <1>2, <2>1, <2>2, <2>3, <2>4, FinishStep
<1>7. CASE TakeTimed(t)
  <2>1. pc[t] = "take_timed" /\ UNCHANGED wait
    BY <1>7 DEF TakeTimed
  <2>2. port = "posix" /\ LateEnough(Instant(wait[t]), t) /\ wait[t] \in TimeSpec
    BY <1>1, <2>1 DEF TypeOK, Paths, Deadlines, LateEnough, SlowTicks
  <2>3. CASE Decrement(t)
    BY <1>4, <2>1, <2>3
  <2>4. CASE goto(t, "take_blocked") /\ UNCHANGED <<semVars, ret>>
    <3>1. wait' = [wait EXCEPT ![t] = wait[t]]
      BY <1>1, <2>1 DEF TypeOK
    <3> QED
      BY <1>2, <2>1, <2>2, <2>4, <3>1, BlockStep
  <2>5. CASE Finish(t, "EINVAL")
    <3>1. pos_sem_take("EINVAL") # "POS_TIMEOUT" /\ "EINVAL" \in NativeResults
      BY <1>1, <2>2, TakeResult DEF NativeResults
    <3> QED
      BY <1>2, <2>1, <2>5, <3>1, FinishStep
  <2> QED
    BY <1>7, <2>3, <2>4, <2>5 DEF TakeTimed
<1>8. CASE TakeKernel(t)
  <2>1. pc[t] = "take_kernel" /\ port # "posix" /\ tmo[t] \in Nat /\ tmo[t] \in Timeouts
    BY <1>1, <1>3, <1>8 DEF TakeKernel, Paths
  <2>2. CASE Decrement(t) /\ UNCHANGED wait
    BY <1>4, <2>2
  <2>3. CASE ~waits(tmo[t]) /\ Finish(t, "EBUSY") /\ UNCHANGED wait
    <3>1. port # "apple" => tmo[t] = 0
      BY <2>3 DEF waits
    <3>2. "EBUSY" \in NativeResults
      BY DEF NativeResults
    <3>3. resolution(port) \in Nat \ {0}
      BY <1>1, ResolutionFacts
    <3>4. port # "apple" => LateEnough(clock, t)
      BY <1>3, <3>1, <3>3 DEF LateEnough
    <3> QED
      BY <1>2, <2>1, <2>3, <3>2, <3>4, FinishStep
  <2>4. CASE /\ port # "apple"
             /\ wait' = [wait EXCEPT ![t] = gettime(kernelDeadline(port, clock, tmo[t]))]
             /\ goto(t, "take_blocked")
             /\ UNCHANGED <<semVars, ret>>
    <3> DEFINE d == kernelDeadline(port, clock, tmo[t])
    <3>1. /\ d \in Nat /\ resolution(port) \in Nat
          /\ SlowTicks => d + resolution(port) > clock + tmo[t]
      <4>1. port # "apple"
        BY <2>4
      <4> QED
        BY <1>1, <1>3, <2>1, <4>1, KernelDeadlineFacts, ResolutionFacts
    <3> HIDE DEF d
    <3>2. gettime(d) \in TimeSpec /\ Instant(gettime(d)) = d
      BY <3>1, GettimeFacts
    <3>3. LateEnough(Instant(gettime(d)), t)
      BY <1>3, <2>1, <3>1, <3>2 DEF LateEnough
    <3> QED
      BY <1>2, <2>1, <2>4, <3>2, <3>3, BlockStep DEF d
  <2> QED
    BY <1>8, <2>2, <2>3, <2>4 DEF TakeKernel, waits
<1>9. CASE TakeBlocked(t)
  <2>1. pc[t] = "take_blocked" /\ UNCHANGED wait
    BY <1>9 DEF TakeBlocked
  <2>2. CASE Decrement(t)
    BY <1>4, <2>1, <2>2
  <2>3. ASSUME NEW err \in {"ETIMEDOUT", "EAGAIN"}, reached(wait[t], clock), Finish(t, err)
        PROVE  SemInv'
    <3>1. wait[t].tv_sec \in Nat /\ wait[t].tv_nsec \in Nat
      BY <1>1 DEF TypeOK, TimeSpec
    <3>2. tmo[t] \in Timeouts /\ LateEnough(clock, t)
      <4>1. LateEnough(Instant(wait[t]), t) /\ Instant(wait[t]) <= clock
        BY <1>1, <2>1, <2>3 DEF Deadlines, LateEnough, SlowTicks, reached, Instant
      <4>2. Instant(wait[t]) \in Int
        BY <3>1, TimeAssumption DEF Instant
      <4> QED
        BY <1>1, <1>3, <2>1, <4>1, <4>2, ResolutionFacts DEF Paths, LateEnough
    <3>3. err \in NativeResults /\ err # "0" /\ err # "EBUSY"
      BY DEF NativeResults
    <3> QED
      BY <1>2, <2>1, <2>3, <3>2, <3>3, FinishStep
  <2> QED
    BY <1>9, <2>2, <2>3 DEF TakeBlocked
<1> QED
  BY <1>5, <1>6, <1>7, <1>8, <1>9

\* Nobody is at the label.
LEMMA NobodyCounts ==
    ASSUME NEW label, \A t \in Threads : pc[t] # label
    PROVE  Counting(label) = 0
<1>1. {t \in Threads : pc[t] = label} = {}
  OBVIOUS
<1> QED
  BY <1>1, FS_EmptySet DEF Counting

\* Time passes.
LEMMA TickStep ==
    ASSUME SemInv, Tick
    PROVE  SemInv'
<1>1. TypeOK /\ Paths /\ Deadlines /\ Phases /\ TokensConserved
  BY DEF SemInv
<1>2. /\ clock' = clock + 1 /\ clock < MaxClock /\ clock \in Nat /\ MaxClock \in Nat
      /\ UNCHANGED <<port, phase, semVars, pc, callVars>>
  BY <1>1, SemAssumption DEF Tick, TypeOK
<1>3. TypeOK'
  BY <1>1, <1>2 DEF TypeOK, semVars, callVars
<1>4. Paths' /\ Phases'
  BY <1>1, <1>2 DEF Paths, Phases, semVars, callVars
<1>5. Deadlines'
  <2> SUFFICES ASSUME NEW u \in Threads
               PROVE  Deadlines!(u)'
    BY DEF Deadlines
  <2>1. called[u] \in Nat /\ called[u] <= clock
    BY <1>1 DEF TypeOK, Deadlines, LateEnough, SlowTicks
  <2>2. called'[u] <= clock'
    BY <1>2, <2>1 DEF callVars
  <2>3. ASSUME ret[u] = "POS_TIMEOUT", port # "apple"
        PROVE  LateEnough(clock, u)'
    <3>1. LateEnough(clock, u)
      BY <1>1, <2>3 DEF Deadlines, LateEnough, SlowTicks
    <3>2. tmo[u] \in Timeouts
      BY <1>1, <2>3 DEF Deadlines, LateEnough, SlowTicks
    <3>3. tmo[u] \in Nat
      BY <3>2, TimeAssumption
    <3>4. resolution(port) \in Nat
      BY <1>1, ResolutionFacts
    <3>5. UNCHANGED <<port, tmo, called>>
      BY <1>2 DEF callVars
    <3>6. clock + resolution(port) > called[u] + tmo[u]
            => (clock + 1) + resolution(port) > called[u] + tmo[u]
      BY <1>2, <2>1, <3>3, <3>4
    <3> QED
      BY <1>2, <3>1, <3>5, <3>6 DEF LateEnough, SlowTicks
  <2> QED
    BY <1>1, <1>2, <2>2, <2>3 DEF Deadlines, LateEnough, SlowTicks, callVars
<1>6. TokensConserved'
  BY <1>1, <1>2 DEF TokensConserved, Counting, semVars
<1> QED
  BY <1>3, <1>4, <1>5, <1>6 DEF SemInv

\* The constructor: the semaphore has its initial tokens and nobody has any.
LEMMA ConstructStep ==
    ASSUME SemInv, NEW t \in Threads, Construct(t)
    PROVE  SemInv'
<1>1. TypeOK /\ Paths /\ Deadlines /\ Phases /\ TokensConserved
  BY DEF SemInv
<1>2. /\ phase = "new" /\ value' = InitialTokens
      /\ UNCHANGED <<port, clock, take_depth_, lost, wait, ret>>
  BY DEF Construct, Enter, callVars
<1>3. take_depth_ = 0 /\ lost = 0 /\ \A u \in Threads : pc[u] = "idle"
  BY <1>1, <1>2 DEF Phases
<1>4. /\ InitialTokens \in 0 .. SemValueMax /\ InitialTokens \in Int
      /\ clock \in Nat
  BY <1>1, SemAssumption DEF TypeOK
<1>5. ASSUME phase' \in {"alive", "constructing"},
             \A u \in Threads : pc'[u] \notin {"take_count", "give_count"}
      PROVE  TokensConserved'
  <2>1. Counting("take_count")' = 0 /\ Counting("give_count")' = 0
    <3>1. {u \in Threads : pc'[u] = "take_count"} = {}
      BY <1>5
    <3>2. {u \in Threads : pc'[u] = "give_count"} = {}
      BY <1>5
    <3> QED
      BY <3>1, <3>2, FS_EmptySet DEF Counting
  <2>2. value' = InitialTokens /\ lost' = 0 /\ take_depth_' = 0
    BY <1>2, <1>3
  <2> QED
    BY <1>4, <2>1, <2>2 DEF TokensConserved
<1>6. CASE phase' = "alive" /\ UNCHANGED <<pc, callVars>>
  <2>1. TypeOK' /\ Paths' /\ Deadlines' /\ Phases'
    BY <1>1, <1>2, <1>3, <1>4, <1>6 DEF TypeOK, Paths, Deadlines, LateEnough, SlowTicks, Phases, callVars
  <2> QED
    BY <1>3, <1>5, <1>6, <2>1 DEF SemInv
<1>7. ASSUME phase' = "constructing",
             NEW timeout \in Timeouts \cup {Forever}, Enter(t, timeout)
      PROVE  SemInv'
  <2> DEFINE new == IF timeout = Forever THEN "take_forever"
                    ELSE IF port = "posix" THEN "take_clock" ELSE "take_kernel"
  <2>1. /\ tmo' = [tmo EXCEPT ![t] = timeout]
        /\ called' = [called EXCEPT ![t] = clock]
        /\ goto(t, new)
    BY <1>7 DEF Enter
  <2>2. /\ new \in {"take_forever", "take_clock", "take_kernel"}
        /\ new = "take_clock" => port = "posix" /\ timeout \in Timeouts
        /\ new = "take_kernel" => port # "posix" /\ timeout \in Timeouts
    OBVIOUS
  <2> HIDE DEF new
  <2>3. TypeOK'
    BY <1>1, <1>2, <1>4, <1>7, <2>1, <2>2 DEF TypeOK, goto
  <2>4. Paths'
    BY <1>1, <1>2, <2>1, <2>2 DEF TypeOK, Paths, goto
  <2>5. Deadlines'
    <3> SUFFICES ASSUME NEW u \in Threads
                 PROVE  Deadlines!(u)'
      BY DEF Deadlines
    <3>1. ret[u] # "POS_TIMEOUT" /\ pc'[u] \notin {"take_timed", "take_blocked"}
      BY <1>1, <1>3, <2>1, <2>2 DEF TypeOK, Deadlines, LateEnough, SlowTicks, goto
    <3>2. called'[u] <= clock'
      BY <1>1, <1>2, <1>4, <2>1 DEF TypeOK, Deadlines, LateEnough, SlowTicks
    <3> QED
      BY <1>2, <3>1, <3>2
  <2>6. \A u \in Threads : pc'[u] \notin {"take_count", "give_count"}
    BY <1>1, <1>3, <2>1, <2>2 DEF TypeOK, goto
  <2>7. Phases'
    BY <1>2, <1>3, <1>7, <2>6 DEF Phases
  <2> QED
    BY <1>5, <1>7, <2>3, <2>4, <2>5, <2>6, <2>7 DEF SemInv
<1> QED
  BY <1>6, <1>7 DEF Construct

\* The destructor: nobody is in a call, so that the count and the tokens there add
\* up to the initial ones and every token given back finds room.
LEMMA DestructStep ==
    ASSUME SemInv, ConstructFails \/ Destruct \/ DestructLoop
    PROVE  SemInv'
<1>1. TypeOK /\ Paths /\ Deadlines /\ Phases /\ TokensConserved
  BY DEF SemInv
<1>2. UNCHANGED <<port, clock, pc, callVars>>
  BY DEF ConstructFails, Destruct, DestructLoop
<1>3. /\ Counting("take_count")' = Counting("take_count")
      /\ Counting("give_count")' = Counting("give_count")
  BY <1>2 DEF Counting
<1>4. CASE ConstructFails
  <2>1. phase' = "abort_constructor" /\ UNCHANGED semVars
    BY <1>4 DEF ConstructFails
  <2> QED
    BY <1>1, <1>2, <2>1
    DEF SemInv, TypeOK, Paths, Deadlines, LateEnough, SlowTicks, Phases, TokensConserved, semVars, callVars
<1>5. CASE Destruct
  <2>1. /\ phase = "alive" /\ phase' = "destructing"
        /\ UNCHANGED semVars
        /\ \A t \in Threads : pc[t] = "idle"
    BY <1>5 DEF Destruct
  <2>2. TypeOK' /\ Paths' /\ Deadlines' /\ Phases'
    BY <1>1, <1>2, <2>1 DEF TypeOK, Paths, Deadlines, LateEnough, SlowTicks, Phases, semVars, callVars
  <2>3. TokensConserved'
    BY <1>1, <1>2, <1>3, <2>1 DEF TokensConserved, semVars
  <2> QED
    BY <2>2, <2>3 DEF SemInv
<1>6. CASE DestructLoop /\ take_depth_ > 0
  <2>1. /\ phase = "destructing" /\ Post
        /\ IF pos_sem_give.ret = "POS_OK"
           THEN take_depth_' = take_depth_ - 1 /\ UNCHANGED phase
           ELSE phase' = "abort_destructor" /\ UNCHANGED take_depth_
    <3>1. take_depth_ \in Int
      BY <1>1 DEF TypeOK
    <3> QED
      BY <1>6, <3>1 DEF DestructLoop
  <2>2. \A t \in Threads : pc[t] = "idle"
    BY <1>1, <2>1 DEF Phases
  <2>3. Counting("take_count") = 0 /\ Counting("give_count") = 0
    BY <2>2, NobodyCounts
  <2>4. value + lost + take_depth_ = InitialTokens
    <3>1. value + lost + take_depth_ + 0 = InitialTokens + 0
      BY <1>1, <2>1, <2>3 DEF TokensConserved
    <3> QED
      BY <1>1, <3>1, SemAssumption DEF TypeOK
  <2>5. value < SemValueMax
    BY <1>1, <1>6, <2>4, SemAssumption DEF TypeOK
  <2>6. pos_sem_give.ret = "POS_OK"
    BY <1>1, <2>1, <2>5, PostFacts, SemAssumption DEF TypeOK
  <2>7. /\ take_depth_' = take_depth_ - 1 /\ phase' = "destructing"
        /\ value' \in 0 .. SemValueMax /\ lost' \in 0 .. MaxLost
        /\ value' + lost' = value + lost + 1
        /\ lost' > 0 => lost > 0 \/ port = "zephyr"
    BY <1>1, <2>1, <2>6, PostFacts
  <2>8. TypeOK'
    BY <1>1, <1>2, <2>7 DEF TypeOK, callVars
  <2>9. Paths' /\ Deadlines' /\ Phases'
    BY <1>1, <1>2, <2>1, <2>2, <2>7 DEF Paths, Deadlines, LateEnough, SlowTicks, Phases, callVars
  <2>10. TokensConserved'
    <3> DEFINE v == value'
               l == lost'
    <3>1. v \in Int /\ l \in Int /\ v + l = value + lost + 1
      BY <2>7, SemAssumption
    <3> HIDE DEF v, l
    <3>2. v + l + (take_depth_ - 1) + 0 = InitialTokens + 0
      BY <1>1, <2>4, <3>1, SemAssumption DEF TypeOK
    <3>3. value' + lost' + take_depth_' + Counting("take_count")'
            = InitialTokens + Counting("give_count")'
      BY <1>3, <2>3, <2>7, <3>2 DEF v, l
    <3>4. lost' > 0 => port' = "zephyr"
      BY <1>1, <1>2, <2>1, <2>7 DEF TokensConserved
    <3> QED
      BY <3>3, <3>4 DEF TokensConserved
  <2> QED
    BY <2>8, <2>9, <2>10 DEF SemInv
<1>7. CASE DestructLoop /\ ~(take_depth_ > 0)
  <2>1. phase = "destructing" /\ phase' = "destroyed" /\ UNCHANGED semVars
    BY <1>7 DEF DestructLoop
  <2>2. TypeOK' /\ Paths' /\ Deadlines' /\ Phases'
    BY <1>1, <1>2, <2>1 DEF TypeOK, Paths, Deadlines, LateEnough, SlowTicks, Phases, semVars, callVars
  <2>3. TokensConserved'
    BY <1>1, <1>2, <1>3, <2>1 DEF TokensConserved, semVars
  <2> QED
    BY <2>2, <2>3 DEF SemInv
<1> QED
  BY <1>4, <1>5, <1>6, <1>7

\* Every step of a thread, an interrupt handler or the clock preserves the invariant.
LEMMA SemStepInv == SemInv /\ [Next]_vars => SemInv'
<1> SUFFICES ASSUME SemInv, [Next]_vars
             PROVE  SemInv'
  OBVIOUS
<1>1. CASE UNCHANGED vars
  BY <1>1 DEF vars, semVars, callVars, SemInv, TypeOK, Paths, Deadlines, LateEnough, SlowTicks, Phases,
              TokensConserved, Counting
<1>2. CASE Tick
  BY <1>2, TickStep
<1>3. CASE IsrTake \/ IsrGive
  BY <1>3, IsrStep
<1>4. CASE ConstructFails \/ Destruct \/ DestructLoop
  BY <1>4, DestructStep
<1>5. ASSUME NEW t \in Threads, Step(t) \/ (~Aborted /\ TakeInterrupted(t))
      PROVE  SemInv'
  BY <1>5, ThreadStep, NativeStep DEF Step
<1>6. ASSUME NEW t \in Threads, Construct(t)
      PROVE  SemInv'
  BY <1>6, ConstructStep
<1>7. ASSUME NEW t \in Threads,
             Give(t) \/ \E timeout \in Timeouts \cup {Forever} : TakeCall(t, timeout)
      PROVE  SemInv'
  BY <1>7, ThreadStep
<1> QED
  BY <1>1, <1>2, <1>3, <1>4, <1>5, <1>6, <1>7 DEF Next, Terminated

\* The inductive invariant holds in every execution of OsSemaphore on every port.
THEOREM SemInvariant == Spec => []SemInv
BY SemInitInv, SemStepInv, PTL DEF Spec

-----------------------------------------------------------------------------
(***************************************************************************)
(* Results.                                                                *)
(***************************************************************************)

\* The value of the semaphore stays within its maximum, also when gives of threads and
\* interrupt handlers overlap, and every call is at a step of os_sem.c or OsSemaphore.
THEOREM SemTypeOK == Spec => []TypeOK
<1>1. SemInv => TypeOK
  BY DEF SemInv
<1> QED
  BY <1>1, SemInvariant, PTL

\* Between pos_sem_take()/pos_sem_give() and the atomic take_depth_ no token is lost or
\* made up, whatever the threads and interrupt handlers interleave; only Zephyr drops
\* gives at its limit.
THEOREM SemTokensConserved == Spec => []TokensConserved
<1>1. SemInv => TokensConserved
  BY DEF SemInv
<1> QED
  BY <1>1, SemInvariant, PTL

\* pos_sem_take() returns POS_TIMEOUT only after the waiting period of its caller, to
\* within the tick that was running at the call: on POSIX and Zephyr for every rate of
\* ticks, and on FreeRTOS and RT-Thread, which take its milliseconds for ticks, if
\* there are no more ticks than milliseconds in a second.
THEOREM SemTakeTimeoutNotEarly ==
    Spec => [](KernelHz <= TicksPerSec \/ port \in {"posix", "zephyr"} => TakeTimeoutNotEarly)
<1>1. SemInv => (KernelHz <= TicksPerSec \/ port \in {"posix", "zephyr"} => TakeTimeoutNotEarly)
  BY DEF SemInv, Deadlines, LateEnough, SlowTicks, TakeTimeoutNotEarly
<1> QED
  BY <1>1, SemInvariant, PTL

\* The assertion of ~OsSemaphore() never fails, and that of the FreeRTOS
\* pos_sem_give() only in a program that gives what it has not taken.
THEOREM SemAbortMeansOvergiven == Spec => []AbortMeansOvergiven
<1>1. ASSUME SemInv, phase = "abort_give"
      PROVE  take_depth_ + Counting("take_count") + (SemValueMax - InitialTokens)
                 <= Counting("give_count")
  <2>1. /\ value = SemValueMax /\ port = "freertos"
        /\ value + lost + take_depth_ + Counting("take_count")
              = InitialTokens + Counting("give_count")
        /\ lost > 0 => port = "zephyr"
    BY <1>1 DEF SemInv, Phases, TokensConserved
  <2>2. lost = 0
    BY <1>1, <2>1, SemAssumption DEF SemInv, TypeOK
  <2>3. /\ take_depth_ \in Int /\ SemValueMax \in Int /\ InitialTokens \in Int
        /\ Counting("take_count") \in Int /\ Counting("give_count") \in Int
    BY <1>1, CountingType, SemAssumption DEF SemInv, TypeOK
  <2> HIDE DEF Counting
  <2> QED
    BY <2>1, <2>2, <2>3
<1>2. SemInv => AbortMeansOvergiven
  BY <1>1 DEF SemInv, Phases, AbortMeansOvergiven
<1> QED
  BY <1>2, SemInvariant, PTL
=============================================================================
