---------------------------- MODULE OsTimerProofs ----------------------------
(***************************************************************************)
(* Proofs about OsTime and OsTimer, for every length of a second, a        *)
(* millisecond and a tick, every range of pos_time_t and every set of      *)
(* systems that satisfy TimeAssumption, and all bounds on calls, lateness  *)
(* and signals.                                                            *)
(***************************************************************************)
EXTENDS OsTimer, Integers, TLAPS

(***************************************************************************)
(* Facts about quotients.  What a conversion takes off by rounding is the  *)
(* whole point of the properties, so division is never approximated: each  *)
(* fact is about natural numbers only, and is used with the numbers of a   *)
(* port.                                                                   *)
(***************************************************************************)

\* A quotient, times its divisor, is less than one divisor below the number divided.
LEMMA DivBounds ==
    ASSUME NEW a \in Nat, NEW b \in Nat \ {0}
    PROVE  /\ a \div b \in Nat
           /\ (a \div b) * b <= a
           /\ a < (a \div b) * b + b
           /\ a = b * (a \div b) + (a % b)
           /\ a % b \in Nat /\ a % b < b
OBVIOUS

\* A common factor does not matter to an order.
LEMMA CancelLess ==
    ASSUME NEW a \in Nat, NEW b \in Nat, NEW c \in Nat \ {0}, a * c < b * c
    PROVE  a < b
OBVIOUS

\* The same for an order that is not strict.
LEMMA CancelLeq ==
    ASSUME NEW a \in Nat, NEW b \in Nat, NEW c \in Nat \ {0}, a * c <= b * c
    PROVE  a <= b
OBVIOUS

\* A product grows with a factor.
LEMMA MulMono ==
    ASSUME NEW a \in Nat, NEW b \in Nat, NEW c \in Nat, a <= b
    PROVE  a * c <= b * c
OBVIOUS

\* The quotient is the one number whose multiple is so close below.
LEMMA DivUnique ==
    ASSUME NEW a \in Nat, NEW b \in Nat \ {0}, NEW q \in Nat, q * b <= a, a < q * b + b
    PROVE  a \div b = q
OBVIOUS

\* A rounded up quotient, times its divisor, is not below the number divided.
LEMMA CeilBounds ==
    ASSUME NEW a \in Nat, NEW b \in Nat \ {0}
    PROVE  /\ Ceil(a, b) \in Nat
           /\ a <= Ceil(a, b) * b
           /\ Ceil(a, b) = 0 => a = 0
<1>1. a + b - 1 \in Nat
  OBVIOUS
<1>2. Ceil(a, b) = (a + b - 1) \div b
  BY DEF Ceil
<1> DEFINE n == a + b - 1   q == n \div b
<1>3. q \in Nat /\ n < q * b + b
  BY <1>1, DivBounds
<1> HIDE DEF q
<1>4. a <= q * b
  BY <1>3
<1>5. q = 0 => a = 0
  BY <1>3
<1> QED BY <1>2, <1>3, <1>4, <1>5 DEF q

\* Converting d units of a length m into units of a length k by multiplying by h and
\* dividing by s, where h units of k are as long as s units of m: rounding down
\* loses less than one unit of k.
LEMMA RoundDown ==
    ASSUME NEW k \in Nat \ {0}, NEW m \in Nat \ {0}, NEW h \in Nat \ {0}, NEW s \in Nat \ {0},
           k * h = m * s, NEW d \in Nat
    PROVE  /\ ((d * h) \div s) * k <= d * m
           /\ d * m < ((d * h) \div s) * k + k
<1> DEFINE q == (d * h) \div s
<1>0. d * h \in Nat
  OBVIOUS
<1>1. q \in Nat /\ q * s <= d * h /\ d * h < q * s + s
  BY <1>0, DivBounds
<1> HIDE DEF q
<1>2. (d * h) * k = (d * m) * s
  <2>1. (d * h) * k = d * (k * h)
    OBVIOUS
  <2>2. (d * m) * s = d * (m * s)
    OBVIOUS
  <2> QED BY <2>1, <2>2
<1>3. (q * s) * k <= (d * h) * k
  <2>1. q * s \in Nat
    BY <1>1
  <2> QED BY <1>0, <1>1, <2>1, MulMono
<1>4. (q * k) * s <= (d * m) * s
  <2>1. (q * s) * k = (q * k) * s
    BY <1>1
  <2> QED BY <1>2, <1>3, <2>1
<1>5. q * k <= d * m
  <2>1. q * k \in Nat /\ d * m \in Nat
    BY <1>1
  <2> QED BY <1>4, <2>1, CancelLeq
<1>6. (d * h) * k < ((q + 1) * s) * k
  <2>1. d * h + 1 <= (q + 1) * s /\ (q + 1) * s \in Nat
    BY <1>1
  <2>2. (d * h + 1) * k <= ((q + 1) * s) * k
    BY <1>0, <2>1, MulMono
  <2>3. (d * h + 1) * k = (d * h) * k + k
    OBVIOUS
  <2>4. (d * h) * k \in Nat
    OBVIOUS
  <2> QED BY <2>1, <2>2, <2>3, <2>4
<1>7. (d * m) * s < ((q + 1) * k) * s
  <2>1. ((q + 1) * s) * k = ((q + 1) * k) * s
    BY <1>1
  <2> QED BY <1>2, <1>6, <2>1
<1>8. d * m < (q + 1) * k
  <2>1. (q + 1) * k \in Nat /\ d * m \in Nat
    BY <1>1
  <2> QED BY <1>7, <2>1, CancelLess
<1>9. (q + 1) * k = q * k + k
  BY <1>1
<1> QED BY <1>5, <1>8, <1>9 DEF q

\* Rounding up loses nothing.
LEMMA RoundUp ==
    ASSUME NEW k \in Nat \ {0}, NEW m \in Nat \ {0}, NEW h \in Nat \ {0}, NEW s \in Nat \ {0},
           k * h = m * s, NEW d \in Nat
    PROVE  /\ Ceil(d * h, s) \in Nat
           /\ d * m <= Ceil(d * h, s) * k
           /\ Ceil(d * h, s) = 0 => d * m = 0
<1> DEFINE q == Ceil(d * h, s)
<1>0. d * h \in Nat
  OBVIOUS
<1>1. q \in Nat /\ d * h <= q * s /\ (q = 0 => d * h = 0)
  BY <1>0, CeilBounds
<1> HIDE DEF q
<1>2. (d * h) * k = (d * m) * s
  <2>1. (d * h) * k = d * (k * h)
    OBVIOUS
  <2>2. (d * m) * s = d * (m * s)
    OBVIOUS
  <2> QED BY <2>1, <2>2
<1>3. (d * h) * k <= (q * s) * k
  <2>1. q * s \in Nat
    BY <1>1
  <2> QED BY <1>0, <1>1, <2>1, MulMono
<1>4. (d * m) * s <= (q * k) * s
  <2>1. (q * s) * k = (q * k) * s
    BY <1>1
  <2> QED BY <1>2, <1>3, <2>1
<1>5. d * m <= q * k
  <2>1. q * k \in Nat /\ d * m \in Nat
    BY <1>1
  <2> QED BY <1>4, <2>1, CancelLeq
<1>6. q = 0 => d * m = 0
  BY <1>1, <1>5
<1> QED BY <1>1, <1>5, <1>6 DEF q

-----------------------------------------------------------------------------
(***************************************************************************)
(* The clock and the lengths of a tick and a millisecond.                  *)
(***************************************************************************)

\* What the proofs use of TimeAssumption for the system at hand: a second is a whole
\* number of ticks and of milliseconds, and how these are related in a port.
LEMMA UnitFacts ==
    ASSUME system \in Systems
    PROVE  /\ NsPerTick \in Nat \ {0} /\ NsPerMs \in Nat \ {0}
           /\ POS_TICKS_PER_SEC \in Nat \ {0} /\ MsPerSec \in Nat \ {0}
           /\ NsPerSec \in Nat \ {0} /\ TimeRange \in Nat \ {0}
           /\ NsPerTick * POS_TICKS_PER_SEC = NsPerSec /\ NsPerMs * MsPerSec = NsPerSec
           /\ NsPerTick * POS_TICKS_PER_SEC = NsPerMs * MsPerSec
           /\ port \in PortNames
           /\ port = "posix" => POS_TICKS_PER_SEC = MsPerSec /\ NsPerTick = NsPerMs
           /\ port = "apple" => POS_TICKS_PER_SEC % MsPerSec = 0
           /\ port = "rt-thread" => MsPerSec % POS_TICKS_PER_SEC = 0
<1>1. /\ system.hz \in Nat \ {0} /\ port \in PortNames /\ NsPerSec % system.hz = 0
      /\ port = "rt-thread" => MsPerSec % system.hz = 0
      /\ port = "posix" => system.hz = MsPerSec
      /\ port = "apple" => system.hz % MsPerSec = 0
  BY TimeAssumption DEF port
<1>2. /\ NsPerSec \in Nat \ {0} /\ MsPerSec \in Nat \ {0} /\ NsPerSec % MsPerSec = 0
      /\ TimeRange \in Nat \ {0}
  BY TimeAssumption
<1>3. \A h \in Nat \ {0} : NsPerSec % h = 0 =>
         NsPerSec \div h \in Nat \ {0} /\ (NsPerSec \div h) * h = NsPerSec
  <2> SUFFICES ASSUME NEW h \in Nat \ {0}, NsPerSec % h = 0
               PROVE  NsPerSec \div h \in Nat \ {0} /\ (NsPerSec \div h) * h = NsPerSec
    OBVIOUS
  <2>1. NsPerSec \div h \in Nat /\ NsPerSec = h * (NsPerSec \div h) + (NsPerSec % h)
    BY <1>2, DivBounds
  <2> QED BY <1>2, <2>1
<1>4. NsPerTick \in Nat \ {0} /\ NsPerTick * POS_TICKS_PER_SEC = NsPerSec
  BY <1>1, <1>3 DEF NsPerTick, POS_TICKS_PER_SEC
<1>5. NsPerMs \in Nat \ {0} /\ NsPerMs * MsPerSec = NsPerSec
  BY <1>2, <1>3 DEF NsPerMs
<1>6. port = "posix" => NsPerTick = NsPerMs
  BY <1>1 DEF NsPerTick, NsPerMs, POS_TICKS_PER_SEC
<1> QED BY <1>1, <1>2, <1>4, <1>5, <1>6 DEF POS_TICKS_PER_SEC

\* The running tick has begun and has not ended.
LEMMA ClockFacts ==
    ASSUME system \in Systems, now \in Nat
    PROVE  /\ uptime_ticks \in Nat
           /\ uptime_ticks * NsPerTick \in Nat
           /\ uptime_ticks * NsPerTick <= now
           /\ now < uptime_ticks * NsPerTick + NsPerTick
<1>1. NsPerTick \in Nat \ {0}
  BY UnitFacts
<1>2. now \div NsPerTick \in Nat /\ (now \div NsPerTick) * NsPerTick <= now
      /\ now < (now \div NsPerTick) * NsPerTick + NsPerTick
  BY <1>1, DivBounds
<1>3. uptime_ticks \in Nat
  BY <1>2 DEF uptime_ticks
<1> QED BY <1>1, <1>2, <1>3 DEF uptime_ticks

\* n ticks from the running tick end less than a tick before n ticks from now.
LEMMA KernelTicks ==
    ASSUME system \in Systems, now \in Nat, NEW n \in Nat
    PROVE  /\ kernel_ticks(n) \in Nat
           /\ n * NsPerTick \in Nat
           /\ now + n * NsPerTick < kernel_ticks(n) + NsPerTick
           /\ n > 0 => now < kernel_ticks(n)
<1>1. NsPerTick \in Nat \ {0} /\ uptime_ticks \in Nat /\ n * NsPerTick \in Nat
      /\ uptime_ticks * NsPerTick \in Nat
  BY UnitFacts, ClockFacts
<1>2. now < uptime_ticks * NsPerTick + NsPerTick
  BY ClockFacts
<1>3. kernel_ticks(n) = uptime_ticks * NsPerTick + n * NsPerTick
  BY <1>1 DEF kernel_ticks
<1>4. n > 0 => NsPerTick <= n * NsPerTick
  BY <1>1
<1> DEFINE a == uptime_ticks * NsPerTick   b == n * NsPerTick
<1> HIDE DEF a, b
<1> SUFFICES /\ a + b \in Nat /\ b \in Nat
             /\ now + b < (a + b) + NsPerTick
             /\ n > 0 => now < a + b
  BY <1>3 DEF a, b
<1>5. a \in Nat /\ b \in Nat /\ now < a + NsPerTick /\ (n > 0 => NsPerTick <= b)
  BY <1>1, <1>2, <1>4 DEF a, b
<1> QED BY <1>1, <1>5

\* The seconds and nanoseconds of a struct timespec add up to the milliseconds.
LEMMA Timespec ==
    ASSUME system \in Systems, now \in Nat, NEW n \in Nat
    PROVE  timespec_ms(n) = now + n * NsPerMs /\ n * NsPerMs \in Nat
<1>1. NsPerMs \in Nat /\ MsPerSec \in Nat \ {0} /\ NsPerSec = NsPerMs * MsPerSec
  BY UnitFacts
<1> DEFINE q == n \div MsPerSec   r == n % MsPerSec
<1>2. q \in Nat /\ r \in Nat /\ n = MsPerSec * q + r
  BY <1>1, DivBounds
<1>3. timespec_ms(n) = now + q * NsPerSec + r * NsPerMs
  BY DEF timespec_ms
<1> HIDE DEF q, r
<1>4. q * NsPerSec + r * NsPerMs = n * NsPerMs
  BY <1>1, <1>2
<1>5. q * NsPerSec \in Nat /\ r * NsPerMs \in Nat /\ n * NsPerMs \in Nat
  BY <1>1, <1>2
<1> QED BY <1>3, <1>4, <1>5

\* A wait that ends at the moment end keeps to what Earliest demands.
LEMMA EarliestBound ==
    ASSUME now \in Nat, NEW asks \in Nat, NEW slack \in Nat, NEW end \in Nat,
           slack = 0 => now + asks <= end,
           slack > 0 => now + asks < end + slack
    PROVE  /\ Earliest(now, asks, slack) \in Nat
           /\ Earliest(now, asks, slack) <= now \/ Earliest(now, asks, slack) <= end
BY DEF Earliest

\* Durations are natural numbers that a pos_time_t holds.
LEMMA DurationFacts ==
    ASSUME NEW d \in Durations
    PROVE  d \in Nat /\ d < TimeRange
BY TimerAssumption, TimeAssumption

-----------------------------------------------------------------------------
(***************************************************************************)
(* Conversions of durations, port by port.                                 *)
(***************************************************************************)

\* The value of a double that is in range is that value; on Apple all are.
LEMMA TimeT ==
    ASSUME system \in Systems, NEW x \in Nat
    PROVE  /\ pos_time_t(x) \in Nat
           /\ port = "apple" \/ x < TimeRange => pos_time_t(x) = x
           /\ port # "apple" => pos_time_t(x) < TimeRange
           /\ port # "apple" /\ ~system.saturates => pos_time_t(x) = x % TimeRange
<1>1. TimeRange \in Nat \ {0}
  BY TimeAssumption
<1>2. x % TimeRange \in Nat /\ x % TimeRange < TimeRange /\ (x < TimeRange => x % TimeRange = x)
  BY <1>1
<1>3. port = "apple" \/ x < TimeRange => pos_time_t(x) = x
  BY DEF pos_time_t
<1>4. CASE port = "apple" \/ x < TimeRange
  BY <1>1, <1>2, <1>3, <1>4
<1>5. CASE ~(port = "apple" \/ x < TimeRange)
  <2>1. pos_time_t(x) = IF system.saturates THEN TimeRange - 1 ELSE x % TimeRange
    BY <1>5 DEF pos_time_t
  <2> QED BY <1>1, <1>2, <1>5, <2>1
<1> QED BY <1>4, <1>5

\* FreeRTOS and RT-Thread multiply in the width of pos_time_t and round down.
LEMMA MsToTicksKernel ==
    ASSUME system \in Systems, NEW d \in Durations
    PROVE  LET n == ((d * POS_TICKS_PER_SEC) % TimeRange) \div MsPerSec
           IN  /\ n \in Nat
               /\ ~Wraps("ms", d) => d * NsPerMs < n * NsPerTick + NsPerTick
<1>1. d \in Nat /\ POS_TICKS_PER_SEC \in Nat \ {0} /\ MsPerSec \in Nat \ {0}
      /\ NsPerTick \in Nat \ {0} /\ NsPerMs \in Nat \ {0} /\ TimeRange \in Nat \ {0}
      /\ NsPerTick * POS_TICKS_PER_SEC = NsPerMs * MsPerSec
  BY UnitFacts, DurationFacts
<1> DEFINE x == d * POS_TICKS_PER_SEC
<1>2. x \in Nat /\ x % TimeRange \in Nat /\ (x < TimeRange => x % TimeRange = x)
  BY <1>1
<1>3. (x % TimeRange) \div MsPerSec \in Nat
  BY <1>1, <1>2, DivBounds
<1>4. d * NsPerMs < (x \div MsPerSec) * NsPerTick + NsPerTick
  BY <1>1, RoundDown
<1>5. ~Wraps("ms", d) => x < TimeRange
  BY <1>1, <1>2 DEF Wraps
<1> HIDE DEF x
<1>6. ~Wraps("ms", d) => d * NsPerMs < ((x % TimeRange) \div MsPerSec) * NsPerTick + NsPerTick
  BY <1>2, <1>4, <1>5
<1> QED BY <1>3, <1>6 DEF x

\* Zephyr rounds up.
LEMMA MsToTicksUp ==
    ASSUME system \in Systems, NEW d \in Durations
    PROVE  /\ Ceil(d * POS_TICKS_PER_SEC, MsPerSec) \in Nat
           /\ d * NsPerMs <= Ceil(d * POS_TICKS_PER_SEC, MsPerSec) * NsPerTick
           /\ Ceil(d * POS_TICKS_PER_SEC, MsPerSec) = 0 => d * NsPerMs = 0
<1>1. d \in Nat /\ POS_TICKS_PER_SEC \in Nat \ {0} /\ MsPerSec \in Nat \ {0}
      /\ NsPerTick \in Nat \ {0} /\ NsPerMs \in Nat \ {0}
      /\ NsPerTick * POS_TICKS_PER_SEC = NsPerMs * MsPerSec
  BY UnitFacts, DurationFacts
<1> DEFINE n == Ceil(d * POS_TICKS_PER_SEC, MsPerSec)
<1>2. n \in Nat
  BY <1>1, RoundUp
<1>3. d * NsPerMs <= n * NsPerTick
  BY <1>1, RoundUp
<1>4. n = 0 => d * NsPerMs = 0
  <2> HIDE DEF n
  <2> QED BY <1>1, <1>2, <1>3
<1> QED BY <1>2, <1>3, <1>4

\* The POSIX and Apple ports go by way of a double.  A POSIX tick is a millisecond, and
\* a millisecond is a whole number of Apple's ticks.
LEMMA MsToTicksPosix ==
    ASSUME system \in Systems, port \in {"posix", "apple"}, NEW d \in Durations
    PROVE  /\ ms_to_ticks_posix(d) \in Nat
           /\ ms_to_ticks_posix(d) * NsPerTick = d * NsPerMs
           /\ port = "posix" => ms_to_ticks_posix(d) = d
<1>1. d \in Nat /\ POS_TICKS_PER_SEC \in Nat \ {0} /\ MsPerSec \in Nat \ {0}
      /\ NsPerTick \in Nat \ {0} /\ NsPerMs \in Nat \ {0} /\ d < TimeRange
      /\ NsPerTick * POS_TICKS_PER_SEC = NsPerMs * MsPerSec
  BY UnitFacts, DurationFacts
<1> DEFINE q == (d * POS_TICKS_PER_SEC) \div MsPerSec
<1>2. q \in Nat
  BY <1>1, DivBounds
<1>3. CASE port = "posix"
  <2>1. POS_TICKS_PER_SEC = MsPerSec /\ NsPerTick = NsPerMs
    BY <1>3, UnitFacts
  <2>2. q = d
    BY <1>1, <2>1, DivUnique
  <2>3. ms_to_ticks_posix(d) = d
    BY <1>1, <2>2, TimeT DEF ms_to_ticks_posix
  <2> QED BY <1>1, <2>1, <2>3
<1>4. CASE port = "apple"
  <2> DEFINE c == POS_TICKS_PER_SEC \div MsPerSec
  <2>1. c \in Nat /\ POS_TICKS_PER_SEC = MsPerSec * c
    <3>1. POS_TICKS_PER_SEC % MsPerSec = 0
      BY <1>4, UnitFacts
    <3>2. c \in Nat /\ POS_TICKS_PER_SEC = MsPerSec * c + (POS_TICKS_PER_SEC % MsPerSec)
      BY <1>1, DivBounds
    <3> HIDE DEF c
    <3> QED BY <1>1, <3>1, <3>2
  <2> HIDE DEF c
  <2>2. q = d * c
    <3>1. d * c \in Nat /\ d * POS_TICKS_PER_SEC \in Nat /\ d * POS_TICKS_PER_SEC = (d * c) * MsPerSec
      BY <1>1, <2>1
    <3> QED BY <1>1, <3>1, DivUnique
  <2>3. NsPerTick * c = NsPerMs
    <3>1. (NsPerTick * c) * MsPerSec = NsPerMs * MsPerSec
      <4>1. (NsPerTick * c) * MsPerSec = NsPerTick * (MsPerSec * c)
        BY <1>1, <2>1
      <4> QED BY <1>1, <2>1, <4>1
    <3>2. NsPerTick * c \in Nat
      BY <1>1, <2>1
    <3>3. NsPerTick * c <= NsPerMs /\ NsPerMs <= NsPerTick * c
      BY <1>1, <3>1, <3>2, CancelLeq
    <3> QED BY <1>1, <3>2, <3>3
  <2>4. q * NsPerTick = d * NsPerMs
    <3>1. (d * c) * NsPerTick = d * (NsPerTick * c)
      BY <1>1, <2>1
    <3> QED BY <2>2, <2>3, <3>1
  <2>5. ms_to_ticks_posix(d) = q
    BY <1>2, <1>4, TimeT DEF ms_to_ticks_posix
  <2> QED BY <1>2, <1>4, <2>4, <2>5
<1> QED BY <1>3, <1>4

\* Back from ticks, Apple loses less than a millisecond.
LEMMA TicksToMsPosix ==
    ASSUME system \in Systems, port \in {"posix", "apple"}, NEW d \in Durations
    PROVE  /\ ticks_to_ms_posix(d) \in Nat
           /\ port = "posix" => ticks_to_ms_posix(d) = d
           /\ d * NsPerTick < ticks_to_ms_posix(d) * NsPerMs + NsPerMs
<1>1. d \in Nat /\ POS_TICKS_PER_SEC \in Nat \ {0} /\ MsPerSec \in Nat \ {0}
      /\ NsPerTick \in Nat \ {0} /\ NsPerMs \in Nat \ {0} /\ d < TimeRange
      /\ NsPerMs * MsPerSec = NsPerTick * POS_TICKS_PER_SEC
  BY UnitFacts, DurationFacts
<1> DEFINE q == (d * MsPerSec) \div POS_TICKS_PER_SEC
<1>2. q \in Nat
  BY <1>1, DivBounds
<1>3. d * NsPerTick < q * NsPerMs + NsPerMs
  BY <1>1, RoundDown
<1>4. port = "posix" => q = d
  <2> SUFFICES ASSUME port = "posix" PROVE q = d
    OBVIOUS
  <2>1. POS_TICKS_PER_SEC = MsPerSec
    BY UnitFacts
  <2> QED BY <1>1, <2>1, DivUnique
<1>5. ticks_to_ms_posix(d) = pos_time_t(q)
  BY DEF ticks_to_ms_posix
<1> HIDE DEF q
<1>6. pos_time_t(q) = q
  BY <1>1, <1>2, <1>4, TimeT
<1> QED BY <1>2, <1>3, <1>4, <1>5, <1>6

-----------------------------------------------------------------------------
(***************************************************************************)
(* Sleeps: when the kernel lets a sleeper go that calls now.               *)
(***************************************************************************)
Units == {"ms", "ticks"}

SleepEnd(unit, d) == IF unit = "ms" THEN pos_task_sleep_ms(d) ELSE pos_task_sleep(d)

\* A wait that ends at end is not too early for a moment first.
InTime(end, first) == end \in Nat /\ first \in Nat /\ (first <= now \/ first <= end)

\* What was asked for, as a number of nanoseconds.
LEMMA AskedFacts ==
    ASSUME system \in Systems, NEW d \in Durations
    PROVE  /\ Asked("ms", d) = d * NsPerMs /\ d * NsPerMs \in Nat
           /\ Asked("ticks", d) = d * NsPerTick /\ d * NsPerTick \in Nat
<1>1. d \in Nat /\ NsPerMs \in Nat /\ NsPerTick \in Nat
  BY UnitFacts, DurationFacts
<1> QED BY <1>1 DEF Asked

\* A wait with no slack.
LEMMA InTimeExactly ==
    ASSUME now \in Nat, NEW asks \in Nat, NEW end \in Nat, now + asks <= end
    PROVE  InTime(end, Earliest(now, asks, 0))
<1>1. 0 \in Nat
  OBVIOUS
<1> QED BY <1>1, EarliestBound DEF InTime

\* A wait that may be short by less than slack.
LEMMA InTimeWithin ==
    ASSUME now \in Nat, NEW asks \in Nat, NEW end \in Nat, NEW slack \in Nat \ {0},
           now + asks < end + slack
    PROVE  InTime(end, Earliest(now, asks, slack))
BY EarliestBound DEF InTime

\* nanosleep() of the POSIX port.
LEMMA SleepPosix ==
    ASSUME system \in Systems, now \in Nat, port = "posix",
           NEW unit \in Units, NEW d \in Durations
    PROVE  InTime(SleepEnd(unit, d), EarliestReturn(ACall(unit, d)))
<1>1. EarliestReturn(ACall(unit, d)) = Earliest(now, Asked(unit, d), 0)
  BY DEF EarliestReturn, ACall, SleepSlack
<1>2. SleepEnd(unit, d) = timespec_ms(d)
  <2>1. pos_task_sleep_ms(d) = timespec_ms(d)
    BY DEF pos_task_sleep_ms, sleep_ms_posix
  <2>2. pos_task_sleep(d) = timespec_ms(ticks_to_ms_posix(d))
    BY DEF pos_task_sleep, sleep_posix, sleep_ms_posix
  <2>3. ticks_to_ms_posix(d) = d
    BY TicksToMsPosix
  <2> QED BY <2>1, <2>2, <2>3 DEF SleepEnd
<1>3. d \in Nat /\ d * NsPerMs \in Nat /\ timespec_ms(d) = now + d * NsPerMs
  BY DurationFacts, AskedFacts, Timespec
<1>4. Asked(unit, d) = d * NsPerMs
  <2>1. NsPerTick = NsPerMs
    BY UnitFacts
  <2> QED BY <2>1, AskedFacts DEF Units
<1> DEFINE a == d * NsPerMs
<1> HIDE DEF a
<1>5. a \in Nat /\ now + a \in Nat /\ now + a <= now + a
  BY <1>3 DEF a
<1>6. InTime(now + a, Earliest(now, a, 0))
  BY <1>5, InTimeExactly
<1> QED BY <1>1, <1>2, <1>3, <1>4, <1>6 DEF a

\* nanosleep() of the Apple port, whose ticks are converted to milliseconds.
LEMMA SleepApple ==
    ASSUME system \in Systems, now \in Nat, port = "apple",
           NEW unit \in Units, NEW d \in Durations
    PROVE  InTime(SleepEnd(unit, d), EarliestReturn(ACall(unit, d)))
<1>0. d \in Nat /\ NsPerMs \in Nat \ {0} /\ d * NsPerMs \in Nat /\ d * NsPerTick \in Nat
  BY DurationFacts, UnitFacts, AskedFacts
<1>1. CASE unit = "ms"
  <2>1. EarliestReturn(ACall(unit, d)) = Earliest(now, d * NsPerMs, 0)
    BY <1>1, AskedFacts DEF EarliestReturn, ACall, SleepSlack
  <2>2. SleepEnd(unit, d) = now + d * NsPerMs
    BY <1>0, <1>1, Timespec DEF SleepEnd, pos_task_sleep_ms, sleep_ms_posix
  <2> DEFINE a == d * NsPerMs
  <2> HIDE DEF a
  <2>3. a \in Nat /\ now + a \in Nat /\ now + a <= now + a
    BY <1>0 DEF a
  <2>4. InTime(now + a, Earliest(now, a, 0))
    BY <2>3, InTimeExactly
  <2> QED BY <2>1, <2>2, <2>4 DEF a
<1>2. CASE unit = "ticks"
  <2> DEFINE q == ticks_to_ms_posix(d)
  <2>1. EarliestReturn(ACall(unit, d)) = Earliest(now, d * NsPerTick, NsPerMs)
    BY <1>2, AskedFacts DEF EarliestReturn, ACall, SleepSlack
  <2>2. q \in Nat /\ d * NsPerTick < q * NsPerMs + NsPerMs
    BY TicksToMsPosix
  <2>3. timespec_ms(q) = now + q * NsPerMs /\ q * NsPerMs \in Nat
    BY <2>2, Timespec
  <2>4. SleepEnd(unit, d) = now + q * NsPerMs
    BY <1>2, <2>3 DEF SleepEnd, pos_task_sleep, sleep_posix, sleep_ms_posix
  <2> DEFINE a == d * NsPerTick   b == q * NsPerMs
  <2> HIDE DEF q, a, b
  <2>5. a \in Nat /\ b \in Nat /\ a < b + NsPerMs
    BY <1>0, <2>2, <2>3 DEF a, b
  <2>6. now + b \in Nat /\ now + a < (now + b) + NsPerMs
    BY <1>0, <2>5
  <2>7. InTime(now + b, Earliest(now, a, NsPerMs))
    BY <1>0, <2>5, <2>6, InTimeWithin
  <2> QED BY <2>1, <2>4, <2>7 DEF a, b
<1> QED BY <1>1, <1>2 DEF Units

\* A kernel that counts n ticks from the running tick, where n ticks are short of what
\* was asked for by less than rest.
LEMMA KernelInTime ==
    ASSUME system \in Systems, now \in Nat, NEW n \in Nat, NEW asks \in Nat, NEW rest \in Nat,
           asks <= n * NsPerTick \/ asks < n * NsPerTick + rest
    PROVE  InTime(kernel_ticks(n), Earliest(now, asks, NsPerTick + rest))
<1>1. NsPerTick \in Nat \ {0} /\ kernel_ticks(n) \in Nat /\ n * NsPerTick \in Nat
      /\ now + n * NsPerTick < kernel_ticks(n) + NsPerTick
  BY UnitFacts, KernelTicks
<1> DEFINE a == n * NsPerTick   e == kernel_ticks(n)   s == NsPerTick + rest
<1>2. s \in Nat \ {0}
  BY <1>1
<1>3. now + asks < e + s
  <2> HIDE DEF a, e
  <2>1. a \in Nat /\ e \in Nat /\ now + a < e + NsPerTick /\ (asks <= a \/ asks < a + rest)
    BY <1>1 DEF a, e
  <2> QED BY <1>1, <2>1
<1> HIDE DEF s
<1>4. InTime(e, Earliest(now, asks, s))
  BY <1>1, <1>2, <1>3, InTimeWithin
<1> QED BY <1>4 DEF s

\* vTaskDelay().
LEMMA SleepFreertos ==
    ASSUME system \in Systems, now \in Nat, port = "freertos",
           NEW unit \in Units, NEW d \in Durations
    PROVE  InTime(SleepEnd(unit, d), EarliestReturn(ACall(unit, d)))
<1>0. d \in Nat /\ NsPerTick \in Nat \ {0} /\ d * NsPerMs \in Nat /\ d * NsPerTick \in Nat
  BY DurationFacts, UnitFacts, AskedFacts
<1>1. CASE unit = "ms"
  <2> DEFINE n == ms_to_ticks_freertos(d)
  <2>1. n \in Nat /\ (~Wraps("ms", d) => d * NsPerMs < n * NsPerTick + NsPerTick)
    BY MsToTicksKernel DEF ms_to_ticks_freertos
  <2>2. SleepEnd(unit, d) = kernel_ticks(n)
    BY <1>1 DEF SleepEnd, pos_task_sleep_ms, sleep_ms_freertos
  <2>3. kernel_ticks(n) \in Nat
    BY <2>1, KernelTicks
  <2> HIDE DEF n
  <2>4. CASE Wraps("ms", d)
    <3>1. EarliestReturn(ACall(unit, d)) = now
      BY <1>1, <2>4 DEF EarliestReturn, ACall
    <3>2. now <= now
      OBVIOUS
    <3> QED BY <2>2, <2>3, <3>1, <3>2 DEF InTime
  <2>5. CASE ~Wraps("ms", d)
    <3>1. EarliestReturn(ACall(unit, d)) = Earliest(now, d * NsPerMs, 2 * NsPerTick)
      BY <1>1, <2>5, AskedFacts DEF EarliestReturn, ACall, SleepSlack
    <3>2. 2 * NsPerTick = NsPerTick + NsPerTick
      BY <1>0
    <3>3. InTime(kernel_ticks(n), Earliest(now, d * NsPerMs, NsPerTick + NsPerTick))
      BY <1>0, <2>1, <2>5, KernelInTime
    <3> QED BY <2>2, <3>1, <3>2, <3>3
  <2> QED BY <2>4, <2>5
<1>2. CASE unit = "ticks"
  <2>1. ~Wraps(unit, d)
    BY <1>2 DEF Wraps
  <2>2. EarliestReturn(ACall(unit, d)) = Earliest(now, d * NsPerTick, NsPerTick)
    BY <1>2, <2>1, AskedFacts DEF EarliestReturn, ACall, SleepSlack
  <2>3. SleepEnd(unit, d) = kernel_ticks(d)
    BY <1>2 DEF SleepEnd, pos_task_sleep, sleep_freertos
  <2>4. NsPerTick + 0 = NsPerTick /\ 0 \in Nat /\ d * NsPerTick <= d * NsPerTick
    BY <1>0
  <2>5. InTime(kernel_ticks(d), Earliest(now, d * NsPerTick, NsPerTick + 0))
    BY <1>0, <2>4, KernelInTime
  <2> QED BY <2>2, <2>3, <2>4, <2>5
<1> QED BY <1>1, <1>2 DEF Units

\* rt_thread_mdelay() rounds up, rt_thread_delay() takes the ticks.
LEMMA SleepRtThread ==
    ASSUME system \in Systems, now \in Nat, port = "rt-thread",
           NEW unit \in Units, NEW d \in Durations
    PROVE  InTime(SleepEnd(unit, d), EarliestReturn(ACall(unit, d)))
<1>0. d \in Nat /\ NsPerTick \in Nat \ {0} /\ d * NsPerMs \in Nat /\ d * NsPerTick \in Nat
  BY DurationFacts, UnitFacts, AskedFacts
<1>1. NsPerTick + 0 = NsPerTick /\ 0 \in Nat /\ d * NsPerTick <= d * NsPerTick
  BY <1>0
<1>2. EarliestReturn(ACall(unit, d)) = Earliest(now, Asked(unit, d), NsPerTick)
  BY DEF EarliestReturn, ACall, SleepSlack
<1>3. CASE unit = "ms"
  <2> DEFINE n == Ceil(d * POS_TICKS_PER_SEC, MsPerSec)
  <2>1. n \in Nat /\ d * NsPerMs <= n * NsPerTick
    BY MsToTicksUp
  <2>2. SleepEnd(unit, d) = kernel_ticks(n)
    BY <1>3 DEF SleepEnd, pos_task_sleep_ms, sleep_ms_rt_thread
  <2> HIDE DEF n
  <2>3. InTime(kernel_ticks(n), Earliest(now, d * NsPerMs, NsPerTick + 0))
    BY <1>0, <1>1, <2>1, KernelInTime
  <2> QED BY <1>1, <1>2, <1>3, <2>2, <2>3, AskedFacts
<1>4. CASE unit = "ticks"
  <2>1. SleepEnd(unit, d) = kernel_ticks(d)
    BY <1>4 DEF SleepEnd, pos_task_sleep, sleep_rt_thread
  <2>2. InTime(kernel_ticks(d), Earliest(now, d * NsPerTick, NsPerTick + 0))
    BY <1>0, <1>1, KernelInTime
  <2> QED BY <1>1, <1>2, <1>4, <2>1, <2>2, AskedFacts
<1> QED BY <1>3, <1>4 DEF Units

\* k_sleep() waits one tick more than it is asked for: no sleep is too short.
LEMMA KSleep ==
    ASSUME system \in Systems, now \in Nat, NEW n \in Nat, NEW asks \in Nat,
           asks <= n * NsPerTick, n = 0 => asks = 0
    PROVE  InTime(k_sleep(n), Earliest(now, asks, 0))
<1>1. CASE n = 0
  <2>1. k_sleep(n) = now /\ now \in Nat /\ now + asks <= now
    BY <1>1 DEF k_sleep
  <2> QED BY <2>1, InTimeExactly
<1>2. CASE n # 0
  <2>1. k_sleep(n) = kernel_ticks(n + 1)
    BY <1>2 DEF k_sleep
  <2>2. NsPerTick \in Nat /\ n * NsPerTick \in Nat /\ (n + 1) * NsPerTick = n * NsPerTick + NsPerTick
    BY UnitFacts
  <2>3. n + 1 \in Nat
    OBVIOUS
  <2>4. kernel_ticks(n + 1) \in Nat
        /\ now + (n + 1) * NsPerTick < kernel_ticks(n + 1) + NsPerTick
    BY <2>3, KernelTicks
  <2> DEFINE e == kernel_ticks(n + 1)   a == n * NsPerTick
  <2> HIDE DEF e, a
  <2>5. e \in Nat /\ a \in Nat /\ now + (a + NsPerTick) < e + NsPerTick /\ asks <= a
    BY <2>2, <2>4 DEF e, a
  <2>6. now + asks <= e
    BY <2>2, <2>5
  <2>7. InTime(e, Earliest(now, asks, 0))
    BY <2>5, <2>6, InTimeExactly
  <2> QED BY <2>1, <2>7 DEF e
<1> QED BY <1>1, <1>2

\* k_msleep() and k_sleep().
LEMMA SleepZephyr ==
    ASSUME system \in Systems, now \in Nat, port = "zephyr",
           NEW unit \in Units, NEW d \in Durations
    PROVE  InTime(SleepEnd(unit, d), EarliestReturn(ACall(unit, d)))
<1>0. d \in Nat /\ NsPerTick \in Nat \ {0} /\ d * NsPerMs \in Nat /\ d * NsPerTick \in Nat
  BY DurationFacts, UnitFacts, AskedFacts
<1>2. EarliestReturn(ACall(unit, d)) = Earliest(now, Asked(unit, d), 0)
  BY DEF EarliestReturn, ACall, SleepSlack
<1>3. CASE unit = "ms"
  <2> DEFINE n == Ceil(d * POS_TICKS_PER_SEC, MsPerSec)
  <2>1. n \in Nat /\ d * NsPerMs <= n * NsPerTick /\ (n = 0 => d * NsPerMs = 0)
    BY MsToTicksUp
  <2>2. SleepEnd(unit, d) = k_sleep(n)
    BY <1>3 DEF SleepEnd, pos_task_sleep_ms, sleep_ms_zephyr
  <2> HIDE DEF n
  <2>3. InTime(k_sleep(n), Earliest(now, d * NsPerMs, 0))
    BY <1>0, <2>1, KSleep
  <2> QED BY <1>2, <1>3, <2>2, <2>3, AskedFacts
<1>4. CASE unit = "ticks"
  <2>1. SleepEnd(unit, d) = k_sleep(d)
    BY <1>4 DEF SleepEnd, pos_task_sleep, sleep_zephyr
  <2>2. d * NsPerTick <= d * NsPerTick /\ (d = 0 => d * NsPerTick = 0)
    BY <1>0
  <2>3. InTime(k_sleep(d), Earliest(now, d * NsPerTick, 0))
    BY <1>0, <2>2, KSleep
  <2> QED BY <1>2, <1>4, <2>1, <2>3, AskedFacts
<1> QED BY <1>3, <1>4 DEF Units

\* No port lets a sleeper go too early.
LEMMA SleepInTime ==
    ASSUME system \in Systems, now \in Nat, NEW unit \in Units, NEW d \in Durations
    PROVE  InTime(SleepEnd(unit, d), EarliestReturn(ACall(unit, d)))
<1>1. port \in PortNames
  BY UnitFacts
<1> QED BY <1>1, SleepPosix, SleepApple, SleepFreertos, SleepZephyr, SleepRtThread DEF PortNames

-----------------------------------------------------------------------------
(***************************************************************************)
(* Timers: when a timer expires that is armed for a start.                 *)
(***************************************************************************)

\* The ticks that a start arms the kernel's timer with.
StartTicks(unit, d) ==
    LET n == IF unit = "ms" THEN pos_timer_start_ms(d) ELSE d
    IN  IF port = "apple" THEN n ELSE atLeastOne(n)

\* When a timer expires that is armed with n ticks at a moment.
ExpiryFrom(at, n) ==
    IF port \in {"posix", "apple"} THEN at + n * NsPerTick
    ELSE ((at \div NsPerTick) + n) * NsPerTick

\* A start with no tick is one with one tick.
LEMMA AtLeastOne ==
    ASSUME NEW n \in Nat
    PROVE  atLeastOne(n) \in Nat \ {0} /\ n <= atLeastOne(n)
BY DEF atLeastOne

\* The ways in which the ports arm a timer now.
LEMMA ArmedNow ==
    ASSUME system \in Systems, now \in Nat, NEW n \in Nat
    PROVE  /\ ExpiryFrom(now, n) \in Nat
           /\ port = "posix" => timespec_ms(n) = ExpiryFrom(now, n)
           /\ port = "apple" => now + n * NsPerTick = ExpiryFrom(now, n)
           /\ port \in {"freertos", "zephyr", "rt-thread"} => kernel_ticks(n) = ExpiryFrom(now, n)
<1>1. /\ NsPerTick \in Nat \ {0} /\ port \in PortNames /\ (port = "posix" => NsPerTick = NsPerMs)
      /\ n * NsPerTick \in Nat /\ kernel_ticks(n) \in Nat /\ timespec_ms(n) = now + n * NsPerMs
  BY UnitFacts, KernelTicks, Timespec
<1>2. port \in {"freertos", "zephyr", "rt-thread"} => kernel_ticks(n) = ExpiryFrom(now, n)
  BY DEF kernel_ticks, ExpiryFrom, uptime_ticks
<1>3. port \in {"posix", "apple"} => ExpiryFrom(now, n) = now + n * NsPerTick
  BY DEF ExpiryFrom
<1>4. now + n * NsPerTick \in Nat
  <2> DEFINE a == n * NsPerTick
  <2>1. a \in Nat
    BY <1>1
  <2> HIDE DEF a
  <2>2. now + a \in Nat
    BY <2>1
  <2> QED BY <2>2 DEF a
<1> QED BY <1>1, <1>2, <1>3, <1>4 DEF PortNames

\* A timer that is armed later expires no earlier.  FreeRTOS's timer task counts from
\* the tick in which a reset was sent.
LEMMA ExpiryGrows ==
    ASSUME system \in Systems, NEW at \in Nat, NEW t \in Nat, at <= t, NEW n \in Nat
    PROVE  /\ at \div NsPerTick <= t \div NsPerTick
           /\ at \div NsPerTick \in Nat
           /\ ExpiryFrom(at, n) \in Nat /\ ExpiryFrom(t, n) \in Nat
           /\ ExpiryFrom(at, n) <= ExpiryFrom(t, n)
           /\ \A sent \in Nat : at \div NsPerTick <= sent =>
                 /\ (sent + n) * NsPerTick \in Nat
                 /\ port \notin {"posix", "apple"} =>
                       ExpiryFrom(at, n) <= (sent + n) * NsPerTick
<1> DEFINE k == NsPerTick   A == at \div k   T == t \div k
<1>1. k \in Nat \ {0}
  BY UnitFacts
<1>2. A \in Nat /\ T \in Nat /\ A * k <= at /\ t < T * k + k
  BY <1>1, DivBounds
<1> HIDE DEF k, A, T
<1>3. A <= T
  <2>1. A * k < (T + 1) * k
    <3>1. (T + 1) * k = T * k + k /\ A * k \in Nat /\ T * k \in Nat
      BY <1>1, <1>2
    <3> QED BY <1>1, <1>2, <3>1
  <2>2. A < T + 1
    BY <1>1, <1>2, <2>1, CancelLess
  <2> QED BY <1>2, <2>2
<1>4. \A u \in Nat : A <= u => /\ (A + n) * k \in Nat /\ (u + n) * k \in Nat
                               /\ (A + n) * k <= (u + n) * k
  <2> SUFFICES ASSUME NEW u \in Nat, A <= u
               PROVE  /\ (A + n) * k \in Nat /\ (u + n) * k \in Nat
                      /\ (A + n) * k <= (u + n) * k
    OBVIOUS
  <2>1. A + n \in Nat /\ u + n \in Nat /\ A + n <= u + n
    BY <1>2
  <2>2. (A + n) * k <= (u + n) * k
    BY <1>1, <2>1, MulMono
  <2>3. (A + n) * k \in Nat /\ (u + n) * k \in Nat
    BY <1>1, <2>1
  <2> QED BY <2>2, <2>3
<1>5. CASE port \in {"posix", "apple"}
  <2>1. ExpiryFrom(at, n) = at + n * k /\ ExpiryFrom(t, n) = t + n * k
    BY <1>5 DEF ExpiryFrom, k
  <2> DEFINE b == n * k
  <2>2. b \in Nat
    BY <1>1
  <2> HIDE DEF b
  <2>3. at + b \in Nat /\ t + b \in Nat /\ at + b <= t + b
    BY <2>2
  <2>4. ExpiryFrom(at, n) = at + b /\ ExpiryFrom(t, n) = t + b
    BY <2>1 DEF b
  <2> QED BY <1>2, <1>3, <1>4, <1>5, <2>3, <2>4 DEF k, A, T
<1>6. CASE port \notin {"posix", "apple"}
  <2>1. ExpiryFrom(at, n) = (A + n) * k /\ ExpiryFrom(t, n) = (T + n) * k
    BY <1>6 DEF ExpiryFrom, k, A, T
  <2> QED BY <1>2, <1>3, <1>4, <2>1 DEF k, A, T
<1> QED BY <1>5, <1>6

\* A start that arms the timer with its ticks at once is in time.
LEMMA StartInTime ==
    ASSUME system \in Systems, now \in Nat, NEW unit \in Units, NEW d \in Durations
    PROVE  /\ StartTicks(unit, d) \in Nat
           /\ InTime(ExpiryFrom(now, StartTicks(unit, d)), EarliestExpiry(ACall(unit, d)))
<1> DEFINE n == IF unit = "ms" THEN pos_timer_start_ms(d) ELSE d
           l == StartTicks(unit, d)   first == EarliestExpiry(ACall(unit, d))
<1>0. /\ d \in Nat /\ NsPerTick \in Nat \ {0} /\ NsPerMs \in Nat \ {0} /\ TimeRange \in Nat \ {0}
      /\ d * NsPerMs \in Nat /\ d * NsPerTick \in Nat /\ port \in PortNames
      /\ (port = "posix" => NsPerTick = NsPerMs)
  BY DurationFacts, UnitFacts, AskedFacts
<1>1. NsPerTick + 0 = NsPerTick /\ 0 \in Nat /\ 2 * NsPerTick = NsPerTick + NsPerTick
      /\ d * NsPerTick <= d * NsPerTick
  BY <1>0
<1>2. CASE port \in {"posix", "apple"}
  <2>1. n \in Nat /\ Asked(unit, d) = n * NsPerTick
    <3>1. port = "posix" => ms_to_ticks_posix(d) = d
      BY MsToTicksPosix
    <3>2. port = "apple" => ms_to_ticks_posix(d) \in Nat
                            /\ d * NsPerMs = ms_to_ticks_posix(d) * NsPerTick
      BY MsToTicksPosix
    <3>3. pos_timer_start_ms(d) = ms_to_ticks_posix(d)
      BY <1>2 DEF pos_timer_start_ms, timer_start_ms_posix
    <3> QED BY <1>0, <1>2, <3>1, <3>2, <3>3, AskedFacts DEF Units
  <2>2. first = Earliest(now, n * NsPerTick, 0)
    BY <1>2, <2>1 DEF EarliestExpiry, ExpiryAsked, ACall, TimerSlack
  <2>3. l \in Nat /\ n <= l
    BY <2>1, AtLeastOne DEF StartTicks
  <2>4. ExpiryFrom(now, l) = now + l * NsPerTick
    BY <1>2 DEF ExpiryFrom
  <2> HIDE DEF n, l
  <2>5. n * NsPerTick <= l * NsPerTick /\ n * NsPerTick \in Nat /\ l * NsPerTick \in Nat
    BY <1>0, <2>1, <2>3, MulMono
  <2> DEFINE a == n * NsPerTick   b == l * NsPerTick
  <2> HIDE DEF a, b
  <2>6. a \in Nat /\ now + b \in Nat /\ now + a <= now + b
    BY <2>5 DEF a, b
  <2>7. InTime(now + b, Earliest(now, a, 0))
    BY <2>6, InTimeExactly
  <2> QED BY <2>2, <2>3, <2>4, <2>7 DEF a, b, l
<1>3. CASE port \in {"freertos", "zephyr", "rt-thread"}
  <2>1. l = atLeastOne(n)
    BY <1>3 DEF StartTicks
  <2>2. ASSUME NEW m \in Nat, NEW asks \in Nat, NEW rest \in Nat,
               asks <= m * NsPerTick \/ asks < m * NsPerTick + rest
        PROVE  atLeastOne(m) \in Nat /\
               InTime(ExpiryFrom(now, atLeastOne(m)), Earliest(now, asks, NsPerTick + rest))
    <3> DEFINE j == atLeastOne(m)
    <3>1. j \in Nat /\ m <= j
      BY AtLeastOne
    <3> HIDE DEF j
    <3>2. m * NsPerTick <= j * NsPerTick /\ m * NsPerTick \in Nat /\ j * NsPerTick \in Nat
      BY <1>0, <3>1, MulMono
    <3>3. asks <= j * NsPerTick \/ asks < j * NsPerTick + rest
      <4> DEFINE a == m * NsPerTick   b == j * NsPerTick
      <4>1. a \in Nat /\ b \in Nat /\ a <= b /\ (asks <= a \/ asks < a + rest)
        BY <2>2, <3>2
      <4> HIDE DEF a, b
      <4>2. asks <= b \/ asks < b + rest
        BY <4>1
      <4> QED BY <4>2 DEF b
    <3>4. InTime(kernel_ticks(j), Earliest(now, asks, NsPerTick + rest))
      BY <3>1, <3>3, KernelInTime
    <3>5. kernel_ticks(j) = ExpiryFrom(now, j)
      BY <1>3, <3>1, ArmedNow
    <3> QED BY <3>1, <3>4, <3>5 DEF j
  <2>3. CASE unit = "ticks"
    <3>1. first = Earliest(now, d * NsPerTick, NsPerTick + 0)
      BY <1>1, <1>3, <2>3, AskedFacts
      DEF EarliestExpiry, ExpiryAsked, ACall, TimerSlack, Wraps
    <3>2. n = d
      BY <2>3
    <3> QED BY <1>0, <1>1, <2>1, <2>2, <3>1, <3>2
  <2>4. CASE unit = "ms" /\ port = "zephyr"
    <3>1. n = Ceil(d * POS_TICKS_PER_SEC, MsPerSec)
      BY <2>4 DEF pos_timer_start_ms, timer_start_ms_zephyr
    <3>2. n \in Nat /\ d * NsPerMs <= n * NsPerTick
      BY <3>1, MsToTicksUp
    <3>3. first = Earliest(now, d * NsPerMs, NsPerTick + 0)
      BY <1>1, <2>4, AskedFacts DEF EarliestExpiry, ExpiryAsked, ACall, TimerSlack
    <3> HIDE DEF n, l, first
    <3>4. atLeastOne(n) \in Nat /\
          InTime(ExpiryFrom(now, atLeastOne(n)), Earliest(now, d * NsPerMs, NsPerTick + 0))
      BY <1>0, <1>1, <2>2, <3>2
    <3> QED BY <2>1, <3>3, <3>4 DEF l, first
  <2>5. CASE unit = "ms" /\ port \in {"freertos", "rt-thread"}
    <3>1. n = ((d * POS_TICKS_PER_SEC) % TimeRange) \div MsPerSec
      BY <2>5 DEF pos_timer_start_ms, timer_start_ms_freertos, timer_start_ms_rt_thread,
                  ms_to_ticks_freertos, ms_to_ticks_rt_thread
    <3>2. n \in Nat /\ (~Wraps("ms", d) => d * NsPerMs < n * NsPerTick + NsPerTick)
      BY <3>1, MsToTicksKernel
    <3>3. CASE Wraps("ms", d)
      <4>1. first = now
        BY <2>5, <3>3 DEF EarliestExpiry, ACall
      <4>2. atLeastOne(n) \in Nat
        BY <3>2, AtLeastOne
      <4> HIDE DEF n, l, first
      <4>3. ExpiryFrom(now, atLeastOne(n)) \in Nat /\ now <= now
        BY <4>2, ArmedNow
      <4> QED BY <2>1, <4>1, <4>2, <4>3 DEF InTime, l, first
    <3>4. CASE ~Wraps("ms", d)
      <4>1. first = Earliest(now, d * NsPerMs, NsPerTick + NsPerTick)
        BY <1>1, <2>5, <3>4, AskedFacts DEF EarliestExpiry, ExpiryAsked, ACall, TimerSlack
      <4> HIDE DEF n, l, first
      <4>2. atLeastOne(n) \in Nat /\
            InTime(ExpiryFrom(now, atLeastOne(n)), Earliest(now, d * NsPerMs, NsPerTick + NsPerTick))
        BY <1>0, <2>2, <3>2, <3>4
      <4> QED BY <2>1, <4>1, <4>2 DEF l, first
    <3> QED BY <3>3, <3>4
  <2> QED BY <1>3, <2>3, <2>4, <2>5 DEF Units
<1> QED BY <1>0, <1>2, <1>3 DEF PortNames

-----------------------------------------------------------------------------
(***************************************************************************)
(* The inductive invariants.                                               *)
(***************************************************************************)

\* The first moment that is not too early for the callback of a start.
First == [s \in Starts |-> EarliestExpiry(asked[s])]

\* The ticks with which the timer may be armed for a start, at any time after its call.
Pledge ==
    [s \in Starts |->
        {n \in Nat : \/ First[s] <= asked[s].at
                     \/ First[s] <= ExpiryFrom(asked[s].at, n)}]

InStart == {"active", "arm", "resume", "change", "reset"}

\* Commands that keep the pledges of their starts.
Orders ==
    {c \in CommandRecord :
        c.op # "stop" => /\ port = "freertos"
                         /\ c.start \in 1 .. calls
                         /\ c.ticks \in Pledge[c.start]
                         /\ asked[c.start].at \div NsPerTick <= c.sent}

\* Wherever a start has got to, in its call, in FreeRTOS's queue, in the kernel's timer
\* or in a callback, it is not going to call the callback too early, or the moment
\* before which it would be has passed.
AskedInv  == \A s \in Starts : asked[s].at <= now
ClientInv == /\ client.at \in InStart =>
                   client.start \in 1 .. calls /\ client.ticks \in Pledge[client.start]
             /\ client.at \in {"change", "reset"} => port = "freertos"
QueueInv  == cmdq \in Seq(Orders)
ArmedInv  == armed # 0 => /\ armed \in 1 .. calls
                          /\ First[armed] <= now \/ First[armed] <= expiry
                          /\ port \in {"freertos", "zephyr", "rt-thread"} =>
                                expiry = (expiry \div NsPerTick) * NsPerTick
CbInv     == \A s \in Starts : cb[s] # "none" =>
                s <= calls /\ (cb[s] # "done" => First[s] <= now)

TimerInv == AskedInv /\ ClientInv /\ QueueInv /\ ArmedInv /\ CbInv

\* While a task sleeps, the end of its sleep is not too early.  While it is in the loop
\* around nanosleep(), what remains is counted from the next call, so that it may
\* only become later.
Awake == EarliestReturn(slept)
SleepInv ==
    /\ pc = "sleeping" => Awake <= now \/ Awake <= sleep
    /\ pc = "interrupted" => Awake <= now \/ Awake <= now + sleep

\* No later start is under way when a start has armed the timer, and the callback of a
\* start that nothing came after has cleared what makes the timer active.
ActiveInv ==
    /\ port \in {"posix", "rt-thread"} /\ client.at \in {"active", "arm"} =>
          client.start = due /\ due # 0 /\ cb[due] = "none" /\ armed # due
    /\ client.at = "resume" => port = "apple"
    /\ \A s \in Starts : /\ cb[s] = "stop" => port = "freertos"
                         /\ cb[s] \in {"cancel", "clear"} => port \in {"posix", "apple"}
    /\ port = "freertos" /\ Handling => armed = 0
    /\ \A s \in Starts : cb[s] = "call" /\ due = s =>
          /\ port = "posix" => ~tm_active
          /\ port \in {"freertos", "zephyr", "rt-thread"} => armed = 0

\* A system never changes, and neither do the units of its time.
LEMMA SameUnits ==
    ASSUME UNCHANGED system
    PROVE  port' = port /\ NsPerTick' = NsPerTick
BY DEF port, NsPerTick, POS_TICKS_PER_SEC

\* All steps, one by one.
LEMMA StepCases ==
    ASSUME [Next]_vars
    PROVE  \/ Tick \/ NewCalendar
           \/ \E unit \in Units, d \in Durations : Sleep(unit, d)
           \/ \E unit \in Units, d \in Durations : Start(unit, d)
           \/ SleepInterrupted \/ SleepAgain \/ SleepReturn
           \/ Construct \/ Stop
           \/ StartActive \/ StartArm \/ StartResume \/ StartSend \/ StopClear
           \/ Command \/ Expire
           \/ \E s \in Starts : CbCancel(s) \/ CbClear(s) \/ CbStop(s) \/ CbCall(s)
           \/ UNCHANGED vars
BY DEF Next, Units, ClientStep, Callback

\* What a call finds and leaves.
LEMMA CallFacts ==
    ASSUME TypeOK, Call
    PROVE  /\ calls + 1 \in Starts /\ calls' = calls + 1 /\ calls' \in 0 .. MaxCalls
           /\ client.at = "idle" /\ pc = "idle"
BY TimerAssumption DEF TypeOK, Call, Starts

\* No step changes the system or a call that has been made, time does not go back and
\* calls are counted.
LEMMA StepFrame ==
    ASSUME TypeOK, [Next]_vars
    PROVE  /\ UNCHANGED system /\ now' \in Nat /\ now <= now' /\ calendar' \in Nat
           /\ calls' \in 0 .. MaxCalls /\ calls <= calls'
           /\ \A s \in 1 .. calls : s \in Starts /\ asked'[s] = asked[s]
<1>0. now \in Nat /\ calls \in 0 .. MaxCalls /\ MaxCalls \in Nat /\ calendar \in Nat
      /\ asked \in [Starts -> CallRecord]
  BY TimerAssumption DEF TypeOK
<1>00. \A s \in 1 .. calls : s \in Starts /\ s # calls + 1
  BY <1>0 DEF Starts
<1>1. CASE Tick \/ UNCHANGED vars
  BY <1>0, <1>00, <1>1 DEF Tick, vars, timeVars, timerVars
<1>2. CASE NewCalendar
  BY <1>0, <1>00, <1>2, TimeAssumption DEF NewCalendar, SetCalendar, timerVars
<1>3. CASE \E unit \in Units, d \in Durations : Sleep(unit, d)
  BY <1>0, <1>00, <1>3, CallFacts DEF Sleep, timeVars, timerVars
<1>4. ASSUME NEW unit \in Units, NEW d \in Durations, Start(unit, d)
      PROVE  /\ UNCHANGED <<system, now, calendar>> /\ calls' \in 0 .. MaxCalls /\ calls' = calls + 1
             /\ \A s \in 1 .. calls : asked'[s] = asked[s]
  <2>1. /\ UNCHANGED <<system, now, calendar>> /\ Call
        /\ asked' = [asked EXCEPT ![calls + 1] = ACall(unit, d)]
    BY <1>4 DEF Start, timeVars
  <2> QED BY <1>0, <1>00, <2>1, CallFacts
<1>5. CASE Stop
  BY <1>0, <1>00, <1>5, CallFacts DEF Stop, timeVars
<1>6. CASE SleepInterrupted \/ SleepAgain \/ SleepReturn
  BY <1>0, <1>00, <1>6 DEF SleepInterrupted, SleepAgain, SleepReturn, timeVars, timerVars
<1>7. CASE StartArm \/ StartResume \/ StopClear
  BY <1>0, <1>00, <1>7 DEF StartArm, StartResume, StopClear, timeVars
<1>11. CASE Construct
  <2>1. UNCHANGED <<system, now, calendar, calls, asked>>
    BY <1>11 DEF Construct, timeVars
  <2> QED BY <1>0, <1>00, <2>1
<1>10. CASE StartActive \/ StartSend
  BY <1>0, <1>00, <1>10 DEF StartActive, StartSend, timeVars
<1>8. CASE Command \/ Expire \/ \E s \in Starts : CbCancel(s) \/ CbClear(s) \/ CbStop(s) \/ CbCall(s)
  BY <1>0, <1>00, <1>8 DEF Command, Expire, CbCancel, CbClear, CbStop, CbCall, timeVars
<1>9. CASE \E unit \in Units, d \in Durations : Start(unit, d)
  BY <1>0, <1>00, <1>4, <1>9
<1> QED BY <1>1, <1>2, <1>3, <1>5, <1>6, <1>7, <1>8, <1>9, <1>10, <1>11, StepCases

\* The command that stops the timer.
StopCommand == [op |-> "stop", start |-> 0, ticks |-> 0, sent |-> uptime_ticks]

\* The first step of a start, by port.
LEMMA StartEffect ==
    ASSUME TypeOK, NEW unit \in Units, NEW d \in Durations, Start(unit, d)
    PROVE  LET s == calls + 1   n == StartTicks(unit, d)
           IN  /\ n \in Nat
               /\ \/ port = "posix" /\ client' = [at |-> "active", start |-> s, ticks |-> n]
                  \/ port \in {"apple", "rt-thread"}
                        /\ client' = [at |-> "arm", start |-> s, ticks |-> n]
                  \/ port = "freertos" /\ client' = [at |-> "change", start |-> s, ticks |-> n]
                  \/ port = "zephyr" /\ client' = client
               /\ \/ port # "zephyr" /\ armed' = armed /\ expiry' = expiry
                  \/ port = "rt-thread" /\ armed' = 0 /\ expiry' = 0
                  \/ port = "zephyr" /\ armed' = s /\ expiry' = kernel_ticks(n)
               /\ cmdq' = cmdq \/ cmdq' = Append(cmdq, StopCommand)
               /\ port \notin {"posix", "apple"} => tm_ticks' = tm_ticks
               /\ port = "posix" => tm_ticks' = (pos_time_get + n) % TimeRange
               /\ port = "apple" => tm_ticks' = pos_time_get + n
               /\ UNCHANGED <<system, now, source, tm_active, cb, handle, pc, sleep>>
               /\ phase' \in {phase, "crashed"}
               /\ due' = s /\ calls' = s
               /\ asked' = [asked EXCEPT ![s] = ACall(unit, d)]
<1>1. StartTicks(unit, d) \in Nat
  BY StartInTime DEF TypeOK
<1> DEFINE t == IF unit = "ms" THEN pos_timer_start_ms(d) ELSE d
<1>2. StartTicks(unit, d) = IF port = "apple" THEN t ELSE atLeastOne(t)
  BY DEF StartTicks
<1>3. /\ \/ port = "posix"     /\ timer_start_posix(calls + 1, t)
         \/ port = "apple"     /\ timer_start_apple(calls + 1, t)
         \/ port = "freertos"  /\ timer_start_freertos(calls + 1, t)
         \/ port = "zephyr"    /\ timer_start_zephyr(calls + 1, t)
         \/ port = "rt-thread" /\ timer_start_rt_thread(calls + 1, t)
      /\ UNCHANGED <<system, now, source, tm_active, cb, handle, pc, sleep>>
      /\ phase' \in {phase, "crashed"}
      /\ due' = calls + 1 /\ calls' = calls + 1
      /\ asked' = [asked EXCEPT ![calls + 1] = ACall(unit, d)]
  BY DEF Start, Call, timeVars, sleepVars
<1> HIDE DEF t
<1>4. CASE port = "posix" /\ timer_start_posix(calls + 1, t)
  BY <1>1, <1>2, <1>3, <1>4 DEF timer_start_posix
<1>5. CASE port = "apple" /\ timer_start_apple(calls + 1, t)
  BY <1>1, <1>2, <1>3, <1>5 DEF timer_start_apple
<1>6. CASE port = "freertos" /\ timer_start_freertos(calls + 1, t)
  BY <1>1, <1>2, <1>3, <1>6 DEF timer_start_freertos, Send, StopCommand
<1>7. CASE port = "zephyr" /\ timer_start_zephyr(calls + 1, t)
  BY <1>1, <1>2, <1>3, <1>7 DEF timer_start_zephyr, Arm
<1>8. CASE port = "rt-thread" /\ timer_start_rt_thread(calls + 1, t)
  BY <1>1, <1>2, <1>3, <1>8 DEF timer_start_rt_thread, Disarm, Arm
<1> QED BY <1>3, <1>4, <1>5, <1>6, <1>7, <1>8

\* The first step of a stop.
LEMMA StopEffect ==
    ASSUME Stop
    PROVE  /\ client' = [client EXCEPT !.at = "clear"] \/ UNCHANGED client
           /\ (armed' = 0 /\ expiry' = 0) \/ (port = "freertos" /\ UNCHANGED <<armed, expiry>>)
           /\ cmdq' = cmdq \/ cmdq' = Append(cmdq, StopCommand)
           /\ UNCHANGED source \/ source' = [source EXCEPT !.cancelled = TRUE]
           /\ UNCHANGED <<system, now, tm_active, tm_ticks, cb, asked, handle, pc, sleep>>
           /\ due' = 0 /\ calls' = calls + 1
           /\ phase' \in {phase, "crashed"}
BY DEF Stop, timer_stop_posix, timer_stop_apple, timer_stop_freertos, timer_stop_zephyr, Disarm,
       Arm, goto, Send, StopCommand, Call, timeVars, sleepVars

\* What the kernel does with a command.
LEMMA CommandEffect ==
    ASSUME TypeOK, Command
    PROVE  /\ cmdq # << >> /\ Head(cmdq) \in CommandRecord
           /\ cmdq' = Tail(cmdq) /\ ~Handling
           /\ \/ armed' = 0 /\ expiry' = 0
              \/ /\ Head(cmdq).op = "change" /\ armed' = Head(cmdq).start
                 /\ expiry' = kernel_ticks(Head(cmdq).ticks)
              \/ /\ Head(cmdq).op = "reset" /\ armed' = Head(cmdq).start
                 /\ expiry' = (Head(cmdq).sent + Head(cmdq).ticks) * NsPerTick
           /\ UNCHANGED <<system, now, client, tm_active, cb, asked, due, calls>>
<1>1. cmdq # << >> /\ cmdq \in Seq(CommandRecord)
  BY DEF Command, TypeOK
<1>2. Head(cmdq) \in CommandRecord
  BY <1>1
<1> QED BY <1>1, <1>2 DEF Command, Disarm, Arm, timeVars

\* What TypeOK says of the parts of the system, for use by name.
TimeOK   == system \in Systems /\ now \in Nat /\ calendar \in Nat /\ calls \in 0 .. MaxCalls
ObjectOK == /\ phase \in {"new", "alive", "aborted", "crashed"}
            /\ handle \in BOOLEAN
            /\ source \in [suspended : BOOLEAN, cancelled : BOOLEAN]
            /\ tm_active \in BOOLEAN
            /\ tm_ticks \in Nat /\ (port # "apple" => tm_ticks < TimeRange)
ClientOK == client \in [at : {"idle", "active", "arm", "resume", "change", "reset", "clear"},
                        start : 0 .. MaxCalls, ticks : Nat]
KernelOK == armed \in 0 .. MaxCalls /\ expiry \in Nat
QueueOK  == cmdq \in Seq(CommandRecord)
CbOK     == /\ cb \in [Starts -> {"none", "cancel", "clear", "stop", "call", "done"}]
            /\ asked \in [Starts -> CallRecord]
            /\ due \in 0 .. MaxCalls
SleepOK  == /\ pc \in {"idle", "sleeping", "interrupted"} /\ sleep \in Nat
            /\ signals \in 0 .. MaxSignals /\ slept \in CallRecord

\* The parts are all of TypeOK.
LEMMA TypeParts == TypeOK <=> TimeOK /\ ObjectOK /\ ClientOK /\ KernelOK /\ QueueOK /\ CbOK /\ SleepOK
BY DEF TypeOK, TimeOK, ObjectOK, ClientOK, KernelOK, QueueOK, CbOK, SleepOK

\* pos_time_get() is a number.
LEMMA TimeGetNat ==
    ASSUME system \in Systems, now \in Nat, calendar \in Nat
    PROVE  pos_time_get \in Nat
<1>1. uptime_ticks \in Nat /\ TimeRange \in Nat \ {0} /\ port \in PortNames /\ NsPerTick \in Nat \ {0}
  BY ClockFacts, UnitFacts
<1>2. uptime_ticks % TimeRange \in Nat
  BY <1>1
<1>3. clock_ns \in Nat
  BY DEF clock_ns
<1>4. clock_ns \div NsPerTick \in Nat
  BY <1>1, <1>3, DivBounds
<1>5. pos_time_t(uptime_ticks) \in Nat /\ pos_time_t(clock_ns \div NsPerTick) \in Nat
  BY <1>1, <1>4, TimeT
<1> QED BY <1>1, <1>2, <1>5 DEF pos_time_get, time_get_posix, time_get_apple, time_get_freertos,
                               time_get_zephyr, time_get_rt_thread, PortNames

\* A call, a command and a reading of the clock have their types.
LEMMA RecordFacts ==
    ASSUME TypeOK
    PROVE  /\ \A unit \in Units, d \in Durations : ACall(unit, d) \in CallRecord
           /\ uptime_ticks \in Nat /\ StopCommand \in CommandRecord
<1>1. now \in Nat /\ uptime_ticks \in Nat
  BY ClockFacts DEF TypeOK
<1>2. StopCommand \in CommandRecord
  BY <1>1, TimerAssumption DEF StopCommand, CommandRecord
<1>3. \A unit \in Units, d \in Durations : ACall(unit, d) \in CallRecord
  BY <1>1, DurationFacts DEF ACall, CallRecord, Units
<1> QED BY <1>1, <1>2, <1>3

\* Every step keeps the types of the object.
LEMMA ObjectStep == TypeOK /\ [Next]_vars => ObjectOK'
<1> SUFFICES ASSUME TypeOK, [Next]_vars PROVE ObjectOK'
  OBVIOUS
<1>1. ObjectOK /\ system \in Systems /\ now \in Nat /\ calendar \in Nat
  BY TypeParts DEF TimeOK
<1>2. port' = port /\ TimeRange \in Nat \ {0}
  BY StepFrame, SameUnits, TimeAssumption
<1>3. ASSUME UNCHANGED <<phase, handle, source, tm_active, tm_ticks>> PROVE ObjectOK'
  BY <1>1, <1>2, <1>3 DEF ObjectOK
<1>4. CASE \/ Tick \/ NewCalendar \/ SleepInterrupted \/ SleepAgain \/ SleepReturn
           \/ StartArm \/ StartSend \/ Command \/ Expire \/ UNCHANGED vars
  BY <1>3, <1>4 DEF Tick, NewCalendar, SleepInterrupted, SleepAgain, SleepReturn, StartArm,
                    StartSend, Command, Expire, vars, timerVars, kernelVars
<1>5. CASE \E unit \in Units, d \in Durations : Sleep(unit, d)
  BY <1>3, <1>5 DEF Sleep, timerVars, kernelVars
<1>6. ASSUME NEW unit \in Units, NEW d \in Durations, Start(unit, d) PROVE ObjectOK'
  <2> DEFINE n == StartTicks(unit, d)
  <2>1. /\ n \in Nat
        /\ port \notin {"posix", "apple"} => tm_ticks' = tm_ticks
        /\ port = "posix" => tm_ticks' = (pos_time_get + n) % TimeRange
        /\ port = "apple" => tm_ticks' = pos_time_get + n
        /\ UNCHANGED <<source, tm_active, handle>> /\ phase' \in {phase, "crashed"}
    BY <1>6, StartEffect
  <2> HIDE DEF n
  <2>2. pos_time_get \in Nat
    BY <1>1, TimeGetNat
  <2>3. tm_ticks' \in Nat /\ (port # "apple" => tm_ticks' < TimeRange)
    <3>1. pos_time_get + n \in Nat
      BY <2>1, <2>2
    <3>2. \A x \in Nat : x % TimeRange \in Nat /\ x % TimeRange < TimeRange
      BY <1>2
    <3> QED BY <1>1, <2>1, <3>1, <3>2 DEF ObjectOK
  <2> QED BY <1>1, <1>2, <2>1, <2>3 DEF ObjectOK
<1>7. CASE Construct
  <2>1. phase' \in {"alive", "aborted"} /\ handle' \in BOOLEAN
        /\ UNCHANGED <<source, tm_active, tm_ticks>>
    BY <1>7 DEF Construct, kernelVars
  <2> QED BY <1>1, <1>2, <2>1 DEF ObjectOK
<1>8. CASE StartActive \/ StopClear
  <2>1. UNCHANGED <<phase, handle, source, tm_ticks>> /\ tm_active' \in BOOLEAN
    BY <1>8 DEF StartActive, StopClear, kernelVars
  <2> QED BY <1>1, <1>2, <2>1 DEF ObjectOK
<1>9. CASE StartResume
  <2>1. /\ UNCHANGED <<handle, tm_active, tm_ticks>> /\ phase' \in {phase, "crashed"}
        /\ source' = [source EXCEPT !.suspended = FALSE]
    BY <1>9 DEF StartResume
  <2> QED BY <1>1, <1>2, <2>1 DEF ObjectOK
<1>10. CASE Stop
  BY <1>1, <1>2, <1>10, StopEffect DEF ObjectOK
<1>11. ASSUME NEW s \in Starts, CbCancel(s) \/ CbClear(s) \/ CbStop(s) \/ CbCall(s) PROVE ObjectOK'
  <2>1. /\ UNCHANGED <<phase, handle, tm_ticks>>
        /\ UNCHANGED tm_active \/ tm_active' = FALSE
        /\ UNCHANGED source \/ source' = [source EXCEPT !.cancelled = TRUE]
    BY <1>11 DEF CbCancel, CbClear, CbStop, CbCall, kernelVars
  <2> QED BY <1>1, <1>2, <2>1 DEF ObjectOK
<1> QED BY <1>4, <1>5, <1>6, <1>7, <1>8, <1>9, <1>10, <1>11, StepCases

\* Every step keeps the type of the client.
LEMMA ClientStepOK == TypeOK /\ [Next]_vars => ClientOK'
<1> SUFFICES ASSUME TypeOK, [Next]_vars PROVE ClientOK'
  OBVIOUS
<1>1. ClientOK /\ MaxCalls \in Nat
  BY TypeParts, TimerAssumption
<1>2. NoClient \in [at : {"idle", "active", "arm", "resume", "change", "reset", "clear"},
                    start : 0 .. MaxCalls, ticks : Nat]
  BY <1>1 DEF NoClient
<1>3. CASE UNCHANGED client
  BY <1>1, <1>3 DEF ClientOK
<1>4. CASE \/ Tick \/ NewCalendar \/ SleepInterrupted \/ SleepAgain \/ SleepReturn
           \/ Command \/ Expire \/ UNCHANGED vars
  BY <1>3, <1>4 DEF Tick, NewCalendar, SleepInterrupted, SleepAgain, SleepReturn,
                    Command, Expire, vars, timerVars
<1>5. CASE Construct \/ \E unit \in Units, d \in Durations : Sleep(unit, d)
  BY <1>3, <1>5 DEF Construct, Sleep, timerVars
<1>6. ASSUME NEW unit \in Units, NEW d \in Durations, Start(unit, d) PROVE ClientOK'
  <2> DEFINE n == StartTicks(unit, d)
  <2>1. /\ n \in Nat
        /\ \/ client' = [at |-> "active", start |-> calls + 1, ticks |-> n]
           \/ client' = [at |-> "arm", start |-> calls + 1, ticks |-> n]
           \/ client' = [at |-> "change", start |-> calls + 1, ticks |-> n]
           \/ client' = client
    BY <1>6, StartEffect
  <2>2. calls + 1 \in 0 .. MaxCalls
    BY <1>1, <1>6, CallFacts DEF Start, Starts
  <2> HIDE DEF n
  <2> QED BY <1>1, <2>1, <2>2 DEF ClientOK
<1>7. CASE StartActive \/ StartArm \/ StartResume \/ StartSend \/ StopClear
  <2>1. \/ client' = NoClient
        \/ \E l \in {"arm", "resume", "active", "reset"} : client' = [client EXCEPT !.at = l]
    BY <1>7 DEF StartActive, StartArm, StartResume, StartSend, StopClear, goto, return
  <2> QED BY <1>1, <1>2, <2>1 DEF ClientOK
<1>8. CASE Stop
  BY <1>1, <1>8, StopEffect DEF ClientOK
<1>9. CASE \E s \in Starts : CbCancel(s) \/ CbClear(s) \/ CbStop(s) \/ CbCall(s)
  BY <1>3, <1>9 DEF CbCancel, CbClear, CbStop, CbCall
<1> QED BY <1>4, <1>5, <1>6, <1>7, <1>8, <1>9, StepCases

\* The ways in which a step arms or disarms the kernel's timer.
LEMMA ArmStep ==
    ASSUME TypeOK, [Next]_vars
    PROVE  \/ UNCHANGED <<armed, expiry>>
           \/ armed' = 0 /\ expiry' = 0
           \/ \E unit \in Units, d \in Durations :
                 /\ Start(unit, d) /\ port = "zephyr" /\ armed' = calls + 1
                 /\ expiry' = kernel_ticks(StartTicks(unit, d))
           \/ /\ StartArm
              /\ \/ armed' = 0
                 \/ armed' = client.start /\ expiry' = ExpiryFrom(now, client.ticks)
              /\ expiry' = ExpiryFrom(now, client.ticks)
           \/ /\ Command /\ armed' = Head(cmdq).start
              /\ \/ /\ Head(cmdq).op = "change"
                    /\ expiry' = kernel_ticks(Head(cmdq).ticks)
                 \/ /\ Head(cmdq).op = "reset"
                    /\ expiry' = (Head(cmdq).sent + Head(cmdq).ticks) * NsPerTick
<1>1. CASE \/ Tick \/ NewCalendar \/ SleepInterrupted \/ SleepAgain \/ SleepReturn
           \/ StartActive \/ StartResume \/ StartSend \/ StopClear \/ UNCHANGED vars
  BY <1>1 DEF Tick, NewCalendar, SleepInterrupted, SleepAgain, SleepReturn, StartActive,
              StartResume, StartSend, StopClear, vars, timerVars, kernelVars
<1>2. CASE Construct \/ \E unit \in Units, d \in Durations : Sleep(unit, d)
  BY <1>2 DEF Construct, Sleep, timerVars, kernelVars
<1>3. ASSUME NEW unit \in Units, NEW d \in Durations, Start(unit, d)
      PROVE  \/ UNCHANGED <<armed, expiry>>
             \/ armed' = 0 /\ expiry' = 0
             \/ /\ port = "zephyr" /\ armed' = calls + 1
                /\ expiry' = kernel_ticks(StartTicks(unit, d))
  BY <1>3, StartEffect
<1>4. CASE Stop
  BY <1>4, StopEffect
<1>5. CASE Command
  BY <1>5, CommandEffect
<1>6. CASE Expire
  BY <1>6 DEF Expire, Disarm, Arm
<1>7. CASE \E s \in Starts : CbCancel(s) \/ CbClear(s) \/ CbStop(s) \/ CbCall(s)
  BY <1>7 DEF CbCancel, CbClear, CbStop, CbCall, Disarm, Arm, kernelVars
<1>8. CASE StartArm
  <2>1. client.ticks \in Nat /\ system \in Systems /\ now \in Nat
    BY DEF TypeOK
  <2>2. /\ port = "posix" => timespec_ms(client.ticks) = ExpiryFrom(now, client.ticks)
        /\ port = "apple" => now + client.ticks * NsPerTick = ExpiryFrom(now, client.ticks)
        /\ port = "rt-thread" => kernel_ticks(client.ticks) = ExpiryFrom(now, client.ticks)
    BY <2>1, ArmedNow
  <2> QED BY <1>8, <2>2 DEF StartArm, arm_posix, arm_apple, arm_rt_thread, Arm
<1>9. CASE \E unit \in Units, d \in Durations : Start(unit, d)
  BY <1>3, <1>9
<1> QED BY <1>1, <1>2, <1>4, <1>5, <1>6, <1>7, <1>8, <1>9, StepCases

\* Every step keeps the type of the kernel's timer.
LEMMA KernelStep == TypeOK /\ [Next]_vars => KernelOK'
<1> SUFFICES ASSUME TypeOK, [Next]_vars PROVE KernelOK'
  OBVIOUS
<1>1. /\ KernelOK /\ system \in Systems /\ now \in Nat /\ MaxCalls \in Nat
      /\ client.start \in 0 .. MaxCalls /\ client.ticks \in Nat
  BY TimerAssumption DEF TypeOK, KernelOK
<1>2. \A n \in Nat : kernel_ticks(n) \in Nat /\ ExpiryFrom(now, n) \in Nat
  BY <1>1, KernelTicks, ArmedNow
<1>3. \A sent \in Nat, n \in Nat : (sent + n) * NsPerTick \in Nat
  <2>1. NsPerTick \in Nat
    BY <1>1, UnitFacts
  <2> QED BY <2>1
<1>4. CASE UNCHANGED <<armed, expiry>> \/ (armed' = 0 /\ expiry' = 0)
  BY <1>1, <1>4 DEF KernelOK
<1>5. ASSUME NEW unit \in Units, NEW d \in Durations, Start(unit, d), armed' = calls + 1,
             expiry' = kernel_ticks(StartTicks(unit, d))
      PROVE  KernelOK'
  <2>1. StartTicks(unit, d) \in Nat
    BY <1>1, StartInTime
  <2>2. calls + 1 \in 0 .. MaxCalls
    BY <1>1, <1>5, CallFacts DEF Start, Starts
  <2> QED BY <1>2, <1>5, <2>1, <2>2 DEF KernelOK
<1>6. CASE /\ armed' = 0 \/ armed' = client.start
           /\ expiry' = ExpiryFrom(now, client.ticks)
  BY <1>1, <1>2, <1>6 DEF KernelOK
<1>7. CASE /\ Command /\ armed' = Head(cmdq).start
           /\ \/ expiry' = kernel_ticks(Head(cmdq).ticks)
              \/ expiry' = (Head(cmdq).sent + Head(cmdq).ticks) * NsPerTick
  <2>1. /\ Head(cmdq).start \in 0 .. MaxCalls
        /\ Head(cmdq).ticks \in Nat /\ Head(cmdq).sent \in Nat
    BY <1>7, CommandEffect DEF CommandRecord
  <2> QED BY <1>2, <1>3, <1>7, <2>1 DEF KernelOK
<1> QED BY <1>4, <1>5, <1>6, <1>7, ArmStep

\* The command that a start sends after its first.
StartCommand ==
    [op |-> client.at, start |-> client.start, ticks |-> client.ticks, sent |-> uptime_ticks]

\* The ways in which a step changes the queue of commands.
LEMMA QueueChange ==
    ASSUME TypeOK, [Next]_vars
    PROVE  \/ UNCHANGED cmdq
           \/ cmdq # << >> /\ cmdq' = Tail(cmdq)
           \/ cmdq' = Append(cmdq, StopCommand)
           \/ StartSend /\ cmdq' = Append(cmdq, StartCommand)
<1>1. CASE \/ Tick \/ NewCalendar \/ SleepInterrupted \/ SleepAgain \/ SleepReturn
           \/ StartActive \/ StartArm \/ StartResume \/ StopClear \/ Expire \/ UNCHANGED vars
  BY <1>1 DEF Tick, NewCalendar, SleepInterrupted, SleepAgain, SleepReturn, StartActive,
              StartArm, StartResume, StopClear, Expire, vars, timerVars, kernelVars
<1>2. CASE Construct \/ \E unit \in Units, d \in Durations : Sleep(unit, d)
  BY <1>2 DEF Construct, Sleep, timerVars, kernelVars
<1>3. ASSUME NEW unit \in Units, NEW d \in Durations, Start(unit, d)
      PROVE  UNCHANGED cmdq \/ cmdq' = Append(cmdq, StopCommand)
  BY <1>3, StartEffect
<1>4. CASE Stop
  BY <1>4, StopEffect
<1>5. CASE Command
  BY <1>5, CommandEffect
<1>6. CASE StartSend
  BY <1>6 DEF StartSend, Send, StartCommand
<1>7. CASE \E s \in Starts : CbCancel(s) \/ CbClear(s) \/ CbStop(s) \/ CbCall(s)
  BY <1>7 DEF CbCancel, CbClear, CbStop, CbCall, Send, StopCommand, kernelVars
<1>8. CASE \E unit \in Units, d \in Durations : Start(unit, d)
  BY <1>3, <1>8
<1> QED BY <1>1, <1>2, <1>4, <1>5, <1>6, <1>7, <1>8, StepCases

\* Every step keeps the type of the queue of commands.
LEMMA QueueStepOK == TypeOK /\ [Next]_vars => QueueOK'
<1> SUFFICES ASSUME TypeOK, [Next]_vars PROVE QueueOK'
  OBVIOUS
<1>1. cmdq \in Seq(CommandRecord)
  BY DEF TypeOK
<1>2. StopCommand \in CommandRecord /\ uptime_ticks \in Nat
  BY RecordFacts
<1>3. StartSend => StartCommand \in CommandRecord
  BY <1>2 DEF TypeOK, StartSend, StartCommand, CommandRecord
<1>4. \A c \in CommandRecord : Append(cmdq, c) \in Seq(CommandRecord)
  BY <1>1
<1>5. cmdq # << >> => Tail(cmdq) \in Seq(CommandRecord)
  BY <1>1
<1> QED BY <1>1, <1>2, <1>3, <1>4, <1>5, QueueChange DEF QueueOK

\* The ways in which a step changes the callbacks.
LEMMA CbChange ==
    ASSUME TypeOK, [Next]_vars
    PROVE  \/ UNCHANGED cb
           \/ Expire /\ armed \in Starts /\ cb' = [cb EXCEPT ![armed] = FirstOfCallback]
           \/ \E s \in Starts, l \in {"clear", "call", "done"} :
                 cb[s] \notin {"none", "done"} /\ cb' = [cb EXCEPT ![s] = l]
<1>1. CASE \/ Tick \/ NewCalendar \/ SleepInterrupted \/ SleepAgain \/ SleepReturn
           \/ StartActive \/ StartArm \/ StartResume \/ StopClear \/ UNCHANGED vars
  BY <1>1 DEF Tick, NewCalendar, SleepInterrupted, SleepAgain, SleepReturn, StartActive,
              StartArm, StartResume, StopClear, vars, timerVars
<1>2. CASE Construct \/ \E unit \in Units, d \in Durations : Sleep(unit, d)
  BY <1>2 DEF Construct, Sleep, timerVars
<1>3. CASE Stop \/ Command \/ \E unit \in Units, d \in Durations : Start(unit, d)
  BY <1>3, StopEffect, CommandEffect, StartEffect
<1>4. CASE StartSend
  BY <1>4 DEF StartSend
<1>5. CASE Expire
  BY <1>5, TimerAssumption DEF Expire, TypeOK, Starts
<1>6. CASE \E s \in Starts : CbCancel(s) \/ CbClear(s) \/ CbStop(s) \/ CbCall(s)
  BY <1>6 DEF CbCancel, CbClear, CbStop, CbCall, cb_goto
<1> QED BY <1>1, <1>2, <1>3, <1>4, <1>5, <1>6, StepCases

\* The ways in which a step changes the calls that are remembered and what is due.
LEMMA AskedChange ==
    ASSUME TypeOK, [Next]_vars
    PROVE  \/ UNCHANGED asked /\ due' \in {due, 0}
           \/ \E unit \in Units, d \in Durations :
                 /\ Start(unit, d) /\ due' = calls + 1
                 /\ asked' = [asked EXCEPT ![calls + 1] = ACall(unit, d)]
<1>1. CASE \/ Tick \/ NewCalendar \/ SleepInterrupted \/ SleepAgain \/ SleepReturn
           \/ StartActive \/ StartArm \/ StartResume \/ StopClear \/ UNCHANGED vars
  BY <1>1 DEF Tick, NewCalendar, SleepInterrupted, SleepAgain, SleepReturn, StartActive,
              StartArm, StartResume, StopClear, vars, timerVars
<1>2. CASE Construct \/ \E unit \in Units, d \in Durations : Sleep(unit, d)
  BY <1>2 DEF Construct, Sleep, timerVars
<1>3. CASE Stop \/ Command \/ StartSend \/ Expire
  BY <1>3, StopEffect, CommandEffect DEF StartSend, Expire
<1>4. CASE \E s \in Starts : CbCancel(s) \/ CbClear(s) \/ CbStop(s) \/ CbCall(s)
  BY <1>4 DEF CbCancel, CbClear, CbStop, CbCall
<1>5. CASE \E unit \in Units, d \in Durations : Start(unit, d)
  BY <1>5 DEF Start
<1> QED BY <1>1, <1>2, <1>3, <1>4, <1>5, StepCases

\* Every step keeps the types of the callbacks and of what is remembered.
LEMMA CbStepOK == TypeOK /\ [Next]_vars => CbOK'
<1> SUFFICES ASSUME TypeOK, [Next]_vars PROVE CbOK'
  OBVIOUS
<1>1. CbOK /\ MaxCalls \in Nat
  BY TypeParts, TimerAssumption
<1>2. FirstOfCallback \in {"none", "cancel", "clear", "stop", "call", "done"}
  BY DEF FirstOfCallback
<1>3. cb' \in [Starts -> {"none", "cancel", "clear", "stop", "call", "done"}]
  BY <1>1, <1>2, CbChange DEF CbOK
<1>4. CASE UNCHANGED asked /\ due' \in {due, 0}
  BY <1>1, <1>3, <1>4 DEF CbOK
<1>5. ASSUME NEW unit \in Units, NEW d \in Durations, Start(unit, d), due' = calls + 1,
             asked' = [asked EXCEPT ![calls + 1] = ACall(unit, d)]
      PROVE  CbOK'
  <2>1. calls + 1 \in Starts /\ ACall(unit, d) \in CallRecord
    BY <1>5, CallFacts, RecordFacts DEF Start
  <2>2. calls + 1 \in 0 .. MaxCalls
    BY <1>1, <2>1 DEF Starts
  <2> QED BY <1>1, <1>3, <1>5, <2>1, <2>2 DEF CbOK
<1> QED BY <1>4, <1>5, AskedChange

\* Every step keeps the types of the sleep.
LEMMA SleepStepOK == TypeOK /\ [Next]_vars => SleepOK'
<1> SUFFICES ASSUME TypeOK, [Next]_vars PROVE SleepOK'
  OBVIOUS
<1>1. SleepOK /\ now \in Nat /\ system \in Systems /\ MaxSignals \in Nat
  BY TypeParts, TimerAssumption DEF TimeOK
<1>2. CASE UNCHANGED sleepVars
  BY <1>1, <1>2 DEF SleepOK, sleepVars
<1>3. CASE \/ Tick \/ NewCalendar \/ StartActive \/ StartArm \/ StartResume \/ StartSend
           \/ StopClear \/ Command \/ Expire \/ UNCHANGED vars
  BY <1>2, <1>3 DEF Tick, NewCalendar, StartActive, StartArm, StartResume, StartSend,
                    StopClear, Command, Expire, vars
<1>4. CASE \/ Construct \/ Stop \/ \E unit \in Units, d \in Durations : Start(unit, d)
           \/ \E s \in Starts : CbCancel(s) \/ CbClear(s) \/ CbStop(s) \/ CbCall(s)
  BY <1>2, <1>4 DEF Construct, Stop, Start, CbCancel, CbClear, CbStop, CbCall
<1>5. ASSUME NEW unit \in Units, NEW d \in Durations, Sleep(unit, d) PROVE SleepOK'
  <2>1. SleepEnd(unit, d) \in Nat /\ ACall(unit, d) \in CallRecord
    BY <1>1, SleepInTime, RecordFacts DEF InTime
  <2>2. sleep' = SleepEnd(unit, d) /\ pc' = "sleeping" /\ UNCHANGED signals
        /\ slept' = ACall(unit, d)
    BY <1>5 DEF Sleep, SleepEnd
  <2> QED BY <1>1, <2>1, <2>2 DEF SleepOK
<1>6. CASE SleepInterrupted
  <2>1. signals \in Nat /\ signals < MaxSignals /\ signals' = signals + 1
        /\ sleep \in Nat /\ now < sleep /\ sleep' = sleep - now
        /\ pc' = "interrupted" /\ UNCHANGED slept
    BY <1>1, <1>6 DEF SleepInterrupted, SleepOK
  <2>2. signals' \in 0 .. MaxSignals /\ sleep' \in Nat
    BY <1>1, <2>1
  <2> QED BY <1>1, <2>1, <2>2 DEF SleepOK
<1>7. CASE SleepAgain
  BY <1>1, <1>7 DEF SleepAgain, SleepOK
<1>8. CASE SleepReturn
  <2>1. NoCall \in CallRecord
    BY DEF NoCall, CallRecord
  <2> QED BY <1>1, <1>8, <2>1 DEF SleepReturn, SleepOK
<1> QED BY <1>3, <1>4, <1>5, <1>6, <1>7, <1>8, StepCases

\* Every step keeps TypeOK.
LEMMA TypeStep == TypeOK /\ [Next]_vars => TypeOK'
<1> SUFFICES ASSUME TypeOK, [Next]_vars PROVE TypeOK'
  OBVIOUS
<1>1. TimeOK'
  BY StepFrame DEF TypeOK, TimeOK
<1>2. ObjectOK' /\ ClientOK' /\ KernelOK' /\ QueueOK' /\ CbOK' /\ SleepOK'
  BY ObjectStep, ClientStepOK, KernelStep, QueueStepOK, CbStepOK, SleepStepOK
<1> QED BY <1>1, <1>2, TypeParts, PTL

-----------------------------------------------------------------------------
(***************************************************************************)
(* The pledges of the starts are kept.                                     *)
(***************************************************************************)

\* The first moment for a callback is a moment.
LEMMA FirstNat ==
    ASSUME TypeOK, NEW s \in Starts
    PROVE  First[s] \in Nat /\ asked[s].at \in Nat
<1>1. /\ system \in Systems /\ asked[s].at \in Nat /\ asked[s].d \in Nat
      /\ asked[s].unit \in {"ms", "ticks"}
  BY DEF TypeOK, CallRecord
<1>2. NsPerMs \in Nat /\ NsPerTick \in Nat \ {0}
  BY <1>1, UnitFacts
<1>3. Asked(asked[s].unit, asked[s].d) \in Nat
  BY <1>1, <1>2 DEF Asked
<1>4. TimerSlack(asked[s].unit) \in Nat
  BY <1>1, <1>2 DEF TimerSlack
<1>5. ExpiryAsked(asked[s]) \in Nat
  BY <1>1, <1>3, <1>4 DEF ExpiryAsked, Earliest
<1> QED BY <1>1, <1>5 DEF First, EarliestExpiry

\* Time does not touch what a start that has been made asked for.
LEMMA PledgeFrame ==
    ASSUME TypeOK, [Next]_vars, NEW s \in 1 .. calls
    PROVE  s \in Starts /\ s \in 1 .. calls' /\ First'[s] = First[s] /\ Pledge'[s] = Pledge[s]
           /\ asked'[s] = asked[s]
<1>1. /\ UNCHANGED system /\ s \in Starts /\ asked'[s] = asked[s]
      /\ calls \in Nat /\ calls' \in Nat /\ calls <= calls'
  BY StepFrame DEF TypeOK
<1>2. port' = port /\ NsPerTick' = NsPerTick /\ POS_TICKS_PER_SEC' = POS_TICKS_PER_SEC
  BY <1>1, SameUnits DEF POS_TICKS_PER_SEC
<1>3. First'[s] = First[s]
  BY <1>1, <1>2 DEF First, EarliestExpiry, ExpiryAsked, Wraps, TimerSlack, Asked
<1>4. Pledge'[s] = Pledge[s]
  BY <1>1, <1>2, <1>3 DEF Pledge, ExpiryFrom
<1> QED BY <1>1, <1>3, <1>4

\* A timer that is armed for a start, at any time after its call and with the ticks that
\* it may be armed with, does not expire too early.
LEMMA PledgeKept ==
    ASSUME TypeOK, AskedInv, NEW s \in Starts, NEW n \in Pledge[s]
    PROVE  /\ n \in Nat
           /\ First[s] <= now \/ First[s] <= ExpiryFrom(now, n)
           /\ \A sent \in Nat :
                 asked[s].at \div NsPerTick <= sent /\ port \notin {"posix", "apple"} =>
                    First[s] <= now \/ First[s] <= (sent + n) * NsPerTick
<1> DEFINE at == asked[s].at   f == First[s]
<1>1. system \in Systems /\ now \in Nat /\ f \in Nat /\ at \in Nat /\ at <= now
  BY FirstNat DEF TypeOK, AskedInv
<1>2. n \in Nat /\ (f <= at \/ f <= ExpiryFrom(at, n))
  BY DEF Pledge
<1> HIDE DEF at, f
<1>3. /\ ExpiryFrom(at, n) \in Nat /\ ExpiryFrom(now, n) \in Nat
      /\ ExpiryFrom(at, n) <= ExpiryFrom(now, n)
      /\ \A sent \in Nat : at \div NsPerTick <= sent =>
            /\ (sent + n) * NsPerTick \in Nat
            /\ port \notin {"posix", "apple"} => ExpiryFrom(at, n) <= (sent + n) * NsPerTick
  BY <1>1, <1>2, ExpiryGrows
<1>4. ASSUME NEW e \in Nat, ExpiryFrom(at, n) <= e PROVE f <= now \/ f <= e
  BY <1>1, <1>2, <1>3, <1>4
<1>5. \A sent \in Nat : at \div NsPerTick <= sent /\ port \notin {"posix", "apple"} =>
         f <= now \/ f <= (sent + n) * NsPerTick
  <2> SUFFICES ASSUME NEW sent \in Nat, at \div NsPerTick <= sent, port \notin {"posix", "apple"}
               PROVE  f <= now \/ f <= (sent + n) * NsPerTick
    OBVIOUS
  <2>1. (sent + n) * NsPerTick \in Nat /\ ExpiryFrom(at, n) <= (sent + n) * NsPerTick
    BY <1>3
  <2> QED BY <1>4, <2>1
<1> QED BY <1>2, <1>3, <1>4, <1>5 DEF at, f

\* A start makes a pledge that it keeps.
LEMMA StartPledge ==
    ASSUME TypeOK, NEW unit \in Units, NEW d \in Durations, Start(unit, d)
    PROVE  /\ StartTicks(unit, d) \in Pledge'[calls + 1]
           /\ First'[calls + 1] = EarliestExpiry(ACall(unit, d))
           /\ asked'[calls + 1].at = now
<1> DEFINE n == StartTicks(unit, d)   s == calls + 1
<1>1. system \in Systems /\ now \in Nat /\ s \in Starts /\ asked \in [Starts -> CallRecord]
  BY CallFacts DEF TypeOK, Start
<1>2. /\ UNCHANGED <<system, now>> /\ asked' = [asked EXCEPT ![s] = ACall(unit, d)]
  BY StartEffect
<1>3. n \in Nat /\ InTime(ExpiryFrom(now, n), EarliestExpiry(ACall(unit, d)))
  BY <1>1, StartInTime
<1>4. asked'[s] = ACall(unit, d) /\ ACall(unit, d).at = now
  BY <1>1, <1>2 DEF ACall
<1> HIDE DEF n, s
<1>5. port' = port /\ NsPerTick' = NsPerTick /\ POS_TICKS_PER_SEC' = POS_TICKS_PER_SEC
  BY <1>2, SameUnits DEF POS_TICKS_PER_SEC
<1>6. First'[s] = EarliestExpiry(ACall(unit, d))
  BY <1>1, <1>4, <1>5 DEF First, EarliestExpiry, ExpiryAsked, Wraps, TimerSlack, Asked
<1>7. First'[s] <= now \/ First'[s] <= ExpiryFrom(now, n)
  BY <1>3, <1>6 DEF InTime
<1>8. n \in Pledge'[s]
  BY <1>1, <1>3, <1>4, <1>5, <1>7 DEF Pledge, ExpiryFrom
<1> QED BY <1>4, <1>6, <1>8 DEF n, s

\* No start was called in the future.
LEMMA AskedStep == TypeOK /\ AskedInv /\ [Next]_vars => AskedInv'
<1> SUFFICES ASSUME TypeOK, AskedInv, [Next]_vars, NEW s \in Starts PROVE asked'[s].at <= now'
  BY DEF AskedInv
<1>1. now \in Nat /\ now' \in Nat /\ now <= now' /\ asked[s].at \in Nat /\ asked[s].at <= now
  BY StepFrame, FirstNat DEF TypeOK, AskedInv
<1>2. CASE UNCHANGED asked
  BY <1>1, <1>2
<1>3. ASSUME NEW unit \in Units, NEW d \in Durations,
             asked' = [asked EXCEPT ![calls + 1] = ACall(unit, d)]
      PROVE  asked'[s].at <= now'
  <2>1. asked'[s] = asked[s] \/ asked'[s].at = now
    BY <1>3 DEF TypeOK, ACall
  <2> QED BY <1>1, <2>1
<1> QED BY <1>2, <1>3, AskedChange

\* A call that goes on keeps the pledge of its start.
LEMMA ClientInvStep == TypeOK /\ ClientInv /\ [Next]_vars => ClientInv'
<1> SUFFICES ASSUME TypeOK, ClientInv, [Next]_vars PROVE ClientInv'
  OBVIOUS
<1>1. port' = port
  BY StepFrame, SameUnits
<1>2. ASSUME client'.start = client.start, client'.ticks = client.ticks,
             client'.at \in InStart => client.at \in InStart,
             client'.at \in {"change", "reset"} => client.at \in {"change", "reset"}
      PROVE  ClientInv'
  <2>1. client'.at \in {"change", "reset"} => port' = "freertos"
    BY <1>1, <1>2 DEF ClientInv
  <2>2. ASSUME client'.at \in InStart
        PROVE  client'.start \in 1 .. calls' /\ client'.ticks \in Pledge'[client'.start]
    BY <1>2, <2>2, PledgeFrame DEF ClientInv
  <2> QED BY <2>1, <2>2 DEF ClientInv, InStart
<1>3. CASE client' = NoClient
  BY <1>3 DEF NoClient, ClientInv, InStart
<1>4. CASE \/ Tick \/ NewCalendar \/ SleepInterrupted \/ SleepAgain \/ SleepReturn
           \/ Command \/ Expire \/ UNCHANGED vars
  BY <1>2, <1>4 DEF Tick, NewCalendar, SleepInterrupted, SleepAgain, SleepReturn,
                    Command, Expire, vars, timerVars
<1>5. CASE Construct \/ \E unit \in Units, d \in Durations : Sleep(unit, d)
  BY <1>2, <1>5 DEF Construct, Sleep, timerVars
<1>6. ASSUME NEW unit \in Units, NEW d \in Durations, Start(unit, d) PROVE ClientInv'
  <2> DEFINE n == StartTicks(unit, d)
  <2>1. \/ client' = client
        \/ /\ client'.start = calls + 1 /\ client'.ticks = n /\ client'.at # "reset"
           /\ client'.at = "change" => port = "freertos"
    BY <1>6, StartEffect
  <2>2. n \in Pledge'[calls + 1] /\ calls + 1 \in 1 .. calls'
    <3>1. calls \in Nat /\ calls' = calls + 1
      BY <1>6, CallFacts DEF Start, TypeOK
    <3> QED BY <1>6, <3>1, StartPledge
  <2>3. client.at = "idle"
    BY <1>6 DEF Start, Call
  <2> HIDE DEF n
  <2>4. CASE client' = client
    BY <1>2, <2>4
  <2>5. CASE client' # client
    <3>1. client'.at \in {"change", "reset"} => port' = "freertos"
      BY <1>1, <2>1, <2>5
    <3> QED BY <2>1, <2>2, <2>5, <3>1 DEF ClientInv
  <2> QED BY <2>4, <2>5
<1>7. CASE StartActive \/ StartArm \/ StartResume \/ StartSend \/ StopClear
  <2>1. \/ client' = NoClient
        \/ client' = [client EXCEPT !.at = "arm"] /\ client.at \in InStart
        \/ client' = [client EXCEPT !.at = "active"] /\ client.at \in InStart
        \/ client' = [client EXCEPT !.at = "resume"] /\ client.at \in InStart
        \/ client' = [client EXCEPT !.at = "reset"] /\ client.at = "change"
    BY <1>7 DEF StartActive, StartArm, StartResume, StartSend, StopClear, goto, return, InStart
  <2>2. ASSUME NEW l \in {"arm", "active", "resume", "reset"}, client.at \in InStart,
               client' = [client EXCEPT !.at = l], l = "reset" => client.at = "change"
        PROVE  ClientInv'
    <3>1. client'.at = l /\ client'.start = client.start /\ client'.ticks = client.ticks
      BY <2>2 DEF TypeOK
    <3> QED BY <1>2, <2>2, <3>1
  <2> QED BY <1>3, <2>1, <2>2 DEF InStart
<1>8. CASE Stop
  <2>1. client' = [client EXCEPT !.at = "clear"] \/ UNCHANGED client
    BY <1>8, StopEffect
  <2>2. client' = [client EXCEPT !.at = "clear"] => client'.at = "clear"
    BY DEF TypeOK
  <2> QED BY <1>2, <2>1, <2>2 DEF ClientInv, InStart
<1>9. CASE \E s \in Starts : CbCancel(s) \/ CbClear(s) \/ CbStop(s) \/ CbCall(s)
  BY <1>2, <1>9 DEF CbCancel, CbClear, CbStop, CbCall
<1> QED BY <1>4, <1>5, <1>6, <1>7, <1>8, <1>9, StepCases

\* Commands that were in order stay so.
LEMMA OrdersGrow == TypeOK /\ [Next]_vars => Orders \subseteq Orders'
<1> SUFFICES ASSUME TypeOK, [Next]_vars, NEW c \in Orders PROVE c \in Orders'
  OBVIOUS
<1>1. port' = port /\ NsPerTick' = NsPerTick /\ c \in CommandRecord
  BY StepFrame, SameUnits DEF Orders
<1>2. c.op # "stop" => /\ port' = "freertos"
                       /\ c.start \in 1 .. calls'
                       /\ c.ticks \in Pledge'[c.start]
                       /\ asked'[c.start].at \div NsPerTick' <= c.sent
  BY <1>1, PledgeFrame DEF Orders
<1> QED BY <1>1, <1>2 DEF Orders

\* The commands in the queue keep the pledges of their starts.
LEMMA QueueInvStep ==
    TypeOK /\ AskedInv /\ ClientInv /\ QueueInv /\ [Next]_vars => QueueInv'
<1> SUFFICES ASSUME TypeOK, AskedInv, ClientInv, QueueInv, [Next]_vars PROVE QueueInv'
  OBVIOUS
<1>1. cmdq \in Seq(Orders')
  <2>1. cmdq \in Seq(Orders) /\ Orders \subseteq Orders'
    BY OrdersGrow DEF QueueInv
  <2> QED BY <2>1
<1>2. StopCommand \in Orders'
  BY RecordFacts DEF StopCommand, Orders
<1>3. StartSend => StartCommand \in Orders'
  <2> SUFFICES ASSUME StartSend PROVE StartCommand \in Orders'
    OBVIOUS
  <2>1. client.at \in {"change", "reset"} /\ system \in Systems /\ now \in Nat
    BY DEF StartSend, TypeOK
  <2>2. /\ port = "freertos" /\ client.start \in 1 .. calls
        /\ client.ticks \in Pledge[client.start]
    BY <2>1 DEF ClientInv, InStart
  <2>3. client.start \in Starts
    BY <2>2, PledgeFrame
  <2>4. asked[client.start].at \div NsPerTick <= uptime_ticks
    <3>1. asked[client.start].at \in Nat /\ asked[client.start].at <= now
      BY <2>3, FirstNat DEF AskedInv
    <3>2. 0 \in Nat
      OBVIOUS
    <3>3. asked[client.start].at \div NsPerTick <= now \div NsPerTick
      BY <2>1, <3>1, <3>2, ExpiryGrows
    <3> QED BY <3>3 DEF uptime_ticks
  <2>5. StartCommand \in CommandRecord
    BY <2>1, RecordFacts DEF TypeOK, StartCommand, CommandRecord
  <2>6. StartCommand \in Orders
    BY <2>2, <2>4, <2>5 DEF StartCommand, Orders
  <2> QED BY <2>6, OrdersGrow
<1>4. \A c \in Orders' : Append(cmdq, c) \in Seq(Orders')
  BY <1>1
<1>5. cmdq # << >> => Tail(cmdq) \in Seq(Orders')
  BY <1>1
<1> QED BY <1>1, <1>2, <1>3, <1>4, <1>5, QueueChange DEF QueueInv

\* A multiple of a number is divided by it without a rest.
LEMMA Multiple ==
    ASSUME NEW k \in Nat \ {0}, NEW q \in Nat
    PROVE  q * k = ((q * k) \div k) * k
<1>1. q * k \in Nat /\ q * k <= q * k /\ q * k < q * k + k
  OBVIOUS
<1>2. (q * k) \div k = q
  BY <1>1, DivUnique
<1> QED BY <1>2

\* The expiry of a timer in the terms of the kernels is at the beginning of a tick.
LEMMA KernelMultiple ==
    ASSUME TypeOK
    PROVE  /\ \A n \in Nat : kernel_ticks(n) = (kernel_ticks(n) \div NsPerTick) * NsPerTick
           /\ \A m \in Nat, n \in Nat :
                 (m + n) * NsPerTick = (((m + n) * NsPerTick) \div NsPerTick) * NsPerTick
<1>1. NsPerTick \in Nat \ {0} /\ uptime_ticks \in Nat
  BY UnitFacts, ClockFacts DEF TypeOK
<1>2. \A m \in Nat, n \in Nat :
         (m + n) * NsPerTick = (((m + n) * NsPerTick) \div NsPerTick) * NsPerTick
  <2> SUFFICES ASSUME NEW m \in Nat, NEW n \in Nat
               PROVE  (m + n) * NsPerTick = (((m + n) * NsPerTick) \div NsPerTick) * NsPerTick
    OBVIOUS
  <2>1. m + n \in Nat
    OBVIOUS
  <2> QED BY <1>1, <2>1, Multiple
<1> QED BY <1>1, <1>2 DEF kernel_ticks

\* The kernel's timer does not expire too early for its start.
LEMMA ArmedStep == TypeOK /\ TimerInv /\ [Next]_vars => ArmedInv'
<1> SUFFICES ASSUME TypeOK, TimerInv, [Next]_vars PROVE ArmedInv'
  OBVIOUS
<1>0. port' = port /\ NsPerTick' = NsPerTick
  BY StepFrame, SameUnits
<1> SUFFICES ASSUME armed' # 0
             PROVE  /\ armed' \in 1 .. calls'
                    /\ First'[armed'] <= now' \/ First'[armed'] <= expiry'
                    /\ port \in {"freertos", "zephyr", "rt-thread"} =>
                          expiry' = (expiry' \div NsPerTick) * NsPerTick
  BY <1>0 DEF ArmedInv
<1>1. /\ system \in Systems /\ now \in Nat /\ now' \in Nat /\ now <= now' /\ expiry \in Nat
      /\ AskedInv /\ ClientInv /\ QueueInv /\ ArmedInv
  BY StepFrame DEF TypeOK, TimerInv
<1>2. CASE UNCHANGED <<armed, expiry>>
  <2>1. /\ armed \in 1 .. calls
        /\ First[armed] <= now \/ First[armed] <= expiry
        /\ port \in {"freertos", "zephyr", "rt-thread"} =>
              expiry = (expiry \div NsPerTick) * NsPerTick
    BY <1>1, <1>2 DEF ArmedInv
  <2>2. armed \in 1 .. calls' /\ armed \in Starts /\ First'[armed] = First[armed]
    BY <2>1, PledgeFrame
  <2>3. First[armed] \in Nat
    BY <2>2, FirstNat
  <2>4. First[armed] <= now' \/ First[armed] <= expiry
    BY <1>1, <2>1, <2>3
  <2> QED BY <1>2, <2>1, <2>2, <2>4
<1>3. ASSUME NEW unit \in Units, NEW d \in Durations, Start(unit, d), port = "zephyr",
             armed' = calls + 1, expiry' = kernel_ticks(StartTicks(unit, d))
      PROVE  /\ armed' \in 1 .. calls'
             /\ First'[armed'] <= now' \/ First'[armed'] <= expiry'
             /\ expiry' = (expiry' \div NsPerTick) * NsPerTick
  <2> DEFINE n == StartTicks(unit, d)
  <2>1. n \in Nat /\ InTime(ExpiryFrom(now, n), EarliestExpiry(ACall(unit, d)))
    BY <1>1, StartInTime
  <2>2. First'[calls + 1] = EarliestExpiry(ACall(unit, d)) /\ now' = now
    BY <1>3, StartPledge, StartEffect
  <2>3. expiry' = ExpiryFrom(now, n)
    BY <1>1, <1>3, <2>1, ArmedNow
  <2>4. calls + 1 \in 1 .. calls'
    <3>1. calls \in Nat /\ calls' = calls + 1
      BY <1>3, CallFacts DEF Start, TypeOK
    <3> QED BY <3>1
  <2>5. kernel_ticks(n) = (kernel_ticks(n) \div NsPerTick) * NsPerTick
    BY <2>1, KernelMultiple
  <2> HIDE DEF n
  <2>6. expiry' = kernel_ticks(n)
    BY <1>3 DEF n
  <2> QED BY <1>3, <2>1, <2>2, <2>3, <2>4, <2>5, <2>6 DEF InTime
<1>4. CASE /\ StartArm /\ armed' = client.start
           /\ expiry' = ExpiryFrom(now, client.ticks)
  <2>1. client.at \in InStart /\ now' = now
    BY <1>4 DEF StartArm, InStart, timeVars
  <2>2. client.start \in 1 .. calls /\ client.ticks \in Pledge[client.start]
    BY <1>1, <2>1 DEF ClientInv
  <2>3. /\ client.start \in Starts /\ client.start \in 1 .. calls'
        /\ First'[client.start] = First[client.start]
    BY <2>2, PledgeFrame
  <2>4. /\ client.ticks \in Nat
        /\ First[client.start] <= now \/ First[client.start] <= ExpiryFrom(now, client.ticks)
    BY <1>1, <2>2, <2>3, PledgeKept
  <2>5. port \in {"freertos", "zephyr", "rt-thread"} =>
           expiry' = (expiry' \div NsPerTick) * NsPerTick
    BY <1>1, <1>4, <2>4, ArmedNow, KernelMultiple
  <2> QED BY <1>4, <2>1, <2>3, <2>4, <2>5
<1>5. CASE /\ Command /\ armed' = Head(cmdq).start
           /\ \/ /\ Head(cmdq).op = "change"
                 /\ expiry' = kernel_ticks(Head(cmdq).ticks)
              \/ /\ Head(cmdq).op = "reset"
                 /\ expiry' = (Head(cmdq).sent + Head(cmdq).ticks) * NsPerTick
  <2> DEFINE c == Head(cmdq)
  <2>1. cmdq # << >> /\ cmdq \in Seq(Orders) /\ now' = now
    BY <1>1, <1>5, CommandEffect DEF QueueInv
  <2>2. c \in Orders
    BY <2>1
  <2>3. armed' = c.start /\ c.op # "stop"
        /\ (expiry' = kernel_ticks(c.ticks) \/ expiry' = (c.sent + c.ticks) * NsPerTick)
    BY <1>5
  <2> HIDE DEF c
  <2>4. /\ c.sent \in Nat /\ port = "freertos" /\ c.start \in 1 .. calls
        /\ c.ticks \in Pledge[c.start] /\ asked[c.start].at \div NsPerTick <= c.sent
    BY <2>2, <2>3 DEF Orders, CommandRecord
  <2>5. c.start \in Starts /\ c.start \in 1 .. calls' /\ First'[c.start] = First[c.start]
    BY <2>4, PledgeFrame
  <2>6. /\ c.ticks \in Nat
        /\ First[c.start] <= now \/ First[c.start] <= ExpiryFrom(now, c.ticks)
        /\ First[c.start] <= now \/ First[c.start] <= (c.sent + c.ticks) * NsPerTick
    BY <1>1, <2>4, <2>5, PledgeKept
  <2>7. kernel_ticks(c.ticks) = ExpiryFrom(now, c.ticks)
    BY <1>1, <2>4, <2>6, ArmedNow
  <2>8. First[c.start] <= now \/ First[c.start] <= expiry'
    BY <2>3, <2>6, <2>7
  <2>9. expiry' = (expiry' \div NsPerTick) * NsPerTick
    BY <2>3, <2>4, <2>6, KernelMultiple
  <2> QED BY <2>1, <2>3, <2>5, <2>8, <2>9
<1> QED BY <1>2, <1>3, <1>4, <1>5, ArmStep

\* A callback is under way only if it is not too early.
LEMMA CbInvStep == TypeOK /\ TimerInv /\ [Next]_vars => CbInv'
<1> SUFFICES ASSUME TypeOK, TimerInv, [Next]_vars, NEW s \in Starts, cb'[s] # "none"
             PROVE  s <= calls' /\ (cb'[s] # "done" => First'[s] <= now')
  BY DEF CbInv
<1>1. /\ now \in Nat /\ now' \in Nat /\ now <= now' /\ calls \in Nat /\ calls' \in Nat
      /\ calls <= calls' /\ expiry \in Nat /\ s \in Nat \ {0} /\ First[s] \in Nat
      /\ CbInv /\ ArmedInv /\ cb \in [Starts -> {"none", "cancel", "clear", "stop", "call", "done"}]
  BY StepFrame, FirstNat, TimerAssumption DEF TypeOK, TimerInv, Starts
<1>2. ASSUME s <= calls PROVE s <= calls' /\ First'[s] = First[s]
  <2>1. s \in 1 .. calls
    BY <1>1, <1>2
  <2> QED BY <1>1, <1>2, <2>1, PledgeFrame
<1>3. ASSUME cb[s] # "none", cb'[s] # "done" => cb[s] # "done"
      PROVE  s <= calls' /\ (cb'[s] # "done" => First'[s] <= now')
  <2>1. s <= calls /\ (cb'[s] # "done" => First[s] <= now)
    BY <1>1, <1>3 DEF CbInv
  <2> QED BY <1>1, <1>2, <2>1
<1>4. CASE UNCHANGED cb
  BY <1>3, <1>4
<1>5. CASE Expire /\ armed \in Starts /\ cb' = [cb EXCEPT ![armed] = FirstOfCallback]
  <2>1. CASE s # armed
    BY <1>1, <1>3, <1>5, <2>1
  <2>2. CASE s = armed
    <3>1. armed # 0 /\ expiry <= now /\ now' = now
      BY <1>1, <1>5 DEF Expire, timeVars
    <3>2. s \in 1 .. calls /\ (First[s] <= now \/ First[s] <= expiry)
      BY <1>1, <2>2, <3>1 DEF ArmedInv
    <3> QED BY <1>1, <1>2, <3>1, <3>2
  <2> QED BY <2>1, <2>2
<1>6. ASSUME NEW r \in Starts, NEW l \in {"clear", "call", "done"},
             cb[r] \notin {"none", "done"}, cb' = [cb EXCEPT ![r] = l]
      PROVE  s <= calls' /\ (cb'[s] # "done" => First'[s] <= now')
  BY <1>1, <1>3, <1>6
<1> QED BY <1>4, <1>5, <1>6, CbChange

\* Every step keeps TimerInv.
LEMMA TimerStep == TypeOK /\ TimerInv /\ [Next]_vars => TimerInv'
<1> SUFFICES ASSUME TypeOK, TimerInv, [Next]_vars PROVE TimerInv'
  OBVIOUS
<1>1. AskedInv /\ ClientInv /\ QueueInv
  BY DEF TimerInv
<1>2. AskedInv' /\ ClientInv' /\ QueueInv' /\ ArmedInv' /\ CbInv'
  BY <1>1, AskedStep, ClientInvStep, QueueInvStep, ArmedStep, CbInvStep
<1> QED BY <1>2 DEF TimerInv

\* What remains of a sleep may be counted from a later time.
LEMMA CountedLater ==
    ASSUME NEW a \in Nat, NEW t \in Nat, NEW u \in Nat, NEW r \in Nat, t <= u,
           a <= t \/ a <= t + r
    PROVE  a <= u \/ a <= u + r
OBVIOUS

\* The first moment at which a sleep may end is a moment.
LEMMA AwakeNat ==
    ASSUME TypeOK
    PROVE  Awake \in Nat
<1>1. slept.at \in Nat /\ slept.d \in Nat /\ slept.unit \in {"ms", "ticks"}
  BY DEF TypeOK, CallRecord
<1>2. NsPerMs \in Nat \ {0} /\ NsPerTick \in Nat \ {0} /\ port \in PortNames
  BY UnitFacts DEF TypeOK
<1>3. Asked(slept.unit, slept.d) \in Nat
  BY <1>1, <1>2 DEF Asked
<1>4. SleepSlack(slept.unit) \in Nat
  BY <1>1, <1>2 DEF SleepSlack, PortNames
<1> QED BY <1>1, <1>3, <1>4 DEF Awake, EarliestReturn, Earliest

\* The steps that concern a sleep.
LEMMA SleepSteps ==
    ASSUME [Next]_vars
    PROVE  \/ UNCHANGED <<pc, sleep, slept>>
           \/ \E unit \in Units, d \in Durations : Sleep(unit, d) /\ pc' = "sleeping"
           \/ SleepInterrupted /\ pc' = "interrupted"
           \/ SleepAgain /\ pc' = "sleeping"
           \/ SleepReturn
<1>1. CASE \/ Tick \/ NewCalendar \/ StartActive \/ StartArm \/ StartResume \/ StartSend
           \/ StopClear \/ Command \/ Expire \/ UNCHANGED vars
  BY <1>1 DEF Tick, NewCalendar, StartActive, StartArm, StartResume, StartSend,
              StopClear, Command, Expire, vars, sleepVars
<1>2. CASE \/ Construct \/ Stop \/ \E unit \in Units, d \in Durations : Start(unit, d)
           \/ \E s \in Starts : CbCancel(s) \/ CbClear(s) \/ CbStop(s) \/ CbCall(s)
  BY <1>2 DEF Construct, Stop, Start, CbCancel, CbClear, CbStop, CbCall, sleepVars
<1>3. CASE \/ SleepInterrupted \/ SleepAgain \/ SleepReturn
           \/ \E unit \in Units, d \in Durations : Sleep(unit, d)
  BY <1>3 DEF SleepInterrupted, SleepAgain, Sleep
<1> QED BY <1>1, <1>2, <1>3, StepCases

\* Every step keeps SleepInv.
LEMMA SleepStep == TypeOK /\ SleepInv /\ [Next]_vars => SleepInv'
<1> SUFFICES ASSUME TypeOK, SleepInv, [Next]_vars PROVE SleepInv'
  OBVIOUS
<1>1. system \in Systems /\ UNCHANGED system
  BY StepFrame DEF TypeOK
<1>0. now' \in Nat /\ now <= now' /\ now \in Nat /\ sleep \in Nat
  BY StepFrame DEF TypeOK
<1>2. Awake \in Nat
  BY AwakeNat
<1>3. UNCHANGED slept => Awake' = Awake
  <2>1. port' = port /\ NsPerTick' = NsPerTick /\ POS_TICKS_PER_SEC' = POS_TICKS_PER_SEC
    BY <1>1, SameUnits DEF POS_TICKS_PER_SEC
  <2> QED BY <2>1 DEF Awake, EarliestReturn, Wraps, SleepSlack, Asked
<1>4. CASE UNCHANGED <<pc, sleep, slept>>
  <2>1. ASSUME pc = "sleeping" PROVE Awake <= now' \/ Awake <= sleep
    <3>1. Awake <= now \/ Awake <= sleep
      BY <2>1 DEF SleepInv
    <3> QED BY <1>0, <1>2, <3>1
  <2>2. ASSUME pc = "interrupted" PROVE Awake <= now' \/ Awake <= now' + sleep
    <3>1. Awake <= now \/ Awake <= now + sleep
      BY <2>2 DEF SleepInv
    <3> QED BY <1>0, <1>2, <3>1, CountedLater
  <2> QED BY <1>3, <1>4, <2>1, <2>2 DEF SleepInv
<1>5. ASSUME NEW unit \in Units, NEW d \in Durations, Sleep(unit, d) PROVE SleepInv'
  <2>1. InTime(SleepEnd(unit, d), EarliestReturn(ACall(unit, d)))
    BY <1>0, <1>1, SleepInTime
  <2>2. sleep' = SleepEnd(unit, d) /\ pc' = "sleeping" /\ UNCHANGED <<system, now>>
        /\ slept' = ACall(unit, d)
    BY <1>5 DEF Sleep, SleepEnd, timeVars
  <2>3. Awake' = EarliestReturn(ACall(unit, d))
    <3>1. port' = port /\ NsPerTick' = NsPerTick /\ POS_TICKS_PER_SEC' = POS_TICKS_PER_SEC
      BY <1>1, SameUnits DEF POS_TICKS_PER_SEC
    <3> QED BY <2>2, <3>1 DEF Awake, EarliestReturn, Wraps, SleepSlack, Asked
  <2> QED BY <2>1, <2>2, <2>3 DEF SleepInv, InTime
<1>6. CASE SleepInterrupted
  <2>1. pc = "sleeping" /\ pc' = "interrupted" /\ now < sleep /\ sleep' = sleep - now
        /\ UNCHANGED <<now, slept>>
    BY <1>6 DEF SleepInterrupted, timeVars
  <2>2. Awake <= now \/ Awake <= sleep
    BY <2>1 DEF SleepInv
  <2>3. now + (sleep - now) = sleep
    BY <1>0
  <2> QED BY <1>3, <2>1, <2>2, <2>3 DEF SleepInv
<1>7. CASE SleepAgain
  <2>1. pc = "interrupted" /\ pc' = "sleeping" /\ sleep' = now + sleep /\ UNCHANGED <<now, slept>>
    BY <1>7 DEF SleepAgain, timeVars
  <2> QED BY <1>3, <2>1 DEF SleepInv
<1>8. CASE SleepReturn
  BY <1>8 DEF SleepReturn, SleepInv
<1> QED BY <1>4, <1>5, <1>6, <1>7, <1>8, SleepSteps

\* Every step keeps ActiveInv.
LEMMA ActiveStep == TypeOK /\ TimerInv /\ ActiveInv /\ [Next]_vars => ActiveInv'
<1> SUFFICES ASSUME TypeOK, TimerInv, ActiveInv, [Next]_vars PROVE ActiveInv'
  OBVIOUS
<1>1. /\ port' = port /\ due \in 0 .. MaxCalls /\ MaxCalls \in Nat /\ armed \in 0 .. MaxCalls
      /\ cb \in [Starts -> {"none", "cancel", "clear", "stop", "call", "done"}]
      /\ 0 \notin Starts /\ \A x \in 0 .. MaxCalls : x # 0 => x \in Starts
      /\ client \in [at : {"idle", "active", "arm", "resume", "change", "reset", "clear"},
                     start : 0 .. MaxCalls, ticks : Nat]
  BY StepFrame, SameUnits, TimerAssumption DEF TypeOK, Starts
<1>2. ASSUME UNCHANGED <<client, armed, tm_active, cb, due>> PROVE ActiveInv'
  BY <1>1, <1>2 DEF ActiveInv, Handling
<1>3. CASE \/ Tick \/ NewCalendar \/ SleepInterrupted \/ SleepAgain \/ SleepReturn
           \/ UNCHANGED vars
  BY <1>2, <1>3 DEF Tick, NewCalendar, SleepInterrupted, SleepAgain, SleepReturn, vars,
                    timerVars, kernelVars
<1>4. CASE Construct \/ \E unit \in Units, d \in Durations : Sleep(unit, d)
  BY <1>2, <1>4 DEF Construct, Sleep, timerVars, kernelVars
<1>5. ASSUME NEW unit \in Units, NEW d \in Durations, Start(unit, d) PROVE ActiveInv'
  <2> DEFINE n == StartTicks(unit, d)   s == calls + 1
  <2>1. /\ \/ port \in {"posix", "apple", "rt-thread", "freertos"} /\ client'.start = s
              /\ client'.at # "resume"
           \/ port = "zephyr" /\ client' = client
        /\ armed' = armed \/ armed' = 0 \/ (port = "zephyr" /\ armed' = s)
        /\ UNCHANGED <<tm_active, cb>> /\ due' = s
    BY <1>5, StartEffect
  <2>2. s \in Starts /\ s # 0 /\ cb[s] = "none" /\ armed # s
    <3>1. calls \in Nat /\ s \in Starts
      BY <1>5, CallFacts DEF Start, TypeOK
    <3>2. cb[s] # "none" => s <= calls
      BY <3>1 DEF TimerInv, CbInv
    <3>3. armed # 0 => armed \in 1 .. calls
      BY DEF TimerInv, ArmedInv
    <3> QED BY <1>1, <3>1, <3>2, <3>3
  <2> HIDE DEF s
  <2>3. port = "freertos" /\ Handling => armed' = 0
    BY <2>1 DEF ActiveInv
  <2>4. Handling' = Handling
    BY <2>1 DEF Handling
  <2> QED BY <1>1, <2>1, <2>2, <2>3, <2>4 DEF ActiveInv
<1>6. CASE Stop
  <2>1. /\ client' = [client EXCEPT !.at = "clear"] \/ UNCHANGED client
        /\ client.at = "idle" /\ due' = 0 /\ UNCHANGED cb
        /\ armed' = 0 \/ UNCHANGED armed
    BY <1>6, StopEffect DEF Stop, Call
  <2>2. client'.at \in {"idle", "clear"}
    BY <1>1, <2>1
  <2>3. Handling' = Handling
    BY <2>1 DEF Handling
  <2> QED BY <1>1, <2>1, <2>2, <2>3 DEF ActiveInv
<1>7. CASE StartActive
  <2>1. /\ client.at = "active" /\ tm_active' = TRUE /\ UNCHANGED <<armed, cb, due>>
        /\ client' = NoClient \/ client' = [client EXCEPT !.at = "arm"]
    BY <1>7 DEF StartActive, kernelVars, goto, return
  <2>2. client'.at = "idle" \/ (client'.at = "arm" /\ client'.start = client.start)
    BY <1>1, <2>1 DEF NoClient
  <2>3. Handling' = Handling
    BY <2>1 DEF Handling
  <2> QED BY <1>1, <2>1, <2>2, <2>3 DEF ActiveInv
<1>8. CASE StartArm
  <2>1. /\ client.at = "arm" /\ UNCHANGED <<tm_active, cb, due>>
        /\ armed' = 0 \/ armed' = client.start
        /\ \/ port = "apple"
           \/ port \in {"posix", "rt-thread"} /\ client' = NoClient
    BY <1>8 DEF StartArm, arm_posix, arm_apple, arm_rt_thread, Arm, goto, return
  <2>2. client' = NoClient => client'.at = "idle"
    BY DEF NoClient
  <2> QED BY <1>1, <2>1, <2>2 DEF ActiveInv
<1>9. CASE StartResume \/ StartSend \/ StopClear
  <2>1. /\ client.at \in {"resume", "change", "reset", "clear"} /\ UNCHANGED <<armed, cb, due>>
        /\ UNCHANGED tm_active \/ tm_active' = FALSE
        /\ \/ client' = NoClient \/ client' = [client EXCEPT !.at = "reset"]
           \/ client' = [client EXCEPT !.at = "active"] /\ client.at = "resume"
    BY <1>9 DEF StartResume, StartSend, StopClear, kernelVars, goto, return
  <2>2. client'.at \in {"idle", "reset"} \/ (client.at = "resume" /\ client'.at = "active")
    BY <1>1, <2>1 DEF NoClient
  <2>3. Handling' = Handling
    BY <2>1 DEF Handling
  <2> QED BY <1>1, <2>1, <2>2, <2>3 DEF ActiveInv
<1>10. CASE Command
  <2>1. cmdq # << >> /\ cmdq \in Seq(Orders)
    BY <1>10, CommandEffect DEF TimerInv, QueueInv
  <2>2. Head(cmdq).op # "stop" => port = "freertos"
    BY <2>1 DEF Orders
  <2>3. /\ ~Handling /\ UNCHANGED <<client, tm_active, cb, due>>
        /\ armed' = 0 \/ port = "freertos"
    BY <1>10, <2>2, CommandEffect
  <2> QED BY <1>1, <2>3 DEF ActiveInv, Handling
<1>11. CASE Expire
  <2>1. /\ armed # 0 /\ armed' = 0 /\ UNCHANGED <<client, tm_active, due>>
        /\ cb' = [cb EXCEPT ![armed] = FirstOfCallback]
    BY <1>11 DEF Expire, Disarm, Arm
  <2>2. /\ FirstOfCallback = "stop" => port = "freertos"
        /\ FirstOfCallback \in {"cancel", "clear"} => port \in {"posix", "apple"}
        /\ port = "posix" => FirstOfCallback # "call"
    BY DEF FirstOfCallback
  <2> QED BY <1>1, <2>1, <2>2 DEF ActiveInv
<1>12. ASSUME NEW s \in Starts, CbCancel(s) \/ CbClear(s) \/ CbStop(s) \/ CbCall(s)
       PROVE  ActiveInv'
  <2>1. Handling
    BY <1>12 DEF Handling, CbCancel, CbClear, CbStop, CbCall, cb_goto
  <2>2. CASE CbCancel(s)
    BY <1>1, <2>1, <2>2 DEF ActiveInv, CbCancel, cb_goto, Disarm, Arm
  <2>3. CASE CbClear(s)
    BY <1>1, <2>1, <2>3 DEF ActiveInv, CbClear, cb_goto, kernelVars
  <2>4. CASE CbStop(s)
    BY <1>1, <2>1, <2>4 DEF ActiveInv, CbStop, cb_goto
  <2>5. CASE CbCall(s)
    BY <1>1, <2>1, <2>5 DEF ActiveInv, CbCall, cb_goto, kernelVars
  <2> QED BY <1>12, <2>2, <2>3, <2>4, <2>5
<1> QED BY <1>3, <1>4, <1>5, <1>6, <1>7, <1>8, <1>9, <1>10, <1>11, <1>12, StepCases

\* The invariants hold in the beginning.
LEMMA InitInv == Init => TypeOK /\ TimerInv /\ SleepInv /\ ActiveInv
<1> SUFFICES ASSUME Init PROVE TypeOK /\ TimerInv /\ SleepInv /\ ActiveInv
  OBVIOUS
<1>1. system.start \in Nat /\ TimeRange \in Nat \ {0} /\ MaxCalls \in Nat /\ MaxSignals \in Nat
  BY TimeAssumption, TimerAssumption DEF Init
<1>2. 0 \in 0 .. MaxCalls /\ 0 \in 0 .. MaxSignals /\ 0 < TimeRange
  BY <1>1
<1>3. NoCall \in CallRecord
  BY DEF NoCall, CallRecord
<1>4. NoClient \in [at : {"idle", "active", "arm", "resume", "change", "reset", "clear"},
                    start : 0 .. MaxCalls, ticks : Nat]
  BY <1>2 DEF NoClient
<1>5. calendar \in Nat
  BY TimeAssumption DEF Init
<1>6. TypeOK
  <2>1. TimeOK
    BY <1>1, <1>2, <1>5 DEF Init, TimeOK
  <2>2. ObjectOK
    BY <1>2 DEF Init, ObjectOK
  <2>3. ClientOK /\ KernelOK /\ QueueOK
    BY <1>2, <1>4 DEF Init, ClientOK, KernelOK, QueueOK
  <2>4. CbOK
    BY <1>2, <1>3 DEF Init, CbOK
  <2>5. SleepOK
    BY <1>2, <1>3 DEF Init, SleepOK
  <2> QED BY <2>1, <2>2, <2>3, <2>4, <2>5, TypeParts
<1>7. TimerInv
  <2>1. AskedInv
    BY <1>1 DEF Init, AskedInv, NoCall
  <2>2. ClientInv
    BY DEF Init, ClientInv, NoClient, InStart
  <2>3. QueueInv
    BY DEF Init, QueueInv
  <2>4. ArmedInv /\ CbInv
    BY DEF Init, ArmedInv, CbInv
  <2> QED BY <2>1, <2>2, <2>3, <2>4 DEF TimerInv
<1>8. SleepInv
  BY DEF Init, SleepInv
<1>9. ActiveInv
  BY DEF Init, ActiveInv, NoClient, Handling
<1> QED BY <1>6, <1>7, <1>8, <1>9

-----------------------------------------------------------------------------
(***************************************************************************)
(* What a caller is told.                                                  *)
(***************************************************************************)

\* The distance of two readings of a clock that wraps is not more than the true one.
LEMMA WrappedDistance ==
    ASSUME NEW R \in Nat \ {0}, NEW a \in Nat, NEW b \in Nat, b <= a, b % R < a % R
    PROVE  (a % R) - (b % R) <= a - b
<1> DEFINE p == a \div R   r == a % R   q == b \div R   s == b % R
<1>1. /\ p \in Nat /\ r \in Nat /\ r < R /\ a = R * p + r
      /\ q \in Nat /\ s \in Nat /\ s < R /\ b = R * q + s
  BY DivBounds
<1>2. s < r
  OBVIOUS
<1> HIDE DEF p, q, r, s
<1>3. q <= p
  <2> SUFFICES ASSUME p + 1 <= q PROVE FALSE
    BY <1>1
  <2>1. (p + 1) * R <= q * R
    BY <1>1, MulMono
  <2> QED BY <1>1, <2>1
<1>4. q * R <= p * R
  BY <1>1, <1>3, MulMono
<1>5. r - s <= a - b
  BY <1>1, <1>4
<1> QED BY <1>5 DEF r, s

\* A remainder is not more than the number.
LEMMA ModLeq ==
    ASSUME NEW a \in Nat, NEW R \in Nat \ {0}
    PROVE  a % R <= a
<1>1. a \div R \in Nat /\ a % R \in Nat /\ a = R * (a \div R) + (a % R)
  BY DivBounds
<1>2. R * (a \div R) \in Nat
  BY <1>1
<1> QED BY <1>1, <1>2

\* A running kernel timer expires in a later tick than the running one, and has at
\* least as many ticks left as there are between the two, rounding up.
LEMMA TicksLeft ==
    ASSUME system \in Systems, now \in Nat, expiry \in Nat, now < expiry,
           expiry = (expiry \div NsPerTick) * NsPerTick
    PROVE  /\ expiry \div NsPerTick \in Nat
           /\ uptime_ticks < expiry \div NsPerTick
           /\ expiry \div NsPerTick - uptime_ticks <= Ceil(expiry - now, NsPerTick)
<1> DEFINE k == NsPerTick   E == expiry \div k   U == uptime_ticks   C == Ceil(expiry - now, k)
<1>1. k \in Nat \ {0} /\ U \in Nat /\ U * k <= now /\ now < U * k + k /\ U * k \in Nat
  BY UnitFacts, ClockFacts
<1>2. E \in Nat /\ expiry = E * k
  BY <1>1, DivBounds
<1>3. expiry - now \in Nat
  OBVIOUS
<1>4. C \in Nat /\ expiry - now <= C * k
  BY <1>1, <1>3, CeilBounds
<1> HIDE DEF E, U, C, k
<1>5. U * k < E * k
  BY <1>1, <1>2
<1>6. U < E
  BY <1>1, <1>2, <1>5, CancelLess
<1>7. E * k < ((C + U) + 1) * k
  <2>1. ((C + U) + 1) * k = C * k + U * k + k /\ C * k \in Nat /\ E * k \in Nat
    BY <1>1, <1>2, <1>4
  <2> DEFINE a == C * k   b == U * k   c == E * k
  <2>2. a \in Nat /\ b \in Nat /\ c \in Nat /\ now < b + k /\ c - now <= a
    BY <1>1, <1>2, <1>4, <2>1
  <2> HIDE DEF a, b, c
  <2>3. c < a + b + k
    BY <1>1, <2>2
  <2> QED BY <2>1, <2>3 DEF a, b, c
<1>8. E < (C + U) + 1
  BY <1>1, <1>2, <1>4, <1>7, CancelLess
<1>9. E - U <= C
  BY <1>1, <1>2, <1>4, <1>8
<1> QED BY <1>2, <1>6, <1>9 DEF E, U, C, k

\* The seconds that the POSIX port looks at are not more milliseconds than are left.
LEMMA SecondsLeft ==
    ASSUME system \in Systems, NEW x \in Nat
    PROVE  (x \div NsPerSec) * MsPerSec \in Nat
           /\ (x \div NsPerSec) * MsPerSec <= Ceil(x, NsPerMs)
<1> DEFINE s == x \div NsPerSec   C == Ceil(x, NsPerMs)
<1>1. /\ NsPerMs \in Nat \ {0} /\ MsPerSec \in Nat \ {0} /\ NsPerSec \in Nat \ {0}
      /\ NsPerMs * MsPerSec = NsPerSec
  BY UnitFacts
<1>2. s \in Nat /\ s * NsPerSec <= x /\ C \in Nat /\ x <= C * NsPerMs
  BY <1>1, DivBounds, CeilBounds
<1> HIDE DEF s, C
<1>3. (s * MsPerSec) * NsPerMs = s * NsPerSec
  BY <1>1, <1>2
<1>4. s * MsPerSec \in Nat /\ (s * MsPerSec) * NsPerMs <= C * NsPerMs
  <2>1. s * NsPerSec \in Nat /\ C * NsPerMs \in Nat /\ s * MsPerSec \in Nat
    BY <1>1, <1>2
  <2> QED BY <1>2, <1>3, <2>1
<1>5. s * MsPerSec <= C
  BY <1>1, <1>2, <1>4, CancelLeq
<1> QED BY <1>4, <1>5 DEF s, C

\* In no port is more time said to remain than does.
LEMMA RemainingFacts == TypeOK /\ TimerInv => RemainingNeverOverstates
<1> SUFFICES ASSUME TypeOK, TimerInv, Pending
             PROVE  pos_timer_remaining_ticks(pos_time_get) <= Ceil(expiry - now, NsPerTick)
  BY DEF RemainingNeverOverstates
<1>1. system \in Systems /\ now \in Nat /\ expiry \in Nat /\ now < expiry /\ armed # 0
  BY DEF TypeOK, Pending
<1>2. port \in {"freertos", "zephyr", "rt-thread"} =>
         expiry = (expiry \div NsPerTick) * NsPerTick
  BY <1>1 DEF TimerInv, ArmedInv
<1>3. /\ port \in PortNames /\ NsPerTick \in Nat \ {0} /\ TimeRange \in Nat \ {0}
      /\ uptime_ticks \in Nat
  BY <1>1, UnitFacts, ClockFacts
<1>4. expiry - now \in Nat
  BY <1>1
<1> DEFINE C == Ceil(expiry - now, NsPerTick)
<1>5. C \in Nat
  BY <1>3, <1>4, CeilBounds
<1>6. CASE port = "posix"
  <2> DEFINE exp == seconds_left * MsPerSec
  <2>1. seconds_left = (expiry - now) \div NsPerSec
    BY <1>1 DEF seconds_left
  <2>2. NsPerTick = NsPerMs
    BY <1>1, <1>6, UnitFacts
  <2>3. exp \in Nat /\ exp <= C
    BY <1>1, <1>4, <2>1, <2>2, SecondsLeft
  <2>4. pos_time_get \in Nat
    BY <1>1, <1>3, <1>6, TimeT DEF pos_time_get, time_get_posix
  <2>5. pos_timer_remaining_ticks(pos_time_get)
           = IF exp > pos_time_get THEN exp - pos_time_get ELSE 0
    BY <1>6 DEF pos_timer_remaining_ticks, remaining_posix
  <2> HIDE DEF exp, C
  <2>6. pos_timer_remaining_ticks(pos_time_get) <= C
    BY <1>5, <2>3, <2>4, <2>5
  <2> QED BY <2>6 DEF C
<1>7. CASE port = "apple"
  BY <1>5, <1>7 DEF pos_timer_remaining_ticks, remaining_apple
<1>8. CASE port \in {"freertos", "zephyr", "rt-thread"}
  <2> DEFINE E == expiry \div NsPerTick
  <2>1. E \in Nat /\ uptime_ticks < E /\ E - uptime_ticks <= C
    BY <1>1, <1>2, <1>8, TicksLeft
  <2>2. CASE port = "freertos"
    <3>1. expiry_tick = E % TimeRange
      BY DEF expiry_tick
    <3>2. pos_time_get = uptime_ticks % TimeRange
      BY <2>2 DEF pos_time_get, time_get_freertos
    <3>3. pos_timer_remaining_ticks(pos_time_get)
             = IF expiry_tick > pos_time_get THEN expiry_tick - pos_time_get ELSE 0
      BY <2>2 DEF pos_timer_remaining_ticks, remaining_freertos
    <3> HIDE DEF E, C
    <3>4. E % TimeRange \in Nat /\ uptime_ticks % TimeRange \in Nat
      BY <1>3, <2>1
    <3>5. CASE uptime_ticks % TimeRange < E % TimeRange
      <4>1. (E % TimeRange) - (uptime_ticks % TimeRange) <= E - uptime_ticks
        <5>1. uptime_ticks <= E
          BY <1>3, <2>1
        <5> QED BY <1>3, <2>1, <3>5, <5>1, WrappedDistance
      <4>2. pos_timer_remaining_ticks(pos_time_get) = (E % TimeRange) - (uptime_ticks % TimeRange)
        BY <3>1, <3>2, <3>3, <3>4, <3>5
      <4>3. pos_timer_remaining_ticks(pos_time_get) <= C
        BY <1>3, <1>5, <2>1, <3>4, <4>1, <4>2
      <4> QED BY <4>3 DEF C
    <3>6. CASE ~(uptime_ticks % TimeRange < E % TimeRange)
      <4>1. pos_timer_remaining_ticks(pos_time_get) = 0
        BY <3>1, <3>2, <3>3, <3>4, <3>6
      <4>2. pos_timer_remaining_ticks(pos_time_get) <= C
        BY <1>5, <4>1
      <4> QED BY <4>2 DEF C
    <3> QED BY <3>5, <3>6
  <2>3. CASE port \in {"zephyr", "rt-thread"}
    <3>1. ticks_left = E - uptime_ticks
      BY <1>1, <2>1 DEF ticks_left
    <3>2. pos_timer_remaining_ticks(pos_time_get) = ticks_left % TimeRange
      BY <2>3 DEF pos_timer_remaining_ticks, remaining_zephyr, remaining_rt_thread
    <3> DEFINE x == E - uptime_ticks
    <3>3. x \in Nat /\ x <= C
      BY <1>3, <2>1
    <3> HIDE DEF E, C, x
    <3>4. x % TimeRange <= x /\ x % TimeRange \in Nat
      BY <1>3, <3>3, ModLeq
    <3>5. x % TimeRange <= C
      BY <1>5, <3>3, <3>4
    <3> QED BY <3>1, <3>2, <3>5 DEF C, x
  <2> QED BY <1>8, <2>2, <2>3
<1> QED BY <1>3, <1>6, <1>7, <1>8 DEF PortNames

\* A callback that nothing came after finds the timer inactive.
LEMMA ActiveFacts == TypeOK /\ ActiveInv => FiredIsInactive
<1> SUFFICES ASSUME TypeOK, ActiveInv, port # "apple",
                    NEW s \in Starts, cb[s] = "call", due = s
             PROVE  ~pos_timer_is_active
  BY DEF FiredIsInactive, CallbackSeesInactive
<1>1. /\ port = "posix" => ~tm_active
      /\ port \in {"freertos", "zephyr", "rt-thread"} => armed = 0
  BY DEF ActiveInv
<1>2. armed = 0 => ticks_left = 0
  BY DEF ticks_left
<1>3. port \in PortNames
  BY UnitFacts DEF TypeOK
<1>4. CASE port = "posix"
  <2>1. pos_timer_is_active = tm_active
    BY <1>4 DEF pos_timer_is_active, is_active_posix
  <2> QED BY <1>1, <1>4, <2>1
<1>5. CASE port \in {"freertos", "rt-thread"}
  <2>1. pos_timer_is_active = (armed # 0)
    BY <1>5 DEF pos_timer_is_active, is_active_freertos, is_active_rt_thread
  <2> QED BY <1>1, <1>5, <2>1
<1>6. CASE port = "zephyr"
  <2>1. pos_timer_is_active = (ticks_left > 0)
    BY <1>6 DEF pos_timer_is_active, is_active_zephyr
  <2>2. ticks_left = 0
    BY <1>1, <1>2, <1>6
  <2>3. ~(ticks_left > 0)
    BY <2>2
  <2> QED BY <2>1, <2>3
<1> QED BY <1>3, <1>4, <1>5, <1>6 DEF PortNames

-----------------------------------------------------------------------------
(***************************************************************************)
(* The clock in milliseconds.                                              *)
(***************************************************************************)
clock_ticks == clock_ns \div NsPerTick
clock_ms    == (clock_ticks * MsPerSec) \div POS_TICKS_PER_SEC

\* Only the Apple port has a clock of its own.
LEMMA ClockTicks ==
    ASSUME system \in Systems, now \in Nat, calendar \in Nat
    PROVE  /\ clock_ns \in Nat /\ clock_ticks \in Nat /\ clock_ticks * NsPerTick \in Nat
           /\ clock_ticks * NsPerTick <= clock_ns
           /\ clock_ns < clock_ticks * NsPerTick + NsPerTick
           /\ port # "apple" => clock_ns = now /\ uptime_ticks = clock_ticks
<1>1. NsPerTick \in Nat \ {0}
  BY UnitFacts
<1>2. clock_ns \in Nat
  BY DEF clock_ns
<1>3. /\ clock_ticks \in Nat /\ clock_ticks * NsPerTick <= clock_ns
      /\ clock_ns < clock_ticks * NsPerTick + NsPerTick
  BY <1>1, <1>2, DivBounds DEF clock_ticks
<1>4. clock_ticks * NsPerTick \in Nat
  BY <1>1, <1>3
<1> QED BY <1>2, <1>3, <1>4 DEF clock_ns, clock_ticks, uptime_ticks

\* The time of the clock in whole milliseconds, from the ticks: it lags behind the clock by
\* no more than the running tick.
LEMMA ClockMs ==
    ASSUME system \in Systems, now \in Nat, calendar \in Nat
    PROVE  /\ clock_ms \in Nat
           /\ clock_ms <= clock_ns \div NsPerMs
           /\ clock_ns \div NsPerMs <= clock_ms + Ceil(MsPerSec, POS_TICKS_PER_SEC)
<1> DEFINE k == NsPerTick   m == NsPerMs   h == POS_TICKS_PER_SEC   s == MsPerSec
           U == clock_ticks   X == (U * s) \div h   W == clock_ns \div m   C == Ceil(s, h)
<1>1. k \in Nat \ {0} /\ m \in Nat \ {0} /\ h \in Nat \ {0} /\ s \in Nat \ {0} /\ m * s = k * h
  BY UnitFacts
<1>2. clock_ns \in Nat /\ U \in Nat /\ U * k \in Nat /\ U * k <= clock_ns /\ clock_ns < U * k + k
  BY ClockTicks
<1> HIDE DEF k, m, h, s, U
<1>3. X * m <= U * k /\ U * k < X * m + m
  BY <1>1, <1>2, RoundDown
<1>4. U * s \in Nat
  BY <1>1, <1>2
<1>5. X \in Nat /\ W \in Nat /\ W * m <= clock_ns /\ clock_ns < W * m + m
  BY <1>1, <1>2, <1>4, DivBounds
<1>6. C \in Nat /\ k <= C * m
  <2>1. 1 * s = s /\ 1 * k = k /\ 1 \in Nat
    BY <1>1
  <2>2. Ceil(1 * s, h) \in Nat /\ 1 * k <= Ceil(1 * s, h) * m
    BY <1>1, <2>1, RoundUp
  <2> QED BY <2>1, <2>2
<1> HIDE DEF X, W, C
<1>7. X * m \in Nat /\ W * m \in Nat /\ C * m \in Nat
  BY <1>1, <1>5, <1>6
<1> DEFINE a == X * m   b == W * m   c == C * m   t == U * k
<1>8. /\ a \in Nat /\ b \in Nat /\ c \in Nat /\ t \in Nat
      /\ a <= t /\ t < a + m /\ t <= clock_ns /\ clock_ns < t + k
      /\ b <= clock_ns /\ clock_ns < b + m /\ k <= c
  BY <1>2, <1>3, <1>5, <1>6, <1>7
<1>9. (W + 1) * m = b + m /\ ((X + C) + 1) * m = (a + c) + m
  BY <1>1, <1>5, <1>6
<1> HIDE DEF a, b, c, t
<1>10. a < b + m /\ b < (a + c) + m
  BY <1>1, <1>2, <1>8
<1>11. X * m < (W + 1) * m /\ W * m < ((X + C) + 1) * m
  BY <1>9, <1>10 DEF a, b
<1>12. W + 1 \in Nat /\ (X + C) + 1 \in Nat
  BY <1>5, <1>6
<1>13. X < W + 1 /\ W < (X + C) + 1
  BY <1>1, <1>5, <1>11, <1>12, CancelLess
<1>14. X <= W /\ W <= X + C
  BY <1>5, <1>6, <1>13
<1> QED BY <1>5, <1>14 DEF X, W, C, k, m, h, s, U, clock_ms

\* In its range, every port computes that number.
LEMMA MsClockExact ==
    ASSUME system \in Systems, now \in Nat, calendar \in Nat, MsClockInRange
    PROVE  pos_time_get_ms = clock_ms
<1>1. /\ POS_TICKS_PER_SEC \in Nat \ {0} /\ MsPerSec \in Nat \ {0} /\ TimeRange \in Nat \ {0}
      /\ port \in PortNames /\ clock_ticks \in Nat /\ NsPerMs \in Nat \ {0}
  BY UnitFacts, ClockTicks
<1>0. port # "apple" => clock_ns = now /\ uptime_ticks = clock_ticks
  BY ClockTicks
<1>2. clock_ms \in Nat /\ clock_ms <= clock_ns \div NsPerMs /\ clock_ns \div NsPerMs \in Nat
  BY <1>1, ClockMs, ClockTicks, DivBounds
<1>3. clock_ticks * MsPerSec \in Nat /\ clock_ticks <= clock_ticks * MsPerSec
  BY <1>1
<1>4. \A x \in Nat : x < TimeRange => x % TimeRange = x
  BY <1>1
<1>5. CASE port = "posix"
  <2>1. clock_ticks < TimeRange /\ POS_TICKS_PER_SEC = MsPerSec
    BY <1>0, <1>5, UnitFacts DEF MsClockInRange
  <2>2. clock_ms = clock_ticks
    <3>1. clock_ticks * MsPerSec < clock_ticks * MsPerSec + MsPerSec
      BY <1>1, <1>3
    <3>2. clock_ticks * MsPerSec <= clock_ticks * MsPerSec
      BY <1>3
    <3> QED BY <1>1, <1>3, <2>1, <3>1, <3>2, DivUnique DEF clock_ms
  <2>3. pos_time_get = clock_ticks
    BY <1>0, <1>1, <1>5, <2>1, TimeT DEF pos_time_get, time_get_posix
  <2>4. pos_time_get_ms = pos_time_t(clock_ms)
    BY <1>5, <2>3 DEF pos_time_get_ms, time_get_ms_posix, ticks_to_ms_posix, clock_ms
  <2> QED BY <1>1, <2>1, <2>2, <2>4, TimeT
<1>6. CASE port = "apple"
  <2>1. pos_time_get = clock_ticks
    BY <1>1, <1>6, TimeT DEF pos_time_get, time_get_apple, clock_ticks
  <2>2. pos_time_get_ms = pos_time_t(clock_ms)
    BY <1>6, <2>1 DEF pos_time_get_ms, time_get_ms_posix, ticks_to_ms_posix, clock_ms
  <2> QED BY <1>2, <1>6, <2>2, TimeT
<1>7. CASE port = "freertos"
  <2>1. clock_ticks * MsPerSec < TimeRange
    BY <1>0, <1>7 DEF MsClockInRange
  <2>2. clock_ticks < TimeRange
    BY <1>1, <1>3, <2>1
  <2>3. pos_time_get = clock_ticks
    BY <1>0, <1>1, <1>4, <1>7, <2>2 DEF pos_time_get, time_get_freertos
  <2>4. (clock_ticks * MsPerSec) % TimeRange = clock_ticks * MsPerSec
    BY <1>3, <1>4, <2>1
  <2> QED BY <1>7, <2>3, <2>4
      DEF pos_time_get_ms, time_get_ms_freertos, ticks_to_ms_freertos, clock_ms
<1>8. CASE port \in {"zephyr", "rt-thread"}
  <2>1. clock_ns \div NsPerMs < TimeRange
    BY <1>0, <1>8 DEF MsClockInRange
  <2>2. clock_ms < TimeRange
    BY <1>1, <1>2, <2>1
  <2>3. clock_ms % TimeRange = clock_ms
    BY <1>2, <1>4, <2>2
  <2>4. CASE port = "zephyr"
    BY <1>0, <2>3, <2>4 DEF pos_time_get_ms, time_get_ms_zephyr, clock_ms
  <2>5. CASE port = "rt-thread"
    <3> DEFINE c == MsPerSec \div POS_TICKS_PER_SEC
    <3>1. c \in Nat /\ MsPerSec = POS_TICKS_PER_SEC * c
      <4>1. MsPerSec % POS_TICKS_PER_SEC = 0
        BY <2>5, UnitFacts
      <4>2. c \in Nat /\ MsPerSec = POS_TICKS_PER_SEC * c + (MsPerSec % POS_TICKS_PER_SEC)
        BY <1>1, DivBounds
      <4> HIDE DEF c
      <4> QED BY <1>1, <4>1, <4>2
    <3>2. pos_time_get_ms = (pos_time_get * c) % TimeRange
      BY <2>5 DEF pos_time_get_ms, time_get_ms_rt_thread
    <3> HIDE DEF c
    <3>3. clock_ms = clock_ticks * c
      <4>1. clock_ticks * c \in Nat
            /\ clock_ticks * MsPerSec = (clock_ticks * c) * POS_TICKS_PER_SEC
        BY <1>1, <3>1
      <4> QED BY <1>1, <1>3, <4>1, DivUnique DEF clock_ms
    <3>4. c >= 1
      BY <1>1, <3>1
    <3>5. clock_ticks <= clock_ticks * c /\ clock_ticks * c \in Nat
      BY <1>1, <3>1, <3>4
    <3>6. clock_ticks < TimeRange
      BY <1>1, <2>2, <3>3, <3>5
    <3>7. pos_time_get = clock_ticks
      BY <1>0, <1>1, <1>4, <2>5, <3>6 DEF pos_time_get, time_get_rt_thread
    <3> QED BY <2>3, <3>2, <3>3, <3>7
  <2> QED BY <1>8, <2>4, <2>5
<1> QED BY <1>1, <1>5, <1>6, <1>7, <1>8 DEF PortNames


-----------------------------------------------------------------------------
(***************************************************************************)
(* Results.                                                                *)
(***************************************************************************)

\* The variables keep their types; tm_ticks keeps to pos_time_t.
THEOREM OsTimerTypes == Spec => []TypeOK
BY InitInv, TypeStep, PTL DEF Spec

\* pos_time_get_ms() follows the clock that the port reads, the calendar on Apple and the time
\* since boot elsewhere, and lags by no more than the running tick, for every tick rate, as
\* long as the port's arithmetic is in its range.
THEOREM OsTimeMsClock == Spec => []MsClockFollowsClock
<1>1. TypeOK => MsClockFollowsClock
  <2> SUFFICES ASSUME TypeOK, MsClockInRange PROVE MsClockShows(clock_ns)
    BY DEF MsClockFollowsClock
  <2>1. system \in Systems /\ now \in Nat /\ calendar \in Nat
    BY DEF TypeOK
  <2>2. pos_time_get_ms = clock_ms
    BY <2>1, MsClockExact
  <2> QED BY <2>1, <2>2, ClockMs DEF MsClockShows
<1> QED BY <1>1, OsTimerTypes, PTL

\* pos_task_sleep() and pos_task_sleep_ms() do not return early, however often signals
\* interrupt nanosleep(), but for what SleepSlack allows the conversions of a port and for
\* FreeRTOS's conversion when it wraps.
THEOREM OsSleepNotEarly == Spec => SleepNotEarly
<1>1. TypeOK /\ SleepInv /\ [Next]_vars
         => [pc = "sleeping" /\ pc' = "idle" => now >= EarliestReturn(slept)]_vars
  <2> SUFFICES ASSUME TypeOK, SleepInv, [Next]_vars, pc = "sleeping", pc' = "idle"
               PROVE  now >= Awake
    BY DEF Awake
  <2>1. now \in Nat /\ sleep \in Nat /\ Awake \in Nat
    BY AwakeNat DEF TypeOK
  <2>2. SleepReturn
    <3>1. pc' # pc
      OBVIOUS
    <3> QED BY <3>1, SleepSteps
  <2>3. now >= sleep /\ (Awake <= now \/ Awake <= sleep)
    BY <2>2 DEF SleepReturn, SleepInv
  <2> QED BY <2>1, <2>3
<1> QED BY <1>1, InitInv, TypeStep, SleepStep, PTL DEF Spec, SleepNotEarly

\* The callback of a start is called no earlier than that start asked for, however long its
\* steps, FreeRTOS's commands and the callback itself are delayed and whatever starts and
\* stops come between, but for what TimerSlack allows a port and for a conversion that
\* wraps.
THEOREM OsCallbackNotEarly == Spec => CallbackNotEarly
<1>1. TypeOK /\ TimerInv /\ [Next]_vars
         => [\A s \in Starts : cb[s] = "call" /\ cb'[s] = "done" =>
                now >= EarliestExpiry(asked[s])]_vars
  <2> SUFFICES ASSUME TypeOK, TimerInv, [Next]_vars, NEW s \in Starts, cb[s] = "call"
               PROVE  now >= First[s]
    BY DEF First
  <2>1. now \in Nat /\ First[s] \in Nat
    BY FirstNat DEF TypeOK
  <2>2. First[s] <= now
    BY DEF TimerInv, CbInv
  <2> QED BY <2>1, <2>2
<1> QED BY <1>1, InitInv, TypeStep, TimerStep, PTL DEF Spec, CallbackNotEarly

\* As long as a timer is running, pos_timer_remaining_ticks() is not more than what is left,
\* in every port and also when the clock wraps.
THEOREM OsTimerRemaining == Spec => []RemainingNeverOverstates
BY InitInv, TypeStep, TimerStep, RemainingFacts, PTL DEF Spec

\* The callback of a start that nothing came after finds the timer inactive, in every port
\* but Apple's, wherever the other steps of its start and of earlier callbacks fall.
THEOREM OsFiredIsInactive == Spec => []FiredIsInactive
BY InitInv, TypeStep, TimerStep, ActiveStep, ActiveFacts, PTL DEF Spec
=============================================================================
