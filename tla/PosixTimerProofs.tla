-------------------------- MODULE PosixTimerProofs --------------------------
(***************************************************************************)
(* Proofs about PosixTimer, for any number of threads that start and stop  *)
(* the timer and any number of callbacks in flight.                        *)
(***************************************************************************)
EXTENDS PosixTimer, FiniteSetTheorems, TLAPS

\* The action of Next that a step of the timer is.
LEMMA TimerStepCases ==
    ASSUME [Next]_vars
    PROVE  \/ \E t \in Threads, ticks \in Durations : StartTicks(t, ticks)
           \/ \E t \in Threads : StartActive(t)
           \/ \E t \in Threads : StartSettime(t)
           \/ \E t \in Threads : StopSettime(t)
           \/ \E t \in Threads : StopClear(t)
           \/ \E t \in Threads : t \in Notifiers /\ Expire(t)
           \/ \E t \in Threads : CbClear(t)
           \/ \E t \in Threads : CbCall(t)
           \/ \E t \in Threads : CbReturn(t)
           \/ UNCHANGED vars
BY DEF Next, Step

\* The type invariant: a start in progress always holds a value that arms.
LEMMA TimerTypeStep == TypeOK /\ [Next]_vars => TypeOK'
<1> SUFFICES ASSUME TypeOK, [Next]_vars
             PROVE  TypeOK'
  OBVIOUS
<1> USE TimerAssumption DEF TypeOK, ClientLabels, NotifierLabels, goto, return
<1>1. ASSUME NEW t \in Threads, NEW ticks \in Durations, StartTicks(t, ticks)
      PROVE  TypeOK'
  <2>1. AtLeastOne(ticks) \in Nat \ {0} /\ starts + 1 \in 1 .. MaxStarts
    BY <1>1 DEF AtLeastOne, StartTicks
  <2> QED
    BY <1>1, <2>1 DEF StartTicks, MayStart, Clients, Threads
<1>2. ASSUME NEW t \in Threads, StartActive(t)
      PROVE  TypeOK'
  BY <1>2 DEF StartActive
<1>3. ASSUME NEW t \in Threads, StartSettime(t)
      PROVE  TypeOK'
  BY <1>3 DEF StartSettime
<1>4. ASSUME NEW t \in Threads, StopSettime(t)
      PROVE  TypeOK'
  BY <1>4 DEF StopSettime, Clients
<1>5. ASSUME NEW t \in Threads, StopClear(t)
      PROVE  TypeOK'
  BY <1>5 DEF StopClear
<1>6. ASSUME NEW t \in Threads, t \in Notifiers, Expire(t)
      PROVE  TypeOK'
  BY <1>6 DEF Expire, Clients
<1>7. ASSUME NEW t \in Threads, CbClear(t)
      PROVE  TypeOK'
  BY <1>7 DEF CbClear
<1>8. ASSUME NEW t \in Threads, CbCall(t)
      PROVE  TypeOK'
  BY <1>8 DEF CbCall
<1>9. ASSUME NEW t \in Threads, CbReturn(t)
      PROVE  TypeOK'
  BY <1>9 DEF CbReturn
<1>10. CASE UNCHANGED vars
  BY <1>10 DEF vars
<1> QED
  BY <1>1, <1>2, <1>3, <1>4, <1>5, <1>6, <1>7, <1>8, <1>9, <1>10, TimerStepCases

\* Whatever ends one of the causes of an active timer brings about another one
\* or clears tm_active.
LEMMA ActiveStep == TypeOK /\ ActiveHasCause /\ [Next]_vars => ActiveHasCause'
<1> SUFFICES ASSUME TypeOK, ActiveHasCause, [Next]_vars
             PROVE  ActiveHasCause'
  OBVIOUS
<1> USE TimerAssumption DEF ActiveHasCause, TypeOK, goto, return
<1>1. ASSUME NEW t \in Threads, NEW ticks \in Durations, StartTicks(t, ticks)
      PROVE  ActiveHasCause'
  BY <1>1 DEF StartTicks, MayStart
<1>2. ASSUME NEW t \in Threads, StartActive(t)
      PROVE  ActiveHasCause'
  BY <1>2 DEF StartActive
<1>3. ASSUME NEW t \in Threads, StartSettime(t)
      PROVE  ActiveHasCause'
  BY <1>3 DEF StartSettime
<1>4. ASSUME NEW t \in Threads, StopSettime(t)
      PROVE  ActiveHasCause'
  BY <1>4 DEF StopSettime
<1>5. ASSUME NEW t \in Threads, StopClear(t)
      PROVE  ActiveHasCause'
  BY <1>5 DEF StopClear
<1>6. ASSUME NEW t \in Threads, t \in Notifiers, Expire(t)
      PROVE  ActiveHasCause'
  BY <1>6 DEF Expire
<1>7. ASSUME NEW t \in Threads, CbClear(t)
      PROVE  ActiveHasCause'
  BY <1>7 DEF CbClear
<1>8. ASSUME NEW t \in Threads, CbCall(t) \/ CbReturn(t)
      PROVE  ActiveHasCause'
  BY <1>8 DEF CbCall, CbReturn
<1>9. CASE UNCHANGED vars
  BY <1>9 DEF vars
<1> QED
  BY <1>1, <1>2, <1>3, <1>4, <1>5, <1>6, <1>7, <1>8, <1>9, TimerStepCases


-----------------------------------------------------------------------------
(***************************************************************************)
(* One start, at most one callback.                                        *)
(***************************************************************************)
\* The expiries under way are finitely many.
LEMMA OutstandingFinite ==
    /\ IsFiniteSet(Outstanding)
    /\ IsFiniteSet(Outstanding')
    /\ Cardinality(Outstanding) \in Nat
    /\ Cardinality(Outstanding') \in Nat
<1>1. Outstanding \subseteq Threads /\ Outstanding' \subseteq Threads
  BY DEF Outstanding
<1> QED
  BY <1>1, TimerAssumption, FS_Subset, FS_CardinalityType

\* A step after which the same threads have an expiry ahead of them, and at most
\* as many calls are made or due, keeps the bound.
LEMMA OneShotSame ==
    ASSUME TypeOK, TypeOK', OneShot, Outstanding' = Outstanding,
           fired' = fired, starts' = starts, armed' = armed \/ armed' = 0
    PROVE  OneShot'
BY OutstandingFinite DEF OneShot, TypeOK

\* Every step keeps the bound: a start adds one call that is due, and every later
\* step hands that call on or drops it.
LEMMA OneShotStep == TypeOK /\ TypeOK' /\ OneShot /\ [Next]_vars => OneShot'
<1> SUFFICES ASSUME TypeOK, TypeOK', OneShot, [Next]_vars
             PROVE  OneShot'
  OBVIOUS
<1> USE TimerAssumption DEF goto, return
<1>1. ASSUME NEW t \in Threads, NEW ticks \in Durations, StartTicks(t, ticks)
      PROVE  OneShot'
  <2>1. Outstanding' = Outstanding \cup {t} /\ t \notin Outstanding
    BY <1>1 DEF StartTicks, MayStart, Outstanding, TypeOK
  <2>2. Cardinality(Outstanding') = Cardinality(Outstanding) + 1
    BY <2>1, OutstandingFinite, FS_AddElement
  <2>3. starts' = starts + 1 /\ fired' = fired /\ armed' = armed
    BY <1>1 DEF StartTicks
  <2> QED
    BY <2>2, <2>3, OutstandingFinite DEF OneShot, TypeOK
<1>2. ASSUME NEW t \in Threads, StartSettime(t)
      PROVE  OneShot'
  <2>1. Outstanding' = Outstanding \ {t} /\ t \in Outstanding
    BY <1>2 DEF StartSettime, Outstanding, TypeOK
  <2>2. Cardinality(Outstanding') = Cardinality(Outstanding) - 1
    BY <2>1, OutstandingFinite, FS_RemoveElement
  <2>3. starts' = starts /\ fired' = fired
    BY <1>2 DEF StartSettime
  <2> QED
    BY <2>2, <2>3, OutstandingFinite DEF OneShot, TypeOK
<1>3. ASSUME NEW t \in Threads, t \in Notifiers, Expire(t)
      PROVE  OneShot'
  <2>1. Outstanding' = Outstanding \cup {t} /\ t \notin Outstanding
    BY <1>3 DEF Expire, Outstanding, TypeOK
  <2>2. Cardinality(Outstanding') = Cardinality(Outstanding) + 1
    BY <2>1, OutstandingFinite, FS_AddElement
  <2>3. starts' = starts /\ fired' = fired /\ armed # 0 /\ armed' = 0
    BY <1>3 DEF Expire
  <2> QED
    BY <2>2, <2>3, OutstandingFinite DEF OneShot, TypeOK
<1>4. ASSUME NEW t \in Threads, CbCall(t)
      PROVE  OneShot'
  <2>1. Outstanding' = Outstanding \ {t} /\ t \in Outstanding
    BY <1>4 DEF CbCall, Outstanding, TypeOK
  <2>2. Cardinality(Outstanding') = Cardinality(Outstanding) - 1
    BY <2>1, OutstandingFinite, FS_RemoveElement
  <2>3. starts' = starts /\ fired' = fired + 1 /\ armed' = armed
    BY <1>4 DEF CbCall
  <2> QED
    BY <2>2, <2>3, OutstandingFinite DEF OneShot, TypeOK
<1>5. ASSUME NEW t \in Threads,
             \/ StartActive(t) \/ StopSettime(t) \/ StopClear(t)
             \/ CbClear(t) \/ CbReturn(t)
      PROVE  OneShot'
  <2>1. Outstanding' = Outstanding
    BY <1>5 DEF StartActive, StopSettime, StopClear, CbClear, CbReturn, Outstanding, TypeOK
  <2>2. starts' = starts /\ fired' = fired /\ (armed' = armed \/ armed' = 0)
    BY <1>5 DEF StartActive, StopSettime, StopClear, CbClear, CbReturn
  <2> QED
    BY <2>1, <2>2, OneShotSame
<1>6. CASE UNCHANGED vars
  <2>1. Outstanding' = Outstanding
    BY <1>6 DEF vars, Outstanding
  <2> QED
    BY <1>6, <2>1, OneShotSame DEF vars
<1> QED
  BY <1>1, <1>2, <1>3, <1>4, <1>5, <1>6, TimerStepCases

-----------------------------------------------------------------------------
\* pos_timer_init() establishes all three invariants.
LEMMA TimerInit == Init => TypeOK /\ ActiveHasCause /\ OneShot
<1> SUFFICES ASSUME Init
             PROVE  TypeOK /\ ActiveHasCause /\ OneShot
  OBVIOUS
<1>1. \A t \in Threads :
         /\ pc[t] = IF t \in Clients THEN "idle" ELSE "none"
         /\ its[t].value = 0
         /\ its[t].id = 0
  BY DEF Init
<1>2. /\ pc \in [Threads -> ClientLabels \cup NotifierLabels]
      /\ its \in [Threads -> [value : Nat, id : 0 .. MaxStarts]]
  BY TimerAssumption DEF Init, ClientLabels, NotifierLabels
<1>3. TypeOK
  <2>1. ASSUME NEW t \in Threads
        PROVE  /\ pc[t] \in IF t \in Clients THEN ClientLabels ELSE NotifierLabels
               /\ pc[t] \notin {"start_active", "start_settime"}
               /\ its[t].value = 0 /\ its[t].id = 0
    BY <1>1, <2>1 DEF ClientLabels, NotifierLabels
  <2>2. tm_active \in BOOLEAN /\ solo \in BOOLEAN
    BY Zenon DEF Init
  <2>3. tm_ticks = 0 /\ armed = 0 /\ starts = 0 /\ fired = 0
    BY DEF Init
  <2>4. /\ tm_ticks \in 0 .. MaxStarts
        /\ armed \in 0 .. MaxStarts
        /\ starts \in 0 .. MaxStarts
        /\ fired \in Nat
    BY ONLY <2>3, TimerAssumption
  <2> QED
    BY ONLY <1>2, <2>1, <2>2, <2>4 DEF TypeOK
<1>4. OneShot
  <2>1. Outstanding = {}
    BY <1>1 DEF Outstanding
  <2> QED
    BY <2>1, FS_EmptySet DEF Init, OneShot
<1> QED
  BY <1>3, <1>4 DEF Init, ActiveHasCause

\* is_active() is never left true on a timer that nothing will clear, however
\* starts, stops, expiries and callbacks of any number of threads interleave.
THEOREM TimerNeverStuckActive == Spec => [](TypeOK /\ ActiveHasCause)
BY TimerInit, TimerTypeStep, ActiveStep, PTL DEF Spec

\* No start of the timer makes more than one call of tm_cb, also when starts and
\* stops overtake an expiry that is under way.
THEOREM TimerIsOneShot == Spec => []OneShot
BY TimerInit, TimerTypeStep, OneShotStep, PTL DEF Spec

-----------------------------------------------------------------------------
(***************************************************************************)
(* A timer that only its own callback restarts.                            *)
(***************************************************************************)

\* The labels from the beginning of a start to its system call, and from the expiry
\* to the last moment at which the callback may start the timer again.
Busy == {"start_active", "start_settime", "cb_clear", "cb_call", "cb_user"}

\* The timer is in one place: it runs, or is being started by one thread, or is with
\* one callback.  So tm_ticks and tm_active are written by one thread at a time.
OnePlace ==
    solo =>
        /\ \A t, u \in Threads : pc[t] \in Busy /\ pc[u] \in Busy => t = u
        /\ armed # 0 => /\ \A t \in Threads : pc[t] \notin Busy
                        /\ tm_active /\ tm_ticks = armed
        /\ \A t \in Threads :
              /\ pc[t] # "stop_clear"
              /\ pc[t] \in {"start_active", "start_settime"} => tm_ticks = its[t].id
              /\ pc[t] = "start_settime" => tm_active
        /\ starts = 0 => armed = 0 /\ \A t \in Threads : pc[t] \notin Busy

\* A step of one thread that leaves the busy labels to whom they belong.
LEMMA OnePlaceStep == TypeOK /\ OnePlace /\ [Next]_vars => OnePlace'
<1> SUFFICES ASSUME TypeOK, OnePlace, [Next]_vars, solo'
             PROVE  OnePlace'
  BY DEF OnePlace
<1> USE TimerAssumption DEF OnePlace, TypeOK, Busy, goto, return
<1>1. ASSUME NEW t \in Threads, NEW ticks \in Durations, StartTicks(t, ticks)
      PROVE  OnePlace'
  <2>1. solo /\ (t \in Clients => starts = 0)
    BY <1>1 DEF StartTicks
  <2>2. armed = 0 /\ \A u \in Threads \ {t} : pc[u] \notin Busy
    <3>1. CASE t \in Clients
      BY <2>1, <3>1
    <3>2. CASE t \notin Clients
      <4>1. pc[t] = "cb_user"
        BY <1>1, <3>2 DEF StartTicks, MayStart, Clients
      <4> QED
        BY <2>1, <4>1
    <3> QED
      BY <3>1, <3>2
  <2>3. /\ pc' = [pc EXCEPT ![t] = "start_active"]
        /\ tm_ticks' = starts + 1
        /\ its' = [its EXCEPT ![t] = [value |-> AtLeastOne(ticks), id |-> starts + 1]]
        /\ starts' = starts + 1
        /\ armed' = armed
    BY <1>1 DEF StartTicks
  <2>4. its'[t].id = tm_ticks' /\ pc'[t] = "start_active"
    BY <2>3
  <2>5. \A u \in Threads \ {t} : pc'[u] = pc[u]
    BY <2>3
  <2>6. starts' # 0
    BY <2>3
  <2>7. \A u \in Threads : pc'[u] # "stop_clear"
    BY <2>1, <2>4, <2>5
  <2> QED
    BY <2>2, <2>3, <2>4, <2>5, <2>6, <2>7
<1>2. ASSUME NEW t \in Threads, StartActive(t)
      PROVE  OnePlace'
  BY <1>2 DEF StartActive
<1>3. ASSUME NEW t \in Threads, StartSettime(t)
      PROVE  OnePlace'
  <2>1. /\ pc[t] = "start_settime" /\ its[t].value # 0 /\ solo
        /\ armed' = its[t].id
        /\ UNCHANGED <<tm_active, tm_ticks, starts>>
    BY <1>3 DEF StartSettime
  <2>2. \A u \in Threads : pc'[u] \notin Busy /\ pc'[u] # "stop_clear"
    BY <1>3, <2>1 DEF StartSettime
  <2>3. tm_active /\ tm_ticks = its[t].id /\ starts # 0
    BY <2>1
  <2> QED
    BY <2>1, <2>2, <2>3
<1>4. ASSUME NEW t \in Threads, StopSettime(t)
      PROVE  FALSE
  BY <1>4 DEF StopSettime
<1>5. ASSUME NEW t \in Threads, StopClear(t)
      PROVE  FALSE
  BY <1>5 DEF StopClear
<1>6. ASSUME NEW t \in Threads, t \in Notifiers, Expire(t)
      PROVE  OnePlace'
  BY <1>6 DEF Expire
<1>7. ASSUME NEW t \in Threads, CbClear(t)
      PROVE  OnePlace'
  BY <1>7 DEF CbClear
<1>8. ASSUME NEW t \in Threads, CbCall(t)
      PROVE  OnePlace'
  BY <1>8 DEF CbCall
<1>9. ASSUME NEW t \in Threads, CbReturn(t)
      PROVE  OnePlace'
  BY <1>9 DEF CbReturn
<1>10. CASE UNCHANGED vars
  BY <1>10 DEF vars
<1> QED
  BY <1>1, <1>2, <1>3, <1>4, <1>5, <1>6, <1>7, <1>8, <1>9, <1>10, TimerStepCases

\* A timer built to be periodic, that its own pos_timer_cb() restarts and nobody else
\* touches, is reported as active with its true expiry time whenever it runs.
THEOREM TimerRunningIsActive == Spec => []RunningIsActive
<1>1. Init => OnePlace
  BY TimerAssumption DEF Init, OnePlace, Busy
<1>2. OnePlace => RunningIsActive
  BY DEF OnePlace, RunningIsActive
<1> QED
  BY <1>1, <1>2, TimerInit, TimerTypeStep, OnePlaceStep, PTL DEF Spec
=============================================================================
