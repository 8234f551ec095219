------------------------- MODULE FreeRtosTimerProofs -------------------------
(***************************************************************************)
(* Proofs about FreeRtosTimer, for any number of tasks, any length of the  *)
(* command queue and any number of starts.                                 *)
(***************************************************************************)
EXTENDS FreeRtosTimer, FiniteSetTheorems, SequenceTheorems, TLAPS

Everyone == Tasks \cup {Daemon}
Commands == {"stop", "change", "reset"}
Labels   == {"idle", "start_change", "start_reset", "wait", "cb_stop", "cb_call", "cb_user",
             "cb_done"}

At(label) == Cardinality({t \in Everyone : pc[t] = label})

\* The positions of the commands in a queue that start the timer.
Arming(q) == {i \in 1 .. Len(q) : q[i] # "stop"}

\* A start has two expiries to give.  Each is with the task that has yet to send its
\* command, in the command queue, with the running timer, with the callback that is
\* about to be called, or has been called.
CreditInv ==
    fired + (At("cb_stop") + At("cb_call")) + (IF active THEN 1 ELSE 0)
          + Cardinality(Arming(cmdq)) + (2 * At("start_change") + At("start_reset"))
      <= 2 * starts

\* Where the timer task has priority over everyone, nobody else sends a command from
\* the expiry of the timer to the end of the callback, so that the timer task finds
\* its own commands only.
DaemonInv ==
    Ordered =>
        /\ pc[Daemon] = "cb_stop" => cmdq = << >> /\ ~due
        /\ pc[Daemon] \in {"cb_call", "cb_user"} => Len(cmdq) = 1
        /\ pc[Daemon] = "start_change" => Len(cmdq) = 2
        /\ pc[Daemon] = "start_reset" => Len(cmdq) = 3

\* What the timer will be when the commands in the queue have been executed.
WillRun == IF cmdq = << >> THEN active ELSE cmdq[Len(cmdq)] # "stop"

\* The part of StartFires that is an invariant: a start that has returned and was
\* followed neither by a stop nor by the expiry of the timer has left the timer
\* running or about to run, or another start is under way.
StartNotLost ==
    Ordered /\ due => WillRun \/ \E t \in Everyone : pc[t] \in {"start_change", "start_reset"}

-----------------------------------------------------------------------------
(***************************************************************************)
(* Commands in the queue.                                                  *)
(***************************************************************************)

\* There are finitely many of them.
LEMMA ArmingFinite ==
    ASSUME NEW q \in Seq(Commands)
    PROVE  IsFiniteSet(Arming(q)) /\ Cardinality(Arming(q)) \in Nat
<1>1. IsFiniteSet(1 .. Len(q))
  BY FS_Interval
<1>2. Arming(q) \in SUBSET (1 .. Len(q))
  BY DEF Arming
<1> QED BY <1>1, <1>2, FS_Subset, FS_CardinalityType

\* A command that is sent adds one, unless it is a stop.
LEMMA ArmingAppend ==
    ASSUME NEW q \in Seq(Commands), NEW c \in Commands
    PROVE  /\ Append(q, c) \in Seq(Commands)
           /\ Len(Append(q, c)) = Len(q) + 1
           /\ Cardinality(Arming(Append(q, c)))
                = Cardinality(Arming(q)) + (IF c = "stop" THEN 0 ELSE 1)
<1> DEFINE r == Append(q, c)
<1>1. r \in Seq(Commands) /\ Len(r) = Len(q) + 1 /\ Len(q) \in Nat
  OBVIOUS
<1>2. r[Len(q) + 1] = c /\ \A i \in 1 .. Len(q) : r[i] = q[i]
  OBVIOUS
<1>3. IsFiniteSet(Arming(q)) /\ Cardinality(Arming(q)) \in Nat /\ Len(q) + 1 \notin Arming(q)
  BY <1>1, ArmingFinite DEF Arming
<1> HIDE DEF r
<1>4. CASE c = "stop"
  <2>1. Arming(r) = Arming(q)
    BY <1>1, <1>2, <1>4 DEF Arming
  <2> QED BY <1>1, <1>3, <1>4, <2>1 DEF r
<1>5. CASE c # "stop"
  <2>1. Arming(r) = Arming(q) \cup {Len(q) + 1}
    BY <1>1, <1>2, <1>5 DEF Arming
  <2>2. Cardinality(Arming(r)) = Cardinality(Arming(q)) + 1
    BY <1>3, <2>1, FS_AddElement
  <2> QED BY <1>1, <1>5, <2>2 DEF r
<1> QED BY <1>4, <1>5

\* A command that is executed takes one away, unless it is a stop.
LEMMA ArmingTail ==
    ASSUME NEW q \in Seq(Commands), q # << >>
    PROVE  /\ Tail(q) \in Seq(Commands)
           /\ Len(Tail(q)) = Len(q) - 1
           /\ Cardinality(Arming(Tail(q)))
                = Cardinality(Arming(q)) - (IF Head(q) = "stop" THEN 0 ELSE 1)
<1> DEFINE r == Tail(q)
           S == Arming(r)
           T == Arming(q) \ {1}
           f == [i \in S |-> i + 1]
<1>1. r \in Seq(Commands) /\ Len(r) = Len(q) - 1 /\ Len(q) \in Nat /\ Len(q) > 0
      /\ \A i \in 1 .. Len(r) : r[i] = q[i + 1]
  OBVIOUS
<1>2. Head(q) = q[1]
  OBVIOUS
<1> HIDE DEF r
<1>3. f \in [S -> T]
  BY <1>1 DEF Arming
<1>4. \A i, j \in S : f[i] = f[j] => i = j
  BY <1>1 DEF Arming
<1>5. \A j \in T : \E i \in S : f[i] = j
  <2> SUFFICES ASSUME NEW j \in T PROVE \E i \in S : f[i] = j
    OBVIOUS
  <2>1. j \in 2 .. Len(q) /\ q[j] # "stop"
    BY <1>1 DEF Arming
  <2>2. j - 1 \in S
    BY <1>1, <2>1 DEF Arming
  <2>3. f[j - 1] = j
    BY <2>1, <2>2
  <2> QED BY <2>2, <2>3
<1>6. ExistsBijection(S, T)
  BY <1>3, <1>4, <1>5 DEF ExistsBijection, Bijection, Injection, Surjection, IsInjective
<1>7. IsFiniteSet(S) /\ Cardinality(S) \in Nat
  BY <1>1, ArmingFinite
<1>8. Cardinality(T) = Cardinality(S)
  <2> HIDE DEF S, T
  <2> QED BY <1>6, <1>7, FS_Bijection
<1>9. IsFiniteSet(Arming(q)) /\ Cardinality(Arming(q)) \in Nat
  BY ArmingFinite
<1>10. Cardinality(T) = IF 1 \in Arming(q) THEN Cardinality(Arming(q)) - 1
                                           ELSE Cardinality(Arming(q))
  BY <1>9, FS_RemoveElement
<1>11. (1 \in Arming(q)) <=> (Head(q) # "stop")
  BY <1>1, <1>2 DEF Arming
<1> HIDE DEF S, T
<1> QED BY <1>1, <1>7, <1>8, <1>9, <1>10, <1>11 DEF r, S

\* The commands of an interrupt handler that fit into the queue add two at most.
LEMMA ArmingFromISR ==
    ASSUME NEW q \in Seq(Commands), Len(q) <= QueueLength,
           NEW r, r = LET wanted == q \o <<"stop", "change", "reset">>
                      IN  IF Len(wanted) <= QueueLength THEN wanted
                                                        ELSE SubSeq(wanted, 1, QueueLength)
    PROVE  /\ r \in Seq(Commands) /\ Len(r) <= QueueLength
           /\ Cardinality(Arming(r)) <= Cardinality(Arming(q)) + 2
<1> DEFINE isr == <<"stop", "change", "reset">>
           wanted == q \o isr
<1>0. QueueLength \in Nat /\ Len(q) \in Nat
  BY TimerAssumption
<1>1. isr \in Seq(Commands) /\ Len(isr) = 3 /\ isr[1] = "stop"
  BY DEF Commands
<1>2. /\ wanted \in Seq(Commands) /\ Len(wanted) = Len(q) + 3
      /\ \A i \in 1 .. Len(q) : wanted[i] = q[i]
      /\ wanted[Len(q) + 1] = "stop"
  <2> HIDE DEF isr
  <2>0. /\ wanted \in Seq(Commands) /\ Len(wanted) = Len(q) + Len(isr)
        /\ \A i \in 1 .. Len(q) + Len(isr) :
              wanted[i] = IF i <= Len(q) THEN q[i] ELSE isr[i - Len(q)]
    BY <1>1, ConcatProperties
  <2> HIDE DEF wanted
  <2>1. wanted \in Seq(Commands) /\ Len(wanted) = Len(q) + 3
    BY <1>1, <2>0
  <2>2. \A i \in 1 .. Len(q) : wanted[i] = q[i]
    BY <1>0, <1>1, <2>0
  <2>3. wanted[Len(q) + 1] = isr[1]
    <3>1. Len(q) + 1 \in 1 .. Len(q) + Len(isr) /\ ~(Len(q) + 1 <= Len(q))
      BY <1>0, <1>1
    <3>2. (Len(q) + 1) - Len(q) = 1
      BY <1>0
    <3> QED BY <2>0, <3>1, <3>2
  <2> QED BY <1>1, <2>1, <2>2, <2>3
<1>3. r = IF Len(wanted) <= QueueLength THEN wanted ELSE SubSeq(wanted, 1, QueueLength)
  OBVIOUS
<1> HIDE DEF wanted
<1>4. /\ r \in Seq(Commands) /\ Len(r) <= QueueLength
      /\ Len(r) \in Nat /\ Len(r) <= Len(q) + 3
      /\ \A i \in 1 .. Len(r) : r[i] = wanted[i]
  <2>1. CASE Len(wanted) <= QueueLength
    BY <1>0, <1>2, <1>3, <2>1
  <2>2. CASE Len(wanted) > QueueLength
    <3>1. r = SubSeq(wanted, 1, QueueLength)
      BY <1>0, <1>2, <1>3, <2>2
    <3> QED BY <1>0, <1>2, <2>2, <3>1
  <2> QED BY <1>0, <1>2, <2>1, <2>2
<1>5. Arming(r) \subseteq (Arming(q) \cup {Len(q) + 2}) \cup {Len(q) + 3}
  <2> SUFFICES ASSUME NEW i \in Arming(r), i \notin Arming(q)
               PROVE  i = Len(q) + 2 \/ i = Len(q) + 3
    OBVIOUS
  <2>1. i \in 1 .. Len(r) /\ wanted[i] # "stop"
    BY <1>4 DEF Arming
  <2>2. i \notin 1 .. Len(q)
    BY <1>2, <2>1 DEF Arming
  <2>3. i # Len(q) + 1
    BY <1>2, <2>1
  <2> QED BY <1>0, <1>4, <2>1, <2>2, <2>3
<1>6. IsFiniteSet(Arming(q)) /\ Cardinality(Arming(q)) \in Nat
  BY ArmingFinite
<1> DEFINE A == Arming(q) \cup {Len(q) + 2}
           B == A \cup {Len(q) + 3}
<1>7. IsFiniteSet(A) /\ Cardinality(A) \in Nat /\ Cardinality(A) <= Cardinality(Arming(q)) + 1
  <2>1. /\ IsFiniteSet(A)
        /\ Cardinality(A) = IF Len(q) + 2 \in Arming(q) THEN Cardinality(Arming(q))
                                                       ELSE Cardinality(Arming(q)) + 1
    BY <1>6, FS_AddElement
  <2> HIDE DEF A
  <2> QED BY <1>6, <2>1
<1>8. IsFiniteSet(B) /\ Cardinality(B) \in Nat /\ Cardinality(B) <= Cardinality(A) + 1
  <2> HIDE DEF A
  <2>1. /\ IsFiniteSet(B)
        /\ Cardinality(B) = IF Len(q) + 3 \in A THEN Cardinality(A) ELSE Cardinality(A) + 1
    BY <1>7, FS_AddElement
  <2> HIDE DEF B
  <2> QED BY <1>7, <2>1
<1>9. Arming(r) \in SUBSET B
  BY <1>5
<1> HIDE DEF A, B
<1>10. Cardinality(Arming(r)) <= Cardinality(B) /\ Cardinality(Arming(r)) \in Nat
  BY <1>4, <1>8, <1>9, FS_Subset, ArmingFinite
<1> QED BY <1>4, <1>6, <1>7, <1>8, <1>10

-----------------------------------------------------------------------------
(***************************************************************************)
(* Tasks at labels.                                                        *)
(***************************************************************************)

\* The tasks at a label are finitely many.
LEMMA AtType ==
    ASSUME NEW label
    PROVE  IsFiniteSet({t \in Everyone : pc[t] = label}) /\ At(label) \in Nat
<1>1. IsFiniteSet(Everyone)
  BY TimerAssumption, FS_AddElement DEF Everyone
<1>2. {t \in Everyone : pc[t] = label} \in SUBSET Everyone
  OBVIOUS
<1> QED BY <1>1, <1>2, FS_Subset, FS_CardinalityType DEF At

\* The same in the next state.
LEMMA AtTypeNext ==
    ASSUME NEW label
    PROVE  IsFiniteSet({t \in Everyone : pc'[t] = label}) /\ At(label)' \in Nat
<1>1. IsFiniteSet(Everyone)
  BY TimerAssumption, FS_AddElement DEF Everyone
<1>2. {t \in Everyone : pc'[t] = label} \in SUBSET Everyone
  OBVIOUS
<1> QED BY <1>1, <1>2, FS_Subset, FS_CardinalityType DEF At

\* A task that goes to a label is one more there, and one less where it was.
LEMMA AtGoto ==
    ASSUME NEW label, NEW new, NEW t \in Everyone, TypeOK, goto(t, new)
    PROVE  At(label)' = At(label) + (IF new = label THEN 1 ELSE 0)
                                  - (IF pc[t] = label THEN 1 ELSE 0)
<1> DEFINE S == {u \in Everyone : pc[u] = label}
           T == {u \in Everyone : pc'[u] = label}
<1>1. IsFiniteSet(S) /\ Cardinality(S) \in Nat
  BY AtType DEF At
<1>2. CASE new = label
  <2>1. T = S \cup {t}
    BY <1>2 DEF goto, TypeOK, Everyone
  <2>2. Cardinality(T) = IF t \in S THEN Cardinality(S) ELSE Cardinality(S) + 1
    BY <1>1, <2>1, FS_AddElement
  <2> QED BY <1>1, <1>2, <2>2 DEF At
<1>3. CASE new # label
  <2>1. T = S \ {t}
    BY <1>3 DEF goto, TypeOK, Everyone
  <2>2. Cardinality(T) = IF t \in S THEN Cardinality(S) - 1 ELSE Cardinality(S)
    BY <1>1, <2>1, FS_RemoveElement
  <2> QED BY <1>1, <1>3, <2>2 DEF At
<1> QED BY <1>2, <1>3

-----------------------------------------------------------------------------
(***************************************************************************)
(* The steps.                                                              *)
(***************************************************************************)

\* What the types say, in the terms of this module.
LEMMA TypeFacts ==
    ASSUME TypeOK
    PROVE  /\ pc \in [Everyone -> Labels] /\ cmdq \in Seq(Commands) /\ Len(cmdq) <= QueueLength
           /\ active \in BOOLEAN /\ starts \in Nat /\ fired \in Nat /\ QueueLength \in Nat
BY TimerAssumption DEF TypeOK, Everyone, Labels, Commands

\* At the start nothing is under way.
LEMMA TimerInit == Init => TypeOK /\ CreditInv /\ DaemonInv /\ StartNotLost
<1> SUFFICES ASSUME Init PROVE TypeOK /\ CreditInv /\ DaemonInv /\ StartNotLost
  OBVIOUS
<1>1. TypeOK
  <2>1. cmdq \in Seq({"stop", "change", "reset"}) /\ Len(cmdq) <= QueueLength
    BY TimerAssumption DEF Init
  <2>2. starts \in 0 .. MaxStarts /\ fired \in Nat
    BY TimerAssumption DEF Init
  <2> QED BY <2>1, <2>2 DEF Init, TypeOK
<1>2. ASSUME NEW label \in {"start_change", "start_reset", "cb_stop", "cb_call"}
      PROVE  At(label) = 0
  <2>1. {t \in Everyone : pc[t] = label} = {}
    BY DEF Init, Everyone
  <2> QED BY <2>1, FS_EmptySet DEF At
<1>3. Cardinality(Arming(cmdq)) = 0
  <2>1. Arming(cmdq) = {}
    BY DEF Init, Arming
  <2> QED BY <2>1, FS_EmptySet
<1>4. CreditInv
  BY <1>2, <1>3 DEF Init, CreditInv
<1>5. DaemonInv /\ StartNotLost
  BY DEF Init, DaemonInv, StartNotLost, WillRun
<1> QED BY <1>1, <1>4, <1>5

\* The steps of Next, by who takes them.
LEMMA StepCases ==
    [Next]_vars =>
        \/ \E t \in Everyone : StartStop(t) \/ StartChange(t) \/ StartReset(t) \/ Stop(t)
        \/ StartFromISR \/ Command \/ Expire \/ CbStop \/ CbCall \/ CbReturn
        \/ UNCHANGED vars
BY DEF Next, StartStep, DaemonStep, Everyone

\* The types are kept.
LEMMA TypeStep == TypeOK /\ [Next]_vars => TypeOK'
<1> SUFFICES ASSUME TypeOK, [Next]_vars PROVE TypeOK'
  OBVIOUS
<1> USE TypeFacts
<1>0. ASSUME NEW c \in Commands, NEW t \in Everyone, NEW label \in Labels, Send(t, c, label)
      PROVE  /\ cmdq' \in Seq(Commands) /\ Len(cmdq') <= QueueLength
             /\ pc' \in [Everyone -> Labels]
  <2>1. cmdq' = Append(cmdq, c) /\ Len(cmdq) < QueueLength /\ pc' = [pc EXCEPT ![t] = label]
    BY <1>0 DEF Send, goto
  <2>2. Append(cmdq, c) \in Seq(Commands) /\ Len(Append(cmdq, c)) = Len(cmdq) + 1
    BY ArmingAppend
  <2> QED BY <2>1, <2>2
<1>1. ASSUME NEW t \in Everyone, StartStop(t) PROVE TypeOK'
  <2>1. Send(t, "stop", "start_change") /\ starts < MaxStarts /\ starts' = starts + 1
        /\ UNCHANGED <<system, active, fired, due>>
    BY <1>1 DEF StartStop
  <2>2. /\ cmdq' \in Seq(Commands) /\ Len(cmdq') <= QueueLength /\ pc' \in [Everyone -> Labels]
    BY <1>0, <2>1 DEF Commands, Labels
  <2>3. starts' \in 0 .. MaxStarts
    BY <2>1, TimerAssumption DEF TypeOK
  <2> QED BY <2>1, <2>2, <2>3 DEF TypeOK, Commands, Labels, Everyone
<1>2. ASSUME NEW t \in Everyone, StartChange(t) PROVE TypeOK'
  <2>1. Send(t, "change", "start_reset") /\ UNCHANGED <<system, active, starts, fired, due>>
    BY <1>2 DEF StartChange
  <2>2. /\ cmdq' \in Seq(Commands) /\ Len(cmdq') <= QueueLength /\ pc' \in [Everyone -> Labels]
    BY <1>0, <2>1 DEF Commands, Labels
  <2> QED BY <2>1, <2>2 DEF TypeOK, Commands, Labels, Everyone
<1>3. ASSUME NEW t \in Everyone, StartReset(t) PROVE TypeOK'
  <2> DEFINE label == IF t = Daemon THEN "cb_done" ELSE "idle"
  <2>1. Send(t, "reset", label) /\ due' = TRUE /\ UNCHANGED <<system, active, starts, fired>>
    BY <1>3 DEF StartReset
  <2>2. label \in Labels
    BY DEF Labels
  <2> HIDE DEF label
  <2>3. /\ cmdq' \in Seq(Commands) /\ Len(cmdq') <= QueueLength /\ pc' \in [Everyone -> Labels]
    BY <1>0, <2>1, <2>2 DEF Commands
  <2> QED BY <2>1, <2>3 DEF TypeOK, Commands, Labels, Everyone
<1>4. ASSUME NEW t \in Everyone, Stop(t) PROVE TypeOK'
  <2>1. Send(t, "stop", "idle") /\ due' = FALSE /\ UNCHANGED <<system, active, starts, fired>>
    BY <1>4 DEF Stop
  <2>2. /\ cmdq' \in Seq(Commands) /\ Len(cmdq') <= QueueLength /\ pc' \in [Everyone -> Labels]
    BY <1>0, <2>1 DEF Commands, Labels
  <2> QED BY <2>1, <2>2 DEF TypeOK, Commands, Labels, Everyone
<1>5. CASE StartFromISR
  <2>1. cmdq' \in Seq(Commands) /\ Len(cmdq') <= QueueLength
    BY <1>5, ArmingFromISR DEF StartFromISR
  <2>2. starts' \in 0 .. MaxStarts
    BY <1>5, TimerAssumption DEF StartFromISR, TypeOK
  <2> QED BY <1>5, <2>1, <2>2 DEF StartFromISR, TypeOK, Commands
<1>6. CASE Command
  <2>1. cmdq' \in Seq(Commands) /\ Len(cmdq') <= QueueLength
    BY <1>6, ArmingTail DEF Command
  <2>2. active' \in BOOLEAN
    BY <1>6 DEF Command
  <2> QED BY <1>6, <2>1, <2>2 DEF Command, TypeOK, Commands
<1>7. CASE Expire
  BY <1>7 DEF Expire, goto, TypeOK
<1>8. CASE CbStop
  <2>1. Send(Daemon, "stop", "cb_call") /\ UNCHANGED <<system, active, starts, fired, due>>
    BY <1>8 DEF CbStop
  <2>2. /\ cmdq' \in Seq(Commands) /\ Len(cmdq') <= QueueLength /\ pc' \in [Everyone -> Labels]
    BY <1>0, <2>1 DEF Commands, Labels, Everyone
  <2> QED BY <2>1, <2>2 DEF TypeOK, Commands, Labels, Everyone
<1>9. CASE CbCall
  BY <1>9 DEF CbCall, goto, TypeOK
<1>10. CASE CbReturn
  BY <1>10 DEF CbReturn, goto, TypeOK
<1>11. CASE UNCHANGED vars
  BY <1>11 DEF vars, TypeOK
<1> QED
  BY <1>1, <1>2, <1>3, <1>4, <1>5, <1>6, <1>7, <1>8, <1>9, <1>10, <1>11, StepCases

-----------------------------------------------------------------------------
(***************************************************************************)
(* Two expiries for each start.                                            *)
(***************************************************************************)

\* The balance, with the summands as numbers.
LEMMA Balance ==
    ASSUME NEW f \in Nat, NEW c \in Nat, NEW a \in Nat, NEW q \in Nat, NEW m \in Nat,
           NEW s \in Nat, f + c + a + q + m <= 2 * s,
           NEW f1 \in Nat, NEW c1 \in Nat, NEW a1 \in Nat, NEW q1 \in Nat, NEW m1 \in Nat,
           NEW s1 \in Nat,
           f1 + c1 + a1 + q1 + m1 + 2 * s <= f + c + a + q + m + 2 * s1
    PROVE  f1 + c1 + a1 + q1 + m1 <= 2 * s1
OBVIOUS

\* No step makes an expiry out of nothing.
LEMMA CreditStep == TypeOK /\ TypeOK' /\ CreditInv /\ [Next]_vars => CreditInv'
<1> SUFFICES ASSUME TypeOK, TypeOK', CreditInv, [Next]_vars PROVE CreditInv'
  OBVIOUS
<1> DEFINE f == fired                                    f1 == fired'
           c == At("cb_stop") + At("cb_call")            c1 == At("cb_stop")' + At("cb_call")'
           a == IF active THEN 1 ELSE 0                  a1 == IF active' THEN 1 ELSE 0
           q == Cardinality(Arming(cmdq))                q1 == Cardinality(Arming(cmdq'))
           m == 2 * At("start_change") + At("start_reset")
           m1 == 2 * At("start_change")' + At("start_reset")'
           s == starts                                   s1 == starts'
<1>0. \A l \in {"cb_stop", "cb_call", "start_change", "start_reset"} :
         At(l) \in Nat /\ At(l)' \in Nat
  BY AtType, AtTypeNext
<1>1. f \in Nat /\ c \in Nat /\ a \in Nat /\ q \in Nat /\ m \in Nat /\ s \in Nat
  <2>1. q \in Nat
    BY TypeFacts, ArmingFinite
  <2>2. c \in Nat /\ m \in Nat
    BY <1>0
  <2> QED BY <2>1, <2>2, TypeFacts
<1>2. f1 \in Nat /\ c1 \in Nat /\ a1 \in Nat /\ q1 \in Nat /\ m1 \in Nat /\ s1 \in Nat
  <2>1. cmdq' \in Seq(Commands) /\ f1 \in Nat /\ s1 \in Nat
    BY TimerAssumption DEF TypeOK, Commands
  <2>2. q1 \in Nat
    BY <2>1, ArmingFinite
  <2>3. c1 \in Nat /\ m1 \in Nat
    BY <1>0
  <2> QED BY <2>1, <2>2, <2>3
<1>3. f + c + a + q + m <= 2 * s
  BY DEF CreditInv
<1>4. ASSUME f1 + c1 + a1 + q1 + m1 + 2 * s <= f + c + a + q + m + 2 * s1 PROVE CreditInv'
  <2>1. f1 + c1 + a1 + q1 + m1 <= 2 * s1
    <3> HIDE DEF f, c, a, q, m, s, f1, c1, a1, q1, m1, s1
    <3> QED BY <1>1, <1>2, <1>3, <1>4, Balance
  <2> QED BY <2>1 DEF CreditInv
<1>5. ASSUME NEW t \in Everyone, NEW label, goto(t, label)
      PROVE  \A l \in {"cb_stop", "cb_call", "start_change", "start_reset"} :
                At(l)' = At(l) + (IF label = l THEN 1 ELSE 0) - (IF pc[t] = l THEN 1 ELSE 0)
  BY <1>5, AtGoto
<1>6. ASSUME NEW x \in Commands, NEW t, NEW label, Send(t, x, label)
      PROVE  q1 = q + (IF x = "stop" THEN 0 ELSE 1)
  BY <1>6, TypeFacts, ArmingAppend DEF Send
<1>61. ASSUME NEW t, NEW label, Send(t, "stop", label) PROVE q1 = q
  <2>1. q1 = q + (IF "stop" = "stop" THEN 0 ELSE 1)
    <3>1. "stop" \in Commands
      BY DEF Commands
    <3> HIDE DEF q, q1
    <3> QED BY <1>6, <1>61, <3>1
  <2> HIDE DEF q, q1
  <2> QED BY <1>1, <2>1
<1>7. ASSUME UNCHANGED pc PROVE c1 = c /\ m1 = m
  BY <1>7 DEF At
<1>8. ASSUME NEW t \in Everyone, StartStop(t) PROVE CreditInv'
  <2>0. f1 = f /\ a1 = a /\ s1 = s + 1 /\ Send(t, "stop", "start_change")
    BY <1>8 DEF StartStop
  <2>1. q1 = q
    BY <1>61, <2>0
  <2>2. goto(t, "start_change") /\ pc[t] \in {"idle", "cb_user"}
    BY <1>8 DEF StartStop, Send, MayStart
  <2>3. c1 = c /\ m1 = m + 2
    BY <1>0, <1>5, <2>2
  <2> HIDE DEF f, c, a, q, m, s, f1, c1, a1, q1, m1, s1
  <2> QED BY <1>1, <1>4, <2>0, <2>1, <2>3
<1>9. ASSUME NEW t \in Everyone, StartChange(t) PROVE CreditInv'
  <2>1. q1 = q + 1 /\ f1 = f /\ a1 = a /\ s1 = s
    BY <1>6, <1>9 DEF StartChange, Commands
  <2>2. goto(t, "start_reset") /\ pc[t] = "start_change"
    BY <1>9 DEF StartChange, Send
  <2>3. c1 = c /\ m1 = m - 1
    BY <1>0, <1>5, <2>2
  <2> HIDE DEF f, c, a, q, m, s, f1, c1, a1, q1, m1, s1
  <2> QED BY <1>1, <1>4, <2>1, <2>3
<1>10. ASSUME NEW t \in Everyone, StartReset(t) PROVE CreditInv'
  <2> DEFINE label == IF t = Daemon THEN "cb_done" ELSE "idle"
  <2>1. q1 = q + 1 /\ f1 = f /\ a1 = a /\ s1 = s
    BY <1>6, <1>10 DEF StartReset, Commands
  <2>2. goto(t, label) /\ pc[t] = "start_reset" /\ label \in {"cb_done", "idle"}
    BY <1>10 DEF StartReset, Send
  <2> HIDE DEF label
  <2>3. c1 = c /\ m1 = m - 1
    BY <1>0, <1>5, <2>2
  <2> HIDE DEF f, c, a, q, m, s, f1, c1, a1, q1, m1, s1
  <2> QED BY <1>1, <1>4, <2>1, <2>3
<1>11. ASSUME NEW t \in Everyone, Stop(t) PROVE CreditInv'
  <2>0. f1 = f /\ a1 = a /\ s1 = s /\ Send(t, "stop", "idle")
    BY <1>11 DEF Stop
  <2>1. q1 = q
    BY <1>61, <2>0
  <2>2. goto(t, "idle") /\ pc[t] = "idle"
    BY <1>11 DEF Stop, Send
  <2>3. c1 = c /\ m1 = m
    BY <1>0, <1>5, <2>2
  <2> HIDE DEF f, c, a, q, m, s, f1, c1, a1, q1, m1, s1
  <2> QED BY <1>1, <1>4, <2>0, <2>1, <2>3
<1>12. CASE StartFromISR
  <2>1. f1 = f /\ a1 = a /\ s1 = s + 1 /\ UNCHANGED pc
    BY <1>12 DEF StartFromISR
  <2>2. q1 <= q + 2
    BY <1>12, TypeFacts, ArmingFromISR DEF StartFromISR
  <2>3. c1 = c /\ m1 = m
    BY <1>7, <2>1
  <2> HIDE DEF f, c, a, q, m, s, f1, c1, a1, q1, m1, s1
  <2> QED BY <1>1, <1>2, <1>4, <2>1, <2>2, <2>3
<1>13. CASE Command
  <2>1. f1 = f /\ s1 = s /\ UNCHANGED pc
    BY <1>13 DEF Command
  <2>2. q1 = q - (IF Head(cmdq) = "stop" THEN 0 ELSE 1)
    BY <1>13, TypeFacts, ArmingTail DEF Command
  <2>3. a1 = IF Head(cmdq) = "stop" THEN 0 ELSE 1
    BY <1>13 DEF Command
  <2>4. q1 + a1 <= q + a
    <3> HIDE DEF a, q, q1, a1
    <3> QED BY <1>1, <2>2, <2>3
  <2>5. c1 = c /\ m1 = m
    BY <1>7, <2>1
  <2> HIDE DEF f, c, a, q, m, s, f1, c1, a1, q1, m1, s1
  <2> QED BY <1>1, <1>2, <1>4, <2>1, <2>4, <2>5
<1>14. CASE Expire
  <2>0. f1 = f /\ s1 = s /\ cmdq' = cmdq /\ active = TRUE /\ active' = FALSE
    BY <1>14 DEF Expire
  <2>1. f1 = f /\ s1 = s /\ q1 = q /\ a = 1 /\ a1 = 0
    BY <2>0
  <2>2. Daemon \in Everyone /\ goto(Daemon, "cb_stop") /\ pc[Daemon] = "wait"
    BY <1>14 DEF Expire, Everyone
  <2>3. c1 = c + 1 /\ m1 = m
    BY <1>0, <1>5, <2>2
  <2> HIDE DEF f, c, a, q, m, s, f1, c1, a1, q1, m1, s1
  <2> QED BY <1>1, <1>4, <2>1, <2>3
<1>15. CASE CbStop
  <2>0. f1 = f /\ a1 = a /\ s1 = s /\ Send(Daemon, "stop", "cb_call")
    BY <1>15 DEF CbStop
  <2>1. q1 = q
    BY <1>61, <2>0
  <2>2. Daemon \in Everyone /\ goto(Daemon, "cb_call") /\ pc[Daemon] = "cb_stop"
    BY <1>15 DEF CbStop, Send, Everyone
  <2>3. c1 = c /\ m1 = m
    BY <1>0, <1>5, <2>2
  <2> HIDE DEF f, c, a, q, m, s, f1, c1, a1, q1, m1, s1
  <2> QED BY <1>1, <1>4, <2>0, <2>1, <2>3
<1>16. CASE CbCall
  <2>1. q1 = q /\ f1 = f + 1 /\ a1 = a /\ s1 = s
    BY <1>16 DEF CbCall
  <2>2. Daemon \in Everyone /\ goto(Daemon, "cb_user") /\ pc[Daemon] = "cb_call"
    BY <1>16 DEF CbCall, Everyone
  <2>3. c1 = c - 1 /\ m1 = m
    <3>1. At("cb_stop")' = At("cb_stop") /\ At("cb_call")' = At("cb_call") - 1
      BY <1>0, <1>5, <2>2
    <3>2. At("start_change")' = At("start_change") /\ At("start_reset")' = At("start_reset")
      BY <1>0, <1>5, <2>2
    <3>3. At("cb_stop") \in Nat /\ At("cb_call") \in Nat
      BY <1>0
    <3> QED BY <3>1, <3>2, <3>3
  <2> HIDE DEF f, c, a, q, m, s, f1, c1, a1, q1, m1, s1
  <2> QED BY <1>1, <1>4, <2>1, <2>3
<1>17. CASE CbReturn
  <2>1. q1 = q /\ f1 = f /\ a1 = a /\ s1 = s
    BY <1>17 DEF CbReturn
  <2>2. Daemon \in Everyone /\ goto(Daemon, "wait") /\ pc[Daemon] \in {"cb_user", "cb_done"}
    BY <1>17 DEF CbReturn, Everyone
  <2>3. c1 = c /\ m1 = m
    BY <1>0, <1>5, <2>2
  <2> HIDE DEF f, c, a, q, m, s, f1, c1, a1, q1, m1, s1
  <2> QED BY <1>1, <1>4, <2>1, <2>3
<1>18. CASE UNCHANGED vars
  BY <1>18 DEF vars, CreditInv, At
<1> QED
  BY <1>8, <1>9, <1>10, <1>11, <1>12, <1>13, <1>14, <1>15, <1>16, <1>17, <1>18, StepCases

-----------------------------------------------------------------------------
(***************************************************************************)
(* The timer task before everyone.                                         *)
(***************************************************************************)

\* Where the timer task has priority, others run only while it waits for commands
\* and there are none.
LEMMA OthersYield ==
    ASSUME Ordered, NEW t \in Everyone, t # Daemon, Runs(t)
    PROVE  pc[Daemon] = "wait" /\ cmdq = << >>
BY DEF Ordered, Runs

\* From its expiry on, the timer has the timer task for itself.
LEMMA DaemonStepInv == TypeOK /\ DaemonInv /\ [Next]_vars => DaemonInv'
<1> SUFFICES ASSUME TypeOK, DaemonInv, [Next]_vars, Ordered' PROVE DaemonInv'
  BY DEF DaemonInv
<1>0. Daemon \in Everyone /\ UNCHANGED system /\ Ordered
  <2>1. UNCHANGED system
    BY StepCases DEF StartStop, StartChange, StartReset, Stop, StartFromISR, Command, Expire,
                     CbStop, CbCall, CbReturn, vars
  <2> QED BY <2>1 DEF Ordered, Everyone
<1>1. ASSUME NEW t \in Everyone, t # Daemon,
             StartStop(t) \/ StartChange(t) \/ StartReset(t) \/ Stop(t)
      PROVE  DaemonInv'
  <2>1. pc[Daemon] = "wait"
    BY <1>0, <1>1, OthersYield DEF StartStop, StartChange, StartReset, Stop
  <2>2. pc'[Daemon] = pc[Daemon]
    BY <1>0, <1>1, TypeFacts DEF StartStop, StartChange, StartReset, Stop, Send, goto
  <2> QED BY <2>1, <2>2 DEF DaemonInv
<1>2. ASSUME NEW x \in Commands, NEW label, Send(Daemon, x, label)
      PROVE  Len(cmdq') = Len(cmdq) + 1 /\ pc'[Daemon] = label /\ Len(cmdq) \in Nat
  BY <1>0, <1>2, TypeFacts DEF Send, goto
<1>3. CASE StartStop(Daemon)
  <2>1. pc[Daemon] = "cb_user" /\ Send(Daemon, "stop", "start_change")
    BY <1>3, TimerAssumption DEF StartStop, MayStart, Tasks
  <2>2. Len(cmdq) = 1
    BY <1>0, <2>1 DEF DaemonInv
  <2>3. Len(cmdq') = 2 /\ pc'[Daemon] = "start_change"
    BY <1>2, <2>1, <2>2 DEF Commands
  <2> QED BY <2>3 DEF DaemonInv
<1>4. CASE StartChange(Daemon)
  <2>1. pc[Daemon] = "start_change" /\ Send(Daemon, "change", "start_reset")
    BY <1>4 DEF StartChange
  <2>2. Len(cmdq) = 2
    BY <1>0, <2>1 DEF DaemonInv
  <2>3. Len(cmdq') = 3 /\ pc'[Daemon] = "start_reset"
    BY <1>2, <2>1, <2>2 DEF Commands
  <2> QED BY <2>3 DEF DaemonInv
<1>5. CASE StartReset(Daemon)
  <2>1. pc'[Daemon] = "cb_done"
    BY <1>2, <1>5 DEF StartReset, Commands
  <2> QED BY <2>1 DEF DaemonInv
<1>6. CASE Stop(Daemon)
  BY <1>6, TimerAssumption DEF Stop, Tasks
<1>7. CASE StartFromISR
  BY <1>0, <1>7 DEF StartFromISR, Ordered
<1>8. CASE Command
  BY <1>8 DEF Command, DaemonInv
<1>9. CASE Expire
  <2>1. pc'[Daemon] = "cb_stop" /\ cmdq' = << >> /\ due' = FALSE
    BY <1>0, <1>9, TypeFacts DEF Expire, goto
  <2> QED BY <2>1 DEF DaemonInv
<1>10. CASE CbStop
  <2>1. pc[Daemon] = "cb_stop" /\ Send(Daemon, "stop", "cb_call")
    BY <1>10 DEF CbStop
  <2>2. Len(cmdq) = 0
    BY <1>0, <2>1 DEF DaemonInv
  <2>3. Len(cmdq') = 1 /\ pc'[Daemon] = "cb_call"
    BY <1>2, <2>1, <2>2 DEF Commands
  <2> QED BY <2>3 DEF DaemonInv
<1>11. CASE CbCall
  <2>1. pc[Daemon] = "cb_call" /\ pc'[Daemon] = "cb_user" /\ UNCHANGED cmdq
    BY <1>0, <1>11, TypeFacts DEF CbCall, goto
  <2> QED BY <1>0, <2>1 DEF DaemonInv
<1>12. CASE CbReturn
  <2>1. pc'[Daemon] = "wait"
    BY <1>0, <1>12, TypeFacts DEF CbReturn, goto
  <2> QED BY <2>1 DEF DaemonInv
<1>13. CASE UNCHANGED vars
  BY <1>13 DEF vars, DaemonInv, Ordered
<1> QED
  BY <1>1, <1>3, <1>4, <1>5, <1>6, <1>7, <1>8, <1>9, <1>10, <1>11, <1>12, <1>13, StepCases

\* No step takes the effect of a start away from it, but a stop and the expiry.
LEMMA NotLostStep == TypeOK /\ DaemonInv /\ StartNotLost /\ [Next]_vars => StartNotLost'
<1> SUFFICES ASSUME TypeOK, DaemonInv, StartNotLost, [Next]_vars, Ordered', due'
             PROVE  WillRun' \/ \E t \in Everyone : pc'[t] \in {"start_change", "start_reset"}
  BY DEF StartNotLost
<1>0. Daemon \in Everyone /\ Ordered
  <2>1. UNCHANGED system
    BY StepCases DEF StartStop, StartChange, StartReset, Stop, StartFromISR, Command, Expire,
                     CbStop, CbCall, CbReturn, vars
  <2> QED BY <2>1 DEF Ordered, Everyone
<1>1. ASSUME NEW t, NEW x \in {"change", "reset"}, NEW label, Send(t, x, label) PROVE WillRun'
  <2>1. cmdq' = Append(cmdq, x) /\ cmdq \in Seq(Commands) /\ x \in Commands
    BY <1>1, TypeFacts DEF Send, Commands
  <2>2. cmdq' # << >> /\ cmdq'[Len(cmdq')] = x
    BY <2>1
  <2> QED BY <1>1, <2>2 DEF WillRun
<1>2. ASSUME NEW t \in Everyone, StartStop(t)
      PROVE  \E u \in Everyone : pc'[u] \in {"start_change", "start_reset"}
  BY <1>2, TypeFacts DEF StartStop, Send, goto
<1>3. ASSUME NEW t \in Everyone, StartChange(t) \/ StartReset(t) PROVE WillRun'
  BY <1>1, <1>3 DEF StartChange, StartReset
<1>4. ASSUME NEW t \in Everyone, Stop(t) PROVE FALSE
  BY <1>4 DEF Stop
<1>5. CASE StartFromISR
  BY <1>0, <1>5 DEF StartFromISR, Ordered
<1>6. CASE Command
  <2>1. cmdq \in Seq(Commands) /\ cmdq # << >> /\ cmdq' = Tail(cmdq) /\ UNCHANGED <<pc, due>>
        /\ active' = (Head(cmdq) # "stop")
    BY <1>6, TypeFacts DEF Command
  <2>2. CASE WillRun
    <3>1. cmdq[Len(cmdq)] # "stop" /\ Len(cmdq) \in Nat /\ Len(cmdq) > 0
      BY <2>1, <2>2 DEF WillRun
    <3>2. CASE Len(cmdq) = 1
      <4>1. Head(cmdq) = cmdq[1] /\ cmdq[1] # "stop"
        BY <2>1, <3>1, <3>2
      <4>2. Len(cmdq') = 0 /\ cmdq' \in Seq(Commands)
        BY <2>1, <3>1, <3>2, HeadTailProperties
      <4>3. cmdq' = << >>
        BY <4>2, EmptySeq
      <4> QED BY <2>1, <4>1, <4>3 DEF WillRun
    <3>3. CASE Len(cmdq) # 1
      <4>0. Len(cmdq') = Len(cmdq) - 1
        BY <2>1, HeadTailProperties
      <4>1. Len(cmdq') = Len(cmdq) - 1 /\ cmdq' # << >>
        <5>1. Len(cmdq') # 0
          BY <3>1, <3>3, <4>0
        <5> QED BY <4>0, <5>1, EmptySeq
      <4>2. cmdq'[Len(cmdq')] = cmdq[Len(cmdq)]
        BY <2>1, <3>1, <3>3, <4>1
      <4> QED BY <3>1, <4>1, <4>2 DEF WillRun
    <3> QED BY <3>2, <3>3
  <2> QED BY <1>0, <2>1, <2>2 DEF StartNotLost
<1>7. CASE Expire
  BY <1>7 DEF Expire
<1>8. CASE CbStop
  BY <1>0, <1>8 DEF CbStop, DaemonInv
<1>9. CASE CbCall \/ CbReturn
  <2>1. UNCHANGED <<cmdq, active, due>> /\ pc[Daemon] \notin {"start_change", "start_reset"}
        /\ \A t \in Everyone \ {Daemon} : pc'[t] = pc[t]
    BY <1>9, TypeFacts DEF CbCall, CbReturn, goto
  <2> QED BY <1>0, <2>1 DEF StartNotLost, WillRun
<1>10. CASE UNCHANGED vars
  BY <1>0, <1>10 DEF vars, StartNotLost, WillRun
<1> QED
  BY <1>2, <1>3, <1>4, <1>5, <1>6, <1>7, <1>8, <1>9, <1>10, StepCases

-----------------------------------------------------------------------------
(***************************************************************************)
(* Results.                                                                *)
(***************************************************************************)

\* Tasks are at labels of os_timer.c and the command queue keeps to its length, also
\* when an interrupt handler sends three commands at once.
THEOREM FreeRtosTimerTypes == Spec => []TypeOK
BY TimerInit, TypeStep, PTL DEF Spec

\* timer->func is called at most twice for each pos_timer_start(), for any number of
\* tasks and interrupts that start and stop, any length of the command queue, and in
\* every kind of system.
THEOREM FreeRtosAtMostTwice == Spec => []AtMostTwice
<1>1. TypeOK /\ CreditInv => AtMostTwice
  <2> SUFFICES ASSUME TypeOK, CreditInv PROVE AtMostTwice
    OBVIOUS
  <2>1. \A l \in {"cb_stop", "cb_call", "start_change", "start_reset"} : At(l) \in Nat
    BY AtType
  <2>2. Cardinality(Arming(cmdq)) \in Nat /\ fired \in Nat /\ starts \in Nat
    BY TypeFacts, ArmingFinite
  <2> DEFINE rest == (At("cb_stop") + At("cb_call")) + (IF active THEN 1 ELSE 0)
                       + Cardinality(Arming(cmdq)) + (2 * At("start_change") + At("start_reset"))
  <2>3. rest \in Nat
    BY <2>1, <2>2
  <2>4. fired + rest <= 2 * starts
    BY <2>1, <2>2 DEF CreditInv
  <2> HIDE DEF rest
  <2> QED BY <2>2, <2>3, <2>4 DEF AtMostTwice
<1> QED BY <1>1, TimerInit, TypeStep, CreditStep, PTL DEF Spec

\* What the callback sends, and what it may send.
QueueLongEnough == QueueLength >= IF Restarting THEN 4 ELSE 2

\* If the timer task has priority over all callers and its queue has four entries (two,
\* if the callback does not start the timer again), pos_timer_cb() never waits
\* for room that only its own task can make.
THEOREM FreeRtosDaemonNeverBlocks ==
    ASSUME QueueLongEnough
    PROVE  Spec => []DaemonNeverBlocks
<1> DEFINE StartsOwn == pc[Daemon] \in {"start_change", "start_reset"} => Restarting
<1>1. Init => StartsOwn
  BY DEF Init
<1>2. TypeOK /\ StartsOwn /\ [Next]_vars => StartsOwn'
  <2> SUFFICES ASSUME TypeOK, StartsOwn, [Next]_vars, ~Restarting
               PROVE  pc'[Daemon] \notin {"start_change", "start_reset"}
    OBVIOUS
  <2>1. ASSUME NEW t \in Everyone, StartStop(t) \/ StartChange(t) \/ StartReset(t) \/ Stop(t)
        PROVE  pc'[Daemon] = pc[Daemon] \/ pc'[Daemon] \in {"cb_done", "idle"}
    <3>1. CASE t # Daemon
      BY <2>1, <3>1, TypeFacts DEF StartStop, StartChange, StartReset, Stop, Send, goto, Everyone
    <3>2. CASE t = Daemon
      BY <2>1, <3>2, TypeFacts, TimerAssumption
      DEF StartStop, StartChange, StartReset, Stop, Send, goto, Everyone, MayStart, Tasks
    <3> QED BY <3>1, <3>2
  <2> QED BY <2>1, StepCases, TypeFacts
      DEF StartFromISR, Command, Expire, CbStop, CbCall, CbReturn, Send, goto, vars, Everyone
<1>3. TypeOK /\ DaemonInv /\ StartsOwn => DaemonNeverBlocks
  <2> SUFFICES ASSUME TypeOK, DaemonInv, StartsOwn, Ordered,
                      pc[Daemon] \in {"cb_stop", "cb_user", "start_change", "start_reset"}
               PROVE  Len(cmdq) < QueueLength
    BY DEF DaemonNeverBlocks
  <2>1. QueueLength \in Nat /\ QueueLength >= 2 /\ (Restarting => QueueLength >= 4)
    BY TimerAssumption DEF QueueLongEnough
  <2>2. CASE pc[Daemon] = "cb_stop"
    <3>1. Len(cmdq) = 0
      BY <2>2 DEF DaemonInv
    <3> QED BY <2>1, <3>1
  <2>3. CASE pc[Daemon] = "cb_user"
    <3>1. Len(cmdq) = 1
      BY <2>3 DEF DaemonInv
    <3> QED BY <2>1, <3>1
  <2>4. CASE pc[Daemon] \in {"start_change", "start_reset"}
    <3>1. Len(cmdq) = 2 \/ Len(cmdq) = 3
      BY <2>4 DEF DaemonInv
    <3>2. QueueLength >= 4
      BY <2>1, <2>4
    <3> DEFINE n == Len(cmdq)
    <3> HIDE DEF n
    <3>3. n = 2 \/ n = 3
      BY <3>1 DEF n
    <3>4. n < QueueLength
      BY <2>1, <3>2, <3>3
    <3> QED BY <3>4 DEF n
  <2> QED BY <2>2, <2>3, <2>4
<1> QED
  BY <1>1, <1>2, <1>3, TimerInit, TypeStep, DaemonStepInv, PTL DEF Spec

\* If the timer task has priority over all callers, the stop that pos_timer_cb() sends
\* never cancels a later pos_timer_start(): until the timer expires or is stopped it
\* runs, or the last command in the queue will make it run, or another start is under
\* way.  This is the invariant behind StartFires.
THEOREM FreeRtosStartNotLost == Spec => []StartNotLost
BY TimerInit, TypeStep, DaemonStepInv, NotLostStep, PTL DEF Spec
=============================================================================
