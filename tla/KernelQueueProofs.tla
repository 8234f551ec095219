-------------------------- MODULE KernelQueueProofs --------------------------
(***************************************************************************)
(* Proofs about KernelQueue, for every set of callers, every capacity and  *)
(* every choice of the ports: the types, the signal callback of the Zephyr *)
(* port, and that the queue implements MessageQueue.                       *)
(***************************************************************************)
EXTENDS KernelQueue, TLAPS

Ops      == {"idle", "put", "get", "is_empty"}
Statuses == {"pending", "POS_OK", "POS_ERROR", "POS_TIMEOUT", "true", "false"}
CallType == [op : Ops, tmo : Timeouts, status : Statuses, item : Items \cup {NoItem}]

\* Where a caller is and the call it makes belong together: a call is pending until
\* the kernel has done it, and only a put that has stored its message comes to the
\* callback.
CallOK(p, c) ==
    /\ p = "idle" => c = Idle
    /\ p = "kernel" => c.op # "idle" /\ c.status = "pending"
    /\ p \in {"put_check_cb", "put_cb"} => c.op = "put" /\ c.status = "POS_OK"
    /\ p = "return" => c.status # "pending"
    /\ c.op = "put" => c.item \in Items
    /\ c.op = "get" /\ c.status = "pending" => c.item = NoItem

CallInv == \A t \in Callers : CallOK(pc[t], call[t])

\* The pointer and the argument differ only while one of them is yet to be stored,
\* and a put that nobody overlapped has found both in place.
CallbackInv ==
    /\ setting = "none" => sig_arg = sig_cb
    /\ setting # "none" => sig_cb = setting
    /\ \A t \in Callers : pc[t] = "put_cb" /\ ~overlap[t] => setting = "none" /\ sig_cb = "cb"
    /\ phase = "abort_callback" => \E t \in Callers : overlap[t]

KernelInv == TypeOK /\ CallInv

-----------------------------------------------------------------------------
(***************************************************************************)
(* Records of calls.                                                       *)
(***************************************************************************)

\* A call with another status, as every operation leaves it.
LEMMA StatusSet ==
    ASSUME NEW c \in CallType, NEW s \in Statuses
    PROVE  LET d == [c EXCEPT !.status = s]
           IN  d \in CallType /\ d.op = c.op /\ d.tmo = c.tmo /\ d.status = s /\ d.item = c.item
BY DEF CallType

\* A call with another status and message, as a get leaves it.
LEMMA StatusItemSet ==
    ASSUME NEW c \in CallType, NEW s \in Statuses, NEW x \in Items \cup {NoItem}
    PROVE  LET d == [c EXCEPT !.status = s, !.item = x]
           IN  d \in CallType /\ d.op = c.op /\ d.tmo = c.tmo /\ d.status = s /\ d.item = x
BY DEF CallType

\* Two calls with the same fields are the same.
LEMMA SameCall ==
    ASSUME NEW c \in CallType, NEW d \in CallType,
           c.op = d.op, c.tmo = d.tmo, c.status = d.status, c.item = d.item
    PROVE  c = d
BY DEF CallType

\* The record of a caller that makes no call.
LEMMA IdleType ==
    /\ Idle \in CallType
    /\ Idle.op = "idle" /\ Idle.tmo = "NO_WAIT" /\ Idle.status = "pending" /\ Idle.item = NoItem
BY DEF CallType, Idle, Timeouts, Ops, Statuses

\* The calls a caller may begin.
LEMMA NewCall ==
    ASSUME NEW t \in Callers,
           NEW c \in [op : {"put"}, tmo : {"NO_WAIT"}, status : {"pending"}, item : Items]
                \cup [op : {"get"}, tmo : IF t \in Isrs THEN {"NO_WAIT"} ELSE Timeouts,
                      status : {"pending"}, item : {NoItem}]
                \cup [op : {"is_empty"}, tmo : {"NO_WAIT"}, status : {"pending"}, item : {NoItem}]
    PROVE  /\ c \in CallType
           /\ c.op # "idle" /\ c.status = "pending"
           /\ c.op = "put" => c.item \in Items
           /\ c.op = "get" => c.item = NoItem
BY DEF CallType, Timeouts, Ops, Statuses

\* What the ports make of a full queue and of the results of the kernel.
LEMMA PortResults ==
    ASSUME TypeOK, NEW t \in Callers
    PROVE  /\ whenFull(t) \in {"assert", "block", "POS_ERROR"}
           /\ pos_queue_get("0") = "POS_OK"
           /\ pos_queue_get("ENOMSG") \in {"POS_OK", "POS_ERROR"}
           /\ pos_queue_get("EAGAIN") \in {"POS_OK", "POS_ERROR", "POS_TIMEOUT"}
<1>1. port \in {"freertos", "zephyr", "rt-thread"}
  BY KernelQueueAssumption DEF TypeOK
<1>2. CASE port = "freertos"
  BY <1>2 DEF whenFull, pos_queue_put_freertos, pos_queue_get, pos_queue_get_freertos
<1>3. CASE port = "zephyr"
  BY <1>3 DEF whenFull, pos_queue_put_zephyr, pos_queue_get, pos_queue_get_zephyr
<1>4. CASE port = "rt-thread"
  BY <1>4 DEF whenFull, pos_queue_put_rt_thread, pos_queue_get, pos_queue_get_rt_thread
<1> QED BY <1>1, <1>2, <1>3, <1>4

-----------------------------------------------------------------------------
(***************************************************************************)
(* Types and calls.                                                        *)
(***************************************************************************)

\* A step of one caller that keeps its own call in order keeps all of them.
LEMMA CallStep ==
    ASSUME KernelInv, NEW t \in Callers, NEW p, NEW c \in CallType,
           pc' = [pc EXCEPT ![t] = p], call' = [call EXCEPT ![t] = c],
           p \in {"idle", "kernel", "put_check_cb", "put_cb", "return"}, CallOK(p, c)
    PROVE  /\ CallInv'
           /\ pc' \in [Callers -> {"idle", "kernel", "put_check_cb", "put_cb", "return"}]
           /\ call' \in [Callers -> CallType]
<1>1. /\ pc \in [Callers -> {"idle", "kernel", "put_check_cb", "put_cb", "return"}]
      /\ call \in [Callers -> CallType]
  BY DEF KernelInv, TypeOK, CallType, Ops, Statuses
<1>2. ASSUME NEW u \in Callers PROVE CallOK(pc[u], call[u])'
  <2>1. CASE u = t
    <3>1. pc'[u] = p /\ call'[u] = c
      BY <1>1, <2>1
    <3> QED BY <3>1 DEF CallOK
  <2>2. CASE u # t
    <3>1. pc'[u] = pc[u] /\ call'[u] = call[u]
      BY <1>1, <2>2
    <3>2. CallOK(pc[u], call[u])
      BY DEF KernelInv, CallInv
    <3> QED BY <3>1, <3>2 DEF CallOK
  <2> QED BY <2>1, <2>2
<1> QED BY <1>1, <1>2 DEF CallInv

\* At the start no caller makes a call.
LEMMA KernelInit == Init => KernelInv /\ CallbackInv
<1> SUFFICES ASSUME Init PROVE KernelInv /\ CallbackInv
  OBVIOUS
<1>1. buf \in Seq(Items) /\ Len(buf) <= Capacity
  BY KernelQueueAssumption DEF Init
<1>2. call \in [Callers -> CallType]
  BY IdleType DEF Init
<1>3. TypeOK
  BY <1>1, <1>2 DEF Init, TypeOK, CallType, Ops, Statuses, Cbs
<1>4. CallInv
  BY IdleType DEF Init, CallInv, CallOK
<1>5. CallbackInv
  BY DEF Init, CallbackInv
<1> QED BY <1>3, <1>4, <1>5 DEF KernelInv

\* Every step keeps the types and the calls in order.
LEMMA KernelStep == KernelInv /\ [Next]_vars => KernelInv'
<1> SUFFICES ASSUME KernelInv, [Next]_vars PROVE KernelInv'
  OBVIOUS
<1>0. /\ TypeOK
      /\ pc \in [Callers -> {"idle", "kernel", "put_check_cb", "put_cb", "return"}]
      /\ call \in [Callers -> CallType]
      /\ \A t \in Callers : CallOK(pc[t], call[t])
  BY DEF KernelInv, CallInv, TypeOK, CallType, Ops, Statuses
<1>1. ASSUME UNCHANGED callVars PROVE CallInv'
  BY <1>0, <1>1 DEF CallInv, CallOK, callVars
<1>2. CASE Construct
  BY <1>0, <1>1, <1>2 DEF Construct, KernelInv, TypeOK, callVars, cbVars
<1>3. CASE Destruct
  <2>1. handle' = "NULL"
    BY <1>3 DEF Destruct, pos_queue_deinit_freertos, pos_queue_deinit_zephyr,
                pos_queue_deinit_rt_thread
  <2> QED BY <1>0, <1>1, <1>3, <2>1 DEF Destruct, KernelInv, TypeOK, callVars, cbVars
<1>4. CASE SetArg
  BY <1>0, <1>1, <1>4 DEF SetArg, KernelInv, TypeOK, callVars
<1>5. ASSUME NEW cb \in Cbs, SetCb(cb) PROVE KernelInv'
  <2>1. CallInv'
    BY <1>0, <1>5 DEF SetCb, CallInv, CallOK
  <2>2. overlap' \in [Callers -> BOOLEAN]
    BY <1>5, <1>0 DEF SetCb, TypeOK
  <2> QED BY <1>0, <1>5, <2>1, <2>2 DEF SetCb, KernelInv, TypeOK
<1>6. ASSUME NEW t \in Callers, Invoke(t) PROVE KernelInv'
  <2>1. PICK c \in [op : {"put"}, tmo : {"NO_WAIT"}, status : {"pending"}, item : Items]
                \cup [op : {"get"}, tmo : IF t \in Isrs THEN {"NO_WAIT"} ELSE Timeouts,
                      status : {"pending"}, item : {NoItem}]
                \cup [op : {"is_empty"}, tmo : {"NO_WAIT"}, status : {"pending"}, item : {NoItem}] :
            call' = [call EXCEPT ![t] = c]
    BY <1>6 DEF Invoke
  <2>2. c \in CallType /\ CallOK("kernel", c)
    BY NewCall DEF CallOK
  <2>3. pc' = [pc EXCEPT ![t] = "kernel"]
    BY <1>6 DEF Invoke, goto
  <2>4. CallInv' /\ pc' \in [Callers -> {"idle", "kernel", "put_check_cb", "put_cb", "return"}]
        /\ call' \in [Callers -> CallType]
    BY <2>1, <2>2, <2>3, CallStep
  <2> QED BY <1>0, <1>6, <2>4 DEF Invoke, KernelInv, TypeOK, CallType, Ops, Statuses, cbVars
<1>7. ASSUME NEW t \in Callers, Step(t) PROVE KernelInv'
  <2>0. call[t] \in CallType /\ CallOK(pc[t], call[t])
    BY <1>0
  <2>1. CASE BadHandle(t)
    BY <1>0, <1>1, <2>1 DEF BadHandle, KernelInv, TypeOK, callVars, cbVars
  <2>2. CASE PutStored(t)
    <3> DEFINE c == [call[t] EXCEPT !.status = "POS_OK"]
               p == IF port = "zephyr" THEN "put_check_cb" ELSE "return"
    <3>1. pc[t] = "kernel" /\ call[t].op = "put"
      BY <2>2 DEF PutStored, InKernel
    <3>2. c \in CallType /\ c.op = "put" /\ c.status = "POS_OK" /\ c.item = call[t].item
      BY <2>0, <3>1, StatusSet DEF Statuses
    <3>3. call[t].item \in Items
      BY <2>0, <3>1 DEF CallOK
    <3>4. call' = [call EXCEPT ![t] = c] /\ pc' = [pc EXCEPT ![t] = p]
      BY <2>2 DEF PutStored, goto
    <3>5. p \in {"put_check_cb", "return"} /\ CallOK(p, c)
      <4> HIDE DEF c
      <4> QED BY <3>2, <3>3 DEF CallOK
    <3>6. CallInv' /\ pc' \in [Callers -> {"idle", "kernel", "put_check_cb", "put_cb", "return"}]
          /\ call' \in [Callers -> CallType]
      <4> HIDE DEF c, p
      <4> QED BY <3>2, <3>4, <3>5, CallStep
    <3>7. buf' \in Seq(Items) /\ Len(buf') <= Capacity
      <4>1. buf \in Seq(Items) /\ Len(buf) < Capacity /\ buf' = Append(buf, call[t].item)
        BY <1>0, <2>2 DEF PutStored, TypeOK
      <4> QED BY <3>3, <4>1, KernelQueueAssumption
    <3> HIDE DEF c, p
    <3> QED BY <1>0, <2>2, <3>6, <3>7
         DEF PutStored, KernelInv, TypeOK, CallType, Ops, Statuses, cbVars
  <2>3. CASE PutFull(t)
    <3>0. pc[t] = "kernel" /\ call[t].op = "put"
      BY <2>3 DEF PutFull, InKernel
    <3>1. CASE phase' = "abort_put" /\ UNCHANGED <<pc, call>>
      <4>1. CallInv'
        BY <1>1, <2>3, <3>1 DEF PutFull, callVars
      <4> QED BY <1>0, <2>3, <3>1, <4>1 DEF PutFull, KernelInv, TypeOK, cbVars
    <3>2. CASE /\ call' = [call EXCEPT ![t].status = "POS_ERROR"]
               /\ goto(t, "return")
               /\ UNCHANGED phase
      <4> DEFINE c == [call[t] EXCEPT !.status = "POS_ERROR"]
      <4>1. c \in CallType /\ c.op = "put" /\ c.status = "POS_ERROR" /\ c.item = call[t].item
        BY <2>0, <3>0, StatusSet DEF Statuses
      <4>2. call' = [call EXCEPT ![t] = c] /\ pc' = [pc EXCEPT ![t] = "return"]
        BY <3>2 DEF goto
      <4> HIDE DEF c
      <4>3. CallOK("return", c)
        BY <2>0, <3>0, <4>1 DEF CallOK
      <4>4. CallInv' /\ pc' \in [Callers -> {"idle", "kernel", "put_check_cb", "put_cb", "return"}]
            /\ call' \in [Callers -> CallType]
        BY <4>1, <4>2, <4>3, CallStep
      <4> QED BY <1>0, <2>3, <3>2, <4>4
           DEF PutFull, KernelInv, TypeOK, CallType, Ops, Statuses, cbVars
    <3>3. whenFull(t) \in {"assert", "block", "POS_ERROR"}
      BY <1>0, PortResults
    <3> QED BY <2>3, <3>1, <3>2, <3>3 DEF PutFull
  <2>4. CASE PutCheckCb(t)
    <3>1. pc[t] = "put_check_cb" /\ call[t].op = "put" /\ call[t].status = "POS_OK"
      BY <2>0, <2>4 DEF PutCheckCb, CallOK
    <3> DEFINE p == IF sig_cb # "NULL" THEN "put_cb" ELSE "return"
    <3>2. p \in {"put_cb", "return"} /\ CallOK(p, call[t])
      BY <2>0, <3>1 DEF CallOK
    <3>3. pc' = [pc EXCEPT ![t] = p] /\ call' = [call EXCEPT ![t] = call[t]]
      BY <1>0, <2>4 DEF PutCheckCb, goto
    <3> HIDE DEF p
    <3>4. CallInv' /\ pc' \in [Callers -> {"idle", "kernel", "put_check_cb", "put_cb", "return"}]
      BY <2>0, <3>2, <3>3, CallStep
    <3>5. overlap' \in [Callers -> BOOLEAN]
      BY <1>0, <2>4 DEF PutCheckCb, TypeOK
    <3> QED BY <1>0, <2>4, <3>4, <3>5 DEF PutCheckCb, KernelInv, TypeOK, cbVars
  <2>5. CASE PutCallCb(t)
    <3>1. CASE UNCHANGED pc
      <4>1. CallInv'
        BY <1>1, <2>5, <3>1 DEF PutCallCb, callVars
      <4> QED BY <1>0, <2>5, <3>1, <4>1 DEF PutCallCb, KernelInv, TypeOK, cbVars
    <3>2. CASE goto(t, "return") /\ UNCHANGED phase
      <4>1. call[t].op = "put" /\ call[t].status = "POS_OK"
        BY <2>0, <2>5 DEF PutCallCb, CallOK
      <4>2. CallOK("return", call[t])
        BY <2>0, <4>1 DEF CallOK
      <4>3. pc' = [pc EXCEPT ![t] = "return"] /\ call' = [call EXCEPT ![t] = call[t]]
        BY <1>0, <2>5, <3>2 DEF PutCallCb, goto
      <4>4. CallInv' /\ pc' \in [Callers -> {"idle", "kernel", "put_check_cb", "put_cb", "return"}]
        BY <2>0, <4>2, <4>3, CallStep
      <4> QED BY <1>0, <2>5, <3>2, <4>4 DEF PutCallCb, KernelInv, TypeOK, cbVars
    <3> QED BY <2>5, <3>1, <3>2 DEF PutCallCb
  <2>6. ASSUME NEW err, NEW x \in Items \cup {NoItem}, GetDone(t, err, x),
               InKernel(t, "get"), pos_queue_get(err) \in {"POS_OK", "POS_ERROR", "POS_TIMEOUT"}
        PROVE  /\ CallInv'
               /\ pc' \in [Callers -> {"idle", "kernel", "put_check_cb", "put_cb", "return"}]
               /\ call' \in [Callers -> CallType]
    <3> DEFINE s == pos_queue_get(err)
               c == [call[t] EXCEPT !.status = s, !.item = x]
    <3>1. c \in CallType /\ c.op = "get" /\ c.status = s /\ s \in {"POS_OK", "POS_ERROR", "POS_TIMEOUT"}
      <4> HIDE DEF s
      <4>1. s \in Statuses /\ s \in {"POS_OK", "POS_ERROR", "POS_TIMEOUT"} /\ call[t].op = "get"
        BY <2>6 DEF Statuses, InKernel, s
      <4> QED BY <2>0, <4>1 DEF CallType
    <3>2. call' = [call EXCEPT ![t] = c] /\ pc' = [pc EXCEPT ![t] = "return"]
      BY <1>0, <2>6 DEF GetDone, goto
    <3> HIDE DEF c, s
    <3>3. CallOK("return", c)
      BY <3>1 DEF CallOK
    <3> QED BY <3>1, <3>2, <3>3, CallStep
  <2>7. CASE GetMessage(t)
    <3>1. Head(buf) \in Items /\ Tail(buf) \in Seq(Items) /\ Len(Tail(buf)) <= Capacity
      BY <1>0, <2>7, KernelQueueAssumption DEF GetMessage, TypeOK
    <3>2. CallInv' /\ pc' \in [Callers -> {"idle", "kernel", "put_check_cb", "put_cb", "return"}]
          /\ call' \in [Callers -> CallType]
      BY <1>0, <2>6, <2>7, <3>1, PortResults DEF GetMessage
    <3> QED BY <1>0, <2>7, <3>1, <3>2
         DEF GetMessage, KernelInv, TypeOK, CallType, Ops, Statuses, cbVars
  <2>8. CASE GetEmpty(t)
    <3>1. CallInv' /\ pc' \in [Callers -> {"idle", "kernel", "put_check_cb", "put_cb", "return"}]
          /\ call' \in [Callers -> CallType]
      BY <1>0, <2>6, <2>8, PortResults DEF GetEmpty
    <3> QED BY <1>0, <2>8, <3>1 DEF GetEmpty, KernelInv, TypeOK, CallType, Ops, Statuses, cbVars
  <2>9. CASE pos_queue_is_empty(t)
    <3> DEFINE s == IF Len(buf) = 0 THEN "true" ELSE "false"
               c == [call[t] EXCEPT !.status = s]
    <3>1. s \in {"true", "false"} /\ s \in Statuses /\ call[t].op = "is_empty"
      BY <2>9 DEF Statuses, pos_queue_is_empty, InKernel
    <3>2. call' = [call EXCEPT ![t] = c] /\ pc' = [pc EXCEPT ![t] = "return"]
      BY <2>9 DEF pos_queue_is_empty, goto
    <3> HIDE DEF s
    <3>3. c \in CallType /\ c.op = "is_empty" /\ c.status = s
      BY <2>0, <3>1, StatusSet
    <3> HIDE DEF c
    <3>4. CallOK("return", c)
      BY <3>1, <3>3 DEF CallOK
    <3>5. CallInv' /\ pc' \in [Callers -> {"idle", "kernel", "put_check_cb", "put_cb", "return"}]
          /\ call' \in [Callers -> CallType]
      BY <3>2, <3>3, <3>4, CallStep
    <3> QED BY <1>0, <2>9, <3>5
         DEF pos_queue_is_empty, KernelInv, TypeOK, CallType, Ops, Statuses, cbVars
  <2>10. CASE Return(t)
    <3>1. call' = [call EXCEPT ![t] = Idle] /\ pc' = [pc EXCEPT ![t] = "idle"]
      BY <2>10 DEF Return, goto
    <3>2. CallOK("idle", Idle)
      BY IdleType DEF CallOK
    <3>3. CallInv' /\ pc' \in [Callers -> {"idle", "kernel", "put_check_cb", "put_cb", "return"}]
          /\ call' \in [Callers -> CallType]
      BY <3>1, <3>2, IdleType, CallStep
    <3>4. overlap' \in [Callers -> BOOLEAN]
      BY <1>0, <2>10 DEF Return, TypeOK
    <3> QED BY <1>0, <2>10, <3>3, <3>4
         DEF Return, KernelInv, TypeOK, CallType, Ops, Statuses, cbVars
  <2> QED BY <1>7, <2>1, <2>2, <2>3, <2>4, <2>5, <2>7, <2>8, <2>9, <2>10 DEF Step
<1>8. ASSUME NEW t \in Tasks, pos_task_init(t) \/ pos_task_dispatch(t) \/ pos_task_remove(t)
      PROVE  KernelInv'
  <2>1. /\ UNCHANGED <<port, handle, buf, cbVars, callVars>>
        /\ phase' \in {phase, "abort_task"}
        /\ \E l \in {"running", "gone"} : life' = [life EXCEPT ![t] = l]
    BY <1>8 DEF pos_task_init, pos_task_dispatch, pos_task_remove, pos_task_init_freertos,
                pos_task_init_rt_thread, pos_task_init_zephyr, pos_task_dispatch_freertos,
                pos_task_wrapper_zephyr, pos_task_remove_zephyr, pos_task_remove_rt_thread, callVars
  <2>2. life' \in [Callers -> {"none", "running", "gone"}]
    BY <1>0, <2>1 DEF TypeOK
  <2> QED BY <1>0, <1>1, <2>1, <2>2 DEF KernelInv, TypeOK, callVars, cbVars
<1>9. CASE UNCHANGED vars
  BY <1>0, <1>1, <1>9 DEF vars, KernelInv, TypeOK, callVars, cbVars
<1> QED BY <1>2, <1>3, <1>4, <1>5, <1>6, <1>7, <1>8, <1>9 DEF Next, Terminated

\* The variables keep their types and the queue its capacity, whoever calls, on
\* every port, and where a caller is agrees with the call it makes.
THEOREM KernelQueueTypes == Spec => []TypeOK
<1>1. Init => KernelInv
  BY KernelInit
<1>2. KernelInv => TypeOK
  BY DEF KernelInv
<1> QED BY <1>1, <1>2, KernelStep, PTL DEF Spec

-----------------------------------------------------------------------------
(***************************************************************************)
(* The signal callback of the Zephyr port.                                 *)
(***************************************************************************)

\* A step that leaves the callback, the history and the callers that are about to
\* make it alone.
LEMMA CallbackFrame ==
    ASSUME CallbackInv, UNCHANGED <<cbVars, overlap>>, phase' # "abort_callback",
           \A t \in Callers : pc'[t] = "put_cb" => pc[t] = "put_cb"
    PROVE  CallbackInv'
BY DEF CallbackInv, cbVars

\* Every step keeps the pointer and the argument together, up to overlaps.
LEMMA CallbackStep == KernelInv /\ CallbackInv /\ [Next]_vars => CallbackInv'
<1> SUFFICES ASSUME KernelInv, CallbackInv, [Next]_vars PROVE CallbackInv'
  OBVIOUS
<1>0. /\ TypeOK
      /\ pc \in [Callers -> {"idle", "kernel", "put_check_cb", "put_cb", "return"}]
      /\ overlap \in [Callers -> BOOLEAN]
      /\ sig_cb \in Cbs /\ sig_arg \in Cbs /\ setting \in Cbs \cup {"none"}
  BY DEF KernelInv, TypeOK
<1>1. CASE Construct
  BY <1>1, CallbackFrame DEF Construct, callVars
<1>2. CASE Destruct
  BY <1>2, CallbackFrame DEF Destruct, callVars
<1>3. CASE SetArg
  <2>1. \A t \in Callers : ~(pc[t] = "put_cb" /\ ~overlap[t])
    BY <1>3 DEF SetArg, CallbackInv
  <2>2. sig_arg' = sig_cb /\ setting' = "none" /\ UNCHANGED <<phase, sig_cb, callVars>>
    BY <1>3 DEF SetArg, CallbackInv
  <2> QED BY <2>1, <2>2 DEF CallbackInv, callVars
<1>4. ASSUME NEW cb \in Cbs, SetCb(cb) PROVE CallbackInv'
  <2>1. \A t \in Callers : ~(pc'[t] = "put_cb" /\ ~overlap'[t])
    BY <1>4 DEF SetCb
  <2>2. sig_cb' = cb /\ setting' = cb /\ cb # "none" /\ phase' # "abort_callback"
    BY <1>4 DEF SetCb, Cbs
  <2> QED BY <2>1, <2>2 DEF CallbackInv
<1>5. ASSUME NEW t \in Callers, Invoke(t) PROVE CallbackInv'
  BY <1>0, <1>5, CallbackFrame DEF Invoke, goto
<1>6. ASSUME NEW t \in Callers, Step(t) PROVE CallbackInv'
  <2>1. CASE BadHandle(t)
    BY <2>1, CallbackFrame DEF BadHandle, callVars
  <2>2. CASE PutStored(t)
    BY <1>0, <2>2, CallbackFrame DEF PutStored, goto, InKernel
  <2>3. CASE PutFull(t)
    BY <1>0, <2>3, CallbackFrame DEF PutFull, goto, InKernel
  <2>4. CASE PutCheckCb(t)
    <3>1. UNCHANGED <<phase, cbVars>> /\ phase = "alive"
      BY <2>4 DEF PutCheckCb
    <3>2. ASSUME NEW u \in Callers, pc'[u] = "put_cb", ~overlap'[u]
          PROVE  setting = "none" /\ sig_cb = "cb"
      <4>1. CASE u = t
        <5>1. overlap'[t] = (setting # "none") /\ (sig_cb # "NULL")
          BY <1>0, <2>4, <3>2, <4>1 DEF PutCheckCb, goto
        <5> QED BY <1>0, <3>2, <4>1, <5>1 DEF Cbs
      <4>2. CASE u # t
        <5>1. pc'[u] = pc[u] /\ overlap'[u] = overlap[u]
          BY <1>0, <2>4, <4>2 DEF PutCheckCb, goto
        <5> QED BY <3>2, <5>1 DEF CallbackInv
      <4> QED BY <4>1, <4>2
    <3> QED BY <3>1, <3>2 DEF CallbackInv, cbVars
  <2>5. CASE PutCallCb(t)
    <3>1. CASE phase' # "abort_callback"
      BY <1>0, <2>5, <3>1, CallbackFrame DEF PutCallCb, goto
    <3>2. CASE phase' = "abort_callback"
      <4>1. sig_cb = "NULL" /\ UNCHANGED <<pc, cbVars, overlap>> /\ pc[t] = "put_cb"
        BY <2>5, <3>2 DEF PutCallCb
      <4>2. overlap[t]
        BY <4>1 DEF CallbackInv
      <4> QED BY <4>1, <4>2 DEF CallbackInv, cbVars
    <3> QED BY <3>1, <3>2
  <2>6. CASE GetMessage(t)
    BY <1>0, <2>6, CallbackFrame DEF GetMessage, GetDone, goto, InKernel
  <2>7. CASE GetEmpty(t)
    BY <1>0, <2>7, CallbackFrame DEF GetEmpty, GetDone, goto, InKernel
  <2>8. CASE pos_queue_is_empty(t)
    BY <1>0, <2>8, CallbackFrame DEF pos_queue_is_empty, goto, InKernel
  <2>9. CASE Return(t)
    <3>1. \A u \in Callers : pc'[u] = "put_cb" => pc[u] = "put_cb" /\ overlap'[u] = overlap[u]
      BY <1>0, <2>9 DEF Return, goto
    <3> QED BY <2>9, <3>1 DEF Return, CallbackInv, cbVars
  <2> QED BY <1>6, <2>1, <2>2, <2>3, <2>4, <2>5, <2>6, <2>7, <2>8, <2>9 DEF Step
<1>7. ASSUME NEW t \in Tasks, ~Stopped,
             pos_task_init(t) \/ pos_task_dispatch(t) \/ pos_task_remove(t)
      PROVE  CallbackInv'
  <2>1. UNCHANGED <<cbVars, callVars>> /\ phase' \in {phase, "abort_task"}
    BY <1>7 DEF pos_task_init, pos_task_dispatch, pos_task_remove, pos_task_dispatch_freertos,
                pos_task_wrapper_zephyr, callVars
  <2> QED BY <1>7, <2>1, CallbackFrame DEF Stopped, callVars
<1>8. CASE UNCHANGED vars
  BY <1>8 DEF vars, CallbackInv, cbVars, callVars
<1> QED BY <1>1, <1>2, <1>3, <1>4, <1>5, <1>6, <1>7, <1>8 DEF Next, Terminated

\* A put makes a registered callback with the argument that was registered with
\* it, and calls NULL only if pos_queue_set_signal_cb() ran between its test of the
\* pointer and its call, whoever puts and however often the callback is set.
THEOREM KernelCallbackOwnArgument == Spec => []CallbackOwnArgument
<1>1. Init => KernelInv /\ CallbackInv
  BY KernelInit
<1>2. CallbackInv => CallbackOwnArgument
  BY DEF CallbackInv, CallbackOwnArgument
<1> QED BY <1>1, <1>2, KernelStep, CallbackStep, PTL DEF Spec

-----------------------------------------------------------------------------
(***************************************************************************)
(* The queue implements MessageQueue.                                      *)
(***************************************************************************)

SeenCalls == [t \in Callers |-> Seen(call[t])]
Running   == phase \notin {"abort_put", "abort_callback"}

\* The callers see all of a call, except that a get without a message timed out.
LEMMA SeenRecord ==
    ASSUME NEW c \in CallType
    PROVE  LET d == Seen(c)
           IN  /\ d \in CallType /\ d.op = c.op /\ d.tmo = c.tmo /\ d.item = c.item
               /\ d.status = IF c.op = "get" /\ c.status # "pending" /\ c.item = NoItem
                             THEN "POS_TIMEOUT" ELSE c.status
BY DEF CallType, Seen, Statuses

\* A call that has not come back with nothing is seen as it is.
LEMMA SeenAsItIs ==
    ASSUME NEW c \in CallType, c.op # "get" \/ c.status = "pending" \/ c.item # NoItem
    PROVE  Seen(c) = c
<1>1. /\ Seen(c) \in CallType
      /\ Seen(c).op = c.op /\ Seen(c).tmo = c.tmo /\ Seen(c).status = c.status
      /\ Seen(c).item = c.item
  BY SeenRecord
<1> QED BY <1>1, SameCall

\* A step that changes the call of one caller changes what that caller sees.
LEMMA SeenFrame ==
    ASSUME call \in [Callers -> CallType], NEW t \in Callers, NEW c,
           call' = [call EXCEPT ![t] = c]
    PROVE  SeenCalls' = [SeenCalls EXCEPT ![t] = Seen(c)]
<1>1. call'[t] = c /\ \A u \in Callers \ {t} : call'[u] = call[u]
  OBVIOUS
<1> QED BY <1>1 DEF SeenCalls

\* Changing the status of one entry is changing that entry.
LEMMA EntryStatus ==
    ASSUME NEW f, NEW t, NEW s
    PROVE  [f EXCEPT ![t].status = s] = [f EXCEPT ![t] = [f[t] EXCEPT !.status = s]]
OBVIOUS

\* The same for the status and the message.
LEMMA EntryStatusItem ==
    ASSUME NEW S, NEW f, f = [x \in S |-> f[x]], NEW t \in S, NEW s, NEW m
    PROVE  [f EXCEPT ![t].status = s, ![t].item = m]
             = [f EXCEPT ![t] = [f[t] EXCEPT !.status = s, !.item = m]]
OBVIOUS

\* The queue is empty and nobody calls.
LEMMA KernelRefinesInit == Init => MQ!Init
<1> SUFFICES ASSUME Init PROVE MQ!Init
  OBVIOUS
<1>1. Seen(Idle) = Idle
  BY IdleType, SeenAsItIs
<1>2. \A t \in Callers : Seen(call[t]) = Idle
  BY <1>1 DEF Init
<1>3. Idle = MQ!Idle
  BY DEF Idle, MQ!Idle
<1> QED BY <1>2, <1>3 DEF Init, MQ!Init

\* A call that is pending in the kernel is pending in the abstract queue, and a new
\* status for the one is a new status for the other.
LEMMA PendingCall ==
    ASSUME KernelInv, NEW t \in Callers, NEW op, InKernel(t, op)
    PROVE  /\ MQ!Pending(t, op) /\ SeenCalls[t] = call[t] /\ call[t] \in CallType
           /\ call[t].op = op /\ call[t].status = "pending" /\ pc[t] = "kernel" /\ Running
           /\ call \in [Callers -> CallType]
<1>1. phase = "alive" /\ pc[t] = "kernel" /\ call[t].op = op
  BY DEF InKernel
<1>2. call \in [Callers -> CallType] /\ CallOK(pc[t], call[t])
  BY DEF KernelInv, TypeOK, CallInv, CallType, Ops, Statuses
<1>3. call[t] \in CallType /\ call[t].status = "pending"
  BY <1>1, <1>2 DEF CallOK
<1>4. Seen(call[t]) = call[t]
  BY <1>3, SeenAsItIs
<1> QED BY <1>1, <1>2, <1>3, <1>4 DEF MQ!Pending, SeenCalls, Running

\* A call that the kernel has done, with a status, as the callers see it.
LEMMA DoneCall ==
    ASSUME KernelInv, NEW t \in Callers, NEW op, InKernel(t, op), op # "get",
           NEW s \in Statuses, call' = [call EXCEPT ![t].status = s]
    PROVE  SeenCalls' = [SeenCalls EXCEPT ![t].status = s]
<1> DEFINE c == [call[t] EXCEPT !.status = s]
<1>1. SeenCalls[t] = call[t] /\ call[t] \in CallType /\ call[t].op = op
      /\ call \in [Callers -> CallType]
  BY PendingCall
<1>2. c \in CallType /\ c.op = op
  BY <1>1, StatusSet
<1>3. call' = [call EXCEPT ![t] = c]
  BY EntryStatus
<1>4. c = [SeenCalls[t] EXCEPT !.status = s]
  BY <1>1
<1> HIDE DEF c
<1>5. Seen(c) = c
  BY <1>2, SeenAsItIs
<1>6. SeenCalls' = [SeenCalls EXCEPT ![t] = Seen(c)]
  BY <1>1, <1>3, SeenFrame
<1> QED BY <1>4, <1>5, <1>6, EntryStatus

\* A step that leaves the queue and the calls alone and does not end the program is
\* none of the abstract queue.
LEMMA KernelStutters ==
    ASSUME UNCHANGED <<buf, call>>, Running' = Running
    PROVE  UNCHANGED <<buf, SeenCalls, Running>>
BY DEF SeenCalls

\* Every step of the kernel's queue is a step of the abstract queue or none.
LEMMA KernelRefinesStep ==
    KernelInv /\ [Next]_vars => [MQ!Next]_<<buf, SeenCalls, Running>>
<1> SUFFICES ASSUME KernelInv, [Next]_vars
             PROVE  [MQ!Next]_<<buf, SeenCalls, Running>>
  OBVIOUS
<1>0. /\ TypeOK
      /\ call \in [Callers -> CallType]
      /\ \A t \in Callers : CallOK(pc[t], call[t])
  BY DEF KernelInv, CallInv, TypeOK, CallType, Ops, Statuses
<1>1. ASSUME NEW t \in Callers, Invoke(t) PROVE MQ!Invoke(t)
  <2>1. PICK c \in [op : {"put"}, tmo : {"NO_WAIT"}, status : {"pending"}, item : Items]
                \cup [op : {"get"}, tmo : IF t \in Isrs THEN {"NO_WAIT"} ELSE Timeouts,
                      status : {"pending"}, item : {NoItem}]
                \cup [op : {"is_empty"}, tmo : {"NO_WAIT"}, status : {"pending"}, item : {NoItem}] :
            call' = [call EXCEPT ![t] = c]
    BY <1>1 DEF Invoke
  <2>2. c \in CallType /\ c.status = "pending"
    BY NewCall
  <2>3. Seen(c) = c
    BY <2>2, SeenAsItIs
  <2>4. SeenCalls' = [SeenCalls EXCEPT ![t] = c]
    <3>1. SeenCalls' = [SeenCalls EXCEPT ![t] = Seen(c)]
      BY <1>0, <2>1, SeenFrame
    <3> QED BY <2>3, <3>1
  <2>5. call[t] = Idle
    BY <1>0, <1>1 DEF Invoke, CallOK
  <2>6. SeenCalls[t] = MQ!Idle
    BY <2>5, IdleType, SeenAsItIs DEF SeenCalls, Idle, MQ!Idle
  <2>7. c \in [op : {"put"}, tmo : {"NO_WAIT"}, status : {"pending"}, item : Items]
              \cup [op : {"get"}, tmo : Timeouts, status : {"pending"}, item : {NoItem}]
              \cup [op : {"is_empty"}, tmo : {"NO_WAIT"}, status : {"pending"}, item : {NoItem}]
    BY <2>1 DEF Timeouts
  <2>8. Running /\ UNCHANGED <<buf, Running>>
    BY <1>1 DEF Invoke, Running
  <2> QED BY <2>4, <2>6, <2>7, <2>8 DEF MQ!Invoke, SeenCalls, Running
<1>2. ASSUME NEW t \in Callers, PutStored(t) PROVE MQ!Put(t)
  <2>1. InKernel(t, "put") /\ call' = [call EXCEPT ![t].status = "POS_OK"]
    BY <1>2 DEF PutStored
  <2>2. MQ!Pending(t, "put") /\ SeenCalls[t].item = call[t].item
    BY <2>1, PendingCall
  <2>3. SeenCalls' = [SeenCalls EXCEPT ![t].status = "POS_OK"]
    BY <2>1, DoneCall DEF Statuses
  <2>4. Len(buf) < Capacity /\ buf' = Append(buf, SeenCalls[t].item) /\ UNCHANGED Running
    BY <1>2, <2>2 DEF PutStored, Running
  <2> QED BY <2>2, <2>3, <2>4 DEF MQ!Put, SeenCalls, Running
<1>3. ASSUME NEW t \in Callers, PutFull(t) PROVE MQ!PutOverflow(t) \/ MQ!PutRefused(t)
  <2>1. InKernel(t, "put") /\ Len(buf) = Capacity /\ UNCHANGED buf
    BY <1>3 DEF PutFull
  <2>2. MQ!Pending(t, "put")
    BY <2>1, PendingCall
  <2>3. CASE phase' = "abort_put" /\ UNCHANGED <<pc, call>>
    <3>1. UNCHANGED SeenCalls /\ Running' = FALSE
      BY <2>3 DEF SeenCalls, Running
    <3> QED BY <2>1, <2>2, <3>1 DEF MQ!PutOverflow, SeenCalls, Running
  <2>4. CASE call' = [call EXCEPT ![t].status = "POS_ERROR"] /\ UNCHANGED phase
    <3>1. SeenCalls' = [SeenCalls EXCEPT ![t].status = "POS_ERROR"]
      BY <2>1, <2>4, DoneCall DEF Statuses
    <3>2. UNCHANGED Running
      BY <2>4 DEF Running
    <3> QED BY <2>1, <2>2, <3>1, <3>2 DEF MQ!PutRefused, SeenCalls, Running
  <2>5. whenFull(t) \in {"assert", "block", "POS_ERROR"}
    BY <1>0, PortResults
  <2> QED BY <1>3, <2>3, <2>4, <2>5 DEF PutFull
<1>4. ASSUME NEW t \in Callers, GetMessage(t) PROVE MQ!Get(t)
  <2> DEFINE m == Head(buf)
             c == [call[t] EXCEPT !.status = "POS_OK", !.item = m]
  <2>1. InKernel(t, "get") /\ buf # << >> /\ buf' = Tail(buf) /\ UNCHANGED Running
    BY <1>4 DEF GetMessage, Running
  <2>2. /\ MQ!Pending(t, "get") /\ SeenCalls[t] = call[t] /\ call[t] \in CallType
        /\ call[t].op = "get"
    BY <2>1, PendingCall
  <2>3. m \in Items /\ m # NoItem
    BY <1>0, <2>1, KernelQueueAssumption DEF TypeOK
  <2>4. call' = [call EXCEPT ![t].status = "POS_OK", ![t].item = m]
    BY <1>0, <1>4, PortResults DEF GetMessage, GetDone
  <2> HIDE DEF m
  <2>5. call' = [call EXCEPT ![t] = c]
    <3>1. call = [u \in Callers |-> call[u]]
      BY <1>0
    <3> QED BY <2>4, <3>1, EntryStatusItem
  <2>6. c \in CallType /\ c.item = m
    BY <2>2, <2>3, StatusItemSet DEF Statuses
  <2>7. Seen(c) = c
    <3> HIDE DEF c
    <3> QED BY <2>3, <2>6, SeenAsItIs
  <2>8. SeenCalls' = [SeenCalls EXCEPT ![t] = c]
    <3> HIDE DEF c
    <3> QED BY <1>0, <2>5, <2>7, SeenFrame
  <2>9. SeenCalls' = [SeenCalls EXCEPT ![t].status = "POS_OK", ![t].item = m]
    <3>1. SeenCalls = [u \in Callers |-> SeenCalls[u]]
      BY DEF SeenCalls
    <3> QED BY <2>2, <2>8, <3>1, EntryStatusItem
  <2> QED BY <2>1, <2>2, <2>9 DEF MQ!Get, SeenCalls, Running, m
<1>5. ASSUME NEW t \in Callers, GetEmpty(t) PROVE MQ!GetNothing(t)
  <2>1. InKernel(t, "get") /\ buf = << >> /\ UNCHANGED <<buf, Running>>
        /\ call[t].tmo # "FOREVER"
    BY <1>5 DEF GetEmpty, Running
  <2>2. /\ MQ!Pending(t, "get") /\ SeenCalls[t] = call[t] /\ call[t] \in CallType
        /\ call[t].op = "get" /\ call[t].status = "pending"
    BY <2>1, PendingCall
  <2>3. PICK s \in {"POS_OK", "POS_ERROR", "POS_TIMEOUT"} :
            call' = [call EXCEPT ![t].status = s, ![t].item = NoItem]
    BY <1>0, <1>5, PortResults DEF GetEmpty, GetDone
  <2> DEFINE c == [call[t] EXCEPT !.status = s, !.item = NoItem]
             d == [call[t] EXCEPT !.status = "POS_TIMEOUT"]
  <2>4. call' = [call EXCEPT ![t] = c]
    <3>1. call = [u \in Callers |-> call[u]]
      BY <1>0
    <3> QED BY <2>3, <3>1, EntryStatusItem
  <2>5. c \in CallType /\ c.op = "get" /\ c.tmo = call[t].tmo /\ c.status = s /\ c.item = NoItem
    BY <2>2 DEF CallType, Statuses
  <2>6. d \in CallType /\ d.op = "get" /\ d.tmo = call[t].tmo /\ d.status = "POS_TIMEOUT"
        /\ d.item = call[t].item
    BY <2>2, StatusSet DEF Statuses
  <2>7. call[t].item = NoItem
    BY <1>0, <2>2 DEF CallOK
  <2>8. Seen(c) = d
    <3> HIDE DEF c, d
    <3>1. /\ Seen(c) \in CallType /\ Seen(c).op = c.op /\ Seen(c).tmo = c.tmo
          /\ Seen(c).item = c.item /\ Seen(c).status = "POS_TIMEOUT"
      BY <2>5, SeenRecord
    <3> QED BY <2>5, <2>6, <2>7, <3>1, SameCall
  <2>9. SeenCalls' = [SeenCalls EXCEPT ![t].status = "POS_TIMEOUT"]
    <3>1. SeenCalls' = [SeenCalls EXCEPT ![t] = Seen(c)]
      <4> HIDE DEF c
      <4> QED BY <1>0, <2>4, SeenFrame
    <3>2. d = [SeenCalls[t] EXCEPT !.status = "POS_TIMEOUT"]
      BY <2>2
    <3> HIDE DEF c, d
    <3> QED BY <2>8, <3>1, <3>2, EntryStatus
  <2>10. SeenCalls[t].tmo # "FOREVER"
    BY <2>1, <2>2
  <2> QED BY <2>1, <2>2, <2>9, <2>10 DEF MQ!GetNothing, SeenCalls, Running
<1>6. ASSUME NEW t \in Callers, pos_queue_is_empty(t) PROVE MQ!IsEmpty(t)
  <2> DEFINE s == IF buf = << >> THEN "true" ELSE "false"
  <2>1. (Len(buf) = 0) <=> (buf = << >>)
    BY <1>0 DEF TypeOK
  <2>2. /\ InKernel(t, "is_empty") /\ UNCHANGED <<buf, Running>>
        /\ call' = [call EXCEPT ![t].status = s]
    BY <1>6, <2>1 DEF pos_queue_is_empty, Running
  <2>3. MQ!Pending(t, "is_empty")
    BY <2>2, PendingCall
  <2>4. s \in Statuses
    BY DEF Statuses
  <2>5. SeenCalls' = [SeenCalls EXCEPT ![t].status = s]
    <3> HIDE DEF s
    <3> QED BY <2>2, <2>4, DoneCall
  <2> QED BY <2>2, <2>3, <2>5 DEF MQ!IsEmpty, SeenCalls, Running
<1>7. ASSUME NEW t \in Callers, Return(t) PROVE MQ!Return(t)
  <2>1. call[t] \in CallType /\ call[t].status # "pending"
    BY <1>0, <1>7 DEF Return, CallOK
  <2>2. SeenCalls[t].status # "pending"
    BY <2>1, SeenRecord DEF SeenCalls
  <2>3. call' = [call EXCEPT ![t] = Idle] /\ Running /\ UNCHANGED <<buf, Running>>
    BY <1>7 DEF Return, Running
  <2>4. Seen(Idle) = Idle /\ Idle = MQ!Idle
    BY IdleType, SeenAsItIs DEF Idle, MQ!Idle
  <2>5. SeenCalls' = [SeenCalls EXCEPT ![t] = MQ!Idle]
    BY <1>0, <2>3, <2>4, SeenFrame
  <2> QED BY <2>2, <2>3, <2>5 DEF MQ!Return, SeenCalls, Running
<1>8. ASSUME NEW t \in Callers, PutCallCb(t)
      PROVE  MQ!PutCallbackGone(t) \/ UNCHANGED <<buf, SeenCalls, Running>>
  <2>1. UNCHANGED <<buf, call>> /\ phase = "alive" /\ pc[t] = "put_cb"
    BY <1>8 DEF PutCallCb
  <2>2. CASE UNCHANGED phase
    BY <2>1, <2>2, KernelStutters DEF Running
  <2>3. CASE phase' = "abort_callback"
    <3>1. call[t] \in CallType /\ call[t].op = "put" /\ call[t].status = "POS_OK"
      BY <1>0, <2>1 DEF CallOK
    <3>2. SeenCalls[t] = call[t]
      BY <3>1, SeenAsItIs DEF SeenCalls
    <3>3. SeenCalls[t].op = "put" /\ SeenCalls[t].status = "POS_OK"
      BY <3>1, <3>2
    <3>4. UNCHANGED <<buf, SeenCalls>> /\ Running /\ Running' = FALSE
      BY <2>1, <2>3 DEF Running, SeenCalls
    <3> QED BY <3>3, <3>4 DEF MQ!PutCallbackGone, SeenCalls, Running
  <2> QED BY <1>8, <2>2, <2>3 DEF PutCallCb
<1>9. ASSUME NEW t \in Callers, Step(t)
      PROVE  MQ!Next \/ UNCHANGED <<buf, SeenCalls, Running>>
  <2>1. CASE BadHandle(t)
    <3>1. UNCHANGED <<buf, call>> /\ Running' = Running
      BY <2>1 DEF BadHandle, Running, callVars
    <3> QED BY <3>1, KernelStutters
  <2>2. CASE PutCheckCb(t)
    <3>1. UNCHANGED <<buf, call>> /\ Running' = Running
      BY <2>2 DEF PutCheckCb, Running
    <3> QED BY <3>1, KernelStutters
  <2> QED BY <1>2, <1>3, <1>4, <1>5, <1>6, <1>7, <1>8, <1>9, <2>1, <2>2 DEF Step, MQ!Next
<1>10. ASSUME NEW t \in Tasks, ~Stopped,
              pos_task_init(t) \/ pos_task_dispatch(t) \/ pos_task_remove(t)
       PROVE  UNCHANGED <<buf, SeenCalls, Running>>
  <2>1. UNCHANGED <<buf, call>> /\ phase' \in {phase, "abort_task"}
    BY <1>10 DEF pos_task_init, pos_task_dispatch, pos_task_remove, pos_task_dispatch_freertos,
                 pos_task_wrapper_zephyr, callVars
  <2>2. Running' = Running
    BY <1>10, <2>1 DEF Stopped, Running
  <2> QED BY <2>1, <2>2, KernelStutters
<1>11. ASSUME Construct \/ Destruct \/ SetArg \/ (\E cb \in Cbs : SetCb(cb)) \/ UNCHANGED vars
       PROVE  UNCHANGED <<buf, SeenCalls, Running>>
  <2>1. UNCHANGED <<buf, call>> /\ Running' = Running
    BY <1>11 DEF Construct, Destruct, SetArg, SetCb, vars, callVars, Running
  <2> QED BY <2>1, KernelStutters
<1> QED BY <1>1, <1>9, <1>10, <1>11 DEF Next, Terminated, MQ!Next

\* On each of the three ports, with any number of tasks and interrupt handlers, any
\* capacity, and tasks that are started, return or are removed at any point of a
\* call, the queue is one bounded FIFO queue on which each call takes effect once.
THEOREM KernelQueueLinearizable == Spec => KernelQueueImplementsMessageQueue
<1>1. Init => KernelInv
  BY KernelInit
<1>2. [MQ!Next]_<<buf, SeenCalls, Running>>
        => [MQ!Next]_<<buf, [t \in Callers |-> Seen(call[t])],
                       phase \notin {"abort_put", "abort_callback"}>>
  BY DEF SeenCalls, Running
<1> QED BY <1>1, <1>2, KernelStep, KernelRefinesInit, KernelRefinesStep, PTL
        DEF Spec, KernelQueueImplementsMessageQueue, MQ!Spec
=============================================================================
