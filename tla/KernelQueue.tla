----------------------------- MODULE KernelQueue -----------------------------
(***************************************************************************)
(* OsQueue (include/poski/OsQueue.h) on the pos_queue_* functions of the   *)
(* FreeRTOS, Zephyr and RT-Thread ports, together with the life of the     *)
(* tasks that call them (pos_task_init(), pos_task_remove()).  The queue   *)
(* itself is an object of the kernel, whose calls take effect at once or   *)
(* block; the ports differ in when they block and in what they make of the *)
(* result.  Only the Zephyr port has a signal callback, whose pointer and  *)
(* argument are read and written without a lock.                           *)
(*                                                                         *)
(* An interrupt handler is a caller like a task, but never waits.  That no *)
(* task runs in the meantime is not used.                                  *)
(***************************************************************************)
EXTENDS Naturals, Sequences

CONSTANTS Ports,      \* the ports of the instance
          Tasks,
          Isrs,       \* interrupt handlers
          Producers,  \* those of them that call pos_queue_put()
          Consumers,  \* those that call pos_queue_get()
          Pollers,    \* those that call pos_queue_is_empty()
          Items,
          NoItem,
          Capacity    \* max_msgs

Callers  == Tasks \cup Isrs
Timeouts == {"NO_WAIT", "FINITE", "FOREVER"}
Cbs      == {"NULL", "cb"}    \* a callback with an argument of its own, and none

ASSUME KernelQueueAssumption ==
    /\ Ports \subseteq {"freertos", "zephyr", "rt-thread"}
    /\ Tasks \cap Isrs = {}
    /\ Producers \cup Consumers \cup Pollers \subseteq Callers
    /\ NoItem \notin Items
    /\ Capacity \in Nat \ {0}

VARIABLES port,       \* the port the program is built for
          phase,      \* of the queue: "new", "alive", "destroyed", or how the program aborted
          handle,     \* queue->handle or msgq->buffer: "NULL" or "valid"
          buf,        \* the messages in the kernel's queue
          sig_cb, sig_arg,
          setting,    \* the callback whose argument pos_queue_set_signal_cb() has yet to store
          life,       \* of a task: "none", "running" or "gone"
          pc,
          call,       \* the call in progress: operation, timeout, status and message
          overlap     \* history: a callback was set while this put was making one

cbVars   == <<sig_cb, sig_arg, setting>>
callVars == <<pc, call, overlap>>
vars     == <<port, phase, handle, buf, cbVars, life, callVars>>

Idle == [op |-> "idle", tmo |-> "NO_WAIT", status |-> "pending", item |-> NoItem]

goto(t, label) == pc' = [pc EXCEPT ![t] = label]

Init ==
    /\ port \in Ports
    /\ phase = "new"
    /\ handle = "NULL"
    /\ buf = << >>
    /\ sig_cb = "NULL" /\ sig_arg = "NULL" /\ setting = "none"
    /\ life = [t \in Callers |-> IF t \in Isrs THEN "running" ELSE "none"]
    /\ pc = [t \in Callers |-> "idle"]
    /\ call = [t \in Callers |-> Idle]
    /\ overlap = [t \in Callers |-> FALSE]

-----------------------------------------------------------------------------
(***************************************************************************)
(* The queue object: OsQueue() and ~OsQueue() with pos_queue_init() and    *)
(* pos_queue_deinit().  OsQueue() asserts POS_OK.                          *)
(***************************************************************************)

\* The result of pos_queue_init(), by the handle of the kernel.  The FreeRTOS port
\* does not look at the handle that xQueueCreate() returns.
pos_queue_init_freertos(h)  == "POS_OK"
pos_queue_init_zephyr(h)    == IF h = "NULL" THEN "POS_ENOMEM" ELSE "POS_OK"
pos_queue_init_rt_thread(h) == IF h = "NULL" THEN "assert" ELSE "POS_OK"

pos_queue_init(h) ==
    CASE port = "freertos"  -> pos_queue_init_freertos(h)
      [] port = "zephyr"    -> pos_queue_init_zephyr(h)
      [] port = "rt-thread" -> pos_queue_init_rt_thread(h)

Construct ==
    /\ phase = "new"
    /\ handle' \in {"valid", "NULL"}
    /\ phase' = IF pos_queue_init(handle') = "POS_OK" THEN "alive" ELSE "abort_init"
    /\ UNCHANGED <<port, buf, cbVars, life, callVars>>

\* The handle, or the buffer, is freed and forgotten.
pos_queue_deinit_freertos  == handle' = "NULL"
pos_queue_deinit_zephyr    == handle' = "NULL"
pos_queue_deinit_rt_thread == handle' = "NULL"

\* Nobody may use the queue meanwhile or later.
Destruct ==
    /\ phase = "alive"
    /\ setting = "none"
    /\ \A t \in Callers : life[t] = "running" => pc[t] = "idle"
    /\ phase' = "destroyed"
    /\ \/ port = "freertos"  /\ pos_queue_deinit_freertos
       \/ port = "zephyr"    /\ pos_queue_deinit_zephyr
       \/ port = "rt-thread" /\ pos_queue_deinit_rt_thread
    /\ UNCHANGED <<port, buf, cbVars, life, callVars>>

-----------------------------------------------------------------------------
(***************************************************************************)
(* Calls.                                                                  *)
(***************************************************************************)

\* A task calls with any timeout, an interrupt handler with POS_TIME_NO_WAIT.
Invoke(t) ==
    /\ phase = "alive"
    /\ life[t] = "running"
    /\ pc[t] = "idle"
    /\ \E c \in [op : {"put"}, tmo : {"NO_WAIT"}, status : {"pending"}, item : Items]
                \cup [op : {"get"}, tmo : IF t \in Isrs THEN {"NO_WAIT"} ELSE Timeouts,
                      status : {"pending"}, item : {NoItem}]
                \cup [op : {"is_empty"}, tmo : {"NO_WAIT"}, status : {"pending"}, item : {NoItem}] :
          /\ t \in CASE c.op = "put" -> Producers [] c.op = "get" -> Consumers [] OTHER -> Pollers
          /\ c.op = "is_empty" => port = "zephyr"
          /\ call' = [call EXCEPT ![t] = c]
    /\ goto(t, "kernel")
    /\ UNCHANGED <<port, phase, handle, buf, cbVars, life, overlap>>

\* What a call does in the kernel, first of all to a handle that is NULL.
InKernel(t, op) == phase = "alive" /\ pc[t] = "kernel" /\ call[t].op = op /\ handle = "valid"

BadHandle(t) ==
    /\ phase = "alive"
    /\ pc[t] = "kernel"
    /\ handle = "NULL"
    /\ phase' = "abort_handle"
    /\ UNCHANGED <<port, handle, buf, cbVars, life, callVars>>

\* pos_queue_put() when the queue is full: what it returns, "assert", or "block".
\* xQueueSendToBack() waits for portMAX_DELAY; its variant for interrupts fails.
pos_queue_put_freertos(t) == IF t \in Isrs THEN "assert" ELSE "block"
pos_queue_put_zephyr(err) ==
    CASE err = "0" -> "POS_OK" [] err = "EAGAIN" -> "POS_EBUSY" [] OTHER -> "POS_ERROR"
pos_queue_put_rt_thread(err) == IF err = "0" THEN "POS_OK" ELSE "POS_ERROR"

whenFull(t) ==
    CASE port = "freertos"  -> pos_queue_put_freertos(t)
      [] port = "zephyr"    -> pos_queue_put_zephyr("ENOMSG")
      [] port = "rt-thread" -> pos_queue_put_rt_thread("EFULL")

\* Mutant: the length of the queue is not observed.
PutStoredUnbounded(t) ==
    /\ InKernel(t, "put")
    /\ buf' = Append(buf, call[t].item)
    /\ call' = [call EXCEPT ![t].status = "POS_OK"]
    /\ goto(t, IF port = "zephyr" THEN "put_check_cb" ELSE "return")
    /\ UNCHANGED <<port, phase, handle, cbVars, life, overlap>>

\* "if (msgq->sig_cb)", in the Zephyr port, after the message is in the queue.
PutStored(t) ==
    /\ InKernel(t, "put")
    /\ Len(buf) < Capacity
    /\ buf' = Append(buf, call[t].item)
    /\ call' = [call EXCEPT ![t].status = "POS_OK"]
    /\ goto(t, IF port = "zephyr" THEN "put_check_cb" ELSE "return")
    /\ UNCHANGED <<port, phase, handle, cbVars, life, overlap>>

\* Mutant: a message that finds the queue full replaces the newest one.
PutFullOverwriting(t) ==
    /\ InKernel(t, "put")
    /\ Len(buf) = Capacity
    /\ buf' = [buf EXCEPT ![Capacity] = call[t].item]
    /\ call' = [call EXCEPT ![t].status = "POS_OK"]
    /\ goto(t, "return")
    /\ UNCHANGED <<port, phase, handle, cbVars, life, overlap>>

PutFull(t) ==
    /\ InKernel(t, "put")
    /\ Len(buf) = Capacity
    /\ \/ /\ whenFull(t) = "assert"
          /\ phase' = "abort_put"
          /\ UNCHANGED <<pc, call>>
       \/ /\ whenFull(t) \notin {"assert", "block"}
          /\ call' = [call EXCEPT ![t].status = whenFull(t)]
          /\ goto(t, "return")
          /\ UNCHANGED phase
    /\ UNCHANGED <<port, handle, buf, cbVars, life, overlap>>

PutCheckCb(t) ==
    /\ phase = "alive"
    /\ pc[t] = "put_check_cb"
    /\ overlap' = [overlap EXCEPT ![t] = setting # "none"]
    /\ goto(t, IF sig_cb # "NULL" THEN "put_cb" ELSE "return")
    /\ UNCHANGED <<port, phase, handle, buf, cbVars, life, call>>

\* The pointer is in a register or read again, and then may be NULL.
PutCallCb(t) ==
    /\ phase = "alive"
    /\ pc[t] = "put_cb"
    /\ \/ goto(t, "return") /\ UNCHANGED phase
       \/ sig_cb = "NULL" /\ phase' = "abort_callback" /\ UNCHANGED pc
    /\ UNCHANGED <<port, handle, buf, cbVars, life, call, overlap>>

\* Mutant: the argument of the previous callback is left in place.
SetArgMissing ==
    /\ setting # "none"
    /\ setting' = "none"
    /\ UNCHANGED <<port, phase, handle, buf, sig_cb, sig_arg, life, callVars>>

\* pos_queue_set_signal_cb() by another task: the pointer ...
SetCb(cb) ==
    /\ phase = "alive"
    /\ port = "zephyr"
    /\ setting = "none"
    /\ cb # sig_cb
    /\ sig_cb' = cb
    /\ setting' = cb
    /\ overlap' = [t \in Callers |-> overlap[t] \/ pc[t] = "put_cb"]
    /\ UNCHANGED <<port, phase, handle, buf, sig_arg, life, pc, call>>

\* ... and then the argument.
SetArg ==
    /\ setting # "none"
    /\ sig_arg' = setting
    /\ setting' = "none"
    /\ UNCHANGED <<port, phase, handle, buf, sig_cb, life, callVars>>

-----------------------------------------------------------------------------
\* pos_queue_get() from the result of the kernel: "0", or "ENOMSG" without and
\* "EAGAIN" after waiting, in Zephyr's terms.  The FreeRTOS port accepts
\* errQUEUE_EMPTY like pdPASS.
pos_queue_get_freertos(err) == "POS_OK"
pos_queue_get_zephyr(err) ==
    CASE err = "0" -> "POS_OK" [] err = "EAGAIN" -> "POS_TIMEOUT" [] OTHER -> "POS_ERROR"
pos_queue_get_rt_thread(err) == IF err = "0" THEN "POS_OK" ELSE "POS_ERROR"

pos_queue_get(err) ==
    CASE port = "freertos"  -> pos_queue_get_freertos(err)
      [] port = "zephyr"    -> pos_queue_get_zephyr(err)
      [] port = "rt-thread" -> pos_queue_get_rt_thread(err)

GetDone(t, err, item) ==
    /\ call' = [call EXCEPT ![t].status = pos_queue_get(err), ![t].item = item]
    /\ goto(t, "return")

GetMessage(t) ==
    /\ InKernel(t, "get")
    /\ buf # << >>
    /\ GetDone(t, "0", Head(buf))
    /\ buf' = Tail(buf)
    /\ UNCHANGED <<port, phase, handle, cbVars, life, overlap>>

\* Mutant: a finite timeout is taken for POS_TIME_FOREVER.
GetEmptyForever(t) ==
    /\ InKernel(t, "get")
    /\ buf = << >>
    /\ call[t].tmo = "NO_WAIT"
    /\ GetDone(t, "ENOMSG", NoItem)
    /\ UNCHANGED <<port, phase, handle, buf, cbVars, life, overlap>>

\* No message: come back at once, or wait and give up at some time.
GetEmpty(t) ==
    /\ InKernel(t, "get")
    /\ buf = << >>
    /\ \/ call[t].tmo = "NO_WAIT" /\ GetDone(t, "ENOMSG", NoItem)
       \/ call[t].tmo = "FINITE" /\ GetDone(t, "EAGAIN", NoItem)
    /\ UNCHANGED <<port, phase, handle, buf, cbVars, life, overlap>>

pos_queue_is_empty(t) ==
    /\ InKernel(t, "is_empty")
    /\ call' = [call EXCEPT ![t].status = IF Len(buf) = 0 THEN "true" ELSE "false"]
    /\ goto(t, "return")
    /\ UNCHANGED <<port, phase, handle, buf, cbVars, life, overlap>>

Return(t) ==
    /\ phase = "alive"
    /\ pc[t] = "return"
    /\ call' = [call EXCEPT ![t] = Idle]
    /\ overlap' = [overlap EXCEPT ![t] = FALSE]
    /\ goto(t, "idle")
    /\ UNCHANGED <<port, phase, handle, buf, cbVars, life>>

-----------------------------------------------------------------------------
(***************************************************************************)
(* Tasks.  Each is started once.                                           *)
(***************************************************************************)

\* The kernel creates and schedules the task.  Where it has no memory for it there
\* is no task and an error, and the task may be started again.
pos_task_init_freertos(t)  == life' = [life EXCEPT ![t] = "running"]
pos_task_init_rt_thread(t) == life' = [life EXCEPT ![t] = "running"]
pos_task_init_zephyr(t)    == life' = [life EXCEPT ![t] = "running"]

pos_task_init(t) ==
    /\ life[t] = "none"
    /\ \/ port = "freertos"  /\ pos_task_init_freertos(t)
       \/ port = "rt-thread" /\ pos_task_init_rt_thread(t)
       \/ port = "zephyr"    /\ pos_task_init_zephyr(t)
    /\ UNCHANGED <<port, phase, handle, buf, cbVars, callVars>>

\* The task's function returns: the FreeRTOS kernel forbids it, the others end the
\* task.  (The RT-Thread port passes the function to the kernel, and not
\* pos_task_dispatch().)
pos_task_dispatch_freertos == phase' = "abort_task"
pos_task_wrapper_zephyr    == UNCHANGED phase

pos_task_dispatch(t) ==
    /\ life[t] = "running"
    /\ pc[t] = "idle"
    /\ life' = [life EXCEPT ![t] = "gone"]
    /\ \/ port = "freertos" /\ pos_task_dispatch_freertos
       \/ port = "zephyr"   /\ pos_task_wrapper_zephyr
       \/ port = "rt-thread" /\ UNCHANGED phase
    /\ UNCHANGED <<port, handle, buf, cbVars, callVars>>

\* k_thread_abort() and rt_thread_delete(), of a task that is there: it is taken off
\* the queue it waits for and stops where it is.  The FreeRTOS port has no such
\* function.
pos_task_remove_zephyr(t)    == life' = [life EXCEPT ![t] = "gone"]
pos_task_remove_rt_thread(t) == life' = [life EXCEPT ![t] = "gone"]

pos_task_remove(t) ==
    /\ life[t] = "running"
    /\ \/ port = "zephyr"    /\ pos_task_remove_zephyr(t)
       \/ port = "rt-thread" /\ pos_task_remove_rt_thread(t)
    /\ UNCHANGED <<port, phase, handle, buf, cbVars, pc, call, overlap>>

-----------------------------------------------------------------------------
Stopped == phase \in {"abort_init", "abort_handle", "abort_put", "abort_callback", "abort_task",
                      "destroyed"}

\* A step of a caller that is still there.
Step(t) ==
    /\ life[t] = "running"
    /\ \/ BadHandle(t) \/ PutStored(t) \/ PutFull(t) \/ PutCheckCb(t) \/ PutCallCb(t)
       \/ GetMessage(t) \/ GetEmpty(t) \/ pos_queue_is_empty(t) \/ Return(t)

Terminated == Stopped /\ UNCHANGED vars

Next ==
    \/ Construct \/ Destruct
    \/ SetArg \/ \E cb \in Cbs : SetCb(cb)
    \/ \E t \in Callers : Invoke(t) \/ Step(t)
    \/ \E t \in Tasks : ~Stopped /\ (pos_task_init(t) \/ pos_task_dispatch(t) \/ pos_task_remove(t))
    \/ Terminated

Spec == Init /\ [][Next]_vars

\* Callers are scheduled and timeouts expire; no caller has to call.
FairSpec == Spec /\ \A t \in Callers : WF_vars(Step(t))

-----------------------------------------------------------------------------
(***************************************************************************)
(* Properties                                                              *)
(***************************************************************************)

\* The variables have their types; the queue stays within its capacity.
TypeOK ==
    /\ port \in Ports
    /\ phase \in {"new", "alive", "destroyed", "abort_init", "abort_handle", "abort_put",
                  "abort_callback", "abort_task"}
    /\ handle \in {"NULL", "valid"}
    /\ buf \in Seq(Items) /\ Len(buf) <= Capacity
    /\ sig_cb \in Cbs /\ sig_arg \in Cbs /\ setting \in Cbs \cup {"none"}
    /\ life \in [Callers -> {"none", "running", "gone"}]
    /\ pc \in [Callers -> {"idle", "kernel", "put_check_cb", "put_cb", "return"}]
    /\ call \in [Callers -> [op : {"idle", "put", "get", "is_empty"}, tmo : Timeouts,
                             status : {"pending", "POS_OK", "POS_ERROR", "POS_TIMEOUT",
                                       "true", "false"},
                             item : Items \cup {NoItem}]]
    /\ overlap \in [Callers -> BOOLEAN]

\* A put is about to call a registered callback with the argument that was
\* registered with it, and never calls NULL, unless pos_queue_set_signal_cb()
\* overlaps it: the two fields are written one after the other.
CallbackOwnArgument ==
    /\ \A t \in Callers : pc[t] = "put_cb" /\ ~overlap[t] => sig_cb = "cb" /\ sig_arg = "cb"
    /\ phase = "abort_callback" => \E t \in Callers : overlap[t]

\* os_queue.h: "POS_OK Message received.": a get that reports success has brought a
\* message, on whatever port and after whatever wait.
GetOkHasMessage ==
    \A t \in Callers :
        call[t].op = "get" /\ call[t].status = "POS_OK" => call[t].item # NoItem

\* The calls in progress as a caller sees them: a get that brings no message is
\* one that gave up, whatever the port returns.
Seen(c) == [c EXCEPT !.status = IF c.op = "get" /\ c.status # "pending" /\ c.item = NoItem
                                THEN "POS_TIMEOUT" ELSE c.status]

MQ == INSTANCE MessageQueue WITH
          Threads <- Callers,
          queue   <- buf,
          call    <- [t \in Callers |-> Seen(call[t])],
          alive   <- phase \notin {"abort_put", "abort_callback"}

\* On every port the queue is a linearizable bounded FIFO: each call takes effect
\* once, messages come out in the order they went in, a put is refused, waits or
\* ends the program only when the queue is full, and a task that is removed in the
\* middle of a call leaves the queue as if it had only stopped to run.
KernelQueueImplementsMessageQueue == MQ!Spec

\* Every call that may not wait without end comes back, unless its caller is
\* removed or the program ends: removing other tasks while they wait for the queue
\* does not take it away from those that remain.
BoundedCallsReturn ==
    \A t \in Callers :
        /\ pc[t] # "idle"
        /\ call[t].tmo # "FOREVER"
        /\ port = "freertos" => call[t].op # "put" \/ t \in Isrs
        ~> pc[t] = "idle" \/ life[t] # "running" \/ Stopped
=============================================================================
