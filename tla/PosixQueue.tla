----------------------------- MODULE PosixQueue -----------------------------
(***************************************************************************)
(* The message queue of the POSIX port: RingPthread (RingPthread.h), an    *)
(* OsRing under one pthread mutex with one condition variable, behind the  *)
(* pos_queue_* functions (os_queue.cc).  Any number of threads call        *)
(* pos_queue_put(), pos_queue_get(), pos_queue_is_empty() and              *)
(* pos_queue_set_signal_cb(); a step is what one thread does between two   *)
(* points at which another thread can observe it.                          *)
(*                                                                         *)
(* pthread_cond_wait() releases the mutex and starts to wait in one step,  *)
(* may return without having been signalled, and has locked the mutex      *)
(* again when it returns.  pthread_cond_signal() unblocks one of the       *)
(* waiting threads, if there is one.                                       *)
(***************************************************************************)
EXTENDS OsRing, FiniteSets

CONSTANTS Producers,       \* threads that call pos_queue_put()
          Consumers,       \* threads that call pos_queue_get()
          Pollers,         \* threads that call pos_queue_is_empty()
          Configurators,   \* threads that call pos_queue_set_signal_cb()
          Timeouts,        \* timeouts passed to pos_queue_get()
          NoThread,
          NoItem

Threads == Producers \cup Consumers \cup Pollers \cup Configurators

ASSUME QueueAssumption ==
    /\ IsFiniteSet(Threads)
    /\ NoThread \notin Threads
    /\ NoItem \notin Items
    /\ Timeouts \subseteq {"NO_WAIT", "FINITE", "FOREVER"}

VARIABLES pc,       \* where each thread is
          msg,      \* the message a thread is sending or has received
          tmo,      \* the timeout of a get
          mutex,    \* _mutex: the thread that holds it
          condv,    \* _condv: the threads that wait and were not unblocked
          sig_cb,   \* whether a callback is registered (sig_cb != NULL)
          due       \* history: a push happened that no callback followed yet

callVars == <<pc, msg, tmo>>
syncVars == <<mutex, condv>>
sigVars  == <<sig_cb, due>>
vars     == <<ringVars, alive, callVars, syncVars, sigVars>>

goto(t, label) == pc' = [pc EXCEPT ![t] = label]

at(t, label) == alive /\ pc[t] = label

\* pthread_mutex_lock(): blocks while another thread holds the mutex.  No
\* thread locks it twice, so that it is recursive makes no difference.
lock(t) == mutex = NoThread /\ mutex' = t

unlock(t) == mutex' = NoThread

\* pos_queue_init(): an empty ring, nobody in it and no callback.
Init ==
    /\ RingInit
    /\ pc = [t \in Threads |-> "idle"]
    /\ msg = [t \in Threads |-> NoItem]
    /\ tmo = [t \in Threads |-> "NO_WAIT"]
    /\ mutex = NoThread
    /\ condv = {}
    /\ sig_cb = FALSE
    /\ due = FALSE

-----------------------------------------------------------------------------
(***************************************************************************)
(* pos_queue_put() and RingPthread::put()                                  *)
(***************************************************************************)
PutCall(t, item) ==
    /\ at(t, "idle")
    /\ msg' = [msg EXCEPT ![t] = item]
    /\ goto(t, "put_lock")
    /\ UNCHANGED <<ringVars, alive, tmo, syncVars, sigVars>>

PutLock(t) ==
    /\ at(t, "put_lock")
    /\ lock(t)
    /\ goto(t, "put_push")
    /\ UNCHANGED <<ringVars, alive, msg, tmo, condv, sigVars>>

\* push_back() asserts that the ring is not full.
PutPush(t) ==
    /\ at(t, "put_push")
    /\ \/ /\ full
          /\ assert_fails
          /\ UNCHANGED <<pc, due>>
       \/ /\ ~full
          /\ push_back(msg[t])
          /\ due' = (due \/ sig_cb)
          /\ goto(t, "put_signal")
          /\ UNCHANGED alive
    /\ UNCHANGED <<msg, tmo, syncVars, sig_cb>>

\* Mutant: the condition is signalled only when the ring was empty before.
PutSignalOnEdge(t) ==
    /\ at(t, "put_signal")
    /\ IF condv # {} /\ size = 1
         THEN \E c \in condv : condv' = condv \ {c}
         ELSE UNCHANGED condv
    /\ goto(t, "put_unlock")
    /\ UNCHANGED <<ringVars, alive, msg, tmo, mutex, sigVars>>

\* pthread_cond_signal(), with the mutex held.
PutSignal(t) ==
    /\ at(t, "put_signal")
    /\ IF condv # {}
         THEN \E c \in condv : condv' = condv \ {c}
         ELSE UNCHANGED condv
    /\ goto(t, "put_unlock")
    /\ UNCHANGED <<ringVars, alive, msg, tmo, mutex, sigVars>>

PutUnlock(t) ==
    /\ at(t, "put_unlock")
    /\ unlock(t)
    /\ goto(t, "put_check_cb")
    /\ UNCHANGED <<ringVars, alive, msg, tmo, condv, sigVars>>

\* Mutant: the callback is not made when the queue has been drained already.
PutCheckCbSkipping(t) ==
    /\ at(t, "put_check_cb")
    /\ goto(t, IF sig_cb /\ ~empty THEN "put_call_cb" ELSE "put_return")
    /\ UNCHANGED <<ringVars, alive, msg, tmo, syncVars, sigVars>>

\* "if (msgq->sig_cb)": read without the mutex.
PutCheckCb(t) ==
    /\ at(t, "put_check_cb")
    /\ goto(t, IF sig_cb THEN "put_call_cb" ELSE "put_return")
    /\ UNCHANGED <<ringVars, alive, msg, tmo, syncVars, sigVars>>

\* The pointer is kept in a register or, in a build that does not optimise, read
\* again: if it has been cleared in between, NULL is called.
PutCallCb(t) ==
    /\ at(t, "put_call_cb")
    /\ \/ /\ due' = FALSE
          /\ goto(t, "put_return")
          /\ UNCHANGED alive
       \/ /\ ~sig_cb
          /\ alive' = FALSE
          /\ UNCHANGED <<pc, due>>
    /\ UNCHANGED <<ringVars, msg, tmo, syncVars, sig_cb>>

\* "return POS_OK"
PutReturn(t) ==
    /\ at(t, "put_return")
    /\ msg' = [msg EXCEPT ![t] = NoItem]
    /\ goto(t, "idle")
    /\ UNCHANGED <<ringVars, alive, tmo, syncVars, sigVars>>

-----------------------------------------------------------------------------
(***************************************************************************)
(* pos_queue_get() and RingPthread::get()                                  *)
(***************************************************************************)
GetCall(t, timeout) ==
    /\ at(t, "idle")
    /\ tmo' = [tmo EXCEPT ![t] = timeout]
    /\ goto(t, "get_lock")
    /\ UNCHANGED <<ringVars, alive, msg, syncVars, sigVars>>

\* Mutant: a get that will not wait does not take the mutex.
GetLockIfWaiting(t) ==
    /\ at(t, "get_lock")
    /\ \/ tmo[t] # "NO_WAIT" /\ lock(t) /\ goto(t, "get_loop")
       \/ tmo[t] = "NO_WAIT" /\ goto(t, "get_copy") /\ UNCHANGED mutex
    /\ UNCHANGED <<ringVars, alive, msg, tmo, condv, sigVars>>

\* "if (tmo)" selects the loop; whatever its value, a timeout other than 0 is
\* not used for anything else.
GetLock(t) ==
    /\ at(t, "get_lock")
    /\ lock(t)
    /\ goto(t, IF tmo[t] # "NO_WAIT" THEN "get_loop" ELSE "get_copy")
    /\ UNCHANGED <<ringVars, alive, msg, tmo, condv, sigVars>>

\* The head of "while (size() == 0)".
GetLoop(t) ==
    /\ at(t, "get_loop")
    /\ \/ /\ size = 0
          /\ unlock(t)
          /\ condv' = condv \cup {t}
          /\ goto(t, "get_wait")
       \/ /\ size # 0
          /\ goto(t, "get_copy")
          /\ UNCHANGED syncVars
    /\ UNCHANGED <<ringVars, alive, msg, tmo, sigVars>>

\* pthread_cond_wait() may unblock for no reason.
SpuriousWakeup(t) ==
    /\ at(t, "get_wait")
    /\ t \in condv
    /\ condv' = condv \ {t}
    /\ UNCHANGED <<ringVars, alive, callVars, mutex, sigVars>>

\* Mutant: the condition is tested with "if" and not again after the wait.
GetWakeupOnce(t) ==
    /\ at(t, "get_wait")
    /\ t \notin condv
    /\ lock(t)
    /\ goto(t, "get_copy")
    /\ UNCHANGED <<ringVars, alive, msg, tmo, condv, sigVars>>

\* pthread_cond_wait() returns with the mutex locked.
GetWakeup(t) ==
    /\ at(t, "get_wait")
    /\ t \notin condv
    /\ lock(t)
    /\ goto(t, "get_loop")
    /\ UNCHANGED <<ringVars, alive, msg, tmo, condv, sigVars>>

\* Mutant: an early return from the empty ring that forgets the mutex.
GetCopyLeaky(t) ==
    /\ at(t, "get_copy")
    /\ \/ /\ size # 0
          /\ msg' = [msg EXCEPT ![t] = front]
          /\ goto(t, "get_pop")
       \/ /\ size = 0
          /\ goto(t, "get_return")
          /\ UNCHANGED msg
    /\ UNCHANGED <<ringVars, alive, tmo, syncVars, sigVars>>

\* The message under front() is copied out, if there is one.
GetCopy(t) ==
    /\ at(t, "get_copy")
    /\ \/ /\ size # 0
          /\ msg' = [msg EXCEPT ![t] = front]
          /\ goto(t, "get_pop")
       \/ /\ size = 0
          /\ goto(t, "get_unlock")
          /\ UNCHANGED msg
    /\ UNCHANGED <<ringVars, alive, tmo, syncVars, sigVars>>

\* pop_front() asserts that the ring is not empty.
GetPop(t) ==
    /\ at(t, "get_pop")
    /\ IF empty
         THEN assert_fails /\ UNCHANGED pc
         ELSE pop_front /\ goto(t, "get_unlock") /\ UNCHANGED alive
    /\ UNCHANGED <<msg, tmo, syncVars, sigVars>>

GetUnlock(t) ==
    /\ at(t, "get_unlock")
    /\ unlock(t)
    /\ goto(t, "get_return")
    /\ UNCHANGED <<ringVars, alive, msg, tmo, condv, sigVars>>

\* POS_OK with the message, or POS_TIMEOUT without one.
GetReturn(t) ==
    /\ at(t, "get_return")
    /\ msg' = [msg EXCEPT ![t] = NoItem]
    /\ tmo' = [tmo EXCEPT ![t] = "NO_WAIT"]
    /\ goto(t, "idle")
    /\ UNCHANGED <<ringVars, alive, syncVars, sigVars>>

-----------------------------------------------------------------------------
(***************************************************************************)
(* pos_queue_is_empty() and RingPthread::size(); pos_queue_set_signal_cb() *)
(***************************************************************************)
IsEmptyCall(t) ==
    /\ at(t, "idle")
    /\ goto(t, "size_lock")
    /\ UNCHANGED <<ringVars, alive, msg, tmo, syncVars, sigVars>>

SizeLock(t) ==
    /\ at(t, "size_lock")
    /\ lock(t)
    /\ goto(t, "size_read")
    /\ UNCHANGED <<ringVars, alive, msg, tmo, condv, sigVars>>

\* The size is compared with 0 by the caller; the label keeps the outcome.
SizeRead(t) ==
    /\ at(t, "size_read")
    /\ goto(t, IF size = 0 THEN "size_unlock_true" ELSE "size_unlock_false")
    /\ UNCHANGED <<ringVars, alive, msg, tmo, syncVars, sigVars>>

SizeUnlock(t) ==
    /\ alive
    /\ pc[t] \in {"size_unlock_true", "size_unlock_false"}
    /\ unlock(t)
    /\ goto(t, "idle")
    /\ UNCHANGED <<ringVars, alive, msg, tmo, condv, sigVars>>

\* The caller replaces or clears the callback: from here on no earlier message
\* is owed a call.  The argument that goes with the callback is left out.
SetSignalCb(t, registered) ==
    /\ at(t, "idle")
    /\ sig_cb' = registered
    /\ due' = FALSE
    /\ UNCHANGED <<ringVars, alive, callVars, syncVars>>

-----------------------------------------------------------------------------
PutStep(t) ==
    \/ PutLock(t) \/ PutPush(t) \/ PutSignal(t) \/ PutUnlock(t)
    \/ PutCheckCb(t) \/ PutCallCb(t) \/ PutReturn(t)

GetStep(t) ==
    \/ GetLock(t) \/ GetLoop(t) \/ GetWakeup(t)
    \/ GetCopy(t) \/ GetPop(t) \/ GetUnlock(t) \/ GetReturn(t)

SizeStep(t) == SizeLock(t) \/ SizeRead(t) \/ SizeUnlock(t)

Calls(t) ==
    \/ t \in Producers /\ \E item \in Items : PutCall(t, item)
    \/ t \in Consumers /\ \E timeout \in Timeouts : GetCall(t, timeout)
    \/ t \in Pollers /\ IsEmptyCall(t)
    \/ t \in Configurators /\ \E registered \in BOOLEAN : SetSignalCb(t, registered)

Abort == Aborted /\ UNCHANGED <<callVars, syncVars, sigVars>>

Next ==
    \/ \E t \in Threads :
          Calls(t) \/ PutStep(t) \/ GetStep(t) \/ SizeStep(t) \/ SpuriousWakeup(t)
    \/ Abort

Spec == Init /\ [][Next]_vars

(***************************************************************************)
(* Fairness: the kernel schedules every runnable thread, and a thread that *)
(* finds the mutex free again and again locks it eventually.  The calls    *)
(* themselves and spurious wakeups are not fair: no thread has to call.    *)
(***************************************************************************)
Acquire(t) == PutLock(t) \/ GetLock(t) \/ GetWakeup(t) \/ SizeLock(t)

Fairness ==
    \A t \in Threads :
        /\ WF_vars(PutStep(t) \/ GetStep(t) \/ SizeStep(t))
        /\ SF_vars(Acquire(t))

FairSpec == Spec /\ Fairness

-----------------------------------------------------------------------------
(***************************************************************************)
(* Properties                                                              *)
(***************************************************************************)
PutLabels == {"put_lock", "put_push", "put_signal", "put_unlock",
              "put_check_cb", "put_call_cb", "put_return"}

GetLabels == {"get_lock", "get_loop", "get_wait", "get_copy", "get_pop",
              "get_unlock", "get_return"}

SizeLabels == {"size_lock", "size_read", "size_unlock_true", "size_unlock_false"}

\* Where a thread is between locking and unlocking the mutex.
Inside == {"put_push", "put_signal", "put_unlock",
           "get_loop", "get_copy", "get_pop", "get_unlock",
           "size_read", "size_unlock_true", "size_unlock_false"}

\* Every thread is at a label of the code and carries a message exactly where
\* the code has one: all the way through put(), and in get() from the copy on,
\* until it returns empty-handed or with the message.
TypeOK ==
    /\ RingTypeOK
    /\ pc \in [Threads -> {"idle"} \cup PutLabels \cup GetLabels \cup SizeLabels]
    /\ msg \in [Threads -> Items \cup {NoItem}]
    /\ tmo \in [Threads -> Timeouts \cup {"NO_WAIT"}]
    /\ mutex \in Threads \cup {NoThread}
    /\ condv \subseteq Threads
    /\ sig_cb \in BOOLEAN
    /\ due \in BOOLEAN
    /\ \A t \in Threads :
          /\ pc[t] \in PutLabels \cup {"get_pop"} => msg[t] # NoItem
          /\ pc[t] \notin PutLabels \cup {"get_pop", "get_unlock", "get_return"}
                => msg[t] = NoItem

\* The ring is only ever touched by the thread that holds the mutex, also
\* around the wait inside get(), and a thread that waits does not hold it.
MutualExclusion ==
    /\ \A t \in Threads : pc[t] \in Inside <=> mutex = t
    /\ \A t \in condv : pc[t] = "get_wait"

\* Between the copy of the oldest message and its removal nobody else removes
\* or replaces it: get() returns the message that it takes out.
CopyIsFront ==
    \A t \in Threads : pc[t] = "get_pop" => ~empty /\ msg[t] = front

\* The threads that are about to take a message, or to unblock one that will.
OnTheWay ==
    {t \in Threads : \/ pc[t] \in {"put_signal", "get_loop", "get_copy", "get_pop"}
                     \/ pc[t] = "get_wait" /\ t \notin condv}

\* No wakeup is lost: as long as somebody is blocked in pthread_cond_wait(),
\* every message in the ring is matched by a thread of its own that is on its
\* way to take it or to signal the condition.  One pthread_cond_signal() per
\* put(), also when the ring was not empty before, is what this takes.
NoLostWakeup == condv # {} => size <= Cardinality(OnTheWay)

\* The callback comes after the message it announces: when no put() is between
\* its push and its callback, every message pushed while a callback was
\* registered has been followed by a call of it, so that an event loop that
\* drains the queue upon each call misses none.
SignalFollowsPush ==
    due => \E t \in Threads :
              pc[t] \in {"put_signal", "put_unlock", "put_check_cb", "put_call_cb"}

\* The call each thread is executing.  put() takes effect when it pushes,
\* get() when it pops or finds the ring empty, is_empty() when it reads.
callOf(t) ==
    LET c(op, status, item) ==
            [op |-> op, tmo |-> tmo[t], status |-> status, item |-> item]
    IN  CASE pc[t] \in {"put_lock", "put_push"} -> c("put", "pending", msg[t])
          [] pc[t] \in PutLabels \ {"put_lock", "put_push"} -> c("put", "POS_OK", msg[t])
          [] pc[t] \in GetLabels \ {"get_unlock", "get_return"} -> c("get", "pending", NoItem)
          [] pc[t] \in {"get_unlock", "get_return"} ->
                c("get", IF msg[t] = NoItem THEN "POS_TIMEOUT" ELSE "POS_OK", msg[t])
          [] pc[t] \in {"size_lock", "size_read"} -> c("is_empty", "pending", NoItem)
          [] pc[t] = "size_unlock_true" -> c("is_empty", "true", NoItem)
          [] pc[t] = "size_unlock_false" -> c("is_empty", "false", NoItem)
          [] OTHER -> c("idle", "pending", NoItem)

Abstract == INSTANCE MessageQueue WITH
                queue <- Contents,
                call <- [t \in Threads |-> callOf(t)],
                Capacity <- ItemCount

\* The queue is linearizable: threads that share it through the mutex and the
\* condition variable see one FIFO queue, get() returns the oldest message and
\* returns nothing only if it may not wait and the queue was empty.
QueueImplementsMessageQueue == Abstract!Spec

\* include/poski/osal/os_queue.h: a get() with a finite timeout returns when the
\* waiting period is over ("POS_TIMEOUT Waiting period timed out").
TimedGetReturns ==
    \A t \in Consumers :
        (pc[t] \in GetLabels /\ tmo[t] = "FINITE") ~> (pc[t] = "idle" \/ ~alive)
=============================================================================
