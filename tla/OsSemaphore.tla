----------------------------- MODULE OsSemaphore -----------------------------
(***************************************************************************)
(* OsSemaphore (include/poski/OsSemaphore.h) on pos_sem_init(),            *)
(* pos_sem_take() and pos_sem_give() of every port (os_sem.c): a native    *)
(* semaphore and the atomic count of tokens taken (take_depth_) from which *)
(* the destructor knows how many to give back.                             *)
(*                                                                         *)
(* The token and the count change in two steps.  The POSIX port computes   *)
(* an absolute deadline itself; the others leave waiting to a kernel call  *)
(* and differ in how they translate what it returns.                       *)
(***************************************************************************)
EXTENDS PosixTimedWait, FiniteSets

CONSTANTS Ports,          \* the ports of the instance
          Takers,         \* threads that call Take()
          Givers,         \* threads that call Give()
          InitialTokens,  \* initialTokens, a uint16_t
          SemValueMax,    \* the limit of the native semaphore (128 for FreeRTOS)
          MaxLost,        \* bound on gives dropped at the limit
          LastCall,       \* bound: no timed call starts after this time ...
          MaxClock        \* bound on the clock

Threads == Takers \cup Givers

\* A larger number of initial tokens makes the creation of the semaphore fail.
ASSUME SemAssumption ==
    /\ Ports \subseteq {"posix", "apple", "freertos", "zephyr", "rt-thread"}
    /\ IsFiniteSet(Threads)
    /\ SemValueMax \in Nat
    /\ InitialTokens \in 0 .. SemValueMax
    /\ MaxLost \in Nat
    /\ LastCall \in Nat
    /\ MaxClock \in Nat

VARIABLES port,          \* the port the program is built for
          phase,         \* of the object: "new", "alive", ..., or how the program aborted
          clock,
          value,         \* the value of the native semaphore
          take_depth_,   \* OsSemaphore::take_depth_
          lost,          \* history: gives that reported success and left no token
          pc,
          tmo,           \* the timeout of a take
          called,        \* history: when the take was called
          wait,          \* the deadline of a take (a local variable in the POSIX port)
          ret            \* what a call returns

semVars  == <<value, take_depth_, lost>>
callVars == <<tmo, called, wait, ret>>
vars     == <<port, phase, clock, semVars, pc, callVars>>

goto(t, label) == pc' = [pc EXCEPT ![t] = label]

NoTime == [tv_sec |-> 0, tv_nsec |-> 0]

Init ==
    /\ port \in Ports
    /\ phase = "new"
    /\ clock = 0
    /\ value = 0
    /\ take_depth_ = 0
    /\ lost = 0
    /\ pc = [t \in Threads |-> "idle"]
    /\ tmo = [t \in Threads |-> Forever]
    /\ called = [t \in Threads |-> 0]
    /\ wait = [t \in Threads |-> NoTime]
    /\ ret = [t \in Threads |-> "POS_OK"]

\* ... and the clock goes beyond it only when no deadline is being computed.
Tick ==
    /\ phase \in {"constructing", "alive"}
    /\ clock < MaxClock
    /\ clock >= LastCall =>
          \A t \in Threads : pc[t] \notin {"take_clock", "take_timed", "take_kernel"}
    /\ clock' = clock + 1
    /\ UNCHANGED <<port, phase, semVars, pc, callVars>>

-----------------------------------------------------------------------------
(***************************************************************************)
(* What each port does besides waiting.  "assert" stands for an assertion  *)
(* that stops the program.                                                 *)
(***************************************************************************)

\* pos_sem_init(), by whether there is a semaphore.  sem_init() and k_sem_init()
\* allocate nothing.
pos_sem_init_apple(created)     == IF created THEN "POS_OK" ELSE "POS_ENOMEM"
pos_sem_init_posix(created)     == map_posix_to_osal_error(IF created THEN "0" ELSE "-1")
pos_sem_init_freertos(created)  == IF created THEN "POS_OK" ELSE "assert"
pos_sem_init_zephyr(created)    == "POS_OK"
pos_sem_init_rt_thread(created) == IF created THEN "POS_OK" ELSE "assert"

pos_sem_init(created) ==
    CASE port = "posix"     -> pos_sem_init_posix(created)
      [] port = "apple"     -> pos_sem_init_apple(created)
      [] port = "freertos"  -> pos_sem_init_freertos(created)
      [] port = "zephyr"    -> pos_sem_init_zephyr(created)
      [] port = "rt-thread" -> pos_sem_init_rt_thread(created)

\* What the kernel is asked for: to wait or to come back at once.  The Apple port
\* passes a period where dispatch_semaphore_wait() takes a point in time, which
\* for any period is in the past.
waits(timeout) == timeout # 0 /\ port # "apple"

\* The results of a take, from what the native call reports: "0", or "EBUSY"
\* without and "EAGAIN" after waiting, in Zephyr's terms.
pos_sem_take_freertos(err)  == IF err = "0" THEN "POS_OK" ELSE "POS_TIMEOUT"
pos_sem_take_rt_thread(err) == IF err = "0" THEN "POS_OK" ELSE "POS_TIMEOUT"
pos_sem_take_apple(err)     == IF err = "0" THEN "POS_OK" ELSE "POS_TIMEOUT"
pos_sem_take_zephyr(err) ==
    CASE err = "0" -> "POS_OK" [] err = "EAGAIN" -> "POS_TIMEOUT" [] OTHER -> "POS_ERROR"

pos_sem_take(err) ==
    CASE port = "posix"     -> map_posix_to_osal_error(err)
      [] port = "apple"     -> pos_sem_take_apple(err)
      [] port = "freertos"  -> pos_sem_take_freertos(err)
      [] port = "zephyr"    -> pos_sem_take_zephyr(err)
      [] port = "rt-thread" -> pos_sem_take_rt_thread(err)

\* Mutant: the semaphore is a plain counter without a maximum.
pos_sem_give_unbounded == [token |-> TRUE, ret |-> "POS_OK"]

\* Whether a give adds a token, and its result.  sem_post() returns -1 at the
\* maximum and the POSIX port does not look at errno; k_sem_give() has no result.
pos_sem_give_posix == [token |-> value < SemValueMax,
                       ret   |-> IF value < SemValueMax THEN "POS_OK"
                                 ELSE map_posix_to_osal_error("-1")]
pos_sem_give_freertos == [token |-> value < SemValueMax,
                          ret   |-> IF value < SemValueMax THEN "POS_OK" ELSE "assert"]
pos_sem_give_zephyr == [token |-> value < SemValueMax, ret |-> "POS_OK"]
pos_sem_give_rt_thread == [token |-> value < SemValueMax,
                           ret   |-> IF value < SemValueMax THEN "POS_OK" ELSE "POS_ERROR"]
pos_sem_give_apple == [token |-> TRUE, ret |-> "POS_OK"]

pos_sem_give ==
    CASE port = "posix"     -> pos_sem_give_posix
      [] port = "apple"     -> pos_sem_give_apple
      [] port = "freertos"  -> pos_sem_give_freertos
      [] port = "zephyr"    -> pos_sem_give_zephyr
      [] port = "rt-thread" -> pos_sem_give_rt_thread

\* Bounds: the dispatch semaphore has no limit, the model stops at SemValueMax; and
\* no more than MaxLost gives are lost.
mayGive ==
    /\ port = "apple" => value < SemValueMax
    /\ port = "zephyr" /\ value = SemValueMax => lost < MaxLost

\* The native side of a give.
Post ==
    /\ mayGive
    /\ value' = value + (IF pos_sem_give.token THEN 1 ELSE 0)
    /\ lost' = lost + (IF pos_sem_give.ret = "POS_OK" /\ ~pos_sem_give.token THEN 1 ELSE 0)

-----------------------------------------------------------------------------
(***************************************************************************)
(* OsSemaphore::Take() and pos_sem_take()                                  *)
(***************************************************************************)
Enter(t, timeout) ==
    /\ pc[t] = "idle"
    /\ timeout # Forever => clock <= LastCall
    /\ tmo' = [tmo EXCEPT ![t] = timeout]
    /\ called' = [called EXCEPT ![t] = clock]
    /\ goto(t, IF timeout = Forever THEN "take_forever"
               ELSE IF port = "posix" THEN "take_clock" ELSE "take_kernel")
    /\ UNCHANGED <<port, clock, wait, ret>>

TakeCall(t, timeout) ==
    /\ phase = "alive"
    /\ Enter(t, timeout)
    /\ UNCHANGED <<phase, semVars>>

\* The native call is over.
Finish(t, err) ==
    /\ ret' = [ret EXCEPT ![t] = pos_sem_take(err)]
    /\ goto(t, IF pos_sem_take(err) = "POS_OK" THEN "take_count" ELSE "failed")
    /\ value' = IF err = "0" THEN value - 1 ELSE value
    /\ UNCHANGED <<take_depth_, lost>>

\* A token is there and taken.
Decrement(t) == value > 0 /\ Finish(t, "0")

\* sem_wait(), or the wait without end of a kernel.
TakeForever(t) ==
    /\ pc[t] = "take_forever"
    /\ Decrement(t)
    /\ UNCHANGED <<port, phase, clock, tmo, called, wait>>

\* A signal handler of the application interrupts the wait.  pos_sem_take() does
\* not resume it: the -1 of sem_wait() and the EINTR of sem_timedwait() are both
\* passed to the caller as POS_ERROR.
TakeInterrupted(t) ==
    /\ port = "posix"
    /\ pc[t] \in {"take_forever", "take_blocked"}
    /\ value = 0
    /\ Finish(t, IF pc[t] = "take_forever" THEN "-1" ELSE "EINTR")
    /\ UNCHANGED <<port, phase, clock, tmo, called, wait>>

\* The deadline is computed from the clock of this moment.
TakeClock(t) ==
    /\ pc[t] = "take_clock"
    /\ wait' = [wait EXCEPT ![t] = addTimeout(gettime(clock), tmo[t])]
    /\ goto(t, "take_timed")
    /\ UNCHANGED <<port, phase, clock, semVars, tmo, called, ret>>

\* sem_timedwait() rejects an invalid deadline when it would have to block; if a
\* token is there the check is optional, and glibc makes it also then.
TakeTimed(t) ==
    /\ pc[t] = "take_timed"
    /\ \/ Decrement(t)
       \/ /\ value = 0
          /\ validTime(wait[t])
          /\ goto(t, "take_blocked")
          /\ UNCHANGED <<semVars, ret>>
       \/ ~validTime(wait[t]) /\ Finish(t, "EINVAL")
    /\ UNCHANGED <<port, phase, clock, tmo, called, wait>>

\* xSemaphoreTake(), k_sem_take(), rt_sem_take(), dispatch_semaphore_wait()
TakeKernel(t) ==
    /\ pc[t] = "take_kernel"
    /\ \/ Decrement(t) /\ UNCHANGED wait
       \/ value = 0 /\ ~waits(tmo[t]) /\ Finish(t, "EBUSY") /\ UNCHANGED wait
       \/ /\ value = 0
          /\ waits(tmo[t])
          /\ wait' = [wait EXCEPT ![t] = gettime(kernelDeadline(port, clock, tmo[t]))]
          /\ goto(t, "take_blocked")
          /\ UNCHANGED <<semVars, ret>>
    /\ UNCHANGED <<port, phase, clock, tmo, called>>

\* Mutant: a take that has waited long enough keeps waiting for a token.
TakeBlockedForever(t) ==
    /\ pc[t] = "take_blocked"
    /\ Decrement(t)
    /\ UNCHANGED <<port, phase, clock, tmo, called, wait>>

TakeBlocked(t) ==
    /\ pc[t] = "take_blocked"
    /\ \/ Decrement(t)
       \/ /\ reached(wait[t], clock)
          /\ Finish(t, IF port = "posix" THEN "ETIMEDOUT" ELSE "EAGAIN")
    /\ UNCHANGED <<port, phase, clock, tmo, called, wait>>

\* The call is over: nothing of it is left in the thread.
Return(t) ==
    /\ goto(t, "idle")
    /\ tmo' = [tmo EXCEPT ![t] = Forever]
    /\ called' = [called EXCEPT ![t] = 0]
    /\ wait' = [wait EXCEPT ![t] = NoTime]
    /\ ret' = [ret EXCEPT ![t] = "POS_OK"]

\* "take_depth_++" on an atomic variable, and Take() returns POS_OK.  The
\* constructor sets the count to 1.
TakeCount(t) ==
    /\ pc[t] = "take_count"
    /\ take_depth_' = IF phase = "constructing" THEN 1 ELSE take_depth_ + 1
    /\ phase' = "alive"
    /\ Return(t)
    /\ UNCHANGED <<port, clock, value, lost>>

\* Take() and Give() pass an error on and do not count; the constructor asserts.
Failed(t) ==
    /\ pc[t] = "failed"
    /\ phase' = IF phase = "constructing" THEN "abort_constructor" ELSE phase
    /\ Return(t)
    /\ UNCHANGED <<port, clock, semVars>>

-----------------------------------------------------------------------------
(***************************************************************************)
(* OsSemaphore::Give() and pos_sem_give()                                  *)
(***************************************************************************)

\* Mutant: Give() counts also when the native give has failed.
GiveCounting(t) ==
    /\ phase = "alive"
    /\ pc[t] = "idle"
    /\ Post
    /\ goto(t, "give_count")
    /\ UNCHANGED <<port, phase, clock, take_depth_, callVars>>

Give(t) ==
    /\ phase = "alive"
    /\ pc[t] = "idle"
    /\ Post
    /\ ret' = [ret EXCEPT ![t] = pos_sem_give.ret]
    /\ goto(t, IF pos_sem_give.ret = "POS_OK" THEN "give_count" ELSE "failed")
    /\ phase' = IF pos_sem_give.ret = "assert" THEN "abort_give" ELSE phase
    /\ UNCHANGED <<port, clock, take_depth_, tmo, called, wait>>

\* "take_depth_--" on an atomic variable.
GiveCount(t) ==
    /\ pc[t] = "give_count"
    /\ take_depth_' = take_depth_ - 1
    /\ goto(t, "idle")
    /\ UNCHANGED <<port, phase, clock, value, lost, callVars>>

\* An interrupt handler takes (without waiting) or gives: no thread runs meanwhile.
\* The FreeRTOS port has calls of its own for it, with the same results.
IsrTake ==
    /\ phase = "alive"
    /\ port \in {"freertos", "zephyr", "rt-thread"}
    /\ value > 0
    /\ value' = value - 1
    /\ take_depth_' = take_depth_ + 1
    /\ UNCHANGED <<port, phase, clock, lost, pc, callVars>>

IsrGive ==
    /\ phase = "alive"
    /\ port \in {"freertos", "zephyr", "rt-thread"}
    /\ Post
    /\ take_depth_' = IF pos_sem_give.ret = "POS_OK" THEN take_depth_ - 1 ELSE take_depth_
    /\ phase' = IF pos_sem_give.ret = "assert" THEN "abort_give" ELSE phase
    /\ UNCHANGED <<port, clock, pc, callVars>>

-----------------------------------------------------------------------------
(***************************************************************************)
(* The constructor, with or without a take, and the destructor.  Nobody    *)
(* else may use the object meanwhile.                                      *)
(***************************************************************************)
Construct(t) ==
    /\ phase = "new"
    /\ pos_sem_init(TRUE) = "POS_OK"
    /\ value' = InitialTokens
    /\ \/ phase' = "alive" /\ UNCHANGED <<port, clock, pc, callVars>>
       \/ /\ phase' = "constructing"
          /\ \E timeout \in Timeouts \cup {Forever} : Enter(t, timeout)
    /\ UNCHANGED <<take_depth_, lost>>

\* There is no memory for a semaphore.
ConstructFails ==
    /\ phase = "new"
    /\ port \in {"apple", "freertos", "rt-thread"}
    /\ pos_sem_init(FALSE) # "POS_OK"
    /\ phase' = "abort_constructor"
    /\ UNCHANGED <<port, clock, semVars, pc, callVars>>

Destruct ==
    /\ phase = "alive"
    /\ \A t \in Threads : pc[t] = "idle"
    /\ phase' = "destructing"
    /\ UNCHANGED <<port, clock, semVars, pc, callVars>>

\* Mutant: the loop does not count the tokens it gives.
DestructLoopUncounted ==
    /\ phase = "destructing"
    /\ value' = value + (IF pos_sem_give.token THEN 1 ELSE 0)
    /\ phase' = IF take_depth_ <= 0 THEN "destroyed"
                ELSE IF pos_sem_give.ret = "POS_OK" THEN phase ELSE "abort_destructor"
    /\ UNCHANGED <<port, clock, take_depth_, lost, pc, callVars>>

\* One turn of the loop, or its end.
DestructLoop ==
    /\ phase = "destructing"
    /\ \/ /\ take_depth_ > 0
          /\ Post
          /\ IF pos_sem_give.ret = "POS_OK"
             THEN take_depth_' = take_depth_ - 1 /\ UNCHANGED phase
             ELSE phase' = "abort_destructor" /\ UNCHANGED take_depth_
       \/ /\ take_depth_ <= 0
          /\ phase' = "destroyed"
          /\ UNCHANGED semVars
    /\ UNCHANGED <<port, clock, pc, callVars>>

-----------------------------------------------------------------------------
Aborted == phase \in {"abort_constructor", "abort_give", "abort_destructor"}

Step(t) ==
    /\ ~Aborted
    /\ \/ TakeForever(t) \/ TakeClock(t) \/ TakeTimed(t) \/ TakeKernel(t) \/ TakeBlocked(t)
       \/ TakeCount(t) \/ Failed(t) \/ GiveCount(t)

\* An assertion has failed, or the object is gone.
Terminated == (Aborted \/ phase = "destroyed") /\ UNCHANGED vars

Next ==
    \/ Tick
    \/ IsrTake \/ IsrGive
    \/ ConstructFails \/ Destruct \/ DestructLoop
    \/ Terminated
    \/ \E t \in Threads :
          \/ Step(t)
          \/ ~Aborted /\ TakeInterrupted(t)
          \/ t \in Givers /\ Give(t)
          \/ t \in Takers /\ Construct(t)
          \/ /\ t \in Takers
             /\ \E timeout \in Timeouts \cup {Forever} : TakeCall(t, timeout)

Spec == Init /\ [][Next]_vars

\* Threads are scheduled and time passes (strong fairness, as the bound on the
\* clock suspends it now and then).  Nobody has to give or to interrupt.
FairSpec == Spec /\ SF_vars(Tick) /\ \A t \in Threads : WF_vars(Step(t))

-----------------------------------------------------------------------------
(***************************************************************************)
(* Properties                                                              *)
(***************************************************************************)
TimeSpec == [tv_sec : Nat, tv_nsec : Nat]

\* The variables have their types; the semaphore stays within its maximum.
TypeOK ==
    /\ port \in Ports
    /\ phase \in {"new", "constructing", "alive", "destructing", "destroyed",
                  "abort_constructor", "abort_give", "abort_destructor"}
    /\ clock \in 0 .. MaxClock
    /\ value \in 0 .. SemValueMax
    /\ take_depth_ \in Int
    /\ lost \in 0 .. MaxLost
    /\ pc \in [Threads -> {"idle", "take_forever", "take_clock", "take_timed", "take_kernel",
                           "take_blocked", "take_count", "failed", "give_count"}]
    /\ tmo \in [Threads -> Timeouts \cup {Forever}]
    /\ called \in [Threads -> Nat]
    /\ wait \in [Threads -> TimeSpec]
    /\ ret \in [Threads -> {"POS_OK", "POS_TIMEOUT", "POS_EINVAL", "POS_ERROR", "assert"}]

Counting(label) == Cardinality({t \in Threads : pc[t] = label})

\* No token is lost or made up between the semaphore and the count that the
\* destructor gives back, whatever overlaps, times out, is interrupted or
\* overflows: apart from the calls between their two steps, the tokens there and
\* the tokens taken are the initial ones.  The exception are gives at the limit of
\* a Zephyr semaphore, which k_sem_give() drops and Give() counts.
TokensConserved ==
    phase # "new" /\ phase # "abort_constructor" =>
        /\ value + lost + take_depth_ + Counting("take_count")
              = InitialTokens + Counting("give_count")
        /\ lost > 0 => port = "zephyr"

\* os_sem.h: "Waiting period to take the semaphore (in milliseconds)".  POS_TIMEOUT is
\* not returned before the waiting period of the caller is over, to within the tick
\* that was running when a kernel was called: the deadline is the caller's own, and
\* is right whenever it is valid.  FreeRTOS and RT-Thread take the milliseconds for
\* ticks, so there it takes a tick of a millisecond or more.  The Apple port does not
\* wait.
TakeTimeoutNotEarly ==
    \A t \in Threads :
        port # "apple" /\ ret[t] = "POS_TIMEOUT" =>
            clock + resolution(port) > called[t] + tmo[t]

\* An assertion on a give fails only in a program that gives what it has not taken:
\* never in the destructor, and in Give() (FreeRTOS) only when its gives outnumber
\* its takes by the room between the initial tokens and the limit.
AbortMeansOvergiven ==
    /\ phase # "abort_destructor"
    /\ phase = "abort_give" =>
          take_depth_ + Counting("take_count") + (SemValueMax - InitialTokens)
              <= Counting("give_count")

\* A take with a finite timeout comes back, also if nobody gives.
TimedTakeReturns ==
    \A t \in Takers : tmo[t] # Forever ~> pc[t] = "idle" \/ Aborted
=============================================================================
