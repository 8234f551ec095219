---------------------------- MODULE MessageQueue ----------------------------
(***************************************************************************)
(* The message queue as its callers see it: every call of pos_queue_put(), *)
(* pos_queue_get() and pos_queue_is_empty() takes effect at one instant    *)
(* between its invocation and its return, on a bounded FIFO queue          *)
(* (linearizability).  There is no mutex, no condition variable and no     *)
(* storage here.  Two things can end the process in some ports, and here:  *)
(* a put() into a full queue, which other ports refuse, and a callback     *)
(* that is cleared while a put() that has taken effect is about to make    *)
(* it.                                                                     *)
(***************************************************************************)
EXTENDS Naturals, Sequences

CONSTANTS Items,       \* the messages
          Capacity,    \* max_msgs
          Threads,     \* the callers
          Timeouts,    \* the timeouts passed to pos_queue_get()
          NoItem       \* stands for the absence of a message

VARIABLES queue,       \* the messages in the queue, oldest first
          call,        \* the call each thread is executing
          alive        \* FALSE once the process has been aborted

\* A call in progress: which operation, its argument, the status it will
\* return ("pending" until it takes effect) and the message it transports.
Idle == [op |-> "idle", tmo |-> "NO_WAIT", status |-> "pending", item |-> NoItem]

Init ==
    /\ queue = << >>
    /\ call = [t \in Threads |-> Idle]
    /\ alive = TRUE

Invoke(t) ==
    /\ alive
    /\ call[t] = Idle
    /\ \E c \in [op : {"put"}, tmo : {"NO_WAIT"}, status : {"pending"}, item : Items]
                \cup [op : {"get"}, tmo : Timeouts, status : {"pending"}, item : {NoItem}]
                \cup [op : {"is_empty"}, tmo : {"NO_WAIT"}, status : {"pending"}, item : {NoItem}] :
          call' = [call EXCEPT ![t] = c]
    /\ UNCHANGED <<queue, alive>>

Pending(t, op) == alive /\ call[t].op = op /\ call[t].status = "pending"

Put(t) ==
    /\ Pending(t, "put")
    /\ Len(queue) < Capacity
    /\ queue' = Append(queue, call[t].item)
    /\ call' = [call EXCEPT ![t].status = "POS_OK"]
    /\ UNCHANGED alive

PutOverflow(t) ==
    /\ Pending(t, "put")
    /\ Len(queue) = Capacity
    /\ alive' = FALSE
    /\ UNCHANGED <<queue, call>>

PutRefused(t) ==
    /\ Pending(t, "put")
    /\ Len(queue) = Capacity
    /\ call' = [call EXCEPT ![t].status = "POS_ERROR"]
    /\ UNCHANGED <<queue, alive>>

PutCallbackGone(t) ==
    /\ alive
    /\ call[t].op = "put"
    /\ call[t].status = "POS_OK"
    /\ alive' = FALSE
    /\ UNCHANGED <<queue, call>>

Get(t) ==
    /\ Pending(t, "get")
    /\ queue # << >>
    /\ queue' = Tail(queue)
    /\ call' = [call EXCEPT ![t].status = "POS_OK", ![t].item = Head(queue)]
    /\ UNCHANGED alive

\* A get that may wait without end does not come back without a message.
GetNothing(t) ==
    /\ Pending(t, "get")
    /\ call[t].tmo # "FOREVER"
    /\ queue = << >>
    /\ call' = [call EXCEPT ![t].status = "POS_TIMEOUT"]
    /\ UNCHANGED <<queue, alive>>

IsEmpty(t) ==
    /\ Pending(t, "is_empty")
    /\ call' = [call EXCEPT ![t].status = IF queue = << >> THEN "true" ELSE "false"]
    /\ UNCHANGED <<queue, alive>>

Return(t) ==
    /\ alive
    /\ call[t].status # "pending"
    /\ call' = [call EXCEPT ![t] = Idle]
    /\ UNCHANGED <<queue, alive>>

Next == \E t \in Threads :
            \/ Invoke(t) \/ Return(t)
            \/ Put(t) \/ PutOverflow(t) \/ PutRefused(t) \/ PutCallbackGone(t)
            \/ Get(t) \/ GetNothing(t)
            \/ IsEmpty(t)

Spec == Init /\ [][Next]_<<queue, call, alive>>
=============================================================================
