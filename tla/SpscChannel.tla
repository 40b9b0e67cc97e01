------------------------------ MODULE SpscChannel ------------------------------
(* The single-producer single-consumer channels of channels/spsc.rs: a bounded  *)
(* lock-free queue (iceoryx2, taken as a FIFO), a waker store, and a word that  *)
(* says which side is gone.  Each access to shared memory is one step.  The     *)
(* variables are functions of the channel, because spmc_broadcast.rs keeps an   *)
(* array of these channels; a plain channel is the case of one index.           *)
EXTENDS Naturals, Sequences

CONSTANTS
    Chans,      \* the channels
    Size,       \* the capacity of a channel
    Values      \* the values that can be sent

ASSUME ChannelAssumption == Size \in Nat \ {0} /\ Values \subseteq Nat

VARIABLES
    queue,      \* the values in each channel
    waker,      \* is a waker stored
    conn,       \* connected_state: "BOTH_IN", "SENDER_GONE" or "RECV_GONE"
    rpc,        \* where each receiver is
    rstate,     \* the connected_state a receiver has read
    woken,      \* channels whose receiver was woken while it polls or waits
    got         \* the values a receiver was given

chanVars == <<queue, waker, conn>>
recvVars == <<rpc, rstate, woken, got>>

\* Channel::new for each, and create_channel for those in C: a receiver is there.
ChannelInit ==
    /\ queue = [c \in Chans |-> <<>>] /\ waker = [c \in Chans |-> FALSE]
    /\ conn = [c \in Chans |-> "BOTH_IN"]
ReceiverInit(C) ==
    /\ rpc = [c \in Chans |-> IF c \in C THEN "idle" ELSE "none"] /\ woken = {}
    /\ rstate = [c \in Chans |-> "BOTH_IN"] /\ got = [c \in Chans |-> <<>>]

\* The steps of a poll of recv, and the wait between two polls.
Receiving == {"empty?", "take", "pop", "store", "state?", "again?", "end", "pending"}
RecvGoto(c, p) == rpc' = [rpc EXCEPT ![c] = p]

\* waker_store.take(), and wake() if there was one.
TakeAndWake(c) ==
    /\ waker' = [waker EXCEPT ![c] = FALSE]
    /\ woken' = IF waker[c] /\ rpc[c] \in Receiving THEN woken \cup {c} ELSE woken

-----------------------------------------------------------------------------
(* Channel::send and Channel::sender_dropping, in the hands of the sender      *)

IsRecvGone(c) == conn[c] = "RECV_GONE"
HasRoom(c) == Len(queue[c]) < Size

PushValue(c, v) ==
    /\ queue' = [queue EXCEPT ![c] = Append(@, v)]
    /\ UNCHANGED <<waker, conn, recvVars>>

WakeReceiver(c) == TakeAndWake(c) /\ UNCHANGED <<queue, conn, rpc, rstate, got>>

SenderGone(c) ==
    /\ conn' = [conn EXCEPT ![c] = "SENDER_GONE"]
    /\ UNCHANGED <<queue, waker, recvVars>>

-----------------------------------------------------------------------------
(* Receiver::recv and Channel::receive.  rpc: "none" (no receiver), "idle",    *)
(* "pending" (the future returned Pending), and the steps of a poll.           *)

\* The future is polled: the first time, after a wake, or for another reason.
PollRecv(c) ==
    /\ rpc[c] \in {"idle", "pending", "done"} /\ RecvGoto(c, "empty?")
    /\ woken' = woken \ {c}
    /\ UNCHANGED <<chanVars, rstate, got>>

\* The future is dropped while it is pending; its waker stays in the store.
DropFuture(c) ==
    /\ rpc[c] = "pending" /\ RecvGoto(c, "idle") /\ woken' = woken \ {c}
    /\ UNCHANGED <<chanVars, rstate, got>>

IsEmpty(c) ==
    /\ rpc[c] = "empty?" /\ RecvGoto(c, IF queue[c] = <<>> THEN "store" ELSE "take")
    /\ UNCHANGED <<chanVars, rstate, woken, got>>

\* There is data: the waker is cleared, then one value is taken.
ClearWaker(c) ==
    /\ rpc[c] = "take" /\ RecvGoto(c, "pop") /\ waker' = [waker EXCEPT ![c] = FALSE]
    /\ UNCHANGED <<queue, conn, rstate, woken, got>>

PopData(c) ==
    /\ rpc[c] = "pop" /\ RecvGoto(c, "idle")
    /\ queue' = [queue EXCEPT ![c] = Tail(@)] /\ got' = [got EXCEPT ![c] = Append(@, Head(queue[c]))]
    /\ woken' = woken \ {c} /\ UNCHANGED <<waker, conn, rstate>>

\* With a waker of its own still there nobody has sent meanwhile, and the
\* receiver waits; otherwise it must look again.
StoreWaker(c) ==
    /\ rpc[c] = "store" /\ waker' = [waker EXCEPT ![c] = TRUE]
    /\ RecvGoto(c, IF waker[c] THEN "pending" ELSE "state?")
    /\ UNCHANGED <<queue, conn, rstate, woken, got>>

LoadState(c) ==
    /\ rpc[c] = "state?" /\ RecvGoto(c, "again?") /\ rstate' = [rstate EXCEPT ![c] = conn[c]]
    /\ UNCHANGED <<chanVars, woken, got>>

\* The state was read before the queue is looked at again, so an empty queue and
\* a sender that is gone mean the end.
Recheck(c) ==
    /\ rpc[c] = "again?"
    /\ RecvGoto(c, IF queue[c] # <<>> THEN "empty?"
                   ELSE IF rstate[c] = "SENDER_GONE" THEN "end" ELSE "pending")
    /\ rstate' = [rstate EXCEPT ![c] = "BOTH_IN"] /\ UNCHANGED <<chanVars, woken, got>>

\* AlreadyDone: recv answers None.
RecvEnd(c) ==
    /\ rpc[c] = "end" /\ RecvGoto(c, "done") /\ waker' = [waker EXCEPT ![c] = FALSE]
    /\ woken' = woken \ {c} /\ UNCHANGED <<queue, conn, rstate, got>>

ReceiverStep(c) ==
    \/ IsEmpty(c) \/ ClearWaker(c) \/ PopData(c) \/ StoreWaker(c)
    \/ LoadState(c) \/ Recheck(c) \/ RecvEnd(c)

\* Channel::receiver_dropping: two stores.
DropReceiver(c) ==
    /\ rpc[c] \in {"idle", "pending", "done"} /\ RecvGoto(c, "dropping")
    /\ conn' = [conn EXCEPT ![c] = "RECV_GONE"] /\ woken' = woken \ {c}
    /\ UNCHANGED <<queue, waker, rstate, got>>

-----------------------------------------------------------------------------
(* Channel::enable_receiver, when an index is used again.                      *)

\* What is left of the last receiver is thrown away, if it was seen to be gone.
\* Mutant: the values for the last receiver are kept.
DrainKept(c) == UNCHANGED queue
Drain(c) == queue' = [queue EXCEPT ![c] = <<>>]

\* fetch_and(!RECV_GONE)
ClearRecvGone(c) == conn' = [conn EXCEPT ![c] = IF @ = "RECV_GONE" THEN "BOTH_IN" ELSE @]
=============================================================================
