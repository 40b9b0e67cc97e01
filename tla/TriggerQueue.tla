----------------------------- MODULE TriggerQueue -----------------------------
(* The blocking queues of kyron-foundation (containers/trigger_queue.rs): a    *)
(* mutex-protected FIFO ring, a condition variable, and a flag that tells the  *)
(* producers whether the single consumer sleeps, so that they skip the notify  *)
(* when it does not.  A critical section is one step; the notify_one that      *)
(* follows the unlock is a step of its own.                                    *)
EXTENDS Naturals, Sequences

CONSTANTS
    Queues,     \* the queues
    Pushers,    \* the threads that push
    Capacity,   \* [Queues -> Nat], the size given to TriggerQueue::new
    NoQueue     \* "this thread owes no notify"

ASSUME CapacityAssumption == Capacity \in [Queues -> Nat \ {0}]

VARIABLES
    items,      \* the ring behind the mutex, oldest value first
    state,      \* TRUE while the consumer sleeps
    cv,         \* the consumer and the condition variable: "off", "waiting", "notified"
    notify      \* the queue a pusher has yet to notify

queueVars == <<items, state, cv, notify>>

QueueInit ==
    /\ items = [q \in Queues |-> <<>>]
    /\ state = [q \in Queues |-> FALSE]
    /\ cv = [q \in Queues |-> "off"]
    /\ notify = [p \in Pushers |-> NoQueue]

\* Queue::push refuses when the ring is full; a refused push changes nothing.
Full(q) == Len(items[q]) = Capacity[q]

Push(p, q, v) ==
    /\ ~Full(q)
    /\ items' = [items EXCEPT ![q] = Append(@, v)]
    /\ notify' = IF state[q] THEN [notify EXCEPT ![p] = q] ELSE notify
    /\ UNCHANGED <<state, cv>>

\* Only a thread that waits can be notified; otherwise the signal is gone.
NotifyOne(p) ==
    /\ notify[p] # NoQueue
    /\ cv' = [cv EXCEPT ![notify[p]] = IF @ = "waiting" THEN "notified" ELSE @]
    /\ notify' = [notify EXCEPT ![p] = NoQueue]
    /\ UNCHANGED <<items, state>>

\* pop_into_vec: what fits into n free places, under one lock.
Batch(q, n) == SubSeq(items[q], 1, IF Len(items[q]) < n THEN Len(items[q]) ELSE n)
PopIntoVec(q, n) ==
    /\ items' = [items EXCEPT ![q] = SubSeq(@, Len(Batch(q, n)) + 1, Len(@))]
    /\ UNCHANGED <<state, cv, notify>>

\* Mutant: the consumer lies down without raising the flag.
PopBlockingUnflagged(q) ==
    /\ items[q] = <<>> /\ cv[q] = "off"
    /\ cv' = [cv EXCEPT ![q] = "waiting"]
    /\ UNCHANGED <<items, state, notify>>

\* pop_blocking and pop_blocking_with_timeout on an empty queue.
PopBlocking(q) ==
    /\ items[q] = <<>> /\ cv[q] = "off"
    /\ state' = [state EXCEPT ![q] = TRUE]
    /\ cv' = [cv EXCEPT ![q] = "waiting"]
    /\ UNCHANGED <<items, notify>>

\* Awake or never asleep, the condition is looked at before the clock: a value
\* is taken even when the time is over.
PopValue(q) ==
    /\ items[q] # <<>>
    /\ items' = [items EXCEPT ![q] = Tail(@)]
    /\ state' = [state EXCEPT ![q] = FALSE]
    /\ cv' = [cv EXCEPT ![q] = "off"]
    /\ UNCHANGED notify

\* Err(Timeout): the time is over and the queue is empty.
PopTimeout(q) ==
    /\ cv[q] # "off" /\ items[q] = <<>>
    /\ state' = [state EXCEPT ![q] = FALSE]
    /\ cv' = [cv EXCEPT ![q] = "off"]
    /\ UNCHANGED <<items, notify>>

\* wait_while sleeps on when it is woken and finds nothing.
PopSleepsOn(q) ==
    /\ cv[q] = "notified" /\ items[q] = <<>>
    /\ cv' = [cv EXCEPT ![q] = "waiting"]
    /\ UNCHANGED <<items, state, notify>>
=============================================================================
