---------------------------- MODULE BroadcastChannel ----------------------------
(* The broadcast channel of channels/spmc_broadcast.rs: one SpscChannel per       *)
(* receiver, a set of free indices (iceoryx2 UniqueIndexSet), and the highest     *)
(* index ever subscribed.  One sender; receivers come and go.                     *)
EXTENDS SpscChannel, FiniteSets, Functions

CONSTANT MaxSubscribe    \* bound: how often an index is subscribed
ASSUME SubscribeAssumption == MaxSubscribe \in Nat

VARIABLES
    spc,        \* where the sender is: "idle", a step of send, of drop, or "gone"
    at,         \* the index send or sender_dropping is at
    limit,      \* the highest index this send goes to
    answers,    \* what send has answered so far for this value: set of results
    sending,    \* the number of values whose send has begun
    sent,       \* for each value whose send has returned: its answer
    free,       \* free_slots, a stack
    maxIndex,   \* subscriber_index_max
    by,         \* who subscribes each index: the sender (0) or a receiver
    subscribed, \* how often an index was subscribed, up to the bound
    since,      \* for each receiver: how many sends had begun when it subscribed,
                \* and how many had returned when its subscription began
    late,       \* receivers that subscribed when the sender was being dropped or gone
    undrained   \* of these, the ones that found SENDER_GONE written over RECV_GONE

sendVars == <<spc, at, limit, answers, sending, sent>>
subVars == <<free, maxIndex, by, since, late, undrained, subscribed>>
vars == <<chanVars, recvVars, sendVars, subVars>>

\* The channels are numbered 1..N here, as sequences are.
N == Cardinality(Chans)
ASSUME IndexAssumption == N \in Nat \ {0} /\ Chans = 1..N

Subscribing == {"max", "enable", "clear"}

NoSub == [begun |-> 0, returned |-> 0]

\* create_channel: the first receiver is there.
Init ==
    /\ ChannelInit /\ ReceiverInit({1})
    /\ spc = "idle" /\ at = 1 /\ limit = 1 /\ answers = {} /\ sending = 0 /\ sent = <<>>
    /\ free = [i \in 1..(N - 1) |-> i + 1] /\ maxIndex = 1 /\ by = [c \in Chans |-> 0]
    /\ since = [c \in Chans |-> NoSub] /\ late = {} /\ undrained = {} /\ subscribed = 0

-----------------------------------------------------------------------------
(* Sender::send                                                              *)

\* The range of indices is read once, before the first channel.
SendBegin ==
    /\ spc = "idle" /\ sending + 1 \in Values
    /\ spc' = "load" /\ at' = 1 /\ limit' = maxIndex /\ answers' = {} /\ sending' = sending + 1
    /\ UNCHANGED <<chanVars, recvVars, sent, subVars>>

\* The next channel, or the answer: an error other than "receiver gone" wins,
\* "all gone" is an error too.
Answer(a) == IF "NoSpaceLeft" \in a THEN "NoSpaceLeft" ELSE IF "Ok" \in a THEN "Ok" ELSE "GenericError"
SendNext(a) ==
    /\ answers' = IF at < limit THEN answers \cup {a} ELSE {}
    /\ IF at < limit THEN at' = at + 1 /\ spc' = "load" /\ UNCHANGED <<limit, sent>>
       ELSE spc' = "idle" /\ sent' = Append(sent, Answer(answers \cup {a})) /\ at' = 1 /\ limit' = 1

SendLoad ==
    /\ spc = "load"
    /\ IF IsRecvGone(at) THEN SendNext("Gone") ELSE spc' = "push" /\ UNCHANGED <<at, limit, answers, sent>>
    /\ UNCHANGED <<chanVars, recvVars, sending, subVars>>

SendPush ==
    /\ spc = "push"
    /\ IF HasRoom(at) THEN PushValue(at, sending) /\ spc' = "wake" /\ UNCHANGED <<at, limit, answers, sent>>
       ELSE SendNext("NoSpaceLeft") /\ UNCHANGED <<chanVars, recvVars>>
    /\ UNCHANGED <<sending, subVars>>

\* Mutant: the waker is left in the store.
SendWakeNobody ==
    /\ spc = "wake" /\ SendNext("Ok")
    /\ UNCHANGED <<chanVars, recvVars, sending, subVars>>

SendWake ==
    /\ spc = "wake" /\ WakeReceiver(at) /\ SendNext("Ok")
    /\ UNCHANGED <<sending, subVars>>

\* Drop of the sender: every channel of the array, subscribed or not; the
\* receiver is woken when it was still there.
DropSender ==
    /\ spc = "idle" /\ spc' = "drop" /\ at' = 1
    /\ \A c \in Chans : rpc[c] \in Subscribing => by[c] # 0
    /\ UNCHANGED <<chanVars, recvVars, limit, answers, sending, sent, subVars>>
DropNext == IF at < N THEN at' = at + 1 /\ spc' = "drop" ELSE spc' = "gone" /\ at' = 1

DropSwap ==
    /\ spc = "drop" /\ SenderGone(at)
    /\ IF conn[at] = "BOTH_IN" THEN spc' = "dropwake" /\ UNCHANGED at ELSE DropNext
    /\ UNCHANGED <<limit, answers, sending, sent, subVars>>

DropWake ==
    /\ spc = "dropwake" /\ WakeReceiver(at) /\ DropNext
    /\ UNCHANGED <<limit, answers, sending, sent, subVars>>

-----------------------------------------------------------------------------
(* Sender::subscribe, Receiver::try_clone                                    *)

\* acquire_raw_index; None when all are taken.  The handle it is called on is
\* borrowed until the end: a receiver does nothing else meanwhile (it is not
\* Sync), the sender may send from another thread but is not dropped.
Subscribe(h) ==
    /\ free # <<>> /\ subscribed < MaxSubscribe /\ subscribed' = subscribed + 1
    /\ IF h = 0 THEN spc \notin {"drop", "dropwake", "gone"} ELSE rpc[h] \in {"idle", "done"}
    /\ LET c == Head(free) IN
        /\ rpc' = [d \in Chans |-> IF d = c THEN "max" ELSE IF d = h THEN "cloning" ELSE rpc[d]]
        /\ by' = [by EXCEPT ![c] = h]
        /\ since' = [since EXCEPT ![c] = [begun |-> sending, returned |-> Len(sent)]]
    /\ free' = Tail(free)
    /\ UNCHANGED <<chanVars, rstate, woken, got, sendVars, maxIndex, late, undrained>>

\* fetch_max, before the receiver exists
\* Mutant: a plain store.
StoreMax(c) ==
    /\ rpc[c] = "max" /\ RecvGoto(c, "enable") /\ maxIndex' = c
    /\ UNCHANGED <<chanVars, rstate, woken, got, sendVars, free, by, since, late, undrained, subscribed>>
SubscribeMax(c) ==
    /\ rpc[c] = "max" /\ RecvGoto(c, "enable")
    /\ maxIndex' = IF c > maxIndex THEN c ELSE maxIndex
    /\ UNCHANGED <<chanVars, rstate, woken, got, sendVars, free, by, since, late, undrained, subscribed>>

\* The receiver is there, the handle is free again.
Subscribed(c) ==
    /\ rpc' = [d \in Chans |-> IF d \in {c, by[c]} THEN "idle" ELSE rpc[d]]
    /\ since' = [since EXCEPT ![c].begun = sending]
    /\ late' = IF spc \in {"drop", "dropwake", "gone"} THEN late \cup {c} ELSE late
    /\ by' = [by EXCEPT ![c] = 0]

\* enable_receiver: the load and the clean-up, then the bit.  When the sender's drop
\* has swapped the word since the last receiver left, nothing is cleaned up.
SubscribeEnable(c) ==
    /\ rpc[c] = "enable"
    /\ IF IsRecvGone(c) THEN Drain(c) /\ RecvGoto(c, "clear") /\ UNCHANGED <<by, since, late, undrained>>
       ELSE /\ Subscribed(c) /\ UNCHANGED queue
            /\ undrained' = IF conn[c] = "SENDER_GONE" THEN undrained \cup {c} ELSE undrained
    /\ UNCHANGED <<waker, conn, rstate, woken, got, sendVars, free, maxIndex, subscribed>>

SubscribeClear(c) ==
    /\ rpc[c] = "clear" /\ ClearRecvGone(c) /\ Subscribed(c)
    /\ UNCHANGED <<queue, waker, rstate, woken, got, sendVars, free, maxIndex, undrained, subscribed>>

\* Receiver::drop: receiver_dropping, then the index is free again.
ReleaseIndex(c) ==
    /\ rpc[c] = "dropping" /\ RecvGoto(c, "free") /\ waker' = [waker EXCEPT ![c] = FALSE]
    /\ free' = <<c>> \o free /\ late' = late \ {c} /\ undrained' = undrained \ {c}
    /\ got' = [got EXCEPT ![c] = <<>>] /\ since' = [since EXCEPT ![c] = NoSub]
    /\ UNCHANGED <<queue, conn, rstate, woken, sendVars, maxIndex, by, subscribed>>

-----------------------------------------------------------------------------
\* The future of Receiver::recv, and the receiver itself.
RecvFuture(c) == PollRecv(c) \/ DropFuture(c) \/ ReceiverStep(c)
RecvStep(c) == (RecvFuture(c) \/ DropReceiver(c)) /\ UNCHANGED <<sendVars, subVars>>

Next ==
    \/ SendBegin \/ SendLoad \/ SendPush \/ SendWake \/ DropSender \/ DropSwap \/ DropWake
    \/ \E h \in Chans \cup {0} : Subscribe(h)
    \/ \E c \in Chans : SubscribeMax(c) \/ SubscribeEnable(c) \/ SubscribeClear(c) \/ ReleaseIndex(c) \/ RecvStep(c)
Spec == Init /\ [][Next]_vars

-----------------------------------------------------------------------------
TypeOK ==
    /\ \A c \in Chans : Len(queue[c]) <= Size /\ Range(queue[c]) \cup Range(got[c]) \subseteq Values
    /\ waker \in [Chans -> BOOLEAN] /\ conn \in [Chans -> {"BOTH_IN", "SENDER_GONE", "RECV_GONE"}]
    /\ woken \subseteq Chans /\ at \in Chans /\ sending \in 0..Len(sent) + 1 /\ maxIndex \in Chans
    /\ Range(free) \subseteq Chans /\ IsInjective(free) /\ late \subseteq Chans
    /\ Range(free) = {c \in Chans : rpc[c] \in {"none", "free"}}

\* The sender owes channel c a wake.
AboutToWake(c) == at = c /\ spc \in {"wake", "dropwake"}
Asleep(c) == rpc[c] = "pending" /\ c \notin woken

\* A receiver that waits is woken when there is data: its waker is in the store
\* and the queue is empty, or the sender has pushed and is about to take it.  In
\* particular the short cut for a waker that is still in the store loses nothing.
DataWakes ==
    \A c \in Chans : Asleep(c) /\ queue[c] # <<>> => waker[c] /\ AboutToWake(c)

\* A receiver that waits is woken when the sender goes away, and then gets None.
EndWakes ==
    \A c \in Chans \ late :
        Asleep(c) /\ (spc = "gone" \/ (spc = "drop" /\ at > c)) => FALSE

\* The same for every receiver: "None - If the Sender is dropped and no more
\* values are available" (recv).
EndWakesAll == \A c \in Chans : Asleep(c) /\ spc = "gone" => FALSE

\* Each receiver, late or not, sees values of sends that have begun, in order and
\* each once; and nothing whose send was over before it subscribed: the index of a
\* dropped receiver is clean when it is used again.  Only where the drop of the
\* sender has written over RECV_GONE before enable_receiver looked may it find what
\* its predecessor left.
FreshAndOrdered ==
    \A c \in Chans : rpc[c] \notin Subscribing \cup {"free"} =>
        LET seen == got[c] \o queue[c] IN
        /\ \A i \in DOMAIN seen : seen[i] <= sending
        /\ \A i, k \in DOMAIN seen : i < k => seen[i] < seen[k]
        /\ c \in undrained => c \in late
        /\ c \notin undrained => \A i \in DOMAIN seen : seen[i] > since[c].returned

\* The same without that exception: "Clear any stale data before enabling receiver
\* again" (enable_receiver).
StaleIsCleared ==
    \A c \in Chans : rpc[c] \notin Subscribing \cup {"free"} =>
        LET seen == got[c] \o queue[c] IN \A i \in DOMAIN seen : seen[i] > since[c].returned

\* When send answers Ok, every receiver that was there before has the value, or
\* has had it; a receiver may only miss what was refused with NoSpaceLeft.
SentIsDelivered ==
    \A v \in DOMAIN sent, c \in Chans :
        /\ sent[v] = "Ok" /\ v > since[c].begun
        /\ rpc[c] \notin Subscribing \cup {"none", "free", "dropping"}
        => v \in Range(got[c] \o queue[c])

\* None is the end: a receiver that was told so is not behind on any value.
EndIsLast == \A c \in Chans : rpc[c] \in {"end", "done"} => queue[c] = <<>>

\* A receiver that waits hears of data and of the end: send and the drop of the
\* sender take the waker that recv left, however their steps interleave.
ReceiverIsWoken == DataWakes /\ EndWakes
\* What a receiver gets is a stretch of the stream: values in order, the end last,
\* and nothing that an earlier receiver of its index left behind, unless it
\* subscribed at an index that the sender's drop had already marked.  The free
\* indices are those without a receiver and no channel exceeds its capacity.
StreamInOrder == TypeOK /\ FreshAndOrdered /\ EndIsLast
=============================================================================
