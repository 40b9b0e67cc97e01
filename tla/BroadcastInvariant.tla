------------------------- MODULE BroadcastInvariant -------------------------
(***************************************************************************)
(* The inductive invariant of BroadcastChannel, in six layers: the types, the *)
(* indices and, for each channel, the word that says who is gone, the waker, *)
(* the stream of values and their delivery.                                  *)
(***************************************************************************)
EXTENDS BroadcastChannel

Sending == {"load", "push", "wake"}
Dropping == {"drop", "dropwake", "gone"}
Unused == {"none", "free"}
\* There is a receiver, and it is not being dropped.
Live == Receiving \cup {"idle", "done", "cloning"}

\* The sender that is being dropped has been at channel c: it has left its mark
\* there, and it has also woken the receiver.
Passed(c) == spc = "gone" \/ (spc \in {"drop", "dropwake"} /\ at > c)
Marked(c) == Passed(c) \/ (spc = "dropwake" /\ at = c)

(***************************************************************************)
(* The invariant.                                                            *)
(***************************************************************************)

\* The types: the sender and how far it is, the channels, the receivers and the
\* subscriptions.
SenderType ==
    /\ spc \in Sending \cup Dropping \cup {"idle"}
    /\ at \in Chans /\ limit \in Chans /\ answers \in SUBSET {"Gone", "NoSpaceLeft", "Ok"}
    /\ sending \in Nat /\ sent \in Seq({"Ok", "NoSpaceLeft", "GenericError"}) /\ maxIndex \in Chans
    /\ sending = IF spc \in Sending THEN Len(sent) + 1 ELSE Len(sent)
    /\ spc \in Sending => sending \in Values /\ at <= limit /\ limit <= maxIndex
ChannelType ==
    /\ queue \in [Chans -> Seq(Values)] /\ waker \in [Chans -> BOOLEAN]
    /\ conn \in [Chans -> {"BOTH_IN", "SENDER_GONE", "RECV_GONE"}]
ReceiverType ==
    /\ rpc \in [Chans -> Live \cup Subscribing \cup Unused \cup {"dropping"}]
    /\ rstate \in [Chans -> {"BOTH_IN", "SENDER_GONE", "RECV_GONE"}]
    /\ woken \in SUBSET Chans /\ got \in [Chans -> Seq(Values)]
SubscriptionType ==
    /\ free \in Seq(Chans) /\ by \in [Chans -> Chans \cup {0}] /\ late \in SUBSET Chans /\ undrained \in SUBSET Chans
    /\ since \in [Chans -> [begun : Nat, returned : Nat]]
TypeInv == SenderType /\ ChannelType /\ ReceiverType /\ SubscriptionType

\* The indices: which are free, in the order they are given out, which were never
\* used, and who subscribes which.
FreeInv ==
    /\ \A i, k \in 1..Len(free) : free[i] = free[k] => i = k
    /\ \A i \in 1..Len(free) : rpc[free[i]] \in Unused
    /\ \A c \in Chans : rpc[c] \in Unused => \E i \in 1..Len(free) : free[i] = c
    /\ \A i, k \in 1..Len(free) :
         i < k /\ rpc[free[i]] = "none" => rpc[free[k]] = "none" /\ free[i] < free[k]
UsedInv ==
    /\ \A c, d \in Chans : rpc[c] = "none" /\ rpc[d] # "none" => d < c
    /\ \A c \in Chans : rpc[c] = "none" => maxIndex < c
    /\ \A c \in Chans : rpc[c] \in Live \cup {"enable", "clear"} => c <= maxIndex
CloneInv ==
    /\ \A c \in Chans : rpc[c] \in Subscribing /\ by[c] # 0 => rpc[by[c]] = "cloning"
    /\ \A c, d \in Chans :
         rpc[c] \in Subscribing /\ rpc[d] \in Subscribing /\ by[c] # 0 /\ by[c] = by[d] => c = d
IndexInv == FreeInv /\ UsedInv /\ CloneInv

\* The word that says who is gone, and what the queue says to a receiver.
ConnOf(c) ==
    /\ conn[c] = "RECV_GONE" => rpc[c] \in {"dropping", "free"} \cup Subscribing
    /\ rpc[c] \in {"dropping", "free"} => conn[c] # "BOTH_IN"
    /\ conn[c] = "SENDER_GONE" => Marked(c)
    /\ c \in undrained => c \in late
    /\ c \notin late /\ Marked(c) /\ rpc[c] \in Live => conn[c] = "SENDER_GONE"
    /\ rstate[c] = "SENDER_GONE" => spc \in Dropping
    /\ rpc[c] \in {"end", "done"} => spc \in Dropping /\ queue[c] = <<>>
    /\ rpc[c] \in {"take", "pop"} => queue[c] # <<>>
    /\ rpc[c] = "none" => queue[c] = <<>>
    /\ Len(queue[c]) <= Size
ConnInv == \A c \in Chans : ConnOf(c)

\* The waker: what it means that it is there, and when it is not.
WakeOf(c) ==
    /\ waker[c] /\ queue[c] # <<>> =>
         (at = c /\ spc = "wake") \/ rpc[c] \in {"state?", "again?", "empty?", "take"}
    /\ rpc[c] \in {"pop", "done"} \cup Unused \cup Subscribing => ~waker[c]
    /\ rpc[c] \in {"state?", "again?", "pending"} /\ c \notin woken => waker[c]
    /\ c \notin late /\ Passed(c) /\ waker[c] =>
         \/ rpc[c] \in {"state?", "end", "take", "dropping"}
         \/ rpc[c] = "again?" /\ rstate[c] = "SENDER_GONE"
         \/ rpc[c] = "empty?" /\ queue[c] # <<>>

\* What a receiver has got or will get.
Seen(c) == got[c] \o queue[c]
Increasing(s) == \A i, k \in DOMAIN s : i < k => s[i] < s[k]

\* The values: in order, none yet of a send that is to come, and fresh.
StreamOf(c) ==
    /\ Increasing(Seen(c))
    /\ \A v \in Range(Seen(c)) : v <= sending
    /\ (spc \in {"load", "push"} /\ at <= c) \/ (spc = "wake" /\ at < c) => \A v \in Range(Seen(c)) : v < sending
    /\ rpc[c] \in Unused \cup Subscribing => got[c] = <<>>
    /\ since[c].begun <= sending /\ since[c].returned <= Len(sent)
    /\ \/ rpc[c] \in Live \cup {"dropping", "clear", "none"}
       \/ rpc[c] \in {"max", "enable"} /\ conn[c] = "BOTH_IN"
       => c \in undrained \/ \A v \in Range(Seen(c)) : v > since[c].returned

\* Delivery: of the values that are sent, and of the one that is being sent.
DeliveryOf(c) ==
    rpc[c] \in Live =>
    /\ \A v \in 1..Len(sent) : sent[v] = "Ok" /\ v > since[c].begun => v \in Range(Seen(c))
    /\ spc \in Sending /\ since[c].begun < sending =>
         /\ c <= limit
         /\ c < at \/ (c = at /\ spc = "wake") => sending \in Range(Seen(c)) \/ "NoSpaceLeft" \in answers

LinkOf(c) == ConnOf(c) /\ WakeOf(c) /\ StreamOf(c) /\ DeliveryOf(c)
ChannelInv == TypeInv /\ IndexInv /\ \A c \in Chans : LinkOf(c)
=============================================================================
