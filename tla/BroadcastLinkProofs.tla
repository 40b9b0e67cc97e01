------------------------ MODULE BroadcastLinkProofs -------------------------
(***************************************************************************)
(* What a send and a subscription of BroadcastChannel do to one channel:     *)
(* LinkOf(d), the part of the invariant that is about channel d, is kept.    *)
(***************************************************************************)
EXTENDS BroadcastInvariant, TLAPS

(***************************************************************************)
(* Sequences.                                                                *)
(***************************************************************************)

\* push: one element more, at the end.
LEMMA Pushed ==
  ASSUME NEW S, NEW s \in Seq(S), NEW v \in S
  PROVE  /\ Append(s, v) \in Seq(S) /\ Append(s, v) # <<>> /\ Len(Append(s, v)) = Len(s) + 1
         /\ Range(Append(s, v)) = Range(s) \cup {v}
<1> DEFINE t == Append(s, v)
<1>1. /\ t \in Seq(S) /\ t # <<>> /\ Len(t) = Len(s) + 1 /\ DOMAIN t = 1..Len(s) + 1 /\ DOMAIN s = 1..Len(s)
      /\ Len(s) \in Nat /\ t[Len(s) + 1] = v /\ \A i \in 1..Len(s) : t[i] = s[i]
  OBVIOUS
<1> HIDE DEF t
<1>2. Range(t) = Range(s) \cup {v}
  BY <1>1 DEF Range
<1> QED
  BY <1>1, <1>2 DEF t

\* pop: the first element is gone.
LEMMA Popped ==
  ASSUME NEW S, NEW s \in Seq(S), s # <<>>
  PROVE  /\ Head(s) \in S /\ Head(s) = s[1] /\ Tail(s) \in Seq(S)
         /\ Len(Tail(s)) = Len(s) - 1 /\ Len(s) \in Nat \ {0}
         /\ \A i \in 1..Len(s) - 1 : Tail(s)[i] = s[i + 1]
OBVIOUS

\* The numbers of the channels.
LEMMA ChansType ==
  /\ 1 \in Chans /\ 0 \notin Chans /\ \A c \in Chans : c \in Nat /\ c >= 1 /\ c <= N
  /\ \A c \in Chans : c < N => c + 1 \in Chans
  /\ \A c, d \in Chans : c < d => c + 1 \in Chans
BY IndexAssumption

\* A receiver goes its way, until it is dropped.
LEMMA RecvEffect ==
  ASSUME TypeInv, NEW c \in Chans, RecvStep(c)
  PROVE  /\ rpc[c] \in Live \ {"cloning"} /\ UNCHANGED <<sendVars, subVars>>
         /\ \E l \in (Live \ {"cloning"}) \cup {"dropping"} : rpc' = [rpc EXCEPT ![c] = l]
BY DEF RecvStep, RecvFuture, ReceiverStep, PollRecv, DropFuture, IsEmpty, ClearWaker, PopData,
       StoreWaker, LoadState, Recheck, RecvEnd, DropReceiver, RecvGoto, Live, Receiving

\* The index that Subscribe takes is the first free one.
LEMMA SubscribeEffect ==
  ASSUME TypeInv, FreeInv, NEW h \in Chans \cup {0}, Subscribe(h)
  PROVE  \E c \in Chans :
         /\ rpc[c] \in Unused /\ c # h /\ c = free[1] /\ Len(free) >= 1
         /\ h # 0 => rpc[h] \in {"idle", "done"}
         /\ h = 0 => spc \notin Dropping
         /\ rpc' = [d \in Chans |-> IF d = c THEN "max" ELSE IF d = h THEN "cloning" ELSE rpc[d]]
         /\ by' = [by EXCEPT ![c] = h]
         /\ since' = [since EXCEPT ![c] = [begun |-> sending, returned |-> Len(sent)]]
         /\ free' \in Seq(Chans) /\ Len(free') = Len(free) - 1
         /\ \A i \in 1..Len(free) - 1 : free'[i] = free[i + 1]
         /\ UNCHANGED <<chanVars, rstate, woken, got, sendVars, maxIndex, late, undrained>>
<1>1. free \in Seq(Chans) /\ free # <<>>
  BY DEF TypeInv, SubscriptionType, Subscribe
<1>2. /\ Head(free) \in Chans /\ Head(free) = free[1] /\ Len(free) \in Nat \ {0}
      /\ Tail(free) \in Seq(Chans) /\ Len(Tail(free)) = Len(free) - 1
      /\ \A i \in 1..Len(free) - 1 : Tail(free)[i] = free[i + 1]
  BY <1>1, Popped
<1>3. rpc[Head(free)] \in Unused /\ Len(free) >= 1
  BY <1>2 DEF FreeInv
<1>4. Head(free) # h
  BY <1>2, <1>3, IndexAssumption DEF Subscribe, Unused
<1> QED
  BY <1>2, <1>3, <1>4, Zenon DEF Subscribe, Dropping

\* A subscription in progress becomes a receiver, or gets on.
LEMMA SubscribedEffect ==
  ASSUME TypeInv, CloneInv, NEW c \in Chans, rpc[c] \in Subscribing, Subscribed(c)
  PROVE  /\ rpc' = [d \in Chans |-> IF d = c \/ d = by[c] THEN "idle" ELSE rpc[d]]
         /\ by[c] # c /\ (by[c] # 0 => by[c] \in Chans /\ rpc[by[c]] = "cloning")
BY IndexAssumption DEF Subscribed, TypeInv, SubscriptionType, CloneInv, Subscribing

(***************************************************************************)
(* The sequence of values a receiver has got or will get.                    *)
(***************************************************************************)

\* A value moves from the queue to the receiver: the sequence is the same.
LEMMA PopSeen ==
  ASSUME NEW S, NEW g \in Seq(S), NEW q \in Seq(S), q # <<>>
  PROVE  Append(g, Head(q)) \o Tail(q) = g \o q
OBVIOUS

\* A value is pushed: it is the last.
LEMMA PushSeen ==
  ASSUME NEW S, NEW g \in Seq(S), NEW q \in Seq(S), NEW v \in S
  PROVE  g \o Append(q, v) = Append(g \o q, v)
OBVIOUS

\* The order is kept by a larger value at the end.
LEMMA OrderKept ==
  ASSUME NEW s \in Seq(Nat), Increasing(s), NEW v \in Nat, \A u \in Range(s) : u < v
  PROVE  Increasing(Append(s, v))
BY DEF Increasing, Range

\* What the receiver leaves behind is in order.
LEMMA Suffix ==
  ASSUME NEW g \in Seq(Nat), NEW q \in Seq(Nat), Increasing(g \o q)
  PROVE  Increasing(q) /\ Range(q) \subseteq Range(g \o q)
<1> DEFINE n == Len(g)  s == g \o q
<1>1. /\ n \in Nat /\ DOMAIN q = 1..Len(q) /\ Len(q) \in Nat /\ DOMAIN s = 1..n + Len(q)
      /\ \A i \in 1..Len(q) : s[n + i] = q[i]
  OBVIOUS
<1> HIDE DEF n, s
<1>2. \A i, k \in 1..Len(q) : n + i \in DOMAIN s /\ (i < k => n + i < n + k)
  BY <1>1
<1>3. Range(q) \subseteq Range(s)
  BY <1>1, <1>2, Zenon DEF Range
<1>4. Increasing(s) => Increasing(q)
  BY <1>1, <1>2, Zenon DEF Increasing
<1> QED
  BY <1>3, <1>4 DEF s

\* Nothing at all.
LEMMA NothingSeen ==
  ASSUME NEW q \in Seq(Nat)
  PROVE  <<>> \o q = q /\ Range(<<>>) = {} /\ Increasing(<<>>)
BY DEF Range, Increasing

\* The values are numbers.
LEMMA SeenType ==
  ASSUME TypeInv, NEW d \in Chans
  PROVE  /\ got[d] \in Seq(Nat) /\ queue[d] \in Seq(Nat) /\ Seen(d) \in Seq(Nat) /\ Range(Seen(d)) \subseteq Nat
         /\ since[d].begun \in Nat /\ since[d].returned \in Nat /\ d \in Nat /\ at \in Nat /\ N \in Nat
         /\ Len(sent) \in Nat /\ sending \in Nat
<1>1. got[d] \in Seq(Values) /\ queue[d] \in Seq(Values) /\ Values \subseteq Nat
  BY ChannelAssumption DEF TypeInv, ChannelType, ReceiverType
<1>2. got[d] \in Seq(Nat) /\ queue[d] \in Seq(Nat) /\ Seen(d) \in Seq(Nat)
  <2>1. ASSUME NEW s \in Seq(Values)
        PROVE  s \in Seq(Nat)
    <3>1. Len(s) \in Nat /\ s \in [1..Len(s) -> Values]
      OBVIOUS
    <3>2. s \in [1..Len(s) -> Nat]
      BY <1>1, <3>1, Zenon
    <3> QED
      BY <3>1, <3>2
  <2> QED
    BY <1>1, <2>1 DEF Seen
<1>3. Range(Seen(d)) \subseteq Nat
  BY <1>2 DEF Range
<1>4. /\ since[d].begun \in Nat /\ since[d].returned \in Nat /\ d \in Nat /\ at \in Nat /\ N \in Nat
      /\ Len(sent) \in Nat /\ sending \in Nat
  BY ChansType, IndexAssumption DEF TypeInv, SubscriptionType, SenderType
<1> QED
  BY <1>2, <1>3, <1>4

(***************************************************************************)
(* Steps that do not touch channel d.                                        *)
(***************************************************************************)

\* The channel, its values, its receiver and its subscription stay.
SameSeen(d) == Seen(d)' = Seen(d) /\ conn'[d] = conn[d] /\ rpc'[d] = rpc[d] /\ got'[d] = got[d]
               /\ since'[d] = since[d] /\ (d \in late' <=> d \in late) /\ (d \in undrained' <=> d \in undrained)
Same(d) ==
    /\ SameSeen(d) /\ queue'[d] = queue[d] /\ rstate'[d] = rstate[d]
    /\ (waker'[d] <=> waker[d]) /\ (d \in woken' <=> d \in woken)

\* A step of another receiver.
LEMMA OtherKept ==
  ASSUME NEW d \in Chans, LinkOf(d), Same(d), UNCHANGED sendVars
  PROVE  LinkOf(d)'
BY DEF sendVars, Same, SameSeen, LinkOf, ConnOf, WakeOf, StreamOf, DeliveryOf, Marked, Passed

(***************************************************************************)
(* The steps of a subscription.                                              *)
(***************************************************************************)

\* The index is taken: it was never used, and its channel is empty, or its last
\* receiver has left its mark, unless the sender has written over it.
LEMMA SubscribeKeeps ==
  ASSUME TypeInv, IndexInv, NEW d \in Chans, LinkOf(d), NEW h \in Chans \cup {0}, Subscribe(h)
  PROVE  LinkOf(d)'
<1>1. PICK c \in Chans :
        /\ rpc[c] \in Unused /\ c # h
        /\ h # 0 => rpc[h] \in {"idle", "done"}
        /\ rpc' = [e \in Chans |-> IF e = c THEN "max" ELSE IF e = h THEN "cloning" ELSE rpc[e]]
        /\ since' = [since EXCEPT ![c] = [begun |-> sending, returned |-> Len(sent)]]
        /\ UNCHANGED <<chanVars, rstate, woken, got, sendVars, late, undrained>>
  BY SubscribeEffect DEF IndexInv
<1>2. UNCHANGED <<late, undrained, queue, waker, conn, rstate, woken, got, spc, at, limit, answers, sending, sent>> /\ Seen(d)' = Seen(d)
  BY <1>1 DEF chanVars, sendVars, Seen
<1>3. \/ d = c /\ rpc[d] \in Unused /\ rpc'[d] = "max" /\ since'[d].begun = sending /\ since'[d].returned = Len(sent)
      \/ rpc[d] \in {"idle", "done"} /\ rpc'[d] = "cloning" /\ since'[d] = since[d]
      \/ rpc'[d] = rpc[d] /\ since'[d] = since[d]
  BY <1>1, ChansType DEF TypeInv, SubscriptionType
<1>4. ConnOf(d)' /\ WakeOf(d)'
  BY <1>2, <1>3 DEF LinkOf, ConnOf, WakeOf, Marked, Passed, Live, Receiving, Unused, Subscribing
<1>5. sending \in Nat /\ Len(sent) \in Nat
  BY SeenType
<1>6. rpc[d] = "none" => Range(Seen(d)) = {}
  BY SeenType, NothingSeen, Zenon DEF LinkOf, ConnOf, StreamOf, Seen, Unused
<1>7. StreamOf(d)'
  BY <1>2, <1>3, <1>5, <1>6 DEF LinkOf, ConnOf, StreamOf, Live, Receiving, Unused, Subscribing
<1>8. DeliveryOf(d)'
  BY <1>2, <1>3 DEF LinkOf, DeliveryOf, Live, Receiving
<1> QED
  BY <1>4, <1>7, <1>8 DEF LinkOf

\* The receiver is there, and so is the handle it was made with.  What is in the
\* channel by then is fresh, or the sender has written over the mark of the last
\* receiver.
LEMMA SubscribedKeeps ==
  ASSUME TypeInv, IndexInv, NEW d \in Chans, LinkOf(d), NEW c \in Chans, Subscribed(c),
         \/ /\ rpc[c] = "enable" /\ conn[c] # "RECV_GONE" /\ conn' = conn
            /\ undrained' = IF conn[c] = "SENDER_GONE" THEN undrained \cup {c} ELSE undrained
         \/ rpc[c] = "clear" /\ ClearRecvGone(c) /\ undrained' = undrained,
         UNCHANGED <<queue, waker, woken, rstate, got, sendVars>>
  PROVE  LinkOf(d)'
<1>1. /\ rpc' = [e \in Chans |-> IF e = c \/ e = by[c] THEN "idle" ELSE rpc[e]]
      /\ by[c] \in Chans => rpc[by[c]] = "cloning"
  BY SubscribedEffect, ChansType DEF Subscribing, IndexInv
<1>2. /\ (rpc[d] \in {"enable", "clear", "cloning"} /\ rpc'[d] = "idle") \/ (d # c /\ rpc'[d] = rpc[d])
      /\ d # c => rpc[d] = "cloning" \/ rpc'[d] = rpc[d]
  BY <1>1
<1>3. /\ late' = IF spc \in Dropping THEN late \cup {c} ELSE late
      /\ d = c => since'[d].begun = sending /\ since'[d].returned = since[d].returned
      /\ d # c => since'[d] = since[d]
  BY DEF Subscribed, TypeInv, SubscriptionType, Dropping
<1>4. /\ d # c => conn'[d] = conn[d]
      /\ d = c => \/ rpc[d] = "enable" /\ conn[d] # "RECV_GONE" /\ conn'[d] = conn[d]
                  \/ rpc[d] = "clear" /\ conn'[d] = IF conn[d] = "RECV_GONE" THEN "BOTH_IN" ELSE conn[d]
      /\ conn[d] \in {"BOTH_IN", "SENDER_GONE", "RECV_GONE"}
  BY DEF ClearRecvGone, TypeInv, ChannelType
<1>5. /\ d = c /\ rpc[d] = "enable" /\ conn[d] = "SENDER_GONE" => d \in undrained'
      /\ ~(d = c /\ rpc[d] = "enable" /\ conn[d] = "SENDER_GONE") => (d \in undrained' <=> d \in undrained)
  OBVIOUS
<1>6. UNCHANGED <<queue, waker, woken, rstate, got, spc, at, limit, answers, sending, sent>> /\ Seen(d)' = Seen(d)
  BY DEF sendVars, Seen
<1> USE <1>2, <1>3, <1>4, <1>5, <1>6
<1>7. ConnOf(d)' /\ WakeOf(d)'
  BY DEF LinkOf, ConnOf, WakeOf, Marked, Passed, Live, Receiving, Subscribing, Unused, Dropping
<1>8. Len(sent) \in Nat /\ sending \in Nat /\ sending >= Len(sent)
  BY SeenType DEF TypeInv, SenderType
<1>9. StreamOf(d)' /\ DeliveryOf(d)'
  BY <1>8 DEF LinkOf, StreamOf, DeliveryOf, Live, Receiving, Subscribing, Unused, Dropping
<1> QED
  BY <1>7, <1>9 DEF LinkOf

\* A subscription gets on: the highest index is raised, or the channel of a
\* receiver that is gone is emptied.
LEMMA SubscribingKeeps ==
  ASSUME TypeInv, NEW d \in Chans, LinkOf(d), NEW c \in Chans,
         SubscribeMax(c) \/ (SubscribeEnable(c) /\ IsRecvGone(c))
  PROVE  LinkOf(d)'
<1>1. UNCHANGED <<waker, conn, woken, rstate, got, since, late, undrained, sendVars>>
  BY DEF SubscribeMax, SubscribeEnable, chanVars
<1>2. d # c => rpc'[d] = rpc[d] /\ queue'[d] = queue[d]
  BY DEF SubscribeMax, SubscribeEnable, RecvGoto, Drain, chanVars, TypeInv, ReceiverType, ChannelType
<1>3. CASE d # c
  BY <1>1, <1>2, <1>3, OtherKept, Zenon DEF Same, SameSeen, Seen
<1>4. CASE d = c
  <2>1. \/ rpc[d] = "max" /\ rpc'[d] = "enable" /\ queue'[d] = queue[d]
        \/ rpc[d] = "enable" /\ rpc'[d] = "clear" /\ queue'[d] = <<>>
    BY <1>4 DEF SubscribeMax, SubscribeEnable, RecvGoto, Drain, chanVars, TypeInv, ReceiverType, ChannelType
  <2>2. /\ UNCHANGED <<waker, conn, woken, rstate, got, since, late, undrained, spc, at, limit, answers, sending, sent>>
        /\ Len(<<>>) = 0 /\ Size \in Nat
    BY <1>1, ChannelAssumption DEF sendVars
  <2>3. ConnOf(d)' /\ WakeOf(d)'
    BY <2>1, <2>2 DEF LinkOf, ConnOf, WakeOf, Marked, Passed, Live, Receiving, Subscribing, Unused
  <2>4. (rpc'[d] = "enable" /\ Seen(d)' = Seen(d)) \/ (rpc'[d] = "clear" /\ Seen(d)' = <<>>)
    <3>1. got[d] = <<>> /\ <<>> \o <<>> = <<>>
      BY <2>1 DEF LinkOf, StreamOf, Subscribing
    <3> QED
      BY <2>1, <2>2, <3>1, Zenon DEF Seen
  <2>5. Range(<<>>) = {} /\ Increasing(<<>>)
    BY DEF Range, Increasing
  <2>6. StreamOf(d)'
    <3>1. rpc[d] \in Subscribing /\ rpc'[d] \in {"enable", "clear"} /\ (rpc'[d] = "enable" => rpc[d] = "max")
      BY ONLY <2>1 DEF Subscribing
    <3>2. CASE Seen(d)' = Seen(d) /\ rpc'[d] = "enable"
      BY ONLY LinkOf(d), <2>2, <3>1, <3>2, Zenon DEF LinkOf, StreamOf, Live, Receiving, Subscribing, Unused
    <3>3. CASE Range(Seen(d)') = {} /\ Increasing(Seen(d)')
      BY ONLY LinkOf(d), <2>2, <3>1, <3>3 DEF LinkOf, StreamOf, Subscribing
    <3> QED
      BY <2>4, <2>5, <3>2, <3>3, Zenon
  <2>7. DeliveryOf(d)'
    BY <2>1 DEF DeliveryOf, Live, Receiving
  <2> QED
    BY <2>3, <2>6, <2>7 DEF LinkOf
<1> QED
  BY <1>3, <1>4

\* The index is free again, with what its receiver left behind.
LEMMA ReleaseKeeps ==
  ASSUME TypeInv, NEW d \in Chans, LinkOf(d), NEW c \in Chans, ReleaseIndex(c)
  PROVE  LinkOf(d)'
<1>1. UNCHANGED <<queue, conn, rstate, woken, sendVars>>
  BY DEF ReleaseIndex
<1>2. CASE d # c
  <2>1. /\ rpc'[d] = rpc[d] /\ (waker'[d] <=> waker[d]) /\ got'[d] = got[d] /\ since'[d] = since[d]
        /\ (d \in late' <=> d \in late) /\ (d \in undrained' <=> d \in undrained)
    BY <1>2 DEF ReleaseIndex, RecvGoto, TypeInv, ReceiverType, ChannelType, SubscriptionType
  <2> QED
    BY <1>1, <2>1, OtherKept, Zenon DEF Same, SameSeen, Seen
<1>3. CASE d = c
  <2>1. /\ rpc[d] = "dropping" /\ rpc'[d] = "free" /\ ~waker'[d] /\ got'[d] = <<>>
        /\ since'[d].begun = 0 /\ since'[d].returned = 0 /\ d \notin undrained'
    BY <1>3 DEF ReleaseIndex, RecvGoto, NoSub, TypeInv, ReceiverType, ChannelType, SubscriptionType
  <2>2. UNCHANGED <<queue, conn, rstate, woken, spc, at, limit, answers, sending, sent>>
    BY <1>1 DEF sendVars
  <2>3. ConnOf(d)' /\ WakeOf(d)'
    BY <2>1, <2>2 DEF LinkOf, ConnOf, WakeOf, Marked, Passed, Live, Receiving, Subscribing
  <2>4. Seen(d)' = queue[d] /\ Increasing(queue[d]) /\ Range(queue[d]) \subseteq Range(Seen(d))
    BY <2>1, <2>2, SeenType, NothingSeen, Suffix DEF LinkOf, StreamOf, Seen
  <2>5. Len(sent) \in Nat /\ sending \in Nat
    BY SeenType
  <2>6. StreamOf(d)' /\ DeliveryOf(d)'
    BY <2>1, <2>2, <2>4, <2>5 DEF LinkOf, StreamOf, DeliveryOf, Live, Receiving
  <2> QED
    BY <2>3, <2>6 DEF LinkOf
<1> QED
  BY <1>2, <1>3

(***************************************************************************)
(* The steps of the sender.                                                  *)
(***************************************************************************)

\* send is done with one channel and goes on to the next, or returns.
LEMMA SendGoesOn ==
  ASSUME TypeInv, NEW d \in Chans, StreamOf(d), DeliveryOf(d), SameSeen(d), spc \in Sending, UNCHANGED sending,
         NEW a \in {"Gone", "NoSpaceLeft", "Ok"}, SendNext(a),
         d = at /\ rpc[d] \in Live /\ since[d].begun < sending =>
           sending \in Range(Seen(d)) \/ "NoSpaceLeft" \in answers \cup {a}
  PROVE  StreamOf(d)' /\ DeliveryOf(d)'
<1>0. /\ Range(Seen(d)) \subseteq Nat /\ since[d].begun \in Nat /\ since[d].returned \in Nat /\ d \in Nat
      /\ at \in Nat /\ limit \in Nat /\ Len(sent) \in Nat /\ sending = Len(sent) + 1 /\ at <= limit
      /\ sent \in Seq({"Ok", "NoSpaceLeft", "GenericError"})
  BY SeenType, ChansType DEF TypeInv, SenderType
<1> USE <1>0 DEF SameSeen
<1>1. CASE at < limit
  <2>1. answers' = answers \cup {a} /\ at' = at + 1 /\ spc' = "load" /\ UNCHANGED <<limit, sent>>
    BY <1>1 DEF SendNext
  <2> QED
    BY <2>1 DEF StreamOf, DeliveryOf, Sending, Dropping
<1>2. CASE ~(at < limit)
  <2>1. PICK x : sent' = Append(sent, x) /\ (x = "Ok" => "NoSpaceLeft" \notin answers \cup {a})
    BY <1>2 DEF SendNext, Answer
  <2>2. /\ Len(sent') = Len(sent) + 1 /\ (sent'[sending] = "Ok" => "NoSpaceLeft" \notin answers \cup {a})
        /\ \A v \in 1..Len(sent) : sent'[v] = sent[v]
    BY <2>1
  <2>3. spc' = "idle" /\ at = limit
    BY <1>2 DEF SendNext
  <2>4. StreamOf(d)'
    BY <2>2, <2>3 DEF StreamOf, Sending, Dropping
  <2>5. ASSUME rpc[d] \in Live, NEW v \in 1..Len(sent'), sent'[v] = "Ok", v > since[d].begun
        PROVE  v \in Range(Seen(d))
    <3>1. v \in 1..Len(sent) \/ v = sending
      BY <2>2
    <3> QED
      BY <2>2, <2>3, <2>5, <3>1 DEF DeliveryOf, Sending
  <2>6. DeliveryOf(d)'
    BY <2>3, <2>5 DEF DeliveryOf, Sending
  <2> QED
    BY <2>4, <2>6
<1> QED
  BY <1>1, <1>2

\* As long as the sender sends, the connection says nothing of it.
LEMMA SendKeepsConn ==
  ASSUME NEW d \in Chans, ConnOf(d), SameSeen(d), queue'[d] = queue[d], rstate'[d] = rstate[d],
         spc \notin Dropping, spc' \notin Dropping
  PROVE  ConnOf(d)'
BY DEF SameSeen, ConnOf, Marked, Passed, Dropping

LEMMA SendKeepsWake ==
  ASSUME NEW d \in Chans, WakeOf(d), Same(d), spc # "wake", spc \notin Dropping, spc' \notin Dropping
  PROVE  WakeOf(d)'
BY DEF Same, SameSeen, WakeOf, Passed, Dropping

\* A send begins: no receiver has its value, and each is in its range.
LEMMA SendBeginKeeps ==
  ASSUME TypeInv, IndexInv, NEW d \in Chans, LinkOf(d), SendBegin
  PROVE  LinkOf(d)'
<1>1. /\ Same(d) /\ spc = "idle" /\ spc' = "load" /\ at' = 1 /\ limit' = maxIndex /\ sending' = sending + 1
      /\ sent' = sent /\ spc \notin Dropping /\ spc' \notin Dropping
  BY DEF SendBegin, chanVars, recvVars, subVars, Same, SameSeen, Seen, Dropping
<1>2. ConnOf(d)' /\ WakeOf(d)'
  BY <1>1, SendKeepsConn, SendKeepsWake DEF LinkOf, Same
<1>3. /\ Range(Seen(d)) \subseteq Nat /\ since[d].begun \in Nat /\ d \in Nat /\ sending \in Nat /\ d >= 1
      /\ rpc[d] \in Live => d <= maxIndex
  BY SeenType, ChansType DEF IndexInv, UsedInv
<1>4. StreamOf(d)'
  BY ONLY <1>1, <1>3, LinkOf(d) DEF LinkOf, StreamOf, Same, SameSeen, Dropping
<1>5. DeliveryOf(d)'
  BY ONLY <1>1, <1>3, LinkOf(d) DEF LinkOf, DeliveryOf, Same, SameSeen, Sending
<1> QED
  BY <1>2, <1>4, <1>5 DEF LinkOf

\* The receiver is gone: it need not get the value.
LEMMA SendLoadKeeps ==
  ASSUME TypeInv, NEW d \in Chans, LinkOf(d), SendLoad
  PROVE  LinkOf(d)'
<1>0. spc = "load" /\ spc' \in {"push", "load", "idle"} /\ UNCHANGED <<chanVars, recvVars, subVars, sending>>
  BY DEF SendLoad, SendNext
<1>1. Same(d) /\ SameSeen(d) /\ spc = "load" /\ spc \in Sending /\ spc' \in {"push", "load", "idle"} /\ UNCHANGED sending
  BY ONLY <1>0, Zenon DEF chanVars, recvVars, subVars, Same, SameSeen, Seen, Sending
<1>2. ConnOf(d)' /\ WakeOf(d)'
  BY <1>1, SendKeepsConn, SendKeepsWake DEF LinkOf, Same, Dropping
<1>3. CASE IsRecvGone(at)
  <2>1. d = at => rpc[d] \notin Live
    BY <1>3 DEF IsRecvGone, LinkOf, ConnOf, Live, Receiving, Subscribing
  <2>2. SendNext("Gone")
    BY <1>3 DEF SendLoad
  <2> QED
    BY <1>1, <1>2, <2>1, <2>2, SendGoesOn DEF LinkOf
<1>4. CASE ~IsRecvGone(at)
  <2>1. spc' = "push" /\ UNCHANGED <<at, limit, answers, sent>>
    BY <1>4 DEF SendLoad
  <2>2. StreamOf(d)' /\ DeliveryOf(d)'
    BY <1>1, <2>1 DEF LinkOf, StreamOf, DeliveryOf, SameSeen, Sending, Dropping
  <2> QED
    BY <1>2, <2>2 DEF LinkOf
<1> QED
  BY <1>3, <1>4

\* push: the value is the last of the channel and larger than all before; a full
\* channel is reported.
LEMMA SendPushKeeps ==
  ASSUME TypeInv, IndexInv, NEW d \in Chans, LinkOf(d), SendPush
  PROVE  LinkOf(d)'
<1> USE DEF chanVars, recvVars, subVars, TypeInv
<1>1. spc = "push" /\ spc \in Sending /\ UNCHANGED sending /\ spc' \notin Dropping /\ at \in Chans /\ sending \in Values
  BY DEF SendPush, SendNext, Sending, Dropping, SenderType
<1> USE <1>1
<1>2. CASE ~HasRoom(at)
  <2>1. Same(d) /\ SameSeen(d) /\ SendNext("NoSpaceLeft")
    BY <1>2, Zenon DEF SendPush, Same, SameSeen, Seen
  <2>2. ConnOf(d)' /\ WakeOf(d)'
    BY <2>1, SendKeepsConn, SendKeepsWake DEF LinkOf, Same, Dropping
  <2> QED
    BY <2>1, <2>2, SendGoesOn DEF LinkOf
<1>3. CASE HasRoom(at) /\ d # at
  <2>1. Same(d) /\ spc' = "wake" /\ UNCHANGED <<at, limit, answers, sent>>
    BY <1>3, Zenon DEF SendPush, PushValue, Same, SameSeen, Seen, ChannelType
  <2>2. ConnOf(d)' /\ WakeOf(d)'
    BY <2>1, SendKeepsConn, SendKeepsWake DEF LinkOf, Same, Dropping
  <2>3. d \in Nat /\ at \in Nat
    BY ChansType
  <2>4. StreamOf(d)' /\ DeliveryOf(d)'
    BY <1>3, <2>1, <2>3 DEF LinkOf, StreamOf, DeliveryOf, Same, SameSeen, Sending, Dropping
  <2> QED
    BY <2>2, <2>4 DEF LinkOf
<1>4. CASE HasRoom(at) /\ d = at
  <2>1. /\ spc' = "wake" /\ UNCHANGED <<at, limit, answers, sent, waker, conn, rpc, rstate, woken, got, since, late, undrained>>
        /\ queue'[d] = Append(queue[d], sending) /\ Len(queue[d]) < Size
    BY <1>4 DEF SendPush, PushValue, HasRoom, ChannelType
  <2>2. /\ Append(queue[d], sending) # <<>> /\ Len(Append(queue[d], sending)) = Len(queue[d]) + 1
        /\ Len(queue[d]) \in Nat /\ Size \in Nat /\ rpc[d] # "none"
    <3>1. queue[d] \in Seq(Values) /\ Size \in Nat
      BY ChannelAssumption DEF ChannelType
    <3>2. rpc[d] # "none"
      BY <1>4, ChansType DEF IndexInv, UsedInv, SenderType
    <3> QED
      BY <3>1, <3>2, Pushed
  <2>3. queue'[d] # <<>> /\ Len(queue'[d]) <= Size
    BY <2>1, <2>2
  <2>4. rpc[d] \notin {"end", "done"} /\ spc' \notin Dropping
    BY DEF LinkOf, ConnOf, Dropping
  <2>5. ConnOf(d)' /\ WakeOf(d)'
    BY <1>4, <2>1, <2>2, <2>3, <2>4 DEF LinkOf, ConnOf, WakeOf, Marked, Passed, Dropping
  <2>6. /\ Range(Seen(d)) \subseteq Nat /\ since[d].begun \in Nat /\ since[d].returned \in Nat /\ d \in Nat
        /\ Len(sent) \in Nat /\ sending = Len(sent) + 1 /\ Seen(d) \in Seq(Nat) /\ sending \in Nat
    BY SeenType DEF SenderType
  <2>7. Seen(d)' = Append(Seen(d), sending)
    BY <2>1, PushSeen DEF Seen, ReceiverType, ChannelType
  <2>8. Increasing(Seen(d)) /\ \A v \in Range(Seen(d)) : v < sending
    BY <1>4, <2>6 DEF LinkOf, StreamOf
  <2>9. Increasing(Seen(d)') /\ Range(Seen(d)') = Range(Seen(d)) \cup {sending}
    <3>1. Increasing(Append(Seen(d), sending))
      BY ONLY <2>6, <2>8, OrderKept, Zenon
    <3>2. Range(Append(Seen(d), sending)) = Range(Seen(d)) \cup {sending}
      BY ONLY <2>6, Pushed
    <3> QED
      BY ONLY <2>7, <3>1, <3>2, Zenon
  <2>10. StreamOf(d)'
    BY ONLY LinkOf(d), <1>1, <1>4, <2>1, <2>6, <2>8, <2>9 DEF LinkOf, StreamOf, Dropping
  <2>11. DeliveryOf(d)'
    BY ONLY LinkOf(d), <1>1, <1>4, <2>1, <2>6, <2>9 DEF LinkOf, DeliveryOf, Sending
  <2> QED
    BY <2>5, <2>10, <2>11 DEF LinkOf
<1> QED
  BY <1>2, <1>3, <1>4

\* The waker is taken, and the receiver woken if it polls or waits.
LEMMA WakeKeepsWake ==
  ASSUME TypeInv, NEW d \in Chans, WakeOf(d), WakeReceiver(at), late' = late, d # at => (Passed(d)' => Passed(d))
  PROVE  WakeOf(d)'
<1>1. UNCHANGED <<queue, rpc, rstate>> /\ (d = at => ~waker'[d]) /\ (d # at => (waker'[d] <=> waker[d]))
  BY DEF WakeReceiver, TakeAndWake, TypeInv, ChannelType
<1>2. woken \subseteq woken' /\ (waker[at] /\ rpc[at] \in Receiving => at \in woken')
  BY DEF WakeReceiver, TakeAndWake
<1> QED
  BY <1>1, <1>2 DEF WakeOf, Receiving

\* The value is there, the receiver is told.
LEMMA SendWakeKeeps ==
  ASSUME TypeInv, NEW d \in Chans, LinkOf(d), SendWake
  PROVE  LinkOf(d)'
<1>1. /\ SameSeen(d) /\ UNCHANGED <<queue, rstate, sending, late, undrained>> /\ spc = "wake" /\ spc \in Sending
      /\ spc' \notin Dropping /\ spc \notin Dropping /\ SendNext("Ok") /\ WakeReceiver(at)
  BY DEF SendWake, SendNext, WakeReceiver, subVars, SameSeen, Seen, Sending, Dropping
<1>2. ConnOf(d)' /\ WakeOf(d)'
  BY <1>1, SendKeepsConn, WakeKeepsWake DEF LinkOf, Passed, Dropping
<1>3. d = at /\ rpc[d] \in Live /\ since[d].begun < sending => sending \in Range(Seen(d)) \/ "NoSpaceLeft" \in answers
  BY <1>1 DEF LinkOf, DeliveryOf
<1> QED
  BY <1>1, <1>2, <1>3, SendGoesOn DEF LinkOf
=============================================================================
