----------------------- MODULE BroadcastChannelProofs -----------------------
(***************************************************************************)
(* Proofs about BroadcastChannel, for any number of receivers, any capacity  *)
(* and any stream of values, while receivers come and go: who waits is woken, *)
(* what arrives is fresh and in order, and what was sent is delivered.  After *)
(* BroadcastLinkProofs, here is what the drop of the sender and the receivers *)
(* do to one channel, then the types and the indices, and the theorems.      *)
(***************************************************************************)
EXTENDS BroadcastLinkProofs

(***************************************************************************)
(* The drop of the sender.                                                   *)
(***************************************************************************)

\* The sender is being dropped: nothing is sent any more.
LEMMA DropKeepsStream ==
  ASSUME NEW d \in Chans, StreamOf(d), DeliveryOf(d), Seen(d)' = Seen(d), spc \notin Sending, spc' \in Dropping,
         conn'[d] \in {conn[d], "SENDER_GONE"}, UNCHANGED <<rpc, got, since, late, undrained, sending, sent>>
  PROVE  StreamOf(d)' /\ DeliveryOf(d)'
BY DEF StreamOf, DeliveryOf, Sending, Dropping

LEMMA DropSenderKeeps ==
  ASSUME TypeInv, NEW d \in Chans, LinkOf(d), DropSender
  PROVE  LinkOf(d)'
<1>1. /\ spc = "idle" /\ spc' = "drop" /\ at' = 1 /\ d >= 1 /\ d \in Nat /\ Seen(d)' = Seen(d)
      /\ UNCHANGED <<queue, conn, waker, rpc, woken, rstate, got, since, late, undrained, sending, sent>>
      /\ spc \notin Sending /\ spc' \in Dropping
  BY ChansType DEF DropSender, chanVars, recvVars, subVars, Seen, Sending, Dropping
<1>2. ConnOf(d)' /\ WakeOf(d)'
  BY <1>1 DEF LinkOf, ConnOf, WakeOf, Marked, Passed, Dropping
<1> QED
  BY <1>1, <1>2, DropKeepsStream DEF LinkOf

\* The mark is left; when the receiver is there, it is woken before the sender
\* goes on.
LEMMA DropSwapKeeps ==
  ASSUME TypeInv, NEW d \in Chans, LinkOf(d), DropSwap
  PROVE  LinkOf(d)'
<1>1. /\ spc = "drop" /\ spc \notin Sending /\ spc' \in Dropping /\ Seen(d)' = Seen(d)
      /\ UNCHANGED <<queue, waker, rpc, woken, rstate, got, since, late, undrained, sending, sent>>
  BY DEF DropSwap, DropNext, SenderGone, recvVars, subVars, Seen, Sending, Dropping
<1>2. /\ d \in Nat /\ at \in Nat /\ N \in Nat /\ d <= N
      /\ d = at => conn'[d] = "SENDER_GONE"
      /\ d # at => conn'[d] = conn[d]
      /\ conn[d] \in {"BOTH_IN", "SENDER_GONE", "RECV_GONE"}
  BY SeenType, ChansType DEF DropSwap, SenderGone, TypeInv, ChannelType
<1>3. \/ spc' = "dropwake" /\ at' = at
      \/ spc' = "drop" /\ at' = at + 1 /\ conn[at] # "BOTH_IN"
      \/ spc' = "gone" /\ at = N /\ conn[at] # "BOTH_IN"
  BY <1>2, ChansType DEF DropSwap, DropNext, TypeInv, SenderType
<1>4. /\ d = at => Marked(d)' /\ ~Marked(d)
      /\ d # at => (Marked(d)' <=> Marked(d))
      /\ Passed(d)' => Passed(d) \/ (d = at /\ conn[d] # "BOTH_IN")
  BY <1>1, <1>2, <1>3 DEF Marked, Passed
<1>5. ConnOf(d)'
  BY <1>1, <1>2, <1>4 DEF LinkOf, ConnOf, Dropping, Live, Receiving
<1>6. d = at /\ conn[d] # "BOTH_IN" => rpc[d] \in {"dropping", "free"} \cup Subscribing
  BY <1>2, <1>4 DEF LinkOf, ConnOf
<1>7. WakeOf(d)'
  BY <1>1, <1>3, <1>4, <1>6 DEF LinkOf, WakeOf, Subscribing, Unused
<1> QED
  BY <1>1, <1>2, <1>5, <1>7, DropKeepsStream DEF LinkOf

LEMMA DropWakeKeeps ==
  ASSUME TypeInv, NEW d \in Chans, LinkOf(d), DropWake
  PROVE  LinkOf(d)'
<1>1. /\ spc = "dropwake" /\ spc \notin Sending /\ spc' \in Dropping /\ Seen(d)' = Seen(d) /\ WakeReceiver(at)
      /\ UNCHANGED <<queue, conn, rpc, rstate, got, since, late, undrained, sending, sent>>
  BY DEF DropWake, DropNext, WakeReceiver, subVars, Seen, Sending, Dropping
<1>2. d \in Nat /\ at \in Nat /\ N \in Nat /\ d <= N
  BY SeenType, ChansType
<1>3. (spc' = "drop" /\ at' = at + 1) \/ (spc' = "gone" /\ at = N)
  BY <1>2, ChansType DEF DropWake, DropNext, TypeInv, SenderType
<1>4. (Marked(d)' <=> Marked(d)) /\ (d # at => (Passed(d)' => Passed(d)))
  BY <1>1, <1>2, <1>3 DEF Marked, Passed
<1>5. ConnOf(d)' /\ WakeOf(d)'
  BY <1>1, <1>4, WakeKeepsWake DEF LinkOf, ConnOf, Dropping, Live, Receiving
<1> QED
  BY <1>1, <1>5, DropKeepsStream DEF LinkOf

(***************************************************************************)
(* The steps of a receiver.                                                  *)
(***************************************************************************)

\* A receiver takes what is in its channel, and no more.
LEMMA RecvKeepsStream ==
  ASSUME TypeInv, NEW c \in Chans, LinkOf(c), RecvStep(c)
  PROVE  StreamOf(c)' /\ DeliveryOf(c)'
<1>1. /\ rpc[c] \in Live /\ rpc'[c] \in Live \cup {"dropping"}
      /\ UNCHANGED <<since, late, undrained, spc, at, limit, answers, sending, sent>>
  BY RecvEffect DEF TypeInv, ReceiverType, sendVars, subVars
<1>2. Seen(c)' = Seen(c)
  <2>1. CASE PopData(c)
    <3>1. /\ got[c] \in Seq(Values) /\ queue[c] \in Seq(Values) /\ queue[c] # <<>>
          /\ got'[c] = Append(got[c], Head(queue[c])) /\ queue'[c] = Tail(queue[c])
      BY <2>1, Zenon DEF PopData, LinkOf, ConnOf, TypeInv, ChannelType, ReceiverType
    <3> QED
      BY <3>1, PopSeen, Zenon DEF Seen
  <2>2. CASE UNCHANGED <<got, queue>>
    BY <2>2 DEF Seen
  <2> QED
    BY <2>1, <2>2 DEF RecvStep, RecvFuture, ReceiverStep, PollRecv, DropFuture, IsEmpty, ClearWaker,
                      StoreWaker, LoadState, Recheck, RecvEnd, DropReceiver, chanVars
<1> QED
  BY <1>1, <1>2 DEF LinkOf, StreamOf, DeliveryOf, Live, Receiving, Unused, Subscribing

\* A poll begins, the future or the receiver is dropped.
LEMMA RecvKeepsLink ==
  ASSUME TypeInv, NEW c \in Chans, LinkOf(c), RecvStep(c)
  PROVE  ConnOf(c)' /\ WakeOf(c)'
<1> USE DEF chanVars, TypeInv, LinkOf
<1>1. UNCHANGED <<spc, at, late, undrained>>
  BY RecvEffect DEF sendVars, subVars
<1> USE <1>1
<1>2. CASE PollRecv(c) \/ DropFuture(c)
  <2>1. /\ rpc[c] \in {"idle", "pending", "done"} /\ rpc'[c] \in {"empty?", "idle"}
        /\ UNCHANGED <<queue, waker, conn, rstate>>
    BY <1>2 DEF PollRecv, DropFuture, RecvGoto, ReceiverType
  <2> QED
    BY <2>1 DEF ConnOf, WakeOf, Marked, Passed, Live, Receiving, Subscribing, Unused
<1>3. CASE DropReceiver(c)
  <2>1. /\ rpc[c] \in {"idle", "pending", "done"} /\ rpc'[c] = "dropping" /\ conn'[c] = "RECV_GONE"
        /\ UNCHANGED <<queue, waker, rstate>>
    BY <1>3 DEF DropReceiver, RecvGoto, ReceiverType, ChannelType
  <2> QED
    BY <2>1 DEF ConnOf, WakeOf, Marked, Passed, Live, Receiving, Subscribing, Unused
<1>4. CASE IsEmpty(c)
  <2>1. /\ rpc[c] = "empty?" /\ UNCHANGED <<queue, waker, conn, rstate>>
        /\ (rpc'[c] = "store" /\ queue[c] = <<>>) \/ (rpc'[c] = "take" /\ queue[c] # <<>>)
    BY <1>4 DEF IsEmpty, RecvGoto, ReceiverType
  <2> QED
    BY <2>1 DEF ConnOf, WakeOf, Marked, Passed, Live, Receiving, Subscribing, Unused
<1>5. CASE ClearWaker(c) \/ RecvEnd(c)
  <2>1. /\ (rpc[c] = "take" /\ rpc'[c] = "pop") \/ (rpc[c] = "end" /\ rpc'[c] = "done")
        /\ UNCHANGED <<queue, conn, rstate>> /\ ~waker'[c]
    BY <1>5 DEF ClearWaker, RecvEnd, RecvGoto, ReceiverType, ChannelType
  <2> QED
    BY <2>1 DEF ConnOf, WakeOf, Marked, Passed, Live, Receiving, Subscribing, Unused
<1>6. CASE PopData(c)
  <2>1. /\ rpc[c] = "pop" /\ rpc'[c] = "idle" /\ UNCHANGED <<waker, conn, rstate>>
        /\ queue'[c] = Tail(queue[c]) /\ queue[c] # <<>> /\ queue[c] \in Seq(Values)
    BY <1>6, Zenon DEF PopData, RecvGoto, ReceiverType, ChannelType, ConnOf
  <2>2. Len(queue'[c]) <= Size
    BY <2>1, Popped, ChannelAssumption DEF ConnOf
  <2>3. rpc[c] = "pop" /\ rpc'[c] = "idle" /\ UNCHANGED <<waker, conn, rstate>>
    BY <2>1
  <2> QED
    BY <2>2, <2>3 DEF ConnOf, WakeOf, Marked, Passed, Live, Receiving, Subscribing, Unused
<1>7. CASE StoreWaker(c)
  <2>1. /\ rpc[c] = "store" /\ waker'[c] /\ UNCHANGED <<queue, conn, rstate>>
        /\ (rpc'[c] = "pending" /\ waker[c]) \/ rpc'[c] = "state?"
    BY <1>7 DEF StoreWaker, RecvGoto, ReceiverType, ChannelType
  <2> QED
    BY <2>1 DEF ConnOf, WakeOf, Marked, Passed, Live, Receiving, Subscribing, Unused
<1>8. CASE LoadState(c)
  <2>1. rpc[c] = "state?" /\ rpc'[c] = "again?" /\ rstate'[c] = conn[c] /\ UNCHANGED <<queue, waker, conn, woken>>
    BY <1>8 DEF LoadState, RecvGoto, ReceiverType
  <2> QED
    BY <2>1 DEF ConnOf, WakeOf, Marked, Passed, Live, Receiving, Subscribing, Unused, Dropping
<1>9. CASE Recheck(c)
  <2>1. /\ rpc[c] = "again?" /\ UNCHANGED <<queue, waker, conn, woken>> /\ rstate'[c] = "BOTH_IN"
        /\ \/ rpc'[c] = "empty?" /\ queue[c] # <<>>
           \/ rpc'[c] = "end" /\ queue[c] = <<>> /\ rstate[c] = "SENDER_GONE"
           \/ rpc'[c] = "pending" /\ queue[c] = <<>> /\ rstate[c] # "SENDER_GONE"
    BY <1>9 DEF Recheck, RecvGoto, ReceiverType
  <2> QED
    BY <2>1 DEF ConnOf, WakeOf, Marked, Passed, Live, Receiving, Subscribing, Unused
<1> QED
  BY <1>2, <1>3, <1>4, <1>5, <1>6, <1>7, <1>8, <1>9 DEF RecvStep, RecvFuture, ReceiverStep

\* The other channels stay as they are.
LEMMA RecvKeeps ==
  ASSUME TypeInv, NEW d \in Chans, NEW c \in Chans, LinkOf(d), RecvStep(c)
  PROVE  LinkOf(d)'
<1>1. CASE d # c
  <2>1. rpc'[d] = rpc[d] /\ rstate'[d] = rstate[d] /\ queue'[d] = queue[d] /\ (waker'[d] <=> waker[d])
    BY <1>1, Zenon
       DEF RecvStep, RecvFuture, ReceiverStep, PollRecv, DropFuture, IsEmpty, ClearWaker, PopData, chanVars,
           StoreWaker, LoadState, Recheck, RecvEnd, DropReceiver, RecvGoto, TypeInv, ReceiverType, ChannelType
  <2>2. conn'[d] = conn[d] /\ got'[d] = got[d] /\ (d \in woken' <=> d \in woken)
    BY <1>1, Zenon
       DEF RecvStep, RecvFuture, ReceiverStep, PollRecv, DropFuture, IsEmpty, ClearWaker, PopData, chanVars,
           StoreWaker, LoadState, Recheck, RecvEnd, DropReceiver, TypeInv, ReceiverType, ChannelType
  <2>3. UNCHANGED <<sendVars, since, late, undrained>>
    BY DEF RecvStep, subVars
  <2> QED
    BY <2>1, <2>2, <2>3, OtherKept, Zenon DEF Same, SameSeen, Seen
<1>2. CASE d = c
  BY <1>2, RecvKeepsStream, RecvKeepsLink DEF LinkOf
<1> QED
  BY <1>1, <1>2

(***************************************************************************)
(* The types.                                                                *)
(***************************************************************************)

\* The sender goes on to the next channel, or the send returns.
LEMMA SendNextType ==
  ASSUME SenderType, spc \in Sending, NEW a \in {"Gone", "NoSpaceLeft", "Ok"}, SendNext(a),
         UNCHANGED <<sending, maxIndex>>
  PROVE  SenderType'
<1> USE ChansType DEF SenderType, SendNext, Sending, Dropping
<1>1. CASE at < limit
  BY <1>1
<1>2. CASE ~(at < limit)
  <2>1. Answer(answers \cup {a}) \in {"Ok", "NoSpaceLeft", "GenericError"}
    BY DEF Answer
  <2>2. /\ Append(sent, Answer(answers \cup {a})) \in Seq({"Ok", "NoSpaceLeft", "GenericError"})
        /\ Len(Append(sent, Answer(answers \cup {a}))) = Len(sent) + 1
    BY <2>1, Pushed
  <2> QED
    BY <1>2, <2>2
<1> QED
  BY <1>1, <1>2

\* The sender is somewhere in the range of indices, and counts the values.
LEMMA SenderTypeStep ==
  ASSUME SenderType, Next
  PROVE  SenderType'
<1> USE ChansType DEF chanVars, recvVars, sendVars, subVars
<1>1. CASE SendBegin
  BY <1>1 DEF SendBegin, SenderType, Sending, Dropping
<1>2. CASE SendLoad
  BY <1>2, SendNextType, Zenon DEF SendLoad, SenderType, Sending
<1>3. CASE SendPush
  BY <1>3, SendNextType, Zenon DEF SendPush, SenderType, Sending
<1>4. CASE SendWake
  BY <1>4, SendNextType DEF SendWake, Sending
<1>5. CASE DropSender \/ DropSwap \/ DropWake
  BY <1>5, Zenon DEF DropSender, DropSwap, DropWake, DropNext, SenderType, Sending, Dropping
<1>6. ASSUME NEW c \in Chans, SubscribeMax(c)
      PROVE  SenderType'
  BY <1>6 DEF SubscribeMax, SenderType
<1>7. CASE UNCHANGED <<sendVars, maxIndex>>
  BY <1>7 DEF SenderType
<1>8. \/ SendBegin \/ SendLoad \/ SendPush \/ SendWake \/ DropSender \/ DropSwap \/ DropWake
      \/ \E c \in Chans : SubscribeMax(c)
      \/ UNCHANGED <<sendVars, maxIndex>>
  BY Zenon DEF Next, Subscribe, SubscribeEnable, SubscribeClear, ReleaseIndex, RecvStep
<1> QED
  BY <1>1, <1>2, <1>3, <1>4, <1>5, <1>6, <1>7, <1>8

\* What a step does to the channels.
LEMMA ChannelTypeStep ==
  ASSUME TypeInv, ConnInv, Next
  PROVE  ChannelType'
<1> USE DEF chanVars, recvVars, sendVars, subVars, TypeInv
<1>1. CASE SendPush
  <2>1. CASE HasRoom(at)
    <3>1. at \in Chans /\ Append(queue[at], sending) \in Seq(Values)
      BY <1>1, Pushed DEF SendPush, ChannelType, SenderType, Sending
    <3> QED
      BY <1>1, <2>1, <3>1, Zenon DEF SendPush, PushValue, ChannelType
  <2>2. CASE ~HasRoom(at)
    BY <1>1, <2>2 DEF SendPush, ChannelType
  <2> QED
    BY <2>1, <2>2
<1>2. CASE SendWake \/ DropWake \/ DropSwap
  BY <1>2, Zenon DEF SendWake, DropWake, DropSwap, SenderGone, WakeReceiver, TakeAndWake, ChannelType,
              SenderType
<1>3. ASSUME NEW c \in Chans, SubscribeEnable(c) \/ SubscribeClear(c) \/ ReleaseIndex(c)
      PROVE  ChannelType'
  <2>1. <<>> \in Seq(Values)
    OBVIOUS
  <2>2. CASE SubscribeEnable(c)
    BY <2>1, <2>2, Zenon DEF SubscribeEnable, Drain, ChannelType
  <2>3. CASE SubscribeClear(c) \/ ReleaseIndex(c)
    BY <2>3, Zenon DEF SubscribeClear, ClearRecvGone, ReleaseIndex, ChannelType
  <2> QED
    BY <1>3, <2>2, <2>3
<1>4. ASSUME NEW c \in Chans, PopData(c)
      PROVE  ChannelType'
  <2>1. queue[c] # <<>>
    BY <1>4 DEF PopData, ConnInv, ConnOf
  <2>2. Tail(queue[c]) \in Seq(Values)
    BY <2>1, Popped DEF ChannelType
  <2> QED
    BY <1>4, <2>2 DEF PopData, ChannelType
<1>5. ASSUME NEW c \in Chans, ClearWaker(c) \/ StoreWaker(c) \/ RecvEnd(c) \/ DropReceiver(c)
      PROVE  ChannelType'
  BY <1>5, Zenon DEF ClearWaker, StoreWaker, RecvEnd, DropReceiver, ChannelType
<1>6. CASE UNCHANGED chanVars
  BY <1>6 DEF ChannelType
<1>7. \/ SendPush \/ SendWake \/ DropWake \/ DropSwap
      \/ \E c \in Chans : \/ SubscribeEnable(c) \/ SubscribeClear(c) \/ ReleaseIndex(c) \/ PopData(c)
                          \/ ClearWaker(c) \/ StoreWaker(c) \/ RecvEnd(c) \/ DropReceiver(c)
      \/ UNCHANGED chanVars
  BY DEF Next, SendBegin, SendLoad, DropSender, Subscribe, SubscribeMax, RecvStep, RecvFuture,
         ReceiverStep, PollRecv, DropFuture, IsEmpty, LoadState, Recheck
<1> QED
  BY <1>1, <1>2, <1>3, <1>4, <1>5, <1>6, <1>7

\* What a step does to the receivers.
LEMMA ReceiverTypeStep ==
  ASSUME TypeInv, ConnInv, Next
  PROVE  ReceiverType'
<1> USE DEF chanVars, recvVars, sendVars, subVars, TypeInv
<1>1. CASE SendWake \/ DropWake
  BY <1>1 DEF SendWake, DropWake, WakeReceiver, TakeAndWake, ReceiverType, SenderType
<1>2. ASSUME NEW h \in Chans \cup {0}, Subscribe(h)
      PROVE  ReceiverType'
  BY <1>2 DEF Subscribe, ReceiverType, Live, Subscribing
<1>3. ASSUME NEW c \in Chans, SubscribeMax(c) \/ SubscribeEnable(c) \/ SubscribeClear(c)
      PROVE  ReceiverType'
  BY <1>3 DEF SubscribeMax, SubscribeEnable, SubscribeClear, Subscribed, RecvGoto, ReceiverType,
              Live, Subscribing
<1>4. ASSUME NEW c \in Chans, ReleaseIndex(c)
      PROVE  ReceiverType'
  BY <1>4 DEF ReleaseIndex, RecvGoto, ReceiverType, Unused
<1>5. ASSUME NEW c \in Chans, PopData(c)
      PROVE  ReceiverType'
  <2>1. queue[c] # <<>>
    BY <1>5 DEF PopData, ConnInv, ConnOf
  <2>2. Append(got[c], Head(queue[c])) \in Seq(Values)
    BY <2>1, Popped, Pushed DEF ChannelType, ReceiverType
  <2> QED
    BY <1>5, <2>2 DEF PopData, RecvGoto, ReceiverType, Live
<1>6. ASSUME NEW c \in Chans, RecvStep(c), ~PopData(c)
      PROVE  ReceiverType'
  BY <1>6, Zenon DEF RecvStep, RecvFuture, ReceiverStep, PollRecv, DropFuture, IsEmpty, ClearWaker,
              StoreWaker, LoadState, Recheck, RecvEnd, DropReceiver, RecvGoto, ChannelType,
              ReceiverType, Live, Receiving
<1>7. CASE UNCHANGED recvVars
  BY <1>7 DEF ReceiverType
<1>8. \/ SendWake \/ DropWake \/ \E h \in Chans \cup {0} : Subscribe(h)
      \/ \E c \in Chans : \/ SubscribeMax(c) \/ SubscribeEnable(c) \/ SubscribeClear(c)
                          \/ ReleaseIndex(c) \/ RecvStep(c)
      \/ UNCHANGED recvVars
  BY DEF Next, SendBegin, SendLoad, SendPush, PushValue, DropSender, DropSwap, SenderGone
<1> QED
  BY <1>1, <1>2, <1>3, <1>4, <1>5, <1>6, <1>7, <1>8

\* What a step does to the subscriptions.
LEMMA SubscriptionTypeStep ==
  ASSUME TypeInv, Next
  PROVE  SubscriptionType'
<1> USE DEF chanVars, recvVars, sendVars, subVars, TypeInv
<1>1. ASSUME NEW h \in Chans \cup {0}, Subscribe(h)
      PROVE  SubscriptionType'
  <2>1. Head(free) \in Chans /\ Tail(free) \in Seq(Chans) /\ Len(sent) \in Nat /\ sending \in Nat
    BY <1>1, Popped DEF Subscribe, SubscriptionType, SenderType
  <2> QED
    BY <1>1, <2>1 DEF Subscribe, SubscriptionType
<1>2. ASSUME NEW c \in Chans, Subscribed(c), UNCHANGED free, undrained' \in SUBSET (undrained \cup {c})
      PROVE  SubscriptionType'
  BY <1>2, Zenon DEF Subscribed, SubscriptionType, SenderType
<1>3. ASSUME NEW c \in Chans, ReleaseIndex(c)
      PROVE  SubscriptionType'
  <2>1. <<c>> \o free \in Seq(Chans)
    BY DEF SubscriptionType
  <2> QED
    BY <1>3, <2>1 DEF ReleaseIndex, NoSub, SubscriptionType
<1>4. CASE UNCHANGED <<free, by, since, late, undrained>>
  BY <1>4 DEF SubscriptionType
<1>5. \/ \E h \in Chans \cup {0} : Subscribe(h)
      \/ \E c \in Chans : ReleaseIndex(c) \/ (Subscribed(c) /\ UNCHANGED free /\ undrained' \in SUBSET (undrained \cup {c}))
      \/ UNCHANGED <<free, by, since, late, undrained>>
  BY DEF Next, SendBegin, SendLoad, SendPush, SendWake, DropSender, DropSwap, DropWake,
         SubscribeMax, SubscribeEnable, SubscribeClear, RecvStep
<1> QED
  BY <1>1, <1>2, <1>3, <1>4, <1>5

\* The types are kept.
LEMMA TypeStep ==
  ASSUME TypeInv, ConnInv, Next
  PROVE  TypeInv'
BY SenderTypeStep, ChannelTypeStep, ReceiverTypeStep, SubscriptionTypeStep DEF TypeInv

(***************************************************************************)
(* The indices.                                                              *)
(***************************************************************************)

LEMMA FreeStep ==
  ASSUME TypeInv, FreeInv, UsedInv, CloneInv, Next
  PROVE  FreeInv'
<1> USE DEF chanVars, recvVars, sendVars, subVars, TypeInv, Unused
<1>1. ASSUME NEW h \in Chans \cup {0}, Subscribe(h)
      PROVE  FreeInv'
  <2>1. PICK c \in Chans :
          /\ rpc[c] \in Unused /\ c # h /\ c = free[1] /\ Len(free) >= 1
          /\ h # 0 => rpc[h] \in {"idle", "done"}
          /\ rpc' = [d \in Chans |-> IF d = c THEN "max" ELSE IF d = h THEN "cloning" ELSE rpc[d]]
          /\ Len(free') = Len(free) - 1
          /\ \A i \in 1..Len(free) - 1 : free'[i] = free[i + 1]
    BY <1>1, SubscribeEffect
  <2>2. Len(free) \in Nat /\ \A i \in 1..Len(free) : free[i] \in Chans
    BY DEF SubscriptionType
  <2>3. ASSUME NEW i \in 1..Len(free')
        PROVE  i + 1 \in 1..Len(free) /\ free'[i] = free[i + 1] /\ free[i + 1] \in Chans
               /\ rpc[free[i + 1]] \in Unused /\ rpc'[free[i + 1]] = rpc[free[i + 1]]
    <3>1. i + 1 \in 1..Len(free) /\ i + 1 # 1 /\ 1 \in 1..Len(free) /\ free'[i] = free[i + 1]
      BY <2>1, <2>2
    <3>2. free[i + 1] # c /\ rpc[free[i + 1]] \in Unused /\ free[i + 1] \in Chans
      BY <2>1, <2>2, <3>1 DEF FreeInv
    <3>3. free[i + 1] # h
      BY <2>1, <3>2, ChansType
    <3>4. \A d \in Chans : d # c /\ d # h => rpc'[d] = rpc[d]
      BY <2>1
    <3> QED
      BY <3>1, <3>2, <3>3, <3>4, Zenon
  <2>4. ASSUME NEW i \in 1..Len(free'), NEW k \in 1..Len(free')
        PROVE  /\ free'[i] = free'[k] => i = k
               /\ rpc'[free'[i]] \in Unused
               /\ i < k /\ rpc'[free'[i]] = "none" => rpc'[free'[k]] = "none" /\ free'[i] < free'[k]
    <3>1. i + 1 = k + 1 <=> i = k
      BY <2>1, <2>2
    <3>2. i < k <=> i + 1 < k + 1
      BY <2>1, <2>2
    <3>3. /\ free[i + 1] = free[k + 1] => i + 1 = k + 1
          /\ i + 1 < k + 1 /\ rpc[free[i + 1]] = "none" =>
               rpc[free[k + 1]] = "none" /\ free[i + 1] < free[k + 1]
      BY <2>3, Zenon DEF FreeInv
    <3> QED
      BY <2>3, <3>1, <3>2, <3>3, Zenon
  <2>5. ASSUME NEW d \in Chans, rpc'[d] \in Unused
        PROVE  \E i \in 1..Len(free') : free'[i] = d
    <3>1. d # c /\ rpc[d] \in Unused
      BY <2>1, <2>5
    <3>2. PICK i \in 1..Len(free) : free[i] = d
      BY <3>1 DEF FreeInv
    <3>3. i - 1 \in 1..Len(free') /\ free'[i - 1] = d
      BY <2>1, <2>2, <3>1, <3>2
    <3> QED
      BY <3>3
  <2> QED
    BY <2>4, <2>5 DEF FreeInv
<1>2. ASSUME NEW c \in Chans, ReleaseIndex(c)
      PROVE  FreeInv'
  <2>1. /\ rpc[c] = "dropping" /\ rpc' = [rpc EXCEPT ![c] = "free"] /\ free' = <<c>> \o free
        /\ free \in Seq(Chans) /\ Len(free) \in Nat
    BY <1>2 DEF ReleaseIndex, RecvGoto, SubscriptionType
  <2>2. /\ Len(free) \in Nat /\ Len(free') = Len(free) + 1 /\ free'[1] = c
        /\ \A i \in 2..Len(free) + 1 : free'[i] = free[i - 1]
    BY <2>1
  <2>3. \A i \in 1..Len(free) : free[i] \in Chans /\ free[i] # c /\ rpc'[free[i]] = rpc[free[i]]
    BY <2>1 DEF FreeInv, ReceiverType
  <2>4. ASSUME NEW i \in 1..Len(free'), NEW k \in 1..Len(free')
        PROVE  /\ free'[i] = free'[k] => i = k
               /\ rpc'[free'[i]] \in Unused
               /\ i < k /\ rpc'[free'[i]] = "none" => rpc'[free'[k]] = "none" /\ free'[i] < free'[k]
    <3>1. /\ i = 1 => free'[i] = c /\ rpc'[free'[i]] = "free"
          /\ k = 1 => free'[k] = c /\ rpc'[free'[k]] = "free"
      BY <2>1, <2>2 DEF ReceiverType
    <3>2. /\ i # 1 => i - 1 \in 1..Len(free) /\ free'[i] = free[i - 1]
          /\ k # 1 => k - 1 \in 1..Len(free) /\ free'[k] = free[k - 1]
          /\ i = k <=> i - 1 = k - 1
          /\ i < k <=> i - 1 < k - 1
          /\ i < k => k # 1
      BY <2>2
    <3>3. /\ i # 1 /\ k # 1 /\ free[i - 1] = free[k - 1] => i - 1 = k - 1
          /\ i # 1 /\ k # 1 /\ i - 1 < k - 1 /\ rpc[free[i - 1]] = "none" =>
               rpc[free[k - 1]] = "none" /\ free[i - 1] < free[k - 1]
          /\ i # 1 => rpc[free[i - 1]] \in Unused
      BY <3>2, Zenon DEF FreeInv
    <3> QED
      BY <2>3, <3>1, <3>2, <3>3
  <2>5. ASSUME NEW d \in Chans, rpc'[d] \in Unused
        PROVE  \E i \in 1..Len(free') : free'[i] = d
    <3>1. CASE d = c
      BY <2>1, <2>2, <3>1
    <3>2. CASE d # c
      <4>1. PICK i \in 1..Len(free) : free[i] = d
        BY <2>1, <2>5, <3>2 DEF FreeInv, ReceiverType
      <4>2. i + 1 \in 1..Len(free') /\ free'[i + 1] = d
        BY <2>1, <2>2, <4>1
      <4> QED
        BY <4>2
    <3> QED
      BY <3>1, <3>2
  <2> QED
    BY <2>4, <2>5 DEF FreeInv
<1>3. ASSUME UNCHANGED free, \A d \in Chans : rpc'[d] \in Unused \/ rpc[d] \in Unused => rpc'[d] = rpc[d]
      PROVE  FreeInv'
  <2>1. \A i \in 1..Len(free) : free[i] \in Chans
    BY DEF SubscriptionType
  <2> QED
    BY <1>3, <2>1 DEF FreeInv
<1>4. ASSUME NEW c \in Chans, RecvStep(c) \/ SubscribeMax(c) \/ SubscribeEnable(c) \/ SubscribeClear(c)
      PROVE  UNCHANGED free /\ \A d \in Chans : rpc'[d] \in Unused \/ rpc[d] \in Unused => rpc'[d] = rpc[d]
  <2>1. CASE RecvStep(c)
    BY <2>1, RecvEffect, Zenon DEF ReceiverType, Live, Receiving
  <2>2. CASE Subscribed(c) /\ rpc[c] \in Subscribing /\ UNCHANGED free
    <3>1. /\ rpc' = [d \in Chans |-> IF d = c \/ d = by[c] THEN "idle" ELSE rpc[d]]
          /\ by[c] \in Chans => rpc[by[c]] = "cloning"
      BY <2>2, SubscribedEffect, IndexAssumption
    <3> QED
      BY <2>2, <3>1 DEF Subscribing
  <2>3. CASE UNCHANGED free /\ rpc[c] \in Subscribing /\ \E l \in Subscribing : RecvGoto(c, l)
    BY <2>3 DEF ReceiverType, Subscribing, RecvGoto
  <2> QED
    BY <1>4, <2>1, <2>2, <2>3 DEF SubscribeMax, SubscribeEnable, SubscribeClear, Subscribing
<1>5. \/ \E h \in Chans \cup {0} : Subscribe(h)
      \/ \E c \in Chans : \/ SubscribeMax(c) \/ SubscribeEnable(c) \/ SubscribeClear(c)
                          \/ ReleaseIndex(c) \/ RecvStep(c)
      \/ UNCHANGED <<free, rpc>>
  BY Zenon DEF Next, SendBegin, SendLoad, SendPush, SendWake, WakeReceiver, PushValue, DropSender,
         DropSwap, DropWake, SenderGone
<1>6. CASE UNCHANGED <<free, rpc>>
  BY <1>3, <1>6
<1> QED
  BY <1>1, <1>2, <1>3, <1>4, <1>5, <1>6

LEMMA UsedStep ==
  ASSUME TypeInv, FreeInv, UsedInv, CloneInv, Next
  PROVE  UsedInv'
<1> USE ChansType DEF chanVars, recvVars, sendVars, subVars, TypeInv
<1>1. ASSUME NEW h \in Chans \cup {0}, Subscribe(h)
      PROVE  UsedInv'
  <2>1. PICK c \in Chans :
          /\ rpc[c] \in Unused /\ c # h /\ c = free[1] /\ Len(free) >= 1
          /\ h # 0 => rpc[h] \in {"idle", "done"}
          /\ rpc' = [d \in Chans |-> IF d = c THEN "max" ELSE IF d = h THEN "cloning" ELSE rpc[d]]
          /\ maxIndex' = maxIndex
    BY <1>1, SubscribeEffect
  <2>2. ASSUME NEW d \in Chans, rpc[d] = "none", d # c
        PROVE  c < d
    <3>1. CASE rpc[c] = "none"
      <4>1. PICK i \in 1..Len(free) : free[i] = d
        BY <2>2 DEF FreeInv, Unused
      <4>2. 1 \in 1..Len(free) /\ 1 < i
        <5>1. Len(free) \in Nat
          BY DEF SubscriptionType
        <5>2. i # 1
          BY <2>1, <2>2, <4>1
        <5> QED
          BY <2>1, <5>1, <5>2
      <4>3. 1 < i /\ rpc[free[1]] = "none" => free[1] < free[i]
        BY <4>2, Zenon DEF FreeInv
      <4> QED
        BY <2>1, <3>1, <4>1, <4>2, <4>3, Zenon
    <3>2. CASE rpc[c] # "none"
      BY <2>2, <3>2 DEF UsedInv
    <3> QED
      BY <3>1, <3>2
  <2>3. \A d \in Chans : /\ rpc'[d] = "none" <=> rpc[d] = "none" /\ d # c
                         /\ rpc'[d] \in Live \cup {"enable", "clear"} => rpc[d] \in Live
                              \/ rpc[d] \in {"enable", "clear"}
    BY <2>1 DEF Live, Receiving
  <2> QED
    BY <2>1, <2>2, <2>3 DEF UsedInv
<1>2. ASSUME NEW c \in Chans, SubscribeMax(c)
      PROVE  UsedInv'
  <2>1. rpc[c] = "max" /\ rpc'[c] = "enable" /\ \A d \in Chans : d # c => rpc'[d] = rpc[d]
    BY <1>2 DEF SubscribeMax, RecvGoto, ReceiverType
  <2>2. maxIndex' \in Nat /\ maxIndex \in Nat /\ maxIndex' >= c /\ maxIndex' >= maxIndex
        /\ (maxIndex' = maxIndex \/ maxIndex' = c)
    BY <1>2 DEF SubscribeMax, SenderType
  <2> QED
    BY <2>1, <2>2 DEF UsedInv, Live, Receiving
<1>3. ASSUME UNCHANGED maxIndex,
             \A d \in Chans : /\ rpc'[d] = "none" <=> rpc[d] = "none"
                              /\ rpc'[d] \in Live \cup {"enable", "clear"} =>
                                   rpc[d] \in Live \cup {"enable", "clear"}
      PROVE  UsedInv'
  BY <1>3, Zenon DEF UsedInv
<1>4. ASSUME NEW c \in Chans, RecvStep(c) \/ SubscribeEnable(c) \/ SubscribeClear(c) \/ ReleaseIndex(c)
      PROVE  /\ UNCHANGED maxIndex
             /\ \A d \in Chans : /\ rpc'[d] = "none" <=> rpc[d] = "none"
                                 /\ rpc'[d] \in Live \cup {"enable", "clear"} =>
                                      rpc[d] \in Live \cup {"enable", "clear"}
  <2>1. CASE RecvStep(c)
    BY <2>1, RecvEffect DEF ReceiverType, Live, Receiving
  <2>2. CASE Subscribed(c) /\ rpc[c] \in {"enable", "clear"} /\ UNCHANGED maxIndex
    <3>1. /\ rpc' = [d \in Chans |-> IF d = c \/ d = by[c] THEN "idle" ELSE rpc[d]]
          /\ by[c] \in Chans => rpc[by[c]] = "cloning"
      BY <2>2, SubscribedEffect, IndexAssumption DEF Subscribing
    <3> QED
      BY <2>2, <3>1 DEF Live, Receiving
  <2>3. CASE UNCHANGED maxIndex /\ rpc[c] = "enable" /\ RecvGoto(c, "clear")
    BY <2>3 DEF ReceiverType, RecvGoto
  <2>4. CASE UNCHANGED maxIndex /\ rpc[c] = "dropping" /\ RecvGoto(c, "free")
    BY <2>4 DEF ReceiverType, RecvGoto, Live, Receiving
  <2> QED
    BY <1>4, <2>1, <2>2, <2>3, <2>4 DEF SubscribeEnable, SubscribeClear, ReleaseIndex
<1>5. \/ \E h \in Chans \cup {0} : Subscribe(h)
      \/ \E c \in Chans : \/ SubscribeMax(c) \/ SubscribeEnable(c) \/ SubscribeClear(c)
                          \/ ReleaseIndex(c) \/ RecvStep(c)
      \/ UNCHANGED <<maxIndex, rpc>>
  BY Zenon DEF Next, SendBegin, SendLoad, SendPush, SendWake, WakeReceiver, PushValue, DropSender,
         DropSwap, DropWake, SenderGone
<1>6. CASE UNCHANGED <<maxIndex, rpc>>
  BY <1>3, <1>6
<1> QED
  BY <1>1, <1>2, <1>3, <1>4, <1>5, <1>6, Zenon

LEMMA CloneStep ==
  ASSUME TypeInv, FreeInv, UsedInv, CloneInv, Next
  PROVE  CloneInv'
<1> USE DEF chanVars, recvVars, sendVars, subVars, TypeInv
<1>1. ASSUME NEW h \in Chans \cup {0}, Subscribe(h)
      PROVE  CloneInv'
  <2>1. PICK c \in Chans :
          /\ rpc[c] \in Unused /\ c # h
          /\ h # 0 => rpc[h] \in {"idle", "done"}
          /\ rpc' = [d \in Chans |-> IF d = c THEN "max" ELSE IF d = h THEN "cloning" ELSE rpc[d]]
          /\ by' = [by EXCEPT ![c] = h]
    BY <1>1, SubscribeEffect
  <2> QED
    BY <2>1, ChansType, Zenon DEF CloneInv, SubscriptionType, Subscribing, Unused
<1>2. ASSUME NEW c \in Chans, rpc[c] \in Subscribing, Subscribed(c)
      PROVE  CloneInv'
  <2>1. /\ rpc' = [d \in Chans |-> IF d = c \/ d = by[c] THEN "idle" ELSE rpc[d]]
        /\ by[c] # c /\ (by[c] # 0 => by[c] \in Chans /\ rpc[by[c]] = "cloning")
    BY <1>2, SubscribedEffect
  <2> QED
    BY <1>2, <2>1 DEF Subscribed, CloneInv, SubscriptionType, Subscribing
<1>3. ASSUME UNCHANGED by,
             \A d \in Chans : /\ rpc'[d] \in Subscribing <=> rpc[d] \in Subscribing
                              /\ rpc[d] = "cloning" => rpc'[d] = "cloning"
      PROVE  CloneInv'
  BY <1>3 DEF CloneInv, SubscriptionType
<1>4. ASSUME NEW c \in Chans, RecvStep(c) \/ ReleaseIndex(c)
      PROVE  /\ UNCHANGED by
             /\ \A d \in Chans : /\ rpc'[d] \in Subscribing <=> rpc[d] \in Subscribing
                                 /\ rpc[d] = "cloning" => rpc'[d] = "cloning"
  <2>1. CASE RecvStep(c)
    BY <2>1, RecvEffect, Zenon DEF ReceiverType, Live, Receiving, Subscribing
  <2>2. CASE ReleaseIndex(c)
    BY <2>2 DEF ReleaseIndex, RecvGoto, ReceiverType, Subscribing
  <2> QED
    BY <1>4, <2>1, <2>2
<1>5. ASSUME NEW c \in Chans, SubscribeMax(c) \/ SubscribeEnable(c) \/ SubscribeClear(c), ~Subscribed(c)
      PROVE  /\ UNCHANGED by
             /\ \A d \in Chans : /\ rpc'[d] \in Subscribing <=> rpc[d] \in Subscribing
                                 /\ rpc[d] = "cloning" => rpc'[d] = "cloning"
  BY <1>5 DEF SubscribeMax, SubscribeEnable, SubscribeClear, RecvGoto, ReceiverType, Subscribing
<1>6. \/ \E h \in Chans \cup {0} : Subscribe(h)
      \/ \E c \in Chans : \/ SubscribeMax(c) \/ SubscribeEnable(c) \/ SubscribeClear(c)
                          \/ ReleaseIndex(c) \/ RecvStep(c)
      \/ UNCHANGED <<by, rpc>>
  BY Zenon DEF Next, SendBegin, SendLoad, SendPush, SendWake, WakeReceiver, PushValue, DropSender,
         DropSwap, DropWake, SenderGone
<1>7. CASE UNCHANGED <<by, rpc>>
  BY <1>3, <1>7
<1>8. \A c \in Chans : SubscribeMax(c) \/ SubscribeEnable(c) \/ SubscribeClear(c) => rpc[c] \in Subscribing
  BY DEF SubscribeMax, SubscribeEnable, SubscribeClear, Subscribing
<1> QED
  BY <1>1, <1>2, <1>3, <1>4, <1>5, <1>6, <1>7, <1>8, Zenon

\* The indices are kept.
LEMMA IndexStep ==
  ASSUME TypeInv, IndexInv, Next
  PROVE  IndexInv'
BY FreeStep, UsedStep, CloneStep DEF IndexInv

(***************************************************************************)
(* The invariant, and what it says.                                          *)
(***************************************************************************)

\* create_channel: one receiver, the other indices free in their order.
LEMMA InitInv ==
  ASSUME Init
  PROVE  ChannelInv
<1> USE DEF Init, ChannelInit, ReceiverInit
<1>0. N \in Nat \ {0} /\ Chans = 1..N /\ 1 \in Chans
  BY IndexAssumption
<1>1. free \in Seq(Chans) /\ Len(free) = N - 1 /\ \A i \in 1..N - 1 : free[i] = i + 1
  <2>1. free = [i \in 1..(N - 1) |-> i + 1] /\ N - 1 \in Nat /\ \A i \in 1..(N - 1) : i + 1 \in Chans
    BY <1>0
  <2> QED
    BY <2>1
<1>2. TypeInv
  <2>1. <<>> \in Seq(Values) /\ <<>> \in Seq({"Ok", "NoSpaceLeft", "GenericError"}) /\ Len(<<>>) = 0
    OBVIOUS
  <2>2. SenderType
    BY <1>0, <2>1 DEF SenderType, Sending, Dropping
  <2>3. ChannelType /\ ReceiverType
    BY <2>1, Zenon DEF ChannelType, ReceiverType, Live, Unused
  <2>4. SubscriptionType
    BY <1>1 DEF SubscriptionType, NoSub
  <2> QED
    BY <2>2, <2>3, <2>4 DEF TypeInv
<1>3. \A c \in Chans : rpc[c] = IF c = 1 THEN "idle" ELSE "none"
  BY <1>0
<1>4. FreeInv
  <2>1. \A i \in 1..Len(free) : free[i] = i + 1 /\ free[i] \in Chans /\ rpc[free[i]] = "none"
    BY <1>0, <1>1, <1>3
  <2>2. \A c \in Chans : rpc[c] \in Unused => \E i \in 1..Len(free) : free[i] = c
    <3>1. SUFFICES ASSUME NEW c \in Chans, c # 1
                   PROVE  \E i \in 1..Len(free) : free[i] = c
      BY <1>3, Zenon DEF Unused
    <3>2. c - 1 \in 1..N - 1 /\ (c - 1) + 1 = c
      BY <1>0, <3>1
    <3> QED
      BY <1>1, <3>2, Zenon
  <2> QED
    BY <1>0, <1>1, <2>1, <2>2 DEF FreeInv, Unused
<1>5. UsedInv /\ CloneInv
  BY <1>0, <1>3 DEF UsedInv, CloneInv, Live, Receiving, Subscribing
<1>6. ASSUME NEW c \in Chans
      PROVE  LinkOf(c)
  <2>1. ConnOf(c) /\ WakeOf(c)
    BY <1>3, ChannelAssumption DEF ConnOf, WakeOf, Marked, Passed, Live, Receiving, Subscribing, Dropping
  <2>2. <<>> \o <<>> = <<>> /\ Len(<<>>) = 0 /\ Range(<<>>) = {} /\ Increasing(<<>>)
    BY DEF Range, Increasing
  <2>3. Seen(c) = <<>>
    BY <2>2 DEF Seen
  <2>4. StreamOf(c) /\ DeliveryOf(c)
    BY <2>2, <2>3 DEF StreamOf, DeliveryOf, NoSub, Sending
  <2> QED
    BY <2>1, <2>4 DEF LinkOf
<1> QED
  BY <1>2, <1>4, <1>5, <1>6 DEF ChannelInv, IndexInv

\* A step, and a step that changes nothing.
LEMMA StepInv ==
  ASSUME ChannelInv, [Next]_vars
  PROVE  ChannelInv'
<1>1. TypeInv /\ IndexInv /\ ConnInv /\ \A d \in Chans : LinkOf(d)
  BY DEF ChannelInv, ConnInv, LinkOf
<1>2. CASE Next
  <2>1. TypeInv' /\ IndexInv'
    BY <1>1, <1>2, TypeStep, IndexStep
  <2>2. ASSUME NEW d \in Chans
        PROVE  LinkOf(d)'
    <3> USE <1>1
    <3>1. ASSUME NEW c \in Chans, SubscribeEnable(c) \/ SubscribeClear(c)
          PROVE  LinkOf(d)'
      <4>1. CASE SubscribeEnable(c) /\ IsRecvGone(c)
        BY <4>1, SubscribingKeeps
      <4>2. CASE ~(SubscribeEnable(c) /\ IsRecvGone(c))
        BY <3>1, <4>2, SubscribedKeeps DEF SubscribeEnable, SubscribeClear, IsRecvGone
      <4> QED
        BY <4>1, <4>2
    <3>2. ASSUME NEW c \in Chans, SubscribeMax(c) \/ ReleaseIndex(c) \/ RecvStep(c)
          PROVE  LinkOf(d)'
      BY <3>2, SubscribingKeeps, ReleaseKeeps, RecvKeeps
    <3>3. CASE SendBegin \/ SendLoad \/ SendPush \/ SendWake
      BY <3>3, SendBeginKeeps, SendLoadKeeps, SendPushKeeps, SendWakeKeeps
    <3>4. CASE DropSender \/ DropSwap \/ DropWake
      BY <3>4, DropSenderKeeps, DropSwapKeeps, DropWakeKeeps
    <3>5. ASSUME NEW h \in Chans \cup {0}, Subscribe(h)
          PROVE  LinkOf(d)'
      BY <3>5, SubscribeKeeps
    <3> QED
      BY ONLY <1>2, <3>1, <3>2, <3>3, <3>4, <3>5, Zenon DEF Next
  <2> QED
    BY <2>1, <2>2 DEF ChannelInv
<1>3. CASE UNCHANGED vars
  <2> USE <1>1, <1>3 DEF vars, chanVars, recvVars, sendVars, subVars
  <2>1. TypeInv'
    BY Zenon DEF TypeInv, SenderType, ChannelType, ReceiverType, SubscriptionType
  <2>2. FreeInv' /\ UsedInv' /\ CloneInv'
    <3>1. FreeInv'
      BY Zenon DEF IndexInv, FreeInv
    <3> QED
      BY <3>1, Zenon DEF IndexInv, UsedInv, CloneInv
  <2>3. \A d \in Chans : LinkOf(d)'
    BY OtherKept, Zenon DEF Same, SameSeen, Seen
  <2> QED
    BY <2>1, <2>2, <2>3 DEF ChannelInv, IndexInv
<1> QED
  BY <1>2, <1>3

\* The invariant holds of the channel for any number of receivers that come and
\* go and any interleaving of their polls with send, with subscribe and with the
\* drop of the sender.
THEOREM ChannelInvariance == Spec => []ChannelInv
<1>1. Init => ChannelInv
  BY InitInv
<1>2. ChannelInv /\ [Next]_vars => ChannelInv'
  BY StepInv
<1> QED
  BY <1>1, <1>2, PTL DEF Spec

\* No wake is lost: recv stores its waker, looks at the connection and then at
\* the queue again, send pushes and then takes the waker, and the drop of the
\* sender leaves its mark and then takes it; whatever their interleaving, a
\* receiver that waits has its waker in the store, or was woken, or the sender is
\* about to wake it.
THEOREM ReceiversWoken == Spec => []ReceiverIsWoken
<1>1. ASSUME ChannelInv, NEW c \in Chans, Asleep(c)
      PROVE  /\ queue[c] # <<>> => waker[c] /\ AboutToWake(c)
             /\ c \notin late => ~Passed(c)
  BY <1>1 DEF ChannelInv, LinkOf, WakeOf, Asleep, AboutToWake
<1>2. ChannelInv => DataWakes /\ EndWakes
  BY <1>1 DEF DataWakes, EndWakes, Passed
<1> QED
  BY <1>2, ChannelInvariance, PTL DEF ReceiverIsWoken

\* What a receiver gets is in the order of the sends, each value once, the end
\* comes last, no channel holds more than its capacity, and the free indices are
\* those without a receiver, each once.  Nothing of the last receiver of an index
\* is left to the next: enable_receiver empties the channel, unless it finds that
\* the drop of the sender has written SENDER_GONE over RECV_GONE.
THEOREM StreamsInOrder == Spec => []StreamInOrder
<1>1. ChannelInv => TypeOK
  <2> SUFFICES ASSUME ChannelInv PROVE TypeOK
    OBVIOUS
  <2>1. ASSUME NEW c \in Chans
        PROVE  Len(queue[c]) <= Size /\ Range(queue[c]) \cup Range(got[c]) \subseteq Values
    <3>1. Len(queue[c]) <= Size /\ queue[c] \in Seq(Values) /\ got[c] \in Seq(Values)
      BY DEF ChannelInv, TypeInv, ChannelType, ReceiverType, LinkOf, ConnOf
    <3> QED
      BY <3>1 DEF Range
  <2>2. /\ waker \in [Chans -> BOOLEAN] /\ conn \in [Chans -> {"BOTH_IN", "SENDER_GONE", "RECV_GONE"}]
        /\ woken \subseteq Chans /\ late \subseteq Chans
    BY Zenon DEF ChannelInv, TypeInv, ChannelType, ReceiverType, SubscriptionType
  <2>3. at \in Chans /\ maxIndex \in Chans /\ sending \in 0..Len(sent) + 1
    BY DEF ChannelInv, TypeInv, SenderType
  <2>4. DOMAIN free = 1..Len(free) /\ \A i \in 1..Len(free) : free[i] \in Chans
    BY DEF ChannelInv, TypeInv, SubscriptionType
  <2>5. Range(free) = {c \in Chans : rpc[c] \in {"none", "free"}} /\ IsInjective(free)
    <3>1. /\ \A i, k \in 1..Len(free) : free[i] = free[k] => i = k
          /\ \A i \in 1..Len(free) : rpc[free[i]] \in Unused
          /\ \A c \in Chans : rpc[c] \in Unused => \E i \in 1..Len(free) : free[i] = c
      BY Zenon DEF ChannelInv, IndexInv, FreeInv
    <3>2. Range(free) = {free[i] : i \in 1..Len(free)} /\ IsInjective(free)
      BY <2>4, <3>1, Zenon DEF Range, IsInjective
    <3> QED
      BY <2>4, <3>1, <3>2 DEF Unused
  <2> QED
    BY <2>1, <2>2, <2>3, <2>5 DEF TypeOK
<1>2. ChannelInv => FreshAndOrdered
  <2> SUFFICES ASSUME ChannelInv, NEW c \in Chans, rpc[c] \notin Subscribing \cup {"free"}
               PROVE  /\ \A i \in DOMAIN Seen(c) : Seen(c)[i] <= sending
                      /\ c \in undrained => c \in late
                      /\ c \notin undrained => \A i \in DOMAIN Seen(c) : Seen(c)[i] > since[c].returned
                      /\ \A i, k \in DOMAIN Seen(c) : i < k => Seen(c)[i] < Seen(c)[k]
    BY Zenon DEF FreshAndOrdered, Seen
  <2>1. rpc[c] \in Live \cup {"dropping", "none"} /\ StreamOf(c) /\ (c \in undrained => c \in late)
    BY DEF ChannelInv, TypeInv, ReceiverType, LinkOf, ConnOf, Unused
  <2>2. /\ Increasing(Seen(c)) /\ \A v \in Range(Seen(c)) : v <= sending
        /\ c \notin undrained => \A v \in Range(Seen(c)) : v > since[c].returned
    BY <2>1 DEF StreamOf
  <2> QED
    BY <2>1, <2>2, Zenon DEF Increasing, Range
<1>3. ChannelInv => EndIsLast
  BY DEF ChannelInv, LinkOf, ConnOf, EndIsLast
<1> QED
  BY <1>1, <1>2, <1>3, ChannelInvariance, PTL DEF StreamInOrder

\* A send that answers Ok has delivered its value to every receiver that was
\* there when it began: the range of indices it reads once covers them all, and
\* it skips only receivers that are gone.
THEOREM SentDelivered == Spec => []SentIsDelivered
<1>1. ChannelInv => SentIsDelivered
  <2> SUFFICES ASSUME ChannelInv, NEW v \in DOMAIN sent, NEW c \in Chans,
                      sent[v] = "Ok", v > since[c].begun,
                      rpc[c] \notin Subscribing \cup {"none", "free", "dropping"}
               PROVE  v \in Range(Seen(c))
    BY DEF SentIsDelivered, Seen
  <2>1. rpc[c] \in Live /\ DeliveryOf(c)
    BY DEF ChannelInv, TypeInv, ReceiverType, LinkOf, Unused
  <2>2. v \in 1..Len(sent)
    BY DEF ChannelInv, TypeInv, SenderType
  <2> QED
    BY <2>1, <2>2 DEF DeliveryOf
<1> QED
  BY <1>1, ChannelInvariance, PTL
=============================================================================
