------------------------ MODULE SubscriptionsProofs ------------------------
(***************************************************************************)
(* broadcast never sends on a closed channel, for any number of            *)
(* subscribers, any buffer and any updates, with one lemma per operation,  *)
(* so that a module that composes Subscriptions can cite them too; and     *)
(* what a subscriber is delivered over a whole history, for any number of  *)
(* updates, about the specification of MCSubscriptions with its log.       *)
(***************************************************************************)
EXTENDS MCSubscriptions, SequenceTheorems, TLAPS

\* The inductive invariant of the subscriptions.
SubsInv == SubsTypeOK /\ SubscribedIsOpen

\* It holds when there is no subscription yet.
LEMMA SubsInitInv == SubsInit => SubsInv
<1> SUFFICES ASSUME SubsInit PROVE SubsInv
  OBVIOUS
<1>1. nextSubID = 0 /\ nextSubID \in 0 .. MaxSubs
  BY SubsAssumption DEF SubsInit
<1>2. DOMAIN chans = {} /\ 0 .. nextSubID - 1 = {}
  BY <1>1 DEF SubsInit, NoChannels
<1>3. chans \in [{} -> Channel]
  BY DEF SubsInit, NoChannels
<1> QED
  BY <1>1, <1>2, <1>3 DEF SubsInit, SubsInv, SubsTypeOK, SubscribedIsOpen

\* SubscribePrice makes an open channel for a new id.
LEMMA SubscribeInv ==
    ASSUME SubsInv, SubscribePrice
    PROVE  SubsInv'
<1> USE SubsAssumption DEF SubsInv, SubsTypeOK, SubscribedIsOpen, SubscribePrice
<1>1. nextSubID \in Nat /\ nextSubID < MaxSubs
  OBVIOUS
<1>2. nextSubID' \in 0 .. MaxSubs
  BY <1>1
<1>3. DOMAIN chans' = 0 .. nextSubID' - 1
  BY <1>1
<1>4. [buf |-> <<>>, closed |-> FALSE] \in Channel
  BY DEF Channel
<1>5. chans' \in [DOMAIN chans' -> Channel]
  BY <1>1, <1>4
<1>6. subs' \subseteq DOMAIN chans' /\ panicked' \in BOOLEAN
  BY <1>1, <1>3
<1>7. SubscribedIsOpen'
  <2>1. SUFFICES ASSUME NEW id \in DOMAIN chans'
                 PROVE  chans'[id].closed <=> id \notin subs'
    OBVIOUS
  <2>2. CASE id = nextSubID
    BY <2>2
  <2>3. CASE id # nextSubID
    BY <2>3
  <2> QED
    BY <2>2, <2>3
<1> QED
  BY <1>2, <1>3, <1>5, <1>6, <1>7

\* The cancel function deletes the entry and closes the channel together.
LEMMA CancelInv ==
    ASSUME SubsInv, NEW id, Cancel(id)
    PROVE  SubsInv'
<1> USE DEF SubsInv, SubsTypeOK, SubscribedIsOpen, Cancel
<1>1. CASE chans[id].closed
  BY <1>1
<1>2. CASE ~chans[id].closed
  <2>1. chans' = [chans EXCEPT ![id].closed = TRUE]
    BY <1>2
  <2>2. chans' \in [DOMAIN chans -> Channel]
    BY <2>1 DEF Channel
  <2>3. \A i \in DOMAIN chans : i # id => chans'[i] = chans[i]
    BY <2>1
  <2>4. chans'[id].closed = TRUE
    BY <2>1 DEF Channel
  <2> QED
    BY <1>2, <2>2, <2>3, <2>4
<1> QED
  BY <1>1, <1>2

\* A subscriber that reads closes nothing.
LEMMA ReceiveInv ==
    ASSUME SubsInv, NEW id, Receive(id)
    PROVE  SubsInv'
<1> USE DEF SubsInv, SubsTypeOK, SubscribedIsOpen, Receive
<1>1. chans[id] \in Channel /\ chans[id].buf \in Seq(Updates) /\ chans[id].buf # <<>>
  BY DEF Channel
<1>2. Tail(chans[id].buf) \in Seq(Updates)
  BY <1>1
<1>3. chans' \in [DOMAIN chans -> Channel]
  BY <1>1, <1>2 DEF Channel
<1>4. \A i \in DOMAIN chans : chans'[i].closed = chans[i].closed
  BY <1>1 DEF Channel
<1> QED
  BY <1>3, <1>4

\* A broadcast finds open channels only: it does not panic.
LEMMA BroadcastInv ==
    ASSUME SubsInv, NEW update \in Updates, Broadcast(update)
    PROVE  SubsInv' /\ panicked' = FALSE
<1> USE DEF SubsInv, SubsTypeOK, SubscribedIsOpen, Broadcast
<1>1. \A id \in subs : ~chans[id].closed
  OBVIOUS
<1>2. chans' = [id \in DOMAIN chans |->
                   IF id \in subs
                   THEN [chans[id] EXCEPT !.buf = Offer(@, update)]
                   ELSE chans[id]]
  BY <1>1
<1>3. \A buf \in Seq(Updates) : Offer(buf, update) \in Seq(Updates)
  BY DEF Offer
<1>4. \A id \in DOMAIN chans :
          /\ chans'[id] \in Channel
          /\ chans'[id].closed = chans[id].closed
  BY <1>2, <1>3 DEF Channel
<1>5. chans' \in [DOMAIN chans -> Channel]
  BY <1>2, <1>4
<1> QED
  BY <1>1, <1>4, <1>5

(***************************************************************************)
(* No send on a closed channel (oracle.go:155-161 against 296-298).        *)
(***************************************************************************)
THEOREM NoSendOnClosed == SubsSpec => [](SubsTypeOK /\ SubscribedIsOpen)
<1>1. SubsInv /\ [SubsNext]_subsVars => SubsInv'
  <2>1. SUFFICES ASSUME SubsInv, [SubsNext]_subsVars PROVE SubsInv'
    OBVIOUS
  <2>2. CASE SubscribePrice
    BY <2>1, <2>2, SubscribeInv
  <2>3. ASSUME NEW id \in SubIDs, Cancel(id) PROVE SubsInv'
    BY <2>1, <2>3, CancelInv
  <2>4. ASSUME NEW id \in SubIDs, Receive(id) PROVE SubsInv'
    BY <2>1, <2>4, ReceiveInv
  <2>5. ASSUME NEW update \in Updates, Broadcast(update) PROVE SubsInv'
    BY <2>1, <2>5, BroadcastInv
  <2>6. CASE UNCHANGED subsVars
    BY <2>1, <2>6 DEF SubsInv, SubsTypeOK, SubscribedIsOpen, subsVars
  <2> QED
    BY <2>1, <2>2, <2>3, <2>4, <2>5, <2>6 DEF SubsNext
<1> QED
  BY <1>1, SubsInitInv, PTL DEF SubsSpec, SubsInv
-----------------------------------------------------------------------------
(***************************************************************************)
(* What a subscriber has been delivered, as a sequence d of the numbers of *)
(* the updates, when last is the number of the latest and start that of    *)
(* the one before its subscription.                                        *)
(***************************************************************************)

\* In order, and never more than were broadcast: so there is no gap as long
\* as Len(d) = last - start.
InOrderAfter(d, start, last) ==
    /\ Len(d) <= last - start
    /\ \A i \in 1 .. Len(d) : start < d[i] /\ d[i] <= last
    /\ \A i \in 2 .. Len(d) : d[i-1] < d[i]

\* The first updates are there without a gap, as many as the buffer holds.
NoGapUpTo(d, start, n) ==
    \A i \in 1 .. Len(d) : i <= n => d[i] = start + i

\* Nothing but a full buffer keeps an update out.
AllOrFull(d, start, last, n) ==
    last - start <= Len(d) \/ n <= Len(d)

\* The subscriber takes the head of its buffer: nothing is delivered or lost.
LEMMA HeadMovesOver ==
    ASSUME NEW S, NEW s \in Seq(S), NEW b \in Seq(S), b # <<>>
    PROVE  Append(s, Head(b)) \o Tail(b) = s \o b
<1>1. Head(b) \in S /\ Tail(b) \in Seq(S)
  BY HeadTailProperties
<1>2. b = <<Head(b)>> \o Tail(b)
  <2>1. b = SubSeq(b, 1, Len(b)) /\ Len(b) \in Nat \ {0}
    BY SubSeqFull, EmptySeq
  <2>2. SubSeq(b, 1, Len(b)) = <<b[1]>> \o SubSeq(b, 2, Len(b))
    BY <2>1, SubSeqRecursiveFirst
  <2>3. Tail(b) = SubSeq(b, 2, Len(b)) /\ Head(b) = b[1]
    BY TailIsSubSeq
  <2> QED
    BY <2>1, <2>2, <2>3
<1>3. Append(s, Head(b)) = s \o <<Head(b)>> /\ <<Head(b)>> \in Seq(S)
  BY <1>1, AppendIsConcat
<1>4. (s \o <<Head(b)>>) \o Tail(b) = s \o (<<Head(b)>> \o Tail(b))
  BY <1>1, <1>3, ConcatAssociative
<1> QED
  BY <1>2, <1>3, <1>4

\* A send that finds room.
LEMMA AppendBehind ==
    ASSUME NEW S, NEW s \in Seq(S), NEW b \in Seq(S), NEW u \in S
    PROVE  s \o Append(b, u) = Append(s \o b, u)
<1>1. <<u>> \in Seq(S) /\ s \o b \in Seq(S)
  BY ConcatProperties
<1>2. s \o Append(b, u) = s \o (b \o <<u>>)
  BY AppendIsConcat
<1>3. Append(s \o b, u) = (s \o b) \o <<u>>
  BY <1>1, AppendIsConcat
<1> QED
  BY <1>1, <1>2, <1>3, ConcatAssociative

\* The next update is delivered.
LEMMA DeliveredNext ==
    ASSUME NEW d \in Seq(Nat), NEW start \in Nat, NEW last \in Nat,
           NEW n \in Nat,
           InOrderAfter(d, start, last), NoGapUpTo(d, start, n),
           AllOrFull(d, start, last, n)
    PROVE  /\ Append(d, last + 1) \in Seq(Nat)
           /\ InOrderAfter(Append(d, last + 1), start, last + 1)
           /\ NoGapUpTo(Append(d, last + 1), start, n)
           /\ AllOrFull(Append(d, last + 1), start, last + 1, n)
<1> DEFINE e == Append(d, last + 1)
           k == Len(d)
<1>1. /\ e \in Seq(Nat) /\ Len(e) = k + 1 /\ k \in Nat
      /\ \A i \in 1 .. k : e[i] = d[i] /\ d[i] \in Nat
      /\ e[k + 1] = last + 1
  BY AppendProperties, LenProperties, ElementOfSeq
<1>2. /\ k <= last - start
      /\ \A i \in 1 .. k : start < d[i] /\ d[i] <= last
      /\ \A i \in 2 .. k : d[i-1] < d[i]
      /\ \A i \in 1 .. k : i <= n => d[i] = start + i
      /\ last - start <= k \/ n <= k
  BY DEF InOrderAfter, NoGapUpTo, AllOrFull
<1> HIDE DEF e, k
<1>3. ASSUME NEW i \in 1 .. k + 1
      PROVE  i \in 1 .. k \/ i = k + 1
  BY <1>1
<1>4. \A i \in 1 .. k + 1 : start < e[i] /\ e[i] <= last + 1
  <2> TAKE i \in 1 .. k + 1
  <2>1. CASE i \in 1 .. k
    <3>1. e[i] = d[i] /\ d[i] \in Nat /\ start < d[i] /\ d[i] <= last
      BY <1>1, <1>2, <2>1
    <3> QED
      BY <3>1
  <2>2. CASE i = k + 1
    <3>1. e[i] = last + 1 /\ start <= last
      BY <1>1, <1>2, <2>2
    <3> QED
      BY <3>1
  <2> QED
    BY <1>3, <2>1, <2>2
<1>5. \A i \in 2 .. k + 1 : e[i-1] < e[i]
  <2> TAKE i \in 2 .. k + 1
  <2>1. i - 1 \in 1 .. k
    BY <1>1
  <2>2. e[i-1] = d[i-1] /\ d[i-1] \in Nat /\ d[i-1] <= last
    BY <1>1, <1>2, <2>1
  <2>3. CASE i \in 2 .. k
    <3>1. i \in 1 .. k
      BY <2>3
    <3>2. e[i] = d[i] /\ d[i-1] < d[i]
      BY <1>1, <1>2, <2>3, <3>1
    <3> QED
      BY <2>2, <3>2
  <2>4. CASE i = k + 1
    <3>1. e[i] = last + 1
      BY <1>1, <2>4
    <3> QED
      BY <2>2, <3>1
  <2> QED
    BY <1>1, <2>3, <2>4
<1>6. \A i \in 1 .. k + 1 : i <= n => e[i] = start + i
  <2> SUFFICES ASSUME NEW i \in 1 .. k + 1, i <= n
               PROVE  e[i] = start + i
    OBVIOUS
  <2>1. CASE i \in 1 .. k
    <3>1. e[i] = d[i] /\ d[i] = start + i
      BY <1>1, <1>2, <2>1
    <3> QED
      BY <3>1
  <2>2. CASE i = k + 1
    <3>1. e[i] = last + 1 /\ last - start = k
      BY <1>1, <1>2, <2>2
    <3> QED
      BY <1>1, <2>2, <3>1
  <2> QED
    BY <1>3, <2>1, <2>2
<1>7. k + 1 <= last + 1 - start /\ (last + 1 - start <= k + 1 \/ n <= k + 1)
  BY <1>1, <1>2
<1>8. Len(e) = k + 1 /\ e \in Seq(Nat)
  BY <1>1
<1>9. InOrderAfter(e, start, last + 1)
  BY <1>4, <1>5, <1>7, <1>8 DEF InOrderAfter
<1>10. NoGapUpTo(e, start, n)
  BY <1>6, <1>8 DEF NoGapUpTo
<1>11. AllOrFull(e, start, last + 1, n)
  BY <1>7, <1>8 DEF AllOrFull
<1> QED
  BY <1>8, <1>9, <1>10, <1>11 DEF e

\* The next update is not: all the same, what was delivered is in order.
LEMMA NotDelivered ==
    ASSUME NEW d \in Seq(Nat), NEW start \in Nat, NEW last \in Nat,
           InOrderAfter(d, start, last)
    PROVE  InOrderAfter(d, start, last + 1)
BY LenProperties, ElementOfSeq DEF InOrderAfter

(***************************************************************************)
(* The log of every channel that was ever made, active or not.             *)
(***************************************************************************)
ChannelLogOK(id) ==
    /\ since[id + 1] <= published
    /\ chans[id].buf \in Seq(Nat)
    /\ InOrderAfter(Delivered(id), since[id + 1], published)
    /\ NoGapUpTo(Delivered(id), since[id + 1], SubBufferSize)
    /\ id \in subs =>
          AllOrFull(Delivered(id), since[id + 1], published, SubBufferSize)

LogTypeOK ==
    /\ published \in Nat
    /\ since \in Seq(Nat) /\ Len(since) = nextSubID
    /\ seen \in Seq(Seq(Nat)) /\ Len(seen) = nextSubID

LogInv ==
    /\ SubsInv
    /\ LogTypeOK
    /\ \A id \in DOMAIN chans : ChannelLogOK(id)

\* What the log says of a channel has the types it should have.
LEMMA LogOfChannel ==
    ASSUME LogInv, NEW id \in DOMAIN chans
    PROVE  /\ id \in Nat /\ id + 1 \in 1 .. nextSubID
           /\ since[id + 1] \in Nat
           /\ seen[id + 1] \in Seq(Nat)
           /\ chans[id].buf \in Seq(Nat)
           /\ Delivered(id) \in Seq(Nat)
<1>1. id \in Nat /\ id + 1 \in 1 .. nextSubID /\ nextSubID \in Nat
  BY SubsAssumption DEF LogInv, SubsInv, SubsTypeOK
<1>2. since[id + 1] \in Nat
  BY <1>1, ElementOfSeq DEF LogInv, LogTypeOK
<1>3. seen[id + 1] \in Seq(Nat)
  BY <1>1, ElementOfSeq DEF LogInv, LogTypeOK
<1>4. chans[id].buf \in Seq(Nat)
  BY DEF LogInv, ChannelLogOK
<1>5. Delivered(id) \in Seq(Nat)
  BY <1>3, <1>4, ConcatProperties DEF Delivered
<1> QED
  BY <1>1, <1>2, <1>3, <1>4, <1>5

\* It holds at first.
LEMMA LogInitInv == LoggedInit => LogInv
<1> SUFFICES ASSUME LoggedInit PROVE LogInv
  OBVIOUS
<1>1. SubsInv /\ DOMAIN chans = {} /\ nextSubID = 0
  BY SubsInitInv DEF LoggedInit, SubsInit, NoChannels
<1>2. LogTypeOK
  BY <1>1, EmptySeq DEF LoggedInit, LogTypeOK
<1> QED
  BY <1>1, <1>2 DEF LogInv

\* The invariant of the subscriptions is part of it.
LEMMA LogKeepsSubsInv ==
    ASSUME SubsInv, [LoggedNext]_loggedVars
    PROVE  SubsInv'
<1>1. CASE LoggedSubscribe
  BY <1>1, SubscribeInv DEF LoggedSubscribe
<1>2. CASE LoggedBroadcast
  BY <1>2, BroadcastInv DEF LoggedBroadcast
<1>3. ASSUME NEW id \in SubIDs, LoggedCancel(id) PROVE SubsInv'
  BY <1>3, CancelInv DEF LoggedCancel
<1>4. ASSUME NEW id \in SubIDs, LoggedReceive(id) PROVE SubsInv'
  BY <1>4, ReceiveInv DEF LoggedReceive
<1>5. CASE UNCHANGED loggedVars
  BY <1>5 DEF loggedVars, subsVars, SubsInv, SubsTypeOK, SubscribedIsOpen
<1> QED
  BY <1>1, <1>2, <1>3, <1>4, <1>5 DEF LoggedNext

(***************************************************************************)
(* What a step can do to what a subscriber has been delivered.             *)
(***************************************************************************)
Quiet(id) ==
    /\ Delivered(id)' = Delivered(id)
    /\ published' = published

Sent(id) ==
    /\ id \in subs
    /\ Delivered(id)' = Append(Delivered(id), published + 1)
    /\ published' = published + 1

Missed(id) ==
    /\ Delivered(id)' = Delivered(id)
    /\ published' = published + 1
    /\ id \in subs => SubBufferSize <= Len(Delivered(id))

StepOf(id) ==
    /\ id \in DOMAIN chans'
    /\ id \in subs' => id \in subs
    /\ since'[id + 1] = since[id + 1]
    /\ chans'[id].buf \in Seq(Nat)
    /\ Quiet(id) \/ Sent(id) \/ Missed(id)

\* A subscription begins a log of its own and leaves the others.
LEMMA SubscribeLogs ==
    ASSUME LogInv, LoggedSubscribe
    PROVE  /\ LogTypeOK'
           /\ since'[nextSubID + 1] = published /\ seen'[nextSubID + 1] = <<>>
           /\ \A i \in 1 .. nextSubID : since'[i] = since[i] /\ seen'[i] = seen[i]
<1> DEFINE T == Seq(Nat)
<1>1. /\ since \in Seq(Nat) /\ Len(since) = nextSubID /\ published \in Nat
      /\ since' = Append(since, published) /\ published' = published
      /\ nextSubID' = nextSubID + 1
  BY DEF LogInv, LogTypeOK, LoggedSubscribe, SubscribePrice
<1>2. /\ seen \in Seq(T) /\ Len(seen) = nextSubID /\ <<>> \in T
      /\ seen' = Append(seen, <<>>)
  BY EmptySeq DEF LogInv, LogTypeOK, LoggedSubscribe
<1> HIDE DEF T
<1>3. /\ since' \in Seq(Nat) /\ Len(since') = nextSubID + 1
      /\ since'[nextSubID + 1] = published
      /\ \A i \in 1 .. nextSubID : since'[i] = since[i]
  BY <1>1, AppendProperties
<1>4. /\ seen' \in Seq(T) /\ Len(seen') = nextSubID + 1
      /\ seen'[nextSubID + 1] = <<>>
      /\ \A i \in 1 .. nextSubID : seen'[i] = seen[i]
  BY <1>2, AppendProperties
<1>5. LogTypeOK'
  BY <1>1, <1>3, <1>4 DEF LogTypeOK, T
<1> QED
  BY <1>3, <1>4, <1>5

\* A subscription changes nobody else's log.
LEMMA SubscribeStep ==
    ASSUME LogInv, LoggedSubscribe, NEW id \in DOMAIN chans
    PROVE  StepOf(id)
<1>1. id # nextSubID /\ nextSubID \in Nat /\ id + 1 \in 1 .. nextSubID
  BY SubsAssumption, LogOfChannel DEF LogInv, SubsInv, SubsTypeOK
<1>2. /\ id \in DOMAIN chans' /\ chans'[id] = chans[id]
      /\ id \in subs' => id \in subs
      /\ published' = published
  BY <1>1 DEF LoggedSubscribe, SubscribePrice
<1>3. since'[id + 1] = since[id + 1] /\ seen'[id + 1] = seen[id + 1]
  BY <1>1, SubscribeLogs
<1>4. Delivered(id)' = Delivered(id)
  BY <1>2, <1>3 DEF Delivered
<1> QED
  BY <1>2, <1>3, <1>4, LogOfChannel DEF StepOf, Quiet

\* A broadcast reaches a subscriber or finds its buffer full.
LEMMA BroadcastStep ==
    ASSUME LogInv, LoggedBroadcast, NEW id \in DOMAIN chans
    PROVE  StepOf(id)
<1>1. /\ published' = published + 1 /\ since' = since /\ seen' = seen
      /\ subs' = subs
  BY DEF LoggedBroadcast, Broadcast
<1>2. chans' = [i \in DOMAIN chans |->
                   IF i \in subs
                   THEN [chans[i] EXCEPT !.buf = Offer(@, published + 1)]
                   ELSE chans[i]]
  BY DEF LoggedBroadcast, Broadcast, LogInv, SubsInv, SubsTypeOK, SubscribedIsOpen
<1>3. /\ seen[id + 1] \in Seq(Nat) /\ chans[id].buf \in Seq(Nat)
      /\ published + 1 \in Nat /\ Delivered(id) \in Seq(Nat)
  BY LogOfChannel DEF LogInv, LogTypeOK
<1>4. chans[id] \in Channel
  BY DEF LogInv, SubsInv, SubsTypeOK
<1>5. CASE id \in subs /\ Len(chans[id].buf) < SubBufferSize
  <2>1. chans'[id].buf = Append(chans[id].buf, published + 1)
    BY <1>2, <1>4, <1>5 DEF Offer, Channel
  <2>2. chans'[id].buf \in Seq(Nat)
    BY <1>3, <2>1, AppendProperties
  <2>3. Delivered(id)' = Append(Delivered(id), published + 1)
    <3> DEFINE u == published + 1
               s == seen[id + 1]
               b == chans[id].buf
    <3>1. /\ s \in Seq(Nat) /\ b \in Seq(Nat) /\ u \in Nat
          /\ Delivered(id)' = s \o Append(b, u) /\ Delivered(id) = s \o b
      BY <1>1, <1>3, <2>1 DEF Delivered
    <3> HIDE DEF u, s, b
    <3>2. s \o Append(b, u) = Append(s \o b, u)
      BY <3>1, AppendBehind
    <3> QED
      BY <3>1, <3>2 DEF u
  <2> QED
    BY <1>1, <1>2, <1>5, <2>2, <2>3 DEF StepOf, Sent
<1>6. CASE id \in subs /\ ~(Len(chans[id].buf) < SubBufferSize)
  <2>1. chans'[id].buf = chans[id].buf
    BY <1>2, <1>4, <1>6 DEF Offer, Channel
  <2>2. Delivered(id)' = Delivered(id)
    BY <1>1, <2>1 DEF Delivered
  <2>3. /\ Len(Delivered(id)) = Len(seen[id + 1]) + Len(chans[id].buf)
        /\ Len(seen[id + 1]) \in Nat /\ Len(chans[id].buf) \in Nat
    BY <1>3, ConcatProperties, LenProperties DEF Delivered
  <2>4. SubBufferSize <= Len(Delivered(id))
    <3> DEFINE m == Len(seen[id + 1])
               n == Len(chans[id].buf)
    <3>1. m \in Nat /\ n \in Nat /\ Len(Delivered(id)) = m + n /\ ~(n < SubBufferSize)
      BY <1>6, <2>3
    <3> HIDE DEF m, n
    <3> QED
      BY <3>1, SubsAssumption
  <2> QED
    BY <1>1, <1>2, <1>3, <2>1, <2>2, <2>4 DEF StepOf, Missed
<1>7. CASE id \notin subs
  <2>1. chans'[id] = chans[id]
    BY <1>2, <1>7
  <2>2. Delivered(id)' = Delivered(id)
    BY <1>1, <2>1 DEF Delivered
  <2> QED
    BY <1>1, <1>2, <1>3, <1>7, <2>1, <2>2 DEF StepOf, Missed
<1> QED
  BY <1>5, <1>6, <1>7

\* A cancel takes nothing from a buffer.
LEMMA CancelStep ==
    ASSUME LogInv, NEW who, LoggedCancel(who), NEW id \in DOMAIN chans
    PROVE  StepOf(id)
<1>1. /\ published' = published /\ since' = since /\ seen' = seen
      /\ subs' \subseteq subs
  BY DEF LoggedCancel, Cancel, ghosts
<1>2. DOMAIN chans' = DOMAIN chans /\ chans'[id].buf = chans[id].buf
  <2>1. chans[id] \in Channel
    BY DEF LogInv, SubsInv, SubsTypeOK
  <2> QED
    BY <2>1 DEF LoggedCancel, Cancel, Channel
<1>3. Delivered(id)' = Delivered(id)
  BY <1>1, <1>2 DEF Delivered
<1> QED
  BY <1>1, <1>2, <1>3, LogOfChannel DEF StepOf, Quiet

\* A subscriber that reads changes its own log only, and loses nothing.
LEMMA ReceiveStep ==
    ASSUME LogInv, NEW who, LoggedReceive(who), NEW id \in DOMAIN chans
    PROVE  StepOf(id) /\ LogTypeOK'
<1>1. /\ published' = published /\ since' = since /\ subs' = subs
      /\ nextSubID' = nextSubID
      /\ who \in DOMAIN chans /\ chans[who].buf # <<>>
      /\ chans' = [chans EXCEPT ![who].buf = Tail(@)]
      /\ seen' = [seen EXCEPT ![who + 1] = Append(@, Head(chans[who].buf))]
  BY DEF LoggedReceive, Receive
<1>2. /\ who + 1 \in 1 .. Len(seen) /\ who \in Nat
      /\ seen[who + 1] \in Seq(Nat) /\ chans[who].buf \in Seq(Nat)
      /\ seen \in Seq(Seq(Nat))
  BY <1>1, LogOfChannel DEF LogInv, LogTypeOK
<1>3. Head(chans[who].buf) \in Nat /\ Tail(chans[who].buf) \in Seq(Nat)
  BY <1>1, <1>2, HeadTailProperties
<1>4. Append(seen[who + 1], Head(chans[who].buf)) \in Seq(Nat)
  BY <1>2, <1>3, AppendProperties
<1>5. /\ seen' \in Seq(Seq(Nat)) /\ Len(seen') = Len(seen)
      /\ \A j \in 1 .. Len(seen) :
            seen'[j] = IF j = who + 1
                       THEN Append(seen[who + 1], Head(chans[who].buf)) ELSE seen[j]
  <2> DEFINE T == Seq(Nat)
             w == who + 1
             e == Append(seen[who + 1], Head(chans[who].buf))
  <2>1. /\ seen \in Seq(T) /\ w \in 1 .. Len(seen) /\ e \in T
        /\ seen' = [seen EXCEPT ![w] = e]
    BY <1>1, <1>2, <1>4
  <2> HIDE DEF T, w, e
  <2>2. /\ seen' \in Seq(T) /\ Len(seen') = Len(seen)
        /\ \A j \in 1 .. Len(seen) : seen'[j] = IF j = w THEN e ELSE seen[j]
    BY <2>1, ExceptSeq
  <2> QED
    BY <2>2 DEF T, w, e
<1>6. LogTypeOK'
  BY <1>1, <1>5 DEF LogInv, LogTypeOK
<1>7. id \in Nat /\ id + 1 \in 1 .. Len(seen) /\ chans[id] \in Channel
  BY LogOfChannel DEF LogInv, LogTypeOK, SubsInv, SubsTypeOK
<1>8. CASE id = who
  <2>1. chans'[id].buf = Tail(chans[who].buf)
    BY <1>1, <1>7, <1>8 DEF Channel
  <2>2. seen'[id + 1] = Append(seen[who + 1], Head(chans[who].buf))
    BY <1>2, <1>5, <1>8
  <2>3. Append(seen[who + 1], Head(chans[who].buf)) \o Tail(chans[who].buf) =
            seen[who + 1] \o chans[who].buf
    <3> DEFINE s == seen[who + 1]
               b == chans[who].buf
    <3>1. s \in Seq(Nat) /\ b \in Seq(Nat) /\ b # <<>>
      BY <1>1, <1>2
    <3> HIDE DEF s, b
    <3>2. Append(s, Head(b)) \o Tail(b) = s \o b
      BY <3>1, HeadMovesOver
    <3> QED
      BY <3>2 DEF s, b
  <2>4. Delivered(id)' = Delivered(id)
    BY <1>8, <2>1, <2>2, <2>3 DEF Delivered
  <2> QED
    BY <1>1, <1>3, <1>6, <2>1, <2>4 DEF StepOf, Quiet
<1>9. CASE id # who
  <2>1. chans'[id] = chans[id]
    BY <1>1, <1>9
  <2>2. seen'[id + 1] = seen[id + 1]
    <3>1. id + 1 # who + 1
      BY <1>2, <1>7, <1>9
    <3> QED
      BY <1>5, <1>7, <3>1
  <2>3. Delivered(id)' = Delivered(id)
    BY <2>1, <2>2 DEF Delivered
  <2> QED
    BY <1>1, <1>6, <2>1, <2>3, LogOfChannel DEF StepOf, Quiet
<1> QED
  BY <1>8, <1>9

\* So every step of the system is of one of these kinds.
LEMMA EveryStep ==
    ASSUME LogInv, [LoggedNext]_loggedVars, NEW id \in DOMAIN chans
    PROVE  StepOf(id)
<1>1. CASE UNCHANGED loggedVars
  <2>1. UNCHANGED <<subs, chans, published, since, seen>>
    BY <1>1 DEF loggedVars, subsVars, ghosts
  <2> QED
    BY <2>1, LogOfChannel DEF StepOf, Quiet, Delivered
<1> QED
  BY <1>1, SubscribeStep, BroadcastStep, CancelStep, ReceiveStep DEF LoggedNext

\* A step keeps what the log says of a channel that was there.
LEMMA OldChannel ==
    ASSUME LogInv, NEW id \in DOMAIN chans, StepOf(id)
    PROVE  ChannelLogOK(id)'
<1> DEFINE d == Delivered(id)
           start == since[id + 1]
<1>1. /\ d \in Seq(Nat) /\ start \in Nat /\ published \in Nat
      /\ SubBufferSize \in Nat
  BY LogOfChannel, SubsAssumption DEF LogInv, LogTypeOK
<1>2. /\ start <= published
      /\ InOrderAfter(d, start, published)
      /\ NoGapUpTo(d, start, SubBufferSize)
      /\ id \in subs => AllOrFull(d, start, published, SubBufferSize)
  BY DEF LogInv, ChannelLogOK
<1>3. /\ since'[id + 1] = start /\ chans'[id].buf \in Seq(Nat)
      /\ id \in subs' => id \in subs
  BY DEF StepOf
<1>4. CASE Quiet(id)
  BY <1>2, <1>3, <1>4 DEF Quiet, ChannelLogOK
<1>5. CASE Missed(id)
  <2>1. InOrderAfter(d, start, published + 1)
    BY <1>1, <1>2, NotDelivered
  <2>2. id \in subs => AllOrFull(d, start, published + 1, SubBufferSize)
    BY <1>5 DEF Missed, AllOrFull
  <2>3. start <= published + 1
    BY <1>1, <1>2
  <2> QED
    BY <1>2, <1>3, <1>5, <2>1, <2>2, <2>3 DEF Missed, ChannelLogOK
<1>6. CASE Sent(id)
  <2> DEFINE e == Append(d, published + 1)
  <2>1. AllOrFull(d, start, published, SubBufferSize)
    BY <1>2, <1>6 DEF Sent
  <2>2. /\ InOrderAfter(e, start, published + 1)
        /\ NoGapUpTo(e, start, SubBufferSize)
        /\ AllOrFull(e, start, published + 1, SubBufferSize)
    BY <1>1, <1>2, <2>1, DeliveredNext
  <2>3. start <= published + 1
    BY <1>1, <1>2
  <2>4. Delivered(id)' = e /\ published' = published + 1
    BY <1>6 DEF Sent
  <2> HIDE DEF d, start, e
  <2> QED
    BY <1>3, <2>2, <2>3, <2>4 DEF ChannelLogOK
<1> QED
  BY <1>4, <1>5, <1>6 DEF StepOf

\* The log of a new channel is empty.
LEMMA NewChannel ==
    ASSUME LogInv, LoggedSubscribe, NEW n, n = nextSubID
    PROVE  ChannelLogOK(n)'
<1>1. n \in Nat /\ published \in Nat /\ SubBufferSize \in Nat
  BY SubsAssumption DEF LogInv, LogTypeOK, SubsInv, SubsTypeOK
<1>2. since'[n + 1] = published /\ seen'[n + 1] = <<>>
  BY SubscribeLogs
<1>3. chans'[n].buf = <<>> /\ published' = published
  BY DEF LoggedSubscribe, SubscribePrice
<1>4. <<>> \in Seq(Nat) /\ <<>> \o <<>> = <<>> /\ Len(<<>>) = 0
  BY EmptySeq, ConcatEmptySeq
<1>5. Delivered(n)' = <<>>
  BY <1>2, <1>3, <1>4 DEF Delivered
<1>6. /\ InOrderAfter(<<>>, published, published)
      /\ NoGapUpTo(<<>>, published, SubBufferSize)
      /\ AllOrFull(<<>>, published, published, SubBufferSize)
  BY <1>1, <1>4 DEF InOrderAfter, NoGapUpTo, AllOrFull
<1> QED
  BY <1>1, <1>2, <1>3, <1>4, <1>5, <1>6 DEF ChannelLogOK

\* Every step keeps the invariant.
LEMMA LogNextInv ==
    ASSUME LogInv, [LoggedNext]_loggedVars
    PROVE  LogInv'
<1>1. SubsInv'
  BY LogKeepsSubsInv DEF LogInv
<1>2. \A id \in DOMAIN chans : ChannelLogOK(id)'
  BY EveryStep, OldChannel
<1>3. LogTypeOK'
  <2>1. CASE LoggedSubscribe
    BY <2>1, SubscribeLogs
  <2>2. CASE LoggedBroadcast
    BY <2>2 DEF LogInv, LogTypeOK, LoggedBroadcast, Broadcast
  <2>3. ASSUME NEW id \in SubIDs, LoggedCancel(id) PROVE LogTypeOK'
    BY <2>3 DEF LogInv, LogTypeOK, LoggedCancel, Cancel, ghosts
  <2>4. ASSUME NEW id \in SubIDs, LoggedReceive(id) PROVE LogTypeOK'
    <3>1. id \in DOMAIN chans
      BY <2>4 DEF LoggedReceive, Receive
    <3> QED
      BY <2>4, <3>1, ReceiveStep
  <2>5. CASE UNCHANGED loggedVars
    BY <2>5 DEF LogInv, LogTypeOK, loggedVars, subsVars, ghosts
  <2> QED
    BY <2>1, <2>2, <2>3, <2>4, <2>5 DEF LoggedNext
<1>4. \A id \in DOMAIN chans' : id \in DOMAIN chans \/ ChannelLogOK(id)'
  <2>1. CASE LoggedSubscribe
    <3>1. DOMAIN chans' = DOMAIN chans \cup {nextSubID}
      BY <2>1 DEF LoggedSubscribe, SubscribePrice
    <3>2. \A id \in {nextSubID} : ChannelLogOK(id)'
      BY <2>1, NewChannel
    <3> QED
      BY <3>1, <3>2
  <2>2. CASE ~LoggedSubscribe
    BY <2>2 DEF LoggedNext, LoggedBroadcast, Broadcast, LoggedCancel, Cancel,
       LoggedReceive, Receive, loggedVars, subsVars
  <2> QED
    BY <2>1, <2>2
<1> QED
  BY <1>1, <1>2, <1>3, <1>4 DEF LogInv

(***************************************************************************)
(* The inductive invariant of the subscriptions with their logs.           *)
(***************************************************************************)
THEOREM LogInvariant == LoggedSpec => []LogInv
<1>1. LogInv /\ [LoggedNext]_loggedVars => LogInv'
  BY LogNextInv
<1> QED
  BY <1>1, LogInitInv, PTL DEF LoggedSpec

(***************************************************************************)
(* The types hold with the publisher of the log too, and so does the       *)
(* agreement of the entries with the channels (oracle.go:155-161).         *)
(***************************************************************************)
THEOREM SubscriptionsTypeCorrect ==
    LoggedSpec => [](SubsTypeOK /\ SubscribedIsOpen)
BY LogInvariant, PTL DEF LogInv, SubsInv

(***************************************************************************)
(* Whatever is delivered is in the order of the broadcasts, without        *)
(* duplicates, and from after the subscription (oracle.go:139-161,         *)
(* 286-304).                                                               *)
(***************************************************************************)
THEOREM DeliveredInOrder == LoggedSpec => []InOrderNoDuplicates
<1>1. LogInv => InOrderNoDuplicates
  <2> SUFFICES ASSUME LogInv, NEW id \in DOMAIN chans,
                      NEW i \in DOMAIN Delivered(id)
               PROVE  /\ Delivered(id)[i] > since[id + 1]
                      /\ Delivered(id)[i] <= published
                      /\ i > 1 => Delivered(id)[i-1] < Delivered(id)[i]
    BY DEF InOrderNoDuplicates
  <2> DEFINE d == Delivered(id)
  <2>1. DOMAIN d = 1 .. Len(d) /\ d \in Seq(Nat) /\ Len(d) \in Nat
    BY LogOfChannel, LenProperties
  <2>2. InOrderAfter(d, since[id + 1], published)
    BY DEF LogInv, ChannelLogOK
  <2>3. d[i] \in Nat /\ since[id + 1] \in Nat
    BY <2>1, LogOfChannel, ElementOfSeq
  <2>4. i \in 1 .. Len(d)
    BY <2>1
  <2> HIDE DEF d
  <2>5. since[id + 1] < d[i] /\ d[i] <= published
    BY <2>2, <2>4 DEF InOrderAfter
  <2>6. i > 1 => d[i-1] < d[i]
    <3>1. i > 1 => i \in 2 .. Len(d)
      BY <2>1, <2>4
    <3> QED
      BY <2>2, <3>1 DEF InOrderAfter
  <2> QED
    BY <2>3, <2>5, <2>6 DEF d
<1> QED
  BY <1>1, LogInvariant, PTL

(***************************************************************************)
(* A gap only after the buffer was full (oracle.go:144, 298-302).          *)
(***************************************************************************)
THEOREM GapOnlyAfterFull == LoggedSpec => []MissedOnlyWhenFull
<1>1. LogInv => MissedOnlyWhenFull
  <2> SUFFICES ASSUME LogInv, NEW id \in subs
               PROVE  LET d     == Delivered(id)
                          start == since[id + 1]
                          due   == published - start
                      IN  /\ Len(d) >= IF due < SubBufferSize
                                       THEN due ELSE SubBufferSize
                          /\ \A i \in DOMAIN d : i <= SubBufferSize => d[i] = start + i
    BY DEF MissedOnlyWhenFull
  <2> DEFINE d == Delivered(id)
             start == since[id + 1]
  <2>1. id \in DOMAIN chans
    BY DEF LogInv, SubsInv, SubsTypeOK
  <2>2. DOMAIN d = 1 .. Len(d) /\ Len(d) \in Nat /\ start \in Nat
    BY <2>1, LogOfChannel, LenProperties
  <2>3. /\ NoGapUpTo(d, start, SubBufferSize)
        /\ AllOrFull(d, start, published, SubBufferSize)
        /\ published \in Nat /\ SubBufferSize \in Nat
    BY <2>1, SubsAssumption DEF LogInv, LogTypeOK, ChannelLogOK
  <2> HIDE DEF d, start
  <2>4. Len(d) >= IF published - start < SubBufferSize
                  THEN published - start ELSE SubBufferSize
    BY <2>2, <2>3 DEF AllOrFull
  <2>5. \A i \in DOMAIN d : i <= SubBufferSize => d[i] = start + i
    BY <2>2, <2>3 DEF NoGapUpTo
  <2> QED
    BY <2>4, <2>5 DEF d, start
<1> QED
  BY <1>1, LogInvariant, PTL

(***************************************************************************)
(* Nothing a subscriber was sent is taken back (oracle.go:155-161,         *)
(* 296-303).                                                               *)
(***************************************************************************)
THEOREM NothingTakenBack == LoggedSpec => DeliveredOnlyGrows
<1> DEFINE Grows ==
        \A id \in DOMAIN chans :
            /\ Len(Delivered(id)) <= Len(Delivered(id)')
            /\ SubSeq(Delivered(id)', 1, Len(Delivered(id))) = Delivered(id)
<1>1. LogInv /\ [LoggedNext]_loggedVars => [Grows]_loggedVars
  <2> SUFFICES ASSUME LogInv, [LoggedNext]_loggedVars, NEW id \in DOMAIN chans
               PROVE  /\ Len(Delivered(id)) <= Len(Delivered(id)')
                      /\ SubSeq(Delivered(id)', 1, Len(Delivered(id))) = Delivered(id)
    OBVIOUS
  <2> DEFINE d == Delivered(id)
             e == Delivered(id)'
  <2>1. d \in Seq(Nat) /\ Len(d) \in Nat /\ published + 1 \in Nat
    BY LogOfChannel, LenProperties DEF LogInv, LogTypeOK
  <2>2. e = d \/ e = Append(d, published + 1)
    BY EveryStep DEF StepOf, Quiet, Sent, Missed
  <2> HIDE DEF d, e
  <2>3. CASE e = d
    BY <2>1, <2>3, SubSeqFull DEF d, e
  <2>4. CASE e = Append(d, published + 1)
    <3>1. /\ e \in Seq(Nat) /\ Len(e) = Len(d) + 1
          /\ \A i \in 1 .. Len(d) : e[i] = d[i]
      BY <2>1, <2>4, AppendProperties
    <3>2. \A i \in 1 .. Len(d) : e[i] \in Nat
      BY <2>1, <3>1, ElementOfSeq
    <3>3. /\ SubSeq(e, 1, Len(d)) \in Seq(Nat)
          /\ Len(SubSeq(e, 1, Len(d))) = Len(d)
          /\ \A i \in 1 .. Len(d) : SubSeq(e, 1, Len(d))[i] = e[i]
      <4> DEFINE k == Len(d)
      <4>1. k \in Nat /\ \A i \in 1 .. k : e[i] \in Nat
        BY <2>1, <3>2
      <4> HIDE DEF k
      <4>2. /\ SubSeq(e, 1, k) \in Seq(Nat)
            /\ Len(SubSeq(e, 1, k)) = IF 1 <= k THEN k - 1 + 1 ELSE 0
            /\ \A i \in 1 .. k - 1 + 1 : SubSeq(e, 1, k)[i] = e[1 + i - 1]
        BY <4>1, SubSeqProperties
      <4> QED
        BY <4>1, <4>2 DEF k
    <3>4. SubSeq(e, 1, Len(d)) = d
      BY <2>1, <3>1, <3>3, SeqEqual
    <3> QED
      BY <2>1, <3>1, <3>4 DEF d, e
  <2> QED
    BY <2>2, <2>3, <2>4
<1> QED
  BY <1>1, LogInvariant, PTL DEF LoggedSpec, DeliveredOnlyGrows
=============================================================================
