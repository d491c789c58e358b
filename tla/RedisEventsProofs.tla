------------------------- MODULE RedisEventsProofs -------------------------
(* Theorems about RedisEvents, for every number of clients, every replay    *)
(* window, channel capacity and set of failures.                            *)
EXTENDS RedisEvents, SequenceTheorems, TLAPS

(* Sequences of event numbers.                                              *)
LEMMA TailFacts ==
  ASSUME NEW s \in Seq(Nat), s # <<>>
  PROVE  /\ Tail(s) \in Seq(Nat) /\ Len(s) \in Nat \ {0} /\ Len(Tail(s)) = Len(s) - 1
         /\ Head(s) = s[1] /\ Head(s) \in Nat
         /\ \A i \in 1 .. Len(s) - 1 : Tail(s)[i] = s[i + 1]
  BY HeadTailProperties, EmptySeq, LenProperties, ElementOfSeq

LEMMA AppendFacts ==
  ASSUME NEW s \in Seq(Nat), NEW e \in Nat
  PROVE  /\ Append(s, e) \in Seq(Nat) /\ Len(s) \in Nat /\ Len(Append(s, e)) = Len(s) + 1
         /\ Append(s, e) # <<>>
         /\ \A i \in 1 .. Len(s) : Append(s, e)[i] = s[i]
         /\ Append(s, e)[Len(s) + 1] = e
  BY AppendProperties, LenProperties

LEMMA EmptyFacts == <<>> \in Seq(Nat) /\ Len(<<>>) = 0
                    /\ \A s \in Seq(Nat) : Len(s) \in Nat /\ (s = <<>> <=> Len(s) = 0)
  BY EmptySeq

LEMMA Arithmetic == \A n, l \in Nat : n - l + (l + 1) = n + 1
  OBVIOUS

LEMMA OldestFacts ==
  ASSUME NEW n \in Nat
  PROVE  Oldest(n) \in Nat /\ Oldest(n) >= 1 /\ (n > 0 => Oldest(n) <= n)
  BY EventsAssumption DEF Oldest

(* The list read by Subscribe, for a cursor that is not ahead of it.        *)
LEMMA ReplayFacts ==
  ASSUME NEW s \in Nat, next \in Nat, s <= next
  PROVE  /\ ReplayFrom(s) \in Seq(Nat)
         /\ Len(ReplayFrom(s)) <= next
         /\ \A i \in 1 .. Len(ReplayFrom(s)) :
              ReplayFrom(s)[i] = next - Len(ReplayFrom(s)) + i
         /\ s + 1 >= Oldest(next) => s = next - Len(ReplayFrom(s))
         /\ s = 0 /\ next > 0 => /\ ReplayFrom(s) # <<>>
                                 /\ next - Len(ReplayFrom(s)) + 1 = Oldest(next)
<1> DEFINE first == IF s + 1 > Oldest(next) THEN s + 1 ELSE Oldest(next)
<1> DEFINE n == next - first + 1
<1>1. Oldest(next) \in Nat /\ Oldest(next) >= 1 /\ (next > 0 => Oldest(next) <= next)
  BY OldestFacts
<1>2. first \in Nat /\ first >= 1 /\ first <= next + 1 /\ n \in Nat
  BY <1>1, EventsAssumption DEF Oldest
<1>3. ReplayFrom(s) = [i \in 1 .. n |-> first + i - 1]
  BY DEF ReplayFrom
<1>4. \A i \in 1 .. n : first + i - 1 \in Nat
  BY <1>2
<1> HIDE DEF n, first
<1>5. ReplayFrom(s) \in Seq(Nat) /\ Len(ReplayFrom(s)) = n
  <2>1. ReplayFrom(s) \in [1 .. n -> Nat]
    BY <1>3, <1>4
  <2>2. QED
    BY <2>1, <1>2, <1>3
<1>6. \A i \in 1 .. n : ReplayFrom(s)[i] = first + i - 1
  BY <1>3
<1>7. n = next - first + 1
  BY DEF n
<1>8. s + 1 >= Oldest(next) => first = s + 1
  BY <1>1 DEF first
<1>9. s = 0 /\ next > 0 => first = Oldest(next) /\ first <= next
  BY <1>1 DEF first
<1>10. Len(ReplayFrom(s)) # 0 => ReplayFrom(s) # <<>>
  BY <1>5, EmptyFacts
<1> QED
  BY <1>2, <1>5, <1>6, <1>7, <1>8, <1>9, <1>10

(* The list is well formed for any cursor, also one ahead of the stream.    *)
LEMMA ReplayTyped ==
  ASSUME NEW s \in Nat, next \in Nat
  PROVE  ReplayFrom(s) \in Seq(Nat)
<1> DEFINE first == IF s + 1 > Oldest(next) THEN s + 1 ELSE Oldest(next)
<1>1. first \in Nat /\ first >= 1
  BY OldestFacts
<1>2. ReplayFrom(s) = [i \in 1 .. next - first + 1 |-> first + i - 1]
  BY DEF ReplayFrom
<1> HIDE DEF first
<1>3. CASE next - first + 1 \in Nat
  <2>1. ReplayFrom(s) \in [1 .. next - first + 1 -> Nat]
    BY <1>1, <1>2, <1>3
  <2>2. QED
    BY <2>1, <1>3, <1>2
<1>4. CASE next - first + 1 \notin Nat
  <2>1. 1 .. next - first + 1 = {}
    BY <1>1, <1>4
  <2>2. ReplayFrom(s) = <<>>
    BY <1>2, <2>1
  <2>3. QED
    BY <2>2, EmptyFacts
<1>5. QED
  BY <1>3, <1>4

-----------------------------------------------------------------------------
(* Types *)

LEMMA StreamTypeStep == StreamTypeOK /\ DeliveryTypeOK /\ [Next]_vars => StreamTypeOK'
<1> USE EventsAssumption DEF StreamTypeOK, streamVars, deliveryVars, Fault
<1> SUFFICES ASSUME StreamTypeOK, DeliveryTypeOK, [Next]_vars PROVE StreamTypeOK'
  OBVIOUS
<1>1. CASE Publish
  BY <1>1 DEF Publish
<1>2. CASE DeleteSession
  BY <1>2 DEF DeleteSession
<1>3. CASE StopDecr
  BY <1>3 DEF StopDecr, Decrement, DecrementOf
<1>4. CASE StopDel
  BY <1>4 DEF StopDel
<1>5. CASE ExpireCounter
  BY <1>5 DEF ExpireCounter
<1>6. ASSUME NEW c \in Clients, Step(c) PROVE StreamTypeOK'
  <2>1. CASE Listen(c)
    BY <2>1 DEF Listen
  <2>2. CASE Register(c)
    BY <2>2 DEF Register, Increment
  <2>3. CASE Lease(c)
    BY <2>3 DEF Lease, LeaseKey, DecrementOf
  <2>4. CASE ReadCursor(c)
    BY <2>4 DEF ReadCursor, Refuse
  <2>5. CASE ReadEvents(c)
    BY <2>5 DEF ReadEvents, Refuse
  <2>6. CASE Forward(c)
    BY <2>6 DEF Forward, Overflow, EndForwarding
  <2>7. CASE Deliver(c)
    BY <2>7 DEF Deliver
  <2>8. CASE FallBehind(c)
    BY <2>8 DEF FallBehind
  <2>9. QED
    BY <1>6, <2>1, <2>2, <2>3, <2>4, <2>5, <2>6, <2>7, <2>8 DEF Step
<1>7. ASSUME NEW c \in Clients, HeartbeatFails(c) \/ Cut(c) \/ Close(c) \/ Crash(c)
      PROVE  StreamTypeOK'
  BY <1>7 DEF HeartbeatFails, EndForwarding, Cut, Close, Crash
<1>8. CASE UNCHANGED vars
  BY <1>8 DEF vars
<1>9. QED
  BY <1>1, <1>2, <1>3, <1>4, <1>5, <1>6, <1>7, <1>8 DEF Next

(* A subscription that is forgotten leaves empty sequences behind.          *)
LEMMA ForgetTyped ==
  ASSUME DeliveryTypeOK, NEW c \in Clients, NEW label \in {"off", "gone"},
         Forget(c, label), seen' = seen
  PROVE  DeliveryTypeOK'
  BY EmptyFacts DEF DeliveryTypeOK, Forget, Goto

LEMMA DeliveryTypeStep == StreamTypeOK /\ DeliveryTypeOK /\ [Next]_vars => DeliveryTypeOK'
<1> USE EventsAssumption DEF streamVars, deliveryVars, Goto, Listening, Sending, Counted
<1> SUFFICES ASSUME StreamTypeOK, DeliveryTypeOK, [Next]_vars PROVE DeliveryTypeOK'
  OBVIOUS
<1>n. next \in Nat
  BY DEF StreamTypeOK
<1>1. CASE Publish
  <2>1. \A c \in Clients : Append(mailbox[c], next + 1) \in Seq(Nat)
    BY <1>n, AppendFacts DEF DeliveryTypeOK
  <2>2. mailbox' \in [Clients -> Seq(Nat)]
    BY <1>1, <2>1 DEF Publish, DeliveryTypeOK
  <2>3. QED
    BY <1>1, <2>2 DEF Publish, DeliveryTypeOK
<1>2. CASE DeleteSession \/ StopDecr \/ StopDel \/ ExpireCounter
  BY <1>2 DEF DeleteSession, StopDecr, StopDel, ExpireCounter, DeliveryTypeOK
<1>6. ASSUME NEW c \in Clients, Step(c) PROVE DeliveryTypeOK'
  <2>1. CASE Listen(c)
    BY <2>1 DEF Listen, DeliveryTypeOK
  <2>2. CASE Register(c)
    BY <2>2, EmptyFacts DEF Register, DeliveryTypeOK
  <2>3. CASE Lease(c)
    BY <2>3, EmptyFacts DEF Lease, DeliveryTypeOK
  <2>4. CASE ReadCursor(c)
    <3>1. CASE Refuse(c)
      BY <2>4, <3>1, ForgetTyped DEF ReadCursor, Refuse
    <3>2. CASE ~Refuse(c)
      BY <2>4, <3>2 DEF ReadCursor, DeliveryTypeOK
    <3>3. QED
      BY <3>1, <3>2
  <2>5. CASE ReadEvents(c)
    <3>1. CASE Refuse(c)
      BY <2>5, <3>1, ForgetTyped DEF ReadEvents, Refuse
    <3>2. CASE ~Refuse(c)
      <4>1. ReplayFrom(seen[c]) \in Seq(Nat) /\ LastRead(c) \in Nat
        BY <1>n, ReplayTyped DEF DeliveryTypeOK, LastRead
      <4>2. QED
        BY <2>5, <3>2, <4>1 DEF ReadEvents, DeliveryTypeOK
    <3>3. QED
      BY <3>1, <3>2
  <2>6. CASE Forward(c)
    <3>1. /\ Tail(mailbox[c]) \in Seq(Nat) /\ Head(mailbox[c]) \in Nat
          /\ Append(channel[c], Head(mailbox[c])) \in Seq(Nat)
      BY <2>6, TailFacts, AppendFacts DEF Forward, DeliveryTypeOK
    <3>2. QED
      BY <2>6, <3>1, EmptyFacts DEF Forward, Overflow, EndForwarding, DeliveryTypeOK
  <2>7. CASE Deliver(c)
    <3>1. CASE replay[c] # <<>>
      <4>1. Tail(replay[c]) \in Seq(Nat) /\ Head(replay[c]) \in Nat
        BY <3>1, TailFacts DEF DeliveryTypeOK
      <4>2. QED
        BY <2>7, <3>1, <4>1 DEF Deliver, DeliveryTypeOK
    <3>2. CASE replay[c] = <<>>
      <4>1. Tail(channel[c]) \in Seq(Nat) /\ Head(channel[c]) \in Nat
        BY <2>7, <3>2, TailFacts DEF Deliver, DeliveryTypeOK
      <4>2. QED
        BY <2>7, <3>2, <4>1 DEF Deliver, DeliveryTypeOK
    <3>3. QED
      BY <3>1, <3>2
  <2>8. CASE FallBehind(c)
    BY <2>8, ForgetTyped DEF FallBehind
  <2>9. QED
    BY <1>6, <2>1, <2>2, <2>3, <2>4, <2>5, <2>6, <2>7, <2>8 DEF Step
<1>7. ASSUME NEW c \in Clients, HeartbeatFails(c) \/ Cut(c) \/ Close(c) \/ Crash(c)
      PROVE  DeliveryTypeOK'
  <2>1. CASE HeartbeatFails(c)
    BY <2>1, EmptyFacts DEF HeartbeatFails, EndForwarding, DeliveryTypeOK
  <2>2. CASE Cut(c) \/ Close(c) \/ Crash(c)
    BY <2>2, ForgetTyped DEF Cut, Close, Crash
  <2>3. QED
    BY <1>7, <2>1, <2>2
<1>8. CASE UNCHANGED vars
  BY <1>8 DEF vars, DeliveryTypeOK
<1>9. QED
  BY <1>1, <1>2, <1>6, <1>7, <1>8 DEF Next

(* The channel never holds more than its capacity.                          *)
LEMMA CapacityStep ==
  ASSUME DeliveryTypeOK, [Next]_vars, \A c \in Clients : Len(channel[c]) <= ChannelSize
  PROVE  \A c \in Clients : Len(channel'[c]) <= ChannelSize
<1> USE EventsAssumption DEF streamVars, deliveryVars, Goto, Forget
<1> SUFFICES ASSUME NEW c \in Clients PROVE Len(channel'[c]) <= ChannelSize
  OBVIOUS
<1>a. channel \in [Clients -> Seq(Nat)] /\ mailbox \in [Clients -> Seq(Nat)]
  BY DEF DeliveryTypeOK
<1>b. Len(<<>>) = 0
  BY EmptyFacts
<1>1. CASE channel' = channel
  BY <1>1
<1>2. ASSUME NEW d \in Clients, channel' = [channel EXCEPT ![d] = <<>>]
      PROVE  Len(channel'[c]) <= ChannelSize
  BY <1>2, <1>a, <1>b
<1>3. ASSUME NEW d \in Clients, Forward(d) PROVE Len(channel'[c]) <= ChannelSize
  <2>1. CASE channel' = channel
    BY <2>1
  <2>2. CASE ~Full(d) /\ channel' = [channel EXCEPT ![d] = Append(@, Head(mailbox[d]))]
    <3>1. Head(mailbox[d]) \in Nat
      BY <1>3, <1>a, TailFacts DEF Forward
    <3>2. Len(Append(channel[d], Head(mailbox[d]))) = Len(channel[d]) + 1
          /\ Len(channel[d]) \in Nat
      BY <1>a, <3>1, AppendFacts
    <3>3. QED
      BY <1>a, <2>2, <3>2 DEF Full
  <2>3. QED
    BY <1>3, <2>1, <2>2 DEF Forward, Overflow, EndForwarding
<1>4. ASSUME NEW d \in Clients, Deliver(d) PROVE Len(channel'[c]) <= ChannelSize
  <2>1. CASE channel' = channel
    BY <2>1
  <2>2. CASE channel[d] # <<>> /\ channel' = [channel EXCEPT ![d] = Tail(@)]
    <3>1. Len(Tail(channel[d])) = Len(channel[d]) - 1 /\ Len(channel[d]) \in Nat
      BY <1>a, <2>2, TailFacts
    <3>2. QED
      BY <1>a, <2>2, <3>1
  <2>3. QED
    BY <1>4, <2>1, <2>2 DEF Deliver
<1>5. ASSUME NEW d \in Clients, Step(d) PROVE Len(channel'[c]) <= ChannelSize
  BY <1>1, <1>2, <1>3, <1>4, <1>5
  DEF Step, Listen, Register, Lease, ReadCursor, ReadEvents, FallBehind, Refuse
<1>6. ASSUME NEW d \in Clients, HeartbeatFails(d) \/ Cut(d) \/ Close(d) \/ Crash(d)
      PROVE  Len(channel'[c]) <= ChannelSize
  BY <1>1, <1>2, <1>6 DEF HeartbeatFails, EndForwarding, Cut, Close, Crash
<1>7. QED
  BY <1>1, <1>5, <1>6
  DEF Next, vars, Publish, DeleteSession, StopDecr, StopDel, ExpireCounter

(* Every call leaves the stores and the buffers well formed, whatever fails.*)
THEOREM EventTypes == Spec => []ETypeOK
<1>1. Init => ETypeOK
  BY EventsAssumption, EmptyFacts
  DEF Init, ETypeOK, StreamTypeOK, DeliveryTypeOK, Listening
<1>2. ETypeOK /\ [Next]_vars => ETypeOK'
  BY StreamTypeStep, DeliveryTypeStep, CapacityStep DEF ETypeOK
<1>3. QED
  BY <1>1, <1>2, PTL DEF Spec

-----------------------------------------------------------------------------
(* Contiguous delivery *)

ClientOK(c) == /\ MailboxOK(c) /\ PendingOK(c) /\ seen[c] <= next
               /\ pc[c] = "sized" => next > 0

(* A step of somebody else leaves a client's sequences as they fit.         *)
LEMMA Untouched ==
  ASSUME NEW c \in Clients, ClientOK(c), next' = next, pc'[c] = pc[c],
         mailbox'[c] = mailbox[c], cursor'[c] = cursor[c], replay'[c] = replay[c],
         channel'[c] = channel[c], seen'[c] = seen[c]
  PROVE  ClientOK(c)'
  BY DEF ClientOK, MailboxOK, PendingOK, EndsWith, Listening, Sending

(* So does the end of its own subscription.                                 *)
LEMMA Forgotten ==
  ASSUME DeliveryTypeOK, NEW d \in Clients, NEW label \in {"off", "gone"},
         Forget(d, label), seen' = seen, next' = next,
         NEW c \in Clients, ClientOK(c)
  PROVE  ClientOK(c)'
<1>1. CASE c = d
  <2>1. /\ pc'[c] = label /\ mailbox'[c] = <<>> /\ replay'[c] = <<>>
        /\ channel'[c] = <<>> /\ seen'[c] = seen[c]
    BY <1>1 DEF Forget, Goto, DeliveryTypeOK
  <2>2. label \notin Listening /\ label \notin Sending /\ label # "live" /\ label # "sized"
    BY DEF Listening, Sending
  <2>3. MailboxOK(c)'
    BY <2>1, <2>2, EmptyFacts DEF MailboxOK, EndsWith
  <2>4. QED
    BY <2>1, <2>2, <2>3 DEF ClientOK, PendingOK
<1>2. CASE c # d
  BY <1>2, Untouched DEF Forget, Goto, DeliveryTypeOK
<1>3. QED
  BY <1>1, <1>2

\* No message is lost and the stream is not deleted: the premise under which
\* the stream keeps its promise.
Lossless == "lost" \notin Faults /\ "delete" \notin Faults

LEMMA PublishContiguous ==
  ASSUME Lossless, StreamTypeOK, DeliveryTypeOK, Publish, NEW c \in Clients, ClientOK(c)
  PROVE  ClientOK(c)'
<1>n. next \in Nat /\ next' = next + 1
  BY EventsAssumption DEF StreamTypeOK, Publish
<1>1. mailbox' = [d \in Clients |-> IF pc[d] \in Listening
                                      THEN Append(mailbox[d], next + 1) ELSE mailbox[d]]
  BY DEF Publish, Lossless, Fault
<1>2. MailboxOK(c)'
  <2>1. CASE pc[c] \in Listening
    <3>1. mailbox'[c] = Append(mailbox[c], next + 1)
      BY <1>1, <2>1
    <3>2. /\ Len(mailbox'[c]) = Len(mailbox[c]) + 1 /\ Len(mailbox[c]) \in Nat
          /\ \A i \in 1 .. Len(mailbox[c]) : mailbox'[c][i] = mailbox[c][i]
          /\ mailbox'[c][Len(mailbox[c]) + 1] = next + 1
      BY <1>n, <3>1, AppendFacts DEF DeliveryTypeOK
    <3>3. ASSUME NEW i \in 1 .. Len(mailbox'[c])
          PROVE  mailbox'[c][i] = next' - Len(mailbox'[c]) + i
      <4>1. i \in Nat /\ next' - Len(mailbox'[c]) + i = next - Len(mailbox[c]) + i
        BY <1>n, <3>2
      <4>2. CASE i = Len(mailbox[c]) + 1
        <5>1. next - Len(mailbox[c]) + i = next + 1
          BY <1>n, <3>2, <4>2, Arithmetic
        <5>2. mailbox'[c][i] = next + 1
          BY <3>2, <4>2
        <5>3. QED
          BY <4>1, <5>1, <5>2
      <4>3. CASE i \in 1 .. Len(mailbox[c])
        <5>1. mailbox[c][i] = next - Len(mailbox[c]) + i
          BY <4>3 DEF ClientOK, MailboxOK, EndsWith
        <5>2. QED
          BY <3>2, <4>1, <4>3, <5>1
      <4>4. QED
        BY <3>2, <4>2, <4>3
    <3>4. QED
      BY <2>1, <3>3 DEF MailboxOK, EndsWith, Publish
  <2>2. CASE pc[c] \notin Listening
    <3>1. mailbox'[c] = <<>> /\ pc'[c] = pc[c]
      BY <1>1, <2>2 DEF ClientOK, MailboxOK, Publish
    <3>2. QED
      BY <3>1, EmptyFacts DEF MailboxOK, EndsWith
  <2>3. QED
    BY <2>1, <2>2
<1>3. PendingOK(c)'
  <2>1. pc[c] = "live" => next' - Len(mailbox'[c]) <= cursor[c]
    <3>1. SUFFICES ASSUME pc[c] = "live" PROVE next' - Len(mailbox'[c]) <= cursor[c]
      OBVIOUS
    <3>2. Len(mailbox'[c]) = Len(mailbox[c]) + 1 /\ Len(mailbox[c]) \in Nat
      BY <1>1, <1>n, <3>1, AppendFacts DEF DeliveryTypeOK, Listening
    <3>3. QED
      BY <1>n, <3>1, <3>2 DEF ClientOK, PendingOK, DeliveryTypeOK
  <2>2. /\ pc'[c] = pc[c] /\ replay'[c] = replay[c] /\ channel'[c] = channel[c]
        /\ cursor'[c] = cursor[c] /\ seen'[c] = seen[c]
    BY DEF Publish
  <2>3. cursor[c] <= next => cursor[c] <= next'
    BY <1>n DEF DeliveryTypeOK
  <2>4. QED
    BY <2>1, <2>2, <2>3 DEF ClientOK, PendingOK, EndsWith
<1>4. QED
  BY <1>n, <1>2, <1>3 DEF ClientOK, Publish, DeliveryTypeOK

LEMMA ReadContiguous ==
  ASSUME Lossless, StreamTypeOK, DeliveryTypeOK, NEW d \in Clients, ReadEvents(d),
         NEW c \in Clients, ClientOK(c)
  PROVE  ClientOK(c)'
<1>n. next \in Nat /\ next' = next
  BY EventsAssumption DEF StreamTypeOK, ReadEvents
<1>1. CASE Refuse(d)
  BY <1>n, <1>1, Forgotten DEF ReadEvents, Refuse
<1>2. CASE ~Refuse(d) /\ c # d
  BY <1>2, Untouched DEF ReadEvents, Goto, DeliveryTypeOK
<1>3. CASE ~Refuse(d) /\ c = d
  <2> DEFINE list == ReplayFrom(seen[c])
  <2>1. /\ pc'[c] = "live" /\ replay'[c] = list /\ cursor'[c] = LastRead(c)
        /\ mailbox'[c] = mailbox[c] /\ channel'[c] = channel[c] /\ seen'[c] = seen[c]
    BY <1>3 DEF ReadEvents, Goto, DeliveryTypeOK
  <2>2. seen[c] \in Nat /\ seen[c] <= next /\ next > 0 /\ pc[c] = "sized"
    BY <1>3 DEF ReadEvents, ClientOK, DeliveryTypeOK
  <2>3. LastRead(c) = next
    BY <1>n, <2>2 DEF LastRead
  <2>4. channel[c] = <<>>
    BY <2>2 DEF ClientOK, PendingOK, Sending
  <2>5. /\ list \in Seq(Nat) /\ Len(list) <= next /\ Len(list) \in Nat
        /\ EndsWith(list, next)
        /\ seen[c] + 1 >= Oldest(next) => seen[c] = next - Len(list)
        /\ seen[c] = 0 => list # <<>>
    BY <1>n, <2>2, ReplayFacts, EmptyFacts DEF EndsWith
  <2>6. seen[c] + 1 >= Oldest(next) \/ seen[c] = 0
    BY <1>n, <1>3, <2>2, OldestFacts DEF ReadEvents, TooOld
  <2> HIDE DEF list
  <2>7. MailboxOK(c)'
    BY <1>n, <2>1, <2>2 DEF MailboxOK, ClientOK, Listening
  <2>8. next - Len(mailbox[c]) <= next
    BY <1>n, EmptyFacts DEF DeliveryTypeOK
  <2>9. Len(channel[c]) = 0
    BY <2>4, EmptyFacts
  <2>14. EndsWith(channel[c], next)
    BY <2>9 DEF EndsWith
  <2>10. next - Len(channel[c]) = next /\ Len(channel[c]) + Len(list) = Len(list)
    BY <1>n, <2>5, <2>9
  <2>11. seen[c] = next - Len(channel[c]) - Len(list) \/ (seen[c] = 0 /\ list # <<>>)
    BY <1>n, <2>5, <2>6, <2>9
  <2>12. PendingOK(c)'
    BY <1>n, <2>1, <2>3, <2>5, <2>8, <2>9, <2>10, <2>11, <2>14 DEF PendingOK, Sending, EndsWith
  <2>13. QED
    BY <1>n, <2>1, <2>2, <2>7, <2>12 DEF ClientOK
<1>4. QED
  BY <1>1, <1>2, <1>3

LEMMA SetUpContiguous ==
  ASSUME StreamTypeOK, DeliveryTypeOK, NEW d \in Clients,
         Listen(d) \/ Register(d) \/ Lease(d) \/ ReadCursor(d),
         NEW c \in Clients, ClientOK(c)
  PROVE  ClientOK(c)'
<1>1. CASE ReadCursor(d) /\ Refuse(d)
  BY <1>1, Forgotten DEF ReadCursor, Refuse
<1>2. CASE /\ next' = next /\ seen' = seen /\ cursor' = cursor
           /\ replay' = replay /\ channel' = channel
           /\ \/ mailbox' = mailbox
              \/ mailbox' = [mailbox EXCEPT ![d] = <<>>]
           /\ \/ pc[d] = "off" /\ pc' = [pc EXCEPT ![d] = "listening"] /\ mailbox' = mailbox
              \/ pc[d] = "listening" /\ pc' = [pc EXCEPT ![d] = "counted"] /\ mailbox' = mailbox
              \/ pc[d] = "counted" /\ pc' = [pc EXCEPT ![d] = "leased"] /\ mailbox' = mailbox
              \/ /\ pc[d] = "leased" /\ pc' = [pc EXCEPT ![d] = "sized"] /\ mailbox' = mailbox
                 /\ next > 0
              \/ /\ pc[d] \in {"listening", "counted"} /\ pc' = [pc EXCEPT ![d] = "off"]
                 /\ mailbox' = [mailbox EXCEPT ![d] = <<>>]
  <2>1. CASE c # d
    BY <1>2, <2>1, Untouched DEF DeliveryTypeOK
  <2>2. CASE c = d
    <3>1. /\ pc[c] \in {"off", "listening", "counted", "leased"}
          /\ pc'[c] \in {"off", "listening", "counted", "leased", "sized"}
          /\ pc'[c] = "off" => mailbox'[c] = <<>>
          /\ mailbox'[c] = <<>> \/ mailbox'[c] = mailbox[c]
          /\ pc'[c] = "sized" => next > 0
      BY <1>2, <2>2 DEF DeliveryTypeOK
    <3>2. MailboxOK(c)'
      BY <1>2, <3>1, EmptyFacts DEF ClientOK, MailboxOK, EndsWith, Listening
    <3>3. PendingOK(c)'
      BY <1>2, <3>1 DEF ClientOK, PendingOK, Sending
    <3>4. QED
      BY <1>2, <3>1, <3>2, <3>3 DEF ClientOK
  <2>3. QED
    BY <2>1, <2>2
<1>3. QED
  BY <1>1, <1>2
  DEF Listen, Register, Lease, ReadCursor, Goto, streamVars, deliveryVars, Fault

LEMMA Shift == \A n, l, m, i \in Int : m = l - 1 => n - l + (i + 1) = n - m + i
  OBVIOUS

LEMMA OneMore ==
  \A k, r, u, l, e \in Int : k + r <= u /\ l = k + 1 /\ e = u + 1 => l + r <= e
  OBVIOUS

LEMMA RestBound ==
  \A n, l, r, u, e \in Int : e = n - l + 1 /\ r = l - 1 /\ e <= u => n - r <= u
  OBVIOUS

LEMMA NextEvent ==
  \A x, u, e \in Int : e = x + 1 /\ x <= u /\ u + 1 <= e => e = u + 1
  OBVIOUS

(* A goroutine that returns leaves the handler what it has sent on.         *)
LEMMA EndContiguous ==
  ASSUME DeliveryTypeOK, NEW d \in Clients, pc[d] = "live", EndForwarding(d),
         UNCHANGED <<next, replay, seen>>, NEW c \in Clients, ClientOK(c)
  PROVE  ClientOK(c)'
<1>1. CASE c # d
  BY <1>1, Untouched DEF EndForwarding, Goto, DeliveryTypeOK
<1>2. CASE c = d
  <2>1. mailbox'[c] = <<>> /\ pc'[c] = "ended" /\ cursor' = cursor /\ channel' = channel
    BY <1>2 DEF EndForwarding, Goto, DeliveryTypeOK
  <2>2. MailboxOK(c)'
    BY <2>1, EmptyFacts DEF MailboxOK, EndsWith
  <2>3. PendingOK(c)'
    BY <1>2, <2>1 DEF ClientOK, PendingOK, EndsWith, Sending
  <2>4. QED
    BY <2>1, <2>2, <2>3 DEF ClientOK
<1>3. QED
  BY <1>1, <1>2

LEMMA ForwardContiguous ==
  ASSUME StreamTypeOK, DeliveryTypeOK, NEW d \in Clients, Forward(d),
         NEW c \in Clients, ClientOK(c)
  PROVE  ClientOK(c)'
<1> DEFINE event == Head(mailbox[d])
<1>n. next \in Nat /\ next' = next /\ cursor[d] \in Nat /\ seen[d] \in Nat
  BY EventsAssumption DEF StreamTypeOK, DeliveryTypeOK, Forward
<1>1. CASE c # d
  BY <1>1, Untouched DEF Forward, Overflow, EndForwarding, Goto, DeliveryTypeOK
<1>2. CASE c = d
  <2> DEFINE rest == Tail(mailbox[c])
  <2>1. /\ Len(mailbox[c]) \in Nat \ {0} /\ Len(rest) = Len(mailbox[c]) - 1
        /\ rest \in Seq(Nat) /\ event \in Nat /\ event = mailbox[c][1]
        /\ \A i \in 1 .. Len(mailbox[c]) - 1 : rest[i] = mailbox[c][i + 1]
    BY <1>2, TailFacts DEF Forward, DeliveryTypeOK
  <2>a. /\ Len(mailbox[c]) \in Nat /\ Len(rest) = Len(mailbox[c]) - 1
        /\ cursor[c] \in Nat /\ event \in Nat /\ Len(mailbox[c]) >= 1
    BY <1>n, <1>2, <2>1
  <2>2. event = next - Len(mailbox[c]) + 1
    BY <2>1 DEF ClientOK, MailboxOK, EndsWith
  <2>3. ASSUME NEW i \in 1 .. Len(rest) PROVE rest[i] = next - Len(rest) + i
    <3>1. i \in 1 .. Len(mailbox[c]) - 1 /\ i + 1 \in 1 .. Len(mailbox[c])
      BY <2>1
    <3>2. mailbox[c][i + 1] = next - Len(mailbox[c]) + (i + 1)
      BY <3>1 DEF ClientOK, MailboxOK, EndsWith
    <3>3. QED
      <4> HIDE DEF rest
      <4>a. i \in Int /\ Len(rest) \in Int
        BY <2>a
      <4>1. next - Len(mailbox[c]) + (i + 1) = next - Len(rest) + i
        BY <1>n, <2>a, <4>a, Shift
      <4>2. QED
        BY <2>1, <3>1, <3>2, <4>1
  <2>4. pc[c] = "live" /\ next - Len(mailbox[c]) <= cursor[c] /\ cursor[c] <= next
    BY <1>2 DEF Forward, ClientOK, PendingOK, Sending
  <2>5. CASE event <= cursor[c]
    <3>1. /\ mailbox'[c] = rest /\ pc' = pc /\ cursor' = cursor /\ channel' = channel
          /\ replay' = replay /\ seen' = seen
      BY <1>n, <1>2, <2>5 DEF Forward, DeliveryTypeOK
    <3>2. next - Len(rest) <= cursor[c]
      <4> HIDE DEF rest, event
      <4>1. event <= cursor[c]
        BY <1>2, <2>5
      <4>2. Len(rest) \in Int
        BY <2>a
      <4>3. QED
        BY <1>n, <2>a, <2>2, <4>1, <4>2, RestBound
    <3> HIDE DEF rest, event
    <3>3. MailboxOK(c)'
      BY <1>n, <2>3, <2>4, <3>1 DEF MailboxOK, EndsWith, Listening
    <3>4. PendingOK(c)'
      BY <1>n, <2>4, <3>1, <3>2 DEF ClientOK, PendingOK, EndsWith
    <3>5. QED
      BY <1>n, <2>4, <3>1, <3>3, <3>4 DEF ClientOK
  <2>6. CASE event > cursor[c] /\ ~Full(c)
    <3> DEFINE longer == Append(channel[c], event)
    <3>1. /\ mailbox'[c] = rest /\ pc' = pc /\ cursor'[c] = event /\ channel'[c] = longer
          /\ replay' = replay /\ seen' = seen
      BY <1>n, <1>2, <2>6 DEF Forward, DeliveryTypeOK
    <3>2. event = cursor[c] + 1 /\ event <= next /\ next - Len(rest) <= event
      <4> HIDE DEF rest, event, longer
      <4>1. cursor[c] \in Int /\ event \in Int /\ Len(mailbox[c]) \in Int /\ next \in Int
        BY <1>n, <2>a
      <4>2. Len(rest) \in Int /\ Len(rest) = Len(mailbox[c]) - 1 /\ 1 <= Len(mailbox[c])
        BY <2>a
      <4>3. event = next - Len(mailbox[c]) + 1 /\ next - Len(mailbox[c]) <= cursor[c]
        BY <2>2, <2>4
      <4>4. cursor[c] + 1 <= event
        <5>1. event > cursor[c]
          BY <1>2, <2>6
        <5>2. QED
          BY <4>1, <5>1
      <4>5. event = cursor[c] + 1
        <5>1. next - Len(mailbox[c]) \in Int
          BY <4>1
        <5>2. QED
          BY <4>1, <4>3, <4>4, <5>1, NextEvent
      <4>6. event <= next /\ next - Len(rest) <= event
        BY <4>1, <4>2, <4>3
      <4>7. QED
        BY <4>5, <4>6
    <3>3. /\ Len(channel[c]) \in Nat /\ Len(longer) = Len(channel[c]) + 1
          /\ \A i \in 1 .. Len(channel[c]) : longer[i] = channel[c][i]
          /\ longer[Len(channel[c]) + 1] = event
      BY <2>1, AppendFacts DEF DeliveryTypeOK
    <3>4. Len(replay[c]) \in Nat
      BY EmptyFacts DEF DeliveryTypeOK
    <3>5. /\ EndsWith(channel[c], cursor[c])
          /\ EndsWith(replay[c], cursor[c] - Len(channel[c]))
          /\ Len(channel[c]) + Len(replay[c]) <= cursor[c]
          /\ \/ seen[c] = cursor[c] - Len(channel[c]) - Len(replay[c])
             \/ seen[c] = 0 /\ replay[c] # <<>>
      BY <2>4 DEF ClientOK, PendingOK, Sending
    <3> HIDE DEF rest, event, longer
    <3>6. event - Len(longer) = cursor[c] - Len(channel[c])
      BY <1>n, <1>2, <3>2, <3>3
    <3>7. EndsWith(longer, event)
      <4>1. SUFFICES ASSUME NEW i \in 1 .. Len(longer)
                     PROVE  longer[i] = event - Len(longer) + i
        BY DEF EndsWith
      <4>2. CASE i = Len(channel[c]) + 1
        BY <1>n, <1>2, <2>1, <3>2, <3>3, <4>2
      <4>3. CASE i \in 1 .. Len(channel[c])
        <5>1. longer[i] = cursor[c] - Len(channel[c]) + i
          BY <3>3, <3>5, <4>3 DEF EndsWith
        <5>2. QED
          BY <3>6, <5>1
      <4>4. QED
        BY <3>3, <4>1, <4>2, <4>3
    <3>8. MailboxOK(c)'
      BY <1>n, <2>3, <2>4, <3>1 DEF MailboxOK, EndsWith, Listening
    <3>9. Len(longer) + Len(replay[c]) <= event
      <4>1. Len(longer) = Len(channel[c]) + 1 /\ Len(channel[c]) \in Nat
        BY <3>3
      <4>2. Len(channel[c]) + Len(replay[c]) <= cursor[c] /\ event = cursor[c] + 1
        BY <3>2, <3>5
      <4>3. /\ Len(channel[c]) \in Int /\ Len(replay[c]) \in Int /\ cursor[c] \in Int
            /\ Len(longer) \in Int /\ event \in Int
        BY <2>a, <3>4, <4>1
      <4>4. QED
        BY <2>a, <3>4, <4>1, <4>2, <4>3, OneMore
    <3>10. PendingOK(c)'
      BY <1>n, <2>4, <3>1, <3>2, <3>5, <3>6, <3>7, <3>9 DEF PendingOK, EndsWith, Sending
    <3>11. QED
      BY <1>n, <2>4, <3>1, <3>8, <3>10 DEF ClientOK
  <2>7. CASE event > cursor[c] /\ Full(c)
    <3>1. pc[d] = "live" /\ EndForwarding(d) /\ UNCHANGED <<next, replay, seen>>
      BY <1>n, <1>2, <2>1, <2>7 DEF Forward, Overflow
    <3>2. QED
      BY <3>1, EndContiguous
  <2>8. QED
    BY <1>n, <1>2, <2>1, <2>5, <2>6, <2>7
<1>3. QED
  BY <1>1, <1>2

(* The head of a sequence that ends with last, and what its tail ends with. *)
LEMMA EndsWithTail ==
  ASSUME NEW s \in Seq(Nat), s # <<>>, NEW last \in Nat, EndsWith(s, last)
  PROVE  /\ Head(s) = last - Len(Tail(s)) /\ Head(s) \in Nat
         /\ Len(s) \in Nat /\ Len(Tail(s)) \in Nat /\ Len(s) = Len(Tail(s)) + 1
         /\ Tail(s) \in Seq(Nat) /\ EndsWith(Tail(s), last)
<1>1. /\ Len(s) \in Nat \ {0} /\ Len(Tail(s)) = Len(s) - 1 /\ Tail(s) \in Seq(Nat)
      /\ Head(s) \in Nat /\ Head(s) = s[1]
      /\ \A i \in 1 .. Len(s) - 1 : Tail(s)[i] = s[i + 1]
  BY TailFacts
<1>2. Len(s) \in Nat /\ Len(Tail(s)) \in Nat /\ Len(s) = Len(Tail(s)) + 1
  BY <1>1
<1>3. s[1] = last - Len(s) + 1
  BY <1>1 DEF EndsWith
<1>4. Head(s) = last - Len(Tail(s))
  <2>1. last - Len(s) + 1 = last - Len(Tail(s))
    BY <1>2
  <2>2. QED
    BY <1>1, <1>3, <2>1
<1>5. ASSUME NEW i \in 1 .. Len(Tail(s))
      PROVE  Tail(s)[i] = last - Len(Tail(s)) + i
  <2>1. i \in Nat /\ i \in 1 .. Len(s) - 1 /\ i + 1 \in 1 .. Len(s)
    BY <1>2
  <2>2. Tail(s)[i] = last - Len(s) + (i + 1)
    BY <1>1, <2>1 DEF EndsWith
  <2>3. last - Len(s) + (i + 1) = last - Len(Tail(s)) + i
    BY <1>2, <2>1
  <2>4. QED
    BY <2>2, <2>3
<1>6. QED
  BY <1>1, <1>2, <1>4, <1>5 DEF EndsWith

LEMMA DeliverContiguous ==
  ASSUME StreamTypeOK, DeliveryTypeOK, NEW d \in Clients, Deliver(d),
         NEW c \in Clients, ClientOK(c)
  PROVE  ClientOK(c)'
<1>1. CASE c # d
  BY <1>1, Untouched DEF Deliver, streamVars, DeliveryTypeOK
<1>2. CASE c = d
  <2>1. /\ next \in Nat /\ cursor[c] \in Nat /\ seen[c] \in Nat
        /\ replay[c] \in Seq(Nat) /\ channel[c] \in Seq(Nat)
        /\ Len(replay[c]) \in Nat /\ Len(channel[c]) \in Nat
    BY EventsAssumption, EmptyFacts DEF StreamTypeOK, DeliveryTypeOK
  <2>2. /\ next' = next /\ pc' = pc /\ mailbox' = mailbox /\ cursor' = cursor
    BY <1>2 DEF Deliver, streamVars
  <2>3. /\ pc[c] \in Sending /\ pc[c] # "sized" /\ cursor[c] <= next
        /\ EndsWith(channel[c], cursor[c])
        /\ EndsWith(replay[c], cursor[c] - Len(channel[c]))
        /\ Len(channel[c]) + Len(replay[c]) <= cursor[c]
        /\ \/ seen[c] = cursor[c] - Len(channel[c]) - Len(replay[c])
           \/ seen[c] = 0 /\ replay[c] # <<>>
        /\ pc[c] = "live" => next - Len(mailbox[c]) <= cursor[c]
    BY <1>2 DEF Deliver, ClientOK, PendingOK, Sending
  <2>4. MailboxOK(c)'
    BY <2>2 DEF ClientOK, MailboxOK, EndsWith
  <2>5. CASE replay[c] # <<>>
    <3> DEFINE rest == Tail(replay[c])
    <3>1. seen'[c] = Head(replay[c]) /\ replay'[c] = rest /\ channel' = channel
      BY <1>2, <2>5 DEF Deliver, DeliveryTypeOK
    <3>2. cursor[c] - Len(channel[c]) \in Nat
      <4>1. Len(channel[c]) + Len(replay[c]) <= cursor[c]
        BY <2>3
      <4>2. \A a, b, k \in Nat : a + b <= k => k - a \in Nat
        OBVIOUS
      <4>3. QED
        BY <2>1, <4>1, <4>2
    <3>3. /\ Head(replay[c]) = cursor[c] - Len(channel[c]) - Len(rest)
          /\ Len(rest) \in Nat /\ Len(replay[c]) = Len(rest) + 1
          /\ EndsWith(rest, cursor[c] - Len(channel[c])) /\ Head(replay[c]) \in Nat
      BY <2>1, <2>3, <2>5, <3>2, EndsWithTail
    <3> HIDE DEF rest
    <3>4. Len(channel[c]) + Len(rest) <= cursor[c]
      BY <2>1, <2>3, <3>3
    <3>5. cursor[c] - Len(channel[c]) - Len(rest) <= next
      BY <2>1, <2>3, <3>3
    <3>6. PendingOK(c)'
      BY <2>2, <2>3, <3>1, <3>3, <3>4 DEF PendingOK, EndsWith
    <3>7. QED
      BY <2>2, <2>3, <2>4, <3>1, <3>3, <3>5, <3>6 DEF ClientOK
  <2>6. CASE replay[c] = <<>>
    <3> DEFINE rest == Tail(channel[c])
    <3>1. /\ channel[c] # <<>> /\ seen'[c] = Head(channel[c]) /\ channel'[c] = rest
          /\ replay' = replay
      BY <1>2, <2>6 DEF Deliver, DeliveryTypeOK
    <3>2. /\ Head(channel[c]) = cursor[c] - Len(rest)
          /\ Len(rest) \in Nat /\ Len(channel[c]) = Len(rest) + 1
          /\ EndsWith(rest, cursor[c]) /\ Head(channel[c]) \in Nat
      BY <2>1, <2>3, <3>1, EndsWithTail
    <3> HIDE DEF rest
    <3>3. Len(replay[c]) = 0
      BY <2>6, EmptyFacts
    <3>4. /\ Len(rest) + Len(replay[c]) <= cursor[c]
          /\ Head(channel[c]) = cursor[c] - Len(rest) - Len(replay[c])
          /\ Head(channel[c]) <= next
      BY <2>1, <2>3, <3>2, <3>3
    <3>5. EndsWith(replay[c], cursor[c] - Len(rest))
      BY <3>3 DEF EndsWith
    <3>6. PendingOK(c)'
      BY <2>2, <2>3, <3>1, <3>2, <3>4, <3>5 DEF PendingOK, EndsWith
    <3>7. QED
      BY <2>2, <2>3, <2>4, <3>1, <3>4, <3>6 DEF ClientOK
  <2>7. QED
    BY <2>5, <2>6
<1>3. QED
  BY <1>1, <1>2

(* Every step keeps the sequences of every client in one run.               *)
LEMMA ContiguousStep ==
  ASSUME Lossless, ETypeOK, [Next]_vars, NEW c \in Clients, ClientOK(c)
  PROVE  ClientOK(c)'
<1>a. StreamTypeOK /\ DeliveryTypeOK
  BY DEF ETypeOK
<1>1. CASE Publish
  BY <1>1, <1>a, PublishContiguous
<1>2. ~DeleteSession
  BY DEF DeleteSession, Fault, Lossless
<1>3. CASE StopDecr \/ StopDel \/ ExpireCounter \/ UNCHANGED vars
  <2>1. UNCHANGED <<next, pc, mailbox, cursor, replay, channel, seen>>
    BY <1>3 DEF StopDecr, StopDel, ExpireCounter, vars, deliveryVars
  <2>2. QED
    BY <2>1, Untouched
<1>4. ASSUME NEW d \in Clients, Step(d) PROVE ClientOK(c)'
  <2>1. CASE FallBehind(d)
    BY <1>a, <2>1, Forgotten DEF FallBehind, streamVars
  <2>2. QED
    BY <1>4, <1>a, <2>1, SetUpContiguous, ReadContiguous, ForwardContiguous,
       DeliverContiguous DEF Step
<1>5. ASSUME NEW d \in Clients, HeartbeatFails(d) \/ Cut(d) \/ Close(d) \/ Crash(d)
      PROVE  ClientOK(c)'
  <2>1. CASE HeartbeatFails(d)
    BY <1>a, <2>1, EndContiguous DEF HeartbeatFails
  <2>2. CASE Cut(d) \/ Close(d) \/ Crash(d)
    BY <1>a, <2>2, Forgotten DEF Cut, Close, Crash, streamVars
  <2>3. QED
    BY <1>5, <2>1, <2>2
<1>6. QED
  BY <1>1, <1>2, <1>3, <1>4, <1>5 DEF Next

(* Replay, channel and mailbox of every subscription always fit together.   *)
THEOREM Contiguous == Lossless /\ Spec => []DeliveryContiguous
<1> SUFFICES ASSUME Lossless PROVE Spec => []DeliveryContiguous
  OBVIOUS
<1> DEFINE IInv == ETypeOK /\ \A c \in Clients : ClientOK(c)
<1>1. Init => IInv
  <2> SUFFICES ASSUME Init PROVE IInv
    OBVIOUS
  <2>1. ETypeOK
    BY EventsAssumption, EmptyFacts
    DEF Init, ETypeOK, StreamTypeOK, DeliveryTypeOK, Listening
  <2>2. ASSUME NEW c \in Clients PROVE ClientOK(c)
    BY EmptyFacts DEF Init, ClientOK, MailboxOK, PendingOK, EndsWith, Listening, Sending
  <2>3. QED
    BY <2>1, <2>2
<1>2. IInv /\ [Next]_vars => IInv'
  <2> SUFFICES ASSUME IInv, [Next]_vars PROVE IInv'
    OBVIOUS
  <2>1. ETypeOK'
    BY StreamTypeStep, DeliveryTypeStep, CapacityStep DEF ETypeOK
  <2>2. ASSUME NEW c \in Clients PROVE ClientOK(c)'
    BY ContiguousStep
  <2>3. QED
    BY <2>1, <2>2
<1>3. IInv => DeliveryContiguous
  BY DEF ClientOK, DeliveryContiguous
<1>4. QED
  BY <1>1, <1>2, <1>3, PTL DEF Spec

-----------------------------------------------------------------------------
(* The promise *)

\* What is due at one client.
DueAt(c) == IF pc[c] \notin Sending THEN 0
            ELSE IF replay[c] # <<>> THEN Head(replay[c]) ELSE seen[c] + 1

LEMMA DueFacts == Due = [c \in Clients |-> DueAt(c)]
  BY DEF Due, DueAt

LEMMA DueUnchanged ==
  ASSUME \A c \in Clients :
           /\ pc'[c] \in Sending <=> pc[c] \in Sending
           /\ pc[c] \in Sending => replay'[c] = replay[c] /\ seen'[c] = seen[c]
  PROVE  Due' = Due
<1>1. \A c \in Clients : DueAt(c)' = DueAt(c)
  BY DEF DueAt
<1>2. QED
  BY <1>1 DEF Due, DueAt

\* Only c's own subscription changes what is due at c.
LEMMA DueChanged ==
  ASSUME NEW d \in Clients,
         \A c \in Clients \ {d} :
           pc'[c] = pc[c] /\ replay'[c] = replay[c] /\ seen'[c] = seen[c]
  PROVE  Due' = [Due EXCEPT ![d] = DueAt(d)']
<1>1. \A c \in Clients \ {d} : DueAt(c)' = DueAt(c)
  BY DEF DueAt
<1>2. Due' = [c \in Clients |-> DueAt(c)'] /\ Due = [c \in Clients |-> DueAt(c)]
  BY DEF Due, DueAt
<1>3. QED
  BY <1>1, <1>2

\* What is due, from a replay, the last event applied.
DueOf(r, s) == IF r # <<>> THEN Head(r) ELSE s + 1

(* What is due is a sequence of the stream, and after the first event it is *)
(* the successor of the one applied last.                                   *)
LEMMA DueIsNext ==
  ASSUME NEW r \in Seq(Nat), NEW k \in Nat, NEW u \in Nat, NEW s \in Nat,
         EndsWith(r, u - k), k + Len(r) <= u,
         s = u - k - Len(r) \/ (s = 0 /\ r # <<>>)
  PROVE  DueOf(r, s) \in Nat \ {0} /\ (s # 0 => DueOf(r, s) = s + 1)
<1>1. CASE r = <<>>
  BY <1>1 DEF DueOf
<1>2. CASE r # <<>>
  <2>1. Len(r) \in Nat
    BY EmptyFacts
  <2>2. u - k \in Nat
    <3>1. \A a, b, c \in Nat : a + b <= c => c - a \in Nat
      OBVIOUS
    <3>2. QED
      BY <2>1, <3>1
  <2>3. DueOf(r, s) = u - k - Len(Tail(r)) /\ Len(Tail(r)) \in Nat /\ Len(r) = Len(Tail(r)) + 1
    BY <1>2, <2>2, EndsWithTail DEF DueOf
  <2>4. \A a, b, e, c \in Nat : b = e + 1 /\ a + b <= c =>
          c - a - e \in Nat \ {0} /\ c - a - e = (c - a - b) + 1
    OBVIOUS
  <2>5. /\ u - k - Len(Tail(r)) \in Nat \ {0}
        /\ u - k - Len(Tail(r)) = (u - k - Len(r)) + 1
    BY <2>1, <2>3, <2>4
  <2>6. QED
    BY <2>3, <2>5
<1>3. QED
  BY <1>1, <1>2

(* So at every client with a subscription.                                  *)
LEMMA DueAtNext ==
  ASSUME ETypeOK, NEW c \in Clients, ClientOK(c), pc[c] \in Sending
  PROVE  /\ DueAt(c) = DueOf(replay[c], seen[c]) /\ DueAt(c) \in Nat \ {0}
         /\ seen[c] # 0 => DueAt(c) = seen[c] + 1
<1>1. /\ cursor[c] \in Nat /\ seen[c] \in Nat
      /\ replay[c] \in Seq(Nat) /\ Len(channel[c]) \in Nat
  BY EmptyFacts DEF ETypeOK, DeliveryTypeOK
<1>2. /\ EndsWith(replay[c], cursor[c] - Len(channel[c]))
      /\ Len(channel[c]) + Len(replay[c]) <= cursor[c]
      /\ \/ seen[c] = cursor[c] - Len(channel[c]) - Len(replay[c])
         \/ seen[c] = 0 /\ replay[c] # <<>>
  BY DEF ClientOK, PendingOK
<1>3. DueAt(c) = DueOf(replay[c], seen[c])
  BY DEF DueAt, DueOf
<1>4. /\ DueOf(replay[c], seen[c]) \in Nat \ {0}
      /\ seen[c] # 0 => DueOf(replay[c], seen[c]) = seen[c] + 1
  BY <1>1, <1>2, DueIsNext
<1>5. QED
  BY <1>3, <1>4

LEMMA DueAtNextPrime ==
  ASSUME ETypeOK', NEW c \in Clients, ClientOK(c)', pc'[c] \in Sending, seen'[c] # 0
  PROVE  DueAt(c)' = seen'[c] + 1
<1>1. /\ cursor'[c] \in Nat /\ seen'[c] \in Nat
      /\ replay'[c] \in Seq(Nat) /\ Len(channel'[c]) \in Nat
  BY EmptyFacts DEF ETypeOK, DeliveryTypeOK
<1>2. /\ EndsWith(replay'[c], cursor'[c] - Len(channel'[c]))
      /\ Len(channel'[c]) + Len(replay'[c]) <= cursor'[c]
      /\ \/ seen'[c] = cursor'[c] - Len(channel'[c]) - Len(replay'[c])
         \/ seen'[c] = 0 /\ replay'[c] # <<>>
  BY DEF ClientOK, PendingOK, EndsWith
<1>3. DueAt(c)' = DueOf(replay'[c], seen'[c])
  BY DEF DueAt, DueOf
<1>4. seen'[c] # 0 => DueOf(replay'[c], seen'[c]) = seen'[c] + 1
  BY <1>1, <1>2, DueIsNext
<1>5. QED
  BY <1>3, <1>4

(* A client that applies an event applies the one that is due, and its       *)
(* successor becomes due.                                                    *)
LEMMA DeliverDue ==
  ASSUME ETypeOK, ETypeOK', NEW c \in Clients, Deliver(c), ClientOK(c), ClientOK(c)'
  PROVE  /\ seen' = [seen EXCEPT ![c] = DueAt(c)] /\ DueAt(c)' = DueAt(c) + 1
         /\ DueAt(c) \in Nat \ {0} /\ DueAt(c) <= next
<1>1. /\ pc[c] \in Sending /\ pc' = pc /\ seen \in [Clients -> Nat]
      /\ replay \in [Clients -> Seq(Nat)] /\ channel \in [Clients -> Seq(Nat)]
      /\ cursor[c] \in Nat
  BY DEF Deliver, ETypeOK, DeliveryTypeOK
<1>2. DueAt(c) \in Nat \ {0}
  BY <1>1, DueAtNext
<1>3. seen'[c] = DueAt(c)
  <2>1. CASE replay[c] # <<>>
    BY <1>1, <2>1 DEF Deliver, DueAt
  <2>2. CASE replay[c] = <<>>
    <3>1. channel[c] # <<>> /\ seen'[c] = Head(channel[c])
      BY <1>1, <2>2 DEF Deliver
    <3>2. EndsWith(channel[c], cursor[c]) /\ seen[c] = cursor[c] - Len(channel[c]) - Len(replay[c])
      BY <1>1, <2>2 DEF ClientOK, PendingOK
    <3>3. /\ Head(channel[c]) = cursor[c] - Len(Tail(channel[c]))
          /\ Len(Tail(channel[c])) \in Nat /\ Len(channel[c]) = Len(Tail(channel[c])) + 1
          /\ Len(channel[c]) \in Nat
      BY <1>1, <3>1, <3>2, EndsWithTail
    <3>4. Len(replay[c]) = 0
      BY <2>2, EmptyFacts
    <3>5. seen[c] + 1 = cursor[c] - Len(Tail(channel[c]))
      BY <1>1, <3>2, <3>3, <3>4
    <3>6. DueAt(c) = seen[c] + 1
      BY <1>1, <2>2 DEF DueAt
    <3>7. QED
      BY <3>1, <3>3, <3>5, <3>6
  <2>3. QED
    BY <2>1, <2>2
<1>4. seen' = [seen EXCEPT ![c] = DueAt(c)]
  BY <1>1, <1>3 DEF Deliver
<1>5. DueAt(c)' = seen'[c] + 1
  <2>1. pc'[c] \in Sending /\ seen'[c] # 0
    BY <1>1, <1>2, <1>3
  <2>2. QED
    BY <2>1, DueAtNextPrime
<1>6. seen'[c] <= next
  BY DEF ClientOK, Deliver, streamVars
<1>7. QED
  BY <1>2, <1>3, <1>4, <1>5, <1>6

(* The subscription that has just read its replay starts where it may.      *)
LEMMA ReadDue ==
  ASSUME StreamTypeOK, DeliveryTypeOK, NEW c \in Clients, ReadEvents(c), ~Refuse(c), ClientOK(c)
  PROVE  /\ next > 0 /\ DueAt(c) = 0
         /\ \/ seen[c] = 0 /\ DueAt(c)' = Oldest(next)
            \/ seen[c] # 0 /\ seen[c] + 1 >= Oldest(next) /\ DueAt(c)' = seen[c] + 1
<1>1. /\ next \in Nat /\ next > 0 /\ seen[c] \in Nat /\ seen[c] <= next
      /\ pc[c] = "sized" /\ pc'[c] = "live"
      /\ replay'[c] = ReplayFrom(seen[c]) /\ seen' = seen
  BY EventsAssumption DEF ReadEvents, Goto, ClientOK, StreamTypeOK, DeliveryTypeOK
<1>2. DueAt(c) = 0
  BY <1>1 DEF DueAt, Sending
<1>3. DueAt(c)' = DueOf(ReplayFrom(seen[c]), seen[c])
  BY <1>1 DEF DueAt, DueOf, Sending
<1>4. Oldest(next) \in Nat \ {0} /\ Oldest(next) <= next
  BY <1>1, OldestFacts
<1> DEFINE list == ReplayFrom(seen[c])
<1>5. /\ list \in Seq(Nat) /\ Len(list) \in Nat
      /\ \A i \in 1 .. Len(list) : list[i] = next - Len(list) + i
      /\ seen[c] + 1 >= Oldest(next) => seen[c] = next - Len(list)
      /\ seen[c] = 0 => list # <<>> /\ next - Len(list) + 1 = Oldest(next)
  BY <1>1, ReplayFacts, EmptyFacts
<1> HIDE DEF list
<1>6. list # <<>> => Head(list) = next - Len(list) + 1
  <2>1. SUFFICES ASSUME list # <<>> PROVE Head(list) = next - Len(list) + 1
    OBVIOUS
  <2>2. Head(list) = list[1] /\ Len(list) \in Nat \ {0}
    BY <1>5, <2>1, TailFacts
  <2>3. 1 \in 1 .. Len(list)
    BY <2>2
  <2>4. QED
    BY <1>5, <2>2, <2>3
<1>7. CASE seen[c] = 0
  BY <1>1, <1>2, <1>3, <1>5, <1>6, <1>7 DEF DueOf, list
<1>8. CASE seen[c] # 0
  <2>1. seen[c] + 1 >= Oldest(next)
    BY <1>1, <1>4, <1>8 DEF ReadEvents, TooOld
  <2>2. next - Len(list) + 1 = seen[c] + 1
    BY <1>1, <1>5, <2>1
  <2>3. QED
    BY <1>1, <1>2, <1>3, <1>6, <1>8, <2>1, <2>2 DEF DueOf, list
<1>9. QED
  BY <1>7, <1>8

(* A subscription that ends leaves the stream, or had not joined it.        *)
LEMMA ForgetLeaves ==
  ASSUME ETypeOK, NEW c \in Clients, ClientOK(c), NEW label \in {"off", "gone"},
         Forget(c, label), seen' = seen, next' = next
  PROVE  Promise!Leave(c) \/ UNCHANGED <<next, seen, Due>>
<1>1. /\ pc'[c] = label
      /\ \A d \in Clients \ {c} : /\ pc'[d] = pc[d] /\ replay'[d] = replay[d]
                                  /\ seen'[d] = seen[d]
  BY DEF Forget, Goto, ETypeOK, DeliveryTypeOK
<1>2. DueAt(c)' = 0 /\ Due[c] = DueAt(c)
  BY <1>1 DEF DueAt, Due, Sending
<1>3. CASE pc[c] \in Sending
  <2>1. DueAt(c) # 0
    BY <1>3, DueAtNext
  <2>2. Due' = [Due EXCEPT ![c] = 0]
    <3>1. Due' = [Due EXCEPT ![c] = DueAt(c)']
      BY <1>1, DueChanged
    <3>2. QED
      BY <1>2, <3>1
  <2>3. QED
    BY <1>2, <2>1, <2>2 DEF Promise!Leave
<1>4. CASE pc[c] \notin Sending
  <2>1. pc'[c] \notin Sending
    BY <1>1 DEF Sending
  <2>2. \A d \in Clients : /\ pc'[d] \in Sending <=> pc[d] \in Sending
                           /\ pc[d] \in Sending => replay'[d] = replay[d] /\ seen'[d] = seen[d]
    BY <1>1, <1>4, <2>1
  <2>3. Due' = Due
    BY <2>2, DueUnchanged
  <2>4. QED
    BY <2>3
<1>5. QED
  BY <1>3, <1>4

(* Every step of the adapter is a step of the promise or is invisible.      *)
LEMMA PromiseStep ==
  ASSUME Lossless, ETypeOK, ETypeOK', \A c \in Clients : ClientOK(c),
         \A c \in Clients : ClientOK(c)', [Next]_vars
  PROVE  Promise!SNext \/ UNCHANGED <<next, seen, Due>>
<1>a. StreamTypeOK /\ DeliveryTypeOK
  BY DEF ETypeOK
<1>1. CASE Publish
  <2>1. Due' = Due
    BY <1>1, DueUnchanged DEF Publish
  <2>2. QED
    BY <1>1, <2>1 DEF Publish, Promise!SNext, Promise!Append1
<1>2. ~DeleteSession
  BY DEF DeleteSession, Fault, Lossless
<1>3. CASE StopDecr \/ StopDel \/ ExpireCounter \/ UNCHANGED vars
  <2>1. UNCHANGED <<next, pc, replay, seen>>
    BY <1>3 DEF StopDecr, StopDel, ExpireCounter, vars, deliveryVars
  <2>2. QED
    BY <2>1, DueUnchanged
<1>4. ASSUME NEW c \in Clients, Deliver(c) PROVE Promise!SNext
  <2>1. /\ seen' = [seen EXCEPT ![c] = DueAt(c)] /\ DueAt(c)' = DueAt(c) + 1
        /\ DueAt(c) \in Nat \ {0} /\ DueAt(c) <= next
    BY <1>4, DeliverDue
  <2>2. next' = next /\ pc' = pc
    BY <1>4 DEF Deliver, streamVars
  <2>3. \A d \in Clients \ {c} : replay'[d] = replay[d] /\ seen'[d] = seen[d]
    BY <1>4 DEF Deliver, ETypeOK, DeliveryTypeOK
  <2>4. Due' = [Due EXCEPT ![c] = DueAt(c)'] /\ Due[c] = DueAt(c)
    BY <2>2, <2>3, DueChanged DEF Due, DueAt
  <2>5. Promise!Apply(c)
    BY <2>1, <2>2, <2>4 DEF Promise!Apply
  <2>6. QED
    BY <2>5 DEF Promise!SNext
<1>5. ASSUME NEW c \in Clients, ReadEvents(c)
      PROVE  Promise!SNext \/ UNCHANGED <<next, seen, Due>>
  <2>1. CASE Refuse(c)
    BY <1>5, <2>1, ForgetLeaves DEF ReadEvents, Refuse, Promise!SNext
  <2>2. CASE ~Refuse(c)
    <3>1. /\ next > 0 /\ DueAt(c) = 0
          /\ \/ seen[c] = 0 /\ DueAt(c)' = Oldest(next)
             \/ seen[c] # 0 /\ seen[c] + 1 >= Oldest(next) /\ DueAt(c)' = seen[c] + 1
      BY <1>5, <1>a, <2>2, ReadDue
    <3>2. /\ next' = next /\ seen' = seen
          /\ \A d \in Clients \ {c} : pc'[d] = pc[d] /\ replay'[d] = replay[d]
      BY <1>5, <2>2 DEF ReadEvents, Goto, ETypeOK, DeliveryTypeOK
    <3>3. Due' = [Due EXCEPT ![c] = DueAt(c)'] /\ Due[c] = DueAt(c)
      BY <3>2, DueChanged DEF Due, DueAt
    <3>4. Promise!Oldest(next) = Oldest(next)
      BY DEF Promise!Oldest, Oldest
    <3>5. Promise!Join(c)
      BY <3>1, <3>2, <3>3, <3>4 DEF Promise!Join
    <3>6. QED
      BY <3>5 DEF Promise!SNext
  <2>3. QED
    BY <2>1, <2>2
<1>6. ASSUME NEW c \in Clients, Listen(c) \/ Register(c) \/ Lease(c) \/ ReadCursor(c)
      PROVE  Promise!SNext \/ UNCHANGED <<next, seen, Due>>
  <2>1. CASE ReadCursor(c) /\ Refuse(c)
    BY <1>6, <2>1, ForgetLeaves DEF ReadCursor, Refuse, Promise!SNext
  <2>2. CASE /\ pc[c] \notin Sending
             /\ \E label \in {"off", "listening", "counted", "leased", "sized"} : Goto(c, label)
             /\ UNCHANGED <<next, replay, seen>>
    <3>1. \A d \in Clients : pc'[d] \in Sending <=> pc[d] \in Sending
      BY <2>2 DEF Goto, Sending, ETypeOK, DeliveryTypeOK
    <3>2. QED
      BY <2>2, <3>1, DueUnchanged
  <2>3. QED
    BY <1>6, <2>1, <2>2
    DEF Listen, Register, Lease, ReadCursor, streamVars, deliveryVars, Sending
<1>7. ASSUME NEW c \in Clients, Forward(c) \/ HeartbeatFails(c)
      PROVE  UNCHANGED <<next, seen, Due>>
  <2>1. /\ pc[c] = "live" /\ (pc' = pc \/ pc' = [pc EXCEPT ![c] = "ended"])
        /\ UNCHANGED <<next, replay, seen>>
    BY <1>7 DEF Forward, HeartbeatFails, Overflow, EndForwarding, Goto
  <2>2. \A d \in Clients : pc'[d] \in Sending <=> pc[d] \in Sending
    BY <2>1 DEF Sending, ETypeOK, DeliveryTypeOK
  <2>3. QED
    BY <2>1, <2>2, DueUnchanged
<1>8. ASSUME NEW c \in Clients, FallBehind(c) \/ Cut(c) \/ Close(c) \/ Crash(c)
      PROVE  Promise!SNext \/ UNCHANGED <<next, seen, Due>>
  BY <1>8, ForgetLeaves DEF FallBehind, Cut, Close, Crash, streamVars, Promise!SNext
<1>9. QED
  BY <1>1, <1>2, <1>3, <1>4, <1>5, <1>6, <1>7, <1>8 DEF Next, Step

\* Everything known of a state, for one step.
EventInv == ETypeOK /\ \A c \in Clients : ClientOK(c)

LEMMA EventInvCorrect == ASSUME Lossless PROVE Spec => []EventInv
  BY EventTypes, Contiguous, PTL DEF EventInv, DeliveryContiguous, ClientOK

(* Joining the channel before the list is read, dropping what the replay    *)
(* holds and coming back with the last sequence give every client the       *)
(* stream as EventStream promises it, unless pub/sub loses a message.       *)
THEOREM StreamPromiseKept == Lossless /\ Spec => ImplementsEventStream
<1> SUFFICES ASSUME Lossless PROVE Spec => ImplementsEventStream
  OBVIOUS
<1>1. Init => Promise!SInit
  BY DEF Init, Promise!SInit, Due, Sending
<1>2. EventInv /\ EventInv' /\ [Next]_vars => [Promise!SNext]_(Promise!svars)
  BY PromiseStep DEF EventInv, Promise!svars
<1>3. QED
  BY <1>1, <1>2, EventInvCorrect, PTL DEF Spec, ImplementsEventStream, Promise!SSpec

(* No client ever applies anything but the successor of its last event.     *)
THEOREM NothingSkipped == Lossless /\ Spec => NoGap
<1> SUFFICES ASSUME Lossless PROVE Spec => NoGap
  OBVIOUS
<1>1. ASSUME EventInv, [Next]_vars, NEW c \in Clients, seen'[c] # seen[c], seen[c] # 0
      PROVE  seen'[c] = seen[c] + 1
  <2>1. PICK d \in Clients : Deliver(d)
    BY <1>1
    DEF Next, Step, vars, Publish, DeleteSession, StopDecr, StopDel, ExpireCounter, Listen,
        Register, Lease, ReadCursor, ReadEvents, Forward, FallBehind, HeartbeatFails, Cut, Close,
        Crash
  <2>2. d = c
    BY <1>1, <2>1 DEF Deliver, EventInv, ETypeOK, DeliveryTypeOK
  <2>3. ETypeOK' /\ ClientOK(c)'
    BY <1>1, StreamTypeStep, DeliveryTypeStep, CapacityStep, ContiguousStep DEF EventInv, ETypeOK
  <2>4. seen'[c] = DueAt(c) /\ pc[c] \in Sending
    BY <1>1, <2>1, <2>2, <2>3, DeliverDue
    DEF EventInv, ETypeOK, DeliveryTypeOK, Deliver
  <2>5. QED
    BY <1>1, <2>4, DueAtNext DEF EventInv
<1>2. EventInv /\ [Next]_vars =>
        [\A c \in Clients : seen'[c] # seen[c] /\ seen[c] # 0 => seen'[c] = seen[c] + 1]_vars
  BY <1>1
<1>3. QED
  BY <1>2, EventInvCorrect, PTL DEF Spec, NoGap
=============================================================================
