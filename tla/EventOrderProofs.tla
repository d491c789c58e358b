-------------------------- MODULE EventOrderProofs --------------------------
(* What holds of the event stream of RedisEvents without any premise: when  *)
(* messages are lost, or the stream is deleted and starts again at 1.       *)
EXTENDS RedisEventsProofs

Rising(s) == \A i, j \in 1 .. Len(s) : i < j => s[i] < s[j]
Between(s, low, high) == \A i \in 1 .. Len(s) : low < s[i] /\ s[i] <= high
Below(s, u) == \A i \in 1 .. Len(s), j \in 1 .. Len(u) : s[i] < u[j]

(* What the handler holds for c rises from the client's cursor to the       *)
(* goroutine's, the replay before the channel.                              *)
AheadOK(c) ==
  /\ pc[c] \notin Sending => replay[c] = <<>> /\ channel[c] = <<>>
  /\ pc[c] \in Sending =>
       /\ Rising(replay[c]) /\ Rising(channel[c])
       /\ Between(replay[c], seen[c], cursor[c]) /\ Between(channel[c], seen[c], cursor[c])
       /\ Below(replay[c], channel[c]) /\ seen[c] <= cursor[c]

(* Every step that leaves a client's side of the delivery alone, or forgets *)
(* it.                                                                      *)
LEMMA AheadAlone ==
  ASSUME NEW c \in Clients, AheadOK(c), seen'[c] = seen[c], cursor'[c] = cursor[c],
         replay'[c] = replay[c], channel'[c] = channel[c],
         pc'[c] \in Sending <=> pc[c] \in Sending
  PROVE  AheadOK(c)'
  BY DEF AheadOK, Rising, Between, Below, Sending

LEMMA AheadForgotten ==
  ASSUME DeliveryTypeOK, NEW d \in Clients, NEW label \in {"off", "gone"},
         Forget(d, label), seen' = seen, NEW c \in Clients, AheadOK(c)
  PROVE  AheadOK(c)'
<1>1. CASE c = d
  BY <1>1 DEF AheadOK, Forget, Goto, DeliveryTypeOK, Sending
<1>2. CASE c # d
  BY <1>2, AheadAlone DEF Forget, Goto, DeliveryTypeOK
<1>3. QED
  BY <1>1, <1>2

(* The replay begins after the client's cursor and ends before the          *)
(* goroutine's, also when the stream is shorter than the cursor.            *)
LEMMA ReplayAhead ==
  ASSUME NEW c \in Clients, DeliveryTypeOK, next \in Nat
  PROVE  /\ Rising(ReplayFrom(seen[c]))
         /\ Between(ReplayFrom(seen[c]), seen[c], LastRead(c))
<1> DEFINE s == seen[c]
           first == IF s + 1 > Oldest(next) THEN s + 1 ELSE Oldest(next)
           n == next - first + 1
<1>0. s \in Nat /\ Oldest(next) \in Nat
  BY OldestFacts DEF DeliveryTypeOK
<1>1. s \in Nat /\ first \in Nat /\ first >= s + 1 /\ n \in Int
  BY <1>0
<1>2. ReplayFrom(s) = [i \in 1 .. n |-> first + i - 1]
  BY DEF ReplayFrom
<1>3. \A i \in 1 .. n : first + i - 1 > s /\ first + i - 1 <= next
  BY <1>1
<1>4. LastRead(c) \in Nat /\ LastRead(c) >= next
  BY <1>1 DEF LastRead
<1>5. ReplayFrom(s) \in Seq(Nat)
  BY <1>1, ReplayTyped
<1> HIDE DEF s, first, n
<1>6. 1 .. Len(ReplayFrom(s)) = 1 .. n
  <2>1. DOMAIN ReplayFrom(s) = 1 .. n
    BY <1>2
  <2>2. DOMAIN ReplayFrom(s) = 1 .. Len(ReplayFrom(s))
    BY <1>5, LenProperties
  <2>3. QED
    BY <2>1, <2>2
<1>7. \A i \in 1 .. n : ReplayFrom(s)[i] = first + i - 1
  BY <1>2
<1>8. Rising(ReplayFrom(s))
  BY <1>1, <1>6, <1>7 DEF Rising
<1>9. Between(ReplayFrom(s), s, LastRead(c))
  BY <1>1, <1>3, <1>4, <1>6, <1>7 DEF Between
<1>10. QED
  BY <1>8, <1>9 DEF s

LEMMA ReadAhead ==
  ASSUME DeliveryTypeOK, next \in Nat, NEW d \in Clients, ReadEvents(d),
         NEW c \in Clients, AheadOK(c)
  PROVE  AheadOK(c)'
<1>1. CASE Refuse(d)
  BY <1>1, AheadForgotten DEF ReadEvents, Refuse
<1>2. CASE c # d
  BY <1>2, AheadAlone DEF ReadEvents, Refuse, Forget, Goto, DeliveryTypeOK
<1>3. CASE ~Refuse(d) /\ c = d
  <2>1. /\ pc[c] = "sized" /\ pc'[c] = "live" /\ seen'[c] = seen[c]
        /\ replay'[c] = ReplayFrom(seen[c]) /\ cursor'[c] = LastRead(c)
        /\ channel'[c] = channel[c]
    BY <1>3 DEF ReadEvents, Goto, DeliveryTypeOK
  <2>2. channel'[c] = <<>>
    BY <2>1 DEF AheadOK, Sending
  <2>3. Rising(channel'[c]) /\ Between(channel'[c], seen[c], LastRead(c))
        /\ Below(replay'[c], channel'[c])
    BY <2>2, EmptyFacts DEF Rising, Between, Below
  <2>4. seen[c] <= LastRead(c)
    BY DEF LastRead, DeliveryTypeOK
  <2>5. QED
    BY <2>1, <2>3, <2>4, ReplayAhead DEF AheadOK, Sending
<1>4. QED
  BY <1>1, <1>2, <1>3

LEMMA AppendAhead ==
  ASSUME NEW s \in Seq(Nat), NEW e \in Nat, NEW low \in Nat, NEW high \in Nat,
         Rising(s), Between(s, low, high), low <= high, high < e
  PROVE  Rising(Append(s, e)) /\ Between(Append(s, e), low, e)
<1>1. /\ Len(s) \in Nat /\ Len(Append(s, e)) = Len(s) + 1
      /\ \A i \in 1 .. Len(s) : Append(s, e)[i] = s[i]
      /\ Append(s, e)[Len(s) + 1] = e
  BY AppendFacts
<1>2. \A i \in 1 .. Len(s) : s[i] \in Nat /\ low < s[i] /\ s[i] < e
  BY ElementOfSeq DEF Between
<1>3. Between(Append(s, e), low, e)
  <2>1. ASSUME NEW i \in 1 .. Len(Append(s, e))
        PROVE  low < Append(s, e)[i] /\ Append(s, e)[i] <= e
    <3>1. i \in 1 .. Len(s) \/ i = Len(s) + 1
      BY <1>1
    <3>2. QED
      BY <1>1, <1>2, <3>1
  <2>2. QED
    BY <2>1 DEF Between
<1>4. Rising(Append(s, e))
  <2>1. ASSUME NEW i \in 1 .. Len(Append(s, e)), NEW j \in 1 .. Len(Append(s, e)), i < j
        PROVE  Append(s, e)[i] < Append(s, e)[j]
    <3>1. i \in 1 .. Len(s) /\ (j \in 1 .. Len(s) \/ j = Len(s) + 1)
      BY <1>1, <2>1
    <3>2. QED
      BY <1>1, <1>2, <2>1, <3>1 DEF Rising
  <2>2. QED
    BY <2>1 DEF Rising
<1>5. QED
  BY <1>3, <1>4

(* The goroutine only forwards what is later than its cursor.               *)
LEMMA ForwardAhead ==
  ASSUME DeliveryTypeOK, NEW d \in Clients, Forward(d), NEW c \in Clients, AheadOK(c)
  PROVE  AheadOK(c)'
<1> DEFINE e == Head(mailbox[d])
<1>1. CASE c # d
  BY <1>1, AheadAlone DEF Forward, Overflow, EndForwarding, Goto, DeliveryTypeOK
<1>2. CASE c = d /\ channel' = [channel EXCEPT ![c] = Append(@, e)] /\ e > cursor[c]
                 /\ cursor' = [cursor EXCEPT ![c] = e]
  <2>1. /\ pc[c] = "live" /\ e \in Nat /\ cursor[c] \in Nat /\ seen[c] \in Nat
        /\ replay[c] \in Seq(Nat) /\ channel[c] \in Seq(Nat)
    BY <1>2, TailFacts DEF Forward, DeliveryTypeOK
  <2>2. cursor'[c] = e /\ channel'[c] = Append(channel[c], e) /\ replay' = replay
        /\ seen' = seen
    BY <1>2 DEF Forward, DeliveryTypeOK
  <2>3. pc'[c] \in Sending
    BY <1>2, <2>1 DEF Forward, Overflow, EndForwarding, Goto, Sending, DeliveryTypeOK
  <2>4. /\ Rising(replay[c]) /\ Rising(channel[c]) /\ Below(replay[c], channel[c])
        /\ Between(replay[c], seen[c], cursor[c]) /\ Between(channel[c], seen[c], cursor[c])
        /\ seen[c] <= cursor[c] /\ cursor[c] < e
    BY <1>2, <2>1 DEF AheadOK, Sending
  <2> HIDE DEF e
  <2>5. Rising(channel'[c]) /\ Between(channel'[c], seen[c], e)
    BY <2>1, <2>2, <2>4, AppendAhead
  <2>6. Between(replay[c], seen[c], e)
    BY <2>1, <2>4, ElementOfSeq DEF Between
  <2>7. Below(replay[c], channel'[c])
    <3>1. ASSUME NEW i \in 1 .. Len(replay[c]), NEW j \in 1 .. Len(channel'[c])
          PROVE  replay[c][i] < channel'[c][j]
      <4>1. replay[c][i] \in Nat /\ replay[c][i] < e
        BY <2>1, <2>4, ElementOfSeq DEF Between
      <4>2. \/ j \in 1 .. Len(channel[c]) /\ channel'[c][j] = channel[c][j]
            \/ channel'[c][j] = e
        BY <2>1, <2>2, AppendFacts
      <4>3. QED
        BY <2>4, <4>1, <4>2 DEF Below
    <3>2. QED
      BY <3>1 DEF Below
  <2>8. QED
    BY <2>1, <2>2, <2>3, <2>4, <2>5, <2>6, <2>7 DEF AheadOK
<1>3. CASE c = d /\ UNCHANGED <<channel, cursor>>
  <2>1. pc'[c] \in Sending /\ pc[c] \in Sending /\ UNCHANGED <<replay, seen>>
    BY <1>3 DEF Forward, Overflow, EndForwarding, Goto, Sending, DeliveryTypeOK
  <2>2. QED
    BY <1>3, <2>1, AheadAlone
<1>4. QED
  BY <1>1, <1>2, <1>3 DEF Forward, Overflow, EndForwarding

(* The client takes the least of what is held, and it is after its cursor.  *)
LEMMA TailAhead ==
  ASSUME NEW s \in Seq(Nat), s # <<>>, NEW low \in Nat, NEW high \in Nat,
         Rising(s), Between(s, low, high)
  PROVE  /\ Head(s) > low /\ Head(s) <= high
         /\ Rising(Tail(s)) /\ Between(Tail(s), Head(s), high)
<1>1. /\ Len(s) \in Nat \ {0} /\ Len(Tail(s)) = Len(s) - 1 /\ Head(s) = s[1]
      /\ \A i \in 1 .. Len(s) - 1 : Tail(s)[i] = s[i + 1]
  BY TailFacts
<1>2. \A i \in 1 .. Len(s) : s[i] \in Nat
  BY ElementOfSeq
<1>3. \A i \in 1 .. Len(Tail(s)) : i + 1 \in 1 .. Len(s) /\ 1 < i + 1
  BY <1>1
<1>4. 1 \in 1 .. Len(s)
  BY <1>1
<1>5. Rising(Tail(s))
  BY <1>1, <1>2, <1>3 DEF Rising
<1>6. Between(Tail(s), s[1], high)
  BY <1>1, <1>2, <1>3, <1>4 DEF Rising, Between
<1>7. QED
  BY <1>1, <1>4, <1>5, <1>6 DEF Between

LEMMA DeliverAhead ==
  ASSUME DeliveryTypeOK, NEW d \in Clients, Deliver(d), NEW c \in Clients, AheadOK(c)
  PROVE  AheadOK(c)' /\ (c = d => seen'[c] > seen[c])
<1>1. CASE c # d
  BY <1>1, AheadAlone DEF Deliver, streamVars, DeliveryTypeOK
<1>2. CASE c = d
  <2>1. /\ Rising(replay[c]) /\ Rising(channel[c]) /\ Below(replay[c], channel[c])
        /\ Between(replay[c], seen[c], cursor[c]) /\ Between(channel[c], seen[c], cursor[c])
        /\ pc'[c] \in Sending /\ cursor' = cursor /\ seen[c] <= cursor[c]
    BY <1>2 DEF AheadOK, Deliver, streamVars
  <2>2. /\ seen[c] \in Nat /\ cursor[c] \in Nat
        /\ replay[c] \in Seq(Nat) /\ channel[c] \in Seq(Nat)
    BY DEF DeliveryTypeOK
  <2>3. CASE replay[c] # <<>>
    <3>1. seen'[c] = Head(replay[c]) /\ replay'[c] = Tail(replay[c]) /\ channel' = channel
      BY <1>2, <2>3 DEF Deliver, DeliveryTypeOK
    <3>2. /\ Head(replay[c]) > seen[c] /\ Head(replay[c]) <= cursor[c]
          /\ Rising(Tail(replay[c])) /\ Between(Tail(replay[c]), Head(replay[c]), cursor[c])
      BY <2>1, <2>2, <2>3, TailAhead
    <3>3. /\ Head(replay[c]) = replay[c][1] /\ 1 \in 1 .. Len(replay[c])
          /\ \A i \in 1 .. Len(Tail(replay[c])) :
               i + 1 \in 1 .. Len(replay[c]) /\ Tail(replay[c])[i] = replay[c][i + 1]
      BY <2>2, <2>3, TailFacts
    <3>4. Below(Tail(replay[c]), channel[c])
      BY <2>1, <3>3 DEF Below
    <3>5. Between(channel[c], Head(replay[c]), cursor[c])
      BY <2>1, <3>3 DEF Below, Between
    <3>6. QED
      BY <2>1, <3>1, <3>2, <3>4, <3>5 DEF AheadOK
  <2>4. CASE replay[c] = <<>>
    <3>1. /\ seen'[c] = Head(channel[c]) /\ channel'[c] = Tail(channel[c])
          /\ replay'[c] = <<>> /\ channel[c] # <<>>
      BY <1>2, <2>4 DEF Deliver, DeliveryTypeOK
    <3>2. /\ Head(channel[c]) > seen[c] /\ Head(channel[c]) <= cursor[c]
          /\ Rising(Tail(channel[c])) /\ Between(Tail(channel[c]), Head(channel[c]), cursor[c])
      BY <2>1, <2>2, <3>1, TailAhead
    <3>3. /\ Rising(replay'[c]) /\ Between(replay'[c], Head(channel[c]), cursor[c])
          /\ Below(replay'[c], channel'[c])
      BY <3>1, EmptyFacts DEF Rising, Between, Below
    <3>4. QED
      BY <2>1, <3>1, <3>2, <3>3 DEF AheadOK
  <2>5. QED
    BY <2>3, <2>4
<1>3. QED
  BY <1>1, <1>2

(* No step takes the order away, and only Deliver moves a client's cursor.  *)
LEMMA AheadStep ==
  ASSUME ETypeOK, [Next]_vars, NEW c \in Clients, AheadOK(c)
  PROVE  AheadOK(c)'
<1>a. DeliveryTypeOK /\ next \in Nat
  BY EventsAssumption DEF ETypeOK, StreamTypeOK
<1>1. CASE Publish \/ DeleteSession \/ StopDecr \/ StopDel \/ ExpireCounter \/ UNCHANGED vars
  <2>1. UNCHANGED <<pc, cursor, replay, channel, seen>>
    BY <1>1 DEF Publish, DeleteSession, StopDecr, StopDel, ExpireCounter, vars, deliveryVars
  <2>2. QED
    BY <2>1, AheadAlone
<1>2. ASSUME NEW d \in Clients, Listen(d) \/ Register(d) \/ Lease(d) PROVE AheadOK(c)'
  <2>1. UNCHANGED <<cursor, replay, channel, seen>>
    BY <1>2 DEF Listen, Register, Lease, deliveryVars
  <2>2. pc'[c] \in Sending <=> pc[c] \in Sending
    BY <1>2, <1>a DEF Listen, Register, Lease, Goto, Sending, DeliveryTypeOK
  <2>3. QED
    BY <2>1, <2>2, AheadAlone
<1>3. ASSUME NEW d \in Clients, ReadCursor(d) PROVE AheadOK(c)'
  <2>1. CASE Refuse(d)
    BY <1>a, <1>3, <2>1, AheadForgotten DEF ReadCursor, Refuse
  <2>2. CASE ~Refuse(d)
    BY <1>a, <1>3, <2>2, AheadAlone DEF ReadCursor, deliveryVars, Goto, Sending, DeliveryTypeOK
  <2>3. QED
    BY <2>1, <2>2
<1>4. ASSUME NEW d \in Clients,
             HeartbeatFails(d) \/ FallBehind(d) \/ Cut(d) \/ Close(d) \/ Crash(d)
      PROVE  AheadOK(c)'
  <2>1. CASE HeartbeatFails(d)
    BY <1>a, <2>1, AheadAlone DEF HeartbeatFails, EndForwarding, Goto, Sending, DeliveryTypeOK
  <2>2. CASE FallBehind(d) \/ Cut(d) \/ Close(d) \/ Crash(d)
    BY <1>a, <2>2, AheadForgotten DEF FallBehind, Cut, Close, Crash
  <2>3. QED
    BY <1>4, <2>1, <2>2
<1>5. QED
  BY <1>1, <1>2, <1>3, <1>4, <1>a, ReadAhead, ForwardAhead, DeliverAhead DEF Next, Step

(* No client is taken back, whatever fails: a lost message leaves a gap and *)
(* a stream that starts again leaves the client waiting, but what it        *)
(* applies is always later than what it has applied.                        *)
THEOREM NeverTakenBack == Spec => AppliesForward
<1> DEFINE Ahead == \A c \in Clients : AheadOK(c)
<1>1. Init => Ahead
  BY DEF Init, AheadOK, Sending
<1>2. ETypeOK /\ Ahead /\ [Next]_vars => Ahead'
  BY AheadStep
<1>3. ETypeOK /\ Ahead /\ [Next]_vars =>
        [\A c \in Clients : Deliver(c) => seen'[c] > seen[c]]_vars
  BY DeliverAhead DEF ETypeOK
<1>4. QED
  BY <1>1, <1>2, <1>3, EventTypes, PTL DEF Spec, AppliesForward
=============================================================================
