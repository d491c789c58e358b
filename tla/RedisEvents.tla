---------------------------- MODULE RedisEvents ----------------------------
(***************************************************************************)
(* The event stream of one session in Redis                                *)
(* (internal/adapter/redisstore/events.go), the server stream that reads   *)
(* it (transport/connectapi/platform.go) and the client that keeps         *)
(* resubscribing to it (packages/app/src/rpc-chat/bridge.ts).              *)
(*                                                                         *)
(* A subscription first joins the pub/sub channel, then counts itself,     *)
(* then reads the cursor and the retained list; a goroutine forwards what  *)
(* arrives on the channel into a bounded Go channel and skips what the     *)
(* replay already holds.  Publish is one script and so is DeleteSession;   *)
(* everything else is a call of its own.  An event is its sequence number. *)
(***************************************************************************)
EXTENDS Integers, Sequences

CONSTANTS Clients, Retained,
          ChannelSize,   \* capacity of the updates channel
          MaxEvents,     \* bound: events published
          MaxFaults,     \* bound: failures in one behaviour
          MaxStops,      \* bound: stop calls under way when a client resubscribes
          Faults         \* kinds of failure that happen, see FaultKinds

FaultKinds == {"lost",      \* pub/sub does not deliver a message
               "setup",     \* a call of Subscribe fails
               "orphan",    \* ... and leaves INCR without EXPIRE and without DECR
               "heartbeat", \* the goroutine's EXPIRE fails
               "cut",       \* the server stream breaks
               "crash",     \* the replica dies, but not between INCR and EXPIRE
               "cleanup",   \* a call of stop fails
               "delete"}    \* not a failure: DeleteSession is called

ASSUME EventsAssumption ==
  /\ Retained \in Nat \ {0} /\ ChannelSize \in Nat \ {0}
  /\ MaxEvents \in Nat /\ MaxFaults \in Nat /\ MaxStops \in Nat /\ Faults \subseteq FaultKinds

VARIABLES
  next,       \* Redis: meta.next, 0 while the stream does not exist
  count, key, \* Redis: the subscribers counter and the state of its key
  leaving,    \* stop calls that have not sent DECR yet
  clearing,   \* stop calls that saw 0 or less and have not sent DEL yet
  pc,         \* one subscription per client
  mailbox,    \* pub/sub messages the goroutine has not read
  cursor,     \* the goroutine's cursor
  replay, channel,   \* what the stream handler has still to send
  seen,       \* client: state.lastSeq
  faults

streamVars == <<next, count, key, leaving, clearing>>
deliveryVars == <<mailbox, cursor, replay, channel>>
vars == <<next, count, key, leaving, clearing, pc, mailbox, cursor, replay,
          channel, seen, faults>>

Listening == {"listening", "counted", "leased", "sized", "live"}
Counted == {"leased", "sized", "live"}
Sending == {"live", "ended"}

Init ==
  /\ next = 0 /\ count = 0 /\ key = "absent" /\ leaving = 0 /\ clearing = 0
  /\ pc = [c \in Clients |-> "off"]
  /\ mailbox = [c \in Clients |-> <<>>]
  /\ cursor = [c \in Clients |-> 0]
  /\ replay = [c \in Clients |-> <<>>]
  /\ channel = [c \in Clients |-> <<>>]
  /\ seen = [c \in Clients |-> 0]
  /\ faults = 0

Goto(c, label) == pc' = [pc EXCEPT ![c] = label]

Fault(kind) == kind \in Faults /\ faults < MaxFaults /\ faults' = faults + 1

\* The subscription of c is over; what was on its way to the client is gone.
Forget(c, label) ==
  /\ Goto(c, label)
  /\ mailbox' = [mailbox EXCEPT ![c] = <<>>]
  /\ cursor' = [cursor EXCEPT ![c] = 0]
  /\ replay' = [replay EXCEPT ![c] = <<>>]
  /\ channel' = [channel EXCEPT ![c] = <<>>]

-----------------------------------------------------------------------------
(* Publish and DeleteSession *)

Oldest(n) == IF n > Retained THEN n - Retained + 1 ELSE 1

\* HINCRBY, RPUSH, LTRIM and PUBLISH in one script.
Publish ==
  /\ next < MaxEvents
  /\ next' = next + 1
  /\ \E lost \in SUBSET {c \in Clients : pc[c] \in Listening} :
       /\ IF lost = {} THEN UNCHANGED faults ELSE Fault("lost")
       /\ mailbox' = [c \in Clients |->
            IF pc[c] \in Listening /\ c \notin lost
              THEN Append(mailbox[c], next + 1) ELSE mailbox[c]]
  /\ UNCHANGED <<count, key, leaving, clearing, pc, cursor, replay, channel, seen>>

\* The script refuses while the counter is positive.
DeleteSession ==
  /\ next > 0 /\ count <= 0 /\ Fault("delete")
  /\ next' = 0 /\ count' = 0 /\ key' = "absent"
  /\ UNCHANGED <<leaving, clearing, pc, deliveryVars, seen>>

-----------------------------------------------------------------------------
(* Subscribe *)

\* PSUBSCRIBE.  When it fails nothing was counted and nothing is left.
Listen(c) ==
  /\ pc[c] = "off" /\ leaving + clearing <= MaxStops
  /\ Goto(c, "listening")
  /\ UNCHANGED <<streamVars, deliveryVars, seen, faults>>

\* INCR creates the key without a TTL.
Increment == /\ count' = count + 1
             /\ key' = IF key = "absent" THEN "lasting" ELSE key

\* A failure that was applied all the same is not taken back.
Register(c) ==
  /\ pc[c] = "listening"
  /\ \/ Increment /\ Goto(c, "counted") /\ UNCHANGED <<faults, mailbox>>
     \/ /\ \/ Fault("setup") /\ UNCHANGED <<count, key>>
           \/ Fault("orphan") /\ Increment
        /\ Goto(c, "off") /\ mailbox' = [mailbox EXCEPT ![c] = <<>>]
  /\ UNCHANGED <<next, leaving, clearing, cursor, replay, channel, seen>>

LeaseNever == key   \* mutant: the EXPIRE is left out
LeaseKey == IF key = "absent" THEN key ELSE "expiring"

\* DECR of a missing key creates it, again without a TTL.
DecrementOf(k) == /\ count' = count - 1
                  /\ key' = IF k = "absent" THEN "lasting" ELSE k
Decrement == DecrementOf(key)

\* EXPIRE; when it fails, applied or not, the DECR that follows uses the same
\* context and may fail as well.
Lease(c) ==
  /\ pc[c] = "counted"
  /\ \/ key' = LeaseKey /\ Goto(c, "leased") /\ UNCHANGED <<count, faults, mailbox>>
     \/ /\ \E k \in {key, LeaseKey} :
             \/ Fault("setup") /\ DecrementOf(k)
             \/ Fault("orphan") /\ key' = k /\ UNCHANGED count
        /\ Goto(c, "off") /\ mailbox' = [mailbox EXCEPT ![c] = <<>>]
  /\ UNCHANGED <<next, leaving, clearing, cursor, replay, channel, seen>>

\* fail: stop runs and the caller gets an error.
Refuse(c) == Forget(c, "off") /\ leaving' = leaving + 1

\* HGET tenant and next.  The client's cursor is compared with this value.
ReadCursor(c) ==
  /\ pc[c] = "leased"
  /\ \/ /\ next > 0 /\ seen[c] <= next
        /\ Goto(c, "sized") /\ UNCHANGED <<leaving, deliveryVars, faults>>
     \/ (next = 0 \/ seen[c] > next) /\ Refuse(c) /\ UNCHANGED faults
     \/ Fault("setup") /\ Refuse(c)
  /\ UNCHANGED <<next, count, key, clearing, seen>>

TooOldNever(c) == FALSE   \* mutant: an expired cursor gets what is left
TooOld(c) == seen[c] # 0 /\ next > 0 /\ seen[c] + 1 < Oldest(next)

ReplayFrom(s) == LET first == IF s + 1 > Oldest(next) THEN s + 1 ELSE Oldest(next)
                 IN  [i \in 1 .. next - first + 1 |-> first + i - 1]

CursorUnset(c) == seen[c]   \* mutant: the goroutine starts at since
LastRead(c) == IF next > seen[c] THEN next ELSE seen[c]

\* LRANGE of the same pipeline, and the start of the goroutine.
ReadEvents(c) ==
  /\ pc[c] = "sized"
  /\ \/ /\ ~TooOld(c)
        /\ replay' = [replay EXCEPT ![c] = ReplayFrom(seen[c])]
        /\ cursor' = [cursor EXCEPT ![c] = LastRead(c)]
        /\ Goto(c, "live") /\ UNCHANGED <<leaving, mailbox, channel, faults>>
     \/ TooOld(c) /\ Refuse(c) /\ UNCHANGED faults
     \/ Fault("setup") /\ Refuse(c)
  /\ UNCHANGED <<next, count, key, clearing, seen>>

-----------------------------------------------------------------------------
(* The forwarding goroutine, the stream handler and the client *)

\* The goroutine returns: it closes the updates and its deferred stop runs.
EndForwarding(c) ==
  /\ Goto(c, "ended")
  /\ mailbox' = [mailbox EXCEPT ![c] = <<>>]
  /\ leaving' = leaving + 1
  /\ UNCHANGED <<cursor, channel>>

OverflowDrops(c) ==   \* mutant: a full channel only loses the event
  /\ cursor' = [cursor EXCEPT ![c] = Head(mailbox[c])]
  /\ mailbox' = [mailbox EXCEPT ![c] = Tail(@)]
  /\ UNCHANGED <<pc, leaving, channel>>
Overflow(c) == EndForwarding(c)

FullNever(c) == FALSE   \* mutant: the send is not bounded
Full(c) == Len(channel[c]) >= ChannelSize

Forward(c) ==
  /\ pc[c] = "live" /\ mailbox[c] # <<>>
  /\ LET event == Head(mailbox[c]) IN
       \/ /\ event <= cursor[c]
          /\ mailbox' = [mailbox EXCEPT ![c] = Tail(@)]
          /\ UNCHANGED <<pc, leaving, cursor, channel>>
       \/ /\ event > cursor[c] /\ ~Full(c)
          /\ mailbox' = [mailbox EXCEPT ![c] = Tail(@)]
          /\ channel' = [channel EXCEPT ![c] = Append(@, event)]
          /\ cursor' = [cursor EXCEPT ![c] = event]
          /\ UNCHANGED <<pc, leaving>>
       \/ /\ event > cursor[c] /\ Full(c)
          /\ Overflow(c)
  /\ UNCHANGED <<next, count, key, clearing, replay, seen, faults>>

\* The EXPIRE of a heartbeat fails.
HeartbeatFails(c) ==
  /\ pc[c] = "live" /\ Fault("heartbeat")
  /\ EndForwarding(c)
  /\ UNCHANGED <<next, count, key, clearing, replay, seen>>

\* The handler sends the replay, then the channel; the client sets lastSeq
\* and applies the event.
Deliver(c) ==
  /\ pc[c] \in Sending
  /\ \/ /\ replay[c] # <<>>
        /\ seen' = [seen EXCEPT ![c] = Head(replay[c])]
        /\ replay' = [replay EXCEPT ![c] = Tail(@)]
        /\ UNCHANGED channel
     \/ /\ replay[c] = <<>> /\ channel[c] # <<>>
        /\ seen' = [seen EXCEPT ![c] = Head(channel[c])]
        /\ channel' = [channel EXCEPT ![c] = Tail(@)]
        /\ UNCHANGED replay
  /\ UNCHANGED <<streamVars, pc, mailbox, cursor, faults>>

\* The channel is closed and drained: RESOURCE_EXHAUSTED, and the client
\* comes back with its last sequence.
FallBehind(c) ==
  /\ pc[c] = "ended" /\ replay[c] = <<>> /\ channel[c] = <<>>
  /\ Forget(c, "off")
  /\ UNCHANGED <<streamVars, seen, faults>>

\* The connection breaks; the handler's stop and the goroutine's are one.
Cut(c) ==
  /\ pc[c] \in Sending /\ Fault("cut")
  /\ Forget(c, "off")
  /\ leaving' = IF pc[c] = "live" THEN leaving + 1 ELSE leaving
  /\ UNCHANGED <<next, count, key, clearing, seen>>

\* The user leaves for good: the signal is aborted.
Close(c) ==
  /\ pc[c] \in {"off", "live", "ended"}
  /\ Forget(c, "gone")
  /\ leaving' = IF pc[c] = "live" THEN leaving + 1 ELSE leaving
  /\ UNCHANGED <<next, count, key, clearing, seen, faults>>

\* Between INCR and EXPIRE a crash leaves a counter that nothing takes back.
Crash(c) ==
  /\ pc[c] \in Listening \cup {"ended"}
  /\ Fault(IF pc[c] = "counted" THEN "orphan" ELSE "crash")
  /\ Forget(c, "off")
  /\ UNCHANGED <<streamVars, seen>>

-----------------------------------------------------------------------------
(* stop, and the TTL of the counter *)

StopDecr ==
  /\ leaving > 0 /\ leaving' = leaving - 1
  /\ \/ /\ Decrement
        /\ clearing' = IF count - 1 <= 0 THEN clearing + 1 ELSE clearing
        /\ UNCHANGED faults
     \/ /\ Fault("cleanup") /\ UNCHANGED clearing
        /\ Decrement \/ UNCHANGED <<count, key>>
  /\ UNCHANGED <<next, pc, deliveryVars, seen>>

StopDel ==
  /\ clearing > 0 /\ clearing' = clearing - 1
  /\ \/ count' = 0 /\ key' = "absent" /\ UNCHANGED faults
     \/ Fault("cleanup") /\ UNCHANGED <<count, key>>
  /\ UNCHANGED <<next, leaving, pc, deliveryVars, seen>>

\* A live subscription refreshes the TTL four times in its length.
ExpireCounter ==
  /\ key = "expiring" /\ \A c \in Clients : pc[c] \notin Counted
  /\ count' = 0 /\ key' = "absent"
  /\ UNCHANGED <<next, leaving, clearing, pc, deliveryVars, seen, faults>>

Step(c) == \/ Listen(c) \/ Register(c) \/ Lease(c) \/ ReadCursor(c) \/ ReadEvents(c)
           \/ Forward(c) \/ Deliver(c) \/ FallBehind(c)

Next == \/ Publish \/ DeleteSession \/ StopDecr \/ StopDel \/ ExpireCounter
        \/ \E c \in Clients : Step(c) \/ HeartbeatFails(c) \/ Cut(c) \/ Close(c) \/ Crash(c)

Spec == Init /\ [][Next]_vars

(* Calls that were started are answered, goroutines run, keys expire.       *)
FairSpec == /\ Spec
            /\ \A c \in Clients :
                 /\ WF_vars(Listen(c)) /\ WF_vars(Register(c)) /\ WF_vars(Lease(c))
                 /\ WF_vars(ReadCursor(c)) /\ WF_vars(ReadEvents(c))
                 /\ WF_vars(Forward(c)) /\ WF_vars(Deliver(c)) /\ WF_vars(FallBehind(c))
            /\ WF_vars(StopDecr) /\ WF_vars(StopDel) /\ WF_vars(ExpireCounter)

-----------------------------------------------------------------------------
(* Properties *)

StreamTypeOK ==
  /\ next \in 0 .. MaxEvents /\ count \in Int
  /\ key \in {"absent", "lasting", "expiring"} /\ (key = "absent" => count = 0)
  /\ leaving \in Nat /\ clearing \in Nat /\ faults \in 0 .. MaxFaults

DeliveryTypeOK ==
  /\ pc \in [Clients -> {"off", "ended", "gone"} \cup Listening]
  /\ mailbox \in [Clients -> Seq(Nat)] /\ cursor \in [Clients -> Nat]
  /\ replay \in [Clients -> Seq(Nat)] /\ channel \in [Clients -> Seq(Nat)]
  /\ seen \in [Clients -> Nat]

\* Types of all state.  A key that does not exist counts nobody, and the
\* updates channel is never filled beyond its capacity.
ETypeOK == /\ StreamTypeOK /\ DeliveryTypeOK
           /\ \A c \in Clients : Len(channel[c]) <= ChannelSize

\* The i-th entry of s is the i-th sequence of those that end with last.
EndsWith(s, last) == \A i \in 1 .. Len(s) : s[i] = last - Len(s) + i

\* How replay, channel and mailbox of one subscription fit together.
MailboxOK(c) == /\ pc[c] \notin Listening => mailbox[c] = <<>>
                /\ EndsWith(mailbox[c], next)

PendingOK(c) ==
  /\ pc[c] \notin Sending => replay[c] = <<>> /\ channel[c] = <<>>
  /\ pc[c] \in Sending =>
       /\ EndsWith(channel[c], cursor[c])
       /\ EndsWith(replay[c], cursor[c] - Len(channel[c]))
       /\ Len(channel[c]) + Len(replay[c]) <= cursor[c] /\ cursor[c] <= next
       /\ \/ seen[c] = cursor[c] - Len(channel[c]) - Len(replay[c])
          \/ seen[c] = 0 /\ replay[c] # <<>>
  /\ pc[c] = "live" => next - Len(mailbox[c]) <= cursor[c]

\* Unless messages are lost or the stream is deleted: what a client applied,
\* what its handler holds and what waits in its mailbox is one run of
\* sequences up to the end of the stream, which the replay and the mailbox
\* may cover twice but never leave open.
DeliveryContiguous ==
  \A c \in Clients : /\ MailboxOK(c) /\ PendingOK(c) /\ seen[c] <= next
                     /\ pc[c] = "sized" => next > 0

\* What is due next at a client, 0 while it has no subscription.
Due == [c \in Clients |-> IF pc[c] \notin Sending THEN 0
                          ELSE IF replay[c] # <<>> THEN Head(replay[c])
                          ELSE seen[c] + 1]

Promise == INSTANCE EventStream WITH due <- Due

\* Unless pub/sub loses a message, every client sees the stream as EventStream
\* promises it: replay and live events meet without a gap or a repetition
\* although the channel is joined before the list is read, and reconnecting
\* with the last sequence continues where the client stopped or is refused.
ImplementsEventStream == Promise!SSpec

\* No event is skipped: what a client applies after its first event always is
\* the next one, whatever subscription it comes from.
NoGap == [][\A c \in Clients :
              seen'[c] # seen[c] /\ seen[c] # 0 => seen'[c] = seen[c] + 1]_vars

\* Whatever fails, and even when the stream is deleted and begins again at 1
\* under a subscription, no client is taken back: it never applies an event at
\* or before its cursor.
AppliesForward ==
  [][\A c \in Clients : Deliver(c) => seen'[c] > seen[c]]_vars

\* A client that stays ends up with the whole stream once nothing is published
\* any more, however often it fell behind or was cut off; after a deletion its
\* cursor may be ahead of the stream that began again, but is never behind it.
CatchesUp == \A c \in Clients : <>[](pc[c] = "gone" \/ seen[c] >= next)

\* Unless a subscription ends between INCR and EXPIRE, or its EXPIRE and DECR
\* both fail: when every client has left, also by crashes and with calls of
\* stop lost, the counter does not keep the stream from being deleted for ever.
StreamDeletable ==
  "orphan" \notin Faults => ((\A c \in Clients : pc[c] = "gone") ~> count <= 0)
=============================================================================
