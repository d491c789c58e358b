---------------------------- MODULE EventStream ----------------------------
(***************************************************************************)
(* What the event stream of a session promises its clients                 *)
(* (port.EventRepository and packages/app/src/rpc-chat/bridge.ts): events  *)
(* are numbered 1, 2, 3 ..., the last Retained of them can be replayed,    *)
(* and a client that reconnects with the last sequence it applied goes on  *)
(* with the one after it, or is refused when that is no longer retained.   *)
(* A client that has applied nothing starts at the oldest retained event.  *)
(***************************************************************************)
EXTENDS Naturals

CONSTANTS Clients,
          Retained,   \* events kept for replay
          MaxEvents   \* bound: events published

VARIABLES next,   \* sequence of the last event
          seen,   \* last sequence a client applied, 0 if none
          due     \* sequence it gets next, 0 while it is not subscribed

svars == <<next, seen, due>>

Oldest(n) == IF n > Retained THEN n - Retained + 1 ELSE 1

SInit == next = 0 /\ seen = [c \in Clients |-> 0] /\ due = [c \in Clients |-> 0]

Append1 == next < MaxEvents /\ next' = next + 1 /\ UNCHANGED <<seen, due>>

Join(c) ==
  /\ next > 0 /\ due[c] = 0
  /\ \/ seen[c] = 0 /\ due' = [due EXCEPT ![c] = Oldest(next)]
     \/ /\ seen[c] # 0 /\ seen[c] + 1 >= Oldest(next)
        /\ due' = [due EXCEPT ![c] = seen[c] + 1]
  /\ UNCHANGED <<next, seen>>

Apply(c) ==
  /\ due[c] # 0 /\ due[c] <= next
  /\ seen' = [seen EXCEPT ![c] = due[c]]
  /\ due' = [due EXCEPT ![c] = @ + 1]
  /\ UNCHANGED next

Leave(c) == due[c] # 0 /\ due' = [due EXCEPT ![c] = 0] /\ UNCHANGED <<next, seen>>

SNext == Append1 \/ \E c \in Clients : Join(c) \/ Apply(c) \/ Leave(c)

SSpec == SInit /\ [][SNext]_svars
=============================================================================
