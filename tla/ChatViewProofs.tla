--------------------------- MODULE ChatViewProofs ---------------------------
(* Why the text of an answer drawn from the stream is exact (LiveExact):    *)
(* what the page follows and what it counts as complete is decided by the   *)
(* events up to its cursor alone, so the next event adds its chunk exactly  *)
(* when it carries one; and the chunks of a turn are published in the order *)
(* of their numbers.  And why the rows of the page are right                *)
(* (NoDuplicateRow, ParentsKept, RowsStay): a row drawn for a send stays    *)
(* among those the next restore compares, and the comparison withdraws it,  *)
(* or one that says the same, for the stored copy it draws.                 *)
EXTENDS ChatView, SequenceTheorems, WellFoundedInduction, TLAPS

Events == [kind : Kinds, turn : Prompts, n : Nat, at : Nat]
Entries == [turn : Prompts, part : Fields \cup {"user"}, chunks : Seq(Nat), at : Nat]

ServerTypes ==
  /\ clock \in Nat /\ log \in Seq(Events) /\ entries \in Seq(Entries)
  /\ phase \in [Prompts -> Phases] /\ chunks \in [Prompts -> Nat]
  /\ mid \in {None} \cup (Prompts \X Fields)

PageTypes ==
  /\ listed \in [Visits -> Seq(Entries)]
  /\ lastSeq \in 0..Len(log)
  /\ turns \subseteq Agents /\ done \subseteq Agents /\ restored \subseteq Prompts
  /\ text \in [Prompts -> [Fields -> Seq(Nat)]]

\* A chunk under way is of a turn that has begun.
Storing == \A m \in Prompts, f \in Fields : mid = <<m, f>> => phase[m] # "none"

\* No event carries an earlier chunk than one before it.
LogNumbers ==
  /\ \A i \in 1..Len(log) : log[i].n <= chunks[log[i].turn]
  /\ \A i, j \in 1..Len(log) :
       i < j /\ log[i].turn = log[j].turn /\ Chunk(log[j]) => log[i].n <= log[j].n

\* An idle or an error found the answer of m begun, in the events before i.
Dropped(m, i) ==
  \E h, k \in 1..(i - 1) : h < k /\ log[h].turn = m /\ Chunk(log[h]) /\ Completes(log[k])

\* What ChatState follows and what it counts as complete is decided by the events applied.
Followed ==
  /\ \A m \in Prompts : m \in turns <=> \E i \in 1..lastSeq : log[i].turn = m /\ Chunk(log[i])
  /\ \A m \in Prompts \ restored : m \in done <=> Dropped(m, lastSeq + 1)

LInv == ServerTypes /\ PageTypes /\ Storing /\ LogNumbers /\ Followed /\ LiveExact

-----------------------------------------------------------------------------
(* A step is one of the server's or one of the page's.                      *)

ServerStep(m) ==
  \/ Store(m) \/ Serve(m) \/ StartFails(m) \/ CallTool(m) \/ RunFails(m)
  \/ \E kind \in {"running", "idle", "error"} : Report(m, kind)
  \/ \E f \in Fields : AppendText(m, f) \/ PublishFails(m, f)

ServerMove == \E m \in Prompts : ServerStep(m)

PageStill == UNCHANGED <<lastSeq, turns, done, restored, text>>

PageMove ==
  /\ UNCHANGED <<phase, log, entries, chunks, mid>> /\ clock' \in Nat
  /\ \/ UNCHANGED listed /\ PageStill
     \/ \E v \in Visits : Visit(v) \/ Restore(v)
     \/ Deliver \/ Reload

LEMMA Moves ==
  ASSUME clock \in Nat, [CNext]_cvars PROVE ServerMove \/ PageMove
<1> USE DEF server, view, sends, net, chat, rows, cvars
<1>1. CASE UNCHANGED cvars
  BY <1>1 DEF PageMove, PageStill
<1>2. ASSUME NEW m \in Prompts,
             \/ StoreSent(m) \/ StoreElsewhere(m) \/ Serve(m) \/ StartFails(m)
             \/ CallTool(m) \/ RunFails(m)
             \/ \E kind \in {"running", "idle", "error"} : Report(m, kind)
             \/ \E f \in Fields : AppendText(m, f) \/ PublishFails(m, f)
      PROVE ServerMove
  BY <1>2 DEF ServerMove, ServerStep, StoreSent, StoreElsewhere
<1>3. ASSUME NEW m \in Prompts, Submit(m) \/ ReplyNew(m)
      PROVE PageMove
  BY <1>3 DEF PageMove, PageStill, Submit, ReplyNew, AddOptimistic
<1>4. ASSUME NEW m \in Prompts, SubmitNew(m) \/ Reply(m) \/ Refuse(m) \/ Lose(m)
      PROVE PageMove
  BY <1>4 DEF PageMove, PageStill, SubmitNew, Reply, Refuse, Lose, Withdraw
<1>5. ASSUME NEW v \in Visits, Visit(v) \/ Restore(v)
      PROVE PageMove
  BY <1>5 DEF PageMove, Visit, Restore
<1>6. ASSUME NEW v \in Visits, VisitFails(v)
      PROVE PageMove
  BY <1>6 DEF PageMove, PageStill, VisitFails
<1>7. ASSUME Drop \/ Reconnect
      PROVE PageMove
  BY <1>7 DEF PageMove, PageStill, Drop, Reconnect
<1>8. ASSUME Deliver \/ Reload
      PROVE PageMove
  BY <1>8 DEF PageMove, Deliver, Reload
<1> QED
  BY <1>1, <1>2, <1>3, <1>4, <1>5, <1>6, <1>7, <1>8 DEF CNext

LEMMA ServerMovesLeavePage == ServerMove => PageStill /\ UNCHANGED listed
<1> USE DEF view, net, chat, rows
<1> SUFFICES ASSUME NEW m \in Prompts, ServerStep(m)
             PROVE PageStill /\ UNCHANGED listed
  BY DEF ServerMove
<1>1. CASE Store(m)
  BY <1>1 DEF Store, PageStill
<1>2. CASE Start(m) \/ StartFails(m) \/ Announce(m) \/ Finish(m)
  BY <1>2 DEF Start, StartFails, Announce, Finish, PageStill
<1>3. ASSUME NEW f \in Fields, PublishChunk(m, f) \/ PublishFails(m, f)
      PROVE PageStill /\ UNCHANGED listed
  BY <1>3 DEF PublishChunk, PublishFails, PageStill
<1>4. CASE CallTool(m) \/ RunFails(m)
  BY <1>4 DEF CallTool, RunFails, PageStill
<1>5. ASSUME NEW f \in Fields, AppendText(m, f) PROVE PageStill /\ UNCHANGED listed
  BY <1>5 DEF AppendText, PageStill
<1>6. ASSUME NEW kind, Report(m, kind) PROVE PageStill /\ UNCHANGED listed
  BY <1>6 DEF Report, PageStill
<1> QED
  BY <1>1, <1>2, <1>3, <1>4, <1>5, <1>6 DEF ServerStep, Serve

-----------------------------------------------------------------------------
(* The server's part of the invariant.                                      *)

LEMMA EventTyped ==
  ASSUME clock \in Nat, NEW m \in Prompts, NEW k \in Kinds, NEW n \in Nat
  PROVE  /\ Event(k, m, n) \in Events
         /\ Event(k, m, n).kind = k /\ Event(k, m, n).turn = m /\ Event(k, m, n).n = n
BY DEF Event, Events

\* The log gets nothing, or the event e, once or twice.
Gets(e) == log' = log \/ log' = Append(log, e) \/ log' = log \o <<e, e>>

LEMMA Grown ==
  ASSUME log \in Seq(Events), NEW e \in Events, Gets(e)
  PROVE  /\ log' \in Seq(Events)
         /\ Len(log) \in Nat /\ Len(log') \in Nat /\ Len(log) <= Len(log')
         /\ \A i \in 1..Len(log) : log[i] \in Events /\ log'[i] = log[i]
         /\ \A i \in 1..Len(log') : i \in 1..Len(log) \/ (i > Len(log) /\ log'[i] = e)
<1>1. Len(log) \in Nat /\ \A i \in 1..Len(log) : log[i] \in Events
  BY LenProperties, ElementOfSeq
<1>2. CASE log' = log
  BY <1>1, <1>2
<1>3. CASE log' = Append(log, e)
  BY <1>1, <1>3, AppendProperties
<1>4. CASE log' = log \o <<e, e>>
  <2>1. <<e, e>> \in Seq(Events) /\ Len(<<e, e>>) = 2 /\ <<e, e>>[1] = e /\ <<e, e>>[2] = e
    OBVIOUS
  <2>2. /\ log' \in Seq(Events) /\ Len(log') = Len(log) + 2
        /\ \A i \in 1..(Len(log) + 2) :
             log'[i] = IF i <= Len(log) THEN log[i] ELSE <<e, e>>[i - Len(log)]
    BY <1>1, <1>4, <2>1, ConcatProperties
  <2>3. \A i \in 1..(Len(log) + 2) : i \in 1..Len(log) \/ (i - Len(log) \in {1, 2} /\ i > Len(log))
    BY <1>1
  <2>4. \A i \in 1..(Len(log) + 2) : i \in 1..Len(log) \/ (i > Len(log) /\ log'[i] = e)
    BY <1>1, <2>1, <2>2, <2>3
  <2> QED
    BY <1>1, <2>2, <2>4
<1> QED
  BY <1>2, <1>3, <1>4 DEF Gets

\* A publication of the event of kind k and number n, or none.
Issues(m, k, n) == Publish(k, m, n) \/ Published(k, m, n) \/ Unpublished

LEMMA IssueTyped ==
  ASSUME ServerTypes, NEW m \in Prompts, NEW k \in Kinds, NEW n \in Nat, Issues(m, k, n)
  PROVE  Gets(Event(k, m, n)) /\ log' \in Seq(Events) /\ clock' \in Nat
<1>1. clock \in Nat /\ log \in Seq(Events) /\ Event(k, m, n) \in Events
  BY EventTyped DEF ServerTypes
<1>2. Gets(Event(k, m, n)) /\ clock' \in Nat
  BY <1>1 DEF Issues, Publish, Published, Unpublished, Gets
<1> QED
  BY <1>1, <1>2, Grown

LEMMA ServerTypesKept == ServerTypes /\ ServerMove => ServerTypes'
<1> USE DEF ServerTypes
<1> SUFFICES ASSUME ServerTypes, NEW m \in Prompts, ServerStep(m)
             PROVE ServerTypes'
  BY DEF ServerMove
<1>1. CASE Store(m)
  <2> DEFINE e == [turn |-> m, part |-> "user", chunks |-> <<>>, at |-> clock + 1]
  <2>1. e \in Entries
    BY DEF Entries, Fields
  <2>2. entries' = Append(entries, e)
    BY <1>1 DEF Store
  <2>3. entries' \in Seq(Entries)
    <3> HIDE DEF e
    <3> QED
      BY <2>1, <2>2
  <2> QED
    BY <1>1, <2>3 DEF Store, Phases
<1>2. ASSUME NEW k \in Kinds, NEW n \in Nat, Issues(m, k, n)
      PROVE  log' \in Seq(Events) /\ clock' \in Nat
  BY <1>2, IssueTyped
<1>3. CASE Start(m) \/ StartFails(m)
  <2>1. "running" \in Kinds /\ Issues(m, "running", 0) /\ UNCHANGED <<entries, chunks, mid>>
    BY <1>3 DEF Start, StartFails, Issues, Kinds
  <2>2. phase' \in [Prompts -> Phases]
    BY <1>3 DEF Start, StartFails, Phases
  <2> QED
    BY <1>2, <2>1, <2>2
<1>4. CASE Announce(m)
  <2>1. "error" \in Kinds /\ Issues(m, "error", 0) /\ UNCHANGED <<entries, chunks, mid>>
    BY <1>4 DEF Announce, Issues, Kinds
  <2>2. phase' \in [Prompts -> Phases]
    BY <1>4 DEF Announce, Phases
  <2> QED
    BY <1>2, <2>1, <2>2
<1>5. CASE Finish(m)
  <2>1. "idle" \in Kinds /\ Issues(m, "idle", 0) /\ UNCHANGED <<entries, chunks, mid>>
    BY <1>5 DEF Finish, Issues, Kinds
  <2>2. phase' \in [Prompts -> Phases]
    BY <1>5 DEF Finish, Phases
  <2> QED
    BY <1>2, <2>1, <2>2
<1>6. ASSUME NEW f \in Fields, PublishChunk(m, f) \/ PublishFails(m, f) PROVE ServerTypes'
  <2>1. f \in Kinds /\ chunks[m] \in Nat
    BY DEF Kinds
  <2>2. Issues(m, f, chunks[m]) /\ mid' = None /\ UNCHANGED <<entries, chunks>>
    BY <1>6 DEF PublishChunk, PublishFails, Issues
  <2>3. phase' \in [Prompts -> Phases]
    BY <1>6 DEF PublishChunk, PublishFails, Phases
  <2> QED
    BY <1>2, <2>1, <2>2, <2>3
<1>7. CASE CallTool(m)
  <2>1. "tool" \in Kinds /\ chunks[m] + 1 \in Nat
    BY DEF Kinds
  <2>2. Issues(m, "tool", chunks[m] + 1) /\ UNCHANGED <<phase, entries, mid>>
    BY <1>7 DEF CallTool, Issues
  <2>3. chunks' \in [Prompts -> Nat]
    BY <1>7 DEF CallTool
  <2> QED
    BY <1>2, <2>1, <2>2, <2>3
<1>8. CASE RunFails(m)
  BY <1>8 DEF RunFails, Phases
<1>9. ASSUME NEW k \in {"running", "idle", "error"}, Report(m, k) PROVE ServerTypes'
  <2>1. k \in Kinds /\ Issues(m, k, 0) /\ UNCHANGED <<phase, entries, chunks, mid>>
    BY <1>9 DEF Report, Issues, Kinds
  <2> QED
    BY <1>2, <2>1
<1>10. ASSUME NEW f \in Fields, AppendText(m, f) PROVE ServerTypes'
  <2> DEFINE n == chunks[m] + 1
             old == {i \in 1..Len(entries) : entries[i].turn = m /\ entries[i].part = f}
             e == [turn |-> m, part |-> f, chunks |-> <<n>>, at |-> clock + 1]
             grown == [i \in 1..Len(entries) |->
               IF i \in old THEN [entries[i] EXCEPT !.chunks = Append(@, n)] ELSE entries[i]]
  <2>1. n \in Nat /\ e \in Entries
    BY DEF Entries
  <2>2. ASSUME NEW i \in 1..Len(entries)
        PROVE  grown[i] \in Entries
    <3>1. entries[i] \in Entries
      BY ElementOfSeq
    <3>2. [entries[i] EXCEPT !.chunks = Append(@, n)] \in Entries
      <4>1. Append(entries[i].chunks, n) \in Seq(Nat)
        <5> HIDE DEF n
        <5> QED
          BY <2>1, <3>1, AppendProperties DEF Entries
      <4> HIDE DEF n
      <4> QED
        BY <3>1, <4>1 DEF Entries
    <3> QED
      BY <3>1, <3>2
  <2>3. grown \in Seq(Entries)
    <3> HIDE DEF grown
    <3>1. grown \in [1..Len(entries) -> Entries]
      <4>1. grown = [i \in 1..Len(entries) |-> grown[i]]
        BY DEF grown
      <4> QED
        BY <2>2, <4>1
    <3>2. Len(entries) \in Nat
      BY LenProperties
    <3> QED
      BY <3>1, <3>2, SeqDef
  <2>4. \/ entries' = Append(entries, e) /\ clock' = clock + 1
        \/ entries' = grown /\ clock' = clock
    BY <1>10 DEF AppendText
  <2>5. entries' \in Seq(Entries) /\ clock' \in Nat
    <3> HIDE DEF e, grown
    <3>1. Append(entries, e) \in Seq(Entries)
      BY <2>1, AppendProperties
    <3>2. CASE entries' = Append(entries, e) /\ clock' = clock + 1
      BY <3>1, <3>2
    <3>3. CASE entries' = grown /\ clock' = clock
      BY <2>3, <3>3
    <3> QED
      BY <2>4, <3>2, <3>3
  <2>6. /\ chunks' = [chunks EXCEPT ![m] = n] /\ mid' = <<m, f>>
        /\ UNCHANGED <<phase, log>>
    BY <1>10 DEF AppendText
  <2> QED
    BY <2>1, <2>5, <2>6
<1> QED
  BY <1>1, <1>3, <1>4, <1>5, <1>6, <1>7, <1>8, <1>9, <1>10 DEF ServerStep, Serve

LEMMA LogTyped ==
  ASSUME ServerTypes
  PROVE  \A i \in 1..Len(log) :
           log[i] \in Events /\ log[i].turn \in Prompts /\ log[i].n \in Nat
<1>1. \A i \in 1..Len(log) : log[i] \in Events
  BY ElementOfSeq DEF ServerTypes
<1> QED
  BY <1>1 DEF Events

\* A step of the server publishes an event of its turn at most, whose number the turn has
\* reached; a chunk has the number of the last one produced.
LEMMA StepPublishes ==
  ASSUME ServerTypes, NEW m \in Prompts, ServerStep(m)
  PROVE  \E e \in Events, c \in Nat :
           /\ Gets(e) /\ e.turn = m /\ e.n <= c /\ (Chunk(e) => e.n = chunks[m])
           /\ chunks[m] <= c /\ chunks' = [chunks EXCEPT ![m] = c]
<1> DEFINE Goal == \E e \in Events, c \in Nat :
             /\ Gets(e) /\ e.turn = m /\ e.n <= c /\ (Chunk(e) => e.n = chunks[m])
             /\ chunks[m] <= c /\ chunks' = [chunks EXCEPT ![m] = c]
<1>1. /\ clock \in Nat /\ chunks[m] \in Nat /\ chunks = [chunks EXCEPT ![m] = chunks[m]]
      /\ Fields \subseteq Kinds /\ {"running", "error", "idle", "tool"} \subseteq Kinds
      /\ {"running", "error", "idle", "tool"} \cap Fields = {}
  BY DEF ServerTypes, Kinds, Fields
<1>2. ASSUME NEW k \in Kinds, NEW n \in Nat, NEW c \in Nat,
             Gets(Event(k, m, n)), n <= c, k \in Fields => n = chunks[m],
             chunks[m] <= c, chunks' = [chunks EXCEPT ![m] = c]
      PROVE  Goal
  <2>1. LET e == Event(k, m, n)
        IN e \in Events /\ e.kind = k /\ e.turn = m /\ e.n = n
    BY <1>1, EventTyped
  <2> QED
    BY <1>2, <2>1 DEF Chunk
<1>3. ASSUME NEW k \in Kinds, NEW n \in Nat, Issues(m, k, n)
      PROVE  Gets(Event(k, m, n))
  BY <1>3, IssueTyped
<1>4. ASSUME NEW k \in {"running", "error", "idle"}, Issues(m, k, 0), UNCHANGED chunks
      PROVE  Goal
  <2>1. Gets(Event(k, m, 0))
    BY <1>1, <1>3, <1>4
  <2> HIDE DEF Goal
  <2> QED
    BY <1>1, <1>2, <1>4, <2>1
<1>5. ASSUME Store(m) \/ RunFails(m) PROVE Goal
  <2>1. log' = log /\ UNCHANGED chunks
    BY <1>5 DEF Store, RunFails
  <2>2. Gets(Event("idle", m, 0))
    BY <2>1 DEF Gets
  <2>3. /\ "idle" \in Kinds /\ "idle" \notin Fields
        /\ 0 \in Nat /\ 0 <= chunks[m] /\ chunks[m] <= chunks[m]
    BY <1>1
  <2> HIDE DEF Goal
  <2> QED
    BY <1>1, <1>2, <2>1, <2>2, <2>3
<1>6. CASE Start(m) \/ StartFails(m)
  <2>1. Issues(m, "running", 0) /\ UNCHANGED chunks
    BY <1>6 DEF Start, StartFails, Issues
  <2> QED
    BY <1>4, <2>1
<1>7. CASE Announce(m) \/ Finish(m)
  <2>1. UNCHANGED chunks /\ (Issues(m, "error", 0) \/ Issues(m, "idle", 0))
    BY <1>7 DEF Announce, Finish, Issues
  <2> QED
    BY <1>4, <2>1
<1>8. ASSUME NEW k \in {"running", "idle", "error"}, Report(m, k) PROVE Goal
  <2>1. Issues(m, k, 0) /\ UNCHANGED chunks
    BY <1>8 DEF Report, Issues
  <2> QED
    BY <1>4, <2>1
<1>9. ASSUME NEW f \in Fields, PublishChunk(m, f) \/ PublishFails(m, f) PROVE Goal
  <2>1. Issues(m, f, chunks[m]) /\ UNCHANGED chunks
    BY <1>9 DEF PublishChunk, PublishFails, Issues
  <2>2. f \in Kinds /\ Gets(Event(f, m, chunks[m]))
    BY <1>1, <1>3, <2>1
  <2> HIDE DEF Goal
  <2> QED
    BY <1>1, <1>2, <2>1, <2>2
<1>10. ASSUME CallTool(m) PROVE Goal
  <2>1. Issues(m, "tool", chunks[m] + 1) /\ chunks' = [chunks EXCEPT ![m] = chunks[m] + 1]
    BY <1>10 DEF CallTool, Issues
  <2>2. chunks[m] + 1 \in Nat /\ chunks[m] <= chunks[m] + 1 /\ chunks[m] + 1 <= chunks[m] + 1
    BY <1>1
  <2>3. Gets(Event("tool", m, chunks[m] + 1))
    BY <1>1, <1>3, <2>1, <2>2
  <2>4. "tool" \in Kinds /\ "tool" \notin Fields
    BY <1>1
  <2> HIDE DEF Goal
  <2> QED
    BY <1>2, <2>1, <2>2, <2>3, <2>4
<1>11. ASSUME NEW f \in Fields, AppendText(m, f) PROVE Goal
  <2>1. log' = log /\ chunks' = [chunks EXCEPT ![m] = chunks[m] + 1]
    BY <1>11 DEF AppendText
  <2>2. chunks[m] + 1 \in Nat /\ 0 <= chunks[m] + 1 /\ chunks[m] <= chunks[m] + 1
    BY <1>1
  <2>3. Gets(Event("idle", m, 0))
    BY <2>1 DEF Gets
  <2> HIDE DEF Goal
  <2> QED
    BY <1>1, <1>2, <2>1, <2>2, <2>3
<1> QED
  BY <1>5, <1>6, <1>7, <1>8, <1>9, <1>10, <1>11 DEF ServerStep, Serve

LEMMA LogGrows ==
  ASSUME ServerTypes, ServerMove
  PROVE  /\ Len(log) \in Nat /\ Len(log') \in Nat /\ Len(log) <= Len(log')
         /\ \A i \in 1..Len(log) : log'[i] = log[i]
<1>1. PICK e \in Events : Gets(e)
  BY StepPublishes DEF ServerMove
<1> QED
  BY <1>1, Grown DEF ServerTypes

LEMMA NumbersKept ==
  ASSUME ServerTypes, LogNumbers, ServerMove
  PROVE  LogNumbers'
<1>1. PICK m \in Prompts, e \in Events, c \in Nat :
        /\ Gets(e) /\ e.turn = m /\ e.n <= c /\ (Chunk(e) => e.n = chunks[m])
        /\ chunks[m] <= c /\ chunks' = [chunks EXCEPT ![m] = c]
  BY StepPublishes DEF ServerMove
<1> DEFINE N == Len(log)
<1>2. /\ N \in Nat /\ Len(log') \in Nat
      /\ \A i \in 1..N : log'[i] = log[i] /\ log[i].turn \in Prompts /\ log[i].n \in Nat
      /\ \A i \in 1..Len(log') : i \in 1..N \/ (i > N /\ log'[i] = e)
  BY <1>1, Grown DEF ServerTypes, Events
<1>3. /\ e.n \in Nat
      /\ \A k \in Prompts : chunks[k] \in Nat /\ chunks'[k] = IF k = m THEN c ELSE chunks[k]
  BY <1>1 DEF Events, ServerTypes
<1>4. \A i \in 1..N : log[i].n <= chunks[log[i].turn]
  BY DEF LogNumbers
<1>5. \A i, j \in 1..N :
        i < j /\ log[i].turn = log[j].turn /\ Chunk(log[j]) => log[i].n <= log[j].n
  BY DEF LogNumbers
<1> HIDE DEF N
<1>6. \A i \in 1..Len(log') : log'[i].n <= chunks'[log'[i].turn]
  <2>1. \A i \in 1..N : log[i].n <= chunks'[log[i].turn]
    BY <1>1, <1>2, <1>3, <1>4
  <2>2. e.n <= chunks'[e.turn]
    BY <1>1, <1>3
  <2> QED
    BY <1>2, <2>1, <2>2
<1>7. ASSUME NEW i \in 1..Len(log'), NEW j \in 1..Len(log'),
             i < j, log'[i].turn = log'[j].turn, Chunk(log'[j])
      PROVE  log'[i].n <= log'[j].n
  <2>1. CASE j \in 1..N
    <3>1. i \in 1..N
      BY <1>2, <1>7, <2>1
    <3>2. log'[i] = log[i] /\ log'[j] = log[j]
      BY <1>2, <2>1, <3>1
    <3> QED
      BY <1>5, <1>7, <2>1, <3>1, <3>2
  <2>2. CASE j \notin 1..N
    <3>1. log'[j] = e /\ e.n = chunks[m]
      BY <1>1, <1>2, <1>7, <2>2
    <3>2. CASE i \in 1..N
      <4>1. log'[i] = log[i] /\ log[i].turn = m
        BY <1>1, <1>2, <1>7, <3>1, <3>2
      <4> QED
        BY <1>4, <3>1, <3>2, <4>1
    <3>3. CASE i \notin 1..N
      <4>1. log'[i] = e
        BY <1>2, <3>3
      <4> QED
        BY <1>3, <3>1, <4>1
    <3> QED
      BY <3>2, <3>3
  <2> QED
    BY <2>1, <2>2
<1> QED
  BY <1>6, <1>7 DEF LogNumbers

\* Nothing makes a turn unstarted, and only a turn that runs stores a chunk.
LEMMA StoringKept ==
  ASSUME ServerTypes, Storing, ServerMove
  PROVE  Storing'
<1>1. PICK m \in Prompts : ServerStep(m)
  BY DEF ServerMove
<1>2. phase \in [Prompts -> Phases]
  BY DEF ServerTypes
<1>3. \A f \in Fields, n \in Prompts : None # <<n, f>>
  BY ChatAssumption
<1>4. CASE Store(m)
  BY <1>2, <1>4 DEF Store, Storing
<1>5. CASE Start(m) \/ StartFails(m) \/ Announce(m) \/ Finish(m)
  BY <1>2, <1>5 DEF Start, StartFails, Announce, Finish, Storing
<1>6. CASE CallTool(m) \/ RunFails(m) \/ \E k \in {"running", "idle", "error"} : Report(m, k)
  BY <1>2, <1>6 DEF CallTool, RunFails, Report, Storing
<1>7. ASSUME NEW f \in Fields, PublishChunk(m, f) \/ PublishFails(m, f)
      PROVE  Storing'
  <2>1. mid' = None
    BY <1>7 DEF PublishChunk, PublishFails
  <2> QED
    BY <1>3, <2>1 DEF Storing
<1>8. ASSUME NEW f \in Fields, AppendText(m, f)
      PROVE  Storing'
  <2>1. mid' = <<m, f>> /\ phase[m] = "running" /\ phase' = phase
    BY <1>8 DEF AppendText
  <2> QED
    BY <2>1 DEF Storing
<1> QED
  BY <1>1, <1>4, <1>5, <1>6, <1>7, <1>8 DEF ServerStep, Serve

-----------------------------------------------------------------------------
(* The page's part of the invariant.                                        *)

\* What a restore draws: rows of turns in T, which become history.
LEMMA RestoreDraws ==
  ASSUME PageTypes, NEW v \in Visits, Restore(v)
  PROVE  \E T \in SUBSET Prompts :
           /\ restored' = restored \cup T /\ done \subseteq done' /\ done' \subseteq done \cup T
           /\ UNCHANGED <<turns, lastSeq, log>>
           /\ text' \in [Prompts -> [Fields -> Seq(Nat)]]
           /\ \A m \in Prompts \ T : text'[m] = text[m]
           /\ listed' \in [Visits -> Seq(Entries)]
<1> DEFINE list == listed[v]
           fresh == Fresh(list)
           T == {list[i].turn : i \in fresh}
           entry == [m \in T |-> CHOOSE i \in fresh : list[i].turn = m]
<1>1. /\ restored' = restored \cup T
      /\ done' = done \cup {m \in T : entry[m] < Len(list)}
      /\ text' = [m \in Prompts |->
           IF m \in T THEN [text[m] EXCEPT ![list[entry[m]].part] = list[entry[m]].chunks]
           ELSE text[m]]
      /\ listed' = [listed EXCEPT ![v] = <<>>]
      /\ UNCHANGED <<turns, lastSeq, log>>
  BY DEF Restore, server
<1>2. list \in Seq(Entries) /\ listed \in [Visits -> Seq(Entries)]
  BY DEF PageTypes
<1>3. \A i \in fresh : list[i] \in Entries /\ list[i].part # "user"
  <2> HIDE DEF list
  <2>1. \A i \in fresh : i \in 1..Len(list) /\ list[i].part # "user"
    BY DEF Fresh
  <2> QED
    BY <1>2, <2>1, ElementOfSeq
<1>4. \A i \in fresh :
        list[i].turn \in Prompts /\ list[i].part \in Fields /\ list[i].chunks \in Seq(Nat)
  BY <1>3 DEF Entries
<1>5. T \in SUBSET Prompts
  BY <1>4
<1>6. \A m \in T : entry[m] \in fresh
  OBVIOUS
<1>7. ASSUME NEW m \in Prompts PROVE text'[m] \in [Fields -> Seq(Nat)]
  <2>1. text[m] \in [Fields -> Seq(Nat)]
    BY DEF PageTypes
  <2>2. CASE m \notin T
    BY <1>1, <2>1, <2>2
  <2>3. CASE m \in T
    <3>1. list[entry[m]].part \in Fields /\ list[entry[m]].chunks \in Seq(Nat)
      BY <1>4, <1>6, <2>3
    <3>2. text'[m] = [text[m] EXCEPT ![list[entry[m]].part] = list[entry[m]].chunks]
      BY <1>1, <2>3
    <3> HIDE DEF entry, list
    <3> QED
      BY <2>1, <3>1, <3>2
  <2> QED
    BY <2>2, <2>3
<1>8. text' \in [Prompts -> [Fields -> Seq(Nat)]]
  <2>1. text' = [m \in Prompts |-> text'[m]]
    BY <1>1
  <2> QED
    BY <1>7, <2>1
<1>9. listed' \in [Visits -> Seq(Entries)]
  <2>1. <<>> \in Seq(Entries)
    OBVIOUS
  <2> QED
    BY <1>1, <1>2, <2>1
<1>10. \A m \in Prompts \ T : text'[m] = text[m]
  BY <1>1
<1> HIDE DEF T, entry
<1>11. done \subseteq done' /\ done' \subseteq done \cup T
  BY <1>1
<1>12. restored' = restored \cup T /\ UNCHANGED <<turns, lastSeq, log>>
  BY <1>1
<1> QED
  BY <1>5, <1>8, <1>9, <1>10, <1>11, <1>12

\* What the page does with the next event.
LEMMA DeliverApplies ==
  ASSUME ServerTypes, PageTypes, Deliver
  PROVE  LET e == log[lastSeq + 1]
         IN /\ lastSeq + 1 \in 1..Len(log) /\ lastSeq' = lastSeq + 1 /\ e \in Events
            /\ UNCHANGED <<log, restored, listed>>
            /\ turns' \subseteq turns \cup {e.turn, Shared}
            /\ \A m \in Prompts : m \in turns' <=> m \in turns \/ (Chunk(e) /\ m = e.turn)
            /\ done' = IF Completes(e) THEN done \cup turns ELSE done
            /\ text' = IF Chunk(e) /\ e.turn \notin done
                       THEN [text EXCEPT ![e.turn][e.kind] = Append(@, e.n)] ELSE text
<1> DEFINE e == log[lastSeq + 1]
<1>1. /\ lastSeq < Len(log) /\ lastSeq' = lastSeq + 1
      /\ ApplyState(e) \/ ApplyChunk(e) \/ ApplyTool(e)
      /\ UNCHANGED <<log, restored, listed>>
  BY DEF Deliver, server
<1>2. Len(log) \in Nat /\ lastSeq + 1 \in 1..Len(log)
  BY <1>1, LenProperties DEF ServerTypes, PageTypes
<1>3. e \in Events
  BY <1>2, LogTyped
<1> HIDE DEF e
<1>4. Shared \notin Prompts
  BY ChatAssumption
<1>5. CASE ApplyState(e)
  BY <1>1, <1>2, <1>3, <1>4, <1>5 DEF ApplyState, Completes, Chunk, Fields, e
<1>6. CASE ApplyChunk(e)
  BY <1>1, <1>2, <1>3, <1>4, <1>6 DEF ApplyChunk, Insert, Completes, Chunk, Fields, e
<1>7. CASE ApplyTool(e)
  BY <1>1, <1>2, <1>3, <1>4, <1>7 DEF ApplyTool, Insert, Completes, Chunk, Fields, e
<1> QED
  BY <1>1, <1>5, <1>6, <1>7

LEMMA ReloadForgets ==
  ASSUME Reload
  PROVE  /\ lastSeq' = 0 /\ turns' = {} /\ done' = {} /\ restored' = {}
         /\ text' = [m \in Prompts |-> [f \in Fields |-> <<>>]]
         /\ listed' = [v \in Visits |-> <<>>] /\ log' = log
BY DEF Reload, Blank, server

LEMMA PageTypesKept ==
  ASSUME ServerTypes, PageTypes, ServerMove \/ PageMove
  PROVE  PageTypes'
<1>1. CASE ServerMove
  BY <1>1, ServerMovesLeavePage, LogGrows DEF PageTypes, PageStill
<1>2. CASE PageStill /\ UNCHANGED <<listed, log>>
  BY <1>2 DEF PageTypes, PageStill
<1>3. ASSUME NEW v \in Visits, Visit(v), UNCHANGED log PROVE PageTypes'
  <2>1. PageStill /\ listed' = [listed EXCEPT ![v] = entries]
    BY <1>3 DEF Visit, PageStill, chat, rows
  <2>2. listed' \in [Visits -> Seq(Entries)]
    BY <2>1 DEF PageTypes, ServerTypes
  <2> QED
    BY <1>3, <2>1, <2>2 DEF PageTypes, PageStill
<1>4. ASSUME NEW v \in Visits, Restore(v) PROVE PageTypes'
  <2>1. PICK T \in SUBSET Prompts :
           /\ restored' = restored \cup T /\ done' \subseteq done \cup T
           /\ UNCHANGED <<turns, lastSeq, log>>
           /\ text' \in [Prompts -> [Fields -> Seq(Nat)]]
           /\ listed' \in [Visits -> Seq(Entries)]
    BY <1>4, RestoreDraws
  <2> QED
    BY <2>1 DEF PageTypes, Agents
<1>5. CASE Deliver
  <2> DEFINE e == log[lastSeq + 1]
  <2>1. /\ lastSeq + 1 \in 1..Len(log) /\ lastSeq' = lastSeq + 1 /\ e \in Events
        /\ UNCHANGED <<log, restored, listed>>
        /\ turns' \subseteq turns \cup {e.turn, Shared}
        /\ done' = IF Completes(e) THEN done \cup turns ELSE done
        /\ text' = IF Chunk(e) /\ e.turn \notin done
                   THEN [text EXCEPT ![e.turn][e.kind] = Append(@, e.n)] ELSE text
    BY <1>5, DeliverApplies
  <2> HIDE DEF e
  <2>2. e.turn \in Prompts /\ e.n \in Nat
    BY <2>1 DEF Events
  <2>3. text' \in [Prompts -> [Fields -> Seq(Nat)]]
    <3>1. CASE Chunk(e) /\ e.turn \notin done
      <4>1. e.kind \in Fields /\ text[e.turn][e.kind] \in Seq(Nat)
        BY <2>2, <3>1 DEF Chunk, PageTypes
      <4>2. Append(text[e.turn][e.kind], e.n) \in Seq(Nat)
        BY <2>2, <4>1, AppendProperties
      <4>3. text' = [text EXCEPT ![e.turn][e.kind] = Append(text[e.turn][e.kind], e.n)]
        BY <2>1, <3>1
      <4> QED
        BY <2>2, <4>1, <4>2, <4>3 DEF PageTypes
    <3>2. CASE ~(Chunk(e) /\ e.turn \notin done)
      BY <2>1, <3>2 DEF PageTypes
    <3> QED
      BY <3>1, <3>2
  <2>4. turns' \subseteq Agents /\ done' \subseteq Agents
    BY <2>1, <2>2 DEF PageTypes, Agents
  <2>5. lastSeq' \in 0..Len(log)
    BY <2>1 DEF PageTypes
  <2> QED
    BY <2>1, <2>3, <2>4, <2>5 DEF PageTypes
<1>6. CASE Reload
  <2>1. Len(log) \in Nat /\ <<>> \in Seq(Nat) /\ <<>> \in Seq(Entries)
    BY LenProperties DEF ServerTypes
  <2>2. /\ lastSeq' = 0 /\ turns' = {} /\ done' = {} /\ restored' = {} /\ log' = log
        /\ text' = [m \in Prompts |-> [f \in Fields |-> <<>>]]
        /\ listed' = [v \in Visits |-> <<>>]
    BY <1>6, ReloadForgets
  <2>3. listed' \in [Visits -> Seq(Entries)]
    BY <2>1, <2>2
  <2>4. text' \in [Prompts -> [Fields -> Seq(Nat)]]
    BY <2>1, <2>2
  <2> QED
    BY <2>1, <2>2, <2>3, <2>4 DEF PageTypes
<1> QED
  BY <1>1, <1>2, <1>3, <1>4, <1>5, <1>6 DEF PageMove

LEMMA FollowedKept ==
  ASSUME ServerTypes, PageTypes, Followed, ServerMove \/ PageMove
  PROVE  Followed'
<1>0. lastSeq \in Nat /\ lastSeq <= Len(log) /\ Len(log) \in Nat
      /\ 1..((lastSeq + 1) - 1) = 1..lastSeq
  BY LenProperties DEF PageTypes, ServerTypes
<1>1. ASSUME UNCHANGED <<lastSeq, turns, done, restored>>, \A i \in 1..lastSeq : log'[i] = log[i]
      PROVE  Followed'
  <2>1. \A m \in Prompts : Dropped(m, lastSeq + 1)' <=> Dropped(m, lastSeq + 1)
    BY <1>0, <1>1 DEF Dropped, Chunk, Completes
  <2> QED
    BY <1>1, <2>1 DEF Followed, Chunk
<1>2. CASE ServerMove
  <2>1. PageStill /\ \A i \in 1..lastSeq : log'[i] = log[i]
    BY <1>0, <1>2, ServerMovesLeavePage, LogGrows
  <2> QED
    BY <1>1, <2>1 DEF PageStill
<1>3. CASE PageStill /\ UNCHANGED log
  BY <1>1, <1>3 DEF PageStill
<1>4. ASSUME NEW v \in Visits, Visit(v), UNCHANGED log PROVE Followed'
  BY <1>1, <1>4 DEF Visit, chat, rows
<1>5. ASSUME NEW v \in Visits, Restore(v) PROVE Followed'
  <2>1. PICK T \in SUBSET Prompts :
           /\ restored' = restored \cup T /\ done \subseteq done' /\ done' \subseteq done \cup T
           /\ UNCHANGED <<turns, lastSeq, log>>
    BY <1>5, RestoreDraws
  <2>2. \A m \in Prompts \ restored' : m \notin restored /\ (m \in done' <=> m \in done)
    BY <2>1
  <2>3. \A m \in Prompts : Dropped(m, lastSeq + 1)' <=> Dropped(m, lastSeq + 1)
    BY <2>1 DEF Dropped, Chunk, Completes
  <2> QED
    BY <2>1, <2>2, <2>3 DEF Followed, Chunk
<1>6. CASE Deliver
  <2> DEFINE e == log[lastSeq + 1]
  <2>1. /\ lastSeq' = lastSeq + 1 /\ UNCHANGED <<log, restored>>
        /\ \A m \in Prompts : m \in turns' <=> m \in turns \/ (Chunk(e) /\ m = e.turn)
        /\ done' = IF Completes(e) THEN done \cup turns ELSE done
    BY <1>6, DeliverApplies
  <2>2. \A i \in 1..lastSeq' : i \in 1..lastSeq \/ i = lastSeq + 1
    BY <1>0, <2>1
  <2>3. 1..lastSeq \subseteq 1..lastSeq' /\ lastSeq + 1 \in 1..lastSeq'
        /\ \A i \in 1..lastSeq : i < lastSeq + 1
    BY <1>0, <2>1
  <2>4. ASSUME NEW m \in Prompts
        PROVE  m \in turns' <=> \E i \in 1..lastSeq' : log[i].turn = m /\ Chunk(log[i])
    BY <2>1, <2>2, <2>3 DEF Followed
  <2>5. ASSUME NEW m \in Prompts \ restored
        PROVE  m \in done' <=> Dropped(m, lastSeq + 1) \/ (Completes(e) /\ m \in turns)
    BY <2>1 DEF Followed
  <2>6. ASSUME NEW m \in Prompts
        PROVE  Dropped(m, lastSeq + 1)' <=> Dropped(m, lastSeq + 1) \/ (Completes(e) /\ m \in turns)
    <3>1. Dropped(m, lastSeq + 1)' <=>
            \E h, k \in 1..lastSeq' :
              h < k /\ log[h].turn = m /\ Chunk(log[h]) /\ Completes(log[k])
      <4>1. 1..((lastSeq' + 1) - 1) = 1..lastSeq'
        BY <1>0, <2>1
      <4> QED
        BY <2>1, <4>1 DEF Dropped, Chunk, Completes
    <3>2. Dropped(m, lastSeq + 1) <=>
            \E h, k \in 1..lastSeq :
              h < k /\ log[h].turn = m /\ Chunk(log[h]) /\ Completes(log[k])
      BY <1>0 DEF Dropped
    <3>3. m \in turns <=> \E h \in 1..lastSeq : log[h].turn = m /\ Chunk(log[h])
      BY DEF Followed
    <3>4. ASSUME NEW h \in 1..lastSeq', NEW k \in 1..lastSeq', h < k,
                 log[h].turn = m, Chunk(log[h]), Completes(log[k])
          PROVE  Dropped(m, lastSeq + 1) \/ (Completes(e) /\ m \in turns)
      <4>1. h \in 1..lastSeq
        BY <1>0, <2>1, <3>4
      <4> QED
        BY <2>2, <3>2, <3>3, <3>4, <4>1
    <3>5. ASSUME Completes(e), NEW h \in 1..lastSeq, log[h].turn = m, Chunk(log[h])
          PROVE  Dropped(m, lastSeq + 1)'
      BY <2>3, <3>1, <3>5
    <3>6. Dropped(m, lastSeq + 1) => Dropped(m, lastSeq + 1)'
      BY <2>3, <3>1, <3>2
    <3> QED
      BY <3>1, <3>3, <3>4, <3>5, <3>6
  <2>7. \A m \in Prompts \ restored : m \in done' <=> Dropped(m, lastSeq + 1)'
    BY <2>5, <2>6
  <2> HIDE DEF e
  <2> QED
    BY <2>1, <2>4, <2>7 DEF Followed, Chunk
<1>7. CASE Reload
  <2>1. lastSeq' = 0 /\ turns' = {} /\ done' = {}
    BY <1>7, ReloadForgets
  <2>2. 1..0 = {} /\ 1..((0 + 1) - 1) = {}
    OBVIOUS
  <2> QED
    BY <2>1, <2>2 DEF Followed, Dropped
<1> QED
  BY <1>2, <1>3, <1>4, <1>5, <1>6, <1>7 DEF PageMove

-----------------------------------------------------------------------------
(* The text of an answer drawn from the stream.                             *)

\* s spells the chunks of the events of g in L, one for each and in their order.
Spells(s, L, g) ==
  \E from \in [1..Len(s) -> L] :
    /\ \A i \in L : \E c \in 1..Len(s) : from[c] = i
    /\ \A c, d \in 1..Len(s) : c < d => from[c] < from[d]
    /\ \A c \in 1..Len(s) : s[c] = g[from[c]].n

Upwards(s) == \A c, d \in 1..Len(s) : c < d => s[c] <= s[d]

LEMMA LiveSpelled ==
  LiveExact <=> \A m \in Prompts \ restored, f \in Fields :
                  Spells(text[m][f], Carried(m, f), log) /\ Upwards(text[m][f])
BY DEF LiveExact, Spells, Upwards

LEMMA NothingSpelled ==
  ASSUME NEW g PROVE Spells(<<>>, {}, g) /\ Upwards(<<>>)
<1>1. Len(<<>>) = 0 /\ 1..0 = {}
  OBVIOUS
<1>2. <<>> \in [1..Len(<<>>) -> {}]
  BY <1>1
<1> QED
  BY <1>1, <1>2 DEF Spells, Upwards

\* The log may grow after L.
LEMMA SpellsLater ==
  ASSUME NEW s, NEW L, NEW g, NEW h, \A i \in L : h[i] = g[i], Spells(s, L, g)
  PROVE  Spells(s, L, h)
BY DEF Spells

\* One more event, and its chunk.
LEMMA SpellsMore ==
  ASSUME NEW s \in Seq(Nat), NEW N \in Nat, NEW L \in SUBSET (1..N), NEW g,
         g[N + 1].n \in Nat, Spells(s, L, g), Upwards(s),
         \A i \in L : g[i].n <= g[N + 1].n
  PROVE  LET t == Append(s, g[N + 1].n) IN Spells(t, L \cup {N + 1}, g) /\ Upwards(t)
<1> DEFINE x == g[N + 1].n
           t == Append(s, x)
<1>1. /\ Len(s) \in Nat /\ Len(t) = Len(s) + 1 /\ t[Len(s) + 1] = x
      /\ \A c \in 1..Len(s) : t[c] = s[c] /\ s[c] \in Nat
  <2> HIDE DEF x
  <2>1. x \in Nat
    BY DEF x
  <2> QED
    BY <2>1, LenProperties, AppendProperties, ElementOfSeq
<1>2. PICK from \in [1..Len(s) -> L] :
        /\ \A i \in L : \E c \in 1..Len(s) : from[c] = i
        /\ \A c, d \in 1..Len(s) : c < d => from[c] < from[d]
        /\ \A c \in 1..Len(s) : s[c] = g[from[c]].n
  BY DEF Spells
<1> DEFINE next == [c \in 1..Len(t) |-> IF c \in 1..Len(s) THEN from[c] ELSE N + 1]
<1> HIDE DEF t
<1>3. \A c \in 1..Len(t) : c \in 1..Len(s) \/ c = Len(s) + 1
  BY <1>1
<1>4. /\ \A c \in 1..Len(s) : c \in 1..Len(t) /\ next[c] = from[c] /\ c < Len(s) + 1
      /\ Len(s) + 1 \in 1..Len(t) /\ Len(s) + 1 \notin 1..Len(s) /\ next[Len(s) + 1] = N + 1
  BY <1>1
<1>5. next \in [1..Len(t) -> L \cup {N + 1}]
  BY <1>2
<1> HIDE DEF next
<1>6. \A i \in L \cup {N + 1} : \E c \in 1..Len(t) : next[c] = i
  BY <1>2, <1>4
<1>7. ASSUME NEW c \in 1..Len(t), NEW d \in 1..Len(t), c < d
      PROVE  next[c] < next[d] /\ t[c] <= t[d]
  <2>1. c \in 1..Len(s)
    BY <1>1, <1>7
  <2>2. from[c] \in L /\ s[c] = g[from[c]].n
    BY <1>2, <2>1
  <2>3. from[c] < N + 1
    <3>1. \A i \in 1..N : i < N + 1
      OBVIOUS
    <3> QED
      BY <2>2, <3>1
  <2>4. CASE d \in 1..Len(s)
    BY <1>1, <1>2, <1>4, <1>7, <2>1, <2>4 DEF Upwards
  <2>5. CASE d = Len(s) + 1
    <3>1. t[c] = s[c] /\ t[d] = x /\ s[c] <= x
      BY <1>1, <2>1, <2>2, <2>5
    <3> QED
      BY <1>4, <2>1, <2>3, <2>5, <3>1
  <2> QED
    BY <1>3, <2>4, <2>5
<1>8. \A c \in 1..Len(t) : t[c] = g[next[c]].n
  BY <1>1, <1>2, <1>3, <1>4
<1> QED
  BY <1>5, <1>6, <1>7, <1>8 DEF Spells, Upwards, t

\* The events applied that carry a chunk, after one more event.
LEMMA CarriedNext ==
  ASSUME lastSeq \in Nat, lastSeq' = lastSeq + 1, log' = log, NEW m, NEW f
  PROVE  LET e == log[lastSeq + 1]
         IN Carried(m, f)' =
              IF e.turn = m /\ e.kind = f /\ ~Dropped(m, lastSeq + 1)
              THEN Carried(m, f) \cup {lastSeq + 1} ELSE Carried(m, f)
<1>1. \A i : i \in 1..lastSeq' <=> i \in 1..lastSeq \/ i = lastSeq + 1
  OBVIOUS
<1>2. /\ Carried(m, f)  = {i \in 1..lastSeq : log[i].turn = m /\ log[i].kind = f /\ ~Dropped(m, i)}
      /\ Carried(m, f)' = {i \in 1..lastSeq' : log[i].turn = m /\ log[i].kind = f /\ ~Dropped(m, i)}
  BY DEF Carried, Dropped, Chunk, Completes
<1> HIDE DEF Carried
<1> QED
  BY <1>1, <1>2

LEMMA LiveKept ==
  ASSUME ServerTypes, PageTypes, LogNumbers, Followed, LiveExact, ServerMove \/ PageMove
  PROVE  LiveExact'
<1>0. lastSeq \in Nat /\ lastSeq <= Len(log) /\ Len(log) \in Nat
  BY LenProperties DEF PageTypes, ServerTypes
<1>1. \A m \in Prompts \ restored, f \in Fields :
        Spells(text[m][f], Carried(m, f), log) /\ Upwards(text[m][f])
  BY LiveSpelled
<1>2. SUFFICES ASSUME NEW m \in Prompts \ restored', NEW f \in Fields
               PROVE  Spells(text'[m][f], Carried(m, f)', log') /\ Upwards(text'[m][f])
  BY DEF LiveExact, Spells, Upwards
<1>3. ASSUME UNCHANGED lastSeq, restored \subseteq restored', text'[m] = text[m],
             \A i \in 1..lastSeq : log'[i] = log[i]
      PROVE  Spells(text'[m][f], Carried(m, f)', log') /\ Upwards(text'[m][f])
  <2>1. Carried(m, f)' = Carried(m, f)
    <3>1. \A i \in 1..lastSeq : \A k \in 1..(i - 1) : k \in 1..lastSeq
      BY <1>0
    <3>2. \A i \in 1..lastSeq : \A k \in 1..(i - 1) :
            log'[k] = log[k] /\ (Chunk(log[k])' <=> Chunk(log[k]))
                             /\ (Completes(log[k])' <=> Completes(log[k]))
      BY <1>3, <3>1 DEF Chunk, Completes
    <3> QED
      BY <1>3, <3>2 DEF Carried
  <2>2. \A i \in Carried(m, f) : log'[i] = log[i]
    BY <1>3 DEF Carried
  <2>3. Spells(text[m][f], Carried(m, f), log) /\ Upwards(text[m][f])
    BY <1>1, <1>3
  <2>4. Spells(text[m][f], Carried(m, f), log')
    BY <2>2, <2>3, SpellsLater
  <2> QED
    BY <1>3, <2>1, <2>3, <2>4
<1>4. CASE ServerMove
  <2>1. PageStill /\ \A i \in 1..lastSeq : log'[i] = log[i]
    BY <1>0, <1>4, ServerMovesLeavePage, LogGrows
  <2> QED
    BY <1>3, <2>1 DEF PageStill
<1>5. CASE PageStill /\ UNCHANGED log
  BY <1>3, <1>5 DEF PageStill
<1>6. ASSUME NEW v \in Visits, Visit(v), UNCHANGED log
      PROVE  Spells(text'[m][f], Carried(m, f)', log') /\ Upwards(text'[m][f])
  BY <1>3, <1>6 DEF Visit, chat, rows
<1>7. ASSUME NEW v \in Visits, Restore(v)
      PROVE  Spells(text'[m][f], Carried(m, f)', log') /\ Upwards(text'[m][f])
  <2>1. PICK T \in SUBSET Prompts :
           /\ restored' = restored \cup T
           /\ UNCHANGED <<turns, lastSeq, log>>
           /\ \A n \in Prompts \ T : text'[n] = text[n]
    BY <1>7, RestoreDraws
  <2> QED
    BY <1>3, <2>1
<1>8. CASE Deliver
  <2> DEFINE e == log[lastSeq + 1]
             s == text[m][f]
  <2>1. /\ lastSeq + 1 \in 1..Len(log) /\ lastSeq' = lastSeq + 1 /\ e \in Events
        /\ UNCHANGED <<log, restored>>
        /\ text' = IF Chunk(e) /\ e.turn \notin done
                   THEN [text EXCEPT ![e.turn][e.kind] = Append(@, e.n)] ELSE text
    BY <1>8, DeliverApplies
  <2>2. Spells(s, Carried(m, f), log) /\ Upwards(s) /\ s \in Seq(Nat)
    BY <1>1, <2>1 DEF PageTypes
  <2>3. m \in done <=> Dropped(m, lastSeq + 1)
    BY <2>1 DEF Followed
  <2>4. Carried(m, f)' = IF e.turn = m /\ e.kind = f /\ ~Dropped(m, lastSeq + 1)
                         THEN Carried(m, f) \cup {lastSeq + 1} ELSE Carried(m, f)
    BY <1>0, <2>1, CarriedNext
  <2>5. CASE ~(e.turn = m /\ e.kind = f /\ m \notin done)
    <3>1. text'[m][f] = s
      BY <2>1, <2>5 DEF PageTypes
    <3> HIDE DEF e, s
    <3> QED
      BY <2>1, <2>2, <2>3, <2>4, <2>5, <3>1
  <2>6. CASE e.turn = m /\ e.kind = f /\ m \notin done
    <3>1. Chunk(e) /\ e.n \in Nat
      BY <2>1, <2>6 DEF Chunk, Events
    <3>2. text'[m][f] = Append(s, e.n)
      BY <2>1, <2>6, <3>1 DEF PageTypes
    <3>3. Carried(m, f) \in SUBSET (1..lastSeq)
      BY DEF Carried
    <3>4. \A i \in Carried(m, f) : log[i].n <= e.n
      <4>1. \A i \in Carried(m, f) :
              i \in 1..Len(log) /\ i < lastSeq + 1 /\ log[i].turn = m
        BY <1>0 DEF Carried
      <4> QED
        BY <2>1, <2>6, <3>1, <4>1 DEF LogNumbers
    <3>5. Spells(Append(s, e.n), Carried(m, f) \cup {lastSeq + 1}, log) /\ Upwards(Append(s, e.n))
      <4> HIDE DEF s
      <4> QED
        BY <1>0, <2>2, <3>1, <3>3, <3>4, SpellsMore
    <3> HIDE DEF e, s
    <3> QED
      BY <2>1, <2>3, <2>4, <2>6, <3>2, <3>5
  <2> QED
    BY <2>5, <2>6
<1>9. CASE Reload
  <2>1. text'[m][f] = <<>> /\ lastSeq' = 0
    BY <1>9, ReloadForgets
  <2>2. Carried(m, f)' = {}
    BY <2>1 DEF Carried
  <2>3. Spells(<<>>, {}, log') /\ Upwards(<<>>)
    BY NothingSpelled
  <2> QED
    BY <2>1, <2>2, <2>3
<1> QED
  BY <1>4, <1>5, <1>6, <1>7, <1>8, <1>9 DEF PageMove

-----------------------------------------------------------------------------

LEMMA LInvInit == CInit => LInv
<1> SUFFICES ASSUME CInit PROVE LInv
  OBVIOUS
<1>1. log = <<>> /\ entries = <<>> /\ Len(<<>>) = 0
  BY DEF CInit
<1>2. ServerTypes
  BY <1>1 DEF CInit, ServerTypes, Phases
<1>3. PageTypes
  <2>1. <<>> \in Seq(Nat) /\ <<>> \in Seq(Entries)
    OBVIOUS
  <2> QED
    BY <1>1, <2>1 DEF CInit, PageTypes, Blank
<1>4. Storing
  BY ChatAssumption DEF CInit, Storing
<1>5. LogNumbers
  BY <1>1 DEF LogNumbers
<1>6. Followed
  <2>1. lastSeq = 0 /\ turns = {} /\ done = {} /\ 1..0 = {} /\ 1..((0 + 1) - 1) = {}
    BY DEF CInit
  <2> QED
    BY <2>1 DEF Followed, Dropped
<1>7. LiveExact
  <2>1. \A m \in Prompts, f \in Fields : text[m][f] = <<>> /\ Carried(m, f) = {}
    BY DEF CInit, Blank, Carried
  <2> QED
    BY <2>1, NothingSpelled, LiveSpelled
<1> QED
  BY <1>2, <1>3, <1>4, <1>5, <1>6, <1>7 DEF LInv

LEMMA LInvNext == LInv /\ [CNext]_cvars => LInv'
<1> SUFFICES ASSUME LInv, [CNext]_cvars PROVE LInv'
  OBVIOUS
<1>1. ServerMove \/ PageMove
  BY Moves DEF LInv, ServerTypes
<1>2. ServerTypes'
  <2>1. CASE ServerMove
    BY <2>1, ServerTypesKept DEF LInv
  <2>2. CASE PageMove
    BY <2>2 DEF LInv, PageMove, ServerTypes
  <2> QED
    BY <1>1, <2>1, <2>2
<1>3. Storing' /\ LogNumbers'
  <2>1. CASE ServerMove
    BY <2>1, StoringKept, NumbersKept DEF LInv
  <2>2. CASE PageMove
    BY <2>2 DEF LInv, PageMove, Storing, LogNumbers, Chunk
  <2> QED
    BY <1>1, <2>1, <2>2
<1>4. PageTypes' /\ Followed' /\ LiveExact'
  BY <1>1, PageTypesKept, FollowedKept, LiveKept DEF LInv
<1> QED
  BY <1>2, <1>3, <1>4 DEF LInv

\* In every reachable state, for any number of prompts, chunks, visits and faults, an
\* answer drawn from the stream is that of the events that carried it, one chunk for each
\* and in their order (runSubscription's cursor, applyChunk and completeTurns of
\* bridge.ts), whatever a runtime reports and whichever publications fail or repeat.
THEOREM AnswersExact == CSpec => []LiveExact
<1>1. CInit => LInv
  BY LInvInit
<1>2. LInv /\ [CNext]_cvars => LInv'
  BY LInvNext
<1>3. LInv => LiveExact
  BY DEF LInv
<1> QED
  BY <1>1, <1>2, <1>3, PTL DEF CSpec

-----------------------------------------------------------------------------
(* Least elements, and induction over a set of numbers in place of an       *)
(* operator.                                                                *)

LEMMA LeastElement ==
  ASSUME NEW S \in SUBSET Nat, S # {}
  PROVE  \E n \in S : \A m \in S : n <= m
<1> DEFINE R == {ss \in Nat \X Nat : ss[1] < ss[2]}
<1>1. IsWellFoundedOn(R, Nat)
  BY NatLessThanWellFounded DEF OpToRel
<1>2. \E x \in S : \A y \in S : ~(<<y, x>> \in R)
  <2> HIDE DEF R
  <2> QED
    BY <1>1, WFMin
<1>3. \A x, y \in Nat : <<y, x>> \in R <=> y < x
  OBVIOUS
<1> HIDE DEF R
<1>4. PICK n \in S : \A m \in S : ~(<<m, n>> \in R)
  BY <1>2
<1>5. ASSUME NEW m \in S PROVE n <= m
  <2>1. ~(m < n)
    BY <1>3, <1>4
  <2> QED
    BY <2>1
<1> QED
  BY <1>5

LEMMA SetInduction ==
  ASSUME NEW T, 0 \in T, \A n \in Nat : n \in T => n + 1 \in T
  PROVE  Nat \subseteq T
<1> SUFFICES ASSUME Nat \ T # {} PROVE FALSE
  OBVIOUS
<1>1. PICK n \in Nat \ T : \A m \in Nat \ T : n <= m
  BY LeastElement
<1>2. n - 1 \in Nat /\ n - 1 \in T
  BY <1>1
<1> QED
  BY <1>1, <1>2

-----------------------------------------------------------------------------
(* The operators of a restore.                                              *)

StampTypes == sentAt \in [Prompts -> Nat] /\ storedAt \in [Prompts -> Nat]

LEMMA StampTyped == StampTypes => \A i \in UserRows : Stamp(i) \in Nat
<1> SUFFICES ASSUME StampTypes, NEW i \in UserRows PROVE Stamp(i) \in Nat
  OBVIOUS
<1>1. CASE \E m \in Prompts : i = Sent(m)
  BY <1>1 DEF StampTypes, Stamp, Sent
<1>2. CASE \E m \in Prompts : i = Real(m)
  BY <1>2 DEF StampTypes, Stamp, Real
<1> QED
  BY <1>1, <1>2 DEF UserRows

\* The parent of a new row is one of the messages it is chosen from, or none.
LEMMA LatestKnown ==
  ASSUME StampTypes, NEW us \in SUBSET UserRows, NEW at \in Nat
  PROVE  LatestUserBefore(us, at) \in us \cup {None}
<1> DEFINE known == {i \in us : Stamp(i) <= at}
           ages == {at - Stamp(i) : i \in known}
<1>1. \A i \in known : i \in us /\ Stamp(i) \in Nat /\ Stamp(i) <= at
  BY StampTyped
<1>2. CASE known = {}
  BY <1>2 DEF LatestUserBefore
<1>3. CASE known # {}
  <2>1. ages \in SUBSET Nat /\ ages # {}
    BY <1>1, <1>3
  <2>2. PICK n \in ages : \A a \in ages : n <= a
    <3> HIDE DEF ages
    <3> QED
      BY <2>1, LeastElement
  <2>3. PICK i \in known : n = at - Stamp(i)
    OBVIOUS
  <2>4. \A j \in known : at - Stamp(i) <= at - Stamp(j)
    BY <2>2, <2>3
  <2>5. \A j \in known : Stamp(j) <= Stamp(i)
    <3> HIDE DEF known
    <3> QED
      BY <1>1, <2>3, <2>4
  <2>6. LatestUserBefore(us, at) = CHOOSE x \in known : \A j \in known : Stamp(j) <= Stamp(x)
    BY <1>3 DEF LatestUserBefore
  <2>7. (CHOOSE x \in known : \A j \in known : Stamp(j) <= Stamp(x)) \in known
    <3> HIDE DEF known
    <3> QED
      BY <2>3, <2>5
  <2> QED
    BY <2>6, <2>7
<1> QED
  BY <1>2, <1>3

Sents == {Sent(m) : m \in Prompts}

LEMMA SentTyped ==
  \A m, n \in Prompts : /\ Sent(m)[2] = m /\ Sent(m) \in Sents /\ Sent(m) # Real(n)
                        /\ (Sent(m) = Sent(n) => m = n) /\ (Real(m) = Real(n) => m = n)
BY DEF Sent, Real, Sents

LEMMA RangeTaken ==
  ASSUME NEW S, NEW s \in Seq(S), NEW k \in 1..Len(s)
  PROVE  /\ RemoveAt(s, k) \in Seq(S)
         /\ Range(RemoveAt(s, k)) \subseteq Range(s)
         /\ Range(s) \subseteq Range(RemoveAt(s, k)) \cup {s[k]}
<1> DEFINE a == SubSeq(s, 1, k - 1)
           b == SubSeq(s, k + 1, Len(s))
<1>1. Len(s) \in Nat
  BY LenProperties
<1>2. /\ a \in Seq(S) /\ Len(a) = k - 1 /\ \A i \in 1..(k - 1) : a[i] = s[i]
  <2>1. \A i \in 1..(k - 1) : i \in 1..Len(s)
    BY <1>1
  <2>2. s[1] \in S
    BY <1>1, ElementOfSeq
  <2> QED
    BY <1>1, SubSeqProperties
<1>3. /\ b \in Seq(S) /\ Len(b) = Len(s) - k /\ \A i \in 1..(Len(s) - k) : b[i] = s[k + i]
  BY <1>1, SubSeqProperties
<1>4. RemoveAt(s, k) = a \o b
  BY DEF RemoveAt
<1> HIDE DEF a, b
<1>5. RemoveAt(s, k) \in Seq(S) /\ Range(RemoveAt(s, k)) = Range(a) \cup Range(b)
  BY <1>2, <1>3, <1>4, ConcatProperties, RangeConcatenation
<1>6. /\ Range(s) = {s[i] : i \in 1..Len(s)}
      /\ Range(a) = {a[i] : i \in 1..(k - 1)}
      /\ Range(b) = {b[i] : i \in 1..(Len(s) - k)}
  BY <1>2, <1>3, RangeEquality
<1>7. Range(a) \subseteq Range(s) /\ Range(b) \subseteq Range(s)
  <2>1. \A i \in 1..(k - 1) : i \in 1..Len(s) /\ a[i] = s[i]
    BY <1>1, <1>2
  <2>2. \A i \in 1..(Len(s) - k) : k + i \in 1..Len(s) /\ b[i] = s[k + i]
    BY <1>1, <1>3
  <2> QED
    BY <1>6, <2>1, <2>2
<1>8. ASSUME NEW i \in 1..Len(s), i # k PROVE s[i] \in Range(a) \cup Range(b)
  <2>1. CASE i < k
    BY <1>1, <1>2, <1>6, <2>1
  <2>2. CASE i > k
    <3>1. i - k \in 1..(Len(s) - k) /\ k + (i - k) = i
      BY <1>1, <2>2
    <3> QED
      BY <1>3, <1>6, <3>1
  <2> QED
    BY <1>1, <1>8, <2>1, <2>2
<1> QED
  BY <1>5, <1>6, <1>7, <1>8

\* dedupeOptimisticUserMessage withdraws one optimistic row that says the same, or
\* finds none: then the prompt's own is gone, hidden or too far.
LEMMA DedupeStep ==
  ASSUME NEW acc, acc.ids \in Seq(Sents), NEW m \in Prompts
  PROVE  LET d == Dedupe(acc, m)
         IN \/ /\ d = acc
               /\ Sent(m) \in Range(acc.ids) \cap shown => ~Near(Sent(m), Real(m))
            \/ \E x \in Prompts :
                 /\ Sent(x) \in shown /\ Text[x] = Text[m]
                 /\ d.ids \in Seq(Sents) /\ Range(acc.ids) \subseteq Range(d.ids) \cup {Sent(x)}
                 /\ d.copies = acc.copies \cup {<<Sent(x), Real(m)>>}
<1> DEFINE same == {k \in 1..Len(acc.ids) :
                      /\ acc.ids[k] \in shown
                      /\ Text[acc.ids[k][2]] = Text[m]
                      /\ Near(acc.ids[k], Real(m))}
           k == CHOOSE x \in same : \A y \in same : x <= y
           d == Dedupe(acc, m)
<1>1. Len(acc.ids) \in Nat /\ same \in SUBSET Nat
  BY LenProperties
<1>2. CASE same = {}
  <2>1. d = acc
    BY <1>2 DEF Dedupe
  <2>2. ASSUME Sent(m) \in Range(acc.ids), Sent(m) \in shown, Near(Sent(m), Real(m)) PROVE FALSE
    <3>1. PICK i \in 1..Len(acc.ids) : acc.ids[i] = Sent(m)
      BY <2>2, RangeEquality
    <3>2. i \in same
      BY <2>2, <3>1, SentTyped
    <3> QED
      BY <1>2, <3>2
  <2> QED
    BY <2>1, <2>2
<1>3. CASE same # {}
  <2>1. d = [ids |-> RemoveAt(acc.ids, k), copies |-> acc.copies \cup {<<acc.ids[k], Real(m)>>}]
    BY <1>3 DEF Dedupe
  <2>2. k \in same
    <3> HIDE DEF same
    <3> QED
      BY <1>1, <1>3, LeastElement
  <2>3. k \in 1..Len(acc.ids) /\ acc.ids[k] \in shown /\ Text[acc.ids[k][2]] = Text[m]
    <3> HIDE DEF k
    <3> QED
      BY <2>2
  <2> HIDE DEF k, same
  <2>4. acc.ids[k] \in Sents
    BY <2>3, ElementOfSeq
  <2>5. PICK x \in Prompts : acc.ids[k] = Sent(x)
    BY <2>4 DEF Sents
  <2>6. Text[x] = Text[m] /\ Sent(x) \in shown
    BY <2>3, <2>5, SentTyped
  <2>7. /\ RemoveAt(acc.ids, k) \in Seq(Sents)
        /\ Range(acc.ids) \subseteq Range(RemoveAt(acc.ids, k)) \cup {Sent(x)}
    BY <2>3, <2>5, RangeTaken
  <2>8. d.ids = RemoveAt(acc.ids, k) /\ d.copies = acc.copies \cup {<<Sent(x), Real(m)>>}
    BY <2>1, <2>5
  <2> HIDE DEF d
  <2> QED
    BY <2>6, <2>7, <2>8 DEF d
<1> QED
  BY <1>2, <1>3

Gone(acc) == {c[1] : c \in acc.copies}

UserEntry(list, i, m) == list[i].part = "user" /\ list[i].turn = m

\* What the loop of dedupeOptimistic has done after k messages.
DedupedTo(acc, list, k) ==
  /\ acc.ids \in Seq(Sents)
  /\ \A c \in acc.copies : \E x, n \in Prompts :
       /\ c = <<Sent(x), Real(n)>> /\ Sent(x) \in shown /\ Text[x] = Text[n]
       /\ \E i \in 1..k : UserEntry(list, i, n)
  /\ Range(optimistic) \subseteq Range(acc.ids) \cup Gone(acc)
  /\ \A m \in Prompts : (\E i \in 1..k : UserEntry(list, i, m)) =>
       \/ Sent(m) \notin Range(optimistic) \cap shown
       \/ ~Near(Sent(m), Real(m))
       \/ \E n \in Prompts : Text[n] = Text[m] /\ Sent(n) \in Gone(acc)

LEMMA DedupedNext ==
  ASSUME NEW list \in Seq(Entries), NEW k \in Nat, k + 1 \in 1..Len(list),
         NEW acc, DedupedTo(acc, list, k)
  PROVE  DedupedTo(IF list[k + 1].part = "user" THEN Dedupe(acc, list[k + 1].turn) ELSE acc,
                   list, k + 1)
<1> DEFINE e == list[k + 1]
           d == Dedupe(acc, e.turn)
<1>1. 1..(k + 1) = 1..k \cup {k + 1}
  OBVIOUS
<1>2. CASE e.part # "user"
  <2>1. \A m : (\E i \in 1..(k + 1) : UserEntry(list, i, m)) <=> \E i \in 1..k : UserEntry(list, i, m)
    BY <1>1, <1>2 DEF UserEntry
  <2>2. DedupedTo(acc, list, k + 1)
    BY <2>1 DEF DedupedTo
  <2> QED
    BY <1>2, <2>2
<1>3. CASE e.part = "user"
  <2>1. e.turn \in Prompts
    <3>1. e \in Entries
      BY ElementOfSeq
    <3> HIDE DEF e
    <3> QED
      BY <3>1 DEF Entries
  <2>2. \A m \in Prompts :
          (\E i \in 1..(k + 1) : UserEntry(list, i, m))
            <=> m = e.turn \/ \E i \in 1..k : UserEntry(list, i, m)
    BY <1>1, <1>3 DEF UserEntry
  <2>3. /\ acc.ids \in Seq(Sents)
        /\ \A c \in acc.copies : \E x, n \in Prompts :
             /\ c = <<Sent(x), Real(n)>> /\ Sent(x) \in shown /\ Text[x] = Text[n]
             /\ \E i \in 1..k : UserEntry(list, i, n)
        /\ Range(optimistic) \subseteq Range(acc.ids) \cup Gone(acc)
        /\ \A m \in Prompts : (\E i \in 1..k : UserEntry(list, i, m)) =>
             \/ Sent(m) \notin Range(optimistic) \cap shown
             \/ ~Near(Sent(m), Real(m))
             \/ \E n \in Prompts : Text[n] = Text[m] /\ Sent(n) \in Gone(acc)
    BY DEF DedupedTo
  <2> HIDE DEF e
  <2>4. ASSUME d = acc,
               Sent(e.turn) \in Range(acc.ids) \cap shown => ~Near(Sent(e.turn), Real(e.turn))
        PROVE  DedupedTo(d, list, k + 1)
    <3>1. \/ Sent(e.turn) \notin Range(optimistic) \cap shown
          \/ ~Near(Sent(e.turn), Real(e.turn))
          \/ Sent(e.turn) \in Gone(acc)
      BY <2>3, <2>4
    <3>2. DedupedTo(acc, list, k + 1)
      <4>1. \A m \in Prompts : (\E i \in 1..(k + 1) : UserEntry(list, i, m)) =>
             \/ Sent(m) \notin Range(optimistic) \cap shown
             \/ ~Near(Sent(m), Real(m))
             \/ \E n \in Prompts : Text[n] = Text[m] /\ Sent(n) \in Gone(acc)
        BY <2>1, <2>2, <2>3, <3>1
      <4>2. \A c \in acc.copies : \E x, n \in Prompts :
             /\ c = <<Sent(x), Real(n)>> /\ Sent(x) \in shown /\ Text[x] = Text[n]
             /\ \E i \in 1..(k + 1) : UserEntry(list, i, n)
        BY <2>2, <2>3
      <4> QED
        BY <2>3, <4>1, <4>2 DEF DedupedTo
    <3> HIDE DEF d
    <3> QED
      BY <2>4, <3>2
  <2>5. ASSUME NEW x \in Prompts,
               Sent(x) \in shown, Text[x] = Text[e.turn],
               d.ids \in Seq(Sents), Range(acc.ids) \subseteq Range(d.ids) \cup {Sent(x)},
               d.copies = acc.copies \cup {<<Sent(x), Real(e.turn)>>}
        PROVE  DedupedTo(d, list, k + 1)
    <3> HIDE DEF d
    <3>1. Gone(d) = Gone(acc) \cup {Sent(x)}
      <4>1. Gone(d) = {c[1] : c \in acc.copies \cup {<<Sent(x), Real(e.turn)>>}}
        BY <2>5 DEF Gone
      <4>2. <<Sent(x), Real(e.turn)>>[1] = Sent(x)
        OBVIOUS
      <4> QED
        BY <4>1, <4>2 DEF Gone
    <3>2. Range(optimistic) \subseteq Range(d.ids) \cup Gone(d)
      BY <2>3, <2>5, <3>1
    <3>3. ASSUME NEW c \in d.copies
          PROVE  \E y, n \in Prompts :
                   /\ c = <<Sent(y), Real(n)>> /\ Sent(y) \in shown /\ Text[y] = Text[n]
                   /\ \E i \in 1..(k + 1) : UserEntry(list, i, n)
      <4>1. CASE c \in acc.copies
        BY <2>2, <2>3, <4>1
      <4>2. CASE c = <<Sent(x), Real(e.turn)>>
        BY <2>1, <2>2, <2>5, <4>2
      <4> QED
        BY <2>5, <4>1, <4>2
    <3>4. ASSUME NEW m \in Prompts, \E i \in 1..(k + 1) : UserEntry(list, i, m)
          PROVE  \/ Sent(m) \notin Range(optimistic) \cap shown
                 \/ ~Near(Sent(m), Real(m))
                 \/ \E n \in Prompts : Text[n] = Text[m] /\ Sent(n) \in Gone(d)
      <4>1. CASE m = e.turn
        BY <2>5, <3>1, <4>1
      <4>2. CASE \E i \in 1..k : UserEntry(list, i, m)
        BY <2>3, <3>1, <4>2
      <4> QED
        BY <2>2, <3>4, <4>1, <4>2
    <3> QED
      BY <2>5, <3>2, <3>3, <3>4 DEF DedupedTo
  <2>6. DedupedTo(d, list, k + 1)
    <3>1. \/ /\ d = acc
             /\ Sent(e.turn) \in Range(acc.ids) \cap shown => ~Near(Sent(e.turn), Real(e.turn))
          \/ \E x \in Prompts :
               /\ Sent(x) \in shown /\ Text[x] = Text[e.turn]
               /\ d.ids \in Seq(Sents) /\ Range(acc.ids) \subseteq Range(d.ids) \cup {Sent(x)}
               /\ d.copies = acc.copies \cup {<<Sent(x), Real(e.turn)>>}
      <4>1. PICK m \in Prompts : m = e.turn
        BY <2>1
      <4>2. acc.ids \in Seq(Sents)
        BY <2>3
      <4>3. LET b == Dedupe(acc, m)
            IN \/ /\ b = acc
                  /\ Sent(m) \in Range(acc.ids) \cap shown => ~Near(Sent(m), Real(m))
               \/ \E x \in Prompts :
                    /\ Sent(x) \in shown /\ Text[x] = Text[m]
                    /\ b.ids \in Seq(Sents) /\ Range(acc.ids) \subseteq Range(b.ids) \cup {Sent(x)}
                    /\ b.copies = acc.copies \cup {<<Sent(x), Real(m)>>}
        BY <4>2, DedupeStep
      <4> QED
        BY <4>1, <4>3
    <3> HIDE DEF d
    <3>2. CASE \E x \in Prompts :
                 /\ Sent(x) \in shown /\ Text[x] = Text[e.turn]
                 /\ d.ids \in Seq(Sents) /\ Range(acc.ids) \subseteq Range(d.ids) \cup {Sent(x)}
                 /\ d.copies = acc.copies \cup {<<Sent(x), Real(e.turn)>>}
      BY <2>5, <3>2
    <3>3. CASE /\ d = acc
               /\ Sent(e.turn) \in Range(acc.ids) \cap shown => ~Near(Sent(e.turn), Real(e.turn))
      BY <2>4, <3>3
    <3> QED
      BY <3>1, <3>2, <3>3
  <2> QED
    BY <1>3, <2>6 DEF e
<1> QED
  BY <1>2, <1>3

\* The loop is a function of the number of messages it has seen.
IsLoop(g, list, N) ==
  g = [k \in 0..N |-> IF k = 0 THEN [ids |-> optimistic, copies |-> {}]
                      ELSE IF list[k].part = "user" THEN Dedupe(g[k - 1], list[k].turn)
                      ELSE g[k - 1]]

LEMMA LoopDefined ==
  ASSUME NEW list, NEW N \in Nat
  PROVE  \E g : IsLoop(g, list, N)
<1> DEFINE Next1(a, k) == IF list[k].part = "user" THEN Dedupe(a, list[k].turn) ELSE a
           zero == [ids |-> optimistic, copies |-> {}]
           T == {n \in Nat : \E g : g = [k \in 0..n |-> IF k = 0 THEN zero ELSE Next1(g[k - 1], k)]}
<1>1. 0 \in T
  <2>1. [k \in 0..0 |-> zero] = [k \in 0..0 |-> IF k = 0 THEN zero
                                  ELSE Next1([l \in 0..0 |-> zero][k - 1], k)]
    <3> HIDE DEF zero, Next1
    <3> QED OBVIOUS
  <2> HIDE DEF zero, Next1
  <2> QED
    BY <2>1
<1>2. ASSUME NEW n \in Nat, n \in T PROVE n + 1 \in T
  <2> HIDE DEF zero, Next1
  <2>1. PICK g : g = [k \in 0..n |-> IF k = 0 THEN zero ELSE Next1(g[k - 1], k)]
    BY <1>2
  <2> DEFINE h == [k \in 0..(n + 1) |-> IF k = n + 1 THEN Next1(g[n], n + 1) ELSE g[k]]
  <2>2. \A k \in 0..n : g[k] = (IF k = 0 THEN zero ELSE Next1(g[k - 1], k)) /\ h[k] = g[k]
    BY <2>1
  <2>3. \A k \in 0..(n + 1) : k # 0 => k - 1 \in 0..n
    OBVIOUS
  <2>4. \A k \in 0..(n + 1) : h[k] = IF k = 0 THEN zero ELSE Next1(h[k - 1], k)
    <3>1. h[n + 1] = Next1(g[n], n + 1) /\ n + 1 # 0 /\ n \in 0..n /\ (n + 1) - 1 = n
      OBVIOUS
    <3>2. \A k \in 0..(n + 1) : k \in 0..n \/ k = n + 1
      OBVIOUS
    <3> HIDE DEF h
    <3>3. h[n + 1] = Next1(h[n], n + 1)
      BY <2>2, <3>1
    <3>4. \A k \in 0..n : h[k] = IF k = 0 THEN zero ELSE Next1(h[k - 1], k)
      BY <2>2, <2>3
    <3> QED
      BY <3>1, <3>2, <3>3, <3>4
  <2>5. h = [k \in 0..(n + 1) |-> h[k]]
    OBVIOUS
  <2> HIDE DEF h
  <2>6. h = [k \in 0..(n + 1) |-> IF k = 0 THEN zero ELSE Next1(h[k - 1], k)]
    BY <2>4, <2>5
  <2> QED
    BY <2>6
<1>3. N \in T
  <2> HIDE DEF T
  <2> QED
    BY <1>1, <1>2, SetInduction
<1> QED
  BY <1>3 DEF IsLoop

\* What a restore withdraws: rows that say the same as a stored message it lists, and
\* for each of those the prompt's own row or another that says the same, if it is near.
LEMMA DedupedExact ==
  ASSUME NEW list \in Seq(Entries), optimistic \in Seq(Sents)
  PROVE  DedupedTo(Deduped(list), list, Len(list))
<1> DEFINE N == Len(list)
           acc == CHOOSE g : IsLoop(g, list, N)
<1>1. N \in Nat
  BY LenProperties
<1>2. Deduped(list) = acc[N]
  BY DEF Deduped, IsLoop
<1>3. IsLoop(acc, list, N)
  BY <1>1, LoopDefined
<1> HIDE DEF acc
<1>4. /\ acc[0] = [ids |-> optimistic, copies |-> {}]
      /\ \A k \in 0..N : k + 1 <= N =>
           acc[k + 1] = IF list[k + 1].part = "user" THEN Dedupe(acc[k], list[k + 1].turn) ELSE acc[k]
  <2>1. \A k \in 0..N : acc[k] = IF k = 0 THEN [ids |-> optimistic, copies |-> {}]
                         ELSE IF list[k].part = "user" THEN Dedupe(acc[k - 1], list[k].turn)
                         ELSE acc[k - 1]
    BY <1>3 DEF IsLoop
  <2>2. \A k \in 0..N : k + 1 <= N => k + 1 \in 0..N /\ k + 1 # 0 /\ (k + 1) - 1 = k
    BY <1>1
  <2>3. 0 \in 0..N
    BY <1>1
  <2> HIDE DEF N
  <2> QED
    BY <2>1, <2>2, <2>3
<1> DEFINE T == {k \in Nat : k <= N => DedupedTo(acc[k], list, k)}
<1>5. 0 \in T
  <2>1. DedupedTo([ids |-> optimistic, copies |-> {}], list, 0)
    BY DEF DedupedTo
  <2> QED
    BY <1>4, <2>1
<1>6. ASSUME NEW k \in Nat, k \in T PROVE k + 1 \in T
  <2>1. SUFFICES ASSUME k + 1 <= N PROVE DedupedTo(acc[k + 1], list, k + 1)
    OBVIOUS
  <2>2. k \in 0..N /\ k + 1 \in 1..Len(list) /\ k <= N
    BY <1>1, <2>1
  <2>3. DedupedTo(acc[k], list, k)
    BY <1>6, <2>2
  <2> QED
    BY <1>4, <2>1, <2>2, <2>3, DedupedNext
<1>7. N \in T
  <2> HIDE DEF T
  <2> QED
    BY <1>1, <1>5, <1>6, SetInduction
<1> QED
  BY <1>1, <1>2, <1>7

-----------------------------------------------------------------------------
(* The rows of the page: what draws them, what they hang under and what     *)
(* takes them away.                                                         *)

PlainTypes ==
  /\ faults \in 0..MaxFaults /\ call \in [Prompts -> Calls] /\ StampTypes
  /\ \A m \in Prompts : chunks[m] <= MaxChunks[m]
  /\ page \in {"new", "open"} /\ status \in {"busy", "idle"}
  /\ visit \in [Visits -> {"idle", "listed", "done"}]
  /\ \A v \in Visits : Len(listed[v]) <= Len(entries)
  /\ stream \in {"none", "open", "broken"}

RowTypes ==
  /\ shown \cap UserRows \subseteq users /\ users \subseteq UserRows
  /\ optimistic \in Seq(Sents)
  /\ shown \subseteq UserRows \cup Agents
  /\ turns \subseteq shown /\ done \subseteq shown \cap Agents
  /\ restored \subseteq shown \cap Prompts
  /\ parent \in [Agents -> UserRows \cup {None}]

\* What the conversation, a listing or the page holds of a prompt's stored message, it
\* holds after the prompt was stored, which is after it was sent.
Begun ==
  /\ \A m \in Prompts : call[m] = "idle" => phase[m] = "none"
  /\ \A m \in Prompts :
       (\E i \in 1..Len(entries) : UserEntry(entries, i, m)) => phase[m] # "none"
  /\ \A m \in Prompts, v \in Visits :
       (\E i \in 1..Len(listed[v]) : UserEntry(listed[v], i, m)) => phase[m] # "none"
  /\ \A m \in Prompts : Real(m) \in users => phase[m] # "none"

Failed(m) == call[m] \in {"refused", "lost"}

\* A row drawn for a send is one the next restore compares; ChatState outlives only the
\* rows of sends that failed; a page without a session has drawn and visited nothing.
Drawn ==
  /\ \A m \in Prompts : Sent(m) \in shown => sentAt[m] # 0 /\ Sent(m) \in Range(optimistic)
  /\ \A i \in users : i \in shown \/ \E m \in Prompts : i = Sent(m) /\ Failed(m)
  /\ page = "new" => shown \cap UserRows = {} /\ \A v \in Visits : visit[v] = "idle"

RInv == LInv /\ PlainTypes /\ RowTypes /\ Begun /\ Drawn /\ NoDuplicateRow /\ ParentsKept

\* What a restore does to the rows: R are the prompts whose stored message it draws, W
\* those whose optimistic row it withdraws, T the turns it draws.
RowsRestored(v, R, W, T) ==
  /\ \A m \in R : \E i \in 1..Len(listed[v]) : UserEntry(listed[v], i, m)
  /\ \A x \in W : Sent(x) \in shown /\ \E n \in R : Text[n] = Text[x]
  /\ \A m \in R :
       \/ Sent(m) \notin Range(optimistic) \cap shown
       \/ ~Near(Sent(m), Real(m))
       \/ \E n \in W : Text[n] = Text[m]
  /\ shown' = (shown \cup {Real(m) : m \in R} \cup T) \ {Sent(m) : m \in W}
  /\ users' = (users \cup {Real(m) : m \in R}) \ {Sent(m) : m \in W}
  /\ optimistic' \in Seq(Sents)
  /\ Range(optimistic) \subseteq Range(optimistic') \cup {Sent(m) : m \in W}
  /\ restored' = restored \cup T /\ done' \subseteq done \cup T
  /\ parent' \in [Agents -> UserRows \cup {None}]
  /\ \A a \in Agents :
       \/ parent'[a] \in {Real(m) : m \in R}
       \/ parent'[a] \notin {Sent(m) : m \in W}
          /\ IF a \in T THEN parent'[a] \in users \cup {None} ELSE parent'[a] = parent[a]

LEMMA RestoreRows ==
  ASSUME ServerTypes, PageTypes, StampTypes, RowTypes, NEW v \in Visits, Restore(v)
  PROVE  \E R, W, T \in SUBSET Prompts : RowsRestored(v, R, W, T)
<1> DEFINE list == listed[v]
           fresh == Fresh(list)
           T == {list[i].turn : i \in fresh}
           entry == [m \in T |-> CHOOSE i \in fresh : list[i].turn = m]
           reals == {Real(list[i].turn) : i \in {j \in 1..Len(list) : list[j].part = "user"}}
           dedup == Deduped(list)
           gone == {c[1] : c \in dedup.copies}
           linked == [a \in Agents |->
             IF a \in T THEN LatestUserBefore(users \cup reals, list[entry[a]].at) ELSE parent[a]]
           R == {m \in Prompts : \E i \in 1..Len(list) : UserEntry(list, i, m)}
           W == {x \in Prompts : Sent(x) \in gone}
<1>1. /\ shown' = (shown \cup reals \cup T) \ gone
      /\ users' = (users \cup reals) \ gone
      /\ optimistic' = dedup.ids
      /\ parent' = [a \in Agents |-> Relinked(linked[a], dedup.copies)]
      /\ restored' = restored \cup T
      /\ done' = done \cup {m \in T : entry[m] < Len(list)}
  BY DEF Restore
<1>2. list \in Seq(Entries) /\ \A i \in 1..Len(list) : list[i] \in Entries
  BY ElementOfSeq DEF PageTypes
<1> HIDE DEF list
<1>3. \A i \in 1..Len(list) : list[i].turn \in Prompts /\ list[i].at \in Nat
  BY <1>2 DEF Entries
<1>4. \A i \in fresh : i \in 1..Len(list)
  BY DEF Fresh
<1>5. T \in SUBSET Prompts
  BY <1>3, <1>4
<1>6. \A m \in T : entry[m] \in fresh
  OBVIOUS
<1>7. DedupedTo(dedup, list, Len(list))
  BY <1>2, DedupedExact DEF RowTypes
<1> HIDE DEF fresh, T, entry, dedup
<1>8. reals = {Real(m) : m \in R} /\ reals \subseteq UserRows
  BY <1>3 DEF UserEntry, UserRows
<1>9. gone = Gone(dedup)
  BY DEF Gone
<1>10. ASSUME NEW c \in dedup.copies
       PROVE  \E x \in W, n \in R :
                c = <<Sent(x), Real(n)>> /\ Sent(x) \in shown /\ Text[x] = Text[n]
  <2>1. PICK x \in Prompts, n \in Prompts :
           /\ c = <<Sent(x), Real(n)>> /\ Sent(x) \in shown /\ Text[x] = Text[n]
           /\ \E i \in 1..Len(list) : UserEntry(list, i, n)
    BY <1>7 DEF DedupedTo
  <2>2. c[1] = Sent(x) /\ c[1] \in gone
    BY <2>1
  <2> QED
    BY <2>1, <2>2
<1>11. gone = {Sent(x) : x \in W}
  <2>1. \A c \in dedup.copies : \E x \in W : c[1] = Sent(x)
    BY <1>10
  <2> QED
    BY <2>1
<1>12. \A x \in W : Sent(x) \in shown /\ \E n \in R : Text[n] = Text[x]
  <2> SUFFICES ASSUME NEW x \in W PROVE Sent(x) \in shown /\ \E n \in R : Text[n] = Text[x]
    OBVIOUS
  <2>1. PICK c \in dedup.copies : c[1] = Sent(x)
    OBVIOUS
  <2>2. PICK y \in W, n \in R :
          c = <<Sent(y), Real(n)>> /\ Sent(y) \in shown /\ Text[y] = Text[n]
    BY <1>10
  <2>3. y = x
    BY <2>1, <2>2, SentTyped
  <2> QED
    BY <2>2, <2>3
<1>13. \A m \in R :
         \/ Sent(m) \notin Range(optimistic) \cap shown
         \/ ~Near(Sent(m), Real(m))
         \/ \E n \in W : Text[n] = Text[m]
  BY <1>7, <1>9 DEF DedupedTo
<1>14. dedup.ids \in Seq(Sents) /\ Range(optimistic) \subseteq Range(dedup.ids) \cup gone
  BY <1>7, <1>9 DEF DedupedTo
<1>15. \A a \in T : linked[a] \in users \cup reals \cup {None}
  <2> SUFFICES ASSUME NEW a \in T PROVE linked[a] \in users \cup reals \cup {None}
    OBVIOUS
  <2>1. list[entry[a]].at \in Nat
    BY <1>3, <1>4, <1>6
  <2>2. users \cup reals \in SUBSET UserRows
    BY <1>8 DEF RowTypes
  <2>3. linked[a] = LatestUserBefore(users \cup reals, list[entry[a]].at)
    BY <1>5 DEF Agents
  <2> HIDE DEF reals, linked
  <2> QED
    BY <2>1, <2>2, <2>3, LatestKnown
<1>16. \A a \in Agents \ T : linked[a] = parent[a]
  OBVIOUS
<1>17. \A a \in Agents : linked[a] \in UserRows \cup {None}
  BY <1>8, <1>15, <1>16 DEF RowTypes
<1> HIDE DEF linked, reals, gone, R, W
<1>18. ASSUME NEW a \in Agents
       PROVE  \/ parent'[a] \in reals
              \/ parent'[a] = linked[a] /\ linked[a] \notin gone
  <2> DEFINE cs == {x \in dedup.copies : x[1] = linked[a]}
  <2>1. parent'[a] = Relinked(linked[a], dedup.copies)
    BY <1>1
  <2>2. CASE cs = {}
    <3>1. linked[a] \notin gone
      BY <2>2 DEF gone
    <3> QED
      BY <2>1, <2>2, <3>1 DEF Relinked
  <2>3. CASE cs # {}
    <3>1. parent'[a] = (CHOOSE x \in cs : TRUE)[2]
      BY <2>1, <2>3 DEF Relinked
    <3>2. (CHOOSE x \in cs : TRUE) \in cs
      BY <2>3
    <3>3. PICK c \in dedup.copies : parent'[a] = c[2]
      BY <3>1, <3>2
    <3>4. PICK n \in R : c[2] = Real(n)
      BY <1>10
    <3> QED
      BY <1>8, <3>3, <3>4
  <2> QED
    BY <2>2, <2>3
<1>19. parent' \in [Agents -> UserRows \cup {None}]
  <2>1. \A a \in Agents : parent'[a] \in UserRows \cup {None}
    BY <1>8, <1>17, <1>18
  <2>2. parent' = [a \in Agents |-> parent'[a]]
    BY <1>1
  <2> QED
    BY <2>1, <2>2
<1>20. R \in SUBSET Prompts /\ W \in SUBSET Prompts
  BY DEF R, W
<1>21. \A m \in R : \E i \in 1..Len(listed[v]) : UserEntry(listed[v], i, m)
  BY DEF R, list
<1>22. \A a \in Agents :
         \/ parent'[a] \in {Real(m) : m \in R}
         \/ parent'[a] \notin {Sent(m) : m \in W}
            /\ IF a \in T THEN parent'[a] \in users \cup {None} ELSE parent'[a] = parent[a]
  BY <1>8, <1>11, <1>15, <1>16, <1>18
<1>23. done' \subseteq done \cup T /\ restored' = restored \cup T
  BY <1>1
<1>24. /\ shown' = (shown \cup {Real(m) : m \in R} \cup T) \ {Sent(m) : m \in W}
       /\ users' = (users \cup {Real(m) : m \in R}) \ {Sent(m) : m \in W}
       /\ optimistic' \in Seq(Sents)
       /\ Range(optimistic) \subseteq Range(optimistic') \cup {Sent(m) : m \in W}
  BY <1>1, <1>8, <1>11, <1>14
<1>25. RowsRestored(v, R, W, T)
  BY <1>12, <1>13, <1>19, <1>21, <1>22, <1>23, <1>24 DEF RowsRestored
<1> QED
  BY <1>5, <1>20, <1>25

-----------------------------------------------------------------------------
(* What each step keeps.                                                    *)

RowsKept == PlainTypes' /\ RowTypes' /\ Begun' /\ Drawn' /\ NoDuplicateRow' /\ ParentsKept'

LEMMA NearKept ==
  ASSUME NEW m \in Prompts, sentAt'[m] = sentAt[m], storedAt'[m] = storedAt[m]
  PROVE  Near(Sent(m), Real(m))' <=> Near(Sent(m), Real(m))
BY DEF Near, Stamp, Sent, Real

\* No prompt comes by a second row, and none that was sent or stored is forgotten.
LEMMA DuplicatesKept ==
  ASSUME NoDuplicateRow,
         \A m \in Prompts : {Sent(m), Real(m)} \subseteq shown' =>
           /\ {Sent(m), Real(m)} \subseteq shown
           /\ sentAt'[m] = sentAt[m] /\ storedAt'[m] = storedAt[m],
         \A m \in Prompts : {sentAt[m], storedAt[m]} # {0} => {sentAt'[m], storedAt'[m]} # {0}
  PROVE  NoDuplicateRow'
<1> SUFFICES ASSUME NEW m \in Prompts, {Sent(m), Real(m)} \subseteq shown', Near(Sent(m), Real(m))'
             PROVE  \E n \in Prompts \ {m} :
                      Text[n] = Text[m] /\ {sentAt'[n], storedAt'[n]} # {0}
  BY DEF NoDuplicateRow, Sent, Real
<1>1. Near(Sent(m), Real(m)) /\ {Sent(m), Real(m)} \subseteq shown
  BY NearKept
<1> QED
  BY <1>1 DEF NoDuplicateRow

\* A message drawn stays, an answer keeps its parent, a send that failed has failed.
LEMMA ParentsStay ==
  ASSUME ParentsKept,
         \A a \in Agents \cap shown' : a \in shown /\ parent'[a] = parent[a],
         shown \subseteq shown', \A m \in Prompts : Failed(m) => Failed(m)'
  PROVE  ParentsKept'
<1> SUFFICES ASSUME NEW a \in Agents \cap shown'
             PROVE  \/ parent'[a] \in shown' \cup {None}
                    \/ \E m \in Prompts : parent'[a] = Sent(m) /\ Failed(m)'
  BY DEF ParentsKept, Failed, Sent
<1>1. \/ parent[a] \in shown \cup {None}
      \/ \E m \in Prompts : parent[a] = Sent(m) /\ Failed(m)
  BY DEF ParentsKept, Failed
<1> QED
  BY <1>1

\* The step leaves the rows and what ChatState knows of them alone.
RowsStill == UNCHANGED <<sentAt, users, optimistic, turns, restored, shown, parent, done>>

LEMMA StillKept ==
  ASSUME RowTypes, NoDuplicateRow, ParentsKept, RowsStill,
         \A m \in Prompts : Real(m) \in shown => storedAt'[m] = storedAt[m],
         \A m \in Prompts : storedAt[m] # 0 => storedAt'[m] # 0,
         \A m \in Prompts : Failed(m) => Failed(m)'
  PROVE  RowTypes' /\ NoDuplicateRow' /\ ParentsKept'
<1> USE DEF RowsStill
<1>1. RowTypes'
  BY DEF RowTypes
<1>2. NoDuplicateRow'
  BY DuplicatesKept
<1>3. ParentsKept'
  BY ParentsStay
<1> QED
  BY <1>1, <1>2, <1>3

\* The prompts stored according to a conversation.
StoredIn(list) == {m \in Prompts : \E i \in 1..Len(list) : UserEntry(list, i, m)}

LEMMA BegunAs ==
  Begun <=>
    /\ \A m \in Prompts : call[m] = "idle" => phase[m] = "none"
    /\ \A m \in StoredIn(entries) : phase[m] # "none"
    /\ \A v \in Visits : \A m \in StoredIn(listed[v]) : phase[m] # "none"
    /\ \A m \in Prompts : Real(m) \in users => phase[m] # "none"
BY DEF Begun, StoredIn

LEMMA StoredAppend ==
  ASSUME entries \in Seq(Entries), NEW e \in Entries, entries' = Append(entries, e)
  PROVE  /\ Len(entries) \in Nat /\ Len(entries') = Len(entries) + 1
         /\ StoredIn(entries') \subseteq
              StoredIn(entries) \cup (IF e.part = "user" THEN {e.turn} ELSE {})
<1> DEFINE N == Len(entries)
<1>1. /\ N \in Nat /\ Len(entries') = N + 1 /\ entries'[N + 1] = e
      /\ \A i \in 1..N : entries'[i] = entries[i]
  BY LenProperties, AppendProperties
<1> HIDE DEF N
<1>2. \A i \in 1..(N + 1) : i \in 1..N \/ i = N + 1
  BY <1>1
<1> QED
  BY <1>1, <1>2 DEF StoredIn, UserEntry, N

\* Work of the server on a turn begun.
LEMMA WorkKeeps ==
  ASSUME RInv, NEW m \in Prompts,
         \/ Serve(m) \/ StartFails(m) \/ CallTool(m) \/ RunFails(m)
         \/ \E kind \in {"running", "idle", "error"} : Report(m, kind)
         \/ \E f \in Fields : AppendText(m, f) \/ PublishFails(m, f)
  PROVE  RowsKept
<1> USE DEF view, sends, net, chat, rows, RInv, LInv
<1>0. /\ phase \in [Prompts -> Phases] /\ chunks \in [Prompts -> Nat] /\ clock \in Nat
      /\ entries \in Seq(Entries) /\ MaxFaults \in Nat
  BY ChatAssumption DEF ServerTypes
<1>1. /\ UNCHANGED <<storedAt, view>>
      /\ faults' \in 0..MaxFaults
      /\ \A n \in Prompts : phase'[n] = "none" => phase[n] = "none"
      /\ \A n \in Prompts : phase[n] = "none" => phase'[n] = "none"
      /\ \A n \in Prompts : chunks'[n] <= MaxChunks[n]
      /\ Len(entries) <= Len(entries') /\ StoredIn(entries') \subseteq StoredIn(entries)
  <2>0. Len(entries) <= Len(entries)
    BY <1>0, LenProperties
  <2>1. /\ \A k, n : Publish(k, m, n) => faults' \in 0..MaxFaults
        /\ Fault => faults' \in 0..MaxFaults
    BY <1>0 DEF Publish, Fault, PlainTypes
  <2>2. CASE Start(m) \/ StartFails(m)
    BY <1>0, <2>0, <2>1, <2>2 DEF Start, StartFails, PlainTypes
  <2>3. CASE Announce(m) \/ Finish(m)
    BY <1>0, <2>0, <2>1, <2>3 DEF Announce, Finish, PlainTypes
  <2>4. ASSUME NEW f \in Fields, PublishChunk(m, f)
        PROVE  UNCHANGED <<storedAt, view, phase, chunks, entries>> /\ faults' \in 0..MaxFaults
    BY <2>1, <2>4 DEF PublishChunk
  <2>5. CASE CallTool(m)
    <3>1. /\ chunks[m] < MaxChunks[m] /\ chunks' = [chunks EXCEPT ![m] = chunks[m] + 1]
          /\ UNCHANGED <<storedAt, view, phase, entries>> /\ faults' \in 0..MaxFaults
      BY <2>1, <2>5 DEF CallTool
    <3>2. MaxChunks[m] \in Nat /\ chunks[m] \in Nat
      BY <1>0, ChatAssumption
    <3>3. \A n \in Prompts : chunks'[n] <= MaxChunks[n]
      BY <1>0, <3>1, <3>2 DEF PlainTypes
    <3> QED
      BY <2>0, <3>1, <3>3 DEF PlainTypes
  <2>6. CASE RunFails(m)
    BY <1>0, <2>0, <2>1, <2>6 DEF RunFails, PlainTypes
  <2>7. ASSUME NEW f \in Fields, PublishFails(m, f)
        PROVE  /\ UNCHANGED <<storedAt, view, chunks, entries>> /\ faults' \in 0..MaxFaults
               /\ phase[m] # "none" /\ phase' = [phase EXCEPT ![m] = "failed"]
    BY <2>1, <2>7 DEF PublishFails, Storing
  <2>9. ASSUME NEW kind, Report(m, kind)
        PROVE  UNCHANGED <<storedAt, view, phase, chunks, entries>> /\ faults' \in 0..MaxFaults
    BY <2>1, <2>9 DEF Report
  <2>8. ASSUME NEW f \in Fields, AppendText(m, f)
        PROVE  /\ UNCHANGED <<storedAt, view, faults, phase>>
               /\ \A n \in Prompts : chunks'[n] <= MaxChunks[n]
               /\ Len(entries) <= Len(entries') /\ StoredIn(entries') \subseteq StoredIn(entries)
    <3> DEFINE n == chunks[m] + 1
               old == {i \in 1..Len(entries) : entries[i].turn = m /\ entries[i].part = f}
               e == [turn |-> m, part |-> f, chunks |-> <<n>>, at |-> clock + 1]
               grown == [i \in 1..Len(entries) |->
                 IF i \in old THEN [entries[i] EXCEPT !.chunks = Append(@, n)] ELSE entries[i]]
    <3>1. /\ n <= MaxChunks[m] /\ chunks' = [chunks EXCEPT ![m] = n]
          /\ UNCHANGED <<storedAt, view, faults, phase>>
          /\ entries' = Append(entries, e) \/ entries' = grown
      BY <2>8 DEF AppendText
    <3>2. n \in Nat /\ e \in Entries /\ e.part = f /\ f # "user"
      BY <1>0 DEF Entries, Fields
    <3>3. \A k \in Prompts : chunks'[k] <= MaxChunks[k]
      <4> HIDE DEF n
      <4> QED
        BY <1>0, <3>1, <3>2 DEF PlainTypes
    <3>4. CASE entries' = Append(entries, e)
      <4> HIDE DEF e
      <4>1. /\ Len(entries) \in Nat /\ Len(entries') = Len(entries) + 1
            /\ StoredIn(entries') \subseteq StoredIn(entries) \cup {}
        BY <1>0, <3>2, <3>4, StoredAppend
      <4> QED
        BY <3>1, <3>3, <4>1
    <3>5. CASE entries' = grown
      <4>1. Len(entries) \in Nat /\ Len(entries') = Len(entries)
        <5>1. Len(entries) \in Nat
          BY <1>0, LenProperties
        <5>2. DOMAIN grown = 1..Len(entries)
          OBVIOUS
        <5>3. entries' \in Seq(Entries)
          BY ServerTypesKept, <2>8 DEF ServerMove, ServerStep, ServerTypes
        <5>4. DOMAIN entries' = 1..Len(entries') /\ Len(entries') \in Nat
          BY <5>3, LenProperties
        <5> HIDE DEF grown
        <5> QED
          BY <3>5, <5>1, <5>2, <5>4
      <4>2. \A i \in 1..Len(entries) :
              entries'[i].part = entries[i].part /\ entries'[i].turn = entries[i].turn
        <5> SUFFICES ASSUME NEW i \in 1..Len(entries)
                     PROVE  entries'[i].part = entries[i].part /\ entries'[i].turn = entries[i].turn
          OBVIOUS
        <5>1. entries[i] \in Entries
          BY <1>0, ElementOfSeq
        <5>2. \A x : LET y == [entries[i] EXCEPT !.chunks = x]
                     IN y.part = entries[i].part /\ y.turn = entries[i].turn
          BY <5>1 DEF Entries
        <5>3. \/ entries'[i] = entries[i]
              \/ entries'[i] = [entries[i] EXCEPT !.chunks = Append(entries[i].chunks, n)]
          BY <3>5
        <5> HIDE DEF n
        <5> QED
          BY <5>2, <5>3
      <4>3. StoredIn(entries') \subseteq StoredIn(entries)
        BY <4>1, <4>2 DEF StoredIn, UserEntry
      <4> QED
        BY <3>1, <3>3, <4>1, <4>3
    <3> QED
      BY <3>1, <3>4, <3>5
  <2> QED
    BY <1>0, <2>0, <2>2, <2>3, <2>4, <2>5, <2>6, <2>7, <2>8, <2>9 DEF Serve, PlainTypes
<1> HIDE DEF view, sends, net, chat, rows
<1>2. UNCHANGED <<sentAt, page, call, visit, listed, stream, status, users, optimistic, turns,
                  restored, shown, parent, done, storedAt>>
  BY <1>1 DEF view, sends, net, chat, rows
<1>3. RowTypes' /\ NoDuplicateRow' /\ ParentsKept'
  BY <1>2, StillKept DEF RowsStill, Failed
<1>4. PlainTypes'
  <2>1. \A v \in Visits : Len(listed'[v]) <= Len(entries')
    <3>1. \A v \in Visits : Len(listed[v]) \in Nat
      BY LenProperties DEF PageTypes
    <3>2. Len(entries) \in Nat /\ Len(entries') \in Nat
      BY <1>0, ServerTypesKept, LenProperties DEF ServerMove, ServerStep, ServerTypes
    <3> QED
      BY <1>1, <1>2, <3>1, <3>2 DEF PlainTypes
  <2> QED
    BY <1>1, <1>2, <2>1 DEF PlainTypes, StampTypes
<1>5. Begun'
  BY <1>1, <1>2, BegunAs DEF Begun, StoredIn
<1>6. Drawn'
  BY <1>1, <1>2 DEF Drawn, Failed
<1> QED
  BY <1>3, <1>4, <1>5, <1>6 DEF RowsKept

\* A prompt is stored, one sent here or one sent elsewhere.
LEMMA StoreKeepsRows ==
  ASSUME RInv, NEW m \in Prompts, StoreSent(m) \/ StoreElsewhere(m)
  PROVE  RowsKept
<1> USE DEF RInv, LInv
<1>0. /\ phase \in [Prompts -> Phases] /\ clock \in Nat /\ entries \in Seq(Entries)
      /\ call \in [Prompts -> Calls] /\ sentAt \in [Prompts -> Nat] /\ storedAt \in [Prompts -> Nat]
  BY DEF ServerTypes, PlainTypes, StampTypes
<1> DEFINE e == [turn |-> m, part |-> "user", chunks |-> <<>>, at |-> clock + 1]
<1>1. /\ phase[m] = "none" /\ phase' = [phase EXCEPT ![m] = "stored"]
      /\ storedAt' = [storedAt EXCEPT ![m] = clock + 1]
      /\ entries' = Append(entries, e)
      /\ UNCHANGED <<sentAt, page, net, status, chat, rows, faults, chunks>>
  BY DEF StoreSent, StoreElsewhere, Store
<1>2. UNCHANGED <<visit, listed, stream, users, optimistic, turns, restored, shown, parent, done>>
  BY <1>1 DEF net, chat, rows
<1>3. /\ call' \in [Prompts -> Calls]
      /\ \A n \in Prompts : call'[n] = "idle" => call[n] = "idle" /\ n # m
      /\ \A n \in Prompts : Failed(n) => Failed(n)'
  <2>1. CASE StoreSent(m)
    BY <1>0, <2>1 DEF StoreSent, Failed
  <2>2. CASE StoreElsewhere(m)
    <3>1. call[m] = "idle" /\ call' = [call EXCEPT ![m] = "elsewhere"]
      BY <2>2 DEF StoreElsewhere
    <3> QED
      BY <1>0, <3>1 DEF Failed, Calls
  <2> QED
    BY <2>1, <2>2
<1>4. /\ Len(entries) \in Nat /\ Len(entries') = Len(entries) + 1
      /\ StoredIn(entries') \subseteq StoredIn(entries) \cup {m}
  <2>1. e \in Entries /\ e.part = "user" /\ e.turn = m
    BY <1>0 DEF Entries
  <2> HIDE DEF e
  <2> QED
    BY <1>0, <1>1, <2>1, StoredAppend
<1> HIDE DEF e
<1>5. \A n \in Prompts : phase[n] # "none" => phase'[n] # "none" /\ n # m
  BY <1>0, <1>1
<1>6. phase'[m] # "none"
  BY <1>0, <1>1
<1>7. RowTypes' /\ NoDuplicateRow' /\ ParentsKept'
  <2>1. \A n \in Prompts : Real(n) \in shown => n # m
    <3>1. \A n \in Prompts : Real(n) \in shown => Real(n) \in users
      BY DEF RowTypes, UserRows
    <3> QED
      BY <1>1, <3>1 DEF Begun
  <2>2. /\ \A n \in Prompts : n # m => storedAt'[n] = storedAt[n]
        /\ storedAt'[m] # 0
    BY <1>0, <1>1
  <2> QED
    BY <1>1, <1>2, <1>3, <2>1, <2>2, StillKept DEF RowsStill
<1>8. PlainTypes'
  <2>1. \A v \in Visits : Len(listed[v]) \in Nat
    BY LenProperties DEF PageTypes
  <2>2. \A v \in Visits : Len(listed'[v]) <= Len(entries')
    BY <1>2, <1>4, <2>1 DEF PlainTypes
  <2>3. storedAt' \in [Prompts -> Nat]
    BY <1>0, <1>1
  <2>4. UNCHANGED <<stream, status, page, sentAt, chunks, faults, visit>>
    BY <1>1, <1>2
  <2> QED
    BY <1>3, <2>2, <2>3, <2>4 DEF PlainTypes, StampTypes
<1>9. Begun'
  <2>1. \A n \in Prompts : call'[n] = "idle" => phase'[n] = "none"
    BY <1>0, <1>1, <1>3 DEF Begun
  <2>2. \A n \in StoredIn(entries') : phase'[n] # "none"
    BY <1>4, <1>5, <1>6, BegunAs DEF StoredIn
  <2>3. \A v \in Visits : \A n \in StoredIn(listed'[v]) : phase'[n] # "none"
    BY <1>2, <1>5, BegunAs DEF StoredIn
  <2>4. \A n \in Prompts : Real(n) \in users' => phase'[n] # "none"
    BY <1>2, <1>5 DEF Begun
  <2> QED
    BY <2>1, <2>2, <2>3, <2>4 DEF Begun, StoredIn
<1>10. Drawn'
  BY <1>1, <1>2, <1>3 DEF Drawn, Failed
<1> QED
  BY <1>7, <1>8, <1>9, <1>10 DEF RowsKept

\* A row is drawn for a send: no stored copy of it is on the page.
LEMMA SendKeeps ==
  ASSUME RInv, NEW m \in Prompts, Submit(m) \/ ReplyNew(m)
  PROVE  RowsKept
<1> USE DEF RInv, LInv
<1>0. /\ clock \in Nat /\ optimistic \in Seq(Sents) /\ Sent(m) \in Sents
      /\ call \in [Prompts -> Calls] /\ sentAt \in [Prompts -> Nat] /\ storedAt \in [Prompts -> Nat]
  BY SentTyped DEF ServerTypes, PlainTypes, StampTypes, RowTypes
<1>1. /\ sentAt' = [sentAt EXCEPT ![m] = clock + 1]
      /\ shown' = shown \cup {Sent(m)} /\ users' = users \cup {Sent(m)}
      /\ optimistic' = Append(optimistic, Sent(m))
      /\ UNCHANGED <<phase, entries, chunks, storedAt, faults, visit, listed, stream, status,
                     turns, restored, parent, done>>
  BY DEF Submit, ReplyNew, AddOptimistic, server, net
<1>2. /\ page' = "open" /\ call' \in [Prompts -> Calls]
      /\ \A n \in Prompts : call'[n] = "idle" => call[n] = "idle"
      /\ \A n \in Prompts : Failed(n) => Failed(n)'
  <2>1. CASE Submit(m)
    <3>1. page = "open" /\ page' = page /\ call[m] = "idle" /\ call' = [call EXCEPT ![m] = "sent"]
      BY <2>1 DEF Submit
    <3> QED
      BY <1>0, <3>1 DEF Failed, Calls
  <2>2. CASE ReplyNew(m)
    <3>1. page' = "open" /\ call[m] = "sent" /\ call' = [call EXCEPT ![m] = "done"]
      BY <2>2 DEF ReplyNew, Accepted
    <3> QED
      BY <1>0, <3>1 DEF Failed, Calls
  <2> QED
    BY <2>1, <2>2
<1>3. Real(m) \notin shown
  <2>1. Real(m) \in UserRows
    BY DEF UserRows
  <2>2. CASE Submit(m)
    <3>1. phase[m] = "none"
      BY <2>2 DEF Submit, Begun
    <3> QED
      BY <2>1, <3>1 DEF Begun, RowTypes
  <2>3. CASE ReplyNew(m)
    BY <2>1, <2>3 DEF ReplyNew, Drawn
  <2> QED
    BY <2>2, <2>3
<1>4. /\ sentAt'[m] # 0 /\ \A n \in Prompts : n # m => sentAt'[n] = sentAt[n]
      /\ sentAt' \in [Prompts -> Nat]
  BY <1>0, <1>1
<1>5. /\ Append(optimistic, Sent(m)) \in Seq(Sents)
      /\ Range(Append(optimistic, Sent(m))) = Range(optimistic) \cup {Sent(m)}
  <2>1. Append(optimistic, Sent(m)) \in Seq(Sents)
    BY <1>0, AppendProperties
  <2>2. /\ Len(optimistic) \in Nat /\ Len(Append(optimistic, Sent(m))) = Len(optimistic) + 1
        /\ \A i \in 1..Len(optimistic) : Append(optimistic, Sent(m))[i] = optimistic[i]
        /\ Append(optimistic, Sent(m))[Len(optimistic) + 1] = Sent(m)
    BY <1>0, LenProperties, AppendProperties
  <2>3. /\ Range(optimistic) = {optimistic[i] : i \in 1..Len(optimistic)}
        /\ Range(Append(optimistic, Sent(m)))
             = {Append(optimistic, Sent(m))[i] : i \in 1..(Len(optimistic) + 1)}
    BY <1>0, <2>1, <2>2, RangeEquality
  <2>4. \A i \in 1..(Len(optimistic) + 1) : i \in 1..Len(optimistic) \/ i = Len(optimistic) + 1
    BY <2>2
  <2>5. \A i \in 1..Len(optimistic) : i \in 1..(Len(optimistic) + 1)
    BY <2>2
  <2>6. Len(optimistic) + 1 \in 1..(Len(optimistic) + 1)
    BY <2>2
  <2> QED
    BY <2>1, <2>2, <2>3, <2>4, <2>5, <2>6
<1>6. RowTypes'
  <2>1. Sent(m) \in UserRows
    BY DEF UserRows
  <2> QED
    BY <1>1, <1>5, <2>1 DEF RowTypes
<1>7. NoDuplicateRow'
  BY <1>1, <1>3, <1>4, SentTyped, DuplicatesKept
<1>8. ParentsKept'
  <2>1. Sent(m) \notin Agents
    BY ChatAssumption DEF UserRows
  <2> QED
    BY <1>1, <1>2, <2>1, ParentsStay
<1>9. PlainTypes'
  BY <1>1, <1>2, <1>4 DEF PlainTypes, StampTypes
<1>10. Begun'
  <2>1. \A n \in Prompts : Real(n) \in users' => Real(n) \in users
    BY <1>1, SentTyped
  <2> QED
    BY <1>1, <1>2, <2>1 DEF Begun
<1>11. Drawn'
  <2>1. \A n \in Prompts : Sent(n) \in shown' =>
          sentAt'[n] # 0 /\ Sent(n) \in Range(optimistic')
    BY <1>1, <1>4, <1>5, SentTyped DEF Drawn
  <2>2. \A i \in users' : i \in shown' \/ \E n \in Prompts : i = Sent(n) /\ Failed(n)'
    BY <1>1, <1>2 DEF Drawn
  <2> QED
    BY <1>2, <2>1, <2>2 DEF Drawn, Failed
<1> QED
  BY <1>6, <1>7, <1>8, <1>9, <1>10, <1>11 DEF RowsKept

\* A send begins or is answered without a row.
LEMMA AnswerKeeps ==
  ASSUME RInv, NEW m \in Prompts, SubmitNew(m) \/ Reply(m)
  PROVE  RowsKept
<1> USE DEF RInv, LInv
<1>1. /\ UNCHANGED <<phase, entries, chunks, storedAt, faults, visit, listed, stream, status, page>>
      /\ RowsStill
  BY DEF SubmitNew, Reply, server, net, chat, rows, RowsStill
<1>2. /\ call' \in [Prompts -> Calls]
      /\ \A n \in Prompts : call'[n] = "idle" => call[n] = "idle"
      /\ \A n \in Prompts : Failed(n) => Failed(n)'
  <2>0. call \in [Prompts -> Calls]
    BY DEF PlainTypes
  <2>1. CASE SubmitNew(m)
    <3>1. call[m] = "idle" /\ call' = [call EXCEPT ![m] = "sent"]
      BY <2>1 DEF SubmitNew
    <3> QED
      BY <2>0, <3>1 DEF Failed, Calls
  <2>2. CASE Reply(m)
    <3>1. call[m] = "sent" /\ call' = [call EXCEPT ![m] = "done"]
      BY <2>2 DEF Reply, Accepted
    <3> QED
      BY <2>0, <3>1 DEF Failed, Calls
  <2> QED
    BY <2>1, <2>2
<1>3. RowTypes' /\ NoDuplicateRow' /\ ParentsKept'
  BY <1>1, <1>2, StillKept
<1>4. PlainTypes'
  BY <1>1, <1>2 DEF PlainTypes, StampTypes, RowsStill
<1>5. Begun'
  BY <1>1, <1>2 DEF Begun, RowsStill
<1>6. Drawn'
  BY <1>1, <1>2 DEF Drawn, RowsStill, Failed
<1> QED
  BY <1>3, <1>4, <1>5, <1>6 DEF RowsKept

\* A send that fails withdraws its row.
LEMMA FailedSendKeeps ==
  ASSUME RInv, NEW m \in Prompts, Refuse(m) \/ Lose(m)
  PROVE  RowsKept
<1> USE DEF RInv, LInv
<1>0. call \in [Prompts -> Calls]
  BY DEF PlainTypes
<1>1. /\ shown' = shown \ {Sent(m)}
      /\ UNCHANGED <<phase, entries, chunks, storedAt, sentAt, visit, listed, stream, status, page,
                     users, optimistic, turns, restored, parent, done>>
  BY DEF Refuse, Lose, Withdraw, server, net, chat
<1>2. faults' \in 0..MaxFaults
  BY ChatAssumption DEF Refuse, Lose, Fault, PlainTypes
<1>3. /\ call' \in [Prompts -> Calls] /\ Failed(m)'
      /\ \A n \in Prompts : call'[n] = "idle" => call[n] = "idle"
      /\ \A n \in Prompts : Failed(n) => Failed(n)'
  <2>1. CASE call' = [call EXCEPT ![m] = "refused"] /\ call[m] = "sent"
    BY <1>0, <2>1 DEF Failed, Calls
  <2>2. CASE call' = [call EXCEPT ![m] = "lost"] /\ call[m] = "sent"
    BY <1>0, <2>2 DEF Failed, Calls
  <2> QED
    BY <2>1, <2>2 DEF Refuse, Lose
<1>4. Sent(m) \notin Agents
  BY ChatAssumption DEF UserRows
<1>5. RowTypes'
  <2>1. turns \subseteq Agents
    BY DEF PageTypes
  <2> QED
    BY <1>1, <1>4, <2>1 DEF RowTypes, Agents
<1>6. NoDuplicateRow'
  BY <1>1, DuplicatesKept
<1>7. ParentsKept'
  <2> SUFFICES ASSUME NEW a \in Agents \cap shown'
               PROVE  \/ parent'[a] \in shown' \cup {None}
                      \/ \E n \in Prompts : parent'[a] = Sent(n) /\ Failed(n)'
    BY DEF ParentsKept, Failed, Sent
  <2>1. \/ parent[a] \in shown \cup {None}
        \/ \E n \in Prompts : parent[a] = Sent(n) /\ Failed(n)
    BY <1>1 DEF ParentsKept, Failed
  <2> QED
    BY <1>1, <1>3, <2>1
<1>8. PlainTypes'
  BY <1>1, <1>2, <1>3 DEF PlainTypes, StampTypes
<1>9. Begun'
  BY <1>1, <1>3 DEF Begun
<1>10. Drawn'
  <2>1. \A i \in users' : i \in shown' \/ \E n \in Prompts : i = Sent(n) /\ Failed(n)'
    BY <1>1, <1>3 DEF Drawn
  <2> QED
    BY <1>1, <2>1 DEF Drawn, Failed
<1> QED
  BY <1>5, <1>6, <1>7, <1>8, <1>9, <1>10 DEF RowsKept

\* A visit lists the conversation, or fails to.
LEMMA VisitKeeps ==
  ASSUME RInv, NEW v \in Visits, Visit(v) \/ VisitFails(v)
  PROVE  RowsKept
<1> USE DEF RInv, LInv
<1>1. /\ UNCHANGED <<phase, entries, chunks, storedAt, call, stream, status>>
      /\ RowsStill /\ page' = "open"
      /\ faults' \in 0..MaxFaults
  BY ChatAssumption
     DEF Visit, VisitFails, NextVisit, Fault, server, chat, rows, RowsStill, PlainTypes
<1>2. visit' \in [Visits -> {"idle", "listed", "done"}]
  BY DEF Visit, VisitFails, PlainTypes
<1>3. \A w \in Visits : listed'[w] = listed[w] \/ listed'[w] = entries
  BY DEF Visit, VisitFails, PageTypes
<1>4. RowTypes' /\ NoDuplicateRow' /\ ParentsKept'
  BY <1>1, StillKept DEF Failed
<1>5. PlainTypes'
  <2>1. Len(entries) <= Len(entries)
    BY LenProperties DEF ServerTypes
  <2>2. \A w \in Visits : Len(listed'[w]) <= Len(entries)
    BY <1>3, <2>1 DEF PlainTypes
  <2> QED
    BY <1>1, <1>2, <2>2 DEF PlainTypes, StampTypes, RowsStill
<1>6. Begun'
  <2>1. \A w \in Visits : \A m \in StoredIn(listed'[w]) : phase'[m] # "none"
    BY <1>1, <1>3, BegunAs
  <2>2. /\ \A m \in Prompts : call'[m] = "idle" => phase'[m] = "none"
        /\ \A m \in StoredIn(entries') : phase'[m] # "none"
        /\ \A m \in Prompts : Real(m) \in users' => phase'[m] # "none"
    BY <1>1, BegunAs DEF RowsStill
  <2> QED
    BY <2>1, <2>2 DEF Begun, StoredIn
<1>7. Drawn'
  BY <1>1 DEF Drawn, RowsStill, Failed
<1> QED
  BY <1>4, <1>5, <1>6, <1>7 DEF RowsKept

\* A restore draws the listing and gives up the rows it has copies of.
LEMMA RestoreKeeps ==
  ASSUME RInv, NEW v \in Visits, Restore(v)
  PROVE  RowsKept
<1> USE DEF RInv, LInv
<1>1. PICK R \in SUBSET Prompts, W \in SUBSET Prompts, T \in SUBSET Prompts :
        RowsRestored(v, R, W, T)
  BY RestoreRows DEF PlainTypes
<1>2. /\ UNCHANGED <<phase, entries, chunks, storedAt, sentAt, call, page, faults, status, turns>>
      /\ visit[v] = "listed" /\ visit' = [visit EXCEPT ![v] = "done"]
      /\ listed' = [listed EXCEPT ![v] = <<>>]
      /\ stream' \in {"open", stream}
  BY DEF Restore, server, sends
<1> DEFINE reals == {Real(m) : m \in R}
           gone == {Sent(m) : m \in W}
<1>3. /\ shown' = (shown \cup reals \cup T) \ gone
      /\ users' = (users \cup reals) \ gone
      /\ optimistic' \in Seq(Sents) /\ Range(optimistic) \subseteq Range(optimistic') \cup gone
      /\ restored' = restored \cup T /\ done' \subseteq done \cup T
      /\ parent' \in [Agents -> UserRows \cup {None}]
  BY <1>1 DEF RowsRestored
<1>4. /\ reals \subseteq UserRows /\ gone \subseteq UserRows /\ reals \cap gone = {}
      /\ T \subseteq Agents /\ Agents \cap UserRows = {}
      /\ turns \subseteq Agents /\ restored \subseteq Prompts /\ Prompts \subseteq Agents
  BY SentTyped, ChatAssumption DEF UserRows, Agents, PageTypes
<1>5. \A a \in Agents :
        \/ parent'[a] \in reals
        \/ parent'[a] \notin gone
           /\ IF a \in T THEN parent'[a] \in users \cup {None} ELSE parent'[a] = parent[a]
  BY <1>1 DEF RowsRestored
<1>6. \A m \in R : phase[m] # "none"
  BY <1>1 DEF RowsRestored, Begun
<1>7. \A m \in Prompts :
        /\ Sent(m) \in shown' => Sent(m) \in shown \ gone
        /\ Real(m) \in shown' => Real(m) \in shown \/ m \in R
        /\ Real(m) \in users' => Real(m) \in users \/ m \in R
        /\ Sent(m) \in gone <=> m \in W
  <2>1. \A m \in Prompts : Sent(m) \in UserRows /\ Real(m) \in UserRows
    BY DEF UserRows
  <2> QED
    BY <1>3, <1>4, <2>1, SentTyped
<1>8. NoDuplicateRow'
  <2> SUFFICES ASSUME NEW m \in Prompts, Sent(m) \in shown', Real(m) \in shown',
                      Near(Sent(m), Real(m))'
               PROVE  \E n \in Prompts \ {m} :
                        Text[n] = Text[m] /\ {sentAt'[n], storedAt'[n]} # {0}
    BY DEF NoDuplicateRow, Sent, Real
  <2>1. Near(Sent(m), Real(m))
    BY <1>2, NearKept
  <2>2. Sent(m) \in shown \ gone /\ m \notin W
    BY <1>7
  <2>3. CASE Real(m) \in shown
    BY <1>2, <2>1, <2>2, <2>3 DEF NoDuplicateRow
  <2>4. CASE m \in R
    <3>1. \/ Sent(m) \notin Range(optimistic) \cap shown
          \/ \E n \in W : Text[n] = Text[m]
      BY <1>1, <2>1, <2>4 DEF RowsRestored
    <3>2. Sent(m) \in Range(optimistic)
      BY <2>2 DEF Drawn
    <3>3. PICK n \in W : Text[n] = Text[m]
      BY <2>2, <3>1, <3>2
    <3>4. Sent(n) \in shown
      BY <1>1 DEF RowsRestored
    <3>5. sentAt'[n] # 0
      BY <1>2, <3>4 DEF Drawn
    <3> QED
      BY <2>2, <3>3, <3>5
  <2> QED
    BY <1>7, <2>3, <2>4
<1> HIDE DEF reals, gone
<1>9. ParentsKept'
  <2> SUFFICES ASSUME NEW a \in Agents \cap shown'
               PROVE  \/ parent'[a] \in shown' \cup {None}
                      \/ \E m \in Prompts : parent'[a] = Sent(m) /\ Failed(m)'
    BY DEF ParentsKept, Failed, Sent
  <2>1. \A i \in users \ gone : i \in shown' \/ \E m \in Prompts : i = Sent(m) /\ Failed(m)'
    BY <1>2, <1>3 DEF Drawn, Failed
  <2>2. CASE parent'[a] \in reals
    BY <1>3, <1>4, <2>2
  <2>3. CASE a \in T /\ parent'[a] \notin gone /\ parent'[a] \in users \cup {None}
    BY <2>1, <2>3
  <2>4. CASE a \notin T /\ parent'[a] \notin gone /\ parent'[a] = parent[a]
    <3>1. a \in shown
      BY <1>3, <1>4, <2>4
    <3>2. \/ parent[a] \in shown \cup {None}
          \/ \E m \in Prompts : parent[a] = Sent(m) /\ Failed(m)
      BY <3>1 DEF ParentsKept, Failed
    <3> QED
      BY <1>2, <1>3, <2>4, <3>2 DEF Failed
  <2> QED
    BY <1>5, <2>2, <2>3, <2>4
<1>10. RowTypes'
  <2>1. shown' \cap UserRows \subseteq users' /\ users' \subseteq UserRows
    BY <1>3, <1>4 DEF RowTypes
  <2>2. shown' \subseteq UserRows \cup Agents
    BY <1>3, <1>4 DEF RowTypes
  <2>3. turns' \subseteq shown' /\ done' \subseteq shown' \cap Agents
        /\ restored' \subseteq shown' \cap Prompts
    BY <1>2, <1>3, <1>4 DEF RowTypes
  <2> QED
    BY <1>3, <2>1, <2>2, <2>3 DEF RowTypes
<1>11. PlainTypes'
  <2>1. Len(<<>>) = 0 /\ Len(entries) \in Nat
    BY LenProperties DEF ServerTypes
  <2>2. \A w \in Visits : Len(listed'[w]) <= Len(entries)
    BY <1>2, <2>1 DEF PlainTypes, PageTypes
  <2>3. visit' \in [Visits -> {"idle", "listed", "done"}] /\ stream' \in {"none", "open", "broken"}
    BY <1>2 DEF PlainTypes
  <2> QED
    BY <1>2, <2>2, <2>3 DEF PlainTypes, StampTypes
<1>12. Begun'
  <2>1. \A w \in Visits : \A i \in 1..Len(listed'[w]) :
          i \in 1..Len(listed[w]) /\ listed'[w] = listed[w]
    BY <1>2 DEF PageTypes
  <2>2. \A m \in Prompts, w \in Visits :
          (\E i \in 1..Len(listed'[w]) : UserEntry(listed'[w], i, m)) => phase[m] # "none"
    BY <2>1 DEF Begun
  <2>3. \A m \in Prompts : Real(m) \in users' => phase[m] # "none"
    BY <1>6, <1>7 DEF Begun
  <2> QED
    BY <1>2, <2>2, <2>3 DEF Begun
<1>13. Drawn'
  <2>1. \A m \in Prompts : Sent(m) \in shown' => sentAt'[m] # 0 /\ Sent(m) \in Range(optimistic')
    BY <1>2, <1>3, <1>7 DEF Drawn
  <2>2. \A i \in users' : i \in shown' \/ \E m \in Prompts : i = Sent(m) /\ Failed(m)'
    BY <1>2, <1>3 DEF Drawn, Failed
  <2>3. page' # "new"
    BY <1>2 DEF Drawn
  <2> QED
    BY <2>1, <2>2, <2>3 DEF Drawn, Failed
<1> QED
  BY <1>8, <1>9, <1>10, <1>11, <1>12, <1>13 DEF RowsKept

\* An event draws at most the row of an answer, under a message ChatState knows.
LEMMA DeliverKeeps ==
  ASSUME RInv, Deliver
  PROVE  RowsKept
<1> USE DEF RInv, LInv
<1> DEFINE e == log[lastSeq + 1]
<1>1. /\ UNCHANGED <<phase, entries, chunks, storedAt, sentAt, call, page, faults, visit, listed,
                     stream, users, optimistic, restored>>
      /\ ApplyState(e) \/ ApplyChunk(e) \/ ApplyTool(e)
  BY DEF Deliver, server, sends
<1>2. e.turn \in Prompts /\ e.at \in Nat
  <2>1. e \in Events
    BY DeliverApplies
  <2> HIDE DEF e
  <2> QED
    BY <2>1 DEF Events
<1> HIDE DEF e
<1>3. /\ status' \in {"busy", "idle"}
      /\ done' \subseteq done \cup turns
      /\ \/ UNCHANGED <<turns, shown, parent>>
         \/ \E a \in Agents : Insert(a, e.at)
  <2>1. CASE ApplyState(e)
    BY <2>1 DEF ApplyState
  <2>2. CASE ApplyChunk(e)
    BY <1>2, <2>2 DEF ApplyChunk, Agents, PlainTypes
  <2>3. CASE ApplyTool(e)
    BY <2>3 DEF ApplyTool, Agents, PlainTypes
  <2> QED
    BY <1>1, <2>1, <2>2, <2>3
<1>4. turns \subseteq Agents /\ Agents \cap UserRows = {}
  BY ChatAssumption DEF PageTypes
<1>5. CASE UNCHANGED <<turns, shown, parent>>
  <2>1. RowTypes'
    BY <1>1, <1>3, <1>4, <1>5 DEF RowTypes
  <2>2. NoDuplicateRow'
    BY <1>1, <1>5, DuplicatesKept
  <2>3. ParentsKept'
    BY <1>1, <1>5, ParentsStay DEF Failed
  <2>4. PlainTypes' /\ Begun' /\ Drawn'
    BY <1>1, <1>3, <1>5 DEF PlainTypes, StampTypes, Begun, Drawn, Failed
  <2> QED
    BY <2>1, <2>2, <2>3, <2>4 DEF RowsKept
<1>6. ASSUME NEW a \in Agents, Insert(a, e.at) PROVE RowsKept
  <2>1. LatestUserBefore(users, e.at) \in users \cup {None}
    BY <1>2, LatestKnown DEF PlainTypes, RowTypes
  <2>2. /\ turns' = turns \cup {a} /\ shown' = shown \cup {a}
        /\ parent' \in [Agents -> UserRows \cup {None}]
        /\ \A b \in Agents : b # a \/ a \in shown => parent'[b] = parent[b]
        /\ a \in shown \/ parent'[a] \in users \cup {None}
    <3> DEFINE p == LatestUserBefore(users, e.at)
    <3>1. /\ turns' = turns \cup {a} /\ shown' = shown \cup {a}
          /\ parent' = IF a \in shown THEN parent ELSE [parent EXCEPT ![a] = p]
      BY <1>6 DEF Insert
    <3> HIDE DEF p
    <3>2. p \in users \cup {None}
      BY <2>1 DEF p
    <3> QED
      BY <3>1, <3>2 DEF RowTypes
  <2>3. a \notin UserRows
    BY <1>4
  <2>4. RowTypes'
    BY <1>1, <1>3, <1>4, <2>2, <2>3 DEF RowTypes
  <2>5. \A m \in Prompts : Sent(m) # a /\ Real(m) # a
    BY <2>3 DEF UserRows
  <2>6. NoDuplicateRow'
    BY <1>1, <2>2, <2>5, DuplicatesKept
  <2>7. ParentsKept'
    <3> SUFFICES ASSUME NEW b \in Agents \cap shown'
                 PROVE  \/ parent'[b] \in shown' \cup {None}
                        \/ \E m \in Prompts : parent'[b] = Sent(m) /\ Failed(m)'
      BY DEF ParentsKept, Failed, Sent
    <3>1. CASE b # a \/ a \in shown
      <4>1. \/ parent[b] \in shown \cup {None}
            \/ \E m \in Prompts : parent[b] = Sent(m) /\ Failed(m)
        BY <2>2, <3>1 DEF ParentsKept, Failed
      <4> QED
        BY <1>1, <2>2, <3>1, <4>1 DEF Failed
    <3>2. CASE b = a /\ a \notin shown
      BY <1>1, <2>2, <3>2 DEF Drawn, Failed
    <3> QED
      BY <3>1, <3>2
  <2>8. PlainTypes' /\ Begun'
    BY <1>1, <1>3 DEF PlainTypes, StampTypes, Begun
  <2>9. Drawn'
    <3>1. \A m \in Prompts : Sent(m) \in shown' => Sent(m) \in shown
      BY <2>2, <2>5
    <3>2. shown' \cap UserRows = shown \cap UserRows
      BY <2>2, <2>3
    <3> QED
      BY <1>1, <2>2, <3>1, <3>2 DEF Drawn, Failed
  <2> QED
    BY <2>4, <2>6, <2>7, <2>8, <2>9 DEF RowsKept
<1> QED
  BY <1>3, <1>5, <1>6

\* The stream breaks or is opened again.
LEMMA StreamKeeps ==
  ASSUME RInv, Drop \/ Reconnect \/ UNCHANGED cvars
  PROVE  RowsKept
<1> USE DEF RInv, LInv
<1>1. /\ UNCHANGED <<phase, entries, chunks, storedAt, call, visit, listed, page, status>>
      /\ RowsStill
      /\ faults' \in 0..MaxFaults /\ stream' \in {"none", "open", "broken"}
  BY ChatAssumption
     DEF Drop, Reconnect, Fault, cvars, view, sends, net, server, chat, rows, RowsStill, PlainTypes
<1>2. RowTypes' /\ NoDuplicateRow' /\ ParentsKept'
  BY <1>1, StillKept DEF Failed
<1>3. PlainTypes'
  BY <1>1 DEF PlainTypes, StampTypes, RowsStill
<1>4. Begun' /\ Drawn'
  BY <1>1 DEF Begun, Drawn, RowsStill, Failed
<1> QED
  BY <1>2, <1>3, <1>4 DEF RowsKept

\* A page load forgets the rows.
LEMMA ReloadKeeps ==
  ASSUME RInv, Reload
  PROVE  RowsKept
<1> USE DEF RInv, LInv
<1>1. /\ UNCHANGED <<phase, entries, chunks, storedAt, sentAt, page>>
      /\ page = "open" /\ status' = "idle" /\ stream' = "none"
      /\ shown' = {} /\ users' = {} /\ optimistic' = <<>> /\ turns' = {} /\ restored' = {} /\ done' = {}
      /\ parent' = [a \in Agents |-> None]
      /\ listed' = [v \in Visits |-> <<>>]
      /\ faults' \in 0..MaxFaults
  BY ChatAssumption DEF Reload, Fault, server, PlainTypes
<1>2. /\ call' \in [Prompts -> Calls]
      /\ \A m \in Prompts : call'[m] = "idle" => call[m] = "idle"
  BY DEF Reload, PlainTypes, Calls
<1>3. visit' \in [Visits -> {"idle", "listed", "done"}]
  BY DEF Reload
<1>4. RowTypes' /\ NoDuplicateRow' /\ ParentsKept'
  BY <1>1 DEF RowTypes, NoDuplicateRow, ParentsKept
<1>5. PlainTypes'
  <2>1. Len(<<>>) = 0 /\ Len(entries) \in Nat
    BY LenProperties DEF ServerTypes
  <2>2. \A v \in Visits : Len(listed'[v]) <= Len(entries)
    BY <1>1, <2>1
  <2> QED
    BY <1>1, <1>2, <1>3, <2>2 DEF PlainTypes, StampTypes
<1>6. Begun'
  BY <1>1, <1>2 DEF Begun
<1>7. Drawn'
  BY <1>1 DEF Drawn
<1> QED
  BY <1>4, <1>5, <1>6, <1>7 DEF RowsKept

LEMMA RInvInit == CInit => RInv
<1> SUFFICES ASSUME CInit PROVE RInv
  OBVIOUS
<1>1. LInv
  BY LInvInit
<1>2. entries = <<>> /\ optimistic = <<>> /\ Len(<<>>) = 0 /\ \A v \in Visits : listed[v] = <<>>
  BY DEF CInit
<1>3. PlainTypes
  <2>1. \A m \in Prompts : chunks[m] <= MaxChunks[m]
    BY ChatAssumption DEF CInit
  <2> QED
    BY <1>2, <2>1, ChatAssumption DEF CInit, PlainTypes, StampTypes, Calls
<1>4. RowTypes
  BY <1>2 DEF CInit, RowTypes
<1>5. Begun /\ Drawn
  BY <1>2 DEF CInit, Begun, Drawn
<1>6. NoDuplicateRow /\ ParentsKept
  BY DEF CInit, NoDuplicateRow, ParentsKept
<1> QED
  BY <1>1, <1>3, <1>4, <1>5, <1>6 DEF RInv

LEMMA RInvNext == RInv /\ [CNext]_cvars => RInv'
<1> SUFFICES ASSUME RInv, [CNext]_cvars PROVE RInv'
  OBVIOUS
<1>1. LInv'
  BY LInvNext DEF RInv
<1>2. RowsKept
  <2>1. ASSUME NEW m \in Prompts,
               \/ StoreSent(m) \/ StoreElsewhere(m) \/ Serve(m) \/ StartFails(m)
               \/ CallTool(m) \/ RunFails(m)
               \/ \E kind \in {"running", "idle", "error"} : Report(m, kind)
               \/ \E f \in Fields : AppendText(m, f) \/ PublishFails(m, f)
        PROVE  RowsKept
    BY <2>1, StoreKeepsRows, WorkKeeps
  <2>2. ASSUME NEW m \in Prompts,
               \/ Submit(m) \/ SubmitNew(m) \/ Reply(m) \/ Refuse(m) \/ Lose(m) \/ ReplyNew(m)
        PROVE  RowsKept
    BY <2>2, SendKeeps, AnswerKeeps, FailedSendKeeps
  <2>3. ASSUME NEW v \in Visits, Visit(v) \/ VisitFails(v) \/ Restore(v)
        PROVE  RowsKept
    BY <2>3, VisitKeeps, RestoreKeeps
  <2>4. CASE Deliver \/ Drop \/ Reconnect \/ Reload \/ UNCHANGED cvars
    BY <2>4, DeliverKeeps, StreamKeeps, ReloadKeeps
  <2> QED
    BY <2>1, <2>2, <2>3, <2>4 DEF CNext
<1> QED
  BY <1>1, <1>2 DEF RInv, RowsKept

LEMMA RInvAlways == CSpec => []RInv
BY RInvInit, RInvNext, PTL DEF CSpec

\* In every reachable state every variable keeps its type, a turn the page follows has a
\* row and ChatState knows every user row (insertMessage, addUserMessage of bridge.ts).
THEOREM ChatTypes == CSpec => []CTypeOK
<1>1. RInv => CTypeOK
  BY DEF RInv, LInv, ServerTypes, PageTypes, PlainTypes, RowTypes, StampTypes, CTypeOK,
         Events, Entries, Sents
<1> QED
  BY <1>1, RInvAlways, PTL

\* For any number of prompts, texts, visits, failures and page loads, a prompt whose two
\* rows are within the window of each other has one row, unless another prompt that says
\* the same was sent (dedupeOptimisticUserMessage of bridge.ts).
THEOREM RowsSingle == CSpec => []NoDuplicateRow
<1>1. RInv => NoDuplicateRow
  BY DEF RInv
<1> QED
  BY <1>1, RInvAlways, PTL

\* In the same generality an answer hangs under a row that is shown, under none, or under
\* the row of a send that failed (latestUserBefore, removeOptimistic of bridge.ts).
THEOREM ParentsShown == CSpec => []ParentsKept
<1>1. RInv => ParentsKept
  BY DEF RInv
<1> QED
  BY <1>1, RInvAlways, PTL

\* A user's row leaves the page only when its send fails, when a stored message that says
\* the same is drawn in the same step, or with the page (submit.ts, removeOptimistic).
THEOREM RowsLeaveForCause == CSpec => RowsStay
<1> DEFINE Cause(m) ==
      \/ shown' = {} /\ users' = {}
      \/ call[m] = "sent" /\ call'[m] \in {"refused", "lost"}
      \/ \E n \in Prompts : Text[n] = Text[m] /\ Real(n) \in shown'
<1>1. ASSUME RInv, [CNext]_cvars, NEW m \in Prompts, Sent(m) \in shown, Sent(m) \notin shown'
      PROVE  Cause(m)
  <2> USE DEF server, view, sends, net, chat, rows, cvars
  <2>1. CASE UNCHANGED cvars
    BY <1>1, <2>1
  <2>2. ASSUME NEW n \in Prompts,
               \/ StoreSent(n) \/ StoreElsewhere(n) \/ StartFails(n) \/ CallTool(n) \/ RunFails(n)
               \/ \E kind \in {"running", "idle", "error"} : Report(n, kind)
               \/ \E f \in Fields : AppendText(n, f) \/ PublishFails(n, f)
        PROVE  shown' = shown
    BY <2>2 DEF StoreSent, StoreElsewhere, Store, StartFails, CallTool, RunFails, Report, AppendText,
                 PublishFails
  <2>3. ASSUME NEW n \in Prompts, Serve(n)
        PROVE  shown' = shown
    BY <2>3 DEF Serve, Start, Announce, Finish, PublishChunk
  <2>4. ASSUME NEW n \in Prompts, Submit(n) \/ SubmitNew(n) \/ Reply(n) \/ ReplyNew(n)
        PROVE  shown \subseteq shown'
    BY <2>4 DEF Submit, SubmitNew, Reply, ReplyNew, AddOptimistic
  <2>5. ASSUME NEW n \in Prompts, Refuse(n) \/ Lose(n)
        PROVE  Cause(m)
    <3>1. /\ shown' = shown \ {Sent(n)} /\ call[n] = "sent"
          /\ call' = [call EXCEPT ![n] = "refused"] \/ call' = [call EXCEPT ![n] = "lost"]
      BY <2>5 DEF Refuse, Lose, Withdraw
    <3>2. m = n
      BY <1>1, <3>1, SentTyped
    <3>3. call'[m] \in {"refused", "lost"}
      BY <1>1, <3>1, <3>2 DEF RInv, PlainTypes
    <3> QED
      BY <3>1, <3>2, <3>3
  <2>6. ASSUME NEW v \in Visits, Visit(v) \/ VisitFails(v)
        PROVE  shown' = shown
    BY <2>6 DEF Visit, VisitFails
  <2>7. ASSUME NEW v \in Visits, Restore(v)
        PROVE  Cause(m)
    <3>1. PICK R \in SUBSET Prompts, W \in SUBSET Prompts, T \in SUBSET Prompts :
            RowsRestored(v, R, W, T)
      BY <1>1, <2>7, RestoreRows DEF RInv, LInv, PlainTypes
    <3>2. /\ shown' = (shown \cup {Real(n) : n \in R} \cup T) \ {Sent(n) : n \in W}
          /\ \A x \in W : \E n \in R : Text[n] = Text[x]
      BY <3>1 DEF RowsRestored
    <3>3. m \in W
      BY <1>1, <3>2, SentTyped
    <3>4. PICK n \in R : Text[n] = Text[m]
      BY <3>2, <3>3
    <3>5. Real(n) \in shown'
      BY <3>2, SentTyped
    <3> QED
      BY <3>4, <3>5
  <2>8. CASE Deliver
    BY <1>1, <2>8 DEF Deliver, ApplyState, ApplyChunk, ApplyTool, Insert
  <2>9. CASE Drop \/ Reconnect
    BY <1>1, <2>9 DEF Drop, Reconnect
  <2>10. CASE Reload
    BY <2>10 DEF Reload
  <2> QED
    BY <1>1, <2>1, <2>2, <2>3, <2>4, <2>5, <2>6, <2>7, <2>8, <2>9, <2>10 DEF CNext
<1>2. RInv /\ [CNext]_cvars =>
        [\A m \in Prompts : Sent(m) \in shown /\ Sent(m) \notin shown' =>
          \/ shown' = {} /\ users' = {}
          \/ call[m] = "sent" /\ call'[m] \in {"refused", "lost"}
          \/ \E n \in Prompts : Text[n] = Text[m] /\ Real(n) \in shown']_cvars
  BY <1>1
<1> QED
  BY <1>2, RInvAlways, PTL DEF CSpec, RowsStay

=============================================================================
