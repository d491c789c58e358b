------------------------------ MODULE ChatView ------------------------------
(***************************************************************************)
(* The transcript a browser page shows of one session                      *)
(* (packages/app/src/rpc-chat/bridge.ts, provider.tsx and the send branch  *)
(* of components/prompt-input/submit.ts).  It has three sources:           *)
(*   - optimistic rows, drawn before the server knows of the prompt;       *)
(*   - the conversation, listed once per visit (restore);                  *)
(*   - the event stream, which carries the agent's chunks and never the    *)
(*     user's messages.                                                    *)
(* The server side is what application/orchestrator.go does for one        *)
(* session: a prompt is stored, then announced; a chunk is stored in the   *)
(* conversation, then published; the runtime may report an error or a      *)
(* status and run on, or never return; a publication may fail, or be made  *)
(* twice by the Redis client.  One turn runs at a time (TurnOrchestrator). *)
(* The log is one EventStream with everything retained.  Chunks of a turn  *)
(* share one message id, as go-adk sends them.                             *)
(***************************************************************************)
EXTENDS Integers, Sequences, FiniteSets, SequencesExt

CONSTANTS Prompts,      \* user messages; each starts the turn of that name
          Text,         \* what each of them says
          Shared,       \* the id "assistant", used by the tool cards of all turns
          None,
          Window,       \* 60 s: how far apart a row and its copy may be stamped
          MaxChunks,    \* bound: chunks of each turn
          MaxVisits,    \* bound: restores
          MaxFaults     \* bound: requests, publications, runs and streams that fail or
                        \* repeat, reports of a runtime, page loads

Fields == {"thought", "text"}
Agents == Prompts \cup {Shared}
Sent(m) == <<"sent", m>>     \* the optimistic row
Real(m) == <<"user", m>>     \* the row of the stored message
UserRows == {Sent(m) : m \in Prompts} \cup {Real(m) : m \in Prompts}
Visits == 1..MaxVisits
Calls == {"idle", "elsewhere", "sent", "done", "refused", "lost"}
Phases == {"none", "stored", "running", "failed", "announced", "over", "aborted"}
Kinds == Fields \cup {"tool", "running", "idle", "error"}

ASSUME ChatAssumption ==
  /\ Text \in [Prompts -> STRING]
  /\ Shared \notin Prompts /\ Agents \cap UserRows = {} /\ None \notin UserRows \cup (Prompts \X Fields)
  /\ Window \in Nat /\ MaxChunks \in [Prompts -> Nat]
  /\ MaxVisits \in Nat /\ MaxFaults \in Nat

VARIABLES
  clock,      \* stamps, one per stamped step
  phase,      \* turn of a prompt on the server
  log,        \* published events: kind, turn, number of the chunk, stamp
  entries,    \* conversation in the order it was written: turn, part, chunks, stamp
  chunks,     \* chunks a turn has produced
  mid,        \* <<turn, kind>> of the chunk stored and not yet published, or None
  call,       \* sends, as the page knows them
  sentAt, storedAt,   \* stamps of the optimistic row and of the stored message
  page,       \* "new" or "open"
  faults,
  visit,      \* a restore: "idle", "listed" or "done"
  listed,     \* what its listMessages returned
  stream,     \* "none", "open" or "broken"
  lastSeq,    \* last event applied, the cursor of runSubscription
  status,     \* session_status
  users,      \* ChatState.userMessages
  optimistic, \* ChatState.optimisticIDs, in insertion order
  turns,      \* ChatState.turns
  shown,      \* rows of the message store, user rows and agents
  parent,     \* parentID of an agent's row
  done,       \* agent rows with time.completed
  text,       \* the two text parts of an agent's row, as the chunks in them
  restored    \* history: agent rows a restore drew since the page was loaded

server == <<phase, log, entries, chunks, mid, storedAt>>
sends == <<call, sentAt, page>>
net == <<visit, listed, stream, lastSeq>>
chat == <<users, optimistic, turns, restored>>
rows == <<shown, parent, done, text>>
view == <<sends, net, status, chat, rows>>
cvars == <<clock, server, view, faults>>

Blank == [f \in Fields |-> <<>>]

CInit ==
  /\ clock = 0
  /\ phase = [m \in Prompts |-> "none"] /\ log = <<>> /\ entries = <<>>
  /\ chunks = [m \in Prompts |-> 0] /\ mid = None
  /\ call = [m \in Prompts |-> "idle"]
  /\ sentAt = [m \in Prompts |-> 0] /\ storedAt = [m \in Prompts |-> 0]
  /\ page = "new"
  /\ faults = 0
  /\ visit = [v \in Visits |-> "idle"] /\ listed = [v \in Visits |-> <<>>]
  /\ users = {} /\ optimistic = <<>> /\ turns = {} /\ restored = {}
  /\ shown = {} /\ parent = [a \in Agents |-> None] /\ done = {}
  /\ text = [m \in Prompts |-> Blank]
  /\ stream = "none" /\ lastSeq = 0 /\ status = "idle"

-----------------------------------------------------------------------------
(* The server *)

Fault == faults < MaxFaults /\ faults' = faults + 1

Event(kind, m, n) == [kind |-> kind, turn |-> m, n |-> n, at |-> clock + 1]

Published(kind, m, n) == log' = Append(log, Event(kind, m, n)) /\ clock' = clock + 1

Unpublished == UNCHANGED <<log, clock>>

\* the client runs the script again when its reply is lost, and the script appends again
Publish(kind, m, n) ==
  \/ Published(kind, m, n) /\ UNCHANGED faults
  \/ /\ Fault
     /\ log' = log \o <<Event(kind, m, n), Event(kind, m, n)>> /\ clock' = clock + 1

Busy == \E m \in Prompts : phase[m] \notin {"none", "over", "aborted"}

\* Prompt admits the turn and stores the user's message
Store(m) ==
  /\ phase[m] = "none" /\ ~Busy
  /\ phase' = [phase EXCEPT ![m] = "stored"]
  /\ storedAt' = [storedAt EXCEPT ![m] = clock + 1]
  /\ entries' = Append(entries,
       [turn |-> m, part |-> "user", chunks |-> <<>>, at |-> clock + 1])
  /\ clock' = clock + 1
  /\ UNCHANGED <<log, chunks, mid, sentAt, page, net, status, chat, rows, faults>>

StoreSent(m) ==
  /\ call[m] \in {"sent", "lost"}
  /\ Store(m)
  /\ UNCHANGED call

\* another tab or device sends it to the same session
StoreElsewhere(m) ==
  /\ call[m] = "idle"
  /\ page = "open" \/ \A n \in Prompts : call[n] \in {"idle", "elsewhere"}
  /\ call' = [call EXCEPT ![m] = "elsewhere"]
  /\ Store(m)

Start(m) ==
  /\ phase[m] = "stored"
  /\ phase' = [phase EXCEPT ![m] = "running"]
  /\ Publish("running", m, 0)
  /\ UNCHANGED <<entries, chunks, mid, storedAt, view>>

\* the announcement fails, made or not, and so does the request
StartFails(m) ==
  /\ Fault
  /\ phase[m] = "stored"
  /\ phase' = [phase EXCEPT ![m] = "aborted"]
  /\ Published("running", m, 0) \/ Unpublished
  /\ UNCHANGED <<entries, chunks, mid, storedAt, view>>

\* AppendText: one entry per message id and kind, which grows
AppendText(m, f) ==
  LET n == chunks[m] + 1
      old == {i \in 1..Len(entries) : entries[i].turn = m /\ entries[i].part = f}
  IN /\ phase[m] = "running" /\ mid = None /\ n <= MaxChunks[m]
     /\ chunks' = [chunks EXCEPT ![m] = n]
     /\ mid' = <<m, f>>
     /\ IF old = {}
        THEN /\ entries' = Append(entries,
                  [turn |-> m, part |-> f, chunks |-> <<n>>, at |-> clock + 1])
             /\ clock' = clock + 1
        ELSE /\ entries' = [i \in 1..Len(entries) |->
                  IF i \in old THEN [entries[i] EXCEPT !.chunks = Append(@, n)]
                  ELSE entries[i]]
             /\ UNCHANGED clock
     /\ UNCHANGED <<phase, log, storedAt, view, faults>>

PublishChunk(m, f) ==
  /\ mid = <<m, f>>
  /\ mid' = None
  /\ Publish(f, m, chunks[m])
  /\ UNCHANGED <<phase, entries, chunks, storedAt, view>>

\* a publication that fails, made or not, ends the runtime's run
PublishFails(m, f) ==
  /\ Fault
  /\ mid = <<m, f>>
  /\ mid' = None
  /\ phase' = [phase EXCEPT ![m] = "failed"]
  /\ Published(f, m, chunks[m]) \/ Unpublished
  /\ UNCHANGED <<entries, chunks, storedAt, view>>

CallTool(m) ==
  /\ phase[m] = "running" /\ mid = None /\ chunks[m] < MaxChunks[m]
  /\ chunks' = [chunks EXCEPT ![m] = @ + 1]
  /\ Publish("tool", m, chunks[m] + 1)
  /\ UNCHANGED <<phase, entries, mid, storedAt, view>>

\* what the runtime reports is published as it is, and the run goes on
Report(m, kind) ==
  /\ Fault
  /\ phase[m] = "running" /\ mid = None
  /\ Published(kind, m, 0)
  /\ UNCHANGED <<phase, entries, chunks, mid, storedAt, view>>

\* Run returns an error
RunFails(m) ==
  /\ Fault
  /\ phase[m] = "running" /\ mid = None
  /\ phase' = [phase EXCEPT ![m] = "failed"]
  /\ UNCHANGED <<clock, log, entries, chunks, mid, storedAt, view>>

\* the last two publications of run are not checked
Announce(m) ==
  /\ phase[m] = "failed"
  /\ phase' = [phase EXCEPT ![m] = "announced"]
  /\ Publish("error", m, 0) \/ (Fault /\ Unpublished)
  /\ UNCHANGED <<entries, chunks, mid, storedAt, view>>

Finish(m) ==
  /\ phase[m] \in {"running", "announced"} /\ mid = None
  /\ phase' = [phase EXCEPT ![m] = "over"]
  /\ Publish("idle", m, 0) \/ (Fault /\ Unpublished)
  /\ UNCHANGED <<entries, chunks, mid, storedAt, view>>

-----------------------------------------------------------------------------
(* The page *)

Stamp(i) == IF i[1] = "sent" THEN sentAt[i[2]] ELSE storedAt[i[2]]

\* the newest of the user messages us not stamped after at
LatestUserBefore(us, at) ==
  LET known == {i \in us : Stamp(i) <= at}
  IN IF known = {} THEN None
     ELSE CHOOSE i \in known : \A j \in known : Stamp(j) <= Stamp(i)

AddOptimistic(m) ==
  /\ sentAt' = [sentAt EXCEPT ![m] = clock + 1]
  /\ clock' = clock + 1
  /\ shown' = shown \cup {Sent(m)}
  /\ users' = users \cup {Sent(m)}
  /\ optimistic' = Append(optimistic, Sent(m))

\* handleSubmit in an open session: the row first, then the request
Submit(m) ==
  /\ page = "open" /\ call[m] = "idle"
  /\ AddOptimistic(m)
  /\ call' = [call EXCEPT ![m] = "sent"]
  /\ UNCHANGED <<server, page, faults, net, status, turns, restored, parent, done, text>>

\* handleSubmit without a session: no row before the reply names the session
SubmitNew(m) ==
  /\ page = "new" /\ \A n \in Prompts : call[n] = "idle"
  /\ call' = [call EXCEPT ![m] = "sent"]
  /\ UNCHANGED <<clock, server, sentAt, page, faults, net, status, chat, rows>>

Accepted(m) == call[m] = "sent" /\ phase[m] \notin {"none", "stored", "aborted"}

Reply(m) ==
  /\ page = "open" /\ Accepted(m)
  /\ call' = [call EXCEPT ![m] = "done"]
  /\ UNCHANGED <<clock, server, sentAt, page, faults, net, status, chat, rows>>

\* the row, then the navigation to the session
ReplyNew(m) ==
  /\ page = "new" /\ Accepted(m)
  /\ call' = [call EXCEPT ![m] = "done"]
  /\ page' = "open"
  /\ AddOptimistic(m)
  /\ UNCHANGED <<server, faults, net, status, turns, restored, parent, done, text>>

\* the catch branch takes the row out of the store, not out of ChatState
Withdraw(m) ==
  /\ shown' = shown \ {Sent(m)}
  /\ UNCHANGED <<clock, server, sentAt, page, net, status, chat, parent, done, text>>

Refuse(m) ==
  /\ call[m] = "sent"
  /\ (phase[m] = "none" /\ Busy) \/ phase[m] = "aborted"
  /\ call' = [call EXCEPT ![m] = "refused"]
  /\ Withdraw(m)
  /\ UNCHANGED faults

\* the request or its reply is lost
Lose(m) ==
  /\ Fault
  /\ call[m] = "sent"
  /\ call' = [call EXCEPT ![m] = "lost"]
  /\ Withdraw(m)

\* a visit of the session, which exists; nothing happens before the server lists
NextVisit(v) ==
  /\ visit[v] = "idle" /\ \A w \in 1..(v - 1) : visit[w] # "idle"
  /\ page = "open" \/ \E m \in Prompts : call[m] = "elsewhere"
  /\ \A m \in Prompts : page = "new" => call[m] # "sent"
  /\ page' = "open"

\* RpcChatSessionSeeder and restore up to its await
Visit(v) ==
  /\ NextVisit(v)
  /\ visit' = [visit EXCEPT ![v] = "listed"]
  /\ listed' = [listed EXCEPT ![v] = entries]
  /\ UNCHANGED <<clock, server, call, sentAt, faults, stream, lastSeq, status, chat, rows>>

\* a rejected listMessages ends the restore before its subscription
VisitFails(v) ==
  /\ Fault
  /\ NextVisit(v)
  /\ visit' = [visit EXCEPT ![v] = "done"]
  /\ UNCHANGED <<clock, server, call, sentAt, listed, stream, lastSeq, status, chat, rows>>

\* the first entry of each turn whose row is not there yet
Fresh(list) ==
  {i \in 1..Len(list) :
     /\ list[i].part # "user" /\ list[i].turn \notin shown
     /\ \A j \in 1..(i - 1) : ~(list[j].turn = list[i].turn /\ list[j].part # "user")}

Near(i, j) == Stamp(i) - Stamp(j) \in (-Window)..Window

\* mutant: the text is not compared
DedupesAny(acc, m) ==
  LET same == {k \in 1..Len(acc.ids) : acc.ids[k] \in shown /\ Near(acc.ids[k], Real(m))}
  IN IF same = {} THEN acc
     ELSE LET k == CHOOSE x \in same : \A y \in same : x <= y
          IN [ids |-> RemoveAt(acc.ids, k),
              copies |-> acc.copies \cup {<<acc.ids[k], Real(m)>>}]

\* dedupeOptimisticUserMessage: the first optimistic row the stored message can be a copy of
Dedupe(acc, m) ==
  LET same == {k \in 1..Len(acc.ids) :
                 /\ acc.ids[k] \in shown
                 /\ Text[acc.ids[k][2]] = Text[m]
                 /\ Near(acc.ids[k], Real(m))}
  IN IF same = {} THEN acc
     ELSE LET k == CHOOSE x \in same : \A y \in same : x <= y
          IN [ids |-> RemoveAt(acc.ids, k),
              copies |-> acc.copies \cup {<<acc.ids[k], Real(m)>>}]

\* mutant: history is restored and nothing compared
KeepsBoth(list) == [ids |-> optimistic, copies |-> {}]

\* dedupeOptimistic: one stored user message after the other
Deduped(list) ==
  LET acc[k \in 0..Len(list)] ==
        IF k = 0 THEN [ids |-> optimistic, copies |-> {}]
        ELSE IF list[k].part = "user" THEN Dedupe(acc[k - 1], list[k].turn)
        ELSE acc[k - 1]
  IN acc[Len(list)]

\* mutant: no row is linked again
Unlinked(p, copies) == p

\* the parent of a row once the optimistic rows gave way to their copies
Relinked(p, copies) ==
  LET c == {x \in copies : x[1] = p} IN IF c = {} THEN p ELSE (CHOOSE x \in c : TRUE)[2]

\* restoreHistory, dedupeOptimistic and ensureSubscription after the await
Restore(v) ==
  LET list == listed[v]
      fresh == Fresh(list)
      turnsOf == {list[i].turn : i \in fresh}
      entry == [m \in turnsOf |-> CHOOSE i \in fresh : list[i].turn = m]
      reals == {Real(list[i].turn) : i \in {j \in 1..Len(list) : list[j].part = "user"}}
      dedup == Deduped(list)
      gone == {c[1] : c \in dedup.copies}
      linked == [a \in Agents |->
        IF a \in turnsOf THEN LatestUserBefore(users \cup reals, list[entry[a]].at) ELSE parent[a]]
  IN /\ visit[v] = "listed"
     /\ visit' = [visit EXCEPT ![v] = "done"]
     /\ listed' = [listed EXCEPT ![v] = <<>>]
     /\ shown' = (shown \cup reals \cup turnsOf) \ gone
     /\ users' = (users \cup reals) \ gone
     /\ optimistic' = dedup.ids
     /\ parent' = [a \in Agents |-> Relinked(linked[a], dedup.copies)]
     /\ done' = done \cup {m \in turnsOf : entry[m] < Len(list)}
     /\ text' = [m \in Prompts |->
          IF m \in turnsOf
          THEN [text[m] EXCEPT ![list[entry[m]].part] = list[entry[m]].chunks] ELSE text[m]]
     /\ restored' = restored \cup turnsOf
     /\ stream' = IF stream = "none" THEN "open" ELSE stream
     /\ UNCHANGED <<clock, server, sends, faults, lastSeq, status, turns>>

\* mutant: a turn known to ChatState gets no row
InsertsNot(a, at) ==
  /\ turns' = turns \cup {a}
  /\ UNCHANGED <<shown, parent>>

\* turnFor and insertMessage
Insert(a, at) ==
  /\ turns' = turns \cup {a}
  /\ shown' = shown \cup {a}
  /\ parent' = IF a \in shown THEN parent
               ELSE [parent EXCEPT ![a] = LatestUserBefore(users, at)]

\* mutant: idle completes no turn
LeavesOpen(e) ==
  /\ e.kind \in {"running", "idle", "error"}
  /\ status' = IF e.kind = "running" THEN "busy" ELSE "idle"
  /\ UNCHANGED <<done, turns, shown, parent, text>>

ApplyState(e) ==
  /\ e.kind \in {"running", "idle", "error"}
  /\ status' = IF e.kind = "running" THEN "busy" ELSE "idle"
  /\ done' = IF e.kind = "running" THEN done ELSE done \cup turns
  /\ UNCHANGED <<turns, shown, parent, text>>

ApplyChunk(e) ==
  /\ e.kind \in Fields
  /\ Insert(e.turn, e.at)
  /\ text' = IF e.turn \in done THEN text ELSE [text EXCEPT ![e.turn][e.kind] = Append(@, e.n)]
  /\ UNCHANGED <<status, done>>

\* no event of a tool names its message
ApplyTool(e) ==
  /\ e.kind = "tool"
  /\ Insert(Shared, e.at)
  /\ UNCHANGED <<status, done, text>>

Deliver ==
  /\ stream = "open" /\ lastSeq < Len(log)
  /\ lastSeq' = lastSeq + 1
  /\ LET e == log[lastSeq + 1] IN ApplyState(e) \/ ApplyChunk(e) \/ ApplyTool(e)
  /\ UNCHANGED <<clock, server, sends, faults, visit, listed, stream, users, optimistic, restored>>

Drop ==
  /\ Fault
  /\ stream = "open"
  /\ stream' = "broken"
  /\ UNCHANGED <<clock, server, sends, visit, listed, lastSeq, status, chat, rows>>

\* mutant: the cursor of the first subscription is used again
ReconnectsAtStart ==
  /\ stream = "broken"
  /\ stream' = "open" /\ lastSeq' = 0
  /\ UNCHANGED <<clock, server, sends, faults, visit, listed, status, chat, rows>>

\* the loop of runSubscription subscribes again with its cursor
Reconnect ==
  /\ stream = "broken"
  /\ stream' = "open"
  /\ UNCHANGED <<clock, server, sends, faults, visit, listed, lastSeq, status, chat, rows>>

\* a page load: everything but the URL is forgotten
Reload ==
  /\ Fault
  /\ page = "open"
  /\ call' = [m \in Prompts |-> IF call[m] = "sent" THEN "lost" ELSE call[m]]
  /\ visit' = [v \in Visits |-> IF visit[v] = "idle" THEN "idle" ELSE "done"]
  /\ listed' = [v \in Visits |-> <<>>]
  /\ users' = {} /\ optimistic' = <<>> /\ turns' = {} /\ restored' = {}
  /\ shown' = {} /\ parent' = [a \in Agents |-> None] /\ done' = {}
  /\ text' = [m \in Prompts |-> Blank]
  /\ stream' = "none" /\ lastSeq' = 0 /\ status' = "idle"
  /\ UNCHANGED <<clock, server, sentAt, page>>

Serve(m) ==
  \/ Start(m) \/ Announce(m) \/ Finish(m)
  \/ \E f \in Fields : PublishChunk(m, f)

CNext ==
  \/ \E m \in Prompts :
       \/ StoreSent(m) \/ StoreElsewhere(m) \/ Serve(m) \/ StartFails(m)
       \/ CallTool(m) \/ RunFails(m)
       \/ \E kind \in {"running", "idle", "error"} : Report(m, kind)
       \/ \E f \in Fields : AppendText(m, f) \/ PublishFails(m, f)
       \/ Submit(m) \/ SubmitNew(m) \/ Reply(m) \/ Refuse(m) \/ Lose(m)
       \/ ReplyNew(m)
  \/ \E v \in Visits : Visit(v) \/ VisitFails(v) \/ Restore(v)
  \/ Deliver \/ Drop \/ Reconnect \/ Reload

CSpec == CInit /\ [][CNext]_cvars

CFairSpec ==
  /\ CSpec
  /\ WF_cvars(Deliver) /\ WF_cvars(Reconnect)

-----------------------------------------------------------------------------

\* Every variable keeps its type; a turn the page follows has a row, and ChatState
\* knows every user row, so that restore finds none to adopt.
CTypeOK ==
  /\ clock \in Nat /\ faults \in 0..MaxFaults
  /\ phase \in [Prompts -> Phases] /\ call \in [Prompts -> Calls]
  /\ chunks \in [Prompts -> Nat] /\ \A m \in Prompts : chunks[m] <= MaxChunks[m]
  /\ mid \in {None} \cup (Prompts \X Fields)
  /\ sentAt \in [Prompts -> Nat] /\ storedAt \in [Prompts -> Nat]
  /\ log \in Seq([kind : Kinds, turn : Prompts, n : Nat, at : Nat])
  /\ entries \in Seq([turn : Prompts, part : Fields \cup {"user"}, chunks : Seq(Nat), at : Nat])
  /\ page \in {"new", "open"} /\ status \in {"busy", "idle"}
  /\ visit \in [Visits -> {"idle", "listed", "done"}]
  /\ \A v \in Visits : Len(listed[v]) <= Len(entries)
  /\ stream \in {"none", "open", "broken"} /\ lastSeq \in 0..Len(log)
  /\ shown \cap UserRows \subseteq users /\ users \subseteq UserRows
  /\ optimistic \in Seq({Sent(m) : m \in Prompts})
  /\ shown \subseteq UserRows \cup Agents
  /\ turns \subseteq shown /\ done \subseteq shown \cap Agents
  /\ restored \subseteq shown \cap Prompts
  /\ parent \in [Agents -> UserRows \cup {None}]
  /\ text \in [Prompts -> [Fields -> Seq(Nat)]]

Chunk(e) == e.kind \in Fields
Completes(e) == e.kind \in {"idle", "error"}

\* The events applied that carry a chunk of m in part f while m is open: those after an
\* idle or an error that found the answer begun are dropped (applyChunk).
Carried(m, f) ==
  {i \in 1..lastSeq :
     /\ log[i].turn = m /\ log[i].kind = f
     /\ ~\E h, k \in 1..(i - 1) :
          h < k /\ log[h].turn = m /\ Chunk(log[h]) /\ Completes(log[k])}

\* Across broken streams, visits and reloads, the text of an answer drawn from the
\* stream is that of the events that carried it: one chunk for each, in their order,
\* never an earlier chunk after a later one (applyChunk, runSubscription).  Only an
\* event published twice shows its chunk twice.
LiveExact ==
  \A m \in Prompts \ restored : \A f \in Fields :
    /\ \E from \in [1..Len(text[m][f]) -> Carried(m, f)] :
         /\ \A i \in Carried(m, f) : \E c \in 1..Len(text[m][f]) : from[c] = i
         /\ \A c, d \in 1..Len(text[m][f]) : c < d => from[c] < from[d]
         /\ \A c \in 1..Len(text[m][f]) : text[m][f][c] = log[from[c]].n
    /\ \A c, d \in 1..Len(text[m][f]) : c < d => text[m][f][c] <= text[m][f][d]

\* A prompt has one row: once a restore drew its stored copy the optimistic row is
\* gone, unless they were stamped more than Window apart or another prompt that says
\* the same was sent (dedupeOptimisticUserMessage).
NoDuplicateRow ==
  \A m \in Prompts :
    {Sent(m), Real(m)} \subseteq shown =>
      \/ ~Near(Sent(m), Real(m))
      \/ \E n \in Prompts \ {m} : Text[n] = Text[m] /\ {sentAt[n], storedAt[n]} # {0}

\* An agent's row hangs under a row that is shown, or under none, or under the row
\* of a send that failed; it is never left under a row that gave way to its copy.
ParentsKept ==
  \A a \in Agents \cap shown :
    \/ parent[a] \in shown \cup {None}
    \/ \E m \in Prompts : parent[a] = Sent(m) /\ call[m] \in {"refused", "lost"}

\* A user's row leaves the page only when its send fails, when a stored message that
\* says the same is drawn in the same step, or with the page itself.
RowsStay ==
  [][\A m \in Prompts :
       Sent(m) \in shown /\ Sent(m) \notin shown' =>
         \/ shown' = {} /\ users' = {}
         \/ call[m] = "sent" /\ call'[m] \in {"refused", "lost"}
         \/ \E n \in Prompts : Text[n] = Text[m] /\ Real(n) \in shown']_cvars

\* A subscribed page ends up with every event applied, those of turns that never return
\* included; if the last is an idle or an error, it shows the session idle and no answer
\* it followed as still being written (runSubscription, completeTurns).
CatchesUp ==
  <>[](stream # "none" =>
         /\ lastSeq = Len(log)
         /\ log # <<>> /\ Completes(Last(log)) => status = "idle" /\ turns \subseteq done)

\* "Assistant turns that referenced the optimistic id are re-linked to the real id":
\* with the stored message on the page, no answer is left under a row withdrawn for it.
TurnsRelinked ==
  \A m \in Prompts : \A a \in Agents \cap shown :
    Real(m) \in shown /\ Sent(m) \notin shown => parent[a] # Sent(m)

=============================================================================
