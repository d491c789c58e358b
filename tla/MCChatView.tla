---------------------------- MODULE MCChatView ----------------------------
EXTENDS ChatView
CONSTANTS p, q
Says == [m \in Prompts |-> IF m = p THEN "yes" ELSE "no"]
TwoAndNone == [m \in Prompts |-> IF m = p THEN 2 ELSE 0]

\* Thought and text are treated alike, so an answer that begins with text is the mirror
\* image of one that begins with thought.
ThoughtFirst ==
  \A i \in 1..Len(entries) : entries[i].part = "text" =>
    \E j \in 1..(i - 1) : entries[j].turn = entries[i].turn /\ entries[j].part = "thought"

\* The turn without chunks neither fails nor repeats; that of the other may.
SecondPlain ==
  /\ phase[q] \notin {"failed", "announced", "aborted"}
  /\ Cardinality({i \in 1..Len(log) : log[i].turn = q}) <= 2

\* A second tool event would find the shared row there.
OneTool == Cardinality({i \in 1..Len(log) : log[i].kind = "tool"}) <= 1

\* Of the statuses a runtime may report only an error is explored: an idle is applied as
\* an error is, and a running finds the session busy.
ReportsError ==
  \A i \in 1..Len(log) :
    /\ log[i].kind = "idle" => phase[log[i].turn] = "over"
    /\ log[i].kind = "running" => \A j \in 1..(i - 1) : log[j].kind = "running" => log[j].turn # log[i].turn

\* Only chunks are published twice: a status changes nothing the second time.
ChunksTwice == \A i \in 1..Len(log) - 1 : log[i] = log[i + 1] => Chunk(log[i])

Bounded == ThoughtFirst /\ SecondPlain /\ OneTool /\ ReportsError /\ ChunksTwice
=============================================================================
