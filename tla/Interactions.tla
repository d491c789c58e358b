---------------------------- MODULE Interactions ----------------------------
(***************************************************************************)
(* Permissions and questions of one session: application/interactions.go   *)
(* over adapter/redisstore/interactions.go.  A request is stored once and  *)
(* decided once, under compare-and-set; each change is then published on   *)
(* the session's stream in a call of its own.  The two repositories run    *)
(* the same scripts; they differ in how an answer given before is          *)
(* recognised.                                                             *)
(***************************************************************************)
EXTENDS Integers, Sequences, FiniteSets

CONSTANTS Requests,   \* ids a runtime asks with
          Decisions,  \* what can be answered
          Rejections, \* those that say no, without answers
          Callers,    \* calls of RespondPermission or ReplyQuestion
          Deleters,   \* calls of DeleteSession
          Tries,      \* attempts of one answer; 4 in the code
          MaxAsks,    \* bound: calls of Ask with one id, retries included
          LateAsks,   \* whether a request may be asked while a deletion runs
          Faults      \* kinds of failure that may happen

FaultKinds == {"reply", "publish"}
Undecided == {"absent", "pending"}

ASSUME InteractionsAssumption ==
  /\ Tries \in Nat \ {0} /\ MaxAsks \in Nat
  /\ LateAsks \in BOOLEAN /\ Faults \subseteq FaultKinds
  /\ Rejections \subseteq Decisions /\ Decisions \cap Undecided = {}
  /\ Requests \cap {"idle", "unlist", "record", "done", "failed"} = {}

VARIABLES
  record,      \* request -> absent, pending, or the decision stored with it
  projectIds,  \* the project's index of pending ids
  sessionIds,  \* the session's index of all ids
  alive,       \* the session has a record
  questions,   \* which requests are questions; the others are permissions
  log,         \* events of the session's stream: <<"asked" or "replied", request>>
  asking, asks,                 \* the call of Ask with an id, and how many there were
  apc, request, want, tries,    \* an answering call
  dpc, left                     \* a deletion and the ids it has to remove

storeVars == <<record, projectIds, sessionIds>>
sessionVars == <<alive, questions>>
askVars == <<asking, asks>>
answerVars == <<apc, request, want, tries>>
deleteVars == <<dpc, left>>
interactionVars == <<storeVars, sessionVars, log, askVars, answerVars, deleteVars>>

NoRequest == "none"

IInit ==
  /\ record = [r \in Requests |-> "absent"]
  /\ projectIds = {} /\ sessionIds = {} /\ log = <<>>
  /\ alive = TRUE /\ questions \in SUBSET Requests
  /\ asking = [r \in Requests |-> "idle"] /\ asks = [r \in Requests |-> 0]
  /\ apc = [c \in Callers |-> "idle"]
  /\ request = [c \in Callers |-> NoRequest]
  /\ want = [c \in Callers |-> "pending"] /\ tries = [c \in Callers |-> 0]
  /\ dpc = [d \in Deleters |-> "idle"] /\ left = [d \in Deleters |-> {}]

Untouched == \A d \in Deleters : dpc[d] = "idle"
Decided(r) == record[r] \in Decisions
Ended == {"accepted", "repeated", "conflict", "exhausted", "notfound", "failed"}

-----------------------------------------------------------------------------
(* AskPermission, AskQuestion *)

AskGoto(r, label) == asking' = [asking EXCEPT ![r] = label]

AskBegin(r) ==
  /\ asking[r] = "idle" /\ asks[r] < MaxAsks /\ alive
  /\ LateAsks \/ Untouched
  /\ asks' = [asks EXCEPT ![r] = @ + 1]
  /\ AskGoto(r, "create")
  /\ UNCHANGED <<storeVars, sessionVars, log, answerVars, deleteVars>>

\* createInteractionScript.  Only the call that creates the request goes on to
\* publish it: one that repeats it, or lost the first reply, does not.
AskCreate(r) ==
  /\ asking[r] = "create"
  /\ \/ /\ record[r] = "absent"
        /\ record' = [record EXCEPT ![r] = "pending"]
        /\ projectIds' = projectIds \cup {r}
        /\ sessionIds' = sessionIds \cup {r}
        /\ \/ AskGoto(r, "publish")
           \/ "reply" \in Faults /\ AskGoto(r, "idle")
     \/ record[r] # "absent" /\ AskGoto(r, "idle") /\ UNCHANGED storeVars
  /\ UNCHANGED <<sessionVars, log, asks, answerVars, deleteVars>>

\* A publication reaches the stream or not; an error does not tell which.
Published(kind, r) == log' = Append(log, <<kind, r>>)
Unpublished == "publish" \in Faults /\ UNCHANGED log

AskPublish(r) ==
  /\ asking[r] = "publish"
  /\ Published("asked", r) \/ Unpublished
  /\ AskGoto(r, "idle")
  /\ UNCHANGED <<storeVars, sessionVars, asks, answerVars, deleteVars>>

-----------------------------------------------------------------------------
(* RespondPermission, ReplyQuestion *)

AnswerGoto(c, label) == apc' = [apc EXCEPT ![c] = label]

AnswerBegin(c, r, d) ==
  /\ apc[c] = "idle"
  /\ request' = [request EXCEPT ![c] = r]
  /\ want' = [want EXCEPT ![c] = d]
  /\ AnswerGoto(c, IF alive THEN "load" ELSE "notfound")
  /\ UNCHANGED <<storeVars, sessionVars, log, askVars, tries, deleteVars>>

\* Respond compares decisions.  Reply compares answers too, and a rejection is
\* stored with an empty list of them and repeated with none at all, which
\* reflect.DeepEqual tells apart.
Recognised(c) ==
  /\ record[request[c]] = want[c]
  /\ request[c] \in questions => want[c] \notin Rejections

\* The head of the loop in Respond and Reply: what the record says already ends
\* the call.
AnswerLoad(c) ==
  /\ apc[c] = "load"
  /\ \/ record[request[c]] = "absent" /\ AnswerGoto(c, "notfound")
     \/ record[request[c]] = "pending" /\ AnswerGoto(c, "resolve")
     \/ Recognised(c) /\ AnswerGoto(c, "repeated")
     \/ Decided(request[c]) /\ ~Recognised(c) /\ AnswerGoto(c, "conflict")
  /\ UNCHANGED <<storeVars, sessionVars, log, askVars, request, want, tries, deleteVars>>

\* The script changes nothing unless the record is what the call has loaded.
UnchangedIgnored(c) == record[request[c]] # "absent"   \* mutant: HSET without the comparison
StillUndecided(c) == record[request[c]] = "pending"

StaysListed(c) == UNCHANGED projectIds   \* mutant: no SREM
Unlist(c) == projectIds' = projectIds \ {request[c]}

TryAgain(c) ==
  /\ tries' = [tries EXCEPT ![c] = @ + 1]
  /\ AnswerGoto(c, IF tries[c] + 1 = Tries THEN "exhausted" ELSE "load")

\* resolveInteractionScript.  The Redis client repeats a script whose reply was
\* lost (MaxRetries); the repetition meets the record it has written itself,
\* reports a change by somebody else and sends Respond round its loop.
AnswerResolve(c) ==
  /\ apc[c] = "resolve"
  /\ \/ /\ StillUndecided(c)
        /\ record' = [record EXCEPT ![request[c]] = want[c]]
        /\ Unlist(c)
        /\ \/ AnswerGoto(c, "publish") /\ UNCHANGED tries
           \/ "reply" \in Faults /\ AnswerGoto(c, "failed") /\ UNCHANGED tries
           \/ "reply" \in Faults /\ TryAgain(c)
     \/ /\ record[request[c]] = "absent"
        /\ AnswerGoto(c, "notfound") /\ UNCHANGED <<record, projectIds, tries>>
     \/ /\ ~StillUndecided(c) /\ Decided(request[c])
        /\ TryAgain(c) /\ UNCHANGED <<record, projectIds>>
  /\ UNCHANGED <<sessionIds, sessionVars, log, askVars, request, want, deleteVars>>

\* Nobody repeats a publication that failed: the decision stands, and the same
\* answer given again is only "repeated".
AnswerPublish(c) ==
  /\ apc[c] = "publish"
  /\ \/ Published("replied", request[c]) /\ AnswerGoto(c, "accepted")
     \/ /\ Published("replied", request[c]) \/ Unpublished
        /\ "publish" \in Faults /\ AnswerGoto(c, "failed")
  /\ UNCHANGED <<storeVars, sessionVars, askVars, request, want, tries, deleteVars>>

AnswerStep(c) == AnswerLoad(c) \/ AnswerResolve(c) \/ AnswerPublish(c)

-----------------------------------------------------------------------------
(* DeleteSession: deleteRedisInteractions, then the session's record *)

DeleteGoto(d, label) == dpc' = [dpc EXCEPT ![d] = label]

DeleteList(d) ==
  /\ dpc[d] = "idle" /\ alive
  /\ LateAsks \/ \A r \in Requests : asking[r] = "idle"
  /\ left' = [left EXCEPT ![d] = sessionIds]
  /\ DeleteGoto(d, "unlist")
  /\ UNCHANGED <<storeVars, sessionVars, log, askVars, answerVars>>

\* HGET and SREM of one id, then HDEL of its record.
DeleteUnlist(d, r) ==
  /\ dpc[d] = "unlist" /\ r \in left[d]
  /\ projectIds' = IF record[r] = "absent" THEN projectIds ELSE projectIds \ {r}
  /\ left' = [left EXCEPT ![d] = @ \ {r}]
  /\ DeleteGoto(d, r)
  /\ UNCHANGED <<record, sessionIds, sessionVars, log, askVars, answerVars>>

DeleteErase(d, r) ==
  /\ dpc[d] = r
  /\ record' = [record EXCEPT ![r] = "absent"]
  /\ DeleteGoto(d, "unlist")
  /\ UNCHANGED <<projectIds, sessionIds, sessionVars, log, askVars, answerVars, left>>

DropEarly(d) == TRUE   \* mutant: the index goes first
AllErased(d) == left[d] = {}

DeleteIndex(d) ==
  /\ dpc[d] = "unlist" /\ AllErased(d)
  /\ sessionIds' = {}
  /\ DeleteGoto(d, "record")
  /\ UNCHANGED <<record, projectIds, sessionVars, log, askVars, answerVars, left>>

DeleteRecord(d) ==
  /\ dpc[d] = "record"
  /\ alive' = FALSE /\ UNCHANGED questions
  /\ DeleteGoto(d, "done")
  /\ UNCHANGED <<storeVars, log, askVars, answerVars, left>>

\* A call fails, or the replica dies.
DeleteAbandon(d) ==
  /\ dpc[d] \in {"unlist", "record"} \cup Requests
  /\ DeleteGoto(d, "failed")
  /\ UNCHANGED <<storeVars, sessionVars, log, askVars, answerVars, left>>

DeleteStep(d) ==
  \/ DeleteList(d) \/ DeleteIndex(d) \/ DeleteRecord(d) \/ DeleteAbandon(d)
  \/ \E r \in Requests : DeleteUnlist(d, r) \/ DeleteErase(d, r)

AskStep(r) == AskBegin(r) \/ AskCreate(r) \/ AskPublish(r)

INext == \/ \E r \in Requests : AskStep(r)
         \/ \E c \in Callers : AnswerStep(c)
         \/ \E c \in Callers, r \in Requests, d \in Decisions : AnswerBegin(c, r, d)
         \/ \E d \in Deleters : DeleteStep(d)

ISpec == IInit /\ [][INext]_interactionVars

-----------------------------------------------------------------------------
(* Properties *)

StoreTypeOK == /\ record \in [Requests -> Undecided \cup Decisions]
               /\ projectIds \subseteq Requests /\ sessionIds \subseteq Requests

CallTypeOK ==
  /\ asking \in [Requests -> {"idle", "create", "publish"}]
  /\ asks \in [Requests -> 0 .. MaxAsks]
  /\ apc \in [Callers -> {"idle", "load", "resolve", "publish"} \cup Ended]
  /\ request \in [Callers -> Requests \cup {NoRequest}]
  /\ want \in [Callers -> Decisions \cup {"pending"}]
  /\ tries \in [Callers -> 0 .. Tries]
  /\ \A c \in Callers : apc[c] # "idle" => request[c] \in Requests /\ want[c] \in Decisions
  /\ dpc \in [Deleters -> {"idle", "unlist", "record", "done", "failed"} \cup Requests]
  /\ left \in [Deleters -> SUBSET Requests]

\* Types of all state; a call that left "idle" has a request and a decision.
ITypeOK == /\ StoreTypeOK /\ CallTypeOK /\ alive \in BOOLEAN /\ questions \subseteq Requests
           /\ log \in Seq({"asked", "replied"} \X Requests)

\* A decision is final: two answers that race, an answer repeated after a lost
\* reply and a request asked again leave the stored decision alone; only the
\* deletion of the session removes it.
DecisionFinal ==
  [][\A r \in Requests : Decided(r) => record'[r] \in {record[r], "absent"}]_interactionVars

\* As long as the session is not being deleted every caller is told the truth:
\* success means that its own decision stands, a conflict that another one
\* does, and no caller is told that the record kept changing, since a second
\* attempt always finds the decision that stopped the first.  Who rejects a
\* question that is rejected already is told of a conflict all the same.
AnswersTruthful ==
  Untouched => \A c \in Callers :
    /\ apc[c] \in {"publish", "accepted", "repeated"} => record[request[c]] = want[c]
    /\ apc[c] = "conflict" => /\ Decided(request[c])
                              /\ \/ record[request[c]] # want[c]
                                 \/ request[c] \in questions /\ want[c] \in Rejections
    /\ Tries > 1 => apc[c] # "exhausted"

\* The lists users work from: outside a deletion the project's index holds
\* exactly the requests that wait for a decision and the session's index all
\* of them, and a decided request is offered again at no time.
IndexesAgree ==
  /\ \A r \in Requests : Decided(r) => r \notin projectIds
  /\ Untouched => /\ projectIds = {r \in Requests : record[r] = "pending"}
                  /\ sessionIds = {r \in Requests : record[r] # "absent"}

\* A deletion can be repeated until it succeeds: a record that is left is still
\* in the index from which the next attempt reads, and none is left when the
\* session is gone, unless requests are asked while the deletion runs.
ErasureRepeatable ==
  ~LateAsks => /\ \A r \in Requests : record[r] # "absent" => r \in sessionIds
               /\ ~alive => \A r \in Requests : record[r] = "absent"
=============================================================================
