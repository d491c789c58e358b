----------------------- MODULE PermissionDocksProofs -----------------------
(* Theorems about PermissionDocks: what Interactions promises holds beside  *)
(* a browser that answers by itself, and that browser answers each request  *)
(* once, hides none that it does not answer, and answers none it may not.   *)
EXTENDS PermissionDocks, InteractionsProofs

Live(c) == /\ c \in AutoCallers /\ origin[c] \in {"sent", "kept"}
           /\ request[c] \notin forgotten

(* An automatic answer was sent for the request or is about to be.          *)
Given(r) == \/ r \in outbox
            \/ \E c \in AutoCallers : origin[c] # "none" /\ request[c] = r

Lists == [phase : {"none", "asked", "replied", "applied"}, of : {"session", "directory"},
          version : Nat, found : SUBSET Requests]

(* The part of the browser's state that PTypeOK does not describe.          *)
RestTypeOK ==
  /\ toggles \in Nat /\ version \in Nat /\ loads \in Nat
  /\ lists \in [1 .. MaxToggles -> Lists] /\ load \in Lists

ViewTypeOK ==
  /\ applied \in 0 .. Len(log) /\ docks \subseteq Requests /\ seeded \in BOOLEAN
  /\ own \in Positions /\ shared \in Positions /\ known \in BOOLEAN
  /\ checking \subseteq Requests \X (1 .. MaxToggles)
  /\ docks # {} => seeded

AutoTypeOK ==
  /\ responded \cup forgotten \subseteq Requests /\ outbox \subseteq responded \cup forgotten
  /\ origin \in [Callers -> {"none", "sent", "kept", "refused"}]

(* An automatic answer that is under way, or succeeded, is remembered until *)
(* it is pruned, so no reaction sends another; what is remembered was sent, *)
(* and a call that was used is not used again.                              *)
LiveResponded == \A c \in Callers : Live(c) => request[c] \in responded
RespondedGiven == \A r \in responded : Given(r)
UsedBegun == \A c \in AutoCallers : origin[c] # "none" => apc[c] # "idle"

Answering == AutoTypeOK /\ AnsweredOnce /\ LiveResponded /\ RespondedGiven /\ UsedBegun

-----------------------------------------------------------------------------
(* The browser is a client of Interactions: all it does to the requests is  *)
(* to begin answers.                                                        *)

(* Steps of the browser that call nobody.                                   *)
LocalStep ==
  \/ SwitchSession \/ SwitchDirectory \/ EnableConfigured \/ LineageLoaded \/ PruneResponded
  \/ \E n \in 1 .. MaxToggles : ListReply(n) \/ ListApply(n)
  \/ \E r \in Requests, n \in 1 .. MaxToggles : CheckDone(r, n)
  \/ ApplyEvent \/ LoadReply \/ LoadApply

LEMMA StepsByKind ==
  ASSUME [PNext]_docksVars
  PROVE  \/ INext /\ UNCHANGED clientVars
         \/ \E c \in Callers, r \in Requests : SendAuto(c, r)
         \/ \E c \in Callers : AutoReturns(c)
         \/ LocalStep
         \/ UNCHANGED docksVars
<1>1. ASSUME NEW c \in Callers, NEW r \in Requests, NEW d \in Decisions, UserAnswers(c, r, d)
      PROVE  INext /\ UNCHANGED clientVars
  BY <1>1 DEF UserAnswers, INext
<1>2. QED
  BY <1>1 DEF PNext, ClientStep, LocalStep, INext

LEMMA LocalStepsAlone == LocalStep => UNCHANGED <<interactionVars, origin>>
  BY DEF LocalStep, SwitchSession, SwitchDirectory, EnableConfigured, Toggle, LineageLoaded,
         PruneResponded, ListReply,
         ListApply, CheckDone, ApplyEvent, LoadReply, LoadApply

LEMMA ClientCalls ==
  ASSUME [PNext]_docksVars
  PROVE  [INext]_interactionVars
<1>1. ASSUME NEW c \in Callers, NEW r \in Requests, SendAuto(c, r) PROVE INext
  BY <1>1, DocksAssumption DEF SendAuto, INext
<1>2. ASSUME NEW c \in Callers, AutoReturns(c) PROVE UNCHANGED interactionVars
  BY <1>2 DEF AutoReturns
<1>3. UNCHANGED docksVars => UNCHANGED interactionVars
  BY DEF docksVars
<1>4. QED
  BY <1>1, <1>2, <1>3, StepsByKind, LocalStepsAlone

(* Whatever the browser does, the requests behave as Interactions says.     *)
THEOREM DocksUseInteractions == PSpec => ISpec
<1>1. PInit => IInit
  BY DEF PInit
<1>2. QED
  BY <1>1, ClientCalls, PTL DEF PSpec, ISpec

(* So automatic answers that race a user's, a deletion or a repeated script *)
(* are told the truth, like everybody.                                      *)
THEOREM AutomaticAnswersTruthful == PSpec => []AnswersTruthful
BY DocksUseInteractions, CallersLearnTheTruth, PTL

(* The lists from which the browser takes what to answer are right.         *)
THEOREM ListsAgreeBesideDocks == PSpec => []IndexesAgree
BY DocksUseInteractions, ListsAgree, PTL

(* A deletion can be repeated also while the browser answers by itself.     *)
THEOREM ErasureBesideDocks == PSpec => []ErasureRepeatable
BY DocksUseInteractions, ErasureCanRepeat, PTL

-----------------------------------------------------------------------------
(* What the steps of the requests mean for the browser: the stream grows,   *)
(* and a call that has begun keeps its request.                             *)
LEMMA StreamGrows ==
  ASSUME ITypeOK, [INext]_interactionVars
  PROVE  Len(log') \in Nat /\ Len(log) \in Nat /\ Len(log) <= Len(log')
<1> USE DEF storeVars, sessionVars, askVars, answerVars, deleteVars
<1>1. log \in Seq({"asked", "replied"} \X Requests)
  BY DEF ITypeOK
<1>2. log' = log \/ \E e : log' = Append(log, e)
  BY DEF INext, AskStep, AskBegin, AskCreate, AskPublish, AnswerStep, AnswerLoad,
         AnswerResolve, AnswerPublish, AnswerBegin, DeleteStep, DeleteList, DeleteUnlist,
         DeleteErase, DeleteIndex, DeleteRecord, DeleteAbandon, Published, Unpublished,
         interactionVars
<1>3. Len(log) \in Nat /\ \A e : Len(Append(log, e)) = Len(log) + 1
  BY <1>1
<1>4. QED
  BY <1>2, <1>3

LEMMA CallsKept ==
  ASSUME ITypeOK, [INext]_interactionVars, NEW c \in Callers, apc[c] # "idle"
  PROVE  apc'[c] # "idle" /\ request'[c] = request[c]
<1> USE DEF storeVars, sessionVars, askVars, answerVars, deleteVars
<1>a. CallTypeOK
  BY DEF ITypeOK
<1>1. ASSUME NEW b \in Callers, AnswerStep(b)
      PROVE  apc'[c] # "idle" /\ request'[c] = request[c]
  BY <1>1, <1>a DEF AnswerStep, AnswerLoad, AnswerResolve, AnswerPublish, TryAgain,
                    AnswerGoto, CallTypeOK
<1>2. ASSUME NEW b \in Callers, NEW r \in Requests, NEW d \in Decisions, AnswerBegin(b, r, d)
      PROVE  apc'[c] # "idle" /\ request'[c] = request[c]
  BY <1>2, <1>a DEF AnswerBegin, AnswerGoto, CallTypeOK
<1>3. ASSUME \/ \E r \in Requests : AskStep(r)
             \/ \E d \in Deleters : DeleteStep(d)
             \/ UNCHANGED interactionVars
      PROVE  UNCHANGED <<apc, request>>
  BY <1>3 DEF AskStep, AskBegin, AskCreate, AskPublish, DeleteStep, DeleteList,
              DeleteUnlist, DeleteErase, DeleteIndex, DeleteRecord, DeleteAbandon,
              interactionVars
<1>4. QED
  BY <1>1, <1>2, <1>3 DEF INext

-----------------------------------------------------------------------------
(* Types.                                                                   *)
LEMMA PendingTyped == ITypeOK => Pending \subseteq Requests
  BY DEF Pending, ITypeOK, StoreTypeOK

LEMMA RestTypeStep == ITypeOK /\ RestTypeOK /\ [PNext]_docksVars => RestTypeOK'
<1> USE DEF switchVars, viewVars, autoVars, respondedVars, loadVars, Lists
<1> SUFFICES ASSUME ITypeOK, RestTypeOK, [PNext]_docksVars PROVE RestTypeOK'
  OBVIOUS
<1>1. ASSUME UNCHANGED <<switchVars, lists, loadVars>> PROVE RestTypeOK'
  BY <1>1 DEF RestTypeOK
<1>2. ASSUME SwitchSession \/ SwitchDirectory PROVE RestTypeOK'
  <2>1. toggles' \in Nat /\ version' \in Nat /\ UNCHANGED loadVars
    BY <1>2 DEF RestTypeOK, SwitchSession, SwitchDirectory, Toggle
  <2>2. lists' = lists \/ StartList("session") \/ StartList("directory")
    BY <1>2 DEF SwitchSession, SwitchDirectory
  <2>3. lists' \in [1 .. MaxToggles -> Lists]
    BY <2>1, <2>2 DEF RestTypeOK, StartList
  <2>4. QED
    BY <2>1, <2>3 DEF RestTypeOK
<1>3. ASSUME NEW n \in 1 .. MaxToggles, ListReply(n) \/ ListApply(n) PROVE RestTypeOK'
  BY <1>3, PendingTyped DEF RestTypeOK, ListReply, ListApply
<1>4. ASSUME LoadReply \/ LoadApply PROVE RestTypeOK'
  <2>1. UNCHANGED <<switchVars, lists>>
    BY <1>4 DEF LoadReply, LoadApply
  <2>2. load' \in Lists /\ loads' \in Nat
    <3>1. CASE LoadReply
      <4>1. load' = [load EXCEPT !.phase = "replied", !.found = Pending] /\ loads' = loads + 1
        BY <3>1 DEF LoadReply
      <4>2. load \in Lists /\ loads \in Nat /\ Pending \subseteq Requests
        BY PendingTyped DEF RestTypeOK
      <4>3. load' = [phase |-> "replied", of |-> load.of, version |-> load.version,
                     found |-> Pending]
        BY <4>1, <4>2
      <4>4. QED
        BY <4>1, <4>2, <4>3
    <3>2. CASE LoadApply
      BY <3>2 DEF LoadApply, NoList, RestTypeOK
    <3>3. QED
      BY <1>4, <3>1, <3>2
  <2>3. QED
    BY <2>1, <2>2 DEF RestTypeOK
<1>8. ASSUME EnableConfigured PROVE RestTypeOK'
  BY <1>8 DEF EnableConfigured, RestTypeOK
<1>5. ASSUME ApplyEvent \/ LineageLoaded \/ PruneResponded
             \/ \E r \in Requests, n \in 1 .. MaxToggles : CheckDone(r, n)
      PROVE  UNCHANGED <<switchVars, lists, loadVars>>
  BY <1>5 DEF ApplyEvent, LineageLoaded, PruneResponded, CheckDone
<1>6. ASSUME NEW c \in Callers, AutoReturns(c) \/ \E r \in Requests : SendAuto(c, r)
      PROVE  UNCHANGED <<switchVars, lists, loadVars>>
  BY <1>6 DEF AutoReturns, SendAuto
<1>7. QED
  BY <1>1, <1>2, <1>3, <1>4, <1>5, <1>6, <1>8, StepsByKind DEF LocalStep, clientVars, docksVars

LEMMA ViewTypeStep ==
  ITypeOK /\ RestTypeOK /\ ViewTypeOK /\ [PNext]_docksVars => ViewTypeOK'
<1> USE DEF switchVars, viewVars, autoVars, respondedVars, loadVars
<1> SUFFICES ASSUME ITypeOK, RestTypeOK, ViewTypeOK, [PNext]_docksVars PROVE ViewTypeOK'
  OBVIOUS
<1>a. Len(log) \in Nat /\ Len(log') \in Nat /\ Len(log) <= Len(log')
  BY ClientCalls, StreamGrows
<1>b. applied \in 0 .. Len(log')
  BY <1>a DEF ViewTypeOK
<1>1. ASSUME UNCHANGED <<viewVars, own, shared, known, checking>> PROVE ViewTypeOK'
  BY <1>1, <1>b DEF ViewTypeOK
<1>2. ASSUME SwitchSession \/ SwitchDirectory \/ EnableConfigured \/ LineageLoaded
      PROVE  ViewTypeOK'
  BY <1>2, <1>b DEF ViewTypeOK, SwitchSession, SwitchDirectory, EnableConfigured, Toggle,
                    LineageLoaded, Positions
<1>3. ASSUME NEW n \in 1 .. MaxToggles, ListApply(n) PROVE ViewTypeOK'
  <2>1. lists[n].found \subseteq Requests
    BY DEF RestTypeOK, Lists
  <2>2. checking' \subseteq Requests \X (1 .. MaxToggles)
    BY <1>3, <2>1 DEF ListApply, ViewTypeOK
  <2>3. QED
    BY <1>3, <1>b, <2>2 DEF ListApply, ViewTypeOK
<1>4. ASSUME NEW r \in Requests, NEW n \in 1 .. MaxToggles, CheckDone(r, n) PROVE ViewTypeOK'
  BY <1>4, <1>b DEF CheckDone, ViewTypeOK
<1>5. ASSUME ApplyEvent PROVE ViewTypeOK'
  <2>1. log[applied + 1][2] \in Requests
    BY <1>5, <1>a DEF ApplyEvent, ViewTypeOK, ITypeOK
  <2>2. applied' \in 0 .. Len(log') /\ docks' \subseteq Requests
    BY <1>5, <1>a, <2>1 DEF ApplyEvent, ViewTypeOK
  <2>3. QED
    BY <1>5, <2>2 DEF ApplyEvent, ViewTypeOK
<1>6. ASSUME LoadApply PROVE ViewTypeOK'
  <2>1. load.found \subseteq Requests
    BY DEF RestTypeOK, Lists
  <2>2. QED
    BY <1>6, <1>b, <2>1 DEF LoadApply, ViewTypeOK
<1>7. ASSUME LoadReply \/ PruneResponded \/ \E n \in 1 .. MaxToggles : ListReply(n)
      PROVE  UNCHANGED <<viewVars, own, shared, known, checking>>
  BY <1>7 DEF LoadReply, PruneResponded, ListReply
<1>8. ASSUME NEW c \in Callers, AutoReturns(c) \/ \E r \in Requests : SendAuto(c, r)
      PROVE  UNCHANGED <<viewVars, own, shared, known, checking>>
  BY <1>8 DEF AutoReturns, SendAuto
<1>9. QED
  BY <1>1, <1>2, <1>3, <1>4, <1>5, <1>6, <1>7, <1>8, StepsByKind
    DEF LocalStep, clientVars, docksVars

-----------------------------------------------------------------------------
(* Reactions.  Whatever makes the browser look at its docks, switches and   *)
(* lists, the ids it answers are allowed and pending at that moment, and    *)
(* hidden docks are among them unless nothing about them has changed.       *)
Reacts(rs) ==
  \E pruned \in SUBSET (responded \ outbox) :
    /\ responded' = (responded \ pruned) \cup rs
    /\ outbox' = outbox \cup (rs \ (responded \ pruned))
    /\ forgotten' = forgotten \cup pruned

Allowed(rs) == \A r \in rs : Accepts' /\ (~seeded' \/ r \in docks')

Covered(rs) == \/ known' /\ Accepts' => docks' \subseteq rs
               \/ UNCHANGED <<docks, own, shared, known>>

LEMMA NoReaction ==
  ASSUME UNCHANGED outbox, PruneResponded \/ UNCHANGED <<responded, forgotten>>,
         UNCHANGED <<docks, own, shared, known>>
  PROVE  \E rs \in SUBSET Requests : Reacts(rs) /\ Allowed(rs) /\ Covered(rs)
<1>1. Reacts({})
  <2>1. PICK pruned \in SUBSET (responded \ outbox) :
          responded' = responded \ pruned /\ forgotten' = forgotten \cup pruned
    <3>1. CASE PruneResponded
      BY <3>1 DEF PruneResponded
    <3>2. CASE UNCHANGED <<responded, forgotten>>
      <4>1. responded' = responded \ {} /\ forgotten' = forgotten \cup {}
        BY <3>2
      <4>2. QED
        BY <4>1
    <3>3. QED
      BY <3>1, <3>2
  <2>2. QED
    BY <2>1 DEF Reacts
<1>2. Allowed({}) /\ Covered({})
  BY DEF Allowed, Covered
<1>3. QED
  BY <1>1, <1>2

LEMMA ReactionAllowed ==
  ASSUME React, ViewTypeOK'
  PROVE  \E rs \in SUBSET Requests : Reacts(rs) /\ Allowed(rs) /\ Covered(rs)
<1> DEFINE rs == IF known' /\ Accepts' THEN docks' ELSE {}
<1>1. RespondOnce(rs)
  BY DEF React
<1>4. Reacts(rs)
  BY <1>1 DEF RespondOnce, Reacts
<1>2. rs \in SUBSET Requests /\ Allowed(rs) /\ Covered(rs)
  BY DEF ViewTypeOK, Allowed, Covered
<1>3. QED
  BY <1>2, <1>4

LEMMA LocalReaction ==
  ASSUME RestTypeOK, ViewTypeOK, ViewTypeOK', LocalStep
  PROVE  \E rs \in SUBSET Requests : Reacts(rs) /\ Allowed(rs) /\ Covered(rs)
<1> USE DEF switchVars, viewVars, autoVars, respondedVars, loadVars
<1> DEFINE Reaction == \E rs \in SUBSET Requests : Reacts(rs) /\ Allowed(rs) /\ Covered(rs)
<1>1. ASSUME SwitchSession \/ SwitchDirectory \/ EnableConfigured \/ LineageLoaded
             \/ ApplyEvent \/ LoadApply
      PROVE  Reaction
  <2>1. React
    BY <1>1 DEF SwitchSession, SwitchDirectory, EnableConfigured, LineageLoaded, ApplyEvent,
                LoadApply
  <2>2. QED
    BY <2>1, ReactionAllowed
<1>2. ASSUME LoadReply \/ PruneResponded \/ \E n \in 1 .. MaxToggles : ListReply(n)
      PROVE  Reaction
  BY <1>2, NoReaction DEF LoadReply, PruneResponded, ListReply
<1>3. ASSUME NEW n \in 1 .. MaxToggles, ListApply(n) PROVE Reaction
  <2> DEFINE found == IF Current(n) THEN {r \in lists[n].found : IsPending(r)} ELSE {}
             rs == IF Accepts THEN found ELSE {}
  <2>1. UNCHANGED <<docks, seeded, own, shared, known>>
    BY <1>3 DEF ListApply
  <2>2. Reacts(rs) \/ UNCHANGED respondedVars
    BY <1>3 DEF ListApply, RespondOnce, Reacts
  <2>3. found \subseteq Requests /\ \A r \in found : IsPending(r)
    BY DEF RestTypeOK, Lists
  <2>4. rs \in SUBSET Requests /\ Allowed(rs) /\ Covered(rs)
    BY <2>1, <2>3 DEF Allowed, Covered, IsPending, Accepts
  <2> HIDE DEF rs
  <2>5. QED
    BY <2>1, <2>2, <2>4, NoReaction
<1>4. ASSUME NEW r \in Requests, NEW n \in 1 .. MaxToggles, CheckDone(r, n) PROVE Reaction
  <2> DEFINE rs == (IF StillWanted(r, n) THEN {r} ELSE {}) \cup (IF Accepts THEN docks ELSE {})
  <2>1. UNCHANGED <<docks, seeded, own, shared>> /\ Reacts(rs)
    BY <1>4 DEF CheckDone, RespondOnce, Reacts
  <2>2. rs \in SUBSET Requests /\ Allowed(rs) /\ Covered(rs)
    BY <2>1 DEF StillWanted, IsPending, Accepts, Allowed, Covered, ViewTypeOK
  <2>3. QED
    BY <2>1, <2>2
<1>5. QED
  BY <1>1, <1>2, <1>3, <1>4 DEF LocalStep

-----------------------------------------------------------------------------
(* Automatic answers.  A reaction skips what is remembered; a call takes    *)
(* its request out of the outbox; a call that failed forgets its request,   *)
(* and unless that was pruned it is the only one for it.                    *)
LEMMA GivenKept ==
  ASSUME ITypeOK, AutoTypeOK, UsedBegun, [PNext]_docksVars, RestTypeOK, ViewTypeOK, ViewTypeOK',
         NEW q, Given(q)
  PROVE  Given(q)'
<1> USE DEF switchVars, viewVars, autoVars, respondedVars, loadVars
<1>a. \A c \in AutoCallers : origin[c] # "none" => request'[c] = request[c]
  BY DocksAssumption, ClientCalls, CallsKept DEF UsedBegun
<1>1. ASSUME LocalStep PROVE Given(q)'
  <2>1. PICK rs \in SUBSET Requests : Reacts(rs)
    BY <1>1, LocalReaction
  <2>2. outbox \subseteq outbox'
    BY <2>1 DEF Reacts
  <2>3. UNCHANGED origin
    BY <1>1, LocalStepsAlone
  <2>4. QED
    BY <1>a, <2>2, <2>3 DEF Given
<1>2. ASSUME NEW c \in Callers, NEW r \in Requests, SendAuto(c, r) PROVE Given(q)'
  <2>1. /\ c \in AutoCallers /\ outbox' = outbox \ {r} /\ origin' = [origin EXCEPT ![c] = "sent"]
        /\ request'[c] = r /\ apc[c] = "idle"
    BY <1>2 DEF SendAuto, AnswerBegin, ITypeOK, CallTypeOK
  <2>2. origin[c] = "none" /\ origin'[c] = "sent"
    BY <2>1, DocksAssumption DEF UsedBegun, AutoTypeOK
  <2>3. \A e \in AutoCallers : e # c => origin'[e] = origin[e]
    BY <2>1, DocksAssumption DEF AutoTypeOK
  <2>4. QED
    BY <1>a, <2>1, <2>2, <2>3 DEF Given
<1>3. ASSUME NEW c \in Callers, AutoReturns(c) PROVE Given(q)'
  <2>1. /\ UNCHANGED <<outbox, request>>
        /\ origin' = [origin EXCEPT ![c] = "kept"] \/ origin' = [origin EXCEPT ![c] = "refused"]
    BY <1>3 DEF AutoReturns, interactionVars, answerVars
  <2>2. \A e \in AutoCallers : origin[e] # "none" => origin'[e] # "none"
    BY <2>1, DocksAssumption DEF AutoTypeOK
  <2>3. QED
    BY <2>1, <2>2 DEF Given
<1>4. ASSUME UNCHANGED <<outbox, origin>> PROVE Given(q)'
  BY <1>4, <1>a DEF Given
<1>5. QED
  BY <1>1, <1>2, <1>3, <1>4, StepsByKind DEF clientVars, docksVars

LEMMA AnsweringStep ==
  /\ ITypeOK /\ RestTypeOK /\ ViewTypeOK /\ ViewTypeOK' /\ Answering /\ [PNext]_docksVars
  => Answering'
<1> USE DEF switchVars, viewVars, autoVars, respondedVars, loadVars
<1> SUFFICES ASSUME ITypeOK, RestTypeOK, ViewTypeOK, ViewTypeOK', Answering, [PNext]_docksVars
             PROVE  Answering'
  OBVIOUS
<1>a. /\ AutoTypeOK /\ LiveResponded /\ UsedBegun
      /\ \A q \in responded : Given(q)'
      /\ \A c, e \in Callers : Live(c) /\ Live(e) /\ request[c] = request[e] => c = e
      /\ \A c \in Callers : Live(c) => request[c] \notin outbox
      /\ AutoCallers \subseteq Callers
  BY DocksAssumption, GivenKept DEF Answering, AnsweredOnce, RespondedGiven, Live
<1>b. \A c \in AutoCallers : origin[c] # "none" =>
        apc'[c] # "idle" /\ request'[c] = request[c]
  BY <1>a, ClientCalls, CallsKept DEF UsedBegun
<1>c. \A c \in Callers : Live(c) => request'[c] = request[c]
  BY <1>b DEF Live
<1>1. ASSUME UNCHANGED <<origin, responded, forgotten, outbox>> PROVE Answering'
  <2>1. \A c \in Callers : Live(c)' <=> Live(c)
    BY <1>1, <1>b DEF Live
  <2>2. AnsweredOnce'
    BY <1>1, <1>a, <1>c, <2>1 DEF AnsweredOnce, Live
  <2>3. QED
    BY <1>1, <1>a, <1>b, <1>c, <2>1, <2>2
      DEF Answering, AutoTypeOK, LiveResponded, RespondedGiven, UsedBegun
<1>2. ASSUME LocalStep PROVE Answering'
  <2>1. UNCHANGED <<origin, request, apc>>
    BY <1>2, LocalStepsAlone DEF interactionVars, answerVars
  <2>2. PICK rs \in SUBSET Requests : Reacts(rs)
    BY <1>2, LocalReaction
  <2>3. PICK pruned \in SUBSET (responded \ outbox) :
          /\ responded' = (responded \ pruned) \cup rs
          /\ outbox' = outbox \cup (rs \ (responded \ pruned))
          /\ forgotten' = forgotten \cup pruned
    BY <2>2 DEF Reacts
  <2>4. AutoTypeOK'
    BY <1>a, <2>1, <2>3 DEF AutoTypeOK
  <2>5. \A c \in Callers : Live(c)' => Live(c) /\ request[c] \in responded \ pruned
    BY <1>a, <2>1, <2>3 DEF Live, LiveResponded
  <2>6. LiveResponded'
    BY <2>1, <2>3, <2>5 DEF LiveResponded
  <2>7. AnsweredOnce'
    BY <1>a, <2>1, <2>3, <2>5 DEF AnsweredOnce, Live
  <2>8. RespondedGiven'
    BY <1>a, <2>3 DEF RespondedGiven, Given
  <2>9. QED
    BY <1>a, <2>1, <2>4, <2>6, <2>7, <2>8 DEF Answering, UsedBegun
<1>3. ASSUME NEW c \in Callers, NEW r \in Requests, SendAuto(c, r) PROVE Answering'
  <2>1. /\ c \in AutoCallers /\ r \in outbox /\ outbox' = outbox \ {r}
        /\ UNCHANGED <<responded, forgotten>> /\ origin' = [origin EXCEPT ![c] = "sent"]
        /\ request'[c] = r /\ apc'[c] # "idle"
    BY <1>3 DEF SendAuto, AnswerBegin, AnswerGoto, ITypeOK, CallTypeOK
  <2>2. AutoTypeOK'
    BY <1>a, <2>1 DEF AutoTypeOK
  <2>3. \A e \in Callers \ {c} : Live(e)' => Live(e) /\ request'[e] = request[e]
    BY <1>a, <1>b, <2>1 DEF Live, AutoTypeOK
  <2>4. \A e \in Callers \ {c} : Live(e)' => request'[e] # r
    BY <1>a, <2>1, <2>3
  <2>5. AnsweredOnce'
    BY <1>a, <2>1, <2>3, <2>4 DEF AnsweredOnce, Live
  <2>6. LiveResponded' /\ RespondedGiven'
    BY <1>a, <2>1, <2>3 DEF LiveResponded, RespondedGiven, AutoTypeOK, Live
  <2>7. UsedBegun'
    BY <1>a, <1>b, <2>1 DEF UsedBegun, AutoTypeOK
  <2>8. QED
    BY <2>2, <2>5, <2>6, <2>7 DEF Answering
<1>4. ASSUME NEW c \in Callers, AutoReturns(c) PROVE Answering'
  <2>1. /\ c \in AutoCallers /\ origin[c] = "sent" /\ UNCHANGED <<outbox, forgotten, request, apc>>
        /\ \/ origin' = [origin EXCEPT ![c] = "kept"] /\ UNCHANGED responded
           \/ origin' = [origin EXCEPT ![c] = "refused"] /\ responded' = responded \ {request[c]}
    BY <1>4 DEF AutoReturns, Forget, interactionVars, answerVars
  <2>2. request[c] \in forgotten \/ (request[c] \notin outbox /\ Live(c))
    BY <1>a, <2>1 DEF Live
  <2>3. AutoTypeOK'
    BY <1>a, <2>1, <2>2 DEF AutoTypeOK
  <2>4. \A e \in Callers : Live(e)' => Live(e)
    BY <1>a, <2>1 DEF Live, AutoTypeOK
  <2>5. AnsweredOnce'
    BY <1>a, <2>1, <2>4 DEF AnsweredOnce, Live
  <2>6. \A e \in Callers : Live(e)' => e # c \/ UNCHANGED responded
    BY <1>a, <2>1 DEF Live, AutoTypeOK
  <2>a. ASSUME NEW e \in Callers, Live(e)' PROVE request'[e] \in responded'
    <3>1. Live(e) /\ request[e] \in responded /\ request'[e] = request[e]
      BY <1>a, <2>1, <2>4, <2>a DEF LiveResponded
    <3>2. request[e] # request[c] \/ UNCHANGED responded
      BY <1>a, <2>2, <2>6, <2>a, <3>1 DEF Live
    <3>3. QED
      BY <2>1, <3>1, <3>2
  <2>7. LiveResponded' /\ RespondedGiven'
    BY <1>a, <2>1, <2>a DEF LiveResponded, RespondedGiven
  <2>8. UsedBegun'
    BY <1>a, <2>1 DEF UsedBegun, AutoTypeOK
  <2>9. QED
    BY <2>3, <2>5, <2>7, <2>8 DEF Answering
<1>5. QED
  BY <1>1, <1>2, <1>3, <1>4, StepsByKind DEF clientVars, docksVars

(* The state of every behaviour is well typed, and no request is answered   *)
(* twice.                                                                   *)
LEMMA DocksInvariant == PSpec => [](ITypeOK /\ RestTypeOK /\ ViewTypeOK /\ Answering)
<1>1. PInit => RestTypeOK /\ ViewTypeOK /\ Answering
  <2> SUFFICES ASSUME PInit PROVE RestTypeOK /\ ViewTypeOK /\ Answering
    OBVIOUS
  <2>1. NoList \in Lists
    BY DEF NoList, Lists
  <2>2. RestTypeOK
    BY <2>1 DEF PInit, RestTypeOK
  <2>3. Len(log) = 0
    BY DEF PInit, IInit
  <2>4. ViewTypeOK
    <3>1. applied \in 0 .. Len(log) /\ checking \subseteq Requests \X (1 .. MaxToggles)
      BY <2>3 DEF PInit
    <3>2. QED
      BY <3>1, DocksAssumption DEF PInit, ViewTypeOK
  <2>5. AutoTypeOK /\ \A c \in Callers : origin[c] = "none"
    BY DEF PInit, AutoTypeOK
  <2>6. AnsweredOnce /\ LiveResponded /\ RespondedGiven /\ UsedBegun
    <3>1. \A c \in Callers : ~Live(c)
      BY <2>5 DEF Live
    <3>2. AnsweredOnce
      BY <2>5 DEF AnsweredOnce
    <3>3. UsedBegun
      BY <2>5, DocksAssumption DEF UsedBegun
    <3>5. RespondedGiven
      BY DEF PInit, RespondedGiven
    <3>4. QED
      BY <3>1, <3>2, <3>3, <3>5 DEF LiveResponded
  <2>7. QED
    BY <2>2, <2>4, <2>5, <2>6 DEF Answering
<1>2. PSpec => []ITypeOK
  BY DocksUseInteractions, RequestTypes, PTL
<1>3. QED
  BY <1>1, <1>2, RestTypeStep, ViewTypeStep, AnsweringStep, PTL DEF PSpec

(* PTypeOK is an invariant.                                                 *)
THEOREM DockTypes == PSpec => []PTypeOK
<1>1. ITypeOK /\ ViewTypeOK /\ Answering => PTypeOK
  BY DEF ViewTypeOK, Answering, AutoTypeOK, PTypeOK
<1>2. QED
  BY <1>1, DocksInvariant, PTL

(* One automatic answer at most is under way for a request, and none        *)
(* follows one that succeeded, until the request's id is pruned.            *)
THEOREM AnswersOnce == PSpec => []AnsweredOnce
<1>1. Answering => AnsweredOnce
  BY DEF Answering
<1>2. QED
  BY <1>1, DocksInvariant, PTL

(* A dock that is hidden from the user was answered or is about to be, in   *)
(* whatever order switch, stream, lists and lineage came.                   *)
THEOREM HiddenDocksAnswered == PSpec => []HiddenAnswered
<1>1. PInit => HiddenAnswered
  BY DEF PInit, HiddenAnswered
<1>2. ITypeOK /\ RestTypeOK /\ ViewTypeOK /\ ViewTypeOK' /\ Answering /\ HiddenAnswered
        /\ [PNext]_docksVars => HiddenAnswered'
  <2> USE DEF switchVars, viewVars, autoVars, respondedVars, loadVars
  <2> SUFFICES ASSUME ITypeOK, RestTypeOK, ViewTypeOK, ViewTypeOK', Answering, HiddenAnswered,
                      [PNext]_docksVars
               PROVE  HiddenAnswered'
    OBVIOUS
  <2>a. \A q : Given(q) => Given(q)'
    BY GivenKept DEF Answering
  <2>b. HiddenAnswered <=> \A r \in docks : Accepts /\ known => Given(r)
    BY DEF HiddenAnswered, Given
  <2>c. HiddenAnswered' <=> \A r \in docks' : Accepts' /\ known' => Given(r)'
    BY DEF HiddenAnswered, Given
  <2>1. ASSUME UNCHANGED <<docks, own, shared, known>> PROVE HiddenAnswered'
    BY <2>1, <2>a, <2>b, <2>c DEF Accepts
  <2>2. ASSUME LocalStep PROVE HiddenAnswered'
    <3>1. PICK rs \in SUBSET Requests : Reacts(rs) /\ Covered(rs)
      BY <2>2, LocalReaction
    <3>2. \A r \in rs : r \in outbox' \/ r \in responded
      BY <3>1 DEF Reacts
    <3>3. \A r \in rs : Given(r)'
      BY <2>a, <3>2 DEF Given, Answering, RespondedGiven
    <3>4. CASE known' /\ Accepts' => docks' \subseteq rs
      BY <2>c, <3>3, <3>4
    <3>5. QED
      BY <2>1, <3>1, <3>4 DEF Covered
  <2>3. ASSUME NEW c \in Callers, AutoReturns(c) \/ \E r \in Requests : SendAuto(c, r)
        PROVE  UNCHANGED <<docks, own, shared, known>>
    BY <2>3 DEF AutoReturns, SendAuto
  <2>4. QED
    BY <2>1, <2>2, <2>3, StepsByKind DEF clientVars, docksVars
<1>3. QED
  BY <1>1, <1>2, DocksInvariant, PTL DEF PSpec

(* No automatic answer is queued that the switches do not allow at that     *)
(* moment, or for a request that is known to be settled.                    *)
THEOREM AnswersConsented == PSpec => Consented
<1>1. RestTypeOK /\ ViewTypeOK /\ ViewTypeOK' /\ [PNext]_docksVars =>
        [\A r \in outbox' \ outbox : Accepts' /\ (~seeded' \/ r \in docks')]_docksVars
  <2> USE DEF switchVars, viewVars, autoVars, respondedVars, loadVars
  <2> SUFFICES ASSUME RestTypeOK, ViewTypeOK, ViewTypeOK', [PNext]_docksVars,
                      NEW r \in outbox' \ outbox
               PROVE  Accepts' /\ (~seeded' \/ r \in docks')
    OBVIOUS
  <2>1. ASSUME LocalStep PROVE Accepts' /\ (~seeded' \/ r \in docks')
    BY <2>1, LocalReaction DEF Reacts, Allowed
  <2>2. ASSUME NEW c \in Callers, AutoReturns(c) \/ \E q \in Requests : SendAuto(c, q)
        PROVE  outbox' \subseteq outbox
    BY <2>2 DEF AutoReturns, SendAuto
  <2>3. UNCHANGED clientVars \/ UNCHANGED docksVars => UNCHANGED outbox
    BY DEF clientVars, docksVars
  <2>4. QED
    BY <2>1, <2>2, <2>3, StepsByKind
<1>2. QED
  BY <1>1, DocksInvariant, PTL DEF PSpec, Consented
=============================================================================
