------------------------- MODULE InteractionsProofs -------------------------
(* Theorems about Interactions, for every set of requests, decisions, calls *)
(* and deletions, any number of attempts and any kinds of failure.          *)
EXTENDS Interactions, SequenceTheorems, TLAPS

(* An answering call still has an attempt left, and none used before it     *)
(* begins.                                                                  *)
AttemptsLeft ==
  \A c \in Callers : /\ apc[c] = "idle" => tries[c] = 0
                     /\ apc[c] \in {"load", "resolve"} => tries[c] < Tries

(* What a call knows of the record before any deletion: it only resolves in *)
(* its first attempt, since whatever stops that one is a decision.          *)
FirstAttempt ==
  Untouched => \A c \in Callers :
    /\ apc[c] = "resolve" => tries[c] = 0 /\ record[request[c]] # "absent"
    /\ apc[c] = "load" /\ tries[c] > 0 => Decided(request[c])

(* A deletion knows every record that is left, as nothing is asked beside   *)
(* it; once it has been through, there is none.                             *)
NothingAsked == ~Untouched => \A r \in Requests : asking[r] = "idle"

EraseKnows ==
  \A d \in Deleters, r \in Requests : record[r] # "absent" =>
    /\ dpc[d] = "unlist" => r \in left[d]
    /\ dpc[d] \in Requests => r \in left[d] \/ r = dpc[d]
    /\ dpc[d] \notin {"record", "done"}

ErasePlan == ~LateAsks => NothingAsked /\ EraseKnows
GoneTouched == ~alive => ~Untouched

(* Types of the parts of the state are preserved.                           *)
LEMMA TypeStep ==
  ITypeOK /\ AttemptsLeft /\ [INext]_interactionVars => ITypeOK' /\ AttemptsLeft'
<1> USE DEF storeVars, sessionVars, askVars, answerVars, deleteVars
<1> USE InteractionsAssumption DEF Undecided, Ended
<1> DEFINE Events == {"asked", "replied"} \X Requests
<1> SUFFICES ASSUME ITypeOK, AttemptsLeft, [INext]_interactionVars
             PROVE  ITypeOK' /\ AttemptsLeft'
  OBVIOUS
<1>a. /\ StoreTypeOK /\ CallTypeOK /\ alive \in BOOLEAN /\ log \in Seq(Events)
      /\ questions \subseteq Requests
  BY DEF ITypeOK
<1>b. ASSUME NEW k \in {"asked", "replied"}, NEW q \in Requests
      PROVE  Append(log, <<k, q>>) \in Seq(Events)
  <2>1. <<k, q>> \in Events
    OBVIOUS
  <2> HIDE DEF Events
  <2>2. QED
    BY <1>a, <2>1, AppendProperties
<1>1. ASSUME NEW r \in Requests, AskBegin(r) PROVE ITypeOK' /\ AttemptsLeft'
  BY <1>1, <1>a DEF AskBegin, AskGoto, ITypeOK, StoreTypeOK, CallTypeOK, AttemptsLeft
<1>2. ASSUME NEW r \in Requests, AskCreate(r) PROVE ITypeOK' /\ AttemptsLeft'
  <2>1. StoreTypeOK' /\ alive' \in BOOLEAN /\ log' \in Seq(Events) /\ questions' = questions
    BY <1>2, <1>a DEF AskCreate, StoreTypeOK
  <2>2. asking' \in [Requests -> {"idle", "create", "publish"}]
    BY <1>2, <1>a DEF AskCreate, AskGoto, CallTypeOK
  <2>3. UNCHANGED <<asks, answerVars, deleteVars>>
    BY <1>2 DEF AskCreate
  <2>4. CallTypeOK'
    BY <1>a, <2>2, <2>3 DEF CallTypeOK
  <2>5. QED
    BY <1>2, <1>a, <2>1, <2>4 DEF AskCreate, ITypeOK, AttemptsLeft
<1>3. ASSUME NEW r \in Requests, AskPublish(r) PROVE ITypeOK' /\ AttemptsLeft'
  <2>1. log' \in Seq(Events)
    BY <1>3, <1>a, <1>b DEF AskPublish, Published, Unpublished, CallTypeOK
  <2>2. QED
    BY <1>3, <1>a, <2>1 DEF AskPublish, AskGoto, ITypeOK, StoreTypeOK, CallTypeOK, AttemptsLeft
<1>4. ASSUME NEW c \in Callers, AnswerLoad(c) PROVE ITypeOK' /\ AttemptsLeft'
  BY <1>4, <1>a DEF AnswerLoad, Recognised, AnswerGoto, ITypeOK, StoreTypeOK, CallTypeOK, AttemptsLeft
<1>5. ASSUME NEW c \in Callers, AnswerResolve(c) PROVE ITypeOK' /\ AttemptsLeft'
  <2>1. request[c] \in Requests /\ want[c] \in Decisions /\ tries[c] + 1 \in 0 .. Tries
    BY <1>5, <1>a DEF AnswerResolve, CallTypeOK, AttemptsLeft
  <2>2. StoreTypeOK' /\ alive' \in BOOLEAN /\ log' \in Seq(Events) /\ questions' = questions
    BY <1>5, <1>a, <2>1 DEF AnswerResolve, Unlist, StoreTypeOK
  <2>a. apc' \in [Callers -> {"idle", "load", "resolve", "publish"} \cup Ended]
    BY <1>5, <1>a DEF AnswerResolve, AnswerGoto, TryAgain, CallTypeOK
  <2>b. tries' \in [Callers -> 0 .. Tries]
    BY <1>5, <1>a, <2>1 DEF AnswerResolve, TryAgain, CallTypeOK
  <2>c. \A b \in Callers : apc'[b] # "idle" => apc[b] # "idle"
    BY <1>5, <1>a DEF AnswerResolve, AnswerGoto, TryAgain, CallTypeOK
  <2>d. UNCHANGED <<askVars, request, want, deleteVars>>
    BY <1>5 DEF AnswerResolve
  <2>3. CallTypeOK'
    BY <1>a, <2>a, <2>b, <2>c, <2>d DEF CallTypeOK
  <2>4. AttemptsLeft'
    BY <1>5, <1>a, <2>1 DEF AnswerResolve, AnswerGoto, TryAgain, CallTypeOK, AttemptsLeft
  <2>5. QED
    BY <1>a, <2>2, <2>3, <2>4 DEF ITypeOK
<1>6. ASSUME NEW c \in Callers, AnswerPublish(c) PROVE ITypeOK' /\ AttemptsLeft'
  <2>1. request[c] \in Requests
    BY <1>6, <1>a DEF AnswerPublish, CallTypeOK
  <2>2. log' \in Seq(Events)
    <3>1. log' = Append(log, <<"replied", request[c]>>) \/ log' = log
      BY <1>6 DEF AnswerPublish, Published, Unpublished
    <3>2. QED
      BY <1>a, <1>b, <2>1, <3>1
  <2>3. QED
    BY <1>6, <1>a, <2>2 DEF AnswerPublish, AnswerGoto, ITypeOK, StoreTypeOK, CallTypeOK, AttemptsLeft
<1>7. ASSUME NEW c \in Callers, NEW r \in Requests, NEW e \in Decisions, AnswerBegin(c, r, e) PROVE ITypeOK' /\ AttemptsLeft'
  BY <1>7, <1>a DEF AnswerBegin, AnswerGoto, ITypeOK, StoreTypeOK, CallTypeOK, AttemptsLeft
<1>8. ASSUME NEW d \in Deleters, DeleteList(d) PROVE ITypeOK' /\ AttemptsLeft'
  BY <1>8, <1>a DEF DeleteList, DeleteGoto, ITypeOK, StoreTypeOK, CallTypeOK, AttemptsLeft
<1>9. ASSUME NEW d \in Deleters, NEW r \in Requests, DeleteUnlist(d, r) PROVE ITypeOK' /\ AttemptsLeft'
  BY <1>9, <1>a DEF DeleteUnlist, DeleteGoto, ITypeOK, StoreTypeOK, CallTypeOK, AttemptsLeft
<1>10. ASSUME NEW d \in Deleters, NEW r \in Requests, DeleteErase(d, r) PROVE ITypeOK' /\ AttemptsLeft'
  BY <1>10, <1>a DEF DeleteErase, DeleteGoto, ITypeOK, StoreTypeOK, CallTypeOK, AttemptsLeft
<1>11. ASSUME NEW d \in Deleters, DeleteIndex(d) PROVE ITypeOK' /\ AttemptsLeft'
  BY <1>11, <1>a DEF DeleteIndex, DeleteGoto, AllErased, ITypeOK, StoreTypeOK, CallTypeOK, AttemptsLeft
<1>12. ASSUME NEW d \in Deleters, DeleteRecord(d) PROVE ITypeOK' /\ AttemptsLeft'
  BY <1>12, <1>a DEF DeleteRecord, DeleteGoto, ITypeOK, StoreTypeOK, CallTypeOK, AttemptsLeft
<1>13. ASSUME NEW d \in Deleters, DeleteAbandon(d) PROVE ITypeOK' /\ AttemptsLeft'
  BY <1>13, <1>a DEF DeleteAbandon, DeleteGoto, ITypeOK, StoreTypeOK, CallTypeOK, AttemptsLeft
<1>14. CASE UNCHANGED interactionVars
  BY <1>14, <1>a DEF interactionVars, ITypeOK, StoreTypeOK, CallTypeOK, AttemptsLeft
<1>15. QED
  BY <1>1, <1>2, <1>3, <1>4, <1>5, <1>6, <1>7, <1>8, <1>9, <1>10, <1>11,
     <1>12, <1>13, <1>14 DEF INext, AskStep, AnswerStep, DeleteStep

(* No step changes a decision other than by deleting it.                    *)
LEMMA FinalStep ==
  ASSUME ITypeOK, [INext]_interactionVars
  PROVE  \A q \in Requests : Decided(q) => record'[q] \in {record[q], "absent"}
<1> USE DEF storeVars, sessionVars, askVars, answerVars, deleteVars
<1> USE InteractionsAssumption DEF Undecided, Decided
<1> DEFINE Final == \A q \in Requests : Decided(q) => record'[q] \in {record[q], "absent"}
<1>a. StoreTypeOK /\ CallTypeOK
  BY DEF ITypeOK
<1>1. ASSUME NEW r \in Requests, AskBegin(r) PROVE Final
  BY <1>1, <1>a DEF AskBegin, AskGoto, StoreTypeOK, CallTypeOK
<1>2. ASSUME NEW r \in Requests, AskCreate(r) PROVE Final
  BY <1>2, <1>a DEF AskCreate, AskGoto, StoreTypeOK, CallTypeOK
<1>3. ASSUME NEW r \in Requests, AskPublish(r) PROVE Final
  BY <1>3, <1>a DEF AskPublish, AskGoto, Published, Unpublished, StoreTypeOK, CallTypeOK
<1>4. ASSUME NEW c \in Callers, AnswerLoad(c) PROVE Final
  BY <1>4, <1>a DEF AnswerLoad, Recognised, AnswerGoto, StoreTypeOK, CallTypeOK
<1>5. ASSUME NEW c \in Callers, AnswerResolve(c) PROVE Final
  BY <1>5, <1>a DEF AnswerResolve, AnswerGoto, StillUndecided, Unlist, TryAgain, StoreTypeOK, CallTypeOK
<1>6. ASSUME NEW c \in Callers, AnswerPublish(c) PROVE Final
  BY <1>6, <1>a DEF AnswerPublish, AnswerGoto, Published, Unpublished, StoreTypeOK, CallTypeOK
<1>7. ASSUME NEW c \in Callers, NEW r \in Requests, NEW e \in Decisions, AnswerBegin(c, r, e) PROVE Final
  BY <1>7, <1>a DEF AnswerBegin, AnswerGoto, StoreTypeOK, CallTypeOK
<1>8. ASSUME NEW d \in Deleters, DeleteList(d) PROVE Final
  BY <1>8, <1>a DEF DeleteList, DeleteGoto, StoreTypeOK, CallTypeOK
<1>9. ASSUME NEW d \in Deleters, NEW r \in Requests, DeleteUnlist(d, r) PROVE Final
  BY <1>9, <1>a DEF DeleteUnlist, DeleteGoto, StoreTypeOK, CallTypeOK
<1>10. ASSUME NEW d \in Deleters, NEW r \in Requests, DeleteErase(d, r) PROVE Final
  BY <1>10, <1>a DEF DeleteErase, DeleteGoto, StoreTypeOK, CallTypeOK
<1>11. ASSUME NEW d \in Deleters, DeleteIndex(d) PROVE Final
  BY <1>11, <1>a DEF DeleteIndex, DeleteGoto, AllErased, StoreTypeOK, CallTypeOK
<1>12. ASSUME NEW d \in Deleters, DeleteRecord(d) PROVE Final
  BY <1>12, <1>a DEF DeleteRecord, DeleteGoto, StoreTypeOK, CallTypeOK
<1>13. ASSUME NEW d \in Deleters, DeleteAbandon(d) PROVE Final
  BY <1>13, <1>a DEF DeleteAbandon, DeleteGoto, StoreTypeOK, CallTypeOK
<1>14. CASE UNCHANGED interactionVars
  BY <1>14, <1>a DEF interactionVars, StoreTypeOK, CallTypeOK
<1>15. QED
  BY <1>1, <1>2, <1>3, <1>4, <1>5, <1>6, <1>7, <1>8, <1>9, <1>10, <1>11,
     <1>12, <1>13, <1>14 DEF INext, AskStep, AnswerStep, DeleteStep

(* The indexes follow the records; an undecided request only becomes        *)
(* decided in the step that takes it off the project's list.                *)
LEMMA IndexStep == ITypeOK /\ IndexesAgree /\ [INext]_interactionVars => IndexesAgree'
<1> USE DEF storeVars, sessionVars, askVars, answerVars, deleteVars
<1> USE InteractionsAssumption DEF Undecided, Decided, Untouched
<1> SUFFICES ASSUME ITypeOK, IndexesAgree, [INext]_interactionVars PROVE IndexesAgree'
  OBVIOUS
<1>a. StoreTypeOK /\ CallTypeOK
  BY DEF ITypeOK
<1>1. ASSUME NEW r \in Requests, AskBegin(r) PROVE IndexesAgree'
  BY <1>1, <1>a DEF AskBegin, AskGoto, StoreTypeOK, CallTypeOK, IndexesAgree
<1>2. ASSUME NEW r \in Requests, AskCreate(r) PROVE IndexesAgree'
  BY <1>2, <1>a DEF AskCreate, AskGoto, StoreTypeOK, CallTypeOK, IndexesAgree
<1>3. ASSUME NEW r \in Requests, AskPublish(r) PROVE IndexesAgree'
  BY <1>3, <1>a DEF AskPublish, AskGoto, Published, Unpublished, StoreTypeOK, CallTypeOK, IndexesAgree
<1>4. ASSUME NEW c \in Callers, AnswerLoad(c) PROVE IndexesAgree'
  BY <1>4, <1>a DEF AnswerLoad, Recognised, AnswerGoto, StoreTypeOK, CallTypeOK, IndexesAgree
<1>5. ASSUME NEW c \in Callers, AnswerResolve(c) PROVE IndexesAgree'
  BY <1>5, <1>a DEF AnswerResolve, AnswerGoto, StillUndecided, Unlist, TryAgain, StoreTypeOK, CallTypeOK, IndexesAgree
<1>6. ASSUME NEW c \in Callers, AnswerPublish(c) PROVE IndexesAgree'
  BY <1>6, <1>a DEF AnswerPublish, AnswerGoto, Published, Unpublished, StoreTypeOK, CallTypeOK, IndexesAgree
<1>7. ASSUME NEW c \in Callers, NEW r \in Requests, NEW e \in Decisions, AnswerBegin(c, r, e) PROVE IndexesAgree'
  BY <1>7, <1>a DEF AnswerBegin, AnswerGoto, StoreTypeOK, CallTypeOK, IndexesAgree
<1>8. ASSUME NEW d \in Deleters, DeleteList(d) PROVE IndexesAgree'
  BY <1>8, <1>a DEF DeleteList, DeleteGoto, StoreTypeOK, CallTypeOK, IndexesAgree
<1>9. ASSUME NEW d \in Deleters, NEW r \in Requests, DeleteUnlist(d, r) PROVE IndexesAgree'
  BY <1>9, <1>a DEF DeleteUnlist, DeleteGoto, StoreTypeOK, CallTypeOK, IndexesAgree
<1>10. ASSUME NEW d \in Deleters, NEW r \in Requests, DeleteErase(d, r) PROVE IndexesAgree'
  BY <1>10, <1>a DEF DeleteErase, DeleteGoto, StoreTypeOK, CallTypeOK, IndexesAgree
<1>11. ASSUME NEW d \in Deleters, DeleteIndex(d) PROVE IndexesAgree'
  BY <1>11, <1>a DEF DeleteIndex, DeleteGoto, AllErased, StoreTypeOK, CallTypeOK, IndexesAgree
<1>12. ASSUME NEW d \in Deleters, DeleteRecord(d) PROVE IndexesAgree'
  BY <1>12, <1>a DEF DeleteRecord, DeleteGoto, StoreTypeOK, CallTypeOK, IndexesAgree
<1>13. ASSUME NEW d \in Deleters, DeleteAbandon(d) PROVE IndexesAgree'
  BY <1>13, <1>a DEF DeleteAbandon, DeleteGoto, StoreTypeOK, CallTypeOK, IndexesAgree
<1>14. CASE UNCHANGED interactionVars
  BY <1>14, <1>a DEF interactionVars, StoreTypeOK, CallTypeOK, IndexesAgree
<1>15. QED
  BY <1>1, <1>2, <1>3, <1>4, <1>5, <1>6, <1>7, <1>8, <1>9, <1>10, <1>11,
     <1>12, <1>13, <1>14 DEF INext, AskStep, AnswerStep, DeleteStep

(* What the calls know stays true: a decision that another call stores can  *)
(* only replace "pending", which no finished call relies on.                *)
LEMMA AnswerStepKeeps ==
  ITypeOK /\ AttemptsLeft /\ FirstAttempt /\ AnswersTruthful /\ [INext]_interactionVars
    => FirstAttempt' /\ AnswersTruthful'
<1> USE DEF storeVars, sessionVars, askVars, answerVars, deleteVars
<1> USE InteractionsAssumption DEF Undecided, Decided, Untouched
<1> SUFFICES ASSUME ITypeOK, AttemptsLeft, FirstAttempt, AnswersTruthful, [INext]_interactionVars
             PROVE  FirstAttempt' /\ AnswersTruthful'
  OBVIOUS
<1>a. StoreTypeOK /\ CallTypeOK
  BY DEF ITypeOK
<1>1. ASSUME NEW r \in Requests, AskBegin(r) PROVE FirstAttempt' /\ AnswersTruthful'
  BY <1>1, <1>a DEF AskBegin, AskGoto, StoreTypeOK, CallTypeOK, AttemptsLeft, FirstAttempt, AnswersTruthful
<1>2. ASSUME NEW r \in Requests, AskCreate(r) PROVE FirstAttempt' /\ AnswersTruthful'
  BY <1>2, <1>a DEF AskCreate, AskGoto, StoreTypeOK, CallTypeOK, AttemptsLeft, FirstAttempt, AnswersTruthful
<1>3. ASSUME NEW r \in Requests, AskPublish(r) PROVE FirstAttempt' /\ AnswersTruthful'
  BY <1>3, <1>a DEF AskPublish, AskGoto, Published, Unpublished, StoreTypeOK, CallTypeOK, AttemptsLeft, FirstAttempt, AnswersTruthful
<1>4. ASSUME NEW c \in Callers, AnswerLoad(c) PROVE FirstAttempt' /\ AnswersTruthful'
  BY <1>4, <1>a DEF AnswerLoad, Recognised, AnswerGoto, StoreTypeOK, CallTypeOK, AttemptsLeft, FirstAttempt, AnswersTruthful
<1>5. ASSUME NEW c \in Callers, AnswerResolve(c) PROVE FirstAttempt' /\ AnswersTruthful'
  BY <1>5, <1>a DEF AnswerResolve, AnswerGoto, StillUndecided, Unlist, TryAgain, StoreTypeOK, CallTypeOK, AttemptsLeft, FirstAttempt, AnswersTruthful
<1>6. ASSUME NEW c \in Callers, AnswerPublish(c) PROVE FirstAttempt' /\ AnswersTruthful'
  BY <1>6, <1>a DEF AnswerPublish, AnswerGoto, Published, Unpublished, StoreTypeOK, CallTypeOK, AttemptsLeft, FirstAttempt, AnswersTruthful
<1>7. ASSUME NEW c \in Callers, NEW r \in Requests, NEW e \in Decisions, AnswerBegin(c, r, e) PROVE FirstAttempt' /\ AnswersTruthful'
  BY <1>7, <1>a DEF AnswerBegin, AnswerGoto, StoreTypeOK, CallTypeOK, AttemptsLeft, FirstAttempt, AnswersTruthful
<1>8. ASSUME NEW d \in Deleters, DeleteList(d) PROVE FirstAttempt' /\ AnswersTruthful'
  BY <1>8, <1>a DEF DeleteList, DeleteGoto, StoreTypeOK, CallTypeOK, AttemptsLeft, FirstAttempt, AnswersTruthful
<1>9. ASSUME NEW d \in Deleters, NEW r \in Requests, DeleteUnlist(d, r) PROVE FirstAttempt' /\ AnswersTruthful'
  BY <1>9, <1>a DEF DeleteUnlist, DeleteGoto, StoreTypeOK, CallTypeOK, AttemptsLeft, FirstAttempt, AnswersTruthful
<1>10. ASSUME NEW d \in Deleters, NEW r \in Requests, DeleteErase(d, r) PROVE FirstAttempt' /\ AnswersTruthful'
  BY <1>10, <1>a DEF DeleteErase, DeleteGoto, StoreTypeOK, CallTypeOK, AttemptsLeft, FirstAttempt, AnswersTruthful
<1>11. ASSUME NEW d \in Deleters, DeleteIndex(d) PROVE FirstAttempt' /\ AnswersTruthful'
  BY <1>11, <1>a DEF DeleteIndex, DeleteGoto, AllErased, StoreTypeOK, CallTypeOK, AttemptsLeft, FirstAttempt, AnswersTruthful
<1>12. ASSUME NEW d \in Deleters, DeleteRecord(d) PROVE FirstAttempt' /\ AnswersTruthful'
  BY <1>12, <1>a DEF DeleteRecord, DeleteGoto, StoreTypeOK, CallTypeOK, AttemptsLeft, FirstAttempt, AnswersTruthful
<1>13. ASSUME NEW d \in Deleters, DeleteAbandon(d) PROVE FirstAttempt' /\ AnswersTruthful'
  BY <1>13, <1>a DEF DeleteAbandon, DeleteGoto, StoreTypeOK, CallTypeOK, AttemptsLeft, FirstAttempt, AnswersTruthful
<1>14. CASE UNCHANGED interactionVars
  BY <1>14, <1>a DEF interactionVars, StoreTypeOK, CallTypeOK, AttemptsLeft, FirstAttempt, AnswersTruthful
<1>15. QED
  BY <1>1, <1>2, <1>3, <1>4, <1>5, <1>6, <1>7, <1>8, <1>9, <1>10, <1>11,
     <1>12, <1>13, <1>14 DEF INext, AskStep, AnswerStep, DeleteStep

(* A session that is gone was deleted, and a deletion that has begun stays  *)
(* begun.                                                                   *)
LEMMA GoneStep == ITypeOK /\ GoneTouched /\ [INext]_interactionVars => GoneTouched'
<1> USE DEF storeVars, sessionVars, askVars, answerVars, deleteVars
<1> USE InteractionsAssumption DEF Untouched
<1> SUFFICES ASSUME ITypeOK, GoneTouched, [INext]_interactionVars PROVE GoneTouched'
  OBVIOUS
<1>a. StoreTypeOK /\ CallTypeOK
  BY DEF ITypeOK
<1>1. ASSUME NEW r \in Requests, AskBegin(r) PROVE GoneTouched'
  BY <1>1, <1>a DEF AskBegin, AskGoto, StoreTypeOK, CallTypeOK, GoneTouched
<1>2. ASSUME NEW r \in Requests, AskCreate(r) PROVE GoneTouched'
  BY <1>2, <1>a DEF AskCreate, AskGoto, StoreTypeOK, CallTypeOK, GoneTouched
<1>3. ASSUME NEW r \in Requests, AskPublish(r) PROVE GoneTouched'
  BY <1>3, <1>a DEF AskPublish, AskGoto, Published, Unpublished, StoreTypeOK, CallTypeOK, GoneTouched
<1>4. ASSUME NEW c \in Callers, AnswerLoad(c) PROVE GoneTouched'
  BY <1>4, <1>a DEF AnswerLoad, Recognised, AnswerGoto, StoreTypeOK, CallTypeOK, GoneTouched
<1>5. ASSUME NEW c \in Callers, AnswerResolve(c) PROVE GoneTouched'
  BY <1>5, <1>a DEF AnswerResolve, AnswerGoto, StillUndecided, Unlist, TryAgain, StoreTypeOK, CallTypeOK, GoneTouched
<1>6. ASSUME NEW c \in Callers, AnswerPublish(c) PROVE GoneTouched'
  BY <1>6, <1>a DEF AnswerPublish, AnswerGoto, Published, Unpublished, StoreTypeOK, CallTypeOK, GoneTouched
<1>7. ASSUME NEW c \in Callers, NEW r \in Requests, NEW e \in Decisions, AnswerBegin(c, r, e) PROVE GoneTouched'
  BY <1>7, <1>a DEF AnswerBegin, AnswerGoto, StoreTypeOK, CallTypeOK, GoneTouched
<1>8. ASSUME NEW d \in Deleters, DeleteList(d) PROVE GoneTouched'
  BY <1>8, <1>a DEF DeleteList, DeleteGoto, StoreTypeOK, CallTypeOK, GoneTouched
<1>9. ASSUME NEW d \in Deleters, NEW r \in Requests, DeleteUnlist(d, r) PROVE GoneTouched'
  BY <1>9, <1>a DEF DeleteUnlist, DeleteGoto, StoreTypeOK, CallTypeOK, GoneTouched
<1>10. ASSUME NEW d \in Deleters, NEW r \in Requests, DeleteErase(d, r) PROVE GoneTouched'
  BY <1>10, <1>a DEF DeleteErase, DeleteGoto, StoreTypeOK, CallTypeOK, GoneTouched
<1>11. ASSUME NEW d \in Deleters, DeleteIndex(d) PROVE GoneTouched'
  BY <1>11, <1>a DEF DeleteIndex, DeleteGoto, AllErased, StoreTypeOK, CallTypeOK, GoneTouched
<1>12. ASSUME NEW d \in Deleters, DeleteRecord(d) PROVE GoneTouched'
  BY <1>12, <1>a DEF DeleteRecord, DeleteGoto, StoreTypeOK, CallTypeOK, GoneTouched
<1>13. ASSUME NEW d \in Deleters, DeleteAbandon(d) PROVE GoneTouched'
  BY <1>13, <1>a DEF DeleteAbandon, DeleteGoto, StoreTypeOK, CallTypeOK, GoneTouched
<1>14. CASE UNCHANGED interactionVars
  BY <1>14, <1>a DEF interactionVars, StoreTypeOK, CallTypeOK, GoneTouched
<1>15. QED
  BY <1>1, <1>2, <1>3, <1>4, <1>5, <1>6, <1>7, <1>8, <1>9, <1>10, <1>11,
     <1>12, <1>13, <1>14 DEF INext, AskStep, AnswerStep, DeleteStep

(* When nothing is asked beside a deletion, what it has not erased yet is   *)
(* in its plan, and what is stored at all is in the session's index.        *)
LEMMA EraseStep ==
  ASSUME ITypeOK, GoneTouched, ErasePlan, ErasureRepeatable, [INext]_interactionVars
  PROVE  ErasePlan' /\ ErasureRepeatable'
<1> USE DEF storeVars, sessionVars, askVars, answerVars, deleteVars
<1> USE InteractionsAssumption DEF Untouched
<1> SUFFICES ASSUME ~LateAsks PROVE NothingAsked' /\ EraseKnows' /\ ErasureRepeatable'
  BY DEF ErasePlan, ErasureRepeatable
<1>a. /\ StoreTypeOK /\ CallTypeOK /\ NothingAsked /\ EraseKnows
      /\ \A r \in Requests : record[r] # "absent" => r \in sessionIds
      /\ ~alive => \A r \in Requests : record[r] = "absent"
  BY DEF ITypeOK, ErasePlan, ErasureRepeatable
<1>1. ASSUME NEW r \in Requests, AskBegin(r) PROVE NothingAsked' /\ EraseKnows' /\ ErasureRepeatable'
  BY <1>1, <1>a DEF AskBegin, AskGoto, StoreTypeOK, CallTypeOK, GoneTouched, NothingAsked, EraseKnows, ErasureRepeatable
<1>2. ASSUME NEW r \in Requests, AskCreate(r) PROVE NothingAsked' /\ EraseKnows' /\ ErasureRepeatable'
  BY <1>2, <1>a DEF AskCreate, AskGoto, StoreTypeOK, CallTypeOK, GoneTouched, NothingAsked, EraseKnows, ErasureRepeatable
<1>3. ASSUME NEW r \in Requests, AskPublish(r) PROVE NothingAsked' /\ EraseKnows' /\ ErasureRepeatable'
  BY <1>3, <1>a DEF AskPublish, AskGoto, Published, Unpublished, StoreTypeOK, CallTypeOK, GoneTouched, NothingAsked, EraseKnows, ErasureRepeatable
<1>4. ASSUME NEW c \in Callers, AnswerLoad(c) PROVE NothingAsked' /\ EraseKnows' /\ ErasureRepeatable'
  BY <1>4, <1>a DEF AnswerLoad, Recognised, AnswerGoto, StoreTypeOK, CallTypeOK, GoneTouched, NothingAsked, EraseKnows, ErasureRepeatable
<1>5. ASSUME NEW c \in Callers, AnswerResolve(c) PROVE NothingAsked' /\ EraseKnows' /\ ErasureRepeatable'
  BY <1>5, <1>a DEF AnswerResolve, AnswerGoto, StillUndecided, Unlist, TryAgain, StoreTypeOK, CallTypeOK, GoneTouched, NothingAsked, EraseKnows, ErasureRepeatable
<1>6. ASSUME NEW c \in Callers, AnswerPublish(c) PROVE NothingAsked' /\ EraseKnows' /\ ErasureRepeatable'
  BY <1>6, <1>a DEF AnswerPublish, AnswerGoto, Published, Unpublished, StoreTypeOK, CallTypeOK, GoneTouched, NothingAsked, EraseKnows, ErasureRepeatable
<1>7. ASSUME NEW c \in Callers, NEW r \in Requests, NEW e \in Decisions, AnswerBegin(c, r, e) PROVE NothingAsked' /\ EraseKnows' /\ ErasureRepeatable'
  BY <1>7, <1>a DEF AnswerBegin, AnswerGoto, StoreTypeOK, CallTypeOK, GoneTouched, NothingAsked, EraseKnows, ErasureRepeatable
<1>8. ASSUME NEW d \in Deleters, DeleteList(d) PROVE NothingAsked' /\ EraseKnows' /\ ErasureRepeatable'
  BY <1>8, <1>a DEF DeleteList, DeleteGoto, StoreTypeOK, CallTypeOK, GoneTouched, NothingAsked, EraseKnows, ErasureRepeatable
<1>9. ASSUME NEW d \in Deleters, NEW r \in Requests, DeleteUnlist(d, r) PROVE NothingAsked' /\ EraseKnows' /\ ErasureRepeatable'
  BY <1>9, <1>a DEF DeleteUnlist, DeleteGoto, StoreTypeOK, CallTypeOK, GoneTouched, NothingAsked, EraseKnows, ErasureRepeatable
<1>10. ASSUME NEW d \in Deleters, NEW r \in Requests, DeleteErase(d, r) PROVE NothingAsked' /\ EraseKnows' /\ ErasureRepeatable'
  BY <1>10, <1>a DEF DeleteErase, DeleteGoto, StoreTypeOK, CallTypeOK, GoneTouched, NothingAsked, EraseKnows, ErasureRepeatable
<1>11. ASSUME NEW d \in Deleters, DeleteIndex(d) PROVE NothingAsked' /\ EraseKnows' /\ ErasureRepeatable'
  BY <1>11, <1>a DEF DeleteIndex, DeleteGoto, AllErased, StoreTypeOK, CallTypeOK, GoneTouched, NothingAsked, EraseKnows, ErasureRepeatable
<1>12. ASSUME NEW d \in Deleters, DeleteRecord(d) PROVE NothingAsked' /\ EraseKnows' /\ ErasureRepeatable'
  BY <1>12, <1>a DEF DeleteRecord, DeleteGoto, StoreTypeOK, CallTypeOK, GoneTouched, NothingAsked, EraseKnows, ErasureRepeatable
<1>13. ASSUME NEW d \in Deleters, DeleteAbandon(d) PROVE NothingAsked' /\ EraseKnows' /\ ErasureRepeatable'
  BY <1>13, <1>a DEF DeleteAbandon, DeleteGoto, StoreTypeOK, CallTypeOK, GoneTouched, NothingAsked, EraseKnows, ErasureRepeatable
<1>14. CASE UNCHANGED interactionVars
  BY <1>14, <1>a DEF interactionVars, StoreTypeOK, CallTypeOK, GoneTouched, NothingAsked, EraseKnows, ErasureRepeatable
<1>15. QED
  BY <1>1, <1>2, <1>3, <1>4, <1>5, <1>6, <1>7, <1>8, <1>9, <1>10, <1>11,
     <1>12, <1>13, <1>14 DEF INext, AskStep, AnswerStep, DeleteStep

-----------------------------------------------------------------------------
(* The state of every behaviour is well typed.                              *)
LEMMA TypedCalls == ISpec => [](ITypeOK /\ AttemptsLeft)
<1>1. IInit => ITypeOK /\ AttemptsLeft
  BY InteractionsAssumption
     DEF IInit, ITypeOK, StoreTypeOK, CallTypeOK, AttemptsLeft, Undecided, NoRequest
<1>2. QED
  BY <1>1, TypeStep, PTL DEF ISpec

(* ITypeOK is an invariant.                                                 *)
THEOREM RequestTypes == ISpec => []ITypeOK
BY TypedCalls, PTL

(* A stored decision is final, whoever answers again and whatever script    *)
(* the Redis client repeats.                                                *)
THEOREM DecisionsFinal == ISpec => DecisionFinal
<1>1. ITypeOK /\ [INext]_interactionVars =>
        [\A r \in Requests : Decided(r) => record'[r] \in {record[r], "absent"}]_interactionVars
  BY FinalStep
<1>2. QED
  BY <1>1, RequestTypes, PTL DEF ISpec, DecisionFinal

(* The pending list and the session's list agree with the records.          *)
THEOREM ListsAgree == ISpec => []IndexesAgree
<1>1. IInit => IndexesAgree
  BY InteractionsAssumption DEF IInit, IndexesAgree, Decided, Undecided
<1>2. QED
  BY <1>1, IndexStep, RequestTypes, PTL DEF ISpec

(* Every answering call is told the truth.                                  *)
THEOREM CallersLearnTheTruth == ISpec => []AnswersTruthful
<1>1. IInit => FirstAttempt /\ AnswersTruthful
  BY DEF IInit, FirstAttempt, AnswersTruthful
<1>2. QED
  BY <1>1, AnswerStepKeeps, TypedCalls, PTL DEF ISpec

(* A deletion that stopped anywhere can be repeated, and leaves nothing.    *)
THEOREM ErasureCanRepeat == ISpec => []ErasureRepeatable
<1>1. IInit => GoneTouched /\ ErasePlan /\ ErasureRepeatable
  BY InteractionsAssumption
     DEF IInit, GoneTouched, ErasePlan, NothingAsked, EraseKnows, ErasureRepeatable, Untouched
<1>2. ITypeOK /\ GoneTouched /\ ErasePlan /\ ErasureRepeatable /\ [INext]_interactionVars
        => GoneTouched' /\ ErasePlan' /\ ErasureRepeatable'
  BY GoneStep, EraseStep
<1>3. QED
  BY <1>1, <1>2, RequestTypes, PTL DEF ISpec
=============================================================================
