----------------------- MODULE SessionDeletionProofs -----------------------
(* Theorems about SessionDeletion: what the turns of TurnOrchestrator and   *)
(* any number of deletions leave of each other.                             *)
EXTENDS SessionDeletion, TurnOrchestratorProofs

(* A deletion never touches the turns, their leases or the replicas' tables.*)
LEMMA TurnsAlone ==
  ASSUME NEW d \in Deleters, DeleteStep(d)
  PROVE  UNCHANGED <<lease, age, table, turnVars>>
  BY DEF DeleteStep, DeleteGet, DeleteCheckLocal, DeleteCheckLease, DeleteEvents,
         DeleteConversation, DeleteInteractions, DeleteRead, DeleteErase, DeleteAbandon,
         vars, sessionVars, redisVars, turnVars

(* DTypeOK is an invariant.                                                 *)
LEMMA DTypeStep == DTypeOK /\ [DNext]_allVars => DTypeOK'
<1> SUFFICES ASSUME DTypeOK, [DNext]_allVars PROVE DTypeOK'
  OBVIOUS
<1>1. CASE Next /\ UNCHANGED deleteVars
  BY <1>1, TypeStep DEF DTypeOK, deleteVars
<1>2. ASSUME NEW d \in Deleters, DeleteStep(d) PROVE DTypeOK'
  <2>a. TypeOK /\ UNCHANGED <<lease, age, table, turnVars>>
    BY <1>2, TurnsAlone DEF DTypeOK
  <2>1. SessionTypeOK'
    BY <1>2, <2>a
    DEF DeleteStep, DeleteGet, DeleteCheckLocal, DeleteCheckLease, DeleteEvents,
        DeleteConversation, DeleteInteractions, DeleteRead, DeleteErase, DeleteAbandon,
        Erasable, Unmap, vars, sessionVars, redisVars, TypeOK, SessionTypeOK
  <2>2. status' \in [Sessions -> Turns \cup {NoTurn}]
    BY <1>2, <2>a
    DEF DeleteStep, DeleteGet, DeleteCheckLocal, DeleteCheckLease, DeleteEvents,
        DeleteConversation, DeleteInteractions, DeleteRead, DeleteErase, DeleteAbandon,
        vars, redisVars, TypeOK, RedisTypeOK
  <2>3. transcript' \in [Sessions -> Seq(Turns \X {"user", "assistant"})]
    <3> DEFINE Logs == Seq(Turns \X {"user", "assistant"})
    <3>1. \/ transcript' = transcript
          \/ transcript' = [transcript EXCEPT ![dsess[d]] = <<>>]
      BY <1>2
      DEF DeleteStep, DeleteGet, DeleteCheckLocal, DeleteCheckLease, DeleteEvents,
          DeleteConversation, DeleteInteractions, DeleteRead, DeleteErase, DeleteAbandon,
          vars, redisVars
    <3>2. <<>> \in Logs /\ transcript \in [Sessions -> Logs]
      BY <2>a, EmptySeq DEF TypeOK, RedisTypeOK
    <3> HIDE DEF Logs
    <3>3. transcript' \in [Sessions -> Logs]
      BY <3>1, <3>2
    <3>4. QED
      BY <3>3 DEF Logs
  <2>4. TypeOK'
    BY <2>a, <2>1, <2>2, <2>3 DEF TypeOK, RedisTypeOK, TurnTypeOK, turnVars
  <2>5. /\ dpc' \in [Deleters -> {"start", "refused", "failed", "deleted"} \cup Deleting]
        /\ dhome' \in [Deleters -> Replicas]
        /\ dsess' \in [Deleters -> Sessions \cup {NoSession}]
    BY <1>2, <2>a
    DEF DeleteStep, DeleteGet, DeleteCheckLocal, DeleteCheckLease, DeleteEvents,
        DeleteConversation, DeleteInteractions, DeleteRead, DeleteErase, DeleteAbandon,
        DGoto, Deleting, DTypeOK, TypeOK, SessionTypeOK
  <2>6. QED
    BY <2>4, <2>5 DEF DTypeOK
<1>3. CASE UNCHANGED allVars
  <2>1. UNCHANGED vars /\ UNCHANGED deleteVars
    BY <1>3 DEF allVars
  <2>2. TypeOK'
    BY <2>1, TypeStep DEF DTypeOK
  <2>3. QED
    BY <2>1, <2>2 DEF DTypeOK, deleteVars
<1>4. QED
  BY <1>1, <1>2, <1>3 DEF DNext

(* The types of turns and deletions, with deletions beside turns.           *)
THEOREM DeletionTypes == DSpec => []DTypeOK
<1>1. DInit => DTypeOK
  BY TurnsAssumption, TimeAssumption
  DEF DInit, Init, DTypeOK, TypeOK, SessionTypeOK, RedisTypeOK, TurnTypeOK
<1>2. QED
  BY <1>1, DTypeStep, PTL DEF DSpec

(* The record and the mapping of the external id stay a pair: only Resolve  *)
(* writes them, together, and only the erasing script removes them.         *)
THEOREM MappingStays == DSpec => []MappingIntact
<1>1. DInit => MappingIntact
  BY DEF DInit, Init, MappingIntact
<1>2. DTypeOK /\ MappingIntact /\ [DNext]_allVars => MappingIntact'
  <2> SUFFICES ASSUME DTypeOK, MappingIntact, [DNext]_allVars PROVE MappingIntact'
    OBVIOUS
  <2>1. ASSUME NEW t \in Turns, Resolve(t) PROVE MappingIntact'
    BY <2>1, TurnsAssumption DEF Resolve, MappingIntact
  <2>2. ASSUME NEW d \in Deleters, DeleteErase(d) PROVE MappingIntact'
    BY <2>2, TurnsAssumption DEF DeleteErase, Erasable, Unmap, sessionVars, MappingIntact
  <2>3. ASSUME UNCHANGED sessionVars PROVE MappingIntact'
    BY <2>3 DEF sessionVars, MappingIntact
  <2>4. ASSUME Next PROVE UNCHANGED sessionVars \/ \E t \in Turns : Resolve(t)
    BY <2>4
    DEF Next, TurnStep, Update, Acquire, Claim, AppendUser, Announce, Emit, Return, Report, Settle,
        Renew, Finish, Release, Cancel, Crash, Tick, vars, sessionVars
  <2>5. ASSUME NEW d \in Deleters, DeleteStep(d)
        PROVE  UNCHANGED sessionVars \/ DeleteErase(d)
    BY <2>5
    DEF DeleteStep, DeleteGet, DeleteCheckLocal, DeleteCheckLease, DeleteEvents,
        DeleteConversation, DeleteInteractions, DeleteRead, DeleteAbandon, vars, sessionVars
  <2>6. CASE UNCHANGED allVars
    BY <2>3, <2>6 DEF allVars, vars, sessionVars
  <2>7. QED
    BY <2>1, <2>2, <2>3, <2>4, <2>5, <2>6 DEF DNext
<1>3. QED
  BY <1>1, <1>2, DeletionTypes, PTL DEF DSpec

-----------------------------------------------------------------------------
(* What TurnOrchestrator promises of its turns, beside deletions.           *)

(* Invariants of the turns are about state that deletions leave alone.      *)
LEMMA TurnsUndisturbed ==
  ASSUME DTypeOK, [DNext]_allVars
  PROVE  /\ TableHolds => TableHolds'
         /\ TimersPunctual /\ LeaseHeld => LeaseHeld'
         /\ UnwindPunctual /\ LeaseHeld /\ LeaseOutlivesUnwinding => LeaseOutlivesUnwinding'
<1>1. CASE [Next]_vars
  BY <1>1, TableStep, LeaseStep, UnwindStep DEF DTypeOK
<1>2. ASSUME NEW d \in Deleters, DeleteStep(d)
      PROVE  /\ TableHolds => TableHolds'
             /\ LeaseHeld => LeaseHeld'
             /\ LeaseOutlivesUnwinding => LeaseOutlivesUnwinding'
  BY <1>2, TurnsAlone DEF TableHolds, LeaseHeld, LeaseOutlivesUnwinding, Working, turnVars
<1>3. QED
  BY <1>1, <1>2 DEF DNext, allVars

LEMMA LeaseHeldBeside ==
  ASSUME TimersPunctual
  PROVE  DSpec => []LeaseHeld
<1>1. DInit => LeaseHeld
  BY DEF DInit, Init, LeaseHeld, Setup, Running, Unwinding, Working
<1>2. QED
  BY <1>1, TurnsUndisturbed, DeletionTypes, PTL DEF DSpec

(* A replica's table holds every run also while its session is deleted, so  *)
(* a cancel still reaches it.                                               *)
THEOREM TableBesideDeletions == DSpec => []TableHolds
<1>1. DInit => TableHolds
  BY DEF DInit, Init, TableHolds, Claimed, Running, Unwinding
<1>2. QED
  BY <1>1, TurnsUndisturbed, DeletionTypes, PTL DEF DSpec

(* One turn per session and replica, also while the session is deleted and  *)
(* prompted again under a new id.                                           *)
THEOREM ReplicaExclusionBesideDeletions == DSpec => []OneTurnPerReplica
<1>1. TableHolds => OneTurnPerReplica
  BY DEF TableHolds, OneTurnPerReplica
<1>2. QED
  BY <1>1, TableBesideDeletions, PTL

(* No deletion takes a lease from its turn: DeleteSession removes every key *)
(* of the session but this one.                                             *)
THEOREM OwnerReleasesBesideDeletions == DSpec => OnlyOwnerReleases
<1>1. DTypeOK /\ [DNext]_allVars =>
        [\A t \in Turns, s \in Sessions :
           lease[s] = t /\ lease'[s] # t =>
             \/ pc[t] = "release" /\ pc'[t] = "done"
             \/ lease'[s] = NoTurn /\ age[s] = LeaseTTL - 1]_vars
  <2> SUFFICES ASSUME DTypeOK, [DNext]_allVars, NEW t \in Turns, NEW s \in Sessions,
                      lease[s] = t, lease'[s] # t
               PROVE  \/ pc[t] = "release" /\ pc'[t] = "done"
                      \/ lease'[s] = NoTurn /\ age[s] = LeaseTTL - 1
    OBVIOUS
  <2>1. [Next]_vars
    BY TurnsAlone DEF DNext, allVars
  <2>2. QED
    BY <2>1, ReleaseStep DEF DTypeOK
<1>2. QED
  BY <1>1, DeletionTypes, PTL DEF DSpec, OnlyOwnerReleases

(* With punctual timers no two turns of one session write at the same time, *)
(* whatever deletions run beside them.                                      *)
THEOREM WriterExclusionBesideDeletions ==
  ASSUME TimersPunctual
  PROVE  DSpec => []OneWriter
<1>1. LeaseHeld => OneWriter
  BY DEF LeaseHeld, OneWriter, Writing, Setup
<1>2. QED
  BY <1>1, LeaseHeldBeside, PTL

(* Deletions do not disturb the lease, so under punctual timers the check   *)
(* that finds no lease finds no turn that still writes.                     *)
THEOREM CheckSound ==
  ASSUME TimersPunctual
  PROVE  DSpec => ActiveCheckSound
<1>1. DTypeOK /\ LeaseHeld /\ [DNext]_allVars =>
        [\A d \in Deleters, t \in Turns : dpc[d] = "lease" /\ dpc'[d] = "events" =>
           ~(Writing(t) /\ sess[t] = dsess[d])]_allVars
  <2> SUFFICES ASSUME DTypeOK, LeaseHeld, DNext, NEW d \in Deleters, NEW t \in Turns,
                      dpc[d] = "lease", dpc'[d] = "events"
               PROVE  ~(Writing(t) /\ sess[t] = dsess[d])
    OBVIOUS
  <2>1. PICK e \in Deleters : DeleteStep(e)
    BY DEF DNext, deleteVars
  <2>2. DeleteCheckLease(d)
    BY <2>1
    DEF DeleteStep, DeleteGet, DeleteCheckLocal, DeleteCheckLease, DeleteEvents,
        DeleteConversation, DeleteInteractions, DeleteRead, DeleteErase, DeleteAbandon,
        DGoto, Deleting, DTypeOK
  <2>3. lease[dsess[d]] = NoTurn
    BY <2>2 DEF DeleteCheckLease, DGoto, ActiveAnywhere, DTypeOK
  <2>4. Writing(t) => lease[sess[t]] = t
    BY DEF Writing, LeaseHeld, Setup
  <2>5. QED
    BY <2>3, <2>4, TurnsAssumption
<1>2. QED
  BY <1>1, LeaseHeldBeside, DeletionTypes, PTL DEF DSpec, ActiveCheckSound
=============================================================================
