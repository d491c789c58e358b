----------------------- MODULE TurnOrchestratorProofs -----------------------
(* Theorems about TurnOrchestrator, for every number of turns, replicas and *)
(* sessions and every TTL.                                                  *)
EXTENDS TurnOrchestrator, SequenceTheorems, TLAPS

(* What the EXCEPTs of the handlers do to the types.                        *)
LEMMA ResetTyped ==
  ASSUME RedisTypeOK, NEW s \in Sessions
  PROVE  [age EXCEPT ![s] = 0] \in [Sessions -> 0 .. LeaseTTL - 1]
  BY TimeAssumption DEF RedisTypeOK

LEMMA EntryTyped ==
  ASSUME table \in [Replicas -> [Sessions -> Turns \cup {NoTurn}]],
         NEW r \in Replicas, NEW s \in Sessions, NEW v \in Turns \cup {NoTurn}
  PROVE  [table EXCEPT ![r][s] = v] \in [Replicas -> [Sessions -> Turns \cup {NoTurn}]]
  OBVIOUS

LEMMA WriteTyped ==
  ASSUME NEW t \in Turns, NEW role \in {"user", "assistant"}, RedisTypeOK,
         sess[t] \in Sessions, Write(t, role)
  PROVE  transcript' \in [Sessions -> Seq(Turns \X {"user", "assistant"})]
<1> DEFINE Entries == Turns \X {"user", "assistant"}
           s == sess[t]
<1>1. transcript[s] \in Seq(Entries) /\ <<t, role>> \in Entries
  BY DEF RedisTypeOK
<1>2. Append(transcript[s], <<t, role>>) \in Seq(Entries)
  BY <1>1, AppendProperties
<1>3. transcript \in [Sessions -> Seq(Entries)]
  BY DEF RedisTypeOK
<1>4. transcript' = [transcript EXCEPT ![s] = Append(transcript[s], <<t, role>>)]
  BY DEF Write
<1> HIDE DEF Entries
<1>5. transcript' \in [Sessions -> Seq(Entries)]
  BY <1>2, <1>3, <1>4
<1> QED
  BY <1>5 DEF Entries

LEMMA PublishTyped ==
  ASSUME NEW t \in Turns, NEW applied \in BOOLEAN, RedisTypeOK, PublishStatus(t, applied)
  PROVE  status' \in [Sessions -> Turns \cup {NoTurn}]
  BY DEF PublishStatus, RedisTypeOK

LEMMA CancelTyped ==
  ASSUME NEW t \in Turns, TurnTypeOK, CancelContext(t)
  PROVE  cancelled' \in [Turns -> BOOLEAN] /\ clock' \in [Turns -> Nat]
  BY DEF CancelContext, TurnTypeOK, Restart

(* TypeOK is an invariant: every handler leaves the stores well formed, and *)
(* a lease key is never older than its TTL.                                 *)
LEMMA TypeStep == TypeOK /\ [Next]_vars => TypeOK'
<1> USE TurnsAssumption, TimeAssumption
  DEF sessionVars, redisVars, turnVars, Goto, Busy, Setup, Running, Unwinding, Ended
<1> SUFFICES ASSUME TypeOK, [Next]_vars PROVE TypeOK'
  OBVIOUS
<1>a. SessionTypeOK /\ RedisTypeOK /\ TurnTypeOK
      /\ table \in [Replicas -> [Sessions -> Turns \cup {NoTurn}]]
  BY DEF TypeOK
<1>b. \A t \in Turns : pc[t] # "new" => sess[t] \in Sessions
  BY <1>a DEF TurnTypeOK
<1>1. ASSUME NEW t \in Turns, Resolve(t) PROVE TypeOK'
  <2>1. SessionTypeOK'
    BY <1>1, <1>a DEF SessionTypeOK, Resolve
  <2>2. RedisTypeOK'
    BY <1>1, <1>a DEF RedisTypeOK, Resolve
  <2>3. TurnTypeOK'
    BY <1>1, <1>a DEF TurnTypeOK, CancelContext, Restart, Resolve
  <2>4. (table \in [Replicas -> [Sessions -> Turns \cup {NoTurn}]])'
    BY <1>1, <1>a DEF Resolve
  <2>5. QED
    BY <2>1, <2>2, <2>3, <2>4 DEF TypeOK
<1>2. ASSUME NEW t \in Turns, Update(t) PROVE TypeOK'
  <2>1. SessionTypeOK'
    BY <1>2, <1>a DEF SessionTypeOK, Update
  <2>2. RedisTypeOK'
    BY <1>2, <1>a DEF RedisTypeOK, Update
  <2>3. TurnTypeOK'
    BY <1>2, <1>a DEF TurnTypeOK, CancelContext, Restart, Update
  <2>4. (table \in [Replicas -> [Sessions -> Turns \cup {NoTurn}]])'
    BY <1>2, <1>a DEF Update
  <2>5. QED
    BY <2>1, <2>2, <2>3, <2>4 DEF TypeOK
<1>3. ASSUME NEW t \in Turns, Acquire(t) PROVE TypeOK'
  <2>1. SessionTypeOK'
    BY <1>3, <1>a DEF SessionTypeOK, Acquire
  <2>2. RedisTypeOK'
    <3>1. lease' \in [Sessions -> Turns \cup {NoTurn}]
      BY <1>3, <1>a, <1>b DEF RedisTypeOK, Acquire
    <3>2. age' \in [Sessions -> 0 .. LeaseTTL - 1]
      <4>1. sess[t] \in Sessions
        BY <1>3, <1>b DEF Acquire
      <4>2. age' = age \/ age' = [age EXCEPT ![sess[t]] = 0]
        BY <1>3 DEF Acquire
      <4>3. [age EXCEPT ![sess[t]] = 0] \in [Sessions -> 0 .. LeaseTTL - 1]
        BY <1>a, <4>1, ResetTyped
      <4>4. age \in [Sessions -> 0 .. LeaseTTL - 1]
        BY <1>a DEF RedisTypeOK
      <4>5. QED
        BY <4>2, <4>3, <4>4
    <3>3. QED
      BY <1>3, <1>a, <3>1, <3>2 DEF RedisTypeOK, Acquire
  <2>3. TurnTypeOK'
    <3>1. cancelled' \in [Turns -> BOOLEAN] /\ clock' \in [Turns -> Nat]
      BY <1>3, <1>a, CancelTyped DEF TurnTypeOK, Acquire, Restart
    <3>2. pc' \in [Turns -> {"new"} \cup Busy \cup Ended]
      BY <1>3, <1>a DEF TurnTypeOK, Acquire
    <3>3. \A u \in Turns : pc'[u] = "new" => pc[u] = "new"
      BY <1>3, <1>a DEF TurnTypeOK, Acquire
    <3>4. QED
      BY <1>3, <1>a, <3>1, <3>2, <3>3 DEF TurnTypeOK, Acquire
  <2>4. (table \in [Replicas -> [Sessions -> Turns \cup {NoTurn}]])'
    BY <1>3, <1>a DEF Acquire
  <2>5. QED
    BY <2>1, <2>2, <2>3, <2>4 DEF TypeOK
<1>4. ASSUME NEW t \in Turns, Claim(t) PROVE TypeOK'
  <2>1. SessionTypeOK'
    BY <1>4, <1>a DEF SessionTypeOK, Claim
  <2>2. RedisTypeOK'
    BY <1>4, <1>a DEF RedisTypeOK, Claim
  <2>3. TurnTypeOK'
    BY <1>4, <1>a DEF TurnTypeOK, CancelContext, Restart, Claim
  <2>4. (table \in [Replicas -> [Sessions -> Turns \cup {NoTurn}]])'
    <3>1. sess[t] \in Sessions /\ home[t] \in Replicas
      BY <1>4, <1>a, <1>b DEF Claim, TurnTypeOK
    <3>2. table' = table \/ table' = [table EXCEPT ![home[t]][sess[t]] = t]
      BY <1>4 DEF Claim
    <3>3. QED
      BY <1>a, <3>1, <3>2, EntryTyped
  <2>5. QED
    BY <2>1, <2>2, <2>3, <2>4 DEF TypeOK
<1>5. ASSUME NEW t \in Turns, AppendUser(t) PROVE TypeOK'
  <2>1. SessionTypeOK'
    BY <1>5, <1>a DEF SessionTypeOK, AppendUser, Outcomes
  <2>2. RedisTypeOK'
    <3>1. transcript' \in [Sessions -> Seq(Turns \X {"user", "assistant"})]
      BY <1>5, <1>a, <1>b, WriteTyped DEF AppendUser, RedisTypeOK
    <3>2. QED
      BY <1>5, <1>a, <3>1 DEF RedisTypeOK, AppendUser
  <2>3. TurnTypeOK'
    BY <1>5, <1>a DEF TurnTypeOK, CancelContext, Restart, AppendUser, Outcomes
  <2>4. (table \in [Replicas -> [Sessions -> Turns \cup {NoTurn}]])'
    BY <1>5, <1>a DEF AppendUser, Outcomes
  <2>5. QED
    BY <2>1, <2>2, <2>3, <2>4 DEF TypeOK
<1>6. ASSUME NEW t \in Turns, Announce(t) PROVE TypeOK'
  <2>1. SessionTypeOK'
    BY <1>6, <1>a DEF SessionTypeOK, Announce, PublishStatus, Outcomes
  <2>2. RedisTypeOK'
    <3>1. status' \in [Sessions -> Turns \cup {NoTurn}]
      BY <1>6, <1>a, PublishTyped DEF Announce, Outcomes
    <3>2. QED
      BY <1>6, <1>a, <3>1 DEF RedisTypeOK, Announce
  <2>3. TurnTypeOK'
    BY <1>6, <1>a DEF TurnTypeOK, CancelContext, Restart, Announce, PublishStatus, Outcomes
  <2>4. (table \in [Replicas -> [Sessions -> Turns \cup {NoTurn}]])'
    BY <1>6, <1>a DEF Announce, PublishStatus, Outcomes
  <2>5. QED
    BY <2>1, <2>2, <2>3, <2>4 DEF TypeOK
<1>7. ASSUME NEW t \in Turns, Emit(t) PROVE TypeOK'
  <2>1. SessionTypeOK'
    BY <1>7, <1>a DEF SessionTypeOK, Emit, PublishStatus
  <2>2. RedisTypeOK'
    <3>1. transcript' \in [Sessions -> Seq(Turns \X {"user", "assistant"})]
      BY <1>7, <1>a, <1>b, WriteTyped DEF Emit, RedisTypeOK
    <3>2. status' \in [Sessions -> Turns \cup {NoTurn}]
      BY <1>7, <1>a DEF RedisTypeOK, Emit, PublishStatus
    <3>3. QED
      BY <1>7, <1>a, <3>1, <3>2 DEF RedisTypeOK, Emit
  <2>3. TurnTypeOK'
    BY <1>7, <1>a DEF TurnTypeOK, CancelContext, Restart, Emit, PublishStatus
  <2>4. (table \in [Replicas -> [Sessions -> Turns \cup {NoTurn}]])'
    BY <1>7, <1>a DEF Emit, PublishStatus
  <2>5. QED
    BY <2>1, <2>2, <2>3, <2>4 DEF TypeOK
<1>8. ASSUME NEW t \in Turns, Return(t) PROVE TypeOK'
  <2>1. SessionTypeOK'
    BY <1>8, <1>a DEF SessionTypeOK, Return
  <2>2. RedisTypeOK'
    BY <1>8, <1>a DEF RedisTypeOK, Return
  <2>3. TurnTypeOK'
    BY <1>8, <1>a DEF TurnTypeOK, CancelContext, Restart, Return
  <2>4. (table \in [Replicas -> [Sessions -> Turns \cup {NoTurn}]])'
    BY <1>8, <1>a DEF Return
  <2>5. QED
    BY <2>1, <2>2, <2>3, <2>4 DEF TypeOK
<1>9. ASSUME NEW t \in Turns, Report(t) PROVE TypeOK'
  <2>1. SessionTypeOK'
    BY <1>9, <1>a DEF SessionTypeOK, Report, PublishStatus
  <2>2. RedisTypeOK'
    <3>1. status' \in [Sessions -> Turns \cup {NoTurn}]
      BY <1>9, <1>a, PublishTyped DEF Report
    <3>2. QED
      BY <1>9, <1>a, <3>1 DEF RedisTypeOK, Report
  <2>3. TurnTypeOK'
    BY <1>9, <1>a DEF TurnTypeOK, CancelContext, Restart, Report, PublishStatus
  <2>4. (table \in [Replicas -> [Sessions -> Turns \cup {NoTurn}]])'
    BY <1>9, <1>a DEF Report, PublishStatus
  <2>5. QED
    BY <2>1, <2>2, <2>3, <2>4 DEF TypeOK
<1>10. ASSUME NEW t \in Turns, Settle(t) PROVE TypeOK'
  <2>1. SessionTypeOK'
    BY <1>10, <1>a DEF SessionTypeOK, Settle, PublishStatus
  <2>2. RedisTypeOK'
    <3>1. status' \in [Sessions -> Turns \cup {NoTurn}]
      BY <1>10, <1>a, PublishTyped DEF Settle
    <3>2. QED
      BY <1>10, <1>a, <3>1 DEF RedisTypeOK, Settle
  <2>3. TurnTypeOK'
    BY <1>10, <1>a DEF TurnTypeOK, CancelContext, Restart, Settle, PublishStatus
  <2>4. (table \in [Replicas -> [Sessions -> Turns \cup {NoTurn}]])'
    BY <1>10, <1>a DEF Settle, PublishStatus
  <2>5. QED
    BY <2>1, <2>2, <2>3, <2>4 DEF TypeOK
<1>11. ASSUME NEW t \in Turns, Renew(t) PROVE TypeOK'
  <2>1. SessionTypeOK'
    BY <1>11, <1>a DEF SessionTypeOK, Renew, RenewalLost
  <2>2. RedisTypeOK'
    <3>1. age' \in [Sessions -> 0 .. LeaseTTL - 1]
      <4>1. sess[t] \in Sessions
        BY <1>11, <1>b DEF Renew, Renewing
      <4>2. age' = age \/ age' = [age EXCEPT ![sess[t]] = 0]
        BY <1>11 DEF Renew
      <4>3. [age EXCEPT ![sess[t]] = 0] \in [Sessions -> 0 .. LeaseTTL - 1]
        BY <1>a, <4>1, ResetTyped
      <4>4. age \in [Sessions -> 0 .. LeaseTTL - 1]
        BY <1>a DEF RedisTypeOK
      <4>5. QED
        BY <4>2, <4>3, <4>4
    <3>2. QED
      BY <1>11, <1>a, <3>1 DEF RedisTypeOK, Renew
  <2>3. TurnTypeOK'
    <3>1. cancelled' \in [Turns -> BOOLEAN] /\ clock' \in [Turns -> Nat]
      <4>1. CASE CancelContext(t)
        BY <1>a, <4>1, CancelTyped
      <4>2. CASE Restart(t) /\ UNCHANGED cancelled
        BY <1>a, <4>2 DEF TurnTypeOK, Restart
      <4>3. QED
        BY <1>11, <4>1, <4>2 DEF Renew, RenewalLost
    <3>2. QED
      BY <1>11, <1>a, <3>1 DEF TurnTypeOK, Renew
  <2>4. (table \in [Replicas -> [Sessions -> Turns \cup {NoTurn}]])'
    BY <1>11, <1>a DEF Renew, RenewalLost
  <2>5. QED
    BY <2>1, <2>2, <2>3, <2>4 DEF TypeOK
<1>12. ASSUME NEW t \in Turns, Finish(t) PROVE TypeOK'
  <2>1. SessionTypeOK'
    BY <1>12, <1>a DEF SessionTypeOK, Finish, EndContext
  <2>2. RedisTypeOK'
    BY <1>12, <1>a DEF RedisTypeOK, Finish, EndContext
  <2>3. TurnTypeOK'
    <3>1. cancelled' \in [Turns -> BOOLEAN] /\ clock' \in [Turns -> Nat]
      BY <1>12, <1>a, CancelTyped DEF Finish, EndContext
    <3>2. QED
      BY <1>12, <1>a, <3>1 DEF TurnTypeOK, Finish
  <2>4. (table \in [Replicas -> [Sessions -> Turns \cup {NoTurn}]])'
    <3>1. sess[t] \in Sessions /\ home[t] \in Replicas
      BY <1>12, <1>a, <1>b DEF Finish, TurnTypeOK
    <3>2. table' = table \/ table' = [table EXCEPT ![home[t]][sess[t]] = NoTurn]
      BY <1>12 DEF Finish
    <3>3. QED
      BY <1>a, <3>1, <3>2, EntryTyped
  <2>5. QED
    BY <2>1, <2>2, <2>3, <2>4 DEF TypeOK
<1>13. ASSUME NEW t \in Turns, Release(t) PROVE TypeOK'
  <2>1. SessionTypeOK'
    BY <1>13, <1>a DEF SessionTypeOK, Release
  <2>2. RedisTypeOK'
    <3>1. age' \in [Sessions -> 0 .. LeaseTTL - 1]
      <4>1. sess[t] \in Sessions
        BY <1>13, <1>b DEF Release
      <4>2. age' = age \/ age' = [age EXCEPT ![sess[t]] = 0]
        BY <1>13 DEF Release
      <4>3. [age EXCEPT ![sess[t]] = 0] \in [Sessions -> 0 .. LeaseTTL - 1]
        BY <1>a, <4>1, ResetTyped
      <4>4. age \in [Sessions -> 0 .. LeaseTTL - 1]
        BY <1>a DEF RedisTypeOK
      <4>5. QED
        BY <4>2, <4>3, <4>4
    <3>2. lease' \in [Sessions -> Turns \cup {NoTurn}]
      BY <1>13, <1>a, <1>b DEF RedisTypeOK, Release
    <3>3. QED
      BY <1>13, <1>a, <3>1, <3>2 DEF RedisTypeOK, Release
  <2>3. TurnTypeOK'
    BY <1>13, <1>a DEF TurnTypeOK, CancelContext, Restart, Release
  <2>4. (table \in [Replicas -> [Sessions -> Turns \cup {NoTurn}]])'
    BY <1>13, <1>a DEF Release
  <2>5. QED
    BY <2>1, <2>2, <2>3, <2>4 DEF TypeOK
<1>14. ASSUME NEW t \in Turns, Cancel(t) PROVE TypeOK'
  <2>1. SessionTypeOK'
    BY <1>14, <1>a DEF SessionTypeOK, Cancel
  <2>2. RedisTypeOK'
    BY <1>14, <1>a DEF RedisTypeOK, Cancel
  <2>3. TurnTypeOK'
    BY <1>14, <1>a DEF TurnTypeOK, CancelContext, Restart, Cancel
  <2>4. (table \in [Replicas -> [Sessions -> Turns \cup {NoTurn}]])'
    BY <1>14, <1>a DEF Cancel
  <2>5. QED
    BY <2>1, <2>2, <2>3, <2>4 DEF TypeOK
<1>15. ASSUME NEW r \in Replicas, Crash(r) PROVE TypeOK'
  <2>1. pc' \in [Turns -> {"new"} \cup Busy \cup Ended]
    BY <1>15, <1>a DEF TurnTypeOK, Crash
  <2>2. table' \in [Replicas -> [Sessions -> Turns \cup {NoTurn}]]
    BY <1>15, <1>a DEF Crash
  <2>3. TurnTypeOK'
    BY <1>15, <1>a, <2>1 DEF TurnTypeOK, Crash
  <2>4. QED
    BY <1>15, <1>a, <2>2, <2>3 DEF TypeOK, SessionTypeOK, RedisTypeOK, Crash
<1>16. CASE Tick
  <2>1. age' \in [Sessions -> 0 .. LeaseTTL - 1]
    BY <1>16, <1>a DEF RedisTypeOK, Tick, Expired
  <2>2. lease' \in [Sessions -> Turns \cup {NoTurn}]
    BY <1>16, <1>a DEF RedisTypeOK, Tick
  <2>3. clock' \in [Turns -> Nat]
    BY <1>16, <1>a DEF TurnTypeOK, Tick
  <2>4. QED
    BY <1>16, <1>a, <2>1, <2>2, <2>3
      DEF TypeOK, SessionTypeOK, RedisTypeOK, TurnTypeOK, Tick
<1>17. CASE UNCHANGED vars
  BY <1>17, <1>a DEF vars, TypeOK, SessionTypeOK, RedisTypeOK, TurnTypeOK
<1>18. QED
  BY <1>1, <1>2, <1>3, <1>4, <1>5, <1>6, <1>7, <1>8, <1>9, <1>10, <1>11, <1>12,
     <1>13, <1>14, <1>15, <1>16, <1>17 DEF Next, TurnStep

(* Every variable keeps its type, and no key outlives its TTL (SET with PX  *)
(* and the renewal script of turn_leases.go).                               *)
THEOREM TypeCorrect == Spec => []TypeOK
<1>1. Init => TypeOK
  BY TurnsAssumption, TimeAssumption
    DEF Init, TypeOK, SessionTypeOK, RedisTypeOK, TurnTypeOK
<1>2. QED
  BY <1>1, TypeStep, PTL DEF Spec

-----------------------------------------------------------------------------
(* On one replica the table admits one turn per session: TableHolds is     *)
(* inductive by itself, with no assumption on time.                        *)
LEMMA TableStep == TypeOK /\ TableHolds /\ [Next]_vars => TableHolds'
<1> USE TurnsAssumption DEF sessionVars, redisVars, turnVars, Goto, Claimed, Running, Unwinding,
                            Setup, Busy, Ended, TableHolds
<1> SUFFICES ASSUME TypeOK, TableHolds, [Next]_vars PROVE TableHolds'
  OBVIOUS
<1>a. /\ TurnTypeOK
      /\ table \in [Replicas -> [Sessions -> Turns \cup {NoTurn}]]
      /\ \A t \in Turns : pc[t] # "new" => sess[t] \in Sessions
  BY DEF TypeOK, TurnTypeOK
<1>1. ASSUME NEW t \in Turns, Resolve(t) PROVE TableHolds'
  BY <1>1, <1>a DEF TurnTypeOK, Resolve
<1>2. ASSUME NEW t \in Turns, Update(t) PROVE TableHolds'
  BY <1>2, <1>a DEF TurnTypeOK, Update
<1>3. ASSUME NEW t \in Turns, Acquire(t) PROVE TableHolds'
  BY <1>3, <1>a DEF TurnTypeOK, Acquire
<1>4. ASSUME NEW t \in Turns, Claim(t) PROVE TableHolds'
  <2>1. home[t] \in Replicas /\ sess[t] \in Sessions /\ UNCHANGED <<home, sess>>
    BY <1>4, <1>a DEF TurnTypeOK, Claim
  <2>2. \/ /\ table[home[t]][sess[t]] = NoTurn
           /\ table' = [table EXCEPT ![home[t]][sess[t]] = t]
           /\ pc' = [pc EXCEPT ![t] = "append"]
        \/ table' = table /\ pc' = [pc EXCEPT ![t] = "release"]
    BY <1>4 DEF Claim, Idle
  <2>3. QED
    BY <1>a, <2>1, <2>2 DEF TurnTypeOK
<1>5. ASSUME NEW t \in Turns, AppendUser(t) PROVE TableHolds'
  BY <1>5, <1>a DEF TurnTypeOK, AppendUser, Outcomes
<1>6. ASSUME NEW t \in Turns, Announce(t) PROVE TableHolds'
  BY <1>6, <1>a DEF TurnTypeOK, Announce, Outcomes
<1>7. ASSUME NEW t \in Turns, Emit(t) PROVE TableHolds'
  BY <1>7, <1>a DEF TurnTypeOK, Emit
<1>8. ASSUME NEW t \in Turns, Return(t) PROVE TableHolds'
  BY <1>8, <1>a DEF TurnTypeOK, Return
<1>9. ASSUME NEW t \in Turns, Report(t) PROVE TableHolds'
  BY <1>9, <1>a DEF TurnTypeOK, Report
<1>10. ASSUME NEW t \in Turns, Settle(t) PROVE TableHolds'
  BY <1>10, <1>a DEF TurnTypeOK, Settle
<1>11. ASSUME NEW t \in Turns, Renew(t) PROVE TableHolds'
  BY <1>11, <1>a DEF TurnTypeOK, Renew, RenewalLost
<1>12. ASSUME NEW t \in Turns, Finish(t) PROVE TableHolds'
  BY <1>12, <1>a DEF TurnTypeOK, Finish, Listed, EndContext
<1>13. ASSUME NEW t \in Turns, Release(t) PROVE TableHolds'
  BY <1>13, <1>a DEF TurnTypeOK, Release
<1>14. ASSUME NEW t \in Turns, Cancel(t) PROVE TableHolds'
  BY <1>14, <1>a DEF TurnTypeOK, Cancel
<1>15. ASSUME NEW r \in Replicas, Crash(r) PROVE TableHolds'
  BY <1>15, <1>a DEF TurnTypeOK, Crash
<1>16. CASE Tick
  BY <1>16, <1>a DEF TurnTypeOK, Tick
<1>17. CASE UNCHANGED vars
  BY <1>17 DEF vars
<1>18. QED
  BY <1>1, <1>2, <1>3, <1>4, <1>5, <1>6, <1>7, <1>8, <1>9, <1>10, <1>11, <1>12,
     <1>13, <1>14, <1>15, <1>16, <1>17 DEF Next, TurnStep

(* A run is in its replica's table until it finishes, so Cancel reaches it. *)
THEOREM TableCorrect == Spec => []TableHolds
<1>1. Init => TableHolds
  BY DEF Init, TableHolds, Claimed, Running, Unwinding
<1>2. QED
  BY <1>1, TableStep, TypeCorrect, PTL DEF Spec

(* Two turns of one session are never between claim and finish on the same *)
(* replica, even while the lease of the first has expired.                 *)
THEOREM LocalExclusion == Spec => []OneTurnPerReplica
<1>1. TableHolds => OneTurnPerReplica
  BY DEF TableHolds, OneTurnPerReplica
<1>2. QED
  BY <1>1, TableCorrect, PTL

-----------------------------------------------------------------------------
(* The lease.  A turn at work owns its session's lease, and the age of the  *)
(* lease is bounded by the turn's own clock, so it cannot expire under it.  *)
LEMMA LeaseStep ==
  ASSUME TimersPunctual
  PROVE  TypeOK /\ LeaseHeld /\ [Next]_vars => LeaseHeld'
<1> USE TurnsAssumption, TimeAssumption
  DEF sessionVars, redisVars, turnVars, Goto, Running, Unwinding, Setup, Busy, Ended,
      Working, Restart, CancelContext
<1> SUFFICES ASSUME TypeOK, LeaseHeld, [Next]_vars PROVE LeaseHeld'
  OBVIOUS
<1>a. /\ TurnTypeOK /\ RedisTypeOK
      /\ \A t \in Turns : pc[t] # "new" => sess[t] \in Sessions
  BY DEF TypeOK, TurnTypeOK
<1>1. ASSUME NEW t \in Turns, Resolve(t) PROVE LeaseHeld'
  BY <1>1, <1>a DEF LeaseHeld, TurnTypeOK, RedisTypeOK, Resolve
<1>2. ASSUME NEW t \in Turns, Update(t) PROVE LeaseHeld'
  BY <1>2, <1>a DEF LeaseHeld, TurnTypeOK, RedisTypeOK, Update
<1>3. ASSUME NEW t \in Turns, Acquire(t) PROVE LeaseHeld'
  <2> DEFINE Taken == /\ lease' = [lease EXCEPT ![sess[t]] = t]
                      /\ age' = [age EXCEPT ![sess[t]] = 0]
                      /\ Free(sess[t])
  <2>1. sess[t] \in Sessions /\ pc[t] = "updated" /\ sess' = sess
    BY <1>3, <1>a DEF Acquire
  <2>2. \/ Taken /\ pc' = [pc EXCEPT ![t] = "claim"] /\ Restart(t) /\ cancelled' = cancelled
        \/ /\ Taken \/ UNCHANGED <<lease, age>>
           /\ pc' = [pc EXCEPT ![t] = "done"] /\ clock' = clock
           /\ cancelled' = [cancelled EXCEPT ![t] = TRUE]
    BY <1>3, <2>1 DEF Acquire
  <2>3. ASSUME NEW u \in Turns, u # t
        PROVE  /\ pc'[u] = pc[u] /\ cancelled'[u] = cancelled[u] /\ clock'[u] = clock[u]
               /\ lease[sess[u]] = u /\ pc[u] # "new" =>
                    lease'[sess[u]] = u /\ age'[sess[u]] = age[sess[u]]
    BY <1>a, <2>1, <2>2, <2>3 DEF TurnTypeOK, RedisTypeOK, Free
  <2>4. pc'[t] = "claim" => lease'[sess[t]] = t /\ age'[sess[t]] = 0 /\ clock'[t] = 0
    BY <1>a, <2>1, <2>2 DEF TurnTypeOK, RedisTypeOK
  <2>5. pc'[t] \in {"claim", "done"}
    BY <1>a, <2>2 DEF TurnTypeOK
  <2>6. QED
    BY <1>a, <2>1, <2>3, <2>4, <2>5 DEF LeaseHeld, TurnTypeOK
<1>4. ASSUME NEW t \in Turns, Claim(t) PROVE LeaseHeld'
  BY <1>4, <1>a DEF LeaseHeld, TurnTypeOK, RedisTypeOK, Claim
<1>5. ASSUME NEW t \in Turns, AppendUser(t) PROVE LeaseHeld'
  BY <1>5, <1>a DEF LeaseHeld, TurnTypeOK, RedisTypeOK, AppendUser, Outcomes
<1>6. ASSUME NEW t \in Turns, Announce(t) PROVE LeaseHeld'
  BY <1>6, <1>a DEF LeaseHeld, TurnTypeOK, RedisTypeOK, Announce, Outcomes
<1>7. ASSUME NEW t \in Turns, Emit(t) PROVE LeaseHeld'
  BY <1>7, <1>a DEF LeaseHeld, TurnTypeOK, RedisTypeOK, Emit
<1>8. ASSUME NEW t \in Turns, Return(t) PROVE LeaseHeld'
  BY <1>8, <1>a DEF LeaseHeld, TurnTypeOK, RedisTypeOK, Return
<1>9. ASSUME NEW t \in Turns, Report(t) PROVE LeaseHeld'
  BY <1>9, <1>a DEF LeaseHeld, TurnTypeOK, RedisTypeOK, Report
<1>10. ASSUME NEW t \in Turns, Settle(t) PROVE LeaseHeld'
  BY <1>10, <1>a DEF LeaseHeld, TurnTypeOK, RedisTypeOK, Settle
<1>11. ASSUME NEW t \in Turns, Renew(t) PROVE LeaseHeld'
  <2>1. age \in [Sessions -> 0 .. LeaseTTL - 1] /\ lease \in [Sessions -> Turns \cup {NoTurn}]
    BY <1>a DEF RedisTypeOK
  <2>2. QED
    BY <1>11, <1>a, <2>1 DEF LeaseHeld, TurnTypeOK, Renew, RenewalLost, Renewing
<1>12. ASSUME NEW t \in Turns, Finish(t) PROVE LeaseHeld'
  BY <1>12, <1>a DEF LeaseHeld, TurnTypeOK, RedisTypeOK, Finish, EndContext
<1>13. ASSUME NEW t \in Turns, Release(t) PROVE LeaseHeld'
  BY <1>13, <1>a DEF LeaseHeld, TurnTypeOK, RedisTypeOK, Release, Owns
<1>14. ASSUME NEW t \in Turns, Cancel(t) PROVE LeaseHeld'
  BY <1>14, <1>a DEF LeaseHeld, TurnTypeOK, RedisTypeOK, Cancel
<1>15. ASSUME NEW r \in Replicas, Crash(r) PROVE LeaseHeld'
  BY <1>15, <1>a DEF LeaseHeld, TurnTypeOK, RedisTypeOK, Crash
<1>16. CASE Tick
  <2>1. age \in [Sessions -> 0 .. LeaseTTL - 1] /\ lease \in [Sessions -> Turns \cup {NoTurn}]
    BY <1>a DEF RedisTypeOK
  <2>2. QED
    BY <1>16, <1>a, <2>1 DEF LeaseHeld, TurnTypeOK, Tick, Expired, Free, Deadline, Timed,
                             TimersPunctual
<1>17. CASE UNCHANGED vars
  BY <1>17 DEF vars, LeaseHeld
<1>18. QED
  BY <1>1, <1>2, <1>3, <1>4, <1>5, <1>6, <1>7, <1>8, <1>9, <1>10, <1>11, <1>12,
     <1>13, <1>14, <1>15, <1>16, <1>17 DEF Next, TurnStep

(* Under punctual timers a turn in progress owns its lease.                 *)
THEOREM LeaseCorrect ==
  ASSUME TimersPunctual
  PROVE  Spec => []LeaseHeld
<1>1. Init => LeaseHeld
  BY DEF Init, LeaseHeld, Setup, Running, Unwinding, Working
<1>2. QED
  BY <1>1, LeaseStep, TypeCorrect, PTL DEF Spec

(* No two turns of one session write at the same time, on any replicas.     *)
THEOREM WriterExclusion ==
  ASSUME TimersPunctual
  PROVE  Spec => []OneWriter
<1>1. LeaseHeld => OneWriter
  BY DEF LeaseHeld, OneWriter, Writing, Setup
<1>2. QED
  BY <1>1, LeaseCorrect, PTL

(* A step takes a lease from its owner only by the owner's own release or   *)
(* at the end of its TTL.                                                   *)
LEMMA ReleaseStep ==
  ASSUME TypeOK, [Next]_vars, NEW t \in Turns, NEW s \in Sessions,
         lease[s] = t, lease'[s] # t
  PROVE  \/ pc[t] = "release" /\ pc'[t] = "done"
         \/ lease'[s] = NoTurn /\ age[s] = LeaseTTL - 1
<1> USE TurnsAssumption, TimeAssumption DEF redisVars, Goto
<1>a. /\ RedisTypeOK /\ TurnTypeOK
      /\ \A u \in Turns : pc[u] # "new" => sess[u] \in Sessions
  BY DEF TypeOK, TurnTypeOK
<1>1. CASE Tick
  <2>1. age \in [Sessions -> 0 .. LeaseTTL - 1] /\ lease \in [Sessions -> Turns \cup {NoTurn}]
    BY <1>a DEF RedisTypeOK
  <2>2. QED
    BY <1>1, <2>1 DEF Tick, Expired
<1>2. ASSUME NEW u \in Turns, Release(u)
      PROVE  pc[t] = "release" /\ pc'[t] = "done"
  BY <1>2, <1>a DEF Release, Owns, RedisTypeOK, TurnTypeOK
<1>3. ASSUME NEW u \in Turns, Acquire(u) PROVE FALSE
  BY <1>3, <1>a DEF Acquire, Free, RedisTypeOK
<1>4. ASSUME UNCHANGED lease PROVE FALSE
  BY <1>4
<1>5. ASSUME NEW u \in Turns, TurnStep(u), ~Release(u), ~Acquire(u)
      PROVE  UNCHANGED lease
  BY <1>5 DEF TurnStep, Resolve, Update, Claim, AppendUser, Announce, Emit,
              Return, Report, Settle, Renew, Finish, Cancel
<1>6. ASSUME NEW r \in Replicas, Crash(r) PROVE UNCHANGED lease
  BY <1>6 DEF Crash
<1>7. QED
  BY <1>1, <1>2, <1>3, <1>4, <1>5, <1>6 DEF Next, vars

(* Nobody but its owner or its TTL ends a lease, however late any turn is.  *)
THEOREM OwnerReleases == Spec => OnlyOwnerReleases
<1>1. TypeOK /\ [Next]_vars =>
        [\A t \in Turns, s \in Sessions :
           lease[s] = t /\ lease'[s] # t =>
             \/ pc[t] = "release" /\ pc'[t] = "done"
             \/ lease'[s] = NoTurn /\ age[s] = LeaseTTL - 1]_vars
  BY ReleaseStep
<1>2. QED
  BY <1>1, TypeCorrect, PTL DEF Spec, OnlyOwnerReleases

-----------------------------------------------------------------------------
(* The terminal status.  A cancelled run renews no more, so its lease must  *)
(* outlast the unwinding; then its idle cannot land on a later turn.        *)
LEMMA UnwindStep ==
  ASSUME UnwindPunctual
  PROVE  TypeOK /\ LeaseHeld /\ LeaseOutlivesUnwinding /\ [Next]_vars
           => LeaseOutlivesUnwinding'
<1> USE TurnsAssumption, TimeAssumption
  DEF sessionVars, redisVars, turnVars, Goto, Running, Unwinding, Setup, Busy, Ended,
      Working, Restart, CancelContext
<1> SUFFICES ASSUME TypeOK, LeaseHeld, LeaseOutlivesUnwinding, [Next]_vars
             PROVE  LeaseOutlivesUnwinding'
  OBVIOUS
<1>a. /\ TurnTypeOK /\ RedisTypeOK
      /\ \A t \in Turns : pc[t] # "new" => sess[t] \in Sessions
  BY DEF TypeOK, TurnTypeOK
<1>1. ASSUME NEW t \in Turns, Resolve(t) PROVE LeaseOutlivesUnwinding'
  BY <1>1, <1>a DEF LeaseOutlivesUnwinding, LeaseHeld, TurnTypeOK, RedisTypeOK,
                  Resolve
<1>2. ASSUME NEW t \in Turns, Update(t) PROVE LeaseOutlivesUnwinding'
  BY <1>2, <1>a DEF LeaseOutlivesUnwinding, LeaseHeld, TurnTypeOK, RedisTypeOK,
                  Update
<1>3. ASSUME NEW t \in Turns, Acquire(t) PROVE LeaseOutlivesUnwinding'
  <2>1. sess[t] \in Sessions /\ sess' = sess
    BY <1>3, <1>a DEF Acquire
  <2>2. ASSUME NEW u \in Turns, u # t
        PROVE  /\ pc'[u] = pc[u] /\ cancelled'[u] = cancelled[u] /\ clock'[u] = clock[u]
               /\ lease[sess[u]] = u /\ pc[u] # "new" =>
                    lease'[sess[u]] = u /\ age'[sess[u]] = age[sess[u]]
    BY <1>3, <1>a, <2>1, <2>2 DEF TurnTypeOK, RedisTypeOK, Acquire, Free
  <2>3. pc'[t] \in {"claim", "done"}
    BY <1>3, <1>a DEF TurnTypeOK, Acquire
  <2>4. QED
    BY <1>a, <2>1, <2>2, <2>3 DEF LeaseOutlivesUnwinding, TurnTypeOK
<1>4. ASSUME NEW t \in Turns, Claim(t) PROVE LeaseOutlivesUnwinding'
  <2>1. UNCHANGED <<sess, lease, age>> /\ pc'[t] \in {"append", "release"}
    BY <1>4, <1>a DEF Claim, TurnTypeOK
  <2>2. ASSUME NEW u \in Turns, u # t
        PROVE  pc'[u] = pc[u] /\ cancelled'[u] = cancelled[u] /\ clock'[u] = clock[u]
    BY <1>4, <1>a, <2>2 DEF Claim, TurnTypeOK
  <2>3. QED
    BY <2>1, <2>2 DEF LeaseOutlivesUnwinding
<1>5. ASSUME NEW t \in Turns, AppendUser(t) PROVE LeaseOutlivesUnwinding'
  BY <1>5, <1>a DEF LeaseOutlivesUnwinding, LeaseHeld, TurnTypeOK, RedisTypeOK,
                  AppendUser, Outcomes
<1>6. ASSUME NEW t \in Turns, Announce(t) PROVE LeaseOutlivesUnwinding'
  BY <1>6, <1>a DEF LeaseOutlivesUnwinding, LeaseHeld, TurnTypeOK, RedisTypeOK,
                  Announce, Outcomes
<1>7. ASSUME NEW t \in Turns, Emit(t) PROVE LeaseOutlivesUnwinding'
  BY <1>7, <1>a DEF LeaseOutlivesUnwinding, LeaseHeld, TurnTypeOK, RedisTypeOK,
                  Emit
<1>8. ASSUME NEW t \in Turns, Return(t) PROVE LeaseOutlivesUnwinding'
  BY <1>8, <1>a DEF LeaseOutlivesUnwinding, LeaseHeld, TurnTypeOK, RedisTypeOK,
                  Return
<1>9. ASSUME NEW t \in Turns, Report(t) PROVE LeaseOutlivesUnwinding'
  BY <1>9, <1>a DEF LeaseOutlivesUnwinding, LeaseHeld, TurnTypeOK, RedisTypeOK,
                  Report
<1>10. ASSUME NEW t \in Turns, Settle(t) PROVE LeaseOutlivesUnwinding'
  BY <1>10, <1>a DEF LeaseOutlivesUnwinding, LeaseHeld, TurnTypeOK, RedisTypeOK,
                  Settle
<1>11. ASSUME NEW t \in Turns, Renew(t) PROVE LeaseOutlivesUnwinding'
  <2>1. sess[t] \in Sessions /\ sess' = sess /\ pc' = pc /\ lease' = lease
    BY <1>11, <1>a DEF Renew, Renewing
  <2>2. ASSUME NEW u \in Turns, u # t
        PROVE  /\ pc'[u] = pc[u] /\ cancelled'[u] = cancelled[u] /\ clock'[u] = clock[u]
               /\ lease[sess[u]] = u /\ pc[u] # "new" =>
                    lease'[sess[u]] = u /\ age'[sess[u]] = age[sess[u]]
    BY <1>11, <1>a, <2>1, <2>2 DEF TurnTypeOK, RedisTypeOK, Renew, RenewalLost
  <2>3. ASSUME cancelled'[t], pc[t] \in Running
        PROVE  /\ lease[sess[t]] = t /\ age'[sess[t]] <= RenewEvery + 2 * Slack
               /\ clock'[t] = 0 /\ age'[sess[t]] \in Nat
    <3>1. ~cancelled[t] /\ CancelContext(t)
      BY <1>11, <1>a, <2>3 DEF Renew, RenewalLost, Renewing, TurnTypeOK
    <3>2. /\ lease[sess[t]] = t /\ age[sess[t]] <= clock[t] + Slack
          /\ clock[t] <= RenewEvery + Slack
      BY <2>3, <3>1 DEF LeaseHeld
    <3>3. clock'[t] = 0
      BY <1>a, <2>3, <3>1 DEF TurnTypeOK
    <3>4. age'[sess[t]] = age[sess[t]] \/ age'[sess[t]] = 0
      BY <1>11, <1>a, <2>1 DEF Renew, RedisTypeOK
    <3>5. age[sess[t]] \in Nat /\ clock[t] \in Nat
      BY <1>a, <2>1 DEF RedisTypeOK, TurnTypeOK
    <3>6. QED
      BY <3>2, <3>3, <3>4, <3>5
  <2> DEFINE Held(u) ==
        /\ pc[u] = "run" =>
             /\ lease[sess[u]] = u /\ age[sess[u]] <= clock[u] + RenewEvery + 2 * Slack
             /\ clock[u] <= UnwindBound
        /\ pc[u] \in Unwinding =>
             /\ lease[sess[u]] = u
             /\ age[sess[u]] <= clock[u] + RenewEvery + 2 * Slack + UnwindBound
             /\ clock[u] <= Slack
  <2>4. ASSUME NEW u \in Turns, u # t, cancelled'[u] PROVE Held(u)'
    BY <1>a, <2>1, <2>2, <2>4 DEF LeaseOutlivesUnwinding
  <2>5. ASSUME cancelled'[t] PROVE Held(t)'
    <3>1. CASE pc[t] \in Running
      BY <2>1, <2>3, <2>5, <3>1
    <3>2. CASE pc[t] \notin Running
      BY <2>1, <3>2
    <3>3. QED
      BY <3>1, <3>2
  <2>6. QED
    BY <2>4, <2>5 DEF LeaseOutlivesUnwinding
<1>12. ASSUME NEW t \in Turns, Finish(t) PROVE LeaseOutlivesUnwinding'
  BY <1>12, <1>a DEF LeaseOutlivesUnwinding, LeaseHeld, TurnTypeOK, RedisTypeOK,
                  Finish, EndContext
<1>13. ASSUME NEW t \in Turns, Release(t) PROVE LeaseOutlivesUnwinding'
  <2>1. sess[t] \in Sessions /\ sess' = sess
    BY <1>13, <1>a DEF Release
  <2>2. ASSUME NEW u \in Turns, u # t
        PROVE  /\ pc'[u] = pc[u] /\ cancelled'[u] = cancelled[u] /\ clock'[u] = clock[u]
               /\ lease[sess[u]] = u /\ pc[u] # "new" =>
                    lease'[sess[u]] = u /\ age'[sess[u]] = age[sess[u]]
    BY <1>13, <1>a, <2>1, <2>2 DEF TurnTypeOK, RedisTypeOK, Release, Owns
  <2>3. pc'[t] = "done"
    BY <1>13, <1>a DEF TurnTypeOK, Release
  <2>4. QED
    BY <1>a, <2>1, <2>2, <2>3 DEF LeaseOutlivesUnwinding, TurnTypeOK
<1>14. ASSUME NEW t \in Turns, Cancel(t) PROVE LeaseOutlivesUnwinding'
  BY <1>14, <1>a DEF LeaseOutlivesUnwinding, LeaseHeld, TurnTypeOK, RedisTypeOK,
                  Cancel
<1>15. ASSUME NEW r \in Replicas, Crash(r) PROVE LeaseOutlivesUnwinding'
  BY <1>15, <1>a DEF LeaseOutlivesUnwinding, TurnTypeOK, RedisTypeOK, Crash
<1>16. CASE Tick
  <2>1. UNCHANGED <<pc, sess, cancelled>>
    BY <1>16 DEF Tick
  <2>2. ASSUME NEW u \in Turns, pc[u] \in Running, cancelled[u]
        PROVE  /\ clock'[u] = clock[u] + 1 /\ clock[u] < Deadline(u)
               /\ lease[sess[u]] = u /\ age[sess[u]] \in Nat /\ clock[u] \in Nat
               /\ ~Expired(sess[u]) =>
                    lease'[sess[u]] = u /\ age'[sess[u]] = age[sess[u]] + 1
    BY <1>16, <1>a, <2>2
      DEF Tick, Timed, Free, LeaseOutlivesUnwinding, RedisTypeOK, TurnTypeOK
  <2>3. ASSUME NEW u \in Turns, pc[u] = "run", cancelled[u]
        PROVE  /\ ~Expired(sess[u]) /\ clock[u] < UnwindBound
               /\ age[sess[u]] <= clock[u] + RenewEvery + 2 * Slack
    BY <2>2, <2>3 DEF Deadline, Expired, LeaseOutlivesUnwinding, UnwindPunctual
  <2>4. ASSUME NEW u \in Turns, pc[u] \in Unwinding, cancelled[u]
        PROVE  /\ ~Expired(sess[u]) /\ clock[u] < Slack
               /\ age[sess[u]] <= clock[u] + RenewEvery + 2 * Slack + UnwindBound
    BY <2>2, <2>4 DEF Deadline, Expired, LeaseOutlivesUnwinding, UnwindPunctual
  <2>5. QED
    BY <2>1, <2>2, <2>3, <2>4 DEF LeaseOutlivesUnwinding
<1>17. CASE UNCHANGED vars
  BY <1>17 DEF vars, LeaseOutlivesUnwinding
<1>18. QED
  BY <1>1, <1>2, <1>3, <1>4, <1>5, <1>6, <1>7, <1>8, <1>9, <1>10, <1>11, <1>12,
     <1>13, <1>14, <1>15, <1>16, <1>17 DEF Next, TurnStep

(* A run in the runtime or unwinding owns its lease, so no other turn of the *)
(* session has an event left to publish.                                     *)
LEMMA PublisherAlone ==
  ASSUME LeaseHeld, LeaseOutlivesUnwinding, NEW t \in Turns, NEW u \in Turns,
         pc[t] \in {"announce", "run", "report", "settle"},
         pc[u] \in {"run", "report", "settle"}, sess[t] = sess[u]
  PROVE  t = u
<1>1. lease[sess[t]] = t
  BY DEF LeaseHeld, LeaseOutlivesUnwinding, Working, Setup, Running, Unwinding
<1>2. lease[sess[u]] = u
  BY DEF LeaseHeld, LeaseOutlivesUnwinding, Working, Running, Unwinding
<1>3. QED
  BY <1>1, <1>2

LEMMA ShownStep ==
  TypeOK /\ LeaseHeld /\ LeaseOutlivesUnwinding /\ RunningTurnShown /\ [Next]_vars
    => RunningTurnShown'
<1> DEFINE Shows(u) == pc[u] \in {"run", "report", "settle"}
<1> USE TurnsAssumption
  DEF sessionVars, redisVars, turnVars, Goto, PublishStatus, RunningTurnShown
<1> SUFFICES ASSUME TypeOK, LeaseHeld, LeaseOutlivesUnwinding, RunningTurnShown,
                    [Next]_vars
             PROVE  RunningTurnShown'
  OBVIOUS
<1>a. /\ TurnTypeOK /\ RedisTypeOK
      /\ \A t \in Turns : pc[t] # "new" => sess[t] \in Sessions
  BY DEF TypeOK, TurnTypeOK
(* A turn that publishes leaves its own mark, and there is no other to see. *)
<1>1. ASSUME NEW t \in Turns, Announce(t) PROVE RunningTurnShown'
  <2>1. \A u \in Turns : Shows(u) => sess[u] # sess[t]
    BY <1>1, PublisherAlone DEF Announce
  <2>2. QED
    BY <1>1, <1>a, <2>1 DEF TurnTypeOK, RedisTypeOK, Announce, Outcomes
<1>2. ASSUME NEW t \in Turns, Emit(t) PROVE RunningTurnShown'
  <2>1. \A u \in Turns : Shows(u) /\ sess[u] = sess[t] => u = t
    BY <1>2, PublisherAlone DEF Emit
  <2>2. QED
    BY <1>2, <1>a, <2>1 DEF TurnTypeOK, RedisTypeOK, Emit
<1>3. ASSUME NEW t \in Turns, Report(t) \/ Settle(t) PROVE RunningTurnShown'
  <2>1. \A u \in Turns : Shows(u) /\ sess[u] = sess[t] => u = t
    BY <1>3, PublisherAlone DEF Report, Settle
  <2>2. QED
    BY <1>3, <1>a, <2>1 DEF TurnTypeOK, RedisTypeOK, Report, Settle
(* No other step publishes, or brings a turn to where it is shown.          *)
<1>4. ASSUME NEW t \in Turns, Resolve(t) PROVE RunningTurnShown'
  BY <1>4, <1>a DEF TurnTypeOK, Resolve
<1>5. ASSUME NEW t \in Turns,
             Update(t) \/ Acquire(t) \/ Claim(t) \/ AppendUser(t) \/ Finish(t)
               \/ Release(t)
      PROVE  RunningTurnShown'
  BY <1>5, <1>a DEF TurnTypeOK, Update, Acquire, Claim, AppendUser, Outcomes, Finish, Release
<1>6. ASSUME NEW t \in Turns, Return(t) \/ Renew(t) \/ Cancel(t) PROVE RunningTurnShown'
  BY <1>6, <1>a DEF TurnTypeOK, Return, Renew, Cancel
<1>7. ASSUME NEW r \in Replicas, Crash(r) PROVE RunningTurnShown'
  BY <1>7, <1>a DEF TurnTypeOK, Crash
<1>8. CASE Tick \/ UNCHANGED vars
  BY <1>8 DEF Tick, vars
<1>9. QED
  BY <1>1, <1>2, <1>3, <1>4, <1>5, <1>6, <1>7, <1>8 DEF Next, TurnStep

(* A cancelled turn keeps its lease until it is done with the session.      *)
THEOREM LeaseUnwinds ==
  ASSUME UnwindPunctual
  PROVE  Spec => []LeaseOutlivesUnwinding
<1>1. TimersPunctual
  BY TimeAssumption DEF UnwindPunctual, TimersPunctual
<1>2. Spec => []LeaseHeld
  BY <1>1, LeaseCorrect
<1>3. Init => LeaseOutlivesUnwinding
  BY DEF Init, LeaseOutlivesUnwinding, Running, Unwinding
<1>4. QED
  BY <1>2, <1>3, UnwindStep, TypeCorrect, PTL DEF Spec

(* With prompt unwinding no turn publishes a status or an error on top of a *)
(* run's own, from its first event to its last, cancelled or not.           *)
THEOREM StatusCorrect ==
  ASSUME UnwindPunctual
  PROVE  Spec => []RunningTurnShown
<1>1. TimersPunctual
  BY TimeAssumption DEF UnwindPunctual, TimersPunctual
<1>2. Spec => []LeaseHeld
  BY <1>1, LeaseCorrect
<1>3. Init => RunningTurnShown
  BY DEF Init, RunningTurnShown
<1>4. QED
  BY <1>2, <1>3, LeaseUnwinds, ShownStep, TypeCorrect, PTL DEF Spec

-----------------------------------------------------------------------------
(* The conversation.  What keeps it a sequence of whole turns is that the   *)
(* turn which may still write assistant text wrote the entry at its end.    *)
LastIsOwn ==
  \A t \in Turns : pc[t] = "announce" \/ (pc[t] = "run" /\ ~cancelled[t]) =>
    LET log == transcript[sess[t]] IN log # <<>> /\ log[Len(log)][1] = t

Entries == Turns \X {"user", "assistant"}

(* A write changes one session's conversation: one entry more at its end.   *)
LEMMA WriteAppends ==
  ASSUME NEW t \in Turns, NEW role \in {"user", "assistant"}, RedisTypeOK,
         sess[t] \in Sessions, Write(t, role)
  PROVE  LET log == transcript[sess[t]] new == transcript'[sess[t]] IN
           /\ log \in Seq(Entries) /\ new \in Seq(Entries)
           /\ Len(new) = Len(log) + 1 /\ new[Len(new)] = <<t, role>>
           /\ \A i \in DOMAIN log : new[i] = log[i]
           /\ \A s \in Sessions \ {sess[t]} : transcript'[s] = transcript[s]
<1> DEFINE log == transcript[sess[t]]
<1>1. log \in Seq(Entries) /\ <<t, role>> \in Entries
  BY DEF RedisTypeOK, Entries
<1>2. transcript \in [Sessions -> Seq(Entries)]
  BY DEF RedisTypeOK, Entries
<1>3. transcript' = [transcript EXCEPT ![sess[t]] = Append(log, <<t, role>>)]
  BY DEF Write
<1>4. transcript'[sess[t]] = Append(log, <<t, role>>)
  BY <1>2, <1>3
<1>5. \A s \in Sessions \ {sess[t]} : transcript'[s] = transcript[s]
  BY <1>2, <1>3
<1>6. QED
  BY <1>1, <1>4, <1>5, AppendProperties

(* It keeps the conversation serial when it is a user message, or text of   *)
(* the turn that wrote last.                                                *)
LEMMA WriteSerial ==
  ASSUME NEW t \in Turns, NEW role \in {"user", "assistant"}, RedisTypeOK,
         sess[t] \in Sessions, Write(t, role), TranscriptSerial,
         role = "assistant" => LET log == transcript[sess[t]]
                               IN  log # <<>> /\ log[Len(log)][1] = t
  PROVE  TranscriptSerial'
<1> DEFINE log == transcript[sess[t]]
           new == transcript'[sess[t]]
<1>1. /\ log \in Seq(Entries) /\ new \in Seq(Entries)
      /\ Len(new) = Len(log) + 1 /\ new[Len(new)] = <<t, role>>
      /\ \A i \in DOMAIN log : new[i] = log[i]
      /\ \A s \in Sessions \ {sess[t]} : transcript'[s] = transcript[s]
  BY WriteAppends
<1>2. ASSUME NEW i \in DOMAIN new, new[i][2] = "assistant"
      PROVE  i > 1 /\ new[i - 1][1] = new[i][1]
  <2>1. DOMAIN new = 1 .. Len(log) + 1 /\ DOMAIN log = 1 .. Len(log) /\ Len(log) \in Nat
    BY <1>1
  <2>2. CASE i \in DOMAIN log
    <3>1. log[i][2] = "assistant"
      BY <1>1, <1>2, <2>2
    <3>2. i > 1 /\ log[i - 1][1] = log[i][1]
      BY <2>2, <3>1 DEF TranscriptSerial
    <3>3. i - 1 \in DOMAIN log
      BY <2>1, <2>2, <3>2
    <3>4. QED
      BY <1>1, <2>2, <3>2, <3>3
  <2>3. CASE i = Len(log) + 1
    <3>1. role = "assistant"
      BY <1>1, <1>2, <2>3
    <3>2. Len(log) \in DOMAIN log /\ log[Len(log)][1] = t
      BY <1>1, <2>1, <3>1
    <3>3. QED
      BY <1>1, <2>1, <2>3, <3>2
  <2>4. QED
    BY <2>1, <2>2, <2>3
<1>3. \A s \in Sessions \ {sess[t]} : \A i \in DOMAIN transcript'[s] :
        transcript'[s][i][2] = "assistant"
          => i > 1 /\ transcript'[s][i - 1][1] = transcript'[s][i][1]
  BY <1>1 DEF TranscriptSerial
<1>4. QED
  BY <1>2, <1>3 DEF TranscriptSerial

(* A turn that writes is the session's only writer, so afterwards every     *)
(* turn that may still write finds its own entry last.                      *)
LEMMA WriteOwn ==
  ASSUME NEW t \in Turns, NEW role \in {"user", "assistant"}, TypeOK, OneWriter,
         LastIsOwn, Writing(t), pc[t] # "new", Write(t, role),
         NEW u \in Turns, u = t \/ pc[u] = "announce" \/ (pc[u] = "run" /\ ~cancelled[u])
  PROVE  LET log == transcript'[sess[u]] IN log # <<>> /\ log[Len(log)][1] = u
<1>1. RedisTypeOK /\ sess[t] \in Sessions
  BY DEF TypeOK, TurnTypeOK
<1>2. LET log == transcript[sess[t]] new == transcript'[sess[t]] IN
        /\ log \in Seq(Entries) /\ new \in Seq(Entries)
        /\ Len(new) = Len(log) + 1 /\ new[Len(new)] = <<t, role>>
        /\ \A s \in Sessions \ {sess[t]} : transcript'[s] = transcript[s]
  BY <1>1, WriteAppends
<1>3. CASE u = t
  BY <1>2, <1>3
<1>4. CASE u # t
  <2>1. sess[u] \in Sessions
    BY <1>4 DEF TypeOK, TurnTypeOK
  <2>2. sess[u] # sess[t]
    BY <1>4 DEF OneWriter, Writing, Working, Running, Unwinding
  <2>3. transcript'[sess[u]] = transcript[sess[u]]
    BY <1>2, <2>1, <2>2
  <2>4. QED
    BY <1>4, <2>3 DEF LastIsOwn
<1>5. QED
  BY <1>3, <1>4

LEMMA SerialStep ==
  TypeOK /\ OneWriter /\ LastIsOwn /\ TranscriptSerial /\ [Next]_vars
    => LastIsOwn' /\ TranscriptSerial'
<1> USE DEF sessionVars, redisVars, turnVars, Goto, Restart, CancelContext
<1> SUFFICES ASSUME TypeOK, OneWriter, LastIsOwn, TranscriptSerial, [Next]_vars
             PROVE  LastIsOwn' /\ TranscriptSerial'
  OBVIOUS
<1>a. /\ TurnTypeOK /\ RedisTypeOK
      /\ \A t \in Turns : pc[t] # "new" => sess[t] \in Sessions
  BY DEF TypeOK, TurnTypeOK
<1>b. TranscriptSerial' \/ transcript' # transcript
  BY DEF TranscriptSerial
<1>1. ASSUME NEW t \in Turns, AppendUser(t) PROVE LastIsOwn' /\ TranscriptSerial'
  <2>1. /\ pc[t] = "append" /\ UNCHANGED <<sess, cancelled>>
        /\ \/ Write(t, "user")
           \/ UNCHANGED transcript /\ pc' = [pc EXCEPT ![t] = "finish"]
    BY <1>1 DEF AppendUser, Outcomes
  <2>2. /\ pc'[t] \in {"announce", "finish"}
        /\ \A u \in Turns \ {t} : pc'[u] = pc[u]
    BY <1>1, <1>a DEF AppendUser, TurnTypeOK
  <2>3. CASE Write(t, "user")
    <3>1. TranscriptSerial'
      BY <1>a, <2>1, <2>3, WriteSerial
    <3>2. ASSUME NEW u \in Turns,
                 (pc[u] = "announce" \/ (pc[u] = "run" /\ ~cancelled[u]))'
          PROVE  LET log == transcript'[sess[u]] IN log # <<>> /\ log[Len(log)][1] = u
      BY <2>1, <2>2, <2>3, <3>2, WriteOwn DEF Writing
    <3>3. QED
      BY <2>1, <3>1, <3>2 DEF LastIsOwn
  <2>4. CASE UNCHANGED transcript /\ pc' = [pc EXCEPT ![t] = "finish"]
    BY <1>a, <1>b, <2>1, <2>4 DEF LastIsOwn, TurnTypeOK
  <2>5. QED
    BY <2>1, <2>3, <2>4
<1>2. ASSUME NEW t \in Turns, Emit(t) PROVE LastIsOwn' /\ TranscriptSerial'
  <2>1. pc[t] = "run" /\ ~cancelled[t] /\ UNCHANGED <<pc, sess, cancelled>>
    BY <1>2 DEF Emit
  <2>2. CASE Write(t, "assistant")
    <3>1. TranscriptSerial'
      BY <1>a, <2>1, <2>2, WriteSerial DEF LastIsOwn
    <3>2. ASSUME NEW u \in Turns, pc[u] = "announce" \/ (pc[u] = "run" /\ ~cancelled[u])
          PROVE  LET log == transcript'[sess[u]] IN log # <<>> /\ log[Len(log)][1] = u
      BY <2>1, <2>2, <3>2, WriteOwn DEF Writing, Working, Running, Unwinding
    <3>3. QED
      BY <2>1, <3>1, <3>2 DEF LastIsOwn
  <2>3. CASE UNCHANGED transcript
    BY <1>b, <2>1, <2>3 DEF LastIsOwn
  <2>4. QED
    BY <1>2, <2>2, <2>3 DEF Emit
(* No other step writes the conversation, and none makes a turn a writer    *)
(* that was not: announce leads to run, and a cancel is for good.           *)
<1>3. SUFFICES ASSUME \A t \in Turns : ~AppendUser(t) /\ ~Emit(t)
               PROVE  /\ UNCHANGED transcript
                      /\ \A t \in Turns :
                           (pc[t] = "announce" \/ (pc[t] = "run" /\ ~cancelled[t]))'
                             => /\ pc[t] = "announce" \/ (pc[t] = "run" /\ ~cancelled[t])
                                /\ sess'[t] = sess[t]
  BY <1>1, <1>2, <1>b DEF LastIsOwn
<1>4. ASSUME NEW t \in Turns, TurnStep(t) PROVE UNCHANGED transcript
  BY <1>3, <1>4 DEF TurnStep, Resolve, Update, Acquire, Claim, Announce, Return,
                    Report, Settle, Renew, Finish, Release, Cancel
<1>5. ASSUME NEW r \in Replicas, Crash(r) PROVE UNCHANGED <<transcript, cancelled, sess>>
  BY <1>5 DEF Crash
<1>6. CASE Tick \/ UNCHANGED vars
  BY <1>6 DEF Tick, vars
<1>7. ASSUME NEW r \in Replicas, Crash(r), NEW u \in Turns
      PROVE  pc'[u] = pc[u] \/ pc'[u] = "lost"
  BY <1>7, <1>a DEF Crash, TurnTypeOK
<1>8. ASSUME NEW t \in Turns, TurnStep(t), NEW u \in Turns,
             (pc[u] = "announce" \/ (pc[u] = "run" /\ ~cancelled[u]))'
      PROVE  /\ pc[u] = "announce" \/ (pc[u] = "run" /\ ~cancelled[u])
             /\ sess'[u] = sess[u]
  <2>1. /\ cancelled'[u] = cancelled[u] \/ cancelled'[u]
        /\ u = t \/ pc'[u] = pc[u]
    BY <1>8, <1>3, <1>a
      DEF TurnTypeOK, TurnStep, Resolve, Update, Acquire, Claim, Announce, Return,
          Report, Settle, Renew, RenewalLost, Finish, EndContext, Release, Cancel
  <2>2. u # t \/ pc'[u] = pc[u] \/ (pc[u] = "announce" /\ ~Resolve(t))
    BY <1>8, <1>3, <1>a
      DEF TurnTypeOK, TurnStep, Resolve, Update, Acquire, Claim, Announce, Return,
          Report, Settle, Renew, Finish, Release, Cancel, Outcomes
  <2>3. sess'[u] = sess[u] \/ (u = t /\ Resolve(t))
    BY <1>8, <1>3, <1>a
      DEF TurnTypeOK, TurnStep, Resolve, Update, Acquire, Claim, Announce, Return,
          Report, Settle, Renew, Finish, Release, Cancel
  <2>4. ASSUME u = t, Resolve(t) PROVE FALSE
    BY <1>8, <2>4, <1>a DEF Resolve, TurnTypeOK
  <2>5. QED
    BY <1>8, <2>1, <2>2, <2>3, <2>4
<1>9. QED
  BY <1>4, <1>5, <1>6, <1>7, <1>8 DEF Next, Tick, vars

(* Under punctual timers the conversation is a sequence of whole turns.     *)
THEOREM TranscriptsSerial ==
  ASSUME TimersPunctual
  PROVE  Spec => []TranscriptSerial
<1>1. Init => LastIsOwn /\ TranscriptSerial
  <2> SUFFICES ASSUME Init PROVE LastIsOwn /\ TranscriptSerial
    OBVIOUS
  <2>1. \A s \in Sessions : DOMAIN transcript[s] = {}
    BY DEF Init
  <2>2. LastIsOwn
    BY DEF Init, LastIsOwn
  <2>3. QED
    BY <2>1, <2>2 DEF TranscriptSerial
<1>2. QED
  BY <1>1, SerialStep, WriterExclusion, TypeCorrect, PTL DEF Spec
=============================================================================
