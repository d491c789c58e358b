-------------------------- MODULE TurnOrchestrator --------------------------
(***************************************************************************)
(* Prompt admission, execution and clean-up of agent turns on several      *)
(* control-plane replicas that share one Redis                             *)
(* (internal/application/orchestrator.go, adapter/redisstore/turn_leases.go*)
(* and the session and conversation stores those calls write).             *)
(*                                                                         *)
(* One external chat is modelled.  Its internal session id changes when    *)
(* the session is deleted and prompted again, so lease, transcript and     *)
(* status are indexed by the internal id.  A turn is one call of Prompt    *)
(* and the goroutine it starts.                                            *)
(*                                                                         *)
(* Redis executes a command or a script atomically.  A call whose reply is *)
(* lost reports an error although it was applied.  Time is discrete: Tick  *)
(* ages every lease and every turn.  Slack bounds how late a replica is    *)
(* with work it has to do (0 is a perfect timer, LeaseTTL or more is a     *)
(* replica that stalls past its lease); UnwindBound bounds how long        *)
(* Runtime.Run takes to come back once its context is cancelled.           *)
(***************************************************************************)
EXTENDS Integers, Sequences, FiniteSets

CONSTANTS Turns, Replicas, Sessions, NoTurn, NoSession,
          LeaseTTL,     \* orchestrator.turnLeaseTTL
          RenewEvery,   \* the renewal ticker, turnLeaseTTL / 4
          Slack, UnwindBound,
          MaxChunks     \* bound: assistant chunks of one turn

ASSUME TurnsAssumption == NoTurn \notin Turns /\ NoSession \notin Sessions
ASSUME TimeAssumption == /\ LeaseTTL \in Nat \ {0} /\ RenewEvery \in Nat \ {0}
                         /\ Slack \in Nat /\ UnwindBound \in Nat

VARIABLES
  current,     \* session id the external id resolves to, or NoSession
  stored,      \* session ids with a record in the session hash
  retired,     \* session ids used before: random ids are never drawn twice
  lease,       \* Redis: owner of the turn-lease key of a session
  age,         \* Redis: time since that key's TTL was last set
  transcript,  \* Redis: conversation of a session, <<turn, role>> in order
  status,      \* turn that published a session's last status or error event
  table,       \* replica memory: cancels[s] and leases[s]
  pc, home, sess, cancelled, clock    \* one turn

sessionVars == <<current, stored, retired>>
redisVars == <<lease, age, transcript, status>>
turnVars == <<pc, home, sess, cancelled, clock>>
vars == <<current, stored, retired, lease, age, transcript, status, table,
          pc, home, sess, cancelled, clock>>

Setup == {"claim", "append", "announce"}
Unwinding == {"report", "settle", "finish"}   \* after Runtime.Run has returned
Running == {"run", "report", "settle", "finish"}
Ended == {"done", "lost"}
Busy == {"resolved", "updated", "release"} \cup Setup \cup Running

Init ==
  /\ current = NoSession /\ stored = {} /\ retired = {}
  /\ lease = [s \in Sessions |-> NoTurn]
  /\ age = [s \in Sessions |-> 0]
  /\ transcript = [s \in Sessions |-> <<>>]
  /\ status = [s \in Sessions |-> NoTurn]
  /\ table = [r \in Replicas |-> [s \in Sessions |-> NoTurn]]
  /\ pc = [t \in Turns |-> "new"]
  /\ home \in [Turns -> Replicas]
  /\ sess = [t \in Turns |-> NoSession]
  /\ cancelled = [t \in Turns |-> FALSE]
  /\ clock = [t \in Turns |-> 0]

Goto(t, label) == pc' = [pc EXCEPT ![t] = label]
Restart(t) == clock' = [clock EXCEPT ![t] = 0]

\* The turn's context is cancelled, or never made; a run has UnwindBound from
\* here on.
CancelContext(t) ==
  /\ cancelled' = [cancelled EXCEPT ![t] = TRUE]
  /\ IF pc[t] \in Running THEN Restart(t) ELSE UNCHANGED clock

-----------------------------------------------------------------------------
(* Prompt *)

\* sessions.Resolve: the mapped session, or a new record under a fresh id.
Resolve(t) ==
  /\ pc[t] = "new"
  /\ \E s \in Sessions :
       /\ IF current = NoSession
            THEN /\ s \notin stored \cup retired
                 /\ current' = s /\ stored' = stored \cup {s}
            ELSE s = current /\ UNCHANGED <<current, stored>>
       /\ sess' = [sess EXCEPT ![t] = s]
  /\ Goto(t, "resolved")
  /\ UNCHANGED <<retired, redisVars, table, home, cancelled, clock>>

\* sessions.Update with the turn's model, made only by a prompt that names one:
\* refused once the record is gone, and it may fail.
Update(t) ==
  /\ pc[t] = "resolved"
  /\ \/ Goto(t, "updated") /\ UNCHANGED <<cancelled, clock>>
     \/ Goto(t, "done") /\ CancelContext(t)
  /\ UNCHANGED <<sessionVars, redisVars, table, home, sess>>

\* SET NX PX.  Without the reply Prompt returns an error and the key stays.
FreeAlways(s) == TRUE   \* mutant: SET without NX
Free(s) == lease[s] = NoTurn

Acquire(t) ==
  /\ pc[t] = "updated"
  /\ \/ /\ Free(sess[t])
        /\ lease' = [lease EXCEPT ![sess[t]] = t]
        /\ age' = [age EXCEPT ![sess[t]] = 0]
        /\ \/ Goto(t, "claim") /\ Restart(t) /\ UNCHANGED cancelled
           \/ Goto(t, "done") /\ CancelContext(t)
     \/ Goto(t, "done") /\ CancelContext(t) /\ UNCHANGED <<lease, age>>
  /\ UNCHANGED <<sessionVars, transcript, status, table, home, sess>>

\* The section under o.mu: a turn still in this replica's table wins.
IdleAlways(r, s) == TRUE   \* mutant: the table entry is overwritten
Idle(r, s) == table[r][s] = NoTurn

Claim(t) ==
  /\ pc[t] = "claim"
  /\ \/ /\ Idle(home[t], sess[t])
        /\ table' = [table EXCEPT ![home[t]][sess[t]] = t]
        /\ Goto(t, "append") /\ UNCHANGED <<cancelled, clock>>
     \/ /\ ~Idle(home[t], sess[t])
        /\ Goto(t, "release") /\ CancelContext(t) /\ UNCHANGED table
  /\ UNCHANGED <<sessionVars, redisVars, home, sess>>

\* A Redis write as its caller sees it: done, refused, or done without reply.
Outcomes == {o \in [applied : BOOLEAN, ok : BOOLEAN] : o.ok => o.applied}

Write(t, role) ==
  transcript' = [transcript EXCEPT ![sess[t]] = Append(@, <<t, role>>)]

AppendUser(t) ==
  /\ pc[t] = "append"
  /\ \E o \in Outcomes :
       /\ IF o.applied THEN Write(t, "user") ELSE UNCHANGED transcript
       /\ Goto(t, IF o.ok THEN "announce" ELSE "finish")
  /\ UNCHANGED <<sessionVars, lease, age, status, table, home, sess, cancelled, clock>>

\* A session.status or session.error event.  Its text is the runtime's or the
\* orchestrator's and published as it is; whose it is is what a reader of the
\* stream has to be able to rely on.
PublishStatus(t, applied) ==
  status' = IF applied THEN [status EXCEPT ![sess[t]] = t] ELSE status

\* Publishes running, then starts run and its renewal ticker.
Announce(t) ==
  /\ pc[t] = "announce"
  /\ \E o \in Outcomes :
       /\ PublishStatus(t, o.applied)
       /\ Goto(t, IF o.ok THEN "run" ELSE "finish")
  /\ Restart(t)
  /\ UNCHANGED <<sessionVars, lease, age, transcript, table, home, sess, cancelled>>

-----------------------------------------------------------------------------
(* run, renewTurnLease, finish *)

Chunks(t) == {i \in DOMAIN transcript[sess[t]] :
                transcript[sess[t]][i] = <<t, "assistant">>}

\* handleRuntimeEvent, under the run's context: assistant text is appended to
\* the conversation; a status or an error of the runtime is published, and the
\* run goes on after either.
Emit(t) ==
  /\ pc[t] = "run" /\ ~cancelled[t]
  /\ \/ Cardinality(Chunks(t)) < MaxChunks /\ Write(t, "assistant") /\ UNCHANGED status
     \/ PublishStatus(t, TRUE) /\ UNCHANGED transcript
  /\ UNCHANGED <<sessionVars, lease, age, table, turnVars>>

\* Runtime.Run returns: finished, failed, or unwound after a cancel.
Return(t) ==
  /\ pc[t] = "run"
  /\ Goto(t, "settle") \/ Goto(t, "report")
  /\ IF cancelled[t] THEN Restart(t) ELSE UNCHANGED clock
  /\ UNCHANGED <<sessionVars, redisVars, table, home, sess, cancelled>>

\* A run that failed publishes its error first; whether that works is ignored.
Report(t) ==
  /\ pc[t] = "report"
  /\ \E applied \in BOOLEAN : PublishStatus(t, applied)
  /\ Goto(t, "settle")
  /\ UNCHANGED <<sessionVars, lease, age, transcript, table, home, sess, cancelled, clock>>

\* The status idle is published with a context of its own; errors are ignored.
Settle(t) ==
  /\ pc[t] = "settle"
  /\ \E applied \in BOOLEAN : PublishStatus(t, applied)
  /\ Goto(t, "finish")
  /\ UNCHANGED <<sessionVars, lease, age, transcript, table, home, sess, cancelled, clock>>

\* The renewal goroutine lives until the turn's context is cancelled.
Renewing(t) == pc[t] \in Running \cup {"release", "done"} /\ ~cancelled[t]

\* mutant: a failed renewal only waits for the next tick
RenewalRetried(t) == Restart(t) /\ UNCHANGED cancelled
RenewalLost(t) == CancelContext(t)

\* One tick of the renewal goroutine.  Anything but a confirmed renewal
\* cancels the run, also when the script was applied and the reply lost.
Renew(t) ==
  /\ Renewing(t) /\ clock[t] >= RenewEvery
  /\ \/ /\ lease[sess[t]] = t
        /\ age' = [age EXCEPT ![sess[t]] = 0]
        /\ \/ Restart(t) /\ UNCHANGED cancelled
           \/ RenewalLost(t)
     \/ RenewalLost(t) /\ UNCHANGED age
  /\ UNCHANGED <<sessionVars, lease, transcript, status, table, pc, home, sess>>

\* finish under o.mu: only the owner's entry is removed.
ListedNever(t) == FALSE   \* mutant: the entry is kept
Listed(t) == table[home[t]][sess[t]] = t
EndContextNever(t) == UNCHANGED <<cancelled, clock>>   \* mutant
EndContext(t) == CancelContext(t)

Finish(t) ==
  /\ pc[t] = "finish"
  /\ IF Listed(t) THEN table' = [table EXCEPT ![home[t]][sess[t]] = NoTurn]
                  ELSE UNCHANGED table
  /\ EndContext(t)
  /\ Goto(t, "release")
  /\ UNCHANGED <<sessionVars, redisVars, home, sess>>

\* releaseTurnLease: compare the owner and DEL; a failed call is ignored.
OwnsAny(t) == TRUE   \* mutant: DEL without comparing the owner
Owns(t) == lease[sess[t]] = t

Release(t) ==
  /\ pc[t] = "release"
  /\ \/ /\ Owns(t)
        /\ lease' = [lease EXCEPT ![sess[t]] = NoTurn]
        /\ age' = [age EXCEPT ![sess[t]] = 0]
     \/ UNCHANGED <<lease, age>>
  /\ Goto(t, "done")
  /\ UNCHANGED <<sessionVars, transcript, status, table, home, sess, cancelled, clock>>

InTable(t) == \E r \in Replicas, s \in Sessions : table[r][s] = t

\* Orchestrator.Cancel on the replica that runs the turn.
Cancel(t) ==
  /\ InTable(t)
  /\ ~cancelled[t]
  /\ CancelContext(t)
  /\ UNCHANGED <<sessionVars, redisVars, table, pc, home, sess>>

-----------------------------------------------------------------------------
(* The environment *)

\* A replica dies with its memory; its leases are left to expire.
Crash(r) ==
  /\ \E t \in Turns : home[t] = r /\ pc[t] \in Busy
  /\ pc' = [t \in Turns |-> IF home[t] = r /\ pc[t] \in Busy THEN "lost" ELSE pc[t]]
  /\ table' = [table EXCEPT ![r] = [s \in Sessions |-> NoTurn]]
  /\ UNCHANGED <<sessionVars, redisVars, home, sess, cancelled, clock>>

\* How long a turn may go without the step it owes.
Deadline(t) == CASE pc[t] \in Setup -> Slack
                 [] pc[t] = "run" /\ cancelled[t] -> UnwindBound
                 [] pc[t] \in Unwinding /\ cancelled[t] -> Slack
                 [] OTHER -> RenewEvery + Slack

Timed == {t \in Turns : pc[t] \in Setup \cup Running \/ Renewing(t)}

ExpiredLate(s) == age[s] >= LeaseTTL   \* mutant: off by one
Expired(s) == age[s] + 1 >= LeaseTTL

Tick ==
  /\ \/ Timed # {}
     \/ \E s \in Sessions : lease[s] # NoTurn
  /\ \A t \in Timed : clock[t] < Deadline(t)
  /\ clock' = [t \in Turns |-> IF t \in Timed THEN clock[t] + 1 ELSE clock[t]]
  /\ age' = [s \in Sessions |-> IF Free(s) \/ Expired(s) THEN 0 ELSE age[s] + 1]
  /\ lease' = [s \in Sessions |-> IF Expired(s) THEN NoTurn ELSE lease[s]]
  /\ UNCHANGED <<sessionVars, transcript, status, table, pc, home, sess, cancelled>>

TurnStep(t) ==
  \/ Resolve(t) \/ Update(t) \/ Acquire(t) \/ Claim(t) \/ AppendUser(t)
  \/ Announce(t) \/ Emit(t) \/ Return(t) \/ Report(t) \/ Settle(t)
  \/ Renew(t) \/ Finish(t) \/ Release(t) \/ Cancel(t)

Done == /\ \A t \in Turns : pc[t] \in Ended
        /\ \A s \in Sessions : lease[s] = NoTurn

Next == \/ \E t \in Turns : TurnStep(t)
        \/ \E r \in Replicas : Crash(r)
        \/ Tick
        \/ Done /\ UNCHANGED vars

Spec == Init /\ [][Next]_vars

(* A handler that has started takes its next step, and time passes.  Run    *)
(* has no deadline of its own: a runtime owes its return only once the      *)
(* context of the run is cancelled.                                         *)
Fairness == /\ \A t \in Turns :
                 /\ WF_vars(Update(t)) /\ WF_vars(Acquire(t)) /\ WF_vars(Claim(t))
                 /\ WF_vars(AppendUser(t)) /\ WF_vars(Announce(t))
                 /\ WF_vars(cancelled[t] /\ Return(t))
                 /\ WF_vars(Report(t)) /\ WF_vars(Settle(t)) /\ WF_vars(Renew(t))
                 /\ WF_vars(Finish(t)) /\ WF_vars(Release(t))
            /\ WF_vars(Tick)

FairSpec == Spec /\ Fairness

-----------------------------------------------------------------------------
(* Properties *)

SessionTypeOK ==
  /\ current \in Sessions \cup {NoSession}
  /\ stored \subseteq Sessions /\ retired \subseteq Sessions

RedisTypeOK ==
  /\ lease \in [Sessions -> Turns \cup {NoTurn}]
  /\ age \in [Sessions -> 0 .. LeaseTTL - 1]
  /\ transcript \in [Sessions -> Seq(Turns \X {"user", "assistant"})]
  /\ status \in [Sessions -> Turns \cup {NoTurn}]

TurnTypeOK ==
  /\ pc \in [Turns -> {"new"} \cup Busy \cup Ended]
  /\ home \in [Turns -> Replicas]
  /\ sess \in [Turns -> Sessions \cup {NoSession}]
  /\ cancelled \in [Turns -> BOOLEAN]
  /\ clock \in [Turns -> Nat]
  /\ \A t \in Turns : pc[t] = "new" \/ sess[t] \in Sessions

\* Types of all state; a key is never kept past its TTL, and a turn that left
\* "new" has a session.
TypeOK ==
  /\ SessionTypeOK /\ RedisTypeOK /\ TurnTypeOK
  /\ table \in [Replicas -> [Sessions -> Turns \cup {NoTurn}]]

\* A turn that may still write to its session: during set-up under the
\* request's context, afterwards until its own context is cancelled.
Working(t) == pc[t] \in Running /\ ~cancelled[t]
Writing(t) == pc[t] \in {"append", "announce"} \/ Working(t)

Claimed == {"append", "announce"} \cup Running

\* On one replica a session never has two turns between the table entry and
\* finish, whatever happens to the lease: a run that unwinds after its lease
\* expired still keeps its replica's next prompt out.
OneTurnPerReplica ==
  \A t, u \in Turns :
    /\ pc[t] \in Claimed /\ pc[u] \in Claimed
    /\ home[t] = home[u] /\ sess[t] = sess[u]
    => t = u

\* A run in progress is the one its replica's table names, so a cancel that
\* arrives there reaches it.
TableHolds ==
  \A t \in Turns : pc[t] \in Claimed => table[home[t]][sess[t]] = t

\* The condition under which the lease does its work: from one confirmed
\* renewal to the next fits in the TTL, with the delays of set-up.
TimersPunctual == RenewEvery + 2 * Slack < LeaseTTL

\* The same for a cancelled run, which renews no more while it unwinds.
UnwindPunctual == RenewEvery + 3 * Slack + UnwindBound < LeaseTTL

\* A turn that sets up, or runs uncancelled, still owns its lease, and how old
\* the lease is follows from how long the turn has not renewed it.
LeaseHeld ==
  \A t \in Turns :
    /\ pc[t] \in Setup => /\ lease[sess[t]] = t /\ age[sess[t]] <= clock[t]
                          /\ clock[t] <= Slack
    /\ Working(t) => /\ lease[sess[t]] = t /\ age[sess[t]] <= clock[t] + Slack
                     /\ clock[t] <= RenewEvery + Slack

\* A cancelled turn owns its lease until it is done with the session.
LeaseOutlivesUnwinding ==
  \A t \in Turns : cancelled[t] =>
    /\ pc[t] = "run" =>
         /\ lease[sess[t]] = t /\ age[sess[t]] <= clock[t] + RenewEvery + 2 * Slack
         /\ clock[t] <= UnwindBound
    /\ pc[t] \in Unwinding =>
         /\ lease[sess[t]] = t
         /\ age[sess[t]] <= clock[t] + RenewEvery + 2 * Slack + UnwindBound
         /\ clock[t] <= Slack

\* The lease keeps two turns of one session from writing at the same time on
\* any replicas, as long as timers are punctual: no turn works on while
\* another replica has taken its expired lease.
OneWriter ==
  \A t, u \in Turns : Writing(t) /\ Writing(u) /\ sess[t] = sess[u] => t = u

\* A lease is taken from its owner by nobody: it goes with the owner's own
\* release or when its time is over, however late any replica acts.
OnlyOwnerReleases ==
  [][\A t \in Turns, s \in Sessions :
       lease[s] = t /\ lease'[s] # t =>
         \/ pc[t] = "release" /\ pc'[t] = "done"
         \/ lease'[s] = NoTurn /\ age[s] = LeaseTTL - 1]_vars

\* The conversation is a sequence of whole turns: the entries of one turn are
\* never interleaved with those of another, and begin with its user message.
TranscriptSerial ==
  \A s \in Sessions : LET log == transcript[s] IN
    \A i \in DOMAIN log :
      log[i][2] = "assistant" => i > 1 /\ log[i - 1][1] = log[i][1]

\* From its first event to its last, also while it is cancelled and unwinds, a
\* run finds only events of its own on top of its session's status: no idle or
\* error of an older turn, or of a newer one, lands on them.
RunningTurnShown ==
  \A t \in Turns : pc[t] \in {"run", "report", "settle"} => status[sess[t]] = t

\* The run is the runtime's: neither finished nor told to stop.
InRuntime(t) == pc[t] = "run" /\ ~cancelled[t]

\* A turn keeps a session locked only as long as its runtime works on it: its
\* lease is given up or expires, also the one whose owner crashed, failed or
\* never learned that it got it.
LeaseFreed ==
  \A t \in Turns :
    (\E s \in Sessions : lease[s] = t)
      ~> InRuntime(t) \/ \A s \in Sessions : lease[s] # t

\* A turn leaves its replica's table, so the next prompt is admitted again,
\* unless its runtime works on.
TableFreed == \A t \in Turns : InTable(t) ~> InRuntime(t) \/ ~InTable(t)
=============================================================================
