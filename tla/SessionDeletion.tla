-------------------------- MODULE SessionDeletion --------------------------
(***************************************************************************)
(* Platform.DeleteSession (internal/application/platform.go) running       *)
(* beside the turns of TurnOrchestrator.  The call checks that the session *)
(* is idle and then removes its event stream, its conversation, its        *)
(* pending interactions and last its record, each in a call of its own, so *)
(* turns and other deletions take steps in between.                        *)
(***************************************************************************)
EXTENDS TurnOrchestrator

CONSTANT Deleters   \* concurrent DeleteSession calls

VARIABLES dpc, dhome, dsess   \* one DeleteSession call

deleteVars == <<dpc, dhome, dsess>>
allVars == <<vars, deleteVars>>

Deleting == {"local", "lease", "events", "conversation", "interactions",
             "read", "erase"}

DInit == /\ Init
         /\ dpc = [d \in Deleters |-> "start"]
         /\ dhome \in [Deleters -> Replicas]
         /\ dsess = [d \in Deleters |-> NoSession]

DGoto(d, label) == dpc' = [dpc EXCEPT ![d] = label]

\* GetSession: the caller names a session that has a record.
DeleteGet(d) ==
  /\ dpc[d] = "start"
  /\ \E s \in stored : dsess' = [dsess EXCEPT ![d] = s]
  /\ DGoto(d, "local")
  /\ UNCHANGED <<vars, dhome>>

\* Orchestrator.Active: this replica's table, then the lease in Redis.
ActiveHere(d) == table[dhome[d]][dsess[d]] # NoTurn

DeleteCheckLocal(d) ==
  /\ dpc[d] = "local"
  /\ DGoto(d, IF ActiveHere(d) THEN "refused" ELSE "lease")
  /\ UNCHANGED <<vars, dhome, dsess>>

LeaseIgnored(d) == FALSE   \* mutant: only the local table is consulted
ActiveAnywhere(d) == lease[dsess[d]] # NoTurn

DeleteCheckLease(d) ==
  /\ dpc[d] = "lease"
  /\ DGoto(d, IF ActiveAnywhere(d) THEN "refused" ELSE "events")
  /\ UNCHANGED <<vars, dhome, dsess>>

DeleteEvents(d) ==
  /\ dpc[d] = "events"
  /\ status' = [status EXCEPT ![dsess[d]] = NoTurn]
  /\ DGoto(d, "conversation")
  /\ UNCHANGED <<sessionVars, lease, age, transcript, table, turnVars, dhome, dsess>>

DeleteConversation(d) ==
  /\ dpc[d] = "conversation"
  /\ transcript' = [transcript EXCEPT ![dsess[d]] = <<>>]
  /\ DGoto(d, "interactions")
  /\ UNCHANGED <<sessionVars, lease, age, status, table, turnVars, dhome, dsess>>

\* The pending permissions and questions are not part of this module's state.
DeleteInteractions(d) ==
  /\ dpc[d] = "interactions"
  /\ DGoto(d, "read")
  /\ UNCHANGED <<vars, dhome, dsess>>

\* sessions.Delete reads the record for its keys and runs the script, which
\* looks the record up again before it removes it and the external mapping.
DeleteRead(d) ==
  /\ dpc[d] = "read"
  /\ DGoto(d, IF dsess[d] \in stored THEN "erase" ELSE "failed")
  /\ UNCHANGED <<vars, dhome, dsess>>

Erasable(d) == dsess[d] \in stored

UnmapForgotten == UNCHANGED current   \* mutant: the external key is kept
Unmap == current' = NoSession

DeleteErase(d) ==
  /\ dpc[d] = "erase"
  /\ \/ /\ Erasable(d)
        /\ stored' = stored \ {dsess[d]}
        /\ Unmap
        /\ retired' = retired \cup {dsess[d]}
        /\ DGoto(d, "deleted")
     \/ ~Erasable(d) /\ DGoto(d, "failed") /\ UNCHANGED sessionVars
  /\ UNCHANGED <<redisVars, table, turnVars, dhome, dsess>>

\* A step fails (subscribers on the stream, a Redis error, a lost reply), the
\* request is cancelled, or its replica dies: what was removed stays removed.
DeleteAbandon(d) ==
  /\ dpc[d] \in Deleting
  /\ DGoto(d, "failed")
  /\ UNCHANGED <<vars, dhome, dsess>>

DeleteStep(d) ==
  \/ DeleteGet(d) \/ DeleteCheckLocal(d) \/ DeleteCheckLease(d)
  \/ DeleteEvents(d) \/ DeleteConversation(d) \/ DeleteInteractions(d)
  \/ DeleteRead(d) \/ DeleteErase(d) \/ DeleteAbandon(d)

DNext == \/ Next /\ UNCHANGED deleteVars
         \/ \E d \in Deleters : DeleteStep(d)

DSpec == DInit /\ [][DNext]_allVars

\* A deletion owes no step: it may be abandoned at any point.
DFairSpec == DSpec /\ Fairness

-----------------------------------------------------------------------------
(* Properties *)

DTypeOK ==
  /\ TypeOK
  /\ dpc \in [Deleters -> {"start", "refused", "failed", "deleted"} \cup Deleting]
  /\ dhome \in [Deleters -> Replicas]
  /\ dsess \in [Deleters -> Sessions \cup {NoSession}]

\* The external id and the record stay a pair: a mapping never dangles (the
\* session could not be prompted again) and a record never loses its mapping,
\* also when two deletions overlap a prompt that recreates the session.
MappingIntact ==
  stored = IF current = NoSession THEN {} ELSE {current}

\* When the check lets a deletion through, no turn on any replica may write to
\* the session: the lease speaks for the replicas whose table is not visible.
ActiveCheckSound ==
  [][\A d \in Deleters, t \in Turns :
       dpc[d] = "lease" /\ dpc'[d] = "events" =>
         ~(Writing(t) /\ sess[t] = dsess[d])]_allVars

\* Deleting removes an idle session and its history: once nothing runs any
\* more, nothing is left of a session that has no record.
DeletedLeavesNothing ==
  (\A t \in Turns : pc[t] \in Ended) =>
    \A s \in retired : transcript[s] = <<>> /\ status[s] = NoTurn
=============================================================================
