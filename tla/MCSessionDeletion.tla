------------------------- MODULE MCSessionDeletion -------------------------
(* Small instances of SessionDeletion for TLC. *)
EXTENDS SessionDeletion, TLC

CONSTANTS FirstTurn, FirstReplica

Symmetric == Permutations(Turns) \cup Permutations(Replicas)
               \cup Permutations(Deleters) \cup Permutations(Sessions)

\* Symmetry sets are not sound with liveness.  Replicas are alike and so are
\* turns, so the deleters may be put on one replica, and of two turns on
\* different replicas the first one with them.
MCInit ==
  /\ DInit
  /\ dhome = [d \in Deleters |-> FirstReplica]
  /\ home[FirstTurn] = FirstReplica \/ \A t \in Turns : home[t] # FirstReplica

MCFairSpec == MCInit /\ [][DNext]_allVars /\ Fairness
=============================================================================
