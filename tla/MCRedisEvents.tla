--------------------------- MODULE MCRedisEvents ---------------------------
(* Small instances of RedisEvents for TLC. *)
EXTENDS RedisEvents, TLC

Symmetric == Permutations(Clients)
Streams == {"cut", "crash", "cleanup"}
AllButLoss == Streams \cup {"setup", "orphan", "heartbeat"}
Restarts == Streams \cup {"setup", "heartbeat", "delete"}
=============================================================================
