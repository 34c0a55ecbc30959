----------------------------- MODULE MCRedisLock -----------------------------
(* RedisLock with interchangeable sessions. *)
EXTENDS RedisLock, TLC

SessionSymmetry == Permutations(Sessions)
=============================================================================
