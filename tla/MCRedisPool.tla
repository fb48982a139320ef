---------------------------- MODULE MCRedisPool ----------------------------
(***************************************************************************)
(* RedisPool for TLC: the pool as database/redis.go makes it (with a limit *)
(* on idle connections that one connection exceeds, and the 0 that a       *)
(* malformed REDIS_MAX_CONNECTION gives), and pools with every feature.    *)
(***************************************************************************)
EXTENDS RedisPool

Pool(maxIdle, maxActive, wait, test, timeout) ==
  [MaxIdle |-> maxIdle, MaxActive |-> maxActive,
   Wait |-> wait, Test |-> test, Timeout |-> timeout]

MCConfig == {
  Pool(1, 0, FALSE, FALSE, FALSE),
  Pool(0, 0, FALSE, FALSE, FALSE),
  Pool(1, 1, FALSE, FALSE, FALSE),
  Pool(1, 2, TRUE, TRUE, TRUE) }
=============================================================================
