--------------------------- MODULE MCRedisSession ---------------------------
(* A few requests of a few sessions. *)
EXTENDS RedisSession
=============================================================================
