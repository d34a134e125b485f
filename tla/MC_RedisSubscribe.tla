-------------------------- MODULE MC_RedisSubscribe --------------------------
(* Two Subscribe calls on one redisx.DB, two Publish calls, two Close calls. *)
EXTENDS RedisSubscribe

CONSTANTS r1, r2

MCSubs == {r1, r2}

=============================================================================
