---------------------------- MODULE MC_Registrar ----------------------------
(* Registrar for TLC: three lease IDs, so that a Register after a failed  *)
(* KeepAlive and a Register after a Deregister each get a fresh lease.     *)
EXTENDS Registrar

CONSTANTS l1, l2, l3

MCLeases == {l1, l2, l3}
====
