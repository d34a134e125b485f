------------------------- MODULE MC_ConsumerGroup -------------------------
(* Two Consume calls, so the second takes the copyClient path. *)
EXTENDS ConsumerGroup

CONSTANTS c1, c2

MCCalls == {c1, c2}
=============================================================================
