------------------------- MODULE AsyncProducerSpec -------------------------
(***************************************************************************)
(* What kafkax.AsyncProducer promises its callers, without sarama's        *)
(* pipeline or the goroutines that drain Errors(): a send call hands its   *)
(* values over one at a time while the input is open and panics once it is *)
(* closed; every message handed over is eventually settled (acknowledged,  *)
(* or its error taken off Errors()); Close closes the input and returns    *)
(* only when no message is unsettled.  KafkaProducer implements it under   *)
(* the mapping in KafkaProducer!Abs.                                       *)
(***************************************************************************)
EXTENDS Naturals

CONSTANTS Senders, MaxBatch

VARIABLES
    sender,    \* as in KafkaProducer: [pc, left] of each send call
    inflight,  \* messages handed over and not yet settled
    shut,      \* "open", "draining", "closed"
    closer,    \* "idle", "closing", "closed"
    crash      \* "none", or the panic that ended the process

avars == <<sender, inflight, shut, closer, crash>>

Init ==
    /\ sender = [s \in Senders |-> [pc |-> "idle", left |-> 0]]
    /\ inflight = 0
    /\ shut = "open"
    /\ closer = "idle"
    /\ crash = "none"

Send(s) ==
    /\ sender[s].pc = "idle"
    /\ \E n \in 1..MaxBatch : sender' = [sender EXCEPT ![s] = [pc |-> "send", left |-> n]]
    /\ UNCHANGED <<inflight, shut, closer, crash>>

HandOver(s) ==
    /\ sender[s].pc = "send" /\ shut # "closed"
    /\ inflight' = inflight + 1
    /\ sender' = [sender EXCEPT ![s] =
                    IF @.left = 1 THEN [pc |-> "done", left |-> 0]
                                  ELSE [@ EXCEPT !.left = @ - 1]]
    /\ UNCHANGED <<shut, closer, crash>>

Panic(s) ==
    /\ sender[s].pc = "send" /\ shut = "closed"
    /\ crash' = "send on closed channel"
    /\ UNCHANGED <<sender, inflight, shut, closer>>

Settle ==
    /\ inflight > 0
    /\ inflight' = inflight - 1
    /\ UNCHANGED <<sender, shut, closer, crash>>

BeginClose ==
    /\ closer = "idle"
    /\ closer' = "closing"
    /\ shut' = IF shut = "open" THEN "draining" ELSE shut
    /\ UNCHANGED <<sender, inflight, crash>>

InputCloses ==
    /\ shut = "draining"
    /\ shut' = "closed"
    /\ UNCHANGED <<sender, inflight, closer, crash>>

CloseReturns ==
    /\ closer = "closing" /\ shut = "closed" /\ inflight = 0
    /\ closer' = "closed"
    /\ UNCHANGED <<sender, inflight, shut, crash>>

Next ==
    /\ crash = "none"
    /\ \/ \E s \in Senders : Send(s) \/ HandOver(s) \/ Panic(s)
       \/ Settle \/ BeginClose \/ InputCloses \/ CloseReturns

\* Messages are settled, the input closes after Close, Close then returns,
\* and a send blocked on a closed input panics; callers owe nothing.
Spec ==
    /\ Init /\ [][Next]_avars
    /\ WF_avars(Settle) /\ WF_avars(InputCloses) /\ WF_avars(CloseReturns)
    /\ \A s \in Senders : WF_avars(Panic(s))

=============================================================================
