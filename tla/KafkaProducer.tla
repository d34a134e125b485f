--------------------------- MODULE KafkaProducer ---------------------------
(***************************************************************************)
(* kafkax.AsyncProducer (src/datax/kafkax/asyncProducer.go, types.go):     *)
(* the producer NewAsyncProducer builds, with the goroutine that logs      *)
(* Client.Errors(), SendMessageByte / SendMessagesByte feeding             *)
(* Client.Input(), the forwarding goroutines Errors() and Successes()      *)
(* start, and Close.                                                       *)
(*                                                                         *)
(* sarama's producer is abstracted to what these goroutines synchronise    *)
(* on: Input() is unbuffered and is read only while the pipeline has room  *)
(* (PipeCap in-flight messages); a failed message leaves the pipeline only *)
(* when Errors() has room (ErrBuf, Producer.Return.Errors = true at line   *)
(* 65); Return.Successes stays false, so Successes() never yields.         *)
(* Shutdown (AsyncClose, Close) waits for the in-flight messages, then     *)
(* closes Input(), Errors() and Successes().  Payloads are left out.       *)
(***************************************************************************)
EXTENDS Naturals

CONSTANTS
    Senders,        \* goroutines calling SendMessageByte / SendMessagesByte
    MaxBatch,       \* bound on the values of one SendMessagesByte call
    MaxForwarders,  \* bound on the calls of Errors()
    PipeCap,        \* messages sarama holds between Input() and the broker
    ErrBuf          \* capacity of sarama's Errors() channel

VARIABLES
    sender,    \* sender[s]: [pc |-> "idle" | "send" | "done", left |-> values not yet on Input()]
    pipeOk,    \* in-flight messages the broker will accept
    pipeErr,   \* in-flight messages that will fail after the retries
    errq,      \* errors in sarama's Errors() channel
    shut,      \* "open", "draining" (shutdown begun) or "closed" (channels closed)
    logger,    \* the goroutine of lines 73-77: "run" or "done"
    fwd,       \* fwd[i]: goroutine of the i-th Errors() call: "none", "recv", "hold", "done"
    succFwd,   \* goroutine of Successes(): "none", "recv" or "done"
    delivered, \* errors the user received from p.errors
    logged,    \* errors the logger goroutine logged
    closer,    \* Close: "idle", "closing" or "closed"
    crash      \* "none", or the panic that ended the process

vars == <<sender, pipeOk, pipeErr, errq, shut, logger, fwd, succFwd, delivered,
          logged, closer, crash>>

Forwarders == 1..MaxForwarders

ErrorsClosed == shut = "closed" /\ errq = 0

StartLogger == "run"

(***************************************************************************)
(* NewAsyncProducer (types.go 227-238) after newAsyncProducer succeeded    *)
(* (asyncProducer.go 21-80): the producer is open, the logger runs.        *)
(***************************************************************************)
Init ==
    /\ sender = [s \in Senders |-> [pc |-> "idle", left |-> 0]]
    /\ pipeOk = 0 /\ pipeErr = 0 /\ errq = 0
    /\ shut = "open"
    /\ logger = StartLogger
    /\ fwd = [i \in Forwarders |-> "none"]
    /\ succFwd = "none"
    /\ delivered = 0 /\ logged = 0
    /\ closer = "idle"
    /\ crash = "none"

(***************************************************************************)
(* SendMessageByte (lines 109-119) is SendMessagesByte with one value;     *)
(* SendMessage and SendMessages (99-107, 121-135) marshal first.  The call *)
(* then sends each value on Client.Input() in turn.                        *)
(***************************************************************************)
SendCall(s) ==
    /\ sender[s].pc = "idle"
    /\ \E n \in 1..MaxBatch : sender' = [sender EXCEPT ![s] = [pc |-> "send", left |-> n]]
    /\ UNCHANGED <<pipeOk, pipeErr, errq, shut, logger, fwd, succFwd, delivered,
                   logged, closer, crash>>

\* p.Client.Input() <- m (line 147) on a closed Input(): the send panics.
SendOnClosed(s) ==
    /\ sender[s].pc = "send"
    /\ shut = "closed"
    /\ crash' = "send on closed channel"
    /\ UNCHANGED <<sender, pipeOk, pipeErr, errq, shut, logger, fwd, succFwd,
                   delivered, logged, closer>>

\* sarama's input loop takes the message (once shutdown has begun it fails
\* it with ErrShuttingDown); the call goes on with the next value, or
\* returns the message list after the last (lines 148-151).
Accept(s) ==
    /\ sender[s].pc = "send"
    /\ shut # "closed"
    /\ pipeOk + pipeErr < PipeCap
    /\ \/ shut = "open" /\ pipeOk' = pipeOk + 1 /\ UNCHANGED pipeErr
       \/ pipeErr' = pipeErr + 1 /\ UNCHANGED pipeOk
    /\ sender' = [sender EXCEPT ![s] =
                    IF @.left = 1 THEN [pc |-> "done", left |-> 0]
                                  ELSE [@ EXCEPT !.left = @ - 1]]
    /\ UNCHANGED <<errq, shut, logger, fwd, succFwd, delivered, logged, closer, crash>>

\* The broker acknowledges a message; with Return.Successes false it is dropped.
Delivered ==
    /\ pipeOk > 0
    /\ pipeOk' = pipeOk - 1
    /\ UNCHANGED <<sender, pipeErr, errq, shut, logger, fwd, succFwd, delivered,
                   logged, closer, crash>>

\* A message fails after the retries; sarama blocks until Errors() has room.
Failed ==
    /\ pipeErr > 0
    /\ errq < ErrBuf
    /\ pipeErr' = pipeErr - 1
    /\ errq' = errq + 1
    /\ UNCHANGED <<sender, pipeOk, shut, logger, fwd, succFwd, delivered, logged,
                   closer, crash>>

\* Shutdown ends when nothing is in flight: Input(), Errors(), Successes() close.
ShutdownDone ==
    /\ shut = "draining"
    /\ pipeOk + pipeErr = 0
    /\ shut' = "closed"
    /\ UNCHANGED <<sender, pipeOk, pipeErr, errq, logger, fwd, succFwd, delivered,
                   logged, closer, crash>>

Sarama == (\E s \in Senders : Accept(s)) \/ Delivered \/ Failed \/ ShutdownDone

(***************************************************************************)
(* The logging goroutine (lines 73-77): for err := range producer.Errors() *)
(***************************************************************************)
LoggerTakes ==
    /\ logger = "run" /\ errq > 0
    /\ errq' = errq - 1
    /\ logged' = logged + 1
    /\ UNCHANGED <<sender, pipeOk, pipeErr, shut, logger, fwd, succFwd, delivered,
                   closer, crash>>

LoggerEnds ==
    /\ logger = "run" /\ ErrorsClosed
    /\ logger' = "done"
    /\ UNCHANGED <<sender, pipeOk, pipeErr, errq, shut, fwd, succFwd, delivered,
                   logged, closer, crash>>

(***************************************************************************)
(* Errors() (lines 176-188): every call starts one more goroutine ranging  *)
(* over Client.Errors() and sending each error on the unbuffered p.errors. *)
(***************************************************************************)
ErrorsCall(i) ==
    /\ fwd[i] = "none"
    /\ i > 1 => fwd[i - 1] # "none"
    /\ fwd' = [fwd EXCEPT ![i] = "recv"]
    /\ UNCHANGED <<sender, pipeOk, pipeErr, errq, shut, logger, succFwd, delivered,
                   logged, closer, crash>>

ForwarderTakes(i) ==
    /\ fwd[i] = "recv" /\ errq > 0
    /\ errq' = errq - 1
    /\ fwd' = [fwd EXCEPT ![i] = "hold"]
    /\ UNCHANGED <<sender, pipeOk, pipeErr, shut, logger, succFwd, delivered,
                   logged, closer, crash>>

ForwarderEnds(i) ==
    /\ fwd[i] = "recv" /\ ErrorsClosed
    /\ fwd' = [fwd EXCEPT ![i] = "done"]
    /\ UNCHANGED <<sender, pipeOk, pipeErr, errq, shut, logger, succFwd, delivered,
                   logged, closer, crash>>

\* The user receives from the channel Errors() returned: p.errors <- s completes.
UserReceives(i) ==
    /\ fwd[i] = "hold"
    /\ fwd' = [fwd EXCEPT ![i] = "recv"]
    /\ delivered' = delivered + 1
    /\ UNCHANGED <<sender, pipeOk, pipeErr, errq, shut, logger, succFwd, logged,
                   closer, crash>>

(***************************************************************************)
(* Successes() (lines 158-170): the goroutine ranges over                  *)
(* Client.Successes(), which yields nothing and ends when it is closed.    *)
(***************************************************************************)
SuccessesCall ==
    /\ succFwd = "none"
    /\ succFwd' = "recv"
    /\ UNCHANGED <<sender, pipeOk, pipeErr, errq, shut, logger, fwd, delivered,
                   logged, closer, crash>>

SuccessesEnd ==
    /\ succFwd = "recv" /\ shut = "closed"
    /\ succFwd' = "done"
    /\ UNCHANGED <<sender, pipeOk, pipeErr, errq, shut, logger, fwd, delivered,
                   logged, closer, crash>>

(***************************************************************************)
(* Close (lines 95-97) is sarama's Close: AsyncClose, then ranging over    *)
(* Client.Errors() until it is closed; it returns the errors it drained.   *)
(***************************************************************************)
CloseCall ==
    /\ closer = "idle"
    /\ closer' = "closing"
    /\ shut' = IF shut = "open" THEN "draining" ELSE shut
    /\ UNCHANGED <<sender, pipeOk, pipeErr, errq, logger, fwd, succFwd, delivered,
                   logged, crash>>

CloseDrains ==
    /\ closer = "closing" /\ errq > 0
    /\ errq' = errq - 1
    /\ UNCHANGED <<sender, pipeOk, pipeErr, shut, logger, fwd, succFwd, delivered,
                   logged, closer, crash>>

\* Seeded fault: Close returns once Errors() is closed, without draining it.
CloseReturnsEarly ==
    /\ closer = "closing" /\ shut = "closed"
    /\ closer' = "closed"
    /\ UNCHANGED <<sender, pipeOk, pipeErr, errq, shut, logger, fwd, succFwd,
                   delivered, logged, crash>>

CloseReturns ==
    /\ closer = "closing" /\ ErrorsClosed
    /\ closer' = "closed"
    /\ UNCHANGED <<sender, pipeOk, pipeErr, errq, shut, logger, fwd, succFwd,
                   delivered, logged, crash>>

Next ==
    /\ crash = "none"
    /\ \/ \E s \in Senders : SendCall(s) \/ SendOnClosed(s)
       \/ Sarama
       \/ LoggerTakes \/ LoggerEnds
       \/ \E i \in Forwarders :
             ErrorsCall(i) \/ ForwarderTakes(i) \/ ForwarderEnds(i) \/ UserReceives(i)
       \/ SuccessesCall \/ SuccessesEnd
       \/ CloseCall \/ CloseDrains \/ CloseReturns

(***************************************************************************)
(* The Go scheduler runs every goroutine that can run, and sarama's        *)
(* goroutines keep moving messages; a send blocked on a channel that is   *)
(* closed panics at once.  The user is not assumed to receive              *)
(* from Errors() or to call anything.                                      *)
(***************************************************************************)
Fairness ==
    /\ \A s \in Senders : WF_vars(Accept(s)) /\ WF_vars(SendOnClosed(s))
    /\ WF_vars(Delivered) /\ WF_vars(Failed) /\ WF_vars(ShutdownDone)
    /\ WF_vars(LoggerTakes) /\ WF_vars(LoggerEnds)
    /\ \A i \in Forwarders : WF_vars(ForwarderTakes(i)) /\ WF_vars(ForwarderEnds(i))
    /\ WF_vars(SuccessesEnd)
    /\ WF_vars(CloseDrains) /\ WF_vars(CloseReturns)

Spec == Init /\ [][Next]_vars /\ Fairness

-----------------------------------------------------------------------------

Abs == INSTANCE AsyncProducerSpec WITH inflight <- pipeOk + pipeErr + errq

\* The producer implements AsyncProducerSpec: Close returns only when every
\* message handed to Input() has been acknowledged or its error taken off
\* Errors(), and every message is eventually settled, whoever reads Errors().
Refinement == Abs!Spec

=============================================================================
