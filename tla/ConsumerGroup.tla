--------------------------- MODULE ConsumerGroup ---------------------------
(***************************************************************************)
(* kafkax.ConsumerGroup (src/datax/kafkax/consumerGroup.go): Consume, the  *)
(* consume goroutine it starts, the sarama session callbacks Setup,        *)
(* ConsumeClaim and Cleanup on consumerGroupHandler, and Close.            *)
(*                                                                         *)
(* Each Consume call c has a caller goroutine (cpc) and a consume          *)
(* goroutine (gpc).  h.ready is a channel; ready[c] is the generation of   *)
(* the channel h.ready currently points to, and closedReady[c] the         *)
(* generations Setup has closed.  The caller reads h.ready (line 180) in   *)
(* one step and blocks on the channel it read in a later one, so the       *)
(* goroutine's replacement of h.ready (line 177) can fall in between.      *)
(* The broker's behaviour inside client.Consume (an error before a         *)
(* session, a session, a rebalance ending it) is nondeterministic.         *)
(***************************************************************************)
EXTENDS Integers, FiniteSets

CONSTANTS
    Calls,            \* the Consume calls the program makes
    PreSessionErrors, \* errors client.Consume may return before Setup
    MaxIterations,    \* bound on broker-driven loop iterations per goroutine
    MaxMessages,      \* bound on messages delivered to one handler
    OrderlyUse,       \* no Consume is called once Close has begun
    CallsClose        \* the program calls Close at some point

ASSUME PreSessionErrors \subseteq {"OutOfBrokers", "Other"}
ASSUME CallsClose \in BOOLEAN

Errors == {"nil", "Closed"} \cup PreSessionErrors

VARIABLES
    cpc,          \* caller goroutine of Consume c
    gpc,          \* consume goroutine of Consume c
    client,       \* "main" (g.Client) or "copy" (a copyClient in clientEctype)
    registered,   \* calls whose cancel, wg and h are in cancelList/wgList/handlerList
    ready,        \* generation of the channel h.ready points to
    closedReady,  \* generations of h.ready closed by Setup
    waitOn,       \* generation the caller read at line 180
    err,          \* the err variable shared by the caller and the goroutine
    result,       \* what Consume returned
    ctxDone,      \* cancel() of c's context has been called
    stop,         \* h.Stop
    iter,         \* broker-driven iterations so far
    handled,      \* messages handed to the business handler
    closed,       \* g.Client closed by Close
    closedCopies, \* calls whose copyClient Close closed (clientEctype)
    closer,       \* program counter of Close
    waitSnap,     \* the calls whose wg Close's third loop waits on
    proc          \* "running", or the panic that ended the process

callerVars == <<cpc, registered, waitOn, result>>
goVars == <<gpc, ready, closedReady, err, iter, handled>>
vars == <<callerVars, goVars, client, ctxDone, stop, closed, closedCopies, closer,
          waitSnap, proc>>

NoGen == -1

Running == proc = "running"

\* The client the goroutine of c consumes with has been closed.
ClientClosed(c) == IF client[c] = "main" THEN closed ELSE c \in closedCopies

\* Seeded fault: copyClient's logged error leaves a nil client in use.
CopyClientNil(c) ==
    /\ client' = [client EXCEPT ![c] = "nil"]
    /\ UNCHANGED proc

(***************************************************************************)
(* copyClient (lines 88-94) calls newConsumerGroup, whose goroutine ranges *)
(* over client.Errors() (line 65) before err is checked: a connection that *)
(* fails leaves a nil client, and that goroutine panics on it.             *)
(***************************************************************************)
CopyClient(c) ==
    \/ /\ client' = [client EXCEPT ![c] = "copy"]
       /\ UNCHANGED proc
    \/ /\ proc' = "nil client"
       /\ UNCHANGED client

\* Consume, lines 127-147: copyClient when a handler is already listed, else
\* g.Client; initHandler makes h.ready; the consume goroutine is started.
ConsumeCall(c) ==
    /\ Running
    /\ cpc[c] = "idle"
    /\ OrderlyUse => closer = "idle"
    /\ IF registered = {}
       THEN /\ client' = [client EXCEPT ![c] = "main"]
            /\ UNCHANGED proc
       ELSE CopyClient(c)
    /\ ready' = [ready EXCEPT ![c] = 0]
    /\ cpc' = [cpc EXCEPT ![c] = "read"]
    /\ gpc' = [gpc EXCEPT ![c] = "loop"]
    /\ UNCHANGED <<registered, closedReady, waitOn, err, result, ctxDone, stop,
                   iter, handled, closed, closedCopies, closer, waitSnap>>

\* Line 180 evaluates h.ready ...
ConsumeReadReady(c) ==
    /\ Running
    /\ cpc[c] = "read"
    /\ waitOn' = [waitOn EXCEPT ![c] = ready[c]]
    /\ cpc' = [cpc EXCEPT ![c] = "wait"]
    /\ UNCHANGED <<registered, result, goVars, client, ctxDone, stop, closed, closedCopies,
                   closer, waitSnap, proc>>

\* ... and blocks until that channel is closed; lines 181-185 then list
\* the handler and return the shared err.
ConsumeReturn(c) ==
    /\ Running
    /\ cpc[c] = "wait"
    /\ waitOn[c] \in closedReady[c]
    /\ registered' = registered \cup {c}
    /\ result' = [result EXCEPT ![c] = err[c]]
    /\ cpc' = [cpc EXCEPT ![c] = "done"]
    /\ UNCHANGED <<waitOn, goVars, client, ctxDone, stop, closed, closedCopies, closer,
                   waitSnap, proc>>

(***************************************************************************)
(* The goroutine's loop, lines 149-178.  EndIteration is lines 170-177:    *)
(* ctx.Err() leads to cancel(), needBreak ends the loop, otherwise h.ready *)
(* is replaced by a fresh channel.                                         *)
(***************************************************************************)
\* Seeded fault: the loop goes round without a fresh h.ready.
EndIterationNoFresh(c, needBreak) ==
    /\ ctxDone' = ctxDone
    /\ gpc' = [gpc EXCEPT ![c] = IF needBreak THEN "exit" ELSE "loop"]
    /\ UNCHANGED ready

EndIteration(c, needBreak) ==
    /\ ctxDone' = ctxDone
    /\ IF needBreak
       THEN /\ gpc' = [gpc EXCEPT ![c] = "exit"]
            /\ UNCHANGED ready
       ELSE /\ gpc' = [gpc EXCEPT ![c] = "loop"]
            /\ ready' = [ready EXCEPT ![c] = @ + 1]

\* select case <-ctx.Done(): needBreak = true (lines 151-154).
LoopCtxDone(c) ==
    /\ Running
    /\ gpc[c] = "loop"
    /\ ctxDone[c]
    /\ EndIteration(c, TRUE)
    /\ UNCHANGED <<callerVars, closedReady, err, iter, handled, client, stop,
                   closed, closedCopies, closer, waitSnap, proc>>

\* default: err = client.Consume(ctx, t, h) (lines 155-156).
LoopConsume(c) ==
    /\ Running
    /\ gpc[c] = "loop"
    /\ ~ctxDone[c]
    /\ gpc' = [gpc EXCEPT ![c] = "consume"]
    /\ UNCHANGED <<callerVars, ready, closedReady, err, iter, handled, client,
                   ctxDone, stop, closed, closedCopies, closer, waitSnap, proc>>

\* Seeded fault: ErrClosedConsumerGroup handled like ErrOutOfBrokers.
ConsumeClosedNoBreak(c) ==
    /\ Running
    /\ gpc[c] = "consume"
    /\ ClientClosed(c)
    /\ iter[c] < MaxIterations
    /\ err' = [err EXCEPT ![c] = "Closed"]
    /\ iter' = [iter EXCEPT ![c] = @ + 1]
    /\ EndIteration(c, FALSE)
    /\ UNCHANGED <<callerVars, closedReady, handled, client, stop, closed,
                   closedCopies, closer, waitSnap, proc>>

\* client.Consume on a closed client returns ErrClosedConsumerGroup:
\* needBreak (lines 159-162).
ConsumeClosed(c) ==
    /\ Running
    /\ gpc[c] = "consume"
    /\ ClientClosed(c)
    /\ err' = [err EXCEPT ![c] = "Closed"]
    /\ EndIteration(c, TRUE)
    /\ UNCHANGED <<callerVars, closedReady, iter, handled, client, stop, closed, closedCopies,
                   closer, waitSnap, proc>>

\* client.Consume fails before a session: the error is logged and the loop
\* goes round (lines 163-167).
ConsumeFails(c) ==
    /\ Running
    /\ gpc[c] = "consume"
    /\ ~ClientClosed(c)
    /\ iter[c] < MaxIterations
    /\ \E e \in PreSessionErrors : err' = [err EXCEPT ![c] = e]
    /\ iter' = [iter EXCEPT ![c] = @ + 1]
    /\ EndIteration(c, FALSE)
    /\ UNCHANGED <<callerVars, closedReady, handled, client, stop, closed, closedCopies,
                   closer, waitSnap, proc>>

\* A session starts and sarama calls Setup, which closes h.ready (line 217);
\* closing a closed channel panics.
SessionSetup(c) ==
    /\ Running
    /\ gpc[c] = "consume"
    /\ ~ClientClosed(c)
    /\ IF ready[c] \in closedReady[c]
       THEN /\ proc' = "close of closed channel"
            /\ UNCHANGED <<closedReady, gpc>>
       ELSE /\ closedReady' = [closedReady EXCEPT ![c] = @ \cup {ready[c]}]
            /\ gpc' = [gpc EXCEPT ![c] = "session"]
            /\ UNCHANGED proc
    /\ UNCHANGED <<callerVars, ready, err, iter, handled, client, ctxDone, stop,
                   closed, closedCopies, closer, waitSnap>>

\* ConsumeClaim hands a message to the handler unless h.Stop is set
\* (lines 235-250).
HandleMessage(c) ==
    /\ Running
    /\ gpc[c] = "session"
    /\ ~stop[c]
    /\ handled[c] < MaxMessages
    /\ handled' = [handled EXCEPT ![c] = @ + 1]
    /\ UNCHANGED <<callerVars, gpc, ready, closedReady, err, iter, client,
                   ctxDone, stop, closed, closedCopies, closer, waitSnap, proc>>

\* Seeded fault: the session ends only when the client is closed.
SessionEndsNoCancel(c) ==
    /\ Running
    /\ gpc[c] = "session"
    /\ ClientClosed(c)
    /\ err' = [err EXCEPT ![c] = "nil"]
    /\ EndIteration(c, FALSE)
    /\ UNCHANGED <<callerVars, closedReady, iter, handled, client, stop, closed,
                   closedCopies, closer, waitSnap, proc>>

\* The session ends because the context is cancelled or the client closed:
\* Cleanup runs and client.Consume returns nil.
SessionEnds(c) ==
    /\ Running
    /\ gpc[c] = "session"
    /\ ctxDone[c] \/ ClientClosed(c)
    /\ err' = [err EXCEPT ![c] = "nil"]
    /\ EndIteration(c, FALSE)
    /\ UNCHANGED <<callerVars, closedReady, iter, handled, client, stop, closed, closedCopies,
                   closer, waitSnap, proc>>

\* A rebalance ends the session; client.Consume returns nil.
Rebalance(c) ==
    /\ Running
    /\ gpc[c] = "session"
    /\ iter[c] < MaxIterations
    /\ err' = [err EXCEPT ![c] = "nil"]
    /\ iter' = [iter EXCEPT ![c] = @ + 1]
    /\ EndIteration(c, FALSE)
    /\ UNCHANGED <<callerVars, closedReady, handled, client, stop, closed, closedCopies,
                   closer, waitSnap, proc>>

(***************************************************************************)
(* Close, lines 96-111.  The first two loops set h.Stop and call cancel    *)
(* for the listed calls; the third ranges over g.wgList as it is then and  *)
(* waits for each goroutine; then every client is closed.                  *)
(***************************************************************************)
CloseCancel ==
    /\ Running
    /\ CallsClose
    /\ closer = "idle"
    /\ stop' = [c \in Calls |-> stop[c] \/ c \in registered]
    /\ ctxDone' = [c \in Calls |-> ctxDone[c] \/ c \in registered]
    /\ closer' = "wait"
    /\ UNCHANGED <<callerVars, goVars, client, closed, closedCopies, waitSnap, proc>>

CloseWaitBegin ==
    /\ Running
    /\ closer = "wait"
    /\ waitSnap' = registered
    /\ closer' = "waiting"
    /\ UNCHANGED <<callerVars, goVars, client, ctxDone, stop, closed, closedCopies, proc>>

CloseWaitEnd ==
    /\ Running
    /\ closer = "waiting"
    /\ \A c \in waitSnap : gpc[c] = "exit"
    /\ closer' = "clients"
    /\ UNCHANGED <<callerVars, goVars, client, ctxDone, stop, closed, closedCopies, waitSnap, proc>>

CloseClients ==
    /\ Running
    /\ closer = "clients"
    /\ closed' = TRUE
    /\ closedCopies' = {c \in Calls : client[c] = "copy"}
    /\ closer' = "done"
    /\ UNCHANGED <<callerVars, goVars, client, ctxDone, stop, waitSnap, proc>>

Init ==
    /\ cpc = [c \in Calls |-> "idle"]
    /\ gpc = [c \in Calls |-> "none"]
    /\ client = [c \in Calls |-> "none"]
    /\ registered = {}
    /\ ready = [c \in Calls |-> NoGen]
    /\ closedReady = [c \in Calls |-> {}]
    /\ waitOn = [c \in Calls |-> NoGen]
    /\ err = [c \in Calls |-> "nil"]
    /\ result = [c \in Calls |-> "none"]
    /\ ctxDone = [c \in Calls |-> FALSE]
    /\ stop = [c \in Calls |-> FALSE]
    /\ iter = [c \in Calls |-> 0]
    /\ handled = [c \in Calls |-> 0]
    /\ closed = FALSE
    /\ closedCopies = {}
    /\ closer = "idle"
    /\ waitSnap = {}
    /\ proc = "running"

Goroutine(c) ==
    \/ LoopCtxDone(c) \/ LoopConsume(c) \/ ConsumeClosed(c)
    \/ SessionSetup(c) \/ HandleMessage(c) \/ SessionEnds(c)

Caller(c) == ConsumeCall(c) \/ ConsumeReadReady(c) \/ ConsumeReturn(c)

Close == CloseCancel \/ CloseWaitBegin \/ CloseWaitEnd \/ CloseClients

Broker(c) == ConsumeFails(c) \/ Rebalance(c)

Next ==
    \/ \E c \in Calls : Caller(c) \/ Goroutine(c) \/ Broker(c)
    \/ Close

\* The Go scheduler runs every runnable goroutine eventually; the broker's
\* errors and rebalances are not assumed to happen.
Fairness ==
    /\ \A c \in Calls : WF_vars(ConsumeReadReady(c)) /\ WF_vars(ConsumeReturn(c))
    /\ \A c \in Calls : WF_vars(Goroutine(c))
    /\ WF_vars(CloseWaitBegin) /\ WF_vars(CloseWaitEnd) /\ WF_vars(CloseClients)

Spec == Init /\ [][Next]_vars /\ Fairness

-----------------------------------------------------------------------------

TypeOK ==
    /\ cpc \in [Calls -> {"idle", "read", "wait", "done"}]
    /\ gpc \in [Calls -> {"none", "loop", "consume", "session", "exit"}]
    /\ client \in [Calls -> {"none", "main", "copy"}]
    /\ registered \subseteq Calls
    /\ err \in [Calls -> Errors]
    /\ result \in [Calls -> Errors \cup {"none"}]
    /\ \A c \in Calls : closedReady[c] \subseteq 0..ready[c]
    /\ closer \in {"idle", "wait", "waiting", "clients", "done"}
    /\ waitSnap \subseteq registered

\* Setup closes h.ready once per session; the goroutine gives h a fresh
\* channel after every client.Consume (line 177), so no Setup closes a
\* channel an earlier session already closed.
ReadyClosedOnce == proc # "close of closed channel"

\* A consume goroutine whose context Close cancelled ends: cancel ends its
\* session, and the loop then sees ctx.Done() (lines 151-154).
CancelEndsConsumer ==
    \A c \in Calls : ctxDone[c] ~> (gpc[c] = "exit" \/ ~Running)

\* Every consume goroutine ends once the group is closed, whether or not
\* its Consume call was listed when Close ran.
ConsumersEndAfterClose ==
    \A c \in Calls : (ClientClosed(c) /\ gpc[c] # "none") ~> (gpc[c] = "exit" \/ ~Running)

\* Consume returns: the caller blocked at line 180 is released by the
\* Setup of the consume goroutine it started.
ConsumeReturns ==
    \A c \in Calls : cpc[c] = "wait" ~> (cpc[c] = "done" \/ ~Running)

=============================================================================
