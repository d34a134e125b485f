--------------------------- MODULE RedisSubscribe ---------------------------
(***************************************************************************)
(* redisx.DB's publish/subscribe (src/datax/redisx/redis.go): Subscribe    *)
(* with its stop goroutine and its loop goroutine, Publish and Close.      *)
(*                                                                         *)
(* Each Subscribe call s has the caller (spc), the goroutine waiting on    *)
(* stopCh (stopG) and the loop goroutine (lpc).  The loop opens a new      *)
(* go-redis PubSub on every iteration and reads one message from it; the   *)
(* PubSub of the previous iteration is never closed, so it stays           *)
(* subscribed and the messages redis sends it are never read.  Messages    *)
(* are counted, not named: buf is what waits in the current PubSub's       *)
(* channel.  The count of abandoned PubSubs saturates at LeakCap.          *)
(***************************************************************************)
EXTENDS Naturals

CONSTANTS
    Subs,          \* the Subscribe calls the program makes
    MaxPublishes,  \* bound on Publish calls
    MaxCloses,     \* bound on Close calls
    LeakCap        \* abandoned PubSubs beyond this many are not told apart

VARIABLES
    closed,     \* stopCh is closed and the client closed
    closes,     \* Close calls so far
    published,  \* Publish calls that reached redis
    spc,        \* caller of Subscribe s: "none", "select", "returned"
    stopG,      \* goroutine of lines 797-803: "none", "wait", "done"
    nb,         \* needBreak of s: "no", or who wrote it: "stop" or "loop"
    ctxDone,    \* cancelFunc() of s's context has been called
    synced,     \* the loop received from a Done channel that cancelFunc() closed
    lpc,        \* loop goroutine of s: "none", "check", "sub", "select", "handle", "errcheck", "exit"
    curOpen,    \* the PubSub of the current iteration is open
    buf,        \* messages waiting in the current PubSub's channel
    leaked,     \* PubSubs of earlier iterations, never closed (saturating)
    handled,    \* messages passed to the handler
    crash       \* "none", or the panic that ended the process

vars == <<closed, closes, published, spc, stopG, nb, ctxDone, synced, lpc, curOpen, buf,
          leaked, handled, crash>>

loopVars == <<lpc, curOpen, buf, leaked, handled>>

\* Every goroutine of Subscribe s has returned.
SubscriberDone(s) == spc[s] # "select" /\ lpc[s] \in {"none", "exit"}

(***************************************************************************)
(* New (lines 163-181) after redisConnect succeeded: stopCh is open.       *)
(***************************************************************************)
Init ==
    /\ closed = FALSE /\ closes = 0 /\ published = 0
    /\ spc = [s \in Subs |-> "none"]
    /\ stopG = [s \in Subs |-> "none"]
    /\ nb = [s \in Subs |-> "no"]
    /\ ctxDone = [s \in Subs |-> FALSE]
    /\ synced = [s \in Subs |-> FALSE]
    /\ lpc = [s \in Subs |-> "none"]
    /\ curOpen = [s \in Subs |-> FALSE]
    /\ buf = [s \in Subs |-> 0]
    /\ leaked = [s \in Subs |-> 0]
    /\ handled = [s \in Subs |-> 0]
    /\ crash = "none"

\* Subscribe, lines 795-803: a fresh context, and a goroutine waiting on stopCh.
SubscribeCall(s) ==
    /\ spc[s] = "none"
    /\ spc' = [spc EXCEPT ![s] = "select"]
    /\ stopG' = [stopG EXCEPT ![s] = "wait"]
    /\ UNCHANGED <<closed, closes, published, nb, ctxDone, synced, loopVars, crash>>

\* Lines 804-838: return at once if the context is already cancelled,
\* else start the loop goroutine (the default branch) and return.
SubscribeSelect(s) ==
    /\ spc[s] = "select"
    /\ spc' = [spc EXCEPT ![s] = "returned"]
    /\ \/ ctxDone[s] /\ UNCHANGED lpc
       \/ lpc' = [lpc EXCEPT ![s] = "check"]
    /\ UNCHANGED <<closed, closes, published, stopG, nb, ctxDone, synced, curOpen, buf,
                   leaked, handled, crash>>

\* Seeded fault: the stop goroutine sets needBreak but does not cancel.
StopNoCancel(s) ==
    /\ stopG[s] = "wait" /\ closed
    /\ stopG' = [stopG EXCEPT ![s] = "done"]
    /\ nb' = [nb EXCEPT ![s] = "stop"]
    /\ UNCHANGED <<closed, closes, published, spc, ctxDone, synced, loopVars, crash>>

\* Lines 797-803: once stopCh is closed, needBreak = true and cancelFunc().
StopOnClose(s) ==
    /\ stopG[s] = "wait" /\ closed
    /\ stopG' = [stopG EXCEPT ![s] = "done"]
    /\ nb' = [nb EXCEPT ![s] = "stop"]
    /\ ctxDone' = [ctxDone EXCEPT ![s] = TRUE]
    /\ UNCHANGED <<closed, closes, published, spc, synced, loopVars, crash>>

(***************************************************************************)
(* `if needBreak { break }` (line 810).  needBreak is written by the stop  *)
(* goroutine without synchronisation, a data race: the loop may read the   *)
(* stale false, until it has received from a Done channel that             *)
(* cancelFunc() closed after the write (Go's happens-before through a      *)
(* channel close).  What the loop wrote itself it reads.                   *)
(***************************************************************************)
LoopCheck(s) ==
    /\ lpc[s] = "check"
    /\ \E seen \in IF nb[s] = "stop" /\ ~synced[s] THEN BOOLEAN ELSE {nb[s] # "no"} :
          lpc' = [lpc EXCEPT ![s] = IF seen THEN "exit" ELSE "sub"]
    /\ UNCHANGED <<closed, closes, published, spc, stopG, nb, ctxDone, synced, curOpen, buf,
                   leaked, handled, crash>>

\* Lines 813-815: cx, cancel := context.WithCancel(ctx); a new PubSub.  The
\* previous one, if still open, is left subscribed.
LoopSubscribe(s) ==
    /\ lpc[s] = "sub"
    /\ lpc' = [lpc EXCEPT ![s] = "select"]
    /\ leaked' = [leaked EXCEPT ![s] = IF curOpen[s] /\ @ < LeakCap THEN @ + 1 ELSE @]
    /\ curOpen' = [curOpen EXCEPT ![s] = TRUE]
    /\ buf' = [buf EXCEPT ![s] = 0]
    /\ UNCHANGED <<closed, closes, published, spc, stopG, nb, ctxDone, synced, handled, crash>>

(***************************************************************************)
(* The select of lines 816-828; Go picks any ready case.  cx is cancelled  *)
(* only through its parent ctx, so <-cx.Done() is ready exactly when       *)
(* <-ctx.Done() is.                                                        *)
(***************************************************************************)
LoopReceive(s) ==
    /\ lpc[s] = "select" /\ buf[s] > 0
    /\ lpc' = [lpc EXCEPT ![s] = "handle"]
    /\ buf' = [buf EXCEPT ![s] = @ - 1]
    /\ UNCHANGED <<closed, closes, published, spc, stopG, nb, ctxDone, synced, curOpen,
                   leaked, handled, crash>>

LoopCtxDone(s) ==
    /\ lpc[s] = "select" /\ ctxDone[s]
    /\ nb' = [nb EXCEPT ![s] = "loop"]
    /\ synced' = [synced EXCEPT ![s] = TRUE]
    /\ curOpen' = [curOpen EXCEPT ![s] = FALSE]
    /\ buf' = [buf EXCEPT ![s] = 0]
    /\ lpc' = [lpc EXCEPT ![s] = "errcheck"]
    /\ UNCHANGED <<closed, closes, published, spc, stopG, ctxDone, leaked, handled,
                   crash>>

LoopCxDone(s) ==
    /\ lpc[s] = "select" /\ ctxDone[s]
    /\ synced' = [synced EXCEPT ![s] = TRUE]
    /\ lpc' = [lpc EXCEPT ![s] = "errcheck"]
    /\ UNCHANGED <<closed, closes, published, spc, stopG, nb, ctxDone, curOpen, buf,
                   leaked, handled, crash>>

\* Lines 818-821: the handler runs; its error is only logged.
LoopHandle(s) ==
    /\ lpc[s] = "handle"
    /\ handled' = [handled EXCEPT ![s] = @ + 1]
    /\ lpc' = [lpc EXCEPT ![s] = "errcheck"]
    /\ UNCHANGED <<closed, closes, published, spc, stopG, nb, ctxDone, synced, curOpen, buf,
                   leaked, crash>>

\* Lines 829-833: cx.Err() is logged and cancel() called; then loop again.
LoopErrCheck(s) ==
    /\ lpc[s] = "errcheck"
    /\ lpc' = [lpc EXCEPT ![s] = "check"]
    /\ UNCHANGED <<closed, closes, published, spc, stopG, nb, ctxDone, synced, curOpen, buf,
                   leaked, handled, crash>>

(***************************************************************************)
(* Publish (lines 379-396): redis sends the message to every PubSub still  *)
(* subscribed, read or not.  On a closed client it fails and changes       *)
(* nothing.                                                                *)
(***************************************************************************)
Publish ==
    /\ ~closed /\ published < MaxPublishes
    /\ published' = published + 1
    /\ buf' = [s \in Subs |-> IF curOpen[s] THEN buf[s] + 1 ELSE buf[s]]
    /\ UNCHANGED <<closed, closes, spc, stopG, nb, ctxDone, synced, lpc, curOpen, leaked,
                   handled, crash>>

\* Close (lines 398-401): close(c.stopCh) panics when it is already closed.
Close ==
    /\ closes < MaxCloses
    /\ closes' = closes + 1
    /\ IF closed THEN crash' = "close of closed channel" /\ UNCHANGED closed
                 ELSE closed' = TRUE /\ UNCHANGED crash
    /\ UNCHANGED <<published, spc, stopG, nb, ctxDone, synced, loopVars>>

Next ==
    /\ crash = "none"
    /\ \/ Publish \/ Close
       \/ \E s \in Subs :
             \/ SubscribeCall(s) \/ SubscribeSelect(s) \/ StopOnClose(s)
             \/ LoopCheck(s) \/ LoopSubscribe(s) \/ LoopReceive(s) \/ LoopCtxDone(s)
             \/ LoopCxDone(s) \/ LoopHandle(s) \/ LoopErrCheck(s)

(***************************************************************************)
(* The Go runtime schedules every runnable goroutine.  Callers (Subscribe, *)
(* Publish, Close) get no fairness.                                        *)
(***************************************************************************)
Fairness ==
    \A s \in Subs :
        /\ WF_vars(SubscribeSelect(s)) /\ WF_vars(StopOnClose(s))
        /\ WF_vars(LoopCheck(s)) /\ WF_vars(LoopSubscribe(s))
        /\ WF_vars(LoopReceive(s) \/ LoopCtxDone(s) \/ LoopCxDone(s))
        /\ WF_vars(LoopHandle(s)) /\ WF_vars(LoopErrCheck(s))

Spec == Init /\ [][Next]_vars /\ Fairness

-----------------------------------------------------------------------------

\* Once Close has closed stopCh, every goroutine of every Subscribe ends (or
\* the process has ended): the stop goroutine cancels the context, the select
\* then leaves with needBreak set, and the racy read of needBreak can only
\* delay the exit by one iteration.
LoopEndsAfterClose ==
    \A s \in Subs : closed ~> (SubscriberDone(s) \/ crash # "none")

=============================================================================
