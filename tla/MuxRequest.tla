----------------------------- MODULE MuxRequest -----------------------------
(***************************************************************************)
(* One request through the mux middleware (src/httpx/mux/blocker.go,       *)
(* context.go, mux.go): InitContext, the chain of handlers wrapped by      *)
(* WrapHandlers, each using the Context API or the gin context beneath it, *)
(* and the deferred AfterContext and ReleaseContext.                       *)
(*                                                                         *)
(* The gin context is abstracted to what the response depends on: the     *)
(* keys _PayloadName, _FilePayload and _AbortErrorName, IsAborted, the     *)
(* writer's status and whether its header is written, and the bodies       *)
(* written.  A panic in flight is a flag; gin's handler loop stops when    *)
(* the context is aborted or a handler panics.                             *)
(***************************************************************************)
EXTENDS Naturals, Sequences

CONSTANTS
    Modes,        \* gin modes the server may run in
    Ops,          \* what a handler may do
    ErrCodes,     \* http codes of the errnos handlers abort with (0 = unset)
    GinCodes,     \* statuses gin-level middlewares abort with
    MaxHandlers,  \* bound on the handlers of the chain
    NoErr         \* model value: no _AbortErrorName key

ASSUME Modes \subseteq {"debug", "release"}
ASSUME Ops \subseteq {"payload", "file", "abort", "abortNil", "ginAbort",
                      "write", "panic", "return"}

Bodies == {"error", "payload", "file", "direct"}

VARIABLES
    pc,            \* "init", "chain", "done" or "crashed"
    mode,          \* gin.Mode()
    ran,           \* handlers run so far
    payload,       \* _PayloadName is set
    file,          \* _FilePayload is set
    abortErr,      \* http code of the *errno.Errno under _AbortErrorName, or NoErr
    aborted,       \* ctx.IsAborted()
    status,        \* ctx.Writer.Status()
    written,       \* the writer's header is written
    bodies,        \* bodies written to the client, in order
    panicking,     \* a panic is unwinding the handler chain
    writtenAtPanic,\* the header was written when a handler panicked (NoErr if none did)
    metric,        \* success flag passed to RecordMetrics, or "none"
    crash          \* why the request's goroutine panicked out, or "none"

vars == <<pc, mode, ran, payload, file, abortErr, aborted, status, written,
          bodies, panicking, writtenAtPanic, metric, crash>>

(***************************************************************************)
(* gin's responseWriter.WriteHeader: a status of 0, or any status once the *)
(* header is written, is ignored.                                          *)
(***************************************************************************)
StatusAfter(code) == IF written \/ code = 0 THEN status ELSE code

\* AbortWithError, context.go 540-550: an unset http code becomes 500.
HttpCode(e) == IF e = 0 THEN 500 ELSE e

(***************************************************************************)
(* InitContext, blocker.go 208-227: a pooled context wraps the gin one,    *)
(* init reads the body and panics if that fails (context.go 207-215),      *)
(* before AfterContext is deferred; the trace is set up.                   *)
(***************************************************************************)
InitContext ==
    /\ pc = "init"
    /\ \/ pc' = "chain" /\ UNCHANGED crash
       \/ pc' = "crashed" /\ crash' = "body read"
    /\ UNCHANGED <<mode, ran, payload, file, abortErr, aborted, status, written,
                   bodies, panicking, writtenAtPanic, metric>>

(***************************************************************************)
(* One handler of the chain (WrapHandlers, mux.go 107-120: a pooled        *)
(* Context around the gin context, released when the handler returns or   *)
(* panics), doing one thing through the Context API or the gin context.    *)
(* gin runs the next handler unless the context is aborted.                *)
(***************************************************************************)
AbortWithStatus(code) ==
    /\ status' = StatusAfter(code)
    /\ written' = TRUE
    /\ aborted' = TRUE

Handler(op) ==
    /\ pc = "chain"
    /\ ran < MaxHandlers
    /\ ~aborted /\ ~panicking
    /\ ran' = ran + 1
    /\ CASE op = "payload" ->
              /\ payload' = TRUE
              /\ UNCHANGED <<file, abortErr, aborted, status, written, bodies,
                             panicking, writtenAtPanic>>
         [] op = "file" ->
              /\ file' = TRUE
              /\ UNCHANGED <<payload, abortErr, aborted, status, written, bodies,
                             panicking, writtenAtPanic>>
         [] op = "abort" ->
              \E e \in ErrCodes :
                 /\ AbortWithStatus(HttpCode(e))
                 /\ abortErr' = e
                 /\ UNCHANGED <<payload, file, bodies, panicking, writtenAtPanic>>
         [] op = "ginAbort" ->
              \E code \in GinCodes :
                 /\ AbortWithStatus(code)
                 /\ UNCHANGED <<payload, file, abortErr, bodies, panicking,
                                writtenAtPanic>>
         [] op = "write" ->
              /\ status' = StatusAfter(200)
              /\ written' = TRUE
              /\ bodies' = Append(bodies, "direct")
              /\ UNCHANGED <<payload, file, abortErr, aborted, panicking,
                             writtenAtPanic>>
         [] op = "panic" ->
              /\ panicking' = TRUE
              /\ writtenAtPanic' = written
              /\ UNCHANGED <<payload, file, abortErr, aborted, status, written,
                             bodies>>
         [] op \in {"abortNil", "return"} ->
              UNCHANGED <<payload, file, abortErr, aborted, status, written,
                          bodies, panicking, writtenAtPanic>>
    /\ UNCHANGED <<pc, mode, metric, crash>>

\* The success flag AfterContext passes to RecordMetrics (lines 139-147).
MetricOf(ab, st) == IF ~ab /\ st = 200 THEN "ok" ELSE "fail"

\* Seeded fault: the gin mode test inverted.
RecoversInDebug == mode = "debug" /\ panicking

\* AfterContext recovers a panic unless gin runs in debug mode (lines 57-64).
Recovers == mode # "debug" /\ panicking

(***************************************************************************)
(* AfterContext, blocker.go 56-205, then ReleaseContext (context.go        *)
(* 64-68), as the deferred calls run when the chain returns or panics.     *)
(*   - outside debug mode a panic is recovered and ErrorHandler aborts     *)
(*     with a 500 errno (lines 59-64, 45-54);                              *)
(*   - a 404 status returns at once (66-68);                               *)
(*   - an aborted context answers the errno of abortError(), whose type    *)
(*     assertion panics when no errno was stored (78-98, context.go 552);  *)
(*   - otherwise the payload, else the file payload, is written (99-131);  *)
(*   - RecordMetrics gets !IsAborted && status == 200 (133-148).           *)
(* A panic that was not recovered goes on after the deferred calls.        *)
(***************************************************************************)
AfterContext ==
    /\ pc = "chain"
    /\ LET recovered == Recovers
           st1 == IF recovered THEN StatusAfter(500) ELSE status
           w1  == written \/ recovered
           ab1 == aborted \/ recovered
           err1 == IF recovered THEN 500 ELSE abortErr
           st2(code) == IF w1 THEN st1 ELSE code
           answer ==
             CASE st1 = 404 -> [st |-> st1, b |-> <<>>, fail |-> FALSE]
               [] ab1 /\ err1 = NoErr -> [st |-> st1, b |-> <<>>, fail |-> TRUE]
               [] ab1 -> [st |-> st1, b |-> <<"error">>, fail |-> FALSE]
               [] payload -> [st |-> st2(200), b |-> <<"payload">>, fail |-> FALSE]
               [] file -> [st |-> st2(200), b |-> <<"file">>, fail |-> FALSE]
               [] OTHER -> [st |-> st1, b |-> <<>>, fail |-> FALSE]
       IN /\ status' = answer.st
          /\ written' = (w1 \/ answer.b # <<>>)
          /\ aborted' = ab1
          /\ abortErr' = err1
          /\ bodies' = bodies \o answer.b
          /\ metric' = IF st1 = 404 \/ answer.fail THEN "none"
                       ELSE MetricOf(ab1, answer.st)
          /\ panicking' = (panicking /\ ~recovered)
          /\ IF answer.fail
             THEN pc' = "crashed" /\ crash' = "abortError nil"
             ELSE IF panicking /\ ~recovered
                  THEN pc' = "crashed" /\ crash' = "handler panic"
                  ELSE pc' = "done" /\ UNCHANGED crash
    /\ UNCHANGED <<mode, ran, payload, file, writtenAtPanic>>

Init ==
    /\ pc = "init"
    /\ mode \in Modes
    /\ ran = 0
    /\ payload = FALSE
    /\ file = FALSE
    /\ abortErr = NoErr
    /\ aborted = FALSE
    /\ status = 200
    /\ written = FALSE
    /\ bodies = <<>>
    /\ panicking = FALSE
    /\ writtenAtPanic = NoErr
    /\ metric = "none"
    /\ crash = "none"

Next ==
    \/ InitContext
    \/ \E op \in Ops : Handler(op)
    \/ AfterContext

Spec == Init /\ [][Next]_vars

-----------------------------------------------------------------------------

TypeOK ==
    /\ pc \in {"init", "chain", "done", "crashed"}
    /\ ran \in 0..MaxHandlers
    /\ abortErr \in ErrCodes \cup {500, NoErr}
    /\ status \in {200, 500} \cup GinCodes \cup (ErrCodes \ {0})
    /\ bodies \in Seq(Bodies)
    /\ writtenAtPanic \in BOOLEAN \cup {NoErr}
    /\ metric \in {"none", "ok", "fail"}

\* Outside debug mode a handler that panics before anything was written is
\* answered with status 500 and the error body (ErrorHandler's errno), the
\* panic stays inside AfterContext, and RecordMetrics counts a failure.
PanicAnswered500 ==
    (pc = "done" \/ pc = "crashed") /\ mode = "release" /\ writtenAtPanic = FALSE
      => /\ pc = "done"
         /\ status = 500
         /\ bodies = <<"error">>
         /\ metric = "fail"

=============================================================================
