--------------------------- MODULE ResilientClient ---------------------------
(***************************************************************************)
(* ServiceClient.retryRequest of httpx/httpDiscover, composed with the     *)
(* discovery cache it reads and repairs: GetServiceArray over              *)
(* e.serviceListing, a synchronous re-Discover when the list is empty, a   *)
(* health probe per candidate (serviceHealth) with eviction through        *)
(* DelServiceList, one request to the first healthy candidate, and the     *)
(* retry loop over shouldRetry and the retryVerify predicates.             *)
(*                                                                         *)
(* The callers of DiscoveryCache are the request goroutines; each runs one *)
(* retryRequest at a time. Transport, probe and predicate results are      *)
(* inputs chosen from small sets. Times are in milliseconds.               *)
(***************************************************************************)
EXTENDS DiscoveryCache

CONSTANTS
  Target,      \* serviceName of the calls
  RetryCount,  \* s.retryCount (New defaults it to 3 when <= 0)
  RetryDelay,  \* s.retryDelay in seconds (New leaves it 0 when unset)
  Codes,       \* status codes the transport may return, 0 for no response
  RawJitters,  \* values of rand.Intn(100) worth telling apart
  HasVerify,   \* whether the caller passed a retryVerify predicate
  MaxCalls     \* bound on retryRequest calls

ASSUME /\ Target \in Names
       /\ RetryCount \in Nat \ {0} /\ RetryDelay \in Nat
       /\ Codes \subseteq {0, 200, 408, 500} /\ RawJitters \subseteq 0..99
       /\ HasVerify \in BOOLEAN /\ MaxCalls \in Nat

(* retryRequest calls with scheme "", which it replaces with "http". *)
CallScheme == "http"

VARIABLES
  call,   \* call[c]: the local variables of c's retryRequest
  ret,    \* ret[c]: what c's last retryRequest returned
  calls   \* retryRequest calls so far

cvars == <<call, ret, calls>>
allvars == <<vars, cvars>>

None == [pc |-> "none"]

IdleCall == [pc |-> "idle", cands |-> <<>>, i |-> 1, code |-> 0,
             verify |-> FALSE, k |-> 0, sleeps |-> <<>>, sent |-> 0]

(* shouldRetry: only http.StatusRequestTimeout is retried. *)
ShouldRetry(code) == code = 408

(* The jitter: rand.Intn(100), raised to 10 when below 10. *)
JitterMs(r) == IF r < 10 THEN 10 ELSE r

(* retryTime = retryDelay*(k+1) seconds plus the jitter. *)
RetryTime(k, r) == RetryDelay * (k + 1) * 1000 + JitterMs(r)

(* The needRetry of one pass of the loop: the status first, else the body. *)
NeedRetry(cl) == ShouldRetry(cl.code) \/ cl.verify

-----------------------------------------------------------------------------
(* GetServiceArray, and when it is empty a synchronous Discover of the    *)
(* process's own service, then GetServiceArray again.                     *)
Begin(c) ==
  /\ ~crashed
  /\ call[c].pc = "idle"
  /\ dpc[c] = "idle"
  /\ calls < MaxCalls
  /\ calls' = calls + 1
  /\ LET l == Listed(cache, Target, CallScheme) IN
       IF l = <<>>
         THEN call' = [call EXCEPT ![c] = [IdleCall EXCEPT !.pc = "rediscover"]]
         ELSE \E p \in Shuffles(l) :
                call' = [call EXCEPT ![c] = [IdleCall EXCEPT !.pc = "loop",
                                                             !.cands = p]]
  /\ UNCHANGED <<vars, ret>>

Rediscover(c) ==
  /\ call[c].pc = "rediscover"
  /\ DiscoverGet(c)
  /\ call' = [call EXCEPT ![c].pc = "relookup"]
  /\ UNCHANGED <<ret, calls>>

Relookup(c) ==
  /\ ~crashed
  /\ call[c].pc = "relookup"
  /\ dpc[c] = "idle"
  /\ \E p \in Shuffles(Listed(cache, Target, CallScheme)) :
       call' = [call EXCEPT ![c].pc = "loop", ![c].cands = p]
  /\ UNCHANGED <<vars, ret, calls>>

(* The loop over the candidates: probe; unhealthy ones are evicted with   *)
(* DelServiceList and skipped; the first healthy one gets the request.    *)
(* A 200 whose data is not a JSON object fails the type assertion         *)
(* respData.Data.(map[string]interface{}) and panics the call.            *)
ProbeHealthy(c) ==
  /\ ~crashed
  /\ call[c].pc = "loop"
  /\ call[c].i <= Len(call[c].cands)
  /\ \E code \in Codes, verify \in IF HasVerify THEN BOOLEAN ELSE {FALSE} :
       call' = [call EXCEPT ![c].pc = "retry", ![c].code = code,
                            ![c].verify = verify, ![c].k = 0,
                            ![c].sent = @ + 1]
  /\ UNCHANGED <<vars, ret, calls>>

ProbeUnhealthy(c) ==
  /\ ~crashed
  /\ call[c].pc = "loop"
  /\ call[c].i <= Len(call[c].cands)
  /\ DelServiceList(Target, call[c].cands[call[c].i])
  /\ call' = [call EXCEPT ![c].i = @ + 1]
  /\ UNCHANGED <<lookup, lookups, live, log, discovered, watchers, dpc, pending, restarts,
                 discovers, ret, calls>>

ProbePanics(c) ==
  /\ ~crashed
  /\ call[c].pc = "loop"
  /\ call[c].i <= Len(call[c].cands)
  /\ call' = [call EXCEPT ![c].pc = "idle"]
  /\ ret' = [ret EXCEPT ![c] = [pc |-> "panic", code |-> 0, sent |-> call[c].sent,
                                 exhausted |-> FALSE, i |-> call[c].i,
                                 n |-> Len(call[c].cands)]]
  /\ UNCHANGED <<vars, calls>>

(* The value returned; the deferred function turns httpCode 0 into the    *)
(* "service not found, or no response" error.                             *)
Result(cl) == [pc |-> IF cl.code = 0 THEN "notFound" ELSE "returned",
               code |-> cl.code, sent |-> cl.sent,
               exhausted |-> cl.pc = "retry" /\ NeedRetry(cl),
               i |-> cl.i, n |-> Len(cl.cands)]

(* Every candidate was unhealthy: leave the loop with httpCode 0. *)
NoCandidateLeft(c) ==
  /\ ~crashed
  /\ call[c].pc = "loop"
  /\ call[c].i > Len(call[c].cands)
  /\ call' = [call EXCEPT ![c].pc = "idle"]
  /\ ret' = [ret EXCEPT ![c] = Result(call[c])]
  /\ UNCHANGED <<vars, calls>>

(* Seeded fault: the loop runs while k <= retryCount. *)
RetrySleepOffByOne(c) ==
  /\ ~crashed
  /\ call[c].pc = "retry"
  /\ call[c].k <= RetryCount
  /\ NeedRetry(call[c])
  /\ \E r \in RawJitters :
       call' = [call EXCEPT ![c].sleeps = Append(@, RetryTime(call[c].k, r)),
                            ![c].k = @ + 1]
  /\ UNCHANGED <<vars, ret, calls>>

(* One pass of `for k := 0; k < s.retryCount; k++`: when a retry is       *)
(* needed, sleep and continue; the request itself is not sent again.      *)
RetrySleep(c) ==
  /\ ~crashed
  /\ call[c].pc = "retry"
  /\ call[c].k < RetryCount
  /\ NeedRetry(call[c])
  /\ \E r \in RawJitters :
       call' = [call EXCEPT ![c].sleeps = Append(@, RetryTime(call[c].k, r)),
                            ![c].k = @ + 1]
  /\ UNCHANGED <<vars, ret, calls>>

ReturnFromCandidate(c) ==
  /\ ~crashed
  /\ call[c].pc = "retry"
  /\ call[c].k = RetryCount \/ ~NeedRetry(call[c])
  /\ call' = [call EXCEPT ![c].pc = "idle"]
  /\ ret' = [ret EXCEPT ![c] = Result(call[c])]
  /\ UNCHANGED <<vars, calls>>

(* A restart of the crashed process also ends the calls it was serving. *)
ClientRestart ==
  /\ Restart
  /\ call' = [c \in Callers |-> IdleCall]
  /\ UNCHANGED <<ret, calls>>

-----------------------------------------------------------------------------
ClientInit ==
  /\ Init
  /\ call = [c \in Callers |-> IdleCall]
  /\ ret = [c \in Callers |-> None]
  /\ calls = 0

(* Discover steps of a goroutine: the application's own Discover while it *)
(* serves no call, and the rest of a re-Discover that a call started.     *)
CallerDiscover(c) ==
  \/ /\ call[c].pc = "idle"
     /\ discovers < MaxDiscovers
     /\ DiscoverGet(c)
     /\ UNCHANGED cvars
  \/ /\ call[c].pc \in {"idle", "relookup"}
     /\ DiscoverSeed(c) \/ DiscoverCheck(c) \/ DiscoverSpawn(c)
     /\ UNCHANGED cvars

CallNext(c) ==
  \/ Begin(c) \/ Rediscover(c) \/ Relookup(c)
  \/ ProbeHealthy(c) \/ ProbeUnhealthy(c) \/ ProbePanics(c)
  \/ NoCandidateLeft(c) \/ RetrySleep(c) \/ ReturnFromCandidate(c)

ClientNext ==
  \/ (BackendNext \/ WatcherNext) /\ UNCHANGED cvars
  \/ \E c \in Callers : CallerDiscover(c) \/ CallNext(c)
  \/ ClientRestart

(* The steps of a retryRequest, its synchronous re-Discover included, are *)
(* the request goroutine's own, and the Go scheduler runs it; the         *)
(* application's own Discover calls, peers, the watcher and the restart   *)
(* get no fairness.                                                       *)
ClientFairness ==
  \A c \in Callers :
    /\ WF_allvars(CallNext(c))
    /\ WF_allvars(/\ call[c].pc = "relookup"
                  /\ (DiscoverSeed(c) \/ DiscoverCheck(c) \/ DiscoverSpawn(c))
                  /\ UNCHANGED cvars)

ClientSpec == ClientInit /\ [][ClientNext]_allvars /\ ClientFairness

-----------------------------------------------------------------------------
Outcome == [pc : {"panic", "notFound", "returned"}, code : {0, 200, 408, 500},
            sent : Nat, exhausted : BOOLEAN, i : Nat, n : Nat]

ClientTypeOK ==
  /\ TypeOK
  /\ \A c \in Callers :
       /\ call[c].pc \in {"idle", "rediscover", "relookup", "loop", "retry"}
       /\ call[c].cands \in Seq(Ids)
       /\ call[c].k \in 0..RetryCount
  /\ ret \in [Callers -> Outcome \cup {None}]
  /\ calls \in 0..MaxCalls
=============================================================================
