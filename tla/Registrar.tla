------------------------------ MODULE Registrar ------------------------------
(***************************************************************************)
(* The registrar of datax/etcdx: DB.Register (initService, Grant, Put      *)
(* under the lease, KeepAlive, `go e.ListenKeepAlive()`), ListenKeepAlive  *)
(* (on the end of the keep-alive stream: shutdown.Default().CloseManual(), *)
(* then Logger.Fatal) and DB.Deregister (Revoke, then Delete of            *)
(* e.Service.Key). etcd is modelled by its live leases, the lease the      *)
(* process's key is attached to, and the keep-alive stream of each lease.  *)
(* A lease whose stream is not open expires after its TTL and takes the    *)
(* keys attached to it; Revoke does the same at once.                      *)
(***************************************************************************)
EXTENDS Naturals, FiniteSets

CONSTANTS
  Callers,       \* goroutines calling Register and Deregister
  Leases,        \* lease IDs etcd can grant
  NoLease,       \* e.leaseID before any Register: the zero lease ID
  RegSchemes,    \* schemes the process may be configured with
  HookSet,       \* shutdown.Set was called: shutdown.Default() is not nil
  MaxCalls       \* bound on the Register and Deregister calls

ASSUME NoLease \notin Leases /\ RegSchemes \subseteq {"http", "https", "grpc"}

VARIABLES
  leases,      \* etcd: granted leases not revoked and not expired
  keyLease,    \* etcd: the lease the process's key /prefix/Name/ID is on
  ka,          \* ka[l]: the keep-alive stream of lease l
  used,        \* leases granted so far (etcd never reuses an ID)
  scheme,      \* service.Scheme of the process's ServiceInfo
  registered,  \* e.registered
  leaseID,     \* e.leaseID
  svcKeyIsOurs,\* e.Service.Key is the registered key (not a grpc record)
  pc,          \* where each caller is
  lc,          \* the lease a caller's Register was granted
  listener,    \* listener[l]: the ListenKeepAlive goroutine of lease l
  proc,        \* "running", or how the process ended
  deregOK,     \* a Deregister has returned nil
  calls        \* calls so far

vars == <<leases, keyLease, ka, used, scheme, registered, leaseID, svcKeyIsOurs,
          pc, lc, listener, proc, deregOK, calls>>

etcd == <<leases, keyLease, ka, used>>

Running == proc = "running"

(* etcd removes a revoked or expired lease together with its keys. *)
DropLease(l) ==
  /\ leases' = leases \ {l}
  /\ keyLease' = IF keyLease = l THEN NoLease ELSE keyLease

-----------------------------------------------------------------------------
(* Register: `if e.registered { return nil }`, initService (the scheme is  *)
(* one of schemeMaping), then Grant. Each etcd call may fail, and the      *)
(* function then returns the error, leaving what it already did behind.   *)

(* Seeded fault: Register without its `if e.registered` guard. *)
RegisterCallNoGuard(c) ==
  /\ Running /\ pc[c] = "idle" /\ calls < MaxCalls
  /\ calls' = calls + 1
  /\ pc' = [pc EXCEPT ![c] = "grant"]
  /\ UNCHANGED <<etcd, scheme, registered, leaseID, svcKeyIsOurs, lc, listener,
                 proc, deregOK>>

RegisterCall(c) ==
  /\ Running /\ pc[c] = "idle" /\ calls < MaxCalls
  /\ calls' = calls + 1
  /\ pc' = [pc EXCEPT ![c] = IF registered THEN "idle" ELSE "grant"]
  /\ UNCHANGED <<etcd, scheme, registered, leaseID, svcKeyIsOurs, lc, listener,
                 proc, deregOK>>

RegisterGrant(c) ==
  /\ Running /\ pc[c] = "grant"
  /\ \/ \E l \in Leases \ used :
          /\ leases' = leases \cup {l}
          /\ used' = used \cup {l}
          /\ lc' = [lc EXCEPT ![c] = l]
          /\ pc' = [pc EXCEPT ![c] = "put"]
     \/ /\ pc' = [pc EXCEPT ![c] = "idle"]          \* Grant failed
        /\ UNCHANGED <<leases, used, lc>>
  /\ UNCHANGED <<keyLease, ka, scheme, registered, leaseID, svcKeyIsOurs,
                 listener, proc, deregOK, calls>>

(* Put(key, val, WithLease(l)): fails once l has expired. *)
RegisterPut(c) ==
  /\ Running /\ pc[c] = "put"
  /\ \/ /\ lc[c] \in leases
        /\ keyLease' = lc[c]
        /\ pc' = [pc EXCEPT ![c] = "keepalive"]
     \/ /\ pc' = [pc EXCEPT ![c] = "idle"]          \* Put failed
        /\ UNCHANGED keyLease
  /\ UNCHANGED <<leases, ka, used, scheme, registered, leaseID, svcKeyIsOurs,
                 lc, listener, proc, deregOK, calls>>

(* Seeded fault: the bookkeeping without `e.leaseID = resp.ID`. *)
RegisterKeepAliveNoLeaseID(c) ==
  /\ Running /\ pc[c] = "keepalive"
  /\ ka' = [ka EXCEPT ![lc[c]] = IF lc[c] \in leases THEN "open" ELSE "closed"]
  /\ listener' = [listener EXCEPT ![lc[c]] = "running"]
  /\ registered' = TRUE
  /\ pc' = [pc EXCEPT ![c] = "idle"]
  /\ UNCHANGED <<leases, keyLease, used, scheme, leaseID, svcKeyIsOurs, lc,
                 proc, deregOK, calls>>

(* KeepAlive(l), then the bookkeeping and `go e.ListenKeepAlive()`. The   *)
(* stream of a lease that has already expired ends at once.               *)
RegisterKeepAlive(c) ==
  /\ Running /\ pc[c] = "keepalive"
  /\ \/ /\ ka' = [ka EXCEPT ![lc[c]] = IF lc[c] \in leases THEN "open"
                                                          ELSE "closed"]
        /\ svcKeyIsOurs' = (scheme # "grpc" \/ svcKeyIsOurs)
        /\ leaseID' = lc[c]
        /\ listener' = [listener EXCEPT ![lc[c]] = "running"]
        /\ registered' = TRUE
     \/ UNCHANGED <<ka, svcKeyIsOurs, leaseID, listener, registered>>
  /\ pc' = [pc EXCEPT ![c] = "idle"]
  /\ UNCHANGED <<leases, keyLease, used, scheme, lc, proc, deregOK, calls>>

-----------------------------------------------------------------------------
(* Deregister: Revoke(e.leaseID), returning its error (lease 0 or a lease *)
(* already gone), then registered = false and Delete(e.Service.Key).      *)

(* Seeded fault: Deregister that skips the Revoke. *)
DeregisterNoRevoke(c) ==
  /\ Running /\ pc[c] = "idle" /\ calls < MaxCalls
  /\ calls' = calls + 1
  /\ pc' = [pc EXCEPT ![c] = IF leaseID \in leases THEN "delete" ELSE "idle"]
  /\ UNCHANGED <<etcd, scheme, registered, leaseID, svcKeyIsOurs, lc, listener,
                 proc, deregOK>>

DeregisterRevoke(c) ==
  /\ Running /\ pc[c] = "idle" /\ calls < MaxCalls
  /\ calls' = calls + 1
  /\ IF leaseID \in leases
       THEN /\ DropLease(leaseID)
            /\ ka' = [ka EXCEPT ![leaseID] = IF @ = "open" THEN "closed" ELSE @]
            /\ pc' = [pc EXCEPT ![c] = "delete"]
       ELSE UNCHANGED <<leases, keyLease, ka, pc>>
  /\ UNCHANGED <<used, scheme, registered, leaseID, svcKeyIsOurs, lc, listener,
                 proc, deregOK>>

DeregisterDelete(c) ==
  /\ Running /\ pc[c] = "delete"
  /\ registered' = FALSE
  /\ \/ /\ keyLease' = IF svcKeyIsOurs THEN NoLease ELSE keyLease
        /\ deregOK' = TRUE
     \/ UNCHANGED <<keyLease, deregOK>>                 \* Delete failed
  /\ pc' = [pc EXCEPT ![c] = "idle"]
  /\ UNCHANGED <<leases, ka, used, scheme, leaseID, svcKeyIsOurs, lc, listener,
                 proc, calls>>

-----------------------------------------------------------------------------
(* etcd and the network: a keep-alive stream breaks, a lease that is not  *)
(* kept alive expires.                                                    *)

KeepAliveLost(l) ==
  /\ ka[l] = "open"
  /\ ka' = [ka EXCEPT ![l] = "closed"]
  /\ UNCHANGED <<leases, keyLease, used, scheme, registered, leaseID,
                 svcKeyIsOurs, pc, lc, listener, proc, deregOK, calls>>

LeaseExpire(l) ==
  /\ l \in leases /\ ka[l] # "open"
  /\ DropLease(l)
  /\ UNCHANGED <<ka, used, scheme, registered, leaseID, svcKeyIsOurs, pc, lc,
                 listener, proc, deregOK, calls>>

(* When the process ends, its keep-alive streams end with it. *)
Exit(how) ==
  /\ proc' = how
  /\ ka' = [l \in Leases |-> IF ka[l] = "open" THEN "closed" ELSE ka[l]]

(* Seeded fault: ListenKeepAlive that only logs the end of the stream. *)
ListenKeepAliveReturns(l) ==
  /\ Running /\ listener[l] = "running" /\ ka[l] = "closed"
  /\ listener' = [listener EXCEPT ![l] = "done"]
  /\ UNCHANGED <<leases, keyLease, ka, used, scheme, registered, leaseID,
                 svcKeyIsOurs, pc, lc, proc, deregOK, calls>>

(* ListenKeepAlive once the range over keepAliveChan ends: CloseManual on *)
(* a nil Hook panics; otherwise the close funcs run and Fatal exits.      *)
ListenKeepAlive(l) ==
  /\ Running /\ listener[l] = "running" /\ ka[l] = "closed"
  /\ listener' = [listener EXCEPT ![l] = "done"]
  /\ Exit(IF HookSet THEN "fatal" ELSE "panic")
  /\ UNCHANGED <<leases, keyLease, used, scheme, registered, leaseID,
                 svcKeyIsOurs, pc, lc, deregOK, calls>>

-----------------------------------------------------------------------------
Init ==
  /\ leases = {}
  /\ keyLease = NoLease
  /\ ka = [l \in Leases |-> "none"]
  /\ used = {}
  /\ scheme \in RegSchemes
  /\ registered = FALSE
  /\ leaseID = NoLease
  /\ svcKeyIsOurs = FALSE
  /\ pc = [c \in Callers |-> "idle"]
  /\ lc = [c \in Callers |-> NoLease]
  /\ listener = [l \in Leases |-> "none"]
  /\ proc = "running"
  /\ deregOK = FALSE
  /\ calls = 0

CallerNext(c) ==
  \/ RegisterCall(c) \/ RegisterGrant(c) \/ RegisterPut(c)
  \/ RegisterKeepAlive(c) \/ DeregisterRevoke(c) \/ DeregisterDelete(c)

EtcdNext(l) == KeepAliveLost(l) \/ LeaseExpire(l)

Next ==
  \/ \E c \in Callers : CallerNext(c)
  \/ \E l \in Leases : EtcdNext(l) \/ ListenKeepAlive(l)

(* The Go scheduler runs a runnable ListenKeepAlive goroutine, and etcd   *)
(* expires a lease nobody renews once its TTL has passed.                 *)
Fairness ==
  \A l \in Leases : /\ WF_vars(ListenKeepAlive(l))
                    /\ WF_vars(LeaseExpire(l))

Spec == Init /\ [][Next]_vars /\ Fairness

-----------------------------------------------------------------------------
TypeOK ==
  /\ leases \subseteq used /\ used \subseteq Leases
  /\ keyLease \in leases \cup {NoLease}
  /\ ka \in [Leases -> {"none", "open", "closed"}]
  /\ registered \in BOOLEAN /\ svcKeyIsOurs \in BOOLEAN /\ deregOK \in BOOLEAN
  /\ leaseID \in used \cup {NoLease}
  \* a registered process knows the lease Deregister has to revoke
  /\ registered => leaseID # NoLease
  /\ pc \in [Callers -> {"idle", "grant", "put", "keepalive", "delete"}]
  /\ lc \in [Callers -> used \cup {NoLease}]
  /\ listener \in [Leases -> {"none", "running", "done"}]
  /\ proc \in {"running", "fatal", "panic"}
  /\ calls \in 0..MaxCalls

(***************************************************************************)
(* Spec 3 and 4.1: the lease handle is owned by the registrar of one      *)
(* record, and Register is idempotent. However Register and Deregister     *)
(* calls, failed etcd calls and broken streams interleave, a running       *)
(* process keeps at most one lease alive.                                  *)
(***************************************************************************)
OneLeasePerProcess ==
  Running => Cardinality({l \in Leases : ka[l] = "open"}) <= 1

(***************************************************************************)
(* When Deregister has revoked the lease and Delete succeeded, no key of   *)
(* the process is left in etcd, also for a grpc record, whose key is in    *)
(* e.GrpcService while Delete removes e.Service.Key.                       *)
(***************************************************************************)
DeregisterLeavesNoKey ==
  [][\A c \in Callers :
       (pc[c] = "delete" /\ ~deregOK /\ deregOK') => keyLease' = NoLease]_vars

(***************************************************************************)
(* Spec 4.1, why a closed keep-alive stream is fatal: a process that still *)
(* counts itself registered while its key has gone from etcd does not go  *)
(* on serving; ListenKeepAlive eventually ends it.                        *)
(***************************************************************************)
LostKeyEndsProcess ==
  (Running /\ registered /\ keyLease = NoLease) ~> ~Running

====
