--------------------------- MODULE DiscoveryCache ---------------------------
(***************************************************************************)
(* The service-discovery cache of datax/etcdx: DB.Discover, the watch      *)
(* goroutine it starts (DB.Watcher driving serviceWatcher), and the two    *)
(* mutators SetServiceListing and DelServiceList of e.serviceListing.      *)
(* The etcd key space under the service prefix is modelled by the set of  *)
(* live instance IDs and the revision history of the prefix; other         *)
(* instances write it with Register and Deregister (or let a lease lapse). *)
(*                                                                         *)
(* A record is abstracted to its ID; its Name and Scheme are the fixed     *)
(* functions PeerName and PeerScheme. The key /Service/ns/Name/ID is       *)
(* parsed back by GetNameID, which on such keys returns (Name, ID).        *)
(***************************************************************************)
EXTENDS Naturals, Sequences, FiniteSets, SequencesExt

CONSTANTS
  Ids,          \* instance IDs of the records under the prefix
  PeerName,     \* PeerName[id]  = ServiceInfo.Name of record id
  PeerScheme,   \* PeerScheme[id] = ServiceInfo.Scheme of record id
  Schemes,      \* the schemes of schemeMaping: "http", "https", "grpc"
  OwnScheme,    \* e.Service.Val.Scheme when the process starts
  Callers,      \* goroutines that call Discover
  Nil,          \* a Go map lookup that finds no entry
  MaxEvents,    \* bound on the revisions written under the prefix
  MaxDiscovers, \* bound on the Discover calls of the process
  MaxRestarts,  \* bound on restarts of the process after a crash
  PeerMeta,     \* PeerMeta[id] = ServiceInfo.Meta of record id, as a set of <<key, value>>
  Metas,        \* the s.Meta a GetService caller passes; Nil is a nil map
  MaxLookups    \* bound on the GetService and GetServiceArray calls

Names == {PeerName[i] : i \in Ids}

ASSUME /\ PeerName \in [Ids -> Names]
       /\ PeerScheme \in [Ids -> Schemes]
       /\ OwnScheme \in Schemes \cup {""}
       /\ Nil \notin Seq(Ids)
       /\ MaxEvents \in Nat /\ MaxDiscovers \in Nat /\ MaxRestarts \in Nat
       /\ MaxLookups \in Nat

VARIABLES
  live,        \* etcd: IDs whose key exists under the prefix
  log,         \* etcd: log[r] is the watch event of revision r of the prefix
  cache,       \* e.serviceListing: Name -> (Scheme -> []ServiceRegister)
  discovered,  \* e.discovered
  watchers,    \* one record per goroutine started by `go e.Watcher(...)`
  dpc,         \* where each caller is inside Discover
  pending,     \* kvs of a caller's Get response not yet applied
  ownScheme,   \* e.Service.Val.Scheme; DelServiceList writes "http" into ""
  crashed,     \* the process died of an unrecovered panic
  restarts,    \* restarts so far
  discovers,   \* Discover calls so far
  lookup,      \* lookup[c]: c's last GetService(Array) call, its input and its answer
  lookups      \* GetService and GetServiceArray calls so far

vars == <<live, log, cache, discovered, watchers, dpc, pending, ownScheme,
          crashed, restarts, discovers, lookup, lookups>>

Event == [type : {"PUT", "DELETE"}, id : Ids]
Watcher == [st : {"spawned", "watching", "closed"}, from : Nat, pos : Nat]
InnerMap == [Schemes -> Seq(Ids) \cup {Nil}]

EmptyCache == [n \in Names |-> Nil]

(* The list e.serviceListing[n][s]; indexing a nil map yields a nil slice. *)
Listed(c, n, s) == IF c[n] = Nil THEN <<>>
                   ELSE IF c[n][s] = Nil THEN <<>> ELSE c[n][s]

(***************************************************************************)
(* SetServiceListing: decode the record, create the inner map and the      *)
(* slice when missing, and append. There is no replace-by-ID.              *)
(***************************************************************************)
(* Seeded fault: the record is filed under the process's own scheme. *)
SetServiceListingOwnScheme(c, id) ==
  LET n     == PeerName[id]
      s     == IF ownScheme = "" THEN "http" ELSE ownScheme
      inner == IF c[n] = Nil THEN [x \in Schemes |-> Nil] ELSE c[n]
  IN  [c EXCEPT ![n] = [inner EXCEPT ![s] = Append(Listed(c, n, s), id)]]

SetServiceListing(c, id) ==
  LET n     == PeerName[id]
      inner == IF c[n] = Nil THEN [s \in Schemes |-> Nil] ELSE c[n]
  IN  [c EXCEPT ![n] = [inner EXCEPT ![PeerScheme[id]] =
                          Append(Listed(c, n, PeerScheme[id]), id)]]

(* The scheme DelServiceList filters: the process's own, "http" if unset. *)
DelScheme == IF ownScheme = "" THEN "http" ELSE ownScheme

(* The filter loop of DelServiceList: keep every entry whose ID differs.  *)
(* Seeded faults: the loop drops only the first copy of the ID, or it     *)
(* compares Val.Name instead of Val.ID.                                   *)
WithoutFirstID(l, id) == RemoveFirst(l, id)
WithoutName(l, id) == SelectSeq(l, LAMBDA x : PeerName[x] # PeerName[id])

WithoutID(l, id) == Remove(l, id)

(***************************************************************************)
(* DelServiceList(name, id) as a step of the process: the assignment       *)
(* e.serviceListing[name][scheme] = newList panics when the inner map of   *)
(* name was never created (assignment to entry in nil map). The panic is   *)
(* not recovered in any goroutine of this package, so the process dies.    *)
(***************************************************************************)
DelServiceList(n, id) ==
  /\ ownScheme' = DelScheme
  /\ IF cache[n] = Nil
       THEN /\ crashed' = TRUE
            /\ UNCHANGED cache
       ELSE /\ cache' = [cache EXCEPT ![n][DelScheme] =
                            WithoutID(Listed(cache, n, DelScheme), id)]
            /\ UNCHANGED crashed

-----------------------------------------------------------------------------
(* Other instances: Register puts the record under a lease (a PUT event); *)
(* a second Register after a failed KeepAlive puts the same key again; a  *)
(* Deregister (Revoke, then Delete) or a lapsed lease deletes it.         *)

PeerRegister(id) ==
  /\ id \notin live
  /\ Len(log) < MaxEvents
  /\ live' = live \cup {id}
  /\ log' = Append(log, [type |-> "PUT", id |-> id])
  /\ UNCHANGED <<lookup, lookups, cache, discovered, watchers, dpc, pending, ownScheme,
                 crashed, restarts, discovers>>

PeerRePut(id) ==
  /\ id \in live
  /\ Len(log) < MaxEvents
  /\ log' = Append(log, [type |-> "PUT", id |-> id])
  /\ UNCHANGED <<lookup, lookups, live, cache, discovered, watchers, dpc, pending, ownScheme,
                 crashed, restarts, discovers>>

PeerDeregister(id) ==
  /\ id \in live
  /\ Len(log) < MaxEvents
  /\ live' = live \ {id}
  /\ log' = Append(log, [type |-> "DELETE", id |-> id])
  /\ UNCHANGED <<lookup, lookups, cache, discovered, watchers, dpc, pending, ownScheme,
                 crashed, restarts, discovers>>

-----------------------------------------------------------------------------
(* Discover: one Get under the prefix, each kv through SetServiceListing, *)
(* then `if !e.discovered { go e.Watcher(...); e.discovered = true }`,    *)
(* a check and an act with no lock between them.                         *)

DiscoverGet(c) ==
  /\ ~crashed
  /\ dpc[c] = "idle"
  /\ discovers' = discovers + 1
  /\ \/ /\ pending' = [pending EXCEPT ![c] = live]
        /\ dpc' = [dpc EXCEPT ![c] = "seed"]
     \/ UNCHANGED <<lookup, lookups, pending, dpc>>          \* Get failed: return err
  /\ UNCHANGED <<lookup, lookups, live, log, cache, discovered, watchers, ownScheme, crashed,
                 restarts>>

DiscoverSeed(c) ==
  /\ ~crashed
  /\ dpc[c] = "seed"
  /\ \E id \in pending[c] :
       /\ cache' = SetServiceListing(cache, id)
       /\ pending' = [pending EXCEPT ![c] = @ \ {id}]
  /\ UNCHANGED <<lookup, lookups, live, log, discovered, watchers, dpc, ownScheme, crashed,
                 restarts, discovers>>

DiscoverCheck(c) ==
  /\ ~crashed
  /\ dpc[c] = "seed"
  /\ pending[c] = {}
  /\ dpc' = [dpc EXCEPT ![c] = IF discovered THEN "idle" ELSE "spawn"]
  /\ UNCHANGED <<lookup, lookups, live, log, cache, discovered, watchers, pending, ownScheme,
                 crashed, restarts, discovers>>

DiscoverSpawn(c) ==
  /\ ~crashed
  /\ dpc[c] = "spawn"
  /\ watchers' = Append(watchers, [st |-> "spawned", from |-> 0, pos |-> 0])
  /\ discovered' = TRUE
  /\ dpc' = [dpc EXCEPT ![c] = "idle"]
  /\ UNCHANGED <<lookup, lookups, live, log, cache, pending, ownScheme, crashed, restarts,
                 discovers>>

-----------------------------------------------------------------------------
(* The watch goroutine: Watch opens at the current revision, so whatever  *)
(* was written between the Get of Discover and this step is never seen.   *)

WatchStart(w) ==
  /\ ~crashed
  /\ watchers[w].st = "spawned"
  /\ watchers' = [watchers EXCEPT ![w] =
                    [st |-> "watching", from |-> Len(log), pos |-> Len(log)]]
  /\ UNCHANGED <<lookup, lookups, live, log, cache, discovered, dpc, pending, ownScheme,
                 crashed, restarts, discovers>>

(* serviceWatcher on one event: PUT through SetServiceListing, DELETE     *)
(* through DelServiceListing (GetNameID, then DelServiceList).            *)
WatchApply(w) ==
  /\ ~crashed
  /\ watchers[w].st = "watching"
  /\ watchers[w].pos < Len(log)
  /\ LET ev == log[watchers[w].pos + 1] IN
       IF ev.type = "PUT"
         THEN /\ cache' = SetServiceListing(cache, ev.id)
              /\ UNCHANGED <<lookup, lookups, ownScheme, crashed>>
         ELSE DelServiceList(PeerName[ev.id], ev.id)
  /\ watchers' = [watchers EXCEPT ![w].pos = @ + 1]
  /\ UNCHANGED <<lookup, lookups, live, log, discovered, dpc, pending, restarts, discovers>>

(* The watch channel closes (compaction, cancellation): the range loop of *)
(* Watcher ends, nothing restarts it, and e.discovered stays true.        *)
WatchClosed(w) ==
  /\ ~crashed
  /\ watchers[w].st = "watching"
  /\ watchers' = [watchers EXCEPT ![w].st = "closed"]
  /\ UNCHANGED <<lookup, lookups, live, log, cache, discovered, dpc, pending, ownScheme,
                 crashed, restarts, discovers>>

(* The supervisor restarts a crashed process: all memory is fresh.        *)
Restart ==
  /\ crashed
  /\ restarts < MaxRestarts
  /\ restarts' = restarts + 1
  /\ crashed' = FALSE
  /\ cache' = EmptyCache
  /\ discovered' = FALSE
  /\ watchers' = <<>>
  /\ dpc' = [c \in Callers |-> "idle"]
  /\ pending' = [c \in Callers |-> {}]
  /\ ownScheme' = OwnScheme
  /\ UNCHANGED <<lookup, lookups, live, log, discovers>>

-----------------------------------------------------------------------------
(***************************************************************************)
(* The balancer policies (discover.go 126-166) over the list               *)
(* e.serviceListing[name][scheme], and GetService and GetServiceArray,     *)
(* which callers use without taking e.mu. rand.Intn and rand.Perm are      *)
(* nondeterministic choices. A record's Val is named by its ID.            *)
(***************************************************************************)
ZeroInfo == "ServiceInfo{}"
Panic == "panic"
NoLookup == [k |-> 0, op |-> "none"]

(* RandomPermPolicy: the list in any order (rand.Perm of the indices). *)
Shuffles(l) == {[j \in 1..Len(l) |-> l[p[j]]] : p \in Permutations(1..Len(l))}

(* RandomPolicy: l[rand.Intn(len(l))].Val; rand.Intn(0) panics. *)
RandomPolicy(l) == IF l = <<>> THEN {Panic} ELSE {l[i] : i \in 1..Len(l)}

(* The tags (k, v) of meta with val.Meta[k] == v. A key the record lacks   *)
(* reads as "", which no tag value is.                                     *)
TagsMatched(meta, id) == meta \cap PeerMeta[id]

(* MetaPermPolicy: over the permuted list, and for each tag of meta, the   *)
(* record is appended whenever that one tag matches.                       *)
MetaPermPolicy(meta, l) ==
  { FlattenSeq([j \in 1..Len(p) |->
                  [t \in 1..Cardinality(TagsMatched(meta, p[j])) |-> p[j]]])
    : p \in Shuffles(l) }

(* MetaPolicy: the first record of MetaPermPolicy's list, or nil. *)
MetaPolicy(meta, l) ==
  {IF r = <<>> THEN Nil ELSE Head(r) : r \in MetaPermPolicy(meta, l)}

(* GetService: MetaPolicy when s.Meta is not nil, else RandomPolicy (no    *)
(* caller passes a balancer). A missing name or scheme, or the nil of      *)
(* MetaPolicy (its assertion to ServiceInfo fails), gives ServiceInfo{}.   *)
GetService(c, n, sch, meta) ==
  IF c[n] = Nil THEN {ZeroInfo}
  ELSE IF c[n][sch] = Nil THEN {ZeroInfo}
  ELSE IF meta # Nil
       THEN {IF r = Nil THEN ZeroInfo ELSE r : r \in MetaPolicy(meta, c[n][sch])}
       ELSE RandomPolicy(c[n][sch])

(* GetServiceArray: MetaPermPolicy when s.Meta is not nil, else            *)
(* RandomPermPolicy; a missing name or scheme gives a nil slice.           *)
GetServiceArray(c, n, sch, meta) ==
  IF c[n] = Nil THEN {<<>>}
  ELSE IF c[n][sch] = Nil THEN {<<>>}
  ELSE IF meta # Nil THEN MetaPermPolicy(meta, c[n][sch])
       ELSE Shuffles(c[n][sch])

(* A caller goroutine's GetService. A panic ends the process unless the    *)
(* caller recovers it (a mux handler outside debug mode does).             *)
Lookup(c) ==
  /\ ~crashed
  /\ dpc[c] = "idle"
  /\ lookups < MaxLookups
  /\ \E n \in Names, sch \in Schemes, meta \in Metas :
       \E res \in GetService(cache, n, sch, meta) :
         /\ lookup' = [lookup EXCEPT ![c] = [k |-> lookups + 1, op |-> "one", name |-> n,
                                             scheme |-> sch, meta |-> meta, res |-> res]]
         /\ crashed' \in IF res = Panic THEN BOOLEAN ELSE {FALSE}
  /\ lookups' = lookups + 1
  /\ UNCHANGED <<live, log, cache, discovered, watchers, dpc, pending, ownScheme,
                 restarts, discovers>>

(* A caller goroutine's GetServiceArray. *)
LookupArray(c) ==
  /\ ~crashed
  /\ dpc[c] = "idle"
  /\ lookups < MaxLookups
  /\ \E n \in Names, sch \in Schemes, meta \in Metas :
       \E res \in GetServiceArray(cache, n, sch, meta) :
         lookup' = [lookup EXCEPT ![c] = [k |-> lookups + 1, op |-> "array", name |-> n,
                                          scheme |-> sch, meta |-> meta, res |-> res]]
  /\ lookups' = lookups + 1
  /\ UNCHANGED <<live, log, cache, discovered, watchers, dpc, pending, ownScheme,
                 crashed, restarts, discovers>>

-----------------------------------------------------------------------------
Init ==
  /\ live = {}
  /\ log = <<>>
  /\ cache = EmptyCache
  /\ discovered = FALSE
  /\ watchers = <<>>
  /\ dpc = [c \in Callers |-> "idle"]
  /\ pending = [c \in Callers |-> {}]
  /\ ownScheme = OwnScheme
  /\ crashed = FALSE
  /\ restarts = 0
  /\ discovers = 0
  /\ lookup = [c \in Callers |-> NoLookup]
  /\ lookups = 0

BackendNext ==
  \E id \in Ids : PeerRegister(id) \/ PeerRePut(id) \/ PeerDeregister(id)

DiscoverNext(c) ==
  \/ discovers < MaxDiscovers /\ DiscoverGet(c)
  \/ DiscoverSeed(c) \/ DiscoverCheck(c) \/ DiscoverSpawn(c)

WatcherNext ==
  \E w \in DOMAIN watchers : WatchStart(w) \/ WatchApply(w) \/ WatchClosed(w)

LookupNext(c) == Lookup(c) \/ LookupArray(c)

Next ==
  \/ BackendNext
  \/ \E c \in Callers : DiscoverNext(c) \/ LookupNext(c)
  \/ WatcherNext
  \/ Restart

Spec == Init /\ [][Next]_vars

-----------------------------------------------------------------------------
TypeOK ==
  /\ live \subseteq Ids
  /\ log \in Seq(Event)
  /\ cache \in [Names -> InnerMap \cup {Nil}]
  \* the index is well formed: cache[n][s] lists only instances of n and s
  /\ \A n \in Names, s \in Schemes :
       \A id \in ToSet(Listed(cache, n, s)) : PeerName[id] = n /\ PeerScheme[id] = s
  /\ discovered \in BOOLEAN
  /\ watchers \in Seq(Watcher)
  /\ dpc \in [Callers -> {"idle", "seed", "spawn"}]
  /\ pending \in [Callers -> SUBSET Ids]
  /\ ownScheme \in Schemes \cup {""}
  /\ crashed \in BOOLEAN
  /\ restarts \in 0..MaxRestarts
  /\ discovers \in Nat
  /\ lookups \in 0..MaxLookups

(* The revision of the last PUT of id, 0 when there is none. *)
LastPut(id) ==
  LET rs == {r \in DOMAIN log : log[r] = [type |-> "PUT", id |-> id]}
  IN  IF rs = {} THEN 0 ELSE CHOOSE r \in rs : \A q \in rs : q <= r

(* Every watch goroutine is open and has applied every event. *)
WatchersCaughtUp ==
  \A w \in DOMAIN watchers : /\ watchers[w].st = "watching"
                             /\ watchers[w].pos = Len(log)

(***************************************************************************)
(* A live instance whose latest registration a watch goroutine received is *)
(* in the cache under its own name and scheme once every watch goroutine   *)
(* has applied every event: no DELETE of serviceWatcher, applied by any    *)
(* watcher and under whatever scheme DelServiceList picks, removes another *)
(* instance's entry, and applying a lagging watcher's older events cannot  *)
(* undo a newer registration.                                              *)
(***************************************************************************)
CaughtUpCacheHasLivePeers ==
  (~crashed /\ WatchersCaughtUp) =>
    \A id \in live :
      (\E w \in DOMAIN watchers : watchers[w].from < LastPut(id))
        => id \in ToSet(Listed(cache, PeerName[id], PeerScheme[id]))

(***************************************************************************)
(* Spec 8: after serviceWatcher applies a DELETE of (name, id), no entry   *)
(* with that ID is left in the list of the scheme DelServiceList filters,  *)
(* even when Discover re-seeding or a re-registration put copies there.    *)
(***************************************************************************)
DeleteLeavesNoCopy ==
  [][\A w \in DOMAIN watchers \cap DOMAIN watchers' :
       LET r == watchers'[w].pos IN
       ( /\ watchers[w].st = "watching"
         /\ r = watchers[w].pos + 1
         /\ log[r].type = "DELETE"
         /\ ~crashed' )
       => log[r].id \notin
            ToSet(Listed(cache', PeerName[log[r].id], ownScheme'))]_vars

(***************************************************************************)
(* serviceWatcher never brings the process down: a DELETE event is applied *)
(* or skipped, never a panic (spec 4.2: the loop never returns, a bad      *)
(* event is logged and skipped).                                           *)
(***************************************************************************)
WatcherNeverPanics == ~crashed

(***************************************************************************)
(* Spec 4.3, as reference definitions: with meta tags, GetService answers  *)
(* a record of the list whose Meta carries every tag, or the zero          *)
(* ServiceInfo when none does, and GetServiceArray lists those records in  *)
(* some order, each entry once; without tags the answer is any record, or  *)
(* the zero ServiceInfo for an empty list, and the whole list permuted.    *)
(***************************************************************************)
Qualifies(meta, id) == meta = Nil \/ meta \subseteq PeerMeta[id]

SpecGetService(l, meta) ==
  LET ok == {l[i] : i \in {j \in 1..Len(l) : Qualifies(meta, l[j])}}
  IN  IF ok = {} THEN {ZeroInfo} ELSE ok

SpecGetServiceArray(l, meta) == Shuffles(SelectSeq(l, LAMBDA id : Qualifies(meta, id)))

(* Every GetService and GetServiceArray call answers what spec 4.3 says of *)
(* the cached list it read (the call changes nothing else it reads).       *)
GetServiceMeetsSpec ==
  [][\A c \in Callers :
       LET q == lookup'[c]
           l == Listed(cache, q.name, q.scheme)
       IN  (q # lookup[c] /\ q.op # "none") =>
             IF q.op = "one" THEN q.res \in SpecGetService(l, q.meta)
                             ELSE q.res \in SpecGetServiceArray(l, q.meta)]_vars

=============================================================================
