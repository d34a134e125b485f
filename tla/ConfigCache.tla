----------------------------- MODULE ConfigCache -----------------------------
(***************************************************************************)
(* The configuration cache of datax/etcdx: DB.Configuring (SetPrefix,      *)
(* e.ConfigInfo = conf, one Get under the prefix applied by setConfFunc,   *)
(* then `go e.Watcher(conf.Prefix, confWatcher)`), confWatcher, and        *)
(* SetConfig, which types a value from its text with the identify regexes *)
(* and strconv before storing it in e.configListing.                      *)
(*                                                                         *)
(* A key /Config/ns/name/k is the pair of its prefix and its name k; the  *)
(* key confWatcher stores after strings.TrimPrefix is k alone. A text is   *)
(* a sequence of one-character strings.                                    *)
(***************************************************************************)
EXTENDS Naturals, Sequences, SequencesExt, TLC

CONSTANTS
  ConfPrefixes,        \* ConfigInfo prefixes /Config/ns/name/ the process configures
  Keys,            \* setting names under a prefix
  Texts,           \* values an operator writes, as sequences of characters
  ValidJSON,       \* the texts json.Unmarshal accepts
  NoPrefix,        \* a stored key with no prefix, and e.ConfigInfo.Prefix before Configuring
  Absent,          \* no entry in a Go map / no key in etcd
  Callers,         \* goroutines calling Configuring
  MaxEvents,       \* bound on revisions written under the prefixes
  MaxConfigurings  \* bound on Configuring calls

ASSUME ValidJSON \subseteq Texts /\ NoPrefix \notin ConfPrefixes

VARIABLES
  kv,          \* etcd: kv[<<p, k>>] is the text of /p/k, or Absent
  log,         \* etcd: the PUT and DELETE events, in revision order
  store,       \* e.configListing
  confPrefix,  \* e.ConfigInfo.Prefix
  watchers,    \* one record per `go e.Watcher(conf.Prefix, confWatcher)`
  cpc,         \* where each caller is inside Configuring
  pending,     \* kvs of a caller's Get response not yet applied
  configurings \* Configuring calls so far

vars == <<kv, log, store, confPrefix, watchers, cpc, pending, configurings>>

StoreKeys == {[pre |-> p, k |-> k] : p \in ConfPrefixes \cup {NoPrefix}, k \in Keys}

-----------------------------------------------------------------------------
(* identify and strconv on sequences of characters. *)

Digits == {"0", "1", "2", "3", "4", "5", "6", "7", "8", "9"}
DigitVal == [d \in Digits |-> CHOOSE n \in 0..9 : ToString(n) = d]
Lower(c) == IF c \in {"T", "R", "U", "E", "F", "A", "L", "S"}
              THEN ("T" :> "t" @@ "R" :> "r" @@ "U" :> "u" @@ "E" :> "e" @@
                    "F" :> "f" @@ "A" :> "a" @@ "L" :> "l" @@ "S" :> "s")[c]
              ELSE c

(* strings.TrimSpace *)
TrimSpace(s) ==
  LET ns == {i \in DOMAIN s : s[i] # " "}
  IN  IF ns = {} THEN <<>> ELSE SubSeq(s, Min(ns), Max(ns))

AllDigits(s) == Len(s) > 0 /\ \A i \in DOMAIN s : s[i] \in Digits

(* identify.IsDigit: ^\d+$ *)
IsDigit(s) == AllDigits(s)

(* identify.IsFloat: ^\d+.\d+$, where . is any character *)
IsFloat(s) ==
  \E i \in 2..(Len(s) - 1) : AllDigits(SubSeq(s, 1, i - 1))
                             /\ AllDigits(SubSeq(s, i + 1, Len(s)))

(* identify.IsBool: ^(true)|(false)$ on strings.ToLower(s), which is      *)
(* "starts with true" or "ends with false".                               *)
IsBool(s) ==
  LET l == [i \in DOMAIN s |-> Lower(s[i])]
  IN  IsPrefix(<<"t", "r", "u", "e">>, l) \/ IsSuffix(<<"f", "a", "l", "s", "e">>, l)

(* strconv.Atoi on digits (in range for the texts of the model) *)
Atoi(s) == FoldLeft(LAMBDA acc, d : acc * 10 + DigitVal[d], 0, s)

(* strconv.ParseFloat: the number, or 0 with an error. A float is kept as *)
(* its text.                                                              *)
ParseFloat(s) == IF \E i \in DOMAIN s : s[i] = "." THEN s ELSE <<"0">>

(* strconv.ParseBool: false with an error for any other text. *)
TrueTexts == {<<"1">>, <<"t">>, <<"T">>, <<"t", "r", "u", "e">>,
              <<"T", "R", "U", "E">>, <<"T", "r", "u", "e">>}
ParseBool(s) == s \in TrueTexts

Value ==
  [kind : {"object", "array"}, val : Texts] \cup [kind : {"nil"}] \cup
  [kind : {"int"}, val : Nat] \cup [kind : {"float", "string"}, val : Seq(STRING)]

(* Seeded fault: a bool stored as its text, without strconv.ParseBool. *)
ScalarValueNoBoolParse(sv) ==
  CASE IsDigit(sv) -> [kind |-> "int", val |-> Atoi(sv)]
    [] IsFloat(sv) -> [kind |-> "float", val |-> ParseFloat(sv)]
    [] IsBool(sv)  -> [kind |-> "bool", val |-> sv]
    [] OTHER       -> [kind |-> "string", val |-> sv]

(* The branch of SetConfig for a text that is not JSON-shaped. *)
ScalarValue(sv) ==
  CASE IsDigit(sv) -> [kind |-> "int", val |-> Atoi(sv)]
    [] IsFloat(sv) -> [kind |-> "float", val |-> ParseFloat(sv)]
    [] IsBool(sv)  -> [kind |-> "bool", val |-> ParseBool(sv)]
    [] OTHER       -> [kind |-> "string", val |-> sv]

(* The value SetConfig stores for a text: JSON for { and [ (nil when      *)
(* json.Unmarshal fails), otherwise the scalar typing.                   *)
TypedValue(t) ==
  LET sv == TrimSpace(t) IN
  IF sv # <<>> /\ sv[1] \in {"{", "["}
    THEN IF t \in ValidJSON
           THEN [kind |-> IF sv[1] = "{" THEN "object" ELSE "array", val |-> t]
           ELSE [kind |-> "nil"]
    ELSE ScalarValue(sv)

SetConfig(key, t) == store' = [store EXCEPT ![key] = TypedValue(t)]

(* Seeded fault: confWatcher storing the key as received. *)
TrimNothing(p, k) == [pre |-> p, k |-> k]

(* strings.TrimPrefix(key, e.ConfigInfo.Prefix) *)
TrimPrefix(p, k) == [pre |-> IF p = confPrefix THEN NoPrefix ELSE p, k |-> k]

-----------------------------------------------------------------------------
(* An operator writes or deletes settings under the prefixes.            *)

EtcdPut(p, k, t) ==
  /\ Len(log) < MaxEvents
  /\ kv' = [kv EXCEPT ![<<p, k>>] = t]
  /\ log' = Append(log, [type |-> "PUT", p |-> p, k |-> k, text |-> t])
  /\ UNCHANGED <<store, confPrefix, watchers, cpc, pending, configurings>>

EtcdDelete(p, k) ==
  /\ Len(log) < MaxEvents
  /\ kv[<<p, k>>] # Absent
  /\ kv' = [kv EXCEPT ![<<p, k>>] = Absent]
  /\ log' = Append(log, [type |-> "DELETE", p |-> p, k |-> k, text |-> <<>>])
  /\ UNCHANGED <<store, confPrefix, watchers, cpc, pending, configurings>>

-----------------------------------------------------------------------------
(* Configuring: e.ConfigInfo = conf before the Get, so a failed Get still *)
(* leaves the new prefix behind; setConfFunc then calls SetConfig with    *)
(* the full key of each kv, one at a time under e.mu; finally the watch   *)
(* goroutine is started, whatever watchers already run.                   *)

ConfiguringGet(c, p) ==
  /\ cpc[c] = "idle" /\ configurings < MaxConfigurings
  /\ configurings' = configurings + 1
  /\ confPrefix' = p
  /\ \/ /\ pending' = [pending EXCEPT ![c] =
                         {[k |-> k, text |-> kv[<<p, k>>]] : k \in {x \in Keys : kv[<<p, x>>] # Absent}}]
        /\ cpc' = [cpc EXCEPT ![c] = p]
     \/ UNCHANGED <<pending, cpc>>                  \* Get failed: return err
  /\ UNCHANGED <<kv, log, store, watchers>>

ConfiguringSeed(c) ==
  /\ cpc[c] \in ConfPrefixes
  /\ \E e \in pending[c] :
       /\ SetConfig([pre |-> cpc[c], k |-> e.k], e.text)
       /\ pending' = [pending EXCEPT ![c] = @ \ {e}]
  /\ UNCHANGED <<kv, log, confPrefix, watchers, cpc, configurings>>

ConfiguringSpawn(c) ==
  /\ cpc[c] \in ConfPrefixes
  /\ pending[c] = {}
  /\ watchers' = Append(watchers, [p |-> cpc[c], st |-> "spawned", from |-> 0, pos |-> 0])
  /\ cpc' = [cpc EXCEPT ![c] = "idle"]
  /\ UNCHANGED <<kv, log, store, confPrefix, pending, configurings>>

-----------------------------------------------------------------------------
(* The watch goroutine: Watch(prefix) opens at the current revision and   *)
(* receives the events of its prefix; confWatcher stores a PUT under the  *)
(* key trimmed with e.ConfigInfo.Prefix as it is when the event arrives,  *)
(* and ignores a DELETE.                                                  *)

WatchStart(w) ==
  /\ watchers[w].st = "spawned"
  /\ watchers' = [watchers EXCEPT ![w].st = "watching", ![w].from = Len(log),
                                   ![w].pos = Len(log)]
  /\ UNCHANGED <<kv, log, store, confPrefix, cpc, pending, configurings>>

WatchApply(w) ==
  /\ watchers[w].st = "watching"
  /\ watchers[w].pos < Len(log)
  /\ LET ev == log[watchers[w].pos + 1] IN
       IF ev.p = watchers[w].p /\ ev.type = "PUT"
         THEN SetConfig(TrimPrefix(ev.p, ev.k), ev.text)
         ELSE UNCHANGED store
  /\ watchers' = [watchers EXCEPT ![w].pos = @ + 1]
  /\ UNCHANGED <<kv, log, confPrefix, cpc, pending, configurings>>

(* The watch channel closes; the loop of Watcher ends and nothing restarts it. *)
WatchClosed(w) ==
  /\ watchers[w].st = "watching"
  /\ watchers' = [watchers EXCEPT ![w].st = "closed"]
  /\ UNCHANGED <<kv, log, store, confPrefix, cpc, pending, configurings>>

-----------------------------------------------------------------------------
Init ==
  /\ kv = [pk \in ConfPrefixes \X Keys |-> Absent]
  /\ log = <<>>
  /\ store = [key \in StoreKeys |-> Absent]
  /\ confPrefix = NoPrefix
  /\ watchers = <<>>
  /\ cpc = [c \in Callers |-> "idle"]
  /\ pending = [c \in Callers |-> {}]
  /\ configurings = 0

EtcdNext ==
  \E p \in ConfPrefixes, k \in Keys : EtcdDelete(p, k) \/ \E t \in Texts : EtcdPut(p, k, t)

CallerNext(c) ==
  \/ \E p \in ConfPrefixes : ConfiguringGet(c, p)
  \/ ConfiguringSeed(c) \/ ConfiguringSpawn(c)

WatcherNext(w) == WatchStart(w) \/ WatchApply(w) \/ WatchClosed(w)

Next ==
  \/ EtcdNext
  \/ \E c \in Callers : CallerNext(c)
  \/ \E w \in DOMAIN watchers : WatcherNext(w)

Spec == Init /\ [][Next]_vars

-----------------------------------------------------------------------------
TypeOK ==
  /\ kv \in [ConfPrefixes \X Keys -> Texts \cup {Absent}]
  /\ DOMAIN store = StoreKeys
  \* a bool is a Go bool (tested through its printed form, so that a value
  \* of another type is reported, not an evaluation error)
  /\ \A key \in StoreKeys :
       \/ store[key] = Absent
       \/ IF store[key].kind = "bool" THEN ToString(store[key].val) \in {"TRUE", "FALSE"}
                                     ELSE store[key] \in Value
  /\ confPrefix \in ConfPrefixes \cup {NoPrefix}
  /\ cpc \in [Callers -> ConfPrefixes \cup {"idle"}]
  /\ configurings \in 0..MaxConfigurings

(* The revision of the last event on /p/k, 0 when there is none. *)
LastRev(p, k) ==
  LET rs == {r \in DOMAIN log : log[r].p = p /\ log[r].k = k}
  IN  IF rs = {} THEN 0 ELSE Max(rs)

(* No Configuring in flight, and every watch goroutine has applied every event. *)
Quiescent ==
  /\ \A c \in Callers : cpc[c] = "idle"
  /\ \A w \in DOMAIN watchers : watchers[w].st = "watching" /\ watchers[w].pos = Len(log)

(***************************************************************************)
(* Once every watch goroutine has caught up, a setting of the configured   *)
(* prefix whose last write is a PUT that some watcher received is stored,  *)
(* under its name, as SetConfig types that PUT's text: the unguarded       *)
(* duplicate watchers of repeated Configuring calls, applying the same     *)
(* events at their own pace, leave the newest value, not an older one.     *)
(***************************************************************************)
CaughtUpConfigIsLatest ==
  Quiescent =>
    \A k \in Keys :
      LET r == LastRev(confPrefix, k) IN
      ( /\ r > 0 /\ log[r].type = "PUT"
        /\ \E w \in DOMAIN watchers : watchers[w].p = confPrefix /\ watchers[w].from < r )
      => store[[pre |-> NoPrefix, k |-> k]] = TypedValue(log[r].text)
====
