--------------------------- MODULE InMemoryCache ---------------------------
(***************************************************************************)
(* The in-memory cache of introspection results,                           *)
(* src/token_introspection/cache.go: a sync.Map of entries, read and       *)
(* written by any number of RPC goroutines, an eviction loop under a       *)
(* mutex that Get and the sweeper do not take, and a sweeper goroutine     *)
(* that stops when its context is cancelled.                               *)
(*                                                                         *)
(* One action per access to the shared map, because every other goroutine  *)
(* may run between two of them.  sync.Map.Range visits each key at most    *)
(* once and may show, for each key, any mapping it had during the call:    *)
(* a Range is a set of keys still to visit, each visited at a moment of    *)
(* its own.                                                                *)
(***************************************************************************)
EXTENDS Integers, FiniteSets

CONSTANTS
    Callers,            \* goroutines that may be inside Get or Set
    Keys,               \* cache keys
    ExpiresAts,         \* the values of IntrospectionResult.ExpiresAt
    NoExpiry,           \* the zero time.Time
    ttl,                \* the argument ttl of NewInMemoryCache
    MaxEntriesOption,   \* the argument of WithMaxEntries
    sweepInterval,      \* the argument of WithSweepInterval
    Horizon,            \* bound on the clock
    nil                 \* no key, no entry, no holder

ASSUME CallersFinite == IsFiniteSet(Callers) /\ nil \notin Callers
ASSUME KeysFinite == IsFiniteSet(Keys) /\ nil \notin Keys
ASSUME ExpiresAtsAreTimes == ExpiresAts \subseteq Nat \cup {NoExpiry} /\ NoExpiry \notin Nat
ASSUME OptionsAreIntegers ==
    ttl \in Nat /\ MaxEntriesOption \in Int /\ sweepInterval \in Int /\ Horizon \in Nat

(* WithMaxEntries: a negative bound means none. *)
maxEntries == IF MaxEntriesOption < 0 THEN 0 ELSE MaxEntriesOption

Results == [ExpiresAt : ExpiresAts]

VARIABLES
    now,           \* time.Now()
    entries,       \* inMemoryCache.entries, a function on the keys that are present
    evictMu,       \* inMemoryCache.evictMu: the caller that holds it, or nil
    pc,            \* pc[c]: where caller c is
    key,           \* key[c]: the argument key of its Get or Set
    entry,         \* entry[c]: the entry its Get has loaded or its Set will store
    count,         \* locals of evictIfNeeded; only the holder of evictMu has any
    todo,          \* keys that its current Range has still to visit
    oldestKey,
    oldestExpiry,
    ctxDone,       \* ctx.Done() is closed
    spc,           \* where the sweeper is
    sweepNow,      \* its local now
    sweepTodo,     \* keys that its Range has still to visit
    sweepKey       \* the key that its callback is about to delete

callerVars == <<pc, key, entry>>
evictVars == <<evictMu, count, todo, oldestKey, oldestExpiry>>
sweepVars == <<ctxDone, spc, sweepNow, sweepTodo, sweepKey>>
vars == <<now, entries, callerVars, evictVars, sweepVars>>

(* Slip: the token's expiration is ignored. *)
ExpiryOfTTL(t, r) == t + ttl

(* Slip: result.ExpiresAt.IsZero() is not asked. *)
ExpiryZeroTime(t, r) ==
    IF r.ExpiresAt = NoExpiry \/ r.ExpiresAt < t + ttl THEN r.ExpiresAt ELSE t + ttl

(* entry.expiresAt as Set computes it: now + ttl, or the expiration of the *)
(* token when that is earlier.                                             *)
Expiry(t, r) ==
    IF r.ExpiresAt # NoExpiry /\ r.ExpiresAt < t + ttl THEN r.ExpiresAt ELSE t + ttl

(* cacheEntry.  key and setAt are history: under which key and at which    *)
(* clock reading the entry was made.                                       *)
MakeEntry(k, r, t) ==
    [key |-> k, result |-> r, expiresAt |-> Expiry(t, r), setAt |-> t]

Entries == [key : Keys, result : Results, expiresAt : Nat, setAt : Nat]

(* t.After(e.expiresAt) *)
Expired(e, t) == t > e.expiresAt

Present == DOMAIN entries

(* sync.Map.Delete and sync.Map.Store *)
Deleted(k) == [x \in Present \ {k} |-> entries[x]]
Stored(k, e) == [x \in Present \cup {k} |-> IF x = k THEN e ELSE entries[x]]

GetPCs == {"get_check", "get_delete", "hit", "miss"}
EvictPCs == {"evict_lock", "evict_count", "evict_scan"}

(* Callers that have stored an entry and not yet finished evictIfNeeded. *)
Evicting == {c \in Callers : pc[c] \in EvictPCs}

Goto(c, label) == pc' = [pc EXCEPT ![c] = label]

(* NewInMemoryCache; the sweeper is started only for a positive interval. *)
Init ==
    /\ now = 0
    /\ entries = [k \in {} |-> nil]
    /\ evictMu = nil
    /\ pc = [c \in Callers |-> "idle"]
    /\ key = [c \in Callers |-> nil]
    /\ entry = [c \in Callers |-> nil]
    /\ count = 0
    /\ todo = {}
    /\ oldestKey = nil
    /\ oldestExpiry = 0
    /\ ctxDone = FALSE
    /\ spc = IF sweepInterval > 0 THEN "select" ELSE "stopped"
    /\ sweepNow = 0
    /\ sweepTodo = {}
    /\ sweepKey = nil

Tick ==
    /\ now < Horizon
    /\ now' = now + 1
    /\ UNCHANGED <<entries, callerVars, evictVars, sweepVars>>

-----------------------------------------------------------------------------
(* Get *)

(* c.entries.Load(key) finds nothing. *)
GetMiss(c, k) ==
    /\ pc[c] = "idle"
    /\ k \notin Present
    /\ Goto(c, "miss")
    /\ key' = [key EXCEPT ![c] = k]
    /\ UNCHANGED <<now, entries, entry, evictVars, sweepVars>>

(* c.entries.Load(key) finds an entry. *)
GetLoad(c, k) ==
    /\ pc[c] = "idle"
    /\ k \in Present
    /\ Goto(c, "get_check")
    /\ key' = [key EXCEPT ![c] = k]
    /\ entry' = [entry EXCEPT ![c] = entries[k]]
    /\ UNCHANGED <<now, entries, evictVars, sweepVars>>

(* Slip: the comparison the wrong way round. *)
GetCheckInverted(c) ==
    /\ pc[c] = "get_check"
    /\ Goto(c, IF Expired(entry[c], now) THEN "hit" ELSE "get_delete")
    /\ UNCHANGED <<now, entries, key, entry, evictVars, sweepVars>>

(* if time.Now().After(entry.expiresAt) *)
GetCheck(c) ==
    /\ pc[c] = "get_check"
    /\ Goto(c, IF Expired(entry[c], now) THEN "get_delete" ELSE "hit")
    /\ UNCHANGED <<now, entries, key, entry, evictVars, sweepVars>>

(* c.entries.Delete(key): whatever is stored under the key by now *)
GetDelete(c) ==
    /\ pc[c] = "get_delete"
    /\ entries' = Deleted(key[c])
    /\ Goto(c, "miss")
    /\ UNCHANGED <<now, key, entry, evictVars, sweepVars>>

Leave(c) ==
    /\ Goto(c, "idle")
    /\ key' = [key EXCEPT ![c] = nil]
    /\ entry' = [entry EXCEPT ![c] = nil]

GetReturn(c) ==
    /\ pc[c] \in {"hit", "miss"}
    /\ Leave(c)
    /\ UNCHANGED <<now, entries, evictVars, sweepVars>>

-----------------------------------------------------------------------------
(* Set and evictIfNeeded *)

(* Set(key, result) reads the clock and makes the entry. *)
SetStart(c, k, r) ==
    /\ pc[c] = "idle"
    /\ Goto(c, "set_store")
    /\ key' = [key EXCEPT ![c] = k]
    /\ entry' = [entry EXCEPT ![c] = MakeEntry(k, r, now)]
    /\ UNCHANGED <<now, entries, evictVars, sweepVars>>

(* c.entries.Store(key, entry), then evictIfNeeded if there is a bound *)
SetStore(c) ==
    /\ pc[c] = "set_store"
    /\ entries' = Stored(key[c], entry[c])
    /\ IF maxEntries > 0
       THEN Goto(c, "evict_lock") /\ UNCHANGED <<key, entry>>
       ELSE Leave(c)
    /\ UNCHANGED <<now, evictVars, sweepVars>>

(* c.evictMu.Lock(), and the counting Range begins *)
EvictLock(c) ==
    /\ pc[c] = "evict_lock"
    /\ evictMu = nil
    /\ evictMu' = c
    /\ count' = 0
    /\ todo' = Keys
    /\ Goto(c, "evict_count")
    /\ UNCHANGED <<now, entries, key, entry, oldestKey, oldestExpiry, sweepVars>>

(* The counting Range comes to key k and shows it if it is present. *)
EvictCount(c, k) ==
    /\ pc[c] = "evict_count"
    /\ k \in todo
    /\ todo' = todo \ {k}
    /\ count' = IF k \in Present THEN count + 1 ELSE count
    /\ UNCHANGED <<now, entries, callerVars, evictMu, oldestKey, oldestExpiry, sweepVars>>

(* for count > c.maxEntries: the scanning Range begins *)
EvictAgain(c) ==
    /\ pc[c] = "evict_count"
    /\ todo = {}
    /\ count > maxEntries
    /\ todo' = Keys
    /\ oldestKey' = nil
    /\ oldestExpiry' = 0
    /\ Goto(c, "evict_scan")
    /\ UNCHANGED <<now, entries, key, entry, evictMu, count, sweepVars>>

(* Slip: the first key has nothing to be compared with. *)
EvictScanNoFirst(c, k) ==
    /\ pc[c] = "evict_scan"
    /\ k \in todo
    /\ todo' = todo \ {k}
    /\ IF k \in Present /\ entries[k].expiresAt < oldestExpiry
       THEN oldestKey' = k /\ oldestExpiry' = entries[k].expiresAt
       ELSE UNCHANGED <<oldestKey, oldestExpiry>>
    /\ UNCHANGED <<now, entries, callerVars, evictMu, count, sweepVars>>

(* The scanning Range comes to key k and keeps it if it expires first. *)
EvictScan(c, k) ==
    /\ pc[c] = "evict_scan"
    /\ k \in todo
    /\ todo' = todo \ {k}
    /\ IF k \in Present /\ (oldestKey = nil \/ entries[k].expiresAt < oldestExpiry)
       THEN oldestKey' = k /\ oldestExpiry' = entries[k].expiresAt
       ELSE UNCHANGED <<oldestKey, oldestExpiry>>
    /\ UNCHANGED <<now, entries, callerVars, evictMu, count, sweepVars>>

(* Slip: count-- inside the if, so that only a deletion makes progress. *)
EvictDeleteCounted(c) ==
    /\ pc[c] = "evict_scan"
    /\ todo = {}
    /\ entries' = IF oldestKey = nil THEN entries ELSE Deleted(oldestKey)
    /\ count' = IF oldestKey = nil THEN count ELSE count - 1
    /\ oldestKey' = nil
    /\ oldestExpiry' = 0
    /\ Goto(c, "evict_count")
    /\ UNCHANGED <<now, key, entry, evictMu, todo, sweepVars>>

(* if oldestKey != nil, c.entries.Delete(oldestKey); count-- *)
EvictDelete(c) ==
    /\ pc[c] = "evict_scan"
    /\ todo = {}
    /\ entries' = IF oldestKey = nil THEN entries ELSE Deleted(oldestKey)
    /\ count' = count - 1
    /\ oldestKey' = nil
    /\ oldestExpiry' = 0
    /\ Goto(c, "evict_count")
    /\ UNCHANGED <<now, key, entry, evictMu, todo, sweepVars>>

(* The loop ends, the deferred Unlock runs and Set returns. *)
EvictUnlock(c) ==
    /\ pc[c] = "evict_count"
    /\ todo = {}
    /\ count <= maxEntries
    /\ evictMu' = nil
    /\ count' = 0
    /\ Leave(c)
    /\ UNCHANGED <<now, entries, todo, oldestKey, oldestExpiry, sweepVars>>

-----------------------------------------------------------------------------
(* sweepLoop.  The ticker is taken to fire at any moment: the interval     *)
(* says how often a sweep begins, not what one does.                       *)

(* Slip: now is read before the loop. *)
SweepTickStale ==
    /\ spc = "select"
    /\ spc' = "range"
    /\ sweepNow' = 0
    /\ sweepTodo' = Keys
    /\ UNCHANGED <<now, entries, callerVars, evictVars, ctxDone, sweepKey>>

(* case <-ticker.C: now is read once for the whole Range *)
SweepTick ==
    /\ spc = "select"
    /\ spc' = "range"
    /\ sweepNow' = now
    /\ sweepTodo' = Keys
    /\ UNCHANGED <<now, entries, callerVars, evictVars, ctxDone, sweepKey>>

(* The Range comes to key k; the callback decides on the entry it is shown. *)
SweepVisit(k) ==
    /\ spc = "range"
    /\ k \in sweepTodo
    /\ sweepTodo' = sweepTodo \ {k}
    /\ IF k \in Present /\ Expired(entries[k], sweepNow)
       THEN spc' = "delete" /\ sweepKey' = k
       ELSE UNCHANGED <<spc, sweepKey>>
    /\ UNCHANGED <<now, entries, callerVars, evictVars, ctxDone, sweepNow>>

(* c.entries.Delete(key): whatever is stored under the key by now *)
SweepDelete ==
    /\ spc = "delete"
    /\ entries' = Deleted(sweepKey)
    /\ spc' = "range"
    /\ sweepKey' = nil
    /\ UNCHANGED <<now, callerVars, evictVars, ctxDone, sweepNow, sweepTodo>>

SweepEnd ==
    /\ spc = "range"
    /\ sweepTodo = {}
    /\ spc' = "select"
    /\ sweepNow' = 0
    /\ UNCHANGED <<now, entries, callerVars, evictVars, ctxDone, sweepTodo, sweepKey>>

(* Slip: break leaves the select, not the loop. *)
SweepExitBreak ==
    /\ spc = "select"
    /\ ctxDone
    /\ UNCHANGED vars

(* case <-ctx.Done(): return *)
SweepExit ==
    /\ spc = "select"
    /\ ctxDone
    /\ spc' = "stopped"
    /\ UNCHANGED <<now, entries, callerVars, evictVars, ctxDone, sweepNow, sweepTodo, sweepKey>>

(* The owner of the context cancels it. *)
Cancel ==
    /\ ~ ctxDone
    /\ ctxDone' = TRUE
    /\ UNCHANGED <<now, entries, callerVars, evictVars, spc, sweepNow, sweepTodo, sweepKey>>

-----------------------------------------------------------------------------

EvictStep(c) ==
    \/ EvictAgain(c) \/ EvictDelete(c) \/ EvictUnlock(c)
    \/ \E k \in Keys : EvictCount(c, k) \/ EvictScan(c, k)

(* What caller c does inside Get or Set, waiting for evictMu excepted. *)
CallerStep(c) ==
    GetCheck(c) \/ GetDelete(c) \/ GetReturn(c) \/ SetStore(c) \/ EvictStep(c)

CallerStart(c) ==
    \E k \in Keys :
        GetMiss(c, k) \/ GetLoad(c, k) \/ \E r \in Results : SetStart(c, k, r)

Sweep == SweepTick \/ SweepDelete \/ SweepEnd \/ \E k \in Keys : SweepVisit(k)

Next ==
    \/ Tick \/ Cancel \/ Sweep \/ SweepExit
    \/ \E c \in Callers : CallerStart(c) \/ CallerStep(c) \/ EvictLock(c)

Spec == Init /\ [][Next]_vars

(* The Go scheduler runs every runnable goroutine.  sync.Mutex hands the   *)
(* lock to a waiter that has starved for 1ms, and select chooses fairly    *)
(* among its ready cases: both are strong fairness.  Nobody has to call    *)
(* Get or Set, to cancel the context or to move the clock.                 *)
Fairness ==
    /\ \A c \in Callers : WF_vars(CallerStep(c)) /\ SF_vars(EvictLock(c))
    /\ WF_vars(Sweep)
    /\ SF_vars(SweepExit)

FairSpec == Spec /\ Fairness

-----------------------------------------------------------------------------
(* Properties *)

PCs == {"idle", "set_store"} \cup GetPCs \cup EvictPCs

(* The state is well formed: every entry was made by Expiry, and the       *)
(* locals of evictIfNeeded exist only while its mutex is held.             *)
TypeOK ==
    /\ now \in Nat
    /\ Present \subseteq Keys
    /\ entries \in [Present -> Entries]
    /\ evictMu \in Callers \cup {nil}
    /\ pc \in [Callers -> PCs]
    /\ key \in [Callers -> Keys \cup {nil}]
    /\ entry \in [Callers -> Entries \cup {nil}]
    /\ count \in Nat
    /\ todo \subseteq Keys
    /\ oldestKey \in Keys \cup {nil}
    /\ oldestExpiry \in Nat
    /\ ctxDone \in BOOLEAN
    /\ spc \in {"select", "range", "delete", "stopped"}
    /\ sweepNow \in Nat
    /\ sweepTodo \subseteq Keys
    /\ sweepKey \in Keys \cup {nil}

(* The bound of WithMaxEntries is exceeded by no more entries than there   *)
(* are Sets that have stored and not yet finished evictIfNeeded; when no   *)
(* Set is in progress the cache holds at most maxEntries entries, however  *)
(* Get and the sweeper raced with the counting.                            *)
CapacityBound ==
    maxEntries > 0 => Cardinality(Present) <= maxEntries + Cardinality(Evicting)

(* A Get that decides to answer does so with an entry that was stored      *)
(* under the key it was asked for, not more than ttl ago, and whose token  *)
(* has not expired, even if the entry it loaded is gone by then.           *)
HitIsFresh ==
    [][\A c \in Callers :
        pc[c] # "hit" /\ pc'[c] = "hit" =>
            /\ entry'[c].key = key'[c]
            /\ now <= entry'[c].setAt + ttl
            /\ entry'[c].result.ExpiresAt # NoExpiry => now <= entry'[c].result.ExpiresAt
      ]_vars

(* The documentation of WithMaxEntries: eviction deletes an entry only     *)
(* when the bound is exceeded, and then one that no other entry precedes   *)
(* in expiration.                                                          *)
EvictsAsDocumented ==
    [][\A c \in Callers :
        EvictDelete(c) /\ entries' # entries =>
            /\ Cardinality(Present) > maxEntries
            /\ \A k \in Present : entries[oldestKey].expiresAt <= entries[k].expiresAt
      ]_vars

(* Every Set returns: the eviction loop ends although other callers keep   *)
(* storing while it counts and scans, and no caller is left waiting for    *)
(* evictMu.                                                                *)
SetCompletes == \A c \in Callers : pc[c] = "set_store" ~> pc[c] = "idle"

(* An expired entry that nobody asks for any more does not stay for ever   *)
(* while the sweeper is running.                                           *)
ExpiredIsSwept ==
    \A k \in Keys :
        (k \in Present /\ Expired(entries[k], now))
            ~> (ctxDone \/ k \notin Present \/ ~ Expired(entries[k], now))

(* The sweeper goroutine does not outlive its context. *)
SweeperStops == ctxDone ~> spc = "stopped"

(* The state of a LossyCache that this one stands for: what a Get holds in *)
(* its hand, and how far it is.  A Set and its eviction show only in       *)
(* entries.                                                                *)
gotMap == [c \in Callers |-> IF pc[c] \in {"get_check", "hit"} THEN entry[c] ELSE nil]
phaseMap ==
    [c \in Callers |->
        CASE pc[c] = "get_check" -> "fetched"
          [] pc[c] \in {"get_delete", "miss"} -> "miss"
          [] pc[c] = "hit" -> "hit"
          [] OTHER -> "idle"]

Promise == INSTANCE LossyCache WITH cell <- entries, got <- gotMap, phase <- phaseMap

(* The cache is a LossyCache: seen from outside, eviction and sweeping are *)
(* nothing but loss, and no Get answers with anything that Set did not     *)
(* store or whose time is over.                                            *)
ImplementsLossyCache == Promise!Spec
=============================================================================
