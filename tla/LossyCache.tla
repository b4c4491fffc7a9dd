----------------------------- MODULE LossyCache -----------------------------
(***************************************************************************)
(* What the Cache interface of token_introspection promises its callers,   *)
(* without saying how.  A cell per key holds the entry stored last, but    *)
(* any cell may be lost at any moment (an eviction, an expiry, a sweep):   *)
(* a lost entry costs one more introspection and nothing else.  A Get      *)
(* fetches the cell and then answers with what it fetched, and only while  *)
(* that entry is still within its lifetime.                                *)
(*                                                                         *)
(* The interceptor relies on this module alone; InMemoryCache implements   *)
(* it.                                                                     *)
(***************************************************************************)
EXTENDS Integers

CONSTANTS
    Callers,     \* goroutines that call Get and Set: the RPCs in progress
    Keys,        \* cache keys
    Results,     \* introspection results, records with a field ExpiresAt
    NoExpiry,    \* the zero time.Time: the result carries no expiration
    ttl,         \* time to live given to the cache
    nil          \* no entry

VARIABLES
    now,         \* the clock
    cell,        \* the entries that can be found, a function on a subset of Keys
    got,         \* got[c]: the entry that the Get of c fetched
    phase        \* phase[c]: how far the Get of c is

vars == <<now, cell, got, phase>>

(* The instant until which an entry stored at time t may be answered with. *)
Expiry(t, r) ==
    IF r.ExpiresAt # NoExpiry /\ r.ExpiresAt < t + ttl THEN r.ExpiresAt ELSE t + ttl

(* setAt is a history field: the instant at which Set read the clock. *)
MakeEntry(k, r, t) ==
    [key |-> k, result |-> r, expiresAt |-> Expiry(t, r), setAt |-> t]

Fresh(e) == now <= e.expiresAt

(* f without the keys of S *)
Without(f, S) == [k \in DOMAIN f \ S |-> f[k]]

(* f with k mapped to e *)
With(f, k, e) == [x \in DOMAIN f \cup {k} |-> IF x = k THEN e ELSE f[x]]

-----------------------------------------------------------------------------

Init ==
    /\ now = 0
    /\ cell = [k \in {} |-> nil]
    /\ got = [c \in Callers |-> nil]
    /\ phase = [c \in Callers |-> "idle"]

(* Time passes for everybody at once. *)
Advance ==
    /\ now' = now + 1
    /\ UNCHANGED <<cell, got, phase>>

(* A Set takes effect, at the clock reading it made earlier or now. *)
Put(k, r, t) ==
    /\ cell' = With(cell, k, MakeEntry(k, r, t))
    /\ UNCHANGED <<now, got, phase>>

(* An entry disappears. *)
Lose(k) ==
    /\ cell' = Without(cell, {k})
    /\ UNCHANGED <<now, got, phase>>

(* Get(k) finds the cell empty. *)
FetchNothing(c) ==
    /\ phase[c] = "idle"
    /\ phase' = [phase EXCEPT ![c] = "miss"]
    /\ UNCHANGED <<now, cell, got>>

(* Get(k) fetches the entry. *)
Fetch(c, k) ==
    /\ phase[c] = "idle"
    /\ k \in DOMAIN cell
    /\ got' = [got EXCEPT ![c] = cell[k]]
    /\ phase' = [phase EXCEPT ![c] = "fetched"]
    /\ UNCHANGED <<now, cell>>

(* Slip: an answer of any age. *)
HitAnyAge(c) ==
    /\ phase[c] = "fetched"
    /\ phase' = [phase EXCEPT ![c] = "hit"]
    /\ UNCHANGED <<now, cell, got>>

(* Get answers with an entry that is still alive. *)
Hit(c) ==
    /\ phase[c] = "fetched"
    /\ Fresh(got[c])
    /\ phase' = [phase EXCEPT ![c] = "hit"]
    /\ UNCHANGED <<now, cell, got>>

(* Get reports a miss although it fetched an entry: the entry has died. *)
Miss(c) ==
    /\ phase[c] = "fetched"
    /\ ~ Fresh(got[c])
    /\ phase' = [phase EXCEPT ![c] = "miss"]
    /\ got' = [got EXCEPT ![c] = nil]
    /\ UNCHANGED <<now, cell>>

(* Get is over. *)
Return(c) ==
    /\ phase[c] \in {"hit", "miss"}
    /\ phase' = [phase EXCEPT ![c] = "idle"]
    /\ got' = [got EXCEPT ![c] = nil]
    /\ UNCHANGED <<now, cell>>

Next ==
    \/ Advance
    \/ \E k \in Keys, r \in Results, t \in 0 .. now : Put(k, r, t)
    \/ \E k \in Keys : Lose(k)
    \/ \E c \in Callers : FetchNothing(c) \/ Hit(c) \/ Miss(c) \/ Return(c)
    \/ \E c \in Callers, k \in Keys : Fetch(c, k)

Spec == Init /\ [][Next]_vars
=============================================================================
