------------------------ MODULE InMemoryCacheProofs ------------------------
(***************************************************************************)
(* Proofs about InMemoryCache for any sets of callers and keys, any ttl,   *)
(* any bound on the entries and any horizon of the clock.                  *)
(***************************************************************************)
EXTENDS InMemoryCache, FiniteSetTheorems, TLAPS

(* Inside a call the locals of the caller are defined. *)
LocalsInv ==
    \A c \in Callers :
        /\ pc[c] # "idle" => key[c] \in Keys
        /\ pc[c] \in {"get_check", "hit", "set_store"} => entry[c] \in Entries

(* evictMu excludes: its holder is the one caller inside evictIfNeeded,    *)
(* which is entered only when there is a bound.  Inside the loop the count *)
(* exceeds the bound, so that count-- cannot make it negative.             *)
MutexInv ==
    \A c \in Callers :
        /\ pc[c] \in {"evict_count", "evict_scan"} <=> evictMu = c
        /\ pc[c] \in EvictPCs => maxEntries > 0
        /\ pc[c] = "evict_scan" => count > maxEntries

TypeInv == TypeOK /\ LocalsInv /\ MutexInv

(* The option of WithMaxEntries is normalised to a natural number. *)
LEMMA MaxEntriesNat == maxEntries \in Nat
  BY OptionsAreIntegers DEF maxEntries

(* Set makes well-formed entries. *)
LEMMA MakeEntryType ==
    ASSUME NEW k \in Keys, NEW r \in Results, NEW t \in Nat
    PROVE  MakeEntry(k, r, t) \in Entries
  <1>1. r.ExpiresAt \in Nat \cup {NoExpiry}
    BY ExpiresAtsAreTimes DEF Results
  <1>2. Expiry(t, r) \in Nat
    BY <1>1, OptionsAreIntegers DEF Expiry
  <1> QED
    BY <1>2 DEF MakeEntry, Entries

(* Deleting and storing keep the map a map from keys to entries. *)
LEMMA DeletedType ==
    ASSUME TypeOK, NEW k, entries' = Deleted(k)
    PROVE  /\ Present' = Present \ {k}
           /\ entries' \in [Present' -> Entries]
           /\ Present' \subseteq Keys
           /\ \A x \in Present' : entries'[x] = entries[x]
  BY DEF TypeOK, Deleted, Present

(* Store adds the key and keeps the map well formed. *)
LEMMA StoredType ==
    ASSUME TypeOK, NEW k \in Keys, NEW e \in Entries, entries' = Stored(k, e)
    PROVE  /\ Present' = Present \cup {k}
           /\ entries' \in [Present' -> Entries]
           /\ Present' \subseteq Keys
           /\ entries'[k] = e
           /\ \A x \in Present : x # k => entries'[x] = entries[x]
  BY DEF TypeOK, Stored, Present

(* An empty cache with idle callers is well formed. *)
LEMMA TypeInit == Init => TypeInv
  <1> SUFFICES ASSUME Init PROVE TypeInv
    OBVIOUS
  <1> USE DEF Init
  <1>1. TypeOK
    BY DEF TypeOK, Present, PCs
  <1>2. LocalsInv
    BY DEF LocalsInv
  <1>3. MutexInv
    BY CallersFinite DEF MutexInv, EvictPCs
  <1> QED
    BY <1>1, <1>2, <1>3 DEF TypeInv

(* One step per action; the mutex makes the locals of evictIfNeeded the    *)
(* holder's own.                                                           *)
LEMMA TypeNext == TypeInv /\ [Next]_vars => TypeInv'
  <1> SUFFICES ASSUME TypeInv, [Next]_vars PROVE TypeInv'
    OBVIOUS
  <1> USE MaxEntriesNat, OptionsAreIntegers DEF TypeInv
  <1> USE DEF TypeOK, LocalsInv, MutexInv, PCs, GetPCs, EvictPCs, Goto, Leave,
              callerVars, evictVars, sweepVars
  <1>1. CASE UNCHANGED vars
    BY <1>1 DEF vars, Present
  <1>2. CASE Tick
    BY <1>2 DEF Tick, Present
  <1>2a. CASE Cancel
    <2>1. ctxDone' \in BOOLEAN
      BY <1>2a DEF Cancel
    <2> QED
      BY <1>2a, <2>1 DEF Cancel, Present
  <1>3. CASE SweepTick \/ SweepEnd \/ SweepExit
    BY <1>3 DEF SweepTick, SweepEnd, SweepExit, Present
  <1>4. ASSUME NEW k \in Keys, SweepVisit(k) PROVE TypeInv'
    BY <1>4 DEF SweepVisit, Present
  <1>5. CASE SweepDelete
    BY <1>5, DeletedType DEF SweepDelete
  <1>6. ASSUME NEW c \in Callers, CallerStart(c) PROVE TypeInv'
    <2>1. ASSUME NEW k \in Keys, GetMiss(c, k) PROVE TypeInv'
      BY <2>1 DEF GetMiss, Present
    <2>2. ASSUME NEW k \in Keys, GetLoad(c, k) PROVE TypeInv'
      BY <2>2 DEF GetLoad, Present
    <2>3. ASSUME NEW k \in Keys, NEW r \in Results, SetStart(c, k, r) PROVE TypeInv'
      BY <2>3, MakeEntryType DEF SetStart, Present
    <2> QED
      BY <1>6, <2>1, <2>2, <2>3 DEF CallerStart
  <1>7. ASSUME NEW c \in Callers, CallerStep(c) PROVE TypeInv'
    <2>1. CASE GetCheck(c)
      BY <2>1 DEF GetCheck, Present
    <2>2. CASE GetDelete(c)
      BY <2>2, DeletedType DEF GetDelete
    <2>3. CASE GetReturn(c)
      BY <2>3 DEF GetReturn, Present
    <2>4. CASE SetStore(c)
      BY <2>4, StoredType DEF SetStore
    <2>5. CASE EvictAgain(c)
      BY <2>5 DEF EvictAgain, Present
    <2>6. CASE EvictDelete(c)
      BY <2>6, DeletedType DEF EvictDelete, Present
    <2>7. CASE EvictUnlock(c)
      BY <2>7, CallersFinite DEF EvictUnlock, Present
    <2>8. ASSUME NEW k \in Keys, EvictCount(c, k) PROVE TypeInv'
      BY <2>8 DEF EvictCount, Present
    <2>9. ASSUME NEW k \in Keys, EvictScan(c, k) PROVE TypeInv'
      BY <2>9 DEF EvictScan, Present, Entries
    <2> QED
      BY <1>7, <2>1, <2>2, <2>3, <2>4, <2>5, <2>6, <2>7, <2>8, <2>9
      DEF CallerStep, EvictStep
  <1>8. ASSUME NEW c \in Callers, EvictLock(c) PROVE TypeInv'
    BY <1>8, CallersFinite DEF EvictLock, Present
  <1> QED
    BY <1>1, <1>2, <1>3, <1>4, <1>5, <1>6, <1>7, <1>8, <1>2a DEF Next, Sweep

(* Types, locals and mutual exclusion hold throughout. *)
LEMMA TypeInvariant == Spec => []TypeInv
  BY TypeInit, TypeNext, PTL DEF Spec

(* Every reachable state of the cache is well formed. *)
THEOREM TypeCorrect == Spec => []TypeOK
  <1>1. TypeInv => TypeOK
    BY DEF TypeInv
  <1> QED
    BY <1>1, TypeInvariant, PTL

-----------------------------------------------------------------------------
(* The bound on the entries *)

Others(h) == Evicting \ {h}

(* While h counts, the keys its Range has passed and that are present now  *)
(* were counted or were stored by another caller, which has yet to evict.  *)
CountInv ==
    \A h \in Callers : pc[h] = "evict_count" =>
        Cardinality(Present \ todo) <= count + Cardinality(Others(h))

(* While h scans, count still bounds the entries up to what others have    *)
(* stored, even if the key it chose has been deleted by somebody else, and *)
(* the Range can end without a choice only if every entry that is present  *)
(* was stored by another caller meanwhile.                                 *)
ScanInv ==
    \A h \in Callers : pc[h] = "evict_scan" =>
        /\ Cardinality(Present) <= count + Cardinality(Others(h))
        /\ oldestKey = nil => Cardinality(Present \ todo) <= Cardinality(Others(h))
        /\ oldestKey # nil =>
              Cardinality(Present \cup {oldestKey}) <= count + Cardinality(Others(h))

CapacityInv == CapacityBound /\ CountInv /\ ScanInv

(* A subset of a finite set is finite and not larger. *)
LEMMA CardMono ==
    ASSUME NEW S, NEW T, IsFiniteSet(T), S \subseteq T
    PROVE  /\ IsFiniteSet(S)
           /\ Cardinality(S) \in Nat
           /\ Cardinality(T) \in Nat
           /\ Cardinality(S) <= Cardinality(T)
  BY FS_Subset, FS_CardinalityType

(* Storing one key adds at most one entry. *)
LEMMA CardAdd ==
    ASSUME NEW S, NEW x, IsFiniteSet(S)
    PROVE  /\ IsFiniteSet(S \cup {x})
           /\ Cardinality(S) \in Nat
           /\ Cardinality(S \cup {x}) \in Nat
           /\ Cardinality(S \cup {x}) <= Cardinality(S) + 1
           /\ x \notin S => Cardinality(S \cup {x}) = Cardinality(S) + 1
  <1>1. Cardinality(S) \in Nat
    BY FS_CardinalityType
  <1>2. CASE x \in S
    <2>1. S \cup {x} = S
      BY <1>2
    <2> QED
      BY <1>1, <1>2, <2>1
  <1>3. CASE x \notin S
    BY <1>1, <1>3, FS_AddElement
  <1> QED
    BY <1>2, <1>3

(* All sets whose sizes are compared are finite. *)
LEMMA Finiteness ==
    ASSUME TypeOK
    PROVE  /\ IsFiniteSet(Present)
           /\ IsFiniteSet(Evicting)
           /\ \A S : IsFiniteSet(Present \ S) /\ Cardinality(Present \ S) \in Nat
           /\ \A h : IsFiniteSet(Others(h)) /\ Cardinality(Others(h)) \in Nat
           /\ \A k : IsFiniteSet(Present \cup {k}) /\ Cardinality(Present \cup {k}) \in Nat
           /\ Cardinality(Present) \in Nat
           /\ Cardinality(Evicting) \in Nat
  <1>1. IsFiniteSet(Present) /\ IsFiniteSet(Evicting)
    BY KeysFinite, CallersFinite, FS_Subset DEF TypeOK, Evicting
  <1>2. ASSUME NEW S PROVE IsFiniteSet(Present \ S) /\ Cardinality(Present \ S) \in Nat
    BY <1>1, FS_Subset, FS_CardinalityType, Present \ S \subseteq Present
  <1>3. ASSUME NEW h PROVE IsFiniteSet(Others(h)) /\ Cardinality(Others(h)) \in Nat
    BY <1>1, FS_Subset, FS_CardinalityType, Others(h) \subseteq Evicting DEF Others
  <1>4. ASSUME NEW k
        PROVE  IsFiniteSet(Present \cup {k}) /\ Cardinality(Present \cup {k}) \in Nat
    BY <1>1, CardAdd
  <1> QED
    BY <1>1, <1>2, <1>3, <1>4, FS_CardinalityType

(* An empty cache respects every bound. *)
LEMMA CapacityInit == Init => CapacityInv
  <1> SUFFICES ASSUME Init PROVE CapacityInv
    OBVIOUS
  <1>1. Present = {} /\ Evicting = {}
    BY DEF Init, Present, Evicting, EvictPCs
  <1>2. CapacityBound
    BY <1>1, FS_EmptySet, MaxEntriesNat DEF CapacityBound
  <1>3. CountInv /\ ScanInv
    BY DEF Init, CountInv, ScanInv
  <1> QED
    BY <1>2, <1>3 DEF CapacityInv

(* A step that stores nothing and leaves evictIfNeeded alone. *)
LEMMA CapacityFrame ==
    ASSUME TypeInv, TypeInv', CapacityInv,
           Present' \subseteq Present,
           UNCHANGED evictVars,
           \A c \in Callers :
                pc[c] \in EvictPCs \/ pc'[c] \in EvictPCs => pc'[c] = pc[c]
    PROVE  CapacityInv'
  <1>1. Evicting' = Evicting /\ \A h : Others(h)' = Others(h)
    BY DEF Evicting, Others
  <1>2. /\ Cardinality(Present') <= Cardinality(Present)
        /\ Cardinality(Present' \ todo) <= Cardinality(Present \ todo)
        /\ Cardinality(Present' \cup {oldestKey}) <= Cardinality(Present \cup {oldestKey})
    BY Finiteness, CardMono DEF TypeInv
  <1>3. /\ Cardinality(Present') \in Nat
        /\ Cardinality(Present' \ todo) \in Nat
        /\ Cardinality(Present' \cup {oldestKey}) \in Nat
    BY Finiteness, CardMono DEF TypeInv
  <1>4. CapacityBound'
    BY <1>1, <1>2, <1>3, Finiteness, MaxEntriesNat DEF CapacityInv, CapacityBound, TypeInv
  <1>5. CountInv'
    <2> SUFFICES ASSUME NEW h \in Callers, pc'[h] = "evict_count"
                 PROVE  Cardinality(Present' \ todo) <= count + Cardinality(Others(h))
      BY <1>1 DEF CountInv, evictVars
    <2>1. Cardinality(Present \ todo) <= count + Cardinality(Others(h))
      BY DEF CapacityInv, CountInv, EvictPCs
    <2>2. count \in Nat
      BY DEF TypeInv, TypeOK
    <2>3. /\ Cardinality(Present) \in Nat
          /\ Cardinality(Present \ todo) \in Nat
          /\ Cardinality(Present \cup {oldestKey}) \in Nat
          /\ Cardinality(Others(h)) \in Nat
      BY Finiteness DEF TypeInv
    <2> QED
      BY <2>1, <2>2, <2>3, <1>2, <1>3
  <1>6. ScanInv'
    <2> SUFFICES ASSUME NEW h \in Callers, pc'[h] = "evict_scan"
                 PROVE  /\ Cardinality(Present') <= count + Cardinality(Others(h))
                        /\ oldestKey = nil =>
                              Cardinality(Present' \ todo) <= Cardinality(Others(h))
                        /\ oldestKey # nil =>
                              Cardinality(Present' \cup {oldestKey})
                                  <= count + Cardinality(Others(h))
      BY <1>1 DEF ScanInv, evictVars
    <2>1. /\ Cardinality(Present) <= count + Cardinality(Others(h))
          /\ oldestKey = nil => Cardinality(Present \ todo) <= Cardinality(Others(h))
          /\ oldestKey # nil =>
                Cardinality(Present \cup {oldestKey}) <= count + Cardinality(Others(h))
      BY DEF CapacityInv, ScanInv, EvictPCs
    <2>2. count \in Nat
      BY DEF TypeInv, TypeOK
    <2>3. /\ Cardinality(Present) \in Nat
          /\ Cardinality(Present \ todo) \in Nat
          /\ Cardinality(Present \cup {oldestKey}) \in Nat
          /\ Cardinality(Others(h)) \in Nat
      BY Finiteness DEF TypeInv
    <2> QED
      BY <2>1, <2>2, <2>3, <1>2, <1>3
  <1> QED
    BY <1>4, <1>5, <1>6 DEF CapacityInv

(* A stored entry is paid for by its caller, who joins Evicting. *)
LEMMA CapacitySetStore ==
    ASSUME TypeInv, TypeInv', CapacityInv, NEW c \in Callers, SetStore(c)
    PROVE  CapacityInv'
  <1> DEFINE k == key[c]
  <1>1. k \in Keys /\ entry[c] \in Entries
    BY DEF SetStore, TypeInv, LocalsInv
  <1>2. Present' = Present \cup {k}
    BY <1>1, StoredType DEF SetStore, TypeInv
  <1>3. UNCHANGED evictVars /\ \A h \in Callers : h # c => pc'[h] = pc[h]
    BY DEF SetStore, Goto, Leave, TypeInv, TypeOK
  <1>4. CASE maxEntries = 0
    <2>1. \A h \in Callers : pc'[h] \notin EvictPCs
      BY <1>4 DEF TypeInv, MutexInv
    <2> QED
      BY <1>4, <2>1 DEF CapacityInv, CapacityBound, CountInv, ScanInv, EvictPCs
  <1>5. CASE maxEntries > 0
    <2>1. pc[c] = "set_store" /\ pc'[c] = "evict_lock"
      BY <1>5 DEF SetStore, Goto, TypeInv, TypeOK
    <2>2. c \notin Evicting /\ Evicting' = Evicting \cup {c}
      BY <1>3, <2>1 DEF Evicting, EvictPCs
    <2>3. \A h \in Callers : h # c =>
              c \notin Others(h) /\ Others(h)' = Others(h) \cup {c}
      BY <2>2 DEF Others
    <2>4. /\ Cardinality(Present') <= Cardinality(Present) + 1
          /\ Cardinality(Present') \in Nat
          /\ Cardinality(Evicting') = Cardinality(Evicting) + 1
      BY <1>2, <2>2, CardAdd, Finiteness DEF TypeInv
    <2>5. CapacityBound'
      BY <2>4, Finiteness, MaxEntriesNat DEF CapacityInv, CapacityBound, TypeInv
    <2>6. ASSUME NEW h \in Callers, pc'[h] \in EvictPCs, h # c
          PROVE  /\ Cardinality(Others(h)') = Cardinality(Others(h)) + 1
                 /\ Cardinality(Others(h)) \in Nat
      BY <2>3, <2>6, CardAdd, Finiteness DEF TypeInv
    <2>7. /\ Cardinality(Present' \ todo) <= Cardinality(Present \ todo) + 1
          /\ Cardinality(Present' \ todo) \in Nat
      <3>1. Present' \ todo \subseteq (Present \ todo) \cup {k}
        BY <1>2
      <3>2. /\ IsFiniteSet((Present \ todo) \cup {k})
            /\ Cardinality((Present \ todo) \cup {k}) <= Cardinality(Present \ todo) + 1
            /\ Cardinality(Present \ todo) \in Nat
        BY CardAdd, Finiteness DEF TypeInv
      <3>3. /\ Cardinality(Present' \ todo) <= Cardinality((Present \ todo) \cup {k})
            /\ Cardinality(Present' \ todo) \in Nat
            /\ Cardinality((Present \ todo) \cup {k}) \in Nat
        BY <3>1, <3>2, CardMono
      <3> QED
        BY <3>2, <3>3
    <2>8. /\ Cardinality(Present' \cup {oldestKey}) <= Cardinality(Present \cup {oldestKey}) + 1
          /\ Cardinality(Present' \cup {oldestKey}) \in Nat
      <3>1. Present' \cup {oldestKey} = (Present \cup {oldestKey}) \cup {k}
        BY <1>2
      <3> QED
        BY <3>1, CardAdd, Finiteness DEF TypeInv
    <2>9. /\ count \in Nat
          /\ Cardinality(Present) \in Nat
          /\ Cardinality(Present \ todo) \in Nat
          /\ Cardinality(Present \cup {oldestKey}) \in Nat
      BY Finiteness DEF TypeInv, TypeOK
    <2>10. CountInv'
      <3> SUFFICES ASSUME NEW h \in Callers, pc'[h] = "evict_count"
                   PROVE  Cardinality(Present' \ todo) <= count + Cardinality(Others(h)')
        BY <1>3 DEF CountInv, evictVars
      <3>1. h # c /\ pc[h] = "evict_count" /\ pc'[h] \in EvictPCs
        BY <1>3, <2>1 DEF EvictPCs
      <3>2. Cardinality(Present \ todo) <= count + Cardinality(Others(h))
        BY <3>1 DEF CapacityInv, CountInv
      <3> QED
        BY <3>1, <3>2, <2>6, <2>7, <2>9
    <2>11. ScanInv'
      <3> SUFFICES ASSUME NEW h \in Callers, pc'[h] = "evict_scan"
                   PROVE  /\ Cardinality(Present') <= count + Cardinality(Others(h)')
                          /\ oldestKey = nil =>
                                Cardinality(Present' \ todo) <= Cardinality(Others(h)')
                          /\ oldestKey # nil =>
                                Cardinality(Present' \cup {oldestKey})
                                    <= count + Cardinality(Others(h)')
        BY <1>3 DEF ScanInv, evictVars
      <3>1. h # c /\ pc[h] = "evict_scan" /\ pc'[h] \in EvictPCs
        BY <1>3, <2>1 DEF EvictPCs
      <3>2. /\ Cardinality(Present) <= count + Cardinality(Others(h))
            /\ oldestKey = nil => Cardinality(Present \ todo) <= Cardinality(Others(h))
            /\ oldestKey # nil =>
                  Cardinality(Present \cup {oldestKey}) <= count + Cardinality(Others(h))
        BY <3>1 DEF CapacityInv, ScanInv
      <3> QED
        BY <3>1, <3>2, <2>4, <2>6, <2>7, <2>8, <2>9
    <2> QED
      BY <2>5, <2>10, <2>11 DEF CapacityInv
  <1> QED
    BY <1>4, <1>5, MaxEntriesNat

(* Facts about a step of the holder h of evictMu: nobody else is inside    *)
(* the loop, before and after.                                             *)
LEMMA HolderAlone ==
    ASSUME TypeInv, NEW h \in Callers, pc[h] \in {"evict_count", "evict_scan"}
    PROVE  \A g \in Callers : g # h => pc[g] \notin {"evict_count", "evict_scan"}
  BY DEF TypeInv, MutexInv

(* evictIfNeeded begins to count: nothing has been counted yet. *)
LEMMA CapacityEvictLock ==
    ASSUME TypeInv, TypeInv', CapacityInv, NEW c \in Callers, EvictLock(c)
    PROVE  CapacityInv'
  <1>1. Present' = Present /\ Evicting' = Evicting
    BY DEF EvictLock, Present, Evicting, Goto, EvictPCs, TypeInv, TypeOK
  <1>2. CapacityBound'
    BY <1>1 DEF CapacityInv, CapacityBound
  <1>3. \A g \in Callers : pc'[g] # "evict_scan" /\ (pc'[g] = "evict_count" => g = c)
    BY CallersFinite DEF EvictLock, Goto, TypeInv, TypeOK, MutexInv
  <1>4. Present' \ todo' = {} /\ count' = 0
    BY <1>1 DEF EvictLock, TypeInv, TypeOK
  <1>5. CountInv'
    <2>1. Cardinality(Others(c)') \in Nat
      BY <1>1, Finiteness DEF Others, TypeInv
    <2>2. Cardinality(Present' \ todo') = 0
      BY <1>4, FS_EmptySet
    <2> QED
      BY <1>3, <1>4, <2>1, <2>2 DEF CountInv
  <1>6. ScanInv'
    BY <1>3 DEF ScanInv
  <1> QED
    BY <1>2, <1>5, <1>6 DEF CapacityInv

(* The Range passes one key: a key that is present is counted. *)
LEMMA CapacityEvictCount ==
    ASSUME TypeInv, TypeInv', CapacityInv,
           NEW c \in Callers, NEW k \in Keys, EvictCount(c, k)
    PROVE  CapacityInv'
  <1>1. Present' = Present /\ Evicting' = Evicting /\ pc' = pc
    BY DEF EvictCount, Present, Evicting, callerVars
  <1>2. CapacityBound'
    BY <1>1 DEF CapacityInv, CapacityBound
  <1>3. \A g \in Callers : pc'[g] # "evict_scan" /\ (pc'[g] = "evict_count" => g = c)
    BY <1>1, HolderAlone DEF EvictCount
  <1>4. Others(c)' = Others(c)
    BY <1>1 DEF Others
  <1>5. Cardinality(Present \ todo) <= count + Cardinality(Others(c))
    BY DEF CapacityInv, CountInv, EvictCount
  <1>6. /\ count \in Nat
        /\ Cardinality(Others(c)) \in Nat
        /\ Cardinality(Present \ todo) \in Nat
        /\ IsFiniteSet(Present \ todo)
    BY Finiteness DEF TypeInv, TypeOK
  <1>7. Cardinality(Present' \ todo') <= count' + Cardinality(Others(c))
    <2>1. CASE k \in Present
      <3>1. Present' \ todo' = (Present \ todo) \cup {k} /\ count' = count + 1
        BY <1>1, <2>1 DEF EvictCount
      <3>2. /\ Cardinality((Present \ todo) \cup {k}) <= Cardinality(Present \ todo) + 1
            /\ Cardinality((Present \ todo) \cup {k}) \in Nat
        BY <1>6, CardAdd
      <3> QED
        BY <1>5, <1>6, <3>1, <3>2
    <2>2. CASE k \notin Present
      <3>1. Present' \ todo' = Present \ todo /\ count' = count
        BY <1>1, <2>2 DEF EvictCount
      <3> QED
        BY <1>5, <3>1
    <2> QED
      BY <2>1, <2>2
  <1>8. CountInv'
    BY <1>3, <1>4, <1>7 DEF CountInv
  <1>9. ScanInv'
    BY <1>3 DEF ScanInv
  <1> QED
    BY <1>2, <1>8, <1>9 DEF CapacityInv

(* The next turn of the eviction loop starts from a count that still       *)
(* bounds the entries.                                                     *)
LEMMA CapacityEvictAgain ==
    ASSUME TypeInv, TypeInv', CapacityInv, NEW c \in Callers, EvictAgain(c)
    PROVE  CapacityInv'
  <1>1. Present' = Present /\ Evicting' = Evicting
    BY DEF EvictAgain, Present, Evicting, Goto, EvictPCs, TypeInv, TypeOK
  <1>2. CapacityBound'
    BY <1>1 DEF CapacityInv, CapacityBound
  <1>3. \A g \in Callers : pc'[g] # "evict_count" /\ (pc'[g] = "evict_scan" => g = c)
    BY HolderAlone DEF EvictAgain, Goto, TypeInv, TypeOK
  <1>4. Others(c)' = Others(c)
    BY <1>1 DEF Others
  <1>5. Cardinality(Present) <= count + Cardinality(Others(c))
    <2>1. Present \ todo = Present
      BY DEF EvictAgain
    <2> QED
      BY <2>1 DEF CapacityInv, CountInv, EvictAgain
  <1>6. Present' \ todo' = {} /\ count' = count /\ oldestKey' = nil
    BY <1>1 DEF EvictAgain, TypeInv, TypeOK
  <1>7. Cardinality(Present' \ todo') <= Cardinality(Others(c))
    <2>1. Cardinality(Others(c)) \in Nat
      BY Finiteness DEF TypeInv
    <2>2. Cardinality(Present' \ todo') = 0
      BY <1>6, FS_EmptySet
    <2> QED
      BY <2>1, <2>2
  <1>8. ScanInv'
    BY <1>1, <1>3, <1>4, <1>5, <1>6, <1>7 DEF ScanInv
  <1>9. CountInv'
    BY <1>3 DEF CountInv
  <1> QED
    BY <1>2, <1>8, <1>9 DEF CapacityInv

(* The scan moves its choice to a key that is present, or passes a key     *)
(* that is absent, or keeps the choice it had.                             *)
LEMMA CapacityEvictScan ==
    ASSUME TypeInv, TypeInv', CapacityInv,
           NEW c \in Callers, NEW k \in Keys, EvictScan(c, k)
    PROVE  CapacityInv'
  <1>1. Present' = Present /\ Evicting' = Evicting /\ pc' = pc /\ count' = count
    BY DEF EvictScan, Present, Evicting, callerVars
  <1>2. CapacityBound'
    BY <1>1 DEF CapacityInv, CapacityBound
  <1>3. \A g \in Callers : pc'[g] # "evict_count" /\ (pc'[g] = "evict_scan" => g = c)
    BY <1>1, HolderAlone DEF EvictScan
  <1>4. Others(c)' = Others(c)
    BY <1>1 DEF Others
  <1>5. /\ Cardinality(Present) <= count + Cardinality(Others(c))
        /\ oldestKey = nil => Cardinality(Present \ todo) <= Cardinality(Others(c))
        /\ oldestKey # nil =>
              Cardinality(Present \cup {oldestKey}) <= count + Cardinality(Others(c))
    BY DEF CapacityInv, ScanInv, EvictScan
  <1>6. /\ oldestKey' = nil => Cardinality(Present \ todo') <= Cardinality(Others(c))
        /\ oldestKey' # nil =>
              Cardinality(Present \cup {oldestKey'}) <= count + Cardinality(Others(c))
    <2>1. CASE k \in Present /\ (oldestKey = nil \/ entries[k].expiresAt < oldestExpiry)
      <3>1. oldestKey' = k /\ k # nil
        BY <2>1, KeysFinite DEF EvictScan
      <3>2. Present \cup {k} = Present
        BY <2>1
      <3> QED
        BY <1>5, <3>1, <3>2
    <2>2. CASE ~ (k \in Present /\ (oldestKey = nil \/ entries[k].expiresAt < oldestExpiry))
      <3>1. oldestKey' = oldestKey
        BY <2>2 DEF EvictScan
      <3>2. CASE oldestKey = nil
        <4>1. Present \ todo' = Present \ todo
          BY <2>2, <3>2 DEF EvictScan
        <4> QED
          BY <1>5, <3>1, <3>2, <4>1
      <3>3. CASE oldestKey # nil
        BY <1>5, <3>1, <3>3
      <3> QED
        BY <3>2, <3>3
    <2> QED
      BY <2>1, <2>2
  <1>7. ScanInv'
    BY <1>1, <1>3, <1>4, <1>5, <1>6 DEF ScanInv
  <1>8. CountInv'
    BY <1>3 DEF CountInv
  <1> QED
    BY <1>2, <1>7, <1>8 DEF CapacityInv

(* Deleting the choice, or finding none, pays for count--. *)
LEMMA CapacityEvictDelete ==
    ASSUME TypeInv, TypeInv', CapacityInv, NEW c \in Callers, EvictDelete(c)
    PROVE  CapacityInv'
  <1>1. Evicting' = Evicting /\ count' = count - 1 /\ todo' = {} /\ todo = {}
    BY DEF EvictDelete, Evicting, Goto, EvictPCs, TypeInv, TypeOK
  <1>2. Present' = IF oldestKey = nil THEN Present ELSE Present \ {oldestKey}
    BY DeletedType DEF EvictDelete, Present, TypeInv
  <1>3. \A g \in Callers : pc'[g] # "evict_scan" /\ (pc'[g] = "evict_count" => g = c)
    BY HolderAlone DEF EvictDelete, Goto, TypeInv, TypeOK
  <1>4. Others(c)' = Others(c)
    BY <1>1 DEF Others
  <1>5. /\ oldestKey = nil => Cardinality(Present \ todo) <= Cardinality(Others(c))
        /\ oldestKey # nil =>
              Cardinality(Present \cup {oldestKey}) <= count + Cardinality(Others(c))
    BY DEF CapacityInv, ScanInv, EvictDelete
  <1>6. count \in Nat /\ count > maxEntries
    BY DEF TypeInv, TypeOK, MutexInv, EvictDelete
  <1>7. /\ Cardinality(Others(c)) \in Nat
        /\ IsFiniteSet(Present)
    BY Finiteness DEF TypeInv
  <1>8. Cardinality(Present') <= count' + Cardinality(Others(c))
    <2>1. CASE oldestKey = nil
      <3>1. Present' = Present \ todo
        BY <1>1, <1>2, <2>1
      <3>2. Cardinality(Present') <= Cardinality(Others(c))
        BY <1>5, <2>1, <3>1
      <3>3. Cardinality(Present') \in Nat
        BY <3>1, Finiteness DEF TypeInv
      <3> QED
        BY <1>1, <1>6, <1>7, <3>2, <3>3, MaxEntriesNat
    <2>2. CASE oldestKey # nil
      <3>1. /\ Present' \cup {oldestKey} = Present \cup {oldestKey}
            /\ oldestKey \notin Present'
            /\ Present' \subseteq Present
        BY <1>2, <2>2
      <3>2. IsFiniteSet(Present') /\ Cardinality(Present') \in Nat
        BY <1>7, <3>1, CardMono
      <3>3. Cardinality(Present \cup {oldestKey}) = Cardinality(Present') + 1
        BY <3>1, <3>2, CardAdd
      <3> QED
        BY <1>1, <1>5, <1>6, <1>7, <2>2, <3>2, <3>3
    <2> QED
      BY <2>1, <2>2
  <1>9. CountInv'
    <2>1. Present' \ todo' = Present'
      BY <1>1
    <2> QED
      BY <1>3, <1>4, <1>8, <2>1 DEF CountInv
  <1>10. ScanInv'
    BY <1>3 DEF ScanInv
  <1>11. CapacityBound'
    <2>1. Present' \subseteq Present
      BY <1>2
    <2>2. Cardinality(Present') <= Cardinality(Present) /\ Cardinality(Present') \in Nat
      BY <1>7, <2>1, CardMono
    <2> QED
      BY <1>1, <2>2, Finiteness, MaxEntriesNat DEF CapacityInv, CapacityBound, TypeInv
  <1> QED
    BY <1>9, <1>10, <1>11 DEF CapacityInv

(* The holder leaves Evicting with count within the bound. *)
LEMMA CapacityEvictUnlock ==
    ASSUME TypeInv, TypeInv', CapacityInv, NEW c \in Callers, EvictUnlock(c)
    PROVE  CapacityInv'
  <1>1. Present' = Present /\ Evicting' = Others(c)
    BY DEF EvictUnlock, Present, Evicting, Others, Leave, Goto, EvictPCs, TypeInv, TypeOK
  <1>2. \A g \in Callers : pc'[g] \notin {"evict_count", "evict_scan"}
    BY HolderAlone DEF EvictUnlock, Leave, Goto, TypeInv, TypeOK
  <1>3. Cardinality(Present) <= count + Cardinality(Others(c))
    <2>1. Present \ todo = Present
      BY DEF EvictUnlock
    <2> QED
      BY <2>1 DEF CapacityInv, CountInv, EvictUnlock
  <1>4. count \in Nat /\ count <= maxEntries
    BY DEF TypeInv, TypeOK, EvictUnlock
  <1>5. CapacityBound'
    BY <1>1, <1>3, <1>4, Finiteness, MaxEntriesNat DEF CapacityBound, TypeInv
  <1> QED
    BY <1>2, <1>5 DEF CapacityInv, CountInv, ScanInv

(* Every step of a caller or of the sweeper keeps the bound. *)
LEMMA CapacityNext == TypeInv /\ TypeInv' /\ CapacityInv /\ [Next]_vars => CapacityInv'
  <1> SUFFICES ASSUME TypeInv, TypeInv', CapacityInv, [Next]_vars PROVE CapacityInv'
    OBVIOUS
  <1> USE DEF EvictPCs, callerVars, evictVars, sweepVars
  <1>1. CASE UNCHANGED vars
    BY <1>1, CapacityFrame DEF vars, Present
  <1>2. CASE Tick \/ Cancel \/ SweepTick \/ SweepEnd \/ SweepExit
    BY <1>2, CapacityFrame DEF Tick, Cancel, SweepTick, SweepEnd, SweepExit, Present
  <1>3. ASSUME NEW k \in Keys, SweepVisit(k) PROVE CapacityInv'
    BY <1>3, CapacityFrame DEF SweepVisit, Present
  <1>4. CASE SweepDelete
    BY <1>4, CapacityFrame, DeletedType DEF SweepDelete, TypeInv
  <1>5. ASSUME NEW c \in Callers, CallerStart(c) PROVE CapacityInv'
    <2>1. ASSUME NEW k \in Keys, NEW r \in Results,
                 SetStart(c, k, r)
          PROVE  CapacityInv'
      <3>1. \A g \in Callers :
                pc[g] \in EvictPCs \/ pc'[g] \in EvictPCs => pc'[g] = pc[g]
        BY <2>1 DEF SetStart, Goto, TypeInv, TypeOK
      <3> QED
        BY <2>1, <3>1, CapacityFrame DEF SetStart, Present
    <2>2. ASSUME NEW k \in Keys, GetMiss(c, k) \/ GetLoad(c, k)
          PROVE  CapacityInv'
      <3>1. \A g \in Callers :
                pc[g] \in EvictPCs \/ pc'[g] \in EvictPCs => pc'[g] = pc[g]
        BY <2>2 DEF GetMiss, GetLoad, Goto, TypeInv, TypeOK
      <3> QED
        BY <2>2, <3>1, CapacityFrame DEF GetMiss, GetLoad, Present
    <2> QED
      BY <1>5, <2>1, <2>2 DEF CallerStart
  <1>6. ASSUME NEW c \in Callers, GetCheck(c) \/ GetReturn(c) PROVE CapacityInv'
    <2>1. \A g \in Callers :
              pc[g] \in EvictPCs \/ pc'[g] \in EvictPCs => pc'[g] = pc[g]
      BY <1>6 DEF GetCheck, GetReturn, Goto, Leave, TypeInv, TypeOK
    <2> QED
      BY <1>6, <2>1, CapacityFrame DEF GetCheck, GetReturn, Present
  <1>7. ASSUME NEW c \in Callers, GetDelete(c) PROVE CapacityInv'
    <2>1. \A g \in Callers :
              pc[g] \in EvictPCs \/ pc'[g] \in EvictPCs => pc'[g] = pc[g]
      BY <1>7 DEF GetDelete, Goto, TypeInv, TypeOK
    <2> QED
      BY <1>7, <2>1, CapacityFrame, DeletedType DEF GetDelete, TypeInv
  <1>8. ASSUME NEW c \in Callers, SetStore(c) \/ EvictLock(c) PROVE CapacityInv'
    BY <1>8, CapacitySetStore, CapacityEvictLock
  <1>9. ASSUME NEW c \in Callers, EvictStep(c) PROVE CapacityInv'
    BY <1>9, CapacityEvictAgain, CapacityEvictDelete, CapacityEvictUnlock,
       CapacityEvictCount, CapacityEvictScan DEF EvictStep
  <1> QED
    BY <1>1, <1>2, <1>3, <1>4, <1>5, <1>6, <1>7, <1>8, <1>9 DEF Next, Sweep, CallerStep

(* However Gets, Sets and sweeps interleave with the counting and the      *)
(* scanning of evictIfNeeded, the cache exceeds its bound by at most one   *)
(* entry per Set in progress.                                              *)
THEOREM CapacityCorrect == Spec => []CapacityBound
  <1>1. Init => CapacityInv
    BY CapacityInit
  <1>2. TypeInv /\ TypeInv' /\ CapacityInv /\ [Next]_vars => CapacityInv'
    BY CapacityNext
  <1>3. CapacityInv => CapacityBound
    BY DEF CapacityInv
  <1> QED
    BY <1>1, <1>2, <1>3, TypeInvariant, PTL DEF Spec

-----------------------------------------------------------------------------
(* The lifetime of an answer *)

(* An entry says under which key it was stored and does not promise more   *)
(* than ttl or the token allow.                                            *)
Honest(e, k) ==
    /\ e.key = k
    /\ e.expiresAt <= e.setAt + ttl
    /\ e.result.ExpiresAt # NoExpiry => e.expiresAt <= e.result.ExpiresAt

HonestInv ==
    /\ \A k \in Present : Honest(entries[k], k)
    /\ \A c \in Callers :
          pc[c] \in {"get_check", "hit", "set_store"} => Honest(entry[c], key[c])

(* Set makes an entry that ends no later than the ttl and the token. *)
LEMMA MakeEntryHonest ==
    ASSUME NEW k \in Keys, NEW r \in Results, NEW t \in Nat
    PROVE  Honest(MakeEntry(k, r, t), k)
  <1>1. r.ExpiresAt \in Nat \cup {NoExpiry}
    BY ExpiresAtsAreTimes DEF Results
  <1>2. /\ Expiry(t, r) <= t + ttl
        /\ r.ExpiresAt # NoExpiry => Expiry(t, r) <= r.ExpiresAt
    BY <1>1, OptionsAreIntegers DEF Expiry
  <1> QED
    BY <1>2 DEF Honest, MakeEntry

(* A step that neither stores nor touches what the callers hold. *)
LEMMA HonestFrame ==
    ASSUME HonestInv, UNCHANGED callerVars,
           Present' \subseteq Present,
           \A k \in Present' : entries'[k] = entries[k]
    PROVE  HonestInv'
  BY DEF HonestInv, callerVars

(* No step puts an entry under another key or prolongs its life. *)
LEMMA HonestNext == TypeInv /\ HonestInv /\ [Next]_vars => HonestInv'
  <1> SUFFICES ASSUME TypeInv, HonestInv, [Next]_vars PROVE HonestInv'
    OBVIOUS
  <1> USE DEF TypeInv, callerVars, evictVars, sweepVars
  <1>1. CASE UNCHANGED vars
    BY <1>1, HonestFrame DEF vars, Present
  <1>2. CASE Tick \/ Cancel \/ SweepTick \/ SweepEnd \/ SweepExit
    BY <1>2, HonestFrame DEF Tick, Cancel, SweepTick, SweepEnd, SweepExit, Present
  <1>3. ASSUME NEW k \in Keys, SweepVisit(k) PROVE HonestInv'
    BY <1>3, HonestFrame DEF SweepVisit, Present
  <1>4. CASE SweepDelete
    BY <1>4, HonestFrame, DeletedType DEF SweepDelete
  <1>5. ASSUME NEW c \in Callers, CallerStart(c) PROVE HonestInv'
    <2>1. ASSUME NEW k \in Keys, GetMiss(c, k) PROVE HonestInv'
      BY <2>1 DEF GetMiss, Goto, HonestInv, TypeOK, Present
    <2>2. ASSUME NEW k \in Keys, GetLoad(c, k) PROVE HonestInv'
      BY <2>2 DEF GetLoad, Goto, HonestInv, TypeOK, Present
    <2>3. ASSUME NEW k \in Keys, NEW r \in Results, SetStart(c, k, r) PROVE HonestInv'
      <3>1. Honest(MakeEntry(k, r, now), k)
        BY MakeEntryHonest DEF TypeOK
      <3> QED
        BY <2>3, <3>1 DEF SetStart, Goto, HonestInv, TypeOK, Present
    <2> QED
      BY <1>5, <2>1, <2>2, <2>3 DEF CallerStart
  <1>6. ASSUME NEW c \in Callers, CallerStep(c) PROVE HonestInv'
    <2>1. CASE GetCheck(c)
      BY <2>1 DEF GetCheck, Goto, HonestInv, TypeOK, Present
    <2>2. CASE GetDelete(c)
      BY <2>2, DeletedType DEF GetDelete, Goto, HonestInv, TypeOK
    <2>3. CASE GetReturn(c)
      BY <2>3 DEF GetReturn, Leave, Goto, HonestInv, TypeOK, Present
    <2>4. CASE SetStore(c)
      <3>1. key[c] \in Keys /\ entry[c] \in Entries /\ Honest(entry[c], key[c])
        BY <2>4 DEF SetStore, LocalsInv, HonestInv
      <3>2. \A k \in Present' : Honest(entries'[k], k)
        BY <2>4, <3>1, StoredType DEF SetStore, HonestInv
      <3> QED
        BY <2>4, <3>2 DEF SetStore, Leave, Goto, HonestInv, TypeOK
    <2>5. CASE EvictAgain(c) \/ EvictUnlock(c)
      BY <2>5 DEF EvictAgain, EvictUnlock, Leave, Goto, HonestInv, TypeOK, Present
    <2>6. CASE EvictDelete(c)
      <3>1. \A k \in Present' : k \in Present /\ entries'[k] = entries[k]
        <4>1. CASE oldestKey = nil
          BY <2>6, <4>1 DEF EvictDelete, Present
        <4>2. CASE oldestKey # nil
          BY <2>6, <4>2, DeletedType DEF EvictDelete
        <4> QED
          BY <4>1, <4>2
      <3> QED
        BY <2>6, <3>1 DEF EvictDelete, Goto, HonestInv, TypeOK
    <2>7. ASSUME NEW k \in Keys, EvictCount(c, k) \/ EvictScan(c, k) PROVE HonestInv'
      BY <2>7, HonestFrame DEF EvictCount, EvictScan, Present
    <2> QED
      BY <1>6, <2>1, <2>2, <2>3, <2>4, <2>5, <2>6, <2>7 DEF CallerStep, EvictStep
  <1>7. ASSUME NEW c \in Callers, EvictLock(c) PROVE HonestInv'
    BY <1>7 DEF EvictLock, Goto, HonestInv, TypeOK, Present
  <1> QED
    BY <1>1, <1>2, <1>3, <1>4, <1>5, <1>6, <1>7 DEF Next, Sweep

(* A step that makes caller c decide for a hit is GetCheck of c. *)
LEMMA OnlyGetCheckHits ==
    ASSUME TypeInv, [Next]_vars, NEW c \in Callers, pc[c] # "hit", pc'[c] = "hit"
    PROVE  GetCheck(c)
  <1> USE DEF TypeInv, TypeOK, Goto, Leave, callerVars, evictVars
  <1>1. ~ UNCHANGED pc
    OBVIOUS
  <1>2. PICK d \in Callers : CallerStart(d) \/ CallerStep(d) \/ EvictLock(d)
    BY <1>1 DEF Next, vars, Tick, Cancel, Sweep, SweepTick, SweepVisit, SweepDelete,
                SweepEnd, SweepExit
  <1>3. ~ CallerStart(d) /\ ~ EvictLock(d)
    BY DEF CallerStart, GetMiss, GetLoad, SetStart, EvictLock
  <1>4. ~ EvictStep(d)
    BY DEF EvictStep, EvictAgain, EvictDelete, EvictUnlock, EvictCount, EvictScan
  <1>5. ~ GetDelete(d) /\ ~ GetReturn(d) /\ ~ SetStore(d)
    BY DEF GetDelete, GetReturn, SetStore
  <1>6. GetCheck(d)
    BY <1>2, <1>3, <1>4, <1>5 DEF CallerStep
  <1> QED
    BY <1>6 DEF GetCheck

(* An answer from the cache is at most ttl older than the Set that stored  *)
(* it and never outlives the token.                                        *)
THEOREM HitCorrect == Spec => HitIsFresh
  <1> DEFINE Answer(c) ==
        pc[c] # "hit" /\ pc'[c] = "hit" =>
            /\ entry'[c].key = key'[c]
            /\ now <= entry'[c].setAt + ttl
            /\ entry'[c].result.ExpiresAt # NoExpiry => now <= entry'[c].result.ExpiresAt
  <1>1. Init => HonestInv
    BY DEF Init, HonestInv, Present
  <1>2. TypeInv /\ HonestInv /\ [Next]_vars => HonestInv'
    BY HonestNext
  <1>3. TypeInv /\ HonestInv /\ [Next]_vars => [\A c \in Callers : Answer(c)]_vars
    <2> SUFFICES ASSUME TypeInv, HonestInv, [Next]_vars,
                        NEW c \in Callers, pc[c] # "hit", pc'[c] = "hit"
                 PROVE  /\ entry'[c].key = key'[c]
                        /\ now <= entry'[c].setAt + ttl
                        /\ entry'[c].result.ExpiresAt # NoExpiry =>
                               now <= entry'[c].result.ExpiresAt
      OBVIOUS
    <2>1. GetCheck(c)
      BY OnlyGetCheckHits
    <2>2. pc[c] = "get_check" /\ entry' = entry /\ key' = key
      BY <2>1 DEF GetCheck
    <2>3. ~ Expired(entry[c], now)
      BY <2>1 DEF GetCheck, Goto, TypeInv, TypeOK
    <2>4. Honest(entry[c], key[c]) /\ entry[c] \in Entries /\ now \in Nat
      BY <2>2 DEF HonestInv, TypeInv, TypeOK, LocalsInv
    <2>5. /\ entry[c].expiresAt \in Nat
          /\ entry[c].setAt \in Nat
          /\ entry[c].result.ExpiresAt \in Nat \cup {NoExpiry}
      BY <2>4, ExpiresAtsAreTimes DEF Entries, Results
    <2>6. now <= entry[c].expiresAt
      BY <2>3, <2>4, <2>5 DEF Expired
    <2> QED
      BY <2>2, <2>4, <2>5, <2>6, OptionsAreIntegers DEF Honest
  <1> QED
    BY <1>1, <1>2, <1>3, TypeInvariant, PTL DEF Spec, HitIsFresh

-----------------------------------------------------------------------------
(* InMemoryCache implements LossyCache *)


(* A Set stores what it made from an earlier clock reading, and the        *)
(* sweeper deletes a key that it was shown.                                *)
PendingInv ==
    /\ \A c \in Callers : pc[c] = "set_store" =>
          /\ entry[c] = MakeEntry(key[c], entry[c].result, entry[c].setAt)
          /\ entry[c].setAt \in 0 .. now
    /\ spc = "delete" => sweepKey \in Keys

(* Every step keeps the clock readings of pending Sets in the past. *)
LEMMA PendingNext == TypeInv /\ PendingInv /\ [Next]_vars => PendingInv'
  <1> SUFFICES ASSUME TypeInv, PendingInv, [Next]_vars PROVE PendingInv'
    OBVIOUS
  <1> USE DEF TypeInv, TypeOK, PendingInv, Goto, Leave, callerVars, evictVars, sweepVars
  <1>1. CASE UNCHANGED vars
    BY <1>1 DEF vars
  <1>2. CASE Tick
    BY <1>2 DEF Tick
  <1>3. CASE Cancel \/ SweepTick \/ SweepEnd \/ SweepExit \/ SweepDelete
    BY <1>3 DEF Cancel, SweepTick, SweepEnd, SweepExit, SweepDelete
  <1>4. ASSUME NEW k \in Keys, SweepVisit(k) PROVE PendingInv'
    BY <1>4 DEF SweepVisit
  <1>5. ASSUME NEW c \in Callers, NEW k \in Keys, GetMiss(c, k) \/ GetLoad(c, k)
        PROVE  PendingInv'
    BY <1>5 DEF GetMiss, GetLoad
  <1>6. ASSUME NEW c \in Callers, NEW k \in Keys, NEW r \in Results, SetStart(c, k, r)
        PROVE  PendingInv'
    <2>1. entry'[c] = MakeEntry(k, r, now) /\ key'[c] = k
      BY <1>6 DEF SetStart
    <2>2. entry'[c].result = r /\ entry'[c].setAt = now
      BY <2>1 DEF MakeEntry
    <2>3. \A d \in Callers : d # c => entry'[d] = entry[d] /\ key'[d] = key[d] /\ pc'[d] = pc[d]
      BY <1>6 DEF SetStart
    <2> QED
      BY <1>6, <2>1, <2>2, <2>3 DEF SetStart
  <1>7. ASSUME NEW c \in Callers, CallerStep(c) \/ EvictLock(c) PROVE PendingInv'
    <2>1. /\ \A d \in Callers : pc'[d] = "set_store" =>
                pc[d] = "set_store" /\ entry'[d] = entry[d] /\ key'[d] = key[d]
          /\ now' = now /\ spc' = spc /\ sweepKey' = sweepKey
      BY <1>7 DEF CallerStep, EvictStep, GetCheck, GetDelete, GetReturn, SetStore, EvictAgain,
                  EvictDelete, EvictUnlock, EvictCount, EvictScan, EvictLock
    <2> QED
      BY <2>1
  <1> QED
    BY <1>1, <1>2, <1>3, <1>4, <1>5, <1>6, <1>7 DEF Next, Sweep, CallerStart

(* Clock readings of pending Sets are in the past throughout. *)
LEMMA PendingInvariant == Spec => []PendingInv
  <1>1. Init => PendingInv
    BY DEF Init, PendingInv
  <1> QED
    BY <1>1, PendingNext, TypeInvariant, PTL DEF Spec

(* A step of the eviction or of the sweeper that a Get does not notice. *)
LEMMA Unnoticed ==
    ASSUME \A c \in Callers : /\ pc'[c] = pc[c] /\ entry'[c] = entry[c]
                              \/ /\ pc[c] \notin GetPCs /\ pc'[c] \notin GetPCs
    PROVE  gotMap' = gotMap /\ phaseMap' = phaseMap
  BY DEF gotMap, phaseMap, GetPCs

(* Every step of the cache is a step of its promise, or none. *)
LEMMA StepRefines ==
    TypeInv /\ PendingInv /\ [Next]_vars => [Promise!Next]_(Promise!vars)
  <1> SUFFICES ASSUME TypeInv, PendingInv, [Next]_vars
               PROVE  Promise!Next \/ Promise!vars' = Promise!vars
    OBVIOUS
  <1> USE DEF TypeInv, Goto, Leave, callerVars, evictVars, sweepVars
  <1>1. CASE UNCHANGED vars
    BY <1>1, Unnoticed DEF vars, Promise!vars
  <1>2. CASE Tick
    BY <1>2, Unnoticed DEF Tick, Promise!Next, Promise!Advance
  <1>3. CASE Cancel \/ SweepTick \/ SweepEnd \/ SweepExit
    BY <1>3, Unnoticed DEF Cancel, SweepTick, SweepEnd, SweepExit, Promise!vars
  <1>4. ASSUME NEW k \in Keys, SweepVisit(k) PROVE Promise!vars' = Promise!vars
    BY <1>4, Unnoticed DEF SweepVisit, Promise!vars
  <1>5. CASE SweepDelete
    <2>1. Promise!Lose(sweepKey)
      BY <1>5, Unnoticed DEF SweepDelete, Promise!Lose, Promise!Without, Deleted, Present
    <2> QED
      BY <1>5, <2>1 DEF Promise!Next, PendingInv, SweepDelete
  <1>6. ASSUME NEW c \in Callers, NEW k \in Keys, GetMiss(c, k) PROVE Promise!Next
    <2>1. Promise!FetchNothing(c)
      BY <1>6 DEF GetMiss, Promise!FetchNothing, gotMap, phaseMap, TypeOK
    <2> QED
      BY <2>1 DEF Promise!Next
  <1>7. ASSUME NEW c \in Callers, NEW k \in Keys, GetLoad(c, k) PROVE Promise!Next
    <2>1. Promise!Fetch(c, k)
      BY <1>7 DEF GetLoad, Promise!Fetch, gotMap, phaseMap, TypeOK, Present
    <2> QED
      BY <2>1 DEF Promise!Next
  <1>8. ASSUME NEW c \in Callers, NEW k \in Keys, NEW r \in Results, SetStart(c, k, r)
        PROVE  Promise!vars' = Promise!vars
    <2>1. gotMap' = gotMap /\ phaseMap' = phaseMap
      BY <1>8, Unnoticed DEF SetStart, TypeOK, GetPCs
    <2> QED
      BY <1>8, <2>1 DEF SetStart, Promise!vars
  <1>9. ASSUME NEW c \in Callers, GetCheck(c) PROVE Promise!Next
    <2>1. CASE ~ Expired(entry[c], now)
      <3>1. Promise!Fresh(gotMap[c])
        BY <1>9, <2>1 DEF GetCheck, Expired, Promise!Fresh, gotMap, TypeOK, LocalsInv, Entries
      <3>2. Promise!Hit(c)
        BY <1>9, <2>1, <3>1 DEF GetCheck, Promise!Hit, gotMap, phaseMap, TypeOK
      <3> QED
        BY <3>2 DEF Promise!Next
    <2>2. CASE Expired(entry[c], now)
      <3>1. ~ Promise!Fresh(gotMap[c])
        BY <1>9, <2>2 DEF GetCheck, Expired, Promise!Fresh, gotMap, TypeOK, LocalsInv, Entries
      <3>2. Promise!Miss(c)
        BY <1>9, <2>2, <3>1 DEF GetCheck, Promise!Miss, gotMap, phaseMap, TypeOK
      <3> QED
        BY <3>2 DEF Promise!Next
    <2> QED
      BY <2>1, <2>2
  <1>10. ASSUME NEW c \in Callers, GetDelete(c) PROVE Promise!Next
    <2>1. gotMap' = gotMap /\ phaseMap' = phaseMap
      BY <1>10 DEF GetDelete, gotMap, phaseMap, TypeOK
    <2>2. Promise!Lose(key[c])
      BY <1>10, <2>1 DEF GetDelete, Promise!Lose, Promise!Without, Deleted, Present
    <2>3. key[c] \in Keys
      BY <1>10 DEF GetDelete, LocalsInv
    <2> QED
      BY <2>2, <2>3 DEF Promise!Next
  <1>11. ASSUME NEW c \in Callers, GetReturn(c) PROVE Promise!Next
    <2>1. Promise!Return(c)
      BY <1>11 DEF GetReturn, Promise!Return, gotMap, phaseMap, TypeOK
    <2> QED
      BY <2>1 DEF Promise!Next
  <1>12. ASSUME NEW c \in Callers, SetStore(c) PROVE Promise!Next
    <2>1. gotMap' = gotMap /\ phaseMap' = phaseMap
      BY <1>12, Unnoticed DEF SetStore, TypeOK, GetPCs
    <2> DEFINE r == entry[c].result
               t == entry[c].setAt
    <2>2. /\ key[c] \in Keys
          /\ r \in Results
          /\ entry[c] = MakeEntry(key[c], r, t)
          /\ t \in 0 .. now
      BY <1>12 DEF SetStore, LocalsInv, PendingInv, Entries
    <2>3. MakeEntry(key[c], r, t) = Promise!MakeEntry(key[c], r, t)
      BY DEF MakeEntry, Expiry, Promise!MakeEntry, Promise!Expiry
    <2>4. Promise!Put(key[c], r, t)
      BY <1>12, <2>1, <2>2, <2>3 DEF SetStore, Promise!Put, Promise!With, Stored, Present
    <2> QED
      BY <2>2, <2>4 DEF Promise!Next
  <1>13. ASSUME NEW c \in Callers, EvictLock(c) \/ EvictAgain(c) \/ EvictUnlock(c)
         PROVE  Promise!vars' = Promise!vars
    <2>1. gotMap' = gotMap /\ phaseMap' = phaseMap
      BY <1>13, Unnoticed DEF EvictLock, EvictAgain, EvictUnlock, TypeOK, GetPCs
    <2> QED
      BY <1>13, <2>1 DEF EvictLock, EvictAgain, EvictUnlock, Promise!vars
  <1>14. ASSUME NEW c \in Callers, NEW k \in Keys, EvictCount(c, k) \/ EvictScan(c, k)
         PROVE  Promise!vars' = Promise!vars
    BY <1>14, Unnoticed DEF EvictCount, EvictScan, Promise!vars
  <1>15. ASSUME NEW c \in Callers, EvictDelete(c)
         PROVE  Promise!Next \/ Promise!vars' = Promise!vars
    <2>1. gotMap' = gotMap /\ phaseMap' = phaseMap
      BY <1>15, Unnoticed DEF EvictDelete, TypeOK, GetPCs
    <2>2. CASE oldestKey = nil
      BY <1>15, <2>1, <2>2 DEF EvictDelete, Promise!vars
    <2>3. CASE oldestKey # nil
      <3>1. Promise!Lose(oldestKey)
        BY <1>15, <2>1, <2>3 DEF EvictDelete, Promise!Lose, Promise!Without, Deleted, Present
      <3>2. oldestKey \in Keys
        BY <2>3 DEF TypeOK
      <3> QED
        BY <3>1, <3>2 DEF Promise!Next
    <2> QED
      BY <2>2, <2>3
  <1> QED
    BY <1>1, <1>2, <1>3, <1>4, <1>5, <1>6, <1>7, <1>8, <1>9, <1>10, <1>11, <1>12, <1>13,
       <1>14, <1>15
    DEF Next, Sweep, CallerStart, CallerStep, EvictStep

(* The in-memory cache keeps the promise of LossyCache, whatever its       *)
(* bound, its ttl and the number of goroutines that use it.                *)
THEOREM RefinementCorrect == Spec => ImplementsLossyCache
  <1>1. Init => Promise!Init
    BY DEF Init, Promise!Init, gotMap, phaseMap
  <1> QED
    BY <1>1, StepRefines, TypeInvariant, PendingInvariant, PTL
    DEF Spec, ImplementsLossyCache, Promise!Spec
=============================================================================
