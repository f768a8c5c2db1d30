------------------------- MODULE ConfigCacheProofs -------------------------
(***************************************************************************)
(* Proofs about the double-checked caches, for any threads, files, edits    *)
(* and calls.                                                              *)
(***************************************************************************)
EXTENDS ConfigCache, TLAPS

Inside == {"recheck", "read", "store"}
Stages == {"idle", "check", "get", "lock"} \union Inside

(* A lock is held exactly inside its with block.                           *)
LockDiscipline ==
  \A t \in Threads, c \in Caches :
    lock[c] = t <=> pc[t] \in Inside /\ CacheOf(file[t]) = c

(* What is cached is no older than the last clear, and was read once.      *)
CacheFresh ==
  \A f \in Files :
    /\ dropped[f] <= disk[f].gen
    /\ cache[f] # 0 => cache[f] >= dropped[f]
CacheOnce ==
  \A f \in Files : reads[f] <= 1 /\ (cache[f] = 0 => reads[f] = 0)

(* What a call has established when it is at a step.                       *)
Open(t) == pc[t] # "idle" => result[t] = 0 /\ error[t] = "none"
Reading(t) ==
  /\ pc[t] \in {"read", "store"} /\ useCache[t] => cache[file[t]] = 0
  /\ pc[t] \in {"check", "get"} => useCache[t]
Hitting(t) == pc[t] = "get" => cache[file[t]] # 0 \/ cleared[t]
Bounded(t) ==
  /\ pc[t] # "idle" => floor[t] <= disk[file[t]].gen
  /\ pc[t] # "idle" /\ useCache[t] => floor[t] <= dropped[file[t]]
  /\ pc[t] = "store" =>
       got[t] \in Gens /\ got[t] >= dropped[file[t]] /\ got[t] >= floor[t]
Calls == \A t \in Threads : Open(t) /\ Reading(t) /\ Hitting(t) /\ Bounded(t)

(* The unlocked hit finds its entry unless clear_cache ran during the call.*)
KeyErrorNeedsClear ==
  \A t \in Threads : error[t] = "KeyError" => cleared[t]

CacheInv ==
  TypeOK /\ CacheFresh /\ CacheOnce /\ Calls /\ NoStaleReload /\ KeyErrorNeedsClear
-----------------------------------------------------------------------------
(* An edit makes the disk newer than everything that was read from it.     *)
LEMMA EditStep ==
  ASSUME CacheInv, NEW f \in Files, Edit(f)
  PROVE  CacheInv'
<1> USE DEF Edit, local, history, CacheInv
<1>1. TypeOK'
  BY BoundsAssumption DEF TypeOK, Gens
<1>2. CacheFresh'
  BY BoundsAssumption DEF TypeOK, CacheFresh, Calls, Bounded, Gens
<1>3. CacheOnce'
  BY DEF CacheOnce
<1>4. ASSUME NEW d \in Threads PROVE Open(d)'
  BY DEF Calls, Open
<1>5. ASSUME NEW d \in Threads PROVE Reading(d)'
  BY DEF Calls, Reading
<1>6. ASSUME NEW d \in Threads PROVE Hitting(d)'
  BY DEF Calls, Hitting
<1>7. ASSUME NEW d \in Threads PROVE Bounded(d)'
  BY BoundsAssumption DEF TypeOK, Calls, Bounded, Gens, Caches
<1>8. NoStaleReload'
  BY DEF NoStaleReload
<1>9. KeyErrorNeedsClear'
  BY DEF KeyErrorNeedsClear
<1> QED  BY <1>1, <1>2, <1>3, <1>4, <1>5, <1>6, <1>7, <1>8, <1>9 DEF Calls

(* A call begins with the oldest content it may return as its floor.       *)
LEMMA CallStep ==
  ASSUME CacheInv, NEW t \in Threads, NEW f \in Files, NEW u \in BOOLEAN, Call(t, f, u)
  PROVE  CacheInv'
<1> USE DEF Call, Goto, CacheInv
<1>1. TypeOK'
  BY BoundsAssumption DEF TypeOK, Errors
<1>2. CacheFresh'
  BY DEF CacheFresh
<1>3. CacheOnce'
  BY DEF CacheOnce
<1>4. ASSUME NEW d \in Threads PROVE Open(d)'
  BY DEF TypeOK, Calls, Open
<1>5. ASSUME NEW d \in Threads PROVE Reading(d)'
  BY DEF TypeOK, Calls, Reading
<1>6. ASSUME NEW d \in Threads PROVE Hitting(d)'
  BY DEF Calls, Hitting
<1>7. ASSUME NEW d \in Threads PROVE Bounded(d)'
  BY DEF TypeOK, Calls, Bounded, CacheFresh, Gens
<1>8. NoStaleReload'
  BY DEF TypeOK, NoStaleReload
<1>9. KeyErrorNeedsClear'
  BY DEF TypeOK, KeyErrorNeedsClear
<1> QED  BY <1>1, <1>2, <1>3, <1>4, <1>5, <1>6, <1>7, <1>8, <1>9 DEF Calls

(* The unlocked test changes no shared state.                              *)
LEMMA CheckStep ==
  ASSUME CacheInv, NEW t \in Threads, Check(t)
  PROVE  CacheInv'
<1> USE DEF Check, Goto, Cached, history, CacheInv
<1>1. TypeOK'
  BY DEF TypeOK
<1>2. CacheFresh'
  BY DEF CacheFresh
<1>3. CacheOnce'
  BY DEF CacheOnce
<1>4. ASSUME NEW d \in Threads PROVE Open(d)'
  BY DEF Calls, Open
<1>5. ASSUME NEW d \in Threads PROVE Reading(d)'
  BY DEF Calls, Reading
<1>6. ASSUME NEW d \in Threads PROVE Hitting(d)'
  BY DEF Calls, Hitting
<1>7. ASSUME NEW d \in Threads PROVE Bounded(d)'
  BY DEF Calls, Bounded
<1>8. NoStaleReload'
  BY DEF NoStaleReload
<1>9. KeyErrorNeedsClear'
  BY DEF KeyErrorNeedsClear
<1> QED  BY <1>1, <1>2, <1>3, <1>4, <1>5, <1>6, <1>7, <1>8, <1>9 DEF Calls

(* The unlocked hit returns what is cached, which no clear has dropped;    *)
(* it misses only after a clear.                                           *)
LEMMA GetStep ==
  ASSUME CacheInv, NEW t \in Threads, Get(t)
  PROVE  CacheInv'
<1> USE DEF Get, Goto, Return, Raise, history, CacheInv
<1>1. TypeOK'
  <2>1. /\ disk' \in [Files -> [gen : Gens, good : BOOLEAN]]
        /\ cache' \in [Files -> {0} \union Gens]
        /\ lock' \in [Caches -> Threads \union {Free}]
    BY DEF TypeOK
  <2>2. /\ pc' \in [Threads -> {"idle", "check", "get", "lock", "recheck", "read", "store"}]
        /\ file' \in [Threads -> Files]
        /\ useCache' \in [Threads -> BOOLEAN]
    BY DEF TypeOK
  <2>3. /\ got' \in [Threads -> {0} \union Gens]
        /\ result' \in [Threads -> {0} \union Gens]
        /\ error' \in [Threads -> Errors]
        /\ calls' \in [Threads -> 0..MaxCalls]
    BY BoundsAssumption DEF TypeOK, Gens, Errors, Calls, Bounded
  <2>4. /\ reads' \in [Files -> Nat]
        /\ dropped' \in [Files -> {0} \union Gens]
        /\ cleared' \in [Threads -> BOOLEAN]
        /\ floor' \in [Threads -> {0} \union Gens]
    BY BoundsAssumption DEF TypeOK, Gens
  <2> QED  BY <2>1, <2>2, <2>3, <2>4 DEF TypeOK
<1>2. CacheFresh'
  BY DEF CacheFresh
<1>3. CacheOnce'
  BY DEF CacheOnce
<1>4. ASSUME NEW d \in Threads PROVE Open(d)'
  BY <1>4 DEF TypeOK, Calls, Open
<1>5. ASSUME NEW d \in Threads PROVE Reading(d)'
  BY DEF TypeOK, Calls, Reading
<1>6. ASSUME NEW d \in Threads PROVE Hitting(d)'
  BY DEF TypeOK, Calls, Hitting
<1>7. ASSUME NEW d \in Threads PROVE Bounded(d)'
  BY DEF TypeOK, Calls, Bounded
<1>8. NoStaleReload'
  <2>1. file[t] \in Files /\ useCache[t] /\ floor[t] <= dropped[file[t]]
    BY DEF TypeOK, Calls, Reading, Bounded
  <2>2. cache[file[t]] # 0 => floor[t] <= cache[file[t]]
    BY <2>1, BoundsAssumption DEF CacheFresh, TypeOK, Gens
  <2> QED  BY <2>2 DEF TypeOK, NoStaleReload
<1>9. KeyErrorNeedsClear'
  BY DEF TypeOK, KeyErrorNeedsClear, Calls, Hitting
<1> QED  BY <1>1, <1>2, <1>3, <1>4, <1>5, <1>6, <1>7, <1>8, <1>9 DEF Calls

(* A lock is taken when it is free.                                        *)
LEMMA AcquireStep ==
  ASSUME CacheInv, NEW t \in Threads, Acquire(t)
  PROVE  CacheInv'
<1> USE DEF Acquire, Goto, history, CacheInv
<1>1. TypeOK'
  <2>1. LockDiscipline'
    BY FreeAssumption DEF TypeOK, LockDiscipline, Inside
  <2> QED  BY <2>1 DEF TypeOK, LockDiscipline, Inside
<1>2. CacheFresh'
  BY DEF CacheFresh
<1>3. CacheOnce'
  BY DEF CacheOnce
<1>4. ASSUME NEW d \in Threads PROVE Open(d)'
  BY DEF Calls, Open
<1>5. ASSUME NEW d \in Threads PROVE Reading(d)'
  BY DEF Calls, Reading
<1>6. ASSUME NEW d \in Threads PROVE Hitting(d)'
  BY DEF Calls, Hitting
<1>7. ASSUME NEW d \in Threads PROVE Bounded(d)'
  BY DEF Calls, Bounded
<1>8. NoStaleReload'
  BY DEF NoStaleReload
<1>9. KeyErrorNeedsClear'
  BY DEF KeyErrorNeedsClear
<1> QED  BY <1>1, <1>2, <1>3, <1>4, <1>5, <1>6, <1>7, <1>8, <1>9 DEF Calls

(* The test under the lock returns what is cached or establishes that      *)
(* nothing is.                                                             *)
LEMMA RecheckStep ==
  ASSUME CacheInv, NEW t \in Threads, Recheck(t)
  PROVE  CacheInv'
<1> USE DEF Recheck, Hit, Cached, Goto, Return, Release, history, CacheInv
<1>1. TypeOK'
  <2>1. LockDiscipline'
    BY FreeAssumption DEF TypeOK, LockDiscipline, Inside, Caches
  <2> QED  BY <2>1, BoundsAssumption
           DEF TypeOK, LockDiscipline, Inside, Gens, Errors, Caches, CacheOf
<1>2. CacheFresh'
  BY DEF CacheFresh
<1>3. CacheOnce'
  BY DEF CacheOnce
<1>4. ASSUME NEW d \in Threads PROVE Open(d)'
  BY DEF TypeOK, Calls, Open
<1>5. ASSUME NEW d \in Threads PROVE Reading(d)'
  BY DEF TypeOK, Calls, Reading
<1>6. ASSUME NEW d \in Threads PROVE Hitting(d)'
  BY DEF TypeOK, Calls, Hitting
<1>7. ASSUME NEW d \in Threads PROVE Bounded(d)'
  BY DEF TypeOK, Calls, Bounded
<1>8. NoStaleReload'
  BY BoundsAssumption DEF TypeOK, NoStaleReload, Calls, Bounded, CacheFresh, Reading, Open, Gens
<1>9. KeyErrorNeedsClear'
  BY DEF KeyErrorNeedsClear
<1> QED  BY <1>1, <1>2, <1>3, <1>4, <1>5, <1>6, <1>7, <1>8, <1>9 DEF Calls

(* A read yields what is on disk now, or fails and frees the lock.         *)
LEMMA ReadStep ==
  ASSUME CacheInv, NEW t \in Threads, Read(t)
  PROVE  CacheInv'
<1> USE DEF Read, Goto, Raise, Abandon, Release, history, CacheInv
<1>1. TypeOK'
  <2>1. /\ disk' \in [Files -> [gen : Gens, good : BOOLEAN]]
        /\ cache' \in [Files -> {0} \union Gens]
        /\ lock' \in [Caches -> Threads \union {Free}]
    BY DEF TypeOK, Caches
  <2>3. /\ got' \in [Threads -> {0} \union Gens]
        /\ result' \in [Threads -> {0} \union Gens]
        /\ error' \in [Threads -> Errors]
        /\ calls' \in [Threads -> 0..MaxCalls]
    <3>1. file[t] \in Files /\ disk[file[t]].gen \in Gens /\ cache[file[t]] \in {0} \union Gens
      BY DEF TypeOK
    <3>2. /\ got' \in [Threads -> {0} \union Gens]
          /\ result' \in [Threads -> {0} \union Gens]
      BY <3>1 DEF TypeOK
    <3>3. error' \in [Threads -> Errors]
      BY DEF TypeOK, Errors
    <3> QED  BY <3>2, <3>3 DEF TypeOK
  <2>5. LockDiscipline'
    BY FreeAssumption DEF TypeOK, LockDiscipline, Inside
  <2> QED  BY <2>1, <2>3, <2>5 DEF TypeOK, LockDiscipline, Inside
<1>2. CacheFresh'
  BY DEF CacheFresh
<1>3. CacheOnce'
  BY DEF CacheOnce
<1>4. ASSUME NEW d \in Threads PROVE Open(d)'
  BY DEF TypeOK, Calls, Open
<1>5. ASSUME NEW d \in Threads PROVE Reading(d)'
  BY DEF TypeOK, Calls, Reading
<1>6. ASSUME NEW d \in Threads PROVE Hitting(d)'
  BY DEF TypeOK, Calls, Hitting
<1>7. ASSUME NEW d \in Threads PROVE Bounded(d)'
  BY DEF TypeOK, Calls, Bounded, CacheFresh
<1>8. NoStaleReload'
  BY DEF NoStaleReload
<1>9. KeyErrorNeedsClear'
  BY DEF TypeOK, KeyErrorNeedsClear
<1> QED  BY <1>1, <1>2, <1>3, <1>4, <1>5, <1>6, <1>7, <1>8, <1>9 DEF Calls

(* What is stored was read under the same lock, so no other thread stored  *)
(* and no clear ran since.                                                 *)
LEMMA StoreStep ==
  ASSUME CacheInv, NEW t \in Threads, Store(t)
  PROVE  CacheInv'
<1> USE DEF Store, Return, Goto, Release, CacheInv
<1>1. TypeOK'
  <2>1. /\ disk' \in [Files -> [gen : Gens, good : BOOLEAN]]
        /\ cache' \in [Files -> {0} \union Gens]
        /\ lock' \in [Caches -> Threads \union {Free}]
    BY DEF TypeOK, Caches, CacheOf
  <2>4. /\ reads' \in [Files -> Nat]
        /\ dropped' \in [Files -> {0} \union Gens]
        /\ cleared' \in [Threads -> BOOLEAN]
        /\ floor' \in [Threads -> {0} \union Gens]
    BY BoundsAssumption DEF TypeOK, Gens
  <2>5. LockDiscipline'
    BY FreeAssumption DEF TypeOK, LockDiscipline, Inside
  <2> QED  BY <2>1, <2>4, <2>5 DEF TypeOK, LockDiscipline, Inside
<1>2. CacheFresh'
  BY DEF TypeOK, CacheFresh, Calls, Bounded, Gens
<1>3. CacheOnce'
  BY DEF TypeOK, CacheOnce, Calls, Reading, Bounded, Gens
<1>4. ASSUME NEW d \in Threads PROVE Open(d)'
  BY DEF TypeOK, Calls, Open
<1>5. ASSUME NEW d \in Threads PROVE Reading(d)'
  BY DEF TypeOK, Calls, Reading, CacheOf, Caches
<1>6. ASSUME NEW d \in Threads PROVE Hitting(d)'
  BY DEF TypeOK, Calls, Hitting, Reading
<1>7. ASSUME NEW d \in Threads PROVE Bounded(d)'
  BY DEF TypeOK, Calls, Bounded
<1>8. NoStaleReload'
  BY DEF NoStaleReload, Calls, Bounded
<1>9. KeyErrorNeedsClear'
  BY DEF KeyErrorNeedsClear
<1> QED  BY <1>1, <1>2, <1>3, <1>4, <1>5, <1>6, <1>7, <1>8, <1>9 DEF Calls

(* A clear runs while nobody reads a configuration file under the lock.    *)
LEMMA ClearStep ==
  ASSUME CacheInv, NEW t \in Threads, Clear(t)
  PROVE  CacheInv'
<1> USE DEF Clear, ClearLocked, CacheInv
<1>1. TypeOK'
  BY BoundsAssumption DEF TypeOK
<1>2. CacheFresh'
  BY DEF TypeOK, CacheFresh, Gens
<1>3. CacheOnce'
  BY DEF CacheOnce
<1>4. ASSUME NEW d \in Threads PROVE Open(d)'
  BY DEF Calls, Open
<1>5. ASSUME NEW d \in Threads PROVE Reading(d)'
  BY DEF TypeOK, Calls, Reading
<1>6. ASSUME NEW d \in Threads PROVE Hitting(d)'
  BY DEF Hitting
<1>7. ASSUME NEW d \in Threads PROVE Bounded(d)'
  BY FreeAssumption DEF TypeOK, Calls, Bounded, CacheOf, Caches
<1>8. NoStaleReload'
  BY DEF NoStaleReload
<1>9. KeyErrorNeedsClear'
  BY DEF KeyErrorNeedsClear
<1> QED  BY <1>1, <1>2, <1>3, <1>4, <1>5, <1>6, <1>7, <1>8, <1>9 DEF Calls

-----------------------------------------------------------------------------
(* The invariant of the caches, on which the properties rest.              *)
THEOREM CacheInvariant == Spec => []CacheInv
<1>1. Init => CacheInv
  <2> SUFFICES ASSUME Init PROVE CacheInv
    OBVIOUS
  <2>1. TypeOK
    BY FreeAssumption, FilesAssumption, BoundsAssumption
       DEF Init, TypeOK, Files, Gens, Errors
  <2>2. CacheFresh /\ CacheOnce
    BY DEF Init, CacheFresh, CacheOnce
  <2>3. Calls /\ NoStaleReload /\ KeyErrorNeedsClear
    BY DEF Init, Calls, Open, Reading, Hitting, Bounded, NoStaleReload, KeyErrorNeedsClear
  <2> QED  BY <2>1, <2>2, <2>3 DEF CacheInv
<1>2. CacheInv /\ [Next]_vars => CacheInv'
  <2> SUFFICES ASSUME CacheInv, [Next]_vars PROVE CacheInv'
    OBVIOUS
  <2>1. CASE UNCHANGED vars
    BY <2>1 DEF vars, local, history, CacheInv, TypeOK, CacheFresh, CacheOnce,
                Calls, Open, Reading, Hitting, Bounded, NoStaleReload, KeyErrorNeedsClear
  <2>2. CASE \E f \in Files : Edit(f)
    BY <2>2, EditStep
  <2>3. ASSUME NEW t \in Threads, Run(t) PROVE CacheInv'
    BY <2>3, CheckStep, GetStep, AcquireStep, RecheckStep, ReadStep, StoreStep DEF Run
  <2>4. ASSUME NEW t \in Threads, NEW f \in Files, NEW u \in BOOLEAN, Call(t, f, u)
        PROVE  CacheInv'
    BY <2>4, CallStep
  <2>5. ASSUME NEW t \in Threads, Clear(t) PROVE CacheInv'
    BY <2>5, ClearStep
  <2> QED  BY <2>1, <2>2, <2>3, <2>4, <2>5 DEF Next
<1> QED  BY <1>1, <1>2, PTL DEF Spec

(* Each lock is held exactly by the thread inside its with block.          *)
THEOREM TypeCorrect == Spec => []TypeOK
<1>1. CacheInv => TypeOK
  BY DEF CacheInv
<1> QED  BY <1>1, CacheInvariant, PTL

(* However many threads miss together, a file is parsed into its cache     *)
(* once between two clears, so that all callers share one object.          *)
THEOREM ParsesOnce == Spec => []ParsedOnce
<1>1. CacheInv => ParsedOnce
  BY DEF CacheInv, CacheOnce, ParsedOnce
<1> QED  BY <1>1, CacheInvariant, PTL

(* What was dropped by a clear is never returned by a later call.          *)
THEOREM ReloadsFresh == Spec => []NoStaleReload
<1>1. CacheInv => NoStaleReload
  BY DEF CacheInv
<1> QED  BY <1>1, CacheInvariant, PTL

(* The KeyError of the unlocked hit needs a clear during the call.         *)
THEOREM FailsOnlyUnderClear == Spec => []KeyErrorNeedsClear
<1>1. CacheInv => KeyErrorNeedsClear
  BY DEF CacheInv
<1> QED  BY <1>1, CacheInvariant, PTL
-----------------------------------------------------------------------------
(* A call takes effect in one step, at the read or at the successful       *)
(* lookup.  What a thread that is about to store has read counts as cached *)
(* already: it holds the lock, so that nobody else can tell.               *)
ClearedSeen == {t \in CallsAhead : cleared[t]}

(* A thread that stores a file holds the lock of its cache.                *)
LEMMA StorerHoldsLock ==
  ASSUME CacheInv, NEW t \in Storing
  PROVE  /\ t \in Threads /\ pc[t] = "store" /\ file[t] \in Files
         /\ lock[CacheOf(file[t])] = t
  BY DEF CacheInv, TypeOK, Storing, Caches, CacheOf

(* What is cached, once it is, is what is seen.                            *)
LEMMA CachedIsSeen ==
  ASSUME CacheInv, NEW f \in Files, cache[f] # 0
  PROVE  CacheSeen[f] = cache[f]
  BY StorerHoldsLock DEF CacheInv, Calls, Reading, CacheSeen, Storing

(* Nothing unstored is seen of a cache whose lock is free, or held by a    *)
(* thread that is not storing.                                             *)
LEMMA SeenIsCached ==
  ASSUME CacheInv, NEW f \in Files, lock[CacheOf(f)] \notin Storing
  PROVE  CacheSeen[f] = cache[f]
  BY DEF CacheSeen

(* Steps that touch neither locks nor what was read show no change.        *)
LEMMA SameCacheSeen ==
  ASSUME cache' = cache, lock' = lock, got' = got, Storing' = Storing,
         \A t \in Storing : useCache'[t] = useCache[t] /\ file'[t] = file[t]
  PROVE  CacheSeen' = CacheSeen
  BY DEF CacheSeen

(* An edit is one.                                                         *)
LEMMA EditAtomic ==
  ASSUME CacheInv, NEW f \in Files, Edit(f)
  PROVE  Atomic!Edit(f)
<1>1. disk'[f].gen > disk[f].gen /\ disk' = [disk EXCEPT ![f] = disk'[f]]
  BY DEF Edit, CacheInv, TypeOK, Gens
<1>2. UNCHANGED <<Storing, CallsAhead, ClearedSeen, ResultSeen>>
  BY DEF Edit, local, history, Storing, CallsAhead, ClearedSeen, ResultSeen
<1>3. CacheSeen' = CacheSeen
  BY <1>2, SameCacheSeen DEF Edit, local
<1> QED  BY <1>1, <1>2, <1>3 DEF Edit, local, history, Atomic!Edit, ClearedSeen

(* A call is one: its thread is idle.                                      *)
LEMMA CallAtomic ==
  ASSUME CacheInv, NEW t \in Threads, NEW f \in Files, NEW u \in BOOLEAN, Call(t, f, u)
  PROVE  Atomic!Call(t, f, u)
<1>1. /\ pc \in [Threads -> Stages] /\ cleared \in [Threads -> BOOLEAN]
      /\ result \in [Threads -> {0} \union Gens]
  BY DEF CacheInv, TypeOK, Stages, Inside
<1>2. /\ pc[t] = "idle" /\ t \notin Storing /\ t \notin CallsAhead
      /\ Storing' = Storing /\ CallsAhead' = CallsAhead \union {t}
  BY <1>1 DEF Call, Goto, Storing, CallsAhead
<1>3. ClearedSeen' = ClearedSeen
  BY <1>1, <1>2 DEF Call, ClearedSeen, CallsAhead
<1>4. ResultSeen' = [ResultSeen EXCEPT ![t] = 0]
  BY <1>1, <1>2 DEF Call, ResultSeen
<1>5. CacheSeen' = CacheSeen
  <2>1. \A q \in Storing : useCache'[q] = useCache[q] /\ file'[q] = file[q]
    BY <1>2 DEF Call, CacheInv, TypeOK, Storing
  <2> QED  BY <1>2, <2>1, SameCacheSeen DEF Call
<1> QED  BY <1>2, <1>3, <1>4, <1>5 DEF Call, Atomic!Call, ClearedSeen

(* The unlocked test and the taking of the lock do not show.               *)
LEMMA CheckAtomic ==
  ASSUME CacheInv, NEW t \in Threads, Check(t) \/ Acquire(t)
  PROVE  UNCHANGED Atomic!vars
<1>1. pc \in [Threads -> Stages]
  BY DEF CacheInv, TypeOK, Stages, Inside
<1>2. UNCHANGED <<Storing, CallsAhead, ClearedSeen, ResultSeen>>
  BY <1>1 DEF Check, Acquire, Goto, history, Storing, CallsAhead, ClearedSeen, ResultSeen
<1>3. CacheSeen' = CacheSeen
  <2>1. CASE Check(t)
    BY <1>2, <2>1, SameCacheSeen DEF Check, history
  <2>2. CASE Acquire(t)
    <3>1. t \notin Storing /\ Free \notin Storing
      BY <2>2, FreeAssumption DEF Acquire, Storing
    <3>2. \A f \in Files : CacheOf(f) \in Caches /\ CacheOf(file[t]) \in Caches
      BY DEF CacheOf, Caches
    <3>3. /\ lock[CacheOf(file[t])] = Free
          /\ lock' = [lock EXCEPT ![CacheOf(file[t])] = t]
          /\ lock \in [Caches -> Threads \union {Free}]
          /\ UNCHANGED <<cache, got, useCache, file>>
      BY <2>2 DEF Acquire, history, CacheInv, TypeOK
    <3> QED  BY <1>2, <3>1, <3>2, <3>3 DEF CacheSeen
  <2> QED  BY <2>1, <2>2
<1> QED  BY <1>2, <1>3 DEF Check, Acquire, history, Atomic!vars, ClearedSeen

(* What a thread that takes effect leaves to the others.                   *)
LEMMA EffectSeen ==
  ASSUME CacheInv, NEW t \in CallsAhead, NEW stage \in {"idle", "store"},
         pc' = [pc EXCEPT ![t] = stage], UNCHANGED <<disk, file, useCache, history>>
  PROVE  Atomic!Effect(t)
<1>1. pc \in [Threads -> Stages] /\ t \in Threads
  BY DEF CacheInv, TypeOK, Stages, Inside, CallsAhead
<1>2. CallsAhead' = CallsAhead \ {t}
  BY <1>1 DEF CallsAhead
<1>3. ClearedSeen' = ClearedSeen \ {t}
  BY <1>2 DEF ClearedSeen, history
<1> QED  BY <1>2, <1>3 DEF Atomic!Effect, ClearedSeen, history

(* A hit takes effect at its lookup; one that finds its entry gone misses. *)
LEMMA GetAtomic ==
  ASSUME CacheInv, NEW t \in Threads, Get(t)
  PROVE  Atomic!Serve(t) \/ Atomic!Miss(t)
<1>1. /\ pc \in [Threads -> Stages] /\ result \in [Threads -> {0} \union Gens]
      /\ file[t] \in Files /\ pc[t] = "get" /\ t \in CallsAhead /\ t \notin Storing
      /\ useCache[t]
  BY DEF Get, CacheInv, TypeOK, Stages, Inside, CallsAhead, Storing, Calls, Reading
<1>2. Atomic!Effect(t)
  BY <1>1, EffectSeen DEF Get, Return, Raise, Goto
<1>3. Storing' = Storing
  BY <1>1 DEF Get, Return, Raise, Goto, Storing
<1>4. CacheSeen' = CacheSeen
  BY <1>3, SameCacheSeen DEF Get
<1>5. CASE cache[file[t]] = 0 /\ Raise(t, "KeyError")
  <2>1. cleared[t]
    BY <1>1, <1>5 DEF CacheInv, Calls, Hitting
  <2>2. ResultSeen' = ResultSeen
    BY <1>3, <1>5 DEF Get, Raise, ResultSeen
  <2> QED  BY <1>1, <1>2, <1>4, <1>5, <2>1, <2>2 DEF Raise, Atomic!Miss
<1>6. CASE cache[file[t]] # 0 /\ Return(t, cache[file[t]])
  <2>1. CacheSeen[file[t]] = cache[file[t]]
    BY <1>1, <1>6, CachedIsSeen
  <2>2. ResultSeen' = [ResultSeen EXCEPT ![t] = cache[file[t]]]
    BY <1>1, <1>3, <1>6 DEF Get, Return, ResultSeen
  <2> QED  BY <1>1, <1>2, <1>4, <1>6, <2>1, <2>2 DEF Return, Atomic!Serve, Atomic!Hit
<1> QED  BY <1>5, <1>6 DEF Get

(* With the lock held a hit takes effect; otherwise nothing shows yet.     *)
LEMMA RecheckAtomic ==
  ASSUME CacheInv, NEW t \in Threads, Recheck(t)
  PROVE  Atomic!Serve(t) \/ UNCHANGED Atomic!vars
<1>1. /\ pc \in [Threads -> Stages] /\ result \in [Threads -> {0} \union Gens]
      /\ file[t] \in Files /\ pc[t] = "recheck" /\ t \in CallsAhead /\ t \notin Storing
      /\ lock \in [Caches -> Threads \union {Free}] /\ CacheOf(file[t]) \in Caches
  BY DEF Recheck, CacheInv, TypeOK, Stages, Inside, CallsAhead, Storing, Caches, CacheOf
<1>2. lock[CacheOf(file[t])] = t
  BY <1>1 DEF CacheInv, TypeOK
<1>3. Storing' = Storing
  BY <1>1 DEF Recheck, Return, Goto, Storing
<1>4. CacheSeen' = CacheSeen
  <2>1. /\ lock' = lock \/ lock' = [lock EXCEPT ![CacheOf(file[t])] = Free]
        /\ UNCHANGED <<cache, got, useCache, file>> /\ Free \notin Storing
    BY FreeAssumption DEF Recheck, Release, Storing
  <2>2. \A f \in Files : CacheOf(f) \in Caches
    BY DEF CacheOf, Caches
  <2> QED  BY <1>1, <1>2, <1>3, <2>1, <2>2 DEF CacheSeen
<1>5. CASE Hit(t) /\ Return(t, cache[file[t]])
  <2>1. Atomic!Effect(t)
    BY <1>1, <1>5, EffectSeen DEF Recheck, Return, Goto
  <2>2. CacheSeen[file[t]] = cache[file[t]]
    BY <1>1, <1>5, CachedIsSeen DEF Hit, Cached
  <2>3. ResultSeen' = [ResultSeen EXCEPT ![t] = cache[file[t]]]
    BY <1>1, <1>3, <1>5 DEF Recheck, Return, ResultSeen
  <2> QED
    BY <1>1, <1>4, <1>5, <2>1, <2>2, <2>3 DEF Return, Atomic!Serve, Atomic!Hit, Hit, Cached
<1>6. CASE Goto(t, "read") /\ UNCHANGED <<result, error, lock>>
  <2>1. UNCHANGED <<CallsAhead, ClearedSeen, ResultSeen>>
    BY <1>1, <1>3, <1>6 DEF Recheck, Goto, history, CallsAhead, ClearedSeen, ResultSeen
  <2> QED  BY <1>4, <1>6, <2>1 DEF Recheck, history, Atomic!vars, ClearedSeen
<1> QED  BY <1>5, <1>6 DEF Recheck

(* A miss takes effect when the file is read, or fails then.               *)
LEMMA ReadAtomic ==
  ASSUME CacheInv, NEW t \in Threads, Read(t)
  PROVE  Atomic!Load(t) \/ Atomic!Fail(t)
<1>1. /\ pc \in [Threads -> Stages] /\ got \in [Threads -> {0} \union Gens]
      /\ file[t] \in Files /\ pc[t] = "read" /\ t \in CallsAhead /\ t \notin Storing
      /\ lock \in [Caches -> Threads \union {Free}] /\ CacheOf(file[t]) \in Caches
      /\ useCache[t] => cache[file[t]] = 0
  BY DEF Read, CacheInv, TypeOK, Stages, Inside, CallsAhead, Storing, Caches, CacheOf,
         Calls, Reading
<1>2. lock[CacheOf(file[t])] = t
  BY <1>1 DEF CacheInv, TypeOK
<1>3. ~ (useCache[t] /\ CacheSeen[file[t]] # 0)
  BY <1>1, <1>2, SeenIsCached
<1>4. Atomic!Effect(t)
  BY <1>1, EffectSeen DEF Read, Raise, Goto
<1>5. \A f \in Files : CacheOf(f) \in Caches
  BY DEF CacheOf, Caches
<1>6. CASE disk[file[t]].good
  <2>1. /\ got' = [got EXCEPT ![t] = disk[file[t]].gen]
        /\ pc' = [pc EXCEPT ![t] = "store"]
        /\ UNCHANGED <<result, error, lock, cache, file, useCache>>
    BY <1>6 DEF Read, Goto
  <2>2. Storing' = Storing \union {t}
    BY <1>1, <2>1 DEF Storing
  <2>3. ResultSeen' = [ResultSeen EXCEPT ![t] = disk[file[t]].gen]
    BY <1>1, <2>1, <2>2, StorerHoldsLock DEF ResultSeen
  <2>4. CacheSeen' = IF useCache[t] THEN [CacheSeen EXCEPT ![file[t]] = disk[file[t]].gen]
                     ELSE CacheSeen
    <3>1. \A f \in Files : lock[CacheOf(f)] = t => CacheSeen[f] = cache[f]
      BY <1>1, SeenIsCached
    <3>2. \A f \in Files :
            CacheSeen'[f] = IF useCache[t] /\ f = file[t] THEN disk[file[t]].gen
                            ELSE CacheSeen[f]
      <4>1. ASSUME NEW f \in Files, lock[CacheOf(f)] = t
            PROVE  CacheSeen'[f] = IF useCache[t] /\ f = file[t] THEN disk[file[t]].gen
                                   ELSE CacheSeen[f]
        BY <1>1, <2>1, <2>2, <3>1, <4>1 DEF CacheSeen
      <4>2. ASSUME NEW f \in Files, lock[CacheOf(f)] # t
            PROVE  CacheSeen'[f] = IF useCache[t] /\ f = file[t] THEN disk[file[t]].gen
                                   ELSE CacheSeen[f]
        BY <1>1, <1>2, <2>1, <2>2, <4>2, StorerHoldsLock DEF CacheSeen
      <4> QED  BY <4>1, <4>2
    <3> QED  BY <3>2 DEF CacheSeen
  <2> QED  BY <1>3, <1>4, <1>6, <2>1, <2>3, <2>4 DEF Atomic!Load, Atomic!Hit
<1>7. CASE ~disk[file[t]].good
  <2>1. /\ error' = [error EXCEPT ![t] = "LoadError"]
        /\ pc' = [pc EXCEPT ![t] = "idle"]
        /\ lock' = [lock EXCEPT ![CacheOf(file[t])] = Free]
        /\ UNCHANGED <<result, got, cache, file, useCache>>
    BY <1>7 DEF Read, Raise, Goto, Abandon, Release
  <2>2. Storing' = Storing /\ Free \notin Storing
    BY <1>1, <2>1, FreeAssumption DEF Storing
  <2>3. ResultSeen' = ResultSeen
    BY <2>1, <2>2 DEF ResultSeen
  <2>4. CacheSeen' = CacheSeen
    BY <1>1, <1>2, <1>5, <2>1, <2>2 DEF CacheSeen
  <2> QED  BY <1>3, <1>4, <1>7, <2>1, <2>3, <2>4 DEF Atomic!Fail, Atomic!Hit
<1> QED  BY <1>6, <1>7

(* The store makes so what was seen since the read.                        *)
LEMMA StoreAtomic ==
  ASSUME CacheInv, NEW t \in Threads, Store(t)
  PROVE  UNCHANGED Atomic!vars
<1>1. /\ pc \in [Threads -> Stages] /\ result \in [Threads -> {0} \union Gens]
      /\ cache \in [Files -> {0} \union Gens]
      /\ file[t] \in Files /\ pc[t] = "store" /\ t \notin CallsAhead /\ t \in Storing
      /\ lock \in [Caches -> Threads \union {Free}] /\ CacheOf(file[t]) \in Caches
  BY DEF Store, CacheInv, TypeOK, Stages, Inside, CallsAhead, Storing, Caches, CacheOf
<1>2. lock[CacheOf(file[t])] = t
  BY <1>1 DEF CacheInv, TypeOK
<1>3. /\ pc' = [pc EXCEPT ![t] = "idle"]
      /\ result' = [result EXCEPT ![t] = got[t]] /\ got' = [got EXCEPT ![t] = 0]
      /\ lock' = [lock EXCEPT ![CacheOf(file[t])] = Free]
      /\ cache' = IF useCache[t] THEN [cache EXCEPT ![file[t]] = got[t]] ELSE cache
      /\ UNCHANGED <<disk, file, useCache, dropped, cleared, error>>
  BY DEF Store, Return, Goto, Release
<1>4. Storing' = Storing \ {t} /\ CallsAhead' = CallsAhead
  BY <1>1, <1>3 DEF Storing, CallsAhead
<1>5. ClearedSeen' = ClearedSeen
  BY <1>3, <1>4 DEF ClearedSeen
<1>6. ResultSeen' = ResultSeen
  <2>1. got \in [Threads -> {0} \union Gens]
    BY DEF CacheInv, TypeOK
  <2> QED  BY <1>1, <1>3, <1>4, <2>1 DEF ResultSeen
<1>7. CacheSeen' = CacheSeen
  <2>1. \A f \in Files : CacheOf(f) \in Caches
    BY DEF CacheOf, Caches
  <2>2. got \in [Threads -> {0} \union Gens] /\ Free \notin Storing
    BY FreeAssumption DEF CacheInv, TypeOK, Storing
  <2>3. ASSUME NEW f \in Files, lock[CacheOf(f)] = t
        PROVE  CacheSeen'[f] = CacheSeen[f]
    <3>1. CacheOf(f) = CacheOf(file[t])
      BY <1>1, <2>1, <2>3 DEF CacheInv, TypeOK
    <3>2. lock'[CacheOf(f)] = Free
      BY <1>1, <1>3, <3>1
    <3>3. CacheSeen'[f] = cache'[f]
      BY <1>4, <2>2, <3>2 DEF CacheSeen
    <3>4. CacheSeen[f] = IF useCache[t] /\ file[t] = f THEN got[t] ELSE cache[f]
      BY <1>1, <2>3 DEF CacheSeen
    <3> QED  BY <1>1, <1>3, <3>3, <3>4
  <2>4. ASSUME NEW f \in Files, lock[CacheOf(f)] # t
        PROVE  CacheSeen'[f] = CacheSeen[f]
    <3>1. f # file[t] /\ CacheOf(f) # CacheOf(file[t])
      BY <1>2, <2>4
    <3>2. lock'[CacheOf(f)] = lock[CacheOf(f)] /\ cache'[f] = cache[f]
      BY <1>1, <1>3, <2>1, <3>1
    <3> QED  BY <1>3, <1>4, <2>2, <2>4, <3>2, StorerHoldsLock DEF CacheSeen
  <2>5. \A f \in Files : CacheSeen'[f] = CacheSeen[f]
    BY <2>3, <2>4
  <2> QED  BY <2>5 DEF CacheSeen
<1> QED  BY <1>3, <1>4, <1>5, <1>6, <1>7 DEF Atomic!vars, ClearedSeen

(* A clear waits for the lock, so nothing that is about to be stored       *)
(* survives it.                                                            *)
LEMMA ClearAtomic ==
  ASSUME CacheInv, NEW t \in Threads, Clear(t)
  PROVE  Atomic!Clear
<1>1. /\ pc' = pc /\ lock["config"] = Free /\ "config" \in Caches
      /\ UNCHANGED <<disk, lock, file, useCache, got, result, error>>
      /\ cache' = [f \in Files |-> IF f \in ConfigFiles THEN 0 ELSE cache[f]]
      /\ dropped' = [f \in Files |-> IF f \in ConfigFiles THEN disk[f].gen ELSE dropped[f]]
      /\ cleared' = [q \in Threads |-> cleared[q] \/ pc[q] # "idle"]
  BY DEF Clear, ClearLocked, Caches
<1>2. UNCHANGED <<Storing, CallsAhead, ResultSeen>>
  BY <1>1 DEF Storing, CallsAhead, ResultSeen
<1>3. ClearedSeen' = CallsAhead
  BY <1>1, <1>2 DEF ClearedSeen, CallsAhead
<1>4. Free \notin Storing
  BY FreeAssumption DEF Storing
<1>5. ASSUME NEW f \in Files
      PROVE  CacheSeen'[f] = IF f \in ConfigFiles THEN 0 ELSE CacheSeen[f]
  <2>1. CASE f \in ConfigFiles
    BY <1>1, <1>2, <1>4, <2>1 DEF CacheSeen, CacheOf
  <2>2. CASE f \notin ConfigFiles
    BY <1>1, <1>2, <2>2 DEF CacheSeen
  <2> QED  BY <2>1, <2>2
<1>6. CacheSeen' = [f \in Files |-> IF f \in ConfigFiles THEN 0 ELSE CacheSeen[f]]
  BY <1>5 DEF CacheSeen
<1> QED  BY <1>1, <1>2, <1>3, <1>6 DEF Atomic!Clear, Atomic!Files, Files, ClearedSeen

(* Whatever the interleaving, callers see calls of one step each.          *)
THEOREM Atomicity == Spec => CallsAreAtomic
<1>1. Init => Atomic!Init
  <2> SUFFICES ASSUME Init PROVE Atomic!Init
    OBVIOUS
  <2>1. Storing = {} /\ CallsAhead = {}
    BY DEF Init, Storing, CallsAhead
  <2>2. CacheSeen = [f \in Files |-> 0] /\ ResultSeen = [t \in Threads |-> 0]
    BY <2>1 DEF Init, CacheSeen, ResultSeen
  <2>3. file \in [Threads -> Files]
    BY FilesAssumption DEF Init, Files
  <2> QED  BY <2>1, <2>2, <2>3 DEF Init, Atomic!Init, Atomic!Files, Files
<1>2. CacheInv /\ [Next]_vars => [Atomic!Next]_(Atomic!vars)
  <2> SUFFICES ASSUME CacheInv, [Next]_vars PROVE Atomic!Next \/ UNCHANGED Atomic!vars
    OBVIOUS
  <2>1. CASE UNCHANGED vars
    BY <2>1 DEF vars, local, history, Atomic!vars, Storing, CallsAhead, CacheSeen, ResultSeen
  <2>2. CASE \E f \in Files : Edit(f)
    BY <2>2, EditAtomic DEF Atomic!Next, Atomic!Files, Files
  <2>3. ASSUME NEW t \in Threads, Run(t) PROVE Atomic!Next \/ UNCHANGED Atomic!vars
    BY <2>3, CheckAtomic, GetAtomic, RecheckAtomic, ReadAtomic, StoreAtomic DEF Run, Atomic!Next
  <2>4. ASSUME NEW t \in Threads, NEW f \in Files, NEW u \in BOOLEAN, Call(t, f, u)
        PROVE  Atomic!Next
    BY <2>4, CallAtomic DEF Atomic!Next, Atomic!Files, Files
  <2>5. ASSUME NEW t \in Threads, Clear(t) PROVE Atomic!Next
    BY <2>5, ClearAtomic DEF Atomic!Next
  <2> QED  BY <2>1, <2>2, <2>3, <2>4, <2>5 DEF Next
<1> QED  BY <1>1, <1>2, CacheInvariant, PTL DEF Spec, CallsAreAtomic, Atomic!Spec
=============================================================================
