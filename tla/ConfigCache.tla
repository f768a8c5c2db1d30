----------------------------- MODULE ConfigCache -----------------------------
(***************************************************************************)
(* The two read-through caches of the service: parsed configuration and     *)
(* metadata files (ConfigLoader.load, common/config/loader.py) and parsed   *)
(* JSON Schemas (SchemaValidator._load_schema, common/validation).  Both    *)
(* test the dictionary without their lock, then again under it, then read   *)
(* the file.  Callers are the event loop (ingest) and the threads that run  *)
(* the synchronous routes (config_routes.py); an operator may edit a file   *)
(* at any time.  One step is one bytecode-level effect on shared state.     *)
(***************************************************************************)
EXTENDS Naturals

CONSTANTS
  Threads,
  ConfigFiles,   \* files behind ConfigLoader, dropped by clear_cache
  SchemaFiles,   \* files behind SchemaValidator, never dropped
  MaxGen,        \* bound on the generations of a file
  MaxCalls,      \* bound on the calls of a thread
  Free           \* value of a lock nobody holds

ASSUME FreeAssumption == Free \notin Threads
ASSUME FilesAssumption ==
  ConfigFiles \intersect SchemaFiles = {} /\ ConfigFiles \union SchemaFiles # {}
ASSUME BoundsAssumption == MaxGen \in Nat \ {0} /\ MaxCalls \in Nat

Files == ConfigFiles \union SchemaFiles
Caches == {"config", "schema"}
CacheOf(f) == IF f \in ConfigFiles THEN "config" ELSE "schema"

VARIABLES
  disk,      \* generation of each file, and whether it exists and parses
  cache,     \* generation cached of each file, 0 if none
  lock,      \* holder of each cache's lock
  pc, file, useCache, got,   \* a call in progress: position and locals
  result,    \* what the last call of each thread returned, 0 if nothing
  error,     \* what it raised
  calls,
  (* history *)
  reads,     \* how often a file was read into its cache since it was dropped
  dropped,   \* generation of each file when its cache was last cleared
  cleared,   \* whether clear_cache ran during each thread's last call
  floor      \* oldest generation each thread's call may return

local == <<pc, file, useCache, got, result, error, calls>>
history == <<reads, dropped, cleared, floor>>
vars == <<disk, cache, lock, local, history>>

Errors == {"none", "KeyError", "LoadError"}
-----------------------------------------------------------------------------
Init ==
  /\ disk = [f \in Files |-> [gen |-> 1, good |-> TRUE]]
  /\ cache = [f \in Files |-> 0]
  /\ lock = [c \in Caches |-> Free]
  /\ pc = [t \in Threads |-> "idle"]
  /\ file = [t \in Threads |-> CHOOSE f \in Files : TRUE]
  /\ useCache = [t \in Threads |-> TRUE]
  /\ got = [t \in Threads |-> 0]
  /\ result = [t \in Threads |-> 0]
  /\ error = [t \in Threads |-> "none"]
  /\ calls = [t \in Threads |-> 0]
  /\ reads = [f \in Files |-> 0]
  /\ dropped = [f \in Files |-> 0]
  /\ cleared = [t \in Threads |-> FALSE]
  /\ floor = [t \in Threads |-> 0]

(* Someone replaces a file: a new generation, removed, or not parsable.    *)
Edit(f) ==
  /\ disk[f].gen < MaxGen
  /\ \E good \in BOOLEAN : disk' = [disk EXCEPT ![f] = [gen |-> @.gen + 1, good |-> good]]
  /\ UNCHANGED <<cache, lock, local, history>>

Goto(t, stage) == pc' = [pc EXCEPT ![t] = stage]
Return(t, value) ==
  result' = [result EXCEPT ![t] = value] /\ UNCHANGED error /\ Goto(t, "idle")
Raise(t, e) ==
  error' = [error EXCEPT ![t] = e] /\ UNCHANGED result /\ Goto(t, "idle")
Release(t) == lock' = [lock EXCEPT ![CacheOf(file[t])] = Free]

(* load(relative_path, use_cache) and _load_schema(schema_path)            *)
Call(t, f, u) ==
  /\ pc[t] = "idle" /\ calls[t] < MaxCalls
  /\ f \in SchemaFiles => u
  /\ calls' = [calls EXCEPT ![t] = @ + 1]
  /\ file' = [file EXCEPT ![t] = f]
  /\ useCache' = [useCache EXCEPT ![t] = u]
  /\ result' = [result EXCEPT ![t] = 0]
  /\ error' = [error EXCEPT ![t] = "none"]
  /\ cleared' = [cleared EXCEPT ![t] = FALSE]
  /\ floor' = [floor EXCEPT ![t] = IF u THEN dropped[f] ELSE disk[f].gen]
  /\ Goto(t, IF u THEN "check" ELSE "lock")
  /\ UNCHANGED <<disk, cache, lock, got, reads, dropped>>

Cached(t) == useCache[t] /\ cache[file[t]] # 0

(* "key in self._cache", without the lock                                  *)
Check(t) ==
  /\ pc[t] = "check"
  /\ Goto(t, IF Cached(t) THEN "get" ELSE "lock")
  /\ UNCHANGED <<disk, cache, lock, file, useCache, got, result, error, calls, history>>

(* "return self._cache[key]", another lookup: the entry may be gone        *)
Get(t) ==
  /\ pc[t] = "get"
  /\ \/ cache[file[t]] = 0 /\ Raise(t, "KeyError")
     \/ cache[file[t]] # 0 /\ Return(t, cache[file[t]])
  /\ UNCHANGED <<disk, cache, lock, file, useCache, got, calls, history>>

Acquire(t) ==
  /\ pc[t] = "lock" /\ lock[CacheOf(file[t])] = Free
  /\ lock' = [lock EXCEPT ![CacheOf(file[t])] = t]
  /\ Goto(t, "recheck")
  /\ UNCHANGED <<disk, cache, file, useCache, got, result, error, calls, history>>

HitTrusting(t) == FALSE   \* variant: no second test under the lock
Hit(t) == Cached(t)

Recheck(t) ==
  /\ pc[t] = "recheck"
  /\ \/ Hit(t) /\ Return(t, cache[file[t]]) /\ Release(t)
     \/ ~Hit(t) /\ Goto(t, "read") /\ UNCHANGED <<result, error, lock>>
  /\ UNCHANGED <<disk, cache, file, useCache, got, calls, history>>

(* What a failed read does besides raising: nothing, and the lock is freed *)
(* by its with block.  Variants: the stale entry is evicted; the lock is   *)
(* not freed.                                                              *)
AbandonEvicting(t) == Release(t) /\ cache' = [cache EXCEPT ![file[t]] = 0]
AbandonHolding(t) == UNCHANGED <<lock, cache>>
Abandon(t) == Release(t) /\ UNCHANGED cache

Read(t) ==
  /\ pc[t] = "read"
  /\ \/ /\ disk[file[t]].good
        /\ got' = [got EXCEPT ![t] = disk[file[t]].gen]
        /\ Goto(t, "store") /\ UNCHANGED <<result, error, lock, cache>>
     \/ /\ ~disk[file[t]].good
        /\ Raise(t, "LoadError") /\ Abandon(t)
        /\ UNCHANGED got
  /\ UNCHANGED <<disk, file, useCache, calls, history>>

Store(t) ==
  /\ pc[t] = "store"
  /\ IF useCache[t]
       THEN /\ cache' = [cache EXCEPT ![file[t]] = got[t]]
            /\ reads' = [reads EXCEPT ![file[t]] = @ + 1]
       ELSE UNCHANGED <<cache, reads>>
  /\ Return(t, got[t])
  /\ got' = [got EXCEPT ![t] = 0]
  /\ Release(t)
  /\ UNCHANGED <<disk, file, useCache, calls, dropped, cleared, floor>>

ClearUnlocked == TRUE   \* variant: clear without taking the lock
ClearLocked == lock["config"] = Free

(* clear_cache: the dictionary is emptied with the lock held.              *)
Clear(t) ==
  /\ pc[t] = "idle" /\ calls[t] < MaxCalls /\ ClearLocked
  /\ calls' = [calls EXCEPT ![t] = @ + 1]
  /\ cache' = [f \in Files |-> IF f \in ConfigFiles THEN 0 ELSE cache[f]]
  /\ reads' = [f \in Files |-> IF f \in ConfigFiles THEN 0 ELSE reads[f]]
  /\ dropped' = [f \in Files |-> IF f \in ConfigFiles THEN disk[f].gen ELSE dropped[f]]
  /\ cleared' = [q \in Threads |-> cleared[q] \/ pc[q] # "idle"]
  /\ UNCHANGED <<disk, lock, pc, file, useCache, got, result, error, floor>>

Run(t) ==
  Check(t) \/ Get(t) \/ Acquire(t) \/ Recheck(t) \/ Read(t) \/ Store(t)

Next ==
  \/ \E t \in Threads :
       \/ \E f \in Files, u \in BOOLEAN : Call(t, f, u)
       \/ Run(t)
       \/ Clear(t)
  \/ \E f \in Files : Edit(f)

(* A thread in a call keeps running, and takes a lock that stays free.     *)
Spec == Init /\ [][Next]_vars /\ \A t \in Threads : WF_vars(Run(t))
-----------------------------------------------------------------------------
Gens == 1..MaxGen

(* Types, and that a lock is held only inside its with block.              *)
TypeOK ==
  /\ disk \in [Files -> [gen : Gens, good : BOOLEAN]]
  /\ cache \in [Files -> {0} \union Gens]
  /\ lock \in [Caches -> Threads \union {Free}]
  /\ \A t \in Threads, c \in Caches :
       lock[c] = t <=> pc[t] \in {"recheck", "read", "store"} /\ CacheOf(file[t]) = c
  /\ pc \in [Threads -> {"idle", "check", "get", "lock", "recheck", "read", "store"}]
  /\ file \in [Threads -> Files]
  /\ useCache \in [Threads -> BOOLEAN]
  /\ got \in [Threads -> {0} \union Gens]
  /\ result \in [Threads -> {0} \union Gens]
  /\ error \in [Threads -> Errors]
  /\ calls \in [Threads -> 0..MaxCalls]
  /\ reads \in [Files -> Nat]
  /\ dropped \in [Files -> {0} \union Gens]
  /\ cleared \in [Threads -> BOOLEAN]
  /\ floor \in [Threads -> {0} \union Gens]

(* Between two clears a file is parsed into its cache at most once, however *)
(* many threads miss at the same time: load returns one object to all      *)
(* (test_config_loader.py: "first is second").                             *)
ParsedOnce == \A f \in Files : reads[f] <= 1

(* A call that starts after clear_cache returned never gets content older  *)
(* than the clear, even when a slow reader was inside the lock during it;  *)
(* a call with use_cache=False never gets content older than its own start.*)
NoStaleReload ==
  \A t \in Threads : result[t] # 0 => result[t] >= floor[t]

(* The steps of a call cannot be told from a single one, AtomicCache's: a  *)
(* miss takes effect when the file is read, with the lock held, a hit when *)
(* the entry is looked up.  The unlocked hit looks the key up twice and    *)
(* may raise KeyError, but only when clear_cache ran during the call: no   *)
(* load evicts an entry, and a failed one changes nothing.                 *)
Storing == {t \in Threads : pc[t] = "store"}
CallsAhead == {t \in Threads : pc[t] \notin {"idle", "store"}}
CacheSeen ==
  [f \in Files |->
     LET t == lock[CacheOf(f)]
     IN  IF t \in Storing /\ useCache[t] /\ file[t] = f THEN got[t]
         ELSE cache[f]]
ResultSeen == [t \in Threads |-> IF t \in Storing THEN got[t] ELSE result[t]]
Atomic == INSTANCE AtomicCache WITH
  cache <- CacheSeen, calling <- CallsAhead,
  cleared <- {t \in CallsAhead : cleared[t]}, result <- ResultSeen
CallsAreAtomic == Atomic!Spec

(* A file that cannot be read never wedges the cache: every call returns   *)
(* or raises, and so frees the lock for the others.                        *)
EveryCallReturns == \A t \in Threads : pc[t] # "idle" ~> pc[t] = "idle"
=============================================================================
