---------------------------- MODULE AtomicCache ----------------------------
(***************************************************************************)
(* What ConfigLoader.load and SchemaValidator._load_schema promise their    *)
(* callers, as if a call were one step: it serves what is cached, or reads  *)
(* the file and caches what it read.  ConfigCache refines it.               *)
(***************************************************************************)
EXTENDS Naturals

CONSTANTS Threads, ConfigFiles, SchemaFiles

Files == ConfigFiles \union SchemaFiles

VARIABLES
  disk, cache,     \* as in ConfigCache: a generation of each file, 0 if none
  dropped,         \* generation of each file when its cache was last cleared
  calling,         \* threads whose call has not taken effect
  cleared,         \* those of them during whose call the cache was cleared
  file, useCache,  \* what each thread calls for
  result, error    \* what each thread's call came to

Init ==
  /\ disk = [f \in Files |-> [gen |-> 1, good |-> TRUE]]
  /\ cache = [f \in Files |-> 0] /\ dropped = [f \in Files |-> 0]
  /\ calling = {} /\ cleared = {}
  /\ file \in [Threads -> Files] /\ useCache = [t \in Threads |-> TRUE]
  /\ result = [t \in Threads |-> 0] /\ error = [t \in Threads |-> "none"]

Edit(f) ==
  /\ disk'[f].gen > disk[f].gen
  /\ disk' = [disk EXCEPT ![f] = disk'[f]]
  /\ UNCHANGED <<cache, dropped, calling, cleared, file, useCache, result, error>>

Call(t, f, u) ==
  /\ t \notin calling
  /\ calling' = calling \union {t}
  /\ file' = [file EXCEPT ![t] = f]
  /\ useCache' = [useCache EXCEPT ![t] = u]
  /\ result' = [result EXCEPT ![t] = 0]
  /\ error' = [error EXCEPT ![t] = "none"]
  /\ UNCHANGED <<disk, cache, dropped, cleared>>

Effect(t) ==
  /\ t \in calling
  /\ calling' = calling \ {t} /\ cleared' = cleared \ {t}
  /\ UNCHANGED <<disk, dropped, file, useCache>>

Hit(t) == useCache[t] /\ cache[file[t]] # 0

Serve(t) ==
  /\ Effect(t) /\ Hit(t)
  /\ result' = [result EXCEPT ![t] = cache[file[t]]]
  /\ UNCHANGED <<cache, error>>

Load(t) ==
  /\ Effect(t) /\ ~Hit(t) /\ disk[file[t]].good
  /\ result' = [result EXCEPT ![t] = disk[file[t]].gen]
  /\ cache' = IF useCache[t] THEN [cache EXCEPT ![file[t]] = disk[file[t]].gen] ELSE cache
  /\ UNCHANGED error

Fail(t) ==
  /\ Effect(t) /\ ~Hit(t) /\ ~disk[file[t]].good
  /\ error' = [error EXCEPT ![t] = "LoadError"]
  /\ UNCHANGED <<cache, result>>

(* The one thing that betrays the two lookups of a hit.                    *)
Miss(t) ==
  /\ Effect(t) /\ t \in cleared /\ useCache[t]
  /\ error' = [error EXCEPT ![t] = "KeyError"]
  /\ UNCHANGED <<cache, result>>

Clear ==
  /\ cache' = [f \in Files |-> IF f \in ConfigFiles THEN 0 ELSE cache[f]]
  /\ dropped' = [f \in Files |-> IF f \in ConfigFiles THEN disk[f].gen ELSE dropped[f]]
  /\ cleared' = calling
  /\ UNCHANGED <<disk, calling, file, useCache, result, error>>

Next ==
  \/ \E f \in Files : Edit(f)
  \/ \E t \in Threads :
       \/ \E f \in Files, u \in BOOLEAN : Call(t, f, u)
       \/ Serve(t) \/ Load(t) \/ Fail(t) \/ Miss(t)
  \/ Clear

vars == <<disk, cache, dropped, calling, cleared, file, useCache, result, error>>
Spec == Init /\ [][Next]_vars
=============================================================================
