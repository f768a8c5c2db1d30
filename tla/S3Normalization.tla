--------------------------- MODULE S3Normalization ---------------------------
(***************************************************************************)
(* The normalization job (scripts/normalize_s3_files.py running             *)
(* S3NormalizationService.normalize_prefix): list a prefix page by page,    *)
(* then read, parse and rewrite each raw object as JSON under a normalized  *)
(* prefix below it.  Jobs run by hand, several at once if operators do so,  *)
(* while the ingestion service and uploads keep adding objects.             *)
(*                                                                         *)
(* Keys are the numbers of their rank in S3's listing order.  Raw keys may  *)
(* come before the normalized ones ("mes/2026/..." before                   *)
(* "mes/normalized/...") and after them ("files/native/system_health...").  *)
(***************************************************************************)
EXTENDS Integers, Sequences

CONSTANTS
  Jobs,
  RawKeys,     \* keys that do not start with the normalized prefix
  Stem,        \* the file name of each raw key without directory and suffix
  Folders,     \* raw keys that end with "/"
  Unreadable,  \* raw keys whose content does not parse as their format
  Limits,      \* values of --limit in use
  NoLimit,     \* --limit not given
  PageSize     \* keys of a list_objects_v2 page

Stems == {Stem[k] : k \in RawKeys}
ASSUME KeysAssumption == RawKeys \subseteq Nat \ {0} /\ Stem \in [RawKeys -> Nat \ {0}]
ASSUME DisjointAssumption == RawKeys \intersect Stems = {}
ASSUME PageAssumption == PageSize \in Nat \ {0}
ASSUME LimitsAssumption == Limits \subseteq Int /\ NoLimit \notin Limits

(* The stems are named by the rank of <normalized_prefix>/<stem>.json.     *)
OutputKey(k) == IF k \in Stems THEN k ELSE Stem[k]
Keys == RawKeys \union Stems

VARIABLES
  objects,   \* the raw key each object was made from, 0 if there is none
  pc, limit,
  token,     \* the last key of the pages listed so far
  keys,      \* the listing
  at,        \* position of the for loop in it
  report,    \* normalized_keys
  atStart    \* history: raw objects present when the job started

vars == <<objects, pc, limit, token, keys, at, report, atStart>>
-----------------------------------------------------------------------------
Present == {k \in Keys : objects[k] # 0}

Init ==
  /\ objects = [k \in Keys |-> 0]
  /\ pc = [j \in Jobs |-> "idle"]
  /\ limit = [j \in Jobs |-> NoLimit]
  /\ token = [j \in Jobs |-> 0]
  /\ keys = [j \in Jobs |-> << >>]
  /\ at = [j \in Jobs |-> 1]
  /\ report = [j \in Jobs |-> << >>]
  /\ atStart = [j \in Jobs |-> {}]

Goto(j, stage) == pc' = [pc EXCEPT ![j] = stage]

(* A raw object lands; raw keys are unique and never rewritten.            *)
Upload(k) ==
  /\ objects[k] = 0
  /\ objects' = [objects EXCEPT ![k] = k]
  /\ UNCHANGED <<pc, limit, token, keys, at, report, atStart>>

Start(j, l) ==
  /\ pc[j] = "idle"
  /\ limit' = [limit EXCEPT ![j] = l]
  /\ atStart' = [atStart EXCEPT ![j] = Present \intersect RawKeys]
  /\ Goto(j, "list")
  /\ UNCHANGED <<objects, token, keys, at, report>>

(* list_objects_v2 after the token: a page of keys in their order, not more *)
(* than fit one, and IsTruncated.                                          *)
ToSetOf(seq) == {seq[i] : i \in DOMAIN seq}
Rest(j) == {k \in Present : k > token[j]}
IsPage(j, page) ==
  /\ \A a, b \in DOMAIN page : a < b => page[a] < page[b]
  /\ \A k \in Rest(j) \ ToSetOf(page), a \in DOMAIN page : page[a] < k
  /\ page = << >> => Rest(j) = {}
Pages(j) == {page \in UNION {[1..m -> Rest(j)] : m \in 0..PageSize} : IsPage(j, page)}
OnePage(j, page) == FALSE   \* variant: the loop over continuation tokens left out
IsTruncated(j, page) == Rest(j) # ToSetOf(page)

(* One turn of the loop in list_object_keys; a failed call ends the job.   *)
List(j) ==
  /\ pc[j] = "list"
  /\ \/ \E page \in Pages(j) :
          /\ keys' = [keys EXCEPT ![j] = @ \o page]
          /\ IF IsTruncated(j, page)
               THEN token' = [token EXCEPT ![j] = page[Len(page)]] /\ UNCHANGED pc
               ELSE Goto(j, "loop") /\ UNCHANGED token
     \/ Goto(j, "failed") /\ UNCHANGED <<keys, token>>
  /\ UNCHANGED <<objects, limit, at, report, atStart>>

(* Variants: one of the two tests left out.                                *)
SkipsFolders(k) == k \in Folders
SkipsOutputs(k) == k \in Stems
Skips(k) == k \in Folders \union Stems

Current(j) == keys[j][at[j]]

(* The loop over the listing up to the put: a key that is skipped, one     *)
(* that is read and parsed, one whose get or parse raises.                 *)
Visit(j) ==
  /\ pc[j] = "loop"
  /\ \/ at[j] > Len(keys[j]) /\ Goto(j, "done") /\ UNCHANGED at
     \/ /\ at[j] <= Len(keys[j]) /\ Skips(Current(j))
        /\ at' = [at EXCEPT ![j] = @ + 1] /\ UNCHANGED pc
     \/ /\ at[j] <= Len(keys[j]) /\ ~Skips(Current(j))
        /\ \/ Current(j) \notin Unreadable /\ Goto(j, "put")
           \/ Goto(j, "failed")
        /\ UNCHANGED at
  /\ UNCHANGED <<objects, limit, token, keys, report, atStart>>

(* The test comes after a put; variant: on the count before it.            *)
LimitPassed(j) == limit[j] # NoLimit /\ Len(report[j]) >= limit[j]
LimitReached(j) == limit[j] # NoLimit /\ Len(report[j]) + 1 >= limit[j]

Put(j) ==
  /\ pc[j] = "put"
  /\ \/ /\ objects' = [objects EXCEPT ![OutputKey(Current(j))] = Current(j)]
        /\ report' = [report EXCEPT ![j] = Append(@, OutputKey(Current(j)))]
        /\ at' = [at EXCEPT ![j] = @ + 1]
        /\ Goto(j, IF LimitReached(j) THEN "done" ELSE "loop")
     \/ /\ objects' \in {objects, [objects EXCEPT ![OutputKey(Current(j))] = Current(j)]}
        /\ Goto(j, "failed") /\ UNCHANGED <<report, at>>
  /\ UNCHANGED <<limit, token, keys, atStart>>

Run(j) == List(j) \/ Visit(j) \/ Put(j)

Next ==
  \/ \E k \in RawKeys : Upload(k)
  \/ \E j \in Jobs :
       \/ \E l \in Limits \union {NoLimit} : Start(j, l)
       \/ Run(j)

Spec == Init /\ [][Next]_vars
-----------------------------------------------------------------------------
(* Types; a job reports keys of normalized objects only, and its loop never *)
(* runs past the end of its listing.                                       *)
TypeOK ==
  /\ objects \in [Keys -> RawKeys \union {0}]
  /\ pc \in [Jobs -> {"idle", "list", "loop", "put", "done", "failed"}]
  /\ limit \in [Jobs -> Limits \union {NoLimit}]
  /\ token \in [Jobs -> Keys \union {0}]
  /\ keys \in [Jobs -> Seq(Keys)] /\ report \in [Jobs -> Seq(Stems)]
  /\ at \in [Jobs -> Nat \ {0}] /\ \A j \in Jobs : at[j] <= Len(keys[j]) + 1
  /\ atStart \in [Jobs -> SUBSET RawKeys]

Files == RawKeys \ Folders

(* The pages together hold every object that was there when the listing    *)
(* began and no object twice, whatever is added between two pages.         *)
ListingComplete ==
  \A j \in Jobs : pc[j] \in {"loop", "put", "done"} =>
    /\ atStart[j] \subseteq ToSetOf(keys[j])
    /\ \A a, b \in DOMAIN keys[j] : a < b => keys[j][a] < keys[j][b]

(* A job that ends without a limit has given every file that was there     *)
(* when it started a normalized object: its own, or that of another file   *)
(* of the same name that is there too.                                     *)
DoneCovers ==
  \A j \in Jobs : pc[j] = "done" /\ limit[j] = NoLimit =>
    \A k \in atStart[j] \ Folders :
      \E q \in Files : Stem[q] = Stem[k] /\ objects[OutputKey(k)] = q /\ objects[q] # 0

(* A normalized object is made from a raw file, never from another         *)
(* normalized object or a folder, and every key a job reports exists.      *)
OutputsFromFiles ==
  /\ \A s \in Stems : objects[s] # 0 => objects[s] \in Files \ Unreadable /\ Stem[objects[s]] = s
  /\ \A j \in Jobs : \A i \in DOMAIN report[j] : objects[report[j][i]] # 0

(* A job with a limit normalizes no more files than that, one if it is     *)
(* zero or less, and stops short only when the listing is exhausted.       *)
AtLeastOne(l) == IF l > 0 THEN l ELSE 1
LimitKept ==
  \A j \in Jobs : limit[j] # NoLimit =>
    /\ Len(report[j]) <= AtLeastOne(limit[j])
    /\ pc[j] = "done" /\ Len(report[j]) < AtLeastOne(limit[j]) => at[j] > Len(keys[j])
=============================================================================
