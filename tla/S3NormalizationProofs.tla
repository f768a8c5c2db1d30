------------------------- MODULE S3NormalizationProofs -------------------------
(***************************************************************************)
(* Theorems about S3Normalization, for any number of jobs and keys, any     *)
(* size of a page and any limits.                                          *)
(***************************************************************************)
EXTENDS S3Normalization, TLAPS

(* A file has a normalized object.                                         *)
Covered(k) == \E q \in Files : Stem[q] = Stem[k] /\ objects[Stem[k]] = q /\ objects[q] # 0

(* What is made is made from a file that can be read.                      *)
Made == \A s \in Stems : objects[s] # 0 => objects[s] \in Files \ Unreadable /\ Stem[objects[s]] = s

(* A listing ascends and lists what is there; up to the token it is        *)
(* complete.                                                               *)
Listing(j) ==
  /\ \A k \in atStart[j] : objects[k] # 0
  /\ \A a \in DOMAIN keys[j] : objects[keys[j][a]] # 0
  /\ \A a, b \in DOMAIN keys[j] : a < b => keys[j][a] < keys[j][b]
  /\ pc[j] = "idle" => keys[j] = << >> /\ token[j] = 0
  /\ pc[j] \in {"idle", "list"} =>
       /\ \A a \in DOMAIN keys[j] : keys[j][a] <= token[j]
       /\ \A k \in atStart[j] : k <= token[j] => k \in ToSetOf(keys[j])
  /\ pc[j] \in {"loop", "put", "done"} => atStart[j] \subseteq ToSetOf(keys[j])

(* The loop has covered the files before its position, and stopped before  *)
(* the end because of a limit only.                                        *)
Visiting(j) ==
  /\ pc[j] \in {"idle", "list"} => at[j] = 1
  /\ pc[j] = "put" => at[j] <= Len(keys[j]) /\ keys[j][at[j]] \in Files \ Unreadable
  /\ \A i \in DOMAIN keys[j] : i < at[j] /\ keys[j][i] \in Files => Covered(keys[j][i])
  /\ pc[j] = "done" /\ limit[j] = NoLimit => at[j] > Len(keys[j])

(* The count of a job that goes on is below its limit.                     *)
Counting(j) ==
  /\ \A i \in DOMAIN report[j] : objects[report[j][i]] # 0
  /\ pc[j] \in {"idle", "list"} => report[j] = << >>
  /\ limit[j] # NoLimit =>
       /\ Len(report[j]) <= AtLeastOne(limit[j])
       /\ pc[j] \in {"list", "loop", "put"} => Len(report[j]) < AtLeastOne(limit[j])
       /\ pc[j] = "done" /\ Len(report[j]) < AtLeastOne(limit[j]) => at[j] > Len(keys[j])

JobInv(j) == Listing(j) /\ Visiting(j) /\ Counting(j)
JobsInv == TypeOK /\ Made /\ \A j \in Jobs : JobInv(j)

(* Objects are added or made again, never lost.                            *)
Adds ==
  /\ \A k \in Keys : objects[k] # 0 => objects'[k] # 0
  /\ \A k \in Files : Covered(k) => Covered(k)'
Untouched(j) ==
  /\ pc'[j] = pc[j] /\ limit'[j] = limit[j] /\ token'[j] = token[j] /\ keys'[j] = keys[j]
  /\ at'[j] = at[j] /\ report'[j] = report[j] /\ atStart'[j] = atStart[j]
-----------------------------------------------------------------------------
(* Raw keys and normalized ones are told apart; zero is neither.           *)
LEMMA KeyFacts ==
  /\ RawKeys \subseteq Keys /\ Stems \subseteq Keys /\ Keys \subseteq Nat \ {0} /\ Files \subseteq RawKeys
  /\ \A k \in RawKeys : k \notin Stems /\ Stem[k] \in Stems /\ OutputKey(k) = Stem[k]
  /\ \A k \in Keys : ~Skips(k) => k \in Files
<1>1. Stems \subseteq Nat \ {0} /\ \A k \in RawKeys : k \in Nat /\ Stem[k] \in Stems
  BY KeysAssumption DEF Stems
<1>2. \A k \in RawKeys : k \notin Stems
  BY <1>1, DisjointAssumption
<1> QED  BY <1>1, <1>2, KeysAssumption DEF Keys, Files, OutputKey, Skips

LEMMA Numbers == RawKeys \subseteq Keys /\ \A k \in Keys : k \in Nat /\ k # 0
BY KeyFacts

LEMMA Bounds == \A l \in Limits \union {NoLimit} :
  l # NoLimit => l \in Int /\ AtLeastOne(l) \in Nat /\ AtLeastOne(l) > 0
BY LimitsAssumption DEF AtLeastOne

(* A job that stands still loses nothing by what is added.                 *)
LEMMA StandsStill ==
  ASSUME TypeOK, NEW j \in Jobs, JobInv(j), Adds, Untouched(j)
  PROVE  JobInv(j)'
<1> USE DEF JobInv, Untouched, Adds
<1>1. /\ atStart[j] \subseteq Keys /\ keys[j] \in Seq(Keys) /\ report[j] \in Seq(Stems)
      /\ Stems \subseteq Keys
  BY KeyFacts DEF TypeOK
<1>2. Listing(j)'
  BY <1>1 DEF Listing
<1>3. Visiting(j)'
  BY <1>1 DEF Visiting
<1>4. Counting(j)'
  <2>1. \A i \in DOMAIN report[j] : report[j][i] \in Keys
    BY <1>1
  <2> QED  BY <2>1 DEF Counting
<1> QED  BY <1>2, <1>3, <1>4

(* A step of one job leaves the others to StandsStill.                     *)
LEMMA StepOfJob ==
  ASSUME JobsInv, NEW j \in Jobs, TypeOK', Made', Adds, JobInv(j)',
         \A i \in Jobs \ {j} : Untouched(i)
  PROVE  JobsInv'
BY StandsStill DEF JobsInv

LEMMA InitInv == Init => JobsInv
<1> SUFFICES ASSUME Init PROVE JobsInv
  OBVIOUS
<1> USE DEF Init
<1>1. TypeOK
  BY DEF TypeOK
<1>2. Made
  BY KeyFacts DEF Made
<1>3. ASSUME NEW j \in Jobs PROVE JobInv(j)
  <2>1. limit[j] = NoLimit /\ pc[j] = "idle" /\ keys[j] = << >> /\ report[j] = << >>
        /\ at[j] = 1 /\ atStart[j] = {}
    OBVIOUS
  <2> QED  BY <2>1 DEF JobInv, Listing, Visiting, Counting
<1> QED  BY <1>1, <1>2, <1>3 DEF JobsInv

(* An upload touches no normalized object and no job.                      *)
LEMMA UploadStep == ASSUME JobsInv, NEW k \in RawKeys, Upload(k) PROVE JobsInv'
<1> USE DEF JobsInv, Upload
<1>1. objects' = [objects EXCEPT ![k] = k] /\ k # 0 /\ k \in Keys /\ k \notin Stems
  BY KeyFacts
<1>2. TypeOK'
  BY <1>1 DEF TypeOK
<1>3. \A s \in Stems : objects'[s] = objects[s]
  BY <1>1, KeyFacts DEF TypeOK
<1>4. Made'
  BY <1>3 DEF Made
<1>5. Adds
  BY KeyFacts DEF Adds, Covered
<1>6. \A j \in Jobs : Untouched(j)
  BY DEF Untouched
<1> QED  BY <1>2, <1>4, <1>5, <1>6, StandsStill

LEMMA StartStep ==
  ASSUME JobsInv, NEW j \in Jobs, NEW l \in Limits \union {NoLimit}, Start(j, l)
  PROVE  JobsInv'
<1> USE DEF JobsInv, Start, Goto
<1>1. /\ pc'[j] = "list" /\ limit'[j] = l /\ atStart'[j] = Present \intersect RawKeys
      /\ keys'[j] = << >> /\ at'[j] = 1 /\ report'[j] = << >> /\ token'[j] = 0
  BY DEF TypeOK, JobInv, Listing, Visiting, Counting
<1>2. TypeOK'
  BY DEF TypeOK
<1>3. Made' /\ Adds
  BY DEF Made, Adds, Covered
<1>4. \A i \in Jobs \ {j} : Untouched(i)
  BY DEF TypeOK, Untouched
<1>5. Listing(j)'
  <2>1. \A k \in atStart'[j] : objects'[k] # 0 /\ ~(k <= 0)
    <3>1. \A k \in atStart'[j] : k \in Keys /\ objects[k] # 0
      BY <1>1 DEF Present
    <3>2. \A k \in Keys : ~(k <= 0)
      BY Numbers
    <3> QED  BY <3>1, <3>2
  <2>2. DOMAIN keys'[j] = {}
    BY <1>1
  <2> QED  BY <1>1, <2>1, <2>2 DEF Listing
<1>6. Visiting(j)'
  BY <1>1 DEF Visiting
<1>7. Counting(j)'
  <2>1. l # NoLimit => AtLeastOne(l) \in Nat /\ AtLeastOne(l) > 0
    BY Bounds
  <2>2. Len(report'[j]) = 0 /\ DOMAIN report'[j] = {}
    BY <1>1
  <2> QED  BY <1>1, <2>1, <2>2 DEF Counting
<1> QED  BY <1>2, <1>3, <1>4, <1>5, <1>6, <1>7, StepOfJob DEF JobInv

(* A job that fails keeps what it has; every part asks less of it.         *)
LEMMA Failing ==
  ASSUME JobsInv, NEW j \in Jobs, pc' = [pc EXCEPT ![j] = "failed"], TypeOK', Made', Adds,
         pc[j] # "idle",
         UNCHANGED <<limit, token, keys, at, report, atStart>>
  PROVE  JobsInv'
<1> USE DEF JobsInv
<1>1. \A i \in Jobs \ {j} : Untouched(i)
  BY DEF TypeOK, Untouched
<1>2. pc'[j] = "failed" /\ JobInv(j)
  BY DEF TypeOK
<1>3. atStart[j] \subseteq Keys /\ keys[j] \in Seq(Keys) /\ report[j] \in Seq(Stems)
  BY KeyFacts DEF TypeOK
<1>4. JobInv(j)'
  <2>1. Listing(j)'
    BY <1>2, <1>3 DEF JobInv, Listing, Adds
  <2>2. Visiting(j)'
    BY <1>2, <1>3 DEF JobInv, Visiting, Adds
  <2>3. \A i \in DOMAIN report[j] : report[j][i] \in Keys
    <3>1. \A i \in DOMAIN report[j] : report[j][i] \in Stems
      BY <1>3
    <3> QED  BY <3>1, KeyFacts
  <2>4. Counting(j)'
    BY <1>2, <2>3 DEF JobInv, Counting, Adds
  <2> QED  BY <2>1, <2>2, <2>4 DEF JobInv
<1> QED  BY <1>1, <1>4, StepOfJob

(* A page goes on where the last one ended, and the last page leaves       *)
(* nothing behind.                                                         *)
LEMMA PageFacts ==
  ASSUME TypeOK, NEW j \in Jobs, NEW page \in Pages(j)
  PROVE  /\ page \in Seq(Keys) /\ Len(page) \in Nat
         /\ \A a \in DOMAIN page : page[a] > token[j] /\ objects[page[a]] # 0
         /\ \A a, b \in DOMAIN page : a < b => page[a] < page[b]
         /\ IsTruncated(j, page) => page # << >>
         /\ page # << >> => /\ page[Len(page)] \in Keys
                           /\ \A a \in DOMAIN page : page[a] <= page[Len(page)]
                           /\ \A k \in Rest(j) : k <= page[Len(page)] => k \in ToSetOf(page)
<1>1. PICK m \in 0..PageSize : page \in [1..m -> Rest(j)]
  BY DEF Pages
<1>2. m \in Nat /\ Rest(j) \subseteq Keys /\ \A k \in Rest(j) : k > token[j] /\ objects[k] # 0
  BY <1>1, PageAssumption DEF Rest, Present
<1>3. page \in Seq(Keys) /\ Len(page) = m /\ DOMAIN page = 1..m
  BY <1>1, <1>2
<1>4. \A a \in DOMAIN page : page[a] > token[j] /\ objects[page[a]] # 0 /\ page[a] \in Nat
  BY <1>1, <1>2, <1>3, KeyFacts
<1>5. IsPage(j, page)
  BY DEF Pages
<1>6. IsTruncated(j, page) => page # << >>
  BY <1>5 DEF IsPage, IsTruncated, ToSetOf
<1>7. ASSUME page # << >>
      PROVE  /\ page[Len(page)] \in Keys
             /\ \A a \in DOMAIN page : page[a] <= page[Len(page)]
             /\ \A k \in Rest(j) : k <= page[Len(page)] => k \in ToSetOf(page)
  <2>1. m \in DOMAIN page /\ m >= 1
    BY <1>2, <1>3, <1>7
  <2>2. page[m] \in Keys /\ page[m] \in Nat
    BY <2>1, <1>3, <1>4
  <2>3. \A a \in DOMAIN page : page[a] <= page[m]
    <3> TAKE a \in DOMAIN page
    <3>1. a = m \/ a < m
      BY <1>3, <2>1
    <3> QED  BY <3>1, <2>1, <1>4, <1>5 DEF IsPage
  <2>4. ASSUME NEW k \in Rest(j), k <= page[m] PROVE k \in ToSetOf(page)
    <3>1. k \in Nat
      BY <1>2, KeyFacts
    <3> QED  BY <3>1, <2>1, <2>2, <2>4, <1>5 DEF IsPage
  <2> QED  BY <1>3, <2>2, <2>3, <2>4
<1> QED  BY <1>3, <1>4, <1>5, <1>6, <1>7 DEF IsPage

LEMMA Entries ==
  ASSUME NEW S, NEW s \in Seq(S), NEW t \in Seq(S)
  PROVE  ToSetOf(s \o t) = ToSetOf(s) \union ToSetOf(t)
<1>1. /\ DOMAIN (s \o t) = 1..(Len(s) + Len(t)) /\ Len(s) \in Nat /\ Len(t) \in Nat
      /\ DOMAIN s = 1..Len(s) /\ DOMAIN t = 1..Len(t)
      /\ \A i \in 1..(Len(s) + Len(t)) : (s \o t)[i] = IF i <= Len(s) THEN s[i] ELSE t[i - Len(s)]
  OBVIOUS
<1>2. ASSUME NEW i \in DOMAIN (s \o t)
      PROVE  (s \o t)[i] \in ToSetOf(s) \union ToSetOf(t)
  <2>1. i <= Len(s) => i \in DOMAIN s
    BY <1>1
  <2>2. ~(i <= Len(s)) => i - Len(s) \in DOMAIN t
    BY <1>1
  <2> QED  BY <1>1, <2>1, <2>2 DEF ToSetOf
<1>3. ASSUME NEW i \in DOMAIN s PROVE s[i] \in ToSetOf(s \o t)
  <2>1. i \in DOMAIN (s \o t) /\ (s \o t)[i] = s[i]
    BY <1>1
  <2> QED  BY <2>1 DEF ToSetOf
<1>4. ASSUME NEW i \in DOMAIN t PROVE t[i] \in ToSetOf(s \o t)
  <2>1. i + Len(s) \in DOMAIN (s \o t) /\ (s \o t)[i + Len(s)] = t[i]
    BY <1>1
  <2> QED  BY <2>1 DEF ToSetOf
<1> QED  BY <1>2, <1>3, <1>4 DEF ToSetOf

LEMMA ListStep == ASSUME JobsInv, NEW j \in Jobs, List(j) PROVE JobsInv'
<1> USE DEF JobsInv, List, Goto
<1>1. CASE Goto(j, "failed") /\ UNCHANGED <<keys, token>>
  <2>1. TypeOK' /\ Made' /\ Adds
    BY <1>1 DEF TypeOK, Made, Adds, Covered
  <2> QED  BY <1>1, <2>1, Failing
<1>2. ASSUME NEW page \in Pages(j), keys' = [keys EXCEPT ![j] = keys[j] \o page],
             IF IsTruncated(j, page)
               THEN token' = [token EXCEPT ![j] = page[Len(page)]] /\ UNCHANGED pc
               ELSE Goto(j, "loop") /\ UNCHANGED token
      PROVE  JobsInv'
  <2> DEFINE old == keys[j]
             new == old \o page
  <2>1. /\ pc[j] = "list" /\ at[j] = 1 /\ report[j] = << >> /\ old \in Seq(Keys)
        /\ token[j] \in Nat /\ atStart[j] \subseteq Keys
    <3>1. pc[j] = "list" /\ JobInv(j)
      OBVIOUS
    <3>2. old \in Seq(Keys) /\ token[j] \in Keys \union {0} /\ atStart[j] \subseteq RawKeys
      BY DEF TypeOK
    <3>3. at[j] = 1 /\ report[j] = << >>
      BY <3>1 DEF JobInv, Visiting, Counting
    <3> QED  BY <3>1, <3>2, <3>3, Numbers
  <2>2. /\ page \in Seq(Keys) /\ Len(page) \in Nat
        /\ \A a \in DOMAIN page : page[a] > token[j] /\ objects[page[a]] # 0
        /\ \A a, b \in DOMAIN page : a < b => page[a] < page[b]
        /\ IsTruncated(j, page) => page # << >>
        /\ page # << >> => /\ page[Len(page)] \in Keys
                          /\ \A a \in DOMAIN page : page[a] <= page[Len(page)]
                          /\ \A k \in Rest(j) : k <= page[Len(page)] => k \in ToSetOf(page)
    BY PageFacts
  <2>3. /\ new \in Seq(Keys) /\ Len(new) = Len(old) + Len(page)
        /\ \A a \in DOMAIN new : new[a] = IF a <= Len(old) THEN old[a] ELSE page[a - Len(old)]
    BY <2>1, <2>2
  <2>4. ToSetOf(new) = ToSetOf(old) \union ToSetOf(page)
    BY <2>1, <2>2, Entries
  <2>5. keys'[j] = new /\ UNCHANGED <<objects, limit, at, report, atStart>>
    BY <1>2 DEF TypeOK
  <2> HIDE DEF new
  <2>6. /\ DOMAIN old = 1..Len(old) /\ DOMAIN page = 1..Len(page) /\ DOMAIN new = 1..Len(new)
        /\ Len(old) \in Nat /\ \A a \in DOMAIN old : old[a] \in Nat /\ old[a] <= token[j]
        /\ \A a \in DOMAIN page : page[a] \in Nat
    <3>1. DOMAIN old = 1..Len(old) /\ Len(old) \in Nat /\ \A a \in DOMAIN old : old[a] \in Keys
      BY <2>1
    <3>2. DOMAIN page = 1..Len(page) /\ \A a \in DOMAIN page : page[a] \in Keys
      BY <2>2
    <3>3. DOMAIN new = 1..Len(new)
      BY <2>3
    <3>4. \A a \in DOMAIN old : old[a] <= token[j]
      BY <2>1 DEF JobInv, Listing
    <3> QED  BY <3>1, <3>2, <3>3, <3>4, KeyFacts
  <2>7. ASSUME NEW a \in DOMAIN new, NEW b \in DOMAIN new, a < b PROVE new[a] < new[b]
    <3>1. CASE b <= Len(old)
      <4>1. a \in DOMAIN old /\ b \in DOMAIN old /\ new[a] = old[a] /\ new[b] = old[b]
        BY <3>1, <2>3, <2>6, <2>7
      <4> QED  BY <4>1, <2>7 DEF JobInv, Listing
    <3>2. CASE a <= Len(old) /\ ~(b <= Len(old))
      <4>1. /\ a \in DOMAIN old /\ b - Len(old) \in DOMAIN page
            /\ new[a] = old[a] /\ new[b] = page[b - Len(old)]
        BY <3>2, <2>3, <2>6
      <4> QED  BY <4>1, <2>1, <2>2, <2>6
    <3>3. CASE ~(a <= Len(old))
      <4>1. /\ a - Len(old) \in DOMAIN page /\ b - Len(old) \in DOMAIN page
            /\ a - Len(old) < b - Len(old)
            /\ new[a] = page[a - Len(old)] /\ new[b] = page[b - Len(old)]
        BY <3>3, <2>3, <2>6, <2>7
      <4> QED  BY <4>1, <2>2
    <3> QED  BY <3>1, <3>2, <3>3
  <2>8. \A k \in atStart[j] : k \in ToSetOf(old) \/ k \in Rest(j)
    <3> TAKE k \in atStart[j]
    <3>1. k \in Keys /\ k \in Nat /\ objects[k] # 0
      BY <2>1, KeyFacts DEF JobInv, Listing
    <3> QED  BY <3>1, <2>1 DEF JobInv, Listing, Rest, Present
  <2>17. \A a \in DOMAIN new : objects[new[a]] # 0
    <3> TAKE a \in DOMAIN new
    <3>1. CASE a <= Len(old)
      <4>1. a \in DOMAIN old /\ new[a] = old[a]
        BY <3>1, <2>3, <2>6
      <4> QED  BY <4>1 DEF JobInv, Listing
    <3>2. CASE ~(a <= Len(old))
      <4>1. a - Len(old) \in DOMAIN page /\ new[a] = page[a - Len(old)]
        BY <3>2, <2>3, <2>6
      <4> QED  BY <4>1, <2>2
    <3> QED  BY <3>1, <3>2
  <2>9. Made' /\ Adds
    BY <2>5 DEF Made, Adds, Covered
  <2>10. \A i \in Jobs \ {j} : Untouched(i)
    BY <1>2 DEF TypeOK, Untouched
  <2>11. Counting(j)' /\ at'[j] = 1
    <3>1. pc'[j] \in {"list", "loop"}
      BY <1>2, <2>1 DEF TypeOK
    <3> QED  BY <3>1, <2>1, <2>5 DEF JobInv, Counting
  <2>12. /\ pc'[j] \in {"list", "loop"}
         /\ \A i \in DOMAIN new : ~(i < 1)
    <3>1. pc'[j] \in {"list", "loop"}
      BY <1>2, <2>1 DEF TypeOK
    <3>2. \A i \in 1..Len(new) : ~(i < 1)
      BY <2>2, <2>3, <2>6
    <3> QED  BY <3>1, <3>2, <2>6
  <2>13. Visiting(j)'
    BY <2>5, <2>11, <2>12 DEF Visiting
  <2>14. keys' \in [Jobs -> Seq(Keys)] /\ \A i \in Jobs : at'[i] <= Len(keys'[i]) + 1
    <3>1. keys' \in [Jobs -> Seq(Keys)]
      BY <1>2, <2>3 DEF TypeOK, new
    <3>2. at[j] <= Len(new) + 1
      BY <2>1, <2>2, <2>3, <2>6
    <3> QED  BY <3>1, <3>2, <2>5 DEF TypeOK
  <2>15. CASE IsTruncated(j, page)
    <3> DEFINE last == page[Len(page)]
    <3>1. /\ last \in Keys /\ last \in Nat /\ page # << >>
          /\ token' = [token EXCEPT ![j] = last] /\ token'[j] = last /\ pc' = pc
          /\ \A a \in DOMAIN page : page[a] <= last
          /\ \A k \in Rest(j) : k <= last => k \in ToSetOf(page)
      <4>1. token' = [token EXCEPT ![j] = last] /\ pc' = pc /\ page # << >>
        BY <1>2, <2>2, <2>15
      <4>2. token'[j] = last
        BY <4>1 DEF TypeOK
      <4>3. last \in Keys
        BY <4>1, <2>2
      <4> QED  BY <4>1, <4>2, <4>3, <2>2, Numbers
    <3> HIDE DEF last
    <3>2. TypeOK'
      <4>1. token' \in [Jobs -> Keys \union {0}]
        BY <3>1 DEF TypeOK
      <4> QED  BY <4>1, <2>14, <2>5, <3>1 DEF TypeOK
    <3>3. token[j] <= last
      <4>1. 1 \in DOMAIN page
        BY <3>1, <2>2, <2>6
      <4> QED  BY <4>1, <3>1, <2>1, <2>2, <2>6
    <3>4. ASSUME NEW a \in DOMAIN new PROVE new[a] <= last
      <4>1. CASE a <= Len(old)
        <5>1. a \in DOMAIN old /\ new[a] = old[a]
          BY <4>1, <2>3, <2>6
        <5> QED  BY <5>1, <3>1, <3>3, <2>1, <2>6
      <4>2. CASE ~(a <= Len(old))
        <5>1. a - Len(old) \in DOMAIN page /\ new[a] = page[a - Len(old)]
          BY <4>2, <2>3, <2>6
        <5> QED  BY <5>1, <3>1
      <4> QED  BY <4>1, <4>2
    <3>5. \A k \in atStart[j] : k <= last => k \in ToSetOf(new)
      BY <2>4, <2>8, <3>1
    <3>6. pc'[j] = "list" /\ \A k \in atStart[j] : objects[k] # 0
      BY <2>1, <3>1 DEF JobInv, Listing
    <3>7. Listing(j)'
      BY <2>5, <2>7, <2>17, <3>1, <3>4, <3>5, <3>6 DEF Listing
    <3> QED  BY <2>9, <2>10, <2>11, <2>13, <3>2, <3>7, StepOfJob DEF JobInv
  <2>16. CASE ~IsTruncated(j, page)
    <3>1. token' = token /\ pc' = [pc EXCEPT ![j] = "loop"] /\ pc'[j] = "loop"
      BY <1>2, <2>16 DEF TypeOK
    <3>2. TypeOK'
      BY <2>14, <2>5, <3>1 DEF TypeOK
    <3>3. \A k \in atStart[j] : k \in ToSetOf(new)
      BY <2>4, <2>8, <2>16 DEF IsTruncated
    <3>4. \A k \in atStart[j] : objects[k] # 0
      BY DEF JobInv, Listing
    <3>5. Listing(j)'
      BY <2>5, <2>7, <2>17, <3>1, <3>3, <3>4 DEF Listing
    <3> QED  BY <2>9, <2>10, <2>11, <2>13, <3>2, <3>5, StepOfJob DEF JobInv
  <2> QED  BY <2>15, <2>16
<1> QED  BY <1>1, <1>2

(* The loop passes a key it skips, which is no file; it ends at the end.   *)
LEMMA VisitStep == ASSUME JobsInv, NEW j \in Jobs, Visit(j) PROVE JobsInv'
<1> USE DEF JobsInv, Visit, Goto
<1>1. /\ pc[j] = "loop" /\ keys[j] \in Seq(Keys) /\ at[j] \in Nat \ {0} /\ Len(keys[j]) \in Nat
      /\ DOMAIN keys[j] = 1..Len(keys[j]) /\ at[j] <= Len(keys[j]) + 1
      /\ (at[j] <= Len(keys[j]) => Current(j) \in Keys) /\ Current(j) = keys[j][at[j]]
  <2>1. pc[j] = "loop" /\ keys[j] \in Seq(Keys) /\ at[j] \in Nat \ {0} /\ at[j] <= Len(keys[j]) + 1
    BY DEF TypeOK
  <2> QED  BY <2>1 DEF Current
<1>2. Made' /\ Adds
  BY DEF Made, Adds, Covered
<1>3. \A i \in Jobs \ {j} : Untouched(i)
  BY DEF TypeOK, Untouched
<1>4. CASE at[j] > Len(keys[j]) /\ Goto(j, "done") /\ UNCHANGED at
  <2>1. TypeOK' /\ pc'[j] = "done"
    BY <1>4 DEF TypeOK
  <2>2. JobInv(j)'
    BY <1>4 DEF JobInv, Listing, Visiting, Counting, Covered
  <2> QED  BY <2>1, <2>2, <1>2, <1>3, StepOfJob
<1>5. CASE at[j] <= Len(keys[j]) /\ Skips(Current(j)) /\ at' = [at EXCEPT ![j] = at[j] + 1] /\ UNCHANGED pc
  <2>1. Current(j) \notin Files
    BY <1>5, <1>1, KeyFacts DEF Skips, Files
  <2>2. at'[j] = at[j] + 1 /\ pc'[j] = "loop" /\ at'[j] \in Nat \ {0} /\ at'[j] <= Len(keys[j]) + 1
    <3>1. at'[j] = at[j] + 1 /\ pc'[j] = "loop"
      BY <1>5, <1>1 DEF TypeOK
    <3> QED  BY <3>1, <1>1, <1>5
  <2>3. TypeOK'
    <3>1. at' \in [Jobs -> Nat \ {0}]
      BY <1>5, <2>2 DEF TypeOK
    <3>2. \A i \in Jobs : at'[i] <= Len(keys'[i]) + 1
      BY <2>2, <1>3 DEF TypeOK, Untouched
    <3> QED  BY <3>1, <3>2, <1>5 DEF TypeOK
  <2>5. Listing(j)'
    BY <2>2, <1>1 DEF JobInv, Listing
  <2>6. Visiting(j)'
    BY <2>1, <2>2, <1>1 DEF JobInv, Visiting, Covered
  <2>7. Counting(j)'
    BY <2>2, <1>1 DEF JobInv, Counting
  <2> QED  BY <2>3, <2>5, <2>6, <2>7, <1>2, <1>3, StepOfJob DEF JobInv
<1>6. CASE at[j] <= Len(keys[j]) /\ ~Skips(Current(j)) /\ Current(j) \notin Unreadable
             /\ Goto(j, "put") /\ UNCHANGED at
  <2>1. TypeOK' /\ pc'[j] = "put"
    BY <1>6 DEF TypeOK
  <2>2. Current(j) \in Files \ Unreadable
    BY <1>6, <1>1, KeyFacts
  <2>3. Listing(j)' /\ Counting(j)'
    BY <2>1, <1>1 DEF JobInv, Listing, Counting
  <2>4. Visiting(j)'
    BY <2>2, <1>1, <1>6 DEF JobInv, Visiting, Covered
  <2> QED  BY <2>1, <2>3, <2>4, <1>2, <1>3, StepOfJob DEF JobInv
<1>7. CASE Goto(j, "failed") /\ UNCHANGED at
  <2>1. TypeOK'
    BY <1>7 DEF TypeOK
  <2> QED  BY <2>1, <1>1, <1>2, <1>7, Failing
<1> QED  BY <1>4, <1>5, <1>6, <1>7

(* A file is written to the normalized object of its own name.             *)
LEMMA Writing ==
  ASSUME TypeOK, Made, NEW q \in Files \ Unreadable, objects[q] # 0, objects' = [objects EXCEPT ![OutputKey(q)] = q]
  PROVE  /\ Made' /\ Adds /\ Covered(q)' /\ objects' \in [Keys -> RawKeys \union {0}]
         /\ OutputKey(q) \in Stems /\ objects'[OutputKey(q)] # 0
<1>1. /\ q \in RawKeys /\ q \in Keys /\ q # 0 /\ OutputKey(q) = Stem[q]
      /\ Stem[q] \in Stems /\ Stem[q] \in Keys
  BY KeyFacts, Numbers
<1>2. /\ objects'[Stem[q]] = q
      /\ \A k \in Keys \ {Stem[q]} : objects'[k] = objects[k]
  BY <1>1 DEF TypeOK
<1>3. objects' \in [Keys -> RawKeys \union {0}]
  BY <1>1 DEF TypeOK
<1>4. Made'
  BY <1>1, <1>2, KeyFacts DEF Made
<1>8. \A k \in Keys : objects[k] # 0 => objects'[k] # 0
  BY <1>1, <1>2
<1>5. Covered(q)'
  BY <1>1, <1>2, <1>8 DEF Covered
<1>6. ASSUME NEW k \in Files, Covered(k) PROVE Covered(k)'
  <2>1. CASE Stem[k] = Stem[q]
    BY <2>1, <1>1, <1>2, <1>8 DEF Covered
  <2>2. CASE Stem[k] # Stem[q]
    BY <2>2, <1>1, <1>2, <1>6, <1>8, KeyFacts DEF Covered
  <2> QED  BY <2>1, <2>2
<1>7. Adds
  BY <1>6, <1>8 DEF Adds
<1> QED  BY <1>1, <1>3, <1>4, <1>5, <1>7

LEMMA PutStep == ASSUME JobsInv, NEW j \in Jobs, Put(j) PROVE JobsInv'
<1> USE DEF JobsInv, Put, Goto
<1>0. PICK q \in Files \ Unreadable : q = Current(j)
  BY DEF JobInv, Visiting, Current
<1>1. /\ pc[j] = "put" /\ keys[j] \in Seq(Keys) /\ at[j] \in Nat \ {0} /\ Len(keys[j]) \in Nat
      /\ DOMAIN keys[j] = 1..Len(keys[j]) /\ at[j] <= Len(keys[j])
      /\ q = keys[j][at[j]] /\ JobInv(j) /\ objects[q] # 0
  <2>1. pc[j] = "put" /\ keys[j] \in Seq(Keys) /\ at[j] \in Nat \ {0}
    BY DEF TypeOK
  <2>2. at[j] <= Len(keys[j])
    BY <2>1 DEF JobInv, Visiting
  <2>3. at[j] \in DOMAIN keys[j] /\ q = keys[j][at[j]]
    BY <2>1, <2>2, <1>0 DEF Current
  <2> QED  BY <2>1, <2>2, <2>3 DEF JobInv, Listing
<1>2. \A i \in Jobs \ {j} : Untouched(i)
  BY DEF TypeOK, Untouched
<1>3. CASE /\ objects' = [objects EXCEPT ![OutputKey(q)] = q]
           /\ report' = [report EXCEPT ![j] = Append(report[j], OutputKey(q))]
           /\ at' = [at EXCEPT ![j] = at[j] + 1]
           /\ Goto(j, IF LimitReached(j) THEN "done" ELSE "loop")
  <2>1. /\ Made' /\ Adds /\ Covered(q)' /\ objects' \in [Keys -> RawKeys \union {0}]
        /\ OutputKey(q) \in Stems /\ objects'[OutputKey(q)] # 0
    BY <1>1, <1>3, Writing
  <2>2. /\ report[j] \in Seq(Stems) /\ report'[j] = Append(report[j], OutputKey(q))
        /\ at'[j] = at[j] + 1 /\ pc'[j] = (IF LimitReached(j) THEN "done" ELSE "loop")
        /\ UNCHANGED <<limit, token, keys, atStart>>
    BY <1>3 DEF TypeOK
  <2>3. /\ report'[j] \in Seq(Stems) /\ Len(report'[j]) = Len(report[j]) + 1 /\ Len(report[j]) \in Nat
        /\ \A i \in DOMAIN report'[j] :
             \/ i \in DOMAIN report[j] /\ report'[j][i] = report[j][i]
             \/ report'[j][i] = OutputKey(q)
    BY <2>1, <2>2
  <2>4. TypeOK'
    <3>1. at'[j] \in Nat \ {0} /\ at'[j] <= Len(keys[j]) + 1
      BY <2>2, <1>1
    <3>2. at' \in [Jobs -> Nat \ {0}] /\ report' \in [Jobs -> Seq(Stems)]
      BY <1>3, <2>2, <2>3, <3>1 DEF TypeOK
    <3>3. \A i \in Jobs : at'[i] <= Len(keys'[i]) + 1
      BY <3>1, <2>2, <1>2 DEF TypeOK, Untouched
    <3>4. pc' \in [Jobs -> {"idle", "list", "loop", "put", "done", "failed"}]
      BY <1>3 DEF TypeOK
    <3> QED  BY <2>1, <3>2, <3>3, <3>4 DEF TypeOK
  <2>5. Listing(j)'
    <3>1. \A k \in atStart[j] : k \in Keys /\ objects[k] # 0
      BY <1>1, KeyFacts DEF TypeOK, JobInv, Listing
    <3>2. \A a \in DOMAIN keys[j] : keys[j][a] \in Keys /\ objects[keys[j][a]] # 0
      BY <1>1 DEF JobInv, Listing
    <3> QED  BY <1>1, <3>1, <3>2, <2>1, <2>2 DEF JobInv, Listing, Adds
  <2>6. Visiting(j)'
    <3>1. \A i \in DOMAIN keys[j] : i < at'[j] => i < at[j] \/ i = at[j]
      BY <2>2, <1>1
    <3>2. \A i \in DOMAIN keys[j], k \in Files : i < at'[j] /\ keys[j][i] = k => Covered(k)'
      <4> TAKE i \in DOMAIN keys[j], k \in Files
      <4>1. CASE i < at[j]
        BY <4>1, <2>1 DEF JobInv, Visiting, Adds
      <4>2. CASE i = at[j]
        BY <4>2, <2>1, <1>1
      <4> QED  BY <3>1, <4>1, <4>2
    <3>3. ~(pc'[j] = "done" /\ limit[j] = NoLimit)
      BY <2>2 DEF LimitReached
    <3> QED  BY <3>2, <3>3, <2>2 DEF Visiting
  <2>7. Counting(j)'
    <3>1. \A i \in DOMAIN report'[j] : objects'[report'[j][i]] # 0
      <4>1. \A i \in DOMAIN report[j] : report[j][i] \in Keys
        <5>1. \A i \in DOMAIN report[j] : report[j][i] \in Stems
          BY <2>2
        <5> QED  BY <5>1, KeyFacts
      <4> QED  BY <4>1, <2>1, <2>3 DEF JobInv, Counting, Adds
    <3>2. ASSUME limit[j] # NoLimit
          PROVE  /\ Len(report'[j]) <= AtLeastOne(limit[j])
                 /\ pc'[j] = "loop" => Len(report'[j]) < AtLeastOne(limit[j])
                 /\ pc'[j] = "done" => ~(Len(report'[j]) < AtLeastOne(limit[j]))
      <4>1. limit[j] \in Int /\ AtLeastOne(limit[j]) \in Nat /\ Len(report[j]) < AtLeastOne(limit[j])
        BY <3>2, <1>1, Bounds DEF TypeOK, JobInv, Counting
      <4>2. LimitReached(j) <=> Len(report[j]) + 1 >= limit[j]
        BY <3>2 DEF LimitReached
      <4>3. LimitReached(j) <=> Len(report[j]) + 1 >= AtLeastOne(limit[j])
        BY <4>1, <4>2, <2>3 DEF AtLeastOne
      <4> QED  BY <4>1, <4>3, <2>2, <2>3
    <3> QED  BY <3>1, <3>2, <2>2 DEF Counting
  <2> QED  BY <2>1, <2>4, <2>5, <2>6, <2>7, <1>2, StepOfJob DEF JobInv
<1>4. CASE /\ objects' \in {objects, [objects EXCEPT ![OutputKey(q)] = q]}
           /\ Goto(j, "failed") /\ UNCHANGED <<report, at>>
  <2>1. Made' /\ Adds /\ objects' \in [Keys -> RawKeys \union {0}]
    <3>1. CASE objects' = objects
      BY <3>1 DEF Made, Adds, Covered, TypeOK
    <3>2. CASE objects' = [objects EXCEPT ![OutputKey(q)] = q]
      BY <3>2, <1>0, <1>1, Writing
    <3> QED  BY <3>1, <3>2, <1>4
  <2>2. TypeOK'
    BY <2>1, <1>4 DEF TypeOK
  <2> QED  BY <2>1, <2>2, <1>1, <1>4, Failing
<1> QED  BY <1>0, <1>3, <1>4
-----------------------------------------------------------------------------
(* The inductive invariant of the jobs and the objects they make.          *)
THEOREM JobsInvariant == Spec => []JobsInv
<1>1. ASSUME JobsInv, [Next]_vars PROVE JobsInv'
  <2> USE <1>1
  <2>1. ASSUME NEW k \in RawKeys, Upload(k) PROVE JobsInv'
    BY <2>1, UploadStep
  <2>2. ASSUME NEW j \in Jobs, NEW l \in Limits \union {NoLimit}, Start(j, l) PROVE JobsInv'
    BY <2>2, StartStep
  <2>3. ASSUME NEW j \in Jobs, Run(j) PROVE JobsInv'
    BY <2>3, ListStep, VisitStep, PutStep DEF Run
  <2>4. CASE UNCHANGED vars
    <3>1. TypeOK'
      BY <2>4 DEF vars, JobsInv, TypeOK
    <3>2. Made' /\ Adds /\ \A j \in Jobs : Untouched(j)
      BY <2>4 DEF vars, JobsInv, Made, Adds, Covered, Untouched
    <3> QED  BY <3>1, <3>2, StandsStill DEF JobsInv
  <2> QED  BY <2>1, <2>2, <2>3, <2>4 DEF Next
<1> QED  BY <1>1, InitInv, PTL DEF Spec

(* Objects, listings, positions and reports are well formed.               *)
THEOREM TypeCorrect == Spec => []TypeOK
<1>1. JobsInv => TypeOK
  BY DEF JobsInv
<1> QED  BY <1>1, JobsInvariant, PTL

(* list_object_keys returns everything that was there when it began and    *)
(* nothing twice, whatever lands between two of its pages.                 *)
THEOREM ListsEverything == Spec => []ListingComplete
<1>1. JobsInv => ListingComplete
  BY DEF JobsInv, JobInv, Listing, ListingComplete
<1> QED  BY <1>1, JobsInvariant, PTL

(* normalize_prefix without a limit covers every file there was.           *)
THEOREM CoversEverything == Spec => []DoneCovers
<1>1. ASSUME JobsInv, NEW j \in Jobs, pc[j] = "done", limit[j] = NoLimit, NEW k \in atStart[j] \ Folders
      PROVE  \E q \in Files : Stem[q] = Stem[k] /\ objects[OutputKey(k)] = q /\ objects[q] # 0
  <2>1. TypeOK /\ JobInv(j)
    BY <1>1 DEF JobsInv
  <2>2. k \in Files /\ OutputKey(k) = Stem[k]
    BY <2>1, KeyFacts DEF TypeOK, Files
  <2>3. PICK i \in DOMAIN keys[j] : keys[j][i] = k
    BY <2>1, <1>1 DEF JobInv, Listing, ToSetOf
  <2>4. i < at[j]
    <3>1. keys[j] \in Seq(Keys) /\ at[j] \in Nat /\ at[j] > Len(keys[j])
      BY <2>1, <1>1 DEF TypeOK, JobInv, Visiting
    <3> QED  BY <3>1, <2>3
  <2>5. Covered(k)
    BY <2>1, <2>2, <2>3, <2>4 DEF JobInv, Visiting
  <2> QED  BY <2>2, <2>5 DEF Covered
<1>2. JobsInv => DoneCovers
  BY <1>1 DEF DoneCovers
<1> QED  BY <1>2, JobsInvariant, PTL

(* No normalized object is made from a normalized object, a folder or a    *)
(* file that does not parse, and what a job reports exists.                *)
THEOREM MadeFromFiles == Spec => []OutputsFromFiles
<1>1. JobsInv => OutputsFromFiles
  BY DEF JobsInv, Made, JobInv, Counting, OutputsFromFiles
<1> QED  BY <1>1, JobsInvariant, PTL

(* --limit is exact unless the listing is exhausted.                       *)
THEOREM KeepsLimit == Spec => []LimitKept
<1>1. JobsInv => LimitKept
  BY DEF JobsInv, JobInv, Counting, LimitKept
<1> QED  BY <1>1, JobsInvariant, PTL
=============================================================================
