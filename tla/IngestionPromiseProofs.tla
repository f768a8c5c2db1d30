------------------------ MODULE IngestionPromiseProofs ------------------------
(***************************************************************************)
(* The pipeline implements IngestionPromise: a step of it is a step of the  *)
(* promise, or one the client's view does not show.                        *)
(***************************************************************************)
EXTENDS IngestionPipelineProofs

StageView == [r \in Requests |-> StageOf(r)]
VerdictView == [r \in Requests |-> VerdictOf(r)]
DueView == [r \in Requests |-> DueOf(r)]
View == <<StageView, VerdictView, DueView>>

(* A request is settled by its answer, or by the death of the process.     *)
LEMMA VerdictFacts ==
  ASSUME TypeOK, Control, NEW r \in Requests
  PROVE  /\ Accepted(r) => VerdictOf(r) = "accepted"
         /\ Refused(r) => VerdictOf(r) = "refused"
         /\ answer[r] \in {500, 502} => VerdictOf(r) = "failed"
         /\ answer[r] = 0 /\ pc[r] = "lost" => VerdictOf(r) = "failed"
         /\ answer[r] = 0 /\ pc[r] # "lost" => VerdictOf(r) = "open"
         /\ Accepted(r) \/ Refused(r) \/ answer[r] \in {500, 502} \/ answer[r] = 0
<1>1. answer[r] \in {0, 200, 202, 400, 404, 500, 502}
  BY DEF TypeOK
<1>2. answer[r] # 0 => pc[r] # "lost"
  BY DEF Control, AnswerFitsOutcome
<1> QED  BY <1>1, <1>2 DEF VerdictOf, Accepted, Refused

LEMMA OpenUntilDone ==
  ASSUME TypeOK, Control, NEW r \in Requests, pc[r] \notin {"done", "lost"}
  PROVE  VerdictOf(r) = "open" /\ answer[r] = 0
BY VerdictFacts DEF Control, AnswerFitsOutcome

(* What leaves the stores and the answers alone is not seen.               *)
LEMMA SameStage ==
  ASSUME UNCHANGED <<landed, Rng(stream), Stored>>
  PROVE  UNCHANGED StageView
BY DEF StageView, StageOf
LEMMA SameVerdict ==
  ASSUME UNCHANGED answer, \A q \in Requests : pc'[q] = "lost" <=> pc[q] = "lost"
  PROVE  UNCHANGED VerdictView
BY DEF VerdictView, VerdictOf, Accepted, Refused

(* What a request is due stays while its verdict, its stage and its writes *)
(* under way do.                                                           *)
LEMMA SameDue ==
  ASSUME NEW q \in Requests, VerdictOf(q)' = VerdictOf(q), StageOf(q)' = StageOf(q),
         \A store \in Stores : q \in late'[store] <=> q \in late[store]
  PROVE  DueOf(q)' = DueOf(q)
<1>1. {"landing", "kinesis", "curated"} \subseteq Stores
  BY DEF Stores
<1> QED  BY <1>1 DEF DueOf

(* A step of a handler that answers nobody shows nothing but, perhaps, how *)
(* far its own request got.                                                *)
LEMMA HandlerView ==
  ASSUME TypeOK, Control, NEW r \in Requests, pc[r] \notin {"done", "lost"},
         pc'[r] # "lost", UNCHANGED answer,
         \A q \in Requests \ {r} :
           /\ pc'[q] = pc[q] /\ StageOf(q)' = StageOf(q)
           /\ \A store \in Stores : q \in late'[store] <=> q \in late[store]
  PROVE  VerdictOf(r) = "open" /\ UNCHANGED <<VerdictView, DueView>>
<1>1. VerdictOf(r) = "open"
  BY OpenUntilDone
<1>2. UNCHANGED VerdictView
  BY SameVerdict
<1>3. \A q \in Requests : VerdictOf(q)' = VerdictOf(q)
  BY <1>2 DEF VerdictView
<1>4. DueOf(r)' = DueOf(r)
  BY <1>1, <1>3 DEF DueOf
<1>5. \A q \in Requests \ {r} : DueOf(q)' = DueOf(q)
  BY <1>3, SameDue
<1> QED  BY <1>1, <1>2, <1>4, <1>5 DEF DueView

(* A handler's step that answers nobody and writes nothing.                *)
LEMMA Inside ==
  ASSUME TypeOK, Control, NEW r \in Requests, NEW stage,
         pc[r] \notin {"done", "lost"}, stage # "lost",
         Goto(r, stage), UNCHANGED <<landed, Rng(stream), Stored, answer>>,
         \A q \in Requests \ {r}, store \in Stores :
           q \in late'[store] <=> q \in late[store]
  PROVE  UNCHANGED View
<1>1. pc'[r] # "lost" /\ \A q \in Requests \ {r} : pc'[q] = pc[q]
  BY DEF Goto, TypeOK
<1>2. UNCHANGED StageView
  BY SameStage
<1>3. \A q \in Requests : StageOf(q)' = StageOf(q)
  BY <1>2 DEF StageView
<1> QED  BY <1>1, <1>2, <1>3, HandlerView DEF View

(* What is under way is a write of the request that sent it.               *)
LEMMA InFlightOthers ==
  ASSUME TypeOK, NEW r \in Requests, InFlight(r)
  PROVE  \A q \in Requests \ {r}, store \in Stores :
           q \in late'[store] <=> q \in late[store]
<1>1. PICK sent \in Stores : Delay(sent, r)
  BY DEF InFlight, Stores
<1>2. /\ late'[sent] = late[sent] \union {r}
      /\ \A other \in Stores \ {sent} : late'[other] = late[other]
  BY <1>1, DelayFacts DEF TypeOK
<1> QED  BY <1>2

(* A call that fails, or a process that dies, with its write under way.    *)
LEMMA InFlightView ==
  ASSUME TypeOK, Control, Traces, NEW r \in Requests, NEW stage, InFlight(r),
         stage # "lost", Goto(r, stage), UNCHANGED answer
  PROVE  UNCHANGED View
<1>1. UNCHANGED <<landed, Rng(stream), Stored>>
  BY InFlightTraces
<1>2. pc[r] \notin {"done", "lost"}
  BY DEF InFlight
<1> QED  BY <1>1, <1>2, Inside, InFlightOthers

(* Data that gets one store further.                                       *)
LEMMA Advancing ==
  ASSUME NEW r \in Requests, VerdictOf(r) = "open", StageOf(r) \in 0..2,
         StageOf(r)' = StageOf(r) + 1,
         \A q \in Requests \ {r} : StageOf(q)' = StageOf(q),
         UNCHANGED <<VerdictView, DueView>>
  PROVE  Promise!Next
<1>1. StageOf(r) < 3
  OBVIOUS
<1>2. Promise!Advance(r)
  BY <1>1 DEF Promise!Advance, VerdictView, DueView
<1> QED  BY <1>2 DEF Promise!Next

LEMMA PersistStep ==
  ASSUME TypeOK, Control, Traces, NEW r \in Requests, Persist(r)
  PROVE  [Promise!Next]_View
<1>1. /\ UNCHANGED answer /\ pc[r] = "persist"
      /\ r \notin landed /\ r \notin Rng(stream) /\ r \notin Stored
      /\ pc'[r] # "lost" /\ \A q \in Requests \ {r} : pc'[q] = pc[q]
  BY DEF Persist, Raise, Goto, TypeOK, Traces, NotYetLanded, Early, WriteOrder, Stored
<1>2. CASE InFlight(r)
  BY <1>2, InFlightView DEF Persist, Raise
<1>3. CASE ~InFlight(r)
  <2>1. /\ UNCHANGED <<stream, late, curated>>
        /\ landed' \in {landed, landed \union {r}}
    BY <1>3 DEF Persist, stores
  <2>2. UNCHANGED <<Rng(stream), Stored>>
    BY <2>1 DEF Rng, Stored
  <2>3. \A q \in Requests \ {r} : StageOf(q)' = StageOf(q)
    BY <2>1, <2>2 DEF StageOf
  <2>4. VerdictOf(r) = "open" /\ UNCHANGED <<VerdictView, DueView>>
    BY <1>1, <2>1, <2>3, HandlerView
  <2>5. CASE landed' = landed
    BY <2>2, <2>4, <2>5, SameStage DEF View
  <2>6. CASE landed' = landed \union {r}
    <3>1. StageOf(r) = 0 /\ StageOf(r)' = 1
      BY <1>1, <2>2, <2>6 DEF StageOf
    <3> QED  BY <2>3, <2>4, <3>1, Advancing
  <2> QED  BY <2>1, <2>5, <2>6
<1> QED  BY <1>2, <1>3

LEMMA PublishStep ==
  ASSUME TypeOK, Control, Traces, NEW r \in Requests, Publish(r)
  PROVE  [Promise!Next]_View
<1>1. /\ UNCHANGED <<landed, curated, answer>> /\ pc[r] = "publish"
      /\ stream' \in {stream, Append(stream, r)}
      /\ pc'[r] # "lost" /\ \A q \in Requests \ {r} : pc'[q] = pc[q]
  BY DEF Publish, Raise, Goto, TypeOK
<1>2. /\ r \in landed /\ r \notin Rng(stream) /\ r \notin Stored
  BY <1>1 DEF Traces, NotYetPublished, WriteOrder, Stored
<1>3. Rng(stream') \in {Rng(stream), Rng(stream) \union {r}}
  <2>1. Rng(Append(stream, r)) = Rng(stream) \union {r}
    BY RngAppend DEF TypeOK
  <2> QED  BY <1>1, <2>1
<1>4. /\ \A q \in Requests \ {r}, store \in Stores :
           q \in late'[store] <=> q \in late[store]
      /\ late'["curated"] = late["curated"]
  <2>1. late' = late \/ Delay("kinesis", r)
    BY DEF Publish
  <2>2. {"kinesis", "curated"} \subseteq Stores /\ late \in [Stores -> SUBSET Requests]
    BY DEF TypeOK, Stores
  <2>3. CASE late' = late
    BY <2>3
  <2>4. CASE Delay("kinesis", r)
    <3>1. /\ late'["kinesis"] = late["kinesis"] \union {r}
          /\ \A other \in Stores \ {"kinesis"} : late'[other] = late[other]
      BY <2>2, <2>4, DelayFacts
    <3> QED  BY <2>2, <3>1
  <2> QED  BY <2>1, <2>3, <2>4
<1>5. UNCHANGED Stored
  BY <1>1, <1>4 DEF Stored
<1>6. \A q \in Requests \ {r} : StageOf(q)' = StageOf(q)
  BY <1>1, <1>3, <1>5 DEF StageOf
<1>7. VerdictOf(r) = "open" /\ UNCHANGED <<VerdictView, DueView>>
  BY <1>1, <1>4, <1>6, HandlerView
<1>8. CASE Rng(stream') = Rng(stream)
  BY <1>1, <1>5, <1>7, <1>8, SameStage DEF View
<1>9. CASE Rng(stream') = Rng(stream) \union {r}
  <2>1. StageOf(r) = 1 /\ StageOf(r)' = 2
    BY <1>1, <1>2, <1>5, <1>9 DEF StageOf
  <2> QED  BY <1>6, <1>7, <2>1, Advancing
<1> QED  BY <1>3, <1>8, <1>9

LEMMA CurateStep ==
  ASSUME TypeOK, Control, Traces, NEW r \in Requests, Curate(r)
  PROVE  [Promise!Next]_View
<1>1. /\ UNCHANGED answer /\ pc[r] = "curate"
      /\ r \in Rng(stream) /\ r \notin Rng(curated) /\ r \notin late["curated"]
      /\ pc'[r] # "lost" /\ \A q \in Requests \ {r} : pc'[q] = pc[q]
  BY DEF Curate, Raise, Goto, TypeOK, Traces, AtCurate, LateRows
<1>2. CASE InFlight(r)
  BY <1>2, InFlightView DEF Curate, Goto, Raise, InFlight
<1>3. CASE ~InFlight(r)
  <2>1. /\ UNCHANGED <<landed, stream, late>>
        /\ curated' \in {curated, Append(curated, r)}
    BY <1>3 DEF Curate, stores
  <2>2. Rng(Append(curated, r)) = Rng(curated) \union {r}
    BY RngAppend DEF TypeOK
  <2>3. Stored' \in {Stored, Stored \union {r}} /\ UNCHANGED Rng(stream)
    BY <1>1, <2>1, <2>2 DEF Stored
  <2>4. \A q \in Requests \ {r} : StageOf(q)' = StageOf(q)
    BY <2>1, <2>3 DEF StageOf
  <2>5. VerdictOf(r) = "open" /\ UNCHANGED <<VerdictView, DueView>>
    BY <1>1, <2>1, <2>4, HandlerView
  <2>6. CASE Stored' = Stored
    BY <2>1, <2>3, <2>5, <2>6, SameStage DEF View
  <2>7. CASE Stored' = Stored \union {r}
    <3>1. StageOf(r) = 2 /\ StageOf(r)' = 3
      BY <1>1, <2>1, <2>3, <2>7 DEF StageOf, Stored
    <3> QED  BY <2>4, <2>5, <3>1, Advancing
  <2> QED  BY <2>3, <2>6, <2>7
<1> QED  BY <1>2, <1>3

(* A write that its store applies late changes how far its own request     *)
(* got, by one store or not at all, and it was due if the request failed.  *)
LEMMA LateStage ==
  ASSUME TypeOK, Traces, NEW store \in Stores, NEW r \in Requests, LateWrite(store, r)
  PROVE  /\ \A q \in Requests \ {r} : StageOf(q)' = StageOf(q)
         /\ \/ StageOf(r)' = StageOf(r) /\ (VerdictOf(r)' = VerdictOf(r) => DueOf(r)' = DueOf(r))
            \/ /\ StageOf(r) \in 0..2 /\ StageOf(r)' = StageOf(r) + 1
               /\ DueOf(r) <=> VerdictOf(r) = "failed"
               /\ ~DueOf(r)'
<1>1. /\ curated' = curated /\ r \in late[store]
      /\ landed' = (IF store = "landing" THEN landed \union {r} ELSE landed)
      /\ stream' = (IF store = "kinesis" THEN Append(stream, r) ELSE stream)
      /\ late'[store] = late[store] \ {r}
      /\ \A other \in Stores \ {store} : late'[other] = late[other]
  BY DEF LateWrite, TypeOK
<1>2. Rng(stream') = (IF store = "kinesis" THEN Rng(stream) \union {r} ELSE Rng(stream))
  <2>1. Rng(Append(stream, r)) = Rng(stream) \union {r}
    BY RngAppend DEF TypeOK
  <2> QED  BY <1>1, <2>1
<1>3. /\ Rng(curated) \subseteq Rng(stream) /\ Rng(stream) \subseteq landed
      /\ late["kinesis"] \subseteq landed /\ late["curated"] \subseteq Rng(curated)
      /\ {"landing", "kinesis", "curated", "audit"} = Stores
  BY DEF Traces, WriteOrder, LateRows, Stores
<1>4. Stored' = (IF store = "curated" THEN Stored \union {r} ELSE Stored)
  BY <1>1, <1>3 DEF Stored
<1>5. \A q \in Requests \ {r} : StageOf(q)' = StageOf(q)
  BY <1>1, <1>2, <1>4 DEF StageOf
<1>6. CASE store = "audit"
  <2>1. StageOf(r)' = StageOf(r)
    BY <1>1, <1>2, <1>4, <1>6 DEF StageOf
  <2> QED  BY <1>1, <1>3, <1>5, <1>6, <2>1 DEF DueOf
<1>7. CASE store = "landing"
  <2>1. CASE r \in landed
    <3>1. StageOf(r)' = StageOf(r) /\ StageOf(r) # 0
      BY <1>1, <1>2, <1>4, <1>7, <2>1 DEF StageOf
    <3> QED  BY <1>1, <1>3, <1>5, <1>7, <3>1 DEF DueOf
  <2>2. CASE r \notin landed
    <3>1. StageOf(r) = 0 /\ StageOf(r)' = 1
      BY <1>1, <1>2, <1>3, <1>4, <1>7, <2>2 DEF StageOf, Stored
    <3>2. r \notin late'["kinesis"]
      BY <1>1, <1>3, <1>7, <2>2
    <3> QED  BY <1>1, <1>5, <1>7, <3>1, <3>2 DEF DueOf
  <2> QED  BY <2>1, <2>2
<1>8. CASE store = "kinesis"
  <2>1. CASE r \in Rng(stream)
    <3>1. StageOf(r)' = StageOf(r) /\ StageOf(r) \notin {0, 1}
      BY <1>1, <1>2, <1>4, <1>8, <2>1 DEF StageOf
    <3> QED  BY <1>1, <1>3, <1>5, <1>8, <3>1 DEF DueOf
  <2>2. CASE r \notin Rng(stream)
    <3>1. StageOf(r) = 1 /\ StageOf(r)' = 2
      BY <1>1, <1>2, <1>3, <1>4, <1>8, <2>2 DEF StageOf, Stored
    <3>2. r \notin late'["curated"]
      BY <1>1, <1>3, <1>8, <2>2
    <3> QED  BY <1>1, <1>5, <1>8, <3>1, <3>2 DEF DueOf
  <2> QED  BY <2>1, <2>2
<1>9. CASE store = "curated"
  <2>1. StageOf(r) = 2 /\ StageOf(r)' = 3
    BY <1>1, <1>2, <1>3, <1>4, <1>9 DEF StageOf, Stored
  <2> QED  BY <1>1, <1>5, <1>9, <2>1 DEF DueOf
<1> QED  BY <1>3, <1>6, <1>7, <1>8, <1>9

(* It is applied while the request goes on, or after it has failed: an     *)
(* accepted one is in its stores, a refused one has nothing under way.     *)
LEMMA LateWriteStep ==
  ASSUME TypeOK, Control, Traces, AcceptedIsDurable, RefusedLeavesNoTrace,
         NEW store \in Stores, NEW r \in Requests, LateWrite(store, r)
  PROVE  [Promise!Next]_View
<1>1. UNCHANGED VerdictView
  BY SameVerdict DEF LateWrite
<1>2. \A q \in Requests : VerdictOf(q)' = VerdictOf(q)
  BY <1>1 DEF VerdictView
<1>3. \A q \in Requests \ {r} : StageOf(q)' = StageOf(q)
  BY LateStage
<1>4. \A q \in Requests \ {r} : DueOf(q)' = DueOf(q)
  <2>1. \A q \in Requests \ {r}, s \in Stores : q \in late'[s] <=> q \in late[s]
    BY DEF LateWrite, TypeOK
  <2> QED  BY <1>2, <1>3, <2>1, SameDue
<1>5. CASE StageOf(r)' = StageOf(r) /\ DueOf(r)' = DueOf(r)
  BY <1>1, <1>3, <1>4, <1>5 DEF View, StageView, DueView
<1>6. CASE /\ StageOf(r) \in 0..2 /\ StageOf(r)' = StageOf(r) + 1
           /\ DueOf(r) <=> VerdictOf(r) = "failed"
           /\ ~DueOf(r)'
  <2>1. ~Accepted(r)
    BY <1>6 DEF AcceptedIsDurable, StageOf
  <2>2. ~Refused(r)
    <3>1. ASSUME Refused(r) PROVE FALSE
      <4>1. store = "audit"
        BY <3>1 DEF RefusedLeavesNoTrace, LateWrite
      <4>2. UNCHANGED <<landed, Rng(stream), Stored>>
        BY <4>1 DEF LateWrite, Stored, TypeOK, Stores, Rng
      <4>3. StageOf(r)' = StageOf(r)
        BY <4>2 DEF StageOf
      <4> QED  BY <1>6, <4>3
    <3> QED  BY <3>1
  <2>3. VerdictOf(r) \in {"open", "failed"}
    BY <2>1, <2>2, VerdictFacts
  <2>4. CASE VerdictOf(r) = "failed"
    <3>1. DueView' = [DueView EXCEPT ![r] = FALSE]
      <4>1. DueOf(r)' = FALSE
        BY <1>6 DEF DueOf
      <4> QED  BY <1>4, <4>1 DEF DueView
    <3>2. StageView' = [StageView EXCEPT ![r] = @ + 1]
      BY <1>3, <1>6 DEF StageView
    <3>3. DueView[r] /\ StageView[r] < 3
      BY <1>6, <2>4 DEF DueView, StageView
    <3>4. Promise!Settle(r)
      BY <1>1, <3>1, <3>2, <3>3 DEF Promise!Settle, VerdictView, DueView, StageView
    <3> QED  BY <3>4 DEF Promise!Next
  <2>5. CASE VerdictOf(r) = "open"
    <3>1. UNCHANGED DueView
      BY <1>4, <1>6, <2>5 DEF DueView, DueOf
    <3> QED  BY <1>1, <1>3, <1>6, <2>5, <3>1, Advancing
  <2> QED  BY <2>3, <2>4, <2>5
<1> QED  BY <1>2, <1>5, <1>6, LateStage

(* The answer is the verdict: success after all stores, refusal before any. *)
LEMMA RespondStep ==
  ASSUME TypeOK, Control, TypeOK', AcceptedIsDurable', RefusedLeavesNoTrace',
         NEW r \in Requests, Respond(r)
  PROVE  [Promise!Next]_View
<1>1. /\ UNCHANGED <<landed, stream, late, curated>> /\ pc[r] = "respond" /\ pc'[r] = "done"
      /\ answer'[r] \in {200, 202, 400, 404, 500, 502}
      /\ \A q \in Requests \ {r} : pc'[q] = pc[q] /\ answer'[q] = answer[q]
  BY DEF Respond, Goto, TypeOK, stores, StatusCode
<1>2. UNCHANGED StageView /\ VerdictOf(r) = "open"
  BY <1>1, SameStage, OpenUntilDone DEF Rng, Stored
<1>3. \A q \in Requests \ {r} : VerdictOf(q)' = VerdictOf(q)
  BY <1>1 DEF VerdictOf, Accepted, Refused
<1>4. /\ ~DueOf(r)
      /\ \A q \in Requests \ {r} : DueOf(q)' = DueOf(q)
  <2>1. \A q \in Requests : StageOf(q)' = StageOf(q)
    BY <1>2 DEF StageView
  <2> QED  BY <1>1, <1>2, <1>3, <2>1, SameDue DEF DueOf
<1>5. CASE Accepted(r)'
  <2>1. VerdictOf(r)' = "accepted"
    BY <1>1, <1>5 DEF VerdictOf, Accepted, Refused
  <2>2. StageOf(r) = 3
    BY <1>1, <1>5 DEF AcceptedIsDurable, StageOf, Stored, Rng
  <2>3. UNCHANGED DueView
    BY <1>4, <2>1 DEF DueView, DueOf
  <2>4. Promise!Accept(r)
    BY <1>2, <1>3, <2>1, <2>2, <2>3 DEF Promise!Accept, StageView, DueView
  <2> QED  BY <2>4 DEF Promise!Next
<1>6. CASE Refused(r)'
  <2>1. VerdictOf(r)' = "refused"
    BY <1>1, <1>6 DEF VerdictOf, Accepted, Refused
  <2>2. StageOf(r) = 0
    BY <1>1, <1>6 DEF RefusedLeavesNoTrace, StageOf, Stored, Rng
  <2>3. UNCHANGED DueView
    BY <1>4, <2>1 DEF DueView, DueOf
  <2>4. Promise!Refuse(r)
    BY <1>2, <1>3, <2>1, <2>2, <2>3 DEF Promise!Refuse, StageView, DueView
  <2> QED  BY <2>4 DEF Promise!Next
<1>7. CASE answer'[r] \in {500, 502}
  <2>1. VerdictOf(r)' = "failed"
    BY <1>7 DEF VerdictOf, Accepted, Refused
  <2> DEFINE D == {q \in {r} : DueOf(q)'}
  <2>2. D \in SUBSET {r}
    OBVIOUS
  <2>3. DueView' = [q \in Requests |-> q \in D \/ DueView[q]]
    BY <1>4 DEF DueView, DueOf
  <2> HIDE DEF D
  <2>4. Promise!Fail({r})
    BY <1>2, <1>3, <2>1, <2>2, <2>3 DEF Promise!Fail, StageView, DueView
  <2> QED  BY <2>4 DEF Promise!Next
<1> QED  BY <1>1, <1>5, <1>6, <1>7 DEF Accepted, Refused

(* A crash fails everything it loses at once.                              *)
LEMMA CrashStep ==
  ASSUME TypeOK, Control, Traces, Crash
  PROVE  [Promise!Next]_View
<1> DEFINE S == {r \in Requests : pc[r] \notin {"idle", "done", "lost"}}
           D == {r \in S : DueOf(r)'}
<1>1. /\ UNCHANGED answer /\ UNCHANGED <<landed, Rng(stream), Stored>>
      /\ \A q \in Requests \ S, store \in Stores : q \in late'[store] <=> q \in late[store]
  <2>1. CASE UNCHANGED stores
    BY <2>1 DEF Crash, stores, Stored
  <2>2. CASE loop # Nobody /\ InFlight(loop)
    <3>1. loop \in S
      BY <2>2 DEF TypeOK, InFlight
    <3> QED  BY <2>2, <3>1, InFlightTraces, InFlightOthers DEF Crash
  <2> QED  BY <2>1, <2>2 DEF Crash
<1>2. UNCHANGED StageView
  BY <1>1, SameStage
<1>3. ASSUME NEW r \in S
      PROVE  VerdictOf(r) = "open" /\ VerdictOf(r)' = "failed" /\ ~DueOf(r)
  <2>1. VerdictOf(r) = "open" /\ answer[r] = 0
    BY <1>3, OpenUntilDone
  <2>2. pc'[r] = "lost" /\ answer'[r] = 0
    BY <2>1, <1>1 DEF Crash
  <2> QED  BY <2>1, <2>2 DEF VerdictOf, Accepted, Refused, DueOf
<1>4. ASSUME NEW r \in Requests \ S
      PROVE  VerdictOf(r)' = VerdictOf(r) /\ DueOf(r)' = DueOf(r)
  <2>1. pc'[r] = "lost" <=> pc[r] = "lost"
    BY DEF Crash
  <2>2. VerdictOf(r)' = VerdictOf(r)
    BY <2>1, <1>1 DEF VerdictOf, Accepted, Refused
  <2>3. StageOf(r)' = StageOf(r)
    BY <1>2 DEF StageView
  <2> QED  BY <1>1, <2>2, <2>3, SameDue
<1>5. S \in SUBSET Requests /\ D \in SUBSET S
  OBVIOUS
<1>6. DueView' = [r \in Requests |-> r \in D \/ DueView[r]]
  BY <1>3, <1>4 DEF DueView, DueOf
<1> HIDE DEF S, D
<1>7. Promise!Fail(S)
  BY <1>2, <1>3, <1>4, <1>5, <1>6 DEF Promise!Fail, StageView, DueView
<1> QED  BY <1>5, <1>7 DEF Promise!Next

(* What a client learns of its request is a behaviour of IngestionPromise: *)
(* the data advances one store at a time, success is told after the last,  *)
(* refusal before the first, and only a failure may leave it in between or *)
(* with one more write to come.                                            *)
THEOREM PromiseKept == Spec => KeepsPromise
<1>1. Init => Promise!Init
  BY DEF Init, Promise!Init, StageOf, VerdictOf, DueOf, Stored, Accepted, Refused, Rng, Stores
<1>2. ASSUME TypeOK, Control, Traces, AcceptedIsDurable, RefusedLeavesNoTrace,
             TypeOK', AcceptedIsDurable', RefusedLeavesNoTrace', [Next]_vars
      PROVE  [Promise!Next]_View
  <2> USE <1>2
  <2>1. ASSUME NEW r \in Requests, NEW rt \in Routes, NEW s \in Sources,
               NEW d \in Defects, Submit(r, rt, s, d)
        PROVE  UNCHANGED View
    BY <2>1, Inside DEF Submit, stores, Rng, Stored
  <2>2. ASSUME NEW r \in Requests, ParseBody(r) PROVE UNCHANGED View
    BY <2>2, Inside DEF ParseBody, stores, Rng, Stored
  <2>3. ASSUME NEW r \in Requests, GetSource(r) PROVE UNCHANGED View
    BY <2>3, Inside DEF GetSource, Raise, stores, Rng, Stored
  <2>4. ASSUME NEW r \in Requests, Validate(r) PROVE UNCHANGED View
    BY <2>4, Inside DEF Validate, Raise, stores, Rng, Stored
  <2>5. ASSUME NEW r \in Requests, WriteAuditLog(r) PROVE UNCHANGED View
    <3>1. AfterAudit(r) # "lost"
      BY DEF AfterAudit
    <3>2. CASE InFlight(r)
      <4>1. Goto(r, "respond") \/ Goto(r, AfterAudit(r))
        BY <2>5 DEF WriteAuditLog
      <4> QED  BY <2>5, <3>1, <3>2, <4>1, InFlightView DEF WriteAuditLog
    <3>3. CASE ~InFlight(r)
      BY <2>5, <3>1, <3>3, Inside DEF WriteAuditLog, stores, Rng, Stored
    <3> QED  BY <3>2, <3>3
  <2>6. ASSUME NEW r \in Requests, ShowStored(r) PROVE UNCHANGED View
    BY <2>6, Inside DEF ShowStored, stores, Rng, Stored
  <2>7. CASE UNCHANGED vars
    <3>1. UNCHANGED <<StageView, VerdictView>>
      BY <2>7, SameStage, SameVerdict DEF vars, stores, Rng, Stored
    <3>2. \A q \in Requests : DueOf(q)' = DueOf(q)
      BY <2>7, <3>1, SameDue DEF vars, stores, StageView, VerdictView
    <3> QED  BY <3>1, <3>2 DEF View, DueView
  <2> QED
    BY <2>1, <2>2, <2>3, <2>4, <2>5, <2>6, <2>7, PersistStep, PublishStep, LateWriteStep,
       CurateStep, RespondStep, CrashStep DEF Next, Serve, Quiescent
<1> QED
  BY <1>1, <1>2, TypeCorrect, ControlInvariant, TracesInvariant, AcceptedDurable,
     RefusedTraceless, PTL DEF Spec, KeepsPromise, Promise!Spec, View, StageView,
     VerdictView, DueView
=============================================================================
