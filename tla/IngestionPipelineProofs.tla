----------------------- MODULE IngestionPipelineProofs -----------------------
(***************************************************************************)
(* Proofs about IngestionPipeline, for every set of requests and sources.   *)
(***************************************************************************)
EXTENDS IngestionPipeline, FiniteSetTheorems, TLAPS

(* What Append does to a store: its length, its entries and its range.     *)
LEMMA AppendFacts ==
  ASSUME NEW S, NEW s \in Seq(S), NEW e \in S
  PROVE  /\ Append(s, e) \in Seq(S)
         /\ Len(s) \in Nat
         /\ DOMAIN s = 1..Len(s)
         /\ DOMAIN Append(s, e) = 1..(Len(s) + 1)
         /\ \A i \in 1..Len(s) : Append(s, e)[i] = s[i]
         /\ Append(s, e)[Len(s) + 1] = e
  OBVIOUS

(* Appending to a store adds the entry to its range and keeps the rest.    *)
LEMMA RngAppend ==
  ASSUME NEW S, NEW s \in Seq(S), NEW e \in S
  PROVE  Rng(Append(s, e)) = Rng(s) \union {e}
<1>1. /\ Len(s) \in Nat
      /\ DOMAIN s = 1..Len(s)
      /\ DOMAIN Append(s, e) = 1..(Len(s) + 1)
      /\ \A i \in 1..Len(s) : Append(s, e)[i] = s[i]
      /\ Append(s, e)[Len(s) + 1] = e
  BY AppendFacts
<1>2. ASSUME NEW x \in Rng(Append(s, e)) PROVE x \in Rng(s) \union {e}
  <2>1. PICK i \in 1..(Len(s) + 1) : x = Append(s, e)[i]
    BY <1>1, <1>2 DEF Rng
  <2>2. CASE i = Len(s) + 1  BY <2>1, <2>2, <1>1
  <2>3. CASE i # Len(s) + 1
    <3>1. i \in 1..Len(s)  BY <2>1, <2>3, <1>1
    <3> QED  BY <3>1, <2>1, <1>1 DEF Rng
  <2> QED  BY <2>2, <2>3
<1>3. ASSUME NEW x \in Rng(s) PROVE x \in Rng(Append(s, e))
  <2>1. PICK i \in 1..Len(s) : x = s[i]  BY <1>1, <1>3 DEF Rng
  <2>2. i \in 1..(Len(s) + 1)  BY <1>1
  <2> QED  BY <2>1, <2>2, <1>1 DEF Rng
<1>4. e \in Rng(Append(s, e))
  <2>1. Len(s) + 1 \in 1..(Len(s) + 1)  BY <1>1
  <2> QED  BY <2>1, <1>1 DEF Rng
<1> QED  BY <1>2, <1>3, <1>4
-----------------------------------------------------------------------------
(* The stages and exceptions that actions assign are members of their      *)
(* sets.                                                                   *)
LEMMA StageNames ==
  /\ {"idle", "received", "lookup", "validate", "persist", "publish", "curate",
      "audit", "show", "respond", "done", "lost"} \subseteq Stages
  /\ {"none", "validation", "sourceNotFound", "configuration", "storage",
      "kinesis", "database", "other"} \subseteq Exceptions
  BY DEF Stages, InHandler, Exceptions

(* A write that is delayed joins those of its store.                       *)
LEMMA DelayFacts ==
  ASSUME NEW store \in Stores, NEW r \in Requests,
         late \in [Stores -> SUBSET Requests], Delay(store, r)
  PROVE  /\ late' \in [Stores -> SUBSET Requests]
         /\ late'[store] = late[store] \union {r}
         /\ \A other \in Stores \ {store} : late'[other] = late[other]
  BY DEF Delay

StoresTyped ==
  /\ landed \subseteq Requests
  /\ stream \in Seq(Requests)
  /\ late \in [Stores -> SUBSET Requests]
  /\ curated \in Seq(Requests)
  /\ audit \in Seq(AuditRows)

LEMMA AuditRowTyped ==
  ASSUME TypeOK, NEW r \in Requests
  PROVE  AuditRow(r) \in AuditRows
  BY DEF AuditRow, AuditRows, ElapsedMs, TypeOK

LEMMA InFlightTyped ==
  ASSUME TypeOK, NEW r \in Requests, InFlight(r)
  PROVE  StoresTyped'
<1>1. StoresTyped  BY DEF TypeOK, StoresTyped
<1>2. late' \in [Stores -> SUBSET Requests]
  <2>1. \E store \in Stores : Delay(store, r)
    BY DEF InFlight, Stores
  <2> QED  BY <1>1, <2>1, DelayFacts DEF StoresTyped
<1>3. landed' = landed /\ stream' = stream
  BY DEF InFlight
<1>4. curated' \in {curated, Append(curated, r)} /\ audit' \in {audit, Append(audit, AuditRow(r))}
  BY DEF InFlight
<1>5. Append(curated, r) \in Seq(Requests) /\ Append(audit, AuditRow(r)) \in Seq(AuditRows)
  BY <1>1, AuditRowTyped, AppendFacts DEF StoresTyped
<1> QED  BY <1>1, <1>2, <1>3, <1>4, <1>5 DEF StoresTyped

(* Every variable keeps its type; no request is ever answered with a       *)
(* status the routes and exception handlers do not declare.                *)
THEOREM TypeCorrect == Spec => []TypeOK
<1>1. Init => TypeOK
  BY LotSourceAssumption, MaxCrashesAssumption
     DEF Init, TypeOK, Stages, Exceptions, AllDefects, Stores
<1>2. TypeOK /\ [Next]_vars => TypeOK'
  <2> SUFFICES ASSUME TypeOK, [Next]_vars PROVE TypeOK'
    OBVIOUS
  <2>control. /\ pc \in [Requests -> Stages]
              /\ raised \in [Requests -> Exceptions]
              /\ session \in [Requests -> {"clean", "poisoned"}]
    BY DEF TypeOK
  <2>stores. StoresTyped
    BY DEF TypeOK, StoresTyped
  <2>1. ASSUME NEW r \in Requests, NEW rt \in Routes, NEW s \in Sources,
               NEW d \in Defects, Submit(r, rt, s, d)
        PROVE  TypeOK'
    BY <2>1, RoutesAssumption, DefectsAssumption
       DEF Submit, TypeOK, Goto, Stages, stores
  <2>2. ASSUME NEW r \in Requests, ParseBody(r) PROVE TypeOK'
    <3>1. pc' \in [Requests -> Stages]
      BY <2>2, <2>control, StageNames DEF ParseBody, Goto
    <3>2. raised' \in [Requests -> Exceptions]
      <4>1. \/ UNCHANGED raised
            \/ raised' = [raised EXCEPT ![r] = "validation"]
            \/ raised' = [raised EXCEPT ![r] = "other"]
        BY <2>2 DEF ParseBody
      <4> QED  BY <4>1, <2>control, StageNames
    <3> QED  BY <2>2, <3>1, <3>2 DEF ParseBody, TypeOK, stores, input
  <2>3. ASSUME NEW r \in Requests, GetSource(r) PROVE TypeOK'
    <3>1. /\ pc' \in {[pc EXCEPT ![r] = "audit"], [pc EXCEPT ![r] = "validate"]}
          /\ raised' \in {raised, [raised EXCEPT ![r] = "sourceNotFound"],
                          [raised EXCEPT ![r] = "configuration"]}
      BY <2>3 DEF GetSource, Raise, Goto
    <3>2. pc' \in [Requests -> Stages] /\ raised' \in [Requests -> Exceptions]
      BY <3>1, <2>control, StageNames
    <3> QED  BY <2>3, <3>2 DEF GetSource, TypeOK, stores, input
  <2>4. ASSUME NEW r \in Requests, Validate(r) PROVE TypeOK'
    <3>1. /\ pc' \in {[pc EXCEPT ![r] = "audit"], [pc EXCEPT ![r] = "persist"]}
          /\ raised' \in {raised, [raised EXCEPT ![r] = "other"],
                          [raised EXCEPT ![r] = "validation"]}
      BY <2>4 DEF Validate, Raise, Goto
    <3>2. pc' \in [Requests -> Stages] /\ raised' \in [Requests -> Exceptions]
      BY <3>1, <2>control, StageNames
    <3> QED  BY <2>4, <3>2 DEF Validate, TypeOK, stores, input
  <2>5. ASSUME NEW r \in Requests, Persist(r) PROVE TypeOK'
    <3>1. pc' \in [Requests -> Stages] /\ raised' \in [Requests -> Exceptions]
      <4>1. /\ pc' \in {[pc EXCEPT ![r] = "audit"], [pc EXCEPT ![r] = "publish"]}
            /\ raised' \in {raised, [raised EXCEPT ![r] = "other"],
                            [raised EXCEPT ![r] = "storage"]}
        BY <2>5 DEF Persist, Raise, Goto
      <4> QED  BY <4>1, <2>control, StageNames
    <3>2. StoresTyped'
      <4>1. CASE InFlight(r)
        BY <4>1, InFlightTyped
      <4>2. CASE ~InFlight(r)
        <5>1. landed' \in {landed, landed \union {r}} /\ UNCHANGED <<stream, late, curated, audit>>
          BY <2>5, <4>2 DEF Persist, stores
        <5> QED  BY <5>1, <2>stores DEF StoresTyped
      <4> QED  BY <4>1, <4>2
    <3> QED  BY <2>5, <3>1, <3>2 DEF Persist, TypeOK, input, StoresTyped
  <2>6. ASSUME NEW r \in Requests, Publish(r) PROVE TypeOK'
    <3>1. pc' \in [Requests -> Stages] /\ raised' \in [Requests -> Exceptions]
      <4>1. pc' \in {[pc EXCEPT ![r] = "audit"], [pc EXCEPT ![r] = "curate"]}
        BY <2>6 DEF Publish, Raise, Goto
      <4>2. raised' \in {raised, [raised EXCEPT ![r] = "configuration"],
                         [raised EXCEPT ![r] = "kinesis"]}
        BY <2>6 DEF Publish, Raise
      <4> QED  BY <4>1, <4>2, <2>control, StageNames
    <3>2. stream' \in Seq(Requests) /\ late' \in [Stores -> SUBSET Requests]
      <4>1. /\ stream' \in {stream, Append(stream, r)}
            /\ late' = late \/ Delay("kinesis", r)
        BY <2>6 DEF Publish
      <4>2. Append(stream, r) \in Seq(Requests)
        BY <2>stores, AppendFacts DEF StoresTyped
      <4>3. late' \in [Stores -> SUBSET Requests]
        BY <4>1, <2>stores, DelayFacts DEF StoresTyped, Stores
      <4> QED  BY <4>1, <4>2, <4>3, <2>stores DEF StoresTyped
    <3> QED  BY <2>6, <3>1, <3>2 DEF Publish, TypeOK, input
  <2>7. ASSUME NEW store \in Stores, NEW r \in Requests, LateWrite(store, r) PROVE TypeOK'
    <3>1. stream' \in Seq(Requests) /\ landed' \subseteq Requests
      <4>1. /\ stream' \in {stream, Append(stream, r)}
            /\ landed' \in {landed, landed \union {r}}
        BY <2>7 DEF LateWrite
      <4> QED  BY <4>1, <2>stores, AppendFacts DEF StoresTyped
    <3>2. late' \in [Stores -> SUBSET Requests]
      BY <2>7, <2>stores DEF LateWrite, StoresTyped
    <3> QED  BY <2>7, <3>1, <3>2 DEF LateWrite, TypeOK, input
  <2>8. ASSUME NEW r \in Requests, Curate(r) PROVE TypeOK'
    <3>1. pc' \in [Requests -> Stages] /\ raised' \in [Requests -> Exceptions]
      <4>1. pc' = [pc EXCEPT ![r] = "audit"]
        BY <2>8 DEF Curate, Raise, Goto
      <4>2. raised' \in {raised, [raised EXCEPT ![r] = "other"],
                         [raised EXCEPT ![r] = "database"]}
        BY <2>8 DEF Curate, Raise
      <4> QED  BY <4>1, <4>2, <2>control, StageNames
    <3>2. session' \in [Requests -> {"clean", "poisoned"}]
      <4>1. session' \in {session, [session EXCEPT ![r] = "poisoned"]}
        BY <2>8 DEF Curate
      <4> QED  BY <4>1, <2>control
    <3>3. StoresTyped'
      <4>1. CASE InFlight(r)
        BY <4>1, InFlightTyped
      <4>2. CASE ~InFlight(r)
        <5>1. /\ curated' \in {curated, Append(curated, r)}
              /\ UNCHANGED <<landed, stream, late, audit>>
          BY <2>8, <4>2 DEF Curate, stores
        <5>2. Append(curated, r) \in Seq(Requests)
          BY <2>stores, AppendFacts DEF StoresTyped
        <5> QED  BY <5>1, <5>2, <2>stores DEF StoresTyped
      <4> QED  BY <4>1, <4>2
    <3> QED  BY <2>8, <3>1, <3>2, <3>3 DEF Curate, TypeOK, input, StoresTyped
  <2>9. ASSUME NEW r \in Requests, WriteAuditLog(r) PROVE TypeOK'
    <3>2. AfterAudit(r) \in Stages
      BY DEF AfterAudit, Stages, InHandler
    <3>3. StoresTyped'
      <4>1. CASE InFlight(r)
        BY <4>1, InFlightTyped
      <4>2. CASE ~InFlight(r)
        <5>1. /\ audit' \in {audit, Append(audit, AuditRow(r))}
              /\ UNCHANGED <<landed, stream, late, curated>>
          BY <2>9, <4>2 DEF WriteAuditLog, stores
        <5>2. Append(audit, AuditRow(r)) \in Seq(AuditRows)
          BY <2>stores, AuditRowTyped, AppendFacts DEF StoresTyped
        <5> QED  BY <5>1, <5>2, <2>stores DEF StoresTyped
      <4> QED  BY <4>1, <4>2
    <3>4. pc' \in [Requests -> Stages]
      <4>1. pc' \in {[pc EXCEPT ![r] = "respond"], [pc EXCEPT ![r] = AfterAudit(r)]}
        BY <2>9 DEF WriteAuditLog, Goto
      <4> QED  BY <4>1, <3>2, <2>control, StageNames
    <3>5. /\ raised' \in [Requests -> Exceptions]
          /\ session' \in [Requests -> {"clean", "poisoned"}]
      <4>1. /\ raised' \in {raised, [raised EXCEPT ![r] = "other"]}
            /\ session' \in {session, [session EXCEPT ![r] = "clean"]}
        BY <2>9 DEF WriteAuditLog
      <4> QED  BY <4>1, <2>control, StageNames
    <3> QED  BY <2>9, <3>3, <3>4, <3>5 DEF WriteAuditLog, TypeOK, input, StoresTyped
  <2>10. ASSUME NEW r \in Requests, ShowStored(r) PROVE TypeOK'
    <3>1. LatestRow(source[r]) \subseteq Requests
      BY AppendFacts DEF LatestRow, RowsOf, Rows, TypeOK
    <3>2. pc' \in [Requests -> Stages] /\ raised' \in [Requests -> Exceptions]
      <4>1. /\ pc' = [pc EXCEPT ![r] = "respond"]
            /\ raised' \in {raised, [raised EXCEPT ![r] = "other"]}
        BY <2>10 DEF ShowStored, Goto
      <4> QED  BY <4>1, <2>control, StageNames
    <3>3. shown' \in [Requests -> Requests \union {Nobody}]
      BY <2>10, <3>1 DEF ShowStored, TypeOK
    <3> QED  BY <2>10, <3>2, <3>3 DEF ShowStored, TypeOK, stores, input
  <2>11. ASSUME NEW r \in Requests, Respond(r) PROVE TypeOK'
    <3>1. StatusCode(route[r], raised[r]) \in {0, 200, 202, 400, 404, 500, 502}
      BY DEF StatusCode, TypeOK, Exceptions
    <3> QED
      BY <2>11, <3>1 DEF Respond, TypeOK, Goto, Stages, stores, input
  <2>12. CASE Crash
    <3>1. pc' \in [Requests -> Stages]
      BY <2>12, StageNames DEF Crash, TypeOK
    <3>2. crashes' \in 0..MaxCrashes
      BY <2>12, MaxCrashesAssumption DEF Crash, TypeOK
    <3>3. StoresTyped'
      <4>1. CASE UNCHANGED stores
        BY <4>1, <2>stores DEF StoresTyped, stores
      <4>2. CASE loop # Nobody /\ InFlight(loop)
        BY <4>2, InFlightTyped DEF TypeOK
      <4> QED  BY <2>12, <4>1, <4>2 DEF Crash
    <3> QED  BY <2>12, <3>1, <3>2, <3>3 DEF Crash, TypeOK, input, StoresTyped
  <2>13. CASE UNCHANGED vars
    BY <2>13 DEF vars, TypeOK, stores, input
  <2> QED
    BY <2>1, <2>2, <2>3, <2>4, <2>5, <2>6, <2>7, <2>8, <2>9, <2>10, <2>11,
       <2>12, <2>13 DEF Next, Serve, Quiescent
<1> QED  BY <1>1, <1>2, PTL DEF Spec
-----------------------------------------------------------------------------
(* Where the control of a request may be: the loop runs the one request    *)
(* inside its handler, an exception unwinds only through the finally       *)
(* clause and the handler's end, and an answer is the one its exception    *)
(* calls for.                                                              *)
LoopRunsHandler == \A r \in Requests : pc[r] \in InHandler <=> loop = r
Unraised == {"idle", "received", "lookup", "validate", "persist", "publish",
             "curate", "show"}
NothingRaised == \A r \in Requests : pc[r] \in Unraised => raised[r] = "none"
AnswerFitsOutcome ==
  \A r \in Requests :
    /\ pc[r] # "done" => answer[r] = 0
    /\ pc[r] = "done" => answer[r] = StatusCode(route[r], raised[r])
Control == LoopRunsHandler /\ NothingRaised /\ AnswerFitsOutcome

(* The event loop holds the one request that is inside its handler,        *)
(* nothing is raised while a write is ahead, and an answer is the status   *)
(* of the outcome.                                                         *)
THEOREM ControlInvariant == Spec => []Control
<1>1. Init => Control
  BY NobodyAssumption DEF Init, Control, LoopRunsHandler, NothingRaised,
     AnswerFitsOutcome, InHandler
<1>2. TypeOK /\ Control /\ [Next]_vars => Control'
  <2> SUFFICES ASSUME TypeOK, Control, [Next]_vars PROVE Control'
    OBVIOUS
  <2>types. /\ pc \in [Requests -> Stages] /\ raised \in [Requests -> Exceptions]
            /\ route \in [Requests -> {"api", "ui"}]
            /\ answer \in [Requests -> {0, 200, 202, 400, 404, 500, 502}]
    BY DEF TypeOK
  <2>0. ASSUME NEW r \in Requests, NEW rt \in Routes, NEW s \in Sources,
               NEW d \in Defects, Submit(r, rt, s, d)
        PROVE  Control'
    <3>1. LoopRunsHandler'
      BY <2>0 DEF Submit, Goto, Control, LoopRunsHandler, InHandler
    <3>2. NothingRaised'
      BY <2>0 DEF Submit, Goto, Control, NothingRaised, Unraised
    <3>3. AnswerFitsOutcome'
      BY <2>0 DEF Submit, Goto, Control, AnswerFitsOutcome
    <3> QED  BY <3>1, <3>2, <3>3 DEF Control
  <2>1. ASSUME NEW r \in Requests, ParseBody(r) PROVE Control'
    <3>1. LoopRunsHandler'
      BY <2>1, <2>types, NobodyAssumption
         DEF ParseBody, LoopIsFree, Goto, Control, LoopRunsHandler, InHandler
    <3>2. NothingRaised'
      BY <2>1, <2>types DEF ParseBody, Goto, Control, NothingRaised, Unraised
    <3>3. AnswerFitsOutcome'
      BY <2>1, <2>types DEF ParseBody, Goto, Control, AnswerFitsOutcome, input
    <3> QED  BY <3>1, <3>2, <3>3 DEF Control
  <2>2. ASSUME NEW r \in Requests, GetSource(r) PROVE Control'
    <3>1. LoopRunsHandler'
      BY <2>2, <2>types DEF GetSource, Goto, Raise, Control, LoopRunsHandler, InHandler
    <3>2. NothingRaised'
      BY <2>2, <2>types DEF GetSource, Goto, Raise, Control, NothingRaised, Unraised
    <3>3. AnswerFitsOutcome'
      BY <2>2, <2>types DEF GetSource, Goto, Raise, Control, AnswerFitsOutcome, input
    <3> QED  BY <3>1, <3>2, <3>3 DEF Control
  <2>3. ASSUME NEW r \in Requests, Validate(r) PROVE Control'
    <3>1. LoopRunsHandler'
      BY <2>3, <2>types DEF Validate, Goto, Raise, Control, LoopRunsHandler, InHandler
    <3>2. NothingRaised'
      BY <2>3, <2>types DEF Validate, Goto, Raise, Control, NothingRaised, Unraised
    <3>3. AnswerFitsOutcome'
      BY <2>3, <2>types DEF Validate, Goto, Raise, Control, AnswerFitsOutcome, input
    <3> QED  BY <3>1, <3>2, <3>3 DEF Control
  <2>4. ASSUME NEW r \in Requests, Persist(r) PROVE Control'
    <3>1. LoopRunsHandler'
      BY <2>4, <2>types DEF Persist, Goto, Raise, Control, LoopRunsHandler, InHandler
    <3>2. NothingRaised'
      BY <2>4, <2>types DEF Persist, Goto, Raise, Control, NothingRaised, Unraised
    <3>3. AnswerFitsOutcome'
      BY <2>4, <2>types DEF Persist, Goto, Raise, Control, AnswerFitsOutcome, input
    <3> QED  BY <3>1, <3>2, <3>3 DEF Control
  <2>5. ASSUME NEW r \in Requests, Publish(r) PROVE Control'
    <3>1. LoopRunsHandler'
      BY <2>5, <2>types DEF Publish, Goto, Raise, Control, LoopRunsHandler, InHandler
    <3>2. NothingRaised'
      BY <2>5, <2>types DEF Publish, Goto, Raise, Control, NothingRaised, Unraised
    <3>3. AnswerFitsOutcome'
      BY <2>5, <2>types DEF Publish, Goto, Raise, Control, AnswerFitsOutcome, input
    <3> QED  BY <3>1, <3>2, <3>3 DEF Control
  <2>6. ASSUME NEW store \in Stores, NEW r \in Requests, LateWrite(store, r) PROVE Control'
    <3>1. LoopRunsHandler'
      BY <2>6 DEF LateWrite, Control, LoopRunsHandler
    <3>2. NothingRaised'
      BY <2>6 DEF LateWrite, Control, NothingRaised
    <3>3. AnswerFitsOutcome'
      BY <2>6 DEF LateWrite, Control, AnswerFitsOutcome, input
    <3> QED  BY <3>1, <3>2, <3>3 DEF Control
  <2>7. ASSUME NEW r \in Requests, Curate(r) PROVE Control'
    <3>1. LoopRunsHandler'
      BY <2>7, <2>types DEF Curate, Goto, Raise, Control, LoopRunsHandler, InHandler
    <3>2. NothingRaised'
      BY <2>7, <2>types DEF Curate, Goto, Raise, Control, NothingRaised, Unraised
    <3>3. AnswerFitsOutcome'
      BY <2>7, <2>types DEF Curate, Goto, Raise, Control, AnswerFitsOutcome, input
    <3> QED  BY <3>1, <3>2, <3>3 DEF Control
  <2>8. ASSUME NEW r \in Requests, WriteAuditLog(r) PROVE Control'
    <3>1. LoopRunsHandler'
      BY <2>8, <2>types
         DEF WriteAuditLog, Goto, Control, LoopRunsHandler, InHandler, AfterAudit
    <3>2. NothingRaised'
      BY <2>8, <2>types
         DEF WriteAuditLog, Goto, Control, NothingRaised, Unraised, AfterAudit
    <3>3. AnswerFitsOutcome'
      BY <2>8, <2>types
         DEF WriteAuditLog, Goto, Control, AnswerFitsOutcome, input, AfterAudit
    <3> QED  BY <3>1, <3>2, <3>3 DEF Control
  <2>9. ASSUME NEW r \in Requests, ShowStored(r) PROVE Control'
    <3>1. LoopRunsHandler'
      BY <2>9 DEF ShowStored, Goto, Control, LoopRunsHandler, InHandler
    <3>2. NothingRaised'
      BY <2>9, <2>types DEF ShowStored, Goto, Control, NothingRaised, Unraised
    <3>3. AnswerFitsOutcome'
      BY <2>9, <2>types DEF ShowStored, Goto, Control, AnswerFitsOutcome, input
    <3> QED  BY <3>1, <3>2, <3>3 DEF Control
  <2>10. ASSUME NEW r \in Requests, Respond(r) PROVE Control'
    <3>1. LoopRunsHandler'
      BY <2>10, <2>types, NobodyAssumption
         DEF Respond, Goto, Control, LoopRunsHandler, InHandler
    <3>2. NothingRaised'
      BY <2>10 DEF Respond, Goto, Control, NothingRaised, Unraised
    <3>3. AnswerFitsOutcome'
      BY <2>10, <2>types DEF Respond, Goto, Control, AnswerFitsOutcome, input
    <3> QED  BY <3>1, <3>2, <3>3 DEF Control
  <2>11. CASE Crash
    <3>1. LoopRunsHandler'
      BY <2>11, NobodyAssumption DEF Crash, LoopRunsHandler, InHandler
    <3>2. NothingRaised'
      BY <2>11 DEF Crash, Control, NothingRaised, Unraised
    <3>3. AnswerFitsOutcome'
      BY <2>11 DEF Crash, Control, AnswerFitsOutcome, input
    <3> QED  BY <3>1, <3>2, <3>3 DEF Control
  <2>12. CASE UNCHANGED vars
    BY <2>12 DEF vars, input, Control, LoopRunsHandler, NothingRaised, AnswerFitsOutcome
  <2> QED
    BY <2>0, <2>1, <2>2, <2>3, <2>4, <2>5, <2>6, <2>7, <2>8, <2>9, <2>10,
       <2>11, <2>12 DEF Next, Serve, Quiescent
<1> QED  BY <1>1, <1>2, TypeCorrect, PTL DEF Spec
-----------------------------------------------------------------------------
(* What a request has left in the data stores, by where it is.  AtCurate   *)
(* and NotYetPublished carry WriteOrder from one write to the next; Ended  *)
(* is what the answer will be read from.                                   *)
Early == {"idle", "received", "lookup", "validate", "persist"}
Ending == {"audit", "show", "respond", "done"}
NotYetLanded ==
  \A r \in Requests : pc[r] \in Early => r \notin landed /\ r \notin late["landing"]
NotYetPublished ==
  \A r \in Requests :
    pc[r] = "publish" => /\ r \in landed
                         /\ r \notin Rng(stream) /\ r \notin late["kinesis"]
AtCurate ==
  \A r \in Requests : pc[r] = "curate" => r \in Rng(stream) /\ r \notin Rng(curated)
Ended ==
  \A r \in Requests : pc[r] \in Ending =>
    /\ raised[r] = "none" => r \in Stored
    /\ raised[r] \in {"validation", "sourceNotFound"} =>
         r \notin landed /\ r \notin late["landing"]
LateRows == late["curated"] \subseteq Rng(curated)
Traces ==
  WriteOrder /\ NotYetLanded /\ NotYetPublished /\ AtCurate /\ Ended /\ LateRows

(* A write under way touches no store, and of what is on its way only the  *)
(* write of the request that the loop is running.                          *)
LEMMA InFlightTraces ==
  ASSUME TypeOK, Traces, NEW r \in Requests, InFlight(r)
  PROVE  /\ UNCHANGED <<landed, Rng(stream), Stored>>
         /\ WriteOrder' /\ LateRows'
         /\ pc[r] # "persist" => late'["landing"] = late["landing"]
         /\ \A q \in Requests \ {r} :
              /\ q \in late'["landing"] => q \in late["landing"]
              /\ q \in late'["kinesis"] => q \in late["kinesis"]
              /\ q \in Rng(curated') => q \in Rng(curated)
<1>1. /\ late \in [Stores -> SUBSET Requests]
      /\ {"landing", "kinesis", "curated", "audit"} = Stores
      /\ WriteOrder /\ LateRows
  BY DEF TypeOK, Stores, Traces
<1>2. CASE pc[r] = "persist"
  <2>1. UNCHANGED <<landed, stream, curated>> /\ Delay("landing", r)
    BY <1>2 DEF InFlight
  <2>2. /\ late'["landing"] = late["landing"] \union {r}
        /\ \A other \in Stores \ {"landing"} : late'[other] = late[other]
    BY <1>1, <2>1, DelayFacts
  <2> QED  BY <1>1, <1>2, <2>1, <2>2 DEF WriteOrder, LateRows, Stored, Rng
<1>3. CASE pc[r] = "publish"
  <2>1. UNCHANGED <<landed, stream, curated>> /\ Delay("kinesis", r)
    BY <1>3 DEF InFlight
  <2>2. /\ late'["kinesis"] = late["kinesis"] \union {r}
        /\ \A other \in Stores \ {"kinesis"} : late'[other] = late[other]
    BY <1>1, <2>1, DelayFacts
  <2>3. r \in landed
    BY <1>3 DEF Traces, NotYetPublished
  <2> QED  BY <1>1, <1>3, <2>1, <2>2, <2>3 DEF WriteOrder, LateRows, Stored, Rng
<1>4. CASE pc[r] = "curate"
  <2>1. /\ UNCHANGED <<landed, stream>> /\ Delay("curated", r)
        /\ curated' = Append(curated, r)
    BY <1>4 DEF InFlight
  <2>2. /\ late'["curated"] = late["curated"] \union {r}
        /\ \A other \in Stores \ {"curated"} : late'[other] = late[other]
    BY <1>1, <2>1, DelayFacts
  <2>3. Rng(curated') = Rng(curated) \union {r}
    BY <2>1, RngAppend DEF TypeOK
  <2>4. r \in Rng(stream) /\ r \notin Rng(curated) /\ UNCHANGED Rng(stream)
    BY <1>4, <2>1 DEF Traces, AtCurate
  <2> QED  BY <1>1, <1>4, <2>1, <2>2, <2>3, <2>4 DEF WriteOrder, LateRows, Stored
<1>5. CASE pc[r] = "audit"
  <2>1. UNCHANGED <<landed, stream, curated>> /\ Delay("audit", r)
    BY <1>5 DEF InFlight
  <2>2. \A other \in Stores \ {"audit"} : late'[other] = late[other]
    BY <1>1, <2>1, DelayFacts
  <2> QED  BY <1>1, <1>5, <2>1, <2>2 DEF WriteOrder, LateRows, Stored, Rng
<1> QED  BY <1>2, <1>3, <1>4, <1>5 DEF InFlight

(* A step that moves no request and touches no store keeps Traces.         *)
LEMMA TracesUnchanged ==
  ASSUME Traces, UNCHANGED <<landed, stream, late, curated>>,
         UNCHANGED <<pc, raised>>
  PROVE  Traces'
  BY DEF Traces, WriteOrder, NotYetLanded, NotYetPublished, AtCurate, Ended, Stored, LateRows

(* Where a request is, and what it raised, tells which stores it is in:    *)
(* the strengthening that makes the durability properties inductive.       *)
THEOREM TracesInvariant == Spec => []Traces
<1>1. Init => Traces
  BY DEF Init, Traces, WriteOrder, NotYetLanded, NotYetPublished, AtCurate,
     Ended, Ending, Rng, LateRows, Stores
<1>2. TypeOK /\ Control /\ Traces /\ [Next]_vars => Traces'
  <2> SUFFICES ASSUME TypeOK, Control, Traces, [Next]_vars PROVE Traces'
    OBVIOUS
  <2>types. /\ pc \in [Requests -> Stages] /\ raised \in [Requests -> Exceptions]
            /\ stream \in Seq(Requests) /\ curated \in Seq(Requests)
            /\ late \in [Stores -> SUBSET Requests]
            /\ {"landing", "kinesis", "curated", "audit"} = Stores
    BY DEF TypeOK, Stores
  <2>none. NothingRaised
    BY DEF Control
  <2>0. ASSUME NEW r \in Requests, NEW rt \in Routes, NEW s \in Sources,
               NEW d \in Defects, Submit(r, rt, s, d)
        PROVE  Traces'
    <3>0. UNCHANGED <<landed, late, Rng(stream), Rng(curated), Stored>>
      BY <2>0 DEF Submit, stores, Rng, Stored
    <3>1. WriteOrder' /\ LateRows'
      BY <3>0 DEF Traces, WriteOrder, LateRows
    <3>2. NotYetLanded'
      BY <2>0, <3>0 DEF Submit, Goto, Traces, NotYetLanded, Early
    <3>3. NotYetPublished'
      BY <2>0, <3>0 DEF Submit, Goto, Traces, NotYetPublished
    <3>4. AtCurate'
      BY <2>0, <3>0 DEF Submit, Goto, Traces, AtCurate
    <3>5. Ended'
      BY <2>0, <3>0 DEF Submit, Goto, Traces, Ended, Ending
    <3> QED  BY <3>1, <3>2, <3>3, <3>4, <3>5 DEF Traces
  <2>1. ASSUME NEW r \in Requests, ParseBody(r) PROVE Traces'
    <3>0. UNCHANGED <<landed, late, Rng(stream), Rng(curated), Stored>>
      BY <2>1 DEF ParseBody, stores, Rng, Stored
    <3>1. WriteOrder' /\ LateRows'
      BY <3>0 DEF Traces, WriteOrder, LateRows
    <3>2. NotYetLanded'
      BY <2>1, <3>0, <2>types DEF ParseBody, Goto, Traces, NotYetLanded, Early
    <3>3. NotYetPublished'
      BY <2>1, <3>0, <2>types DEF ParseBody, Goto, Traces, NotYetPublished
    <3>4. AtCurate'
      BY <2>1, <3>0, <2>types DEF ParseBody, Goto, Traces, AtCurate
    <3>5. Ended'
      BY <2>1, <3>0, <2>types
         DEF ParseBody, Goto, Traces, Ended, Ending, NotYetLanded, Early
    <3> QED  BY <3>1, <3>2, <3>3, <3>4, <3>5 DEF Traces
  <2>2. ASSUME NEW r \in Requests, GetSource(r) PROVE Traces'
    <3>0. UNCHANGED <<landed, late, Rng(stream), Rng(curated), Stored>>
      BY <2>2 DEF GetSource, stores, Rng, Stored
    <3>1. WriteOrder' /\ LateRows'
      BY <3>0 DEF Traces, WriteOrder, LateRows
    <3>2. NotYetLanded'
      BY <2>2, <3>0, <2>types DEF GetSource, Goto, Raise, Traces, NotYetLanded, Early
    <3>3. NotYetPublished'
      BY <2>2, <3>0, <2>types DEF GetSource, Goto, Raise, Traces, NotYetPublished
    <3>4. AtCurate'
      BY <2>2, <3>0, <2>types DEF GetSource, Goto, Raise, Traces, AtCurate
    <3>5. Ended'
      BY <2>2, <3>0, <2>types
         DEF GetSource, Goto, Raise, Traces, Ended, Ending, NotYetLanded, Early
    <3> QED  BY <3>1, <3>2, <3>3, <3>4, <3>5 DEF Traces
  <2>3. ASSUME NEW r \in Requests, Validate(r) PROVE Traces'
    <3>0. UNCHANGED <<landed, late, Rng(stream), Rng(curated), Stored>>
      BY <2>3 DEF Validate, stores, Rng, Stored
    <3>1. WriteOrder' /\ LateRows'
      BY <3>0 DEF Traces, WriteOrder, LateRows
    <3>2. NotYetLanded'
      BY <2>3, <3>0, <2>types DEF Validate, Goto, Raise, Traces, NotYetLanded, Early
    <3>3. NotYetPublished'
      BY <2>3, <3>0, <2>types DEF Validate, Goto, Raise, Traces, NotYetPublished
    <3>4. AtCurate'
      BY <2>3, <3>0, <2>types DEF Validate, Goto, Raise, Traces, AtCurate
    <3>5. Ended'
      BY <2>3, <3>0, <2>types
         DEF Validate, Goto, Raise, Traces, Ended, Ending, NotYetLanded, Early
    <3> QED  BY <3>1, <3>2, <3>3, <3>4, <3>5 DEF Traces
  <2>4. ASSUME NEW r \in Requests, Persist(r) PROVE Traces'
    <3>a. /\ pc[r] = "persist" /\ pc'[r] \in {"audit", "publish"}
          /\ pc'[r] = "audit" => raised'[r] \in {"other", "storage"}
          /\ \A q \in Requests \ {r} : pc'[q] = pc[q] /\ raised'[q] = raised[q]
      BY <2>4, <2>types DEF Persist, Goto, Raise
    <3>b. r \notin landed /\ r \notin Rng(stream) /\ r \notin late["kinesis"]
      BY <3>a DEF Traces, NotYetLanded, Early, WriteOrder
    <3>1. CASE InFlight(r)
      <4>1. pc'[r] = "audit"
        <5>1. r \notin late["landing"] /\ Delay("landing", r)
          BY <3>a, <3>1 DEF Traces, NotYetLanded, Early, InFlight
        <5>2. late' # late
          BY <5>1, <2>types, DelayFacts
        <5> QED  BY <2>4, <2>types, <5>2 DEF Persist, Goto, Raise
      <4>2. /\ UNCHANGED <<landed, Rng(stream), Stored>>
            /\ WriteOrder' /\ LateRows'
            /\ \A q \in Requests \ {r} :
                 /\ q \in late'["landing"] => q \in late["landing"]
                 /\ q \in late'["kinesis"] => q \in late["kinesis"]
                 /\ q \in Rng(curated') => q \in Rng(curated)
        BY <3>1, InFlightTraces
      <4>3. NotYetLanded'
        BY <3>a, <4>2 DEF Traces, NotYetLanded, Early
      <4>4. NotYetPublished'
        BY <3>a, <4>1, <4>2 DEF Traces, NotYetPublished
      <4>5. AtCurate'
        BY <3>a, <4>2 DEF Traces, AtCurate
      <4>6. Ended'
        BY <3>a, <4>1, <4>2 DEF Traces, Ended, Ending
      <4> QED  BY <4>2, <4>3, <4>4, <4>5, <4>6 DEF Traces
    <3>2. CASE ~InFlight(r)
      <4>1. /\ landed' \in {landed, landed \union {r}}
            /\ UNCHANGED <<late, stream, curated>>
            /\ pc'[r] = "publish" => landed' = landed \union {r}
        BY <2>4, <2>types, <3>2 DEF Persist, stores, Goto, Raise
      <4>2. UNCHANGED <<late, Rng(stream), Rng(curated), Stored>>
        BY <4>1 DEF Rng, Stored
      <4>3. WriteOrder' /\ LateRows'
        BY <4>1, <4>2 DEF Traces, WriteOrder, LateRows
      <4>4. NotYetLanded'
        BY <3>a, <4>1, <4>2 DEF Traces, NotYetLanded, Early
      <4>5. NotYetPublished'
        BY <3>a, <3>b, <4>1, <4>2 DEF Traces, NotYetPublished
      <4>6. AtCurate'
        BY <3>a, <4>2 DEF Traces, AtCurate
      <4>7. Ended'
        BY <3>a, <4>1, <4>2 DEF Traces, Ended, Ending
      <4> QED  BY <4>3, <4>4, <4>5, <4>6, <4>7 DEF Traces
    <3> QED  BY <3>1, <3>2
  <2>5. ASSUME NEW r \in Requests, Publish(r) PROVE Traces'
    <3>a. Rng(Append(stream, r)) = Rng(stream) \union {r}
      BY <2>types, RngAppend
    <3>b. /\ UNCHANGED <<landed, curated>>
          /\ stream' \in {stream, Append(stream, r)}
          /\ pc[r] = "publish" /\ pc'[r] \in {"audit", "curate"}
          /\ pc'[r] = "audit" => raised'[r] \in {"configuration", "kinesis"}
          /\ pc'[r] = "curate" => stream' = Append(stream, r)
          /\ \A q \in Requests \ {r} : pc'[q] = pc[q] /\ raised'[q] = raised[q]
      BY <2>5, <2>types DEF Publish, Goto, Raise
    <3>c. /\ late'["kinesis"] \in {late["kinesis"], late["kinesis"] \union {r}}
          /\ late'["landing"] = late["landing"] /\ late'["curated"] = late["curated"]
      <4>1. late' = late \/ Delay("kinesis", r)
        BY <2>5 DEF Publish
      <4> QED  BY <4>1, <2>types, DelayFacts
    <3>0. /\ UNCHANGED <<landed, Rng(curated), Stored>>
          /\ Rng(stream)' \in {Rng(stream), Rng(stream) \union {r}}
          /\ pc'[r] = "curate" => Rng(stream)' = Rng(stream) \union {r}
          /\ r \in landed /\ r \notin Rng(curated)
      BY <3>a, <3>b, <3>c DEF Traces, NotYetPublished, WriteOrder, Stored
    <3>1. WriteOrder' /\ LateRows'
      BY <3>0, <3>c DEF Traces, WriteOrder, LateRows
    <3>2. NotYetLanded'
      BY <3>0, <3>b, <3>c DEF Traces, NotYetLanded, Early
    <3>3. NotYetPublished'
      BY <3>0, <3>b, <3>c DEF Traces, NotYetPublished
    <3>4. AtCurate'
      BY <3>0, <3>b DEF Traces, AtCurate
    <3>5. Ended'
      BY <3>0, <3>b, <3>c DEF Traces, Ended, Ending
    <3> QED  BY <3>1, <3>2, <3>3, <3>4, <3>5 DEF Traces
  <2>6. ASSUME NEW store \in Stores, NEW r \in Requests, LateWrite(store, r) PROVE Traces'
    <3>a. /\ UNCHANGED <<pc, raised, curated>>
          /\ landed' = (IF store = "landing" THEN landed \union {r} ELSE landed)
          /\ stream' = (IF store = "kinesis" THEN Append(stream, r) ELSE stream)
          /\ r \in late[store]
          /\ late'[store] = late[store] \ {r}
          /\ \A other \in Stores \ {store} : late'[other] = late[other]
      BY <2>6, <2>types DEF LateWrite
    <3>b. Rng(Append(stream, r)) = Rng(stream) \union {r}
      BY <2>types, RngAppend
    <3>c. Rng(stream') = (IF store = "kinesis" THEN Rng(stream) \union {r} ELSE Rng(stream))
      BY <3>a, <3>b
    <3>d. \A other \in Stores : late'[other] \subseteq late[other]
      BY <3>a
    <3>e. Rng(curated') = Rng(curated) /\ Stored \subseteq Stored'
      BY <2>types, <3>a, <3>d DEF Stored
    <3>1. WriteOrder' /\ LateRows'
      <4>1. WriteOrder /\ LateRows
        BY DEF Traces
      <4>2. late'["kinesis"] \subseteq late["kinesis"] /\ late'["curated"] \subseteq late["curated"]
        BY <2>types, <3>d
      <4>3. Rng(stream') \subseteq Rng(stream) \union late["kinesis"]
        BY <3>a, <3>c
      <4>4. landed \subseteq landed' /\ Rng(stream) \subseteq Rng(stream')
        BY <3>a, <3>c
      <4> QED  BY <3>e, <4>1, <4>2, <4>3, <4>4 DEF WriteOrder, LateRows
    <3>f. landed' \subseteq landed \union late["landing"]
      BY <3>a
    <3>2. NotYetLanded'
      BY <2>types, <3>a, <3>d, <3>f DEF Traces, NotYetLanded
    <3>3. NotYetPublished'
      BY <2>types, <3>a, <3>c, <3>d DEF Traces, NotYetPublished
    <3>4. AtCurate'
      BY <3>a, <3>c, <3>e DEF Traces, AtCurate
    <3>5. Ended'
      BY <2>types, <3>a, <3>d, <3>e, <3>f DEF Traces, Ended
    <3> QED  BY <3>1, <3>2, <3>3, <3>4, <3>5 DEF Traces
  <2>7. ASSUME NEW r \in Requests, Curate(r) PROVE Traces'
    <3>a. /\ pc[r] = "curate" /\ pc'[r] = "audit"
          /\ raised'[r] \in {"none", "other", "database"} /\ raised[r] = "none"
          /\ \A q \in Requests \ {r} : pc'[q] = pc[q] /\ raised'[q] = raised[q]
      BY <2>7, <2>types, <2>none DEF Curate, Goto, Raise, NothingRaised, Unraised
    <3>b. r \in Rng(stream) /\ r \notin Rng(curated) /\ r \notin late["curated"]
      BY <3>a DEF Traces, AtCurate, LateRows
    <3>1. CASE InFlight(r)
      <4>1. raised'[r] # "none"
        <5>1. late' # late
          <6>1. Delay("curated", r)
            BY <3>a, <3>1 DEF InFlight
          <6> QED  BY <6>1, <3>b, <2>types, DelayFacts
        <5> QED  BY <2>7, <2>types, <5>1 DEF Curate, Raise, stores
      <4>2. /\ UNCHANGED <<landed, Rng(stream), Stored>>
            /\ WriteOrder' /\ LateRows'
            /\ late'["landing"] = late["landing"]
            /\ \A q \in Requests \ {r} :
                 /\ q \in late'["kinesis"] => q \in late["kinesis"]
                 /\ q \in Rng(curated') => q \in Rng(curated)
        BY <3>1, <3>a, InFlightTraces
      <4>3. NotYetLanded'
        BY <3>a, <4>2 DEF Traces, NotYetLanded, Early
      <4>4. NotYetPublished'
        BY <3>a, <4>2 DEF Traces, NotYetPublished
      <4>5. AtCurate'
        BY <3>a, <4>2 DEF Traces, AtCurate
      <4>6. Ended'
        BY <3>a, <4>1, <4>2 DEF Traces, Ended, Ending
      <4> QED  BY <4>2, <4>3, <4>4, <4>5, <4>6 DEF Traces
    <3>2. CASE ~InFlight(r)
      <4>a. Rng(Append(curated, r)) = Rng(curated) \union {r}
        BY <2>types, RngAppend
      <4>b. /\ UNCHANGED <<landed, late, stream>>
            /\ curated' \in {curated, Append(curated, r)}
            /\ raised'[r] = "none" => curated' = Append(curated, r)
        BY <2>7, <2>types, <3>2 DEF Curate, Raise, stores
      <4>0. /\ UNCHANGED <<landed, late, Rng(stream)>>
            /\ Rng(curated)' \in {Rng(curated), Rng(curated) \union {r}}
            /\ Stored \subseteq Stored'
            /\ raised'[r] = "none" => r \in Stored'
        BY <3>b, <4>a, <4>b DEF Stored
      <4>1. WriteOrder' /\ LateRows'
        BY <3>b, <4>0 DEF Traces, WriteOrder, LateRows
      <4>2. NotYetLanded'
        BY <3>a, <4>0 DEF Traces, NotYetLanded, Early
      <4>3. NotYetPublished'
        BY <3>a, <4>0 DEF Traces, NotYetPublished
      <4>4. AtCurate'
        BY <3>a, <4>0 DEF Traces, AtCurate
      <4>5. Ended'
        BY <3>a, <4>0 DEF Traces, Ended, Ending
      <4> QED  BY <4>1, <4>2, <4>3, <4>4, <4>5 DEF Traces
    <3> QED  BY <3>1, <3>2
  <2>8. ASSUME NEW r \in Requests, WriteAuditLog(r) PROVE Traces'
    <3>a. /\ pc[r] = "audit" /\ pc'[r] \in {"show", "respond"}
          /\ raised'[r] \in {raised[r], "other"}
          /\ \A q \in Requests \ {r} : pc'[q] = pc[q] /\ raised'[q] = raised[q]
      BY <2>8, <2>types DEF WriteAuditLog, Goto, AfterAudit
    <3>0. /\ UNCHANGED <<landed, Rng(stream), Stored>> /\ late'["landing"] = late["landing"]
          /\ WriteOrder' /\ LateRows'
          /\ \A q \in Requests \ {r} :
               /\ q \in late'["kinesis"] => q \in late["kinesis"]
               /\ q \in Rng(curated') => q \in Rng(curated)
      <4>1. CASE InFlight(r)
        BY <4>1, <3>a, InFlightTraces
      <4>2. CASE ~InFlight(r)
        <5>1. UNCHANGED <<landed, late, stream, curated>>
          BY <2>8, <4>2 DEF WriteAuditLog, stores
        <5> QED  BY <5>1 DEF Traces, WriteOrder, LateRows, Stored, Rng
      <4> QED  BY <4>1, <4>2
    <3>2. NotYetLanded'
      BY <3>a, <3>0 DEF Traces, NotYetLanded, Early
    <3>3. NotYetPublished'
      BY <3>a, <3>0 DEF Traces, NotYetPublished
    <3>4. AtCurate'
      BY <3>a, <3>0 DEF Traces, AtCurate
    <3>5. Ended'
      BY <3>a, <3>0 DEF Traces, Ended, Ending
    <3> QED  BY <3>0, <3>2, <3>3, <3>4, <3>5 DEF Traces
  <2>9. ASSUME NEW r \in Requests, ShowStored(r) PROVE Traces'
    <3>0. UNCHANGED <<landed, late, Rng(stream), Rng(curated), Stored>>
      BY <2>9 DEF ShowStored, stores, Rng, Stored
    <3>1. WriteOrder' /\ LateRows'
      BY <3>0 DEF Traces, WriteOrder, LateRows
    <3>2. NotYetLanded'
      BY <2>9, <3>0 DEF ShowStored, Goto, Traces, NotYetLanded, Early
    <3>3. NotYetPublished'
      BY <2>9, <3>0 DEF ShowStored, Goto, Traces, NotYetPublished
    <3>4. AtCurate'
      BY <2>9, <3>0 DEF ShowStored, Goto, Traces, AtCurate
    <3>5. Ended'
      BY <2>9, <3>0, <2>types DEF ShowStored, Goto, Traces, Ended, Ending
    <3> QED  BY <3>1, <3>2, <3>3, <3>4, <3>5 DEF Traces
  <2>10. ASSUME NEW r \in Requests, Respond(r) PROVE Traces'
    <3>0. UNCHANGED <<landed, late, Rng(stream), Rng(curated), Stored>>
      BY <2>10 DEF Respond, stores, Rng, Stored
    <3>1. WriteOrder' /\ LateRows'
      BY <3>0 DEF Traces, WriteOrder, LateRows
    <3>2. NotYetLanded'
      BY <2>10, <3>0 DEF Respond, Goto, Traces, NotYetLanded, Early
    <3>3. NotYetPublished'
      BY <2>10, <3>0 DEF Respond, Goto, Traces, NotYetPublished
    <3>4. AtCurate'
      BY <2>10, <3>0 DEF Respond, Goto, Traces, AtCurate
    <3>5. Ended'
      BY <2>10, <3>0 DEF Respond, Goto, Traces, Ended, Ending
    <3> QED  BY <3>1, <3>2, <3>3, <3>4, <3>5 DEF Traces
  <2>11. CASE Crash
    <3>a. /\ UNCHANGED raised
          /\ \A q \in Requests :
               pc'[q] = IF pc[q] \in {"idle", "done"} THEN pc[q] ELSE "lost"
      BY <2>11 DEF Crash
    <3>0. /\ UNCHANGED <<landed, Stored>> /\ WriteOrder' /\ LateRows'
          /\ \A q \in Requests : pc[q] \in {"idle", "done"} =>
               (q \in late'["landing"] => q \in late["landing"])
      <4>1. CASE UNCHANGED stores
        BY <4>1 DEF stores, Traces, WriteOrder, LateRows, Stored, Rng
      <4>2. CASE loop # Nobody /\ InFlight(loop)
        <5>1. loop \in Requests /\ pc[loop] \notin {"idle", "done"}
          BY <4>2 DEF TypeOK, InFlight
        <5> QED  BY <4>2, <5>1, InFlightTraces
      <4> QED  BY <2>11, <4>1, <4>2 DEF Crash
    <3>2. NotYetLanded'
      BY <3>a, <3>0 DEF Traces, NotYetLanded, Early
    <3>3. NotYetPublished'
      BY <3>a DEF NotYetPublished
    <3>4. AtCurate'
      BY <3>a DEF AtCurate
    <3>5. Ended'
      BY <3>a, <3>0 DEF Traces, Ended, Ending
    <3> QED  BY <3>0, <3>2, <3>3, <3>4, <3>5 DEF Traces
  <2>12. CASE UNCHANGED vars
    BY <2>12, TracesUnchanged DEF vars, stores
  <2> QED
    BY <2>0, <2>1, <2>2, <2>3, <2>4, <2>5, <2>6, <2>7, <2>8, <2>9, <2>10,
       <2>11, <2>12 DEF Next, Serve, Quiescent
<1> QED  BY <1>1, <1>2, TypeCorrect, ControlInvariant, PTL DEF Spec

(* The object precedes the record and the record precedes the row: curated *)
(* rows are on their stream and streamed requests are landed, for every    *)
(* set of requests and any number of crashes (ingest, 93-105).             *)
THEOREM StoresInOrder == Spec => []WriteOrder
<1>1. Traces => WriteOrder  BY DEF Traces
<1> QED  BY <1>1, TracesInvariant, PTL

(* A 202 (or the page's 200) is only ever sent for a request that all      *)
(* three data stores hold.                                                 *)
THEOREM AcceptedDurable == Spec => []AcceptedIsDurable
<1>1. TypeOK /\ Control /\ Traces => AcceptedIsDurable
  <2> SUFFICES ASSUME TypeOK, Control, Traces, NEW r \in Requests, Accepted(r)
               PROVE  r \in landed /\ r \in Rng(stream) /\ r \in Stored
    BY DEF AcceptedIsDurable
  <2>1. pc[r] = "done" /\ answer[r] = StatusCode(route[r], raised[r])
    BY DEF Control, AnswerFitsOutcome, Accepted
  <2>2. raised[r] = "none"
    BY <2>1 DEF StatusCode, Accepted
  <2> QED  BY <2>1, <2>2 DEF Traces, Ended, Ending, WriteOrder, Stored
<1> QED  BY <1>1, TypeCorrect, ControlInvariant, TracesInvariant, PTL

(* A 400 or a 404 is only ever sent for a request that left nothing in the *)
(* data stores and nothing on its way there.                               *)
THEOREM RefusedTraceless == Spec => []RefusedLeavesNoTrace
<1>1. TypeOK /\ Control /\ Traces => RefusedLeavesNoTrace
  <2> SUFFICES ASSUME TypeOK, Control, Traces, NEW r \in Requests, Refused(r)
               PROVE  /\ r \notin landed \union Rng(stream) \union Rng(curated)
                      /\ \A store \in Stores \ {"audit"} : r \notin late[store]
    BY DEF RefusedLeavesNoTrace
  <2>1. pc[r] = "done" /\ answer[r] = StatusCode(route[r], raised[r])
    BY DEF Control, AnswerFitsOutcome, Refused
  <2>2. raised[r] \in {"validation", "sourceNotFound"}
    BY <2>1 DEF StatusCode, Refused
  <2>3. r \notin landed /\ r \notin late["landing"]
    BY <2>1, <2>2 DEF Traces, Ended, Ending
  <2>4. r \notin late["kinesis"] /\ r \notin late["curated"]
    BY <2>3 DEF Traces, WriteOrder, LateRows
  <2> QED  BY <2>3, <2>4 DEF Traces, WriteOrder, Stores
<1> QED  BY <1>1, TypeCorrect, ControlInvariant, TracesInvariant, PTL
-----------------------------------------------------------------------------
(* The audit table: a request past its finally clause is the only one that *)
(* can have a row, and a FAILED row is that of a request that raised.      *)
LoggedAfterAudit ==
  \A i \in DOMAIN audit : pc[audit[i].req] \in {"show", "respond", "done", "lost"}
FailedRaised ==
  \A i \in DOMAIN audit :
    audit[i].status = "FAILED" => raised[audit[i].req] # "none"
RowsHappened ==
  \A i \in DOMAIN audit :
    /\ audit[i].status = "SUCCESS" => audit[i].req \in Stored
    /\ audit[i].streamed => audit[i].req \in Rng(stream)
OneAuditRow == \A i, j \in DOMAIN audit : audit[i].req = audit[j].req => i = j
Ledger == LoggedAfterAudit /\ FailedRaised /\ RowsHappened /\ OneAuditRow

(* A request is logged when some audit row is its own.                     *)
LEMMA LoggedRequests ==
  ASSUME TypeOK, NEW i \in DOMAIN audit
  PROVE  audit[i].req \in Requests
<1>1. audit \in Seq(AuditRows)  BY DEF TypeOK
<1>2. audit[i] \in AuditRows  BY <1>1
<1> QED  BY <1>2 DEF AuditRows

(* A step that writes no audit row, keeps every request that has one where *)
(* a request with a row may be, and loses no row or record of the stores.  *)
LEMMA LedgerKept ==
  ASSUME TypeOK, Ledger, audit' = audit,
         Rng(stream) \subseteq Rng(stream'), Stored \subseteq Stored',
         \A q \in Requests : pc[q] \in {"show", "respond", "done", "lost"} =>
           /\ pc'[q] \in {"show", "respond", "done", "lost"}
           /\ raised[q] # "none" => raised'[q] # "none"
  PROVE  Ledger'
<1>1. \A i \in DOMAIN audit : audit[i].req \in Requests
  BY LoggedRequests
<1> QED
  BY <1>1 DEF Ledger, LoggedAfterAudit, FailedRaised, RowsHappened, OneAuditRow

(* A row that the finally clause of its request writes, or has under way.  *)
LEMMA LedgerWritten ==
  ASSUME TypeOK, Traces, Ledger, NEW r \in Requests, pc[r] = "audit",
         audit' = Append(audit, AuditRow(r)),
         Rng(stream) \subseteq Rng(stream'), Stored \subseteq Stored',
         pc'[r] \in {"show", "respond", "done", "lost"},
         \A q \in Requests : pc[q] \in {"show", "respond", "done", "lost"} =>
           pc'[q] \in {"show", "respond", "done", "lost"},
         \A q \in Requests : raised[q] # "none" => raised'[q] # "none"
  PROVE  Ledger'
<1>1. AuditRow(r) \in AuditRows
  BY AuditRowTyped
<1>2. /\ Len(audit) \in Nat /\ DOMAIN audit = 1..Len(audit)
      /\ DOMAIN audit' = 1..(Len(audit) + 1)
      /\ \A i \in 1..Len(audit) : audit'[i] = audit[i]
      /\ audit'[Len(audit) + 1] = AuditRow(r)
  BY <1>1, AppendFacts DEF TypeOK
<1>3. \A i \in 1..Len(audit) : audit[i].req \in Requests \ {r}
  BY <1>2, LoggedRequests DEF Ledger, LoggedAfterAudit
<1>4. /\ AuditRow(r).req = r
      /\ AuditRow(r).status = "SUCCESS" => r \in Stored
      /\ AuditRow(r).status = "FAILED" => raised[r] # "none"
      /\ AuditRow(r).streamed => r \in Rng(stream)
  BY DEF AuditRow, Traces, Ended, Ending
<1>5. LoggedAfterAudit'
  BY <1>2, <1>3, <1>4 DEF Ledger, LoggedAfterAudit
<1>6. FailedRaised'
  BY <1>2, <1>3, <1>4 DEF Ledger, FailedRaised
<1>7. RowsHappened'
  BY <1>2, <1>4 DEF Ledger, RowsHappened
<1>8. OneAuditRow'
  BY <1>2, <1>3, <1>4 DEF Ledger, OneAuditRow
<1> QED  BY <1>5, <1>6, <1>7, <1>8 DEF Ledger

(* Audit rows belong to requests past their finally clause, one row each,  *)
(* and what a row says had happened when it was written.                   *)
THEOREM LedgerInvariant == Spec => []Ledger
<1>1. Init => Ledger
  BY DEF Init, Ledger, LoggedAfterAudit, FailedRaised, RowsHappened, OneAuditRow
<1>2. TypeOK /\ Traces /\ Ledger /\ [Next]_vars => Ledger'
  <2> SUFFICES ASSUME TypeOK, Traces, Ledger, [Next]_vars PROVE Ledger'
    OBVIOUS
  <2>types. /\ pc \in [Requests -> Stages] /\ raised \in [Requests -> Exceptions]
            /\ stream \in Seq(Requests) /\ curated \in Seq(Requests)
            /\ audit \in Seq(AuditRows)
    BY DEF TypeOK
  <2>0. ASSUME NEW r \in Requests, NEW rt \in Routes, NEW s \in Sources,
               NEW d \in Defects, Submit(r, rt, s, d)
        PROVE  Ledger'
    BY <2>0, LedgerKept DEF Submit, Goto, stores, Stored
  <2>1. ASSUME NEW r \in Requests, ParseBody(r) PROVE Ledger'
    BY <2>1, <2>types, LedgerKept DEF ParseBody, Goto, stores, Stored
  <2>2. ASSUME NEW r \in Requests, GetSource(r) PROVE Ledger'
    BY <2>2, <2>types, LedgerKept DEF GetSource, Goto, Raise, stores, Stored
  <2>3. ASSUME NEW r \in Requests, Validate(r) PROVE Ledger'
    BY <2>3, <2>types, LedgerKept DEF Validate, Goto, Raise, stores, Stored
  <2>4. ASSUME NEW r \in Requests, Persist(r) PROVE Ledger'
    <3>1. UNCHANGED <<Rng(stream), Stored, audit>>
      <4>1. CASE InFlight(r)
        <5>1. pc[r] = "persist"
          BY <2>4 DEF Persist
        <5> QED  BY <4>1, <5>1, InFlightTraces DEF InFlight
      <4>2. CASE ~InFlight(r)
        BY <2>4, <4>2 DEF Persist, stores, Stored, Rng
      <4> QED  BY <4>1, <4>2
    <3> QED  BY <2>4, <3>1, <2>types, LedgerKept DEF Persist, Goto, Raise
  <2>5. ASSUME NEW r \in Requests, Publish(r) PROVE Ledger'
    <3>1. Rng(Append(stream, r)) = Rng(stream) \union {r}
      BY <2>types, RngAppend
    <3>2. /\ stream' \in {stream, Append(stream, r)} /\ audit' = audit
          /\ curated' = curated /\ late'["curated"] = late["curated"]
      <4>1. late' = late \/ Delay("kinesis", r)
        BY <2>5 DEF Publish
      <4>2. late'["curated"] = late["curated"]
        BY <4>1, DelayFacts DEF TypeOK, Stores
      <4> QED  BY <2>5, <4>2 DEF Publish
    <3>3. \A q \in Requests : pc[q] \in {"show", "respond", "done", "lost"} =>
            pc'[q] = pc[q] /\ raised'[q] = raised[q]
      BY <2>5, <2>types DEF Publish, Raise, Goto
    <3> QED  BY <3>1, <3>2, <3>3, LedgerKept DEF Stored
  <2>6. ASSUME NEW store \in Stores, NEW r \in Requests, LateWrite(store, r) PROVE Ledger'
    <3>1. Rng(Append(stream, r)) = Rng(stream) \union {r}
      BY <2>types, RngAppend
    <3>2. /\ stream' \in {stream, Append(stream, r)} /\ audit' = audit
          /\ curated' = curated /\ late'["curated"] \subseteq late["curated"]
      <4>1. late'["curated"] \subseteq late["curated"]
        BY <2>6 DEF LateWrite, TypeOK, Stores
      <4> QED  BY <2>6, <4>1 DEF LateWrite
    <3>3. \A q \in Requests : pc[q] \in {"show", "respond", "done", "lost"} =>
            pc'[q] = pc[q] /\ raised'[q] = raised[q]
      BY <2>6 DEF LateWrite
    <3> QED  BY <3>1, <3>2, <3>3, LedgerKept DEF Stored
  <2>7. ASSUME NEW r \in Requests, Curate(r) PROVE Ledger'
    <3>1. Rng(Append(curated, r)) = Rng(curated) \union {r}
      BY <2>types, RngAppend
    <3>2. pc[r] = "curate" /\ audit' = audit /\ stream' = stream
      BY <2>7 DEF Curate, InFlight, stores
    <3>3. Stored \subseteq Stored'
      <4>1. CASE InFlight(r)
        BY <4>1, InFlightTraces
      <4>2. CASE ~InFlight(r)
        <5>1. curated' \in {curated, Append(curated, r)} /\ late' = late
          BY <2>7, <4>2 DEF Curate, stores
        <5> QED  BY <5>1, <3>1 DEF Stored
      <4> QED  BY <4>1, <4>2
    <3>4. \A q \in Requests : pc[q] \in {"show", "respond", "done", "lost"} =>
            pc'[q] = pc[q] /\ raised'[q] = raised[q]
      BY <2>7, <2>types DEF Curate, Raise, Goto
    <3> QED  BY <3>2, <3>3, <3>4, LedgerKept
  <2>8. ASSUME NEW r \in Requests, WriteAuditLog(r) PROVE Ledger'
    <3>1. /\ UNCHANGED <<stream, Stored>>
          /\ audit' \in {audit, Append(audit, AuditRow(r))}
      <4>1. CASE InFlight(r)
        <5>1. pc[r] = "audit"
          BY <2>8 DEF WriteAuditLog
        <5> QED  BY <4>1, <5>1, InFlightTraces DEF InFlight
      <4>2. CASE ~InFlight(r)
        BY <2>8, <4>2 DEF WriteAuditLog, stores, Stored
      <4> QED  BY <4>1, <4>2
    <3>2. /\ pc[r] = "audit" /\ pc'[r] \in {"show", "respond"}
          /\ raised[r] # "none" => raised'[r] # "none"
          /\ \A q \in Requests \ {r} : pc'[q] = pc[q] /\ raised'[q] = raised[q]
      BY <2>8, <2>types DEF WriteAuditLog, Goto, AfterAudit
    <3> QED  BY <3>1, <3>2, LedgerKept, LedgerWritten
  <2>9. ASSUME NEW r \in Requests, ShowStored(r) PROVE Ledger'
    BY <2>9, <2>types, LedgerKept DEF ShowStored, Goto, stores, Stored
  <2>10. ASSUME NEW r \in Requests, Respond(r) PROVE Ledger'
    BY <2>10, LedgerKept DEF Respond, Goto, stores, Stored
  <2>11. CASE Crash
    <3>1. /\ UNCHANGED raised
          /\ \A q \in Requests :
               pc'[q] = IF pc[q] \in {"idle", "done"} THEN pc[q] ELSE "lost"
      BY <2>11 DEF Crash
    <3>2. CASE UNCHANGED stores
      BY <3>1, <3>2, LedgerKept DEF stores, Stored
    <3>3. CASE loop # Nobody /\ InFlight(loop)
      <4>1. loop \in Requests
        BY <3>3 DEF TypeOK
      <4>2. UNCHANGED <<Rng(stream), Stored>>
        BY <3>3, <4>1, InFlightTraces
      <4>3. \/ audit' = audit
            \/ pc[loop] = "audit" /\ audit' = Append(audit, AuditRow(loop))
        BY <3>3 DEF InFlight
      <4> QED  BY <3>1, <4>1, <4>2, <4>3, LedgerKept, LedgerWritten
    <3> QED  BY <2>11, <3>2, <3>3 DEF Crash
  <2>12. CASE UNCHANGED vars
    BY <2>12, LedgerKept DEF vars, stores, Stored
  <2> QED
    BY <2>0, <2>1, <2>2, <2>3, <2>4, <2>5, <2>6, <2>7, <2>8, <2>9, <2>10,
       <2>11, <2>12 DEF Next, Serve, Quiescent
<1> QED  BY <1>1, <1>2, TypeCorrect, TracesInvariant, PTL DEF Spec

(* The audit table never says more, or better, than what happened.         *)
THEOREM AuditTruthful == Spec => []AuditTellsTruth
<1>1. TypeOK /\ Control /\ Traces /\ Ledger => AuditTellsTruth
  <2> SUFFICES ASSUME TypeOK, Control, Traces, Ledger, NEW i \in DOMAIN audit,
                      NEW r, r = audit[i].req
               PROVE  /\ audit[i].status = "SUCCESS" =>
                           r \in landed /\ r \in Rng(stream) /\ r \in Stored
                      /\ audit[i].status = "FAILED" => ~Accepted(r)
                      /\ audit[i].streamed => r \in Rng(stream)
    BY DEF AuditTellsTruth
  <2>1. r \in Requests
    BY LoggedRequests
  <2>2. ASSUME audit[i].status = "FAILED", Accepted(r) PROVE FALSE
    <3>1. raised[r] # "none"
      BY <2>2 DEF Ledger, FailedRaised
    <3>2. answer[r] = StatusCode(route[r], raised[r])
      BY <2>1, <2>2 DEF Control, AnswerFitsOutcome, Accepted
    <3> QED  BY <2>2, <3>1, <3>2 DEF StatusCode, Accepted
  <2> QED  BY <2>2 DEF Ledger, RowsHappened, Traces, WriteOrder, Stored
<1> QED  BY <1>1, TypeCorrect, ControlInvariant, TracesInvariant, LedgerInvariant, PTL
-----------------------------------------------------------------------------
(* The orders of the stores.  RowsAhead: when a request is about to be     *)
(* curated, some record of every curated request precedes all of its own.  *)
(* LastRowOwn: between its insert and the return of its handler no other   *)
(* request has inserted a row.                                             *)
OneCuratedRow == \A i, j \in DOMAIN curated : curated[i] = curated[j] => i = j
Precedes(p, q) ==
  \E k \in DOMAIN stream :
    stream[k] = p /\ \A m \in DOMAIN stream : stream[m] = q => k < m
RowsOrdered ==
  \A i, j \in DOMAIN curated : i < j => Precedes(curated[i], curated[j])
RowsAhead ==
  \A r \in Requests : pc[r] = "curate" =>
    \A i \in DOMAIN curated : Precedes(curated[i], r)
LastRowOwn ==
  \A r \in Requests : pc[r] \in {"audit", "show"} /\ raised[r] = "none" =>
    Len(curated) > 0 /\ curated[Len(curated)] = r
Orders == OneCuratedRow /\ RowsOrdered /\ RowsAhead /\ LastRowOwn /\ UiShowsOwnRow

(* One more record at the end of the stream parts no pair already in order.*)
LEMMA PrecedesKept ==
  ASSUME stream \in Seq(Requests), NEW x \in Requests, NEW p, NEW q, Precedes(p, q),
         stream' \in {stream, Append(stream, x)}
  PROVE  Precedes(p, q)'
<1>1. PICK k \in DOMAIN stream :
        stream[k] = p /\ \A m \in DOMAIN stream : stream[m] = q => k < m
  BY DEF Precedes
<1>2. CASE stream' = stream
  BY <1>1, <1>2 DEF Precedes
<1>3. CASE stream' = Append(stream, x)
  <2>1. /\ Len(stream) \in Nat /\ DOMAIN stream = 1..Len(stream)
        /\ DOMAIN stream' = 1..(Len(stream) + 1)
        /\ \A i \in 1..Len(stream) : stream'[i] = stream[i]
    BY <1>3, AppendFacts
  <2>2. k \in DOMAIN stream' /\ stream'[k] = p
    BY <1>1, <2>1
  <2>3. \A m \in DOMAIN stream' : stream'[m] = q => k < m
    BY <1>1, <2>1
  <2> QED  BY <2>2, <2>3 DEF Precedes
<1> QED  BY <1>2, <1>3

(* A request that is not on the stream yet comes after all that is.        *)
LEMMA PrecedesNew ==
  ASSUME stream \in Seq(Requests), NEW x \in Requests, x \notin Rng(stream),
         NEW p \in Rng(stream), stream' = Append(stream, x)
  PROVE  Precedes(p, x)'
<1>1. /\ Len(stream) \in Nat /\ DOMAIN stream = 1..Len(stream)
      /\ DOMAIN stream' = 1..(Len(stream) + 1)
      /\ \A i \in 1..Len(stream) : stream'[i] = stream[i]
  BY AppendFacts
<1>2. PICK k \in DOMAIN stream : stream[k] = p  BY DEF Rng
<1>3. \A m \in DOMAIN stream' : stream'[m] = x => k < m
  BY <1>1, <1>2 DEF Rng
<1> QED  BY <1>1, <1>2, <1>3 DEF Precedes

(* A step that adds no row, and lets no request into curate, audit or show *)
(* without an exception, keeps the orders.                                 *)
LEMMA OrdersKept ==
  ASSUME TypeOK, Orders, NEW x \in Requests,
         curated' = curated, stream' \in {stream, Append(stream, x)},
         UiShowsOwnRow',
         \A q \in Requests :
           /\ pc'[q] = "curate" => pc[q] = "curate"
           /\ pc'[q] \in {"audit", "show"} /\ raised'[q] = "none" =>
                pc[q] \in {"audit", "show"} /\ raised[q] = "none"
  PROVE  Orders'
<1>1. stream \in Seq(Requests)  BY DEF TypeOK
<1>2. OneCuratedRow' /\ LastRowOwn'
  BY DEF Orders, OneCuratedRow, LastRowOwn
<1>3. RowsOrdered'
  BY <1>1, PrecedesKept DEF Orders, RowsOrdered
<1>4. RowsAhead'
  BY <1>1, PrecedesKept DEF Orders, RowsAhead
<1> QED  BY <1>2, <1>3, <1>4 DEF Orders

(* The row that a request inserts, with its commit seen or under way, is   *)
(* the newest one and follows the others on the stream too.                *)
LEMMA RowInserted ==
  ASSUME TypeOK, Traces, Orders, NEW r \in Requests, pc[r] = "curate",
         curated' = Append(curated, r), stream' = stream
  PROVE  /\ OneCuratedRow' /\ RowsOrdered'
         /\ Len(curated') > 0 /\ curated'[Len(curated')] = r
<1>1. /\ Len(curated) \in Nat /\ DOMAIN curated = 1..Len(curated)
      /\ Len(curated') = Len(curated) + 1
      /\ DOMAIN curated' = 1..(Len(curated) + 1)
      /\ \A i \in 1..Len(curated) : curated'[i] = curated[i]
      /\ curated'[Len(curated) + 1] = r
  BY AppendFacts DEF TypeOK
<1>2. \A i \in 1..Len(curated) : curated[i] # r
  BY <1>1 DEF Traces, AtCurate, Rng
<1>3. OneCuratedRow'
  BY <1>1, <1>2 DEF Orders, OneCuratedRow
<1>4. \A p, q : Precedes(p, q) => Precedes(p, q)'
  BY DEF Precedes
<1>5. RowsOrdered'
  <2> SUFFICES ASSUME NEW i \in DOMAIN curated', NEW j \in DOMAIN curated', i < j
               PROVE  Precedes(curated[i], curated[j])'
    BY DEF RowsOrdered
  <2>1. i \in 1..Len(curated)  BY <1>1
  <2>2. CASE j = Len(curated) + 1
    BY <2>1, <2>2, <1>1, <1>4 DEF Orders, RowsAhead
  <2>3. CASE j # Len(curated) + 1
    <3>1. j \in 1..Len(curated)  BY <2>3, <1>1
    <3> QED  BY <2>1, <3>1, <1>1, <1>4 DEF Orders, RowsOrdered
  <2> QED  BY <2>2, <2>3
<1> QED  BY <1>1, <1>3, <1>5

(* Curated rows are in stream order and unique, and a request that has     *)
(* just written its row has the newest one: the strengthening behind the   *)
(* order of the tables and the page.                                       *)
THEOREM OrdersInvariant == Spec => []Orders
<1>1. Init => Orders
  BY DEF Init, Orders, OneCuratedRow, RowsOrdered, RowsAhead, LastRowOwn, UiShowsOwnRow
<1>2. TypeOK /\ Control /\ Traces /\ Orders /\ [Next]_vars => Orders'
  <2> SUFFICES ASSUME TypeOK, Control, Traces, Orders, [Next]_vars PROVE Orders'
    OBVIOUS
  <2>types. /\ pc \in [Requests -> Stages] /\ raised \in [Requests -> Exceptions]
            /\ stream \in Seq(Requests) /\ curated \in Seq(Requests)
    BY DEF TypeOK
  <2>ui. UiShowsOwnRow
    BY DEF Orders
  <2>0. ASSUME NEW r \in Requests, NEW rt \in Routes, NEW s \in Sources,
               NEW d \in Defects, Submit(r, rt, s, d)
        PROVE  Orders'
    BY <2>0, <2>ui, OrdersKept DEF Submit, Goto, stores, UiShowsOwnRow
  <2>1. ASSUME NEW r \in Requests, ParseBody(r) PROVE Orders'
    BY <2>1, <2>types, <2>ui, OrdersKept DEF ParseBody, Goto, UiShowsOwnRow, stores
  <2>2. ASSUME NEW r \in Requests, GetSource(r) PROVE Orders'
    BY <2>2, <2>types, <2>ui, OrdersKept DEF GetSource, Goto, UiShowsOwnRow, Raise, stores
  <2>3. ASSUME NEW r \in Requests, Validate(r) PROVE Orders'
    BY <2>3, <2>types, <2>ui, OrdersKept DEF Validate, Goto, UiShowsOwnRow, Raise, stores
  <2>4. ASSUME NEW r \in Requests, Persist(r) PROVE Orders'
    <3>1. UNCHANGED <<stream, curated>>
      BY <2>4 DEF Persist, InFlight, stores
    <3> QED
      BY <2>4, <3>1, <2>types, <2>ui, OrdersKept DEF Persist, Goto, UiShowsOwnRow, Raise
  <2>5. ASSUME NEW r \in Requests, Publish(r) PROVE Orders'
    <3>1. /\ stream' \in {stream, Append(stream, r)} /\ curated' = curated /\ shown' = shown
          /\ pc[r] = "publish"
          /\ \A q \in Requests \ {r} : pc'[q] = pc[q] /\ raised'[q] = raised[q]
      BY <2>5, <2>types DEF Publish, Goto, Raise
    <3>2. CASE pc'[r] # "curate"
      <4>1. pc'[r] \in {"audit", "show"} => raised'[r] # "none"
        BY <2>5, <2>types DEF Publish, Goto, Raise
      <4> QED  BY <3>1, <3>2, <4>1, <2>ui, OrdersKept DEF UiShowsOwnRow
    <3>3. CASE pc'[r] = "curate"
      <4>1. stream' = Append(stream, r)
        BY <2>5, <3>3, <2>types DEF Publish, Goto, Raise
      <4>2. \A i \in DOMAIN curated : Precedes(curated[i], r)'
        BY <3>1, <4>1, <2>types, PrecedesNew
           DEF Traces, NotYetPublished, WriteOrder, Rng
      <4>3. RowsAhead'
        BY <3>1, <4>2, <2>types, PrecedesKept DEF Orders, RowsAhead
      <4>4. RowsOrdered'
        BY <3>1, <2>types, PrecedesKept DEF Orders, RowsOrdered
      <4>5. OneCuratedRow' /\ UiShowsOwnRow'
        BY <3>1 DEF Orders, OneCuratedRow, UiShowsOwnRow
      <4>6. LastRowOwn'
        BY <3>1, <3>3 DEF Orders, LastRowOwn
      <4> QED  BY <4>3, <4>4, <4>5, <4>6 DEF Orders
    <3> QED  BY <3>2, <3>3
  <2>6. ASSUME NEW store \in Stores, NEW r \in Requests, LateWrite(store, r) PROVE Orders'
    BY <2>6, <2>ui, OrdersKept DEF LateWrite, UiShowsOwnRow
  <2>7. ASSUME NEW r \in Requests, Curate(r) PROVE Orders'
    <3>1. /\ curated' \in {curated, Append(curated, r)} /\ stream' = stream /\ shown' = shown
          /\ pc[r] = "curate" /\ pc'[r] = "audit"
          /\ \A q \in Requests \ {r} : pc'[q] = pc[q] /\ raised'[q] = raised[q]
      BY <2>7, <2>types DEF Curate, Goto, Raise, InFlight, stores
    <3>2. raised'[r] = "none" => curated' = Append(curated, r)
      BY <2>7, <2>types DEF Curate, Raise, InFlight
    <3>3. CASE curated' = curated
      <4>1. raised'[r] # "none"
        <5>1. SUFFICES ASSUME raised'[r] = "none" PROVE FALSE  OBVIOUS
        <5>2. Len(Append(curated, r)) = Len(curated) + 1 /\ Len(curated) \in Nat
          BY <2>types
        <5> QED  BY <3>2, <3>3, <5>1, <5>2
      <4> QED  BY <3>1, <3>3, <4>1, <2>ui, OrdersKept DEF UiShowsOwnRow
    <3>4. CASE curated' = Append(curated, r)
      <4>1. /\ OneCuratedRow' /\ RowsOrdered'
            /\ Len(curated') > 0 /\ curated'[Len(curated')] = r
        BY <3>1, <3>4, RowInserted
      <4>2. \A q \in Requests : pc'[q] # "curate" /\ (pc'[q] \in {"audit", "show"} => q = r)
        BY <3>1 DEF Control, LoopRunsHandler, InHandler
      <4>3. RowsAhead' /\ LastRowOwn'
        BY <4>1, <4>2 DEF RowsAhead, LastRowOwn
      <4>4. UiShowsOwnRow'
        BY <3>1, <2>ui DEF UiShowsOwnRow
      <4> QED  BY <4>1, <4>3, <4>4 DEF Orders
    <3> QED  BY <3>1, <3>3, <3>4
  <2>8. ASSUME NEW r \in Requests, WriteAuditLog(r) PROVE Orders'
    <3>1. UNCHANGED <<stream, curated>>
      BY <2>8 DEF WriteAuditLog, InFlight, stores
    <3> QED
      BY <2>8, <3>1, <2>types, <2>ui, OrdersKept
         DEF WriteAuditLog, Goto, AfterAudit, UiShowsOwnRow
  <2>9. ASSUME NEW r \in Requests, ShowStored(r) PROVE Orders'
    <3>1. /\ pc[r] = "show" /\ raised[r] = "none"
          /\ UNCHANGED <<stream, curated, source>> /\ r \notin late["curated"]
          /\ pc'[r] = "respond"
          /\ \A q \in Requests \ {r} : pc'[q] = pc[q] /\ raised'[q] = raised[q]
      BY <2>9, <2>types DEF ShowStored, Goto, Control, NothingRaised, Unraised, stores, input,
                               Stored, Traces, Ended, Ending
    <3>2. LatestRow(source[r]) = {r}
      <4>1. /\ Len(curated) \in Nat /\ DOMAIN curated = 1..Len(curated)
            /\ Len(curated) > 0 /\ curated[Len(curated)] = r
        BY <3>1, <2>types DEF Orders, LastRowOwn
      <4> QED  BY <3>1, <4>1 DEF LatestRow, RowsOf, Rows
    <3>3. UiShowsOwnRow'
      <4>1. shown' \in {shown, [shown EXCEPT ![r] = r]}
        BY <2>9, <3>2, NobodyAssumption DEF ShowStored
      <4>2. shown \in [Requests -> Requests \union {Nobody}]
        BY DEF TypeOK
      <4> QED  BY <4>1, <4>2, <2>ui DEF UiShowsOwnRow
    <3> QED  BY <3>1, <3>3, OrdersKept
  <2>10. ASSUME NEW r \in Requests, Respond(r) PROVE Orders'
    BY <2>10, <2>ui, OrdersKept DEF Respond, Goto, UiShowsOwnRow, stores
  <2>11. CASE Crash
    <3>1. /\ UNCHANGED <<stream, shown>>
          /\ \A q \in Requests : pc'[q] \in {"idle", "done", "lost"}
      BY <2>11, <2>types DEF Crash, stores, InFlight
    <3>2. RowsAhead' /\ LastRowOwn' /\ UiShowsOwnRow'
      BY <3>1, <2>ui DEF RowsAhead, LastRowOwn, UiShowsOwnRow
    <3>3. OneCuratedRow' /\ RowsOrdered'
      <4>1. CASE curated' = curated
        BY <3>1, <4>1 DEF Orders, OneCuratedRow, RowsOrdered, Precedes
      <4>2. CASE curated' # curated
        <5>1. loop \in Requests /\ pc[loop] = "curate" /\ curated' = Append(curated, loop)
          BY <2>11, <4>2 DEF Crash, stores, InFlight, TypeOK
        <5> QED  BY <3>1, <5>1, RowInserted
      <4> QED  BY <4>1, <4>2
    <3> QED  BY <3>2, <3>3 DEF Orders
  <2>12. CASE UNCHANGED vars
    BY <2>12 DEF vars, stores, Orders, OneCuratedRow, RowsOrdered, RowsAhead,
       LastRowOwn, UiShowsOwnRow, Precedes
  <2> QED
    BY <2>0, <2>1, <2>2, <2>3, <2>4, <2>5, <2>6, <2>7, <2>8, <2>9, <2>10,
       <2>11, <2>12 DEF Next, Serve, Quiescent
<1> QED  BY <1>1, <1>2, TypeCorrect, ControlInvariant, TracesInvariant, PTL DEF Spec

(* A request has at most one curated row and one audit row, whatever the   *)
(* outcome of the calls that wrote them.                                   *)
THEOREM WrittenAtMostOnce == Spec => []AtMostOnce
<1>1. Orders /\ Ledger => AtMostOnce
  BY DEF Orders, OneCuratedRow, Ledger, OneAuditRow, AtMostOnce
<1> QED  BY <1>1, OrdersInvariant, LedgerInvariant, PTL

(* Rows and records agree on the order of any two requests, because one    *)
(* handler runs at a time (LoopRunsHandler).                               *)
THEOREM StreamOrder == Spec => []CuratedInStreamOrder
<1>1. Orders => CuratedInStreamOrder
  BY DEF Orders, RowsOrdered, Precedes, CuratedInStreamOrder
<1> QED  BY <1>1, OrdersInvariant, PTL

(* The validation page never shows a client the row of another request.    *)
THEOREM PageShowsOwnRow == Spec => []UiShowsOwnRow
<1>1. Orders => UiShowsOwnRow  BY DEF Orders
<1> QED  BY <1>1, OrdersInvariant, PTL
-----------------------------------------------------------------------------
(* The log and the tables: an entry carries the source of its request, and *)
(* successful entries stand in the order of their rows.                    *)
LogSourced == \A i \in DOMAIN audit : audit[i].source = source[audit[i].req]
LogInRowOrder ==
  \A i, j \in DOMAIN audit : \A k, m \in DOMAIN curated :
    /\ audit[i].status = "SUCCESS" /\ audit[j].status = "SUCCESS" /\ i < j
    /\ curated[k] = audit[i].req /\ curated[m] = audit[j].req
    => k < m
LogOrder == LogSourced /\ LogInRowOrder

(* A step that writes neither a row nor an entry, and keeps the source of  *)
(* every logged request, keeps both.                                       *)
LEMMA LogOrderKept ==
  ASSUME LogOrder, audit' = audit, curated' = curated,
         \A i \in DOMAIN audit : source'[audit[i].req] = source[audit[i].req]
  PROVE  LogOrder'
  BY DEF LogOrder, LogSourced, LogInRowOrder

(* A row that a request inserts, with its commit seen or under way, is of  *)
(* a request that has no entry yet.                                        *)
LEMMA LogBeforeRow ==
  ASSUME TypeOK, Ledger, LogOrder, NEW r \in Requests, pc[r] = "curate",
         curated' = Append(curated, r), audit' = audit, source' = source
  PROVE  LogOrder'
<1>1. /\ DOMAIN curated = 1..Len(curated)
      /\ DOMAIN curated' = 1..(Len(curated) + 1)
      /\ \A k \in 1..Len(curated) : curated'[k] = curated[k]
      /\ curated'[Len(curated) + 1] = r
      /\ Len(curated) \in Nat
  BY AppendFacts DEF TypeOK
<1>2. \A i \in DOMAIN audit : audit[i].req # r
  BY LoggedRequests DEF Ledger, LoggedAfterAudit
<1>3. \A i \in DOMAIN audit : \A k \in DOMAIN curated' :
        curated'[k] = audit[i].req => k \in DOMAIN curated /\ curated[k] = audit[i].req
  BY <1>1, <1>2
<1> QED  BY <1>3 DEF LogOrder, LogSourced, LogInRowOrder

(* An entry that a request inserts follows the newest row, its own.        *)
LEMMA LogAfterRow ==
  ASSUME TypeOK, Ledger, Orders, LogOrder, NEW r \in Requests, pc[r] = "audit",
         audit' = Append(audit, AuditRow(r)), curated' = curated, source' = source
  PROVE  LogOrder'
<1>1. AuditRow(r) \in AuditRows
  BY AuditRowTyped
<1>2. /\ DOMAIN audit = 1..Len(audit)
      /\ DOMAIN audit' = 1..(Len(audit) + 1)
      /\ \A i \in 1..Len(audit) : audit'[i] = audit[i]
      /\ audit'[Len(audit) + 1] = AuditRow(r)
      /\ Len(audit) \in Nat
  BY <1>1, AppendFacts DEF TypeOK
<1>3. /\ AuditRow(r).req = r /\ AuditRow(r).source = source[r]
      /\ AuditRow(r).status = "SUCCESS" => raised[r] = "none"
  BY DEF AuditRow
<1>4. LogSourced'
  BY <1>2, <1>3 DEF LogOrder, LogSourced
<1>5. \A i \in DOMAIN audit : audit[i].req # r
  BY LoggedRequests DEF Ledger, LoggedAfterAudit
<1>6. LogInRowOrder'
  <2> SUFFICES ASSUME NEW i \in 1..(Len(audit) + 1), NEW j \in 1..(Len(audit) + 1),
                      NEW k \in DOMAIN curated, NEW m \in DOMAIN curated,
                      audit'[i].status = "SUCCESS", audit'[j].status = "SUCCESS",
                      i < j, curated[k] = audit'[i].req, curated[m] = audit'[j].req
               PROVE  k < m
    BY <1>2 DEF LogInRowOrder
  <2>1. i \in DOMAIN audit /\ audit'[i] = audit[i]
    BY <1>2
  <2>2. CASE j \in DOMAIN audit
    <3>1. audit'[j] = audit[j]  BY <2>2, <1>2
    <3> QED  BY <2>1, <2>2, <3>1 DEF LogOrder, LogInRowOrder
  <2>3. CASE j \notin DOMAIN audit
    <3>1. audit'[j] = AuditRow(r)  BY <2>3, <1>2
    <3>2. Len(curated) > 0 /\ curated[Len(curated)] = r
      BY <1>3, <3>1 DEF Orders, LastRowOwn
    <3>3. Len(curated) \in Nat /\ DOMAIN curated = 1..Len(curated)
      BY DEF TypeOK
    <3>4. m = Len(curated)
      BY <1>3, <3>1, <3>2, <3>3 DEF Orders, OneCuratedRow
    <3>5. k # m
      BY <1>3, <1>5, <2>1, <3>1
    <3> QED  BY <3>3, <3>4, <3>5
  <2> QED  BY <2>2, <2>3
<1> QED  BY <1>4, <1>6 DEF LogOrder

(* A request that has just written its row logs its success before any     *)
(* other request writes one, so the log follows the tables.                *)
THEOREM LogOrderInvariant == Spec => []LogOrder
<1>1. Init => LogOrder
  BY DEF Init, LogOrder, LogSourced, LogInRowOrder
<1>2. TypeOK /\ Traces /\ Ledger /\ Orders /\ LogOrder /\ [Next]_vars => LogOrder'
  <2> SUFFICES ASSUME TypeOK, Traces, Ledger, Orders, LogOrder, [Next]_vars
               PROVE  LogOrder'
    OBVIOUS
  <2>types. /\ pc \in [Requests -> Stages] /\ source \in [Requests -> Sources]
            /\ curated \in Seq(Requests) /\ audit \in Seq(AuditRows)
    BY DEF TypeOK
  <2>logged. \A i \in DOMAIN audit : /\ audit[i].req \in Requests
                                      /\ pc[audit[i].req] \notin {"idle", "curate", "audit"}
    BY LoggedRequests DEF Ledger, LoggedAfterAudit
  <2>1. ASSUME NEW r \in Requests, NEW rt \in Routes, NEW s \in Sources,
               NEW d \in Defects, Submit(r, rt, s, d)
        PROVE  LogOrder'
    <3>1. \A i \in DOMAIN audit : source'[audit[i].req] = source[audit[i].req]
      BY <2>1, <2>types, <2>logged DEF Submit
    <3> QED  BY <2>1, <3>1, LogOrderKept DEF Submit, stores
  <2>2. ASSUME NEW r \in Requests, Curate(r) PROVE LogOrder'
    <3>1. /\ curated' \in {curated, Append(curated, r)}
          /\ audit' = audit /\ source' = source /\ pc[r] = "curate"
      BY <2>2 DEF Curate, InFlight, stores, input
    <3> QED  BY <3>1, LogOrderKept, LogBeforeRow
  <2>3. ASSUME NEW r \in Requests, WriteAuditLog(r) PROVE LogOrder'
    <3>1. /\ audit' \in {audit, Append(audit, AuditRow(r))}
          /\ curated' = curated /\ source' = source /\ pc[r] = "audit"
      BY <2>3 DEF WriteAuditLog, InFlight, stores, input
    <3> QED  BY <3>1, LogOrderKept, LogAfterRow
  <2>4. ASSUME NEW r \in Requests,
               \/ ParseBody(r) \/ GetSource(r) \/ Validate(r) \/ Persist(r)
               \/ Publish(r) \/ ShowStored(r) \/ Respond(r)
               \/ \E store \in Stores : LateWrite(store, r)
        PROVE  LogOrder'
    <3>1. audit' = audit /\ curated' = curated /\ source' = source
      BY <2>4 DEF ParseBody, GetSource, Validate, Persist, Publish, LateWrite,
                  ShowStored, Respond, InFlight, stores, input
    <3> QED  BY <3>1, LogOrderKept
  <2>5. CASE Crash
    <3>1. source' = source
      BY <2>5 DEF Crash, input
    <3>2. CASE UNCHANGED stores
      BY <3>1, <3>2, LogOrderKept DEF stores
    <3>3. CASE loop # Nobody /\ InFlight(loop)
      <4>1. loop \in Requests
        BY <3>3 DEF TypeOK
      <4>2. \/ UNCHANGED <<audit, curated>>
            \/ pc[loop] = "curate" /\ curated' = Append(curated, loop) /\ audit' = audit
            \/ /\ pc[loop] = "audit" /\ audit' = Append(audit, AuditRow(loop))
               /\ curated' = curated
        BY <3>3 DEF InFlight
      <4> QED  BY <3>1, <4>1, <4>2, LogOrderKept, LogBeforeRow, LogAfterRow
    <3> QED  BY <2>5, <3>2, <3>3 DEF Crash
  <2>6. CASE UNCHANGED vars
    BY <2>6, LogOrderKept DEF vars, stores, input
  <2> QED
    BY <2>1, <2>2, <2>3, <2>4, <2>5, <2>6 DEF Next, Serve, Quiescent
<1> QED
  BY <1>1, <1>2, TypeCorrect, TracesInvariant, LedgerInvariant, OrdersInvariant,
     PTL DEF Spec
-----------------------------------------------------------------------------
(* Row numbers of positions of a table count from one to their number.     *)
LEMMA RowNumberType ==
  ASSUME NEW n \in Nat, NEW S \in SUBSET (1..n), NEW i \in S
  PROVE  /\ IsFiniteSet(S) /\ Cardinality(S) \in Nat
         /\ IsFiniteSet({j \in S : j <= i})
         /\ RowNumber(i, S) \in 1..Cardinality(S)
<1> DEFINE upTo == {j \in S : j <= i}
<1>1. IsFiniteSet(S) /\ Cardinality(S) \in Nat
  <2>1. IsFiniteSet(1..n)  BY FS_Interval
  <2> QED  BY <2>1, FS_Subset, FS_CardinalityType
<1>2. IsFiniteSet(upTo) /\ Cardinality(upTo) <= Cardinality(S) /\ Cardinality(upTo) \in Nat
  <2>1. upTo \in SUBSET S  OBVIOUS
  <2> QED  BY <1>1, <2>1, FS_Subset, FS_CardinalityType
<1>3. Cardinality(upTo) # 0
  <2>1. i \in upTo  OBVIOUS
  <2> HIDE DEF upTo
  <2> QED  BY <1>2, <2>1, FS_EmptySet
<1> QED  BY <1>1, <1>2, <1>3 DEF RowNumber

(* A later position has a larger row number.                               *)
LEMMA RowNumberAscends ==
  ASSUME NEW n \in Nat, NEW S \in SUBSET (1..n), NEW i \in S, NEW j \in S, i < j
  PROVE  RowNumber(i, S) < RowNumber(j, S)
<1> DEFINE toI == {k \in S : k <= i}
           toJ == {k \in S : k <= j}
<1>1. IsFiniteSet(toJ)
  BY RowNumberType
<1>2. i \in Nat /\ j \in Nat /\ \A k \in S : k \in Nat
  OBVIOUS
<1>3. toI \in SUBSET toJ
  <2>1. \A k \in S : k <= i => k <= j  BY <1>2
  <2> QED  BY <2>1
<1>4. toI # toJ
  <2>1. j \in toJ /\ j \notin toI  BY <1>2
  <2> QED  BY <2>1
<1>5. /\ IsFiniteSet(toI)
      /\ Cardinality(toI) <= Cardinality(toJ) /\ Cardinality(toI) # Cardinality(toJ)
  <2> HIDE DEF toI, toJ
  <2> QED  BY <1>1, <1>3, <1>4, FS_Subset
<1>6. Cardinality(toI) \in Nat /\ Cardinality(toJ) \in Nat
  <2> HIDE DEF toI, toJ
  <2> QED  BY <1>1, <1>5, FS_CardinalityType
<1> QED  BY <1>5, <1>6 DEF RowNumber

(* Every number up to the size of the table is the number of one position. *)
LEMMA RowOfNumber ==
  ASSUME NEW n \in Nat, NEW S \in SUBSET (1..n), IsFiniteSet(S),
         NEW number \in 1..Cardinality(S)
  PROVE  \E k \in S : {m \in S : RowNumber(m, S) = number} = {k}
<1> DEFINE numbering == [k \in S |-> RowNumber(k, S)]
           numbers == 1..Cardinality(S)
<1>1. Cardinality(S) \in Nat
  BY FS_CardinalityType
<1>2. \A k, m \in S : RowNumber(k, S) = RowNumber(m, S) => k = m
  <2> SUFFICES ASSUME NEW k \in S, NEW m \in S, k # m
               PROVE  RowNumber(k, S) # RowNumber(m, S)
    OBVIOUS
  <2>1. k \in Nat /\ m \in Nat
    OBVIOUS
  <2>2. RowNumber(k, S) \in Nat /\ RowNumber(m, S) \in Nat
    <3>1. \A j \in S : RowNumber(j, S) \in 1..Cardinality(S)
      BY RowNumberType
    <3> QED  BY <1>1, <3>1
  <2>3. CASE k < m  BY <2>2, <2>3, RowNumberAscends
  <2>4. CASE m < k
    <3>1. RowNumber(m, S) < RowNumber(k, S)  BY <2>4, RowNumberAscends
    <3> QED  BY <2>2, <3>1
  <2> QED  BY <2>1, <2>3, <2>4
<1>3. numbering \in [S -> numbers]
  BY RowNumberType
<1>4. numbering \in Injection(S, numbers)
  BY <1>2, <1>3 DEF Injection, IsInjective
<1>5. IsFiniteSet(numbers) /\ Cardinality(numbers) = Cardinality(S)
  BY <1>1, FS_Interval
<1>6. numbering \in Surjection(S, numbers)
  <2> HIDE DEF numbering, numbers
  <2> QED  BY <1>4, <1>5, FS_Injection
<1>7. PICK k \in S : RowNumber(k, S) = number
  BY <1>6 DEF Surjection
<1> QED  BY <1>2, <1>7

(* A map that keeps the order of the positions of one table in another     *)
(* never lowers a row number, and keeps it if it meets every position.     *)
LEMMA NumbersKept ==
  ASSUME NEW n \in Nat, NEW A \in SUBSET (1..n), NEW R \in SUBSET (1..n),
         NEW own \in [A -> R], \A i, j \in A : i < j => own[i] < own[j],
         NEW i \in A
  PROVE  /\ RowNumber(i, A) <= RowNumber(own[i], R)
         /\ (\A k \in R : \E j \in A : own[j] = k) => RowNumber(i, A) = RowNumber(own[i], R)
<1> DEFINE toI == {j \in A : j <= i}
           toOwn == {k \in R : k <= own[i]}
           f == [j \in toI |-> own[j]]
<1>1. \A j \in A : j \in Nat /\ own[j] \in R /\ own[j] \in Nat
  <2>1. A \subseteq Nat /\ R \subseteq Nat  OBVIOUS
  <2>2. \A j \in A : own[j] \in R  OBVIOUS
  <2> QED  BY <2>1, <2>2
<1>2. \A j, k \in A : own[j] = own[k] => j = k
  <2> SUFFICES ASSUME NEW j \in A, NEW k \in A, j < k PROVE own[j] # own[k]
    BY <1>1
  <2>1. own[j] < own[k]  OBVIOUS
  <2> QED  BY <1>1, <2>1
<1>3. ASSUME NEW j \in A PROVE j <= i <=> own[j] <= own[i]
  <2>1. j < i => own[j] < own[i]  OBVIOUS
  <2>2. i < j => own[i] < own[j]  OBVIOUS
  <2> QED  BY <1>1, <2>1, <2>2
<1>4. f \in Injection(toI, toOwn)
  BY <1>2, <1>3 DEF Injection, IsInjective
<1>5. IsFiniteSet(toOwn)
  BY RowNumberType
<1>6. Cardinality(toI) <= Cardinality(toOwn)
  <2> HIDE DEF toI, toOwn, f
  <2> QED  BY <1>4, <1>5, FS_Injection
<1>7. ASSUME \A k \in R : \E j \in A : own[j] = k
      PROVE  Cardinality(toI) = Cardinality(toOwn)
  <2>1. \A k \in toOwn : \E j \in toI : f[j] = k
    BY <1>3, <1>7
  <2>2. f \in Surjection(toI, toOwn)
    BY <1>4, <2>1 DEF Injection, Surjection
  <2> HIDE DEF toI, toOwn, f
  <2> QED  BY <1>4, <1>5, <2>2, FS_Injection
<1> QED  BY <1>6, <1>7 DEF RowNumber

(* Each successful entry of a source has the row of its request among the  *)
(* rows of the source, and these rows stand in the order of the entries.   *)
LEMMA OwnRows ==
  ASSUME TypeOK, Ledger, Orders, LogOrder, NEW s
  PROVE  \E n \in Nat, own \in [Successes(s) -> RowsOf(s)] :
           /\ Successes(s) \in SUBSET (1..n) /\ RowsOf(s) \in SUBSET (1..n)
           /\ \A i \in Successes(s) : curated[own[i]] = audit[i].req
           /\ \A i, j \in Successes(s) : i < j => own[i] < own[j]
<1> DEFINE n == Len(audit) + Len(curated)
           own == [i \in Successes(s) |->
                     CHOOSE k \in RowsOf(s) : curated[k] = audit[i].req]
<1>1. /\ Len(audit) \in Nat /\ DOMAIN audit = 1..Len(audit)
      /\ Len(curated) \in Nat /\ DOMAIN curated = 1..Len(curated)
  BY DEF TypeOK
<1>2. /\ n \in Nat
      /\ Successes(s) \in SUBSET (1..n) /\ RowsOf(s) \in SUBSET (1..n)
  BY <1>1 DEF Successes, RowsOf, Entries, Rows
<1>3. ASSUME NEW i \in Successes(s)
      PROVE  \E k \in RowsOf(s) : curated[k] = audit[i].req
  <2>1. i \in DOMAIN audit /\ audit[i].source = s /\ audit[i].status = "SUCCESS"
    BY DEF Successes, Entries
  <2>2. audit[i].req \in Stored /\ source[audit[i].req] = s
    BY <2>1 DEF Ledger, RowsHappened, LogOrder, LogSourced
  <2> QED  BY <2>2 DEF Stored, Rng, RowsOf, Rows
<1>4. \A i \in Successes(s) : own[i] \in RowsOf(s) /\ curated[own[i]] = audit[i].req
  BY <1>3
<1>5. \A i, j \in Successes(s) : i < j => own[i] < own[j]
  <2> HIDE DEF own
  <2> QED  BY <1>4 DEF LogOrder, LogInRowOrder, Successes, RowsOf, Entries, Rows
<1>6. own \in [Successes(s) -> RowsOf(s)]
  BY <1>4
<1> QED  BY <1>2, <1>4, <1>5, <1>6

(* The view gives each entry one row, at or before the row of its request: *)
(* the entries up to it have as many rows of their own up to there.        *)
THEOREM LineageNotAhead == Spec => []LineageNeverAhead
<1>1. TypeOK /\ Ledger /\ Orders /\ LogOrder => LineageNeverAhead
  <2> SUFFICES ASSUME TypeOK, Ledger, Orders, LogOrder, NEW s \in Sources,
                      NEW i \in Successes(s)
               PROVE  \E k, o \in RowsOf(s) :
                        Lineage(s)[i] = {k} /\ curated[o] = audit[i].req /\ k <= o
    BY DEF LineageNeverAhead
  <2>1. PICK n \in Nat, own \in [Successes(s) -> RowsOf(s)] :
          /\ Successes(s) \in SUBSET (1..n) /\ RowsOf(s) \in SUBSET (1..n)
          /\ \A j \in Successes(s) : curated[own[j]] = audit[j].req
          /\ \A j, k \in Successes(s) : j < k => own[j] < own[k]
    BY OwnRows
  <2>2. own[i] \in RowsOf(s)
    OBVIOUS
  <2>3. /\ RowNumber(i, Successes(s)) <= RowNumber(own[i], RowsOf(s))
        /\ RowNumber(i, Successes(s)) \in Nat \ {0}
        /\ RowNumber(own[i], RowsOf(s)) \in 1..Cardinality(RowsOf(s))
        /\ IsFiniteSet(RowsOf(s)) /\ Cardinality(RowsOf(s)) \in Nat
    <3>1. RowNumber(i, Successes(s)) <= RowNumber(own[i], RowsOf(s))  BY <2>1, NumbersKept
    <3>2. /\ RowNumber(i, Successes(s)) \in 1..Cardinality(Successes(s))
          /\ Cardinality(Successes(s)) \in Nat
      BY <2>1, RowNumberType
    <3>3. /\ RowNumber(own[i], RowsOf(s)) \in 1..Cardinality(RowsOf(s))
          /\ IsFiniteSet(RowsOf(s)) /\ Cardinality(RowsOf(s)) \in Nat
      BY <2>1, <2>2, RowNumberType
    <3> QED  BY <3>1, <3>2, <3>3
  <2>4. PICK k \in RowsOf(s) :
          {m \in RowsOf(s) : RowNumber(m, RowsOf(s)) = RowNumber(i, Successes(s))} = {k}
    <3>1. RowNumber(i, Successes(s)) \in 1..Cardinality(RowsOf(s))  BY <2>3
    <3>2. IsFiniteSet(RowsOf(s)) /\ RowsOf(s) \in SUBSET (1..n)  BY <2>1, <2>3
    <3> QED  BY <3>1, <3>2, RowOfNumber
  <2>5. Lineage(s)[i] = {k}
    BY <2>4 DEF Lineage
  <2>6. k <= own[i]
    <3>1. SUFFICES ASSUME own[i] < k PROVE FALSE
      <4>1. RowsOf(s) \subseteq Nat  BY <2>1
      <4> QED  BY <4>1, <2>2
    <3>2. RowNumber(own[i], RowsOf(s)) < RowNumber(k, RowsOf(s))
      BY <2>1, <2>2, <3>1, RowNumberAscends
    <3>3. RowNumber(k, RowsOf(s)) = RowNumber(i, Successes(s))
      BY <2>4
    <3> QED  BY <2>3, <3>2, <3>3
  <2> QED  BY <2>1, <2>2, <2>5, <2>6
<1> QED
  BY <1>1, TypeCorrect, LedgerInvariant, OrdersInvariant, LogOrderInvariant, PTL

(* The view is exact for a source whose rows and successful entries belong *)
(* to the same requests.                                                   *)
THEOREM LineageExact == Spec => []LineageExactWhenComplete
<1>1. TypeOK /\ Ledger /\ Orders /\ LogOrder => LineageExactWhenComplete
  <2> SUFFICES ASSUME TypeOK, Ledger, Orders, LogOrder, NEW s \in Sources,
                      {curated[k] : k \in RowsOf(s)} = {audit[i].req : i \in Successes(s)},
                      NEW i \in Successes(s)
               PROVE  {curated[k] : k \in Lineage(s)[i]} = {audit[i].req}
    BY DEF LineageExactWhenComplete
  <2>1. PICK n \in Nat, own \in [Successes(s) -> RowsOf(s)] :
          /\ Successes(s) \in SUBSET (1..n) /\ RowsOf(s) \in SUBSET (1..n)
          /\ \A j \in Successes(s) : curated[own[j]] = audit[j].req
          /\ \A j, k \in Successes(s) : j < k => own[j] < own[k]
    BY OwnRows
  <2>2. own[i] \in RowsOf(s)
    OBVIOUS
  <2>3. \A k \in RowsOf(s) : \E j \in Successes(s) : own[j] = k
    <3> TAKE k \in RowsOf(s)
    <3>1. PICK j \in Successes(s) : curated[k] = audit[j].req
      OBVIOUS
    <3>2. own[j] \in RowsOf(s) /\ curated[own[j]] = curated[k]
      BY <2>1, <3>1
    <3> QED  BY <3>2 DEF Orders, OneCuratedRow, RowsOf, Rows
  <2>4. RowNumber(i, Successes(s)) = RowNumber(own[i], RowsOf(s))
    BY <2>1, <2>3, NumbersKept
  <2>5. /\ RowNumber(own[i], RowsOf(s)) \in 1..Cardinality(RowsOf(s))
        /\ IsFiniteSet(RowsOf(s))
    BY <2>1, <2>2, RowNumberType
  <2>6. PICK k \in RowsOf(s) :
          {m \in RowsOf(s) : RowNumber(m, RowsOf(s)) = RowNumber(own[i], RowsOf(s))} = {k}
    BY <2>1, <2>5, RowOfNumber
  <2>7. Lineage(s)[i] = {own[i]}
    BY <2>2, <2>4, <2>6 DEF Lineage
  <2> QED  BY <2>1, <2>7
<1> QED
  BY <1>1, TypeCorrect, LedgerInvariant, OrdersInvariant, LogOrderInvariant, PTL
=============================================================================
