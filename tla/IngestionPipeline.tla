-------------------------- MODULE IngestionPipeline --------------------------
(***************************************************************************)
(* One ingestion request from the HTTP body to the answer, through the four *)
(* stores it writes one after the other: the S3 landing bucket, the Kinesis *)
(* stream, the curated table and the audit table                            *)
(* (ingestion-service/services/ingestion_service.py and what it calls).     *)
(*                                                                         *)
(* The route handlers are coroutines that call the blocking ingest(), so a  *)
(* process runs one request at a time from the parse of its body to the     *)
(* return of the handler: the variable loop holds that request.  A crash    *)
(* can come between any two steps, or while a store has been sent a write   *)
(* that nobody waits for any more; the container is restarted, the stores   *)
(* keep what they were given and may yet apply what they were sent.         *)
(***************************************************************************)
EXTENDS Naturals, Sequences, FiniteSets

CONSTANTS
  Requests,     \* request ids; a client that retries uses another one
  Sources,      \* sources of metadata/sources.yaml
  LotSource,    \* the one source curated into mdm.lot_master ("mes")
  Unrouted,     \* sources whose logical stream streams.yaml does not define
  Routes,       \* the handlers in use: "api" (routes.py), "ui" (ui_routes.py)
  Defects,      \* what may be wrong with a request, "none" included
  Slow,         \* stores whose writes may take effect after their call
  MaxCrashes,   \* bound on the crashes of the process
  Nobody        \* no request

ASSUME LotSourceAssumption == LotSource \in Sources
ASSUME UnroutedAssumption == Unrouted \subseteq Sources
ASSUME MaxCrashesAssumption == MaxCrashes \in Nat
ASSUME NobodyAssumption == Nobody \notin Requests

VARIABLES
  route, source, defect,  \* what the client sent
  pc,          \* where each request is
  raised,      \* the exception it is unwinding with, "none" if none
  loop,        \* the request the event loop is running, or Nobody
  landed,      \* requests whose raw payload is an S3 object
  stream,      \* Kinesis records, in the order the shards took them
  late,        \* writes each store was sent, has not applied and still may
  curated,     \* rows of lot_master and raw_events by created_at, the rows of
               \* commits still under way included
  audit,       \* rows of ingestion_log, likewise
  session,     \* SQLAlchemy session of each request
  shown,       \* the curated row the validation page reported
  answer,      \* HTTP status sent, 0 before
  crashes

input == <<route, source, defect>>
stores == <<landed, stream, late, curated, audit>>
vars == <<input, pc, raised, loop, stores, session, shown, answer, crashes>>
-----------------------------------------------------------------------------
AllDefects ==
  {"none", "unparsable", "unknownSource", "unstorableSource", "disabledSource",
   "notAnObject", "schemaInvalid", "unserialisable", "badTimestamp",
   "undriverable"}
ASSUME RoutesAssumption == Routes \subseteq {"api", "ui"}
ASSUME DefectsAssumption == Defects \subseteq AllDefects

Exceptions == {"none", "validation", "sourceNotFound", "configuration",
               "storage", "kinesis", "database", "other"}
InHandler == {"lookup", "validate", "persist", "publish", "curate", "audit",
              "show", "respond"}
Stages == {"idle", "received", "done", "lost"} \union InHandler

Stores == {"landing", "kinesis", "curated", "audit"}
ASSUME SlowAssumption == Slow \subseteq Stores

Rng(seq) == {seq[i] : i \in DOMAIN seq}

(* created_at is a default computed by the insert, so a row has its place  *)
(* among the rows of its table before its commit makes it visible.         *)
Rows == {i \in DOMAIN curated : curated[i] \notin late["curated"]}
Entries == {i \in DOMAIN audit : audit[i].req \notin late["audit"]}
Stored == Rng(curated) \ late["curated"]
Logged == {audit[i].req : i \in Entries}

(* What the page of ui_routes.py can send and a source's own route cannot  *)
(* (a source name that is unknown, disabled or holds a NUL; a JSON payload *)
(* that is no object), and the defects only some sources' schemas let in.  *)
Possible(rt, s, d) ==
  /\ d \in {"unknownSource", "unstorableSource", "disabledSource", "notAnObject"}
       => rt = "ui"
  /\ d = "unserialisable" => rt = "api" /\ s # LotSource
  /\ d = "badTimestamp" => s = LotSource

(* Variants of StatusCode: a database failure reported as acceptance; any   *)
(* ValueError taken for the client's fault; a status of its own.           *)
StatusCodeBestEffort(rt, e) ==
  CASE e \in {"none", "database"} -> IF rt = "api" THEN 202 ELSE 200
    [] e = "validation" -> 400
    [] e = "sourceNotFound" -> 404
    [] e \in {"storage", "kinesis"} -> 502
    [] OTHER -> 500
StatusCodeBlaming(rt, e) ==
  CASE e = "none" -> IF rt = "api" THEN 202 ELSE 200
    [] e \in {"validation", "other"} -> 400
    [] e = "sourceNotFound" -> 404
    [] e \in {"storage", "kinesis", "database"} -> 502
    [] OTHER -> 500
StatusCodeUnavailable(rt, e) ==
  CASE e = "none" -> IF rt = "api" THEN 202 ELSE 200
    [] e = "validation" -> 400
    [] e = "sourceNotFound" -> 404
    [] e \in {"storage", "kinesis", "database"} -> 503
    [] OTHER -> 500

(* default_status_code of the exceptions; anything else is a 500, and the  *)
(* page of ui_routes.py returns its dict with the default status.          *)
StatusCode(rt, e) ==
  CASE e = "none" -> IF rt = "api" THEN 202 ELSE 200
    [] e = "validation" -> 400
    [] e = "sourceNotFound" -> 404
    [] e \in {"storage", "kinesis", "database"} -> 502
    [] OTHER -> 500

Goto(r, stage) == pc' = [pc EXCEPT ![r] = stage]
(* Variants of Raise: the landing bucket taken for a best-effort copy; a    *)
(* payload that fails its schema validated again on fresh metadata.        *)
RaiseUnlessStorage(r, e) ==
  IF e = "storage" THEN Goto(r, "publish") /\ UNCHANGED raised
  ELSE raised' = [raised EXCEPT ![r] = e] /\ Goto(r, "audit")
RaiseUnlessStale(r, e) ==
  IF e = "validation" THEN Goto(r, "lookup") /\ UNCHANGED raised
  ELSE raised' = [raised EXCEPT ![r] = e] /\ Goto(r, "audit")
Raise(r, e) == raised' = [raised EXCEPT ![r] = e] /\ Goto(r, "audit")
-----------------------------------------------------------------------------
Init ==
  /\ route = [r \in Requests |-> "api"]
  /\ source = [r \in Requests |-> LotSource]
  /\ defect = [r \in Requests |-> "none"]
  /\ pc = [r \in Requests |-> "idle"]
  /\ raised = [r \in Requests |-> "none"]
  /\ loop = Nobody
  /\ landed = {}
  /\ stream = << >>
  /\ late = [store \in Stores |-> {}]
  /\ curated = << >>
  /\ audit = << >>
  /\ session = [r \in Requests |-> "clean"]
  /\ shown = [r \in Requests |-> Nobody]
  /\ answer = [r \in Requests |-> 0]
  /\ crashes = 0

(* A client posts a body; the coroutine awaits it and queues on the loop.  *)
Submit(r, rt, s, d) ==
  /\ pc[r] = "idle"
  /\ Possible(rt, s, d)
  /\ route' = [route EXCEPT ![r] = rt]
  /\ source' = [source EXCEPT ![r] = s]
  /\ defect' = [defect EXCEPT ![r] = d]
  /\ Goto(r, "received")
  /\ UNCHANGED <<raised, loop, stores, session, shown, answer, crashes>>

(* Variant: a handler declared def, which runs on a thread of the pool.    *)
ThreadIsFree == TRUE
(* Handlers are async def and never await between parse and return.        *)
LoopIsFree == loop = Nobody

(* The handler parses before it calls ingest: a body that does not parse   *)
(* raises outside the try/finally that writes the audit row.  The parsers  *)
(* of the source routes turn most errors into a ValidationException, not   *)
(* those of csv.reader nor a YAML date out of range; the page turns none.  *)
ParseBody(r) ==
  /\ pc[r] = "received" /\ LoopIsFree
  /\ loop' = r
  /\ IF defect[r] = "unparsable"
       THEN /\ \E e \in {"validation", "other"} :
                 /\ e = "validation" => route[r] = "api"
                 /\ raised' = [raised EXCEPT ![r] = e]
            /\ Goto(r, "respond")
       ELSE Goto(r, "lookup") /\ UNCHANGED raised
  /\ UNCHANGED <<input, stores, session, shown, answer, crashes>>

GetSource(r) ==
  /\ pc[r] = "lookup"
  /\ \/ /\ defect[r] \in {"unknownSource", "unstorableSource"}
        /\ Raise(r, "sourceNotFound")
     \/ /\ defect[r] = "disabledSource"
        /\ Raise(r, "configuration")
     \/ /\ defect[r] \notin {"unknownSource", "unstorableSource", "disabledSource"}
        /\ Goto(r, "validate") /\ UNCHANGED raised
  /\ UNCHANGED <<input, loop, stores, session, shown, answer, crashes>>

Validate(r) ==
  /\ pc[r] = "validate"
  /\ \/ defect[r] = "notAnObject" /\ Raise(r, "other")
     \/ defect[r] = "schemaInvalid" /\ Raise(r, "validation")
     \/ /\ defect[r] \notin {"notAnObject", "schemaInvalid"}
        /\ Goto(r, "persist") /\ UNCHANGED raised
  /\ UNCHANGED <<input, loop, stores, session, shown, answer, crashes>>

(* timer() stores duration_ms when its block is left; ingest returns from  *)
(* that block, so the finally clause still reads an empty dict.            *)
ElapsedMs(r) == IF pc[r] \in InHandler \ {"respond", "show"} THEN "null" ELSE "ms"

(* Variant: SUCCESS assigned before the curated insert instead of after.   *)
AuditRowEarly(r) ==
  [req |-> r, source |-> source[r],
   status |-> IF raised[r] \in {"none", "database"} THEN "SUCCESS" ELSE "FAILED",
   streamed |-> r \in Rng(stream) /\ raised[r] # "kinesis",
   duration |-> ElapsedMs(r)]
AuditRow(r) ==
  [req |-> r, source |-> source[r],
   status |-> IF raised[r] = "none" THEN "SUCCESS" ELSE "FAILED",
   streamed |-> r \in Rng(stream) /\ raised[r] # "kinesis",
   duration |-> ElapsedMs(r)]

(* A write whose call failed or died before its outcome was known, and     *)
(* which its store may apply later: a request of botocore that timed out,  *)
(* a commit whose connection broke.  Nothing is sent for a payload that    *)
(* json.dumps refuses, on a stream that is not configured, or of values    *)
(* the conversion or the driver refuses.                                   *)
Delay(store, r) == store \in Slow /\ late' = [late EXCEPT ![store] = @ \union {r}]
InFlight(r) ==
  \/ /\ pc[r] = "persist" /\ defect[r] # "unserialisable"
     /\ Delay("landing", r) /\ UNCHANGED <<landed, stream, curated, audit>>
  \/ /\ pc[r] = "publish" /\ source[r] \notin Unrouted
     /\ Delay("kinesis", r) /\ UNCHANGED <<landed, stream, curated, audit>>
  \/ /\ pc[r] = "curate" /\ defect[r] \notin {"badTimestamp", "undriverable"}
     /\ curated' = Append(curated, r)
     /\ Delay("curated", r) /\ UNCHANGED <<landed, stream, audit>>
  \/ /\ pc[r] = "audit" /\ defect[r] # "unstorableSource" /\ session[r] = "clean"
     /\ audit' = Append(audit, AuditRow(r))
     /\ Delay("audit", r) /\ UNCHANGED <<landed, stream, curated>>

(* put_object; a ClientError or BotoCoreError does not say whether the     *)
(* object was stored, or still will be.  A retry puts the same key again.  *)
Persist(r) ==
  /\ pc[r] = "persist"
  /\ \/ /\ defect[r] = "unserialisable"
        /\ Raise(r, "other") /\ UNCHANGED stores
     \/ /\ defect[r] # "unserialisable"
        /\ \/ /\ landed' = landed \union {r}
              /\ Goto(r, "publish") /\ UNCHANGED raised
           \/ /\ landed' \in {landed, landed \union {r}}
              /\ Raise(r, "storage")
        /\ UNCHANGED <<stream, late, curated, audit>>
     \/ InFlight(r) /\ Raise(r, "storage")
  /\ UNCHANGED <<input, loop, session, shown, answer, crashes>>

(* put_record under botocore's own retries: an attempt that timed out may  *)
(* have been applied, or may be applied later, whatever the call returns,  *)
(* and each one applied is a record of its own.                            *)
Publish(r) ==
  /\ pc[r] = "publish"
  /\ \/ /\ source[r] \in Unrouted
        /\ Raise(r, "configuration") /\ UNCHANGED <<stream, late>>
     \/ /\ source[r] \notin Unrouted
        /\ Delay("kinesis", r) \/ UNCHANGED late
        /\ \/ /\ stream' = Append(stream, r)
              /\ Goto(r, "curate") /\ UNCHANGED raised
           \/ /\ stream' \in {stream, Append(stream, r)}
              /\ Raise(r, "kinesis")
  /\ UNCHANGED <<input, loop, landed, curated, audit, session, shown, answer,
                 crashes>>

(* A store applies what it was sent, with the client told or not.          *)
LateWrite(store, r) ==
  /\ r \in late[store]
  /\ late' = [late EXCEPT ![store] = @ \ {r}]
  /\ landed' = IF store = "landing" THEN landed \union {r} ELSE landed
  /\ stream' = IF store = "kinesis" THEN Append(stream, r) ELSE stream
  /\ UNCHANGED <<input, pc, raised, loop, curated, audit, session, shown,
                 answer, crashes>>

(* BaseRepository.add: a commit whose outcome is lost and a refresh that   *)
(* fails after the commit both raise DatabaseException over a stored row.  *)
(* An error that is no SQLAlchemyError leaves add without a rollback and   *)
(* the session unusable.                                                   *)
Curate(r) ==
  /\ pc[r] = "curate"
  /\ \/ /\ defect[r] = "badTimestamp"
        /\ Raise(r, "other") /\ UNCHANGED <<stores, session>>
     \/ /\ defect[r] = "undriverable"
        /\ session' = [session EXCEPT ![r] = "poisoned"]
        /\ Raise(r, "other") /\ UNCHANGED stores
     \/ /\ defect[r] \notin {"badTimestamp", "undriverable"}
        /\ \/ /\ curated' = Append(curated, r)
              /\ Goto(r, "audit") /\ UNCHANGED raised
           \/ /\ curated' \in {curated, Append(curated, r)}
              /\ Raise(r, "database")
        /\ UNCHANGED <<landed, stream, late, audit, session>>
     \/ InFlight(r) /\ Raise(r, "database") /\ UNCHANGED session
  /\ UNCHANGED <<input, loop, shown, answer, crashes>>

(* Variant: the audit insert retried until it is seen stored.              *)
AfterAuditRetrying(r) ==
  IF r \notin Logged THEN "audit"
  ELSE IF raised[r] = "none" /\ route[r] = "ui" THEN "show" ELSE "respond"
AfterAudit(r) == IF raised[r] = "none" /\ route[r] = "ui" THEN "show" ELSE "respond"

(* The finally clause.  A DatabaseException is swallowed, its row stored,  *)
(* lost or still on its way; on a poisoned session the add fails, rolls    *)
(* back and loses the row; a value the driver cannot bind escapes and      *)
(* replaces the exception in flight.                                       *)
WriteAuditLog(r) ==
  /\ pc[r] = "audit"
  /\ \/ /\ defect[r] = "unstorableSource"
        /\ raised' = [raised EXCEPT ![r] = "other"]
        /\ Goto(r, "respond") /\ UNCHANGED <<stores, session>>
     \/ /\ session[r] = "poisoned"
        /\ session' = [session EXCEPT ![r] = "clean"]
        /\ Goto(r, AfterAudit(r)) /\ UNCHANGED <<stores, raised>>
     \/ /\ defect[r] # "unstorableSource" /\ session[r] = "clean"
        /\ \/ /\ audit' \in {audit, Append(audit, AuditRow(r))}
              /\ UNCHANGED <<landed, stream, late, curated>>
           \/ InFlight(r)
        /\ Goto(r, AfterAudit(r)) /\ UNCHANGED <<raised, session>>
  /\ UNCHANGED <<input, loop, shown, answer, crashes>>

(* The validation page reads back the newest curated row of the source (of *)
(* the lot, for mes: every request of the model is about the same lot).    *)
RowsOf(s) == {i \in Rows : source[curated[i]] = s}
OldestRow(s) ==    \* variant: ascending order
  {curated[i] : i \in {i \in RowsOf(s) : \A j \in RowsOf(s) : i <= j}}
LatestRow(s) ==
  {curated[i] : i \in {i \in RowsOf(s) : \A j \in RowsOf(s) : j <= i}}

ShowStored(r) ==
  /\ pc[r] = "show"
  /\ \/ /\ \E row \in LatestRow(source[r]) \union {Nobody} :
             /\ row = Nobody <=> LatestRow(source[r]) = {}
             /\ shown' = [shown EXCEPT ![r] = row]
        /\ UNCHANGED raised
     \/ raised' = [raised EXCEPT ![r] = "other"] /\ UNCHANGED shown
  /\ Goto(r, "respond")
  /\ UNCHANGED <<input, loop, stores, session, answer, crashes>>

Respond(r) ==
  /\ pc[r] = "respond"
  /\ answer' = [answer EXCEPT ![r] = StatusCode(route[r], raised[r])]
  /\ loop' = Nobody
  /\ Goto(r, "done")
  /\ UNCHANGED <<input, raised, stores, session, shown, crashes>>

(* The process dies, perhaps with a write sent and not answered, and       *)
(* compose restarts it ("unless-stopped").                                 *)
Crash ==
  /\ crashes < MaxCrashes
  /\ crashes' = crashes + 1
  /\ pc' = [r \in Requests |->
              IF pc[r] \in {"idle", "done"} THEN pc[r] ELSE "lost"]
  /\ loop' = Nobody
  /\ session' = [r \in Requests |-> "clean"]
  /\ \/ UNCHANGED stores
     \/ loop # Nobody /\ InFlight(loop)
  /\ UNCHANGED <<input, raised, shown, answer>>

Serve(r) ==
  \/ ParseBody(r) \/ GetSource(r) \/ Validate(r) \/ Persist(r) \/ Publish(r)
  \/ Curate(r) \/ WriteAuditLog(r) \/ ShowStored(r) \/ Respond(r)

(* Nothing is left to do, or to arrive: not a deadlock.                    *)
Quiescent ==
  /\ \A r \in Requests : pc[r] \in {"done", "lost"}
  /\ UNCHANGED vars

Next ==
  \/ \E r \in Requests :
       \/ \E rt \in Routes, s \in Sources, d \in Defects : Submit(r, rt, s, d)
       \/ Serve(r)
       \/ \E store \in Stores : LateWrite(store, r)
  \/ Crash
  \/ Quiescent

(* Once a body has arrived its coroutine is on the ready queue, and the    *)
(* loop runs what is ready; nothing obliges a client to post, a crash to   *)
(* happen or a late write to be applied.                                   *)
Spec == Init /\ [][Next]_vars /\ \A r \in Requests : WF_vars(Serve(r))
-----------------------------------------------------------------------------
AuditRows == [req : Requests, source : Sources, status : {"SUCCESS", "FAILED"},
              streamed : BOOLEAN, duration : {"null", "ms"}]

(* The variables hold what the code can put in them; in particular every   *)
(* answer is one of the status codes the routes and handlers declare.      *)
TypeOK ==
  /\ route \in [Requests -> {"api", "ui"}]
  /\ source \in [Requests -> Sources]
  /\ defect \in [Requests -> AllDefects]
  /\ pc \in [Requests -> Stages]
  /\ raised \in [Requests -> Exceptions]
  /\ loop \in Requests \union {Nobody}
  /\ landed \subseteq Requests
  /\ stream \in Seq(Requests)
  /\ late \in [Stores -> SUBSET Requests]
  /\ curated \in Seq(Requests)
  /\ audit \in Seq(AuditRows)
  /\ session \in [Requests -> {"clean", "poisoned"}]
  /\ shown \in [Requests -> Requests \union {Nobody}]
  /\ answer \in [Requests -> {0, 200, 202, 400, 404, 500, 502}]
  /\ crashes \in 0..MaxCrashes

Accepted(r) == answer[r] \in {200, 202}
Refused(r) == answer[r] \in {400, 404}

(* A request answered with success is in the landing bucket, on its stream *)
(* and in its curated table, whatever failed, crashed or was retried in    *)
(* the meantime (ingest returns only after the three writes).              *)
AcceptedIsDurable ==
  \A r \in Requests :
    Accepted(r) => r \in landed /\ r \in Rng(stream) /\ r \in Stored

(* The stores are written in the order of the code, so a reader that finds *)
(* a row also finds its record and its object, across crashes and writes   *)
(* that take effect under a failed call or after it; what is still under   *)
(* way will find them too.                                                 *)
WriteOrder ==
  /\ Rng(curated) \subseteq Rng(stream)
  /\ Rng(stream) \union late["kinesis"] \subseteq landed

(* A client told that its request is at fault (400, 404) may correct it    *)
(* and post again: the refused one left nothing in the three data stores,  *)
(* and nothing that is still to arrive there.                              *)
RefusedLeavesNoTrace ==
  \A r \in Requests :
    Refused(r) => /\ r \notin landed \union Rng(stream) \union Rng(curated)
                  /\ \A store \in Stores \ {"audit"} : r \notin late[store]

(* What the audit table says happened did: a SUCCESS row has its three     *)
(* writes, a FAILED row is never the row of a request answered with        *)
(* success, and a row that names a stream has its record on it.            *)
AuditTellsTruth ==
  \A i \in DOMAIN audit :
    LET r == audit[i].req
    IN  /\ audit[i].status = "SUCCESS" =>
             r \in landed /\ r \in Rng(stream) /\ r \in Stored
        /\ audit[i].status = "FAILED" => ~Accepted(r)
        /\ audit[i].streamed => r \in Rng(stream)

(* However a write ends, its request has at most one curated row and at    *)
(* most one audit row: nothing is written again after an unknown outcome.  *)
AtMostOnce ==
  /\ \A i, j \in DOMAIN curated : curated[i] = curated[j] => i = j
  /\ \A i, j \in DOMAIN audit : audit[i].req = audit[j].req => i = j

(* Consumers of a stream and readers of a table see requests in the same   *)
(* order: if one row is older than another, some record of its request     *)
(* precedes every record of the other.  It rests on the handlers blocking  *)
(* the event loop.                                                         *)
CuratedInStreamOrder ==
  \A i, j \in DOMAIN curated : i < j =>
    \E k \in DOMAIN stream :
      /\ stream[k] = curated[i]
      /\ \A m \in DOMAIN stream : stream[m] = curated[j] => k < m

(* The validation page reports the newest row of the source, not the row   *)
(* of the request it answers; no other request can write in between.       *)
UiShowsOwnRow == \A r \in Requests : shown[r] \in {r, Nobody}

(* v_ingestion_lineage numbers the successful log entries of a source, and *)
(* its curated rows, each by creation (ROW_NUMBER), and gives an entry the *)
(* row of its own number: Lineage(s)[i] is that row, or none.              *)
Successes(s) ==
  {i \in Entries : audit[i].source = s /\ audit[i].status = "SUCCESS"}
RowNumber(i, positions) == Cardinality({j \in positions : j <= i})
Lineage(s) ==
  [i \in Successes(s) |->
     {k \in RowsOf(s) : RowNumber(k, RowsOf(s)) = RowNumber(i, Successes(s))}]

(* The join gives every entry one row, and never one newer than the row of *)
(* its own request: lost audit rows and rows of failed requests only push  *)
(* it towards older rows.                                                  *)
LineageNeverAhead ==
  \A s \in Sources : \A i \in Successes(s) :
    \E k, own \in RowsOf(s) :
      Lineage(s)[i] = {k} /\ curated[own] = audit[i].req /\ k <= own

(* Where every curated row of a source has its SUCCESS entry, the join     *)
(* pairs each entry with its own row: rows and entries are written in the  *)
(* same order.                                                             *)
LineageExactWhenComplete ==
  \A s \in Sources :
    {curated[k] : k \in RowsOf(s)} = {audit[i].req : i \in Successes(s)} =>
      \A i \in Successes(s) :
        {curated[k] : k \in Lineage(s)[i]} = {audit[i].req}

(* Every body that arrives is answered or lost with the process: no        *)
(* failure of a store leaves a handler holding the loop.                   *)
EveryRequestEnds ==
  \A r \in Requests : pc[r] = "received" ~> pc[r] \in {"done", "lost"}

(* What the promise sees of the pipeline.                                  *)
StageOf(r) ==
  CASE r \in Stored -> 3
    [] r \in Rng(stream) \ Stored -> 2
    [] r \in landed \ (Rng(stream) \union Stored) -> 1
    [] OTHER -> 0
VerdictOf(r) ==
  CASE Accepted(r) -> "accepted"
    [] Refused(r) -> "refused"
    [] answer[r] \in {500, 502} \/ pc[r] = "lost" -> "failed"
    [] OTHER -> "open"
DueOf(r) ==
  /\ VerdictOf(r) = "failed"
  /\ \/ StageOf(r) = 0 /\ r \in late["landing"]
     \/ StageOf(r) = 1 /\ r \in late["kinesis"]
     \/ StageOf(r) = 2 /\ r \in late["curated"]
Promise == INSTANCE IngestionPromise
             WITH stage <- [r \in Requests |-> StageOf(r)],
                  verdict <- [r \in Requests |-> VerdictOf(r)],
                  due <- [r \in Requests |-> DueOf(r)]
(* The pipeline implements the promise of IngestionPromise.                *)
KeepsPromise == Promise!Spec

-----------------------------------------------------------------------------
(* Statements of the repository's own texts that the code does not keep.   *)

(* tables.py:52: ingestion_log is the "Audit log of every ingestion        *)
(* request", so an answered request has a row.  Checked where no store     *)
(* fails: a body that does not parse is refused before ingest is called.   *)
EveryAnswerAudited == \A r \in Requests : pc[r] = "done" => r \in Logged

(* ingestion_service.py:124 passes the measured time of the request to its *)
(* row, and ui_routes.py:155 shows it.                                     *)
AuditHasDuration == \A i \in DOMAIN audit : audit[i].duration = "ms"

(* init.sql:54-55: the view "pairs each successful ingestion_log entry     *)
(* with its curated row by source and chronological sequence".             *)
LineagePairsOwnRow ==
  \A s \in Sources : \A i \in Successes(s) :
    {curated[k] : k \in Lineage(s)[i]} = {audit[i].req}

(* developer-guide.md:134: a payload its schema rules out is rejected      *)
(* with 400.  lot_completed.json:45-48 asks for a date-time, the validator *)
(* does not check formats, and the curation fails on it after the payload  *)
(* has been landed and published.                                          *)
InvalidIsRefused ==
  \A r \in Requests :
    pc[r] = "done" /\ defect[r] \in {"schemaInvalid", "badTimestamp"} => Refused(r)
=============================================================================
