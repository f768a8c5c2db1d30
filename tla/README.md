# A TLA+ verification of the Semiconductor Operations Data Platform

The platform ingests manufacturing events over HTTP, keeps each raw payload in an S3
landing bucket, publishes it on a Kinesis stream, curates it into PostgreSQL and writes an
audit row. This directory models that path, the caches and connections its requests share,
the metadata it works from while sources are added, the LocalStack below it and the job that
normalizes raw files, as TLA+ modules that TLC checks on small instances and TLAPS proves
about for all of them. Paths below are relative to the repository.

## 1. Inventory

| Component | State | Operations | Talks to |
|---|---|---|---|
| Ingestion pipeline, `ingestion-service/services/ingestion_service.py` | none of its own; per request: status, stream name, exception in flight | `ingest`, `_write_audit_log` | registry, validator, S3, Kinesis, session |
| Ingestion routes, `api/routes.py` | routes registered at start-up | one coroutine per enabled source: await the body, parse, call `ingest` | parsers, pipeline |
| Validation page, `api/ui_routes.py` | none | POST: `ingest`, then read back the newest curated row | pipeline, session |
| Exceptions, `common/exceptions`, `api/exception_handlers.py` | none | exception to status code | every route |
| Curation, `repository/curation_service.py`, `common/repository` | rows of `lot_master`, `raw_events`, `ingestion_log` | `curate`, `BaseRepository.add` | session |
| Session and engine, `common/models/base.py`, `api/dependencies.py` | connection pool, one session per request | `get_session`, checkout, commit, close | every handler and probe |
| Lineage view, `scripts/sql/init.sql` | derived | join of log entries and rows by rank | readers |
| Configuration loader, `common/config/loader.py`; registry, `metadata_registry.py` | cache of parsed files, one lock | `load`, `clear_cache`, readers | event loop and worker threads |
| Start-up, `ingestion-service/main.py` | routes of the process | read the sources, register a route for each enabled one | registry |
| Schema validator, `common/validation/validator.py` | cache of schemas, one lock | `_load_schema`, `validate` | pipeline |
| Format parsers, `parser/` | alias and parser tables | `_resolve_format`, `parse` | routes, normalization |
| S3 client, Kinesis publisher, secrets, `common/aws` | external stores | puts, gets, listing, `publish`, `ensure_*`, `put_secret`, health checks | pipeline, normalization, probes |
| LocalStack, `docker-compose.yml`, `infrastructure/localstack/init-aws.sh` | bucket, streams, secrets, lost on restart | restart, provisioning script | clients |
| S3 normalization job, `services/s3_normalization_service.py`, `scripts/normalize_s3_files.py` | none; reads and writes a prefix | `normalize_prefix` | S3 client, parsers |
| Health, configuration routes | none | sample components, list metadata, on worker threads | session, clients, loader |
| Middleware, logging | none | logging, a header | |
| Governance, lakehouse, traceability, agents, intelligence, CloudWatch | in-memory lists | scaffolding called by tests only | nothing |

What is hard here is not any one function but what lies between them:

* four stores are written one after the other with no transaction across them; each write
  may fail after it took effect or take effect after it failed, the process may die between any
  two, and puts are retried below the code;
* a `finally` clause writes the audit row while an exception is in flight, on a session the
  exception may have left unusable;
* handlers are coroutines that never await during `ingest`: they block the event loop, which
  orders everything, and finished requests need that loop to give their connection back;
* two caches are read without their lock and then again with it;
* a view reconstructs a relation between two tables from nothing but the order of their rows;
* the normalization job lists a prefix into which it, other jobs and uploads write;
* a process reads its metadata file by file, each when it is first needed, and keeps what it
  read: while a source is being added it may work from a mix that was never on disk together;
* LocalStack comes back empty from a restart, its services answer or not one by one, and its
  script and the clients create the same streams without knowing of each other.

`PROJECT.json` lists each hazard at its line with the properties that are about it.

What makes each component correct, in a sentence: the pipeline keeps what it accepted in
every store, leaves no trace of what it refused as the client's fault, and its audit table
tells the truth; the caches parse once and never return what was dropped; the pool gives
back every connection and every request ends; the job covers every file that was there and
never feeds on its own output; the dictionary of an XML document loses nothing of it; a new
source works after the guide's last step and harms no other source on the way, unless the edit
spoils what is there of them; what a call of a wrapper has ensured lasts as long as the
container, and a probe tells the truth.

## 2. Modules

| Module | Models | Extends / used by |
|---|---|---|
| `IngestionPromise` | what a client is promised about one request: stage and verdict | abstract specification |
| `IngestionPipeline` | requests through route, `ingest`, stores, audit, page and crash | refines `IngestionPromise` |
| `IngestionPipelineProofs` | theorems about it | extends `IngestionPipeline`, TLAPS |
| `IngestionPromiseProofs` | the pipeline implements its promise, for every set of requests | extends `IngestionPipelineProofs` |
| `EventLoopPool` | the event loop's ready queue and the connection pool | |
| `EventLoopPoolProofs` | theorems about it | extends `EventLoopPool`, TLAPS |
| `AtomicCache` | the caches as their callers may think of them: a call is one step | abstract specification |
| `ConfigCache` | the two double-checked caches | refines `AtomicCache` |
| `ConfigCacheProofs` | theorems about it, and that it implements `AtomicCache` | extends `ConfigCache`, TLAPS |
| `S3Normalization` | normalization jobs over a growing prefix | |
| `S3NormalizationProofs` | theorems about it | extends `S3Normalization`, TLAPS |
| `FormatParsing` | choice of a parser, conversion of XML, the schema's verdict | |
| `FormatParsingProofs` | theorems about it | extends `FormatParsing`, TLAPS |
| `SourceOnboarding` | a process and its metadata while a source is added | |
| `SourceOnboardingProofs` | theorems about it | extends `SourceOnboarding`, TLAPS |
| `LocalStackBootstrap` | LocalStack, its script, the AWS wrappers and health probes | |
| `LocalStackBootstrapProofs` | theorems about it | extends `LocalStackBootstrap`, TLAPS |
| `MC*` | constant definitions and symmetry for TLC; the other configurations give their constants directly | |

### IngestionPipeline

A request is a route (`"api"`, `"ui"`), a source and what is wrong with it (a member of
`Defects`, `"none"` included): payloads matter only by what the code makes of them.
`Possible` says which defects a client can get through which route. The state of a request is
`pc` (its next step in the handler), `raised` (the exception in flight), `session`, `shown`
and `answer`; the stores are `landed`, `stream`, `curated` and `audit`, the last two in the
order of `created_at` (the clock of the process is taken not to step back). `late` holds, per
store, the writes it was sent and may still apply: a put of botocore that timed out, a commit
whose connection broke, whatever was under way when the process died. A row has its place in
its table from the insert on, and counts (`Stored`, `Logged`) once its commit is through.
`Slow` names the stores that do this.

| Action | Code |
|---|---|
| `Submit`, `ParseBody` | `routes.py` 48-58, `ui_routes.py` 98-104: parsing is outside `ingest` and its `finally` |
| `GetSource`, `Validate` | `ingestion_service.py` 83-93 with the registry and the validator |
| `Persist`, `Publish` | lines 96-101 with `put_raw_payload`, `publish`; an error leaves the effect open, or still to come (`InFlight`) |
| `Curate` | line 104-105 with `curate` and `BaseRepository.add` |
| `WriteAuditLog` | the `finally` clause, 117-125 and 146-157 |
| `ShowStored`, `Respond` | `ui_routes.py` 108-158; exception handlers, status codes |
| `Crash` | the container dies, perhaps with a write under way, and is restarted (`docker-compose.yml`, `unless-stopped`) |
| `LateWrite` | a store applies a write its client no longer waits for |

`loop` is the handler that runs: only `ParseBody` asks for it to be free, because a handler
never awaits after that. A body that takes long to arrive does not hold it (`Submit`).

### EventLoopPool

The same handlers seen from the resources they share. FastAPI closes a request's session
after the handler returned, and that exit starts with a checkpoint: the request goes to the
end of `ready`, so all handlers that are ready run first, each blocking the loop at its
checkouts. `Turn` is one turn of the loop; `Insert` to `AuditRefresh` are the database steps
of `BaseRepository.add` for the curated row and for the audit row; `Close` runs on a worker.
A probe runs `SELECT 1` on a worker (`Probe`) and keeps its connection while the same worker
asks S3 and Kinesis (`AskServices`): its transaction is still open. A checkout times out
(`Exhausted`) whenever no connection is free: neither a `close` nor a probe of a LocalStack that
does not answer need be shorter than the 30 s of `pool_timeout`.

### ConfigCache

One step per effect on shared state of `load` and `_load_schema`: the unlocked test and the
second lookup of the hit (`Check`, `Get`), the lock, the test under it, the read, the store.
`Edit` replaces a file at any time. History variables record how often a file was parsed,
whether a clear ran during a call, and the oldest content a call may return. In the repository
only tests call `clear_cache`; it is modelled because it is part of the loader's interface.

`AtomicCache` is what a caller would like to assume: a call serves what is cached, or reads the
file and caches it, all in one step. `CallsAreAtomic` says that the interleaved steps of the
caches amount to that. A miss takes effect when the file is read: what the reader holds counts
as cached from there on (`CacheSeen`), since nobody can look before it is stored. A hit takes
effect at its lookup. The one visible seam is the `KeyError` of the unlocked hit, which
`AtomicCache` allows only to a call during which the cache was cleared (`Miss`).

### S3Normalization

Keys are their rank in the listing order of S3. Raw keys sort before the outputs, as dated keys
do beside `mes/normalized/`, and after them, as `files/native/work_orders_sample.csv` does after
`files/native/normalized/` in `smoke_test.sh`; only that the two differ is assumed. `List` is
one page, which S3 may cut short but not beyond its limit; `Visit` and `Put` are the loop of
`normalize_prefix`; every S3 call may fail, a put with or without effect. Jobs and uploads
interleave. Two facts of the code shape its properties: the limit is tested after a put, so a
limit of zero or less acts as one (`AtLeastOne`); and the output is named by the stem of its
file, so files of one stem overwrite each other's output and `DoneCovers` accepts the object of
another file of the same name that is there too.

### FormatParsing

A body is the format its client wrote and whether its document conforms to the schema.
`Readings` lists what each parser may make of each format, wrong ones included: PyYAML refuses
or alters some JSON, makes dates of timestamps that are not quoted, and it, `json` and `csv` have
exceptions the parsers do not catch (`"crash"`, answered with 500). `Verdicts` is what the schema
may say: a date passes only where properties of any type are allowed (`Open`), and what YAML has
altered may pass or not. For XML the
payload itself is modelled: `ElementToDict` is `_element_to_dict` over elements of a tag,
attributes, a text and children, and `Merged` its loop, which files the children one after the
other with `Added`. Attributes and texts are values; text after a child (a tail) is not part of
an element, the code drops it. Two assumptions say what a document is: elements form a tree
(`Depth` falls from an element to its children), and no tag is one of the two keys the code
makes up, `@attributes` and `#text`, which are not names in XML.

### SourceOnboarding

The guide (`docs/developer-guide.md`, section 12) adds a source by editing metadata files and
restarting the service. A file is abstracted to what it says of the new source, `Added`:
nothing, an entry without its fields, a disabled one, all it should; or to the mistake it holds:
it does not parse, nothing is left below its top (`"emptied"`, which the loader caches all the
same and on which every lookup fails), or the entries of other sources, `Spoilt`, are gone or
incomplete (`"dropped"`, `"damaged"`). `Entry` is what a file then says of a source.
`cached` is what this process has read, `routes` what its start-up made of the sources.

| Action | Code |
|---|---|
| `Edit`, `Provision` | the operator; the stream is created by hand, `init-aws.sh` knows four names |
| `Start` | import of `main.py`: `build_ingestion_router`, which raises for any incomplete source |
| `Stop` | the process ends; `cached` and `routes` go with it (`Restart` is step 7 of the guide) |
| `Request` | `get_source` and the test of `enabled`, for a route or for the page, which names any source |
| `Validate`, `Publish`, `Curate` | `_load_schema`, `resolve_stream_name`, `get_mapping`: each reads its file if nobody has |
| `ListStreams` | `GET /config/streams` on a worker thread, between two steps of a handler |

Everything a request reads from the cache is as old as the first reader of this process, and
the three files behind a request may be of three ages. `settled` (a history variable) says that
all was in place when the process started. Three facts met on the way: the guide's steps do not
mention the physical stream; `routing.yaml` and `validation.yaml`, which they do mention, are
read by nobody (`get_routing` and `get_validation` have no caller); in the Docker image the
files are baked in, so edits under a running process are those of a service started on a host.

### LocalStackBootstrap

The container (`Boot`, `Die`; `PERSISTENCE: 0`, so a boot starts with empty stores), its services,
which fail and recover one by one (`Waver`), its script (`Script`: bucket, a create and a wait
per stream) and clients whose calls are `ensure_bucket`, `put_raw_payload`, `ensure_stream`,
`publish`, `put_secret`, `get_secret` and `GET /health`. Each AWS request is a step; `Unanswered` is
a request to a service that does not answer, and the answer to a create may be lost. The service
waits for LocalStack's own health check, which does not wait for the script, so calls and script
overlap. `|| echo` swallows every failure of the script's creates, so "Bootstrap complete" says
nothing of the bucket; a waiter that gives up (`GivesUp`) ends the script by `set -e`.
`ensure_stream` returns for a stream it finds in state CREATING, and the first requests of the
two `ensure` calls let a `BotoCoreError` escape; both are in the model as they are in the code.
The database's part of a probe is up or down at random.

## 3. Runs

| Run | Instance | What it shows |
|---|---|---|
| `pipeline_two` | 2 requests, 2 sources, one unrouted, both routes, all defects, late puts and commits, 1 crash | types, durability of accepted requests, write order, no trace of refused ones, truth of the audit table, at most one row, order of rows and records; refinement of `IngestionPromise`; every request ends |
| `pipeline_three` | 3 sound page requests, 2 sources, store failures, late commits, 1 crash | own row on the page, lineage view |
| `pool` | 3 clients and a probe on 2 connections, two requests each | conservation, who waits for whom, who may starve, every request closes |
| `config_cache` | 2 threads of 3 calls, one file of each cache | parsed once, no stale reload, refinement of `AtomicCache` (`KeyError` only under a clear), every call returns |
| `normalize` | 2 jobs, 4 raw keys, two on either side of the 3 outputs, pages of at most 2, limits 0 to 2 | listing, coverage, origin of outputs, limit |
| `format_parsing` | 3 sources, every header and body, 620 XML elements of up to three levels | the dictionary of a document keeps every child, attribute and text |
| `onboarding` | the new source and another whose entries may be spoilt, all edits, any number of deaths | the source takes effect after the last restart; a routed source is found; a request of another source fails only by a file that is wrong for it, on disk or as read; what was served stays served; it is routed in the end |
| `provisioning` | 2 clients of a call each, 2 streams, one of them the script's, 2 lives of the container, failing services | what a call and a completed script have ensured lasts; why the script stops early; a probe tells the truth; the script comes to an end |

Bounds. Every property of the pipeline speaks of one request or of a pair, so two requests with
every defect exercise the single-request properties, and three sound ones the orders (a pair and
something between). `MaxCrashes` = 1: after a crash no request of the model continues, so a
second one meets only fresh requests. An audit row that is committed late is in the second run
only, where the order of the entries matters. For the pool what counts is having more open
requests than connections and a second round to meet what the first left behind. For the caches
two threads give every pairwise race; two generations and three calls allow a stale reader, an
edit, a clear and a later reader. Pages of two over four raw keys and their outputs give three
pages or more and inserts between them. The onboarding run needs no bound at all: edits end when
a file is right, and everything else is finite; one known source stands for those whose entries
a mistake spoils; the others differ from it in nothing but that. In the provisioning run two
calls race each other and the script, and the second life of the container is the one that has
lost what they had; one stream of the script shows a wait that gives up, one it does not know a
client's own create. XML elements have up to three children of two tags, the first number that
shows a list growing. The configurations that do not check for deadlock (`CHECK_DEADLOCK FALSE`)
are those of threads, jobs and clients that really stop.

Symmetry is used in `pipeline_three` and `normalize` only, which check invariants; the runs that
check liveness or refinement use none.

Fairness. `IngestionPipeline`: weak fairness of each request's handler steps: the loop runs what
is ready, and calls to the stores end because the clients have timeouts; none for clients,
crashes or late writes. `EventLoopPool`: weak fairness of the loop, of the running handler and
of the worker threads, whose calls to LocalStack end by botocore's timeouts. `ConfigCache`: of
each thread inside a call; the lock is taken once it stays free, which is enough because threads
make finitely many calls. `S3Normalization` states none and no liveness: a job's loop is bounded
by its listing. `SourceOnboarding`: weak fairness of `Start` (the restart policy, or the
operator) and of `Restart` (step 7 of the guide); edits are not owed, so the liveness property
starts from the moment everything is in place. `LocalStackBootstrap`: of the script, whose
requests time out and whose waiters count their polls; nothing is owed by clients, by streams,
by the container or by its services.

### Where the code and its texts disagree

Each is a run that checks one statement and finds it violated.

| Run | Statement | What happens |
|---|---|---|
| `finding_audit` | "Audit log of every ingestion request" (`tables.py:52`) | a body that does not parse is answered without a row |
| `finding_duration` | a row keeps the duration of its request (`tables.py:64`) | read inside the timer's block, always null |
| `finding_lineage` | the view pairs each entry with its row (`init.sql:54-55`) | a lost audit row or a failed request's row shifts the pairs |
| `finding_timestamp` | invalid payloads get a 400 (`developer-guide.md:134`) | a bad timestamp is landed, published, then a 500 |

Two more need no run. `config/database.yaml:8-9` asks for a pool of 10 + 20, but nothing reads
the file and the engine (`models/base.py:23`) has SQLAlchemy's 5 + 10. `smoke_test.sh:49-52`
posts CSV yield data and expects success, but a CSV body becomes `{columns, rows, row_count}`,
which no schema accepts, that of `yield` included (`Verdicts`), though its `input_format` is CSV
(`sources.yaml:131`): it is refused with 400.

## 4. Proofs

`IngestionPipelineProofs` proves, for every set of requests, sources and defects and any
number of crashes, all ten invariants the runs check. None of them but the types is inductive
alone; the argument goes through five invariants, each proved from `TypeOK` and the ones before:

1. `Control` (`ControlInvariant`): the loop holds the one request inside its handler; nothing
   is raised while a write is still ahead; an answer is the status of the outcome.
2. `Traces` (`TracesInvariant`): what a request's stage and exception say about the stores it
   is in and the stores it cannot be in yet. `WriteOrder`, `AcceptedIsDurable` and
   `RefusedLeavesNoTrace` follow with `Control`.
3. `Ledger` (`LedgerInvariant`): audit rows belong to requests past their `finally` clause,
   one each, and say what had happened by then. `AuditTellsTruth` follows, and with the next
   one `AtMostOnce`.
4. `Orders` (`OrdersInvariant`): curated rows are unique and in stream order, those on the
   stream precede the request that is being curated, and a request that has just written its
   row has the newest one. This is where one handler at a time (`Control`) is needed.
   `CuratedInStreamOrder` and `UiShowsOwnRow` follow.
5. `LogOrder` (`LogOrderInvariant`): a log entry carries the source of its request, and success
   entries are in the order of their rows. A request that has just written its row logs before
   any other writes one, again because of the loop.

The lineage view numbers the success entries and the rows of a source and joins equal numbers.
`LineageNeverAhead` and `LineageExactWhenComplete` follow from `LogOrder` by counting: the rows
of the requests logged up to an entry are, by their order, among the rows up to the entry's own,
so its number is at most the number of its row, and numbers ascend with positions
(`RowNumberAscends`, `RowOfNumber`); if every row is logged the two counts are equal.

The assumptions are the named ones of the module: the lot source is a source, the routes and
defects are known ones, nobody is no request.

`IngestionPromiseProofs` proves that every behaviour of the pipeline, as a client sees it, is
one of `IngestionPromise`: the view of a request is the stage of its data, the verdict it was
given and, once it has failed, whether the write to the next store is still under way (`DueOf`).
A write that takes effect is an `Advance`, one that does so after a failure a `Settle`, an
answer the `Accept`, `Refuse` or `Fail` its status says, a crash the `Fail` of everything it
loses; all other steps leave the view as it is. That a failed request moves on by one store at
most, and a refused one not at all, is `Traces`: only the store it failed at has been sent a
write. That an answer meets the guard of its step in the promise is `AcceptedIsDurable` and
`RefusedLeavesNoTrace`, here used as lemmas.

`EventLoopPoolProofs` proves, for any number of clients, probes, connections and rounds, that
the pool loses no connection, that a checkout that waits in vain waits only for sessions that
want nothing more of the database, and (an action property) that only a crowd larger than the
pool makes a request time out. The inductive invariant `PoolInv` has six parts: the types;
`QueueOnce`, the ready queue is an enumeration of exactly the waiting requests; `Holders`, a
connection is held only from the handler, or the services a probe asks, to the close;
`ProbesAsk`, only probes have work on a worker; `OneHandler`, a request inside its handler is
the one on the loop; `Accounted`, free and held connections add up. `Holders` and `OneHandler`
are kept because only a turn of a free loop puts a request on it. The assumptions: clients and
probes are disjoint and finitely many, the pool has a connection.

`ConfigCacheProofs` proves, for any threads, files and edits, the safety properties of
the caches. `CacheInv` adds to them what a call has established at each step: a reader under
the lock has found nothing cached (`Reading`), what it has read is no older than the last
clear or than the oldest content it may return (`Bounded`), and the second lookup of the
unlocked hit finds its entry unless a clear ran (`Hitting`). The lock discipline, part of
`TypeOK`, is why the first two survive the steps of other threads. `Atomicity` then proves, step
by step, that the caches implement `AtomicCache`: `Read`, `Get` and a hit under the lock are the
steps at which a call takes effect, `Check`, `Acquire` and `Store` do not show. That a store does
not show rests on the lock (the reader that stores is its holder), and that a clear shows as one
on its waiting for that lock.

`SourceOnboardingProofs` proves, for any set of known sources, all five safety properties of
the metadata. `OnboardingInv` adds to the types what a process has established: a running one
has read its sources and its routes are theirs; a table it has put a row into is the one its
cached mapping says, so the mapping has been read; in a settled process everything on disk and
in the cache is final, and a request of the new source has met nothing else. That a cached file
never changes within a process is what carries all of it. `KnownHarmedOnlyBySpoiltFile` says of
the other sources that their requests fail only by a file that does not parse, is emptied or
holds a spoilt entry of theirs: on disk when it is read, or as this process read it.

`S3NormalizationProofs` proves all five properties of the job, for any number of jobs, raw keys
and limits and any size of a page. `JobsInv` has a part per phase: while a job lists
(`Listing`), its listing ascends, ends at the token and holds everything older than the job up
to there; while it visits (`Visiting`), every file before its position has a normalized object;
its report (`Counting`) is below its limit as long as it goes on. What other jobs and uploads
do meanwhile only adds (`Adds`): an object is never lost, and a normalized object written again
is again one of a file of its name. The assumptions: a raw key is no normalized key, and a page
holds at least one key.

`LocalStackBootstrapProofs` proves, for any streams, any number of clients and any number of
restarts, two safety properties and two action properties of LocalStack and its clients.
Besides the types, `BootstrapInv` says which streams the script has waited for by each of its
steps (`Scripted`), what a call has ensured and that the stream it waits for exists (`Calling`),
and that what a probe has found is what it has seen (`Probing`). One fact carries every step of a
client: within a life of the container its stores only grow (`Grows`), so that what other calls
have ensured cannot be disturbed (`GrowingCall`). `StopsForCause` is the script's: its creates
cannot stop it, and its waits do so only for a stream that is not active or a Kinesis that is down.

`FormatParsingProofs` proves, for any sources, media types and documents, what a body has become
by each stage (`ParsingInv`) and that nothing of an XML document is lost. For XML two inductions
are needed, over the children of an element and over the levels of a document. Each is done by
the least counterexample (`LeastMember`, from the well-foundedness of the naturals). Over the
levels it shows that the recursion has a solution at all (`ConversionExists`), that solutions
for different depths agree (`ConversionUnique`), and so that `ElementToDict` is what the code
computes (`ConversionDefined`). Over the children it shows that after n of them the dictionary
holds, under each tag, the values of the children of that tag so far and in order (`Files`,
`AddedFiles`); the theorem `XmlComplete` is the case of all of them. A child's value is never
itself a list, which is why `Added` may tell a list it made from a value.

Only model-checked: liveness (`EveryRequestEnds`, `EveryRequestCloses`, `EveryCallReturns`,
`EventuallyRouted`, `EventuallyBootstrapped`), which the prover does not reach. Every other
property of the runs that pass is a theorem.

## 5. What is not modelled

* Request logging, its middleware and CORS: no state.
* The CloudWatch logger: no code calls it. (Its docstring says it never raises; a
  `BotoCoreError` in `ensure_log_group` would escape.)
* The governance, lakehouse, traceability, agent and intelligence scaffolding: in-memory lists
  and dictionaries that only unit tests use, with nothing that interacts.
* JSON Schema and Parquet: libraries. Interpolation of `${VAR:default}` and the query methods
  no route calls: data, not control.
* The limit of 40 worker threads in `EventLoopPool`; the test scripts and the (empty) migrations.
* A client that retries after a 5xx gets a new request id, and nothing in the code relates the
  two attempts: there is no property to state.

## 6. Plan

Done: the pipeline with its promise, the pool, the caches with their atomic specification, the
job, the parsers with the XML conversion, the metadata's life, LocalStack with its clients; proofs
of all their safety properties and of both refinements.

Next: a composition of the pipeline with the pool, with the timeout of a checkout as the cause
of database failures.
