--------------------------- MODULE SourceOnboarding ---------------------------
(***************************************************************************)
(* The life of the metadata a service process works from while an operator  *)
(* adds a source (docs/developer-guide.md, section 12).  The sources are    *)
(* read at start-up and decide the routes (main.py, api/routes.py); the     *)
(* schema of a source, the streams and the mappings are read when a request *)
(* first needs them (validator.py, metadata_registry.py).  What was read    *)
(* stays until the process ends; what could not be read is read again.      *)
(* Files may be edited, and the process may die, between any two steps.     *)
(* A load is one step: ConfigCache is about its threads.  The stores do not *)
(* fail here: IngestionPipeline is about that.                              *)
(***************************************************************************)
CONSTANTS
  Known,    \* sources the metadata has had from the start
  Spoilt,   \* those among them whose entries an edit may spoil by mistake
  Added     \* the source that is being added, for a table that has a curator

ASSUME AddedAssumption == Added \notin Known /\ Spoilt \subseteq Known

Sources == Known \union {Added}
Files == {"sources", "schema", "streams", "mappings"}   \* schema: that of Added

(* What a file says of Added: nothing ("absent"; no schema file at all), an *)
(* entry without required fields ("draft"; an earlier schema), an entry     *)
(* that is not enabled ("off"), no JSON Schema ("invalid"), all it should   *)
(* ("final").  Mistakes that reach further: it does not parse ("broken"),   *)
(* or is empty below its top ("emptied"), or the entries of Spoilt are gone *)
(* ("dropped") or incomplete ("damaged") while that of Added is right.      *)
Contents(f) ==
  {"absent", "broken", "draft", "final"}
    \union (IF f = "sources" THEN {"off"} ELSE {})
    \union (IF f = "schema" THEN {"invalid"} ELSE {"emptied", "dropped", "damaged"})
Unreadable(f) == {"broken"} \union (IF f = "schema" THEN {"absent"} ELSE {})
Readable(f) == Contents(f) \ Unreadable(f)

(* What a file of that content says of any source.                         *)
Entry(c, s) ==
  CASE c \in {"broken", "emptied"} -> c
    [] c \in {"dropped", "damaged"} ->
         IF s \notin Spoilt THEN "final" ELSE IF c = "dropped" THEN "absent" ELSE "draft"
    [] OTHER -> IF s = Added THEN c ELSE "final"

VARIABLES
  disk,         \* content of each file
  provisioned,  \* the physical stream of Added exists
  up,           \* a service process runs
  cached,       \* content of each file this process has read, or "none"
  routes,       \* sources with an ingestion route
  pc, source,   \* the handler on the event loop
  answer,       \* outcome of the last request
  (* history *)
  settled,      \* all was in place when this process started
  tables        \* tables this process has put rows of each source into

operator == <<disk, provisioned>>
request == <<pc, source, answer>>
vars == <<operator, up, cached, routes, request, settled, tables>>

Answers == {"none", "unknown", "disabled", "refused", "error", "own", "raw"}
Complete == provisioned /\ \A f \in Files : disk[f] = "final"
-----------------------------------------------------------------------------
Init ==
  /\ disk = [f \in Files |-> "absent"]
  /\ provisioned = FALSE
  /\ up = FALSE
  /\ cached = [f \in Files |-> "none"]
  /\ routes = {}
  /\ pc = "idle" /\ source = Added /\ answer = "none"
  /\ settled = FALSE
  /\ tables = [s \in Sources |-> {}]

(* The operator edits a file until it is right.                            *)
Edit(f) ==
  /\ disk[f] # "final"
  /\ \E c \in Contents(f) \ {"absent", disk[f]} : disk' = [disk EXCEPT ![f] = c]
  /\ UNCHANGED <<provisioned, up, cached, routes, request, settled, tables>>

(* init-aws.sh knows four streams: one more is created by hand.            *)
Provision ==
  /\ ~provisioned /\ provisioned' = TRUE
  /\ UNCHANGED <<disk, up, cached, routes, request, settled, tables>>

(* load: the cached content, else what is on disk, which is kept unless it *)
(* cannot be read.  Variant: what does not parse is kept all the same.     *)
Loaded(f) == IF cached[f] # "none" THEN cached[f] ELSE disk[f]
KeptLenient(f) == [cached EXCEPT ![f] = Loaded(f)]
Kept(f) ==
  IF Loaded(f) \in Unreadable(f) THEN cached ELSE [cached EXCEPT ![f] = Loaded(f)]

(* get_sources of a file that is right for every source it has, or it      *)
(* raises.                                                                 *)
Lists(c) == \A s \in Sources : Entry(c, s) \in {"absent", "off", "final"}
Defined(c) == {s \in Sources : Entry(c, s) # "absent"}
Enabled(c) == {s \in Sources : Entry(c, s) = "final"}

(* Import of main: the router is built from get_sources, which raises for  *)
(* one entry that lacks a field; the process then ends before it serves.   *)
Start ==
  /\ ~up /\ Lists(Loaded("sources"))
  /\ up' = TRUE
  /\ cached' = Kept("sources")
  /\ routes' = Enabled(Loaded("sources"))
  /\ settled' = Complete
  /\ tables' = [s \in Sources |-> {}]
  /\ UNCHANGED <<operator, request>>

(* The process ends, and its caches with it.  Variant: a reload of the     *)
(* application within the process, which keeps the sources it has read.    *)
ForgottenNot == [f \in Files |-> IF f = "sources" THEN cached[f] ELSE "none"]
Forgotten == [f \in Files |-> "none"]

Stop ==
  /\ up /\ up' = FALSE
  /\ cached' = Forgotten
  /\ routes' = {} /\ pc' = "idle" /\ answer' = "none"
  /\ settled' = FALSE
  /\ UNCHANGED <<operator, source, tables>>

(* Step 7 of the guide: restart once everything is in place.               *)
Restart == Complete /\ ~settled /\ Stop

(* Variant: the registry reads the sources anew.                           *)
SourcesOnDisk == disk["sources"]
SourcesFile == cached["sources"]

Goto(stage) == pc' = stage /\ UNCHANGED answer
Answer(a) == answer' = a /\ pc' = "idle"

(* A request to a source's route, or to the validation page, which names   *)
(* any source: get_source and the test of enabled.                         *)
Request(s, route) ==
  /\ up /\ pc = "idle"
  /\ route = "api" => s \in routes
  /\ source' = s
  /\ \/ s \in Enabled(SourcesFile) /\ pc' = "validate" /\ answer' = "none"
     \/ s \in Defined(SourcesFile) \ Enabled(SourcesFile) /\ Answer("disabled")
     \/ s \notin Defined(SourcesFile) /\ Answer("unknown")
  /\ UNCHANGED <<operator, up, cached, routes, settled, tables>>

(* PayloadValidatorService.validate of a payload the final schema accepts. *)
Validate ==
  /\ pc = "validate"
  /\ \/ source \in Known /\ Goto("publish") /\ UNCHANGED cached
     \/ /\ source = Added
        /\ cached' = Kept("schema")
        /\ \/ Loaded("schema") \in Unreadable("schema") /\ Answer("refused")
           \/ Loaded("schema") = "invalid" /\ Answer("error")
           \/ Loaded("schema") \in {"draft", "final"} /\ Goto("publish")
  /\ UNCHANGED <<operator, up, routes, source, settled, tables>>

(* EventPublisherService.publish: the payload is landed by now.  The       *)
(* physical streams of the sources known are there.                        *)
Publish ==
  /\ pc = "publish"
  /\ cached' = Kept("streams")
  /\ LET found == /\ Entry(Loaded("streams"), source) = "final"
                  /\ source = Added => provisioned
     IN  (found /\ Goto("curate")) \/ (~found /\ Answer("error"))
  /\ UNCHANGED <<operator, up, routes, source, settled, tables>>

(* CurationService.curate: no mapping, no error: the row goes to           *)
(* raw_events.  Variant: a mapping that does not parse is taken for none.  *)
TableForgiving(s, c) ==
  CASE Entry(c, s) = "final" -> "own"
    [] Entry(c, s) \in {"absent", "broken"} -> "raw"
    [] OTHER -> "error"
Table(s, c) ==
  CASE Entry(c, s) = "final" -> "own"
    [] Entry(c, s) = "absent" -> "raw"
    [] OTHER -> "error"

Curate ==
  /\ pc = "curate"
  /\ cached' = Kept("mappings")
  /\ LET t == Table(source, Loaded("mappings"))
     IN  /\ Answer(t)
         /\ tables' = [tables EXCEPT ![source] = @ \union ({t} \ {"error"})]
  /\ UNCHANGED <<operator, up, routes, source, settled>>

(* GET /config/streams, on a worker thread while a handler may be between  *)
(* two steps.                                                              *)
ListStreams ==
  /\ up /\ cached' = Kept("streams")
  /\ UNCHANGED <<operator, up, routes, request, settled, tables>>

Next ==
  \/ \E f \in Files : Edit(f)
  \/ Provision
  \/ Start \/ Stop
  \/ \E s \in Sources, route \in {"api", "ui"} : Request(s, route)
  \/ Validate \/ Publish \/ Curate
  \/ ListStreams

(* The operator or the container's restart policy starts a process that is *)
(* down, and the operator makes the last restart; edits are not owed.      *)
Spec == Init /\ [][Next]_vars /\ WF_vars(Start) /\ WF_vars(Restart)
-----------------------------------------------------------------------------
(* Types, and that a process keeps nothing it could not read.              *)
TypeOK ==
  /\ \A f \in Files : disk[f] \in Contents(f)
  /\ \A f \in Files : cached[f] \in Readable(f) \union {"none"}
  /\ DOMAIN disk = Files /\ DOMAIN cached = Files
  /\ provisioned \in BOOLEAN /\ up \in BOOLEAN /\ settled \in BOOLEAN
  /\ routes \subseteq Sources
  /\ pc \in {"idle", "validate", "publish", "curate"}
  /\ source \in Sources
  /\ answer \in Answers
  /\ tables \in [Sources -> SUBSET {"own", "raw"}]

(* The guide's promise: in a process that was started when everything was  *)
(* in place, the new source has its route and every request to it ends in  *)
(* its own table, whatever earlier processes had read, landed or refused.  *)
OnboardingTakesEffect ==
  settled =>
    /\ Added \in routes
    /\ source = Added /\ answer # "none" => answer = "own"

(* A source that has a route is found and enabled as long as the process   *)
(* lives, although sources.yaml changes below it.                          *)
RoutedIsFound == answer \in {"unknown", "disabled"} => source \notin routes

(* Adding a source costs another one, once it is found, a request or its   *)
(* table only by a file that is wrong for it too: one this process has not *)
(* read, as it is now, or one it did read, as it was then.  A wrong entry  *)
(* of the new source never does; nor does a file that did not parse, once  *)
(* it has been repaired, while one that was kept does harm until a restart. *)
WrongFor(s) == {"emptied"} \union (IF s \in Spoilt THEN {"dropped", "damaged"} ELSE {})
KnownFailsOnlyBySpoiltFile ==
  [][pc # "idle" /\ source \in Known /\ answer' \in {"refused", "error", "raw"} =>
       \E f \in {"streams", "mappings"} :
         \/ cached[f] = "none" /\ disk[f] \in {"broken"} \union WrongFor(source)
         \/ cached[f] \in WrongFor(source)]_vars

(* What a process has done once for a source it keeps doing: no edit makes *)
(* a later request of the source fail or go to another table.              *)
ServedStaysServed ==
  [][pc # "idle" /\ answer' # "none" /\ tables[source] # {} =>
       tables[source] = {answer'}]_vars

(* Once everything is in place the source gets its route, even if the last *)
(* start failed or the process keeps dying.                                *)
EventuallyRouted == Complete ~> (settled /\ Added \in routes)
=============================================================================
