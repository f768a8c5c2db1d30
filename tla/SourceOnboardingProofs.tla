------------------------ MODULE SourceOnboardingProofs ------------------------
(***************************************************************************)
(* Theorems about SourceOnboarding: the promise of the guide and what the   *)
(* lazy caches guarantee, for any set of sources beside the new one.        *)
(***************************************************************************)
EXTENDS SourceOnboarding, TLAPS

(* What the process has read decides its routes; without a process nothing *)
(* is cached, routed or in progress.                                       *)
Wired ==
  /\ up => cached["sources"] # "none" /\ routes = Enabled(cached["sources"])
  /\ ~up => /\ cached = [f \in Files |-> "none"]
            /\ routes = {} /\ pc = "idle" /\ answer = "none"

(* A process started when all was in place has read nothing but final      *)
(* files, and what is final stays.                                         *)
Settled ==
  settled => /\ up /\ Complete
             /\ cached["sources"] = "final"
             /\ \A f \in Files : cached[f] \in {"none", "final"}

(* What a request has read by each of its steps, and so what every later   *)
(* request of a source that was served finds in the caches.                *)
SchemaRead(s) == s = Added => cached["schema"] \in {"draft", "final"}
StreamRead(s) ==
  /\ cached["streams"] # "none" /\ Entry(cached["streams"], s) = "final"
  /\ s = Added => provisioned
Progress ==
  /\ pc # "idle" => answer = "none"
  /\ pc \in {"publish", "curate"} => SchemaRead(source)
  /\ pc = "curate" => StreamRead(source)
Served ==
  up => \A s \in Sources : tables[s] # {} =>
    /\ SchemaRead(s) /\ StreamRead(s)
    /\ cached["mappings"] # "none"
    /\ tables[s] = {Table(s, cached["mappings"])}

OnboardingInv ==
  TypeOK /\ Wired /\ Settled /\ Progress /\ Served /\ RoutedIsFound /\ OnboardingTakesEffect
-----------------------------------------------------------------------------
(* What a file that is right, or one that does not parse, says of a source. *)
LEMMA Entries ==
  ASSUME NEW s \in Sources
  PROVE  Entry("final", s) = "final" /\ Entry("broken", s) = "broken"
BY DEF Entry

(* load returns what can be read, or what is on disk now.                  *)
LEMMA LoadedType ==
  ASSUME TypeOK, NEW f \in Files
  PROVE  /\ Loaded(f) \in Contents(f)
         /\ Kept(f)[f] \in Readable(f) \union {"none"}
         /\ Loaded(f) \in Unreadable(f) =>
              cached[f] = "none" /\ disk[f] = Loaded(f) /\ Kept(f) = cached
         /\ Loaded(f) \notin Unreadable(f) =>
              Kept(f) = [cached EXCEPT ![f] = Loaded(f)]
  BY DEF TypeOK, Loaded, Kept, Readable

(* A load types the cache and changes no entry that is filled.             *)
LEMMA KeptType ==
  ASSUME TypeOK, NEW f \in Files
  PROVE  /\ DOMAIN Kept(f) = Files
         /\ \A g \in Files : Kept(f)[g] \in Readable(g) \union {"none"}
         /\ \A g \in Files : cached[g] # "none" => Kept(f)[g] = cached[g]
         /\ \A g \in Files : g # f => Kept(f)[g] = cached[g]
  BY DEF TypeOK, Loaded, Kept, Readable

(* What one handler step reads leaves the routes and the promise of a      *)
(* settled process as they are.                                            *)
LEMMA KeptInv ==
  ASSUME OnboardingInv, NEW f \in Files, up, cached' = Kept(f), UNCHANGED <<operator, up, routes, settled>>
  PROVE  /\ Wired' /\ Settled'
         /\ \A s \in Sources : SchemaRead(s) => SchemaRead(s)'
         /\ \A s \in Sources : StreamRead(s) => StreamRead(s)'
         /\ cached["mappings"] # "none" => cached'["mappings"] = cached["mappings"]
<1> USE DEF OnboardingInv, operator
<1>1. cached["sources"] # "none" /\ cached'["sources"] = cached["sources"]
  BY KeptType DEF Wired, Files
<1>2. Wired'
  BY <1>1 DEF Wired
<1>3. ASSUME settled, NEW g \in Files PROVE cached'[g] \in {"none", "final"}
  BY <1>3 DEF Settled, Complete, Kept, Loaded
<1>4. Settled'
  BY <1>1, <1>3 DEF Settled, Complete
<1>5. \A s \in Sources : SchemaRead(s) => SchemaRead(s)'
  BY KeptType DEF SchemaRead, Files
<1>6. \A s \in Sources : StreamRead(s) => StreamRead(s)'
  BY KeptType DEF StreamRead, Files
<1>7. cached["mappings"] # "none" => cached'["mappings"] = cached["mappings"]
  BY KeptType DEF Files
<1> QED  BY <1>2, <1>4, <1>5, <1>6, <1>7

(* A load that adds no row keeps what served sources find in the caches.   *)
LEMMA KeptServed ==
  ASSUME OnboardingInv, NEW f \in Files, up, cached' = Kept(f),
         UNCHANGED <<operator, up, routes, settled, tables>>
  PROVE  Served'
BY KeptInv DEF OnboardingInv, Served

(* Before there is a process there is nothing to be wrong about.           *)
LEMMA InitInv == Init => OnboardingInv
BY DEF Init, OnboardingInv, TypeOK, Wired, Settled, Progress, Served, RoutedIsFound,
       OnboardingTakesEffect, Contents, Sources, Answers

(* An edit never touches a final file, so a settled process stays so.      *)
LEMMA OperatorStep ==
  ASSUME OnboardingInv, Provision \/ \E f \in Files : Edit(f)
  PROVE  OnboardingInv'
<1> USE DEF OnboardingInv, request
<1>1. CASE Provision
  BY <1>1
     DEF Provision, TypeOK, Wired, Settled, Complete, Progress, Served, SchemaRead,
         StreamRead, RoutedIsFound, OnboardingTakesEffect
<1>2. ASSUME NEW f \in Files, Edit(f) PROVE OnboardingInv'
  <2> USE <1>2 DEF Edit
  <2>1. TypeOK'
    BY DEF TypeOK, Contents, Readable
  <2>2. ~Complete
    BY DEF Complete
  <2>3. Settled'
    BY <2>2 DEF Settled
  <2> QED  BY <2>1, <2>3 DEF Wired, Progress, Served, SchemaRead, StreamRead,
              RoutedIsFound, OnboardingTakesEffect
<1> QED  BY <1>1, <1>2

(* A new process knows its routes, and has served nobody yet.              *)
LEMMA StartStep ==
  ASSUME OnboardingInv, Start
  PROVE  OnboardingInv'
<1> USE DEF OnboardingInv, Start, operator, request
<1>1. "sources" \in Files /\ Kept("sources") = [f \in Files |-> IF f = "sources" THEN disk[f] ELSE "none"]
  <2>1. cached = [f \in Files |-> "none"] /\ "sources" \in Files
    BY DEF Wired, Files
  <2>2. Loaded("sources") # "broken"
    BY Entries DEF Lists, Sources
  <2> QED  BY <2>1, <2>2 DEF Kept, Loaded, Unreadable
<1>2. TypeOK'
  <2>1. \A f \in Files : cached'[f] \in Readable(f) \union {"none"}
    BY KeptType, <1>1
  <2>2. routes' \subseteq Sources
    BY DEF Enabled
  <2>3. settled' \in BOOLEAN
    BY DEF Complete
  <2> QED  BY <1>1, <2>1, <2>2, <2>3 DEF TypeOK
<1>3. cached'["sources"] = Loaded("sources") /\ Loaded("sources") = disk["sources"]
  BY <1>1 DEF Loaded, Wired
<1>4. Wired'
  <2>1. cached'["sources"] # "none"
    BY <1>1, <1>3 DEF TypeOK, Contents
  <2> QED  BY <1>3, <2>1 DEF Wired
<1>5. Settled'
  BY <1>1, <1>3 DEF Settled, Complete
<1>6. settled' => Added \in routes'
  BY <1>3, Entries DEF Complete, Enabled, Sources, Files
<1> QED  BY <1>2, <1>4, <1>5, <1>6 DEF Progress, Served, RoutedIsFound, OnboardingTakesEffect, Wired

(* The caches end with their process.                                      *)
LEMMA StopStep ==
  ASSUME OnboardingInv, Stop
  PROVE  OnboardingInv'
BY DEF OnboardingInv, Stop, Forgotten, operator, TypeOK, Wired, Settled, Progress,
       Served, RoutedIsFound, OnboardingTakesEffect, Answers

(* The registry answers from the file the routes were made from.           *)
LEMMA RequestStep ==
  ASSUME OnboardingInv, NEW s \in Sources, NEW route \in {"api", "ui"}, Request(s, route)
  PROVE  OnboardingInv'
<1> USE DEF OnboardingInv, Request, SourcesFile, Answer, operator
<1>1. TypeOK'
  BY DEF TypeOK, Contents, Readable, Answers
<1>2. routes = Enabled(cached["sources"]) /\ Wired'
  BY DEF Wired
<1>3. Settled' /\ Served' /\ Progress'
  <2>1. Settled'
    BY DEF Settled, Complete
  <2>2. \A t \in Sources : (SchemaRead(t) => SchemaRead(t)') /\ (StreamRead(t) => StreamRead(t)')
    BY DEF SchemaRead, StreamRead
  <2>3. Served'
    BY <2>2 DEF Served
  <2>4. Progress'
    BY DEF Progress
  <2> QED  BY <2>1, <2>3, <2>4
<1>4. RoutedIsFound'
  BY <1>2 DEF RoutedIsFound, Enabled, Defined
<1>5. settled => s \in Enabled(cached["sources"]) /\ s \in Defined(cached["sources"])
  BY Entries DEF Settled, Enabled, Defined
<1>6. OnboardingTakesEffect'
  BY <1>5 DEF OnboardingTakesEffect
<1> QED  BY <1>1, <1>2, <1>3, <1>4, <1>6

(* A settled process can only have read the final schema.                  *)
LEMMA ValidateStep ==
  ASSUME OnboardingInv, Validate
  PROVE  OnboardingInv'
<1> USE DEF OnboardingInv, Validate, Answer, Goto, operator
<1>0. up /\ answer' \in {answer, "refused", "error"}
  BY DEF Wired
<1>1. CASE source \in Known
  BY <1>1, AddedAssumption
     DEF TypeOK, Wired, Settled, Complete, Progress, Served, SchemaRead, StreamRead,
         RoutedIsFound, OnboardingTakesEffect
<1>2. CASE source = Added /\ cached' = Kept("schema")
  <2>1. "schema" \in Files
    BY DEF Files
  <2>2. TypeOK'
    BY <2>1, KeptType DEF TypeOK, Answers
  <2>3. Wired' /\ Settled' /\ Served'
    BY <1>0, <1>2, <2>1, KeptInv, KeptServed
  <2>4. pc' = "publish" => SchemaRead(source)'
    <3>1. Loaded("schema") \in {"draft", "final"} => cached'["schema"] = Loaded("schema")
      BY <1>2, <2>1, LoadedType DEF Unreadable, TypeOK
    <3>2. pc' = "publish" => Loaded("schema") \in {"draft", "final"}
      BY <1>2, AddedAssumption
    <3> QED  BY <3>1, <3>2 DEF SchemaRead
  <2>5. settled => Loaded("schema") = "final"
    BY <2>1 DEF Settled, Complete, Loaded
  <2>6. RoutedIsFound' /\ OnboardingTakesEffect'
    BY <1>2, <2>5 DEF RoutedIsFound, OnboardingTakesEffect, Unreadable
  <2> QED  BY <2>2, <2>3, <2>4, <2>6 DEF Progress
<1> QED  BY <1>1, <1>2, AddedAssumption

(* A settled process can only have read the final streams.                 *)
LEMMA PublishStep ==
  ASSUME OnboardingInv, Publish
  PROVE  OnboardingInv'
<1> USE DEF OnboardingInv, Publish, Answer, Goto, operator
<1>0. up /\ answer' \in {answer, "error"} /\ "streams" \in Files
  BY DEF Wired, Files
<1>1. TypeOK'
  BY <1>0, KeptType DEF TypeOK, Contents, Answers
<1>2. Wired' /\ Settled' /\ Served'
  BY <1>0, KeptInv, KeptServed
<1>3. pc' = "curate" => StreamRead(source)'
  <2>1. Loaded("streams") # "broken" => cached'["streams"] = Loaded("streams") /\ Loaded("streams") # "none"
    BY <1>0, LoadedType DEF Unreadable, TypeOK, Contents
  <2>2. source \in Sources /\ (pc' = "curate" => Entry(Loaded("streams"), source) = "final")
    BY DEF TypeOK
  <2> QED  BY <2>1, <2>2, Entries DEF StreamRead
<1>4. Progress'
  BY <1>0, <1>3, KeptInv DEF Progress, TypeOK
<1>5. settled => Loaded("streams") = "final" /\ provisioned
  BY <1>0 DEF Settled, Complete, Loaded
<1>6. RoutedIsFound' /\ OnboardingTakesEffect'
  BY <1>5, Entries DEF RoutedIsFound, OnboardingTakesEffect, TypeOK
<1> QED  BY <1>1, <1>2, <1>4, <1>6

(* The row goes where the mapping that stays cached sends it.              *)
LEMMA CurateStep ==
  ASSUME OnboardingInv, Curate
  PROVE  OnboardingInv'
<1> DEFINE c == Loaded("mappings")
<1> USE DEF OnboardingInv, Curate, Answer, operator
<1>0. up /\ "mappings" \in Files /\ source \in Sources /\ c \in Contents("mappings") /\ "mappings" # "sources"
  BY LoadedType DEF Wired, Files, TypeOK
<1>1. Table(source, c) \in {"own", "raw", "error"}
  BY DEF Table
<1>2. TypeOK'
  BY <1>0, <1>1, KeptType DEF TypeOK, Answers
<1>3. Wired' /\ Settled'
  BY <1>0, KeptInv
<1>4. Progress'
  BY DEF Progress
<1>5. settled => c = "final"
  BY <1>0 DEF Settled, Complete, Loaded
<1>6. RoutedIsFound' /\ OnboardingTakesEffect'
  BY <1>0, <1>1, <1>5, Entries DEF RoutedIsFound, OnboardingTakesEffect, Table
<1>7. ASSUME NEW s \in Sources, tables'[s] # {}
      PROVE  /\ SchemaRead(s)' /\ StreamRead(s)'
             /\ cached'["mappings"] # "none"
             /\ tables'[s] = {Table(s, cached'["mappings"])}
  <2>1. CASE tables[s] # {}
    <3>1. c = cached["mappings"] /\ tables[s] = {Table(s, c)} /\ cached'["mappings"] = c /\ c # "none"
      BY <1>0, <2>1, KeptInv DEF Served, Loaded
    <3> QED  BY <1>0, <3>1, KeptInv DEF Served
  <2>2. CASE tables[s] = {}
    <3>1. s = source /\ Table(s, c) # "error" /\ tables'[s] = {Table(s, c)}
      BY <1>7, <2>2, <1>0 DEF TypeOK
    <3>2. c # "broken" /\ c # "none"
      BY <3>1, <1>0, Entries DEF Table, Contents
    <3>3. cached'["mappings"] = c
      BY <3>2, <1>0, LoadedType DEF Unreadable, TypeOK
    <3> QED  BY <1>0, <3>1, <3>2, <3>3, KeptInv DEF Progress
  <2> QED  BY <2>1, <2>2
<1>8. Served'
  BY <1>7 DEF Served
<1> QED  BY <1>2, <1>3, <1>4, <1>6, <1>8

(* A listing reads a file between two steps of a handler.                  *)
LEMMA ListStep ==
  ASSUME OnboardingInv, ListStreams
  PROVE  OnboardingInv'
<1> USE DEF OnboardingInv, ListStreams, operator, request
<1>0. "streams" \in Files
  BY DEF Files
<1>1. TypeOK'
  BY <1>0, KeptType DEF TypeOK, Contents
<1>2. Wired' /\ Settled' /\ Served'
  BY <1>0, KeptInv, KeptServed
<1>3. Progress'
  BY <1>0, KeptInv DEF Progress, TypeOK
<1> QED  BY <1>1, <1>2, <1>3 DEF RoutedIsFound, OnboardingTakesEffect

(* The inductive invariant holds in every reachable state.                 *)
THEOREM OnboardingInvariant == Spec => []OnboardingInv
<1>1. Init => OnboardingInv
  BY InitInv
<1>2. OnboardingInv /\ [Next]_vars => OnboardingInv'
  <2> SUFFICES ASSUME OnboardingInv, [Next]_vars PROVE OnboardingInv'
    OBVIOUS
  <2>1. CASE Next
    BY <2>1, OperatorStep, StartStep, StopStep, RequestStep, ValidateStep, PublishStep,
       CurateStep, ListStep DEF Next
  <2>2. CASE UNCHANGED vars
    BY <2>2
       DEF vars, operator, request, OnboardingInv, TypeOK, Wired, Settled, Complete,
           Progress, Served, SchemaRead, StreamRead, RoutedIsFound,
           OnboardingTakesEffect
  <2> QED  BY <2>1, <2>2
<1> QED  BY <1>1, <1>2, PTL DEF Spec

(* Types, and a process keeps nothing it could not read.                   *)
THEOREM TypeCorrect == Spec => []TypeOK
BY OnboardingInvariant, PTL DEF OnboardingInv

(* The guide's promise, for a process started with everything in place.    *)
THEOREM TakesEffect == Spec => []OnboardingTakesEffect
BY OnboardingInvariant, PTL DEF OnboardingInv

(* No routed source is ever unknown or disabled.                           *)
THEOREM RouteFindsSource == Spec => []RoutedIsFound
BY OnboardingInvariant, PTL DEF OnboardingInv

(* Only a step of the handler answers a request in progress.               *)
LEMMA Handled ==
  ASSUME OnboardingInv, [Next]_vars, pc # "idle", answer' # "none"
  PROVE  Validate \/ Publish \/ Curate
BY DEF OnboardingInv, Progress, Next, vars, request, Edit, Provision, Start, Stop,
       Request, ListStreams

(* Only a file that is wrong for another source costs it a request or its  *)
(* table: as it is now if the process has not read it, as it was if it did. *)
THEOREM KnownHarmedOnlyBySpoiltFile == Spec => KnownFailsOnlyBySpoiltFile
<1> DEFINE Spoils(f) == \/ cached[f] = "none" /\ disk[f] \in {"broken"} \union WrongFor(source)
                        \/ cached[f] \in WrongFor(source)
<1>1. OnboardingInv /\ [Next]_vars =>
        [pc # "idle" /\ source \in Known /\ answer' \in {"refused", "error", "raw"} =>
         \E f \in {"streams", "mappings"} : Spoils(f)]_vars
  <2> SUFFICES ASSUME OnboardingInv, [Next]_vars, pc # "idle", source \in Known,
                      answer' \in {"refused", "error", "raw"}
               PROVE  \E f \in {"streams", "mappings"} : Spoils(f)
    OBVIOUS
  <2>1. Validate \/ Publish \/ Curate
    BY Handled
  <2>2. Publish \/ Curate
    BY <2>1, AddedAssumption DEF OnboardingInv, Progress, Validate, Goto
  <2>3. ASSUME NEW f \in {"streams", "mappings"}, Entry(Loaded(f), source) # "final"
        PROVE  Spoils(f)
    <3>1. f \in Files /\ source # Added /\ "broken" \notin Readable(f)
      BY AddedAssumption DEF Files, Readable, Unreadable
    <3>2. Loaded(f) \in {"broken"} \union WrongFor(source)
      BY <2>3, <3>1 DEF Entry, WrongFor
    <3>3. cached[f] # "none" => cached[f] \in Readable(f) /\ Loaded(f) = cached[f]
      BY <3>1 DEF OnboardingInv, TypeOK, Loaded
    <3>4. cached[f] = "none" => Loaded(f) = disk[f]
      BY DEF Loaded
    <3> QED  BY <3>1, <3>2, <3>3, <3>4
  <2>4. CASE Publish
    BY <2>3, <2>4, AddedAssumption DEF OnboardingInv, Progress, Publish, Goto
  <2>5. CASE Curate
    BY <2>3, <2>5 DEF Curate, Answer, Table
  <2> QED  BY <2>2, <2>4, <2>5
<1> QED  BY <1>1, OnboardingInvariant, PTL DEF Spec, KnownFailsOnlyBySpoiltFile

(* A source that was served finds all it needs in the caches again.        *)
THEOREM KeepsServing == Spec => ServedStaysServed
<1>1. OnboardingInv /\ [Next]_vars =>
        [pc # "idle" /\ answer' # "none" /\ tables[source] # {} =>
         tables[source] = {answer'}]_vars
  <2> SUFFICES ASSUME OnboardingInv, [Next]_vars, pc # "idle", answer' # "none",
                      tables[source] # {}
               PROVE  tables[source] = {answer'}
    OBVIOUS
  <2> USE DEF OnboardingInv
  <2>1. /\ SchemaRead(source) /\ StreamRead(source) /\ cached["mappings"] # "none"
        /\ tables[source] = {Table(source, cached["mappings"])}
    BY DEF Served, Wired, TypeOK
  <2>2. CASE Validate
    BY <2>1, <2>2 DEF Validate, SchemaRead, Loaded, Unreadable, Goto, Progress
  <2>3. CASE Publish
    BY <2>1, <2>3, LoadedType
       DEF Publish, StreamRead, Loaded, Unreadable, Goto, Progress, Files
  <2>4. CASE Curate
    BY <2>1, <2>4 DEF Curate, Loaded, Answer
  <2> QED  BY <2>2, <2>3, <2>4, Handled
<1> QED  BY <1>1, OnboardingInvariant, PTL DEF Spec, ServedStaysServed
=============================================================================
