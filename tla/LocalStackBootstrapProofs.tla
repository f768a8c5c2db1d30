----------------------- MODULE LocalStackBootstrapProofs -----------------------
(***************************************************************************)
(* Theorems about LocalStackBootstrap: what calls and the script ensure,    *)
(* why the script stops and what a probe says, for any clients and streams, *)
(* any number of restarts and any failures of the services.                 *)
(***************************************************************************)
EXTENDS LocalStackBootstrap, TLAPS

(* What the script has waited for is active.  (Its creates may all have    *)
(* failed: where it is before that tells nothing.)                         *)
Scripted ==
  \A i \in DOMAIN ScriptStreams : script > n + 1 + i => stream[ScriptStreams[i]] = "active"

(* A call in progress is counted; only ensure_stream creates streams.      *)
Calling(c) ==
  /\ ended[c] <= life
  /\ pc[c] # "idle" => calls[c] > 0
  /\ created[c] => op[c] = "ensure_stream" /\ pc[c] \in {"wait", "idle"}

(* A probe has seen S3 as it is.  It has asked nobody, or S3 only, and     *)
(* what it found is what it has seen.                                      *)
Probing(c) ==
  /\ pc[c] \in {"list_buckets", "list_streams"} => ConditionIn(answers) \in seen[c]
  /\ pc[c] = "list_buckets" => up[c] \subseteq {"database"}
  /\ pc[c] = "list_streams" =>
       up[c] \subseteq {"database", "s3"} /\ ConditionIn(up[c]) \in seen[c]

(* What a call that has returned ensured.                                  *)
Ensured(c) ==
  alive /\ outcome[c] = "ok" /\ ended[c] = life =>
    /\ op[c] \in {"ensure_bucket", "put_raw_payload"} => bucket
    /\ op[c] \in {"put_secret", "get_secret"} => secret
    /\ op[c] = "ensure_stream" => stream[target[c]] # "none"
    /\ op[c] = "publish" \/ created[c] => stream[target[c]] = "active"

CallInv(c) == Calling(c) /\ Probing(c) /\ Ensured(c)
BootstrapInv == TypeOK /\ Scripted /\ \A c \in Clients : CallInv(c)

(* Within a life of the container its stores only grow.                    *)
Grows ==
  /\ UNCHANGED container
  /\ bucket => bucket'
  /\ secret => secret'
  /\ \A s \in Streams : /\ stream[s] # "none" => stream'[s] # "none"
                        /\ stream[s] = "active" => stream'[s] = "active"
Untouched(c) ==
  /\ pc'[c] = pc[c] /\ op'[c] = op[c] /\ target'[c] = target[c] /\ up'[c] = up[c]
  /\ outcome'[c] = outcome[c] /\ ended'[c] = ended[c]
  /\ created'[c] = created[c] /\ seen'[c] = seen[c] /\ calls'[c] = calls[c]
-----------------------------------------------------------------------------
(* The script has a stream; its steps are counted from one.                *)
LEMMA Constants ==
  /\ n \in Nat \ {0} /\ DOMAIN ScriptStreams = 1..n
  /\ \A i \in 1..n : ScriptStreams[i] \in Streams
  /\ Done \in Nat /\ Done > n + n + 1 /\ MaxLives \in Nat /\ MaxCalls \in Nat
BY ScriptAssumption, BoundsAssumption DEF n, Done, Streams

(* The steps of each operation.                                            *)
LEMMA Steps ==
  /\ StepsOf("ensure_bucket") = {"head_bucket", "create_bucket"}
  /\ StepsOf("put_raw_payload") = {"put_object"}
  /\ StepsOf("ensure_stream") = {"describe_stream", "create_stream", "wait"}
  /\ StepsOf("publish") = {"put_record"}
  /\ StepsOf("put_secret") = {"put_secret_value", "create_secret"}
  /\ StepsOf("get_secret") = {"get_secret_value"}
  /\ StepsOf("health") = {"list_buckets", "list_streams"}
BY DEF StepsOf, FirstStep
LEMMA Fallbacks ==
  /\ DOMAIN Fallback = {"head_bucket", "describe_stream", "put_secret_value"}
  /\ Fallback["head_bucket"] = "create_bucket"
  /\ Fallback["describe_stream"] = "create_stream"
  /\ Fallback["put_secret_value"] = "create_secret"
BY DEF Fallback

(* A step tells the operation.                                             *)
LEMMA AtStep ==
  ASSUME TypeOK, NEW c \in Clients
  PROVE  /\ pc[c] \in {"head_bucket", "create_bucket"} => op[c] = "ensure_bucket"
         /\ pc[c] = "put_object" => op[c] = "put_raw_payload"
         /\ pc[c] \in {"describe_stream", "create_stream", "wait"} => op[c] = "ensure_stream"
         /\ pc[c] = "put_record" => op[c] = "publish"
         /\ pc[c] \in {"put_secret_value", "create_secret"} => op[c] = "put_secret"
         /\ pc[c] = "get_secret_value" => op[c] = "get_secret"
         /\ pc[c] \in {"list_buckets", "list_streams"} <=> pc[c] # "idle" /\ op[c] = "health"
         /\ op[c] \in Operations /\ pc[c] \in {"idle"} \union StepsOf(op[c])
BY Steps DEF TypeOK, Operations

(* Growing stores change nothing for the script or a call that stands still. *)
LEMMA GrowingScript ==
  ASSUME TypeOK, Scripted, Grows, UNCHANGED script
  PROVE  Scripted'
BY Constants DEF Scripted, Grows

LEMMA GrowingCall ==
  ASSUME TypeOK, NEW c \in Clients, CallInv(c), Grows, Untouched(c)
  PROVE  CallInv(c)'
<1>1. target[c] \in Streams
  BY DEF TypeOK
<1>2. Calling(c)' /\ Probing(c)'
  BY <1>1 DEF CallInv, Calling, Probing, Grows, Untouched, container
<1>3. Ensured(c)'
  BY <1>1 DEF CallInv, Ensured, Grows, Untouched, container
<1> QED  BY <1>2, <1>3 DEF CallInv

(* Nothing is there and nobody has called.                                 *)
LEMMA InitInv == Init => BootstrapInv
<1> SUFFICES ASSUME Init PROVE BootstrapInv
  OBVIOUS
<1>1. TypeOK
  <2>1. \A c \in Clients : pc[c] = "idle" /\ outcome[c] = "none" /\ calls[c] = 0
    BY DEF Init
  <2>2. /\ script \in 0..Done /\ life \in 0..MaxLives
        /\ calls \in [Clients -> 0..MaxCalls] /\ ended \in [Clients -> 0..MaxLives]
    BY Constants DEF Init
  <2>3. target \in [Clients -> Streams]
    BY Constants DEF Init
  <2>4. /\ op \in [Clients -> Operations] /\ stream \in [Streams -> {"none", "creating", "active"}]
        /\ up \in [Clients -> SUBSET {"database", "s3", "kinesis"}]
        /\ created \in [Clients -> BOOLEAN] /\ seen \in [Clients -> SUBSET Conditions]
    BY DEF Init, Operations
  <2>5. DOMAIN pc = Clients /\ DOMAIN outcome = Clients
    BY DEF Init
  <2>7. /\ alive \in BOOLEAN /\ bucket \in BOOLEAN /\ secret \in BOOLEAN
        /\ answers = {} /\ script = 0
    BY DEF Init
  <2> QED  BY <2>1, <2>2, <2>3, <2>4, <2>5, <2>7 DEF TypeOK
<1>2. Scripted
  BY Constants DEF Init, Scripted
<1>3. ASSUME NEW c \in Clients PROVE CallInv(c)
  <2>1. /\ pc[c] = "idle" /\ outcome[c] = "none" /\ created[c] = FALSE
        /\ ended[c] = 0 /\ life = 0
    BY DEF Init
  <2> QED  BY <2>1 DEF CallInv, Calling, Probing, Ensured
<1> QED  BY <1>1, <1>2, <1>3 DEF BootstrapInv

(* A change of the services is seen by the probes in progress.             *)
LEMMA SeenStep ==
  ASSUME BootstrapInv, Seen(answers')
  PROVE  /\ seen' \in [Clients -> SUBSET Conditions]
         /\ \A c \in Clients :
              pc[c] \in {"list_buckets", "list_streams"} =>
                ConditionIn(answers') \in seen'[c] /\ seen[c] \subseteq seen'[c]
BY DEF BootstrapInv, TypeOK, CallInv, Probing, Seen, Conditions, ConditionIn

(* A new life begins with empty stores; what was ensured was in an old one. *)
LEMMA BootStep == ASSUME BootstrapInv, Boot PROVE BootstrapInv'
<1> USE DEF BootstrapInv, Boot, call
<1>1. TypeOK'
  <2>1. life' \in 0..MaxLives /\ ended' \in [Clients -> 0..MaxLives]
    BY Constants DEF TypeOK
  <2>2. script' \in 0..Done /\ script' # 0
    BY Constants
  <2>3. seen' \in [Clients -> SUBSET Conditions]
    BY SeenStep
  <2> QED  BY <2>1, <2>2, <2>3 DEF TypeOK
<1>2. Scripted'
  BY Constants DEF Scripted
<1>3. ASSUME NEW c \in Clients PROVE CallInv(c)'
  <2>1. life \in Nat /\ ended[c] \in Nat /\ ended[c] <= life
    BY DEF TypeOK, CallInv, Calling
  <2>2. ended'[c] # life'
    BY <2>1
  <2>3. Calling(c)' /\ Probing(c)'
    BY <2>1, SeenStep DEF CallInv, Calling, Probing
  <2> QED  BY <2>2, <2>3 DEF CallInv, Ensured
<1> QED  BY <1>1, <1>2, <1>3

(* A death is seen by every probe in progress.                             *)
LEMMA DieStep == ASSUME BootstrapInv, Die PROVE BootstrapInv'
<1> USE DEF BootstrapInv, Die, call, stores
<1>1. TypeOK'
  <2>1. seen' \in [Clients -> SUBSET Conditions]
    BY SeenStep
  <2>2. script' \in 0..Done
    BY Constants
  <2> QED  BY <2>1, <2>2 DEF TypeOK
<1>2. Scripted'
  BY Constants DEF Scripted
<1>3. ASSUME NEW c \in Clients PROVE CallInv(c)'
  <2>1. Calling(c)' /\ Probing(c)'
    BY SeenStep DEF CallInv, Calling, Probing
  <2> QED  BY <2>1 DEF CallInv, Ensured
<1> QED  BY <1>1, <1>2, <1>3

(* Services fail or recover: what was ensured is not touched.              *)
LEMMA WaverStep == ASSUME BootstrapInv, Waver PROVE BootstrapInv'
<1> USE DEF BootstrapInv, Waver, call, stores
<1>1. TypeOK'
  <2>1. seen' \in [Clients -> SUBSET Conditions]
    BY SeenStep
  <2> QED  BY <2>1 DEF TypeOK
<1>2. Scripted'
  BY DEF Scripted
<1>3. ASSUME NEW c \in Clients PROVE CallInv(c)'
  <2>1. Calling(c)' /\ Probing(c)'
    BY SeenStep DEF CallInv, Calling, Probing
  <2> QED  BY <2>1 DEF CallInv, Ensured
<1> QED  BY <1>1, <1>2, <1>3

(* A stream becomes active: the stores grow.                               *)
LEMMA ActivateStep ==
  ASSUME BootstrapInv, NEW s \in Streams, Activate(s)
  PROVE  BootstrapInv'
<1> USE DEF BootstrapInv, Activate, call, history
<1>1. TypeOK'
  BY DEF TypeOK, container
<1>2. Grows
  BY DEF Grows, TypeOK
<1>3. \A c \in Clients : Untouched(c)
  BY DEF Untouched
<1> QED  BY <1>1, <1>2, <1>3, GrowingScript, GrowingCall

(* The script: each of its steps leaves what the next ones rely on.        *)
LEMMA ScriptStep == ASSUME BootstrapInv, Script PROVE BootstrapInv'
<1> USE DEF BootstrapInv, Script, call, history, container
<1>1. \A c \in Clients : Untouched(c)
  BY DEF Untouched
<1>2. CASE script = 1
  <2>1. bucket' \in BOOLEAN /\ (bucket => bucket') /\ script' = 2 /\ stream' = stream
    <3>1. bucket' = (bucket \/ "s3" \in answers) /\ script' = 2 /\ stream' = stream
      BY <1>2, Constants
    <3> HIDE DEF Script
    <3> QED  BY <3>1, Zenon DEF TypeOK
  <2>2. TypeOK'
    BY <2>1, <1>2, Constants DEF TypeOK
  <2>3. Scripted'
    BY <2>1, Constants DEF Scripted
  <2>4. Grows
    BY <2>1 DEF Grows
  <2> QED  BY <2>2, <2>3, <2>4, <1>1, GrowingCall
<1>3. CASE script \in 2..(n + 1)
  <2> DEFINE s == ScriptStreams[script - 1]
  <2>1. /\ script - 1 \in 1..n /\ s \in Streams /\ script' = script + 1 /\ bucket' = bucket
        /\ stream' = [stream EXCEPT ![s] = IF stream[s] = "none" /\ "kinesis" \in answers
                                            THEN "creating" ELSE stream[s]]
    BY <1>3, Constants DEF AfterCreate
  <2> HIDE DEF s
  <2>2. stream' \in [Streams -> {"none", "creating", "active"}]
    BY <2>1 DEF TypeOK
  <2>3. script' \in 0..Done
    BY <2>1, <1>3, Constants
  <2>4. TypeOK'
    BY <2>1, <2>2, <2>3, <1>3 DEF TypeOK
  <2>5. Grows
    BY <2>1 DEF Grows, TypeOK
  <2>6. ASSUME NEW i \in DOMAIN ScriptStreams PROVE ~(script' > n + 1 + i)
    BY <2>1, <1>3, Constants
  <2> QED  BY <2>4, <2>5, <2>6, <1>1, GrowingCall DEF Scripted
<1>4. CASE script > n + 1
  <2> DEFINE s == ScriptStreams[script - n - 1]
  <2>1. /\ \/ stream[s] = "active" /\ script' = script + 1
           \/ script' = 0
        /\ UNCHANGED <<bucket, stream, secret>> /\ script \in Nat /\ script < Done
    BY <1>4, Constants
  <2>2. TypeOK'
    BY <2>1, <1>4, Constants DEF TypeOK
  <2>3. Scripted'
    BY <2>1, <1>4, Constants DEF Scripted
  <2>4. Grows
    BY <2>1 DEF Grows
  <2> QED  BY <2>2, <2>3, <2>4, <1>1, GrowingCall
<1>5. script \in Nat /\ script > 0
  BY Constants
<1> QED  BY <1>2, <1>3, <1>4, <1>5, Constants

(* A call begins with what the container is now.                           *)
LEMMA CallStep ==
  ASSUME BootstrapInv, NEW c \in Clients, NEW o \in Operations, NEW s \in Streams, Call(c, o, s)
  PROVE  BootstrapInv'
<1> USE DEF BootstrapInv, Call, container, stores
<1>1. /\ pc'[c] = FirstStep(o) /\ op'[c] = o /\ outcome'[c] = "none" /\ created'[c] = FALSE
      /\ seen'[c] = (IF o = "health" THEN {ConditionIn(answers)} ELSE {})
      /\ up'[c] \subseteq {"database"} /\ ended' = ended
      /\ FirstStep(o) \in StepsOf(o) \ {"idle", "wait", "list_streams"}
      /\ (FirstStep(o) = "list_buckets" => o = "health")
      /\ calls'[c] > 0
  <2>1. FirstStep(o) \in StepsOf(o) \ {"idle", "wait", "list_streams"}
    BY DEF FirstStep, StepsOf, Operations
  <2>2. calls'[c] = calls[c] + 1 /\ calls[c] \in Nat
    BY Constants DEF TypeOK
  <2>3. calls'[c] > 0
    BY <2>2
  <2>4. FirstStep(o) = "list_buckets" => o = "health"
    BY DEF FirstStep, Operations
  <2> QED  BY <2>1, <2>3, <2>4 DEF TypeOK
<1>2. \A d \in Clients \ {c} : Untouched(d)
  BY DEF TypeOK, Untouched
<1>3. TypeOK'
  <2>1. calls' \in [Clients -> 0..MaxCalls]
    BY Constants DEF TypeOK
  <2>3. seen' \in [Clients -> SUBSET Conditions]
    BY DEF TypeOK, Conditions, ConditionIn
  <2>4. \A d \in Clients : pc'[d] \in {"idle"} \union StepsOf(op'[d])
    BY <1>1, <1>2 DEF TypeOK, Untouched
  <2>5. ASSUME NEW d \in Clients
        PROVE  outcome'[d] \in (IF pc'[d] = "idle" /\ calls'[d] > 0 THEN Outcomes(op'[d]) ELSE {"none"})
    <3>1. CASE d = c
      BY <3>1, <1>1
    <3>2. CASE d # c
      BY <3>2, <1>2 DEF TypeOK, Untouched
    <3> QED  BY <3>1, <3>2
  <2> QED  BY <2>1, <2>3, <2>4, <2>5 DEF TypeOK
<1>4. Grows
  BY DEF Grows
<1>5. CallInv(c)'
  BY <1>1 DEF CallInv, Calling, Probing, Ensured
<1> QED  BY <1>2, <1>3, <1>4, <1>5, GrowingScript, GrowingCall

(* A step of a call: what remains to be shown is about the call itself.    *)
LEMMA StepOfCall ==
  ASSUME BootstrapInv, NEW c \in Clients, pc[c] # "idle", Grows, CallInv(c)',
         UNCHANGED <<script, op, target, calls>>,
         stream' \in [Streams -> {"none", "creating", "active"}],
         bucket' \in BOOLEAN, secret' \in BOOLEAN,
         NEW v \in SUBSET {"database", "s3", "kinesis"}, up' = [up EXCEPT ![c] = v],
         NEW b \in BOOLEAN, created' = [created EXCEPT ![c] = b],
         NEW z \in SUBSET Conditions, seen' = [seen EXCEPT ![c] = z],
         \/ \E how \in Outcomes(op[c]) : Finish(c, how)
         \/ \E step \in StepsOf(op[c]) \ {"idle"} : Goto(c, step)
  PROVE  BootstrapInv'
<1> USE DEF BootstrapInv, Grows, container
<1>1. /\ DOMAIN pc' = Clients /\ DOMAIN outcome' = Clients
      /\ ended' \in [Clients -> 0..MaxLives]
      /\ pc'[c] \in {"idle"} \union StepsOf(op[c])
      /\ outcome'[c] \in (IF pc'[c] = "idle" /\ calls[c] > 0 THEN Outcomes(op[c]) ELSE {"none"})
      /\ \A d \in Clients \ {c} : pc'[d] = pc[d] /\ outcome'[d] = outcome[d] /\ ended'[d] = ended[d]
  <2>1. calls[c] > 0 /\ outcome[c] = "none"
    BY DEF CallInv, Calling, TypeOK
  <2>2. ASSUME NEW how \in Outcomes(op[c]), Finish(c, how) PROVE <1>1!:
    BY <2>1, <2>2 DEF Finish, TypeOK
  <2>3. ASSUME NEW step \in StepsOf(op[c]) \ {"idle"}, Goto(c, step) PROVE <1>1!:
    BY <2>1, <2>3 DEF Goto, TypeOK
  <2> QED  BY <2>2, <2>3
<1>2. up' \in [Clients -> SUBSET {"database", "s3", "kinesis"}] /\ created' \in [Clients -> BOOLEAN]
      /\ seen' \in [Clients -> SUBSET Conditions]
  BY DEF TypeOK
<1>3. \A d \in Clients \ {c} : Untouched(d)
  BY <1>1 DEF TypeOK, Untouched
<1>4. \A d \in Clients :
        /\ pc'[d] \in {"idle"} \union StepsOf(op'[d])
        /\ outcome'[d] \in (IF pc'[d] = "idle" /\ calls'[d] > 0 THEN Outcomes(op'[d]) ELSE {"none"})
  <2>1. ASSUME NEW d \in Clients, d # c
        PROVE  /\ pc'[d] \in {"idle"} \union StepsOf(op'[d])
               /\ outcome'[d] \in (IF pc'[d] = "idle" /\ calls'[d] > 0 THEN Outcomes(op'[d]) ELSE {"none"})
    BY <1>1, <2>1 DEF TypeOK
  <2> QED  BY <1>1, <2>1
<1>5. TypeOK'
  BY <1>1, <1>2, <1>4 DEF TypeOK
<1> QED  BY <1>3, <1>5, GrowingScript, GrowingCall

(* A call that ends, or goes on to a step of its operation.                *)
LEMMA Ending ==
  ASSUME TypeOK, NEW c \in Clients, NEW how, Finish(c, how)
  PROVE  pc'[c] = "idle" /\ outcome'[c] = how /\ ended'[c] = life
BY DEF Finish, TypeOK
LEMMA GoingOn ==
  ASSUME TypeOK, NEW c \in Clients, NEW step, Goto(c, step), pc[c] # "idle"
  PROVE  pc'[c] = step /\ outcome'[c] = "none" /\ ended' = ended
BY DEF Goto, TypeOK

(* A call that fails has promised nothing, whatever it has done.           *)
LEMMA Fails ==
  ASSUME BootstrapInv, NEW c \in Clients, pc[c] # "idle", op[c] # "health", Grows,
         NEW how \in {"raised", "BotoCoreError"}, Finish(c, how),
         UNCHANGED <<script, op, target, up, calls, seen>>,
         stream' \in [Streams -> {"none", "creating", "active"}],
         bucket' \in BOOLEAN, secret' \in BOOLEAN,
         NEW b \in BOOLEAN, created' = [created EXCEPT ![c] = b], b => op[c] = "ensure_stream"
  PROVE  BootstrapInv'
<1> USE DEF BootstrapInv
<1>1. /\ pc'[c] = "idle" /\ outcome'[c] = how /\ ended'[c] = life /\ life \in Nat
      /\ life' = life /\ created'[c] = b
  BY Ending DEF TypeOK, Grows, container
<1>2. CallInv(c)'
  BY <1>1 DEF CallInv, Calling, Probing, Ensured
<1>3. /\ up' = [up EXCEPT ![c] = up[c]] /\ up[c] \in SUBSET {"database", "s3", "kinesis"}
      /\ seen' = [seen EXCEPT ![c] = seen[c]] /\ seen[c] \in SUBSET Conditions
  BY DEF TypeOK
<1>4. how \in Outcomes(op[c])
  BY DEF Outcomes, Endings
<1> QED  BY <1>2, <1>3, <1>4, StepOfCall

(* A call that returns: what it has ensured is there.                      *)
LEMMA Returns ==
  ASSUME BootstrapInv, NEW c \in Clients, pc[c] # "idle", op[c] # "health", Grows, Finish(c, "ok"),
         UNCHANGED <<script, op, target, up, calls, created, seen>>,
         stream' \in [Streams -> {"none", "creating", "active"}],
         bucket' \in BOOLEAN, secret' \in BOOLEAN,
         op[c] \in {"ensure_bucket", "put_raw_payload"} => bucket',
         op[c] \in {"put_secret", "get_secret"} => secret',
         op[c] = "ensure_stream" => stream'[target[c]] # "none",
         op[c] = "publish" \/ created[c] => stream'[target[c]] = "active"
  PROVE  BootstrapInv'
<1> USE DEF BootstrapInv
<1>1. /\ pc'[c] = "idle" /\ outcome'[c] = "ok" /\ ended'[c] = life /\ life \in Nat
      /\ life' = life
  BY Ending DEF TypeOK, Grows, container
<1>2. CallInv(c)'
  BY <1>1 DEF CallInv, Calling, Probing, Ensured
<1>3. /\ up' = [up EXCEPT ![c] = up[c]] /\ up[c] \in SUBSET {"database", "s3", "kinesis"}
      /\ seen' = [seen EXCEPT ![c] = seen[c]] /\ seen[c] \in SUBSET Conditions
      /\ created' = [created EXCEPT ![c] = created[c]] /\ created[c] \in BOOLEAN
  BY DEF TypeOK
<1>4. "ok" \in Outcomes(op[c])
  BY DEF Outcomes, Endings
<1> QED  BY <1>2, <1>3, <1>4, StepOfCall

(* A ClientError meets the first request of a call: it goes on to a create. *)
LEMMA FallsBack ==
  ASSUME BootstrapInv, NEW c \in Clients, pc[c] \in DOMAIN Fallback, Goto(c, Fallback[pc[c]]),
         UNCHANGED <<container, stores, script, op, target, up, calls, created, seen>>
  PROVE  BootstrapInv'
<1> USE DEF BootstrapInv
<1>1. /\ pc[c] # "idle" /\ Fallback[pc[c]] \in StepsOf(op[c]) \ {"idle"}
      /\ Fallback[pc[c]] \in {"create_bucket", "create_stream", "create_secret"}
  BY Fallbacks, AtStep, Steps
<1>2. Grows
  BY DEF Grows, stores
<1>3. pc'[c] = Fallback[pc[c]] /\ outcome'[c] = "none" /\ ended' = ended
  BY <1>1, GoingOn
<1>4. created[c] = FALSE
  BY Fallbacks DEF CallInv, Calling, TypeOK
<1>5. CallInv(c)'
  BY <1>1, <1>3, <1>4 DEF CallInv, Calling, Probing, Ensured, container
<1>6. /\ up' = [up EXCEPT ![c] = up[c]] /\ up[c] \in SUBSET {"database", "s3", "kinesis"}
      /\ seen' = [seen EXCEPT ![c] = seen[c]] /\ seen[c] \in SUBSET Conditions
      /\ created' = [created EXCEPT ![c] = created[c]] /\ created[c] \in BOOLEAN
  BY DEF TypeOK
<1>7. /\ stream' \in [Streams -> {"none", "creating", "active"}]
      /\ bucket' \in BOOLEAN /\ secret' \in BOOLEAN
  BY DEF TypeOK, stores
<1> QED  BY <1>1, <1>2, <1>5, <1>6, <1>7, StepOfCall

(* A step of a call on a service: its operation, and what it leaves alone. *)
LEMMA OnService ==
  ASSUME BootstrapInv, NEW c \in Clients, pc[c] # "idle",
         pc[c] \notin {"list_buckets", "list_streams"}
  PROVE  /\ op[c] # "health" /\ target[c] \in Streams
         /\ created[c] \in BOOLEAN /\ created = [created EXCEPT ![c] = created[c]]
         /\ (created[c] => op[c] = "ensure_stream")
BY AtStep DEF BootstrapInv, TypeOK, CallInv, Calling

(* The service does not answer: an error, or a ClientError and a create.   *)
LEMMA UnansweredStep ==
  ASSUME BootstrapInv, NEW c \in Clients, Unanswered(c)
  PROVE  BootstrapInv'
<1> USE DEF Unanswered
<1>1. pc[c] # "idle" /\ pc[c] \notin {"list_buckets", "list_streams"}
  BY DEF Raises
<1>2. CASE Goto(c, Fallback[pc[c]]) /\ pc[c] \in DOMAIN Fallback
  BY <1>2, FallsBack
<1>3. CASE \E how \in {"raised", "BotoCoreError"} : Finish(c, how)
  <2>1. /\ stream' \in [Streams -> {"none", "creating", "active"}]
        /\ bucket' \in BOOLEAN /\ secret' \in BOOLEAN /\ Grows
    BY DEF BootstrapInv, TypeOK, stores, Grows
  <2> QED  BY <1>1, <1>3, <2>1, OnService, Fails
<1> QED  BY <1>2, <1>3

(* ensure_bucket: a bucket it has created is there, the answer lost or not. *)
LEMMA EnsureBucketStep ==
  ASSUME BootstrapInv, NEW c \in Clients, EnsureBucket(c)
  PROVE  BootstrapInv'
<1> USE DEF EnsureBucket
<1>1. /\ pc[c] # "idle" /\ pc[c] \notin {"list_buckets", "list_streams"} /\ op[c] = "ensure_bucket"
      /\ created[c] = FALSE
  BY AtStep DEF BootstrapInv, CallInv, Calling, TypeOK
<1>2. /\ stream' \in [Streams -> {"none", "creating", "active"}]
      /\ bucket' \in BOOLEAN /\ secret' \in BOOLEAN /\ Grows
  <2>1. UNCHANGED <<container, stream, secret>> /\ (bucket' = bucket \/ bucket' = TRUE)
    OBVIOUS
  <2> HIDE DEF EnsureBucket
  <2> QED  BY <2>1 DEF BootstrapInv, TypeOK, Grows
<1>3. CASE pc[c] = "head_bucket" /\ Goto(c, Fallback[pc[c]])
  <2>1. UNCHANGED <<container, stores, script, op, target, up, calls, created, seen>>
    BY <1>3 DEF stores
  <2> QED  BY <1>3, <2>1, FallsBack, Fallbacks
<1>4. CASE Finish(c, "ok") /\ bucket' = TRUE
  BY <1>1, <1>2, <1>4, Returns
<1>5. CASE Finish(c, "raised")
  BY <1>1, <1>2, <1>5, OnService, Fails
<1> QED  BY <1>3, <1>4, <1>5 DEF BootstrapInv, TypeOK

(* A call of a single request that changes nothing in LocalStack.          *)
LEMMA SingleRequestStep ==
  ASSUME BootstrapInv, NEW c \in Clients, PutRawPayload(c) \/ Publish(c) \/ GetSecret(c)
  PROVE  BootstrapInv'
<1> DEFINE Works == \/ op[c] = "put_raw_payload" /\ bucket
                    \/ op[c] = "publish" /\ stream[target[c]] = "active"
                    \/ op[c] = "get_secret" /\ secret
<1>1. /\ pc[c] # "idle" /\ pc[c] \notin {"list_buckets", "list_streams"}
      /\ op[c] \in {"put_raw_payload", "publish", "get_secret"}
      /\ Finish(c, IF Works THEN "ok" ELSE "raised")
      /\ UNCHANGED <<container, stores, script, op, target, up, calls, created, seen>>
  <2>1. CASE PutRawPayload(c)
    BY <2>1, AtStep DEF PutRawPayload, BootstrapInv
  <2>2. CASE Publish(c)
    BY <2>2, AtStep DEF Publish, BootstrapInv
  <2>3. CASE GetSecret(c)
    BY <2>3, AtStep DEF GetSecret, BootstrapInv
  <2> QED  BY <2>1, <2>2, <2>3
<1>2. /\ stream' \in [Streams -> {"none", "creating", "active"}]
      /\ bucket' \in BOOLEAN /\ secret' \in BOOLEAN /\ Grows
  BY <1>1 DEF BootstrapInv, TypeOK, stores, Grows
<1>3. created[c] = FALSE
  BY <1>1 DEF BootstrapInv, CallInv, Calling, TypeOK
<1>4. CASE Works
  BY <1>1, <1>2, <1>3, <1>4, Returns DEF stores
<1>5. CASE ~Works
  BY <1>1, <1>2, <1>5, OnService, Fails
<1> QED  BY <1>4, <1>5

(* ensure_stream: it describes, creates and waits.                         *)
LEMMA EnsureStreamStep ==
  ASSUME BootstrapInv, NEW c \in Clients, EnsureStream(c)
  PROVE  BootstrapInv'
<1> USE DEF EnsureStream
<1> DEFINE s == target[c]
<1>1. /\ pc[c] # "idle" /\ pc[c] \notin {"list_buckets", "list_streams"} /\ op[c] = "ensure_stream"
      /\ s \in Streams
  BY AtStep DEF BootstrapInv, TypeOK
<1>2. UNCHANGED <<container, bucket, secret, script, op, target, up, calls, seen>>
  OBVIOUS
<1>3. \/ pc[c] = "describe_stream" /\ stream[s] # "none" /\ Finish(c, "ok") /\ UNCHANGED <<stream, created>>
      \/ pc[c] = "describe_stream" /\ Goto(c, Fallback[pc[c]]) /\ UNCHANGED <<stream, created>>
      \/ /\ pc[c] = "create_stream" /\ stream[s] = "none"
         /\ Goto(c, "wait") \/ Finish(c, "raised")
         /\ stream' = [stream EXCEPT ![s] = "creating"] /\ created' = [created EXCEPT ![c] = TRUE]
      \/ pc[c] = "wait" /\ stream[s] = "active" /\ Finish(c, "ok") /\ UNCHANGED <<stream, created>>
      \/ Finish(c, "raised") /\ UNCHANGED <<stream, created>>
  BY DEF AfterCreateStream
<1> HIDE DEF EnsureStream
<1>4. /\ stream' \in [Streams -> {"none", "creating", "active"}]
      /\ bucket' \in BOOLEAN /\ secret' \in BOOLEAN
  BY <1>1, <1>2, <1>3 DEF BootstrapInv, TypeOK
<1>5. CASE pc[c] = "describe_stream" /\ Goto(c, Fallback[pc[c]]) /\ UNCHANGED <<stream, created>>
  BY <1>2, <1>5, FallsBack, Fallbacks DEF stores
<1>6. CASE UNCHANGED <<stream, created>> /\ Finish(c, "ok") /\ stream[s] # "none"
           /\ (pc[c] = "wait" => stream[s] = "active")
  <2>1. created[c] => pc[c] = "wait"
    BY <1>1 DEF BootstrapInv, CallInv, Calling
  <2>2. Grows
    BY <1>2, <1>6 DEF Grows
  <2> QED  BY <1>1, <1>2, <1>4, <1>6, <2>1, <2>2, Returns
<1>7. CASE UNCHANGED <<stream, created>> /\ Finish(c, "raised")
  <2>1. Grows
    BY <1>2, <1>7 DEF Grows
  <2> QED  BY <1>1, <1>2, <1>4, <1>7, <2>1, OnService, Fails
<1>8. CASE /\ stream[s] = "none" /\ stream' = [stream EXCEPT ![s] = "creating"]
           /\ created' = [created EXCEPT ![c] = TRUE]
           /\ Goto(c, "wait") \/ Finish(c, "raised")
  <2>1. Grows
    BY <1>1, <1>2, <1>8 DEF BootstrapInv, TypeOK, Grows
  <2>2. CASE Finish(c, "raised")
    BY <1>1, <1>2, <1>4, <1>8, <2>1, <2>2, Fails
  <2>3. CASE Goto(c, "wait")
    <3>1. pc'[c] = "wait" /\ outcome'[c] = "none" /\ ended' = ended
      BY <2>3, <1>1, GoingOn DEF BootstrapInv
    <3>2. CallInv(c)'
      <4>1. created'[c] = TRUE
        BY <1>8 DEF BootstrapInv, TypeOK
      <4> QED  BY <3>1, <4>1, <1>1, <1>2
           DEF BootstrapInv, CallInv, Calling, Probing, Ensured, container
    <3>3. /\ up' = [up EXCEPT ![c] = up[c]] /\ up[c] \in SUBSET {"database", "s3", "kinesis"}
          /\ seen' = [seen EXCEPT ![c] = seen[c]] /\ seen[c] \in SUBSET Conditions
      BY <1>2 DEF BootstrapInv, TypeOK
    <3>4. "wait" \in StepsOf(op[c]) \ {"idle"}
      BY <1>1, Steps
    <3> QED  BY <1>1, <1>2, <1>4, <1>8, <2>1, <2>3, <3>2, <3>3, <3>4, StepOfCall
  <2> QED  BY <1>8, <2>2, <2>3
<1> QED  BY <1>3, <1>5, <1>6, <1>7, <1>8

(* put_secret: it updates, or creates.                                     *)
LEMMA PutSecretStep ==
  ASSUME BootstrapInv, NEW c \in Clients, PutSecret(c)
  PROVE  BootstrapInv'
<1> USE DEF PutSecret
<1>1. /\ pc[c] # "idle" /\ pc[c] \notin {"list_buckets", "list_streams"} /\ op[c] = "put_secret"
      /\ created[c] = FALSE
  BY AtStep DEF BootstrapInv, CallInv, Calling, TypeOK
<1>2. /\ stream' \in [Streams -> {"none", "creating", "active"}]
      /\ bucket' \in BOOLEAN /\ secret' \in BOOLEAN /\ Grows
  <2>1. UNCHANGED <<container, stream, bucket>> /\ (secret' = secret \/ secret' = TRUE)
    OBVIOUS
  <2> HIDE DEF PutSecret
  <2> QED  BY <2>1 DEF BootstrapInv, TypeOK, Grows
<1>3. CASE pc[c] = "put_secret_value" /\ Goto(c, Fallback[pc[c]])
  <2>1. UNCHANGED <<container, stores, script, op, target, up, calls, created, seen>>
    BY <1>3 DEF stores
  <2> QED  BY <1>3, <2>1, FallsBack, Fallbacks
<1>4. CASE Finish(c, "ok") /\ secret' = TRUE
  BY <1>1, <1>2, <1>4, Returns
<1>5. CASE Finish(c, "raised")
  BY <1>1, <1>2, <1>5, OnService, Fails
<1> QED  BY <1>3, <1>4, <1>5 DEF BootstrapInv, TypeOK

(* A probe: what it finds of a service is what the container is just then. *)
LEMMA HealthStep ==
  ASSUME BootstrapInv, NEW c \in Clients, Health(c)
  PROVE  BootstrapInv'
<1> USE DEF BootstrapInv, Health
<1>1. /\ pc[c] # "idle" /\ op[c] = "health" /\ created[c] = FALSE /\ life \in Nat
      /\ ConditionIn(answers) \in seen[c] /\ outcome[c] = "none"
      /\ up[c] \in SUBSET {"database", "s3", "kinesis"} /\ seen[c] \in SUBSET Conditions
  <2>1. pc[c] # "idle" /\ op[c] = "health"
    BY AtStep
  <2> QED  BY <2>1 DEF CallInv, Calling, Probing, TypeOK
<1>2. UNCHANGED <<container, stores, script, op, target, calls, created>>
  OBVIOUS
<1>3. \/ /\ pc[c] = "list_buckets" /\ Goto(c, "list_streams") /\ UNCHANGED seen
         /\ up' = [up EXCEPT ![c] = up[c] \union (answers \intersect {"s3"})]
      \/ /\ \E found \in SUBSET {"database", "s3", "kinesis"} : Finish(c, Overall(found))
         /\ up' = [up EXCEPT ![c] = {}] /\ seen' = [seen EXCEPT ![c] = {}]
  BY <1>1
<1>4. Grows
  BY <1>2 DEF Grows, stores
<1>5. CallInv(c)'
  <2>1. ASSUME pc[c] = "list_buckets", Goto(c, "list_streams"), UNCHANGED seen,
               up' = [up EXCEPT ![c] = up[c] \union (answers \intersect {"s3"})]
        PROVE  CallInv(c)'
    <3>1. pc'[c] = "list_streams" /\ outcome'[c] = "none" /\ ended' = ended
      BY <2>1, <1>1, GoingOn
    <3>2. up'[c] = up[c] \union (answers \intersect {"s3"}) /\ up[c] \subseteq {"database"}
      BY <2>1 DEF TypeOK, CallInv, Probing
    <3>3. Probing(c)'
      BY <2>1, <3>1, <3>2, <1>1, <1>2 DEF Probing, ConditionIn, container
    <3> QED  BY <3>1, <3>3, <1>2 DEF CallInv, Calling, Ensured, container
  <2>2. ASSUME NEW found \in SUBSET {"database", "s3", "kinesis"}, Finish(c, Overall(found))
        PROVE  CallInv(c)'
    <3>1. pc'[c] = "idle" /\ outcome'[c] = Overall(found) /\ ended'[c] = life
      BY <2>2, Ending
    <3>2. outcome'[c] # "ok"
      BY <3>1 DEF Overall
    <3> QED  BY <3>1, <3>2, <1>1, <1>2 DEF CallInv, Calling, Probing, Ensured, container
  <2> QED  BY <1>3, <2>1, <2>2
<1>6. /\ \E v \in SUBSET {"database", "s3", "kinesis"} : up' = [up EXCEPT ![c] = v]
      /\ \E z \in SUBSET Conditions : seen' = [seen EXCEPT ![c] = z]
  <2>1. seen = [seen EXCEPT ![c] = seen[c]]
    BY DEF TypeOK
  <2>2. \E z \in SUBSET Conditions : seen' = [seen EXCEPT ![c] = z]
    BY <1>1, <1>3, <2>1
  <2>3. up[c] \union (answers \intersect {"s3"}) \in SUBSET {"database", "s3", "kinesis"}
    BY <1>1
  <2> QED  BY <1>3, <2>2, <2>3
<1>7. created' = [created EXCEPT ![c] = created[c]] /\ created[c] \in BOOLEAN
  BY <1>2 DEF TypeOK
<1>8. \/ \E how \in Outcomes(op[c]) : Finish(c, how)
      \/ \E step \in StepsOf(op[c]) \ {"idle"} : Goto(c, step)
  BY <1>1, <1>3, Steps DEF Outcomes, Statuses, Overall
<1>9. /\ stream' \in [Streams -> {"none", "creating", "active"}]
      /\ bucket' \in BOOLEAN /\ secret' \in BOOLEAN
  BY <1>2 DEF TypeOK, stores
<1> QED  BY <1>1, <1>2, <1>4, <1>5, <1>6, <1>7, <1>8, <1>9, StepOfCall

(* Nothing happens.                                                        *)
LEMMA NoStep == ASSUME BootstrapInv, UNCHANGED vars PROVE BootstrapInv'
<1> USE DEF BootstrapInv, vars, container, stores, call, history
<1>1. TypeOK'
  BY DEF TypeOK
<1>2. Grows /\ \A c \in Clients : Untouched(c)
  BY DEF Grows, Untouched
<1> QED  BY <1>1, <1>2, GrowingScript, GrowingCall
-----------------------------------------------------------------------------
(* The inductive invariant of LocalStack, its script and its clients: an   *)
(* action of each is a step of the proof.                                  *)
THEOREM BootstrapInvariant == Spec => []BootstrapInv
<1>1. ASSUME BootstrapInv, [Next]_vars PROVE BootstrapInv'
  <2> USE <1>1
  <2>1. CASE Boot
    BY <2>1, BootStep
  <2>2. CASE Die
    BY <2>2, DieStep
  <2>3. CASE Script
    BY <2>3, ScriptStep
  <2>8. CASE Waver
    BY <2>8, WaverStep
  <2>4. ASSUME NEW s \in Streams, Activate(s) PROVE BootstrapInv'
    BY <2>4, ActivateStep
  <2>5. ASSUME NEW c \in Clients, NEW o \in Operations, NEW s \in Streams, Call(c, o, s)
        PROVE  BootstrapInv'
    BY <2>5, CallStep
  <2>6. ASSUME NEW c \in Clients, Run(c) PROVE BootstrapInv'
    BY <2>6, UnansweredStep, EnsureBucketStep, SingleRequestStep, EnsureStreamStep,
       PutSecretStep, HealthStep DEF Run
  <2>7. CASE UNCHANGED vars
    BY <2>7, NoStep
  <2> QED  BY <2>1, <2>2, <2>3, <2>4, <2>5, <2>6, <2>7, <2>8 DEF Next
<1> QED  BY <1>1, InitInv, PTL DEF Spec

(* Every variable keeps its type: only a living container answers and runs *)
(* the script, a call is at a step of its own operation, no probe raises.  *)
THEOREM TypeCorrect == Spec => []TypeOK
<1>1. BootstrapInv => TypeOK
  BY DEF BootstrapInv
<1> QED  BY <1>1, BootstrapInvariant, PTL

(* What a wrapper of common/aws has ensured, and the streams for which     *)
(* init-aws.sh has waited, are there as long as the container lives,       *)
(* whichever requests fail.                                                *)
THEOREM CallsEnsure == Spec => []EnsuredExists
<1>1. BootstrapInv => EnsuredExists
  <2> SUFFICES ASSUME BootstrapInv PROVE EnsuredExists
    OBVIOUS
  <2> USE DEF BootstrapInv
  <2>1. script = Done => StreamsReady
    BY Constants DEF Scripted, StreamsReady, Done
  <2>2. \A c \in Clients : Ensured(c)
    BY DEF CallInv
  <2> QED  BY <2>1, <2>2 DEF EnsuredExists, Ensured
<1> QED  BY <1>1, BootstrapInvariant, PTL

(* init-aws.sh ends before "Bootstrap complete" only while a stream it is  *)
(* to provide is not active or Kinesis does not answer: neither what       *)
(* clients have made before it nor a create that fails stops it.           *)
THEOREM StopsForCause == Spec => StopsOnlyUnready
<1> DEFINE Cause == script # 0 /\ script' = 0 /\ alive' => ~StreamsReady \/ "kinesis" \notin answers
<1>1. ASSUME BootstrapInv, Next PROVE Cause
  <2> USE <1>1 DEF BootstrapInv
  <2>1. CASE Script
    <3>1. script \in 2..(n + 1) => script' # 0
      BY <2>1, Constants DEF Script, AfterCreate
    <3>2. ASSUME script > n + 1, GivesUp(ScriptStreams[script - n - 1]) PROVE Cause
      <4>1. script - n - 1 \in DOMAIN ScriptStreams
        BY <2>1, <3>2, Constants DEF Script, Done
      <4> QED  BY <3>2, <4>1 DEF GivesUp, StreamsReady
    <3>3. script > n + 1 /\ ~GivesUp(ScriptStreams[script - n - 1]) => script' # 0
      BY <2>1, Constants DEF Script
    <3>4. script = 1 => script' # 0
      BY <2>1, Constants DEF Script
    <3>5. script \in 1..(Done - 1)
      BY <2>1 DEF Script
    <3> QED  BY <3>1, <3>2, <3>3, <3>4, <3>5, Constants
  <2>2. CASE ~Script
    <3>1. ASSUME NEW d \in Clients, Run(d) PROVE script' = script
      BY <3>1 DEF Run, Unanswered, EnsureBucket, PutRawPayload, EnsureStream, Publish, PutSecret,
         GetSecret, Health
    <3>2. Die => ~alive'
      BY DEF Die
    <3>3. Boot => script' # 0
      BY DEF Boot
    <3>4. Waver => script' = script
      BY DEF Waver
    <3>5. ASSUME NEW s \in Streams, Activate(s) PROVE script' = script
      BY <3>5 DEF Activate
    <3>6. ASSUME NEW c \in Clients, NEW o \in Operations, NEW s \in Streams, Call(c, o, s)
          PROVE  script' = script
      BY <3>6 DEF Call
    <3> QED  BY <2>2, <3>1, <3>2, <3>3, <3>4, <3>5, <3>6 DEF Next
  <2> QED  BY <2>1, <2>2
<1>2. BootstrapInv /\ [Next]_vars => [Cause]_vars
  BY <1>1
<1> QED  BY <1>2, BootstrapInvariant, PTL DEF Spec, StopsOnlyUnready

(* A step of a client moves no other.                                      *)
LEMMA PcOfRun ==
  ASSUME NEW d \in Clients, Run(d)
  PROVE  \E step : pc' = [pc EXCEPT ![d] = step]
<1>1. ASSUME NEW how, Finish(d, how) PROVE \E step : pc' = [pc EXCEPT ![d] = step]
  BY <1>1 DEF Finish
<1>2. ASSUME NEW next, Goto(d, next) PROVE \E step : pc' = [pc EXCEPT ![d] = step]
  BY <1>2 DEF Goto
<1>3. CASE Unanswered(d) \/ PutRawPayload(d) \/ Publish(d) \/ GetSecret(d)
  BY <1>3, <1>1, <1>2 DEF Unanswered, PutRawPayload, Publish, GetSecret
<1>4. CASE EnsureBucket(d)
  BY <1>4, <1>1, <1>2 DEF EnsureBucket
<1>5. CASE EnsureStream(d)
  BY <1>5, <1>1, <1>2 DEF EnsureStream, AfterCreateStream
<1>6. CASE PutSecret(d)
  BY <1>6, <1>1, <1>2 DEF PutSecret
<1>7. CASE Health(d)
  BY <1>7, <1>1, <1>2 DEF Health
<1> QED  BY <1>3, <1>4, <1>5, <1>6, <1>7 DEF Run

(* What GET /health says of Kinesis is so when it answers, what it says of *)
(* S3 was so while it asked.                                               *)
THEOREM ProbesTruthful == Spec => ProbeTellsTruth
<1> DEFINE Truth(c) ==
      LET verdict == outcome'[c]
      IN  pc[c] = "list_streams" /\ pc'[c] = "idle" =>
            /\ verdict = "UP" => "kinesis" \in answers /\ "up" \in seen[c]
            /\ verdict = "DOWN, LocalStack too" =>
                 "kinesis" \notin answers /\ "down" \in seen[c]
            /\ verdict = "DOWN" /\ "database" \in up[c] =>
                 (IF "kinesis" \in answers THEN "down" ELSE "up") \in seen[c]
<1>1. ASSUME BootstrapInv, Next PROVE \A c \in Clients : Truth(c)
  <2> USE <1>1 DEF BootstrapInv
  <2> SUFFICES ASSUME NEW c \in Clients, pc[c] = "list_streams", pc'[c] = "idle"
               PROVE  Truth(c)
    OBVIOUS
  <2>1. Health(c)
    <3>1. ASSUME NEW d \in Clients, Run(d) PROVE d = c
      <4>1. \E step : pc' = [pc EXCEPT ![d] = step]
        BY <3>1, PcOfRun
      <4> QED  BY <4>1 DEF TypeOK
    <3>2. ~(Boot \/ Die \/ Waver \/ Script \/ \E s \in Streams : Activate(s))
      BY DEF Boot, Die, Waver, Script, Activate, call
    <3>3. ASSUME NEW d \in Clients, NEW o \in Operations, NEW s \in Streams, Call(d, o, s)
          PROVE  FALSE
      <4>1. pc[d] = "idle" /\ pc' = [pc EXCEPT ![d] = FirstStep(o)]
        BY <3>3 DEF Call
      <4> QED  BY <4>1 DEF TypeOK
    <3>4. Run(c)
      BY <3>1, <3>2, <3>3 DEF Next
    <3> QED  BY <3>4 DEF Run, Unanswered, Raises, EnsureBucket, PutRawPayload, EnsureStream,
          Publish, PutSecret, GetSecret
  <2> DEFINE found == up[c] \union (answers \intersect {"kinesis"})
  <2>2. Finish(c, Overall(found))
    BY <2>1 DEF Health
  <2>3. outcome'[c] = Overall(found)
    BY <2>2, Ending
  <2>4. /\ up[c] \subseteq {"database", "s3"}
        /\ (IF "s3" \in up[c] THEN "up" ELSE "down") \in seen[c]
    BY DEF CallInv, Probing, ConditionIn
  <2>5. /\ "kinesis" \in found <=> "kinesis" \in answers
        /\ "s3" \in found <=> "s3" \in up[c]
        /\ "database" \in found <=> "database" \in up[c]
    BY <2>4
  <2> HIDE DEF found
  <2>6. /\ outcome'[c] = "UP" <=> "database" \in found /\ "s3" \in found /\ "kinesis" \in found
        /\ outcome'[c] = "DOWN, LocalStack too" <=> "s3" \notin found /\ "kinesis" \notin found
    BY <2>3 DEF Overall, LocalStackUp
  <2>7. outcome'[c] = "DOWN" /\ "database" \in found => ("s3" \in found <=> "kinesis" \notin found)
    BY <2>3, <2>6 DEF Overall
  <2> QED  BY <2>4, <2>5, <2>6, <2>7
<1>2. BootstrapInv /\ [Next]_vars => [\A c \in Clients : Truth(c)]_vars
  BY <1>1
<1> QED  BY <1>2, BootstrapInvariant, PTL DEF Spec, ProbeTellsTruth
=============================================================================
