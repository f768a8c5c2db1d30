-------------------------- MODULE LocalStackBootstrap --------------------------
(***************************************************************************)
(* LocalStack and those who use it.  A restart of its container loses the   *)
(* bucket, the streams and the secrets (PERSISTENCE 0, docker-compose.yml); *)
(* init-aws.sh makes the bucket and the streams again, as far as it can,    *)
(* while the API serves already.  Clients are calls of the wrappers under   *)
(* common/aws and of GET /health, in several threads or processes; each AWS *)
(* request is one step.  Between any two of them the container may die, and *)
(* each of its services may cease to answer and answer again.               *)
(***************************************************************************)
EXTENDS Naturals, Sequences

CONSTANTS
  Clients,
  ScriptStreams,  \* the streams init-aws.sh creates, in its order
  OtherStreams,   \* streams of metadata/streams.yaml it does not know
  MaxLives,       \* bound on the lives of the container
  MaxCalls        \* bound on the calls of a client

Streams == {ScriptStreams[i] : i \in DOMAIN ScriptStreams} \union OtherStreams
ASSUME BoundsAssumption == MaxLives \in Nat \ {0} /\ MaxCalls \in Nat
ASSUME ScriptAssumption == ScriptStreams \in Seq(Streams) /\ ScriptStreams # << >>

VARIABLES
  alive, life,      \* the container, and which of its lives it is in
  answers,          \* its services that answer
  bucket, stream, secret,
  script,           \* next step of init-aws.sh, 0 when it does not run (any more)
  pc, op, target,   \* a call in progress, or the last one of the client
  up,               \* components its probe found up
  outcome, calls,
  (* history *)
  ended,            \* life in which the call ended
  created,          \* the call created the stream itself
  seen              \* conditions S3 was in during a probe in progress

container == <<alive, life, answers>>
stores == <<bucket, stream, secret>>
call == <<pc, op, target, up, outcome, calls>>
history == <<ended, created, seen>>
vars == <<container, stores, script, call, history>>

Operations == {"ensure_bucket", "put_raw_payload", "ensure_stream", "publish",
               "put_secret", "get_secret", "health"}
Services == {"s3", "kinesis", "secretsmanager"}
Service(o) ==
  CASE o \in {"ensure_stream", "publish"} -> "kinesis"
    [] o \in {"put_secret", "get_secret"} -> "secretsmanager"
    [] OTHER -> "s3"
FirstStep(o) ==
  CASE o = "ensure_bucket" -> "head_bucket"
    [] o = "put_raw_payload" -> "put_object"
    [] o = "ensure_stream" -> "describe_stream"
    [] o = "publish" -> "put_record"
    [] o = "put_secret" -> "put_secret_value"
    [] o = "get_secret" -> "get_secret_value"
    [] o = "health" -> "list_buckets"

(* What a wrapper tries when a ClientError meets its first request.        *)
Fallback == [head_bucket |-> "create_bucket", describe_stream |-> "create_stream",
             put_secret_value |-> "create_secret"]

(* The script: the bucket, then a create and then a wait for each stream.  *)
n == Len(ScriptStreams)
Done == 2 * n + 2
-----------------------------------------------------------------------------
Init ==
  /\ alive = FALSE /\ life = 0 /\ answers = {}
  /\ bucket = FALSE /\ secret = FALSE
  /\ stream = [s \in Streams |-> "none"]
  /\ script = 0
  /\ pc = [c \in Clients |-> "idle"]
  /\ op = [c \in Clients |-> "health"]
  /\ target = [c \in Clients |-> ScriptStreams[1]]
  /\ up = [c \in Clients |-> {}]
  /\ outcome = [c \in Clients |-> "none"]
  /\ calls = [c \in Clients |-> 0]
  /\ ended = [c \in Clients |-> 0]
  /\ created = [c \in Clients |-> FALSE]
  /\ seen = [c \in Clients |-> {}]

(* The condition of S3 is seen by the probes in progress.                  *)
Conditions == {"up", "down"}
ConditionIn(a) == IF "s3" \in a THEN "up" ELSE "down"
Seen(a) ==
  seen' = [c \in Clients |->
             IF seen[c] = {} THEN {} ELSE seen[c] \union {ConditionIn(a)}]

Boot ==
  /\ ~alive /\ life < MaxLives
  /\ alive' = TRUE /\ life' = life + 1
  /\ answers' \in SUBSET Services /\ Seen(answers')
  /\ bucket' = FALSE /\ secret' = FALSE
  /\ stream' = [s \in Streams |-> "none"]
  /\ script' = 1
  /\ UNCHANGED <<call, ended, created>>

Die ==
  /\ alive /\ alive' = FALSE
  /\ answers' = {} /\ Seen(answers')
  /\ script' = 0
  /\ UNCHANGED <<life, stores, call, ended, created>>

(* Services fail and recover one by one while the container runs.          *)
Waver ==
  /\ alive /\ answers' \in SUBSET Services /\ Seen(answers')
  /\ UNCHANGED <<alive, life, stores, script, call, ended, created>>

(* A stream that was created becomes active.                               *)
Activate(s) ==
  /\ alive /\ stream[s] = "creating"
  /\ stream' = [stream EXCEPT ![s] = "active"]
  /\ UNCHANGED <<container, bucket, secret, script, call, history>>

(* "create-stream ... || echo": no failure of a create is a reason to      *)
(* stop.  Variant: without it, under set -e.                               *)
AfterCreateStrict(s) == IF stream[s] = "none" THEN script + 1 ELSE 0
AfterCreate(s) == script + 1

(* "wait stream-exists" ends with an error when its last poll finds the    *)
(* stream not active, or Kinesis fails it; set -e then ends the script.    *)
(* Variant: it waits for ever.                                             *)
GivesUpNever(s) == FALSE
GivesUp(s) == stream[s] # "active" \/ "kinesis" \notin answers

Script ==
  /\ script \in 1..(Done - 1)
  /\ \/ /\ script = 1
        /\ bucket' = (bucket \/ "s3" \in answers)
        /\ script' = 2 /\ UNCHANGED stream
     \/ /\ script \in 2..(n + 1)
        /\ LET s == ScriptStreams[script - 1]
           IN  /\ stream' = [stream EXCEPT ![s] =
                              IF @ = "none" /\ "kinesis" \in answers THEN "creating" ELSE @]
               /\ script' = AfterCreate(s)
        /\ UNCHANGED bucket
     \/ /\ script > n + 1
        /\ LET s == ScriptStreams[script - n - 1]
           IN  \/ stream[s] = "active" /\ "kinesis" \in answers /\ script' = script + 1
               \/ GivesUp(s) /\ script' = 0
        /\ UNCHANGED <<bucket, stream>>
  /\ UNCHANGED <<container, secret, call, history>>
-----------------------------------------------------------------------------
Goto(c, step) == pc' = [pc EXCEPT ![c] = step] /\ UNCHANGED <<outcome, ended>>
Finish(c, how) ==
  /\ pc' = [pc EXCEPT ![c] = "idle"]
  /\ outcome' = [outcome EXCEPT ![c] = how]
  /\ ended' = [ended EXCEPT ![c] = life]

(* _check_database comes first in a probe: a session that EventLoopPool    *)
(* models, here up or not.                                                 *)
Call(c, o, s) ==
  /\ pc[c] = "idle" /\ calls[c] < MaxCalls
  /\ calls' = [calls EXCEPT ![c] = @ + 1]
  /\ op' = [op EXCEPT ![c] = o]
  /\ o \in {"ensure_stream", "publish"} \/ s = target[c]
  /\ target' = [target EXCEPT ![c] = s]
  /\ \E b \in SUBSET {"database"} :
       (o = "health" \/ b = {}) /\ up' = [up EXCEPT ![c] = b]
  /\ pc' = [pc EXCEPT ![c] = FirstStep(o)]
  /\ outcome' = [outcome EXCEPT ![c] = "none"]
  /\ created' = [created EXCEPT ![c] = FALSE]
  /\ seen' = [seen EXCEPT ![c] = IF o = "health" THEN {ConditionIn(answers)} ELSE {}]
  /\ UNCHANGED <<container, stores, script, ended>>

(* Where an error ends a call.  Variant: in a probe as well.               *)
RaisesAnywhere(c) == pc[c] # "idle"
Raises(c) == pc[c] \notin {"idle", "list_buckets", "list_streams"}

(* The service does not answer: a BotoCoreError, once botocore has given   *)
(* up, or while the container lives a ClientError.  The first requests of  *)
(* ensure_bucket and ensure_stream catch ClientError only.                 *)
Unanswered(c) ==
  /\ Raises(c) /\ Service(op[c]) \notin answers
  /\ \/ Finish(c, IF pc[c] \in {"head_bucket", "describe_stream"} THEN "BotoCoreError" ELSE "raised")
     \/ alive /\ pc[c] \in DOMAIN Fallback /\ Goto(c, Fallback[pc[c]])
  /\ UNCHANGED <<container, stores, script, op, target, up, calls, created, seen>>

(* The service answers by what it holds, but the answer to a create may be *)
(* lost.  A bucket may be created again by its owner.                      *)
EnsureBucket(c) ==
  /\ "s3" \in answers
  /\ \/ /\ pc[c] = "head_bucket" /\ UNCHANGED bucket
        /\ IF bucket THEN Finish(c, "ok") ELSE Goto(c, Fallback[pc[c]])
     \/ /\ pc[c] = "create_bucket" /\ bucket' = TRUE
        /\ Finish(c, "ok") \/ Finish(c, "raised")
  /\ UNCHANGED <<container, stream, secret, script, op, target, up, calls, created, seen>>

PutRawPayload(c) ==
  /\ "s3" \in answers /\ pc[c] = "put_object"
  /\ Finish(c, IF bucket THEN "ok" ELSE "raised")
  /\ UNCHANGED <<container, stores, script, op, target, up, calls, created, seen>>

(* After create_stream.  Variant: without the waiter.                      *)
AfterCreateStreamHasty(c) == Finish(c, "ok")
AfterCreateStream(c) == Goto(c, "wait")

(* ensure_stream: a stream that is still being created is described; the   *)
(* waiter polls whatever stream of the name there is, or gives up.         *)
EnsureStream(c) ==
  /\ "kinesis" \in answers
  /\ LET s == target[c]
     IN  \/ /\ pc[c] = "describe_stream" /\ UNCHANGED <<stream, created>>
            /\ IF stream[s] # "none" THEN Finish(c, "ok") ELSE Goto(c, Fallback[pc[c]])
         \/ /\ pc[c] = "create_stream" /\ stream[s] = "none"
            /\ stream' = [stream EXCEPT ![s] = "creating"]
            /\ created' = [created EXCEPT ![c] = TRUE]
            /\ AfterCreateStream(c) \/ Finish(c, "raised")
         \/ /\ pc[c] = "create_stream" /\ stream[s] # "none"
            /\ Finish(c, "raised") /\ UNCHANGED <<stream, created>>
         \/ /\ pc[c] = "wait" /\ UNCHANGED <<stream, created>>
            /\ \/ stream[s] = "active" /\ Finish(c, "ok")
               \/ stream[s] # "active" /\ Finish(c, "raised")
  /\ UNCHANGED <<container, bucket, secret, script, op, target, up, calls, seen>>

Publish(c) ==
  /\ "kinesis" \in answers /\ pc[c] = "put_record"
  /\ Finish(c, IF stream[target[c]] = "active" THEN "ok" ELSE "raised")
  /\ UNCHANGED <<container, stores, script, op, target, up, calls, created, seen>>

(* put_secret updates, or creates what it could not update.                *)
PutSecret(c) ==
  /\ "secretsmanager" \in answers
  /\ \/ /\ pc[c] = "put_secret_value" /\ UNCHANGED secret
        /\ IF secret THEN Finish(c, "ok") ELSE Goto(c, Fallback[pc[c]])
     \/ /\ pc[c] = "create_secret" /\ secret' = TRUE
        /\ (~secret /\ Finish(c, "ok")) \/ Finish(c, "raised")
  /\ UNCHANGED <<container, bucket, stream, script, op, target, up, calls, created, seen>>

GetSecret(c) ==
  /\ "secretsmanager" \in answers /\ pc[c] = "get_secret_value"
  /\ Finish(c, IF secret THEN "ok" ELSE "raised")
  /\ UNCHANGED <<container, stores, script, op, target, up, calls, created, seen>>

(* health: the two clients are asked one after the other; LocalStack is up *)
(* if one of them is, the whole if every component is.                     *)
LocalStackUpStrict(found) == {"s3", "kinesis"} \subseteq found   \* variant: both
LocalStackUp(found) == found \intersect {"s3", "kinesis"} # {}
Overall(found) ==
  IF {"database", "s3", "kinesis"} \subseteq found /\ LocalStackUp(found)
    THEN "UP"
    ELSE IF LocalStackUp(found) THEN "DOWN" ELSE "DOWN, LocalStack too"

Health(c) ==
  /\ \/ /\ pc[c] = "list_buckets"
        /\ up' = [up EXCEPT ![c] = @ \union (answers \intersect {"s3"})]
        /\ Goto(c, "list_streams") /\ UNCHANGED seen
     \/ /\ pc[c] = "list_streams"
        /\ LET found == up[c] \union (answers \intersect {"kinesis"})
           IN  Finish(c, Overall(found))
        /\ up' = [up EXCEPT ![c] = {}] /\ seen' = [seen EXCEPT ![c] = {}]
  /\ UNCHANGED <<container, stores, script, op, target, calls, created>>

Run(c) ==
  \/ Unanswered(c)
  \/ EnsureBucket(c) \/ PutRawPayload(c)
  \/ EnsureStream(c) \/ Publish(c)
  \/ PutSecret(c) \/ GetSecret(c)
  \/ Health(c)

Next ==
  \/ Boot \/ Die \/ Waver \/ Script
  \/ \E s \in Streams : Activate(s)
  \/ \E c \in Clients :
       \/ \E o \in Operations, s \in Streams : Call(c, o, s)
       \/ Run(c)

(* The script runs: its requests time out and its waiters count polls.     *)
(* Nothing is owed by clients, nor by the container and its services.      *)
Spec == Init /\ [][Next]_vars /\ WF_vars(Script)
-----------------------------------------------------------------------------
Statuses == {"UP", "DOWN", "DOWN, LocalStack too"}
Endings == {"ok", "raised", "BotoCoreError"}
Outcomes(o) == IF o = "health" THEN Statuses ELSE Endings
StepsOf(o) ==
  {FirstStep(o)} \union
    CASE o = "ensure_bucket" -> {"create_bucket"}
      [] o = "ensure_stream" -> {"create_stream", "wait"}
      [] o = "put_secret" -> {"create_secret"}
      [] o = "health" -> {"list_streams"}
      [] OTHER -> {}

(* Types; only a living container answers and runs the script; a call is   *)
(* at a step of its own operation; no probe raises.                        *)
TypeOK ==
  /\ alive \in BOOLEAN /\ life \in 0..MaxLives
  /\ answers \in SUBSET Services
  /\ bucket \in BOOLEAN /\ secret \in BOOLEAN
  /\ stream \in [Streams -> {"none", "creating", "active"}]
  /\ script \in 0..Done
  /\ script # 0 \/ answers # {} => alive
  /\ calls \in [Clients -> 0..MaxCalls]
  /\ op \in [Clients -> Operations] /\ target \in [Clients -> Streams]
  /\ up \in [Clients -> SUBSET {"database", "s3", "kinesis"}]
  /\ DOMAIN pc = Clients /\ DOMAIN outcome = Clients
  /\ \A c \in Clients : pc[c] \in {"idle"} \union StepsOf(op[c])
  /\ \A c \in Clients :
       outcome[c] \in (IF pc[c] = "idle" /\ calls[c] > 0 THEN Outcomes(op[c]) ELSE {"none"})
  /\ ended \in [Clients -> 0..MaxLives]
  /\ created \in [Clients -> BOOLEAN]
  /\ seen \in [Clients -> SUBSET Conditions]

StreamsReady == \A i \in DOMAIN ScriptStreams : stream[ScriptStreams[i]] = "active"

(* What a wrapper promises by returning, and the script by its "Bootstrap  *)
(* complete", lasts as long as the container lives, whatever all of them   *)
(* do meanwhile and whichever of their requests fail: the bucket, the      *)
(* stream or the secret is there, and a stream the call itself created     *)
(* takes records.  (One it found may still be on its way; and the script   *)
(* completes with every stream active, but not always with a bucket.)      *)
EnsuredExists ==
  /\ script = Done => StreamsReady
  /\ \A c \in Clients :
       alive /\ outcome[c] = "ok" /\ ended[c] = life =>
         /\ op[c] \in {"ensure_bucket", "put_raw_payload"} => bucket
         /\ op[c] \in {"put_secret", "get_secret"} => secret
         /\ op[c] = "ensure_stream" => stream[target[c]] # "none"
         /\ op[c] = "publish" \/ created[c] => stream[target[c]] = "active"

(* Clients may make streams of the script before it does, and its creates  *)
(* may fail for that or for any reason: none of this stops it.  In a       *)
(* container that lives on it ends before "Bootstrap complete" only while  *)
(* a stream it provides is not active, or Kinesis does not answer.         *)
StopsOnlyUnready ==
  [][script # 0 /\ script' = 0 /\ alive' => ~StreamsReady \/ "kinesis" \notin answers]_vars

(* GET /health asks S3, then Kinesis, and either may fail or recover, or   *)
(* the container die or start, in between.  What it says of Kinesis is so  *)
(* when it answers, what it says of S3 was so while it asked, and          *)
(* LocalStack is reported down only if neither of the two answered.        *)
ProbeTellsTruth ==
  [][\A c \in Clients :
       LET verdict == outcome'[c]
       IN  pc[c] = "list_streams" /\ pc'[c] = "idle" =>
             /\ verdict = "UP" => "kinesis" \in answers /\ "up" \in seen[c]
             /\ verdict = "DOWN, LocalStack too" =>
                  "kinesis" \notin answers /\ "down" \in seen[c]
             /\ verdict = "DOWN" /\ "database" \in up[c] =>
                  (IF "kinesis" \in answers THEN "down" ELSE "up") \in seen[c]]_vars

(* In a container that stays up the script comes to an end, whatever fails *)
(* under it: at "Bootstrap complete", or before it by set -e.              *)
EventuallyBootstrapped == alive ~> (alive => script \in {0, Done})
=============================================================================
