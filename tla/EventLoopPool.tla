---------------------------- MODULE EventLoopPool ----------------------------
(***************************************************************************)
(* The event loop and the connection pool that all requests of a process    *)
(* share (common/models/base.py, api/dependencies.py, api/routes.py).       *)
(*                                                                         *)
(* An ingestion handler is a coroutine that never awaits while it uses the  *)
(* database, so a checkout that has to wait blocks the loop.  Its session   *)
(* keeps the connection of the last refresh until get_session closes it,    *)
(* and that happens after the handler: the request goes back to the end of  *)
(* the ready queue, and the loop hands session.close to a worker thread     *)
(* when its turn comes.  Health probes check a connection out on a worker   *)
(* thread, keep it while they ask LocalStack there, and need the loop to    *)
(* close in the same way.                                                   *)
(***************************************************************************)
EXTENDS Naturals, Sequences, FiniteSets

CONSTANTS
  Clients,     \* clients that post to ingestion routes
  Probes,      \* clients of /health
  Capacity,    \* pool_size + max_overflow of the engine
  MaxRounds,   \* bound on the requests of a client, one after the other
  Nobody

Callers == Clients \union Probes
ASSUME ClientsAssumption == Clients \intersect Probes = {} /\ IsFiniteSet(Callers)
ASSUME NobodyAssumption == Nobody \notin Callers
ASSUME SizesAssumption ==
  Capacity \in Nat \ {0} /\ MaxRounds \in Nat

VARIABLES
  pc,        \* where the request of each caller is
  rounds,
  ready,     \* the loop's ready queue
  running,   \* the handler on the loop, or Nobody
  free,      \* connections the pool can still give out
  held,      \* callers whose session holds a connection
  starved    \* callers whose current request timed out at the pool

vars == <<pc, rounds, ready, running, free, held, starved>>
-----------------------------------------------------------------------------
Init ==
  /\ pc = [c \in Callers |-> "idle"]
  /\ rounds = [c \in Callers |-> 0]
  /\ ready = << >>
  /\ running = Nobody
  /\ free = Capacity
  /\ held = {}
  /\ starved = {}

Goto(c, stage) == pc' = [pc EXCEPT ![c] = stage]

(* A request arrives, and its coroutine becomes ready.                     *)
Arrive(c) ==
  /\ pc[c] = "idle" /\ rounds[c] < MaxRounds
  /\ rounds' = [rounds EXCEPT ![c] = @ + 1]
  /\ starved' = starved \ {c}
  /\ Goto(c, "queued")
  /\ ready' = Append(ready, c)
  /\ UNCHANGED <<running, free, held>>

ThreadIsFree == TRUE      \* variant: handlers declared def, run by threads
LoopIsFree == running = Nobody

(* The loop runs what is at the head of its ready queue: a handler, which  *)
(* may refuse its payload and go straight to the audit row, or its body    *)
(* and end before ingest; the dispatch of a probe to a worker; the rest of *)
(* a request after its handler, which hands session.close to a worker.     *)
Turn ==
  /\ LoopIsFree /\ ready # << >>
  /\ LET c == Head(ready)
     IN  \/ /\ pc[c] = "queued" /\ c \in Clients
            /\ \/ Goto(c, "insert")
               \/ Goto(c, "audit")
            /\ running' = c /\ ready' = Tail(ready)
         \/ /\ pc[c] = "queued" /\ c \in Clients
            /\ Goto(c, "returned") /\ ready' = Append(Tail(ready), c)
            /\ UNCHANGED running
         \/ /\ pc[c] = "queued" /\ c \in Probes
            /\ Goto(c, "probe") /\ ready' = Tail(ready) /\ UNCHANGED running
         \/ /\ pc[c] = "returned"
            /\ Goto(c, "closing") /\ ready' = Tail(ready) /\ UNCHANGED running
  /\ UNCHANGED <<rounds, free, held, starved>>

(* A session takes a connection when it executes without one, and gives it *)
(* back on commit, rollback and close.                                     *)
CheckOut(c) ==
  \/ c \in held /\ UNCHANGED <<held, free>>
  \/ c \notin held /\ free > 0 /\ held' = held \union {c} /\ free' = free - 1
GiveBackTwice(c) ==   \* variant: by close also when the rollback did
  /\ held' = held \ {c}
  /\ free' = free + 1
GiveBack(c) ==
  /\ held' = held \ {c}
  /\ free' = free + IF c \in held THEN 1 ELSE 0

(* The checkout has waited pool_timeout in vain: a worker may take longer  *)
(* than that to close a session or to hear from LocalStack.                *)
Exhausted(c) == c \notin held /\ free = 0

(* BaseRepository.add: insert (flush), commit, refresh.  The timeout of a  *)
(* checkout is a SQLAlchemyError: rollback, DatabaseException, and ingest  *)
(* goes to its finally clause.                                             *)
(* Variant: the insert is tried again instead.                             *)
InsertRetrying(c) ==
  /\ pc[c] = "insert"
  /\ \/ CheckOut(c) /\ Goto(c, "commit")
     \/ Exhausted(c) /\ UNCHANGED <<held, free, pc>>
  /\ UNCHANGED <<rounds, ready, running, starved>>
Insert(c) ==
  /\ pc[c] = "insert"
  /\ \/ CheckOut(c) /\ Goto(c, "commit") /\ UNCHANGED starved
     \/ /\ Exhausted(c)
        /\ starved' = starved \union {c} /\ Goto(c, "audit")
        /\ UNCHANGED <<held, free>>
  /\ UNCHANGED <<rounds, ready, running>>

Commit(c) ==
  /\ pc[c] = "commit"
  /\ GiveBack(c) /\ Goto(c, "refresh")
  /\ UNCHANGED <<rounds, ready, running, starved>>

Refresh(c) ==
  /\ pc[c] = "refresh"
  /\ \/ CheckOut(c) /\ UNCHANGED starved
     \/ Exhausted(c) /\ starved' = starved \union {c} /\ UNCHANGED <<held, free>>
  /\ Goto(c, "audit")
  /\ UNCHANGED <<rounds, ready, running>>

(* The handler returns or raises: the exit of its dependencies begins with *)
(* a checkpoint, so the request queues behind all that is ready.           *)
Return(c) == Goto(c, "returned") /\ running' = Nobody /\ ready' = Append(ready, c)

(* _write_audit_log adds its row with the same session; it swallows the    *)
(* DatabaseException.                                                      *)
AuditInsert(c) ==
  /\ pc[c] = "audit"
  /\ \/ /\ CheckOut(c) /\ Goto(c, "auditCommit")
        /\ UNCHANGED <<running, ready, starved>>
     \/ /\ Exhausted(c) /\ Return(c)
        /\ starved' = starved \union {c} /\ UNCHANGED <<held, free>>
  /\ UNCHANGED rounds

AuditCommit(c) ==
  /\ pc[c] = "auditCommit"
  /\ GiveBack(c) /\ Goto(c, "auditRefresh")
  /\ UNCHANGED <<rounds, ready, running, starved>>

AuditRefresh(c) ==
  /\ pc[c] = "auditRefresh"
  /\ \/ CheckOut(c) /\ UNCHANGED starved
     \/ Exhausted(c) /\ starved' = starved \union {c} /\ UNCHANGED <<held, free>>
  /\ Return(c)
  /\ UNCHANGED rounds

(* SELECT 1 on a worker thread; a timeout makes the component DOWN.        *)
Probe(c) ==
  /\ pc[c] = "probe"
  /\ \/ CheckOut(c) /\ UNCHANGED starved
     \/ Exhausted(c) /\ starved' = starved \union {c} /\ UNCHANGED <<held, free>>
  /\ Goto(c, "asking")
  /\ UNCHANGED <<rounds, ready, running>>

(* The same worker then asks S3 and Kinesis, with the transaction of       *)
(* SELECT 1 and so its connection still open; neither check raises.        *)
AskServices(c) ==
  /\ pc[c] = "asking"
  /\ Goto(c, "returned") /\ ready' = Append(ready, c)
  /\ UNCHANGED <<rounds, running, free, held, starved>>

(* session.close on a worker; the answer is sent and the client may go on. *)
(* Variant: the probe's session is not closed.                             *)
CloseLeaking(c) ==
  /\ pc[c] = "closing"
  /\ IF c \in Probes THEN UNCHANGED <<held, free>> ELSE GiveBack(c)
  /\ Goto(c, "idle")
  /\ UNCHANGED <<rounds, ready, running, starved>>
Close(c) ==
  /\ pc[c] = "closing"
  /\ GiveBack(c) /\ Goto(c, "idle")
  /\ UNCHANGED <<rounds, ready, running, starved>>

Handle(c) ==
  \/ Insert(c) \/ Commit(c) \/ Refresh(c)
  \/ AuditInsert(c) \/ AuditCommit(c) \/ AuditRefresh(c)

(* Every caller has had its rounds: not a deadlock.                        *)
Quiescent ==
  /\ \A c \in Callers : pc[c] = "idle" /\ rounds[c] = MaxRounds
  /\ UNCHANGED vars

Next ==
  \/ Turn
  \/ \E c \in Callers : Arrive(c) \/ Handle(c) \/ Probe(c) \/ AskServices(c) \/ Close(c)
  \/ Quiescent

(* The loop runs while something is ready, a handler on it and the worker  *)
(* threads are scheduled, and botocore's timeouts end the calls to         *)
(* LocalStack; nothing obliges a client to send.                           *)
Spec ==
  /\ Init /\ [][Next]_vars
  /\ WF_vars(Turn)
  /\ \A c \in Callers : /\ WF_vars(Handle(c)) /\ WF_vars(Close(c))
                        /\ WF_vars(Probe(c)) /\ WF_vars(AskServices(c))
-----------------------------------------------------------------------------
OnLoop == {"insert", "commit", "refresh", "audit", "auditCommit", "auditRefresh"}
Queued == {ready[i] : i \in DOMAIN ready}
Open == {c \in Callers : pc[c] # "idle"}

(* Types, and what ties the parts together: the pool loses no connection,  *)
(* the ready queue holds each waiting request once.                        *)
TypeOK ==
  /\ pc \in [Callers -> OnLoop \union {"idle", "queued", "probe", "asking", "returned", "closing"}]
  /\ rounds \in [Callers -> 0..MaxRounds]
  /\ running \in Callers \union {Nobody}
  /\ free \in 0..Capacity
  /\ held \subseteq Callers
  /\ starved \subseteq Callers
  /\ ready \in Seq(Callers)
  /\ \A i, j \in DOMAIN ready : ready[i] = ready[j] => i = j
  /\ Queued = {c \in Callers : pc[c] \in {"queued", "returned"}}

(* Connections are neither lost nor made, and a session that is closed     *)
(* holds none: a long run of requests, refused and timed out ones          *)
(* included, leaves the pool as it was.                                    *)
PoolConserved ==
  /\ free + Cardinality(held) = Capacity
  /\ held \subseteq Open

(* A handler blocked at the pool never waits for a session that wants more *)
(* of the database: whoever holds a connection is through with its queries *)
(* and only waits for the loop the handler blocks, for the worker that     *)
(* closes its session, or, as a probe on its worker, for LocalStack.       *)
WaitsForFinished ==
  \A c \in Callers : pc[c] \in OnLoop /\ c \notin held /\ free = 0 =>
    \A d \in held : \/ pc[d] \in {"returned", "closing"}
                    \/ pc[d] = "asking" /\ d \in Probes

(* A request times out at the pool only if more requests are open in the   *)
(* process at once than the pool has connections.                          *)
StarvedOnlyInCrowd ==
  [][\A c \in Callers : c \in starved' \ starved => Cardinality(Open) > Capacity]_vars

(* Every request ends and gives its connection back, although a checkout   *)
(* that blocks the loop waits for connections only the loop can free: the  *)
(* timeout of the pool breaks the circle.                                  *)
EveryRequestCloses == \A c \in Callers : pc[c] = "queued" ~> pc[c] = "idle"
=============================================================================
