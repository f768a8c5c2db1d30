------------------------ MODULE EventLoopPoolProofs ------------------------
(***************************************************************************)
(* Proofs about the event loop and the connection pool, for any number of   *)
(* clients, probes, connections and rounds.                                 *)
(***************************************************************************)
EXTENDS EventLoopPool, FiniteSetTheorems, TLAPS

Stage == OnLoop \union {"idle", "queued", "probe", "asking", "returned", "closing"}

(* The requests in a queue, and that none is in it twice.                  *)
Members(q) == {q[i] : i \in DOMAIN q}
Once(q) == \A i, j \in DOMAIN q : q[i] = q[j] => i = j

(* TypeOK in the form the steps keep: the queue is a set of waiting        *)
(* requests in some order, without repetition.                             *)
Types ==
  /\ pc \in [Callers -> Stage]
  /\ rounds \in [Callers -> 0..MaxRounds]
  /\ running \in Callers \union {Nobody}
  /\ starved \subseteq Callers
QueueOnce ==
  /\ ready \in Seq(Callers)
  /\ Once(ready)
  /\ Members(ready) = {c \in Callers : pc[c] \in {"queued", "returned"}}

(* Where a session may hold a connection: in its handler or, of a probe,   *)
(* while it asks the services, and from there to its close.                *)
Holders ==
  /\ held \subseteq Callers
  /\ \A c \in held : pc[c] \in OnLoop \union {"asking", "returned", "closing"}
(* Only probes have anything to do on a worker.                            *)
ProbesAsk == \A c \in Callers : pc[c] \in {"probe", "asking"} => c \in Probes
(* The loop runs at most one handler, and knows which.                     *)
OneHandler == \A c \in Callers : pc[c] \in OnLoop => running = c
(* Every connection is free or held.                                       *)
Accounted ==
  /\ free \in Nat
  /\ free + Cardinality(held) = Capacity

LEMMA FiniteHeld ==
  ASSUME Holders PROVE IsFiniteSet(held)
  BY FS_Subset, ClientsAssumption DEF Holders

(* A checkout that succeeds moves one connection from free to held.        *)
LEMMA CheckOutAccounted ==
  ASSUME Holders, Accounted, NEW c \in Callers, CheckOut(c)
  PROVE  Accounted'
<1>1. CASE c \in held /\ UNCHANGED <<held, free>>
  BY <1>1 DEF Accounted
<1>2. CASE c \notin held /\ free > 0 /\ held' = held \union {c} /\ free' = free - 1
  <2>1. IsFiniteSet(held)
    BY FiniteHeld
  <2>2. Cardinality(held') = Cardinality(held) + 1
    BY <1>2, <2>1, FS_AddElement
  <2>3. Cardinality(held) \in Nat
    BY <2>1, FS_CardinalityType
  <2> QED  BY <1>2, <2>2, <2>3, SizesAssumption DEF Accounted
<1> QED  BY <1>1, <1>2 DEF CheckOut

(* Giving back moves one connection from held to free, if there is one.    *)
LEMMA GiveBackAccounted ==
  ASSUME Holders, Accounted, NEW c \in Callers, GiveBack(c)
  PROVE  Accounted'
<1>1. IsFiniteSet(held)
  BY FiniteHeld
<1>2. Cardinality(held) \in Nat
  BY <1>1, FS_CardinalityType
<1>3. CASE c \in held
  <2>1. Cardinality(held') = Cardinality(held) - 1
    BY <1>1, <1>3, FS_RemoveElement DEF GiveBack
  <2> QED  BY <1>2, <2>1 DEF Accounted, GiveBack
<1>4. CASE c \notin held
  <2>1. held' = held
    BY <1>4 DEF GiveBack
  <2>2. free' = free
    BY <1>4 DEF GiveBack, Accounted
  <2> QED  BY <2>1, <2>2 DEF Accounted
<1> QED  BY <1>3, <1>4
-----------------------------------------------------------------------------
(* Appending a request that is not queued keeps the queue a set; so does   *)
(* taking its head.                                                        *)
LEMMA QueueAppend ==
  ASSUME NEW q \in Seq(Callers), NEW c \in Callers, Once(q), c \notin Members(q)
  PROVE  /\ Append(q, c) \in Seq(Callers)
         /\ Once(Append(q, c))
         /\ Members(Append(q, c)) = Members(q) \union {c}
<1> DEFINE a == Append(q, c)
<1>1. /\ a \in Seq(Callers) /\ Len(a) = Len(q) + 1
      /\ DOMAIN a = 1..(Len(q) + 1) /\ DOMAIN q = 1..Len(q) /\ Len(q) \in Nat
      /\ \A i \in 1..Len(q) : a[i] = q[i]
      /\ a[Len(q) + 1] = c
  OBVIOUS
<1> HIDE DEF a
<1>2. Once(a)
  <2> SUFFICES ASSUME NEW i \in DOMAIN a, NEW j \in DOMAIN a, a[i] = a[j] PROVE i = j
    BY DEF Once
  <2>1. CASE i \in 1..Len(q) /\ j \in 1..Len(q)
    BY <1>1, <2>1 DEF Once
  <2>2. CASE i = Len(q) + 1 /\ j \in 1..Len(q)
    BY <1>1, <2>2 DEF Members
  <2>3. CASE j = Len(q) + 1 /\ i \in 1..Len(q)
    BY <1>1, <2>3 DEF Members
  <2> QED  BY <1>1, <2>1, <2>2, <2>3
<1>3. Members(a) = Members(q) \union {c}
  <2>1. \A i \in DOMAIN a : a[i] \in Members(q) \union {c}
    BY <1>1 DEF Members
  <2>2. \A k \in DOMAIN q : k \in DOMAIN a /\ a[k] = q[k]
    BY <1>1
  <2>3. Len(q) + 1 \in DOMAIN a
    BY <1>1
  <2> QED  BY <1>1, <2>1, <2>2, <2>3 DEF Members
<1> QED  BY <1>1, <1>2, <1>3 DEF a

(* The tail of a queue without repetition is the queue without its head.   *)
LEMMA QueueTail ==
  ASSUME NEW q \in Seq(Callers), q # << >>, Once(q)
  PROVE  /\ Tail(q) \in Seq(Callers)
         /\ Once(Tail(q))
         /\ Members(Tail(q)) = Members(q) \ {Head(q)}
         /\ Head(q) \in Members(q)
<1> DEFINE t == Tail(q)
<1>1. /\ t \in Seq(Callers) /\ Len(q) \in Nat /\ Len(q) > 0
      /\ DOMAIN t = 1..(Len(q) - 1) /\ DOMAIN q = 1..Len(q)
      /\ \A i \in 1..(Len(q) - 1) : t[i] = q[i + 1]
      /\ Head(q) = q[1]
  OBVIOUS
<1> HIDE DEF t
<1>2. Once(t)
  <2> SUFFICES ASSUME NEW i \in DOMAIN t, NEW j \in DOMAIN t, t[i] = t[j] PROVE i = j
    BY DEF Once
  <2>1. i + 1 \in DOMAIN q /\ j + 1 \in DOMAIN q /\ q[i + 1] = q[j + 1]
    BY <1>1
  <2> QED  BY <1>1, <2>1 DEF Once
<1>3. \A i \in DOMAIN t : t[i] \in Members(q) \ {Head(q)}
  <2> SUFFICES ASSUME NEW i \in DOMAIN t PROVE t[i] \in Members(q) \ {Head(q)}
    OBVIOUS
  <2>1. i + 1 \in DOMAIN q /\ t[i] = q[i + 1] /\ i + 1 # 1 /\ 1 \in DOMAIN q
    BY <1>1
  <2> QED  BY <1>1, <2>1 DEF Once, Members
<1>4. \A k \in DOMAIN q : q[k] # Head(q) => q[k] \in Members(t)
  <2> SUFFICES ASSUME NEW k \in DOMAIN q, q[k] # Head(q) PROVE q[k] \in Members(t)
    OBVIOUS
  <2>1. k - 1 \in DOMAIN t /\ t[k - 1] = q[k]
    BY <1>1
  <2> QED  BY <2>1 DEF Members
<1>5. Head(q) \in Members(q)
  BY <1>1 DEF Members
<1>6. Members(t) = Members(q) \ {Head(q)}
  BY <1>3, <1>4 DEF Members
<1> QED  BY <1>1, <1>2, <1>5, <1>6 DEF t
-----------------------------------------------------------------------------
PoolInv == Types /\ QueueOnce /\ Holders /\ ProbesAsk /\ OneHandler /\ Accounted

(* A step of a caller that is not queued, and does not queue.              *)
LEMMA QueueKept ==
  ASSUME QueueOnce, NEW c \in Callers, NEW stage, UNCHANGED ready,
         pc \in [Callers -> Stage], Goto(c, stage),
         pc[c] \notin {"queued", "returned"}, stage \notin {"queued", "returned"}
  PROVE  QueueOnce'
  BY DEF QueueOnce, Goto, Once, Members

(* A step of a caller that is not queued and queues behind the others.     *)
LEMMA QueueJoined ==
  ASSUME QueueOnce, NEW c \in Callers, NEW stage \in {"queued", "returned"},
         ready' = Append(ready, c), pc \in [Callers -> Stage], Goto(c, stage),
         pc[c] \notin {"queued", "returned"}
  PROVE  QueueOnce'
<1>1. /\ ready' \in Seq(Callers)
      /\ Once(ready')
      /\ Members(ready') = Members(ready) \union {c}
  BY QueueAppend DEF QueueOnce
<1>2. {d \in Callers : pc'[d] \in {"queued", "returned"}}
        = {d \in Callers : pc[d] \in {"queued", "returned"}} \union {c}
  BY DEF Goto
<1> QED  BY <1>1, <1>2 DEF QueueOnce, Once, Members

(* The loop takes the head of its queue, which is waiting.                 *)
LEMMA QueueLeft ==
  ASSUME QueueOnce, ready # << >>, ready' = Tail(ready),
         NEW stage, stage \notin {"queued", "returned"},
         pc \in [Callers -> Stage], Goto(Head(ready), stage)
  PROVE  QueueOnce'
<1>1. /\ ready' \in Seq(Callers)
      /\ Once(ready')
      /\ Members(ready') = Members(ready) \ {Head(ready)}
      /\ Head(ready) \in Members(ready)
  BY QueueTail DEF QueueOnce
<1>2. {d \in Callers : pc'[d] \in {"queued", "returned"}}
        = {d \in Callers : pc[d] \in {"queued", "returned"}} \ {Head(ready)}
  BY DEF Goto
<1> QED  BY <1>1, <1>2 DEF QueueOnce, Once, Members

(* A handler that ends before ingest goes to the end of the queue.         *)
LEMMA QueueRotated ==
  ASSUME QueueOnce, ready # << >>, ready' = Append(Tail(ready), Head(ready)),
         pc \in [Callers -> Stage], Goto(Head(ready), "returned")
  PROVE  QueueOnce'
<1>1. /\ Tail(ready) \in Seq(Callers)
      /\ Once(Tail(ready))
      /\ Members(Tail(ready)) = Members(ready) \ {Head(ready)}
      /\ Head(ready) \in Members(ready)
  BY QueueTail DEF QueueOnce
<1>2. Head(ready) \in Callers
  BY <1>1 DEF QueueOnce
<1>3. /\ ready' \in Seq(Callers)
      /\ Once(ready')
      /\ Members(ready') = Members(Tail(ready)) \union {Head(ready)}
  BY <1>1, <1>2, QueueAppend
<1>5. {d \in Callers : pc'[d] \in {"queued", "returned"}}
        = {d \in Callers : pc[d] \in {"queued", "returned"}} \union {Head(ready)}
  BY <1>2 DEF Goto
<1> QED  BY <1>1, <1>3, <1>5 DEF QueueOnce

-----------------------------------------------------------------------------
(* A database step of the running handler that stays on the loop, whatever *)
(* becomes of its own connection.                                          *)
LEMMA HandlerStays ==
  ASSUME PoolInv, NEW c \in Callers, NEW stage \in OnLoop,
         pc[c] \in OnLoop, Goto(c, stage), UNCHANGED <<rounds, ready, running>>,
         held' \subseteq held \union {c}, starved' \subseteq starved \union {c}
  PROVE  Types' /\ QueueOnce' /\ Holders' /\ ProbesAsk' /\ OneHandler'
<1> USE DEF PoolInv
<1>1. Types'
  BY DEF Types, Goto, Stage
<1>2. QueueOnce'
  <2>1. pc[c] \notin {"queued", "returned"} /\ stage \notin {"queued", "returned"}
    BY DEF OnLoop
  <2> QED  BY <2>1, QueueKept DEF Types
<1>3. Holders'
  BY DEF Holders, Goto, Types
<1>4. OneHandler'
  BY DEF OneHandler, Goto, Types
<1>5. ProbesAsk'
  BY DEF ProbesAsk, Goto, Types, OnLoop
<1> QED  BY <1>1, <1>2, <1>3, <1>4, <1>5

(* The last step of a handler: nobody is left on the loop.                 *)
LEMMA HandlerReturns ==
  ASSUME PoolInv, NEW c \in Callers, pc[c] \in OnLoop, Return(c), UNCHANGED rounds,
         held' \subseteq held \union {c}, starved' \subseteq starved \union {c}
  PROVE  Types' /\ QueueOnce' /\ Holders' /\ ProbesAsk' /\ OneHandler'
<1> USE DEF PoolInv, Return
<1>1. Types'
  BY DEF Types, Goto, Stage
<1>2. QueueOnce'
  <2>1. pc[c] \notin {"queued", "returned"}
    BY DEF OnLoop
  <2> QED  BY <2>1, QueueJoined DEF Types
<1>3. Holders'
  BY DEF Holders, Goto, Types
<1>4. OneHandler'
  <2> SUFFICES ASSUME NEW d \in Callers, pc'[d] \in OnLoop PROVE FALSE
    BY DEF OneHandler
  <2>1. d # c
    BY DEF Goto, Types, OnLoop
  <2>2. pc[d] \in OnLoop
    BY <2>1 DEF Goto, Types
  <2> QED  BY <2>1, <2>2 DEF OneHandler
<1>5. ProbesAsk'
  BY DEF ProbesAsk, Goto, Types
<1> QED  BY <1>1, <1>2, <1>3, <1>4, <1>5

(* What a checkout, its timeout and giving back do to the holders.         *)
LEMMA HolderSets ==
  ASSUME NEW c \in Callers, CheckOut(c) \/ GiveBack(c)
  PROVE  held' \subseteq held \union {c}
  BY DEF CheckOut, GiveBack

(* A checkout or its timeout keeps the connections accounted for.          *)
LEMMA TriedAccounted ==
  ASSUME PoolInv, NEW c \in Callers, CheckOut(c) \/ UNCHANGED <<held, free>>
  PROVE  Accounted' /\ held' \subseteq held \union {c}
<1>1. CASE CheckOut(c)
  BY <1>1, CheckOutAccounted, HolderSets DEF PoolInv
<1>2. CASE UNCHANGED <<held, free>>
  BY <1>2 DEF Accounted, PoolInv
<1> QED  BY <1>1, <1>2
-----------------------------------------------------------------------------
(* The invariant of the pool and the loop, on which every property rests.  *)
THEOREM PoolInvariant == Spec => []PoolInv
<1>1. Init => PoolInv
  <2> SUFFICES ASSUME Init PROVE PoolInv
    OBVIOUS
  <2>1. Types
    BY SizesAssumption DEF Init, Types, Stage
  <2>2. QueueOnce
    BY DEF Init, QueueOnce, Once, Members
  <2>3. Holders /\ ProbesAsk /\ OneHandler
    BY DEF Init, Holders, ProbesAsk, OneHandler, OnLoop
  <2>4. Accounted
    BY FS_EmptySet, SizesAssumption DEF Init, Accounted
  <2> QED  BY <2>1, <2>2, <2>3, <2>4 DEF PoolInv
<1>2. PoolInv /\ [Next]_vars => PoolInv'
  <2> SUFFICES ASSUME PoolInv, [Next]_vars PROVE PoolInv'
    OBVIOUS
  <2> USE DEF PoolInv
  <2>1. ASSUME NEW c \in Callers, Arrive(c) PROVE PoolInv'
    <3> USE <2>1 DEF Arrive
    <3>1. Types'
      BY SizesAssumption DEF Types, Goto, Stage
    <3>2. QueueOnce'
      BY QueueJoined DEF Types
    <3>3. Holders'
      BY DEF Holders, Goto, Types, OnLoop
    <3>4. OneHandler'
      BY DEF OneHandler, Goto, Types, OnLoop
    <3>5. Accounted'
      BY DEF Accounted
    <3>6. ProbesAsk'
      BY DEF ProbesAsk, Goto, Types
    <3> QED  BY <3>1, <3>2, <3>3, <3>4, <3>5, <3>6
  <2>2. ASSUME Turn PROVE PoolInv'
    <3> DEFINE c == Head(ready)
    <3>1. c \in Callers /\ ready # << >>
      BY <2>2, QueueTail DEF Turn, QueueOnce, Members
    <3>2. \A d \in Callers : pc[d] \notin OnLoop
      BY <2>2, NobodyAssumption DEF Turn, LoopIsFree, OneHandler
    <3>3. Accounted'
      BY <2>2 DEF Turn, Accounted
    <3>4. ASSUME NEW stage \in {"insert", "audit"}, pc[c] = "queued",
                 Goto(c, stage), running' = c, ready' = Tail(ready)
          PROVE  PoolInv'
      <4>1. Types'
        BY <2>2, <3>1 DEF Turn, Types, Goto, Stage, OnLoop
      <4>2. QueueOnce'
        BY <3>1, <3>4, QueueLeft DEF Types
      <4>3. Holders'
        BY <2>2, <3>4 DEF Turn, Holders, Goto, OnLoop
      <4>4. OneHandler'
        BY <3>2, <3>4 DEF OneHandler, Goto
      <4>5. ProbesAsk'
        BY <3>4 DEF ProbesAsk, Goto, Types
      <4> QED  BY <3>3, <4>1, <4>2, <4>3, <4>4, <4>5
    <3>5. ASSUME pc[c] = "queued", Goto(c, "returned"),
                 ready' = Append(Tail(ready), c), UNCHANGED running
          PROVE  PoolInv'
      <4>1. Types'
        BY <2>2, <3>5 DEF Turn, Types, Goto, Stage
      <4>2. QueueOnce'
        BY <3>1, <3>5, QueueRotated DEF Types
      <4>3. Holders'
        BY <2>2, <3>5 DEF Turn, Holders, Goto
      <4>4. OneHandler'
        BY <3>5 DEF OneHandler, Goto, OnLoop
      <4>5. ProbesAsk'
        BY <3>5 DEF ProbesAsk, Goto, Types
      <4> QED  BY <3>3, <4>1, <4>2, <4>3, <4>4, <4>5
    <3>6. ASSUME NEW stage \in {"probe", "closing"},
                 (pc[c] = "queued" /\ c \in Probes) \/ (pc[c] = "returned" /\ stage = "closing"),
                 Goto(c, stage), ready' = Tail(ready), UNCHANGED running
          PROVE  PoolInv'
      <4>1. Types'
        BY <2>2, <3>6 DEF Turn, Types, Goto, Stage
      <4>2. QueueOnce'
        BY <3>1, <3>6, QueueLeft DEF Types
      <4>3. Holders'
        BY <2>2, <3>6 DEF Turn, Holders, Goto, OnLoop
      <4>4. OneHandler'
        BY <3>6 DEF OneHandler, Goto, OnLoop
      <4>5. ProbesAsk'
        BY <3>1, <3>6 DEF ProbesAsk, Goto, Types
      <4> QED  BY <3>3, <4>1, <4>2, <4>3, <4>4, <4>5
    <3> QED  BY <2>2, <3>4, <3>5, <3>6 DEF Turn
  <2>3. ASSUME NEW c \in Callers, Insert(c) PROVE PoolInv'
    <3>1. Accounted' /\ held' \subseteq held \union {c}
      BY <2>3, TriedAccounted DEF Insert
    <3>2. PICK stage \in OnLoop : Goto(c, stage)
      BY <2>3 DEF Insert, OnLoop
    <3> QED  BY <2>3, <3>1, HandlerStays DEF Insert, OnLoop
  <2>4. ASSUME NEW c \in Callers, Commit(c) PROVE PoolInv'
    <3>1. Accounted' /\ held' \subseteq held \union {c}
      BY <2>4, GiveBackAccounted, HolderSets DEF Commit
    <3> QED  BY <2>4, <3>1, HandlerStays DEF Commit, OnLoop
  <2>5. ASSUME NEW c \in Callers, Refresh(c) PROVE PoolInv'
    <3>1. Accounted' /\ held' \subseteq held \union {c}
      BY <2>5, TriedAccounted DEF Refresh
    <3> QED  BY <2>5, <3>1, HandlerStays DEF Refresh, OnLoop
  <2>6. ASSUME NEW c \in Callers, AuditInsert(c) PROVE PoolInv'
    <3>1. Accounted' /\ held' \subseteq held \union {c}
      BY <2>6, TriedAccounted DEF AuditInsert
    <3>2. CASE Goto(c, "auditCommit") /\ UNCHANGED <<running, ready, starved>>
      BY <2>6, <3>1, <3>2, HandlerStays DEF AuditInsert, OnLoop
    <3>3. CASE Return(c) /\ starved' = starved \union {c}
      BY <2>6, <3>1, <3>3, HandlerReturns DEF AuditInsert, OnLoop
    <3> QED  BY <2>6, <3>2, <3>3 DEF AuditInsert
  <2>7. ASSUME NEW c \in Callers, AuditCommit(c) PROVE PoolInv'
    <3>1. Accounted' /\ held' \subseteq held \union {c}
      BY <2>7, GiveBackAccounted, HolderSets DEF AuditCommit
    <3> QED  BY <2>7, <3>1, HandlerStays DEF AuditCommit, OnLoop
  <2>8. ASSUME NEW c \in Callers, AuditRefresh(c) PROVE PoolInv'
    <3>1. Accounted' /\ held' \subseteq held \union {c}
      BY <2>8, TriedAccounted DEF AuditRefresh
    <3> QED  BY <2>8, <3>1, HandlerReturns DEF AuditRefresh, OnLoop
  <2>9. ASSUME NEW c \in Callers, Probe(c) PROVE PoolInv'
    <3>1. Accounted' /\ held' \subseteq held \union {c}
      BY <2>9, TriedAccounted DEF Probe
    <3>2. Types'
      BY <2>9 DEF Probe, Types, Goto, Stage
    <3>3. QueueOnce'
      BY <2>9, QueueKept DEF Probe, Types
    <3>4. Holders'
      BY <2>9, <3>1 DEF Probe, Holders, Goto, Types
    <3>5. OneHandler'
      BY <2>9 DEF Probe, OneHandler, Goto, OnLoop
    <3>6. ProbesAsk'
      BY <2>9 DEF Probe, ProbesAsk, Goto, Types
    <3> QED  BY <3>1, <3>2, <3>3, <3>4, <3>5, <3>6
  <2>10. ASSUME NEW c \in Callers, Close(c) PROVE PoolInv'
    <3>1. Accounted'
      BY <2>10, GiveBackAccounted DEF Close
    <3>2. Types'
      BY <2>10 DEF Close, Types, Goto, Stage
    <3>3. QueueOnce'
      BY <2>10, QueueKept DEF Close, Types
    <3>4. Holders'
      BY <2>10 DEF Close, Holders, GiveBack, Goto
    <3>5. OneHandler'
      BY <2>10 DEF Close, OneHandler, Goto, OnLoop
    <3>6. ProbesAsk'
      BY <2>10 DEF Close, ProbesAsk, Goto, Types
    <3> QED  BY <3>1, <3>2, <3>3, <3>4, <3>5, <3>6
  <2>11. ASSUME NEW c \in Callers, AskServices(c) PROVE PoolInv'
    <3>1. Types' /\ Accounted'
      BY <2>11 DEF AskServices, Types, Goto, Stage, Accounted
    <3>2. QueueOnce'
      BY <2>11, QueueJoined DEF AskServices, Types
    <3>3. Holders' /\ ProbesAsk'
      BY <2>11 DEF AskServices, Holders, ProbesAsk, Goto, Types
    <3>4. OneHandler'
      BY <2>11 DEF AskServices, OneHandler, Goto, OnLoop
    <3> QED  BY <3>1, <3>2, <3>3, <3>4
  <2>12. CASE UNCHANGED vars
    BY <2>12 DEF vars, Types, QueueOnce, Holders, ProbesAsk, OneHandler, Accounted
  <2> QED  BY <2>1, <2>2, <2>3, <2>4, <2>5, <2>6, <2>7, <2>8, <2>9, <2>10, <2>11, <2>12
           DEF Next, Handle, Quiescent
<1> QED  BY <1>1, <1>2, PTL DEF Spec

(* Every state of the loop and the pool is well formed: no request is in   *)
(* the ready queue twice, and exactly the waiting ones are in it.          *)
THEOREM TypeCorrect == Spec => []TypeOK
<1>1. PoolInv => TypeOK
  <2> SUFFICES ASSUME PoolInv PROVE TypeOK
    OBVIOUS
  <2>1. free \in 0..Capacity
    <3>1. Cardinality(held) \in Nat
      BY FiniteHeld, FS_CardinalityType DEF PoolInv
    <3> QED  BY <3>1, SizesAssumption DEF PoolInv, Accounted
  <2>2. Queued = {c \in Callers : pc[c] \in {"queued", "returned"}}
    BY DEF PoolInv, QueueOnce, Members, Queued
  <2>3. /\ pc \in [Callers -> OnLoop \union {"idle", "queued", "probe", "asking", "returned", "closing"}]
        /\ rounds \in [Callers -> 0..MaxRounds]
        /\ running \in Callers \union {Nobody}
        /\ starved \subseteq Callers
    BY DEF PoolInv, Types, Stage
  <2>4. /\ ready \in Seq(Callers)
        /\ \A i, j \in DOMAIN ready : ready[i] = ready[j] => i = j
    BY DEF PoolInv, QueueOnce, Once
  <2> QED  BY <2>1, <2>2, <2>3, <2>4 DEF TypeOK, PoolInv, Holders
<1> QED  BY <1>1, PoolInvariant, PTL

(* For any number of clients, probes and connections, every path through   *)
(* ingest, timeouts included, gives its connection back.                   *)
THEOREM ConnectionsConserved == Spec => []PoolConserved
<1>1. PoolInv => PoolConserved
  BY DEF PoolInv, PoolConserved, Holders, Accounted, Open, OnLoop
<1> QED  BY <1>1, PoolInvariant, PTL

(* A handler blocked at the pool waits only for sessions that are through  *)
(* with the database: none of them waits for a connection in turn.         *)
THEOREM WaitsOnlyForFinished == Spec => []WaitsForFinished
<1>1. PoolInv => WaitsForFinished
  BY DEF PoolInv, WaitsForFinished, Holders, ProbesAsk, OneHandler
<1> QED  BY <1>1, PoolInvariant, PTL

(* A request that times out at the pool, and those that hold its           *)
(* connections, are more than the pool has connections.                    *)
LEMMA ExhaustedInCrowd ==
  ASSUME PoolInv, NEW c \in Callers, Exhausted(c), pc[c] # "idle"
  PROVE  Cardinality(Open) > Capacity
<1>1. IsFiniteSet(held) /\ IsFiniteSet(Open)
  BY FiniteHeld, FS_Subset, ClientsAssumption DEF PoolInv, Open
<1>2. Cardinality(held) = Capacity /\ Cardinality(held) \in Nat
  BY <1>1, FS_CardinalityType DEF PoolInv, Accounted, Exhausted
<1>3. Cardinality(held \union {c}) = Cardinality(held) + 1
  BY <1>1, FS_AddElement DEF Exhausted
<1>4. held \union {c} \subseteq Open
  BY DEF PoolInv, Holders, Open, OnLoop
<1>5. Cardinality(held \union {c}) <= Cardinality(Open) /\ Cardinality(Open) \in Nat
  BY <1>1, <1>4, FS_Subset, FS_CardinalityType
<1> QED  BY <1>2, <1>3, <1>5, SizesAssumption

(* No crowd of requests that fits the pool makes one of them time out.     *)
THEOREM StarvesOnlyInCrowd == Spec => StarvedOnlyInCrowd
<1>1. PoolInv /\ [Next]_vars
        => [\A c \in Callers : c \in starved' \ starved => Cardinality(Open) > Capacity]_vars
  <2> SUFFICES ASSUME PoolInv, Next, NEW c \in Callers, c \in starved' \ starved
               PROVE  Cardinality(Open) > Capacity
    OBVIOUS
  <2>1. Exhausted(c) /\ pc[c] # "idle"
    <3>1. PICK d \in Callers : (Handle(d) \/ Probe(d)) /\ c \in starved' \ starved
      BY DEF Next, Turn, Arrive, AskServices, Close, Quiescent, vars
    <3>2. CASE Probe(d)
      BY <3>1, <3>2 DEF Probe
    <3>3. CASE Handle(d)
      BY <3>3
         DEF Handle, Insert, Commit, Refresh, AuditInsert, AuditCommit, AuditRefresh
    <3> QED  BY <3>1, <3>2, <3>3
  <2> QED  BY <2>1, ExhaustedInCrowd
<1> QED  BY <1>1, PoolInvariant, PTL DEF Spec, StarvedOnlyInCrowd
=============================================================================
