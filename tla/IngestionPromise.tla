-------------------------- MODULE IngestionPromise --------------------------
(***************************************************************************)
(* What the platform promises the client of one ingestion request, without *)
(* sessions, retries, crashes or the event loop.  A request's data goes     *)
(* through the stores one after the other, so how far it got is a number;   *)
(* the verdict is what the client was told.                                *)
(***************************************************************************)
EXTENDS Naturals

CONSTANT Requests

VARIABLES
  stage,    \* 0 nothing, 1 landed in S3, 2 on its stream, 3 curated
  verdict,  \* what the client learned of each request
  due       \* failed requests whose next store was sent a write it may apply

Init ==
  /\ stage = [r \in Requests |-> 0]
  /\ verdict = [r \in Requests |-> "open"]
  /\ due = [r \in Requests |-> FALSE]

Advance(r) ==
  /\ verdict[r] = "open" /\ stage[r] < 3
  /\ stage' = [stage EXCEPT ![r] = @ + 1]
  /\ UNCHANGED <<verdict, due>>

(* The write that was under way when its client was told of the failure    *)
(* takes effect after all, once; nothing else moves after a verdict.       *)
Settle(r) ==
  /\ due[r] /\ stage[r] < 3
  /\ stage' = [stage EXCEPT ![r] = @ + 1]
  /\ due' = [due EXCEPT ![r] = FALSE]
  /\ UNCHANGED verdict

Accept(r) ==
  /\ verdict[r] = "open" /\ stage[r] = 3
  /\ verdict' = [verdict EXCEPT ![r] = "accepted"]
  /\ UNCHANGED <<stage, due>>

Refuse(r) ==
  /\ verdict[r] = "open" /\ stage[r] = 0
  /\ verdict' = [verdict EXCEPT ![r] = "refused"]
  /\ UNCHANGED <<stage, due>>

(* A 5xx answer, or none because the process died under several requests:  *)
(* the client does not learn how far they got, nor whether the last write  *)
(* was the end of it.                                                      *)
Fail(S) ==
  /\ \A r \in S : verdict[r] = "open"
  /\ verdict' = [r \in Requests |-> IF r \in S THEN "failed" ELSE verdict[r]]
  /\ \E D \in SUBSET S : due' = [r \in Requests |-> r \in D \/ due[r]]
  /\ UNCHANGED stage

Next ==
  \/ \E r \in Requests : Advance(r) \/ Settle(r) \/ Accept(r) \/ Refuse(r)
  \/ \E S \in SUBSET Requests : Fail(S)

Spec == Init /\ [][Next]_<<stage, verdict, due>>
=============================================================================
