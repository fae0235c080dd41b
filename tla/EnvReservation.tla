--------------------------- MODULE EnvReservation ---------------------------
(***************************************************************************)
(* What the deployment history promises for an environment, in the         *)
(* abstract: the environment is free or held by one history row. A row     *)
(* takes the environment only while it is free and keeps it until its      *)
(* deployment or rollback has a result, is aborted, or its row is deleted. *)
(* It never passes from one row to another without being free in between.  *)
(***************************************************************************)
CONSTANTS Env, Row

VARIABLE holders   \* the rows that hold each environment

Init == holders = [e \in Env |-> {}]

Acquire(e, d) == /\ holders[e] = {}
                 /\ holders' = [holders EXCEPT ![e] = {d}]

Release(e) == /\ holders[e] # {}
              /\ holders' = [holders EXCEPT ![e] = {}]

Next == \E e \in Env : Release(e) \/ \E d \in Row : Acquire(e, d)

Spec == Init /\ [][Next]_holders
=============================================================================
