----------------------------- MODULE MCWorkQueue ------------------------------
(***************************************************************************)
(* Small instances of WorkQueue.                                           *)
(***************************************************************************)
EXTENDS WorkQueue, TLC

CONSTANTS k1, k2, job

(* Two items of one work item; a publisher tries the first key twice more, *)
(* once with a new event and once with the second event's id.              *)
TwoItems == {[key |-> k1, id |-> 1, work |-> job], [key |-> k2, id |-> 2, work |-> job],
             [key |-> k1, id |-> 3, work |-> job], [key |-> k1, id |-> 2, work |-> job]}
OneItem == {[key |-> k1, id |-> 1, work |-> job]}

Workers == Permutations(Worker)
==============================================================================
