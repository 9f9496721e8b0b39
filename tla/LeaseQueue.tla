------------------------------ MODULE LeaseQueue ------------------------------
(***************************************************************************)
(* What the work queue promises, with no clock, no calls in flight and no  *)
(* log: an item is leased to one worker at a time and at most "limit"      *)
(* times; only the worker that holds the lease finishes the item; an item  *)
(* that comes back is ready again or, when its attempts are used up, dead; *)
(* what is done or dead stays so.                                          *)
(***************************************************************************)
EXTENDS Naturals

CONSTANTS Key,      \* idempotency keys, one per item
          Worker,
          NoWorker,
          Limits    \* the limits a publisher may set

VARIABLE row        \* key -> [state, attempts, limit, owner]

Absent == [state |-> "absent", attempts |-> 0, limit |-> 0, owner |-> NoWorker]

Init == row = [k \in Key |-> Absent]

Publish(k, limit) ==
  /\ row[k].state = "absent"
  /\ row' = [row EXCEPT ![k] = [state |-> "ready", attempts |-> 0,
                                limit |-> limit, owner |-> NoWorker]]

Lease(k, w) ==
  /\ row[k].state = "ready"
  /\ row[k].attempts < row[k].limit
  /\ row' = [row EXCEPT ![k] = [state |-> "leased", attempts |-> row[k].attempts + 1,
                                limit |-> row[k].limit, owner |-> w]]

Finish(k, w) ==
  /\ row[k].state = "leased" /\ row[k].owner = w
  /\ row' = [row EXCEPT ![k] = [state |-> "done", attempts |-> row[k].attempts,
                                limit |-> row[k].limit, owner |-> NoWorker]]

Returned(r) ==
  [state |-> IF r.attempts < r.limit THEN "ready" ELSE "dead",
   attempts |-> r.attempts, limit |-> r.limit, owner |-> NoWorker]

(* Items whose workers gave them back or lost their leases.                *)
Return(keys) ==
  /\ \A k \in keys : row[k].state = "leased"
  /\ row' = [k \in Key |-> IF k \in keys THEN Returned(row[k]) ELSE row[k]]

Next ==
  \/ \E k \in Key, limit \in Limits : Publish(k, limit)
  \/ \E k \in Key, w \in Worker : Lease(k, w) \/ Finish(k, w)
  \/ \E keys \in SUBSET Key : Return(keys)

Spec == Init /\ [][Next]_row
==============================================================================
