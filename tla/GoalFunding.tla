------------------------------ MODULE GoalFunding ------------------------------
(***************************************************************************)
(* What governance promises about the money of goals, with no callers, no  *)
(* stop conditions and nobody between a read and a write: a cost is        *)
(* granted only while the budget has it; no goal that needs funds starts   *)
(* before its cost was granted on its budget; a goal is paid for once, by  *)
(* submit_and_run when it became canonical or by somebody who settles it   *)
(* directly; what is granted, started, ended or paid is never taken back.  *)
(***************************************************************************)
EXTENDS Integers

CONSTANTS Goal, Budget, NoBudget,
          Requests,  \* what is asked for: [goal, cost, budget, actual]
          Settlements, \* what is paid directly: [goal, actual]
          Limits     \* limits of new budgets

VARIABLES accounts,  \* budget -> [limit, spent, reserved]
          rows,      \* goal -> [budget, amount, status]
          granted,   \* goal -> budget -> all that was granted
          work       \* goal -> how far it is

vars == <<accounts, rows, granted, work>>

Init ==
  /\ accounts = << >> /\ rows = << >>
  /\ granted = [g \in Goal |-> [b \in Budget |-> 0]]
  /\ work = [g \in Goal |-> "none"]

Open(b, limit) ==
  /\ b \notin DOMAIN accounts
  /\ accounts' = [x \in DOMAIN accounts \union {b} |->
       IF x = b THEN [limit |-> limit, spent |-> 0, reserved |-> 0] ELSE accounts[x]]
  /\ UNCHANGED <<rows, granted, work>>

Balance(b) == accounts[b].limit - accounts[b].spent - accounts[b].reserved

(* A goal that is granted a cost again keeps its row, and what it has got. *)
Grant(q) ==
  /\ q.budget \in DOMAIN accounts /\ q.cost <= Balance(q.budget)
  /\ accounts' = [accounts EXCEPT ![q.budget].reserved = @ + q.cost]
  /\ rows' = [g \in DOMAIN rows \union {q.goal} |->
       IF g \in DOMAIN rows THEN rows[g]
       ELSE [budget |-> q.budget, amount |-> q.cost, status |-> "reserved"]]
  /\ granted' = [granted EXCEPT ![q.goal][q.budget] = @ + q.cost]
  /\ UNCHANGED work

Start(q) ==
  /\ work[q.goal] = "none"
  /\ (q.budget # NoBudget /\ q.cost > 0) =>
       q.goal \in DOMAIN rows /\ granted[q.goal][q.budget] >= q.cost
  /\ work' = [work EXCEPT ![q.goal] = "planned"]
  /\ UNCHANGED <<accounts, rows, granted>>

End(g, status) ==
  /\ work[g] = "planned"
  /\ work' = [work EXCEPT ![g] = status]
  /\ UNCHANGED <<accounts, rows, granted>>

Settle(s) ==
  LET row == rows[s.goal] IN
  /\ s.goal \in DOMAIN rows /\ row.status = "reserved"
  /\ rows' = [rows EXCEPT ![s.goal].status = "settled"]
  /\ accounts' = [accounts EXCEPT ![row.budget].reserved = @ - row.amount,
                                  ![row.budget].spent = @ + s.actual]
  /\ UNCHANGED <<granted, work>>

Next ==
  \/ \E b \in Budget, limit \in Limits : Open(b, limit)
  \/ \E q \in Requests :
       Grant(q) \/ Start(q) \/ (work[q.goal] = "canonical" /\ Settle(q))
  \/ \E s \in Settlements : Settle(s)
  \/ \E g \in Goal, status \in {"canonical", "escalated", "failed"} : End(g, status)

Spec == Init /\ [][Next]_vars
==============================================================================
