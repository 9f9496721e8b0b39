----------------------------- MODULE MCInstitution -----------------------------
(***************************************************************************)
(* Small instances of Institution: two goals draw on a budget that pays    *)
(* for one of them at a time, a third needs no funds; one of the goals is  *)
(* also asked for with another cost and budget, and settled directly.      *)
(***************************************************************************)
EXTENDS Institution, TLC

CONSTANTS g1, g2, g3, b1, b2, s1

MCFields == {"legal_commitment"}

Costly(goal) == [goal |-> goal, flags |-> {}, cost |-> 2, budget |-> b1, actual |-> 1]
(* One goal costs less than estimated, the other more. *)
MCRequests == {Costly(g1), [Costly(g1) EXCEPT !.cost = 1, !.budget = b2],
               [Costly(g2) EXCEPT !.actual = 3],
               [goal |-> g3, flags |-> {"legal_commitment"}, cost |-> 0,
                budget |-> NoBudget, actual |-> 0]}
MCSettlements == {[goal |-> g1, actual |-> 2]}

RivalRequests == {[Costly(g1) EXCEPT !.actual = 2], [Costly(g2) EXCEPT !.actual = 2]}
(* A goal that was asked for in part, then as a whole. *)
RepeatRequests == {[Costly(g1) EXCEPT !.cost = 1], [Costly(g1) EXCEPT !.actual = 2]}

Legal(action) == [id |-> s1, field |-> "legal_commitment", expected |-> TRUE,
                  action |-> action]
MCConditions == {Legal("escalate"), Legal("allow")}

Alike == Permutations(Caller)
==============================================================================
