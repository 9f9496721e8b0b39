------------------------------ MODULE Institution ------------------------------
(***************************************************************************)
(* GovernedInstitution.submit_and_run over GovernanceStore (governance.py):*)
(* stop conditions and budget are evaluated before a goal reaches the      *)
(* orchestrator, and a goal that became canonical is settled.              *)
(*                                                                         *)
(* Several callers share the database.  evaluate and settle read outside   *)
(* the transaction that writes, so each of them is two steps.  The         *)
(* orchestrator is taken for what submit_and_run sees of it: submit        *)
(* refuses a goal it has, run ends with a status.                          *)
(***************************************************************************)
EXTENDS Integers, Sequences, FiniteSets, FiniteSetsExt

CONSTANTS
  Caller, Goal, Budget, NoBudget,
  ConditionId,
  Field,       \* boolean fields of GovernanceContext
  Requests,    \* arguments of submit_and_run; nothing binds a goal to one of them
  Settlements, \* arguments of settle() when it is called directly
  Conditions,  \* rows that add_stop_condition may store
  Limits,      \* limits of new budgets
  Serialized,  \* whether reads and writes of a budget by different callers
               \* never overlap
  MaxCalls     \* bound: calls of submit_and_run and settle

Request == [goal: Goal, flags: SUBSET Field, cost: Nat,
            budget: Budget \union {NoBudget}, actual: Nat]
Settlement == [goal: Goal, actual: Nat]
Condition == [id: ConditionId, field: Field \union {"estimated_cost"},
              expected: BOOLEAN, action: {"allow", "deny", "escalate"}]

ASSUME InstitutionAssumption ==
  /\ NoBudget \notin Budget
  /\ Requests \subseteq Request /\ Settlements \subseteq Settlement
  /\ Conditions \subseteq Condition
  /\ Limits \subseteq Nat /\ Serialized \in BOOLEAN /\ MaxCalls \in Nat

VARIABLES
  budgets,      \* governance_budgets: id -> [limit, spent, reserved]
  reservations, \* governance_reservations: goal -> [budget, amount, status]
  conditions,   \* governance_stop_conditions: set of rows, one per id
  packets,      \* founder_escalation_packets: set of [goal, category]
  goals,        \* goals table of the orchestrator: goal -> status
  call,         \* per caller: where it is, and its request or settlement
  answer,       \* per caller: the result its last call returned
  orders,       \* history: goal -> the request it was submitted with
  grants,       \* history: goal -> budget -> all that was ever reserved for it
  paid,         \* history: goal -> actual costs it was settled at
  overrun,      \* history: budget -> what settlements paid above the reserved amounts
  calls         \* calls so far (bound)

store == <<budgets, reservations, conditions, packets>>
history == <<orders, grants, paid, overrun>>
vars == <<store, goals, call, answer, history, calls>>

Idle == [pc |-> "idle"]
NoAnswer == [status |-> "none"]
NoOrder == [budget |-> NoBudget, cost |-> 0]

Init ==
  /\ budgets = << >> /\ reservations = << >>
  /\ conditions = {} /\ packets = {}
  /\ goals = [g \in Goal |-> "none"]
  /\ call = [c \in Caller |-> Idle]
  /\ answer = [c \in Caller |-> NoAnswer]
  /\ orders = [g \in Goal |-> NoOrder]
  /\ grants = [g \in Goal |-> [b \in Budget |-> 0]]
  /\ paid = [g \in Goal |-> << >>]
  /\ overrun = [b \in Budget |-> 0]
  /\ calls = 0

CreateBudget(b, limit) ==
  /\ b \notin DOMAIN budgets
  /\ budgets' = [x \in DOMAIN budgets \union {b} |->
       IF x = b THEN [limit |-> limit, spent |-> 0, reserved |-> 0] ELSE budgets[x]]
  /\ UNCHANGED <<reservations, conditions, packets, goals, call, answer, history, calls>>

(* INSERT OR REPLACE by id.                                                *)
AddStopCondition(row) ==
  /\ row \notin conditions
  /\ conditions' = {s \in conditions : s.id # row.id} \union {row}
  /\ UNCHANGED <<budgets, reservations, packets, goals, call, answer, history, calls>>

At(c, pc) == call[c].pc = pc
Goto(c, pc) == call' = [call EXCEPT ![c].pc = pc]

Return(c, status) ==
  /\ call' = [call EXCEPT ![c] = Idle]
  /\ answer' = [answer EXCEPT ![c] = [status |-> status, request |-> call[c].request]]

(***************************************************************************)
(* evaluate()                                                              *)
(***************************************************************************)
Actual(q, field) == IF field = "estimated_cost" THEN q.cost > 0 ELSE field \in q.flags

(* deny and escalate alike make a packet; an allow is passed over.         *)
Stopped(q) ==
  \E s \in conditions : s.action # "allow" /\ Actual(q, s.field) = s.expected

NeedsFunds(q) == q.budget # NoBudget /\ q.cost > 0

Evaluate(c, q) ==
  /\ At(c, "idle") /\ calls < MaxCalls
  /\ calls' = calls + 1
  /\ call' = [call EXCEPT ![c] =
       [pc |-> IF Stopped(q) THEN "stop" ELSE IF NeedsFunds(q) THEN "fund" ELSE "submit",
        request |-> q]]
  /\ UNCHANGED <<store, goals, answer, history>>

Available(b) == budgets[b].limit - budgets[b].spent - budgets[b].reserved

Funded(q) == q.budget \in DOMAIN budgets /\ q.cost <= Available(q.budget)

(* The budget a call is about to change: settle() takes the reservation's.  *)
BudgetOf(c) ==
  IF call[c].pc \in {"settle", "pay"} THEN reservations[call[c].request.goal].budget
  ELSE call[c].request.budget

(* Nobody else is between a read and a write on the budget.                *)
Alone(c) ==
  Serialized => \A d \in Caller \ {c} :
    call[d].pc \in {"reserve", "pay"} => BudgetOf(d) # BudgetOf(c)

(* Mutant of ReadBudget: the balance is not looked at.                     *)
AssumeFunded(c) ==
  /\ At(c, "fund") /\ call[c].request.budget \in DOMAIN budgets
  /\ Goto(c, "reserve")
  /\ UNCHANGED <<store, goals, answer, history, calls>>

ReadBudget(c) ==
  /\ At(c, "fund") /\ Alone(c)
  /\ Goto(c, IF Funded(call[c].request) THEN "reserve" ELSE "refuse")
  /\ UNCHANGED <<store, goals, answer, history, calls>>

(* The row of a goal that has one already is kept (INSERT OR IGNORE), for  *)
(* whatever budget and cost it is, and the total of the budget asked for   *)
(* is raised.                                                              *)
Insert(q) ==
  [g \in DOMAIN reservations \union {q.goal} |->
     IF g \in DOMAIN reservations THEN reservations[g]
     ELSE [budget |-> q.budget, amount |-> q.cost, status |-> "reserved"]]

(* Mutant of Reserve: a goal that has a reservation is taken for funded.   *)
ReserveOnce(c) ==
  LET q == call[c].request IN
  /\ At(c, "reserve")
  /\ IF q.goal \in DOMAIN reservations THEN UNCHANGED budgets
     ELSE budgets' = [budgets EXCEPT ![q.budget].reserved = @ + q.cost]
  /\ reservations' = Insert(q)
  /\ grants' = [grants EXCEPT ![q.goal][q.budget] = @ + q.cost]
  /\ Goto(c, "submit")
  /\ UNCHANGED <<conditions, packets, goals, answer, orders, paid, overrun, calls>>

Reserve(c) ==
  LET q == call[c].request IN
  /\ At(c, "reserve")
  /\ budgets' = [budgets EXCEPT ![q.budget].reserved = @ + q.cost]
  /\ reservations' = Insert(q)
  /\ grants' = [grants EXCEPT ![q.goal][q.budget] = @ + q.cost]
  /\ Goto(c, "submit")
  /\ UNCHANGED <<conditions, packets, goals, answer, orders, paid, overrun, calls>>

(* _packet persists before evaluate returns it.                            *)
PersistPacket(c) ==
  /\ call[c].pc \in {"stop", "refuse"}
  /\ packets' = packets \union
       {[goal |-> call[c].request.goal,
         category |-> IF At(c, "stop") THEN "policy" ELSE "financial"]}
  /\ Return(c, "escalated")
  /\ UNCHANGED <<budgets, reservations, conditions, goals, history, calls>>

(***************************************************************************)
(* submit() and run() of the orchestrator.                                 *)
(***************************************************************************)
Submit(c) ==
  /\ At(c, "submit")
  /\ goals[call[c].request.goal] = "none"
  /\ goals' = [goals EXCEPT ![call[c].request.goal] = "planned"]
  /\ orders' = [orders EXCEPT ![call[c].request.goal] = call[c].request]
  /\ Goto(c, "run")
  /\ UNCHANGED <<store, answer, grants, paid, overrun, calls>>

(* IntegrityError: the goal is there, from an earlier call.                *)
SubmitAgain(c) ==
  /\ At(c, "submit")
  /\ goals[call[c].request.goal] # "none"
  /\ call' = [call EXCEPT ![c] = Idle]
  /\ UNCHANGED <<store, goals, answer, history, calls>>

Run(c, status) ==
  /\ At(c, "run")
  /\ goals' = [goals EXCEPT ![call[c].request.goal] = status]
  /\ IF status = "canonical" THEN Goto(c, "settle") /\ UNCHANGED answer
                             ELSE Return(c, status)
  /\ UNCHANGED <<store, history, calls>>

(***************************************************************************)
(* settle(), called by submit_and_run, or directly: by somebody who        *)
(* finishes the accounts of a call that was cut short, or before its time, *)
(* as it does not look at the goal.                                        *)
(***************************************************************************)
CallSettle(c, s) ==
  /\ At(c, "idle") /\ calls < MaxCalls
  /\ calls' = calls + 1
  /\ call' = [call EXCEPT ![c] = [pc |-> "settle", request |-> s]]
  /\ UNCHANGED <<store, goals, answer, history>>

Open(g) == g \in DOMAIN reservations /\ reservations[g].status = "reserved"

(* settle() returns nothing; submit_and_run returns the result of run().   *)
Settled(c) ==
  IF call[c].request \in Settlements
  THEN call' = [call EXCEPT ![c] = Idle] /\ UNCHANGED answer
  ELSE Return(c, "canonical")

(* Mutant of ReadReservation: a settled reservation is found too.          *)
ReadAnyReservation(c) ==
  /\ At(c, "settle")
  /\ IF call[c].request.goal \in DOMAIN reservations
     THEN Alone(c) /\ Goto(c, "pay") /\ UNCHANGED answer
     ELSE Settled(c)
  /\ UNCHANGED <<store, goals, history, calls>>

ReadReservation(c) ==
  /\ At(c, "settle")
  /\ IF Open(call[c].request.goal)
     THEN Alone(c) /\ Goto(c, "pay") /\ UNCHANGED answer
     ELSE Settled(c)
  /\ UNCHANGED <<store, goals, history, calls>>

(* settle() does not compare the actual cost with the reserved amount.     *)
Excess(q, row) == IF q.actual > row.amount THEN q.actual - row.amount ELSE 0

(* Mutant of Pay: the reservation is not marked settled.                   *)
PayUnmarked(c) ==
  LET q == call[c].request
      row == reservations[q.goal]
  IN
  /\ At(c, "pay")
  /\ budgets' = [budgets EXCEPT ![row.budget].reserved = @ - row.amount,
                                ![row.budget].spent = @ + q.actual]
  /\ paid' = [paid EXCEPT ![q.goal] = Append(@, q.actual)]
  /\ overrun' = [overrun EXCEPT ![row.budget] = @ + Excess(q, row)]
  /\ Settled(c)
  /\ UNCHANGED <<reservations, conditions, packets, goals, orders, grants, calls>>

Pay(c) ==
  LET q == call[c].request
      row == reservations[q.goal]
  IN
  /\ At(c, "pay")
  /\ budgets' = [budgets EXCEPT ![row.budget].reserved = @ - row.amount,
                                ![row.budget].spent = @ + q.actual]
  /\ reservations' = [reservations EXCEPT ![q.goal].status = "settled"]
  /\ paid' = [paid EXCEPT ![q.goal] = Append(@, q.actual)]
  /\ overrun' = [overrun EXCEPT ![row.budget] = @ + Excess(q, row)]
  /\ Settled(c)
  /\ UNCHANGED <<conditions, packets, goals, orders, grants, calls>>

(* A process dies, or an exception leaves submit_and_run.                  *)
Crash(c) ==
  /\ ~At(c, "idle")
  /\ call' = [call EXCEPT ![c] = Idle]
  /\ UNCHANGED <<store, goals, answer, history, calls>>

Step(c) ==
  \/ \E q \in Requests : Evaluate(c, q)
  \/ \E s \in Settlements : CallSettle(c, s)
  \/ ReadBudget(c) \/ Reserve(c) \/ PersistPacket(c)
  \/ Submit(c) \/ SubmitAgain(c)
  \/ \E status \in {"canonical", "escalated", "failed"} : Run(c, status)
  \/ ReadReservation(c) \/ Pay(c)
  \/ Crash(c)

Next ==
  \/ \E b \in Budget, limit \in Limits : CreateBudget(b, limit)
  \/ \E row \in Conditions : AddStopCondition(row)
  \/ \E c \in Caller : Step(c)

Spec == Init /\ [][Next]_vars

(***************************************************************************)
(* Properties.                                                             *)
(***************************************************************************)
Pc == {"stop", "fund", "reserve", "refuse", "submit", "run", "settle", "pay"}
Account == [limit: Nat, spent: Nat, reserved: Int]
CallState == {Idle} \union [pc: Pc, request: Requests]
               \union [pc: {"settle", "pay"}, request: Settlements]
Answer == {NoAnswer} \union
            [status: {"canonical", "escalated", "failed"}, request: Requests]

TypeOK ==
  /\ DOMAIN budgets \subseteq Budget /\ budgets \in [DOMAIN budgets -> Account]
  /\ DOMAIN reservations \subseteq Goal
  /\ reservations \in [DOMAIN reservations ->
       [budget: Budget, amount: Nat, status: {"reserved", "settled"}]]
  /\ conditions \subseteq Condition
  /\ packets \subseteq [goal: Goal, category: {"policy", "financial"}]
  /\ goals \in [Goal -> {"none", "planned", "canonical", "escalated", "failed"}]
  /\ call \in [Caller -> CallState] /\ answer \in [Caller -> Answer]
  /\ orders \in [Goal -> Requests \union {NoOrder}]
  /\ grants \in [Goal -> [Budget -> Nat]] /\ paid \in [Goal -> Seq(Nat)]
  /\ overrun \in [Budget -> Nat] /\ calls \in Nat

(* "Budget commitments exceed limit" (contracts.py:296), "hard-stop        *)
(* enforcement" (README.md:22): what is spent and reserved of a budget     *)
(* stays within its limit, but for what its goals cost above their         *)
(* estimates; nothing is committed on top of such an overrun.              *)
WithinLimit ==
  \A b \in DOMAIN budgets :
    budgets[b].spent + budgets[b].reserved <= budgets[b].limit + overrun[b]

(* "No material action proceeds beyond approved budget or authority"       *)
(* (ORCHESTRATOR.md:104): as long as no goal costs more than was estimated *)
(* when it was submitted, its budget is not overdrawn.                     *)
ApprovalCovers ==
  (Settlements = {} /\ \A q \in Requests : q.actual <= q.cost) =>
    \A b \in DOMAIN budgets : budgets[b].spent + budgets[b].reserved <= budgets[b].limit

SettledOf(b) == {g \in DOMAIN reservations :
                   reservations[g].budget = b /\ reservations[g].status = "settled"}
CostOf(g) == reservations[g].amount
ActualOf(g) == paid[g][1]

(* The totals of a budget are the sums of its goals' rows: each settled    *)
(* goal paid once, at the first actual cost it was given; whatever was     *)
(* ever reserved for a goal is held, less the amount of its row once that  *)
(* is settled.  So reserved never becomes negative, and a surplus comes    *)
(* only from goals that were submitted again.                              *)
BooksBalance ==
  \A b \in DOMAIN budgets :
    LET GrantedTo(g) == grants[g][b] IN
    /\ budgets[b].spent = MapThenSumSet(ActualOf, SettledOf(b))
    /\ budgets[b].reserved = MapThenSumSet(GrantedTo, DOMAIN reservations)
                              - MapThenSumSet(CostOf, SettledOf(b))

(* The goals at work that a budget was named for, and not settled yet.     *)
WorkOf(b) == {g \in Goal : /\ NeedsFunds(orders[g]) /\ orders[g].budget = b
                           /\ g \in DOMAIN reservations => Open(g)}
CostOfWork(g) == orders[g].cost

(* A goal that needs funds is not in the orchestrator without a row for    *)
(* settle() to find, and the budget it was submitted with holds the cost   *)
(* it was submitted with until it is settled, for all such goals together: *)
(* also when an earlier call for the goal, with another cost or budget,    *)
(* has left its row.                                                       *)
WorkIsFunded ==
  /\ \A g \in Goal : NeedsFunds(orders[g]) =>
       g \in DOMAIN reservations /\ orders[g].budget \in DOMAIN budgets
  /\ \A b \in DOMAIN budgets :
       budgets[b].reserved >= MapThenSumSet(CostOfWork, WorkOf(b))

(* A caller who was told "canonical" finds the goal canonical and its      *)
(* reservation settled; one who was told "escalated" finds a packet for    *)
(* the founder or an escalated goal.                                       *)
AnswerHolds(c) ==
  LET q == answer[c].request IN
  /\ answer[c].status = "canonical" =>
       /\ goals[q.goal] = "canonical"
       /\ NeedsFunds(q) =>
            q.goal \in DOMAIN reservations /\ reservations[q.goal].status = "settled"
  /\ answer[c].status = "escalated" =>
       \/ goals[q.goal] = "escalated"
       \/ \E p \in packets : p.goal = q.goal

AnswersHold == \A c \in Caller : AnswerHolds(c)

(* Callers that take turns on a budget fund goals as if evaluate() and     *)
(* settle() were atomic: the balance a grant rests on and the open         *)
(* reservation a payment rests on are still there when they are written.   *)
Funding == INSTANCE GoalFunding WITH
  accounts <- budgets, rows <- reservations, work <- goals, granted <- grants

FundsAtomically == Funding!Spec

(***************************************************************************)
(* The inductive invariant behind WithinLimit.                             *)
(***************************************************************************)

(* Whoever is about to reserve still finds the funds it found, and nobody  *)
(* else is about to reserve or to pay from the same budget.                *)
FundsKept ==
  \A c \in Caller : At(c, "reserve") =>
    /\ Funded(call[c].request)
    /\ \A d \in Caller \ {c} :
         call[d].pc \in {"reserve", "pay"} => BudgetOf(d) # BudgetOf(c)

(* Reservations are on budgets there are, and payers have found one.       *)
RowsMatch ==
  /\ \A g \in DOMAIN reservations : reservations[g].budget \in DOMAIN budgets
  /\ \A c \in Caller : At(c, "pay") => call[c].request.goal \in DOMAIN reservations

BInv == TypeOK /\ WithinLimit /\ FundsKept /\ RowsMatch

(***************************************************************************)
(* The inductive invariant behind BooksBalance: a goal has been paid for   *)
(* once if its row is settled, and not at all otherwise; whoever is about  *)
(* to pay for it is the only one and finds its reservation open; a row is  *)
(* for no more than was granted, and nothing is granted without a row, or  *)
(* on a budget that is not there.                                          *)
(***************************************************************************)
PayersAlone ==
  \A c \in Caller : At(c, "pay") =>
    /\ Open(call[c].request.goal)
    /\ \A d \in Caller \ {c} :
         At(d, "pay") => call[d].request.goal # call[c].request.goal

PaidOnce ==
  \A g \in Goal :
    Len(paid[g]) = IF g \in DOMAIN reservations /\ ~Open(g) THEN 1 ELSE 0

RowsGranted ==
  \A g \in Goal :
    /\ g \in DOMAIN reservations =>
         grants[g][reservations[g].budget] >= reservations[g].amount
    /\ \A b \in Budget :
         g \notin DOMAIN reservations \/ b \notin DOMAIN budgets => grants[g][b] = 0

LedgerInv ==
  BInv /\ PayersAlone /\ PaidOnce /\ RowsGranted /\ IsFiniteSet(DOMAIN reservations)

(***************************************************************************)
(* The inductive invariant behind AnswersHold, and WorkIsFunded goal by    *)
(* goal; it does not depend on whether accesses to a budget overlap.       *)
(***************************************************************************)

(* The cost of a request was reserved on its budget.                       *)
Granted(q) ==
  /\ q.goal \in DOMAIN reservations /\ q.budget \in DOMAIN budgets
  /\ grants[q.goal][q.budget] >= q.cost

(* What a caller has seen to before it got where it is.                    *)
Prepared(c) ==
  LET q == call[c].request IN
  /\ call[c].pc \in {"fund", "reserve"} => NeedsFunds(q)
  /\ At(c, "reserve") => q.budget \in DOMAIN budgets
  /\ At(c, "submit") /\ NeedsFunds(q) => Granted(q)
  /\ At(c, "run") => goals[q.goal] = "planned" /\ orders[q.goal] = q
  /\ call[c].pc \in {"settle", "pay"} /\ q \notin Settlements =>
       goals[q.goal] = "canonical" /\ orders[q.goal] = q

(* A goal is run by the caller whose submit() stored it, and nobody else.  *)
OneRunner ==
  \A c, d \in Caller :
    At(c, "run") /\ At(d, "run") /\ c # d => call[c].request.goal # call[d].request.goal

OrdersGranted ==
  \A g \in Goal : NeedsFunds(orders[g]) => orders[g].goal = g /\ Granted(orders[g])

AInv ==
  /\ TypeOK /\ RowsMatch /\ OrdersGranted /\ AnswersHold /\ OneRunner
  /\ \A c \in Caller : Prepared(c)

(***************************************************************************)
(* When accesses do overlap, WithinLimit fails, but not without bound:     *)
(* each of the other callers commits at most one request on top of what    *)
(* was found.                                                              *)
(***************************************************************************)
Committed(b) == budgets[b].spent + budgets[b].reserved - overrun[b]

(* Those that found funds in the budget and have not reserved yet.         *)
AboutToReserve(b) == {c \in Caller : At(c, "reserve") /\ call[c].request.budget = b}

OvershootBounded(most) ==
  \A b \in DOMAIN budgets :
    Committed(b) <= budgets[b].limit + (Cardinality(Caller) - 1) * most

(* The one that found funds last finds them for itself; each of the others *)
(* has at most one request to add.                                         *)
Allowance(W, most) == (Cardinality(Caller) - Cardinality(W)) * most

Bounded(b, most) ==
  LET W == AboutToReserve(b) IN
  IF W = {} THEN Committed(b) <= budgets[b].limit + (Cardinality(Caller) - 1) * most
  ELSE \E c \in W : Committed(b) + call[c].request.cost <= budgets[b].limit + Allowance(W, most)

OvershootInv(most) == AInv /\ \A b \in DOMAIN budgets : Bounded(b, most)

(***************************************************************************)
(* Nor is a goal then paid for once only, but each caller pays for it once *)
(* at most, of those that found its reservation open.                      *)
(***************************************************************************)
Payers(g) == {c \in Caller : At(c, "pay") /\ call[c].request.goal = g}

PaymentsBounded == \A g \in Goal : Len(paid[g]) <= Cardinality(Caller)

PaymentsInv ==
  /\ TypeOK
  /\ \A g \in Goal :
       /\ (g \in DOMAIN reservations => Open(g)) => paid[g] = << >>
       /\ Len(paid[g]) + Cardinality(Payers(g)) <= Cardinality(Caller)
==============================================================================
