--------------------------- MODULE InstitutionProofs ---------------------------
(***************************************************************************)
(* Proofs about Institution: for any callers, goals, budgets and stop      *)
(* conditions, budgets are kept, the books balance, work is funded and     *)
(* calls act as if they were atomic when accesses to a budget do not       *)
(* overlap; true answers, a bound on how far a budget is exceeded and one  *)
(* on how often a goal is paid for do not depend on that.                  *)
(***************************************************************************)
EXTENDS Institution, FiniteSetTheorems, Induction, TLAPS

(* A caller that is not idle has a request, or settles directly.           *)
LEMMA BusyRequest ==
  ASSUME TypeOK, NEW c \in Caller, ~At(c, "idle")
  PROVE  /\ call[c] \in [pc: Pc, request: Requests]
              \union [pc: {"settle", "pay"}, request: Settlements]
         /\ call[c].pc \in Pc /\ call[c].request \in Requests \union Settlements
         /\ call[c].pc \notin {"settle", "pay"} => call[c].request \in Requests
<1>1. call[c] \in [pc: Pc, request: Requests]
        \union [pc: {"settle", "pay"}, request: Settlements]
  BY DEF TypeOK, CallState, At, Idle
<1> QED
  BY <1>1 DEF Pc

LEMMA RequestTypes ==
  ASSUME NEW q \in Requests
  PROVE  /\ q \in Request /\ q.goal \in Goal /\ q.cost \in Nat /\ q.actual \in Nat
         /\ q.budget \in Budget \union {NoBudget}
  BY InstitutionAssumption DEF Request

(* What is settled, by whichever caller.                                   *)
LEMMA PaymentTypes ==
  ASSUME NEW q \in Requests \union Settlements
  PROVE  q.goal \in Goal /\ q.actual \in Nat
  BY InstitutionAssumption DEF Request, Settlement

(* Moving one caller on.                                                   *)
LEMMA GotoType ==
  ASSUME TypeOK, NEW c \in Caller, ~At(c, "idle"), NEW pc \in Pc, Goto(c, pc),
         pc = "pay" \/ call[c].pc \notin {"settle", "pay"}
  PROVE  /\ call' \in [Caller -> CallState]
         /\ call'[c].pc = pc /\ call'[c].request = call[c].request
         /\ \A d \in Caller : d # c => call'[d] = call[d]
<1>1. \/ call[c] \in [pc: Pc, request: Requests]
      \/ pc = "pay" /\ call[c] \in [pc: {"settle", "pay"}, request: Settlements]
  BY BusyRequest
<1> DEFINE new == [call[c] EXCEPT !.pc = pc]
<1>2. new \in CallState /\ new.pc = pc /\ new.request = call[c].request
  BY <1>1 DEF CallState
<1>3. call' = [call EXCEPT ![c] = new]
  BY DEF Goto
<1> HIDE DEF new
<1> QED
  BY <1>2, <1>3 DEF TypeOK

LEMMA ReturnType ==
  ASSUME TypeOK, NEW c \in Caller, call[c].request \in Requests,
         NEW status \in {"canonical", "escalated", "failed"}, Return(c, status)
  PROVE  /\ call' \in [Caller -> CallState] /\ answer' \in [Caller -> Answer]
         /\ call'[c] = Idle
         /\ \A d \in Caller : d # c => call'[d] = call[d] /\ answer'[d] = answer[d]
         /\ answer'[c] = [status |-> status, request |-> call[c].request]
<1> DEFINE new == [status |-> status, request |-> call[c].request]
<1>1. new \in Answer /\ Idle \in CallState
  BY DEF Answer, CallState
<1>2. call' = [call EXCEPT ![c] = Idle] /\ answer' = [answer EXCEPT ![c] = new]
  BY DEF Return
<1> HIDE DEF new
<1>3. /\ call' \in [Caller -> CallState] /\ answer' \in [Caller -> Answer]
      /\ call'[c] = Idle /\ answer'[c] = new
      /\ \A d \in Caller : d # c => call'[d] = call[d] /\ answer'[d] = answer[d]
  BY <1>1, <1>2 DEF TypeOK
<1> QED
  BY <1>3 DEF new

LEMMA IdleType ==
  ASSUME TypeOK, NEW c \in Caller, call' = [call EXCEPT ![c] = Idle]
  PROVE  /\ call' \in [Caller -> CallState]
         /\ call'[c] = Idle
         /\ \A d \in Caller : d # c => call'[d] = call[d]
  BY DEF TypeOK, CallState

(* The end of settle(), in submit_and_run or called directly.              *)
LEMMA SettledType ==
  ASSUME TypeOK, NEW c \in Caller, ~At(c, "idle"), Settled(c)
  PROVE  /\ call' \in [Caller -> CallState] /\ answer' \in [Caller -> Answer]
         /\ call'[c] = Idle
         /\ \A d \in Caller : d # c => call'[d] = call[d] /\ answer'[d] = answer[d]
         /\ \/ answer' = answer
            \/ /\ call[c].request \in Requests /\ call[c].request \notin Settlements
               /\ answer'[c] = [status |-> "canonical", request |-> call[c].request]
<1>1. CASE call[c].request \in Settlements
  BY <1>1, IdleType DEF Settled, TypeOK
<1>2. CASE call[c].request \notin Settlements
  BY <1>2, BusyRequest, ReturnType DEF Settled
<1> QED
  BY <1>1, <1>2

LEMMA StartType ==
  ASSUME TypeOK, NEW c \in Caller, NEW pc \in Pc, NEW q,
         q \in Requests \/ (pc = "settle" /\ q \in Settlements),
         call' = [call EXCEPT ![c] = [pc |-> pc, request |-> q]]
  PROVE  /\ call' \in [Caller -> CallState]
         /\ call'[c].pc = pc /\ call'[c].request = q
         /\ \A d \in Caller : d # c => call'[d] = call[d]
<1> DEFINE new == [pc |-> pc, request |-> q]
<1>1. new \in CallState /\ new.pc = pc /\ new.request = q
  BY DEF CallState
<1> HIDE DEF new
<1> QED
  BY <1>1 DEF TypeOK, new

(***************************************************************************)
(* Steps that leave the accounts alone keep the invariant as long as       *)
(* nobody gets to "reserve" or "pay" unchecked.                            *)
(***************************************************************************)

(* The part of BInv that is about the accounts and the callers.            *)
Accounts == WithinLimit /\ FundsKept /\ RowsMatch

LEMMA OtherSteps ==
  ASSUME BInv, UNCHANGED <<budgets, reservations, overrun>>,
         \A c \in Caller : call'[c].pc \in {"reserve", "pay"} => call'[c] = call[c]
  PROVE  Accounts'
<1>1. WithinLimit'
  BY DEF BInv, WithinLimit
<1>2. FundsKept'
  <2>1. \A c \in Caller : call'[c].pc \in {"reserve", "pay"} => call'[c] = call[c]
    OBVIOUS
  <2> QED
    BY <2>1 DEF BInv, FundsKept, Funded, Available, BudgetOf, At
<1>3. RowsMatch'
  <2>1. \A c \in Caller : At(c, "pay")' => At(c, "pay") /\ call'[c] = call[c]
    BY DEF At
  <2> QED
    BY <2>1 DEF BInv, RowsMatch
<1> QED
  BY <1>1, <1>2, <1>3 DEF Accounts

LEMMA EndedSteps ==
  ASSUME BInv, UNCHANGED <<budgets, reservations, overrun>>, NEW c \in Caller,
         call'[c] = Idle, \A d \in Caller : d # c => call'[d] = call[d]
  PROVE  Accounts'
<1>1. \A d \in Caller : call'[d].pc \in {"reserve", "pay"} => call'[d] = call[d]
  BY DEF Idle
<1> QED
  BY <1>1, OtherSteps

LEMMA CreateBudgetInv ==
  ASSUME BInv, NEW b \in Budget, NEW limit \in Limits, CreateBudget(b, limit)
  PROVE  BInv'
<1>1. /\ DOMAIN budgets' = DOMAIN budgets \union {b} /\ b \notin DOMAIN budgets
      /\ budgets'[b] = [limit |-> limit, spent |-> 0, reserved |-> 0]
      /\ \A x \in DOMAIN budgets : budgets'[x] = budgets[x]
      /\ UNCHANGED <<reservations, conditions, packets, goals, call, answer, history, calls>>
  BY DEF CreateBudget
<1>2. limit \in Nat
  BY InstitutionAssumption
<1>3. TypeOK'
  <2>1. budgets' \in [DOMAIN budgets' -> Account]
    <3>1. [limit |-> limit, spent |-> 0, reserved |-> 0] \in Account
      BY <1>2 DEF Account
    <3> QED
      BY <1>1, <3>1 DEF CreateBudget, BInv, TypeOK
  <2> QED
    BY <1>1, <2>1 DEF BInv, TypeOK, history
<1>4. WithinLimit'
  <2>1. overrun[b] \in Nat /\ overrun' = overrun
    BY <1>1 DEF BInv, TypeOK, history
  <2> QED
    BY <1>1, <1>2, <2>1 DEF BInv, WithinLimit
<1>5. FundsKept'
  BY <1>1 DEF BInv, FundsKept, Funded, Available, BudgetOf, At
<1>6. RowsMatch'
  BY <1>1 DEF BInv, RowsMatch, At
<1> QED
  BY <1>3, <1>4, <1>5, <1>6 DEF BInv

LEMMA EvaluateInv ==
  ASSUME BInv, NEW c \in Caller, NEW q \in Requests, Evaluate(c, q)
  PROVE  BInv'
<1> DEFINE pc == IF Stopped(q) THEN "stop" ELSE IF NeedsFunds(q) THEN "fund" ELSE "submit"
<1>1. pc \in Pc /\ pc \notin {"reserve", "pay"}
  BY DEF Pc
<1>2. call' = [call EXCEPT ![c] = [pc |-> pc, request |-> q]]
      /\ UNCHANGED <<store, goals, answer, history>> /\ calls' = calls + 1
  BY DEF Evaluate
<1> HIDE DEF pc
<1>3. /\ call' \in [Caller -> CallState]
      /\ call'[c].pc = pc /\ \A d \in Caller : d # c => call'[d] = call[d]
  BY <1>1, <1>2, StartType DEF BInv
<1>4. TypeOK'
  BY <1>2, <1>3 DEF BInv, TypeOK, store, history
<1>5. Accounts'
  BY <1>1, <1>2, <1>3, OtherSteps DEF store, history
<1> QED
  BY <1>4, <1>5 DEF BInv, Accounts

LEMMA CallSettleInv ==
  ASSUME BInv, NEW c \in Caller, NEW q \in Settlements, CallSettle(c, q)
  PROVE  BInv'
<1>1. call' = [call EXCEPT ![c] = [pc |-> "settle", request |-> q]]
      /\ UNCHANGED <<store, goals, answer, history>> /\ calls' = calls + 1
  BY DEF CallSettle
<1>2. /\ call' \in [Caller -> CallState]
      /\ call'[c].pc = "settle" /\ \A d \in Caller : d # c => call'[d] = call[d]
  BY <1>1, StartType DEF BInv, Pc
<1>3. TypeOK'
  BY <1>1, <1>2 DEF BInv, TypeOK, store, history
<1>4. Accounts'
  BY <1>1, <1>2, OtherSteps DEF store, history
<1> QED
  BY <1>3, <1>4 DEF BInv, Accounts

LEMMA ReadBudgetInv ==
  ASSUME BInv, Serialized, NEW c \in Caller, ReadBudget(c)
  PROVE  BInv'
<1> DEFINE pc == IF Funded(call[c].request) THEN "reserve" ELSE "refuse"
<1>1. At(c, "fund") /\ ~At(c, "idle") /\ pc \in Pc /\ Goto(c, pc)
  BY DEF ReadBudget, At, Pc
<1> HIDE DEF pc
<1>2. /\ call' \in [Caller -> CallState]
      /\ call'[c].pc = pc /\ call'[c].request = call[c].request
      /\ \A d \in Caller : d # c => call'[d] = call[d]
  BY <1>1, GotoType DEF BInv, At
<1>3. UNCHANGED <<store, goals, answer, history, calls>>
  BY DEF ReadBudget
<1>4. TypeOK'
  BY <1>2, <1>3 DEF BInv, TypeOK, store, history
<1>5. CASE pc = "refuse"
  <2>1. Accounts'
    BY <1>2, <1>3, <1>5, OtherSteps DEF store, history
  <2> QED
    BY <1>4, <2>1 DEF BInv, Accounts
<1>6. CASE pc = "reserve"
  <2>1. Funded(call[c].request)
    BY <1>6 DEF pc
  <2>2. \A d \in Caller \ {c} : call[d].pc \in {"reserve", "pay"} => BudgetOf(d) # BudgetOf(c)
    BY DEF ReadBudget, Alone
  <2>3. FundsKept'
    <3> SUFFICES ASSUME NEW d \in Caller, At(d, "reserve")'
                 PROVE  /\ Funded(call[d].request)'
                        /\ \A e \in Caller \ {d} :
                             call'[e].pc \in {"reserve", "pay"} => BudgetOf(e)' # BudgetOf(d)'
      BY DEF FundsKept
    <3>1. call'[d].request = call[d].request /\ UNCHANGED <<budgets, reservations>>
      BY <1>2, <1>3 DEF store
    <3>2. Funded(call[d].request)
      BY <1>2, <2>1 DEF BInv, FundsKept, At
    <3>3. \A e \in Caller : call'[e].pc \in {"reserve", "pay"} =>
            /\ e # c => call[e].pc \in {"reserve", "pay"}
            /\ BudgetOf(e)' = BudgetOf(e)
      BY <1>1, <1>2, <1>6, <3>1 DEF BudgetOf, At
    <3>4. \A e \in Caller \ {d} :
            call'[e].pc \in {"reserve", "pay"} => BudgetOf(e) # BudgetOf(d)
      BY <1>2, <2>2, <3>3 DEF BInv, FundsKept, At
    <3> QED
      BY <3>1, <3>2, <3>3, <3>4 DEF Funded, Available, At
  <2>4. WithinLimit'
    BY <1>3 DEF BInv, WithinLimit, store, history
  <2>5. RowsMatch'
    BY <1>2, <1>3, <1>6 DEF BInv, RowsMatch, At, store, history
  <2> QED
    BY <1>4, <2>3, <2>4, <2>5 DEF BInv
<1> QED
  BY <1>5, <1>6 DEF pc

LEMMA ReserveInv ==
  ASSUME BInv, NEW c \in Caller, Reserve(c)
  PROVE  BInv'
<1>1. ~At(c, "idle") /\ At(c, "reserve")
  BY DEF Reserve, At
<1> PICK q \in Requests : q = call[c].request
  BY <1>1, BusyRequest DEF BInv, At
<1>2. /\ budgets' = [budgets EXCEPT ![q.budget].reserved = @ + q.cost]
      /\ reservations' = Insert(q)
      /\ grants' = [grants EXCEPT ![q.goal][q.budget] = @ + q.cost]
      /\ Goto(c, "submit")
      /\ UNCHANGED <<conditions, packets, goals, answer, orders, paid, overrun, calls>>
  BY DEF Reserve
<1>3. q.goal \in Goal /\ q.cost \in Nat /\ q.budget \in DOMAIN budgets
      /\ q.budget \in Budget /\ q.cost <= Available(q.budget)
  BY <1>1, RequestTypes DEF BInv, FundsKept, Funded, TypeOK
<1>4. /\ call' \in [Caller -> CallState]
      /\ call'[c].pc = "submit" /\ \A d \in Caller : d # c => call'[d] = call[d]
  BY <1>1, <1>2, GotoType DEF BInv, At, Pc
<1>5. budgets[q.budget] \in Account
  BY <1>3 DEF BInv, TypeOK
<1>6. /\ DOMAIN budgets' = DOMAIN budgets
      /\ budgets'[q.budget].limit = budgets[q.budget].limit
      /\ budgets'[q.budget].spent = budgets[q.budget].spent
      /\ budgets'[q.budget].reserved = budgets[q.budget].reserved + q.cost
      /\ \A b \in DOMAIN budgets : b # q.budget => budgets'[b] = budgets[b]
      /\ budgets'[q.budget] \in Account
  <2>1. budgets[q.budget].reserved + q.cost \in Int
    BY <1>3, <1>5 DEF Account
  <2> QED
    BY <1>2, <1>3, <1>5, <2>1 DEF Account
<1>7. budgets' \in [DOMAIN budgets' -> Account]
  <2>1. budgets' = [b \in DOMAIN budgets' |-> budgets'[b]]
    BY <1>2
  <2> QED
    BY <1>6, <2>1 DEF BInv, TypeOK
<1>8. /\ DOMAIN reservations' = DOMAIN reservations \union {q.goal}
      /\ \A g \in DOMAIN reservations : reservations'[g] = reservations[g]
      /\ q.goal \notin DOMAIN reservations =>
           reservations'[q.goal] =
             [budget |-> q.budget, amount |-> q.cost, status |-> "reserved"]
  BY <1>2 DEF Insert
<1>9. reservations' \in [DOMAIN reservations' ->
        [budget: Budget, amount: Nat, status: {"reserved", "settled"}]]
  <2>1. [budget |-> q.budget, amount |-> q.cost, status |-> "reserved"]
          \in [budget: Budget, amount: Nat, status: {"reserved", "settled"}]
    BY <1>3
  <2>2. reservations' = [g \in DOMAIN reservations' |-> reservations'[g]]
    BY <1>2, <1>8 DEF Insert
  <2> QED
    BY <1>8, <2>1, <2>2 DEF BInv, TypeOK
<1>10. TypeOK'
  <2>1. grants' \in [Goal -> [Budget -> Nat]]
    <3>1. grants[q.goal] \in [Budget -> Nat] /\ grants \in [Goal -> [Budget -> Nat]]
      BY <1>3 DEF BInv, TypeOK
    <3>2. grants[q.goal][q.budget] + q.cost \in Nat
      BY <1>3, <3>1
    <3> QED
      BY <1>2, <1>3, <3>1, <3>2
  <2>2. DOMAIN budgets' \subseteq Budget /\ DOMAIN reservations' \subseteq Goal
    BY <1>3, <1>6, <1>8 DEF BInv, TypeOK
  <2> QED
    BY <1>2, <1>4, <1>7, <1>9, <2>1, <2>2 DEF BInv, TypeOK
<1>11. WithinLimit'
  <2> SUFFICES ASSUME NEW b \in DOMAIN budgets
               PROVE  budgets'[b].spent + budgets'[b].reserved
                        <= budgets'[b].limit + overrun'[b]
    BY <1>6 DEF WithinLimit
  <2>1. CASE b = q.budget
    <3>1. overrun[b] \in Nat /\ overrun' = overrun
      BY <1>2, <1>3, <2>1 DEF BInv, TypeOK
    <3> QED
      BY <1>3, <1>5, <1>6, <2>1, <3>1 DEF Available, Account
  <2>2. CASE b # q.budget
    BY <1>2, <1>6, <2>2 DEF BInv, WithinLimit
  <2> QED
    BY <2>1, <2>2
<1>12. FundsKept'
  <2> SUFFICES ASSUME NEW d \in Caller, At(d, "reserve")'
               PROVE  /\ Funded(call[d].request)'
                      /\ \A e \in Caller \ {d} :
                           call'[e].pc \in {"reserve", "pay"} => BudgetOf(e)' # BudgetOf(d)'
    BY DEF FundsKept
  <2>1. d # c /\ call'[d] = call[d] /\ At(d, "reserve")
    BY <1>4 DEF At
  <2>2. call[d].request.budget # q.budget /\ Funded(call[d].request)
    BY <1>1, <2>1 DEF BInv, FundsKept, BudgetOf, At
  <2>3. Funded(call[d].request)'
    BY <1>6, <2>1, <2>2 DEF Funded, Available
  <2>4. \A e \in Caller : call'[e].pc \in {"reserve", "pay"} =>
          e # c /\ call'[e] = call[e] /\ BudgetOf(e)' = BudgetOf(e)
    BY <1>4, <1>8 DEF BInv, RowsMatch, BudgetOf, At
  <2> QED
    BY <2>1, <2>3, <2>4 DEF BInv, FundsKept, At
<1>13. RowsMatch'
  <2>1. \A g \in DOMAIN reservations' : reservations'[g].budget \in DOMAIN budgets'
    BY <1>3, <1>6, <1>8 DEF BInv, RowsMatch
  <2>2. \A d \in Caller : At(d, "pay")' => call'[d].request.goal \in DOMAIN reservations'
    BY <1>4, <1>8 DEF BInv, RowsMatch, At
  <2> QED
    BY <2>1, <2>2 DEF RowsMatch
<1> QED
  BY <1>10, <1>11, <1>12, <1>13 DEF BInv

LEMMA ReadReservationInv ==
  ASSUME BInv, Serialized, NEW c \in Caller, ReadReservation(c)
  PROVE  BInv'
<1>1. At(c, "settle") /\ ~At(c, "idle") /\ UNCHANGED <<store, goals, history, calls>>
  BY DEF ReadReservation, At
<1>2. CASE Open(call[c].request.goal)
  <2>1. Goto(c, "pay") /\ UNCHANGED answer
    BY <1>2 DEF ReadReservation
  <2>2. /\ call' \in [Caller -> CallState]
        /\ call'[c].pc = "pay" /\ call'[c].request = call[c].request
        /\ \A d \in Caller : d # c => call'[d] = call[d]
    BY <1>1, <2>1, GotoType DEF BInv, Pc
  <2>3. TypeOK'
    BY <1>1, <2>1, <2>2 DEF BInv, TypeOK, store, history
  <2>4. FundsKept'
    <3>1. \A d \in Caller \ {c} : call[d].pc \in {"reserve", "pay"} => BudgetOf(d) # BudgetOf(c)
      BY <1>2 DEF ReadReservation, Alone
    <3>2. \A d \in Caller : BudgetOf(d)' = BudgetOf(d)
      BY <1>1, <2>2 DEF BudgetOf, At, store
    <3> QED
      BY <1>1, <2>2, <3>1, <3>2 DEF BInv, FundsKept, Funded, Available, At, store
  <2>5. WithinLimit'
    BY <1>1 DEF BInv, WithinLimit, store, history
  <2>6. RowsMatch'
    BY <1>1, <1>2, <2>2 DEF BInv, RowsMatch, At, Open, store, history
  <2> QED
    BY <2>3, <2>4, <2>5, <2>6 DEF BInv
<1>3. CASE ~Open(call[c].request.goal)
  <2>1. Settled(c)
    BY <1>3 DEF ReadReservation
  <2>2. TypeOK'
    BY <1>1, <2>1, SettledType DEF BInv, TypeOK, store, history
  <2>3. Accounts'
    BY <1>1, <2>1, SettledType, EndedSteps DEF BInv, store, history
  <2> QED
    BY <2>2, <2>3 DEF BInv, Accounts
<1> QED
  BY <1>2, <1>3

LEMMA AddStopConditionInv ==
  ASSUME BInv, NEW row \in Conditions, AddStopCondition(row)
  PROVE  BInv'
<1>1. UNCHANGED <<budgets, reservations, packets, goals, call, answer, history, calls>>
  BY DEF AddStopCondition
<1>2. conditions' \subseteq Condition
  BY InstitutionAssumption DEF AddStopCondition, BInv, TypeOK
<1>3. TypeOK'
  BY <1>1, <1>2 DEF BInv, TypeOK, history
<1>4. Accounts'
  BY <1>1, OtherSteps DEF history
<1> QED
  BY <1>3, <1>4 DEF BInv, Accounts

LEMMA PersistPacketInv ==
  ASSUME BInv, NEW c \in Caller, PersistPacket(c)
  PROVE  BInv'
<1>1. ~At(c, "idle") /\ Return(c, "escalated")
      /\ UNCHANGED <<budgets, reservations, conditions, goals, history, calls>>
  BY DEF PersistPacket, At
<1>2. call[c].request \in Requests /\ call[c].request.goal \in Goal
  BY BusyRequest, RequestTypes DEF PersistPacket, At, BInv
<1>3. packets' \subseteq [goal: Goal, category: {"policy", "financial"}]
  BY <1>2 DEF PersistPacket, BInv, TypeOK
<1>4. TypeOK'
  BY <1>1, <1>2, <1>3, ReturnType DEF BInv, TypeOK, history
<1>5. Accounts'
  BY <1>1, <1>2, ReturnType, EndedSteps DEF BInv, history
<1> QED
  BY <1>4, <1>5 DEF BInv, Accounts

LEMMA SubmitInv ==
  ASSUME BInv, NEW c \in Caller, Submit(c)
  PROVE  BInv'
<1>1. /\ ~At(c, "idle") /\ At(c, "submit") /\ Goto(c, "run")
      /\ UNCHANGED <<store, answer, grants, paid, overrun, calls>>
  BY DEF Submit, At
<1>2. /\ call' \in [Caller -> CallState]
      /\ call'[c].pc = "run" /\ \A d \in Caller : d # c => call'[d] = call[d]
  BY <1>1, GotoType DEF BInv, At, Pc
<1>3. goals' \in [Goal -> {"none", "planned", "canonical", "escalated", "failed"}]
  BY DEF Submit, BInv, TypeOK
<1>4. orders' \in [Goal -> Requests \union {NoOrder}]
  <2>1. call[c].request \in Requests
    BY <1>1, BusyRequest DEF BInv, At
  <2> QED
    BY <2>1 DEF Submit, BInv, TypeOK
<1>5. TypeOK'
  BY <1>1, <1>2, <1>3, <1>4 DEF BInv, TypeOK, store
<1>6. Accounts'
  BY <1>1, <1>2, OtherSteps DEF store
<1> QED
  BY <1>5, <1>6 DEF BInv, Accounts

(* An exception and a crash alike drop the call.                           *)
LEMMA DropInv ==
  ASSUME BInv, NEW c \in Caller, SubmitAgain(c) \/ Crash(c)
  PROVE  BInv'
<1>1. call' = [call EXCEPT ![c] = Idle] /\ UNCHANGED <<store, goals, answer, history, calls>>
  BY DEF SubmitAgain, Crash
<1>2. TypeOK'
  BY <1>1, IdleType DEF BInv, TypeOK, store, history
<1>3. Accounts'
  BY <1>1, IdleType, EndedSteps DEF BInv, store, history
<1> QED
  BY <1>2, <1>3 DEF BInv, Accounts

LEMMA RunInv ==
  ASSUME BInv, NEW c \in Caller, NEW status \in {"canonical", "escalated", "failed"},
         Run(c, status)
  PROVE  BInv'
<1>1. /\ ~At(c, "idle") /\ call[c].pc = "run" /\ call[c].request \in Requests
      /\ UNCHANGED <<store, history, calls>>
  BY BusyRequest DEF Run, At, BInv
<1>2. goals' \in [Goal -> {"none", "planned", "canonical", "escalated", "failed"}]
  BY DEF Run, BInv, TypeOK
<1>3. CASE status = "canonical"
  <2>1. Goto(c, "settle") /\ UNCHANGED answer
    BY <1>3 DEF Run
  <2>2. /\ call' \in [Caller -> CallState]
        /\ call'[c].pc = "settle" /\ \A d \in Caller : d # c => call'[d] = call[d]
    BY <1>1, <2>1, GotoType DEF BInv, Pc
  <2>3. TypeOK'
    BY <1>1, <1>2, <2>1, <2>2 DEF BInv, TypeOK, store, history
  <2>4. Accounts'
    BY <1>1, <2>2, OtherSteps DEF store, history
  <2> QED
    BY <2>3, <2>4 DEF BInv, Accounts
<1>4. CASE status # "canonical"
  <2>1. Return(c, status)
    BY <1>4 DEF Run
  <2>2. TypeOK'
    BY <1>1, <1>2, <2>1, ReturnType DEF BInv, TypeOK, store, history
  <2>3. Accounts'
    BY <1>1, <2>1, ReturnType, EndedSteps DEF BInv, store, history
  <2> QED
    BY <2>2, <2>3 DEF BInv, Accounts
<1> QED
  BY <1>3, <1>4

(* Paying releases the reserved amount; what a goal costs above it is      *)
(* overrun.                                                                *)
LEMMA PayInv ==
  ASSUME BInv, NEW c \in Caller, Pay(c)
  PROVE  BInv'
<1>1. ~At(c, "idle") /\ At(c, "pay")
  BY DEF Pay, At
<1> PICK q \in Requests \union Settlements : q = call[c].request
  BY <1>1, BusyRequest DEF BInv
<1>2. q.goal \in DOMAIN reservations /\ q.goal \in Goal
  BY <1>1, PaymentTypes DEF BInv, RowsMatch
<1> PICK row \in [budget: Budget, amount: Nat, status: {"reserved", "settled"}] :
      row = reservations[q.goal]
  BY <1>2 DEF BInv, TypeOK
<1>3. /\ budgets' = [budgets EXCEPT ![row.budget].reserved = @ - row.amount,
                                    ![row.budget].spent = @ + q.actual]
      /\ reservations' = [reservations EXCEPT ![q.goal].status = "settled"]
      /\ paid' = [paid EXCEPT ![q.goal] = Append(@, q.actual)]
      /\ overrun' = [overrun EXCEPT ![row.budget] = @ + Excess(q, row)]
      /\ Settled(c)
      /\ UNCHANGED <<conditions, packets, goals, orders, grants, calls>>
  BY DEF Pay
<1>4. row.budget \in DOMAIN budgets /\ row.budget \in Budget
      /\ row.amount \in Nat /\ q.actual \in Nat
      /\ Excess(q, row) \in Nat /\ q.actual <= row.amount + Excess(q, row)
  BY <1>2, PaymentTypes DEF BInv, RowsMatch, Excess
<1>5. /\ call' \in [Caller -> CallState]
      /\ answer' \in [Caller -> Answer]
      /\ call'[c] = Idle /\ \A d \in Caller : d # c => call'[d] = call[d]
  BY <1>1, <1>3, SettledType DEF BInv
<1>6. budgets[row.budget] \in Account
  BY <1>4 DEF BInv, TypeOK
<1>7. /\ DOMAIN budgets' = DOMAIN budgets
      /\ budgets'[row.budget].limit = budgets[row.budget].limit
      /\ budgets'[row.budget].spent = budgets[row.budget].spent + q.actual
      /\ budgets'[row.budget].reserved = budgets[row.budget].reserved - row.amount
      /\ \A b \in DOMAIN budgets : b # row.budget => budgets'[b] = budgets[b]
      /\ budgets'[row.budget] \in Account
  <2>1. budgets[row.budget].reserved - row.amount \in Int
        /\ budgets[row.budget].spent + q.actual \in Nat
    BY <1>4, <1>6 DEF Account
  <2> QED
    BY <1>3, <1>4, <1>6, <2>1 DEF Account
<1>8. budgets' \in [DOMAIN budgets' -> Account]
  <2>1. budgets' = [b \in DOMAIN budgets' |-> budgets'[b]]
    BY <1>3
  <2> QED
    BY <1>7, <2>1 DEF BInv, TypeOK
<1>9. /\ DOMAIN reservations' = DOMAIN reservations
      /\ \A g \in DOMAIN reservations :
           /\ reservations'[g].budget = reservations[g].budget
           /\ reservations'[g].amount = reservations[g].amount
      /\ reservations' \in [DOMAIN reservations' ->
           [budget: Budget, amount: Nat, status: {"reserved", "settled"}]]
  BY <1>2, <1>3 DEF BInv, TypeOK
<1>9a. /\ overrun' \in [Budget -> Nat] /\ overrun[row.budget] \in Nat
       /\ overrun'[row.budget] = overrun[row.budget] + Excess(q, row)
       /\ \A b \in Budget : b # row.budget => overrun'[b] = overrun[b]
  <2>1. overrun \in [Budget -> Nat] /\ overrun[row.budget] \in Nat
    BY <1>4 DEF BInv, TypeOK
  <2>2. overrun[row.budget] + Excess(q, row) \in Nat
    BY <1>4, <2>1
  <2> QED
    BY <1>3, <1>4, <2>1, <2>2
<1>9b. paid' \in [Goal -> Seq(Nat)]
  <2>1. paid[q.goal] \in Seq(Nat) /\ paid \in [Goal -> Seq(Nat)]
    BY <1>2 DEF BInv, TypeOK
  <2>2. Append(paid[q.goal], q.actual) \in Seq(Nat)
    BY <1>4, <2>1
  <2> QED
    BY <1>2, <1>3, <2>1, <2>2
<1>10. TypeOK'
  BY <1>3, <1>5, <1>7, <1>8, <1>9, <1>9a, <1>9b DEF BInv, TypeOK
<1>11. WithinLimit'
  <2> SUFFICES ASSUME NEW b \in DOMAIN budgets
               PROVE  budgets'[b].spent + budgets'[b].reserved
                        <= budgets'[b].limit + overrun'[b]
    BY <1>7 DEF WithinLimit
  <2>1. CASE b = row.budget
    <3>1. budgets[b].spent + budgets[b].reserved <= budgets[b].limit + overrun[b]
      BY DEF BInv, WithinLimit
    <3>2. /\ budgets[b].spent \in Nat /\ budgets[b].reserved \in Int
          /\ budgets[b].limit \in Nat
      BY <1>6, <2>1 DEF Account
    <3>3. /\ budgets'[b].spent = budgets[b].spent + q.actual
          /\ budgets'[b].reserved = budgets[b].reserved - row.amount
          /\ budgets'[b].limit = budgets[b].limit
      BY <1>7, <2>1
    <3>4. overrun'[b] = overrun[b] + Excess(q, row) /\ overrun[b] \in Nat
      BY <1>9a, <2>1
    <3>5. /\ q.actual \in Nat /\ row.amount \in Nat /\ Excess(q, row) \in Nat
          /\ q.actual <= row.amount + Excess(q, row)
      BY <1>4
    <3> QED
      BY <3>1, <3>2, <3>3, <3>4, <3>5
  <2>2. CASE b # row.budget
    <3>1. budgets'[b] = budgets[b] /\ b \in Budget
      BY <1>7, <2>2 DEF BInv, TypeOK
    <3>2. budgets[b].spent + budgets[b].reserved <= budgets[b].limit + overrun[b]
      BY DEF BInv, WithinLimit
    <3> QED
      BY <1>9a, <2>2, <3>1, <3>2
  <2> QED
    BY <2>1, <2>2
<1>12. FundsKept'
  <2>1. ASSUME NEW d \in Caller, call'[d].pc \in {"reserve", "pay"}
        PROVE  d # c /\ call'[d] = call[d] /\ BudgetOf(d)' = BudgetOf(d)
    <3>1. d # c /\ call'[d] = call[d]
      BY <1>5, <2>1 DEF Idle
    <3>2. call[d].pc = "pay" => call[d].request.goal \in DOMAIN reservations
      BY DEF BInv, RowsMatch, At
    <3> QED
      BY <1>9, <2>1, <3>1, <3>2 DEF BudgetOf
  <2> SUFFICES ASSUME NEW d \in Caller, At(d, "reserve")'
               PROVE  /\ Funded(call[d].request)'
                      /\ \A e \in Caller \ {d} :
                           call'[e].pc \in {"reserve", "pay"} => BudgetOf(e)' # BudgetOf(d)'
    BY DEF FundsKept
  <2>2. d # c /\ call'[d] = call[d] /\ At(d, "reserve") /\ BudgetOf(d)' = BudgetOf(d)
    BY <2>1 DEF At
  <2>3. Funded(call[d].request) /\ call[d].request.budget # row.budget
    BY <1>1, <2>2 DEF BInv, FundsKept, BudgetOf, At
  <2>4. Funded(call[d].request)'
    BY <1>7, <2>2, <2>3 DEF Funded, Available
  <2>5. \A e \in Caller \ {d} :
          call'[e].pc \in {"reserve", "pay"} => BudgetOf(e)' # BudgetOf(d)'
    BY <2>1, <2>2 DEF BInv, FundsKept, At
  <2> QED
    BY <2>4, <2>5
<1>13. RowsMatch'
  <2>1. \A d \in Caller : At(d, "pay")' => At(d, "pay") /\ call'[d] = call[d]
    BY <1>5 DEF At, Idle
  <2>2. \A g \in DOMAIN reservations' : reservations'[g].budget \in DOMAIN budgets'
    <3>1. \A g \in DOMAIN reservations : reservations[g].budget \in DOMAIN budgets
      BY DEF BInv, RowsMatch
    <3> QED
      BY <1>7, <1>9, <3>1
  <2>3. \A d \in Caller : At(d, "pay")' => call'[d].request.goal \in DOMAIN reservations'
    BY <1>9, <2>1 DEF BInv, RowsMatch
  <2> QED
    BY <2>2, <2>3 DEF RowsMatch
<1> QED
  BY <1>10, <1>11, <1>12, <1>13 DEF BInv

LEMMA NextInv ==
  ASSUME BInv, Serialized, [Next]_vars
  PROVE  BInv'
<1>1. CASE UNCHANGED vars
  BY <1>1 DEF vars, store, history, BInv, TypeOK, WithinLimit, FundsKept, RowsMatch,
              Funded, Available, BudgetOf, At
<1>2. ASSUME NEW b \in Budget, NEW limit \in Limits, CreateBudget(b, limit) PROVE BInv'
  BY <1>2, CreateBudgetInv
<1>3. ASSUME NEW row \in Conditions, AddStopCondition(row) PROVE BInv'
  BY <1>3, AddStopConditionInv
<1>4. ASSUME NEW c \in Caller, Step(c) PROVE BInv'
  <2>0. ASSUME NEW q \in Requests, Evaluate(c, q) PROVE BInv'
    BY <2>0, EvaluateInv
  <2>1. ASSUME NEW s \in Settlements, CallSettle(c, s) PROVE BInv'
    BY <2>1, CallSettleInv
  <2>2. CASE ReadBudget(c) \/ Reserve(c) \/ PersistPacket(c)
    BY <2>2, ReadBudgetInv, ReserveInv, PersistPacketInv
  <2>3. CASE Submit(c) \/ SubmitAgain(c) \/ Crash(c)
    BY <2>3, SubmitInv, DropInv
  <2>4. ASSUME NEW status \in {"canonical", "escalated", "failed"}, Run(c, status)
        PROVE  BInv'
    BY <2>4, RunInv
  <2>5. CASE ReadReservation(c) \/ Pay(c)
    BY <2>5, ReadReservationInv, PayInv
  <2> QED
    BY <1>4, <2>0, <2>1, <2>2, <2>3, <2>4, <2>5 DEF Step
<1> QED
  BY <1>1, <1>2, <1>3, <1>4 DEF Next

LEMMA InitInv ==
  ASSUME Init
  PROVE  BInv
<1>1. TypeOK
  BY DEF Init, TypeOK, Account, CallState, Answer
<1>2. WithinLimit /\ RowsMatch /\ FundsKept
  BY DEF Init, WithinLimit, RowsMatch, FundsKept, At, Idle
<1> QED
  BY <1>1, <1>2 DEF BInv

(***************************************************************************)
(* The books are typed, a caller that is about to reserve still finds the  *)
(* funds it read, nobody else is about to change that budget, and every    *)
(* reservation is on a budget there is: whatever the callers, requests,    *)
(* direct settlements, limits and actual costs, if accesses to one budget  *)
(* do not overlap (which evaluate() of governance.py leaves to its         *)
(* callers).                                                               *)
(***************************************************************************)
THEOREM BudgetInvariance ==
  ASSUME Serialized
  PROVE  Spec => []BInv
<1>1. Init => BInv
  BY InitInv
<1>2. BInv /\ [Next]_vars => BInv'
  BY NextInv
<1> QED
  BY <1>1, <1>2, PTL DEF Spec

(***************************************************************************)
(* Hard-stop enforcement: what is spent and reserved of a budget never     *)
(* exceeds its limit by more than goals cost above their estimates, under  *)
(* the same assumption.                                                    *)
(***************************************************************************)
THEOREM BudgetKept ==
  ASSUME Serialized
  PROVE  Spec => []WithinLimit
<1>1. BInv => WithinLimit
  BY DEF BInv
<1> QED
  BY <1>1, BudgetInvariance, PTL

(***************************************************************************)
(* The totals of a budget as the sums of Induction.                        *)
(***************************************************************************)
Actuals == [g \in DOMAIN reservations |-> ActualOf(g)]
Amounts == [g \in DOMAIN reservations |-> CostOf(g)]
GrantsOn(b) == [g \in DOMAIN reservations |-> grants[g][b]]
WorkCosts == [g \in DOMAIN reservations |-> CostOfWork(g)]

BudgetSums ==
  \A b \in DOMAIN budgets :
    /\ budgets[b].spent = SetSum(Actuals, SettledOf(b))
    /\ budgets[b].reserved = SetSum(GrantsOn(b), DOMAIN reservations)
                              - SetSum(Amounts, SettledOf(b))

(* What MapThenSumSet computes is that sum, whichever element it takes.    *)
LEMMA ActualSum ==
  ASSUME NEW U \in SUBSET DOMAIN reservations, IsFiniteSet(U)
  PROVE  MapThenSumSet(ActualOf, U) = SetSum(Actuals, U)
<1> DEFINE Rec(h) == h = [s \in SUBSET U |->
             IF s = {} THEN 0 ELSE ActualOf(Pick(s)) + h[s \ {Pick(s)}]]
           h == CHOOSE h : Rec(h)
<1>1. PICK g : SumsOver(g, Actuals, U)
  BY SumsExist
<1>2. \A s \in SUBSET U : s # {} => Actuals[Pick(s)] = ActualOf(Pick(s))
  BY PickIsIn DEF Actuals
<1>3. Rec(g)
  BY <1>1, <1>2 DEF SumsOver
<1>4. Rec(h)
  BY <1>3
<1>5. MapThenSumSet(ActualOf, U) = h[U]
  BY DEF MapThenSumSet, MapThenFoldSet, Pick
<1> HIDE DEF h
<1>6. SumsOver(h, Actuals, U)
  BY <1>2, <1>4 DEF SumsOver
<1> QED
  BY <1>5, <1>6, SetSumIs

LEMMA AmountSum ==
  ASSUME NEW U \in SUBSET DOMAIN reservations, IsFiniteSet(U)
  PROVE  MapThenSumSet(CostOf, U) = SetSum(Amounts, U)
<1> DEFINE Rec(h) == h = [s \in SUBSET U |->
             IF s = {} THEN 0 ELSE CostOf(Pick(s)) + h[s \ {Pick(s)}]]
           h == CHOOSE h : Rec(h)
<1>1. PICK g : SumsOver(g, Amounts, U)
  BY SumsExist
<1>2. \A s \in SUBSET U : s # {} => Amounts[Pick(s)] = CostOf(Pick(s))
  BY PickIsIn DEF Amounts
<1>3. Rec(g)
  BY <1>1, <1>2 DEF SumsOver
<1>4. Rec(h)
  BY <1>3
<1>5. MapThenSumSet(CostOf, U) = h[U]
  BY DEF MapThenSumSet, MapThenFoldSet, Pick
<1> HIDE DEF h
<1>6. SumsOver(h, Amounts, U)
  BY <1>2, <1>4 DEF SumsOver
<1> QED
  BY <1>5, <1>6, SetSumIs

LEMMA WorkSum ==
  ASSUME NEW U \in SUBSET DOMAIN reservations, IsFiniteSet(U)
  PROVE  MapThenSumSet(CostOfWork, U) = SetSum(WorkCosts, U)
<1> DEFINE Rec(h) == h = [s \in SUBSET U |->
             IF s = {} THEN 0 ELSE CostOfWork(Pick(s)) + h[s \ {Pick(s)}]]
           h == CHOOSE h : Rec(h)
<1>1. PICK g : SumsOver(g, WorkCosts, U)
  BY SumsExist
<1>2. \A s \in SUBSET U : s # {} => WorkCosts[Pick(s)] = CostOfWork(Pick(s))
  BY PickIsIn DEF WorkCosts
<1>3. Rec(g)
  BY <1>1, <1>2 DEF SumsOver
<1>4. Rec(h)
  BY <1>3
<1>5. MapThenSumSet(CostOfWork, U) = h[U]
  BY DEF MapThenSumSet, MapThenFoldSet, Pick
<1> HIDE DEF h
<1>6. SumsOver(h, WorkCosts, U)
  BY <1>2, <1>4 DEF SumsOver
<1> QED
  BY <1>5, <1>6, SetSumIs

LEMMA GrantSum ==
  ASSUME NEW b, IsFiniteSet(DOMAIN reservations)
  PROVE  LET GrantedTo(g) == grants[g][b] IN
         MapThenSumSet(GrantedTo, DOMAIN reservations)
           = SetSum(GrantsOn(b), DOMAIN reservations)
<1> DEFINE GrantedTo(g) == grants[g][b]
           U == DOMAIN reservations
           Rec(h) == h = [s \in SUBSET U |->
             IF s = {} THEN 0 ELSE GrantedTo(Pick(s)) + h[s \ {Pick(s)}]]
           h == CHOOSE h : Rec(h)
<1>1. PICK g : SumsOver(g, GrantsOn(b), U)
  BY SumsExist
<1>2. \A s \in SUBSET U : s # {} => GrantsOn(b)[Pick(s)] = GrantedTo(Pick(s))
  BY PickIsIn DEF GrantsOn
<1>3. Rec(g)
  BY <1>1, <1>2 DEF SumsOver
<1>4. Rec(h)
  BY <1>3
<1>5. MapThenSumSet(GrantedTo, U) = h[U]
  BY DEF MapThenSumSet, MapThenFoldSet, Pick
<1> HIDE DEF h
<1>6. SumsOver(h, GrantsOn(b), U)
  BY <1>2, <1>4 DEF SumsOver
<1> QED
  BY <1>5, <1>6, SetSumIs

(* So the property speaks of sums, now and after a step.                   *)
LEMMA BooksAsSums ==
  IsFiniteSet(DOMAIN reservations) => (BooksBalance <=> BudgetSums)
<1> SUFFICES ASSUME IsFiniteSet(DOMAIN reservations)
             PROVE  BooksBalance <=> BudgetSums
  OBVIOUS
<1>1. \A b : SettledOf(b) \in SUBSET DOMAIN reservations /\ IsFiniteSet(SettledOf(b))
  BY FS_Subset DEF SettledOf
<1>2. \A b : /\ MapThenSumSet(ActualOf, SettledOf(b)) = SetSum(Actuals, SettledOf(b))
             /\ MapThenSumSet(CostOf, SettledOf(b)) = SetSum(Amounts, SettledOf(b))
  BY <1>1, ActualSum, AmountSum
<1>3. \A b : LET GrantedTo(g) == grants[g][b] IN
             MapThenSumSet(GrantedTo, DOMAIN reservations)
               = SetSum(GrantsOn(b), DOMAIN reservations)
  BY GrantSum
<1> QED
  BY <1>2, <1>3 DEF BooksBalance, BudgetSums

(***************************************************************************)
(* A settled row was paid for once, and a row is for no more than granted. *)
(***************************************************************************)
LEMMA RowTypes ==
  ASSUME LedgerInv, NEW g \in DOMAIN reservations
  PROVE  /\ g \in Goal /\ Amounts[g] \in Nat /\ Amounts[g] = reservations[g].amount
         /\ \A b \in Budget : GrantsOn(b)[g] = grants[g][b] /\ GrantsOn(b)[g] \in Nat
         /\ Amounts[g] <= GrantsOn(reservations[g].budget)[g]
         /\ reservations[g].status = "settled" => Actuals[g] \in Int
<1>1. /\ g \in Goal /\ reservations[g].amount \in Nat /\ reservations[g].budget \in Budget
      /\ grants[g] \in [Budget -> Nat] /\ paid[g] \in Seq(Nat)
  BY DEF LedgerInv, BInv, TypeOK
<1>2. grants[g][reservations[g].budget] >= reservations[g].amount
  BY <1>1 DEF LedgerInv, RowsGranted
<1>3. ASSUME reservations[g].status = "settled" PROVE paid[g][1] \in Nat
  <2>1. Len(paid[g]) = 1
    BY <1>1, <1>3 DEF LedgerInv, PaidOnce, Open
  <2> QED
    BY <1>1, <2>1
<1> QED
  BY <1>1, <1>2, <1>3 DEF Actuals, Amounts, GrantsOn, ActualOf, CostOf

(* A step that touches neither rows nor grants nor payments, and brings    *)
(* nobody to "pay".                                                        *)
LEMMA QuietLedger ==
  ASSUME LedgerInv, BInv', UNCHANGED <<reservations, grants, paid>>,
         DOMAIN budgets \subseteq DOMAIN budgets',
         \A d \in Caller : At(d, "pay")' => At(d, "pay") /\ call'[d] = call[d]
  PROVE  LedgerInv'
<1>1. PayersAlone'
  BY DEF LedgerInv, PayersAlone, At, Open
<1>2. PaidOnce'
  BY DEF LedgerInv, PaidOnce, Open
<1>3. RowsGranted'
  BY DEF LedgerInv, RowsGranted
<1> QED
  BY <1>1, <1>2, <1>3 DEF LedgerInv

(* A step that touches neither totals nor rows nor grants nor payments.    *)
LEMMA SameSums ==
  ASSUME BudgetSums, UNCHANGED <<budgets, reservations, grants, paid>>
  PROVE  BudgetSums'
  BY DEF BudgetSums, SettledOf, Actuals, Amounts, GrantsOn, ActualOf, CostOf

LEMMA CreateBudgetLedger ==
  ASSUME LedgerInv, BudgetSums, BInv', NEW b \in Budget, NEW limit \in Limits,
         CreateBudget(b, limit)
  PROVE  LedgerInv' /\ BudgetSums'
<1>1. /\ DOMAIN budgets' = DOMAIN budgets \union {b} /\ b \notin DOMAIN budgets
      /\ budgets'[b] = [limit |-> limit, spent |-> 0, reserved |-> 0]
      /\ \A x \in DOMAIN budgets : budgets'[x] = budgets[x]
      /\ UNCHANGED <<reservations, grants, paid, call>>
  BY DEF CreateBudget, history
<1>2. LedgerInv'
  BY <1>1, QuietLedger DEF At
<1>3. /\ Actuals' = Actuals /\ Amounts' = Amounts
      /\ \A x : SettledOf(x)' = SettledOf(x) /\ GrantsOn(x)' = GrantsOn(x)
  BY <1>1 DEF Actuals, Amounts, GrantsOn, ActualOf, CostOf, SettledOf
<1>4. SettledOf(b) = {}
  BY <1>1 DEF LedgerInv, BInv, RowsMatch, SettledOf
<1>5. SetSum(GrantsOn(b), DOMAIN reservations) = 0
  <2>1. \A g \in DOMAIN reservations : g \in Goal
    BY DEF LedgerInv, BInv, TypeOK
  <2>2. \A g \in DOMAIN reservations : GrantsOn(b)[g] = 0
    BY <1>1, <2>1 DEF LedgerInv, RowsGranted, GrantsOn
  <2> QED
    BY <2>2, SetSumZero DEF LedgerInv
<1>6. /\ budgets'[b].spent = SetSum(Actuals, SettledOf(b))
      /\ budgets'[b].reserved = SetSum(GrantsOn(b), DOMAIN reservations)
                                  - SetSum(Amounts, SettledOf(b))
  BY <1>1, <1>4, <1>5, SetSumEmpty
<1>7. BudgetSums'
  BY <1>1, <1>3, <1>6 DEF BudgetSums
<1> QED
  BY <1>2, <1>7

(* A call that ends.                                                       *)
LEMMA PayersLeft ==
  ASSUME NEW c \in Caller, call'[c] = Idle, \A d \in Caller : d # c => call'[d] = call[d]
  PROVE  \A d \in Caller : At(d, "pay")' => d # c /\ At(d, "pay") /\ call'[d] = call[d]
  BY DEF At, Idle

(* settle() finds the reservation open, and nobody else about to settle it.*)
LEMMA ReadReservationLedger ==
  ASSUME LedgerInv, Serialized, BInv', NEW c \in Caller, ReadReservation(c)
  PROVE  LedgerInv'
<1>1. At(c, "settle") /\ ~At(c, "idle") /\ TypeOK
      /\ UNCHANGED <<budgets, reservations, grants, paid>>
  BY DEF ReadReservation, At, store, history, LedgerInv, BInv
<1>2. CASE Open(call[c].request.goal)
  <2>1. Goto(c, "pay")
    BY <1>2 DEF ReadReservation
  <2>2. /\ call'[c].pc = "pay" /\ call'[c].request = call[c].request
        /\ \A d \in Caller : d # c => call'[d] = call[d]
    BY <1>1, <2>1, GotoType DEF Pc
  <2>3. \A d \in Caller \ {c} : At(d, "pay") =>
          call[d].request.goal # call[c].request.goal
    <3>1. \A d \in Caller \ {c} : At(d, "pay") => BudgetOf(d) # BudgetOf(c)
      BY <1>2 DEF ReadReservation, Alone, At
    <3> QED
      BY <1>1, <3>1 DEF BudgetOf, At
  <2>4. PayersAlone'
    BY <1>1, <1>2, <2>2, <2>3 DEF LedgerInv, PayersAlone, At, Open
  <2>5. PaidOnce' /\ RowsGranted'
    BY <1>1 DEF LedgerInv, PaidOnce, RowsGranted, Open
  <2> QED
    BY <1>1, <2>4, <2>5 DEF LedgerInv
<1>3. CASE ~Open(call[c].request.goal)
  <2>1. Settled(c)
    BY <1>3 DEF ReadReservation
  <2>2. \A d \in Caller : At(d, "pay")' => At(d, "pay") /\ call'[d] = call[d]
    BY <1>1, <2>1, SettledType, PayersLeft
  <2> QED
    BY <1>1, <2>2, QuietLedger
<1> QED
  BY <1>2, <1>3

(***************************************************************************)
(* Reserve raises the budget's total and what one goal was granted on it,  *)
(* whether the goal's row is new or kept.                                  *)
(***************************************************************************)
LEMMA ReserveLedger ==
  ASSUME LedgerInv, BudgetSums, BInv', NEW c \in Caller, Reserve(c)
  PROVE  LedgerInv' /\ BudgetSums'
<1>1. At(c, "reserve") /\ ~At(c, "idle") /\ TypeOK
  BY DEF Reserve, At, LedgerInv, BInv
<1> PICK q \in Requests : q = call[c].request
  BY <1>1, BusyRequest DEF At
<1> DEFINE b == q.budget
           k == q.goal
           old == DOMAIN reservations
<1>2. /\ budgets' = [budgets EXCEPT ![b].reserved = @ + q.cost]
      /\ reservations' = Insert(q)
      /\ grants' = [grants EXCEPT ![k][b] = @ + q.cost]
      /\ Goto(c, "submit") /\ UNCHANGED paid
  BY DEF Reserve
<1>3. b \in DOMAIN budgets /\ b \in Budget /\ k \in Goal /\ q.cost \in Nat
  BY <1>1, RequestTypes DEF LedgerInv, BInv, FundsKept, Funded, TypeOK
<1>4. /\ DOMAIN budgets' = DOMAIN budgets /\ budgets[b] \in Account
      /\ budgets'[b].spent = budgets[b].spent
      /\ budgets'[b].reserved = budgets[b].reserved + q.cost
      /\ \A x \in DOMAIN budgets : x # b => budgets'[x] = budgets[x]
  <2>1. budgets[b] \in Account
    BY <1>1, <1>3 DEF TypeOK
  <2> HIDE DEF b, k
  <2>2. /\ DOMAIN budgets' = DOMAIN budgets
        /\ budgets'[b] = [budgets[b] EXCEPT !.reserved = @ + q.cost]
        /\ \A x \in DOMAIN budgets : x # b => budgets'[x] = budgets[x]
    BY <1>2, <1>3, <2>1 DEF Account
  <2> QED
    BY <2>1, <2>2 DEF Account
<1>5. /\ DOMAIN reservations' = old \union {k}
      /\ \A g \in old : reservations'[g] = reservations[g]
      /\ k \notin old =>
           reservations'[k] = [budget |-> b, amount |-> q.cost, status |-> "reserved"]
  BY <1>2 DEF Insert
<1>6. /\ grants[k] \in [Budget -> Nat]
      /\ grants'[k][b] = grants[k][b] + q.cost
      /\ \A x \in Budget : x # b => grants'[k][x] = grants[k][x]
      /\ \A g \in Goal : g # k => grants'[g] = grants[g]
  BY <1>1, <1>2, <1>3 DEF TypeOK
<1>7. \A d \in Caller : At(d, "pay")' => At(d, "pay") /\ call'[d] = call[d]
  BY <1>1, <1>2, GotoType DEF At, Pc
<1> HIDE DEF b, k
<1>8. LedgerInv'
  <2>1. PayersAlone'
    BY <1>5, <1>7 DEF LedgerInv, PayersAlone, At, Open
  <2>2. IsFiniteSet(DOMAIN reservations')
    BY <1>5, FS_AddElement DEF LedgerInv
  <2>3. PaidOnce'
    BY <1>2, <1>5 DEF LedgerInv, PaidOnce, Open
  <2>4. RowsGranted'
    <3> SUFFICES ASSUME NEW g \in Goal
                 PROVE  /\ g \in DOMAIN reservations' =>
                             grants'[g][reservations'[g].budget] >= reservations'[g].amount
                        /\ \A x \in Budget :
                             g \notin DOMAIN reservations' \/ x \notin DOMAIN budgets' =>
                               grants'[g][x] = 0
      BY DEF RowsGranted
    <3>1. /\ g \in old => grants[g][reservations[g].budget] >= reservations[g].amount
          /\ \A x \in Budget : g \notin old \/ x \notin DOMAIN budgets => grants[g][x] = 0
      BY DEF LedgerInv, RowsGranted
    <3>2. g \in old => /\ reservations[g].budget \in Budget
                       /\ reservations[g].amount \in Nat
      BY <1>1 DEF TypeOK
    <3>3. CASE g # k
      BY <1>3, <1>4, <1>5, <1>6, <3>1, <3>3
    <3>4. CASE g = k
      <4>1. \A x \in Budget : grants'[g][x] >= grants[g][x]
        BY <1>3, <1>6, <3>4
      <4>2. CASE g \in old
        <5>1. reservations[g].amount \in Nat /\ grants[g][reservations[g].budget] \in Nat
              /\ grants'[g][reservations[g].budget] \in Nat
          BY <1>3, <1>6, <3>2, <3>4, <4>2
        <5>2. grants'[g][reservations[g].budget] >= reservations[g].amount
          BY <3>1, <3>2, <4>1, <4>2, <5>1
        <5> QED
          BY <1>3, <1>4, <1>5, <1>6, <3>1, <3>4, <4>2, <5>2
      <4>3. CASE g \notin old
        <5>1. reservations'[g].budget = b /\ reservations'[g].amount = q.cost
          BY <1>5, <3>4, <4>3
        <5>2. grants'[g][b] >= q.cost
          BY <1>3, <1>6, <3>4
        <5> QED
          BY <1>3, <1>4, <1>5, <1>6, <3>1, <3>4, <4>3, <5>1, <5>2
      <4> QED
        BY <4>2, <4>3
    <3> QED
      BY <3>3, <3>4
  <2> QED
    BY <2>1, <2>2, <2>3, <2>4 DEF LedgerInv
<1>9. \A x \in DOMAIN budgets : SettledOf(x)' = SettledOf(x)
  BY <1>5 DEF SettledOf
<1>10. \A g \in old : Actuals'[g] = Actuals[g] /\ Amounts'[g] = Amounts[g]
  BY <1>2, <1>5 DEF Actuals, Amounts, ActualOf, CostOf
<1>11. \A x : SettledOf(x) \subseteq old /\ IsFiniteSet(SettledOf(x))
  BY FS_Subset DEF SettledOf, LedgerInv
<1>12. \A x \in DOMAIN budgets :
         /\ SetSum(Actuals', SettledOf(x)') = SetSum(Actuals, SettledOf(x))
         /\ SetSum(Amounts', SettledOf(x)') = SetSum(Amounts, SettledOf(x))
  BY <1>9, <1>10, <1>11, SetSumSame
<1> DEFINE new == old \union {k}
           more(x) == IF x = b THEN q.cost ELSE 0
<1>13. /\ IsFiniteSet(old) /\ IsFiniteSet(new) /\ IsFiniteSet(old \ {k})
       /\ new \ {k} = old \ {k} /\ k \in new /\ DOMAIN reservations' = new
       /\ \A g \in new : g \in Goal
  BY <1>1, <1>3, <1>5, FS_AddElement, FS_RemoveElement DEF LedgerInv, TypeOK
<1>14. ASSUME NEW x \in DOMAIN budgets
       PROVE  /\ SetSum(GrantsOn(x)', new) = SetSum(GrantsOn(x), old) + more(x)
              /\ SetSum(GrantsOn(x), old) \in Int
  <2>0. x \in Budget
    BY <1>1 DEF TypeOK
  <2>1. \A g \in new : GrantsOn(x)'[g] = grants'[g][x]
    BY <1>13 DEF GrantsOn
  <2>2. \A g \in old : GrantsOn(x)[g] = grants[g][x] /\ GrantsOn(x)[g] \in Nat
    BY <2>0, RowTypes
  <2>3. GrantsOn(x)'[k] = grants[k][x] + more(x) /\ grants[k][x] \in Nat /\ more(x) \in Nat
    BY <1>3, <1>6, <1>13, <2>0, <2>1
  <2>4. \A g \in old \ {k} : GrantsOn(x)'[g] = GrantsOn(x)[g]
    BY <1>6, <1>13, <2>1, <2>2
  <2> HIDE DEF new, old, more
  <2>5. \A g \in new : GrantsOn(x)'[g] \in Int
    BY <1>13, <2>2, <2>3, <2>4
  <2>6. /\ SetSum(GrantsOn(x)', new) = GrantsOn(x)'[k] + SetSum(GrantsOn(x)', new \ {k})
        /\ SetSum(GrantsOn(x)', new \ {k}) \in Int
    BY <1>13, <2>5, SetSumAdd
  <2>7. SetSum(GrantsOn(x)', new \ {k}) = SetSum(GrantsOn(x), old \ {k})
    BY <1>13, <2>4, SetSumSame
  <2>8. CASE k \in old
    <3>1. /\ SetSum(GrantsOn(x), old) = GrantsOn(x)[k] + SetSum(GrantsOn(x), old \ {k})
          /\ SetSum(GrantsOn(x), old) \in Int
      BY <1>13, <2>2, <2>8, SetSumAdd
    <3>2. GrantsOn(x)[k] = grants[k][x]
      BY <2>2, <2>8
    <3>3. SetSum(GrantsOn(x)', new) = (grants[k][x] + more(x)) + SetSum(GrantsOn(x), old \ {k})
          /\ SetSum(GrantsOn(x), old \ {k}) \in Int
      BY <2>3, <2>6, <2>7
    <3>4. SetSum(GrantsOn(x), old) = grants[k][x] + SetSum(GrantsOn(x), old \ {k})
      BY <3>1, <3>2
    <3> QED
      BY <2>3, <3>1, <3>3, <3>4
  <2>9. CASE k \notin old
    <3>1. old \ {k} = old
      BY <2>9
    <3>2. grants[k][x] = 0
      BY <1>3, <2>0, <2>9 DEF LedgerInv, RowsGranted, old
    <3>3. SetSum(GrantsOn(x)', new) = (0 + more(x)) + SetSum(GrantsOn(x), old)
          /\ SetSum(GrantsOn(x), old) \in Int
      BY <2>3, <2>6, <2>7, <3>1, <3>2
    <3> QED
      BY <2>3, <3>3
  <2> QED
    BY <2>8, <2>9
<1>15. BudgetSums'
  <2> SUFFICES ASSUME NEW x \in DOMAIN budgets
               PROVE  /\ budgets'[x].spent = SetSum(Actuals', SettledOf(x)')
                      /\ budgets'[x].reserved = SetSum(GrantsOn(x)', new)
                                                  - SetSum(Amounts', SettledOf(x)')
    BY <1>4, <1>13 DEF BudgetSums
  <2>1. /\ budgets[x].spent = SetSum(Actuals, SettledOf(x))
        /\ budgets[x].reserved = SetSum(GrantsOn(x), old) - SetSum(Amounts, SettledOf(x))
    BY DEF BudgetSums
  <2>2. SetSum(Amounts, SettledOf(x)) \in Int
    BY <1>11, RowTypes, SetSumInt
  <2>3. /\ budgets'[x].spent = budgets[x].spent
        /\ budgets'[x].reserved = budgets[x].reserved + more(x)
    <3>1. CASE x = b
      BY <1>4, <3>1
    <3>2. CASE x # b
      <4>1. budgets[x] \in Account
        BY <1>1 DEF TypeOK
      <4> QED
        BY <1>4, <3>2, <4>1 DEF Account
    <3> QED
      BY <3>1, <3>2
  <2>4. more(x) \in Int
    BY <1>3
  <2>5. /\ SetSum(GrantsOn(x)', new) = SetSum(GrantsOn(x), old) + more(x)
        /\ SetSum(GrantsOn(x), old) \in Int
    BY <1>14
  <2>6. /\ SetSum(Actuals', SettledOf(x)') = SetSum(Actuals, SettledOf(x))
        /\ SetSum(Amounts', SettledOf(x)') = SetSum(Amounts, SettledOf(x))
    BY <1>12
  <2> HIDE DEF new, old, more
  <2> QED
    BY <2>1, <2>2, <2>3, <2>4, <2>5, <2>6
<1> QED
  BY <1>8, <1>15

(* Pay settles one row, once: the amount leaves "reserved", the actual     *)
(* cost is spent.                                                          *)
LEMMA PayLedger ==
  ASSUME LedgerInv, BudgetSums, BInv', NEW c \in Caller, Pay(c)
  PROVE  LedgerInv' /\ BudgetSums'
<1>1. At(c, "pay") /\ ~At(c, "idle") /\ TypeOK
  BY DEF Pay, At, LedgerInv, BInv
<1> PICK q \in Requests \union Settlements : q = call[c].request
  BY <1>1, BusyRequest
<1> DEFINE k == q.goal
<1>2. /\ k \in DOMAIN reservations /\ reservations[k].status = "reserved"
      /\ \A d \in Caller \ {c} : At(d, "pay") => call[d].request.goal # k
  BY <1>1 DEF LedgerInv, PayersAlone, Open
<1> PICK row \in [budget: Budget, amount: Nat, status: {"reserved", "settled"}] :
      row = reservations[k]
  BY <1>1, <1>2 DEF TypeOK
<1> DEFINE b == row.budget
<1>3. /\ budgets' = [budgets EXCEPT ![b].reserved = @ - row.amount,
                                    ![b].spent = @ + q.actual]
      /\ reservations' = [reservations EXCEPT ![k].status = "settled"]
      /\ paid' = [paid EXCEPT ![k] = Append(@, q.actual)]
      /\ Settled(c) /\ UNCHANGED grants
  BY DEF Pay
<1>4. b \in DOMAIN budgets /\ row.amount \in Nat /\ q.actual \in Nat
  BY <1>2, PaymentTypes DEF LedgerInv, BInv, RowsMatch
<1>5. /\ DOMAIN budgets' = DOMAIN budgets /\ budgets[b] \in Account
      /\ budgets'[b].spent = budgets[b].spent + q.actual
      /\ budgets'[b].reserved = budgets[b].reserved - row.amount
      /\ \A x \in DOMAIN budgets : x # b => budgets'[x] = budgets[x]
  <2>1. budgets[b] \in Account
    BY <1>1, <1>4 DEF TypeOK
  <2>2. budgets'[b] = [budgets[b] EXCEPT !.reserved = @ - row.amount, !.spent = @ + q.actual]
    BY <1>3, <1>4, <2>1 DEF Account
  <2> HIDE DEF b
  <2>3. \A x \in DOMAIN budgets : x # b => budgets'[x] = budgets[x]
    BY <1>3
  <2> QED
    BY <1>3, <2>1, <2>2, <2>3 DEF Account
<1>6. /\ DOMAIN reservations' = DOMAIN reservations
      /\ \A g \in DOMAIN reservations :
           /\ reservations'[g].budget = reservations[g].budget
           /\ reservations'[g].amount = reservations[g].amount
           /\ g # k => reservations'[g].status = reservations[g].status
      /\ reservations'[k].status = "settled"
  BY <1>1, <1>2, <1>3 DEF TypeOK
<1>6a. /\ k \in Goal /\ Len(paid'[k]) = 1 /\ paid'[k][1] = q.actual
       /\ \A g \in Goal : g # k => paid'[g] = paid[g]
  <2>1. k \in Goal /\ paid[k] \in Seq(Nat) /\ paid \in [Goal -> Seq(Nat)]
    BY <1>1, <1>2 DEF TypeOK
  <2>2. Len(paid[k]) = 0
    BY <1>2, <2>1 DEF LedgerInv, PaidOnce, Open
  <2>3. paid'[k] = Append(paid[k], q.actual)
    BY <1>3, <2>1
  <2>4. \A g \in Goal : g # k => paid'[g] = paid[g]
    BY <1>3, <2>1
  <2> HIDE DEF k
  <2> QED
    BY <1>4, <2>1, <2>2, <2>3, <2>4
<1>7. \A d \in Caller : At(d, "pay")' => d # c /\ At(d, "pay") /\ call'[d] = call[d]
  BY <1>1, <1>3, SettledType, PayersLeft
<1>8. LedgerInv'
  <2>1. PayersAlone'
    <3> SUFFICES ASSUME NEW d \in Caller, At(d, "pay")'
                 PROVE  /\ Open(call[d].request.goal)'
                        /\ \A e \in Caller \ {d} : At(e, "pay")' =>
                             call'[e].request.goal # call'[d].request.goal
      BY DEF PayersAlone
    <3>1. d # c /\ At(d, "pay") /\ call'[d] = call[d] /\ call[d].request.goal # k
      BY <1>2, <1>7
    <3>2. Open(call[d].request.goal)'
      BY <1>6, <3>1 DEF LedgerInv, PayersAlone, Open
    <3> QED
      BY <1>7, <3>1, <3>2 DEF LedgerInv, PayersAlone
  <2>2. PaidOnce'
    <3>1. \A g \in Goal : g # k => (g \in DOMAIN reservations' /\ ~Open(g)' <=>
                                     g \in DOMAIN reservations /\ ~Open(g))
      BY <1>6 DEF Open
    <3>2. k \in DOMAIN reservations' /\ ~Open(k)'
      BY <1>2, <1>6 DEF Open
    <3> QED
      BY <1>6a, <3>1, <3>2 DEF LedgerInv, PaidOnce
  <2>3. RowsGranted'
    <3>1. RowsGranted /\ UNCHANGED grants /\ DOMAIN budgets' = DOMAIN budgets
      BY <1>3, <1>5 DEF LedgerInv
    <3> QED
      BY <1>6, <3>1 DEF RowsGranted
  <2> QED
    BY <1>6, <2>1, <2>2, <2>3 DEF LedgerInv
<1> HIDE DEF b, k
<1>9. \A x \in DOMAIN budgets : GrantsOn(x)' = GrantsOn(x)
  BY <1>3, <1>6 DEF GrantsOn
<1>10. \A x \in DOMAIN budgets : x # b => SettledOf(x)' = SettledOf(x)
  BY <1>6 DEF SettledOf, b
<1>11. SettledOf(b)' = SettledOf(b) \union {k} /\ k \notin SettledOf(b)
  BY <1>2, <1>6 DEF SettledOf, b
<1>12. /\ \A g \in DOMAIN reservations : Amounts'[g] = Amounts[g]
       /\ \A g \in DOMAIN reservations : g # k => Actuals'[g] = Actuals[g]
       /\ Actuals'[k] = q.actual /\ Amounts'[k] = row.amount
  <2>1. \A g \in DOMAIN reservations : g \in Goal
    BY <1>1 DEF TypeOK
  <2> QED
    BY <1>2, <1>6, <1>6a, <2>1 DEF Actuals, Amounts, ActualOf, CostOf
<1>13. \A x : /\ SettledOf(x) \subseteq DOMAIN reservations /\ IsFiniteSet(SettledOf(x))
              /\ \A g \in SettledOf(x) : Actuals[g] \in Int /\ Amounts[g] \in Int
  <2>1. \A x : SettledOf(x) \subseteq DOMAIN reservations /\ IsFiniteSet(SettledOf(x))
    BY FS_Subset DEF SettledOf, LedgerInv
  <2>2. \A x : \A g \in SettledOf(x) :
          g \in DOMAIN reservations /\ reservations[g].status = "settled"
    BY DEF SettledOf
  <2> QED
    BY <2>1, <2>2, RowTypes
<1>14. \A x \in DOMAIN budgets : x # b =>
         /\ SetSum(Actuals', SettledOf(x)') = SetSum(Actuals, SettledOf(x))
         /\ SetSum(Amounts', SettledOf(x)') = SetSum(Amounts, SettledOf(x))
  <2> SUFFICES ASSUME NEW x \in DOMAIN budgets, x # b
               PROVE  /\ SetSum(Actuals', SettledOf(x)) = SetSum(Actuals, SettledOf(x))
                      /\ SetSum(Amounts', SettledOf(x)) = SetSum(Amounts, SettledOf(x))
    BY <1>10
  <2>1. k \notin SettledOf(x)
    BY <1>2 DEF SettledOf
  <2> QED
    BY <1>12, <1>13, <2>1, SetSumSame
<1>15. /\ SetSum(Actuals', SettledOf(b)') = SetSum(Actuals, SettledOf(b)) + q.actual
       /\ SetSum(Amounts', SettledOf(b)') = SetSum(Amounts, SettledOf(b)) + row.amount
       /\ SetSum(Actuals, SettledOf(b)) \in Int /\ SetSum(Amounts, SettledOf(b)) \in Int
  <2> DEFINE S == SettledOf(b)
             V == S \union {k}
  <2>1. IsFiniteSet(S) /\ IsFiniteSet(V) /\ k \in V /\ V \ {k} = S
    BY <1>11, <1>13, FS_AddElement
  <2>2. \A g \in S : /\ Actuals'[g] = Actuals[g] /\ Actuals[g] \in Int
                     /\ Amounts'[g] = Amounts[g] /\ Amounts[g] \in Int
    BY <1>11, <1>12, <1>13
  <2>3. \A g \in V : Actuals'[g] \in Int /\ Amounts'[g] \in Int
    BY <1>4, <1>12, <2>2
  <2>4. SetSum(Actuals', S) = SetSum(Actuals, S) /\ SetSum(Amounts', S) = SetSum(Amounts, S)
    BY <2>1, <2>2, SetSumSame
  <2>5. SettledOf(b)' = V
    BY <1>11
  <2> HIDE DEF V, S
  <2>6. SetSum(Actuals', V) = q.actual + SetSum(Actuals, S) /\ SetSum(Actuals, S) \in Int
    BY <1>12, <2>1, <2>3, <2>4, SetSumAdd
  <2>7. SetSum(Amounts', V) = row.amount + SetSum(Amounts, S) /\ SetSum(Amounts, S) \in Int
    <3>1. \A g \in V : Amounts'[g] \in Int
      BY <2>3
    <3>2. /\ SetSum(Amounts', V) = Amounts'[k] + SetSum(Amounts', V \ {k})
          /\ SetSum(Amounts', V \ {k}) \in Int
      BY <2>1, <3>1, SetSumAdd
    <3> QED
      BY <1>12, <2>1, <2>4, <3>2
  <2>8. /\ SetSum(Actuals', V) = SetSum(Actuals, S) + q.actual
        /\ SetSum(Amounts', V) = SetSum(Amounts, S) + row.amount
    BY <1>4, <2>6, <2>7
  <2> QED
    BY <2>5, <2>6, <2>7, <2>8 DEF S
<1>16. BudgetSums'
  <2> SUFFICES ASSUME NEW x \in DOMAIN budgets
               PROVE  /\ budgets'[x].spent = SetSum(Actuals', SettledOf(x)')
                      /\ budgets'[x].reserved = SetSum(GrantsOn(x), DOMAIN reservations)
                                                  - SetSum(Amounts', SettledOf(x)')
    BY <1>5, <1>6, <1>9 DEF BudgetSums
  <2>1. /\ budgets[x].spent = SetSum(Actuals, SettledOf(x))
        /\ budgets[x].reserved = SetSum(GrantsOn(x), DOMAIN reservations)
                                   - SetSum(Amounts, SettledOf(x))
    BY DEF BudgetSums
  <2>2. CASE x # b
    BY <1>5, <1>14, <2>1, <2>2
  <2>3. CASE x = b
    <3>1. x \in Budget
      BY <1>1 DEF TypeOK
    <3>2. SetSum(GrantsOn(x), DOMAIN reservations) \in Int
      <4>1. \A g \in DOMAIN reservations : GrantsOn(x)[g] \in Int
        BY <3>1, RowTypes
      <4> QED
        BY <4>1, SetSumInt DEF LedgerInv
    <3>3. budgets'[x].spent = SetSum(Actuals', SettledOf(x)')
      BY <1>4, <1>5, <1>15, <2>1, <2>3
    <3>4. /\ budgets'[x].reserved = budgets[x].reserved - row.amount
          /\ SetSum(Amounts', SettledOf(x)') = SetSum(Amounts, SettledOf(x)) + row.amount
          /\ SetSum(Amounts, SettledOf(x)) \in Int
      BY <1>5, <1>15, <2>3
    <3>5. budgets'[x].reserved = SetSum(GrantsOn(x), DOMAIN reservations)
                                   - SetSum(Amounts', SettledOf(x)')
      BY <1>4, <2>1, <3>2, <3>4
    <3> QED
      BY <3>3, <3>5
  <2> QED
    BY <2>2, <2>3
<1> QED
  BY <1>8, <1>16

LEMMA NextLedger ==
  ASSUME LedgerInv, BudgetSums, Serialized, [Next]_vars
  PROVE  LedgerInv' /\ BudgetSums'
<1>1. BInv' /\ TypeOK
  BY NextInv DEF LedgerInv, BInv
<1>2. ASSUME UNCHANGED <<budgets, reservations, grants, paid>>,
             \A d \in Caller : At(d, "pay")' => At(d, "pay") /\ call'[d] = call[d]
      PROVE  LedgerInv' /\ BudgetSums'
  BY <1>1, <1>2, QuietLedger, SameSums
<1>3. CASE UNCHANGED vars
  BY <1>2, <1>3 DEF vars, store, history, At
<1>4. ASSUME NEW b \in Budget, NEW limit \in Limits, CreateBudget(b, limit)
      PROVE  LedgerInv' /\ BudgetSums'
  BY <1>1, <1>4, CreateBudgetLedger
<1>5. ASSUME NEW row \in Conditions, AddStopCondition(row)
      PROVE  LedgerInv' /\ BudgetSums'
  BY <1>2, <1>5 DEF AddStopCondition, history, At
<1>6. ASSUME NEW c \in Caller, Step(c) PROVE LedgerInv' /\ BudgetSums'
  <2>0. ASSUME NEW s \in Settlements, CallSettle(c, s) PROVE LedgerInv' /\ BudgetSums'
    <3>1. call' = [call EXCEPT ![c] = [pc |-> "settle", request |-> s]]
      BY <2>0 DEF CallSettle
    <3>2. \A d \in Caller : At(d, "pay")' => At(d, "pay") /\ call'[d] = call[d]
      BY <1>1, <3>1, StartType DEF At, Pc
    <3> QED
      BY <1>2, <2>0, <3>2 DEF CallSettle, store, history
  <2>1. ASSUME NEW q \in Requests, Evaluate(c, q) PROVE LedgerInv' /\ BudgetSums'
    <3> DEFINE pc == IF Stopped(q) THEN "stop"
                     ELSE IF NeedsFunds(q) THEN "fund" ELSE "submit"
    <3>0. pc \in Pc \ {"pay"}
      BY DEF Pc
    <3>1. call' = [call EXCEPT ![c] = [pc |-> pc, request |-> q]]
      BY <2>1 DEF Evaluate
    <3> HIDE DEF pc
    <3>2. \A d \in Caller : At(d, "pay")' => At(d, "pay") /\ call'[d] = call[d]
      BY <1>1, <3>0, <3>1, StartType DEF At
    <3> QED
      BY <1>2, <2>1, <3>2 DEF Evaluate, store, history
  <2>2. CASE ReadBudget(c)
    <3>1. PICK pc \in Pc \ {"pay"} : Goto(c, pc)
      BY <2>2 DEF ReadBudget, Pc
    <3>2. \A d \in Caller : At(d, "pay")' => At(d, "pay") /\ call'[d] = call[d]
      BY <1>1, <2>2, <3>1, GotoType DEF At, ReadBudget
    <3> QED
      BY <1>2, <2>2, <3>2 DEF ReadBudget, store, history
  <2>3. CASE Reserve(c)
    BY <1>1, <2>3, ReserveLedger
  <2>4. CASE PersistPacket(c)
    <3>1. \A d \in Caller : At(d, "pay")' => At(d, "pay") /\ call'[d] = call[d]
      BY <1>1, <2>4, BusyRequest, ReturnType, PayersLeft DEF At, PersistPacket
    <3> QED
      BY <1>2, <2>4, <3>1 DEF PersistPacket, history
  <2>5. CASE Submit(c)
    <3>1. \A d \in Caller : At(d, "pay")' => At(d, "pay") /\ call'[d] = call[d]
      BY <1>1, <2>5, GotoType DEF At, Submit, Pc
    <3> QED
      BY <1>2, <2>5, <3>1 DEF Submit, store, history
  <2>6. CASE SubmitAgain(c) \/ Crash(c)
    <3>1. \A d \in Caller : At(d, "pay")' => At(d, "pay") /\ call'[d] = call[d]
      BY <1>1, <2>6, IdleType, PayersLeft DEF SubmitAgain, Crash
    <3> QED
      BY <1>2, <2>6, <3>1 DEF SubmitAgain, Crash, store, history
  <2>7. ASSUME NEW status \in {"canonical", "escalated", "failed"}, Run(c, status)
        PROVE  LedgerInv' /\ BudgetSums'
    <3>1. /\ ~At(c, "idle") /\ At(c, "run") /\ call[c].request \in Requests
          /\ Goto(c, "settle") \/ Return(c, status)
      BY <1>1, <2>7, BusyRequest DEF Run, At
    <3>2. \A d \in Caller : At(d, "pay")' => At(d, "pay") /\ call'[d] = call[d]
      <4>1. CASE Goto(c, "settle")
        BY <1>1, <3>1, <4>1, GotoType DEF At, Pc
      <4>2. CASE Return(c, status)
        BY <1>1, <3>1, <4>2, ReturnType, PayersLeft
      <4> QED
        BY <3>1, <4>1, <4>2
    <3> QED
      BY <1>2, <2>7, <3>2 DEF Run, store, history
  <2>8. CASE ReadReservation(c)
    <3>1. LedgerInv'
      BY <1>1, <2>8, ReadReservationLedger
    <3>2. BudgetSums'
      BY <2>8, SameSums DEF ReadReservation, store, history
    <3> QED
      BY <3>1, <3>2
  <2>9. CASE Pay(c)
    BY <1>1, <2>9, PayLedger
  <2> QED
    BY <1>6, <2>0, <2>1, <2>2, <2>3, <2>4, <2>5, <2>6, <2>7, <2>8, <2>9 DEF Step
<1> QED
  BY <1>3, <1>4, <1>5, <1>6 DEF Next

LEMMA InitLedger ==
  ASSUME Init
  PROVE  LedgerInv /\ BudgetSums
<1>1. BInv /\ BudgetSums
  BY InitInv DEF Init, BudgetSums
<1>2. IsFiniteSet(DOMAIN reservations) /\ DOMAIN reservations = {}
  BY FS_EmptySet DEF Init
<1>3. PayersAlone
  BY DEF Init, PayersAlone, At, Idle
<1>4. PaidOnce /\ RowsGranted
  BY DEF Init, PaidOnce, RowsGranted
<1> QED
  BY <1>1, <1>2, <1>3, <1>4 DEF LedgerInv

LEMMA LedgerStep ==
  ASSUME Serialized
  PROVE  Spec => [](LedgerInv /\ BudgetSums)
<1>1. Init => LedgerInv /\ BudgetSums
  BY InitLedger
<1>2. LedgerInv /\ BudgetSums /\ [Next]_vars => (LedgerInv /\ BudgetSums)'
  BY NextLedger
<1> QED
  BY <1>1, <1>2, PTL DEF Spec

(***************************************************************************)
(* While accesses to one budget do not overlap, whoever is about to pay    *)
(* for a goal in settle() of governance.py is the only one, and finds the  *)
(* reservation it read still open: a goal has been paid for once if its    *)
(* row is settled and not at all otherwise, whoever settles it, for what,  *)
(* and whether it is canonical or not; and a row is for no more than was   *)
(* reserved for the goal, whatever it was asked for with.                  *)
(***************************************************************************)
THEOREM LedgerInvariance ==
  ASSUME Serialized
  PROVE  Spec => []LedgerInv
  BY LedgerStep, PTL

(***************************************************************************)
(* The totals that evaluate() and settle() of governance.py change one by  *)
(* one are the sums of the rows: what is spent is the one payment of each  *)
(* settled goal, what is reserved is all that was ever reserved for each   *)
(* goal less the rows that were settled, for any number of goals, calls    *)
(* and direct settlements, whichever crash and whatever cost or budget a   *)
(* goal is asked for with again, under the same assumption.                *)
(***************************************************************************)
THEOREM BooksBalanced ==
  ASSUME Serialized
  PROVE  Spec => []BooksBalance
<1>1. LedgerInv /\ BudgetSums => BooksBalance
  BY BooksAsSums DEF LedgerInv
<1> QED
  BY <1>1, LedgerStep, PTL

(***************************************************************************)
(* What does not depend on whether the callers' accesses to a budget       *)
(* overlap: what is at work was granted its cost, and an answer of         *)
(* submit_and_run holds from then on.                                      *)
(***************************************************************************)
(* What callers have been told rests on rows that no step takes back.      *)
Grows ==
  /\ DOMAIN budgets \subseteq DOMAIN budgets'
  /\ \A g \in DOMAIN reservations :
       /\ g \in DOMAIN reservations'
       /\ reservations[g].status = "settled" => reservations'[g].status = "settled"
  /\ packets \subseteq packets'
  /\ \A g \in Goal : goals[g] \in {"canonical", "escalated"} => goals'[g] = goals[g]
  /\ \A g \in Goal : goals[g] # "none" => orders'[g] = orders[g]
  /\ \A g \in Goal, b \in Budget : grants'[g][b] >= grants[g][b]

LEMMA GrantedKept ==
  ASSUME TypeOK, TypeOK', Grows, NEW q, q.goal \in Goal, Granted(q), q.cost \in Nat
  PROVE  Granted(q)'
<1>1. q.goal \in DOMAIN reservations' /\ q.budget \in DOMAIN budgets' /\ q.budget \in Budget
  BY DEF Granted, Grows, TypeOK
<1>2. /\ grants[q.goal][q.budget] \in Nat /\ grants'[q.goal][q.budget] \in Nat
      /\ grants'[q.goal][q.budget] >= grants[q.goal][q.budget]
  BY <1>1 DEF TypeOK, Grows
<1>3. grants[q.goal][q.budget] >= q.cost
  BY DEF Granted
<1>4. grants'[q.goal][q.budget] >= q.cost
  BY <1>2, <1>3
<1> QED
  BY <1>1, <1>4 DEF Granted

LEMMA AnswerKept ==
  ASSUME AInv, Grows, NEW d \in Caller, answer'[d] = answer[d]
  PROVE  AnswerHolds(d)'
<1>1. CASE answer[d] = NoAnswer
  BY <1>1 DEF AnswerHolds, NoAnswer
<1>2. CASE answer[d] # NoAnswer
  <2> PICK q \in Requests : q = answer[d].request
    BY <1>2 DEF AInv, TypeOK, Answer
  <2>1. q \in Requests /\ q.goal \in Goal /\ AnswerHolds(d)
    BY RequestTypes DEF AInv, AnswersHold
  <2>2. ASSUME answer[d].status = "canonical"
        PROVE  /\ goals'[q.goal] = "canonical"
               /\ NeedsFunds(q) =>
                    q.goal \in DOMAIN reservations' /\ reservations'[q.goal].status = "settled"
    BY <2>1, <2>2 DEF AnswerHolds, Grows
  <2>3. ASSUME answer[d].status = "escalated"
        PROVE  goals'[q.goal] = "escalated" \/ \E p \in packets' : p.goal = q.goal
    BY <2>1, <2>3 DEF AnswerHolds, Grows
  <2> QED
    BY <2>2, <2>3 DEF AnswerHolds, NeedsFunds
<1> QED
  BY <1>1, <1>2

LEMMA PreparedKept ==
  ASSUME AInv, TypeOK', Grows, NEW d \in Caller, call'[d] = call[d],
         At(d, "run") => goals'[call[d].request.goal] = goals[call[d].request.goal]
  PROVE  Prepared(d)'
<1>1. CASE At(d, "idle")
  BY <1>1 DEF Prepared, At
<1>2. CASE ~At(d, "idle")
  <2> DEFINE q == call[d].request
  <2>1. q.goal \in Goal /\ Prepared(d) /\ TypeOK
    BY <1>2, BusyRequest, PaymentTypes DEF AInv
  <2>2. call'[d].pc = call[d].pc /\ call'[d].request = q
    OBVIOUS
  <2>3. ASSUME At(d, "submit"), NeedsFunds(q)
        PROVE  /\ q.goal \in DOMAIN reservations' /\ q.budget \in DOMAIN budgets'
               /\ grants'[q.goal][q.budget] >= q.cost
    <3> PICK r \in Requests : r = q
      BY <1>2, <2>1, <2>3, BusyRequest DEF At
    <3>1. Granted(r) /\ r.cost \in Nat /\ r.goal \in Goal
      BY <2>1, <2>3, RequestTypes DEF Prepared
    <3>2. Granted(r)'
      BY <2>1, <3>1, GrantedKept
    <3> QED
      BY <3>2 DEF Granted
  <2> QED
    BY <2>1, <2>2, <2>3 DEF Prepared, Granted, Grows, At, NeedsFunds
<1> QED
  BY <1>1, <1>2

(* Rows that are not touched go on being on budgets there are.             *)
LEMMA RowsKept ==
  ASSUME AInv, Grows, UNCHANGED reservations,
         \A d \in Caller : At(d, "pay")' =>
           call'[d] = call[d] \/ call'[d].request.goal \in DOMAIN reservations
  PROVE  RowsMatch'
<1>1. \A d \in Caller : At(d, "pay")' => call'[d].request.goal \in DOMAIN reservations'
  BY DEF AInv, RowsMatch, At
<1> QED
  BY <1>1 DEF AInv, RowsMatch, Grows

(* What comes into the orchestrator has its funds.                         *)
LEMMA OrdersKept ==
  ASSUME AInv, TypeOK', Grows,
         \A g \in Goal :
           \/ orders'[g] = orders[g]
           \/ /\ orders'[g] \in Requests /\ orders'[g].goal = g
              /\ NeedsFunds(orders'[g]) => Granted(orders'[g])
  PROVE  OrdersGranted'
<1> SUFFICES ASSUME NEW g \in Goal, NeedsFunds(orders[g])'
             PROVE  (orders[g].goal = g /\ Granted(orders[g]))'
  BY DEF OrdersGranted
<1> DEFINE q == orders'[g]
<1>1. NeedsFunds(q)
  BY DEF NeedsFunds
<1>2. q \in Requests /\ q.cost \in Nat
  BY <1>1, RequestTypes DEF TypeOK, NeedsFunds, NoOrder
<1>3. q.goal = g /\ Granted(q)
  <2>1. CASE orders'[g] = orders[g]
    BY <1>1, <2>1 DEF AInv, OrdersGranted
  <2>2. CASE orders'[g] # orders[g]
    BY <1>1, <2>2
  <2> QED
    BY <2>1, <2>2
<1> HIDE DEF q
<1>4. /\ q.goal \in DOMAIN reservations' /\ q.budget \in DOMAIN budgets'
      /\ grants'[q.goal][q.budget] >= q.cost
  <2>1. TypeOK
    BY DEF AInv
  <2>2. /\ q.goal \in DOMAIN reservations' /\ q.budget \in DOMAIN budgets'
        /\ q.budget \in Budget
    BY <1>3, <2>1 DEF Granted, Grows, TypeOK
  <2>3. /\ grants[q.goal][q.budget] \in Nat /\ grants'[q.goal][q.budget] \in Nat
        /\ grants'[q.goal][q.budget] >= grants[q.goal][q.budget]
    BY <1>3, <2>1, <2>2 DEF TypeOK, Grows
  <2>4. grants[q.goal][q.budget] >= q.cost
    BY <1>3 DEF Granted
  <2> QED
    BY <1>2, <2>2, <2>3, <2>4
<1> QED
  BY <1>3, <1>4 DEF Granted, q

(* A step of one caller, whose goal has nobody else at work on it.         *)
LEMMA Carry ==
  ASSUME AInv, Grows, TypeOK', RowsMatch', NEW c \in Caller,
         \A d \in Caller : d # c => call'[d] = call[d] /\ answer'[d] = answer[d],
         \A d \in Caller : d # c /\ At(d, "run") =>
           /\ goals'[call[d].request.goal] = goals[call[d].request.goal]
           /\ At(c, "run")' => call'[c].request.goal # call[d].request.goal,
         OrdersGranted', Prepared(c)', AnswerHolds(c)'
  PROVE  AInv'
<1>1. AnswersHold'
  BY AnswerKept DEF AnswersHold
<1>2. \A d \in Caller : Prepared(d)'
  <2> SUFFICES ASSUME NEW d \in Caller PROVE Prepared(d)'
    OBVIOUS
  <2>1. CASE d = c
    BY <2>1
  <2>2. CASE d # c
    BY <2>2, PreparedKept
  <2> QED
    BY <2>1, <2>2
<1>3. OneRunner'
  <2> SUFFICES ASSUME NEW d \in Caller, NEW e \in Caller, d # e,
                      At(d, "run")', At(e, "run")'
               PROVE  call'[d].request.goal # call'[e].request.goal
    BY DEF OneRunner
  <2> QED
    BY DEF AInv, OneRunner, At
<1> QED
  BY <1>1, <1>2, <1>3 DEF AInv

(* A step that touches neither the store nor the goals.                    *)
LEMMA QuietStep ==
  ASSUME AInv, NEW c \in Caller, UNCHANGED <<store, goals, history>>,
         calls' \in Nat,
         call' \in [Caller -> CallState], answer' \in [Caller -> Answer],
         \A d \in Caller : d # c => call'[d] = call[d] /\ answer'[d] = answer[d],
         ~At(c, "run")',
         At(c, "pay")' => call'[c].request.goal \in DOMAIN reservations,
         Prepared(c)',
         answer'[c] = answer[c] \/ AnswerHolds(c)'
  PROVE  AInv'
<1>1. UNCHANGED <<budgets, reservations, conditions, packets, goals,
                  orders, grants, paid, overrun>>
  BY DEF store, history
<1>2. Grows
  <2>1. \A g \in Goal, b \in Budget : grants[g][b] \in Nat
    BY DEF AInv, TypeOK
  <2> QED
    BY <1>1, <2>1 DEF Grows
<1>3. TypeOK'
  BY <1>1 DEF AInv, TypeOK
<1>4. RowsMatch'
  BY <1>1, <1>2, RowsKept
<1>5. AnswerHolds(c)'
  BY <1>2, AnswerKept
<1>6. OrdersGranted'
  BY <1>1, <1>2, <1>3, OrdersKept
<1> QED
  BY <1>1, <1>2, <1>3, <1>4, <1>5, <1>6, Carry

(***************************************************************************)
(* The actions.                                                            *)
(***************************************************************************)
LEMMA CreateBudgetAnswers ==
  ASSUME AInv, NEW b \in Budget, NEW limit \in Limits, CreateBudget(b, limit)
  PROVE  AInv'
<1>1. /\ DOMAIN budgets' = DOMAIN budgets \union {b} /\ b \notin DOMAIN budgets
      /\ budgets'[b] = [limit |-> limit, spent |-> 0, reserved |-> 0]
      /\ \A x \in DOMAIN budgets : budgets'[x] = budgets[x]
      /\ UNCHANGED <<reservations, conditions, packets, goals, call, answer, calls>>
      /\ UNCHANGED <<orders, grants, paid, overrun>>
  BY DEF CreateBudget, history
<1>2. Grows
  <2>1. \A g \in Goal, x \in Budget : grants[g][x] \in Nat
    BY DEF AInv, TypeOK
  <2> QED
    BY <1>1, <2>1 DEF Grows
<1>3. TypeOK'
  <2>1. [limit |-> limit, spent |-> 0, reserved |-> 0] \in Account
    BY InstitutionAssumption DEF Account
  <2>2. budgets' \in [DOMAIN budgets' -> Account]
    BY <1>1, <2>1 DEF CreateBudget, AInv, TypeOK
  <2> QED
    BY <1>1, <2>2 DEF AInv, TypeOK
<1>4. RowsMatch'
  BY <1>1, <1>2, RowsKept
<1>5. AnswersHold' /\ OneRunner'
  BY <1>1 DEF AInv, AnswersHold, AnswerHolds, OneRunner, NeedsFunds, At
<1>6. \A c \in Caller : Prepared(c)'
  BY <1>1, <1>2, <1>3, PreparedKept
<1>7. OrdersGranted'
  BY <1>1, <1>2, <1>3, OrdersKept
<1> QED
  BY <1>3, <1>4, <1>5, <1>6, <1>7 DEF AInv

LEMMA AddStopConditionAnswers ==
  ASSUME AInv, NEW row \in Conditions, AddStopCondition(row)
  PROVE  AInv'
<1>1. UNCHANGED <<budgets, reservations, packets, goals, call, answer, history, calls>>
  BY DEF AddStopCondition
<1>2. conditions' \subseteq Condition
  BY InstitutionAssumption DEF AddStopCondition, AInv, TypeOK
<1>3. TypeOK'
  BY <1>1, <1>2 DEF AInv, TypeOK, history
<1>4. RowsMatch' /\ OrdersGranted' /\ AnswersHold' /\ OneRunner' /\ \A c \in Caller : Prepared(c)'
  BY <1>1 DEF AInv, RowsMatch, OrdersGranted, Granted, AnswersHold, AnswerHolds, OneRunner,
              Prepared, NeedsFunds, At, history
<1> QED
  BY <1>3, <1>4 DEF AInv

LEMMA EvaluateAnswers ==
  ASSUME AInv, NEW c \in Caller, NEW q \in Requests, Evaluate(c, q)
  PROVE  AInv'
<1> DEFINE pc == IF Stopped(q) THEN "stop" ELSE IF NeedsFunds(q) THEN "fund" ELSE "submit"
<1>1. /\ pc \in {"stop", "fund", "submit"} /\ pc \in Pc
      /\ (pc = "fund" => NeedsFunds(q)) /\ (pc = "submit" => ~NeedsFunds(q))
  BY DEF Pc
<1>2. call' = [call EXCEPT ![c] = [pc |-> pc, request |-> q]]
      /\ UNCHANGED <<store, goals, answer, history>> /\ calls' = calls + 1
  BY DEF Evaluate
<1> HIDE DEF pc
<1>3. /\ call' \in [Caller -> CallState]
      /\ call'[c].pc = pc /\ call'[c].request = q
      /\ \A d \in Caller : d # c => call'[d] = call[d]
  BY <1>1, <1>2, StartType DEF AInv
<1>4. Prepared(c)' /\ ~At(c, "run")' /\ ~At(c, "pay")'
  BY <1>1, <1>3 DEF Prepared, At, NeedsFunds
<1>5. calls' \in Nat /\ answer' \in [Caller -> Answer]
  BY <1>2 DEF AInv, TypeOK
<1> QED
  BY <1>2, <1>3, <1>4, <1>5, QuietStep

(* Whoever settles directly need not know anything about the goal.         *)
LEMMA CallSettleAnswers ==
  ASSUME AInv, NEW c \in Caller, NEW s \in Settlements, CallSettle(c, s)
  PROVE  AInv'
<1>1. call' = [call EXCEPT ![c] = [pc |-> "settle", request |-> s]]
      /\ UNCHANGED <<store, goals, answer, history>> /\ calls' = calls + 1
  BY DEF CallSettle
<1>2. /\ call' \in [Caller -> CallState]
      /\ call'[c].pc = "settle" /\ call'[c].request = s
      /\ \A d \in Caller : d # c => call'[d] = call[d]
  BY <1>1, StartType DEF AInv, Pc
<1>3. Prepared(c)' /\ ~At(c, "run")' /\ ~At(c, "pay")'
  BY <1>1, <1>2 DEF Prepared, At
<1>4. calls' \in Nat /\ answer' \in [Caller -> Answer]
  BY <1>1 DEF AInv, TypeOK
<1> QED
  BY <1>1, <1>2, <1>3, <1>4, QuietStep

LEMMA ReadBudgetAnswers ==
  ASSUME AInv, NEW c \in Caller, ReadBudget(c)
  PROVE  AInv'
<1> DEFINE pc == IF Funded(call[c].request) THEN "reserve" ELSE "refuse"
<1>1. /\ ~At(c, "idle") /\ At(c, "fund") /\ pc \in Pc /\ Goto(c, pc)
      /\ NeedsFunds(call[c].request)
      /\ UNCHANGED <<store, goals, answer, history, calls>>
      /\ pc \in {"reserve", "refuse"}
      /\ pc = "reserve" => call[c].request.budget \in DOMAIN budgets
  BY DEF ReadBudget, At, Pc, AInv, Prepared, Funded
<1> HIDE DEF pc
<1>2. /\ call' \in [Caller -> CallState]
      /\ call'[c].pc = pc /\ call'[c].request = call[c].request
      /\ \A d \in Caller : d # c => call'[d] = call[d]
  BY <1>1, GotoType DEF AInv, At
<1>3. Prepared(c)'
  BY <1>1, <1>2 DEF Prepared, At, NeedsFunds, store, history
<1> QED
  BY <1>1, <1>2, <1>3, QuietStep DEF AInv, TypeOK, At

(* The founder's packet is there before the answer is.                     *)
LEMMA PersistPacketAnswers ==
  ASSUME AInv, NEW c \in Caller, PersistPacket(c)
  PROVE  AInv'
<1>1. ~At(c, "idle") /\ Return(c, "escalated")
      /\ UNCHANGED <<budgets, reservations, conditions, goals, history, calls>>
  BY DEF PersistPacket, At
<1> PICK q \in Requests : q = call[c].request
  BY BusyRequest DEF PersistPacket, At, AInv
<1> DEFINE p == [goal |-> q.goal,
                 category |-> IF At(c, "stop") THEN "policy" ELSE "financial"]
<1>1a. packets' = packets \union {p}
  BY DEF PersistPacket
<1>1b. p \in [goal: Goal, category: {"policy", "financial"}] /\ p.goal = q.goal
  BY RequestTypes
<1> HIDE DEF p
<1>2. Grows
  <2>1. \A g \in Goal, b \in Budget : grants[g][b] \in Nat
    BY DEF AInv, TypeOK
  <2> QED
    BY <1>1, <1>1a, <2>1 DEF Grows, history
<1>3. /\ call' \in [Caller -> CallState]
      /\ answer' \in [Caller -> Answer]
      /\ call'[c] = Idle /\ \A d \in Caller : d # c => call'[d] = call[d]
  BY <1>1, ReturnType DEF AInv
<1>4. /\ answer'[c] = [status |-> "escalated", request |-> q]
      /\ \A d \in Caller : d # c => answer'[d] = answer[d]
  BY <1>1, ReturnType DEF AInv
<1>5. TypeOK'
  BY <1>1, <1>1a, <1>1b, <1>3 DEF AInv, TypeOK, history
<1>6. RowsMatch'
  BY <1>1, <1>2, <1>3, RowsKept DEF At, Idle
<1>7. Prepared(c)' /\ ~At(c, "run")'
  BY <1>3 DEF Prepared, At, Idle
<1>8. AnswerHolds(c)'
  BY <1>1a, <1>1b, <1>4 DEF AnswerHolds
<1>9. OrdersGranted'
  BY <1>1, <1>2, <1>5, OrdersKept DEF history
<1> QED
  BY <1>1, <1>2, <1>3, <1>4, <1>5, <1>6, <1>7, <1>8, <1>9, Carry

(* An exception and a crash alike drop the call; an answer given before    *)
(* still holds.                                                            *)
LEMMA DropAnswers ==
  ASSUME AInv, NEW c \in Caller, SubmitAgain(c) \/ Crash(c)
  PROVE  AInv'
<1>1. call' = [call EXCEPT ![c] = Idle] /\ UNCHANGED <<store, goals, answer, history, calls>>
  BY DEF SubmitAgain, Crash
<1>2. /\ call' \in [Caller -> CallState]
      /\ call'[c] = Idle /\ \A d \in Caller : d # c => call'[d] = call[d]
  BY <1>1, IdleType DEF AInv
<1>3. Prepared(c)' /\ ~At(c, "run")' /\ ~At(c, "pay")'
  BY <1>2 DEF Prepared, At, Idle
<1> QED
  BY <1>1, <1>2, <1>3, QuietStep DEF AInv, TypeOK

(* The caller whose submit() stores the goal becomes its only runner.      *)
LEMMA SubmitAnswers ==
  ASSUME AInv, NEW c \in Caller, Submit(c)
  PROVE  AInv'
<1>1. /\ ~At(c, "idle") /\ At(c, "submit") /\ Goto(c, "run")
      /\ UNCHANGED <<store, answer, grants, paid, overrun, calls>>
  BY DEF Submit, At
<1> PICK q \in Requests : q = call[c].request
  BY <1>1, BusyRequest DEF AInv, At
<1>2. q.goal \in Goal /\ (NeedsFunds(q) => Granted(q))
  BY <1>1, RequestTypes DEF AInv, Prepared
<1>3. /\ goals[q.goal] = "none" /\ goals' = [goals EXCEPT ![q.goal] = "planned"]
      /\ orders' = [orders EXCEPT ![q.goal] = q]
  BY DEF Submit
<1>4. /\ call' \in [Caller -> CallState]
      /\ call'[c].pc = "run" /\ call'[c].request = q
      /\ \A d \in Caller : d # c => call'[d] = call[d]
  BY <1>1, GotoType DEF AInv, Pc, At
<1>5. /\ goals' \in [Goal -> {"none", "planned", "canonical", "escalated", "failed"}]
      /\ goals'[q.goal] = "planned"
      /\ \A g \in Goal : g # q.goal => goals'[g] = goals[g]
      /\ orders' \in [Goal -> Requests \union {NoOrder}] /\ orders'[q.goal] = q
      /\ \A g \in Goal : g # q.goal => orders'[g] = orders[g]
  BY <1>2, <1>3 DEF AInv, TypeOK
<1>6. UNCHANGED <<budgets, reservations, conditions, packets, grants>>
  BY <1>1 DEF store
<1>7. Grows
  <2>1. \A g \in Goal, b \in Budget : grants[g][b] \in Nat
    BY DEF AInv, TypeOK
  <2> QED
    BY <1>3, <1>5, <1>6, <2>1 DEF Grows
<1>8. TypeOK'
  BY <1>1, <1>4, <1>5, <1>6 DEF AInv, TypeOK
<1>9. RowsMatch'
  BY <1>4, <1>6, <1>7, RowsKept DEF At
<1>10. Prepared(c)'
  BY <1>4, <1>5 DEF Prepared, At
<1>11. AnswerHolds(c)'
  BY <1>1, <1>7, AnswerKept
<1>12. \A d \in Caller : d # c /\ At(d, "run") => call[d].request.goal # q.goal
  BY <1>3 DEF AInv, Prepared
<1>13. \A d \in Caller : At(d, "run") => call[d].request.goal \in Goal
  BY BusyRequest, PaymentTypes DEF AInv, At
<1>14. \A d \in Caller : d # c /\ At(d, "run") =>
         /\ goals'[call[d].request.goal] = goals[call[d].request.goal]
         /\ At(c, "run")' => call'[c].request.goal # call[d].request.goal
  BY <1>4, <1>5, <1>12, <1>13
<1>15. OrdersGranted'
  BY <1>2, <1>5, <1>7, <1>8, OrdersKept
<1> QED
  BY <1>1, <1>4, <1>7, <1>8, <1>9, <1>10, <1>11, <1>14, <1>15, Carry

(* Only the goal's runner decides it.                                      *)
LEMMA RunAnswers ==
  ASSUME AInv, NEW c \in Caller, NEW status \in {"canonical", "escalated", "failed"},
         Run(c, status)
  PROVE  AInv'
<1>1. /\ ~At(c, "idle") /\ At(c, "run") /\ UNCHANGED <<store, history, calls>>
  BY DEF Run, At
<1> PICK q \in Requests : q = call[c].request
  BY <1>1, BusyRequest DEF AInv, At
<1>2. q.goal \in Goal /\ goals[q.goal] = "planned" /\ orders[q.goal] = q
  BY <1>1, RequestTypes DEF AInv, Prepared
<1>3. /\ goals' \in [Goal -> {"none", "planned", "canonical", "escalated", "failed"}]
      /\ goals'[q.goal] = status
      /\ \A g \in Goal : g # q.goal => goals'[g] = goals[g]
  BY <1>2 DEF Run, AInv, TypeOK
<1>4. UNCHANGED <<budgets, reservations, conditions, packets, orders, grants, paid, overrun>>
  BY <1>1 DEF store, history
<1>5. Grows
  <2>1. \A g \in Goal, b \in Budget : grants[g][b] \in Nat
    BY DEF AInv, TypeOK
  <2> QED
    BY <1>2, <1>3, <1>4, <2>1 DEF Grows
<1>6. /\ call' \in [Caller -> CallState]
      /\ answer' \in [Caller -> Answer]
      /\ \A d \in Caller : d # c => call'[d] = call[d] /\ answer'[d] = answer[d]
      /\ call'[c].pc \in {"idle", "settle"}
      /\ Prepared(c)' /\ AnswerHolds(c)'
  <2>1. CASE status = "canonical"
    <3>1. Goto(c, "settle") /\ UNCHANGED answer
      BY <2>1 DEF Run
    <3>2. /\ call' \in [Caller -> CallState]
          /\ call'[c].pc = "settle" /\ call'[c].request = q
          /\ \A d \in Caller : d # c => call'[d] = call[d]
      BY <1>1, <3>1, GotoType DEF AInv, Pc, At
    <3>3. Prepared(c)'
      BY <1>2, <1>3, <1>4, <2>1, <3>2 DEF Prepared, At
    <3>4. AnswerHolds(c)'
      BY <1>5, <3>1, AnswerKept
    <3> QED
      BY <3>1, <3>2, <3>3, <3>4 DEF AInv, TypeOK
  <2>2. CASE status # "canonical"
    <3>1. Return(c, status)
      BY <2>2 DEF Run
    <3>2. /\ call' \in [Caller -> CallState]
          /\ answer' \in [Caller -> Answer]
          /\ call'[c] = Idle /\ \A d \in Caller : d # c => call'[d] = call[d]
      BY <1>1, <3>1, ReturnType DEF AInv
    <3>3. /\ answer'[c] = [status |-> status, request |-> q]
          /\ \A d \in Caller : d # c => answer'[d] = answer[d]
      BY <1>1, <3>1, ReturnType DEF AInv
    <3>4. Prepared(c)' /\ call'[c].pc = "idle"
      BY <3>2 DEF Prepared, At, Idle
    <3>5. AnswerHolds(c)'
      BY <1>3, <2>2, <3>3 DEF AnswerHolds
    <3> QED
      BY <3>2, <3>3, <3>4, <3>5
  <2> QED
    BY <2>1, <2>2
<1>7. TypeOK'
  BY <1>1, <1>3, <1>4, <1>6 DEF AInv, TypeOK
<1>8. RowsMatch' /\ ~At(c, "run")'
  BY <1>4, <1>5, <1>6, RowsKept DEF At
<1>9. \A d \in Caller : d # c /\ At(d, "run") =>
        call[d].request.goal # q.goal /\ call[d].request.goal \in Goal
  BY <1>1, BusyRequest, PaymentTypes DEF AInv, OneRunner, At
<1>10. \A d \in Caller : d # c /\ At(d, "run") =>
         goals'[call[d].request.goal] = goals[call[d].request.goal]
  BY <1>3, <1>9
<1>11. OrdersGranted'
  BY <1>4, <1>5, <1>7, OrdersKept
<1> QED
  BY <1>5, <1>6, <1>7, <1>8, <1>10, <1>11, Carry

(* settle() finds nothing open: either nothing was reserved or the         *)
(* reservation is settled.  submit_and_run then answers.                   *)
LEMMA ReadReservationAnswers ==
  ASSUME AInv, NEW c \in Caller, ReadReservation(c)
  PROVE  AInv'
<1>1. /\ ~At(c, "idle") /\ At(c, "settle") /\ TypeOK
      /\ UNCHANGED <<store, goals, history, calls>> /\ calls' \in Nat
      /\ UNCHANGED <<budgets, reservations, orders>>
  BY DEF ReadReservation, At, AInv, TypeOK, store, history
<1> PICK q \in Requests \union Settlements : q = call[c].request
  BY <1>1, BusyRequest
<1>2. q.goal \in Goal
  BY PaymentTypes
<1>3. q \notin Settlements => goals[q.goal] = "canonical" /\ orders[q.goal] = q
  BY <1>1 DEF AInv, Prepared, At
<1>4. CASE Open(q.goal)
  <2>1. Goto(c, "pay") /\ UNCHANGED answer
    BY <1>4 DEF ReadReservation
  <2>2. /\ call' \in [Caller -> CallState]
        /\ call'[c].pc = "pay" /\ call'[c].request = q
        /\ \A d \in Caller : d # c => call'[d] = call[d]
    BY <1>1, <2>1, GotoType DEF Pc
  <2>3. Prepared(c)' /\ ~At(c, "run")' /\ q.goal \in DOMAIN reservations
    BY <1>1, <1>3, <1>4, <2>2 DEF Prepared, At, Open
  <2>4. answer' \in [Caller -> Answer]
    BY <1>1, <2>1 DEF TypeOK
  <2> QED
    BY <1>1, <2>1, <2>2, <2>3, <2>4, QuietStep
<1>5. CASE ~Open(q.goal)
  <2>1. /\ call' \in [Caller -> CallState] /\ answer' \in [Caller -> Answer]
        /\ call'[c] = Idle
        /\ \A d \in Caller : d # c => call'[d] = call[d] /\ answer'[d] = answer[d]
        /\ \/ answer' = answer
           \/ /\ q \in Requests /\ q \notin Settlements
              /\ answer'[c] = [status |-> "canonical", request |-> q]
    BY <1>1, <1>5, SettledType DEF ReadReservation
  <2>2. q \notin Settlements /\ NeedsFunds(q) =>
          q.goal \in DOMAIN reservations /\ reservations[q.goal].status = "settled"
    <3> SUFFICES ASSUME q \notin Settlements, NeedsFunds(q)
                 PROVE  q.goal \in DOMAIN reservations /\ reservations[q.goal].status = "settled"
      OBVIOUS
    <3>1. q.goal \in DOMAIN reservations
      BY <1>2, <1>3 DEF AInv, OrdersGranted, Granted
    <3>2. reservations[q.goal].status \in {"reserved", "settled"}
      BY <1>1, <3>1 DEF TypeOK
    <3> QED
      BY <1>5, <3>1, <3>2 DEF Open
  <2>3. answer'[c] = answer[c] \/ AnswerHolds(c)'
    BY <1>1, <1>3, <2>1, <2>2 DEF AnswerHolds, NeedsFunds
  <2>4. Prepared(c)' /\ ~At(c, "run")' /\ ~At(c, "pay")'
    BY <2>1 DEF Prepared, At, Idle
  <2> QED
    BY <1>1, <2>1, <2>3, <2>4, QuietStep
<1> QED
  BY <1>4, <1>5

(* The goal has a row before submit() stores it, its own or an earlier     *)
(* call's, and its cost is held on its budget, whichever row that is.      *)
LEMMA ReserveAnswers ==
  ASSUME AInv, NEW c \in Caller, Reserve(c)
  PROVE  AInv'
<1>1. ~At(c, "idle") /\ At(c, "reserve")
  BY DEF Reserve, At
<1> PICK q \in Requests : q = call[c].request
  BY <1>1, BusyRequest DEF AInv, At
<1>2. /\ budgets' = [budgets EXCEPT ![q.budget].reserved = @ + q.cost]
      /\ reservations' = Insert(q)
      /\ grants' = [grants EXCEPT ![q.goal][q.budget] = @ + q.cost]
      /\ Goto(c, "submit")
      /\ UNCHANGED <<conditions, packets, goals, answer, orders, paid, overrun, calls>>
  BY DEF Reserve
<1>3. q.goal \in Goal /\ q.cost \in Nat /\ q.budget \in DOMAIN budgets /\ q.budget \in Budget
  BY <1>1, RequestTypes DEF AInv, Prepared, TypeOK
<1>4. /\ call' \in [Caller -> CallState]
      /\ call'[c].pc = "submit" /\ call'[c].request = q
      /\ \A d \in Caller : d # c => call'[d] = call[d]
  BY <1>1, <1>2, GotoType DEF AInv, Pc, At
<1>5. DOMAIN budgets' = DOMAIN budgets /\ budgets' \in [DOMAIN budgets' -> Account]
  <2>1. budgets[q.budget] \in Account /\ budgets \in [DOMAIN budgets -> Account]
    BY <1>3 DEF AInv, TypeOK
  <2>2. [budgets[q.budget] EXCEPT !.reserved = @ + q.cost] \in Account
    BY <1>3, <2>1 DEF Account
  <2> QED
    BY <1>2, <2>1, <2>2
<1>6. /\ DOMAIN reservations' = DOMAIN reservations \union {q.goal}
      /\ \A g \in DOMAIN reservations : reservations'[g] = reservations[g]
      /\ q.goal \notin DOMAIN reservations =>
           reservations'[q.goal] =
             [budget |-> q.budget, amount |-> q.cost, status |-> "reserved"]
  BY <1>2 DEF Insert
<1>7. reservations' \in [DOMAIN reservations' ->
        [budget: Budget, amount: Nat, status: {"reserved", "settled"}]]
  <2>1. [budget |-> q.budget, amount |-> q.cost, status |-> "reserved"]
          \in [budget: Budget, amount: Nat, status: {"reserved", "settled"}]
    BY <1>3
  <2>2. reservations' = [g \in DOMAIN reservations' |-> reservations'[g]]
    BY <1>2, <1>6 DEF Insert
  <2> QED
    BY <1>6, <2>1, <2>2 DEF AInv, TypeOK
<1>7a. /\ grants' \in [Goal -> [Budget -> Nat]]
       /\ \A g \in Goal, b \in Budget : grants'[g][b] >= grants[g][b]
       /\ grants'[q.goal][q.budget] >= q.cost
  <2> DEFINE row == [grants[q.goal] EXCEPT ![q.budget] = @ + q.cost]
  <2>1. grants \in [Goal -> [Budget -> Nat]]
    BY DEF AInv, TypeOK
  <2>2. \A g \in Goal, b \in Budget : grants[g][b] \in Nat
    BY <2>1
  <2>3. /\ row \in [Budget -> Nat]
        /\ row[q.budget] = grants[q.goal][q.budget] + q.cost
        /\ \A b \in Budget : b # q.budget => row[b] = grants[q.goal][b]
    BY <1>3, <2>1, <2>2
  <2>4. grants' = [grants EXCEPT ![q.goal] = row]
    BY <1>2
  <2> HIDE DEF row
  <2>5. /\ grants' \in [Goal -> [Budget -> Nat]] /\ grants'[q.goal] = row
        /\ \A g \in Goal : g # q.goal => grants'[g] = grants[g]
    BY <1>3, <2>1, <2>3, <2>4
  <2>6. row[q.budget] >= q.cost /\ row[q.budget] >= grants[q.goal][q.budget]
    BY <1>3, <2>2, <2>3
  <2>7. \A b \in Budget : row[b] >= grants[q.goal][b]
    BY <2>2, <2>3, <2>6
  <2>8. ASSUME NEW g \in Goal, NEW b \in Budget PROVE grants'[g][b] >= grants[g][b]
    BY <2>2, <2>5, <2>7
  <2> QED
    BY <2>5, <2>6, <2>8
<1>8. TypeOK'
  <2>2. DOMAIN budgets' \subseteq Budget /\ DOMAIN reservations' \subseteq Goal
    BY <1>3, <1>5, <1>6 DEF AInv, TypeOK
  <2> QED
    BY <1>2, <1>4, <1>5, <1>7, <1>7a, <2>2 DEF AInv, TypeOK
<1>9. Grows
  BY <1>2, <1>5, <1>6, <1>7a DEF Grows
<1>10. RowsMatch'
  <2>1. \A g \in DOMAIN reservations' : reservations'[g].budget \in DOMAIN budgets'
    BY <1>3, <1>5, <1>6 DEF AInv, RowsMatch
  <2>2. \A d \in Caller : At(d, "pay")' => call'[d].request.goal \in DOMAIN reservations'
    BY <1>4, <1>6 DEF AInv, RowsMatch, At
  <2> QED
    BY <2>1, <2>2 DEF RowsMatch
<1>11. Prepared(c)' /\ ~At(c, "run")'
  BY <1>3, <1>4, <1>5, <1>6, <1>7a DEF Prepared, Granted, At
<1>12. AnswerHolds(c)'
  BY <1>2, <1>9, AnswerKept
<1>13. OrdersGranted'
  BY <1>2, <1>8, <1>9, OrdersKept
<1> QED
  BY <1>2, <1>4, <1>8, <1>9, <1>10, <1>11, <1>12, <1>13, Carry

(* The reservation is settled before the answer is given.                  *)
LEMMA PayAnswers ==
  ASSUME AInv, NEW c \in Caller, Pay(c)
  PROVE  AInv'
<1>1. ~At(c, "idle") /\ At(c, "pay") /\ TypeOK
  BY DEF Pay, At, AInv
<1> PICK q \in Requests \union Settlements : q = call[c].request
  BY <1>1, BusyRequest
<1>2. /\ q.goal \in DOMAIN reservations /\ q.goal \in Goal /\ q.actual \in Nat
      /\ q \notin Settlements => goals[q.goal] = "canonical"
  BY <1>1, PaymentTypes DEF AInv, RowsMatch, Prepared, At
<1> PICK row \in [budget: Budget, amount: Nat, status: {"reserved", "settled"}] :
      row = reservations[q.goal]
  BY <1>2 DEF AInv, TypeOK
<1>3. /\ budgets' = [budgets EXCEPT ![row.budget].reserved = @ - row.amount,
                                    ![row.budget].spent = @ + q.actual]
      /\ reservations' = [reservations EXCEPT ![q.goal].status = "settled"]
      /\ paid' = [paid EXCEPT ![q.goal] = Append(@, q.actual)]
      /\ Settled(c)
      /\ overrun' = [overrun EXCEPT ![row.budget] = @ + Excess(q, row)]
      /\ UNCHANGED <<conditions, packets, goals, orders, grants, calls>>
  BY DEF Pay
<1>4. /\ row.budget \in DOMAIN budgets /\ row.budget \in Budget
      /\ row.amount \in Nat /\ q.actual \in Nat /\ Excess(q, row) \in Nat
  BY <1>2 DEF AInv, RowsMatch, Excess
<1>5. /\ call' \in [Caller -> CallState] /\ answer' \in [Caller -> Answer]
      /\ call'[c] = Idle
      /\ \A d \in Caller : d # c => call'[d] = call[d] /\ answer'[d] = answer[d]
  BY <1>1, <1>3, SettledType
<1>6. \/ answer' = answer
      \/ /\ q \notin Settlements
         /\ answer'[c] = [status |-> "canonical", request |-> q]
  BY <1>1, <1>3, SettledType
<1>7. DOMAIN budgets' = DOMAIN budgets /\ budgets' \in [DOMAIN budgets' -> Account]
  <2>1. budgets[row.budget] \in Account /\ budgets \in [DOMAIN budgets -> Account]
    BY <1>4 DEF AInv, TypeOK
  <2> DEFINE new == [budgets[row.budget] EXCEPT !.reserved = @ - row.amount,
                                                !.spent = @ + q.actual]
  <2>2. new \in Account
    <3>1. budgets[row.budget].reserved - row.amount \in Int
          /\ budgets[row.budget].spent + q.actual \in Nat
      BY <1>4, <2>1 DEF Account
    <3> QED
      BY <2>1, <3>1 DEF Account
  <2>3. DOMAIN budgets' = DOMAIN budgets /\ budgets'[row.budget] = new
    BY <1>3, <1>4, <2>1 DEF Account
  <2>4. \A b \in DOMAIN budgets : b # row.budget => budgets'[b] = budgets[b]
    BY <1>3
  <2>5. budgets' = [b \in DOMAIN budgets' |-> budgets'[b]]
    BY <1>3
  <2> HIDE DEF new
  <2> QED
    BY <2>1, <2>2, <2>3, <2>4, <2>5
<1>8. /\ DOMAIN reservations' = DOMAIN reservations
      /\ reservations'[q.goal].status = "settled"
      /\ \A g \in DOMAIN reservations :
           /\ reservations'[g].budget = reservations[g].budget
           /\ reservations'[g].amount = reservations[g].amount
           /\ reservations[g].status = "settled" => reservations'[g].status = "settled"
      /\ reservations' \in [DOMAIN reservations' ->
           [budget: Budget, amount: Nat, status: {"reserved", "settled"}]]
  BY <1>2, <1>3 DEF AInv, TypeOK
<1>9. TypeOK'
  <2>1. overrun[row.budget] + Excess(q, row) \in Nat
    BY <1>4 DEF AInv, TypeOK
  <2>2. overrun' \in [Budget -> Nat]
    BY <1>3, <1>4, <2>1 DEF AInv, TypeOK
  <2>3. paid' \in [Goal -> Seq(Nat)]
    <3>1. paid \in [Goal -> Seq(Nat)] /\ paid[q.goal] \in Seq(Nat)
      BY <1>1, <1>2 DEF TypeOK
    <3>2. Append(paid[q.goal], q.actual) \in Seq(Nat)
      BY <1>2, <3>1
    <3> QED
      BY <1>3, <3>1, <3>2
  <2> QED
    BY <1>3, <1>5, <1>7, <1>8, <2>2, <2>3 DEF AInv, TypeOK
<1>10. Grows
  <2>1. \A g \in Goal, b \in Budget : grants[g][b] \in Nat
    BY <1>1 DEF TypeOK
  <2>2. \A g \in Goal, b \in Budget : grants'[g][b] >= grants[g][b]
    <3>1. grants' = grants
      BY DEF Pay
    <3> QED
      BY <2>1, <3>1
  <2>3. DOMAIN budgets \subseteq DOMAIN budgets'
    BY <1>7
  <2>4. \A g \in DOMAIN reservations :
          /\ g \in DOMAIN reservations'
          /\ reservations[g].status = "settled" => reservations'[g].status = "settled"
    BY <1>8
  <2> QED
    BY <1>3, <2>2, <2>3, <2>4 DEF Grows
<1>11. RowsMatch'
  BY <1>5, <1>7, <1>8 DEF AInv, RowsMatch, At, Idle
<1>12. Prepared(c)' /\ ~At(c, "run")'
  BY <1>5 DEF Prepared, At, Idle
<1>13. AnswerHolds(c)'
  <2>1. CASE answer' = answer
    BY <1>10, <2>1, AnswerKept
  <2>2. CASE answer' # answer
    <3>1. answer'[c].request = q /\ answer'[c].status = "canonical"
      BY <1>6, <2>2
    <3>2. goals'[q.goal] = "canonical"
      BY <1>2, <1>3, <1>6, <2>2
    <3> QED
      BY <1>2, <1>8, <3>1, <3>2 DEF AnswerHolds
  <2> QED
    BY <2>1, <2>2
<1>14. OrdersGranted'
  BY <1>3, <1>9, <1>10, OrdersKept
<1> QED
  BY <1>3, <1>5, <1>9, <1>10, <1>11, <1>12, <1>13, <1>14, Carry

LEMMA NextAnswers ==
  ASSUME AInv, [Next]_vars
  PROVE  AInv'
<1>1. CASE UNCHANGED vars
  <2>1. /\ UNCHANGED <<budgets, reservations, conditions, packets, goals, call, answer>>
        /\ UNCHANGED <<orders, grants, paid, overrun, calls>>
    BY <1>1 DEF vars, store, history
  <2>2. TypeOK' /\ RowsMatch' /\ OneRunner'
    BY <2>1 DEF AInv, TypeOK, RowsMatch, OneRunner, At
  <2>3. OrdersGranted' /\ AnswersHold' /\ \A c \in Caller : Prepared(c)'
    BY <2>1 DEF AInv, OrdersGranted, Granted, AnswersHold, AnswerHolds, Prepared,
                NeedsFunds, At
  <2> QED
    BY <2>2, <2>3 DEF AInv
<1>2. ASSUME NEW b \in Budget, NEW limit \in Limits, CreateBudget(b, limit) PROVE AInv'
  BY <1>2, CreateBudgetAnswers
<1>3. ASSUME NEW row \in Conditions, AddStopCondition(row) PROVE AInv'
  BY <1>3, AddStopConditionAnswers
<1>4. ASSUME NEW c \in Caller, Step(c) PROVE AInv'
  <2>1. ASSUME NEW q \in Requests, Evaluate(c, q) PROVE AInv'
    BY <2>1, EvaluateAnswers
  <2>2. ASSUME NEW s \in Settlements, CallSettle(c, s) PROVE AInv'
    BY <2>2, CallSettleAnswers
  <2>3. CASE ReadBudget(c) \/ Reserve(c) \/ PersistPacket(c)
    BY <2>3, ReadBudgetAnswers, ReserveAnswers, PersistPacketAnswers
  <2>4. CASE Submit(c) \/ SubmitAgain(c) \/ Crash(c)
    BY <2>4, SubmitAnswers, DropAnswers
  <2>5. ASSUME NEW status \in {"canonical", "escalated", "failed"}, Run(c, status)
        PROVE  AInv'
    BY <2>5, RunAnswers
  <2>6. CASE ReadReservation(c) \/ Pay(c)
    BY <2>6, ReadReservationAnswers, PayAnswers
  <2> QED
    BY <1>4, <2>1, <2>2, <2>3, <2>4, <2>5, <2>6 DEF Step
<1> QED
  BY <1>1, <1>2, <1>3, <1>4 DEF Next

LEMMA InitAnswers ==
  ASSUME Init
  PROVE  AInv
<1>1. TypeOK
  BY InitInv DEF BInv
<1>2. RowsMatch /\ OrdersGranted /\ OneRunner
  BY DEF Init, RowsMatch, OrdersGranted, NeedsFunds, NoOrder, OneRunner, At, Idle
<1>3. AnswersHold /\ \A c \in Caller : Prepared(c)
  BY DEF Init, AnswersHold, AnswerHolds, NoAnswer, Prepared, At, Idle
<1> QED
  BY <1>1, <1>2, <1>3 DEF AInv

LEMMA AnswersInvariant == Spec => []AInv
<1>1. Init => AInv
  BY InitAnswers
<1>2. AInv /\ [Next]_vars => AInv'
  BY NextAnswers
<1> QED
  BY <1>1, <1>2, PTL DEF Spec

(* A budget holds the costs of its goals at work: each of them was granted *)
(* its cost, the settled ones are others, and what those rows took back    *)
(* was granted for them.                                                   *)
LEMMA WorkIsCovered ==
  ASSUME LedgerInv, BudgetSums, OrdersGranted
  PROVE  WorkIsFunded
<1>1. TypeOK /\ IsFiniteSet(DOMAIN reservations) /\ RowsGranted /\ RowsMatch
  BY DEF LedgerInv, BInv
<1>2. \A g \in Goal : NeedsFunds(orders[g]) =>
        /\ g \in DOMAIN reservations /\ orders[g].budget \in DOMAIN budgets
        /\ grants[g][orders[g].budget] >= orders[g].cost /\ orders[g].cost \in Nat
  <2> SUFFICES ASSUME NEW g \in Goal, NeedsFunds(orders[g])
               PROVE  /\ g \in DOMAIN reservations /\ orders[g].budget \in DOMAIN budgets
                      /\ grants[g][orders[g].budget] >= orders[g].cost
                      /\ orders[g].cost \in Nat
    OBVIOUS
  <2>1. orders[g] \in Requests
    BY <1>1 DEF TypeOK, NeedsFunds, NoOrder
  <2> QED
    BY <2>1, RequestTypes DEF OrdersGranted, Granted
<1>3. ASSUME NEW b \in DOMAIN budgets
      PROVE  budgets[b].reserved >= MapThenSumSet(CostOfWork, WorkOf(b))
  <2> DEFINE U == DOMAIN reservations
             S == SettledOf(b)
             P == WorkOf(b)
             f == GrantsOn(b)
  <2>1. b \in Budget /\ U \subseteq Goal
    BY <1>1 DEF TypeOK
  <2>2. S \in SUBSET U /\ P \in SUBSET U /\ S \intersect P = {}
    BY <1>1, <1>2 DEF SettledOf, WorkOf, Open, TypeOK
  <2>3. \A g \in U : f[g] = grants[g][b] /\ f[g] \in Nat
    BY <1>1, <2>1 DEF GrantsOn, TypeOK
  <2>4. \A g \in S : Amounts[g] \in Int /\ Amounts[g] <= f[g]
    <3> SUFFICES ASSUME NEW g \in S PROVE Amounts[g] \in Int /\ Amounts[g] <= f[g]
      OBVIOUS
    <3>1. /\ g \in U /\ g \in Goal /\ reservations[g].budget = b
          /\ reservations[g].amount \in Nat
      BY <1>1, <2>1, <2>2 DEF SettledOf, TypeOK
    <3>2. grants[g][b] >= reservations[g].amount
      BY <1>1, <3>1 DEF RowsGranted
    <3>3. Amounts[g] = reservations[g].amount
      BY <3>1 DEF Amounts, CostOf
    <3> HIDE DEF f
    <3> QED
      BY <2>3, <3>1, <3>2, <3>3
  <2>5. \A g \in P : WorkCosts[g] \in Int /\ WorkCosts[g] <= f[g]
    <3> SUFFICES ASSUME NEW g \in P PROVE WorkCosts[g] \in Int /\ WorkCosts[g] <= f[g]
      OBVIOUS
    <3>1. g \in U /\ NeedsFunds(orders[g]) /\ orders[g].budget = b /\ g \in Goal
      BY <2>2 DEF WorkOf
    <3>2. grants[g][b] >= orders[g].cost /\ orders[g].cost \in Nat
      BY <1>2, <3>1
    <3>3. WorkCosts[g] = orders[g].cost
      BY <3>1 DEF WorkCosts, CostOfWork
    <3> HIDE DEF f
    <3> QED
      BY <2>3, <3>1, <3>2, <3>3
  <2>6. IsFiniteSet(P) /\ IsFiniteSet(S)
    BY <1>1, <2>2, FS_Subset
  <2> HIDE DEF f, S, P
  <2>7. SetSum(Amounts, S) + SetSum(WorkCosts, P) <= SetSum(f, U)
    BY <1>1, <2>2, <2>3, <2>4, <2>5, SetSumCovers
  <2>8. /\ SetSum(f, U) \in Int /\ SetSum(Amounts, S) \in Int
        /\ SetSum(WorkCosts, P) \in Int
    <3>1. \A g \in U : f[g] \in Int
      BY <2>3
    <3> QED
      BY <1>1, <2>4, <2>5, <2>6, <3>1, SetSumInt
  <2>9. budgets[b].reserved = SetSum(f, U) - SetSum(Amounts, S)
    BY DEF BudgetSums, f, S
  <2>10. MapThenSumSet(CostOfWork, P) = SetSum(WorkCosts, P)
    BY <2>2, <2>6, WorkSum
  <2>11. budgets[b].reserved >= MapThenSumSet(CostOfWork, P)
    BY <2>7, <2>8, <2>9, <2>10
  <2> QED
    BY <2>11 DEF P
<1> QED
  BY <1>2, <1>3 DEF WorkIsFunded

(***************************************************************************)
(* Of a goal that needs funds, the budget it was submitted with holds the  *)
(* cost it was submitted with until it is settled, for all goals of that   *)
(* budget together, while accesses to one budget do not overlap: whatever  *)
(* requests come for a goal, with whatever costs and budgets, before and   *)
(* after it is submitted, whichever of them crash, and whoever settles it. *)
(* evaluate() of governance.py raises the total before submit_and_run      *)
(* calls submit(), also when the goal's row is an earlier request's.       *)
(***************************************************************************)
THEOREM FundingKept ==
  ASSUME Serialized
  PROVE  Spec => []WorkIsFunded
<1>1. AInv => OrdersGranted
  BY DEF AInv
<1>2. LedgerInv /\ BudgetSums /\ OrdersGranted => WorkIsFunded
  BY WorkIsCovered
<1> QED
  BY <1>1, <1>2, LedgerStep, AnswersInvariant, PTL

(***************************************************************************)
(* What submit_and_run of governance.py answered holds from then on: the   *)
(* goal is canonical and settled, or the founder has a packet or an        *)
(* escalated goal, whatever other callers, repeated calls and crashes do.  *)
(***************************************************************************)
THEOREM AnswersKept == Spec => []AnswersHold
<1>1. AInv => AnswersHold
  BY DEF AInv
<1> QED
  BY <1>1, AnswersInvariant, PTL

(***************************************************************************)
(* Overlapping accesses: how far a budget is exceeded at most.             *)
(***************************************************************************)
LEMMA Multiples ==
  ASSUME NEW m \in Nat, NEW n \in Nat, n <= m, NEW most \in Nat
  PROVE  /\ n * most \in Nat /\ m * most \in Nat /\ (m + 1) * most = m * most + most
         /\ n * most <= m * most
<1>1. (m + 1) * most = m * most + most /\ n * most \in Nat /\ m * most \in Nat
  OBVIOUS
<1>2. (m - n) * most \in Nat /\ (m - n) * most = m * most - n * most
  OBVIOUS
<1> QED
  BY <1>1, <1>2

(* The allowance grows by one request with every caller that stops waiting.*)
LEMMA Allowances ==
  ASSUME NEW most \in Nat, IsFiniteSet(Caller), NEW W \in SUBSET Caller
  PROVE  /\ Allowance(W, most) \in Nat
         /\ \A c \in Caller \ W :
              Allowance(W \union {c}, most) + most = Allowance(W, most)
         /\ \A c \in W : Allowance(W \ {c}, most) = Allowance(W, most) + most
         /\ W # {} => Allowance(W, most) <= (Cardinality(Caller) - 1) * most
<1>1. /\ IsFiniteSet(W) /\ Cardinality(W) \in Nat /\ Cardinality(Caller) \in Nat
      /\ Cardinality(W) <= Cardinality(Caller)
  BY FS_Subset, FS_CardinalityType
<1> DEFINE n == Cardinality(Caller)
           k == Cardinality(W)
<1>2. Allowance(W, most) \in Nat
  BY <1>1, Multiples DEF Allowance
<1>3. ASSUME NEW c \in Caller \ W
      PROVE  Allowance(W \union {c}, most) + most = Allowance(W, most)
  <2>1. Cardinality(W \union {c}) = k + 1 /\ k + 1 <= n
    BY <1>1, FS_AddElement, FS_Subset
  <2> HIDE DEF n, k
  <2>2. (n - (k + 1)) + 1 = n - k /\ n - (k + 1) \in Nat
    BY <1>1, <2>1 DEF n, k
  <2> QED
    BY <2>1, <2>2, Multiples DEF Allowance, n, k
<1>4. ASSUME NEW c \in W
      PROVE  Allowance(W \ {c}, most) = Allowance(W, most) + most
  <2>1. Cardinality(W \ {c}) = k - 1
    BY <1>1, FS_RemoveElement
  <2> HIDE DEF n, k
  <2>2. n - (k - 1) = (n - k) + 1 /\ n - k \in Nat
    BY <1>1, <2>1 DEF n, k
  <2> QED
    BY <2>1, <2>2, Multiples DEF Allowance, n, k
<1>5. ASSUME W # {} PROVE Allowance(W, most) <= (n - 1) * most
  <2>1. k # 0
    BY <1>1, <1>5, FS_EmptySet
  <2> HIDE DEF n, k
  <2>2. n - k \in Nat /\ n - 1 \in Nat /\ n - k <= n - 1
    BY <1>1, <2>1 DEF n, k
  <2> QED
    BY <2>2, Multiples DEF Allowance, n, k
<1> QED
  BY <1>2, <1>3, <1>4, <1>5

LEMMA CommittedType ==
  ASSUME TypeOK, NEW b \in DOMAIN budgets
  PROVE  Committed(b) \in Int /\ budgets[b].limit \in Nat
<1>1. budgets[b] \in Account /\ overrun[b] \in Nat
  BY DEF TypeOK
<1> QED
  BY <1>1 DEF Account, Committed

LEMMA CommittedTypeNext ==
  ASSUME TypeOK', NEW b \in DOMAIN budgets'
  PROVE  Committed(b)' \in Int /\ budgets'[b].limit \in Nat
<1>1. budgets'[b] \in Account /\ overrun'[b] \in Nat
  BY DEF TypeOK
<1> QED
  BY <1>1 DEF Account, Committed

LEMMA WaitingCost ==
  ASSUME TypeOK, NEW b, NEW c \in AboutToReserve(b), NEW most \in Nat,
         \A q \in Requests : q.cost <= most
  PROVE  c \in Caller /\ call[c].request.cost \in Nat /\ call[c].request.cost <= most
<1>1. c \in Caller /\ ~At(c, "idle") /\ call[c].pc = "reserve"
  BY DEF AboutToReserve, At
<1> QED
  BY <1>1, BusyRequest, RequestTypes

(* Nobody starts or stops waiting for b, nothing more is committed.        *)
LEMMA KeepBounded ==
  ASSUME NEW most \in Nat, TypeOK, TypeOK', NEW b \in DOMAIN budgets, Bounded(b, most),
         b \in DOMAIN budgets', budgets'[b].limit = budgets[b].limit,
         Committed(b)' <= Committed(b),
         AboutToReserve(b)' = AboutToReserve(b),
         \A c \in AboutToReserve(b) : call'[c] = call[c],
         \A q \in Requests : q.cost <= most, IsFiniteSet(Caller), Caller # {}
  PROVE  Bounded(b, most)'
<1>1. /\ Committed(b) \in Int /\ Committed(b)' \in Int /\ budgets[b].limit \in Nat
      /\ Allowance(AboutToReserve(b), most) \in Nat
  BY CommittedType, CommittedTypeNext, Allowances DEF AboutToReserve
<1>2. (Cardinality(Caller) - 1) * most \in Nat
  BY FS_CardinalityType, FS_EmptySet, Multiples
<1>3. CASE AboutToReserve(b) = {}
  BY <1>1, <1>2, <1>3 DEF Bounded
<1>4. CASE AboutToReserve(b) # {}
  <2>1. PICK c \in AboutToReserve(b) :
          Committed(b) + call[c].request.cost
            <= budgets[b].limit + Allowance(AboutToReserve(b), most)
    BY <1>4 DEF Bounded
  <2>2. call[c].request.cost \in Nat /\ call'[c] = call[c]
    BY WaitingCost
  <2>3. Committed(b)' + call'[c].request.cost
          <= budgets'[b].limit + Allowance(AboutToReserve(b)', most)
    BY <1>1, <2>1, <2>2
  <2> QED
    BY <1>4, <2>1, <2>3 DEF Bounded
<1> QED
  BY <1>3, <1>4

(* One that waited for b reserves, or gives up.                            *)
LEMMA LeaveBounded ==
  ASSUME NEW most \in Nat, TypeOK, TypeOK', NEW b \in DOMAIN budgets, Bounded(b, most),
         b \in DOMAIN budgets', budgets'[b].limit = budgets[b].limit,
         NEW c \in AboutToReserve(b), AboutToReserve(b)' = AboutToReserve(b) \ {c},
         Committed(b)' <= Committed(b) + call[c].request.cost,
         \A d \in Caller \ {c} : call'[d] = call[d],
         \A q \in Requests : q.cost <= most, IsFiniteSet(Caller), Caller # {}
  PROVE  Bounded(b, most)'
<1> DEFINE W == AboutToReserve(b)
           V == W \ {c}
<1>1. /\ Committed(b) \in Int /\ Committed(b)' \in Int /\ budgets[b].limit \in Nat
      /\ W \in SUBSET Caller
  BY CommittedType, CommittedTypeNext DEF AboutToReserve
<1>2. /\ Allowance(W, most) \in Nat /\ Allowance(V, most) = Allowance(W, most) + most
      /\ Allowance(W, most) <= (Cardinality(Caller) - 1) * most
  BY <1>1, Allowances
<1>3. (Cardinality(Caller) - 1) * most \in Nat
  BY FS_CardinalityType, FS_EmptySet, Multiples
<1>4. \A d \in W : call[d].request.cost \in Nat /\ call[d].request.cost <= most
  BY WaitingCost
<1>5. PICK d \in W : Committed(b) + call[d].request.cost <= budgets[b].limit + Allowance(W, most)
  BY DEF Bounded
<1>6. AboutToReserve(b)' = V /\ c \in W
  OBVIOUS
<1>7. \A e \in V : call'[e] = call[e]
  BY <1>1
<1> HIDE DEF W, V
<1>8. CASE V = {}
  <2>1. d = c
    BY <1>5, <1>8 DEF V
  <2>2. Committed(b)' <= budgets'[b].limit + (Cardinality(Caller) - 1) * most
    BY <1>1, <1>2, <1>3, <1>4, <1>5, <1>6, <2>1
  <2> QED
    BY <1>6, <1>8, <2>2 DEF Bounded
<1>9. CASE V # {}
  <2>1. PICK e \in V : d = c \/ d = e
    BY <1>5, <1>9 DEF V
  <2>2. e \in W /\ call'[e] = call[e]
    BY <1>7, <2>1 DEF V
  <2>3. Committed(b)' + call'[e].request.cost <= budgets'[b].limit + Allowance(V, most)
    BY <1>1, <1>2, <1>4, <1>5, <1>6, <2>1, <2>2
  <2> QED
    BY <1>6, <1>9, <2>1, <2>3 DEF Bounded
<1> QED
  BY <1>8, <1>9

(* One finds funds in b and waits.                                         *)
LEMMA JoinBounded ==
  ASSUME NEW most \in Nat, TypeOK, NEW b \in DOMAIN budgets,
         UNCHANGED <<budgets, overrun>>,
         NEW c \in Caller \ AboutToReserve(b), call'[c].request = call[c].request,
         call[c].request \in Requests, call[c].request.cost <= Available(b),
         AboutToReserve(b)' = AboutToReserve(b) \union {c},
         IsFiniteSet(Caller)
  PROVE  Bounded(b, most)'
<1> DEFINE V == AboutToReserve(b) \union {c}
<1>1. V \in SUBSET Caller
  BY DEF AboutToReserve
<1>2. Allowance(V, most) \in Nat
  BY <1>1, Allowances
<1>3. budgets[b] \in Account /\ overrun[b] \in Nat /\ call[c].request.cost \in Nat
  BY RequestTypes DEF TypeOK
<1>4. Committed(b)' + call'[c].request.cost <= budgets'[b].limit + Allowance(V, most)
  BY <1>2, <1>3 DEF Account, Committed, Available
<1> HIDE DEF V
<1>5. AboutToReserve(b)' = V /\ c \in V
  BY DEF V
<1> QED
  BY <1>4, <1>5 DEF Bounded

(* What is common to the steps.                                            *)
Covered(most) ==
  /\ most \in Nat /\ IsFiniteSet(Caller) /\ Caller # {}
  /\ \A q \in Requests : q.cost <= most

(* A step of a caller that waits neither before nor after it.              *)
LEMMA AsideBounded ==
  ASSUME NEW most, Covered(most), TypeOK, TypeOK', \A b \in DOMAIN budgets : Bounded(b, most),
         NEW c \in Caller, ~At(c, "reserve"), ~At(c, "reserve")',
         \A d \in Caller \ {c} : call'[d] = call[d],
         UNCHANGED <<budgets, overrun>>
  PROVE  \A b \in DOMAIN budgets' : Bounded(b, most)'
<1> SUFFICES ASSUME NEW b \in DOMAIN budgets PROVE Bounded(b, most)'
  OBVIOUS
<1>1. AboutToReserve(b)' = AboutToReserve(b)
      /\ \A d \in AboutToReserve(b) : call'[d] = call[d]
  BY DEF AboutToReserve, At
<1>2. Committed(b)' = Committed(b) /\ Committed(b) \in Int
  BY CommittedType DEF Committed
<1> QED
  BY <1>1, <1>2, KeepBounded DEF Covered

LEMMA CreateBudgetBounded ==
  ASSUME NEW most, Covered(most), AInv, AInv', \A b \in DOMAIN budgets : Bounded(b, most),
         NEW x \in Budget, NEW limit \in Limits, CreateBudget(x, limit)
  PROVE  \A b \in DOMAIN budgets' : Bounded(b, most)'
<1>1. /\ DOMAIN budgets' = DOMAIN budgets \union {x} /\ x \notin DOMAIN budgets
      /\ budgets'[x] = [limit |-> limit, spent |-> 0, reserved |-> 0]
      /\ \A b \in DOMAIN budgets : budgets'[b] = budgets[b]
      /\ UNCHANGED <<call, overrun>>
  BY DEF CreateBudget, history
<1>2. ASSUME NEW b \in DOMAIN budgets PROVE Bounded(b, most)'
  <2>1. AboutToReserve(b)' = AboutToReserve(b) /\ Committed(b)' = Committed(b)
    BY <1>1 DEF AboutToReserve, At, Committed
  <2>2. Committed(b) \in Int
    BY CommittedType DEF AInv
  <2> QED
    BY <1>1, <2>1, <2>2, KeepBounded DEF Covered, AInv
<1>3. Bounded(x, most)'
  <2>1. AboutToReserve(x)' = {}
    BY <1>1 DEF AboutToReserve, At, AInv, Prepared
  <2>2. Committed(x)' <= budgets'[x].limit + (Cardinality(Caller) - 1) * most
    <3>1. limit \in Nat /\ overrun[x] \in Nat
      BY InstitutionAssumption DEF AInv, TypeOK
    <3>2. (Cardinality(Caller) - 1) * most \in Nat
      BY FS_CardinalityType, FS_EmptySet, Multiples DEF Covered
    <3> QED
      BY <1>1, <3>1, <3>2 DEF Committed
  <2> QED
    BY <2>1, <2>2 DEF Bounded
<1> QED
  BY <1>1, <1>2, <1>3

LEMMA ReadBudgetBounded ==
  ASSUME NEW most, Covered(most), AInv, AInv', \A b \in DOMAIN budgets : Bounded(b, most),
         NEW c \in Caller, ReadBudget(c)
  PROVE  \A b \in DOMAIN budgets' : Bounded(b, most)'
<1>1. TypeOK /\ TypeOK' /\ At(c, "fund") /\ ~At(c, "idle") /\ UNCHANGED <<budgets, overrun>>
  BY DEF AInv, ReadBudget, At, store, history
<1> DEFINE pc == IF Funded(call[c].request) THEN "reserve" ELSE "refuse"
<1>2. pc \in Pc /\ Goto(c, pc)
  BY DEF ReadBudget, Pc
<1>3. /\ call'[c].pc = pc /\ call'[c].request = call[c].request
      /\ \A d \in Caller : d # c => call'[d] = call[d]
  BY <1>1, <1>2, GotoType DEF At
<1>4. CASE ~Funded(call[c].request)
  <2>1. ~At(c, "reserve") /\ ~At(c, "reserve")'
    BY <1>1, <1>3, <1>4 DEF At
  <2> QED
    BY <1>1, <1>3, <2>1, AsideBounded
<1>5. CASE Funded(call[c].request)
  <2>1. call'[c].pc = "reserve"
    BY <1>3, <1>5
  <2> HIDE DEF pc
  <2> SUFFICES ASSUME NEW b \in DOMAIN budgets PROVE Bounded(b, most)'
    BY <1>1
  <2>2. CASE b = call[c].request.budget
    <3>1. c \notin AboutToReserve(b) /\ AboutToReserve(b)' = AboutToReserve(b) \union {c}
      BY <1>1, <1>3, <2>1, <2>2 DEF AboutToReserve, At
    <3>2. call[c].request.cost <= Available(b) /\ call[c].request \in Requests
      BY <1>1, <1>5, <2>2, BusyRequest DEF Funded, At
    <3> QED
      BY <1>1, <1>3, <3>1, <3>2, JoinBounded DEF Covered
  <2>3. CASE b # call[c].request.budget
    <3>1. AboutToReserve(b)' = AboutToReserve(b) /\ c \notin AboutToReserve(b)
      BY <1>3, <2>3 DEF AboutToReserve, At
    <3>2. \A d \in AboutToReserve(b) : call'[d] = call[d]
      BY <1>3, <3>1 DEF AboutToReserve
    <3>3. Committed(b)' = Committed(b) /\ Committed(b) \in Int
      BY <1>1, CommittedType DEF Committed
    <3> QED
      BY <1>1, <3>1, <3>2, <3>3, KeepBounded DEF Covered
  <2> QED
    BY <2>2, <2>3
<1> QED
  BY <1>4, <1>5

LEMMA ReserveBounded ==
  ASSUME NEW most, Covered(most), AInv, AInv', \A b \in DOMAIN budgets : Bounded(b, most),
         NEW c \in Caller, Reserve(c)
  PROVE  \A b \in DOMAIN budgets' : Bounded(b, most)'
<1>1. TypeOK /\ TypeOK' /\ At(c, "reserve") /\ ~At(c, "idle")
  BY DEF AInv, Reserve, At
<1> PICK q \in Requests : q = call[c].request
  BY <1>1, BusyRequest DEF At
<1>2. budgets' = [budgets EXCEPT ![q.budget].reserved = @ + q.cost]
      /\ Goto(c, "submit") /\ UNCHANGED overrun
  BY DEF Reserve
<1>3. q.budget \in DOMAIN budgets /\ q.cost \in Nat /\ budgets[q.budget] \in Account
      /\ overrun[q.budget] \in Nat
  BY <1>1, RequestTypes DEF AInv, Prepared, TypeOK
<1>4. /\ DOMAIN budgets' = DOMAIN budgets
      /\ budgets'[q.budget].limit = budgets[q.budget].limit
      /\ budgets'[q.budget].spent = budgets[q.budget].spent
      /\ budgets'[q.budget].reserved = budgets[q.budget].reserved + q.cost
      /\ \A b \in DOMAIN budgets : b # q.budget => budgets'[b] = budgets[b]
  BY <1>2, <1>3 DEF Account
<1>5. call'[c].pc = "submit" /\ \A d \in Caller : d # c => call'[d] = call[d]
  BY <1>1, <1>2, GotoType DEF Pc, At
<1> SUFFICES ASSUME NEW b \in DOMAIN budgets PROVE Bounded(b, most)'
  BY <1>4
<1>6. CASE b = q.budget
  <2>1. c \in AboutToReserve(b) /\ AboutToReserve(b)' = AboutToReserve(b) \ {c}
    BY <1>1, <1>5, <1>6 DEF AboutToReserve, At
  <2>2. Committed(b)' <= Committed(b) + call[c].request.cost
    BY <1>2, <1>3, <1>4, <1>6 DEF Committed, Account
  <2> QED
    BY <1>1, <1>4, <1>5, <1>6, <2>1, <2>2, LeaveBounded DEF Covered
<1>7. CASE b # q.budget
  <2>1. AboutToReserve(b)' = AboutToReserve(b) /\ c \notin AboutToReserve(b)
    BY <1>5, <1>7 DEF AboutToReserve, At
  <2>2. \A d \in AboutToReserve(b) : call'[d] = call[d]
    BY <1>5, <2>1 DEF AboutToReserve
  <2>3. Committed(b)' = Committed(b) /\ Committed(b) \in Int
    BY <1>1, <1>2, <1>4, <1>7, CommittedType DEF Committed
  <2> QED
    BY <1>1, <1>4, <1>7, <2>1, <2>2, <2>3, KeepBounded DEF Covered
<1> QED
  BY <1>6, <1>7

LEMMA CrashBounded ==
  ASSUME NEW most, Covered(most), AInv, AInv', \A b \in DOMAIN budgets : Bounded(b, most),
         NEW c \in Caller, Crash(c)
  PROVE  \A b \in DOMAIN budgets' : Bounded(b, most)'
<1>1. TypeOK /\ TypeOK' /\ ~At(c, "idle") /\ UNCHANGED <<budgets, overrun>>
  BY DEF AInv, Crash, store, history
<1>2. call'[c] = Idle /\ \A d \in Caller : d # c => call'[d] = call[d]
  BY <1>1, IdleType DEF Crash
<1> SUFFICES ASSUME NEW b \in DOMAIN budgets PROVE Bounded(b, most)'
  BY <1>1
<1>3. Committed(b)' = Committed(b) /\ Committed(b) \in Int
  BY <1>1, CommittedType DEF Committed
<1>4. CASE c \in AboutToReserve(b)
  <2>1. AboutToReserve(b)' = AboutToReserve(b) \ {c}
    BY <1>2 DEF AboutToReserve, At, Idle
  <2>2. call[c].request.cost \in Nat
    BY <1>1, <1>4, BusyRequest, RequestTypes DEF AboutToReserve, At
  <2> QED
    BY <1>1, <1>2, <1>3, <1>4, <2>1, <2>2, LeaveBounded DEF Covered
<1>5. CASE c \notin AboutToReserve(b)
  <2>1. AboutToReserve(b)' = AboutToReserve(b)
    BY <1>2, <1>5 DEF AboutToReserve, At, Idle
  <2>2. \A d \in AboutToReserve(b) : call'[d] = call[d]
    BY <1>2, <1>5 DEF AboutToReserve
  <2> QED
    BY <1>1, <1>3, <2>1, <2>2, KeepBounded DEF Covered
<1> QED
  BY <1>4, <1>5

(* Paying, even twice, commits no more than it writes down as overrun.     *)
LEMMA PayBounded ==
  ASSUME NEW most, Covered(most), AInv, AInv', \A b \in DOMAIN budgets : Bounded(b, most),
         NEW c \in Caller, Pay(c)
  PROVE  \A b \in DOMAIN budgets' : Bounded(b, most)'
<1>1. TypeOK /\ TypeOK' /\ At(c, "pay") /\ ~At(c, "idle")
  BY DEF AInv, Pay, At
<1> PICK q \in Requests \union Settlements : q = call[c].request
  BY <1>1, BusyRequest
<1> PICK row \in [budget: Budget, amount: Nat, status: {"reserved", "settled"}] :
      row = reservations[q.goal]
  BY <1>1 DEF AInv, RowsMatch, TypeOK
<1>2. /\ budgets' = [budgets EXCEPT ![row.budget].reserved = @ - row.amount,
                                    ![row.budget].spent = @ + q.actual]
      /\ overrun' = [overrun EXCEPT ![row.budget] = @ + Excess(q, row)]
      /\ Settled(c)
  BY DEF Pay
<1>3. /\ row.budget \in DOMAIN budgets /\ row.budget \in Budget
      /\ row.amount \in Nat /\ q.actual \in Nat
      /\ Excess(q, row) \in Nat /\ q.actual <= row.amount + Excess(q, row)
      /\ budgets[row.budget] \in Account /\ overrun[row.budget] \in Nat
  BY <1>1, PaymentTypes DEF AInv, RowsMatch, Excess, TypeOK
<1>4. call'[c] = Idle /\ \A d \in Caller : d # c => call'[d] = call[d]
  BY <1>1, <1>2, SettledType
<1>5. DOMAIN budgets' = DOMAIN budgets
  BY <1>2
<1> SUFFICES ASSUME NEW b \in DOMAIN budgets PROVE Bounded(b, most)'
  BY <1>5
<1>6. AboutToReserve(b)' = AboutToReserve(b)
      /\ \A d \in AboutToReserve(b) : call'[d] = call[d]
  BY <1>1, <1>4 DEF AboutToReserve, At, Idle
<1>7. budgets'[b].limit = budgets[b].limit /\ Committed(b)' <= Committed(b)
  <2>1. CASE b = row.budget
    <3>1. budgets'[b] = [budgets[b] EXCEPT !.reserved = @ - row.amount, !.spent = @ + q.actual]
      BY <1>2, <1>3, <2>1 DEF Account
    <3>2. overrun'[b] = overrun[b] + Excess(q, row)
      BY <1>1, <1>2, <1>3, <2>1 DEF TypeOK
    <3> QED
      BY <1>3, <2>1, <3>1, <3>2 DEF Committed, Account
  <2>2. CASE b # row.budget
    <3>1. budgets'[b] = budgets[b] /\ overrun'[b] = overrun[b]
      BY <1>1, <1>2, <2>2 DEF TypeOK
    <3> QED
      BY <1>1, <3>1, CommittedType DEF Committed
  <2> QED
    BY <2>1, <2>2
<1> QED
  BY <1>1, <1>5, <1>6, <1>7, KeepBounded DEF Covered

LEMMA NextBounded ==
  ASSUME NEW most, Covered(most), OvershootInv(most), [Next]_vars
  PROVE  OvershootInv(most)'
<1>1. AInv /\ AInv' /\ TypeOK /\ TypeOK' /\ \A b \in DOMAIN budgets : Bounded(b, most)
  BY NextAnswers DEF OvershootInv, AInv
<1> SUFFICES \A b \in DOMAIN budgets' : Bounded(b, most)'
  BY <1>1 DEF OvershootInv
<1>2. CASE UNCHANGED vars
  BY <1>1, <1>2 DEF vars, store, history, Bounded, AboutToReserve, Committed, At
<1>3. ASSUME NEW x \in Budget, NEW limit \in Limits, CreateBudget(x, limit)
      PROVE  \A b \in DOMAIN budgets' : Bounded(b, most)'
  BY <1>1, <1>3, CreateBudgetBounded
<1>4. ASSUME NEW row \in Conditions, AddStopCondition(row)
      PROVE  \A b \in DOMAIN budgets' : Bounded(b, most)'
  BY <1>1, <1>4 DEF AddStopCondition, history, Bounded, AboutToReserve, Committed, At
<1>5. ASSUME NEW c \in Caller, Step(c)
      PROVE  \A b \in DOMAIN budgets' : Bounded(b, most)'
  <2>1. ASSUME ~At(c, "reserve"), ~At(c, "reserve")',
               \A d \in Caller \ {c} : call'[d] = call[d],
               UNCHANGED <<budgets, overrun>>
        PROVE  \A b \in DOMAIN budgets' : Bounded(b, most)'
    BY <1>1, <2>1, AsideBounded
  <2>2. ASSUME NEW q,
               \/ q \in Requests /\ Evaluate(c, q)
               \/ q \in Settlements /\ CallSettle(c, q)
        PROVE  \A b \in DOMAIN budgets' : Bounded(b, most)'
    <3>1. PICK pc \in Pc \ {"reserve"} :
            /\ call' = [call EXCEPT ![c] = [pc |-> pc, request |-> q]]
            /\ q \in Requests \/ (pc = "settle" /\ q \in Settlements)
      BY <2>2 DEF Evaluate, CallSettle, Pc
    <3>2. call'[c].pc = pc /\ \A d \in Caller : d # c => call'[d] = call[d]
      BY <1>1, <3>1, StartType
    <3>3. At(c, "idle") /\ UNCHANGED <<budgets, overrun>>
      BY <2>2 DEF Evaluate, CallSettle, store, history
    <3> QED
      BY <2>1, <3>2, <3>3 DEF At
  <2>3. CASE ReadBudget(c)
    BY <1>1, <2>3, ReadBudgetBounded
  <2>4. CASE Reserve(c)
    BY <1>1, <2>4, ReserveBounded
  <2>5. CASE PersistPacket(c)
    <3>1. call[c].request \in Requests
      BY <1>1, <2>5, BusyRequest DEF At, PersistPacket
    <3>2. call'[c] = Idle /\ \A d \in Caller : d # c => call'[d] = call[d]
      BY <1>1, <2>5, <3>1, ReturnType DEF PersistPacket
    <3> QED
      BY <2>1, <2>5, <3>2 DEF PersistPacket, history, At, Idle
  <2>6. CASE Submit(c)
    <3>1. call'[c].pc = "run" /\ \A d \in Caller : d # c => call'[d] = call[d]
      BY <1>1, <2>6, GotoType DEF At, Submit, Pc
    <3> QED
      BY <2>1, <2>6, <3>1 DEF Submit, store, At
  <2>7. CASE SubmitAgain(c)
    <3>1. call'[c] = Idle /\ \A d \in Caller : d # c => call'[d] = call[d]
      BY <1>1, <2>7, IdleType DEF SubmitAgain
    <3> QED
      BY <2>1, <2>7, <3>1 DEF SubmitAgain, store, history, At, Idle
  <2>8. ASSUME NEW status \in {"canonical", "escalated", "failed"}, Run(c, status)
        PROVE  \A b \in DOMAIN budgets' : Bounded(b, most)'
    <3>1. At(c, "run") /\ call[c].request \in Requests
      BY <1>1, <2>8, BusyRequest DEF Run, At
    <3>2. CASE Goto(c, "settle")
      <4>1. call'[c].pc = "settle" /\ \A d \in Caller : d # c => call'[d] = call[d]
        BY <1>1, <3>1, <3>2, GotoType DEF At, Pc
      <4> QED
        BY <2>1, <2>8, <3>1, <4>1 DEF Run, store, history, At
    <3>3. CASE Return(c, status)
      <4>1. call'[c] = Idle /\ \A d \in Caller : d # c => call'[d] = call[d]
        BY <1>1, <3>1, <3>3, ReturnType
      <4> QED
        BY <2>1, <2>8, <3>1, <4>1 DEF Run, store, history, At, Idle
    <3> QED
      BY <2>8, <3>2, <3>3 DEF Run
  <2>9. CASE ReadReservation(c)
    <3>1. At(c, "settle") /\ ~At(c, "idle") /\ (Goto(c, "pay") \/ Settled(c))
      BY <2>9 DEF ReadReservation, At
    <3>2. CASE Goto(c, "pay")
      <4>1. call'[c].pc = "pay" /\ \A d \in Caller : d # c => call'[d] = call[d]
        BY <1>1, <3>1, <3>2, GotoType DEF Pc
      <4> QED
        BY <2>1, <2>9, <3>1, <4>1 DEF ReadReservation, store, history, At
    <3>3. CASE Settled(c)
      <4>1. call'[c] = Idle /\ \A d \in Caller : d # c => call'[d] = call[d]
        BY <1>1, <3>1, <3>3, SettledType
      <4> QED
        BY <2>1, <2>9, <3>1, <4>1 DEF ReadReservation, store, history, At, Idle
    <3> QED
      BY <3>1, <3>2, <3>3
  <2>10. CASE Pay(c)
    BY <1>1, <2>10, PayBounded
  <2>11. CASE Crash(c)
    BY <1>1, <2>11, CrashBounded
  <2> QED
    BY <1>5, <2>2, <2>3, <2>4, <2>5, <2>6, <2>7, <2>8, <2>9, <2>10, <2>11 DEF Step
<1> QED
  BY <1>2, <1>3, <1>4, <1>5 DEF Next

LEMMA BoundedHolds ==
  ASSUME NEW most, Covered(most), OvershootInv(most)
  PROVE  OvershootBounded(most)
<1> SUFFICES ASSUME NEW b \in DOMAIN budgets
             PROVE  Committed(b) <= budgets[b].limit + (Cardinality(Caller) - 1) * most
  BY DEF OvershootBounded
<1> DEFINE W == AboutToReserve(b)
<1>1. TypeOK /\ Bounded(b, most) /\ W \in SUBSET Caller /\ most \in Nat
  BY DEF OvershootInv, AInv, AboutToReserve, Covered
<1>2. Committed(b) \in Int /\ budgets[b].limit \in Nat
  BY <1>1, CommittedType
<1>3. CASE W = {}
  BY <1>1, <1>3 DEF Bounded
<1>4. CASE W # {}
  <2>1. PICK c \in W :
          Committed(b) + call[c].request.cost <= budgets[b].limit + Allowance(W, most)
    BY <1>1, <1>4 DEF Bounded
  <2>2. call[c].request.cost \in Nat
    BY <1>1, <2>1, WaitingCost DEF Covered
  <2>3. Allowance(W, most) \in Nat /\ Allowance(W, most) <= (Cardinality(Caller) - 1) * most
    BY <1>1, <1>4, Allowances DEF Covered
  <2>4. (Cardinality(Caller) - 1) * most \in Nat
    BY <1>1, FS_CardinalityType, FS_EmptySet, Multiples DEF Covered
  <2> QED
    BY <1>2, <2>1, <2>2, <2>3, <2>4
<1> QED
  BY <1>3, <1>4

(***************************************************************************)
(* evaluate() of governance.py reads the balance and reserves in two       *)
(* steps, so overlapping calls may exceed a budget (the finding about      *)
(* WithinLimit); but with n callers whose requests cost at most `most`,    *)
(* never by more than (n - 1) * most on top of what goals cost above their *)
(* estimates, however long they go on: nobody starts on a budget that is   *)
(* used up.                                                                *)
(***************************************************************************)
THEOREM OvershootLimited ==
  ASSUME IsFiniteSet(Caller), Caller # {},
         NEW most \in Nat, \A q \in Requests : q.cost <= most
  PROVE  Spec => []OvershootBounded(most)
<1>1. Covered(most)
  BY DEF Covered
<1>2. Init => OvershootInv(most)
  <2> SUFFICES ASSUME Init PROVE OvershootInv(most)
    OBVIOUS
  <2> QED
    BY InitAnswers DEF OvershootInv, Init
<1>3. OvershootInv(most) /\ [Next]_vars => OvershootInv(most)'
  BY <1>1, NextBounded
<1>4. OvershootInv(most) => OvershootBounded(most)
  BY <1>1, BoundedHolds
<1> QED
  BY <1>2, <1>3, <1>4, PTL DEF Spec

(***************************************************************************)
(* Payments of a goal.  A step that pays nothing, sends nobody to pay and  *)
(* opens no reservation again keeps their bound.                           *)
(***************************************************************************)
LEMMA PaymentsKept ==
  ASSUME IsFiniteSet(Caller), PaymentsInv, TypeOK', UNCHANGED paid,
         \A g \in DOMAIN reservations :
           /\ g \in DOMAIN reservations'
           /\ reservations'[g].status = "reserved" => reservations[g].status = "reserved",
         \A d \in Caller : call'[d].pc = "pay" => call'[d] = call[d]
  PROVE  PaymentsInv'
<1> SUFFICES ASSUME NEW g \in Goal
             PROVE  /\ (g \in DOMAIN reservations' => Open(g)') => paid'[g] = << >>
                    /\ Len(paid'[g]) + Cardinality(Payers(g)') <= Cardinality(Caller)
  BY DEF PaymentsInv
<1>1. (g \in DOMAIN reservations' => Open(g)') => (g \in DOMAIN reservations => Open(g))
  BY DEF Open
<1>2. Payers(g)' \subseteq Payers(g) /\ Payers(g) \subseteq Caller
  BY DEF Payers, At
<1>3. /\ IsFiniteSet(Payers(g)) /\ Cardinality(Payers(g)) \in Nat
      /\ Cardinality(Payers(g)') \in Nat /\ Cardinality(Caller) \in Nat
      /\ Cardinality(Payers(g)') <= Cardinality(Payers(g))
  BY <1>2, FS_Subset, FS_CardinalityType
<1>4. Len(paid[g]) \in Nat
  BY DEF PaymentsInv, TypeOK
<1> QED
  BY <1>1, <1>3, <1>4 DEF PaymentsInv

(* One more finds the reservation open: nobody has paid so far.            *)
LEMMA JoinPayers ==
  ASSUME IsFiniteSet(Caller), PaymentsInv, TypeOK', UNCHANGED <<reservations, paid>>,
         NEW c \in Caller, Open(call[c].request.goal),
         call'[c].request = call[c].request,
         \A d \in Caller : d # c => call'[d] = call[d]
  PROVE  PaymentsInv'
<1> SUFFICES ASSUME NEW g \in Goal
             PROVE  /\ (g \in DOMAIN reservations => Open(g)) => paid[g] = << >>
                    /\ Len(paid[g]) + Cardinality(Payers(g)') <= Cardinality(Caller)
  BY DEF PaymentsInv, Open
<1>1. Cardinality(Caller) \in Nat /\ Len(paid[g]) \in Nat
  BY FS_CardinalityType DEF PaymentsInv, TypeOK
<1>2. /\ (g \in DOMAIN reservations => Open(g)) => paid[g] = << >>
      /\ Len(paid[g]) + Cardinality(Payers(g)) <= Cardinality(Caller)
  BY DEF PaymentsInv
<1>3. CASE g = call[c].request.goal
  <2>1. Len(paid[g]) = 0
    BY <1>2, <1>3
  <2>2. Payers(g)' \subseteq Caller
    BY DEF Payers
  <2>3. Cardinality(Payers(g)') \in Nat /\ Cardinality(Payers(g)') <= Cardinality(Caller)
    BY <2>2, FS_Subset, FS_CardinalityType
  <2> QED
    BY <1>1, <1>2, <2>1, <2>3
<1>4. CASE g # call[c].request.goal
  <2>1. Payers(g)' = Payers(g)
    BY <1>4 DEF Payers, At
  <2> QED
    BY <1>2, <2>1
<1> QED
  BY <1>3, <1>4

(* One of those that found it open pays, and is one of them no more.       *)
LEMMA PayPayments ==
  ASSUME IsFiniteSet(Caller), PaymentsInv, AInv, TypeOK', NEW c \in Caller, Pay(c)
  PROVE  PaymentsInv'
<1>1. At(c, "pay") /\ ~At(c, "idle") /\ TypeOK
  BY DEF AInv, Pay, At
<1> PICK q \in Requests \union Settlements : q = call[c].request
  BY <1>1, BusyRequest
<1>2. q.goal \in Goal /\ q.goal \in DOMAIN reservations
  BY <1>1, PaymentTypes DEF AInv, RowsMatch
<1>3. /\ reservations' = [reservations EXCEPT ![q.goal].status = "settled"]
      /\ paid' = [paid EXCEPT ![q.goal] = Append(@, q.actual)]
      /\ Settled(c)
  BY DEF Pay
<1>4. call'[c] = Idle /\ \A d \in Caller : d # c => call'[d] = call[d]
  BY <1>1, <1>3, SettledType
<1>5. paid \in [Goal -> Seq(Nat)] /\ paid[q.goal] \in Seq(Nat)
  BY <1>1, <1>2 DEF TypeOK
<1> SUFFICES ASSUME NEW g \in Goal
             PROVE  /\ (g \in DOMAIN reservations' => Open(g)') => paid'[g] = << >>
                    /\ Len(paid'[g]) + Cardinality(Payers(g)') <= Cardinality(Caller)
  BY DEF PaymentsInv
<1>6. /\ (g \in DOMAIN reservations => Open(g)) => paid[g] = << >>
      /\ Len(paid[g]) + Cardinality(Payers(g)) <= Cardinality(Caller)
  BY DEF PaymentsInv
<1>7. CASE g = q.goal
  <2>1. g \in DOMAIN reservations' /\ ~Open(g)'
    BY <1>1, <1>2, <1>3, <1>7 DEF Open, TypeOK
  <2>2. Len(paid'[g]) = Len(paid[g]) + 1 /\ Len(paid[g]) \in Nat
    BY <1>3, <1>5, <1>7
  <2>3. c \in Payers(g) /\ Payers(g)' = Payers(g) \ {c} /\ Payers(g) \subseteq Caller
    BY <1>1, <1>4, <1>7 DEF Payers, At, Idle
  <2>4. /\ Cardinality(Payers(g)') = Cardinality(Payers(g)) - 1
        /\ Cardinality(Payers(g)) \in Nat /\ Cardinality(Caller) \in Nat
    BY <2>3, FS_Subset, FS_RemoveElement, FS_CardinalityType
  <2> QED
    BY <1>6, <2>1, <2>2, <2>4
<1>8. CASE g # q.goal
  <2>1. Payers(g)' = Payers(g)
    BY <1>1, <1>4, <1>8 DEF Payers, At, Idle
  <2>2. paid'[g] = paid[g]
    BY <1>3, <1>5, <1>8
  <2>3. (g \in DOMAIN reservations' => Open(g)') => (g \in DOMAIN reservations => Open(g))
    BY <1>2, <1>3, <1>8 DEF Open
  <2> QED
    BY <1>6, <2>1, <2>2, <2>3
<1> QED
  BY <1>7, <1>8

LEMMA NextPayments ==
  ASSUME IsFiniteSet(Caller), PaymentsInv, AInv, [Next]_vars
  PROVE  PaymentsInv'
<1>1. TypeOK /\ TypeOK'
  BY NextAnswers DEF AInv
<1>2. ASSUME UNCHANGED <<reservations, paid>>,
             \A d \in Caller : call'[d].pc = "pay" => call'[d] = call[d]
      PROVE  PaymentsInv'
  BY <1>1, <1>2, PaymentsKept
<1>3. CASE UNCHANGED vars
  BY <1>2, <1>3 DEF vars, store, history
<1>4. ASSUME NEW b \in Budget, NEW limit \in Limits, CreateBudget(b, limit)
      PROVE  PaymentsInv'
  BY <1>2, <1>4 DEF CreateBudget, history
<1>5. ASSUME NEW row \in Conditions, AddStopCondition(row) PROVE PaymentsInv'
  BY <1>2, <1>5 DEF AddStopCondition, history
<1>6. ASSUME NEW c \in Caller, Step(c) PROVE PaymentsInv'
  <2>1. ASSUME UNCHANGED <<reservations, paid>>, call'[c].pc # "pay",
               \A d \in Caller : d # c => call'[d] = call[d]
        PROVE  PaymentsInv'
    BY <1>2, <2>1
  <2>2. ASSUME NEW q,
               \/ q \in Requests /\ Evaluate(c, q)
               \/ q \in Settlements /\ CallSettle(c, q)
        PROVE  PaymentsInv'
    <3>1. PICK pc \in Pc \ {"pay"} :
            /\ call' = [call EXCEPT ![c] = [pc |-> pc, request |-> q]]
            /\ q \in Requests \/ (pc = "settle" /\ q \in Settlements)
      BY <2>2 DEF Evaluate, CallSettle, Pc
    <3>2. call'[c].pc = pc /\ \A d \in Caller : d # c => call'[d] = call[d]
      BY <1>1, <3>1, StartType
    <3> QED
      BY <2>1, <2>2, <3>2 DEF Evaluate, CallSettle, store, history
  <2>3. CASE ReadBudget(c)
    <3> DEFINE pc == IF Funded(call[c].request) THEN "reserve" ELSE "refuse"
    <3>1. pc \in Pc \ {"pay"} /\ Goto(c, pc)
      BY <2>3 DEF ReadBudget, Pc
    <3> HIDE DEF pc
    <3>2. call'[c].pc = pc /\ \A d \in Caller : d # c => call'[d] = call[d]
      BY <1>1, <2>3, <3>1, GotoType DEF ReadBudget, At
    <3> QED
      BY <2>1, <2>3, <3>1, <3>2 DEF ReadBudget, store, history
  <2>4. CASE Reserve(c)
    <3>1. call'[c].pc = "submit" /\ \A d \in Caller : d # c => call'[d] = call[d]
      BY <1>1, <2>4, GotoType DEF Reserve, At, Pc
    <3>2. \A g \in DOMAIN reservations :
            g \in DOMAIN reservations' /\ reservations'[g] = reservations[g]
      BY <2>4 DEF Reserve, Insert
    <3>3. UNCHANGED paid
      BY <2>4 DEF Reserve
    <3> QED
      BY <1>1, <3>1, <3>2, <3>3, PaymentsKept
  <2>5. CASE PersistPacket(c)
    <3>1. call[c].request \in Requests
      BY <1>1, <2>5, BusyRequest DEF At, PersistPacket
    <3>2. call'[c] = Idle /\ \A d \in Caller : d # c => call'[d] = call[d]
      BY <1>1, <2>5, <3>1, ReturnType DEF PersistPacket
    <3> QED
      BY <2>1, <2>5, <3>2 DEF PersistPacket, history, Idle
  <2>6. CASE Submit(c)
    <3>1. call'[c].pc = "run" /\ \A d \in Caller : d # c => call'[d] = call[d]
      BY <1>1, <2>6, GotoType DEF At, Submit, Pc
    <3> QED
      BY <2>1, <2>6, <3>1 DEF Submit, store
  <2>7. CASE SubmitAgain(c) \/ Crash(c)
    <3>1. call'[c] = Idle /\ \A d \in Caller : d # c => call'[d] = call[d]
      BY <1>1, <2>7, IdleType DEF SubmitAgain, Crash
    <3> QED
      BY <2>1, <2>7, <3>1 DEF SubmitAgain, Crash, store, history, Idle
  <2>8. ASSUME NEW status \in {"canonical", "escalated", "failed"}, Run(c, status)
        PROVE  PaymentsInv'
    <3>1. At(c, "run") /\ call[c].request \in Requests
      BY <1>1, <2>8, BusyRequest DEF Run, At
    <3>2. UNCHANGED <<reservations, paid>>
      BY <2>8 DEF Run, store, history
    <3>3. CASE Goto(c, "settle")
      <4>1. call'[c].pc = "settle" /\ \A d \in Caller : d # c => call'[d] = call[d]
        BY <1>1, <3>1, <3>3, GotoType DEF At, Pc
      <4> QED
        BY <2>1, <3>2, <4>1
    <3>4. CASE Return(c, status)
      <4>1. call'[c] = Idle /\ \A d \in Caller : d # c => call'[d] = call[d]
        BY <1>1, <3>1, <3>4, ReturnType
      <4> QED
        BY <2>1, <3>2, <4>1 DEF Idle
    <3> QED
      BY <2>8, <3>3, <3>4 DEF Run
  <2>9. CASE ReadReservation(c)
    <3>1. At(c, "settle") /\ ~At(c, "idle") /\ UNCHANGED <<reservations, paid>>
      BY <2>9 DEF ReadReservation, At, store, history
    <3>2. CASE Open(call[c].request.goal)
      <4>1. Goto(c, "pay")
        BY <2>9, <3>2 DEF ReadReservation
      <4>2. call'[c].request = call[c].request /\ \A d \in Caller : d # c => call'[d] = call[d]
        BY <1>1, <3>1, <4>1, GotoType DEF Pc
      <4> QED
        BY <1>1, <3>1, <3>2, <4>2, JoinPayers
    <3>3. CASE ~Open(call[c].request.goal)
      <4>1. Settled(c)
        BY <2>9, <3>3 DEF ReadReservation
      <4>2. call'[c] = Idle /\ \A d \in Caller : d # c => call'[d] = call[d]
        BY <1>1, <3>1, <4>1, SettledType
      <4> QED
        BY <2>1, <3>1, <4>2 DEF Idle
    <3> QED
      BY <3>2, <3>3
  <2>10. CASE Pay(c)
    BY <1>1, <2>10, PayPayments
  <2> QED
    BY <1>6, <2>2, <2>3, <2>4, <2>5, <2>6, <2>7, <2>8, <2>9, <2>10 DEF Step
<1> QED
  BY <1>3, <1>4, <1>5, <1>6 DEF Next

(***************************************************************************)
(* settle() of governance.py reads the reservation and pays in two         *)
(* transactions, and does not check that the row it marks is still open:   *)
(* when calls overlap, a goal may be paid for more than once.  But each    *)
(* caller pays for it once at most, of those that found the reservation    *)
(* open before the first payment, however long they go on and however      *)
(* often they crash and come back.                                         *)
(***************************************************************************)
THEOREM PaymentsLimited ==
  ASSUME IsFiniteSet(Caller)
  PROVE  Spec => []PaymentsBounded
<1>1. Init => PaymentsInv /\ AInv
  <2> SUFFICES ASSUME Init PROVE PaymentsInv /\ AInv
    OBVIOUS
  <2>1. AInv /\ TypeOK
    BY InitAnswers DEF AInv
  <2>2. \A g \in Goal : paid[g] = << >> /\ Payers(g) = {}
    BY DEF Init, Payers, At, Idle
  <2>3. Cardinality({}) = 0 /\ Cardinality(Caller) \in Nat /\ Len(<< >>) = 0
    BY FS_EmptySet, FS_CardinalityType
  <2> QED
    BY <2>1, <2>2, <2>3 DEF PaymentsInv
<1>2. PaymentsInv /\ AInv /\ [Next]_vars => (PaymentsInv /\ AInv)'
  BY NextPayments, NextAnswers
<1>3. PaymentsInv => PaymentsBounded
  <2> SUFFICES ASSUME PaymentsInv, NEW g \in Goal
               PROVE  Len(paid[g]) <= Cardinality(Caller)
    BY DEF PaymentsBounded
  <2>1. Payers(g) \subseteq Caller
    BY DEF Payers
  <2>2. Cardinality(Payers(g)) \in Nat /\ Cardinality(Caller) \in Nat /\ Len(paid[g]) \in Nat
    BY <2>1, FS_Subset, FS_CardinalityType DEF PaymentsInv, TypeOK
  <2>3. Len(paid[g]) + Cardinality(Payers(g)) <= Cardinality(Caller)
    BY DEF PaymentsInv
  <2> QED
    BY <2>2, <2>3
<1> QED
  BY <1>1, <1>2, <1>3, PTL DEF Spec

(***************************************************************************)
(* Steps of callers that take turns are steps of GoalFunding, or leave     *)
(* what it sees alone.                                                     *)
(***************************************************************************)
LEMMA ReserveGrants ==
  ASSUME LedgerInv, NEW c \in Caller, Reserve(c)
  PROVE  \E q \in Requests : Funding!Grant(q)
<1>1. At(c, "reserve") /\ ~At(c, "idle") /\ TypeOK /\ FundsKept
  BY DEF Reserve, At, LedgerInv, BInv
<1> PICK q \in Requests : q = call[c].request
  BY <1>1, BusyRequest DEF At
<1>2. q.budget \in DOMAIN budgets /\ q.cost <= Funding!Balance(q.budget)
  BY <1>1 DEF FundsKept, Funded, Available, Funding!Balance
<1>3. Funding!Grant(q)
  BY <1>2 DEF Reserve, Insert, Funding!Grant
<1> QED
  BY <1>3

LEMMA SubmitStarts ==
  ASSUME AInv, NEW c \in Caller, Submit(c)
  PROVE  \E q \in Requests : Funding!Start(q)
<1>1. At(c, "submit") /\ ~At(c, "idle") /\ TypeOK /\ Prepared(c)
  BY DEF Submit, At, AInv
<1> PICK q \in Requests : q = call[c].request
  BY <1>1, BusyRequest DEF At
<1>2. Funding!Start(q)
  BY <1>1 DEF Submit, Prepared, Granted, NeedsFunds, store, Funding!Start
<1> QED
  BY <1>2

LEMMA RunEnds ==
  ASSUME AInv, NEW c \in Caller, NEW status \in {"canonical", "escalated", "failed"},
         Run(c, status)
  PROVE  \E g \in Goal : Funding!End(g, status)
<1>1. At(c, "run") /\ ~At(c, "idle") /\ TypeOK /\ Prepared(c)
  BY DEF Run, At, AInv
<1>2. call[c].request.goal \in Goal
  BY <1>1, BusyRequest, PaymentTypes
<1>3. Funding!End(call[c].request.goal, status)
  BY <1>1 DEF Run, Prepared, store, history, Funding!End
<1> QED
  BY <1>2, <1>3

LEMMA PaySettles ==
  ASSUME LedgerInv, AInv, NEW c \in Caller, Pay(c)
  PROVE  \/ \E q \in Requests : goals[q.goal] = "canonical" /\ Funding!Settle(q)
         \/ \E s \in Settlements : Funding!Settle(s)
<1>1. At(c, "pay") /\ ~At(c, "idle") /\ TypeOK /\ Prepared(c) /\ PayersAlone
  BY DEF Pay, At, AInv, LedgerInv
<1> PICK q \in Requests \union Settlements : q = call[c].request
  BY <1>1, BusyRequest
<1>2. Open(q.goal) /\ (q \notin Settlements => goals[q.goal] = "canonical")
  BY <1>1 DEF PayersAlone, Prepared, At
<1>3. Funding!Settle(q)
  BY <1>2 DEF Pay, Open, Funding!Settle
<1> QED
  BY <1>2, <1>3

LEMMA StepFunds ==
  ASSUME LedgerInv, AInv, [Next]_vars
  PROVE  [Funding!Next]_(Funding!vars)
<1> DEFINE Same == UNCHANGED <<budgets, reservations, goals, grants>>
<1>0. Same => UNCHANGED Funding!vars
  BY DEF Funding!vars
<1>1. CASE UNCHANGED vars
  BY <1>0, <1>1 DEF vars, store, history
<1>2. ASSUME NEW b \in Budget, NEW limit \in Limits, CreateBudget(b, limit)
      PROVE  Funding!Next
  <2>1. Funding!Open(b, limit)
    BY <1>2 DEF CreateBudget, history, Funding!Open
  <2> QED
    BY <2>1 DEF Funding!Next
<1>3. ASSUME NEW row \in Conditions, AddStopCondition(row) PROVE Same
  BY <1>3 DEF AddStopCondition, history
<1>4. ASSUME NEW c \in Caller, Step(c) PROVE Same \/ Funding!Next
  <2>1. ASSUME NEW q, Evaluate(c, q) \/ CallSettle(c, q) PROVE Same
    BY <2>1 DEF Evaluate, CallSettle, store, history
  <2>2. CASE ReadBudget(c) \/ PersistPacket(c) \/ SubmitAgain(c)
             \/ ReadReservation(c) \/ Crash(c)
    BY <2>2 DEF ReadBudget, PersistPacket, SubmitAgain, ReadReservation, Crash, store, history
  <2>3. CASE Reserve(c)
    BY <2>3, ReserveGrants DEF Funding!Next
  <2>4. CASE Submit(c)
    BY <2>4, SubmitStarts DEF Funding!Next
  <2>5. ASSUME NEW status \in {"canonical", "escalated", "failed"}, Run(c, status)
        PROVE  Funding!Next
    BY <2>5, RunEnds DEF Funding!Next
  <2>6. CASE Pay(c)
    BY <2>6, PaySettles DEF Funding!Next
  <2> QED
    BY <1>4, <2>1, <2>2, <2>3, <2>4, <2>5, <2>6 DEF Step
<1> QED
  BY <1>0, <1>1, <1>2, <1>3, <1>4 DEF Next

(***************************************************************************)
(* evaluate() and settle() of governance.py act as if they were atomic,    *)
(* although each reads and writes in different transactions, provided that *)
(* callers take turns on a budget: submit_and_run implements GoalFunding.  *)
(***************************************************************************)
THEOREM FundingIsAtomic ==
  ASSUME Serialized
  PROVE  Spec => FundsAtomically
<1>1. Init => Funding!Init
  BY DEF Init, Funding!Init
<1>2. LedgerInv /\ AInv /\ [Next]_vars => [Funding!Next]_(Funding!vars)
  BY StepFunds
<1> QED
  BY <1>1, <1>2, LedgerInvariance, AnswersInvariant, PTL
  DEF Spec, FundsAtomically, Funding!Spec
==============================================================================
