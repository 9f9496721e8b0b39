------------------------------ MODULE CommandLine ------------------------------
(***************************************************************************)
(* main() of cli.py: invocations of the command line that share a database,*)
(* and the composition of the parts below it.  Every invocation, whatever  *)
(* its command, first sees to it that there are agents and adds the four   *)
(* stop conditions; "run" then takes one goal through GovernedInstitution  *)
(* (module Institution) and GovernedOrchestrator (module Orchestrator).    *)
(*                                                                         *)
(* A step of an invocation is one transaction or one read; steps of the    *)
(* parts are their actions.  Each "run" has a goal of its own under a      *)
(* fresh id; the goal of one of them is modelled.                          *)
(***************************************************************************)
EXTENDS Naturals, Sequences, FiniteSets

CONSTANTS
  Invocation,
  Runner,     \* the invocation with the command "run", if there is one
  Args,       \* arguments it may have
  Limits,     \* limit arguments of "create-budget"
  AgentIds,   \* ids for registered agents, which are random
  HighRisk,   \* whether --risk is high or critical
  Capability,
  NoBudget

Command == {"init", "status", "create-budget", "run"}

StopFields == <<"legal_commitment", "irreversible", "mission_change",
                "constitutional_change">>
Flag == {StopFields[i] : i \in DOMAIN StopFields}

(* A budget is known by the invocation that creates it; "blank" says that  *)
(* the title or the description has nothing but white space.               *)
Arguments == [flags: SUBSET Flag, cost: Nat, budget: Invocation \union {NoBudget},
              capabilities: SUBSET Capability, gates: Seq(Capability),
              blank: BOOLEAN]

ASSUME CommandLineAssumption ==
  /\ Runner \subseteq Invocation /\ \A p, q \in Runner : p = q
  /\ Args \subseteq Arguments
  /\ NoBudget \notin Invocation
  /\ AgentIds \subseteq Nat \ {0} /\ Limits \subseteq Nat
  /\ HighRisk \in BOOLEAN

(* --capability and --review-gate add to these.                            *)
ASSUME DefaultsAssumption ==
  /\ {"general", "quality"} \subseteq Capability
  /\ \A a \in Args :
       "general" \in a.capabilities /\ Len(a.gates) > 0 /\ a.gates[1] = "quality"

VARIABLES
  main,        \* per invocation: where main() is, its command, stop conditions
               \* added, exit code, and where it died if it did
  args,        \* arguments of the "run"
  registry, goal, plan, tasks, artifacts, reviews, approvals, escalations,
  events, run, calls, crashes,                       \* of Orchestrator
  budgets, reservations, conditions, packets, call, answer, orders, grants,
  paid, overrun, submissions                         \* of Institution

produced == <<goal, plan, tasks, artifacts, reviews, approvals, escalations,
              events, run, calls, crashes>>
orchestrator == <<registry, produced>>
institution == <<budgets, reservations, conditions, packets, call, answer,
                 orders, grants, paid, overrun, submissions>>
vars == <<main, args, orchestrator, institution>>

(***************************************************************************)
(* The parts.                                                              *)
(***************************************************************************)
DefaultAgent(role, capability) ==
  [role |-> role, caps |-> {capability}, tools |-> {}, domains |-> {},
   authority |-> FALSE, score |-> 1, enabled |-> TRUE]

DefaultProducer == DefaultAgent("production", "general")
DefaultReviewer == DefaultAgent("review", "quality")

(* default_planner: one task, with the goal's capabilities and gates.      *)
PlanFor(a) ==
  <<[id |-> 1, deps |-> {}, priority |-> 100, caps |-> a.capabilities,
     gates |-> a.gates]>>

O == INSTANCE Orchestrator WITH
  Plans <- {PlanFor(a) : a \in Args},
  MaxRevisions <- 2, MaxCandidates <- 10,
  Registry0 <- << >>,
  Offers <- AgentIds \X {DefaultProducer, DefaultReviewer},
  MaxCalls <- 1, MaxCrashes <- 1

(* Mutant: the goal is settled at no cost.                                 *)
RequestFree(a) ==
  [goal |-> a, flags |-> a.flags, cost |-> a.cost, budget |-> a.budget,
   actual |-> 0]

(* The goal and the context submit_and_run is given; it settles at the     *)
(* estimated cost.  A goal is told from others by its arguments.           *)
RequestFor(a) ==
  [goal |-> a, flags |-> a.flags, cost |-> a.cost, budget |-> a.budget,
   actual |-> a.cost]

ConditionRow(p, i) ==
  [id |-> <<p, i>>, field |-> StopFields[i], expected |-> TRUE,
   action |-> "escalate"]

I == INSTANCE Institution WITH
  Caller <- Runner, Goal <- Args, Budget <- Invocation,
  ConditionId <- Invocation \X DOMAIN StopFields, Field <- Flag,
  Requests <- {RequestFor(a) : a \in Args}, Settlements <- {},
  Conditions <- {ConditionRow(p, i) : p \in Invocation, i \in DOMAIN StopFields},
  Serialized <- FALSE, MaxCalls <- 1,
  goals <- [a \in Args |-> IF a # args THEN "none"
                           ELSE IF goal = "running" THEN "planned" ELSE goal],
  calls <- submissions

(***************************************************************************)
(* main() up to the dispatch.                                              *)
(***************************************************************************)
NoCode == 9  \* no exit code yet

Fresh == [pc |-> "idle", command |-> "none", added |-> 0, code |-> NoCode,
          died |-> "no"]

Init ==
  /\ main = [p \in Invocation |-> Fresh]
  /\ args \in Args
  /\ O!Init /\ I!Init

At(p, pc) == main[p].pc = pc
Goto(p, pc) == main' = [main EXCEPT ![p].pc = pc]
Exit(p, code) == main' = [main EXCEPT ![p].pc = "exit", ![p].code = code]

(* "events" only reads, like "status", and has no error for an unknown id. *)
Start(p, command) ==
  /\ At(p, "idle") /\ (command = "run") = (p \in Runner)
  /\ main' = [main EXCEPT ![p].pc = "agents", ![p].command = command]
  /\ UNCHANGED <<args, orchestrator, institution>>

(* Mutant: the stop conditions are only added to a database without agents. *)
ListAgentsOnly(p) ==
  /\ At(p, "agents")
  /\ IF DOMAIN registry = {} THEN Goto(p, "producer")
     ELSE main' = [main EXCEPT ![p].pc = "dispatch"]
  /\ UNCHANGED <<args, orchestrator, institution>>

(* _bootstrap_registry: the agents are listed, and only if there are none  *)
(* two are registered, in a transaction each.                              *)
ListAgents(p) ==
  /\ At(p, "agents")
  /\ Goto(p, IF DOMAIN registry = {} THEN "producer" ELSE "conditions")
  /\ UNCHANGED <<args, orchestrator, institution>>

RegisterFresh(profile) ==
  \E a \in AgentIds \ DOMAIN registry : O!Register(a, profile)

(* Mutant: no reviewer is registered.                                      *)
RegisterOne(p) ==
  /\ At(p, "producer") /\ Goto(p, "conditions")
  /\ RegisterFresh(DefaultProducer)
  /\ UNCHANGED <<args, institution>>

RegisterProducer(p) ==
  /\ At(p, "producer") /\ Goto(p, "reviewer")
  /\ RegisterFresh(DefaultProducer)
  /\ UNCHANGED <<args, institution>>

RegisterReviewer(p) ==
  /\ At(p, "reviewer") /\ Goto(p, "conditions")
  /\ RegisterFresh(DefaultReviewer)
  /\ UNCHANGED <<args, institution>>

(* The loop over the four stop conditions, each under a fresh id.          *)
AddCondition(p) ==
  LET n == main[p].added + 1 IN
  /\ At(p, "conditions")
  /\ UNCHANGED <<args, orchestrator>>
  /\ I!AddStopCondition(ConditionRow(p, n))
  /\ main' = [main EXCEPT ![p].added = n,
                          ![p].pc = IF n = Len(StopFields) THEN "dispatch" ELSE @]

(***************************************************************************)
(* The commands.                                                           *)
(***************************************************************************)
InitDatabase(p) ==
  /\ At(p, "dispatch") /\ main[p].command = "init"
  /\ Exit(p, 0)
  /\ UNCHANGED <<args, orchestrator, institution>>

CreateBudget(p, limit) ==
  /\ At(p, "dispatch") /\ main[p].command = "create-budget"
  /\ UNCHANGED <<args, orchestrator>>
  /\ I!CreateBudget(p, limit)
  /\ Exit(p, 0)

(* status() raises KeyError for an unknown goal.                           *)
Status(p) ==
  /\ At(p, "dispatch") /\ main[p].command = "status"
  /\ Exit(p, IF goal = "none" THEN 1 ELSE 0)
  /\ UNCHANGED <<args, orchestrator, institution>>

(***************************************************************************)
(* "run": submit_and_run.                                                  *)
(***************************************************************************)
Evaluate(p) ==
  /\ At(p, "dispatch") /\ main[p].command = "run" /\ Goto(p, "run")
  /\ UNCHANGED <<args, orchestrator>>
  /\ I!Evaluate(p, RequestFor(args))

(* What is left of evaluate().                                             *)
Govern(p) ==
  /\ At(p, "run") /\ UNCHANGED <<main, args, orchestrator>>
  /\ I!ReadBudget(p) \/ I!Reserve(p) \/ I!PersistPacket(p)

Submit(p) ==
  /\ At(p, "run") /\ UNCHANGED <<main, args>>
  /\ O!Submit(PlanFor(args)) /\ I!Submit(p)

CallRun(p) ==
  /\ At(p, "run") /\ I!At(p, "run")
  /\ O!Call(p)
  /\ UNCHANGED <<main, args, institution>>

(* WorkItemSpec refuses a blank title or description, which Goal takes.    *)
Unworkable(p) == args.blank /\ O!At(p, "loop") /\ run[p].pending # {}

Raise(p) ==
  /\ At(p, "run") /\ Unworkable(p)
  /\ UNCHANGED args
  /\ O!Crash(p) /\ I!Crash(p)
  /\ Exit(p, 1)

(* Mutant: run() waits for a reviewer to be registered.                    *)
WorkPatiently(p) ==
  /\ ~Unworkable(p)
  /\ \/ O!ReadCompleted(p) \/ O!Begin(p)
     \/ O!StartTask(p) \/ O!NoProducer(p)
     \/ O!Attempt(p) \/ O!Produce(p) \/ O!SubmitForReview(p)
     \/ O!Review(p, "approve")
     \/ O!Promote(p) \/ O!Canonize(p) \/ O!LogCompletion(p)
  /\ UNCHANGED <<main, args, institution>>

(* run() with the executors of cli.py: _review approves whatever _produce  *)
(* wrote, which is never empty.                                            *)
Work(p) ==
  /\ ~Unworkable(p)
  /\ \/ O!ReadCompleted(p) \/ O!Begin(p)
     \/ O!StartTask(p) \/ O!NoProducer(p)
     \/ O!Attempt(p) \/ O!Produce(p) \/ O!SubmitForReview(p)
     \/ O!Review(p, "approve") \/ O!NoReviewer(p)
     \/ O!Promote(p) \/ O!Canonize(p) \/ O!LogCompletion(p)
  /\ UNCHANGED <<main, args, institution>>

(* Mutant: the institution does not learn how run() ended.                 *)
FinishUntold(p) ==
  /\ O!FinishGoal(p) \/ O!Escalate(p)
  /\ UNCHANGED <<main, args, institution>>

(* run() returns with the goal settled.                                    *)
Finish(p) ==
  /\ UNCHANGED <<main, args>>
  /\ \/ O!FinishGoal(p) /\ I!Run(p, "canonical")
     \/ O!Escalate(p) /\ I!Run(p, "escalated")

Settle(p) ==
  /\ O!At(p, "idle") /\ UNCHANGED <<main, args, orchestrator>>
  /\ I!ReadReservation(p) \/ I!Pay(p)

(* Mutant: the exit code only tells a governance packet.                   *)
ReturnUnlessStopped(p) ==
  /\ At(p, "run") /\ I!At(p, "idle") /\ O!At(p, "idle")
  /\ Exit(p, IF packets = {} THEN 0 ELSE 2)
  /\ UNCHANGED <<args, orchestrator, institution>>

Return(p) ==
  /\ At(p, "run") /\ I!At(p, "idle") /\ O!At(p, "idle")
  /\ Exit(p, IF answer[p].status = "canonical" THEN 0 ELSE 2)
  /\ UNCHANGED <<args, orchestrator, institution>>

(* The process dies, or an exception nobody handles ends it.               *)
Crash(p) ==
  /\ main[p].pc \notin {"idle", "exit"} /\ UNCHANGED args
  /\ main' = [main EXCEPT ![p].pc = "exit", ![p].code = 1, ![p].died = main[p].pc]
  /\ IF p \in Runner /\ ~O!At(p, "idle") THEN O!Crash(p) ELSE UNCHANGED orchestrator
  /\ IF p \in Runner /\ ~I!At(p, "idle") THEN I!Crash(p) ELSE UNCHANGED institution

Continue(p) ==
  \/ ListAgents(p) \/ RegisterProducer(p) \/ RegisterReviewer(p) \/ AddCondition(p)
  \/ InitDatabase(p) \/ Status(p)
  \/ \E limit \in Limits : CreateBudget(p, limit)

ContinueRun(p) ==
  \/ Evaluate(p) \/ Govern(p) \/ Submit(p)
  \/ CallRun(p) \/ Raise(p) \/ Work(p) \/ Finish(p)
  \/ Settle(p) \/ Return(p)

Next ==
  \/ \E p \in Invocation :
       \/ \E command \in Command : Start(p, command)
       \/ Continue(p) \/ Crash(p)
  \/ \E p \in Runner : ContinueRun(p)

Spec == Init /\ [][Next]_vars

(* main() is sequential code between database calls.                       *)
FairSpec ==
  /\ Spec
  /\ \A p \in Invocation : WF_vars(Continue(p))
  /\ \A p \in Runner : WF_vars(ContinueRun(p))

(***************************************************************************)
(* Properties.                                                             *)
(***************************************************************************)

(* "A qualifying founder-only decision is stopped before execution"        *)
(* (README.md:71): a flagged goal is neither submitted nor given funds,    *)
(* whatever other invocations are doing to the tables, or left undone.     *)
FlaggedNeverStarts == args.flags # {} => goal = "none" /\ reservations = << >>

Staffed ==
  \A profile \in {DefaultProducer, DefaultReviewer} :
    \E a \in DOMAIN registry : registry[a] = profile

Unstaffed == {"idle", "agents", "producer", "reviewer"}

Bootstrapped(p) ==
  main[p].pc \notin Unstaffed /\ main[p].died \notin Unstaffed

(* "install the default demonstration producer and reviewer" (README.md:48): *)
(* an invocation that is past its bootstrap finds both, unless another one *)
(* is between the two registrations, or died there, which no later         *)
(* invocation makes good.                                                  *)
StaffedOrCutShort ==
  (\E p \in Invocation : Bootstrapped(p)) =>
    \/ Staffed
    \/ \E q \in Invocation : At(q, "reviewer") \/ main[q].died = "reviewer"

Funding == I!NeedsFunds(RequestFor(args))

(* The exit code of "run" is true of the tables: 0 says that the goal and  *)
(* all its tasks are canonical by reviewed artifacts, the log says so and  *)
(* the reservation is settled; 2, that there is an escalation or a packet  *)
(* for the founder to decide on; a goal left unfinished shows as neither.  *)
ExitTellsTheTruth ==
  \A p \in Runner :
    /\ main[p].code = 0 =>
         /\ goal = "canonical" /\ events[Len(events)] = "goal_completed"
         /\ \A t \in DOMAIN tasks : \E a \in DOMAIN artifacts :
              artifacts[a].task = t /\ artifacts[a].status = "canonical" /\ O!Reviewed(a)
         /\ Funding => reservations[args].status = "settled"
    /\ main[p].code = 2 =>
         \/ goal = "escalated" /\ escalations # << >>
         \/ goal = "none" /\ \E packet \in packets : packet.goal = args
    /\ At(p, "exit") /\ goal \in {"planned", "running"} => main[p].code = 1

(* Money and work agree across the two stores: a goal with a cost on a     *)
(* named budget produces nothing without that cost being held or paid (a   *)
(* cost without a budget is checked against nothing); only a canonical     *)
(* goal is paid for, once; and one that is canonical holds funds only      *)
(* while its invocation is about to settle, or died on the way there.      *)
FundsFollowWork ==
  \A b \in DOMAIN budgets :
    LET held == budgets[b].reserved
        spent == budgets[b].spent
    IN /\ artifacts # << >> /\ args.budget = b => held + spent = args.cost
       /\ spent > 0 => goal = "canonical" /\ spent = args.cost /\ held = 0
       /\ held > 0 /\ goal = "canonical" =>
            \E p \in Runner : At(p, "run") \/ main[p].died = "run"

(* Every invocation that was started ends, whatever the others do: none    *)
(* waits for agents, funds or a reviewer somebody else would have to give. *)
EveryInvocationEnds ==
  <>[](\A p \in Invocation : At(p, "idle") \/ At(p, "exit"))

(* The composition implements both parts: the one goal under               *)
(* GovernedOrchestrator, and the institution that is told its status.      *)
ImplementsParts == O!Spec /\ I!Spec

(***************************************************************************)
(* The inductive invariant behind FlaggedNeverStarts and StaffedOrCutShort. *)
(***************************************************************************)
Where == {"idle", "agents", "producer", "reviewer", "conditions", "dispatch",
          "run", "exit"}

MainTypeOK ==
  /\ main \in [Invocation ->
       [pc: Where, command: Command \union {"none"}, added: 0..Len(StopFields),
        code: {0, 1, 2, NoCode}, died: Where \union {"no"}]]
  /\ \A p \in Invocation : main[p].died # "no" => At(p, "exit")
  /\ args \in Args

(* The registry is never seen with agents but without a producer, and      *)
(* without a reviewer only as StaffedOrCutShort allows.                    *)
Registered(profile) == \E a \in DOMAIN registry : registry[a] = profile

RegistryFilled ==
  /\ \A p \in Invocation :
       At(p, "reviewer") \/ Bootstrapped(p) => Registered(DefaultProducer)
  /\ DOMAIN registry # {} =>
       /\ Registered(DefaultProducer)
       /\ \/ Registered(DefaultReviewer)
          \/ \E q \in Invocation : At(q, "reviewer") \/ main[q].died = "reviewer"

(* Whoever is past the loop has all four conditions in the table, each     *)
(* under an id nobody else replaces.                                       *)
ConditionsInPlace ==
  \A p \in Invocation :
    /\ \A i \in 1..main[p].added : ConditionRow(p, i) \in conditions
    /\ main[p].pc \in Unstaffed \union {"conditions"} => main[p].added < Len(StopFields)
    /\ main[p].pc \in {"dispatch", "run"} => main[p].added = Len(StopFields)

CallsTypeOK ==
  call \in [Runner -> {I!Idle} \union [pc: I!Pc, request: {RequestFor(args)}]]

(* A call of submit_and_run past the stop conditions, and a call of run()  *)
(* in it, are for an unflagged goal.                                       *)
CallsPassed ==
  \A p \in Runner :
    /\ call[p].pc \notin {"idle", "stop"} \/ run[p].pc # "idle" => args.flags = {}

(* run() works while submit_and_run waits for it, which it does until the  *)
(* goal is settled.                                                        *)
CallsNest ==
  \A p \in Runner :
    /\ run[p].pc \notin {"idle", "log"} => call[p].pc = "run"
    /\ call[p].pc = "run" => goal \in {"planned", "running"}

(* What main() of each invocation keeps, and the calls of the one "run".   *)
MainInv == MainTypeOK /\ RegistryFilled /\ ConditionsInPlace

CallInv == CallsTypeOK /\ CallsPassed /\ CallsNest /\ FlaggedNeverStarts

CInv == MainInv /\ StaffedOrCutShort /\ CallInv

(***************************************************************************)
(* The inductive invariant, relative to CInv, behind ExitTellsTheTruth and *)
(* FundsFollowWork.                                                        *)
(***************************************************************************)
Governing == {"stop", "fund", "reserve", "refuse", "submit"}

Held(status) ==
  /\ args \in DOMAIN reservations
  /\ reservations[args] = [budget |-> args.budget, amount |-> args.cost,
                           status |-> status]

Logged == events[Len(events)] = "goal_completed"

Decided ==
  \/ goal = "escalated" /\ escalations # << >>
  \/ goal = "none" /\ \E packet \in packets : packet.goal = args

Unstarted(p) == main[p].pc \notin {"run", "exit"}

(* How far "run" has got, and what it has left in the tables by then.      *)
StagesAgree ==
  \A p \in Runner :
    /\ main[p].pc # "idle" => main[p].command = "run"
    /\ main[p].pc # "run" => call[p].pc = "idle" /\ run[p].pc = "idle"
    /\ Unstarted(p) \/ call[p].pc \in Governing => goal = "none"
    /\ Unstarted(p) \/ call[p].pc \in Governing \ {"submit"} => DOMAIN reservations = {}
    /\ call[p].pc \in {"fund", "reserve", "refuse"} => Funding
    /\ call[p].pc = "reserve" => args.budget \in DOMAIN budgets
    /\ run[p].pc = "log" => call[p].pc = "settle"
    /\ call[p].pc \in {"settle", "pay"} => goal = "canonical"
    /\ call[p].pc = "pay" => Held("reserved")

(* What submit_and_run answered, the log and the exit code.                *)
OutcomeKnown ==
  \A p \in Runner :
    /\ At(p, "run") /\ call[p].pc = "idle" =>
         \/ /\ answer[p].status = "canonical" /\ goal = "canonical"
            /\ Funding => Held("settled")
         \/ answer[p].status = "escalated" /\ Decided
    /\ goal = "canonical" /\ run[p].pc = "idle" => Logged \/ main[p].died = "run"
    /\ main[p].code \in {0, 2} => At(p, "exit")
    /\ main[p].code = 0 => goal = "canonical" /\ Logged /\ (Funding => Held("settled"))
    /\ main[p].code = 2 => Decided
    /\ At(p, "exit") /\ goal \in {"planned", "running"} => main[p].code = 1

(* The one reservation, and the budgets as it leaves them.                 *)
AccountsKept ==
  /\ DOMAIN budgets \subseteq Invocation
  /\ budgets \in [DOMAIN budgets -> [limit: Nat, spent: Nat, reserved: Nat]]
  /\ \A b \in DOMAIN budgets :
       /\ budgets[b].spent = IF args.budget = b /\ Held("settled") THEN args.cost ELSE 0
       /\ budgets[b].reserved = IF args.budget = b /\ Held("reserved") THEN args.cost ELSE 0
  /\ DOMAIN reservations # {} =>
       /\ Held("reserved") \/ Held("settled")
       /\ Funding /\ args.budget \in DOMAIN budgets
  /\ Held("settled") => goal = "canonical"
  /\ Funding /\ (goal # "none" \/ \E p \in Runner : call[p].pc = "submit") =>
       DOMAIN reservations # {}
  /\ Held("reserved") /\ goal = "canonical" =>
       \E p \in Runner : At(p, "run") \/ main[p].died = "run"

RunInv == StagesAgree /\ OutcomeKnown /\ AccountsKept
(***************************************************************************)
(* How many steps an invocation may still take: behind EveryInvocationEnds *)
(* as far as that does not depend on fairness.                             *)
(***************************************************************************)
MostGates == Len(args.gates)
MostWork == O!PerTask(MostGates) + 4   \* O!PerCall, for a plan of one task

(* What is left of submit_and_run, the call of run() in it included.       *)
CallAhead(p) ==
  CASE call[p].pc = "idle"   -> 0
    [] call[p].pc = "pay"    -> 1
    [] call[p].pc = "settle" -> 2
    [] call[p].pc = "run"    -> 3
    [] call[p].pc = "submit" -> 4
    [] call[p].pc \in {"stop", "refuse", "reserve"} -> 5
    [] call[p].pc = "fund"   -> 6

WorkAhead(p) ==
  IF call[p].pc \in Governing \union {"run"} /\ O!At(p, "idle") THEN MostWork + 1
  ELSE O!StepsLeft(run[p], MostGates)

StepsAhead(p) ==
  CASE At(p, "exit") \/ At(p, "idle") -> 0
    [] At(p, "run") -> 1 + CallAhead(p) + WorkAhead(p)
    [] At(p, "dispatch")   -> MostWork + 9
    [] At(p, "conditions") -> MostWork + 9 + Len(StopFields) - main[p].added
    [] At(p, "reviewer")   -> MostWork + 14
    [] At(p, "producer")   -> MostWork + 15
    [] At(p, "agents")     -> MostWork + 16

(* A step of a started invocation leaves it fewer to take, of a number     *)
(* fixed by its gates when it started, and what others do adds none.       *)
Advances(p) ==
  /\ Continue(p) \/ (p \in Runner /\ ContinueRun(p)) => StepsAhead(p)' < StepsAhead(p)
  /\ (\E command \in Command : Start(p, command)) => StepsAhead(p)' = MostWork + 16
  /\ (\E command \in Command : Start(p, command)) \/ StepsAhead(p)' <= StepsAhead(p)

InvocationsAdvance == [][\A p \in Invocation : Advances(p)]_vars
==============================================================================
