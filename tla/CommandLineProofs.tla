--------------------------- MODULE CommandLineProofs ---------------------------
(***************************************************************************)
(* Invocations of the command line implement both parts they are composed  *)
(* of, so that what is proved of GovernedOrchestrator holds of the goal    *)
(* they run; a flagged goal never starts; the registry is staffed but for  *)
(* a bootstrap cut short; the exit code is true of the tables; and the     *)
(* funds follow the work.                                                  *)
(***************************************************************************)
EXTENDS CommandLine, TLAPS

P == INSTANCE OrchestratorProofs WITH
  Plans <- {PlanFor(a) : a \in Args},
  MaxRevisions <- 2, MaxCandidates <- 10,
  Registry0 <- << >>,
  Offers <- AgentIds \X {DefaultProducer, DefaultReviewer},
  MaxCalls <- 1, MaxCrashes <- 1

(* Nobody settles directly here: settle() ends with what submit_and_run    *)
(* answers.                                                                *)
LEMMA SettledReturns ==
  \A p : I!Settled(p) => I!Return(p, "canonical")
  BY DEF I!Settled

(***************************************************************************)
(* The goal under the orchestrator.                                        *)
(***************************************************************************)

(* The arguments of an invocation do not change.                           *)
LEMMA ArgsStay == Spec => [](args \in Args)
<1>1. Init => args \in Args
  BY DEF Init
<1>2. args \in Args /\ [Next]_vars => (args \in Args)'
  BY DEF Next, vars, Continue, ContinueRun, Start, ListAgents, RegisterProducer,
     RegisterReviewer, AddCondition, InitDatabase, Status, CreateBudget, Evaluate,
     Govern, Submit, CallRun, Raise, Work, Finish, Settle, Return, Crash
<1> QED BY <1>1, <1>2, PTL DEF Spec

LEMMA OfferedAgents ==
  ASSUME NEW a \in AgentIds, NEW profile \in {DefaultProducer, DefaultReviewer},
         O!Register(a, profile)
  PROVE  O!Next
<1>1. <<a, profile>> \in AgentIds \X {DefaultProducer, DefaultReviewer}
  OBVIOUS
<1> QED BY <1>1 DEF O!Next

LEMMA OrchestratorStep ==
  ASSUME args \in Args, [Next]_vars
  PROVE  [O!Next]_(O!vars)
<1> USE DEF orchestrator, produced, O!vars, O!database, O!counters
<1>1. CASE UNCHANGED vars
  BY <1>1 DEF vars
<1>2. ASSUME NEW p \in Invocation, NEW command \in Command, Start(p, command)
      PROVE  [O!Next]_(O!vars)
  BY <1>2 DEF Start
<1>3. ASSUME NEW p \in Invocation, Continue(p)
      PROVE  [O!Next]_(O!vars)
  <2>1. CASE RegisterProducer(p)
    BY <2>1, OfferedAgents DEF RegisterProducer, RegisterFresh
  <2>2. CASE RegisterReviewer(p)
    BY <2>2, OfferedAgents DEF RegisterReviewer, RegisterFresh
  <2>3. CASE ListAgents(p) \/ AddCondition(p) \/ InitDatabase(p) \/ Status(p)
             \/ \E limit \in Limits : CreateBudget(p, limit)
    BY <2>3 DEF ListAgents, AddCondition, InitDatabase, Status, CreateBudget
  <2> QED BY <1>3, <2>1, <2>2, <2>3 DEF Continue
<1>4. ASSUME NEW p \in Invocation, Crash(p)
      PROVE  [O!Next]_(O!vars)
  BY <1>4 DEF Crash, O!Next
<1>5. ASSUME NEW p \in Runner, ContinueRun(p)
      PROVE  [O!Next]_(O!vars)
  <2>1. CASE Evaluate(p) \/ Govern(p) \/ Settle(p) \/ Return(p)
    BY <2>1 DEF Evaluate, Govern, Settle, Return
  <2>2. CASE Submit(p)
    BY <2>2 DEF Submit, O!Next
  <2>3. CASE CallRun(p) \/ Raise(p)
    BY <2>3 DEF CallRun, Raise, O!Next
  <2>4. CASE Work(p)
    <3>1. "approve" \in O!Verdict
      BY DEF O!Verdict
    <3> QED BY <2>4, <3>1 DEF Work, O!Step, O!Next
  <2>5. CASE Finish(p)
    BY <2>5 DEF Finish, O!Step, O!Next
  <2> QED BY <1>5, <2>1, <2>2, <2>3, <2>4, <2>5 DEF ContinueRun
<1> QED BY <1>1, <1>2, <1>3, <1>4, <1>5 DEF Next

(* The one goal of the command line is a goal under GovernedOrchestrator,  *)
(* with agents that the bootstraps offer and one call of run().            *)
THEOREM GoalUnderOrchestrator == Spec => O!Spec
<1>1. Init => O!Init
  BY DEF Init
<1>2. args \in Args /\ [Next]_vars => [O!Next]_(O!vars)
  BY OrchestratorStep
<1> QED BY <1>1, <1>2, ArgsStay, PTL DEF Spec, O!Spec

(***************************************************************************)
(* What OrchestratorProofs proves, it proves of its own instance P of      *)
(* Orchestrator, which is the instance O of CommandLine.                   *)
(***************************************************************************)

LEMMA SameInit == O!Init <=> P!Init
  BY DEF O!Init, P!Init, O!IdleRun, P!IdleRun, O!NoTask, P!NoTask, O!NoAgent, P!NoAgent

LEMMA SameVars == O!vars = P!vars
  BY DEF O!vars, P!vars, O!database, P!database, O!counters, P!counters

LEMMA SameSelection ==
  ASSUME NEW reg, NEW q PROVE O!Selected(reg, q) = P!Selected(reg, q)
<1>1. O!Candidates(reg, q) = P!Candidates(reg, q)
  BY Zenon DEF O!Candidates, P!Candidates, O!Cardinality, P!Cardinality
<1>2. \A a : O!Eligible(reg, q, a) <=> P!Eligible(reg, q, a)
  BY DEF O!Eligible, P!Eligible, O!HasAuthority, P!HasAuthority, O!Independent,
     P!Independent, O!NoDomain, P!NoDomain, O!NoAgent, P!NoAgent
<1>3. O!EligibleCandidates(reg, q) = P!EligibleCandidates(reg, q)
  BY <1>1, <1>2 DEF O!EligibleCandidates, P!EligibleCandidates
<1> QED BY <1>3 DEF O!Selected, P!Selected, O!Precedes, P!Precedes

LEMMA SameRouting ==
  /\ \A t : O!Producers(t) = P!Producers(t)
  /\ \A r : O!Reviewers(r) = P!Reviewers(r)
  BY SameSelection DEF O!Producers, P!Producers, O!Reviewers, P!Reviewers, O!Gates,
     P!Gates, O!Request, P!Request, O!NoDomain, P!NoDomain, O!NoAgent, P!NoAgent

LEMMA SameStep ==
  ASSUME NEW r PROVE O!Step(r) <=> P!Step(r)
<1> USE DEF O!At, P!At, O!database, P!database, O!counters, P!counters
<1>1. /\ O!ReadCompleted(r) <=> P!ReadCompleted(r)
      /\ O!Begin(r) <=> P!Begin(r)
      /\ O!FinishGoal(r) <=> P!FinishGoal(r)
      /\ O!Produce(r) <=> P!Produce(r)
  BY DEF O!ReadCompleted, P!ReadCompleted, O!Begin, P!Begin, O!FinishGoal,
     P!FinishGoal, O!Produce, P!Produce
<1>2. /\ O!StartTask(r) <=> P!StartTask(r)
      /\ O!NoProducer(r) <=> P!NoProducer(r)
      /\ O!Blocked(r) <=> P!Blocked(r)
  BY SameRouting DEF O!StartTask, P!StartTask, O!NoProducer, P!NoProducer,
     O!Blocked, P!Blocked, O!Ready, P!Ready, O!Batch, P!Batch, O!FirstOf,
     P!FirstOf
<1>3. /\ O!Attempt(r) <=> P!Attempt(r)
      /\ O!SubmitForReview(r) <=> P!SubmitForReview(r)
      /\ O!Reject(r) <=> P!Reject(r)
      /\ O!Revise(r) <=> P!Revise(r)
  BY DEF O!Attempt, P!Attempt, O!SubmitForReview, P!SubmitForReview, O!Reject,
     P!Reject, O!Revise, P!Revise, O!SetTask, P!SetTask, O!AfterRevise,
     P!AfterRevise
<1>4. /\ O!LogCompletion(r) <=> P!LogCompletion(r)
      /\ O!FailGoal(r) <=> P!FailGoal(r)
      /\ O!Canonize(r) <=> P!Canonize(r)
      /\ O!Escalate(r) <=> P!Escalate(r)
  BY DEF O!LogCompletion, P!LogCompletion, O!FailGoal, P!FailGoal, O!Canonize,
     P!Canonize, O!Escalate, P!Escalate, O!SetTask, P!SetTask, O!IdleRun,
     P!IdleRun, O!NoTask, P!NoTask, O!NoAgent, P!NoAgent
<1>5. /\ O!NoReviewer(r) <=> P!NoReviewer(r)
      /\ O!Promote(r) <=> P!Promote(r)
  BY SameRouting DEF O!NoReviewer, P!NoReviewer, O!Promote, P!Promote,
     O!Gates, P!Gates
<1>6. \A verdict : O!Review(r, verdict) <=> P!Review(r, verdict)
  BY SameRouting DEF O!Review, P!Review, O!Gates, P!Gates, O!AfterVerdict,
     P!AfterVerdict
<1> QED BY <1>1, <1>2, <1>3, <1>4, <1>5, <1>6 DEF O!Step, P!Step, O!Verdict, P!Verdict

LEMMA SameCall ==
  ASSUME NEW r PROVE (O!Call(r) <=> P!Call(r)) /\ (O!Crash(r) <=> P!Crash(r))
  BY DEF O!Call, P!Call, O!Crash, P!Crash, O!IdleRun, P!IdleRun, O!NoTask,
     P!NoTask, O!NoAgent, P!NoAgent, O!At, P!At, O!database, P!database,
     O!counters, P!counters

LEMMA SameNext == [O!Next]_(O!vars) <=> [P!Next]_(P!vars)
<1> USE DEF O!At, P!At, O!database, P!database, O!counters, P!counters
<1>1. \A p : O!Submit(p) <=> P!Submit(p)
  BY DEF O!Submit, P!Submit, O!ValidPlan, P!ValidPlan, O!PlanIds, P!PlanIds,
     O!Resolved, P!Resolved, O!NoAgent, P!NoAgent
<1>3. \A a, profile : O!Register(a, profile) <=> P!Register(a, profile)
  BY DEF O!Register, P!Register
<1>4. O!Next <=> P!Next
  BY <1>1, <1>3, SameCall, SameStep DEF O!Next, P!Next
<1> QED BY <1>4, SameVars DEF O!vars, P!vars

LEMMA SameSpec == O!Spec <=> P!Spec
  BY SameInit, SameNext, PTL DEF O!Spec, P!Spec

(* The assumptions of Orchestrator hold of what the command line gives it. *)
LEMMA AssumptionsMet ==
  P!PlansAssumption /\ P!BoundsAssumption /\ P!RegistryAssumption
<1>1. P!PlansAssumption
  <2> SUFFICES ASSUME NEW a \in Args
               PROVE  PlanFor(a) \in Seq(P!PlannedTask)
    BY DEF P!PlansAssumption
  <2>1. a.capabilities \in SUBSET Capability /\ a.gates \in Seq(Capability)
    BY CommandLineAssumption DEF Arguments
  <2> QED BY <2>1 DEF PlanFor, P!PlannedTask, P!TaskId
<1>2. P!BoundsAssumption
  BY CommandLineAssumption DEF P!BoundsAssumption
<1>3. P!RegistryAssumption
  <2>1. {DefaultProducer, DefaultReviewer} \subseteq P!Profile
    <3>1. {"general"} \in SUBSET Capability /\ {"quality"} \in SUBSET Capability
      BY DefaultsAssumption
    <3> QED BY <3>1 DEF DefaultProducer, DefaultReviewer, DefaultAgent, P!Profile
  <2>2. AgentIds \subseteq P!AgentId
    BY CommandLineAssumption DEF P!AgentId
  <2> QED BY <2>1, <2>2 DEF P!RegistryAssumption
<1> QED BY <1>1, <1>2, <1>3

(* Run from the command line, a goal's canonical artifacts are reviewed at *)
(* every gate, by agents other than their author.                          *)
THEOREM GoalIsReviewed == Spec => []O!CanonicalArtifactsReviewed
<1>1. P!CanonicalArtifactsReviewed => O!CanonicalArtifactsReviewed
  BY DEF O!CanonicalArtifactsReviewed, P!CanonicalArtifactsReviewed, O!Reviewed,
     P!Reviewed, O!GatesOf, P!GatesOf, O!ReviewsOf, P!ReviewsOf
<1>2. P!Spec => []P!CanonicalArtifactsReviewed
  BY AssumptionsMet, P!OnlyReviewedIsCanonical
<1> QED BY <1>1, <1>2, GoalUnderOrchestrator, SameSpec, PTL

(***************************************************************************)
(* The inductive invariant.                                                *)
(***************************************************************************)

LEMMA InitCInv == Init => CInv
<1> SUFFICES ASSUME Init PROVE CInv
  OBVIOUS
<1> USE DEF Init
<1>1. MainTypeOK
  BY DEF MainTypeOK, At, Fresh, Where, NoCode, StopFields
<1>2. RegistryFilled /\ StaffedOrCutShort
  BY DEF RegistryFilled, StaffedOrCutShort, Bootstrapped, Unstaffed, At, Fresh, O!Init
<1>3. ConditionsInPlace
  BY DEF ConditionsInPlace, Fresh, Unstaffed, StopFields
<1>4. CallsTypeOK /\ CallsPassed /\ CallsNest
  BY DEF CallsTypeOK, CallsPassed, CallsNest, I!Init, O!Init, I!Idle, O!IdleRun
<1>5. FlaggedNeverStarts
  BY DEF FlaggedNeverStarts, O!Init, I!Init
<1> QED BY <1>1, <1>2, <1>3, <1>4, <1>5 DEF CInv, MainInv, CallInv

(* Registering a default agent takes no other agent's place.               *)
LEMMA RegisterFacts ==
  ASSUME NEW profile, RegisterFresh(profile)
  PROVE  /\ Registered(profile)'
         /\ DOMAIN registry' # {}
         /\ \A other : Registered(other) => Registered(other)'
  BY DEF RegisterFresh, O!Register, Registered

MainRecord == [pc: Where, command: Command \union {"none"}, added: 0..Len(StopFields),
               code: {0, 1, 2, NoCode}, died: Where \union {"no"}]

(* A step moves main() of p to pc, and neither adds a condition nor dies.  *)
Moved(p, pc) ==
  /\ main' \in [Invocation -> MainRecord]
  /\ main'[p].pc = pc /\ main'[p].added = main[p].added /\ main'[p].died = main[p].died
  /\ \A q \in Invocation \ {p} : main'[q] = main[q]

LEMMA MainMoves ==
  ASSUME MainTypeOK, NEW p \in Invocation
  PROVE  /\ \A pc \in Where : Goto(p, pc) => Moved(p, pc)
         /\ \A code \in {0, 1, 2} : Exit(p, code) => Moved(p, "exit")
         /\ \A command \in Command : Start(p, command) => Moved(p, "agents")
<1>0. main \in [Invocation -> MainRecord]
  BY DEF MainTypeOK, MainRecord
<1>1. ASSUME NEW pc \in Where, Goto(p, pc) PROVE Moved(p, pc)
  BY <1>0, <1>1 DEF Goto, Moved, MainRecord
<1>2. ASSUME NEW code \in {0, 1, 2}, Exit(p, code) PROVE Moved(p, "exit")
  BY <1>0, <1>2 DEF Exit, Moved, MainRecord, Where
<1>3. ASSUME NEW command \in Command, Start(p, command) PROVE Moved(p, "agents")
  BY <1>0, <1>3 DEF Start, Moved, MainRecord, Where
<1> QED BY <1>1, <1>2, <1>3

(* Moves that register nobody and leave the table of conditions as it is.  *)
LEMMA MovesKeepMainInv ==
  ASSUME MainInv, NEW p \in Invocation, NEW pc \in Where, Moved(p, pc),
         UNCHANGED <<args, registry, conditions>>,
         main[p].pc \notin {"reviewer", "exit"}, pc # "reviewer",
         pc \in Unstaffed \/ main[p].pc \notin Unstaffed \/ DOMAIN registry # {},
         pc \in Unstaffed \union {"conditions"} => main[p].pc \in Unstaffed,
         pc \in {"dispatch", "run"} => main[p].pc \in {"dispatch", "run"}
  PROVE  MainInv'
<1>1. MainTypeOK'
  BY DEF MainInv, MainTypeOK, Moved, MainRecord, At
<1>2. RegistryFilled'
  BY DEF MainInv, RegistryFilled, Registered, Moved, Bootstrapped, Unstaffed, At
<1>3. ConditionsInPlace'
  BY DEF MainInv, ConditionsInPlace, Moved, ConditionRow
<1> QED BY <1>1, <1>2, <1>3 DEF MainInv

LEMMA FilledIsStaffed == RegistryFilled => StaffedOrCutShort
  BY DEF RegistryFilled, StaffedOrCutShort, Staffed, Registered

LEMMA RegistrationsKeepMainInv ==
  ASSUME MainInv, NEW p \in Invocation, RegisterProducer(p) \/ RegisterReviewer(p)
  PROVE  MainInv'
<1>1. CASE RegisterProducer(p)
  <2>1. Moved(p, "reviewer") /\ main[p].pc = "producer"
    BY <1>1, MainMoves DEF MainInv, RegisterProducer, At, Where
  <2>2. Registered(DefaultProducer)' /\ (Registered(DefaultReviewer) => Registered(DefaultReviewer)')
    BY <1>1, RegisterFacts DEF RegisterProducer
  <2>3. UNCHANGED <<args, conditions>>
    BY <1>1 DEF RegisterProducer, institution
  <2>4. MainTypeOK'
    BY <2>1, <2>3 DEF MainInv, MainTypeOK, Moved, MainRecord, At
  <2>5. RegistryFilled'
    BY <2>1, <2>2 DEF MainInv, RegistryFilled, Moved, At
  <2>6. ConditionsInPlace'
    BY <2>1, <2>3 DEF MainInv, ConditionsInPlace, Moved, ConditionRow, Unstaffed
  <2> QED BY <2>4, <2>5, <2>6 DEF MainInv
<1>2. CASE RegisterReviewer(p)
  <2>1. Moved(p, "conditions") /\ main[p].pc = "reviewer"
    BY <1>2, MainMoves DEF MainInv, RegisterReviewer, At, Where
  <2>2. Registered(DefaultReviewer)' /\ (Registered(DefaultProducer) => Registered(DefaultProducer)')
    BY <1>2, RegisterFacts DEF RegisterReviewer
  <2>3. UNCHANGED <<args, conditions>>
    BY <1>2 DEF RegisterReviewer, institution
  <2>4. MainTypeOK'
    BY <2>1, <2>3 DEF MainInv, MainTypeOK, Moved, MainRecord, At
  <2>5. RegistryFilled'
    <3>1. Registered(DefaultProducer)
      BY <2>1 DEF MainInv, RegistryFilled, At
    <3> QED BY <2>2, <3>1 DEF RegistryFilled
  <2>6. ConditionsInPlace'
    BY <2>1, <2>3 DEF MainInv, ConditionsInPlace, Moved, ConditionRow, Unstaffed
  <2> QED BY <2>4, <2>5, <2>6 DEF MainInv
<1> QED BY <1>1, <1>2

LEMMA AddConditionKeepsMainInv ==
  ASSUME MainInv, NEW p \in Invocation, AddCondition(p)
  PROVE  MainInv'
<1> DEFINE n == main[p].added + 1
<1>1. main \in [Invocation -> MainRecord] /\ main[p].pc = "conditions"
  BY DEF MainInv, MainTypeOK, MainRecord, AddCondition, At
<1>2. n \in 1..4 /\ Len(StopFields) = 4
  BY <1>1 DEF MainInv, ConditionsInPlace, MainRecord, StopFields
<1>3. /\ main' \in [Invocation -> MainRecord]
      /\ main'[p].added = n /\ main'[p].died = main[p].died
      /\ main'[p].pc = IF n = 4 THEN "dispatch" ELSE "conditions"
      /\ \A q \in Invocation \ {p} : main'[q] = main[q]
  <2> DEFINE next == IF n = 4 THEN "dispatch" ELSE "conditions"
  <2>1. main' = [main EXCEPT ![p] = [main[p] EXCEPT !.added = n, !.pc = next]]
    BY <1>1, <1>2 DEF AddCondition
  <2>2. n \in 0..Len(StopFields) /\ next \in Where
    BY <1>2 DEF Where
  <2> HIDE DEF n, next
  <2>3. [main[p] EXCEPT !.added = n, !.pc = next] \in MainRecord
    BY <1>1, <2>2 DEF MainRecord
  <2> USE DEF n, next
  <2> QED BY <2>1, <2>3, <1>1, <1>2 DEF MainRecord
<1>4. conditions' = {s \in conditions : s.id # <<p, n>>} \union {ConditionRow(p, n)}
  BY DEF AddCondition, I!AddStopCondition, ConditionRow
<1>5. UNCHANGED <<args, registry>>
  BY DEF AddCondition, orchestrator
<1>6. MainTypeOK'
  BY <1>1, <1>3, <1>5 DEF MainInv, MainTypeOK, MainRecord, At
<1>7. RegistryFilled'
  BY <1>1, <1>3, <1>5 DEF MainInv, RegistryFilled, Registered, Bootstrapped, Unstaffed, At
<1>8. \A q \in Invocation : \A i \in 1..main'[q].added : ConditionRow(q, i) \in conditions'
  <2> SUFFICES ASSUME NEW q \in Invocation, NEW i \in 1..main'[q].added
               PROVE  ConditionRow(q, i) \in conditions'
    OBVIOUS
  <2>1. CASE q = p /\ i = n
    BY <2>1, <1>4
  <2>2. CASE ~(q = p /\ i = n)
    <3>1. i \in 1..main[q].added
      BY <2>2, <1>1, <1>2, <1>3 DEF MainRecord
    <3>2. ConditionRow(q, i) \in conditions
      BY <3>1 DEF MainInv, ConditionsInPlace
    <3>3. ConditionRow(q, i).id # <<p, n>>
      BY <2>2 DEF ConditionRow
    <3> QED BY <3>2, <3>3, <1>4
  <2> QED BY <2>1, <2>2
<1>9. ConditionsInPlace'
  <2> SUFFICES ASSUME NEW q \in Invocation
               PROVE  /\ main'[q].pc \in Unstaffed \union {"conditions"} =>
                           main'[q].added < Len(StopFields)
                      /\ main'[q].pc \in {"dispatch", "run"} =>
                           main'[q].added = Len(StopFields)
    BY <1>8 DEF ConditionsInPlace, ConditionRow
  <2> QED BY <1>1, <1>2, <1>3 DEF MainInv, ConditionsInPlace, Unstaffed
<1> QED BY <1>6, <1>7, <1>9 DEF MainInv

LEMMA CrashKeepsMainInv ==
  ASSUME MainInv, NEW p \in Invocation, Crash(p)
  PROVE  MainInv'
<1>1. main \in [Invocation -> MainRecord] /\ main[p].pc \notin {"idle", "exit"}
  BY DEF MainInv, MainTypeOK, MainRecord, Crash
<1>2. /\ main' \in [Invocation -> MainRecord]
      /\ main'[p].added = main[p].added /\ main'[p].died = main[p].pc
      /\ main'[p].pc = "exit"
      /\ \A q \in Invocation \ {p} : main'[q] = main[q]
  <2>1. main' = [main EXCEPT ![p] = [main[p] EXCEPT
                   !.pc = "exit", !.code = 1, !.died = main[p].pc]]
    BY <1>1 DEF Crash
  <2>2. [main[p] EXCEPT !.pc = "exit", !.code = 1, !.died = main[p].pc] \in MainRecord
    BY <1>1 DEF MainRecord, Where
  <2> QED BY <2>1, <2>2, <1>1 DEF MainRecord
<1>3. UNCHANGED <<args, registry, conditions>>
  BY DEF Crash, orchestrator, institution, O!Crash, I!Crash, I!store
<1>4. MainTypeOK'
  BY <1>1, <1>2, <1>3 DEF MainInv, MainTypeOK, MainRecord, At
<1>5. RegistryFilled'
  <2>1. \A q \in Invocation : At(q, "reviewer")' \/ Bootstrapped(q)' =>
          At(q, "reviewer") \/ Bootstrapped(q)
    BY <1>1, <1>2 DEF Bootstrapped, Unstaffed, At, MainInv, MainTypeOK
  <2>2. \A q \in Invocation : At(q, "reviewer") \/ main[q].died = "reviewer" =>
          At(q, "reviewer")' \/ main'[q].died = "reviewer"
    BY <1>1, <1>2 DEF At, MainInv, MainTypeOK
  <2> QED BY <1>3, <2>1, <2>2 DEF MainInv, RegistryFilled, Registered
<1>6. ConditionsInPlace'
  BY <1>2, <1>3 DEF MainInv, ConditionsInPlace, ConditionRow, Unstaffed
<1> QED BY <1>4, <1>5, <1>6 DEF MainInv

(* Steps of main() that are no moves.                                      *)
LEMMA RestKeepsMainInv ==
  ASSUME MainInv, UNCHANGED <<main, args, registry, conditions>>
  PROVE  MainInv'
BY DEF MainInv, MainTypeOK, RegistryFilled, Registered, Bootstrapped, ConditionsInPlace,
   ConditionRow, At

LEMMA ContinueKeepsMainInv ==
  ASSUME MainInv, NEW p \in Invocation,
         \/ \E command \in Command : Start(p, command)
         \/ Continue(p)
  PROVE  MainInv'
<1> USE DEF orchestrator, produced, institution, Unstaffed, At
<1>1. CASE \E command \in Command : Start(p, command)
  <2>1. Moved(p, "agents") /\ main[p].pc = "idle"
    BY <1>1, MainMoves DEF MainInv, Start
  <2>2. UNCHANGED <<args, registry, conditions>>
    BY <1>1 DEF Start
  <2> QED BY <2>1, <2>2, MovesKeepMainInv DEF Where
<1>2. CASE ListAgents(p)
  <2>1. UNCHANGED <<args, registry, conditions>> /\ main[p].pc = "agents"
    BY <1>2 DEF ListAgents
  <2>2. \/ Moved(p, "producer")
        \/ Moved(p, "conditions") /\ DOMAIN registry # {}
    BY <1>2, MainMoves DEF MainInv, ListAgents, Where
  <2> QED BY <2>1, <2>2, MovesKeepMainInv DEF Where
<1>3. CASE InitDatabase(p) \/ Status(p) \/ \E limit \in Limits : CreateBudget(p, limit)
  <2>1. Moved(p, "exit") /\ main[p].pc = "dispatch"
    BY <1>3, MainMoves DEF MainInv, InitDatabase, Status, CreateBudget
  <2>2. UNCHANGED <<args, registry, conditions>>
    BY <1>3 DEF InitDatabase, Status, CreateBudget, I!CreateBudget
  <2> QED BY <2>1, <2>2, MovesKeepMainInv DEF Where
<1> QED BY <1>1, <1>2, <1>3, RegistrationsKeepMainInv, AddConditionKeepsMainInv DEF Continue

LEMMA ContinueRunKeepsMainInv ==
  ASSUME MainInv, NEW p \in Runner, ContinueRun(p)
  PROVE  MainInv'
<1> USE DEF orchestrator, produced, institution, Unstaffed, At
<1>0. p \in Invocation
  BY CommandLineAssumption
<1>1. CASE Evaluate(p)
  <2>1. Moved(p, "run") /\ main[p].pc = "dispatch"
    BY <1>0, <1>1, MainMoves DEF MainInv, Evaluate, Where
  <2>2. UNCHANGED <<args, registry, conditions>>
    BY <1>1 DEF Evaluate, I!Evaluate, I!store
  <2> QED BY <1>0, <2>1, <2>2, MovesKeepMainInv DEF Where
<1>2. CASE Raise(p) \/ Return(p)
  <2>1. Moved(p, "exit")
    BY <1>0, <1>2, MainMoves DEF MainInv, Raise, Return
  <2>2. main[p].pc = "run"
    BY <1>2 DEF Raise, Return
  <2>3. UNCHANGED <<args, registry, conditions>>
    BY <1>2 DEF Raise, Return, O!Crash, I!Crash, I!store
  <2> QED BY <1>0, <2>1, <2>2, <2>3, MovesKeepMainInv DEF Where
<1>3. CASE Govern(p) \/ Submit(p) \/ CallRun(p) \/ Work(p) \/ Finish(p) \/ Settle(p)
  <2>1. UNCHANGED <<main, args>>
    BY <1>3 DEF Govern, Submit, CallRun, Work, Finish, Settle
  <2>2. UNCHANGED registry
    BY <1>3 DEF Govern, Submit, CallRun, Work, Finish, Settle, O!Submit, O!Call,
       O!ReadCompleted, O!Begin, O!StartTask, O!NoProducer, O!Attempt, O!Produce,
       O!SubmitForReview, O!Review, O!NoReviewer, O!Promote, O!Canonize,
       O!LogCompletion, O!FinishGoal, O!Escalate
  <2>3. UNCHANGED conditions
    BY <1>3 DEF Govern, Submit, CallRun, Work, Finish, Settle, I!ReadBudget, I!Reserve,
       I!PersistPacket, I!Submit, I!Run, I!ReadReservation, I!Pay, I!store
  <2> QED BY <2>1, <2>2, <2>3, RestKeepsMainInv
<1> QED BY <1>1, <1>2, <1>3 DEF ContinueRun

(***************************************************************************)
(* The calls of the one "run".                                             *)
(***************************************************************************)
RunTyped == run \in [Runner -> P!RunRecord]

LEMMA RestKeepsCallInv ==
  ASSUME CallInv, UNCHANGED <<args, goal, run, call, reservations>>
  PROVE  CallInv'
BY DEF CallInv, CallsTypeOK, CallsPassed, CallsNest, FlaggedNeverStarts, RequestFor

(* A new call's record, and what it takes to keep the invariant.           *)
LEMMA CallKeepsCallInv ==
  ASSUME CallInv, NEW p \in Runner, NEW new,
         new \in {I!Idle} \union [pc: I!Pc, request: {RequestFor(args)}],
         call' = [call EXCEPT ![p] = new],
         UNCHANGED <<args, run>>,
         new.pc \notin {"idle", "stop"} => args.flags = {},
         new.pc = "run" => goal' \in {"planned", "running"},
         run[p].pc \notin {"idle", "log"} => new.pc = "run",
         UNCHANGED <<goal, reservations>> \/ args.flags = {}
  PROVE  CallInv'
<1>1. call'[p] = new /\ \A q \in Runner : q = p
  BY CommandLineAssumption DEF CallInv, CallsTypeOK
<1>2. CallsTypeOK'
  BY <1>1 DEF CallInv, CallsTypeOK, RequestFor
<1>3. CallsPassed'
  BY <1>1 DEF CallInv, CallsPassed
<1>4. CallsNest'
  BY <1>1 DEF CallInv, CallsNest
<1>5. FlaggedNeverStarts'
  BY DEF CallInv, FlaggedNeverStarts
<1> QED BY <1>2, <1>3, <1>4, <1>5 DEF CallInv

(* With the four conditions in the table, a flagged goal is stopped.       *)
LEMMA FlaggedIsStopped ==
  ASSUME MainInv, NEW p \in Runner, main[p].pc = "dispatch", args.flags # {}
  PROVE  I!Stopped(RequestFor(args))
<1>1. p \in Invocation
  BY CommandLineAssumption
<1>2. PICK f \in Flag : f \in args.flags
  BY CommandLineAssumption DEF MainInv, MainTypeOK, Arguments
<1>3. PICK i \in DOMAIN StopFields : f = StopFields[i]
  BY <1>2 DEF Flag
<1>4. i \in 1..main[p].added
  BY <1>1 DEF MainInv, ConditionsInPlace, StopFields
<1>5. ConditionRow(p, i) \in conditions
  BY <1>1, <1>4 DEF MainInv, ConditionsInPlace
<1>6. f # "estimated_cost"
  BY <1>3 DEF StopFields
<1> QED BY <1>2, <1>3, <1>5, <1>6 DEF I!Stopped, I!Actual, ConditionRow, RequestFor

LEMMA EvaluateKeepsCallInv ==
  ASSUME MainInv, CallInv, NEW p \in Runner, Evaluate(p)
  PROVE  CallInv'
<1> DEFINE new == [pc |-> IF I!Stopped(RequestFor(args)) THEN "stop"
                          ELSE IF I!NeedsFunds(RequestFor(args)) THEN "fund" ELSE "submit",
                   request |-> RequestFor(args)]
<1>1. call' = [call EXCEPT ![p] = new] /\ call[p].pc = "idle"
  BY DEF Evaluate, I!Evaluate, I!At
<1>2. UNCHANGED <<args, run, goal, reservations>>
  BY DEF Evaluate, I!Evaluate, I!store, orchestrator, produced
<1>3. new.pc \notin {"idle", "stop"} => args.flags = {}
  BY FlaggedIsStopped DEF Evaluate, At
<1>4. new \in [pc: I!Pc, request: {RequestFor(args)}] /\ new.pc # "run"
  BY DEF I!Pc
<1>5. run[p].pc \in {"idle", "log"}
  BY <1>1 DEF CallInv, CallsNest
<1> HIDE DEF new
<1> QED BY <1>1, <1>2, <1>3, <1>4, <1>5, CallKeepsCallInv

(* Steps within evaluate() and settle(): the record moves on, or ends.     *)
LEMMA InstitutionKeepsCallInv ==
  ASSUME CallInv, NEW p \in Runner, Govern(p) \/ Settle(p)
  PROVE  CallInv'
<1> DEFINE Records == [pc: I!Pc, request: {RequestFor(args)}]
           moved(pc) == [call[p] EXCEPT !.pc = pc]
<1> USE DEF orchestrator, produced, I!At
<1>1. UNCHANGED <<args, run, goal>>
  BY DEF Govern, Settle
<1>2. run[p].pc \in {"idle", "log"} \/ call[p].pc = "run"
  BY DEF CallInv, CallsNest
<1>3. call[p].pc # "idle" => call[p] \in Records
  BY DEF CallInv, CallsTypeOK, I!Idle
<1>4. ASSUME NEW pc \in I!Pc \ {"run", "stop"}, I!Goto(p, pc), call[p].pc \notin {"idle", "stop", "run"}
      PROVE  CallInv'
  <2>1. moved(pc) \in Records /\ moved(pc).pc = pc
    BY <1>3, <1>4
  <2>2. call' = [call EXCEPT ![p] = moved(pc)] /\ args.flags = {}
    BY <1>4 DEF I!Goto, CallInv, CallsPassed
  <2> HIDE DEF moved
  <2> QED BY <1>1, <1>2, <1>4, <2>1, <2>2, CallKeepsCallInv
<1>5. ASSUME NEW status, I!Return(p, status), call[p].pc \notin {"idle", "run"},
             UNCHANGED reservations \/ args.flags = {}
      PROVE  CallInv'
  <2>1. call' = [call EXCEPT ![p] = I!Idle] /\ I!Idle.pc = "idle"
    BY <1>5 DEF I!Return, I!Idle
  <2> HIDE DEF I!Idle
  <2> QED BY <1>1, <1>2, <1>5, <2>1, CallKeepsCallInv
<1>6. call[p].pc \notin {"idle", "stop"} => args.flags = {}
  BY DEF CallInv, CallsPassed
<1>7. {"reserve", "refuse", "submit", "pay"} \subseteq I!Pc \ {"run", "stop"}
  BY DEF I!Pc
<1>8. CASE I!ReadBudget(p)
  BY <1>4, <1>7, <1>8 DEF I!ReadBudget
<1>9. CASE I!Reserve(p)
  BY <1>4, <1>7, <1>9 DEF I!Reserve
<1>10. CASE I!PersistPacket(p)
  BY <1>5, <1>10 DEF I!PersistPacket
<1>11. CASE I!ReadReservation(p)
  BY <1>4, <1>5, <1>7, <1>11, SettledReturns DEF I!ReadReservation, I!store
<1>12. CASE I!Pay(p)
  BY <1>5, <1>6, <1>12, SettledReturns DEF I!Pay
<1> QED BY <1>8, <1>9, <1>10, <1>11, <1>12 DEF Govern, Settle

LEMMA SubmitKeepsCallInv ==
  ASSUME CallInv, NEW p \in Runner, Submit(p)
  PROVE  CallInv'
<1> DEFINE new == [call[p] EXCEPT !.pc = "run"]
<1>1. call' = [call EXCEPT ![p] = new] /\ call[p].pc = "submit" /\ goal' = "planned"
  BY DEF Submit, I!Submit, I!Goto, I!At, O!Submit
<1>2. UNCHANGED <<args, run>>
  BY DEF Submit, O!Submit
<1>3. new \in [pc: I!Pc, request: {RequestFor(args)}] /\ new.pc = "run"
  BY <1>1 DEF CallInv, CallsTypeOK, I!Idle, I!Pc
<1>4. args.flags = {}
  BY <1>1 DEF CallInv, CallsPassed
<1> HIDE DEF new
<1> QED BY <1>1, <1>2, <1>3, <1>4, CallKeepsCallInv

(* What a step of run() does to the place run() is at.                     *)
LEMMA RunMoves ==
  ASSUME RunTyped, NEW p \in Runner,
         \/ CallRun(p) \/ Work(p)
  PROVE  /\ UNCHANGED <<args, call, reservations>>
         /\ DOMAIN run' = Runner
         /\ \/ CallRun(p) /\ call[p].pc = "run" /\ goal # "none"
            \/ run[p].pc \notin {"idle", "log"}
            \/ run[p].pc = "log" /\ run'[p].pc = "idle"
         /\ goal' \in {goal, "running"}
<1> USE DEF institution
<1>1. CASE CallRun(p)
  BY <1>1 DEF CallRun, O!Call, I!At, RunTyped, O!database, O!vars
<1>2. CASE Work(p)
  <2>1. UNCHANGED <<args, call, reservations>>
    BY <1>2 DEF Work
  <2>2. CASE O!LogCompletion(p)
    BY <2>1, <2>2 DEF O!LogCompletion, O!At, O!IdleRun, RunTyped
  <2>3. CASE O!ReadCompleted(p) \/ O!Begin(p) \/ O!StartTask(p) \/ O!NoProducer(p)
             \/ O!Attempt(p) \/ O!Produce(p) \/ O!SubmitForReview(p)
    BY <2>1, <2>3 DEF O!ReadCompleted, O!Begin, O!StartTask, O!NoProducer, O!Attempt,
       O!Produce, O!SubmitForReview, O!At, RunTyped
  <2>4. CASE O!Review(p, "approve") \/ O!NoReviewer(p) \/ O!Promote(p) \/ O!Canonize(p)
    BY <2>1, <2>4 DEF O!Review, O!NoReviewer, O!Promote, O!Canonize, O!At, RunTyped
  <2> QED BY <1>2, <2>2, <2>3, <2>4 DEF Work
<1> QED BY <1>1, <1>2

LEMMA RunKeepsCallInv ==
  ASSUME CallInv, RunTyped, NEW p \in Runner, CallRun(p) \/ Work(p)
  PROVE  CallInv'
<1>1. \A q \in Runner : q = p
  BY CommandLineAssumption
<1>2. CallsTypeOK'
  BY RunMoves DEF CallInv, CallsTypeOK, RequestFor
<1>3. args.flags = {} /\ (call[p].pc = "run" \/ run'[p].pc = "idle")
  BY RunMoves DEF CallInv, CallsPassed, CallsNest
<1>4. CallsPassed' /\ FlaggedNeverStarts'
  BY <1>1, <1>3, RunMoves DEF CallInv, CallsPassed, FlaggedNeverStarts
<1>5. CallsNest'
  BY <1>1, <1>3, RunMoves DEF CallInv, CallsNest
<1> QED BY <1>2, <1>4, <1>5 DEF CallInv

LEMMA FinishKeepsCallInv ==
  ASSUME CallInv, RunTyped, NEW p \in Runner, Finish(p)
  PROVE  CallInv'
<1>1. \A q \in Runner : q = p
  BY CommandLineAssumption
<1>2. args.flags = {} /\ UNCHANGED args /\ call[p].pc = "run"
  BY DEF Finish, O!FinishGoal, O!Escalate, O!At, I!Run, I!At, CallInv, CallsPassed
<1>3. run'[p].pc \in {"log", "idle"}
  <2>1. CASE O!FinishGoal(p)
    <3>1. run[p] \in P!RunRecord
      BY DEF RunTyped
    <3>2. [run[p] EXCEPT !.pc = "log"].pc = "log"
      BY <3>1 DEF P!RunRecord
    <3>3. run' = [run EXCEPT ![p] = [run[p] EXCEPT !.pc = "log"]]
      BY <2>1 DEF O!FinishGoal
    <3> QED BY <3>2, <3>3 DEF RunTyped
  <2>2. CASE O!Escalate(p)
    BY <2>2 DEF O!Escalate, O!IdleRun, RunTyped
  <2> QED BY <2>1, <2>2 DEF Finish
<1>4. /\ call'[p].pc \in {"settle", "idle"}
      /\ call' \in [Runner -> {I!Idle} \union [pc: I!Pc, request: {RequestFor(args)}]]
  <2>1. call[p] \in [pc: I!Pc, request: {RequestFor(args)}]
    BY <1>2 DEF CallInv, CallsTypeOK, I!Idle
  <2>2. [call[p] EXCEPT !.pc = "settle"] \in [pc: I!Pc, request: {RequestFor(args)}]
    BY <2>1 DEF I!Pc
  <2>3. call' = [call EXCEPT ![p] = [call[p] EXCEPT !.pc = "settle"]]
        \/ call' = [call EXCEPT ![p] = I!Idle]
    BY DEF Finish, I!Run, I!Goto, I!Return
  <2>4. I!Idle.pc = "idle"
    BY DEF I!Idle
  <2> HIDE DEF I!Idle
  <2> QED BY <2>1, <2>2, <2>3, <2>4 DEF CallInv, CallsTypeOK
<1>5. CallsTypeOK' /\ CallsPassed' /\ CallsNest' /\ FlaggedNeverStarts'
  BY <1>1, <1>2, <1>3, <1>4 DEF CallsTypeOK, CallsPassed, CallsNest, FlaggedNeverStarts, RequestFor
<1> QED BY <1>5 DEF CallInv

LEMMA DeathKeepsCallInv ==
  ASSUME CallInv, RunTyped, NEW p \in Invocation, Crash(p) \/ (p \in Runner /\ Raise(p))
  PROVE  CallInv'
<1> USE DEF orchestrator, produced, institution
<1>1. UNCHANGED <<args, goal, reservations>>
  BY DEF Crash, Raise, O!Crash, I!Crash, I!store
<1>2. /\ run' = run \/ (p \in Runner /\ run' = [run EXCEPT ![p] = O!IdleRun])
      /\ call' = call \/ (p \in Runner /\ call' = [call EXCEPT ![p] = I!Idle])
  <2>1. CASE Crash(p)
    <3>1. run' = run \/ (p \in Runner /\ O!Crash(p))
      <4>1. (p \in Runner /\ O!Crash(p)) \/ UNCHANGED orchestrator
        BY <2>1, Zenon DEF Crash
      <4> QED BY <4>1
    <3>2. call' = call \/ (p \in Runner /\ I!Crash(p))
      <4>1. (p \in Runner /\ I!Crash(p)) \/ UNCHANGED institution
        BY <2>1, Zenon DEF Crash
      <4> QED BY <4>1
    <3> QED BY <3>1, <3>2 DEF O!Crash, I!Crash
  <2>2. CASE p \in Runner /\ Raise(p)
    BY <2>2 DEF Raise, O!Crash, I!Crash
  <2> QED BY <2>1, <2>2
<1>3. p \in Runner => run'[p].pc = "idle"
  BY DEF Crash, Raise, O!Crash, O!At, O!IdleRun, RunTyped
<1>4. p \in Runner => call'[p].pc = "idle"
  BY DEF Crash, Raise, I!Crash, I!At, I!Idle, CallInv, CallsTypeOK
<1>5. CASE p \notin Runner
  BY <1>1, <1>2, <1>5, RestKeepsCallInv
<1>6. CASE p \in Runner
  <2>1. \A q \in Runner : q = p
    BY <1>6, CommandLineAssumption
  <2>2. CallsTypeOK'
    BY <1>1, <1>2 DEF CallInv, CallsTypeOK, RequestFor
  <2>3. CallsPassed' /\ CallsNest' /\ FlaggedNeverStarts'
    BY <1>1, <1>3, <1>4, <1>6, <2>1 DEF CallInv, CallsPassed, CallsNest, FlaggedNeverStarts
  <2> QED BY <2>2, <2>3 DEF CallInv
<1> QED BY <1>5, <1>6

LEMMA StepKeepsCallInv ==
  ASSUME MainInv, CallInv, RunTyped, [Next]_vars
  PROVE  CallInv'
<1> USE DEF orchestrator, produced, institution
<1>1. CASE UNCHANGED vars
  BY <1>1, RestKeepsCallInv DEF vars
<1>2. ASSUME NEW p \in Invocation, (\E command \in Command : Start(p, command)) \/ Continue(p)
      PROVE  CallInv'
  <2>1. UNCHANGED <<args, goal, run, call, reservations>>
    BY <1>2 DEF Start, Continue, ListAgents, RegisterProducer, RegisterReviewer, RegisterFresh,
       AddCondition, InitDatabase, Status, CreateBudget, O!Register, O!database, O!counters,
       I!AddStopCondition, I!CreateBudget
  <2> QED BY <2>1, RestKeepsCallInv
<1>3. ASSUME NEW p \in Invocation, Crash(p)
      PROVE  CallInv'
  BY <1>3, DeathKeepsCallInv
<1>4. ASSUME NEW p \in Runner, ContinueRun(p)
      PROVE  CallInv'
  <2>1. CASE Raise(p)
    BY <2>1, DeathKeepsCallInv, CommandLineAssumption
  <2>2. CASE Return(p)
    BY <2>2, RestKeepsCallInv DEF Return
  <2> QED BY <1>4, <2>1, <2>2, EvaluateKeepsCallInv, InstitutionKeepsCallInv, SubmitKeepsCallInv,
             RunKeepsCallInv, FinishKeepsCallInv DEF ContinueRun
<1> QED BY <1>1, <1>2, <1>3, <1>4 DEF Next

LEMMA StepKeepsMainInv ==
  ASSUME MainInv, [Next]_vars
  PROVE  MainInv'
<1>1. CASE UNCHANGED vars
  BY <1>1, RestKeepsMainInv DEF vars, orchestrator, institution
<1> QED BY <1>1, ContinueKeepsMainInv, ContinueRunKeepsMainInv, CrashKeepsMainInv DEF Next

LEMMA RunTypeOK == Spec => []RunTyped
<1>1. P!TypeOK => RunTyped
  BY DEF P!TypeOK, RunTyped
<1>2. P!Spec => []P!TypeOK
  BY AssumptionsMet, P!TypeCorrectness
<1> QED BY <1>1, <1>2, GoalUnderOrchestrator, SameSpec, PTL

(* Whatever the invocations do to each other, and wherever they die: the   *)
(* conditions somebody added stay, agents are registered in the order of   *)
(* the bootstrap, and the calls of "run" nest.                             *)
THEOREM CommandInvariance == Spec => []CInv
<1>1. Init => MainInv /\ CallInv
  BY InitCInv DEF CInv
<1>2. MainInv /\ CallInv /\ RunTyped /\ [Next]_vars => MainInv' /\ CallInv'
  BY StepKeepsMainInv, StepKeepsCallInv
<1>3. MainInv /\ CallInv => CInv
  BY FilledIsStaffed DEF CInv, MainInv
<1> QED BY <1>1, <1>2, <1>3, RunTypeOK, PTL DEF Spec

(* No goal flagged as a founder's decision is submitted or given funds.    *)
THEOREM FlaggedGoalsAreStopped == Spec => []FlaggedNeverStarts
<1>1. CInv => FlaggedNeverStarts
  BY DEF CInv, CallInv
<1> QED BY <1>1, CommandInvariance, PTL

(* An invocation finds both default agents, but for a bootstrap that is    *)
(* under way or died between the two registrations.                        *)
THEOREM BootstrapStaffs == Spec => []StaffedOrCutShort
<1>1. CInv => StaffedOrCutShort
  BY DEF CInv
<1> QED BY <1>1, CommandInvariance, PTL

(***************************************************************************)
(* The goal under the institution.                                         *)
(***************************************************************************)

(* What the institution sees of the goal's status.                         *)
LEMMA SeenStatus ==
  ASSUME UNCHANGED args,
         goal' = goal \/ (goal \in {"planned", "running"} /\ goal' \in {"planned", "running"})
  PROVE  [a \in Args |-> IF a # args THEN "none" ELSE IF goal = "running" THEN "planned" ELSE goal]'
         = [a \in Args |-> IF a # args THEN "none" ELSE IF goal = "running" THEN "planned" ELSE goal]
  OBVIOUS

LEMMA InstitutionRests ==
  ASSUME UNCHANGED <<args, institution>>,
         goal' = goal \/ (goal \in {"planned", "running"} /\ goal' \in {"planned", "running"})
  PROVE  UNCHANGED I!vars
  BY SeenStatus DEF institution, I!vars, I!store, I!history

LEMMA InstitutionStep ==
  ASSUME CInv, RunTyped, [Next]_vars
  PROVE  [I!Next]_(I!vars)
<1> USE DEF orchestrator, produced, MainInv, CallInv
<1>1. CASE UNCHANGED vars
  BY <1>1, InstitutionRests DEF vars
<1>2. ASSUME NEW p \in Invocation, NEW command \in Command, Start(p, command)
      PROVE  [I!Next]_(I!vars)
  BY <1>2, InstitutionRests DEF Start
<1>3. ASSUME NEW p \in Invocation, Continue(p)
      PROVE  [I!Next]_(I!vars)
  <2>1. CASE AddCondition(p)
    <3>1. main[p].added + 1 \in DOMAIN StopFields
      BY <2>1 DEF CInv, ConditionsInPlace, AddCondition, At, StopFields, MainTypeOK
    <3>2. ConditionRow(p, main[p].added + 1) \in
            {ConditionRow(q, i) : q \in Invocation, i \in DOMAIN StopFields}
      BY <3>1
    <3> QED BY <2>1, <3>2 DEF AddCondition, I!Next
  <2>2. CASE \E limit \in Limits : CreateBudget(p, limit)
    BY <2>2 DEF CreateBudget, I!Next
  <2>3. CASE RegisterProducer(p) \/ RegisterReviewer(p)
    <3>1. UNCHANGED <<args, institution, goal>>
      BY <2>3 DEF RegisterProducer, RegisterReviewer, RegisterFresh, O!Register
    <3> QED BY <3>1, InstitutionRests
  <2>4. CASE ListAgents(p) \/ InitDatabase(p) \/ Status(p)
    BY <2>4, InstitutionRests DEF ListAgents, InitDatabase, Status
  <2> QED BY <1>3, <2>1, <2>2, <2>3, <2>4 DEF Continue
<1>4. ASSUME NEW p \in Invocation, Crash(p)
      PROVE  [I!Next]_(I!vars)
  <2>1. (p \in Runner /\ I!Crash(p)) \/ UNCHANGED institution
    BY <1>4, Zenon DEF Crash
  <2>2. UNCHANGED <<args, goal>>
    BY <1>4 DEF Crash, O!Crash
  <2>3. CASE UNCHANGED institution
    BY <2>2, <2>3, InstitutionRests
  <2>4. CASE p \in Runner /\ I!Crash(p)
    BY <2>4 DEF I!Next, I!Step
  <2> QED BY <2>1, <2>3, <2>4
<1>5. ASSUME NEW p \in Runner, ContinueRun(p)
      PROVE  [I!Next]_(I!vars)
  <2>1. RequestFor(args) \in {RequestFor(a) : a \in Args}
    BY DEF CInv, MainTypeOK
  <2>2. CASE Evaluate(p)
    BY <2>1, <2>2 DEF Evaluate, I!Next, I!Step
  <2>3. CASE Govern(p) \/ Submit(p) \/ Raise(p) \/ Settle(p)
    BY <2>3 DEF Govern, Submit, Raise, Settle, I!Next, I!Step
  <2>4. CASE Return(p)
    BY <2>4, InstitutionRests DEF Return
  <2>5. CASE CallRun(p)
    BY <2>5, InstitutionRests DEF CallRun, O!Call
  <2>6. CASE Work(p)
    <3>1. goal' = goal \/ (goal' = "running" /\ O!Begin(p))
      BY <2>6 DEF Work, O!ReadCompleted, O!StartTask, O!NoProducer, O!Attempt, O!Produce,
         O!SubmitForReview, O!Review, O!NoReviewer, O!Promote, O!Canonize, O!LogCompletion, O!Begin
    <3>2. O!Begin(p) => goal \in {"planned", "running"}
      BY DEF O!Begin, O!At, CInv, CallsNest
    <3> QED BY <2>6, <3>1, <3>2, InstitutionRests DEF Work
  <2>7. CASE Finish(p)
    BY <2>7 DEF Finish, I!Next, I!Step
  <2> QED BY <1>5, <2>2, <2>3, <2>4, <2>5, <2>6, <2>7 DEF ContinueRun
<1> QED BY <1>1, <1>2, <1>3, <1>4, <1>5 DEF Next

(* Invocations of the command line implement both parts: the goal lives    *)
(* under GovernedOrchestrator, and under an institution that sees only the *)
(* status it settles at.                                                   *)
THEOREM CompositionImplementsParts == Spec => ImplementsParts
<1>1. Init => I!Init
  BY DEF Init
<1>2. CInv /\ RunTyped /\ [Next]_vars => [I!Next]_(I!vars)
  BY InstitutionStep
<1>3. Spec => I!Spec
  BY <1>1, <1>2, CommandInvariance, RunTypeOK, PTL DEF Spec, I!Spec
<1> QED BY <1>3, GoalUnderOrchestrator DEF ImplementsParts

(***************************************************************************)
(* The exit code and the funds.                                            *)
(***************************************************************************)

(* The logs are sequences; everybody has an answer, if only none yet.      *)
LogsTyped ==
  /\ \E S : events \in Seq(S)
  /\ \E S : escalations \in Seq(S)
  /\ DOMAIN answer = Runner

LEMMA HeldStays ==
  ASSUME UNCHANGED <<args, reservations>>
  PROVE  \A status : Held(status)' <=> Held(status)
BY DEF Held

LEMMA InitRunInv == Init => RunInv
<1> SUFFICES ASSUME Init PROVE RunInv
  OBVIOUS
<1> USE DEF Init, O!Init, I!Init, Fresh, At
<1>1. \A p \in Runner : main[p] = Fresh /\ call[p].pc = "idle" /\ run[p].pc = "idle"
  BY CommandLineAssumption DEF I!Idle, O!IdleRun
<1>2. DOMAIN reservations = {} /\ goal = "none"
  OBVIOUS
<1>4. StagesAgree
  BY <1>1, <1>2 DEF StagesAgree, Unstarted, Governing
<1>5. OutcomeKnown
  BY <1>1, <1>2 DEF OutcomeKnown, NoCode
<1>3. AccountsKept
  <2>1. \A status : ~Held(status)
    BY DEF Held
  <2>2. DOMAIN reservations = {} /\ DOMAIN budgets = {} /\ goal = "none"
    OBVIOUS
  <2>3. \A p \in Runner : call[p].pc # "submit"
    BY DEF I!Idle
  <2> QED BY <2>1, <2>2, <2>3 DEF AccountsKept
<1> QED BY <1>3, <1>4, <1>5 DEF RunInv

(* A step that leaves the run where it is, or moves it on in main().       *)
LEMMA MainKeepsRunInv ==
  ASSUME RunInv, UNCHANGED <<args, goal, run, call, answer, escalations, events,
                             packets, reservations>>,
         \/ UNCHANGED budgets
         \/ \E b \in Invocation, limit \in Limits : I!CreateBudget(b, limit),
         \A p \in Runner :
           \/ main'[p] = main[p]
           \/ /\ main[p].pc \notin {"run", "exit"} /\ main'[p].pc \notin {"run", "exit"}
              /\ main'[p].command = "run"
              /\ main'[p].code = main[p].code /\ main'[p].died = main[p].died
  PROVE  RunInv'
<1>1. \A status : Held(status)' <=> Held(status)
  BY HeldStays
<1>2. StagesAgree'
  <2>1. DOMAIN budgets \subseteq DOMAIN budgets'
    BY DEF I!CreateBudget
  <2> QED BY <1>1, <2>1 DEF RunInv, StagesAgree, Unstarted, Governing, Funding,
     RequestFor, I!NeedsFunds
<1>3. OutcomeKnown'
  BY <1>1 DEF RunInv, StagesAgree, OutcomeKnown, Unstarted, Governing, Funding,
     RequestFor, I!NeedsFunds,
     At, Logged, Decided
<1>4. AccountsKept'
  <2>1. /\ DOMAIN budgets' \subseteq Invocation
        /\ budgets' \in [DOMAIN budgets' -> [limit: Nat, spent: Nat, reserved: Nat]]
        /\ DOMAIN budgets \subseteq DOMAIN budgets'
        /\ \A b \in DOMAIN budgets' :
             \/ b \in DOMAIN budgets /\ budgets'[b] = budgets[b]
             \/ b \notin DOMAIN budgets /\ budgets'[b].spent = 0 /\ budgets'[b].reserved = 0
    <3>1. CASE UNCHANGED budgets
      BY <3>1 DEF RunInv, AccountsKept
    <3>2. ASSUME NEW b \in Invocation, NEW limit \in Limits, I!CreateBudget(b, limit)
          PROVE  <2>1!:
      <4>1. [limit |-> limit, spent |-> 0, reserved |-> 0] \in [limit: Nat, spent: Nat, reserved: Nat]
        BY CommandLineAssumption
      <4> QED BY <3>2, <4>1 DEF RunInv, AccountsKept, I!CreateBudget
    <3> QED BY <3>1, <3>2
  <2>2. \A b \in DOMAIN budgets' :
          /\ budgets'[b].spent = IF args.budget = b /\ Held("settled") THEN args.cost ELSE 0
          /\ budgets'[b].reserved = IF args.budget = b /\ Held("reserved") THEN args.cost ELSE 0
    <3>1. \A status : Held(status) => args.budget \in DOMAIN budgets
      BY DEF Held, RunInv, AccountsKept
    <3> QED BY <2>1, <3>1 DEF RunInv, AccountsKept
  <2>3. Held("reserved") /\ goal = "canonical" =>
          \E p \in Runner : At(p, "run")' \/ main'[p].died = "run"
    BY DEF RunInv, AccountsKept, StagesAgree, At, Unstarted
  <2> QED BY <1>1, <2>1, <2>2, <2>3 DEF RunInv, AccountsKept, Funding, RequestFor,
     I!NeedsFunds
<1> QED BY <1>2, <1>3, <1>4 DEF RunInv

LEMMA DeathKeepsRunInv ==
  ASSUME RunInv, CallInv, MainTypeOK, RunTyped, NEW p \in Runner, Crash(p) \/ Raise(p)
  PROVE  RunInv'
<1> USE DEF orchestrator, produced, institution
<1>1. /\ UNCHANGED <<args, goal, answer, escalations, events, packets, reservations,
                     budgets>>
      /\ call'[p].pc = "idle" /\ run'[p].pc = "idle"
  <2>1. UNCHANGED <<args, goal, answer, escalations, events, packets, reservations,
                    budgets>>
    BY DEF Crash, Raise, O!Crash, I!Crash, O!database, I!store
  <2>2. run'[p].pc = "idle"
    BY DEF Crash, Raise, O!Crash, O!At, O!IdleRun, RunTyped
  <2>3. call'[p].pc = "idle"
    BY DEF Crash, Raise, I!Crash, I!At, I!Idle, CallInv, CallsTypeOK
  <2> QED BY <2>1, <2>2, <2>3
<1>2. /\ main'[p].pc = "exit" /\ main'[p].code = 1 /\ main'[p].command = main[p].command
      /\ main[p].pc \notin {"idle", "exit"}
      /\ main'[p].died = "run" \/ main[p].pc # "run" \/ goal # "canonical"
  <2>1. main[p] \in MainRecord /\ main \in [Invocation -> MainRecord] /\ p \in Invocation
    BY CommandLineAssumption DEF MainTypeOK, MainRecord
  <2>2. CASE Crash(p)
    BY <2>1, <2>2 DEF Crash, MainRecord
  <2>3. CASE Raise(p)
    <3>1. goal # "canonical"
      BY <2>3 DEF Raise, Unworkable, O!At, CallInv, CallsNest
    <3> QED BY <2>1, <2>3, <3>1 DEF Raise, Exit, At, MainRecord
  <2> QED BY <2>2, <2>3
<1>3. \A q \in Runner : q = p
  BY CommandLineAssumption
<1>4. \A status : Held(status)' <=> Held(status)
  BY <1>1, HeldStays
<1>5. StagesAgree'
  BY <1>1, <1>2, <1>3, <1>4 DEF RunInv, StagesAgree, Unstarted, Governing
<1>6. OutcomeKnown'
  BY <1>1, <1>2, <1>3, <1>4 DEF RunInv, StagesAgree, OutcomeKnown, Unstarted, At, Logged,
     Decided, Funding,
     RequestFor, I!NeedsFunds
<1>7. AccountsKept'
  BY <1>1, <1>2, <1>3, <1>4 DEF RunInv, StagesAgree, AccountsKept, Unstarted, At, Funding,
     RequestFor, I!NeedsFunds
<1> QED BY <1>5, <1>6, <1>7 DEF RunInv

(* evaluate()                                                              *)
LEMMA EvaluateKeepsRunInv ==
  ASSUME RunInv, CallInv, MainTypeOK, NEW p \in Runner, Evaluate(p)
  PROVE  RunInv'
<1>1. /\ UNCHANGED <<args, goal, run, answer, escalations, events, packets, reservations,
                     budgets>>
      /\ main[p].pc = "dispatch" /\ call[p].pc = "idle"
  BY DEF Evaluate, At, I!Evaluate, I!At, I!store, orchestrator, produced
<1>2. /\ call'[p].pc \in {"stop", "fund", "submit"}
      /\ call'[p].pc = "fund" => Funding
      /\ call'[p].pc = "submit" => ~Funding
  BY DEF Evaluate, I!Evaluate, CallInv, CallsTypeOK, Funding
<1>3. /\ main'[p].pc = "run" /\ main'[p].code = main[p].code
      /\ main'[p].died = main[p].died /\ main'[p].command = main[p].command
  BY CommandLineAssumption DEF Evaluate, Goto, MainTypeOK
<1>4. \A q \in Runner : q = p
  BY CommandLineAssumption
<1>5. \A status : Held(status)' <=> Held(status)
  BY <1>1, HeldStays
<1>6. Funding' <=> Funding
  BY <1>1 DEF Funding, RequestFor, I!NeedsFunds
<1>7. StagesAgree'
  BY <1>1, <1>2, <1>3, <1>4, <1>5, <1>6 DEF RunInv, StagesAgree, Unstarted, Governing
<1>8. OutcomeKnown'
  BY <1>1, <1>2, <1>3, <1>4, <1>5, <1>6 DEF RunInv, StagesAgree, OutcomeKnown, Unstarted,
     At, Logged, Decided
<1>9. AccountsKept'
  BY <1>1, <1>2, <1>3, <1>4, <1>5, <1>6 DEF RunInv, StagesAgree, AccountsKept, Unstarted, At
<1> QED BY <1>7, <1>8, <1>9 DEF RunInv

LEMMA SubmitKeepsRunInv ==
  ASSUME RunInv, CallInv, MainTypeOK, NEW p \in Runner, Submit(p)
  PROVE  RunInv'
<1>1. /\ UNCHANGED <<main, args, run, answer, escalations, packets, reservations, budgets>>
      /\ main[p].pc = "run" /\ call[p].pc = "submit" /\ goal' = "planned"
  BY DEF Submit, At, O!Submit, I!Submit, I!At, I!store
<1>2. call'[p].pc = "run"
  BY <1>1 DEF Submit, I!Submit, I!Goto, CallInv, CallsTypeOK, I!Idle
<1>4. \A q \in Runner : q = p
  BY CommandLineAssumption
<1>5. \A status : Held(status)' <=> Held(status)
  BY <1>1, HeldStays
<1>6. Funding' <=> Funding
  BY <1>1 DEF Funding, RequestFor, I!NeedsFunds
<1>7. StagesAgree'
  BY <1>1, <1>2, <1>4, <1>5, <1>6 DEF RunInv, StagesAgree, Unstarted, Governing
<1>8. OutcomeKnown'
  BY <1>1, <1>2, <1>4, <1>5, <1>6 DEF RunInv, StagesAgree, OutcomeKnown, Unstarted, At,
     Logged, Decided
<1>9. AccountsKept'
  BY <1>1, <1>2, <1>4, <1>5, <1>6 DEF RunInv, StagesAgree, AccountsKept, Unstarted, At,
     Governing
<1> QED BY <1>7, <1>8, <1>9 DEF RunInv

LEMMA ReturnKeepsRunInv ==
  ASSUME RunInv, CallInv, MainTypeOK, NEW p \in Runner, Return(p)
  PROVE  RunInv'
<1>1. /\ UNCHANGED <<args, goal, call, run, answer, escalations, events, packets,
                     reservations, budgets>>
      /\ main[p].pc = "run" /\ call[p].pc = "idle" /\ run[p].pc = "idle"
  BY DEF Return, At, I!At, O!At, orchestrator, produced, institution
<1>2. /\ main'[p].pc = "exit" /\ main'[p].died = main[p].died /\ main'[p].command = main[p].command
      /\ main'[p].code = IF answer[p].status = "canonical" THEN 0 ELSE 2
  BY CommandLineAssumption DEF Return, Exit, MainTypeOK
<1>3. main[p].died = "no"
  BY <1>1, CommandLineAssumption DEF MainTypeOK, At
<1>4. \A q \in Runner : q = p
  BY CommandLineAssumption
<1>5. \A status : Held(status)' <=> Held(status)
  BY <1>1, HeldStays
<1>6. Funding' <=> Funding
  BY <1>1 DEF Funding, RequestFor, I!NeedsFunds
<1>7. StagesAgree'
  BY <1>1, <1>2, <1>4, <1>5, <1>6 DEF RunInv, StagesAgree, Unstarted, Governing
<1>8. OutcomeKnown'
  BY <1>1, <1>2, <1>3, <1>4, <1>5, <1>6 DEF RunInv, StagesAgree, OutcomeKnown, Unstarted,
     At, Logged, Decided
<1>9. AccountsKept'
  <2>1. Held("reserved") => DOMAIN reservations # {} /\ ~Held("settled")
    BY DEF Held
  <2>2. ~(Held("reserved") /\ goal = "canonical")
    BY <1>1, <2>1 DEF RunInv, AccountsKept, OutcomeKnown, Decided, At
  <2> QED BY <1>1, <1>2, <1>4, <1>5, <1>6, <2>2 DEF RunInv, StagesAgree, AccountsKept,
     Unstarted, At
<1> QED BY <1>7, <1>8, <1>9 DEF RunInv

(* A step of run() between its call and its return.                        *)
LEMMA RequestFields ==
  LET q == RequestFor(args) IN
  q.goal = args /\ q.cost = args.cost /\ q.budget = args.budget /\ q.actual = args.cost
BY DEF RequestFor

LEMMA WorkMoves ==
  ASSUME RunTyped, NEW p \in Runner, CallRun(p) \/ Work(p)
  PROVE  /\ UNCHANGED <<main, answer, escalations, packets, budgets>>
         /\ run'[p].pc # "log"
         /\ (UNCHANGED events /\ run'[p].pc # "idle") \/ (LogsTyped => Logged')
         /\ goal' = goal \/ run[p].pc = "begin"
         /\ run'[p].pc = "idle" => run[p].pc = "log"
<1> USE DEF institution
<1>0. run \in [Runner -> P!RunRecord] /\ "pc" \in DOMAIN run[p]
  BY DEF RunTyped, P!RunRecord
<1>1. CASE CallRun(p)
  <2>1. run'[p].pc = "completed"
    BY <1>0, <1>1 DEF CallRun, O!Call
  <2> QED BY <1>1, <2>1 DEF CallRun, O!Call, O!database
<1>2. CASE Work(p)
  <2>1. UNCHANGED <<main, answer, packets, budgets>>
    BY <1>2 DEF Work
  <2>2. CASE O!LogCompletion(p)
    BY <2>1, <2>2 DEF O!LogCompletion, O!At, O!IdleRun, RunTyped, LogsTyped, Logged
  <2>3. CASE O!ReadCompleted(p) \/ O!Begin(p) \/ O!StartTask(p) \/ O!NoProducer(p)
             \/ O!Attempt(p) \/ O!Produce(p) \/ O!SubmitForReview(p)
    <3>1. run'[p].pc \notin {"idle", "log"}
      <4>1. CASE O!ReadCompleted(p) \/ O!Begin(p) \/ O!Attempt(p)
        BY <1>0, <4>1 DEF O!ReadCompleted, O!Begin, O!Attempt
      <4>2. CASE O!StartTask(p)
        BY <1>0, <4>2 DEF O!StartTask
      <4>3. CASE O!NoProducer(p)
        BY <1>0, <4>3 DEF O!NoProducer
      <4>4. CASE O!Produce(p) \/ O!SubmitForReview(p)
        BY <1>0, <4>4 DEF O!Produce, O!SubmitForReview
      <4> QED BY <2>3, <4>1, <4>2, <4>3, <4>4
    <3>2. UNCHANGED <<escalations, events>>
      BY <2>3 DEF O!ReadCompleted, O!Begin, O!StartTask, O!NoProducer, O!Attempt,
         O!Produce, O!SubmitForReview, O!database
    <3>3. goal' = goal \/ run[p].pc = "begin"
      BY <2>3 DEF O!ReadCompleted, O!Begin, O!StartTask, O!NoProducer, O!Attempt,
         O!Produce, O!SubmitForReview, O!At
    <3> QED BY <2>1, <3>1, <3>2, <3>3
  <2>4. CASE O!Review(p, "approve")
    <3>1. run'[p].pc = "review"
      BY <2>4 DEF O!Review, O!AfterVerdict, O!At, RunTyped
    <3> QED BY <2>1, <2>4, <3>1 DEF O!Review
  <2>5. CASE O!NoReviewer(p)
    BY <1>0, <2>1, <2>5 DEF O!NoReviewer, O!database
  <2>6. CASE O!Promote(p)
    BY <1>0, <2>1, <2>6 DEF O!Promote
  <2>7. CASE O!Canonize(p)
    <3>1. run'[p].pc = "loop"
      BY <1>0, <2>7 DEF O!Canonize, O!IdleRun
    <3> QED BY <2>1, <2>7, <3>1 DEF O!Canonize
  <2> QED BY <1>2, <2>2, <2>3, <2>4, <2>5, <2>6, <2>7 DEF Work
<1> QED BY <1>1, <1>2

LEMMA WorkKeepsRunInv ==
  ASSUME RunInv, CallInv, MainTypeOK, RunTyped, LogsTyped, NEW p \in Runner, CallRun(p) \/ Work(p)
  PROVE  RunInv'
<1>1. /\ UNCHANGED <<main, args, call, answer, escalations, packets, reservations, budgets>>
      /\ run'[p].pc # "log"
      /\ (UNCHANGED events /\ run'[p].pc # "idle") \/ Logged'
  BY RunMoves, WorkMoves
<1>2. main[p].pc = "run"
  BY RunMoves DEF RunInv, StagesAgree, CallRun, At
<1>3. goal' = goal \/ (goal' = "running" /\ goal \in {"planned", "running"} /\ call[p].pc = "run")
  BY RunMoves, WorkMoves DEF CallInv, CallsNest
<1>4. \A q \in Runner : q = p
  BY CommandLineAssumption
<1>5. \A status : Held(status)' <=> Held(status)
  BY <1>1, HeldStays
<1>6. Funding' <=> Funding
  BY <1>1 DEF Funding, RequestFor, I!NeedsFunds
<1>7. StagesAgree'
  BY <1>1, <1>2, <1>3, <1>4, <1>5, <1>6 DEF RunInv, StagesAgree, Unstarted, Governing
<1>8. OutcomeKnown'
  BY <1>1, <1>2, <1>3, <1>4, <1>5, <1>6 DEF RunInv, StagesAgree, OutcomeKnown, Unstarted,
     At, Logged, Decided
<1>9. AccountsKept'
  BY <1>1, <1>2, <1>3, <1>4, <1>5, <1>6 DEF RunInv, StagesAgree, AccountsKept, Unstarted, At
<1> QED BY <1>7, <1>8, <1>9 DEF RunInv

LEMMA FinishKeepsRunInv ==
  ASSUME RunInv, CallInv, MainTypeOK, RunTyped, LogsTyped, NEW p \in Runner, Finish(p)
  PROVE  RunInv'
<1>1. /\ UNCHANGED <<main, args, packets, reservations, budgets>>
      /\ call[p].pc = "run" /\ run[p].pc # "idle" /\ main[p].pc = "run"
  BY DEF Finish, O!FinishGoal, O!Escalate, O!At, I!Run, I!At, I!store, RunInv, StagesAgree
<1>2. \/ /\ goal' = "canonical" /\ run'[p].pc = "log" /\ call'[p].pc = "settle"
         /\ UNCHANGED <<answer, escalations>>
      \/ /\ goal' = "escalated" /\ run'[p].pc = "idle" /\ call'[p].pc = "idle"
         /\ escalations' # << >> /\ answer'[p].status = "escalated"
  <2>1. CASE O!FinishGoal(p) /\ I!Run(p, "canonical")
    BY <2>1, <1>1 DEF O!FinishGoal, O!database, I!Run, I!Goto, RunTyped, CallInv,
       CallsTypeOK, I!Idle
  <2>2. CASE O!Escalate(p) /\ I!Run(p, "escalated")
    <3>1. goal' = "escalated" /\ run'[p].pc = "idle"
      BY <2>2 DEF O!Escalate, O!IdleRun, RunTyped
    <3>2. call'[p].pc = "idle" /\ answer'[p].status = "escalated"
      BY <2>2 DEF I!Run, I!Return, I!Idle, CallInv, CallsTypeOK, RunInv, OutcomeKnown,
         LogsTyped
    <3>3. escalations' # << >>
      BY <2>2 DEF O!Escalate, LogsTyped
    <3> QED BY <3>1, <3>2, <3>3
  <2> QED BY <2>1, <2>2 DEF Finish
<1>3. goal \in {"planned", "running"}
  BY <1>1 DEF CallInv, CallsNest
<1>4. \A q \in Runner : q = p
  BY CommandLineAssumption
<1>5. \A status : Held(status)' <=> Held(status)
  BY <1>1, HeldStays
<1>6. Funding' <=> Funding
  BY <1>1 DEF Funding, RequestFor, I!NeedsFunds
<1>7. StagesAgree'
  BY <1>1, <1>2, <1>3, <1>4, <1>5, <1>6 DEF RunInv, StagesAgree, Unstarted, Governing
<1>8. OutcomeKnown'
  BY <1>1, <1>2, <1>3, <1>4, <1>5, <1>6 DEF RunInv, StagesAgree, OutcomeKnown, Unstarted,
     At, Logged, Decided
<1>9. AccountsKept'
  BY <1>1, <1>2, <1>3, <1>4, <1>5, <1>6 DEF RunInv, StagesAgree, AccountsKept, Unstarted, At
<1> QED BY <1>7, <1>8, <1>9 DEF RunInv

(* The rest of evaluate(), and settle().                                   *)
LEMMA GovernKeepsRunInv ==
  ASSUME RunInv, CallInv, MainTypeOK, LogsTyped, NEW p \in Runner, Govern(p)
  PROVE  RunInv'
<1>1. /\ UNCHANGED <<main, args, goal, run, escalations, events>>
      /\ main[p].pc = "run" /\ call[p].pc \in {"stop", "fund", "reserve", "refuse"}
  BY DEF Govern, At, I!ReadBudget, I!Reserve, I!PersistPacket, I!At, orchestrator, produced
<1>2. /\ call[p] \in [pc: I!Pc, request: {RequestFor(args)}]
      /\ call[p].request = RequestFor(args)
      /\ goal = "none" /\ DOMAIN reservations = {}
      /\ call[p].pc = "reserve" => args.budget \in DOMAIN budgets
  BY <1>1 DEF CallInv, CallsTypeOK, I!Idle, RunInv, StagesAgree, Governing
<1>4. \A q \in Runner : q = p
  BY CommandLineAssumption
<1>6. Funding' <=> Funding
  BY <1>1 DEF Funding, RequestFor, I!NeedsFunds
<1>10. CASE I!ReadBudget(p)
  <2>1. /\ call'[p].pc \in {"reserve", "refuse"} /\ call[p].pc = "fund"
        /\ call'[p].pc = "reserve" => args.budget \in DOMAIN budgets
        /\ UNCHANGED <<answer, packets, reservations, budgets>>
    BY <1>2, <1>10 DEF I!ReadBudget, I!At, I!Goto, I!Funded, I!store, RequestFor,
       CallInv, CallsTypeOK
  <2>5. \A status : Held(status)' <=> Held(status)
    BY <1>1, <2>1, HeldStays
  <2>7. StagesAgree'
    BY <1>1, <1>2, <1>4, <1>6, <2>1, <2>5 DEF RunInv, StagesAgree, Unstarted, Governing
  <2>8. OutcomeKnown'
    BY <1>1, <1>2, <1>4, <1>6, <2>1, <2>5 DEF RunInv, OutcomeKnown, At
  <2>9. AccountsKept'
    BY <1>1, <1>2, <1>4, <1>6, <2>1, <2>5 DEF RunInv, AccountsKept, At
  <2> QED BY <2>7, <2>8, <2>9 DEF RunInv
<1>11. CASE I!PersistPacket(p)
  <2>1. /\ call'[p].pc = "idle" /\ answer'[p].status = "escalated"
        /\ UNCHANGED <<reservations, budgets>>
        /\ \E packet \in packets' : packet.goal = args
    <3>1. call'[p].pc = "idle" /\ answer'[p].status = "escalated"
      BY <1>11 DEF I!PersistPacket, I!Return, I!Idle, CallInv, CallsTypeOK, LogsTyped
    <3>2. \E packet \in packets' : packet.goal = args
      <4> DEFINE packet == [goal |-> call[p].request.goal,
                            category |-> IF I!At(p, "stop") THEN "policy" ELSE "financial"]
      <4>1. packet \in packets'
        BY <1>11 DEF I!PersistPacket
      <4>2. packet.goal = args
        BY <1>2, RequestFields
      <4> QED BY <4>1, <4>2
    <3> QED BY <1>11, <3>1, <3>2 DEF I!PersistPacket
  <2>5. \A status : Held(status)' <=> Held(status)
    BY <1>1, <2>1, HeldStays
  <2>7. StagesAgree'
    BY <1>1, <1>2, <1>4, <1>6, <2>1, <2>5 DEF RunInv, StagesAgree, Unstarted, Governing
  <2>8. OutcomeKnown'
    BY <1>1, <1>2, <1>4, <1>6, <2>1, <2>5 DEF RunInv, OutcomeKnown, At, Decided
  <2>9. AccountsKept'
    BY <1>1, <1>2, <1>4, <1>6, <2>1, <2>5 DEF RunInv, AccountsKept, At
  <2> QED BY <2>7, <2>8, <2>9 DEF RunInv
<1>12. CASE I!Reserve(p)
  <2>1. /\ call'[p].pc = "submit" /\ call[p].pc = "reserve"
        /\ UNCHANGED <<answer, packets>>
    BY <1>2, <1>12 DEF I!Reserve, I!At, I!Goto, CallInv, CallsTypeOK
  <2>2. /\ reservations' = [g \in {args} |-> [budget |-> args.budget, amount |-> args.cost,
                                               status |-> "reserved"]]
        /\ budgets' = [budgets EXCEPT ![args.budget].reserved = @ + args.cost]
    BY <1>2, <1>12, RequestFields DEF I!Reserve, I!Insert
  <2>3. Held("reserved")' /\ ~Held("settled")' /\ DOMAIN reservations' = {args}
    BY <1>1, <2>2 DEF Held
  <2>4. ~Held("reserved") /\ ~Held("settled") /\ Funding /\ args.budget \in DOMAIN budgets
    BY <1>2, <2>1 DEF Held, RunInv, StagesAgree
  <2>7. StagesAgree'
    BY <1>1, <1>2, <1>4, <1>6, <2>1 DEF RunInv, StagesAgree, Unstarted, Governing
  <2>8. OutcomeKnown'
    BY <1>1, <1>2, <1>4, <1>6, <2>1 DEF RunInv, OutcomeKnown, At
  <2>9. AccountsKept'
    <3>1. args.cost \in Nat
      BY CommandLineAssumption DEF MainTypeOK, Arguments
    <3>2. /\ DOMAIN budgets' = DOMAIN budgets
          /\ budgets' \in [DOMAIN budgets' -> [limit: Nat, spent: Nat, reserved: Nat]]
          /\ \A b \in DOMAIN budgets' :
               /\ budgets'[b].spent = 0
               /\ budgets'[b].reserved = IF args.budget = b THEN args.cost ELSE 0
      BY <2>2, <2>4, <3>1 DEF RunInv, AccountsKept
    <3> QED BY <1>1, <1>2, <1>6, <2>3, <2>4, <3>2 DEF RunInv, AccountsKept
  <2> QED BY <2>7, <2>8, <2>9 DEF RunInv
<1> QED BY <1>10, <1>11, <1>12 DEF Govern

LEMMA SettleKeepsRunInv ==
  ASSUME RunInv, CallInv, MainTypeOK, LogsTyped, NEW p \in Runner, Settle(p)
  PROVE  RunInv'
<1>1. /\ UNCHANGED <<main, args, goal, run, escalations, events>>
      /\ run[p].pc = "idle" /\ call[p].pc \in {"settle", "pay"}
  BY DEF Settle, O!At, I!ReadReservation, I!Pay, I!At, orchestrator, produced
<1>2. /\ call[p] \in [pc: I!Pc, request: {RequestFor(args)}]
      /\ call[p].request = RequestFor(args)
      /\ goal = "canonical" /\ main[p].pc = "run"
      /\ call[p].pc = "pay" => Held("reserved")
  BY <1>1 DEF CallInv, CallsTypeOK, I!Idle, RunInv, StagesAgree
<1>4. \A q \in Runner : q = p
  BY CommandLineAssumption
<1>6. Funding' <=> Funding
  BY <1>1 DEF Funding, RequestFor, I!NeedsFunds
<1>10. CASE I!ReadReservation(p)
  <2>1. /\ \/ call'[p].pc = "pay" /\ I!Open(args) /\ UNCHANGED answer
           \/ call'[p].pc = "idle" /\ ~I!Open(args) /\ answer'[p].status = "canonical"
        /\ UNCHANGED <<packets, reservations, budgets>>
    <3>1. call[p].request.goal = args
      BY <1>2, RequestFields
    <3>2. UNCHANGED <<packets, reservations, budgets>>
      BY <1>10 DEF I!ReadReservation, I!store
    <3>3. CASE I!Open(args)
      <4>1. I!Goto(p, "pay") /\ UNCHANGED answer
        BY <1>10, <3>1, <3>3, Zenon DEF I!ReadReservation
      <4> QED BY <1>2, <3>2, <3>3, <4>1 DEF I!Goto, CallInv, CallsTypeOK
    <3>4. CASE ~I!Open(args)
      <4>1. I!Return(p, "canonical")
        BY <1>10, <3>1, <3>4, SettledReturns, Zenon DEF I!ReadReservation
      <4> QED BY <3>2, <3>4, <4>1 DEF I!Return, I!Idle, CallInv, CallsTypeOK, LogsTyped
    <3> QED BY <3>3, <3>4
  <2>2. I!Open(args) => Held("reserved")
    BY DEF I!Open, Held, RunInv, AccountsKept
  <2>3. ~I!Open(args) /\ Funding => Held("settled")
    BY <1>2 DEF I!Open, Held, RunInv, AccountsKept
  <2>5. \A status : Held(status)' <=> Held(status)
    BY <1>1, <2>1, HeldStays
  <2>7. StagesAgree'
    BY <1>1, <1>2, <1>4, <1>6, <2>1, <2>2, <2>3, <2>5 DEF RunInv, StagesAgree, Unstarted,
       Governing
  <2>8. OutcomeKnown'
    BY <1>1, <1>2, <1>4, <1>6, <2>1, <2>2, <2>3, <2>5 DEF RunInv, OutcomeKnown, At, Logged
  <2>9. AccountsKept'
    BY <1>1, <1>2, <1>4, <1>6, <2>1, <2>2, <2>3, <2>5 DEF RunInv, AccountsKept, At
  <2> QED BY <2>7, <2>8, <2>9 DEF RunInv
<1>11. CASE I!Pay(p)
  <2>1. /\ call'[p].pc = "idle" /\ answer'[p].status = "canonical" /\ UNCHANGED packets
    <3>1. I!Return(p, "canonical") /\ UNCHANGED packets
      BY <1>11, SettledReturns DEF I!Pay
    <3> QED BY <3>1 DEF I!Return, I!Idle, CallInv, CallsTypeOK, LogsTyped
  <2>2. Held("reserved") /\ ~Held("settled") /\ args.budget \in DOMAIN budgets /\ Funding
    <3>1. Held("reserved") /\ args \in DOMAIN reservations
      BY <1>2, <1>11 DEF I!Pay, I!At, Held
    <3> QED BY <3>1 DEF Held, RunInv, AccountsKept
  <2>3. /\ reservations' = [reservations EXCEPT ![args].status = "settled"]
        /\ budgets' = [budgets EXCEPT ![args.budget].reserved = @ - args.cost,
                                      ![args.budget].spent = @ + args.cost]
    <3>1. /\ call[p].request.goal = args /\ call[p].request.actual = args.cost
          /\ reservations[args].budget = args.budget
          /\ reservations[args].amount = args.cost
      BY <1>2, <2>2, RequestFields DEF Held
    <3> QED BY <1>11, <3>1 DEF I!Pay
  <2>4. Held("settled")' /\ ~Held("reserved")' /\ DOMAIN reservations' = DOMAIN reservations
    BY <1>1, <2>2, <2>3 DEF Held
  <2>7. StagesAgree'
    BY <1>1, <1>2, <1>4, <1>6, <2>1 DEF RunInv, StagesAgree, Unstarted, Governing
  <2>8. OutcomeKnown'
    BY <1>1, <1>2, <1>4, <1>6, <2>1, <2>4 DEF RunInv, OutcomeKnown, At, Logged
  <2>9. AccountsKept'
    <3>1. args.cost \in Nat
      BY CommandLineAssumption DEF MainTypeOK, Arguments
    <3>2. /\ DOMAIN budgets' = DOMAIN budgets
          /\ budgets' \in [DOMAIN budgets' -> [limit: Nat, spent: Nat, reserved: Nat]]
          /\ \A b \in DOMAIN budgets' :
               /\ budgets'[b].spent = IF args.budget = b THEN args.cost ELSE 0
               /\ budgets'[b].reserved = 0
      BY <2>2, <2>3, <3>1 DEF RunInv, AccountsKept
    <3> QED BY <1>1, <1>2, <1>6, <2>2, <2>4, <3>2 DEF RunInv, AccountsKept
  <2> QED BY <2>7, <2>8, <2>9 DEF RunInv
<1> QED BY <1>10, <1>11 DEF Settle

LEMMA StepKeepsRunInv ==
  ASSUME MainInv, CallInv, RunTyped, LogsTyped, RunInv, [Next]_vars
  PROVE  RunInv'
<1> USE DEF orchestrator, produced, institution
<1>0. MainTypeOK /\ \A q, r \in Runner : q = r
  BY CommandLineAssumption DEF MainInv
<1>1. CASE UNCHANGED vars
  BY <1>1, MainKeepsRunInv DEF vars
<1>2. ASSUME NEW p \in Invocation, (\E command \in Command : Start(p, command)) \/ Continue(p)
      PROVE  RunInv'
  <2>1. UNCHANGED <<args, goal, run, call, answer, escalations, events, packets,
                    reservations>>
    BY <1>2 DEF Start, Continue, ListAgents, RegisterProducer, RegisterReviewer,
       RegisterFresh,
       AddCondition, InitDatabase, Status, CreateBudget, O!Register, O!database, O!counters,
       I!AddStopCondition, I!CreateBudget
  <2>2. UNCHANGED budgets \/ \E b \in Invocation, limit \in Limits : I!CreateBudget(b, limit)
    BY <1>2 DEF Start, Continue, ListAgents, RegisterProducer, RegisterReviewer,
       AddCondition, InitDatabase, Status, CreateBudget, I!AddStopCondition
  <2>3. ASSUME NEW q \in Runner
        PROVE  \/ main'[q] = main[q]
               \/ /\ main[q].pc \notin {"run", "exit"} /\ main'[q].pc \notin {"run", "exit"}
                  /\ main'[q].command = "run"
                  /\ main'[q].code = main[q].code /\ main'[q].died = main[q].died
    <3>1. main \in [Invocation -> MainRecord] /\ q \in Invocation
      BY <1>0, CommandLineAssumption DEF MainTypeOK, MainRecord
    <3>2. CASE q # p
      BY <1>2, <3>1, <3>2 DEF Start, Continue, ListAgents, RegisterProducer,
         RegisterReviewer,
         AddCondition, InitDatabase, Status, CreateBudget, Goto, Exit
    <3>3. CASE q = p
      <4>1. CASE \E command \in Command : Start(p, command)
        BY <3>1, <3>3, <4>1 DEF Start, At, MainRecord
      <4>2. CASE Continue(p)
        <5>1. main[p].pc # "idle" => main[p].command = "run"
          BY <3>3 DEF RunInv, StagesAgree
        <5>2. ~(InitDatabase(p) \/ Status(p) \/ \E limit \in Limits : CreateBudget(p, limit))
          BY <5>1 DEF InitDatabase, Status, CreateBudget, At
        <5>3. CASE ListAgents(p) \/ RegisterProducer(p) \/ RegisterReviewer(p)
          BY <3>1, <3>3, <5>1, <5>3 DEF ListAgents, RegisterProducer, RegisterReviewer,
             Goto,
             At, MainRecord
        <5>4. CASE AddCondition(p)
          BY <3>1, <3>3, <5>1, <5>4 DEF AddCondition, At, MainRecord
        <5> QED BY <4>2, <5>2, <5>3, <5>4 DEF Continue
      <4> QED BY <1>2, <4>1, <4>2
    <3> QED BY <3>2, <3>3
  <2> QED BY <2>1, <2>2, <2>3, MainKeepsRunInv
<1>3. ASSUME NEW p \in Invocation, Crash(p)
      PROVE  RunInv'
  <2>1. CASE p \in Runner
    BY <1>0, <1>3, <2>1, DeathKeepsRunInv
  <2>2. CASE p \notin Runner
    <3>1. \A q \in Runner : main'[q] = main[q]
      <4>1. DOMAIN main = Invocation /\ Runner \subseteq Invocation
        BY <1>0, CommandLineAssumption DEF MainTypeOK
      <4> QED BY <1>3, <2>2, <4>1 DEF Crash
    <3> QED BY <1>3, <2>2, <3>1, MainKeepsRunInv DEF Crash
  <2> QED BY <2>1, <2>2
<1>4. ASSUME NEW p \in Runner, ContinueRun(p)
      PROVE  RunInv'
  BY <1>0, <1>4, EvaluateKeepsRunInv, GovernKeepsRunInv, SubmitKeepsRunInv,
     DeathKeepsRunInv,
     WorkKeepsRunInv, FinishKeepsRunInv, SettleKeepsRunInv, ReturnKeepsRunInv DEF ContinueRun
<1> QED BY <1>1, <1>2, <1>3, <1>4 DEF Next

LEMMA LogsTypeOK == Spec => []LogsTyped
<1>1. P!TypeOK => (\E S : events \in Seq(S)) /\ (\E S : escalations \in Seq(S))
  BY DEF P!TypeOK
<1>2. Init => DOMAIN answer = Runner
  BY DEF Init, I!Init
<1>3. DOMAIN answer = Runner /\ [Next]_vars => (DOMAIN answer = Runner)'
  <2> SUFFICES ASSUME DOMAIN answer = Runner, [Next]_vars PROVE DOMAIN answer' = Runner
    OBVIOUS
  <2> USE DEF institution
  <2>1. ASSUME NEW p \in Invocation, (\E command \in Command : Start(p, command)) \/ Continue(p)
        PROVE  DOMAIN answer' = Runner
    BY <2>1 DEF Start, Continue, ListAgents, RegisterProducer, RegisterReviewer,
       AddCondition,
       InitDatabase, Status, CreateBudget, I!AddStopCondition, I!CreateBudget
  <2>2. ASSUME NEW p \in Runner, ContinueRun(p)
        PROVE  DOMAIN answer' = Runner
    BY <2>2, SettledReturns DEF ContinueRun, Evaluate, Govern, Submit, CallRun, Raise, Work,
       Finish, Settle, Return, I!Evaluate, I!ReadBudget, I!Reserve, I!PersistPacket, I!Submit,
       I!Run, I!ReadReservation, I!Pay, I!Crash, I!Return
  <2>3. ASSUME NEW p \in Invocation, Crash(p)
        PROVE  DOMAIN answer' = Runner
    BY <2>3 DEF Crash, I!Crash
  <2> QED BY <2>1, <2>2, <2>3 DEF Next, vars
<1>4. P!Spec => []P!TypeOK
  BY AssumptionsMet, P!TypeCorrectness
<1> QED BY <1>1, <1>2, <1>3, <1>4, GoalUnderOrchestrator, SameSpec, PTL DEF Spec, LogsTyped

LEMMA RunInvariance == Spec => []RunInv
<1>1. CInv => MainInv /\ CallInv
  BY DEF CInv
<1> QED BY <1>1, InitRunInv, StepKeepsRunInv, CommandInvariance, RunTypeOK, LogsTypeOK,
   PTL DEF Spec

(* What the tables of the orchestrator say of a goal that was begun, and   *)
(* of one that is done.                                                    *)
DoneIsReviewed ==
  /\ artifacts # << >> => goal # "none"
  /\ goal = "canonical" =>
       \A t \in DOMAIN tasks : \E a \in DOMAIN artifacts :
         artifacts[a].task = t /\ artifacts[a].status = "canonical" /\ O!Reviewed(a)

LEMMA GoalDone == Spec => []DoneIsReviewed
<1>1. P!IInv => DoneIsReviewed
  <2> SUFFICES ASSUME P!IInv PROVE DoneIsReviewed
    OBVIOUS
  <2>1. artifacts # << >> => 1 \in DOMAIN artifacts
    BY DEF P!IInv, P!TypeOK
  <2>2. artifacts # << >> => goal # "none"
    BY <2>1 DEF P!IInv, P!TablesAgree
  <2>3. ASSUME goal = "canonical", NEW t \in DOMAIN tasks
        PROVE  \E a \in DOMAIN artifacts :
                 artifacts[a].task = t /\ artifacts[a].status = "canonical" /\ O!Reviewed(a)
    <3>1. t \in P!Delivered
      BY <2>3 DEF P!IInv, P!TypeOK, P!TablesAgree
    <3>2. PICK a \in DOMAIN artifacts : artifacts[a].status = "canonical" /\ artifacts[a].task = t
      BY <3>1 DEF P!Delivered
    <3>3. P!Reviewed(a)
      BY <3>2 DEF P!IInv, P!CanonicalArtifactsReviewed
    <3>4. O!Reviewed(a)
      BY <3>3 DEF O!Reviewed, P!Reviewed, O!GatesOf, P!GatesOf, O!ReviewsOf, P!ReviewsOf
    <3> QED BY <3>2, <3>4
  <2> QED BY <2>2, <2>3 DEF DoneIsReviewed
<1>2. P!Spec => []P!IInv
  BY AssumptionsMet, P!Invariance
<1> QED BY <1>1, <1>2, GoalUnderOrchestrator, SameSpec, PTL

(* Whatever interleaves, and wherever a process dies: the exit code tells  *)
(* what became of the goal, its artifacts, its log and its reservation.    *)
THEOREM ExitIsTrue == Spec => []ExitTellsTheTruth
<1>1. RunInv /\ DoneIsReviewed => ExitTellsTheTruth
  <2> SUFFICES ASSUME RunInv, DoneIsReviewed, NEW p \in Runner
               PROVE  ExitTellsTheTruth!(p)
    BY DEF ExitTellsTheTruth
  <2>1. main[p].code = 0 =>
          /\ goal = "canonical" /\ events[Len(events)] = "goal_completed"
          /\ Funding => reservations[args].status = "settled"
    BY DEF RunInv, OutcomeKnown, Logged, Held
  <2>2. main[p].code = 2 => Decided
    BY DEF RunInv, OutcomeKnown
  <2>3. At(p, "exit") /\ goal \in {"planned", "running"} => main[p].code = 1
    BY DEF RunInv, OutcomeKnown
  <2> QED BY <2>1, <2>2, <2>3 DEF DoneIsReviewed, Decided
<1> QED BY <1>1, RunInvariance, GoalDone, PTL

(* Nothing is produced unless its cost is held or paid; only what is       *)
(* canonical is paid for, once; and the funds of a canonical goal stay     *)
(* held only if its invocation is about to settle, or died before it did.  *)
THEOREM MoneyFollowsWork == Spec => []FundsFollowWork
<1>1. RunInv /\ DoneIsReviewed /\ args \in Args => FundsFollowWork
  <2> SUFFICES ASSUME RunInv, DoneIsReviewed, args \in Args, NEW b \in DOMAIN budgets
               PROVE  FundsFollowWork!(b)
    BY DEF FundsFollowWork
  <2>1. args.cost \in Nat /\ b \in Invocation /\ b # NoBudget
    BY CommandLineAssumption DEF Arguments, RunInv, AccountsKept
  <2>2. /\ budgets[b].spent = IF args.budget = b /\ Held("settled") THEN args.cost ELSE 0
        /\ budgets[b].reserved = IF args.budget = b /\ Held("reserved") THEN args.cost ELSE 0
    BY DEF RunInv, AccountsKept
  <2>3. ~(Held("reserved") /\ Held("settled"))
    BY DEF Held
  <2>4. artifacts # << >> /\ args.budget = b /\ args.cost > 0 => Held("reserved") \/ Held("settled")
    BY <2>1, RequestFields DEF RunInv, AccountsKept, DoneIsReviewed, Funding, I!NeedsFunds
  <2>5. budgets[b].spent > 0 =>
          goal = "canonical" /\ budgets[b].spent = args.cost /\ budgets[b].reserved = 0
    BY <2>1, <2>2, <2>3 DEF RunInv, AccountsKept
  <2>6. budgets[b].reserved > 0 /\ goal = "canonical" =>
          \E p \in Runner : At(p, "run") \/ main[p].died = "run"
    BY <2>1, <2>2 DEF RunInv, AccountsKept
  <2>7. artifacts # << >> /\ args.budget = b => budgets[b].reserved + budgets[b].spent = args.cost
    BY <2>1, <2>2, <2>3, <2>4
  <2> QED BY <2>5, <2>6, <2>7
<1> QED BY <1>1, RunInvariance, GoalDone, ArgsStay, PTL

(* Run from the command line, a goal's status is borne out by the tables.  *)
THEOREM GoalIsBacked == Spec => []O!OutcomeBacked
<1>1. P!OutcomeBacked => O!OutcomeBacked
  BY DEF O!OutcomeBacked, P!OutcomeBacked, O!FailureBacked, P!FailureBacked,
     O!EscalationBacked,
     P!EscalationBacked, O!HasVerdict, P!HasVerdict, O!ArtifactsOf, P!ArtifactsOf,
     O!LastEscalation, P!LastEscalation
<1>2. P!Solo
  BY CommandLineAssumption DEF P!Solo
<1>3. P!Spec => []P!OutcomeBacked
  BY <1>2, AssumptionsMet, P!OutcomesAreBacked
<1> QED BY <1>1, <1>3, GoalUnderOrchestrator, SameSpec, PTL

(***************************************************************************)
(* Invocations use up their steps.                                         *)
(***************************************************************************)

(* Only the one "run" is ever inside submit_and_run, and the orchestrator  *)
(* has the plan it was given.                                              *)
RunKnown ==
  /\ \A p \in Invocation : main[p].pc = "run" => p \in Runner
  /\ goal # "none" => DOMAIN plan = {1} /\ plan[1].gates = args.gates

(* What is left at each place, a fact of the definitions now and after a   *)
(* step.                                                                   *)
StagesCounted(p) ==
  /\ main[p].pc \in {"idle", "exit"} => StepsAhead(p) = 0
  /\ main[p].pc = "run" => StepsAhead(p) = 1 + CallAhead(p) + WorkAhead(p)
  /\ main[p].pc = "dispatch" => StepsAhead(p) = MostWork + 9
  /\ main[p].pc = "conditions" =>
       StepsAhead(p) = MostWork + 9 + Len(StopFields) - main[p].added
  /\ main[p].pc = "reviewer" => StepsAhead(p) = MostWork + 14
  /\ main[p].pc = "producer" => StepsAhead(p) = MostWork + 15
  /\ main[p].pc = "agents" => StepsAhead(p) = MostWork + 16

CallCounted(p) ==
  /\ call[p].pc = "idle"   => CallAhead(p) = 0
  /\ call[p].pc = "pay"    => CallAhead(p) = 1
  /\ call[p].pc = "settle" => CallAhead(p) = 2
  /\ call[p].pc = "run"    => CallAhead(p) = 3
  /\ call[p].pc = "submit" => CallAhead(p) = 4
  /\ call[p].pc \in {"stop", "refuse", "reserve"} => CallAhead(p) = 5
  /\ call[p].pc = "fund"   => CallAhead(p) = 6

LEMMA Counted ==
  ASSUME NEW p
  PROVE  /\ StagesCounted(p) /\ CallCounted(p)
         /\ StagesCounted(p)' /\ CallCounted(p)'
<1>1. StagesCounted(p)
  BY DEF StagesCounted, StepsAhead, At
<1>2. StagesCounted(p)'
  BY DEF StagesCounted, StepsAhead, At
<1>3. CallCounted(p) /\ CallCounted(p)'
  BY DEF CallCounted, CallAhead
<1> QED BY <1>1, <1>2, <1>3

(* The measure of a call of run() is the one of OrchestratorProofs.        *)
LEMMA SameMeasure ==
  /\ \A me, most : O!StepsLeft(me, most) = P!StepsLeft(me, most)
  /\ \A most : O!PerTask(most) = P!PerTask(most)
<1>1. \A most : O!PerTask(most) = P!PerTask(most)
  BY DEF O!PerTask, P!PerTask, O!PerVersion, P!PerVersion
<1>2. \A S : O!Cardinality(S) = P!Cardinality(S)
  BY Zenon DEF O!Cardinality, P!Cardinality
<1>3. \A me, most : O!VersionLeft(me, most) = P!VersionLeft(me, most)
  BY DEF O!VersionLeft, P!VersionLeft
<1>4. ASSUME NEW me, NEW most
      PROVE  O!StepsLeft(me, most) = P!StepsLeft(me, most)
  BY <1>1, <1>2, <1>3, Zenon DEF O!StepsLeft, P!StepsLeft, O!InTask, P!InTask,
     O!PerVersion, P!PerVersion
<1> QED BY <1>1, <1>4

WorkCounted(p) ==
  /\ call[p].pc \in Governing \union {"run"} /\ run[p].pc = "idle" =>
       WorkAhead(p) = MostWork + 1
  /\ call[p].pc \notin Governing \union {"run"} \/ run[p].pc # "idle" =>
       WorkAhead(p) = P!StepsLeft(run[p], MostGates)
  /\ run[p].pc = "idle" => P!StepsLeft(run[p], MostGates) = 0
  /\ run[p].pc = "log" => P!StepsLeft(run[p], MostGates) = 1

LEMMA WorkIsCounted == ASSUME NEW p PROVE WorkCounted(p) /\ WorkCounted(p)'
<1>1. WorkCounted(p)
  BY AssumptionsMet, SameMeasure, P!LeftOutside DEF WorkCounted, WorkAhead, O!At
<1>2. WorkCounted(p)'
  BY AssumptionsMet, SameMeasure, P!LeftOutside DEF WorkCounted, WorkAhead, O!At
<1> QED BY <1>1, <1>2

(* All that is known when an invocation takes a step.                      *)
Known ==
  /\ MainInv /\ CallInv /\ RunInv /\ RunTyped
  /\ P!IInv /\ P!CallBounded /\ RunKnown

LEMMA BoundsKnown ==
  ASSUME Known
  PROVE  /\ MostGates \in Nat /\ MostWork \in Nat
         /\ P!Within(MostGates)
         /\ goal # "none" => P!PerCall(MostGates) = MostWork
<1>1. MostGates \in Nat
  BY CommandLineAssumption DEF Known, MainInv, MainTypeOK, Arguments, MostGates
<1>2. MostWork = P!PerTask(MostGates) + 4 /\ MostWork \in Nat
  <2>1. P!PerTask(MostGates) \in Nat
    BY <1>1, AssumptionsMet, P!PerTaskType
  <2>2. O!PerTask(MostGates) = P!PerTask(MostGates)
    BY SameMeasure
  <2> QED BY <2>1, <2>2 DEF MostWork
<1>3. goal = "none" => DOMAIN plan = {}
  BY DEF Known, P!IInv, P!TablesAgree
<1>4. P!Within(MostGates)
  BY <1>1, <1>3 DEF Known, RunKnown, MostGates, P!Within
<1>5. goal # "none" => P!PerCall(MostGates) = MostWork
  BY <1>1, <1>2, AssumptionsMet, P!OneTaskCall DEF Known, RunKnown
<1> QED BY <1>1, <1>2, <1>4, <1>5

LEMMA PartsAreNumbers ==
  ASSUME Known, NEW p \in Runner
  PROVE  CallAhead(p) \in 0..6 /\ WorkAhead(p) \in Nat
<1>1. call[p].pc \in I!Pc \union {"idle"}
  BY DEF Known, CallInv, CallsTypeOK, I!Idle
<1>2. CallAhead(p) \in 0..6
  BY <1>1, Counted DEF CallCounted, I!Pc
<1>3. P!StepsLeft(run[p], MostGates) \in Nat
  BY BoundsKnown, AssumptionsMet, P!LeftIsNumber DEF Known
<1> QED BY <1>2, <1>3, BoundsKnown, WorkIsCounted DEF WorkCounted

LEMMA AheadIsNumber ==
  ASSUME Known, NEW p \in Invocation
  PROVE  /\ StepsAhead(p) \in Nat
         /\ main[p].pc \notin {"idle", "exit"} => StepsAhead(p) > 0
<1>1. main[p].pc \in Where /\ main[p].added \in 0..Len(StopFields) /\ Len(StopFields) = 4
  BY DEF Known, MainInv, MainTypeOK, StopFields
<1>2. main[p].pc = "run" => CallAhead(p) \in 0..6 /\ WorkAhead(p) \in Nat
  BY PartsAreNumbers DEF Known, RunKnown
<1> QED BY <1>1, <1>2, BoundsKnown, Counted DEF StagesCounted, Where

LEMMA RunKnownStays ==
  ASSUME Known, [Next]_vars
  PROVE  RunKnown'
<1> USE DEF orchestrator, produced, institution
<1>0. \A p \in Invocation : main[p].pc = "run" => p \in Runner
  BY DEF Known, RunKnown
<1>1. CASE UNCHANGED vars
  BY <1>1 DEF vars, Known, RunKnown
<1>2. ASSUME NEW p \in Invocation, (\E command \in Command : Start(p, command)) \/ Continue(p)
      PROVE  RunKnown'
  <2>1. UNCHANGED <<args, goal, plan>>
    BY <1>2 DEF Start, Continue, ListAgents, RegisterProducer, RegisterReviewer, RegisterFresh,
       AddCondition, InitDatabase, Status, CreateBudget, O!Register, O!database, O!counters
  <2>2. main'[p].pc # "run" /\ \A q \in Invocation \ {p} : main'[q] = main[q]
    <3>1. CASE AddCondition(p)
      BY <3>1 DEF AddCondition, Known, MainInv, MainTypeOK, At
    <3> QED BY <1>2, <3>1, MainMoves DEF Continue, ListAgents, RegisterProducer,
            RegisterReviewer, InitDatabase, Status, CreateBudget, Moved, Where,
            Known, MainInv
  <2> QED BY <1>0, <2>1, <2>2 DEF Known, RunKnown
<1>3. ASSUME NEW p \in Invocation, Crash(p)
      PROVE  RunKnown'
  <2>1. UNCHANGED <<args, goal, plan>>
    BY <1>3 DEF Crash, O!Crash, O!database
  <2>2. main'[p].pc # "run" /\ \A q \in Invocation \ {p} : main'[q] = main[q]
    BY <1>3 DEF Crash, Known, MainInv, MainTypeOK
  <2> QED BY <1>0, <2>1, <2>2 DEF Known, RunKnown
<1>4. ASSUME NEW p \in Runner, ContinueRun(p)
      PROVE  RunKnown'
  <2>1. \A q \in Invocation : main'[q].pc = "run" => q \in Runner
    <3>1. UNCHANGED main \/ Goto(p, "run") \/ \E code \in {0, 1, 2} : Exit(p, code)
      BY <1>4 DEF ContinueRun, Evaluate, Govern, Submit, CallRun, Raise, Work, Finish,
         Settle, Return
    <3>2. p \in Invocation
      BY CommandLineAssumption
    <3> QED BY <1>0, <3>1, <3>2, MainMoves DEF Moved, Where, Known, MainInv
  <2>2. args' = args
    BY <1>4 DEF ContinueRun, Evaluate, Govern, Submit, CallRun, Raise, Work, Finish,
       Settle, Return
  <2>3. CASE Submit(p)
    <3>1. O!PlanIds(PlanFor(args)) = {1}
      BY DEF O!PlanIds, PlanFor
    <3>2. PlanFor(args)[CHOOSE i \in DOMAIN PlanFor(args) : PlanFor(args)[i].id = 1].gates
            = args.gates
      BY DEF PlanFor
    <3>3. DOMAIN plan' = {1} /\ plan'[1].gates = args.gates
      BY <2>3, <3>1, <3>2 DEF Submit, O!Submit
    <3> QED BY <2>1, <2>2, <3>3 DEF RunKnown
  <2>4. CASE ~Submit(p)
    <3>1. plan' = plan
      <4>1. CASE Work(p)
        BY <4>1 DEF Work, O!ReadCompleted, O!Begin, O!StartTask, O!NoProducer, O!Attempt,
           O!Produce, O!SubmitForReview, O!Review, O!NoReviewer, O!Promote, O!Canonize,
           O!LogCompletion, O!database
      <4> QED BY <1>4, <2>4, <4>1 DEF ContinueRun, Evaluate, Govern, CallRun, Raise, Finish,
              Settle, Return, O!Call, O!Crash, O!FinishGoal, O!Escalate, O!database
    <3>2. goal' # "none" => goal # "none"
      <4>1. CASE CallRun(p) \/ Work(p)
        BY <4>1, RunMoves DEF Known, CallInv, CallsNest, RunInv, StagesAgree
      <4>2. CASE Finish(p)
        BY <4>2 DEF Finish, O!FinishGoal, O!Escalate, I!Run, I!At, Known, CallInv, CallsNest
      <4> QED BY <1>4, <2>4, <4>1, <4>2 DEF ContinueRun, Evaluate, Govern, Raise,
              Settle, Return, O!Crash, O!database
    <3> QED BY <2>1, <2>2, <3>1, <3>2 DEF Known, RunKnown
  <2> QED BY <2>3, <2>4
<1> QED BY <1>1, <1>2, <1>3, <1>4 DEF Next

(* A step of somebody else.                                                *)
LEMMA OthersStand ==
  ASSUME Known, [Next]_vars, NEW p \in Invocation,
         ~(\E command \in Command : Start(p, command)), ~Continue(p), ~Crash(p),
         p \in Runner => ~ContinueRun(p)
  PROVE  StepsAhead(p)' = StepsAhead(p)
<1> USE DEF orchestrator, produced, institution
<1>1. \/ UNCHANGED vars
      \/ \E q \in Invocation \ {p} :
           \/ (\E command \in Command : Start(q, command)) \/ Continue(q) \/ Crash(q)
           \/ q \in Runner /\ ContinueRun(q)
  BY CommandLineAssumption DEF Next
<1>2. CASE UNCHANGED vars
  BY <1>2 DEF vars, StepsAhead, CallAhead, WorkAhead, At, MostWork, MostGates, O!At
<1>3. ASSUME NEW q \in Invocation \ {p},
             \/ (\E command \in Command : Start(q, command)) \/ Continue(q) \/ Crash(q)
             \/ q \in Runner /\ ContinueRun(q)
      PROVE  StepsAhead(p)' = StepsAhead(p)
  <2>1. main'[p] = main[p] /\ args' = args
    <3>1. DOMAIN main = Invocation /\ main \in [Invocation -> MainRecord]
      BY DEF Known, MainInv, MainTypeOK, MainRecord
    <3>2. CASE (\E command \in Command : Start(q, command)) \/ Continue(q) \/ Crash(q)
      BY <3>1, <3>2 DEF Start, Continue, Crash, ListAgents, RegisterProducer, RegisterReviewer,
         AddCondition, InitDatabase, Status, CreateBudget, Goto, Exit
    <3>3. CASE q \in Runner /\ ContinueRun(q)
      BY <3>1, <3>3 DEF ContinueRun, Evaluate, Govern, Submit, CallRun, Raise, Work, Finish,
         Settle, Return, Goto, Exit
    <3> QED BY <1>3, <3>2, <3>3
  <2>2. p \in Runner => UNCHANGED <<call, run>>
    <3>1. p \in Runner => q \notin Runner
      BY <1>3, CommandLineAssumption
    <3>2. CASE q \notin Runner /\ Crash(q)
      BY <3>2 DEF Crash
    <3>3. CASE (\E command \in Command : Start(q, command)) \/ Continue(q)
      BY <3>3 DEF Start, Continue, ListAgents, RegisterProducer, RegisterReviewer, RegisterFresh,
         AddCondition, InitDatabase, Status, CreateBudget, O!Register, O!database, O!counters,
         I!AddStopCondition, I!CreateBudget
    <3> QED BY <1>3, <3>1, <3>2, <3>3
  <2>3. main[p].pc = "run" => p \in Runner
    BY DEF Known, RunKnown
  <2> QED BY <2>1, <2>2, <2>3 DEF StepsAhead, CallAhead, WorkAhead, At, MostWork, MostGates, O!At
<1> QED BY <1>1, <1>2, <1>3

(* Steps of main() itself, and its end.                                    *)
LEMMA MainAdvances ==
  ASSUME Known, NEW p \in Invocation
  PROVE  /\ Continue(p) => StepsAhead(p)' < StepsAhead(p)
         /\ (\E command \in Command : Start(p, command)) => StepsAhead(p)' = MostWork + 16
         /\ Crash(p) => StepsAhead(p)' <= StepsAhead(p)
<1> USE DEF At
<1>0. /\ MainTypeOK /\ main \in [Invocation -> MainRecord] /\ Len(StopFields) = 4
      /\ MostWork \in Nat /\ StepsAhead(p) \in Nat /\ main[p].added \in 0..4
      /\ StagesCounted(p) /\ StagesCounted(p)'
  BY BoundsKnown, AheadIsNumber, Counted DEF Known, MainInv, MainTypeOK, MainRecord, StopFields
<1>1. ASSUME Continue(p) PROVE StepsAhead(p)' < StepsAhead(p)
  <2>1. MostWork' = MostWork
    BY <1>1 DEF Continue, ListAgents, RegisterProducer, RegisterReviewer, AddCondition,
       InitDatabase, Status, CreateBudget, MostWork, MostGates
  <2>2. CASE ListAgents(p)
    <3>1. main[p].pc = "agents" /\ main'[p].pc \in {"producer", "conditions"}
          /\ main'[p].added = main[p].added
      BY <1>0, <2>2, MainMoves DEF ListAgents, Moved, Where
    <3> QED BY <1>0, <2>1, <3>1 DEF StagesCounted
  <2>3. CASE RegisterProducer(p) \/ RegisterReviewer(p)
    <3>1. /\ main'[p].added = main[p].added
          /\ \/ main[p].pc = "producer" /\ main'[p].pc = "reviewer"
             \/ main[p].pc = "reviewer" /\ main'[p].pc = "conditions"
      BY <1>0, <2>3, MainMoves DEF RegisterProducer, RegisterReviewer, Moved, Where
    <3> QED BY <1>0, <2>1, <3>1 DEF StagesCounted
  <2>4. CASE AddCondition(p)
    <3>1. /\ main[p].pc = "conditions" /\ main[p].added < 4
          /\ main'[p].added = main[p].added + 1
          /\ main'[p].pc = IF main[p].added + 1 = 4 THEN "dispatch" ELSE "conditions"
      BY <1>0, <2>4 DEF AddCondition, Known, MainInv, ConditionsInPlace, MainRecord
    <3> QED BY <1>0, <2>1, <3>1 DEF StagesCounted
  <2>5. CASE InitDatabase(p) \/ Status(p) \/ \E limit \in Limits : CreateBudget(p, limit)
    <3>1. main[p].pc = "dispatch" /\ main'[p].pc = "exit"
      BY <1>0, <2>5, MainMoves DEF InitDatabase, Status, CreateBudget, Moved
    <3> QED BY <1>0, <2>1, <3>1 DEF StagesCounted
  <2> QED BY <1>1, <2>2, <2>3, <2>4, <2>5 DEF Continue
<1>2. ASSUME NEW command \in Command, Start(p, command)
      PROVE  StepsAhead(p)' = MostWork + 16
  <2>1. main'[p].pc = "agents" /\ MostWork' = MostWork
    BY <1>0, <1>2, MainMoves DEF Moved, Start, MostWork, MostGates
  <2> QED BY <1>0, <2>1 DEF StagesCounted
<1>3. ASSUME Crash(p) PROVE StepsAhead(p)' <= StepsAhead(p)
  <2>1. main'[p].pc = "exit"
    BY <1>0, <1>3 DEF Crash, MainRecord
  <2> QED BY <1>0, <2>1 DEF StagesCounted
<1> QED BY <1>1, <1>2, <1>3

(* A step of submit_and_run: what a place in it leaves.                    *)
LEMMA RunPlaces ==
  ASSUME Known, NEW p \in Runner
  PROVE  /\ call[p].pc \in I!Pc \union {"idle"}
         /\ run[p].pc \notin {"idle", "log"} => call[p].pc = "run"
         /\ run[p].pc = "log" => call[p].pc = "settle"
         /\ main[p].pc # "run" => call[p].pc = "idle" /\ run[p].pc = "idle"
  BY DEF Known, CallInv, CallsTypeOK, CallsNest, RunInv, StagesAgree, I!Idle

(* evaluate(), submit() and settle(), which leave the locals of run() be.  *)
LEMMA StoreAdvances ==
  ASSUME Known, NEW p \in Runner,
         Evaluate(p) \/ Govern(p) \/ Submit(p) \/ Settle(p)
  PROVE  StepsAhead(p)' < StepsAhead(p)
<1> USE DEF orchestrator, produced, institution, At, I!At, O!At
<1>0. /\ p \in Invocation /\ MostWork \in Nat
      /\ StagesCounted(p) /\ StagesCounted(p)' /\ CallCounted(p) /\ CallCounted(p)'
      /\ WorkCounted(p) /\ WorkCounted(p)'
  BY BoundsKnown, Counted, WorkIsCounted, RunPlaces, CommandLineAssumption
<1>1. UNCHANGED <<run, args>> /\ MostWork' = MostWork /\ MostGates' = MostGates
  BY DEF Evaluate, Govern, Submit, Settle, O!Submit, MostWork, MostGates
<1>2. CASE Evaluate(p)
  <2>1. main[p].pc = "dispatch" /\ main'[p].pc = "run" /\ run[p].pc = "idle"
    BY <1>0, <1>2, MainMoves, RunPlaces DEF Evaluate, Moved, Where, Known, MainInv
  <2>2. call'[p].pc \in {"stop", "fund", "submit"}
    BY <1>2 DEF Evaluate, I!Evaluate, Known, CallInv, CallsTypeOK
  <2> QED BY <1>0, <1>1, <2>1, <2>2 DEF StagesCounted, CallCounted, WorkCounted, Governing
<1>3. CASE ~Evaluate(p)
  <2>1. main' = main /\ main[p].pc = "run"
    BY <1>3, RunPlaces DEF Govern, Submit, Settle, I!ReadReservation, I!Pay
  <2>2. run[p].pc = "idle"
    BY <1>0, <1>3, RunPlaces DEF Govern, Submit, Settle, I!ReadBudget, I!Reserve,
       I!PersistPacket, I!Submit
  <2>3. \/ call[p].pc = "fund" /\ call'[p].pc \in {"reserve", "refuse"}
        \/ call[p].pc = "reserve" /\ call'[p].pc = "submit"
        \/ call[p].pc \in {"stop", "refuse"} /\ call'[p].pc = "idle"
        \/ call[p].pc = "submit" /\ call'[p].pc = "run"
        \/ call[p].pc = "settle" /\ call'[p].pc \in {"pay", "idle"}
        \/ call[p].pc = "pay" /\ call'[p].pc = "idle"
    <3> DEFINE Records == [pc: I!Pc, request: {RequestFor(args)}]
    <3>1. DOMAIN call = Runner /\ (call[p].pc # "idle" => call[p] \in Records)
      BY DEF Known, CallInv, CallsTypeOK, I!Idle
    <3>2. ASSUME NEW pc, I!Goto(p, pc), call[p].pc # "idle"
          PROVE  call'[p].pc = pc
      BY <3>1, <3>2 DEF I!Goto
    <3>3. ASSUME NEW status, I!Return(p, status)
          PROVE  call'[p].pc = "idle"
      BY <3>1, <3>3 DEF I!Return, I!Idle
    <3>4. CASE I!ReadBudget(p)
      BY <3>2, <3>4 DEF I!ReadBudget
    <3>5. CASE I!Reserve(p)
      BY <3>2, <3>5 DEF I!Reserve
    <3>6. CASE I!PersistPacket(p)
      BY <3>3, <3>6 DEF I!PersistPacket
    <3>7. CASE I!Submit(p)
      BY <3>2, <3>7 DEF I!Submit
    <3>8. CASE I!ReadReservation(p)
      BY <3>2, <3>3, <3>8, SettledReturns DEF I!ReadReservation
    <3>9. CASE I!Pay(p)
      BY <3>3, <3>9, SettledReturns DEF I!Pay
    <3> QED BY <1>3, <3>4, <3>5, <3>6, <3>7, <3>8, <3>9 DEF Govern, Submit, Settle
  <2> QED BY <1>0, <1>1, <2>1, <2>2, <2>3 DEF StagesCounted, CallCounted, WorkCounted, Governing
<1> QED BY <1>2, <1>3

(* The same of the state a step leads to.                                  *)
Numbers ==
  /\ \A p \in Invocation : StepsAhead(p) \in Nat
  /\ \A p \in Runner : WorkAhead(p) \in Nat

LEMMA NumbersStay == Known' => Numbers'
<1>1. Known => Numbers
  BY AheadIsNumber, PartsAreNumbers DEF Numbers
<1> QED BY <1>1, PTL

(* Steps of run(), each of which counts, and its return with the goal      *)
(* settled.                                                                *)
LEMMA RunAdvances ==
  ASSUME Known, Known', [Next]_vars, NEW p \in Runner, CallRun(p) \/ Work(p) \/ Finish(p)
  PROVE  StepsAhead(p)' < StepsAhead(p)
<1> USE DEF orchestrator, produced, institution, At, I!At, O!At
<1> DEFINE left == P!StepsLeft(run[p], MostGates)
           next == P!StepsLeft(run'[p], MostGates)
<1>0. /\ MostWork \in Nat /\ MostGates \in Nat /\ P!Within(MostGates)
      /\ StagesCounted(p) /\ StagesCounted(p)' /\ CallCounted(p) /\ CallCounted(p)'
      /\ WorkCounted(p) /\ WorkCounted(p)' /\ left \in Nat /\ WorkAhead(p)' \in Nat
  BY BoundsKnown, Counted, WorkIsCounted, NumbersStay, AssumptionsMet, P!LeftIsNumber
     DEF Known, Numbers
<1>1. UNCHANGED <<main, args>> /\ MostWork' = MostWork /\ MostGates' = MostGates
  BY DEF CallRun, Work, Finish, MostWork, MostGates
<1>2. main[p].pc = "run" /\ main'[p].pc = "run"
  <2>1. run[p].pc # "idle" \/ call[p].pc # "idle"
    <3>1. CASE CallRun(p) \/ Finish(p)
      BY <3>1 DEF CallRun, Finish, I!Run
    <3> QED BY <3>1, RunMoves DEF Known
  <2> QED BY <1>1, <2>1, RunPlaces
<1>3. P!Shrinks(p, MostGates)
  <2>1. [P!Next]_(P!vars)
    BY OrchestratorStep, SameNext DEF Known, MainInv, MainTypeOK
  <2> QED BY <1>0, <2>1, AssumptionsMet, P!ShrinkStep DEF Known
<1>4. CASE CallRun(p)
  <2>1. call[p].pc = "run" /\ run[p].pc = "idle" /\ run'[p].pc = "completed"
        /\ call' = call /\ goal # "none"
    <3>1. run \in [Runner -> P!RunRecord] /\ "pc" \in DOMAIN run[p]
      BY DEF Known, RunTyped, P!RunRecord
    <3>2. run'[p].pc = "completed"
      BY <1>4, <3>1 DEF CallRun, O!Call
    <3> QED BY <1>4, <3>2 DEF CallRun, O!Call
  <2>2. next <= P!PerCall(MostGates)
    BY <1>3, <1>4, SameCall DEF CallRun, P!Shrinks
  <2>3. P!PerCall(MostGates) = MostWork
    BY <2>1, BoundsKnown
  <2> HIDE DEF left, next
  <2>4. WorkAhead(p)' <= MostWork /\ WorkAhead(p) = MostWork + 1
    BY <1>0, <1>1, <2>1, <2>2, <2>3 DEF WorkCounted, next
  <2> QED BY <1>0, <1>2, <2>1, <2>4 DEF StagesCounted, CallCounted
<1>5. CASE Work(p) /\ ~CallRun(p)
  <2>1. "approve" \in O!Verdict
    BY DEF O!Verdict
  <2>2. next < left
    BY <1>3, <1>5, <2>1, SameStep DEF Work, O!Step, P!Shrinks
  <2>3. /\ run[p].pc # "idle" /\ call' = call
        /\ call[p].pc = "run" => run'[p].pc # "idle"
        /\ call[p].pc \in {"run", "settle"}
    <3>1. /\ call' = call
          /\ run[p].pc \notin {"idle", "log"} \/ run[p].pc = "log"
      BY <1>5, RunMoves DEF Known, Work, institution
    <3>2. run'[p].pc = "idle" => run[p].pc = "log"
      BY <1>5, WorkMoves DEF Known
    <3> QED BY <3>1, <3>2, RunPlaces
  <2>4. WorkAhead(p)' = next /\ WorkAhead(p) = left
    BY <1>0, <1>1, <2>3 DEF WorkCounted, Governing
  <2> HIDE DEF left, next
  <2> QED BY <1>0, <1>2, <2>2, <2>3, <2>4 DEF StagesCounted, CallCounted
<1>6. CASE Finish(p)
  <2>1. next < left
    BY <1>3, <1>6, SameStep DEF Finish, O!Step, P!Shrinks
  <2>2. run[p].pc # "idle" /\ call[p].pc = "run" /\ call'[p].pc \in {"settle", "idle"}
    BY <1>6 DEF Finish, O!FinishGoal, O!Escalate, I!Run, I!Goto, I!Return, I!Idle,
       Known, CallInv, CallsTypeOK
  <2>3. WorkAhead(p)' = next /\ WorkAhead(p) = left
    BY <1>0, <1>1, <2>2 DEF WorkCounted, Governing
  <2> HIDE DEF left, next
  <2> QED BY <1>0, <1>2, <2>1, <2>2, <2>3 DEF StagesCounted, CallCounted
<1> QED BY <1>4, <1>5, <1>6

LEMMA KnownAlways == Spec => []Known
<1>1. Init => RunKnown
  BY DEF Init, Fresh, O!Init, RunKnown
<1>2. Known /\ [Next]_vars => RunKnown'
  BY RunKnownStays
<1>3. CInv => MainInv /\ CallInv
  BY DEF CInv
<1>4. P!Spec => []P!IInv /\ []P!CallBounded
  BY AssumptionsMet, P!Invariance, P!CallsAreBounded, PTL
<1> QED BY <1>1, <1>2, <1>3, <1>4, CommandInvariance, RunInvariance, RunTypeOK,
        GoalUnderOrchestrator, SameSpec, PTL DEF Spec, Known

(* main() of cli.py goes round in no circle, and waits for nobody to take  *)
(* one: every step of an invocation leaves it fewer, of a number that is   *)
(* fixed by its review gates when it starts, and no other invocation adds  *)
(* any.                                                                    *)
THEOREM InvocationsUseUpTheirSteps == Spec => InvocationsAdvance
<1>1. Known /\ Known' /\ [Next]_vars => [\A p \in Invocation : Advances(p)]_vars
  <2> SUFFICES ASSUME Known, Known', [Next]_vars, NEW p \in Invocation
               PROVE  Advances(p)
    OBVIOUS
  <2>1. ASSUME p \in Runner, ContinueRun(p)
        PROVE  StepsAhead(p)' < StepsAhead(p)
    <3>1. CASE Raise(p) \/ Return(p)
      <4>1. main'[p].pc = "exit" /\ main[p].pc = "run"
        BY <3>1, MainMoves DEF Raise, Return, At, Moved, Known, MainInv
      <4>2. StepsAhead(p)' = 0 /\ StepsAhead(p) > 0
        BY <4>1, AheadIsNumber, Counted DEF StagesCounted
      <4> QED BY <4>2
    <3> QED BY <2>1, <3>1, StoreAdvances, RunAdvances DEF ContinueRun
  <2>2. StepsAhead(p) \in Nat /\ StepsAhead(p)' \in Nat
    BY AheadIsNumber, NumbersStay DEF Numbers
  <2> QED BY <2>1, <2>2, MainAdvances, OthersStand DEF Advances
<1> QED BY <1>1, KnownAlways, PTL DEF Spec, InvocationsAdvance

================================================================================
