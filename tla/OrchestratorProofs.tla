-------------------------- MODULE OrchestratorProofs --------------------------
(***************************************************************************)
(* Proofs about Orchestrator for any set of runners, any plans, any        *)
(* registry and any bounds.                                                *)
(***************************************************************************)
EXTENDS Orchestrator, SequenceTheorems, FiniteSetTheorems, Induction, TLAPS

(* Whom route() selects is registered, and does not review its own work.   *)
LEMMA SelectedFacts ==
  ASSUME NEW reg, NEW request, NEW a \in Selected(reg, request)
  PROVE  a \in DOMAIN reg /\ Independent(a, request)
  BY DEF Selected, EligibleCandidates, Candidates, Eligible

(* The accepted plan's payloads are the planned tasks of the proposal.     *)
LEMMA SubmitType ==
  ASSUME NEW p \in Plans
  PROVE  /\ PlanIds(p) \subseteq TaskId
         /\ [t \in PlanIds(p) |-> p[CHOOSE i \in DOMAIN p : p[i].id = t]]
              \in [PlanIds(p) -> PlannedTask]
<1>1. p \in Seq(PlannedTask)
  BY PlansAssumption
<1>2. \A i \in DOMAIN p : p[i] \in PlannedTask
  BY <1>1, ElementOfSeq
<1>3. PlanIds(p) \subseteq TaskId
  BY <1>2 DEF PlanIds, PlannedTask
<1>4. ASSUME NEW t \in PlanIds(p)
      PROVE  p[CHOOSE i \in DOMAIN p : p[i].id = t] \in PlannedTask
  BY <1>2, <1>4 DEF PlanIds
<1> QED
  BY <1>3, <1>4

(* A local step of one runner keeps the locals well typed.                 *)
LEMMA RunType ==
  ASSUME run \in [Runner -> RunRecord], NEW r \in Runner, NEW me \in RunRecord,
         run' = [run EXCEPT ![r] = me]
  PROVE  run' \in [Runner -> RunRecord]
  OBVIOUS

LEMMA IdleType == IdleRun \in RunRecord
  BY BoundsAssumption DEF IdleRun, RunRecord, Reason, NoTask, NoAgent, TaskId

LEMMA InitType == Init => TypeOK
<1> SUFFICES ASSUME Init PROVE TypeOK
  OBVIOUS
<1> USE BoundsAssumption, RegistryAssumption DEF Init
<1>2. run \in [Runner -> RunRecord]
  BY IdleType
<1>3. plan \in [DOMAIN plan -> PlannedTask] /\ DOMAIN plan = {}
  OBVIOUS
<1>4. tasks \in [DOMAIN plan -> Row]
  OBVIOUS
<1> QED
  BY <1>2, <1>3, <1>4 DEF TypeOK

(* The steps that read the database, or whose only write is to the goal.   *)
LEMMA QuietType ==
  ASSUME TypeOK, NEW r \in Runner,
         \/ Call(r) \/ ReadCompleted(r) \/ Begin(r) \/ NoProducer(r)
         \/ Blocked(r) \/ FinishGoal(r) \/ NoReviewer(r) \/ FailGoal(r)
         \/ Crash(r)
  PROVE  TypeOK'
<1> USE DEF TypeOK, database, counters
<1>0. run[r] \in RunRecord
  OBVIOUS
<1>1. CASE Call(r)
  <2>1. {t \in DOMAIN tasks : tasks[t].status # "canonical"} \subseteq TaskId
    OBVIOUS
  <2>2. [run[r] EXCEPT !.pc = "completed",
           !.pending = {t \in DOMAIN tasks : tasks[t].status # "canonical"}]
          \in RunRecord
    BY <1>0, <2>1 DEF RunRecord
  <2> QED
    BY <1>1, <2>2 DEF Call
<1>2. CASE ReadCompleted(r)
  BY <1>0, <1>2 DEF ReadCompleted, RunRecord
<1>3. CASE Begin(r)
  BY <1>0, <1>3 DEF Begin, RunRecord
<1>4. CASE NoProducer(r)
  <2>1. PICK t \in FirstOf(Batch(r)) :
          run' = [run EXCEPT ![r].pc = "escalate", ![r].task = t,
                             ![r].why = "no producer"]
    BY <1>4 DEF NoProducer
  <2>2. t \in TaskId
    BY <1>0, <2>1 DEF FirstOf, Batch, Ready, RunRecord
  <2>3. [run[r] EXCEPT !.pc = "escalate", !.task = t, !.why = "no producer"]
          \in RunRecord
    BY <1>0, <2>2 DEF RunRecord, Reason
  <2> QED
    BY <1>4, <2>1, <2>3 DEF NoProducer
<1>5. CASE Blocked(r)
  <2>1. [run[r] EXCEPT !.pc = "escalate", !.why = "blocked"] \in RunRecord
    BY <1>0 DEF RunRecord, Reason
  <2> QED
    BY <1>5, <2>1 DEF Blocked
<1>6. CASE FinishGoal(r)
  BY <1>0, <1>6 DEF FinishGoal, RunRecord
<1>7. CASE NoReviewer(r)
  <2>1. [run[r] EXCEPT !.pc = "escalate", !.why = "no reviewer"] \in RunRecord
    BY <1>0 DEF RunRecord, Reason
  <2> QED
    BY <1>7, <2>1 DEF NoReviewer
<1>8. CASE FailGoal(r)
  BY IdleType, <1>8 DEF FailGoal
<1>9. CASE Crash(r)
  BY IdleType, <1>9 DEF Crash
<1> QED
  BY <1>1, <1>2, <1>3, <1>4, <1>5, <1>6, <1>7, <1>8, <1>9

LEMMA SetTaskType ==
  ASSUME TypeOK, NEW r \in Runner, NEW status \in RunStatus,
         SetTask(r, status), UNCHANGED plan
  PROVE  tasks' \in [DOMAIN plan' -> Row]
<1>1. run[r] \in RunRecord
  BY DEF TypeOK
<1>2. [status |-> status, producer |-> run[r].producer,
       attempts |-> run[r].version] \in Row
  BY <1>1 DEF RunRecord, Row
<1> QED
  BY <1>2 DEF SetTask, TypeOK

(* The steps that write a task's row.                                      *)
LEMMA TaskWriteType ==
  ASSUME IInv, NEW r \in Runner,
         Attempt(r) \/ SubmitForReview(r) \/ Revise(r) \/ Reject(r) \/ Canonize(r)
  PROVE  TypeOK'
<1>0. TypeOK /\ run[r] \in RunRecord /\ UNCHANGED plan
  BY DEF IInv, TypeOK, Attempt, SubmitForReview, Revise, Reject, Canonize
<1>1. tasks' \in [DOMAIN plan' -> Row]
  <2>1. \E status \in RunStatus : SetTask(r, status)
    BY DEF Attempt, SubmitForReview, Revise, Reject, Canonize, RunStatus
  <2> QED
    BY <1>0, <2>1, SetTaskType
<1>2. run' \in [Runner -> RunRecord]
  <2>1. CASE Attempt(r)
    BY <1>0, <2>1 DEF Attempt, RunRecord, TypeOK
  <2>2. CASE SubmitForReview(r)
    BY <1>0, <2>2 DEF SubmitForReview, RunRecord, TypeOK
  <2>3. CASE Revise(r)
    <3>1. AfterRevise(r) \in RunRecord
      <4>1. CASE run[r].version <= MaxRevisions
        <5>1. run[r].version + 1 \in 0..(MaxRevisions + 1)
          BY <1>0, <4>1, BoundsAssumption DEF RunRecord
        <5> QED
          BY <1>0, <4>1, <5>1 DEF AfterRevise, RunRecord
      <4>2. CASE ~(run[r].version <= MaxRevisions)
        BY <1>0, <4>2 DEF AfterRevise, RunRecord, Reason
      <4> QED
        BY <4>1, <4>2
    <3> QED
      BY <1>0, <2>3, <3>1 DEF Revise, TypeOK
  <2>4. CASE Reject(r)
    BY <1>0, <2>4 DEF Reject, RunRecord, TypeOK
  <2>5. CASE Canonize(r)
    <3>1. [IdleRun EXCEPT
             !.pc = "loop",
             !.pending = run[r].pending \ {run[r].task},
             !.completed = run[r].completed \union {run[r].task},
             !.batch = run[r].batch \ {run[r].task}] \in RunRecord
      <4>1. run[r].task \in TaskId
        BY <1>0, <2>5 DEF IInv, LocalsSound, InTask, Canonize, At, RunRecord
      <4> QED
        BY <1>0, <4>1, IdleType DEF RunRecord
    <3> QED
      BY <1>0, <2>5, <3>1 DEF Canonize, TypeOK
  <2> QED
    BY <2>1, <2>2, <2>3, <2>4, <2>5
<1> QED
  BY <1>0, <1>1, <1>2
     DEF TypeOK, Attempt, SubmitForReview, Revise, Reject, Canonize, counters

LEMMA StartTaskType ==
  ASSUME TypeOK, NEW r \in Runner, StartTask(r)
  PROVE  TypeOK'
<1>0. run[r] \in RunRecord
  BY DEF TypeOK
<1>p. PICK t \in FirstOf(Batch(r)) : \E a \in Producers(t) :
        run' = [run EXCEPT ![r].pc = "attempt", ![r].batch = Batch(r),
                           ![r].task = t, ![r].producer = a, ![r].version = 1]
  BY DEF StartTask
<1>1. PICK a \in Producers(t) :
        run' = [run EXCEPT ![r].pc = "attempt", ![r].batch = Batch(r),
                           ![r].task = t, ![r].producer = a, ![r].version = 1]
  BY <1>p
<1>2. Batch(r) \subseteq TaskId /\ t \in TaskId
  BY <1>0, <1>1 DEF FirstOf, Batch, Ready, RunRecord
<1>3. a \in AgentId
  BY <1>1, SelectedFacts DEF Producers, TypeOK
<1>4. [run[r] EXCEPT !.pc = "attempt", !.batch = Batch(r), !.task = t,
                     !.producer = a, !.version = 1] \in RunRecord
  <2>1. 1 \in 0..(MaxRevisions + 1)
    BY BoundsAssumption
  <2> QED
    BY <1>0, <1>2, <1>3, <2>1 DEF RunRecord
<1>5. run' \in [Runner -> RunRecord]
  BY <1>1, <1>4 DEF TypeOK
<1> QED
  BY <1>5 DEF StartTask, TypeOK, database, counters

(* The steps that append to a table.                                       *)
LEMMA ProduceType ==
  ASSUME IInv, NEW r \in Runner, Produce(r)
  PROVE  TypeOK'
<1>0. TypeOK /\ run[r] \in RunRecord
  BY DEF IInv, TypeOK
<1>1. /\ run[r].task \in TaskId /\ run[r].producer \in AgentId
      /\ run[r].version \in 1..(MaxRevisions + 1)
  <2>1. run[r].task \in run[r].batch /\ run[r].producer \in AgentId /\ run[r].version >= 1
    BY DEF IInv, LocalsSound, InTask, Produce, At
  <2> QED
    BY <1>0, <2>1, BoundsAssumption DEF RunRecord
<1>2. [task |-> run[r].task, version |-> run[r].version,
       by |-> run[r].producer, status |-> "draft"] \in Artifact
  BY <1>1 DEF Artifact
<1>3. artifacts' \in Seq(Artifact) /\ Len(artifacts) + 1 \in Nat
  BY <1>0, <1>2, AppendProperties DEF Produce, TypeOK
<1>4. run' \in [Runner -> RunRecord]
  BY <1>0, <1>3 DEF Produce, RunRecord, TypeOK
<1> QED
  BY <1>0, <1>3, <1>4 DEF Produce, TypeOK, counters

LEMMA LogType ==
  ASSUME TypeOK, NEW r \in Runner, LogCompletion(r) \/ Escalate(r)
  PROVE  TypeOK'
<1>0. run[r] \in RunRecord
  BY DEF TypeOK
<1>1. CASE LogCompletion(r)
  BY <1>1, IdleType DEF LogCompletion, TypeOK, counters
<1>2. CASE Escalate(r)
  <2>1. [task |-> run[r].task, why |-> run[r].why]
          \in [task: TaskId \union {NoTask}, why: Reason]
    BY <1>0 DEF RunRecord
  <2> QED
    BY <1>2, <2>1, IdleType DEF Escalate, TypeOK, counters
<1> QED
  BY <1>1, <1>2

(* The gate a review is about, and the draft it is on.                     *)
LEMMA ReviewFacts ==
  ASSUME IInv, NEW r \in Runner, At(r, "review")
  PROVE  /\ run[r] \in RunRecord
         /\ run[r].task \in DOMAIN plan
         /\ run[r].draft \in DOMAIN artifacts
         /\ artifacts[run[r].draft] \in Artifact
         /\ run[r].gate \in Nat \ {0}
         /\ Gates(r) \in Seq(Capability)
<1>1. TypeOK /\ run[r] \in RunRecord
  BY DEF IInv, TypeOK
<1>2. run[r].task \in run[r].batch /\ run[r].batch \subseteq run[r].pending
      /\ run[r].pending \subseteq DOMAIN plan
  BY DEF IInv, LocalsSound, InTask, At
<1>3. run[r].draft \in DOMAIN artifacts /\ run[r].gate \in Nat \ {0}
  BY DEF IInv, DraftSound, WithDraft, At
<1>4. artifacts[run[r].draft] \in Artifact
  BY <1>1, <1>3, ElementOfSeq DEF TypeOK
<1>5. Gates(r) \in Seq(Capability)
  BY <1>1, <1>2 DEF TypeOK, Gates, PlannedTask
<1> QED
  BY <1>1, <1>2, <1>3, <1>4, <1>5

LEMMA VerdictType ==
  ASSUME NEW r \in Runner, run[r] \in RunRecord, NEW verdict \in Verdict
  PROVE  AfterVerdict(r, verdict) \in RunRecord
<1>1. CASE verdict = "approve"
  BY <1>1 DEF AfterVerdict, RunRecord
<1>2. CASE verdict = "escalate"
  BY <1>2 DEF AfterVerdict, RunRecord, Reason
<1>3. CASE verdict = "reject"
  BY <1>3 DEF AfterVerdict, RunRecord
<1>4. CASE verdict = "revise"
  BY <1>4 DEF AfterVerdict, RunRecord
<1> QED
  BY <1>1, <1>2, <1>3, <1>4 DEF Verdict

LEMMA ReviewType ==
  ASSUME IInv, NEW r \in Runner, NEW verdict \in Verdict, Review(r, verdict)
  PROVE  TypeOK'
<1>0. TypeOK /\ run[r] \in RunRecord /\ Gates(r) \in Seq(Capability)
      /\ run[r].gate \in 1..Len(Gates(r))
  BY ReviewFacts DEF IInv, Review
<1>1. PICK a \in Reviewers(r) :
        reviews' = reviews \union
          {[artifact |-> run[r].draft, gate |-> Gates(r)[run[r].gate],
            reviewer |-> a, verdict |-> verdict]}
  BY DEF Review
<1>2. a \in AgentId
  BY <1>0, <1>1, SelectedFacts DEF Reviewers, TypeOK
<1>3. Gates(r)[run[r].gate] \in Capability
  BY <1>0, ElementOfSeq
<1>4. [artifact |-> run[r].draft, gate |-> Gates(r)[run[r].gate],
       reviewer |-> a, verdict |-> verdict]
        \in [artifact: Nat, gate: Capability, reviewer: AgentId, verdict: Verdict]
  BY <1>0, <1>2, <1>3 DEF RunRecord
<1>5. run' \in [Runner -> RunRecord]
  BY <1>0, VerdictType DEF Review, TypeOK
<1> QED
  BY <1>0, <1>1, <1>4, <1>5 DEF Review, TypeOK, counters

(* Promotion changes the status of one artifact and nothing else of it.    *)
LEMMA PromoteArtifacts ==
  ASSUME IInv, NEW r \in Runner, Promote(r)
  PROVE  /\ artifacts' \in Seq(Artifact)
         /\ DOMAIN artifacts' = DOMAIN artifacts
         /\ \A a \in DOMAIN artifacts :
              /\ artifacts'[a].task = artifacts[a].task
              /\ artifacts'[a].by = artifacts[a].by
              /\ artifacts'[a].status =
                   IF a = run[r].draft THEN "canonical" ELSE artifacts[a].status
<1> DEFINE d == run[r].draft
           promoted == [artifacts[d] EXCEPT !.status = "canonical"]
<1>1. artifacts \in Seq(Artifact) /\ d \in 1..Len(artifacts)
      /\ artifacts[d] \in Artifact
  BY ReviewFacts DEF Promote, IInv, TypeOK
<1>2. promoted \in Artifact
  BY <1>1 DEF Artifact
<1>3. artifacts' = [artifacts EXCEPT ![d] = promoted]
  BY DEF Promote
<1> HIDE DEF promoted
<1>4. /\ artifacts' \in Seq(Artifact) /\ Len(artifacts') = Len(artifacts)
      /\ \A j \in 1..Len(artifacts) :
           artifacts'[j] = IF j = d THEN promoted ELSE artifacts[j]
  BY <1>1, <1>2, <1>3, ExceptSeq
<1>5. promoted.status = "canonical" /\ promoted.task = artifacts[d].task
      /\ promoted.by = artifacts[d].by
  BY <1>1 DEF promoted, Artifact
<1> QED
  BY <1>1, <1>4, <1>5

LEMMA PromoteType ==
  ASSUME IInv, NEW r \in Runner, Promote(r)
  PROVE  TypeOK'
<1>1. run[r].draft \in Nat /\ run[r] \in RunRecord /\ TypeOK
  BY ReviewFacts DEF Promote, RunRecord, IInv
<1>2. run' \in [Runner -> RunRecord]
  BY <1>1 DEF Promote, RunRecord, TypeOK
<1> QED
  BY <1>1, <1>2, PromoteArtifacts DEF Promote, TypeOK, counters

LEMMA RegisterType ==
  ASSUME TypeOK, NEW offer \in Offers, Register(offer[1], offer[2])
  PROVE  TypeOK'
<1>1. offer[1] \in AgentId /\ offer[2] \in Profile
  BY RegistryAssumption
<1>2. DOMAIN registry' = DOMAIN registry \union {offer[1]}
      /\ registry' \in [DOMAIN registry' -> Profile]
  BY <1>1 DEF Register, TypeOK
<1> QED
  BY <1>1, <1>2 DEF Register, TypeOK, database, counters

LEMMA SubmitTypeOK ==
  ASSUME TypeOK, NEW p \in Plans, Submit(p)
  PROVE  TypeOK'
<1>1. /\ DOMAIN plan' = PlanIds(p) /\ PlanIds(p) \subseteq TaskId
      /\ plan' \in [DOMAIN plan' -> PlannedTask]
  BY SubmitType DEF Submit
<1>2. [status |-> "planned", producer |-> NoAgent, attempts |-> 0] \in Row
  BY BoundsAssumption DEF Row, RunStatus
<1>3. tasks' \in [DOMAIN plan' -> Row]
  BY <1>1, <1>2 DEF Submit
<1>4. events' \in Seq({"goal_submitted", "goal_completed", "goal_escalated"})
  BY DEF Submit
<1> QED
  BY <1>1, <1>3, <1>4 DEF Submit, TypeOK, counters

LEMMA TypeStep == IInv /\ [Next]_vars => TypeOK'
<1> SUFFICES ASSUME IInv, [Next]_vars PROVE TypeOK'
  OBVIOUS
<1>0. TypeOK
  BY DEF IInv
<1>1. CASE \E p \in Plans : Submit(p)
  BY <1>0, <1>1, SubmitTypeOK
<1>2. CASE \E offer \in Offers : Register(offer[1], offer[2])
  BY <1>0, <1>2, RegisterType
<1>3. ASSUME NEW r \in Runner, Call(r) \/ Step(r) \/ Crash(r)
      PROVE  TypeOK'
  BY <1>0, <1>3, QuietType, TaskWriteType, StartTaskType, ProduceType, LogType,
     ReviewType, PromoteType DEF Step
<1>4. CASE UNCHANGED vars
  BY <1>0, <1>4 DEF TypeOK, vars, database, counters
<1> QED
  BY <1>1, <1>2, <1>3, <1>4 DEF Next

(***************************************************************************)
(* The tables only grow.                                                   *)
(***************************************************************************)
ArtifactsGrow ==
  /\ DOMAIN artifacts \subseteq DOMAIN artifacts'
  /\ \A a \in DOMAIN artifacts :
       /\ artifacts'[a].task = artifacts[a].task
       /\ artifacts'[a].by = artifacts[a].by
       /\ artifacts[a].status = "canonical" => artifacts'[a].status = "canonical"

LEMMA ProduceArtifacts ==
  ASSUME IInv, NEW r \in Runner, Produce(r)
  PROVE  /\ DOMAIN artifacts' = DOMAIN artifacts \union {Len(artifacts) + 1}
         /\ Len(artifacts) + 1 \notin DOMAIN artifacts
         /\ \A a \in DOMAIN artifacts : artifacts'[a] = artifacts[a]
         /\ artifacts'[Len(artifacts) + 1] =
              [task |-> run[r].task, version |-> run[r].version,
               by |-> run[r].producer, status |-> "draft"]
  BY DEF Produce, IInv, TypeOK

LEMMA Quiet ==
  ASSUME NEW r \in Runner, Call(r) \/ Step(r) \/ Crash(r),
         ~Produce(r), ~Promote(r)
  PROVE  UNCHANGED artifacts
  BY DEF Step, Call, Crash, ReadCompleted, Begin, StartTask, NoProducer, Blocked,
         FinishGoal, LogCompletion, Attempt, SubmitForReview, Review, NoReviewer,
         Revise, Reject, FailGoal, Canonize, Escalate, database

LEMMA ArtifactGrowth == IInv /\ [Next]_vars => ArtifactsGrow
<1> SUFFICES ASSUME IInv, [Next]_vars PROVE ArtifactsGrow
  OBVIOUS
<1>1. ASSUME NEW r \in Runner, Produce(r) PROVE ArtifactsGrow
  BY <1>1, ProduceArtifacts DEF ArtifactsGrow
<1>2. ASSUME NEW r \in Runner, Promote(r) PROVE ArtifactsGrow
  BY <1>2, PromoteArtifacts DEF ArtifactsGrow
<1>3. ASSUME UNCHANGED artifacts PROVE ArtifactsGrow
  BY <1>3 DEF ArtifactsGrow
<1>4. ASSUME NEW p \in Plans, Submit(p) PROVE ArtifactsGrow
  BY <1>3, <1>4 DEF Submit
<1>5. ASSUME NEW offer \in Offers, Register(offer[1], offer[2])
      PROVE  ArtifactsGrow
  BY <1>3, <1>5 DEF Register, database
<1>6. ASSUME NEW r \in Runner, Call(r) \/ Step(r) \/ Crash(r)
      PROVE  ArtifactsGrow
  BY <1>1, <1>2, <1>3, <1>6, Quiet
<1>7. CASE UNCHANGED vars
  BY <1>3, <1>7 DEF vars, database
<1> QED
  BY <1>4, <1>5, <1>6, <1>7 DEF Next

LEMMA DeliveredGrows == ArtifactsGrow => Delivered \subseteq Delivered'
  BY DEF ArtifactsGrow, Delivered

(* Reviews are never withdrawn, and a submitted plan never changes.        *)
LEMMA TablesGrow ==
  ASSUME [Next]_vars
  PROVE  reviews \subseteq reviews' /\ (goal # "none" => plan' = plan)
<1>1. ASSUME NEW p \in Plans, Submit(p)
      PROVE  reviews' = reviews /\ goal = "none"
  BY <1>1 DEF Submit
<1>2. ASSUME NEW offer \in Offers, Register(offer[1], offer[2])
      PROVE  reviews' = reviews /\ plan' = plan
  BY <1>2 DEF Register, database
<1>3. ASSUME NEW r \in Runner, Call(r) \/ Step(r) \/ Crash(r)
      PROVE  reviews \subseteq reviews' /\ plan' = plan
  BY <1>3
     DEF Step, Call, Crash, ReadCompleted, Begin, StartTask, NoProducer, Blocked,
         FinishGoal, LogCompletion, Attempt, Produce, SubmitForReview, Review,
         NoReviewer, Revise, Reject, FailGoal, Promote, Canonize, Escalate,
         database
<1>4. CASE UNCHANGED vars
  BY <1>4 DEF vars, database
<1> QED
  BY <1>1, <1>2, <1>3, <1>4 DEF Next

(***************************************************************************)
(* LocalsSound.                                                            *)
(***************************************************************************)
LEMMA LocalsKept ==
  ASSUME NEW s \in Runner, LocalsSound(run[s]), run'[s] = run[s],
         ArtifactsGrow, plan' = plan
  PROVE  LocalsSound(run[s])'
  BY DeliveredGrows DEF LocalsSound

LEMMA LocalsIdle ==
  ASSUME NEW r \in Runner, run'[r] = IdleRun
  PROVE  LocalsSound(run[r])'
  BY DEF LocalsSound, IdleRun, InTask

LEMMA LocalsStep ==
  ASSUME IInv, ArtifactsGrow, plan' = plan,
         NEW r \in Runner, Call(r) \/ Step(r) \/ Crash(r)
  PROVE  LocalsSound(run[r])'
<1>0. /\ TypeOK /\ run[r] \in RunRecord /\ DOMAIN run = Runner
      /\ LocalsSound(run[r]) /\ Delivered \subseteq Delivered'
      /\ DOMAIN tasks = DOMAIN plan
      /\ \A t \in DOMAIN plan : tasks[t].status = "canonical" => t \in Delivered
  BY DeliveredGrows DEF IInv, TypeOK, TablesAgree
<1>1. CASE Call(r)
  <2>1. /\ run'[r].pc = "completed" /\ run'[r].completed = run[r].completed
        /\ run'[r].pending = {t \in DOMAIN tasks : tasks[t].status # "canonical"}
        /\ run'[r].batch = run[r].batch /\ run[r].pc = "idle"
    BY <1>0, <1>1 DEF Call, At, RunRecord
  <2> QED
    BY <1>0, <2>1 DEF LocalsSound, InTask
<1>2. CASE ReadCompleted(r)
  <2>1. /\ run'[r].pc = "begin" /\ run'[r].pending = run[r].pending
        /\ run'[r].completed = {t \in DOMAIN tasks : tasks[t].status = "canonical"}
        /\ run'[r].batch = run[r].batch /\ run[r].pc = "completed"
    BY <1>0, <1>2 DEF ReadCompleted, At, RunRecord
  <2> QED
    BY <1>0, <2>1 DEF LocalsSound, InTask
<1>3. CASE Begin(r)
  BY <1>0, <1>3 DEF Begin, At, LocalsSound, InTask
<1>4. CASE StartTask(r)
  <2>1. PICK t \in FirstOf(Batch(r)) : \E a \in Producers(t) :
          run' = [run EXCEPT ![r].pc = "attempt", ![r].batch = Batch(r),
                             ![r].task = t, ![r].producer = a, ![r].version = 1]
    BY <1>4 DEF StartTask
  <2>2. PICK a \in Producers(t) :
          run' = [run EXCEPT ![r].pc = "attempt", ![r].batch = Batch(r),
                             ![r].task = t, ![r].producer = a, ![r].version = 1]
    BY <2>1
  <2>3. /\ run'[r].pc = "attempt" /\ run'[r].pending = run[r].pending
        /\ run'[r].completed = run[r].completed /\ run'[r].batch = Batch(r)
        /\ run'[r].task = t /\ run'[r].producer = a /\ run'[r].version = 1
        /\ run[r].pc = "loop"
    BY <1>0, <1>4, <2>2 DEF StartTask, At, RunRecord
  <2>4. a \in AgentId /\ t \in Batch(r)
    BY <1>0, <2>2, SelectedFacts DEF Producers, TypeOK, FirstOf
  <2>5. Batch(r) \subseteq run[r].pending
        /\ \A u \in Batch(r) : plan[u].deps \subseteq run[r].completed
    BY <1>0 DEF Batch, Ready, LocalsSound
  <2> QED
    BY <1>0, <2>3, <2>4, <2>5 DEF LocalsSound, InTask
<1>5. CASE NoProducer(r)
  <2>1. /\ run'[r].pc = "escalate" /\ run'[r].pending = run[r].pending
        /\ run'[r].completed = run[r].completed /\ run'[r].batch = run[r].batch
        /\ run[r].pc # "idle"
    <3>1. PICK t \in FirstOf(Batch(r)) :
            run' = [run EXCEPT ![r].pc = "escalate", ![r].task = t,
                               ![r].why = "no producer"]
      BY <1>5 DEF NoProducer
    <3> QED
      BY <1>0, <1>5, <3>1 DEF NoProducer, At, RunRecord
  <2> QED
    BY <1>0, <2>1 DEF LocalsSound, InTask
<1>6. CASE Blocked(r)
  BY <1>0, <1>6 DEF Blocked, At, LocalsSound, InTask
<1>7. CASE FinishGoal(r)
  BY <1>0, <1>7 DEF FinishGoal, At, LocalsSound, InTask
<1>8. CASE Attempt(r)
  BY <1>0, <1>8 DEF Attempt, At, LocalsSound, InTask
<1>9. CASE Produce(r)
  BY <1>0, <1>9 DEF Produce, At, LocalsSound, InTask
<1>10. CASE SubmitForReview(r)
  BY <1>0, <1>10 DEF SubmitForReview, At, LocalsSound, InTask
<1>11. ASSUME NEW verdict \in Verdict, Review(r, verdict)
       PROVE  LocalsSound(run[r])'
  BY <1>0, <1>11 DEF Review, AfterVerdict, Verdict, At, LocalsSound, InTask
<1>12. CASE NoReviewer(r)
  <2>1. /\ run'[r].pc = "escalate" /\ run'[r].pending = run[r].pending
        /\ run'[r].completed = run[r].completed /\ run'[r].batch = run[r].batch
        /\ run[r].pc # "idle"
    BY <1>0, <1>12 DEF NoReviewer, At, RunRecord
  <2> QED
    BY <1>0, <2>1 DEF LocalsSound, InTask
<1>13. CASE Revise(r)
  BY <1>0, <1>13 DEF Revise, AfterRevise, RunRecord, At, LocalsSound, InTask
<1>14. CASE Reject(r)
  BY <1>0, <1>14 DEF Reject, At, LocalsSound, InTask
<1>15. CASE Promote(r)
  <2>1. run[r].task \in Delivered'
    <3>1. /\ run[r].draft \in DOMAIN artifacts
          /\ artifacts[run[r].draft].task = run[r].task
      BY <1>15 DEF Promote, IInv, DraftSound, WithDraft, At
    <3>2. /\ run[r].draft \in DOMAIN artifacts'
          /\ artifacts'[run[r].draft].task = run[r].task
          /\ artifacts'[run[r].draft].status = "canonical"
      BY <1>15, <3>1, PromoteArtifacts
    <3> QED
      BY <3>2 DEF Delivered
  <2> QED
    BY <1>0, <1>15, <2>1 DEF Promote, At, LocalsSound, InTask
<1>16. CASE Canonize(r)
  BY <1>0, <1>16 DEF Canonize, At, LocalsSound, InTask, IdleRun
<1>17. CASE LogCompletion(r) \/ FailGoal(r) \/ Escalate(r) \/ Crash(r)
  <2>1. run'[r] = IdleRun
    BY <1>0, <1>17 DEF LogCompletion, FailGoal, Escalate, Crash
  <2> QED
    BY <2>1, LocalsIdle
<1> QED
  BY <1>1, <1>2, <1>3, <1>4, <1>5, <1>6, <1>7, <1>8, <1>9, <1>10, <1>11, <1>12,
     <1>13, <1>14, <1>15, <1>16, <1>17 DEF Step

(***************************************************************************)
(* DraftSound and DraftsApart.                                             *)
(***************************************************************************)

(* Every other step leaves its runner without a draft.                     *)
LEMMA LosesDraft ==
  ASSUME IInv, NEW r \in Runner, Call(r) \/ Step(r) \/ Crash(r),
         ~Produce(r), ~SubmitForReview(r), ~(\E v \in Verdict : Review(r, v))
  PROVE  run'[r].pc \notin WithDraft
<1>0. run \in [Runner -> RunRecord] /\ run[r] \in RunRecord
  BY DEF IInv, TypeOK
<1>1. CASE Begin(r) \/ FinishGoal(r)
  BY <1>0, <1>1 DEF Begin, FinishGoal, WithDraft, RunRecord
<1>2. CASE Blocked(r)
  BY <1>0, <1>2 DEF Blocked, WithDraft, RunRecord
<1>3. CASE NoReviewer(r)
  BY <1>0, <1>3 DEF NoReviewer, WithDraft, RunRecord
<1>4. CASE Call(r) \/ ReadCompleted(r)
  BY <1>0, <1>4 DEF Call, ReadCompleted, WithDraft, RunRecord
<1>5. CASE Attempt(r) \/ Reject(r) \/ Promote(r)
  BY <1>0, <1>5 DEF Attempt, Reject, Promote, WithDraft, RunRecord
<1>6. CASE LogCompletion(r) \/ FailGoal(r) \/ Escalate(r) \/ Crash(r)
  BY <1>0, <1>6
     DEF LogCompletion, FailGoal, Escalate, Crash, IdleRun, WithDraft
<1>7. CASE Revise(r)
  BY <1>0, <1>7 DEF Revise, AfterRevise, WithDraft, RunRecord
<1>8. CASE Canonize(r)
  BY <1>0, <1>8 DEF Canonize, IdleRun, WithDraft
<1>9. CASE NoProducer(r)
  <2>1. PICK t \in FirstOf(Batch(r)) :
          run' = [run EXCEPT ![r].pc = "escalate", ![r].task = t,
                             ![r].why = "no producer"]
    BY <1>9 DEF NoProducer
  <2> QED
    BY <1>0, <2>1 DEF WithDraft, RunRecord
<1>10. CASE StartTask(r)
  <2>1. PICK t \in FirstOf(Batch(r)) : \E a \in Producers(t) :
          run' = [run EXCEPT ![r].pc = "attempt", ![r].batch = Batch(r),
                             ![r].task = t, ![r].producer = a,
                             ![r].version = 1]
    BY <1>10 DEF StartTask
  <2> QED
    BY <1>0, <2>1 DEF WithDraft, RunRecord
<1> QED
  BY <1>1, <1>4, <1>5, <1>2, <1>3, <1>6, <1>7, <1>8, <1>9, <1>10 DEF Step

(* The runner that steps keeps, gives up or newly writes its draft.        *)
LEMMA DraftStep ==
  ASSUME IInv, NEW r \in Runner, Call(r) \/ Step(r) \/ Crash(r)
  PROVE  DraftSound(run[r])'
<1>0. /\ TypeOK /\ run[r] \in RunRecord /\ DraftSound(run[r])
      /\ run \in [Runner -> RunRecord]
  BY DEF IInv, TypeOK
<1>1. CASE Produce(r)
  <2>1. /\ run'[r].draft = Len(artifacts) + 1 /\ run'[r].pc = "submit"
        /\ run'[r].task = run[r].task /\ run'[r].producer = run[r].producer
        /\ reviews' = reviews
    BY <1>0, <1>1 DEF Produce, RunRecord
  <2>2. \A rv \in reviews : rv.artifact # Len(artifacts) + 1
    BY <1>1, ProduceArtifacts DEF IInv, TablesAgree
  <2>3. /\ Len(artifacts) + 1 \in DOMAIN artifacts'
        /\ artifacts'[Len(artifacts) + 1].task = run[r].task
        /\ artifacts'[Len(artifacts) + 1].by = run[r].producer
        /\ artifacts'[Len(artifacts) + 1].status = "draft"
    <3>1. /\ DOMAIN artifacts' = DOMAIN artifacts \union {Len(artifacts) + 1}
          /\ artifacts'[Len(artifacts) + 1] =
               [task |-> run[r].task, version |-> run[r].version,
                by |-> run[r].producer, status |-> "draft"]
      BY <1>1, ProduceArtifacts
    <3> QED
      BY <3>1
  <2>4. ReviewsOf(run[r].draft)' = {}
    BY <2>1, <2>2 DEF ReviewsOf
  <2> QED
    BY <2>1, <2>3, <2>4 DEF DraftSound
<1>2. CASE SubmitForReview(r)
  <2>1. /\ run'[r].draft = run[r].draft /\ run'[r].pc = "review"
        /\ run'[r].task = run[r].task /\ run'[r].producer = run[r].producer
        /\ run'[r].gate = 1 /\ run[r].pc = "submit"
        /\ UNCHANGED <<reviews, artifacts, plan>>
    BY <1>0, <1>2 DEF SubmitForReview, At, RunRecord
  <2>2. run[r].task \in DOMAIN plan
    BY <2>1 DEF IInv, LocalsSound, InTask
  <2>3. DOMAIN plan[run[r].task].gates = 1..Len(plan[run[r].task].gates)
    BY <1>0, <2>2 DEF TypeOK, PlannedTask
  <2> QED
    BY <1>0, <2>1, <2>3 DEF DraftSound, WithDraft, ReviewsOf
<1>3. ASSUME NEW verdict \in Verdict, Review(r, verdict)
      PROVE  DraftSound(run[r])'
  <2>1. run'[r] = AfterVerdict(r, verdict) /\ run[r].pc = "review"
        /\ UNCHANGED <<artifacts, plan>>
    BY <1>0, <1>3 DEF Review, At
  <2>2. CASE verdict # "approve"
    <3>1. run'[r].pc \notin WithDraft
      BY <1>0, <2>1, <2>2 DEF AfterVerdict, Verdict, WithDraft, RunRecord
    <3> QED
      BY <3>1 DEF DraftSound
  <2>3. CASE verdict = "approve"
    <3>1. /\ run'[r].pc = "review" /\ run'[r].draft = run[r].draft
          /\ run'[r].task = run[r].task /\ run'[r].producer = run[r].producer
          /\ run'[r].gate = run[r].gate + 1
      BY <1>0, <2>1, <2>3 DEF AfterVerdict, RunRecord
    <3>2. PICK a \in Reviewers(r) :
            reviews' = reviews \union
              {[artifact |-> run[r].draft, gate |-> Gates(r)[run[r].gate],
                reviewer |-> a, verdict |-> verdict]}
      BY <1>3 DEF Review
    <3>3. a # run[r].producer
      BY <3>2, SelectedFacts DEF Reviewers, Request, Independent
    <3>4. run[r].gate \in Nat \ {0} /\ Gates(r) \in Seq(Capability)
      BY <1>3, ReviewFacts DEF Review
    <3>5. DOMAIN Gates(r) \subseteq Nat
      BY <3>4
    <3>6. \A i \in DOMAIN Gates(r) : i < run[r].gate + 1 =>
            \E rv \in reviews' : rv.artifact = run[r].draft /\ rv.gate = Gates(r)[i]
      <4>1. SUFFICES ASSUME NEW i \in DOMAIN Gates(r), i < run[r].gate + 1
                     PROVE  \E rv \in reviews' :
                              rv.artifact = run[r].draft /\ rv.gate = Gates(r)[i]
        OBVIOUS
      <4>2. CASE i = run[r].gate
        <5> DEFINE new == [artifact |-> run[r].draft, gate |-> Gates(r)[run[r].gate],
                           reviewer |-> a, verdict |-> verdict]
        <5>1. new \in reviews'
          BY <3>2
        <5>2. new.artifact = run[r].draft /\ new.gate = Gates(r)[i]
          BY <4>2
        <5> QED
          BY <5>1, <5>2
      <4>3. CASE i < run[r].gate
        BY <1>0, <2>1, <3>2, <4>3 DEF DraftSound, WithDraft, ReviewsOf, Gates
      <4> QED
        BY <3>4, <3>5, <4>1, <4>2, <4>3
    <3>7. \A rv \in ReviewsOf(run[r].draft)' :
            rv.verdict = "approve" /\ rv.reviewer # run[r].producer
      BY <1>0, <2>1, <2>3, <3>1, <3>2, <3>3 DEF DraftSound, WithDraft, ReviewsOf
    <3>8. /\ run[r].draft \in DOMAIN artifacts
          /\ artifacts[run[r].draft].task = run[r].task
          /\ artifacts[run[r].draft].by = run[r].producer
          /\ artifacts[run[r].draft].status = "draft"
      BY <1>0, <2>1 DEF DraftSound, WithDraft
    <3> QED
      BY <2>1, <3>1, <3>4, <3>6, <3>7, <3>8
         DEF DraftSound, WithDraft, ReviewsOf, Gates
  <2> QED
    BY <2>2, <2>3
<1>4. CASE ~Produce(r) /\ ~SubmitForReview(r) /\ ~(\E v \in Verdict : Review(r, v))
  BY <1>4, LosesDraft DEF DraftSound
<1> QED
  BY <1>1, <1>2, <1>3, <1>4

(* What a step may do to the draft of another runner: nothing.             *)
LEMMA DraftKept ==
  ASSUME IInv, plan' = plan, ArtifactsGrow,
         NEW r \in Runner, Call(r) \/ Step(r) \/ Crash(r),
         NEW s \in Runner \ {r}
  PROVE  DraftSound(run[s])'
<1>0. /\ TypeOK /\ run \in [Runner -> RunRecord] /\ DraftSound(run[s])
      /\ run'[s] = run[s]
  BY DEF IInv, TypeOK, Step, Call, Crash, ReadCompleted, Begin, StartTask,
         NoProducer, Blocked, FinishGoal, LogCompletion, Attempt, Produce,
         SubmitForReview, Review, NoReviewer, Revise, Reject, FailGoal, Promote,
         Canonize, Escalate
<1> SUFFICES ASSUME run[s].pc \in WithDraft
             PROVE  DraftSound(run[s])'
  BY <1>0 DEF DraftSound
<1> DEFINE d == run[s].draft
<1>1. /\ d \in DOMAIN artifacts
      /\ artifacts[d].task = run[s].task
      /\ artifacts[d].by = run[s].producer
      /\ artifacts[d].status = "draft"
  BY <1>0 DEF DraftSound
<1>2. At(r, "review") => run[r].draft # d
  BY DEF IInv, DraftsApart, WithDraft, At
<1>3. /\ d \in DOMAIN artifacts'
      /\ artifacts'[d].task = run[s].task
      /\ artifacts'[d].by = run[s].producer
  BY <1>1 DEF ArtifactsGrow
<1>4. artifacts'[d].status = "draft"
  <2>1. CASE Produce(r)
    BY <1>1, <2>1, ProduceArtifacts
  <2>2. CASE Promote(r)
    BY <1>1, <1>2, <2>2, PromoteArtifacts DEF Promote
  <2> QED
    BY <1>1, <2>1, <2>2, Quiet
<1>5. \A rv : (rv \in reviews' /\ rv.artifact = d) <=> (rv \in reviews /\ rv.artifact = d)
  <2>1. ASSUME NEW verdict \in Verdict, Review(r, verdict)
        PROVE  \A rv : (rv \in reviews' /\ rv.artifact = d)
                         <=> (rv \in reviews /\ rv.artifact = d)
    BY <1>2, <2>1 DEF Review
  <2>2. CASE ~ \E verdict \in Verdict : Review(r, verdict)
    <3>1. reviews' = reviews
      BY <2>2
         DEF Step, Call, Crash, ReadCompleted, Begin, StartTask, NoProducer,
             Blocked, FinishGoal, LogCompletion, Attempt, Produce,
             SubmitForReview, NoReviewer, Revise, Reject, FailGoal, Promote,
             Canonize, Escalate, database
    <3> QED
      BY <3>1
  <2> QED
    BY <2>1, <2>2
<1> QED
  BY <1>0, <1>3, <1>4, <1>5 DEF DraftSound, ReviewsOf, d

LEMMA DraftsApartStep ==
  ASSUME IInv, NEW r \in Runner, Call(r) \/ Step(r) \/ Crash(r)
  PROVE  DraftsApart'
<1>0. /\ TypeOK /\ run \in [Runner -> RunRecord]
      /\ \A s \in Runner \ {r} : run'[s] = run[s]
  BY DEF IInv, TypeOK, Step, Call, Crash, ReadCompleted, Begin, StartTask,
         NoProducer, Blocked, FinishGoal, LogCompletion, Attempt, Produce,
         SubmitForReview, Review, NoReviewer, Revise, Reject, FailGoal, Promote,
         Canonize, Escalate
<1>1. SUFFICES ASSUME NEW s \in Runner \ {r}, run[s].pc \in WithDraft,
                      run'[r].pc \in WithDraft
               PROVE  run'[r].draft # run[s].draft
  BY <1>0 DEF DraftsApart, IInv
<1>2. run[s].draft \in DOMAIN artifacts
  BY <1>1 DEF IInv, DraftSound
<1>3. CASE Produce(r)
  <2>1. run'[r].draft = Len(artifacts) + 1
    BY <1>0, <1>3 DEF Produce, RunRecord
  <2> QED
    BY <1>2, <1>3, <2>1, ProduceArtifacts
<1>4. CASE SubmitForReview(r)
  BY <1>0, <1>1, <1>4 DEF SubmitForReview, At, IInv, DraftsApart, WithDraft, RunRecord
<1>5. ASSUME NEW verdict \in Verdict, Review(r, verdict)
      PROVE  run'[r].draft # run[s].draft
  <2>1. run'[r].draft = run[r].draft /\ run[r].pc = "review"
    BY <1>0, <1>5 DEF Review, AfterVerdict, Verdict, At, RunRecord
  <2> QED
    BY <1>1, <2>1 DEF IInv, DraftsApart, WithDraft
<1>6. CASE ~Produce(r) /\ ~SubmitForReview(r) /\ ~(\E v \in Verdict : Review(r, v))
  BY <1>1, <1>6, LosesDraft
<1> QED
  BY <1>3, <1>4, <1>5, <1>6

(***************************************************************************)
(* CanonicalArtifactsReviewed.                                             *)
(***************************************************************************)
LEMMA ReviewedKept ==
  ASSUME NEW a \in DOMAIN artifacts, Reviewed(a), plan' = plan,
         artifacts'[a].task = artifacts[a].task,
         artifacts'[a].by = artifacts[a].by,
         approvals \subseteq approvals', reviews \subseteq reviews',
         \A rv \in reviews' : rv \in reviews \/ rv.artifact # a
  PROVE  Reviewed(a)'
<1>1. ReviewsOf(a)' = ReviewsOf(a)
  BY DEF ReviewsOf
<1>2. GatesOf(a)' = GatesOf(a)
  BY DEF GatesOf
<1> QED
  BY <1>1, <1>2 DEF Reviewed

LEMMA CanonicalStep ==
  ASSUME IInv, ArtifactsGrow, plan' = plan,
         NEW r \in Runner, Call(r) \/ Step(r) \/ Crash(r)
  PROVE  CanonicalArtifactsReviewed'
<1>0. TypeOK /\ CanonicalArtifactsReviewed
      /\ \A rv \in reviews : rv.artifact \in DOMAIN artifacts
  BY DEF IInv, TablesAgree
<1> SUFFICES ASSUME NEW a \in DOMAIN artifacts', artifacts'[a].status = "canonical"
             PROVE  Reviewed(a)'
  BY DEF CanonicalArtifactsReviewed
<1>k. ASSUME artifacts[a].status = "canonical", a \in DOMAIN artifacts,
             approvals \subseteq approvals', reviews \subseteq reviews',
             \A rv \in reviews' : rv \in reviews \/ rv.artifact # a
      PROVE  Reviewed(a)'
  BY <1>0, <1>k, ReviewedKept DEF CanonicalArtifactsReviewed, ArtifactsGrow
<1>1. CASE Produce(r)
  <2>1. approvals' = approvals /\ reviews' = reviews
    BY <1>1 DEF Produce
  <2>2. a # Len(artifacts) + 1
    <3>1. artifacts'[Len(artifacts) + 1] =
            [task |-> run[r].task, version |-> run[r].version,
             by |-> run[r].producer, status |-> "draft"]
      BY <1>1, ProduceArtifacts
    <3> QED
      BY <3>1
  <2>3. a \in DOMAIN artifacts /\ artifacts'[a] = artifacts[a]
    BY <1>1, <2>2, ProduceArtifacts
  <2> QED
    BY <1>k, <2>1, <2>3
<1>2. CASE Promote(r)
  <2> DEFINE d == run[r].draft
  <2>1. /\ approvals' = approvals \union {d} /\ reviews' = reviews
        /\ At(r, "review") /\ run[r].gate > Len(Gates(r))
    BY <1>2 DEF Promote
  <2>2. /\ d \in DOMAIN artifacts /\ artifacts[d].task = run[r].task
        /\ artifacts[d].by = run[r].producer
        /\ \A rv \in ReviewsOf(d) : rv.verdict = "approve" /\ rv.reviewer # run[r].producer
        /\ \A i \in DOMAIN Gates(r) : i < run[r].gate =>
             \E rv \in ReviewsOf(d) : rv.gate = Gates(r)[i]
    BY <2>1 DEF IInv, DraftSound, WithDraft, At, Gates
  <2>3. Gates(r) \in Seq(Capability) /\ run[r].gate \in Nat
    BY <2>1, ReviewFacts
  <2>4. \A i \in DOMAIN Gates(r) : i < run[r].gate
    BY <2>1, <2>3
  <2>5. a \in DOMAIN artifacts /\ artifacts'[a].task = artifacts[a].task
        /\ artifacts'[a].by = artifacts[a].by
    BY <1>2, PromoteArtifacts
  <2>6. CASE a = d
    <3>1. GatesOf(a)' = {Gates(r)[i] : i \in DOMAIN Gates(r)}
      BY <2>2, <2>5, <2>6 DEF GatesOf, Gates
    <3>2. ReviewsOf(a)' = ReviewsOf(d)
      BY <2>1, <2>6 DEF ReviewsOf
    <3> QED
      BY <2>1, <2>2, <2>4, <2>5, <2>6, <3>1, <3>2 DEF Reviewed
  <2>7. CASE a # d
    <3>1. artifacts[a].status = "canonical"
      BY <1>2, <2>5, <2>7, PromoteArtifacts
    <3> QED
      BY <1>k, <2>1, <2>5, <3>1
  <2> QED
    BY <2>6, <2>7
<1>3. ASSUME NEW verdict \in Verdict, Review(r, verdict)
      PROVE  Reviewed(a)'
  <2>1. UNCHANGED <<artifacts, approvals>> /\ At(r, "review")
    BY <1>3 DEF Review
  <2>2. artifacts[run[r].draft].status = "draft"
    BY <2>1 DEF IInv, DraftSound, WithDraft, At
  <2>3. \A rv \in reviews' : rv \in reviews \/ rv.artifact = run[r].draft
    BY <1>3 DEF Review
  <2>4. reviews \subseteq reviews'
    BY <1>3 DEF Review
  <2> QED
    BY <1>k, <2>1, <2>2, <2>3, <2>4
<1>4. CASE ~Produce(r) /\ ~Promote(r) /\ ~(\E v \in Verdict : Review(r, v))
  <2>1. UNCHANGED <<artifacts, approvals, reviews>>
    BY <1>4
       DEF Step, Call, Crash, ReadCompleted, Begin, StartTask, NoProducer,
           Blocked, FinishGoal, LogCompletion, Attempt, SubmitForReview,
           NoReviewer, Revise, Reject, FailGoal, Canonize, Escalate, database
  <2> QED
    BY <1>k, <2>1
<1> QED
  BY <1>1, <1>2, <1>3, <1>4

(***************************************************************************)
(* TablesAgree.                                                            *)
(***************************************************************************)
LEMMA TablesStep ==
  ASSUME IInv, ArtifactsGrow, plan' = plan,
         NEW r \in Runner, Call(r) \/ Step(r) \/ Crash(r)
  PROVE  TablesAgree'
<1>0. /\ TypeOK /\ TablesAgree /\ Delivered \subseteq Delivered'
      /\ LocalsSound(run[r]) /\ tasks \in [DOMAIN plan -> Row]
  BY DeliveredGrows DEF IInv, TypeOK
<1>1. goal # "none"
  BY <1>0 DEF TablesAgree, Step, Call, Crash, At, ReadCompleted, Begin, StartTask,
     NoProducer, Blocked, FinishGoal, LogCompletion, Attempt, Produce,
     SubmitForReview, Review, NoReviewer, Revise, Reject, FailGoal, Promote,
     Canonize, Escalate
<1>2. goal' # "none" /\ (goal' = "canonical" => DOMAIN plan \subseteq Delivered')
  <2>1. CASE FinishGoal(r)
    BY <1>0, <2>1 DEF FinishGoal, At, LocalsSound
  <2>2. CASE ~FinishGoal(r)
    BY <1>0, <1>1, <2>2 DEF TablesAgree, Step, Call, Crash, ReadCompleted, Begin,
       StartTask, NoProducer, Blocked, LogCompletion, Attempt, Produce,
       SubmitForReview, Review, NoReviewer, Revise, Reject, FailGoal, Promote,
       Canonize, Escalate
  <2> QED
    BY <2>1, <2>2
<1>3. \A a \in DOMAIN artifacts' : artifacts'[a].task \in DOMAIN plan
  <2>1. CASE Produce(r)
    <3>1. run[r].task \in DOMAIN plan
      BY <1>0, <2>1 DEF LocalsSound, InTask, Produce, At
    <3>2. artifacts'[Len(artifacts) + 1] =
            [task |-> run[r].task, version |-> run[r].version,
             by |-> run[r].producer, status |-> "draft"]
      BY <2>1, ProduceArtifacts
    <3>3. artifacts'[Len(artifacts) + 1].task \in DOMAIN plan
      BY <3>1, <3>2
    <3>4. \A a \in DOMAIN artifacts' : a = Len(artifacts) + 1
            \/ (a \in DOMAIN artifacts /\ artifacts'[a] = artifacts[a])
      BY <2>1, ProduceArtifacts
    <3> QED
      BY <1>0, <3>3, <3>4 DEF TablesAgree
  <2>2. CASE Promote(r)
    BY <1>0, <2>2, PromoteArtifacts DEF TablesAgree
  <2> QED
    BY <1>0, <2>1, <2>2, Quiet DEF TablesAgree
<1>4. \A rv \in reviews' : rv.artifact \in DOMAIN artifacts'
  <2>1. ASSUME NEW verdict \in Verdict, Review(r, verdict)
        PROVE  \A rv \in reviews' : rv.artifact \in DOMAIN artifacts
    BY <1>0, <2>1, ReviewFacts DEF Review, TablesAgree
  <2>2. CASE ~(\E verdict \in Verdict : Review(r, verdict))
    BY <1>0, <2>2
       DEF TablesAgree, Step, Call, Crash, ReadCompleted, Begin, StartTask,
           NoProducer, Blocked, FinishGoal, LogCompletion, Attempt, Produce,
           SubmitForReview, NoReviewer, Revise, Reject, FailGoal, Promote,
           Canonize, Escalate, database, ArtifactsGrow
  <2> QED
    BY <2>1, <2>2 DEF ArtifactsGrow
<1>5. \A t \in DOMAIN plan : tasks'[t].status = "canonical" => t \in Delivered'
  <2>1. CASE Canonize(r)
    BY <1>0, <2>1 DEF Canonize, SetTask, At, LocalsSound, TablesAgree
  <2>2. CASE Attempt(r) \/ SubmitForReview(r) \/ Revise(r) \/ Reject(r)
    BY <1>0, <2>2 DEF Attempt, SubmitForReview, Revise, Reject, SetTask, TablesAgree
  <2>3. CASE tasks' = tasks
    BY <1>0, <2>3 DEF TablesAgree
  <2> QED
    BY <2>1, <2>2, <2>3
       DEF Step, Call, Crash, ReadCompleted, Begin, StartTask, NoProducer, Blocked,
           FinishGoal, LogCompletion, Produce, Review, NoReviewer, FailGoal,
           Promote, Escalate, database
<1> QED
  BY <1>2, <1>3, <1>4, <1>5 DEF TablesAgree

(***************************************************************************)
(* The theorems.                                                           *)
(***************************************************************************)
LEMMA InitInvariant == Init => IInv
<1> SUFFICES ASSUME Init PROVE IInv
  OBVIOUS
<1>1. TypeOK
  BY InitType
<1>2. TablesAgree
  BY DEF Init, TablesAgree, At, IdleRun
<1>3. \A r \in Runner : run[r] = IdleRun
  BY DEF Init
<1>4. \A r \in Runner : LocalsSound(run[r]) /\ DraftSound(run[r])
  BY <1>3 DEF LocalsSound, DraftSound, IdleRun, InTask, WithDraft
<1>5. DraftsApart
  BY <1>3 DEF DraftsApart, IdleRun, WithDraft
<1>6. CanonicalArtifactsReviewed
  BY DEF Init, CanonicalArtifactsReviewed
<1> QED
  BY <1>1, <1>2, <1>4, <1>5, <1>6 DEF IInv

LEMMA OthersStand ==
  ASSUME NEW r \in Runner, Call(r) \/ Step(r) \/ Crash(r),
         run \in [Runner -> RunRecord]
  PROVE  \A s \in Runner \ {r} : run'[s] = run[s]
  BY DEF Step, Call, Crash, ReadCompleted, Begin, StartTask,
         NoProducer, Blocked, FinishGoal, LogCompletion, Attempt, Produce,
         SubmitForReview, Review, NoReviewer, Revise, Reject, FailGoal, Promote,
         Canonize, Escalate

(* A runner's step leaves the plan alone.                                  *)
LEMMA PlanStands ==
  ASSUME NEW r \in Runner, Call(r) \/ Step(r) \/ Crash(r)
  PROVE  plan' = plan
  BY DEF Step, Call, Crash, ReadCompleted, Begin, StartTask, NoProducer,
         Blocked, FinishGoal, LogCompletion, Attempt, Produce, SubmitForReview,
         Review, NoReviewer, Revise, Reject, FailGoal, Promote, Canonize, Escalate,
         database

LEMMA StepInvariant == IInv /\ [Next]_vars => IInv'
<1> SUFFICES ASSUME IInv, [Next]_vars PROVE IInv'
  OBVIOUS
<1>0. TypeOK' /\ ArtifactsGrow /\ (goal # "none" => plan' = plan)
  BY TypeStep, ArtifactGrowth, TablesGrow
<1>1. ASSUME NEW r \in Runner, Call(r) \/ Step(r) \/ Crash(r)
      PROVE  IInv'
  <2>1. plan' = plan
    BY <1>1, PlanStands
  <2>2. \A s \in Runner : LocalsSound(run[s])'
    <3>1. \A s \in Runner \ {r} : run'[s] = run[s] /\ LocalsSound(run[s])
      BY <1>1, OthersStand DEF IInv, TypeOK
    <3> QED
      BY <1>0, <1>1, <2>1, <3>1, LocalsStep, LocalsKept
  <2>3. \A s \in Runner : DraftSound(run[s])'
    BY <1>0, <1>1, <2>1, DraftStep, DraftKept
  <2>4. DraftsApart' /\ CanonicalArtifactsReviewed' /\ TablesAgree'
    BY <1>0, <1>1, <2>1, DraftsApartStep, CanonicalStep, TablesStep
  <2> QED
    BY <1>0, <2>2, <2>3, <2>4 DEF IInv
<1>2. ASSUME NEW p \in Plans, Submit(p)
      PROVE  IInv'
  <2>1. /\ UNCHANGED <<artifacts, reviews, approvals, run>>
        /\ DOMAIN plan = {} /\ \A r \in Runner : At(r, "idle")
        /\ goal' = "planned" /\ DOMAIN plan' = PlanIds(p)
        /\ \A t \in PlanIds(p) : tasks'[t].status = "planned"
    BY <1>2 DEF Submit, IInv, TablesAgree
  <2>2. DOMAIN artifacts = {} /\ reviews = {}
    BY <2>1 DEF IInv, TablesAgree
  <2>3. \A r \in Runner : LocalsSound(run[r])'
    <3>1. \A r \in Runner : /\ run'[r].pc = "idle" /\ run'[r].pending = {}
                            /\ run'[r].batch = {} /\ run'[r].completed = {}
      BY <2>1, <2>2 DEF IInv, LocalsSound, At, Delivered
    <3> QED
      BY <3>1 DEF LocalsSound, InTask
  <2>4. \A r \in Runner : DraftSound(run[r])'
    BY <2>1 DEF DraftSound, WithDraft, At
  <2>5. DraftsApart' /\ CanonicalArtifactsReviewed'
    BY <2>1, <2>2 DEF DraftsApart, WithDraft, At, CanonicalArtifactsReviewed
  <2>6. TablesAgree'
    BY <2>1, <2>2 DEF TablesAgree, At
  <2> QED
    BY <1>0, <2>3, <2>4, <2>5, <2>6 DEF IInv
<1>3. CASE UNCHANGED <<goal, database, run>>
  BY <1>0, <1>3
     DEF IInv, database, TablesAgree, LocalsSound, DraftSound, DraftsApart,
         CanonicalArtifactsReviewed, Reviewed, ReviewsOf, GatesOf, Delivered, At
<1>4. ASSUME NEW offer \in Offers, Register(offer[1], offer[2])
      PROVE  IInv'
  BY <1>3, <1>4 DEF Register
<1>5. CASE UNCHANGED vars
  BY <1>3, <1>5 DEF vars
<1> QED
  BY <1>1, <1>2, <1>4, <1>5 DEF Next

THEOREM Invariance == Spec => []IInv
  BY InitInvariant, StepInvariant, PTL DEF Spec

(* The tables and the locals of every runner stay well typed.              *)
THEOREM TypeCorrectness == Spec => []TypeOK
<1>1. IInv => TypeOK
  BY DEF IInv
<1> QED
  BY <1>1, Invariance, PTL

(* No artifact is ever canonical without the approval of every gate of its *)
(* task, each by an agent that did not produce it.                         *)
THEOREM OnlyReviewedIsCanonical == Spec => []CanonicalArtifactsReviewed
<1>1. IInv => CanonicalArtifactsReviewed
  BY DEF IInv
<1> QED
  BY <1>1, Invariance, PTL

(***************************************************************************)
(* Orchestrator implements GoalDelivery.                                   *)
(***************************************************************************)
LEMMA DeliveredInPlan == IInv => Delivered \subseteq DOMAIN plan
  BY DEF IInv, TablesAgree, Delivered

LEMMA PromotionDelivers ==
  ASSUME IInv, NEW r \in Runner, Promote(r)
  PROVE  Delivery!Deliver(run[r].task) /\ run[r].task \in DOMAIN plan
<1> DEFINE t == run[r].task
<1>1. /\ t \in DOMAIN plan /\ run[r].draft \in DOMAIN artifacts
      /\ artifacts[run[r].draft].task = t /\ At(r, "review")
  BY ReviewFacts DEF Promote, IInv, DraftSound, WithDraft, At
<1>2. plan[t].deps \subseteq Delivered
  BY <1>1 DEF IInv, LocalsSound, InTask, At
<1>3. Delivered' = Delivered \union {t}
  BY <1>1, PromoteArtifacts DEF Delivered
<1>4. goal # "none"
  BY <1>1 DEF IInv, TablesAgree
<1>5. goal' = goal /\ plan' = plan
  BY DEF Promote
<1> QED
  BY <1>1, <1>2, <1>3, <1>4, <1>5 DEF Delivery!Deliver

LEMMA RunnerStepRefines ==
  ASSUME IInv, NEW r \in Runner, Call(r) \/ Step(r) \/ Crash(r)
  PROVE  [Delivery!Next]_(Delivery!gdVars)
<1>0. plan' = plan
  BY DEF Step, Call, Crash, ReadCompleted, Begin, StartTask, NoProducer,
     Blocked, FinishGoal, LogCompletion, Attempt, Produce, SubmitForReview,
     Review, NoReviewer, Revise, Reject, FailGoal, Promote, Canonize, Escalate,
     database
<1>1. CASE Promote(r)
  BY <1>1, PromotionDelivers DEF Delivery!Next
<1>2. CASE ~Promote(r)
  <2>1. Delivered' = Delivered
    <3>1. CASE Produce(r)
      <4>1. artifacts'[Len(artifacts) + 1] =
              [task |-> run[r].task, version |-> run[r].version,
               by |-> run[r].producer, status |-> "draft"]
        BY <3>1, ProduceArtifacts
      <4>2. artifacts'[Len(artifacts) + 1].status # "canonical"
        BY <4>1
      <4>3. \A a \in DOMAIN artifacts' : artifacts'[a].status = "canonical" =>
              a \in DOMAIN artifacts /\ artifacts'[a] = artifacts[a]
        BY <3>1, <4>2, ProduceArtifacts
      <4>4. \A a \in DOMAIN artifacts :
              a \in DOMAIN artifacts' /\ artifacts'[a] = artifacts[a]
        BY <3>1, ProduceArtifacts
      <4> QED
        BY <4>3, <4>4 DEF Delivered
    <3> QED
      BY <1>2, <3>1, Quiet DEF Delivered
  <2>2. goal # "none"
    BY DEF IInv, TablesAgree, Step, Call, Crash, At, ReadCompleted, Begin,
       StartTask, NoProducer, Blocked, FinishGoal, LogCompletion, Attempt,
       Produce, SubmitForReview, Review, NoReviewer, Revise, Reject, FailGoal,
       Promote, Canonize, Escalate
  <2>3. CASE FinishGoal(r)
    <3>1. Delivered = DOMAIN plan
      BY <2>3, DeliveredInPlan DEF IInv, LocalsSound, FinishGoal, At
    <3>2. goal' = "canonical"
      BY <2>3 DEF FinishGoal
    <3> QED
      BY <1>0, <2>1, <2>2, <3>1, <3>2 DEF Delivery!Next, Delivery!Complete
  <2>4. CASE Begin(r) \/ FailGoal(r) \/ Escalate(r)
    <3>1. goal' \in {"running", "escalated", "failed"}
      BY <2>4 DEF Begin, FailGoal, Escalate
    <3> QED
      BY <1>0, <2>1, <2>2, <3>1 DEF Delivery!Next, Delivery!Move
  <2>5. CASE ~FinishGoal(r) /\ ~Begin(r) /\ ~FailGoal(r) /\ ~Escalate(r)
    <3>1. goal' = goal
      BY <2>5 DEF Step, Call, Crash, ReadCompleted, StartTask, NoProducer,
         Blocked, LogCompletion, Attempt, Produce, SubmitForReview, Review,
         NoReviewer, Revise, Reject, Promote, Canonize
    <3> QED
      BY <1>0, <2>1, <3>1 DEF Delivery!gdVars
  <2> QED
    BY <2>3, <2>4, <2>5
<1> QED
  BY <1>1, <1>2

LEMMA SubmitRefines ==
  ASSUME IInv, NEW p \in Plans, Submit(p)
  PROVE  Delivery!Next
<1>1. [t \in DOMAIN plan |-> plan[t].deps]' = PlanGraph(p)
  <2>1. plan' = [t \in PlanIds(p) |-> p[CHOOSE i \in DOMAIN p : p[i].id = t]]
    BY DEF Submit
  <2> QED
    BY <2>1 DEF PlanGraph
<1>2. goal = "none" /\ goal' = "planned" /\ Delivered' = Delivered
  BY DEF Submit, Delivered
<1>3. Delivery!Submit(PlanGraph(p))
  BY <1>1, <1>2 DEF Delivery!Submit
<1> QED
  BY <1>3 DEF Delivery!Next

LEMMA InitRefines == Init => Delivery!Init
<1> SUFFICES ASSUME Init PROVE Delivery!Init
  OBVIOUS
<1>1. DOMAIN plan = {} /\ DOMAIN artifacts = {} /\ goal = "none"
  BY DEF Init
<1>2. Delivered = {}
  BY <1>1 DEF Delivered
<1>3. [t \in DOMAIN plan |-> plan[t].deps] = << >>
  BY <1>1
<1> QED
  BY <1>1, <1>2, <1>3 DEF Delivery!Init

(* Whatever the runners, crashes and registry changes, what becomes of the *)
(* goal is a delivery of its plan: in dependency order, never taken back,  *)
(* and called canonical only when it is complete.                          *)
THEOREM RunsDeliverThePlan == Spec => DeliversPlan
<1>1. IInv /\ [Next]_vars => [Delivery!Next]_(Delivery!gdVars)
  <2> SUFFICES ASSUME IInv, [Next]_vars
               PROVE  [Delivery!Next]_(Delivery!gdVars)
    OBVIOUS
  <2>1. ASSUME UNCHANGED <<goal, plan, artifacts>>
        PROVE  [Delivery!Next]_(Delivery!gdVars)
    BY <2>1 DEF Delivery!gdVars, Delivered
  <2> QED
    BY <2>1, RunnerStepRefines, SubmitRefines
       DEF Next, Register, vars, database
<1> QED
  BY <1>1, InitRefines, Invariance, PTL DEF Spec, DeliversPlan, Delivery!Spec

(***************************************************************************)
(* The work on a task stays within what the calls of run() were allowed.   *)
(***************************************************************************)
LEMMA StartTaskLocals ==
  ASSUME IInv, NEW r \in Runner, StartTask(r)
  PROVE  \E t \in FirstOf(Batch(r)), a \in AgentId :
           /\ run' = [run EXCEPT ![r] = [run[r] EXCEPT
                        !.pc = "attempt", !.batch = Batch(r), !.task = t,
                        !.producer = a, !.version = 1]]
           /\ run[r].pc = "loop" /\ run[r] \in RunRecord
<1>1. PICK t \in FirstOf(Batch(r)) : \E a \in Producers(t) :
        run' = [run EXCEPT ![r].pc = "attempt", ![r].batch = Batch(r),
                           ![r].task = t, ![r].producer = a, ![r].version = 1]
  BY DEF StartTask
<1>2. PICK a \in Producers(t) :
        run' = [run EXCEPT ![r].pc = "attempt", ![r].batch = Batch(r),
                           ![r].task = t, ![r].producer = a, ![r].version = 1]
  BY <1>1
<1>3. a \in AgentId
  BY <1>2, SelectedFacts DEF Producers, IInv, TypeOK
<1>4. run[r].pc = "loop" /\ run[r] \in RunRecord
  BY DEF StartTask, At, IInv, TypeOK
<1>5. run' = [run EXCEPT ![r] = [run[r] EXCEPT
                !.pc = "attempt", !.batch = Batch(r), !.task = t,
                !.producer = a, !.version = 1]]
  BY <1>2
<1> QED
  BY <1>3, <1>4, <1>5

(* A step of a call leaves it no more to write or to promote than it had,  *)
(* and what it writes or promotes is used up.                              *)
LEMMA AllowanceShrinks ==
  ASSUME IInv, NEW r \in Runner, Step(r) \/ Crash(r), NEW t \in TaskId
  PROVE  /\ \A v \in Version : CanWrite(run'[r], t, v) =>
              /\ CanWrite(run[r], t, v)
              /\ ~(Produce(r) /\ run[r].task = t /\ run[r].version = v)
         /\ CanPromote(run'[r], t) =>
              CanPromote(run[r], t) /\ ~(Promote(r) /\ run[r].task = t)
<1>0. /\ run[r] \in RunRecord /\ run \in [Runner -> RunRecord] /\ DOMAIN run = Runner
      /\ t # NoTask /\ Version \subseteq Nat
  BY BoundsAssumption DEF IInv, TypeOK, TaskId, NoTask, Version
<1> USE DEF CanWrite, CanPromote, BeforeTask, InTask, At
<1>1. CASE ReadCompleted(r)
  BY <1>0, <1>1 DEF ReadCompleted, RunRecord, Produce, Promote
<1>2. CASE Begin(r)
  BY <1>0, <1>2 DEF Begin, RunRecord, Produce, Promote
<1>3. CASE StartTask(r)
  <2>1. PICK u \in FirstOf(Batch(r)), a \in AgentId :
           /\ run' = [run EXCEPT ![r] = [run[r] EXCEPT
                        !.pc = "attempt", !.batch = Batch(r), !.task = u,
                        !.producer = a, !.version = 1]]
           /\ run[r].pc = "loop" /\ run[r] \in RunRecord
    BY <1>3, StartTaskLocals
  <2> QED
    BY <1>0, <2>1 DEF RunRecord, Produce, Promote
<1>4. CASE NoProducer(r)
  <2>1. run'[r].pc = "escalate"
    <3>1. PICK u \in FirstOf(Batch(r)) :
            run' = [run EXCEPT ![r].pc = "escalate", ![r].task = u,
                               ![r].why = "no producer"]
      BY <1>4 DEF NoProducer
    <3> QED
      BY <1>0, <3>1 DEF RunRecord
  <2> QED
    BY <2>1
<1>5. CASE Blocked(r) \/ NoReviewer(r)
  <2>1. run'[r].pc = "escalate"
    <3>1. CASE Blocked(r)
      BY <1>0, <3>1 DEF Blocked, RunRecord
    <3>2. CASE NoReviewer(r)
      BY <1>0, <3>2 DEF NoReviewer, RunRecord
    <3> QED
      BY <1>5, <3>1, <3>2
  <2> QED
    BY <2>1
<1>6. CASE FinishGoal(r)
  BY <1>0, <1>6 DEF FinishGoal, RunRecord
<1>7. CASE LogCompletion(r) \/ FailGoal(r) \/ Escalate(r) \/ Crash(r)
  <2>1. run'[r] = IdleRun
    BY <1>0, <1>7 DEF LogCompletion, FailGoal, Escalate, Crash
  <2> QED
    BY <2>1 DEF IdleRun
<1>8. CASE Attempt(r)
  BY <1>0, <1>8 DEF Attempt, RunRecord, Produce, Promote
<1>9. CASE Produce(r)
  BY <1>0, <1>9 DEF Produce, Promote, RunRecord
<1>10. CASE SubmitForReview(r)
  BY <1>0, <1>10 DEF SubmitForReview, RunRecord, Produce, Promote
<1>11. ASSUME NEW verdict \in Verdict, Review(r, verdict)
       PROVE  /\ \A v \in Version : CanWrite(run'[r], t, v) =>
                   /\ CanWrite(run[r], t, v)
                   /\ ~(Produce(r) /\ run[r].task = t /\ run[r].version = v)
              /\ CanPromote(run'[r], t) =>
                   CanPromote(run[r], t) /\ ~(Promote(r) /\ run[r].task = t)
  <2>1. /\ run'[r].pc \in {"review", "escalate", "reject", "revise"}
        /\ run'[r].pending = run[r].pending /\ run'[r].task = run[r].task
        /\ run'[r].version = run[r].version /\ run[r].pc = "review"
        /\ run[r].gate <= Len(Gates(r))
    BY <1>0, <1>11 DEF Review, AfterVerdict, Verdict, RunRecord
  <2>2. run[r].gate \in Nat /\ Len(Gates(r)) \in Nat
    BY <2>1, ReviewFacts, LenProperties
  <2>3. ~Produce(r) /\ ~Promote(r)
    BY <2>1, <2>2 DEF Produce, Promote
  <2> QED
    BY <2>1, <2>3
<1>12. CASE Revise(r)
  <2>1. \/ run'[r].pc = "escalate"
        \/ /\ run'[r].pc = "attempt" /\ run'[r].pending = run[r].pending
           /\ run'[r].task = run[r].task /\ run'[r].version = run[r].version + 1
    BY <1>0, <1>12 DEF Revise, AfterRevise, RunRecord
  <2>2. run[r].pc = "revise" /\ run[r].version \in Nat
    BY <1>0, <1>12 DEF Revise, RunRecord
  <2> QED
    BY <1>0, <2>1, <2>2 DEF Produce, Promote
<1>13. CASE Reject(r)
  BY <1>0, <1>13 DEF Reject, RunRecord
<1>14. CASE Promote(r)
  BY <1>0, <1>14 DEF Promote, Produce, RunRecord
<1>15. CASE Canonize(r)
  <2>1. /\ run'[r].pc = "loop" /\ run'[r].pending = run[r].pending \ {run[r].task}
        /\ run[r].pc = "canonize"
    BY <1>0, <1>15 DEF Canonize
  <2> QED
    BY <2>1 DEF Produce, Promote
<1> QED
  BY <1>1, <1>2, <1>3, <1>4, <1>5, <1>6, <1>7, <1>8, <1>9, <1>10, <1>11, <1>12,
     <1>13, <1>14, <1>15 DEF Step

LEMMA AllowanceFinite ==
  ASSUME IsFiniteSet(Runner), NEW t
  PROVE  /\ IsFiniteSet(Version) /\ Cardinality(Version) = MaxRevisions + 1
         /\ IsFiniteSet(MayWrite(t)) /\ Cardinality(MayWrite(t)) \in Nat
         /\ IsFiniteSet(MayPromote(t)) /\ Cardinality(MayPromote(t)) \in Nat
<1>1. IsFiniteSet(Version) /\ Cardinality(Version) = MaxRevisions + 1
  BY BoundsAssumption, FS_Interval DEF Version
<1>2. IsFiniteSet(Runner \X Version)
  BY <1>1, FS_Product
<1>3. MayWrite(t) \in SUBSET (Runner \X Version) /\ MayPromote(t) \in SUBSET Runner
  BY DEF MayWrite, MayPromote
<1>4. IsFiniteSet(MayWrite(t))
  BY <1>2, <1>3, FS_Subset
<1>5. IsFiniteSet(MayPromote(t))
  BY <1>3, FS_Subset
<1> QED
  BY <1>1, <1>4, <1>5, FS_CardinalityType

LEMMA WorkFinite ==
  ASSUME artifacts \in Seq(Artifact), NEW t
  PROVE  /\ IsFiniteSet(ArtifactsOf(t)) /\ Cardinality(ArtifactsOf(t)) \in Nat
         /\ IsFiniteSet(Copies(t)) /\ Cardinality(Copies(t)) \in Nat
<1>1. DOMAIN artifacts = 1..Len(artifacts) /\ Len(artifacts) \in Nat
  BY LenProperties
<1>2. IsFiniteSet(DOMAIN artifacts)
  BY <1>1, FS_Interval
<1>3. ArtifactsOf(t) \in SUBSET DOMAIN artifacts /\ Copies(t) \in SUBSET DOMAIN artifacts
  BY DEF ArtifactsOf, Copies
<1>4. IsFiniteSet(ArtifactsOf(t)) /\ IsFiniteSet(Copies(t))
  BY <1>2, <1>3, FS_Subset
<1> QED
  BY <1>4, FS_CardinalityType

(* Only _artifact adds to the artifacts of a task, and only _promote to    *)
(* its canonical ones; each adds one.                                      *)
LEMMA WorkAdds ==
  ASSUME IInv, NEW r \in Runner, Call(r) \/ Step(r) \/ Crash(r), NEW t
  PROVE  /\ Cardinality(ArtifactsOf(t))' =
              Cardinality(ArtifactsOf(t)) + IF Produce(r) /\ run[r].task = t THEN 1 ELSE 0
         /\ Cardinality(Copies(t))' =
              Cardinality(Copies(t)) + IF Promote(r) /\ run[r].task = t THEN 1 ELSE 0
<1>0. artifacts \in Seq(Artifact)
  BY DEF IInv, TypeOK
<1>1. CASE Produce(r)
  <2>0. ~Promote(r)
    BY <1>1 DEF Produce, Promote, At
  <2>1. /\ DOMAIN artifacts' = DOMAIN artifacts \union {Len(artifacts) + 1}
        /\ Len(artifacts) + 1 \notin DOMAIN artifacts
        /\ \A a \in DOMAIN artifacts : artifacts'[a] = artifacts[a]
        /\ artifacts'[Len(artifacts) + 1] =
             [task |-> run[r].task, version |-> run[r].version,
              by |-> run[r].producer, status |-> "draft"]
    BY <1>1, ProduceArtifacts
  <2>2. /\ artifacts'[Len(artifacts) + 1].task = run[r].task
        /\ artifacts'[Len(artifacts) + 1].status # "canonical"
    BY <2>1
  <2>3. Copies(t)' = Copies(t)
    BY <2>1, <2>2 DEF Copies
  <2>4. CASE run[r].task = t
    <3>1. ArtifactsOf(t)' = ArtifactsOf(t) \union {Len(artifacts) + 1}
          /\ Len(artifacts) + 1 \notin ArtifactsOf(t)
      BY <2>1, <2>2, <2>4 DEF ArtifactsOf
    <3>2. Cardinality(ArtifactsOf(t) \union {Len(artifacts) + 1}) = Cardinality(ArtifactsOf(t)) + 1
      BY <1>0, <3>1, WorkFinite, FS_AddElement
    <3> QED
      BY <1>0, <1>1, <2>0, <2>3, <2>4, <3>1, <3>2, WorkFinite
  <2>5. CASE run[r].task # t
    <3>1. ArtifactsOf(t)' = ArtifactsOf(t)
      BY <2>1, <2>2, <2>5 DEF ArtifactsOf
    <3> QED
      BY <1>0, <2>0, <2>3, <2>5, <3>1, WorkFinite
  <2> QED
    BY <2>4, <2>5
<1>2. CASE Promote(r)
  <2> DEFINE d == run[r].draft
  <2>0. ~Produce(r)
    BY <1>2 DEF Produce, Promote, At
  <2>1. /\ DOMAIN artifacts' = DOMAIN artifacts
        /\ \A a \in DOMAIN artifacts :
             /\ artifacts'[a].task = artifacts[a].task
             /\ artifacts'[a].status = IF a = d THEN "canonical" ELSE artifacts[a].status
    BY <1>2, PromoteArtifacts
  <2>2. /\ d \in DOMAIN artifacts /\ artifacts[d].task = run[r].task
        /\ artifacts[d].status = "draft"
    BY <1>2 DEF Promote, At, IInv, DraftSound, WithDraft
  <2>3. ArtifactsOf(t)' = ArtifactsOf(t)
    BY <2>1 DEF ArtifactsOf
  <2>4. CASE run[r].task = t
    <3>1. Copies(t)' = Copies(t) \union {d} /\ d \notin Copies(t)
      BY <2>1, <2>2, <2>4 DEF Copies
    <3>2. Cardinality(Copies(t) \union {d}) = Cardinality(Copies(t)) + 1
      BY <1>0, <3>1, WorkFinite, FS_AddElement
    <3> QED
      BY <1>0, <1>2, <2>0, <2>3, <2>4, <3>1, <3>2, WorkFinite
  <2>5. CASE run[r].task # t
    <3>1. Copies(t)' = Copies(t)
      BY <2>1, <2>2, <2>5 DEF Copies
    <3> QED
      BY <1>0, <2>0, <2>3, <2>5, <3>1, WorkFinite
  <2> QED
    BY <2>4, <2>5
<1>3. CASE ~Produce(r) /\ ~Promote(r)
  <2>1. artifacts' = artifacts
    BY <1>3, Quiet
  <2>2. ArtifactsOf(t)' = ArtifactsOf(t) /\ Copies(t)' = Copies(t)
    BY <2>1 DEF ArtifactsOf, Copies
  <2> QED
    BY <1>0, <1>3, <2>2, WorkFinite
<1> QED
  BY <1>1, <1>2, <1>3

LEMMA CoveredStep ==
  ASSUME IInv, WorkCovered, IsFiniteSet(Runner), plan' = plan,
         NEW r \in Runner, Step(r) \/ Crash(r)
  PROVE  WorkCovered'
<1> SUFFICES ASSUME NEW t \in DOMAIN plan
             PROVE  WritesCovered(t)' /\ CopiesCovered(t)'
  BY DEF WorkCovered
<1>0. /\ calls' = calls /\ calls * (MaxRevisions + 1) \in Nat /\ calls \in Nat
      /\ run \in [Runner -> RunRecord]
      /\ \A s \in Runner \ {r} : run'[s] = run[s]
      /\ t \in TaskId
      /\ artifacts \in Seq(Artifact)
      /\ WritesCovered(t) /\ CopiesCovered(t)
  <2>1. calls' = calls
    BY DEF Step, Crash, ReadCompleted, Begin, StartTask, NoProducer, Blocked,
       FinishGoal, LogCompletion, Attempt, Produce, SubmitForReview, Review,
       NoReviewer, Revise, Reject, FailGoal, Promote, Canonize, Escalate, counters
  <2>2. calls \in Nat /\ calls * (MaxRevisions + 1) \in Nat
    BY BoundsAssumption DEF IInv, TypeOK
  <2> QED
    BY <2>1, <2>2, OthersStand DEF IInv, TypeOK, WorkCovered
<1>1. /\ MayWrite(t)' \subseteq MayWrite(t)
      /\ MayPromote(t)' \subseteq MayPromote(t)
  BY <1>0, AllowanceShrinks DEF MayWrite, MayPromote
<1>2. ASSUME Produce(r), run[r].task = t
      PROVE  <<r, run[r].version>> \in MayWrite(t) /\ <<r, run[r].version>> \notin MayWrite(t)'
  <2>1. /\ run[r].pc = "produce" /\ t \in run[r].pending
        /\ run[r].version \in Version
    BY <1>2, BoundsAssumption
       DEF Produce, At, IInv, LocalsSound, InTask, TypeOK, RunRecord, Version
  <2>2. CanWrite(run[r], t, run[r].version)
    BY <1>2, <2>1 DEF CanWrite, InTask
  <2>3. ~CanWrite(run'[r], t, run[r].version)
    BY <1>0, <1>2, <2>1, AllowanceShrinks
  <2> QED
    BY <2>1, <2>2, <2>3 DEF MayWrite
<1>3. ASSUME Promote(r), run[r].task = t
      PROVE  r \in MayPromote(t) /\ r \notin MayPromote(t)'
  <2>1. run[r].pc = "review" /\ t \in run[r].pending
    BY <1>3 DEF Promote, At, IInv, LocalsSound, InTask
  <2>2. CanPromote(run[r], t)
    BY <1>3, <2>1 DEF CanPromote, InTask
  <2>3. ~CanPromote(run'[r], t)
    BY <1>0, <1>3, AllowanceShrinks
  <2> QED
    BY <2>2, <2>3 DEF MayPromote
<1>4. WritesCovered(t)'
  <2>1. Cardinality(MayWrite(t)') <= Cardinality(MayWrite(t))
            - IF Produce(r) /\ run[r].task = t THEN 1 ELSE 0
    <3>1. CASE Produce(r) /\ run[r].task = t
      <4> DEFINE w == <<r, run[r].version>>
      <4>1. MayWrite(t)' \in SUBSET (MayWrite(t) \ {w}) /\ w \in MayWrite(t)
        BY <1>1, <1>2, <3>1
      <4>2. IsFiniteSet(MayWrite(t) \ {w})
            /\ Cardinality(MayWrite(t) \ {w}) = Cardinality(MayWrite(t)) - 1
        BY <4>1, AllowanceFinite, FS_RemoveElement
      <4>3. Cardinality(MayWrite(t)') <= Cardinality(MayWrite(t) \ {w})
        BY <4>1, <4>2, FS_Subset
      <4> QED
        BY <3>1, <4>2, <4>3
    <3>2. CASE ~(Produce(r) /\ run[r].task = t)
      <4>1. MayWrite(t)' \in SUBSET MayWrite(t)
        BY <1>1
      <4>2. Cardinality(MayWrite(t)') <= Cardinality(MayWrite(t))
        BY <4>1, AllowanceFinite, FS_Subset
      <4> QED
        BY <3>2, <4>2, AllowanceFinite
    <3> QED
      BY <3>1, <3>2
  <2>2. Cardinality(ArtifactsOf(t))' = Cardinality(ArtifactsOf(t))
            + IF Produce(r) /\ run[r].task = t THEN 1 ELSE 0
    BY WorkAdds
  <2>3. IsFiniteSet(MayWrite(t)') /\ Cardinality(MayWrite(t)') \in Nat
    <3>1. MayWrite(t)' \in SUBSET MayWrite(t)
      BY <1>1
    <3> QED
      BY <3>1, AllowanceFinite, FS_Subset, FS_CardinalityType
  <2> QED
    BY <1>0, <2>1, <2>2, <2>3, AllowanceFinite, WorkFinite DEF WritesCovered
<1>5. CopiesCovered(t)'
  <2>1. Cardinality(MayPromote(t)') <= Cardinality(MayPromote(t))
            - IF Promote(r) /\ run[r].task = t THEN 1 ELSE 0
    <3>1. CASE Promote(r) /\ run[r].task = t
      <4>1. MayPromote(t)' \in SUBSET (MayPromote(t) \ {r}) /\ r \in MayPromote(t)
        BY <1>1, <1>3, <3>1
      <4>2. IsFiniteSet(MayPromote(t) \ {r})
            /\ Cardinality(MayPromote(t) \ {r}) = Cardinality(MayPromote(t)) - 1
        BY <4>1, AllowanceFinite, FS_RemoveElement
      <4>3. Cardinality(MayPromote(t)') <= Cardinality(MayPromote(t) \ {r})
        BY <4>1, <4>2, FS_Subset
      <4> QED
        BY <3>1, <4>2, <4>3
    <3>2. CASE ~(Promote(r) /\ run[r].task = t)
      <4>1. MayPromote(t)' \in SUBSET MayPromote(t)
        BY <1>1
      <4>2. Cardinality(MayPromote(t)') <= Cardinality(MayPromote(t))
        BY <4>1, AllowanceFinite, FS_Subset
      <4> QED
        BY <3>2, <4>2, AllowanceFinite
    <3> QED
      BY <3>1, <3>2
  <2>2. Cardinality(Copies(t))' = Cardinality(Copies(t))
            + IF Promote(r) /\ run[r].task = t THEN 1 ELSE 0
    BY WorkAdds
  <2>3. IsFiniteSet(MayPromote(t)') /\ Cardinality(MayPromote(t)') \in Nat
    <3>1. MayPromote(t)' \in SUBSET MayPromote(t)
      BY <1>1
    <3> QED
      BY <3>1, AllowanceFinite, FS_Subset, FS_CardinalityType
  <2> QED
    BY <1>0, <2>1, <2>2, <2>3, AllowanceFinite, WorkFinite DEF CopiesCovered
<1> QED
  BY <1>4, <1>5

(* A call is allowed one more of each version of every task.               *)
LEMMA CoveredCall ==
  ASSUME IInv, WorkCovered, IsFiniteSet(Runner), NEW r \in Runner, Call(r)
  PROVE  WorkCovered'
<1>0. /\ plan' = plan /\ artifacts' = artifacts /\ calls' = calls + 1
      /\ calls \in Nat /\ MaxRevisions + 1 \in Nat
      /\ calls * (MaxRevisions + 1) \in Nat
      /\ (calls + 1) * (MaxRevisions + 1) = calls * (MaxRevisions + 1) + (MaxRevisions + 1)
      /\ \A s \in Runner \ {r} : run'[s] = run[s]
      /\ artifacts \in Seq(Artifact)
  <2>1. calls \in Nat /\ MaxRevisions + 1 \in Nat
    BY BoundsAssumption DEF IInv, TypeOK
  <2>2. \A m, n \in Nat : m * n \in Nat /\ (m + 1) * n = m * n + n
    OBVIOUS
  <2> QED
    BY <2>1, <2>2, OthersStand DEF Call, database, IInv, TypeOK
<1> SUFFICES ASSUME NEW t \in DOMAIN plan
             PROVE  WritesCovered(t)' /\ CopiesCovered(t)'
  BY <1>0 DEF WorkCovered
<1>1. ArtifactsOf(t)' = ArtifactsOf(t) /\ Copies(t)' = Copies(t)
  BY <1>0 DEF ArtifactsOf, Copies
<1>2. WritesCovered(t)'
  <2> DEFINE more == {r} \X Version
  <2>1. MayWrite(t)' \in SUBSET (MayWrite(t) \union more)
    BY <1>0 DEF MayWrite
  <2>2. IsFiniteSet(more) /\ Cardinality(more) = MaxRevisions + 1
    <3>1. IsFiniteSet({r}) /\ Cardinality({r}) = 1
      BY FS_Singleton
    <3>2. IsFiniteSet(Version) /\ Cardinality(Version) = MaxRevisions + 1
      BY AllowanceFinite
    <3>3. IsFiniteSet(more) /\ Cardinality(more) = Cardinality({r}) * Cardinality(Version)
      BY <3>1, <3>2, FS_Product
    <3>4. \A n \in Nat : 1 * n = n
      OBVIOUS
    <3> QED
      BY <1>0, <3>1, <3>2, <3>3, <3>4
  <2> HIDE DEF more
  <2>3. IsFiniteSet(MayWrite(t) \union more)
        /\ Cardinality(MayWrite(t) \union more) <= Cardinality(MayWrite(t)) + Cardinality(more)
    <3>1. /\ IsFiniteSet(MayWrite(t) \union more)
          /\ Cardinality(MayWrite(t) \union more) =
               Cardinality(MayWrite(t)) + Cardinality(more) - Cardinality(MayWrite(t) \intersect more)
      BY <2>2, AllowanceFinite, FS_Union
    <3>2. Cardinality(MayWrite(t) \intersect more) \in Nat
      BY AllowanceFinite, FS_Intersection, FS_CardinalityType
    <3> QED
      BY <1>0, <2>2, <3>1, <3>2, AllowanceFinite
  <2>4. /\ Cardinality(MayWrite(t)') <= Cardinality(MayWrite(t) \union more)
        /\ Cardinality(MayWrite(t)') \in Nat
        /\ Cardinality(MayWrite(t) \union more) \in Nat
    BY <2>1, <2>3, FS_Subset, FS_CardinalityType
  <2>5. WritesCovered(t)
    BY DEF WorkCovered
  <2> QED
    BY <1>0, <1>1, <2>2, <2>3, <2>4, <2>5, AllowanceFinite, WorkFinite DEF WritesCovered
<1>3. CopiesCovered(t)'
  <2>1. MayPromote(t)' \in SUBSET (MayPromote(t) \union {r})
    BY <1>0 DEF MayPromote
  <2>2. IsFiniteSet(MayPromote(t) \union {r})
        /\ Cardinality(MayPromote(t) \union {r}) <= Cardinality(MayPromote(t)) + 1
    <3>1. IsFiniteSet(MayPromote(t)) /\ Cardinality(MayPromote(t)) \in Nat
      BY AllowanceFinite
    <3>2. /\ IsFiniteSet(MayPromote(t) \union {r})
          /\ Cardinality(MayPromote(t) \union {r}) =
               IF r \in MayPromote(t) THEN Cardinality(MayPromote(t))
                                      ELSE Cardinality(MayPromote(t)) + 1
      BY <3>1, FS_AddElement
    <3> QED
      BY <3>1, <3>2
  <2>3. /\ Cardinality(MayPromote(t)') <= Cardinality(MayPromote(t) \union {r})
        /\ Cardinality(MayPromote(t)') \in Nat
        /\ Cardinality(MayPromote(t) \union {r}) \in Nat
    BY <2>1, <2>2, FS_Subset, FS_CardinalityType
  <2>4. CopiesCovered(t)
    BY DEF WorkCovered
  <2> QED
    BY <1>0, <1>1, <2>2, <2>3, <2>4, AllowanceFinite, WorkFinite DEF CopiesCovered
<1> QED
  BY <1>2, <1>3

LEMMA CoveredSubmit ==
  ASSUME IInv, IsFiniteSet(Runner), NEW p \in Plans, Submit(p)
  PROVE  WorkCovered'
<1>1. /\ artifacts' = artifacts /\ run' = run /\ calls' = calls
      /\ \A r \in Runner : run[r].pc = "idle"
      /\ DOMAIN plan = {}
  BY DEF Submit, IInv, TablesAgree, At, counters
<1>2. DOMAIN artifacts = {}
  BY <1>1 DEF IInv, TablesAgree
<1>3. ASSUME NEW t
      PROVE  /\ ArtifactsOf(t)' = {} /\ Copies(t)' = {}
             /\ MayWrite(t)' = {} /\ MayPromote(t)' = {}
  BY <1>1, <1>2
     DEF ArtifactsOf, Copies, MayWrite, MayPromote, CanWrite, CanPromote, InTask, BeforeTask
<1>4. calls \in Nat /\ calls * (MaxRevisions + 1) \in Nat
  BY BoundsAssumption DEF IInv, TypeOK
<1>5. ASSUME NEW t PROVE WritesCovered(t)' /\ CopiesCovered(t)'
  <2>1. Cardinality(ArtifactsOf(t)') = 0 /\ Cardinality(MayWrite(t)') = 0
        /\ Cardinality(Copies(t)') = 0 /\ Cardinality(MayPromote(t)') = 0
    BY <1>3, FS_EmptySet
  <2> QED
    BY <1>1, <1>4, <2>1 DEF WritesCovered, CopiesCovered
<1> QED
  BY <1>5 DEF WorkCovered

(* One call of run() writes at most max_revisions + 1 versions of a task   *)
(* and promotes at most one of them, whatever rivals and crashes do: what  *)
(* finitely many runners make of a task is bounded by their calls.         *)
THEOREM WorkIsBounded ==
  ASSUME IsFiniteSet(Runner)
  PROVE  Spec => []WorkBoundedByCalls
<1>1. Init => WorkCovered
  BY DEF Init, WorkCovered
<1>2. IInv /\ WorkCovered /\ [Next]_vars => WorkCovered'
  <2> SUFFICES ASSUME IInv, WorkCovered, [Next]_vars
               PROVE  WorkCovered'
    OBVIOUS
  <2>1. ASSUME NEW p \in Plans, Submit(p) PROVE WorkCovered'
    BY <2>1, CoveredSubmit
  <2>2. ASSUME NEW r \in Runner, Call(r) PROVE WorkCovered'
    BY <2>2, CoveredCall
  <2>3. ASSUME NEW r \in Runner, Step(r) \/ Crash(r) PROVE WorkCovered'
    <3>1. plan' = plan
      BY <2>3 DEF Step, Crash, ReadCompleted, Begin, StartTask, NoProducer, Blocked,
         FinishGoal, LogCompletion, Attempt, Produce, SubmitForReview, Review,
         NoReviewer, Revise, Reject, FailGoal, Promote, Canonize, Escalate, database
    <3> QED
      BY <2>3, <3>1, CoveredStep
  <2>4. ASSUME UNCHANGED <<plan, artifacts, run, calls>> PROVE WorkCovered'
    BY <2>4 DEF WorkCovered, WritesCovered, CopiesCovered, ArtifactsOf, Copies,
       MayWrite, MayPromote
  <2>5. ASSUME NEW offer \in Offers, Register(offer[1], offer[2]) PROVE WorkCovered'
    BY <2>4, <2>5 DEF Register, database, counters
  <2>6. CASE UNCHANGED vars
    BY <2>4, <2>6 DEF vars, database, counters
  <2> QED
    BY <2>1, <2>2, <2>3, <2>5, <2>6 DEF Next
<1>3. IInv /\ WorkCovered => WorkBoundedByCalls
  <2> SUFFICES ASSUME IInv, WorkCovered, NEW t \in DOMAIN plan
               PROVE  /\ Cardinality(ArtifactsOf(t)) <= calls * (MaxRevisions + 1)
                      /\ Cardinality(Copies(t)) <= calls
    BY DEF WorkBoundedByCalls
  <2>1. calls \in Nat /\ calls * (MaxRevisions + 1) \in Nat /\ artifacts \in Seq(Artifact)
    BY BoundsAssumption DEF IInv, TypeOK
  <2>2. WritesCovered(t) /\ CopiesCovered(t)
    BY DEF WorkCovered
  <2> QED
    BY <2>1, <2>2, AllowanceFinite, WorkFinite DEF WritesCovered, CopiesCovered
<1> QED
  BY <1>1, <1>2, <1>3, Invariance, PTL DEF Spec

(***************************************************************************)
(* Every call comes to an end: a measure of what it has left.              *)
(***************************************************************************)
LEMMA PlanFinite ==
  ASSUME NEW p \in Plans
  PROVE  IsFiniteSet(PlanIds(p))
<1> DEFINE f == [i \in DOMAIN p |-> p[i].id]
<1>1. IsFiniteSet(DOMAIN p)
  <2>1. p \in Seq(PlannedTask)
    BY PlansAssumption
  <2>2. DOMAIN p = 1..Len(p) /\ Len(p) \in Nat
    BY <2>1, LenProperties
  <2> QED
    BY <2>2, FS_Interval
<1>2. f \in Surjection(DOMAIN p, PlanIds(p))
  BY DEF Surjection, PlanIds
<1> QED
  BY <1>1, <1>2, FS_Surjection

LEMMA GateLengths ==
  ASSUME IInv, NEW t \in DOMAIN plan
  PROVE  Len(plan[t].gates) \in Nat
<1>1. plan[t].gates \in Seq(Capability)
  BY DEF IInv, TypeOK, PlannedTask
<1> QED
  BY <1>1, LenProperties

(* The gate a runner looks at never lies beyond the one after the last.    *)
LEMMA GateStep ==
  ASSUME IInv, CallBounded, plan' = plan,
         NEW r \in Runner, Call(r) \/ Step(r) \/ Crash(r)
  PROVE  At(r, "review")' => (run[r].gate <= Len(Gates(r)) + 1)'
<1> SUFFICES ASSUME run'[r].pc = "review"
             PROVE  run'[r].gate <= Len(plan[run'[r].task].gates) + 1
  BY DEF At, Gates
<1>0. run \in [Runner -> RunRecord] /\ run[r] \in RunRecord
  BY DEF IInv, TypeOK
<1>1. CASE SubmitForReview(r)
  <2>1. run[r].task \in DOMAIN plan
    BY <1>1 DEF SubmitForReview, At, IInv, LocalsSound, InTask
  <2>2. run'[r] = [run[r] EXCEPT !.pc = "review", !.gate = 1]
    BY <1>0, <1>1 DEF SubmitForReview
  <2>3. run'[r].gate = 1 /\ run'[r].task = run[r].task
    BY <1>0, <2>2 DEF RunRecord
  <2> QED
    BY <2>1, <2>3, GateLengths
<1>2. ASSUME NEW verdict \in Verdict, Review(r, verdict)
      PROVE  run'[r].gate <= Len(plan[run'[r].task].gates) + 1
  <2>1. run[r].gate <= Len(plan[run[r].task].gates) /\ run[r].gate \in Nat
        /\ Len(plan[run[r].task].gates) \in Nat
    BY <1>0, <1>2, ReviewFacts, GateLengths DEF Review, Gates
  <2>2. run'[r] = AfterVerdict(r, verdict)
    BY <1>0, <1>2 DEF Review
  <2>3. CASE verdict = "approve"
    <3>1. run'[r] = [run[r] EXCEPT !.gate = @ + 1]
      BY <2>2, <2>3 DEF AfterVerdict
    <3>2. run'[r].gate = run[r].gate + 1 /\ run'[r].task = run[r].task
      BY <1>0, <3>1 DEF RunRecord
    <3> QED
      BY <2>1, <3>2
  <2>4. CASE verdict # "approve"
    <3>1. run'[r].pc \in {"escalate", "reject", "revise"}
      BY <1>0, <2>2, <2>4 DEF AfterVerdict, Verdict, RunRecord
    <3> QED
      BY <3>1
  <2> QED
    BY <2>3, <2>4
<1>3. CASE ~SubmitForReview(r) /\ ~\E verdict \in Verdict : Review(r, verdict)
  <2>1. run'[r].pc # "review"
    <3>1. CASE Produce(r)
      BY <1>0, <3>1 DEF Produce, RunRecord
    <3>2. CASE ~Produce(r)
      BY <1>3, <3>2, LosesDraft DEF WithDraft
    <3> QED
      BY <3>1, <3>2
  <2> QED
    BY <2>1
<1> QED
  BY <1>1, <1>2, <1>3

LEMMA CallBoundedStep == IInv /\ CallBounded /\ [Next]_vars => CallBounded'
<1> SUFFICES ASSUME IInv, CallBounded, [Next]_vars PROVE CallBounded'
  OBVIOUS
<1>1. CASE \E p \in Plans : Submit(p)
  <2>1. PICK p \in Plans : Submit(p)
    BY <1>1
  <2>2. /\ DOMAIN plan' = PlanIds(p)
        /\ run' = run /\ \A r \in Runner : run[r].pc = "idle"
    BY <2>1 DEF Submit, IInv, TablesAgree, At
  <2>3. IsFiniteSet(DOMAIN plan')
    BY <2>2, PlanFinite
  <2> QED
    BY <2>2, <2>3 DEF CallBounded, At
<1>2. CASE \E offer \in Offers : Register(offer[1], offer[2])
  BY <1>2 DEF CallBounded, Register, database, At, Gates
<1>3. CASE UNCHANGED vars
  BY <1>3 DEF CallBounded, vars, database, At, Gates
<1>4. ASSUME NEW r \in Runner, Call(r) \/ Step(r) \/ Crash(r)
      PROVE  CallBounded'
  <2>1. plan' = plan
    BY <1>4, PlanStands
  <2>2. \A s \in Runner \ {r} : run'[s] = run[s]
    BY <1>4, OthersStand DEF IInv, TypeOK
  <2>3. ASSUME NEW s \in Runner
        PROVE  At(s, "review")' => (run[s].gate <= Len(Gates(s)) + 1)'
    <3>1. CASE s = r
      BY <1>4, <2>1, <3>1, GateStep
    <3>2. CASE s # r
      BY <2>1, <2>2, <3>2 DEF CallBounded, At, Gates
    <3> QED
      BY <3>1, <3>2
  <2> QED
    BY <2>1, <2>3 DEF CallBounded
<1> QED
  BY <1>1, <1>2, <1>3, <1>4 DEF Next

(* The tasks of a plan are finitely many, and so are the gates of each.    *)
LEMMA CallsAreBounded == Spec => []CallBounded
<1>1. Init => CallBounded
  <2> SUFFICES ASSUME Init PROVE CallBounded
    OBVIOUS
  <2>1. DOMAIN plan = {} /\ \A r \in Runner : run[r].pc = "idle"
    BY DEF Init, IdleRun
  <2> QED
    BY <2>1, FS_EmptySet DEF CallBounded, At
<1> QED
  BY <1>1, CallBoundedStep, Invariance, PTL DEF Spec

(* Calls, when no task has more than so many gates.                        *)
Within(most) ==
  CallBounded /\ \A t \in DOMAIN plan : Len(plan[t].gates) <= most

LEMMA MostGatesIsMost ==
  ASSUME IInv, CallBounded
  PROVE  \E most \in Nat : most = MostGates /\ Within(most)
<1> DEFINE f == [t \in DOMAIN plan |-> Len(plan[t].gates)]
           Lens == {Len(plan[t].gates) : t \in DOMAIN plan}
<1>1. f \in Surjection(DOMAIN plan, Lens)
  BY DEF Surjection
<1>2. IsFiniteSet(Lens)
  BY <1>1, FS_Surjection DEF CallBounded
<1>3. IsFiniteSet(GateCounts)
  BY <1>2, FS_AddElement DEF GateCounts
<1>4. GateCounts \subseteq Nat /\ GateCounts # {}
  BY GateLengths DEF GateCounts
<1>5. \E n \in GateCounts : \A k \in GateCounts : k <= n
  BY <1>3, <1>4, GreatestNumber
<1>6. MostGates \in GateCounts /\ \A k \in GateCounts : k <= MostGates
  BY <1>5 DEF MostGates
<1>7. \A t \in DOMAIN plan : Len(plan[t].gates) \in GateCounts
  BY DEF GateCounts
<1>8. MostGates \in Nat /\ Within(MostGates)
  BY <1>4, <1>6, <1>7 DEF Within
<1> QED
  BY <1>8

LEMMA OneMore ==
  ASSUME NEW n \in Nat, NEW k \in Nat
  PROVE  n * k \in Nat /\ (n + 1) * k = n * k + k
  OBVIOUS

LEMMA AtMost ==
  ASSUME NEW m \in Nat, NEW n \in Nat, m <= n, NEW k \in Nat
  PROVE  m * k <= n * k
<1>1. n - m \in Nat /\ n = m + (n - m)
  OBVIOUS
<1>2. n * k = m * k + (n - m) * k
  BY <1>1
<1>3. (n - m) * k \in Nat /\ m * k \in Nat
  BY <1>1, OneMore
<1> QED
  BY <1>2, <1>3

LEMMA PerTaskType ==
  ASSUME NEW most \in Nat
  PROVE  /\ PerVersion(most) = most + 6 /\ PerVersion(most) \in Nat
         /\ PerTask(most) \in Nat
         /\ PerTask(most) = MaxRevisions * PerVersion(most) + PerVersion(most)
<1>1. PerVersion(most) = most + 6 /\ PerVersion(most) \in Nat
  BY DEF PerVersion
<1> QED
  BY <1>1, OneMore, BoundsAssumption DEF PerTask

LEMMA LeftInTask ==
  ASSUME NEW me, NEW most, me.pc \in InTask \ {"reject"}
  PROVE  StepsLeft(me, most) =
           (Cardinality(me.pending) - 1) * PerTask(most)
             + (MaxRevisions + 1 - me.version) * PerVersion(most)
             + VersionLeft(me, most) + 2
  BY DEF StepsLeft, InTask

LEMMA LeftOutside ==
  ASSUME NEW me, NEW most
  PROVE  LET pending == Cardinality(me.pending) IN
         /\ me.pc = "idle" => StepsLeft(me, most) = 0
         /\ me.pc \in {"log", "escalate", "fail"} => StepsLeft(me, most) = 1
         /\ me.pc = "reject" => StepsLeft(me, most) = 2
         /\ me.pc = "loop" => StepsLeft(me, most) = pending * PerTask(most) + 2
         /\ me.pc = "begin" => StepsLeft(me, most) = pending * PerTask(most) + 3
         /\ me.pc = "completed" => StepsLeft(me, most) = pending * PerTask(most) + 4
  BY DEF StepsLeft, InTask

(* What a call has pending is finite, and with a task in hand not empty.   *)
LEMMA PendingCounts ==
  ASSUME IInv, NEW most \in Nat, Within(most), NEW r \in Runner
  PROVE  /\ IsFiniteSet(run[r].pending) /\ Cardinality(run[r].pending) \in Nat
         /\ run[r].pending # {} => Cardinality(run[r].pending) - 1 \in Nat
         /\ run[r].pc \in InTask =>
              /\ Cardinality(run[r].pending) - 1 \in Nat
              /\ run[r].task \in run[r].pending
              /\ run[r].version \in 1..(MaxRevisions + 1)
              /\ MaxRevisions + 1 - run[r].version \in Nat
<1>1. run[r] \in RunRecord /\ LocalsSound(run[r])
  BY DEF IInv, TypeOK
<1>2. IsFiniteSet(run[r].pending) /\ Cardinality(run[r].pending) \in Nat
  BY <1>1, FS_Subset, FS_CardinalityType DEF LocalsSound, Within, CallBounded
<1>3. run[r].pending # {} => Cardinality(run[r].pending) # 0
  BY <1>2, FS_EmptySet
<1>4. run[r].pc \in InTask => /\ run[r].task \in run[r].pending
                              /\ run[r].version \in 1..(MaxRevisions + 1)
  BY <1>1, BoundsAssumption DEF LocalsSound, RunRecord
<1> QED
  BY <1>2, <1>3, <1>4, BoundsAssumption

(* What is left in the middle of a task, as a sum of natural numbers.      *)
LEMMA LeftCounts ==
  ASSUME IInv, NEW most \in Nat, Within(most), NEW r \in Runner,
         run[r].pc \in InTask \ {"reject"}
  PROVE  \E others \in Nat, versions \in Nat :
           /\ others = (Cardinality(run[r].pending) - 1) * PerTask(most)
           /\ versions = (MaxRevisions + 1 - run[r].version) * PerVersion(most)
           /\ StepsLeft(run[r], most) = others + versions + VersionLeft(run[r], most) + 2
<1> DEFINE others == (Cardinality(run[r].pending) - 1) * PerTask(most)
           versions == (MaxRevisions + 1 - run[r].version) * PerVersion(most)
<1>1. others \in Nat /\ versions \in Nat
  BY PendingCounts, PerTaskType, OneMore
<1> QED
  BY <1>1, LeftInTask

(* A step within a version: only what is left of the version changes.      *)
LEMMA WithinVersion ==
  ASSUME IInv, NEW most \in Nat, Within(most), NEW r \in Runner,
         run[r].pc \in InTask \ {"reject"}, NEW me, me.pc \in InTask \ {"reject"},
         me.pending = run[r].pending, me.version = run[r].version,
         VersionLeft(me, most) \in Nat, VersionLeft(run[r], most) \in Nat,
         VersionLeft(me, most) < VersionLeft(run[r], most)
  PROVE  StepsLeft(me, most) < StepsLeft(run[r], most)
<1>1. PICK others \in Nat, versions \in Nat :
        /\ others = (Cardinality(run[r].pending) - 1) * PerTask(most)
        /\ versions = (MaxRevisions + 1 - run[r].version) * PerVersion(most)
        /\ StepsLeft(run[r], most) = others + versions + VersionLeft(run[r], most) + 2
  BY LeftCounts
<1>2. StepsLeft(me, most) = others + versions + VersionLeft(me, most) + 2
  BY <1>1, LeftInTask
<1> QED
  BY <1>1, <1>2

(* The end of a call may come from anywhere in a task.                     *)
LEMMA NearTheEnd ==
  ASSUME IInv, NEW most \in Nat, Within(most), NEW r \in Runner,
         run[r].pc \in InTask \ {"reject"}, VersionLeft(run[r], most) \in Nat
  PROVE  StepsLeft(run[r], most) >= VersionLeft(run[r], most) + 2
  BY LeftCounts

LEMMA StartShrinks ==
  ASSUME IInv, NEW most \in Nat, Within(most), NEW r \in Runner, StartTask(r)
  PROVE  StepsLeft(run'[r], most) < StepsLeft(run[r], most)
<1> DEFINE p == Cardinality(run[r].pending)
<1>1. PICK t \in FirstOf(Batch(r)), a \in AgentId :
        /\ run' = [run EXCEPT ![r] = [run[r] EXCEPT
                     !.pc = "attempt", !.batch = Batch(r), !.task = t,
                     !.producer = a, !.version = 1]]
        /\ run[r].pc = "loop" /\ run[r] \in RunRecord
  BY StartTaskLocals
<1>2. /\ run'[r].pc = "attempt" /\ run'[r].pending = run[r].pending
      /\ run'[r].version = 1
  BY <1>1 DEF IInv, TypeOK, RunRecord
<1>3. run[r].pending # {}
  BY DEF IInv, LocalsSound, FirstOf, Batch, Ready, StartTask
<1>4. p - 1 \in Nat /\ p = (p - 1) + 1
  BY <1>3, PendingCounts
<1> HIDE DEF p
<1>5. (p - 1) * PerTask(most) \in Nat
      /\ p * PerTask(most) = (p - 1) * PerTask(most) + PerTask(most)
  BY <1>4, OneMore, PerTaskType
<1>6. StepsLeft(run[r], most) = p * PerTask(most) + 2
  BY <1>1, LeftOutside DEF p
<1>7. StepsLeft(run'[r], most) =
        (p - 1) * PerTask(most) + MaxRevisions * PerVersion(most) + (most + 5) + 2
  <2>1. MaxRevisions + 1 - 1 = MaxRevisions
    BY BoundsAssumption
  <2>2. VersionLeft(run'[r], most) = most + 5
    BY <1>2 DEF VersionLeft
  <2>3. run'[r].pc \in InTask \ {"reject"}
    BY <1>2 DEF InTask
  <2> QED
    BY <1>2, <2>1, <2>2, <2>3, LeftInTask DEF p
<1>8. MaxRevisions * PerVersion(most) \in Nat
  BY OneMore, PerTaskType, BoundsAssumption
<1> QED
  BY <1>5, <1>6, <1>7, <1>8, PerTaskType

LEMMA ReviseShrinks ==
  ASSUME IInv, NEW most \in Nat, Within(most), NEW r \in Runner, Revise(r)
  PROVE  StepsLeft(run'[r], most) < StepsLeft(run[r], most)
<1>1. run[r].pc = "revise" /\ run[r] \in RunRecord /\ run'[r] = AfterRevise(r)
  BY DEF Revise, At, IInv, TypeOK
<1>2. run[r].pc \in InTask \ {"reject"} /\ VersionLeft(run[r], most) = 1
  BY <1>1 DEF InTask, VersionLeft
<1>3. PICK others \in Nat, versions \in Nat :
        /\ others = (Cardinality(run[r].pending) - 1) * PerTask(most)
        /\ versions = (MaxRevisions + 1 - run[r].version) * PerVersion(most)
        /\ StepsLeft(run[r], most) = others + versions + 1 + 2
  BY <1>2, LeftCounts
<1>4. CASE run[r].version <= MaxRevisions
  <2> DEFINE k == MaxRevisions - run[r].version
  <2>1. k \in Nat /\ MaxRevisions + 1 - run[r].version = k + 1
        /\ MaxRevisions + 1 - (run[r].version + 1) = k
    BY <1>1, <1>4, BoundsAssumption DEF RunRecord
  <2>2. /\ run'[r].pc = "attempt" /\ run'[r].pending = run[r].pending
        /\ run'[r].version = run[r].version + 1
    BY <1>1, <1>4 DEF AfterRevise, RunRecord
  <2>3. versions = k * PerVersion(most) + PerVersion(most) /\ k * PerVersion(most) \in Nat
    BY <1>3, <2>1, OneMore, PerTaskType
  <2>4. VersionLeft(run'[r], most) = most + 5 /\ run'[r].pc \in InTask \ {"reject"}
    BY <2>2 DEF VersionLeft, InTask
  <2>5. StepsLeft(run'[r], most) = others + k * PerVersion(most) + (most + 5) + 2
    BY <1>3, <2>1, <2>2, <2>4, LeftInTask
  <2> HIDE DEF k
  <2> QED
    BY <1>3, <2>3, <2>5, PerTaskType
<1>5. CASE ~(run[r].version <= MaxRevisions)
  <2>1. run'[r].pc = "escalate"
    BY <1>1, <1>5 DEF AfterRevise, RunRecord
  <2>2. StepsLeft(run'[r], most) = 1
    BY <2>1, LeftOutside
  <2> QED
    BY <1>3, <2>2
<1> QED
  BY <1>4, <1>5

LEMMA CanonizeShrinks ==
  ASSUME IInv, NEW most \in Nat, Within(most), NEW r \in Runner, Canonize(r)
  PROVE  StepsLeft(run'[r], most) < StepsLeft(run[r], most)
<1>1. run[r].pc = "canonize" /\ run[r] \in RunRecord
  BY DEF Canonize, At, IInv, TypeOK
<1>2. run[r].pc \in InTask \ {"reject"} /\ VersionLeft(run[r], most) = 1
  BY <1>1 DEF InTask, VersionLeft
<1>3. PICK others \in Nat, versions \in Nat :
        /\ others = (Cardinality(run[r].pending) - 1) * PerTask(most)
        /\ StepsLeft(run[r], most) = others + versions + 1 + 2
  BY <1>2, LeftCounts
<1>4. run'[r].pc = "loop" /\ run'[r].pending = run[r].pending \ {run[r].task}
  BY DEF Canonize, IdleRun, IInv, TypeOK
<1>5. Cardinality(run'[r].pending) = Cardinality(run[r].pending) - 1
  BY <1>2, <1>4, PendingCounts, FS_RemoveElement
<1>6. StepsLeft(run'[r], most) = others + 2
  BY <1>3, <1>4, <1>5, LeftOutside
<1> QED
  BY <1>3, <1>6

(* A review: the next gate, or the way to the end of the version or call.  *)
LEMMA ReviewShrinks ==
  ASSUME IInv, NEW most \in Nat, Within(most), NEW r \in Runner,
         NEW verdict \in Verdict, Review(r, verdict)
  PROVE  StepsLeft(run'[r], most) < StepsLeft(run[r], most)
<1>1. /\ run[r].pc = "review" /\ run[r] \in RunRecord
      /\ run'[r] = AfterVerdict(r, verdict)
  BY DEF Review, At, IInv, TypeOK
<1>2. run[r].pc \in InTask \ {"reject"}
      /\ VersionLeft(run[r], most) = most + 3 - run[r].gate
  BY <1>1 DEF InTask, VersionLeft
<1>3. run[r].gate \in Nat /\ run[r].gate <= most
  BY <1>1, ReviewFacts, GateLengths DEF Review, Gates, Within, CallBounded, At
<1>4. VersionLeft(run[r], most) \in Nat /\ VersionLeft(run[r], most) >= 3
  BY <1>2, <1>3
<1>5. CASE verdict = "approve"
  <2>1. run'[r] = [run[r] EXCEPT !.gate = @ + 1]
    BY <1>1, <1>5 DEF AfterVerdict
  <2>2. /\ run'[r].pc = "review" /\ run'[r].gate = run[r].gate + 1
        /\ run'[r].pending = run[r].pending /\ run'[r].version = run[r].version
    BY <1>1, <2>1 DEF RunRecord
  <2>3. VersionLeft(run'[r], most) = most + 3 - (run[r].gate + 1)
    BY <2>2 DEF VersionLeft
  <2> QED
    BY <1>2, <1>3, <1>4, <2>2, <2>3, WithinVersion DEF InTask
<1>6. CASE verdict = "revise"
  <2>1. run'[r] = [run[r] EXCEPT !.pc = "revise"]
    BY <1>1, <1>6 DEF AfterVerdict
  <2>2. /\ run'[r].pc = "revise"
        /\ run'[r].pending = run[r].pending /\ run'[r].version = run[r].version
    BY <1>1, <2>1 DEF RunRecord
  <2>3. VersionLeft(run'[r], most) = 1
    BY <2>2 DEF VersionLeft
  <2> QED
    BY <1>2, <1>4, <2>2, <2>3, WithinVersion DEF InTask
<1>7. CASE verdict \in {"reject", "escalate"}
  <2>1. run'[r].pc \in {"reject", "escalate"}
    BY <1>1, <1>7 DEF AfterVerdict, RunRecord
  <2>2. StepsLeft(run'[r], most) <= 2
    BY <2>1, LeftOutside
  <2>3. StepsLeft(run'[r], most) \in Nat
    BY <2>1, LeftOutside
  <2> QED
    BY <1>2, <1>4, <2>2, <2>3, LeftCounts
<1> QED
  BY <1>5, <1>6, <1>7 DEF Verdict

LEMMA PlainShrinks ==
  ASSUME IInv, NEW most \in Nat, Within(most), NEW r \in Runner,
         Attempt(r) \/ Produce(r) \/ SubmitForReview(r) \/ Promote(r)
  PROVE  StepsLeft(run'[r], most) < StepsLeft(run[r], most)
<1>0. run[r] \in RunRecord /\ run \in [Runner -> RunRecord]
  BY DEF IInv, TypeOK
<1>1. /\ run[r].pc \in InTask \ {"reject"} /\ run'[r].pc \in InTask \ {"reject"}
      /\ run'[r].pending = run[r].pending /\ run'[r].version = run[r].version
  BY <1>0 DEF Attempt, Produce, SubmitForReview, Promote, At, RunRecord, InTask
<1>2. /\ VersionLeft(run'[r], most) \in Nat /\ VersionLeft(run[r], most) \in Nat
      /\ VersionLeft(run'[r], most) < VersionLeft(run[r], most)
  <2>1. CASE Attempt(r)
    <3>1. run[r].pc = "attempt" /\ run'[r].pc = "produce"
      BY <1>0, <2>1 DEF Attempt, At, RunRecord
    <3> QED
      BY <3>1 DEF VersionLeft
  <2>2. CASE Produce(r)
    <3>1. run[r].pc = "produce" /\ run'[r].pc = "submit"
      BY <1>0, <2>2 DEF Produce, At, RunRecord
    <3> QED
      BY <3>1 DEF VersionLeft
  <2>3. CASE SubmitForReview(r)
    <3>1. run[r].pc = "submit" /\ run'[r].pc = "review" /\ run'[r].gate = 1
      BY <1>0, <2>3 DEF SubmitForReview, At, RunRecord
    <3> QED
      BY <3>1 DEF VersionLeft
  <2>4. CASE Promote(r)
    <3>1. run[r].pc = "review" /\ run'[r].pc = "canonize"
      BY <1>0, <2>4 DEF Promote, At, RunRecord
    <3>2. run[r].gate \in Nat /\ run[r].gate <= most + 1
      <4>1. run[r].gate <= Len(Gates(r)) + 1 /\ run[r].task \in DOMAIN plan
            /\ run[r].gate \in Nat
        BY <3>1, ReviewFacts DEF Within, CallBounded, At
      <4>2. Len(Gates(r)) \in Nat /\ Len(Gates(r)) <= most
        BY <4>1, GateLengths DEF Gates, Within, CallBounded
      <4> QED
        BY <4>1, <4>2
    <3> QED
      BY <3>1, <3>2 DEF VersionLeft
  <2> QED
    BY <2>1, <2>2, <2>3, <2>4
<1> QED
  BY <1>1, <1>2, WithinVersion

(* The steps before and after the tasks, and those that give up.           *)
LEMMA OuterShrinks ==
  ASSUME IInv, NEW most \in Nat, Within(most), NEW r \in Runner,
         \/ ReadCompleted(r) \/ Begin(r) \/ NoProducer(r) \/ Blocked(r)
         \/ FinishGoal(r) \/ LogCompletion(r) \/ NoReviewer(r) \/ Reject(r)
         \/ FailGoal(r) \/ Escalate(r)
  PROVE  StepsLeft(run'[r], most) < StepsLeft(run[r], most)
<1>0. run[r] \in RunRecord /\ run \in [Runner -> RunRecord]
  BY DEF IInv, TypeOK
<1>1. Cardinality(run[r].pending) * PerTask(most) \in Nat
  BY PendingCounts, PerTaskType, OneMore
<1>2. CASE ReadCompleted(r)
  <2>1. /\ run[r].pc = "completed" /\ run'[r].pc = "begin"
        /\ run'[r].pending = run[r].pending
    BY <1>0, <1>2 DEF ReadCompleted, At, RunRecord
  <2> QED
    BY <1>1, <2>1, LeftOutside
<1>3. CASE Begin(r)
  <2>1. /\ run[r].pc = "begin" /\ run'[r].pc = "loop"
        /\ run'[r].pending = run[r].pending
    BY <1>0, <1>3 DEF Begin, At, RunRecord
  <2> QED
    BY <1>1, <2>1, LeftOutside
<1>4. CASE NoProducer(r) \/ Blocked(r) \/ FinishGoal(r)
  <2>1. run[r].pc = "loop" /\ run'[r].pc \in {"escalate", "log"}
    <3>1. CASE NoProducer(r)
      <4>1. PICK t \in FirstOf(Batch(r)) :
              run' = [run EXCEPT ![r].pc = "escalate", ![r].task = t,
                                 ![r].why = "no producer"]
        BY <3>1 DEF NoProducer
      <4>2. run'[r].pc = "escalate"
        BY <1>0, <4>1 DEF RunRecord
      <4> QED
        BY <3>1, <4>2 DEF NoProducer, At
    <3>2. CASE Blocked(r)
      BY <1>0, <3>2 DEF Blocked, At, RunRecord
    <3>3. CASE FinishGoal(r)
      BY <1>0, <3>3 DEF FinishGoal, At, RunRecord
    <3> QED
      BY <1>4, <3>1, <3>2, <3>3
  <2> QED
    BY <1>1, <2>1, LeftOutside
<1>5. CASE LogCompletion(r) \/ FailGoal(r) \/ Escalate(r)
  <2>1. run[r].pc \in {"log", "fail", "escalate"} /\ run'[r].pc = "idle"
    BY <1>0, <1>5 DEF LogCompletion, FailGoal, Escalate, At, IdleRun
  <2> QED
    BY <2>1, LeftOutside
<1>6. CASE Reject(r)
  <2>1. run[r].pc = "reject" /\ run'[r].pc = "fail"
    BY <1>0, <1>6 DEF Reject, At, RunRecord
  <2> QED
    BY <2>1, LeftOutside
<1>7. CASE NoReviewer(r)
  <2>1. run[r].pc = "review" /\ run'[r].pc = "escalate"
    BY <1>0, <1>7 DEF NoReviewer, At, RunRecord
  <2>2. run[r].gate \in Nat /\ run[r].gate <= most
    <3>1. run[r].gate \in Nat /\ run[r].task \in DOMAIN plan
          /\ run[r].gate <= Len(plan[run[r].task].gates)
      BY <1>7, <2>1, ReviewFacts DEF NoReviewer, Gates, At
    <3>2. Len(plan[run[r].task].gates) \in Nat /\ Len(plan[run[r].task].gates) <= most
      BY <3>1, GateLengths DEF Within, CallBounded
    <3> QED
      BY <3>1, <3>2
  <2>3. VersionLeft(run[r], most) = most + 3 - run[r].gate
    BY <2>1 DEF VersionLeft
  <2>4. StepsLeft(run[r], most) >= VersionLeft(run[r], most) + 2
    BY <2>1, <2>2, <2>3, NearTheEnd DEF InTask
  <2>5. StepsLeft(run'[r], most) = 1
    BY <2>1, LeftOutside
  <2>6. \E k \in Nat : StepsLeft(run[r], most) = k
    BY <2>1, <2>2, <2>3, LeftCounts DEF InTask
  <2> QED
    BY <2>2, <2>3, <2>4, <2>5, <2>6
<1> QED
  BY <1>2, <1>3, <1>4, <1>5, <1>6, <1>7

LEMMA CallStarts ==
  ASSUME IInv, NEW most \in Nat, Within(most), NEW r \in Runner, Call(r)
  PROVE  StepsLeft(run'[r], most) <= PerCall(most)
<1>1. /\ run'[r].pc = "completed"
      /\ run'[r].pending = {t \in DOMAIN tasks : tasks[t].status # "canonical"}
      /\ DOMAIN tasks = DOMAIN plan
  BY DEF Call, IInv, TypeOK, RunRecord
<1>2. /\ Cardinality(run'[r].pending) \in Nat /\ Cardinality(DOMAIN plan) \in Nat
      /\ Cardinality(run'[r].pending) <= Cardinality(DOMAIN plan)
  BY <1>1, FS_Subset, FS_CardinalityType DEF Within, CallBounded
<1>3. /\ Cardinality(run'[r].pending) * PerTask(most) \in Nat
      /\ Cardinality(DOMAIN plan) * PerTask(most) \in Nat
      /\ Cardinality(run'[r].pending) * PerTask(most) <= Cardinality(DOMAIN plan) * PerTask(most)
  BY <1>2, AtMost, OneMore, PerTaskType
<1>4. StepsLeft(run'[r], most) = Cardinality(run'[r].pending) * PerTask(most) + 4
  BY <1>1, LeftOutside
<1> QED
  BY <1>3, <1>4 DEF PerCall

LEMMA ShrinkStep ==
  ASSUME IInv, NEW most \in Nat, Within(most), [Next]_vars, NEW r \in Runner
  PROVE  Shrinks(r, most)
<1>1. Step(r) => StepsLeft(run'[r], most) < StepsLeft(run[r], most)
  BY StartShrinks, ReviseShrinks, CanonizeShrinks, ReviewShrinks, PlainShrinks,
     OuterShrinks DEF Step
<1>2. Call(r) \/ Step(r) \/ run'[r] \in {run[r], IdleRun}
  <2>1. ASSUME NEW s \in Runner, Call(s) \/ Step(s) \/ Crash(s)
        PROVE  Call(r) \/ Step(r) \/ run'[r] \in {run[r], IdleRun}
    <3>1. CASE s # r
      BY <2>1, <3>1, OthersStand DEF IInv, TypeOK
    <3>2. CASE s = r
      BY <2>1, <3>2 DEF Crash, IInv, TypeOK
    <3> QED
      BY <3>1, <3>2
  <2>2. ASSUME run' = run
        PROVE  Call(r) \/ Step(r) \/ run'[r] \in {run[r], IdleRun}
    BY <2>2
  <2> QED
    BY <2>1, <2>2 DEF Next, Submit, Register, vars
<1> QED
  BY <1>1, <1>2, CallStarts DEF Shrinks

(***************************************************************************)
(* No loop of run() in orchestrator.py, over batches, tasks, versions or   *)
(* gates, goes on forever: each step of a call leaves it fewer, and for n  *)
(* tasks of at most m gates it starts with no more than                    *)
(* n * (max_revisions + 1) * (m + 6) + 4, whatever other callers and the   *)
(* registry do meanwhile.                                                  *)
(***************************************************************************)
THEOREM EveryStepCounts == Spec => CallsShrink
<1>1. IInv /\ CallBounded /\ [Next]_vars => [\A r \in Runner : Shrinks(r, MostGates)]_vars
  <2> SUFFICES ASSUME IInv, CallBounded, [Next]_vars, NEW r \in Runner
               PROVE  Shrinks(r, MostGates)
    OBVIOUS
  <2>1. PICK most \in Nat : most = MostGates /\ Within(most)
    BY MostGatesIsMost
  <2> QED
    BY <2>1, ShrinkStep
<1> QED
  BY <1>1, CallsAreBounded, Invariance, PTL DEF Spec, CallsShrink

(* With one task, what a call starts with, and that what is left of a call *)
(* is always a number.                                                     *)
LEMMA OneTaskCall ==
  ASSUME NEW t, DOMAIN plan = {t}, NEW most \in Nat
  PROVE  PerCall(most) = PerTask(most) + 4
<1>1. Cardinality(DOMAIN plan) = 1
  BY FS_Singleton
<1>2. 1 * PerTask(most) = PerTask(most)
  BY PerTaskType
<1> QED
  BY <1>1, <1>2 DEF PerCall

LEMMA LeftIsNumber ==
  ASSUME IInv, NEW most \in Nat, Within(most), NEW r \in Runner
  PROVE  StepsLeft(run[r], most) \in Nat
<1>1. CASE run[r].pc \in InTask \ {"reject"}
  <2>1. VersionLeft(run[r], most) \in Nat
    <3>1. CASE run[r].pc = "review"
      <4>1. run[r].gate \in Nat /\ run[r].task \in DOMAIN plan
            /\ run[r].gate <= Len(plan[run[r].task].gates) + 1
        BY <3>1, ReviewFacts DEF Within, CallBounded, Gates, At
      <4>2. Len(plan[run[r].task].gates) \in Nat /\ Len(plan[run[r].task].gates) <= most
        BY <4>1, GateLengths DEF Within, CallBounded
      <4>3. most + 3 - run[r].gate \in Nat
        BY <4>1, <4>2
      <4> QED
        BY <3>1, <4>3 DEF VersionLeft
    <3> QED
      BY <1>1, <3>1 DEF VersionLeft, InTask
  <2> QED
    BY <1>1, <2>1, LeftCounts
<1>2. CASE run[r].pc \notin InTask \ {"reject"}
  <2>1. Cardinality(run[r].pending) * PerTask(most) \in Nat
    BY PendingCounts, PerTaskType, OneMore
  <2>2. run[r].pc \in {"idle", "log", "escalate", "fail", "reject", "loop", "begin", "completed"}
    BY <1>2 DEF IInv, TypeOK, RunRecord, InTask
  <2> QED
    BY <2>1, <2>2, LeftOutside
<1> QED
  BY <1>1, <1>2

(* Among any tasks one comes first by priority and then by id.             *)
LEMMA FirstExists ==
  ASSUME IInv, NEW B, B \subseteq DOMAIN plan, B # {}
  PROVE  \E t \in B : FirstOf(B) = {t}
<1>1. /\ \A t \in B : plan[t].priority \in Nat
      /\ B \subseteq Nat
  BY DEF IInv, TypeOK, PlannedTask, TaskId
<1> DEFINE Ranks == {plan[t].priority : t \in B}
<1>2. PICK best \in Ranks : \A k \in Ranks : best <= k
  <2>1. Ranks \subseteq Nat /\ Ranks # {}
    BY <1>1
  <2> QED
    BY <2>1, LeastNumber
<1> DEFINE Front == {t \in B : plan[t].priority = best}
<1>3. PICK t \in Front : \A u \in Front : t <= u
  <2>1. Front \subseteq Nat /\ Front # {}
    BY <1>1, <1>2
  <2> QED
    BY <2>1, LeastNumber
<1>4. t \in FirstOf(B)
  BY <1>1, <1>2, <1>3 DEF FirstOf
<1>5. ASSUME NEW u \in FirstOf(B) PROVE u = t
  <2>1. u \in B /\ t \in B
    BY <1>3 DEF FirstOf
  <2>2. CASE u # t
    <3>1. /\ \/ plan[t].priority < plan[u].priority
             \/ plan[t].priority = plan[u].priority /\ t < u
          /\ \/ plan[u].priority < plan[t].priority
             \/ plan[u].priority = plan[t].priority /\ u < t
      BY <1>4, <2>1, <2>2 DEF FirstOf
    <3> QED
      BY <1>1, <2>1, <3>1
  <2> QED
    BY <2>2
<1> QED
  BY <1>3, <1>4, <1>5

(***************************************************************************)
(* run() in orchestrator.py never lacks a next task while tasks are ready, *)
(* and never has two: the key (priority, id) of its sort is total, whoever *)
(* else changes the tables.  With this a called run() always has a step.   *)
(***************************************************************************)
THEOREM OneTaskIsFirst == Spec => []OneTaskFirst
<1>1. IInv => OneTaskFirst
  <2> SUFFICES ASSUME IInv, NEW r \in Runner, Batch(r) # {}
               PROVE  \E t \in Batch(r) : FirstOf(Batch(r)) = {t}
    BY DEF OneTaskFirst
  <2>1. Batch(r) \subseteq DOMAIN plan
    BY DEF IInv, LocalsSound, Batch, Ready
  <2> QED
    BY <2>1, FirstExists
<1> QED
  BY <1>1, Invariance, PTL

(***************************************************************************)
(* A plan that submit() accepts can be worked off.                         *)
(***************************************************************************)
(* The passes of _validate_plan as a recursion that has a solution.        *)
PassesOf(p, N, f) ==
  f = [n \in 0..N |->
         IF n = 0 THEN {}
         ELSE f[n - 1] \union
              {p[i].id : i \in {j \in DOMAIN p : p[j].deps \subseteq f[n - 1]}}]

LEMMA PassesExist ==
  ASSUME NEW p, NEW N \in Nat
  PROVE  \E f : PassesOf(p, N, f)
<1> DEFINE More(S) == S \union {p[i].id : i \in {j \in DOMAIN p : p[j].deps \subseteq S}}
           Body(f, n) == IF n = 0 THEN {} ELSE More(f[n - 1])
           T == {m \in Nat : \E f : f = [n \in 0..m |-> Body(f, n)]}
<1> HIDE DEF More
<1>1. 0 \in T
  <2> DEFINE f == [n \in 0..0 |-> {}]
  <2>1. f = [n \in 0..0 |-> Body(f, n)]
    OBVIOUS
  <2> HIDE DEF f
  <2> QED
    BY <2>1
<1>2. ASSUME NEW m \in Nat, m \in T
      PROVE  m + 1 \in T
  <2>1. PICK f : f = [n \in 0..m |-> Body(f, n)]
    BY <1>2
  <2> DEFINE g == [n \in 0..(m + 1) |-> IF n = m + 1 THEN More(f[m]) ELSE f[n]]
  <2>2. ASSUME NEW n \in 0..(m + 1)
        PROVE  g[n] = Body(g, n)
    <3>1. CASE n = m + 1
      <4>1. g[n - 1] = f[m]
        BY <3>1
      <4> QED
        BY <3>1, <4>1
    <3>2. CASE n # m + 1
      <4>1. n \in 0..m /\ f[n] = Body(f, n) /\ g[n] = f[n]
        BY <2>1, <3>2
      <4>2. n # 0 => g[n - 1] = f[n - 1]
        BY <4>1
      <4> QED
        BY <4>1, <4>2
    <3> QED
      BY <3>1, <3>2
  <2>3. g = [n \in 0..(m + 1) |-> Body(g, n)]
    <3>1. g = [n \in 0..(m + 1) |-> g[n]]
      OBVIOUS
    <3> HIDE DEF g, Body
    <3> QED
      BY <2>2, <3>1
  <2> HIDE DEF g
  <2> QED
    BY <2>3
<1>3. N \in T
  <2> HIDE DEF T
  <2> QED
    BY <1>1, <1>2, SetInduction
<1> QED
  BY <1>3 DEF More, PassesOf

(* One pass of _validate_plan over what is resolved so far.                *)
OnePass(p, S) == S \union {p[i].id : i \in {j \in DOMAIN p : p[j].deps \subseteq S}}

(* What the passes of _validate_plan resolve, as steps from one to the     *)
(* next.                                                                   *)
LEMMA PassesGrow ==
  ASSUME NEW p, Len(p) \in Nat
  PROVE  \E pass : /\ pass[0] = {} /\ Resolved(p) = pass[Len(p)]
                   /\ \A n \in Nat : n < Len(p) => pass[n + 1] = OnePass(p, pass[n])
<1>a. \E f : f = [n \in 0..Len(p) |->
           IF n = 0 THEN {}
           ELSE f[n - 1] \union
                {p[i].id : i \in {j \in DOMAIN p : p[j].deps \subseteq f[n - 1]}}]
  <2>1. \E f : PassesOf(p, Len(p), f)
    BY PassesExist
  <2> QED
    BY <2>1 DEF PassesOf
<1> DEFINE pass[n \in 0..Len(p)] ==
             IF n = 0 THEN {}
             ELSE pass[n - 1] \union
                  {p[i].id : i \in {j \in DOMAIN p : p[j].deps \subseteq pass[n - 1]}}
<1>1. Resolved(p) = pass[Len(p)]
  BY DEF Resolved
<1>2. pass = [n \in 0..Len(p) |->
           IF n = 0 THEN {}
           ELSE pass[n - 1] \union
                {p[i].id : i \in {j \in DOMAIN p : p[j].deps \subseteq pass[n - 1]}}]
  BY <1>a
<1> HIDE DEF pass
<1>3. pass[0] = {}
  BY <1>2
<1>4. ASSUME NEW n \in Nat, n < Len(p)
      PROVE  pass[n + 1] = OnePass(p, pass[n])
  <2>1. n + 1 \in 0..Len(p) /\ n + 1 # 0 /\ (n + 1) - 1 = n
    BY <1>4
  <2> QED
    BY <1>2, <2>1 DEF OnePass
<1> QED
  BY <1>1, <1>3, <1>4

(* Of any tasks of an accepted plan, one needs none of the others: the     *)
(* passes of _validate_plan would otherwise never resolve them.            *)
LEMMA ValidPlanOrders ==
  ASSUME NEW p, Len(p) \in Nat, ValidPlan(p),
         NEW U \in SUBSET PlanIds(p), U # {}
  PROVE  \E i \in DOMAIN p : p[i].id \in U /\ p[i].deps \intersect U = {}
<1> SUFFICES ASSUME \A i \in DOMAIN p : p[i].id \in U => p[i].deps \intersect U # {}
             PROVE  FALSE
  OBVIOUS
<1>1. PICK pass : /\ pass[0] = {} /\ Resolved(p) = pass[Len(p)]
                  /\ \A n \in Nat : n < Len(p) => pass[n + 1] = OnePass(p, pass[n])
  BY PassesGrow
<1> DEFINE T == {n \in Nat : n <= Len(p) => pass[n] \intersect U = {}}
<1>3. 0 \in T
  BY <1>1
<1>4. ASSUME NEW n \in Nat, n \in T
      PROVE  n + 1 \in T
  <2> SUFFICES ASSUME n + 1 <= Len(p)
               PROVE  pass[n + 1] \intersect U = {}
    OBVIOUS
  <2>1. pass[n + 1] = OnePass(p, pass[n]) /\ pass[n] \intersect U = {}
    BY <1>1, <1>4
  <2> QED
    BY <2>1 DEF OnePass
<1>5. pass[Len(p)] \intersect U = {}
  <2>1. Nat \subseteq T
    <3> HIDE DEF T
    <3> QED
      BY <1>3, <1>4, SetInduction
  <2> QED
    BY <2>1
<1>6. pass[Len(p)] = PlanIds(p)
  BY <1>1 DEF ValidPlan
<1> QED
  BY <1>5, <1>6

(* Conversely, passes over tasks that can be ordered resolve one at least  *)
(* each, and so all of them.                                               *)
LEMMA OrderedIsResolved ==
  ASSUME NEW p \in Plans
  PROVE  (/\ \A i \in DOMAIN p : p[i].deps \subseteq PlanIds(p)
          /\ \A U \in SUBSET PlanIds(p) : U # {} =>
               \E i \in DOMAIN p : p[i].id \in U /\ p[i].deps \intersect U = {})
            => Resolved(p) = PlanIds(p)
<1>p. Len(p) \in Nat
  BY PlansAssumption, LenProperties
<1>1. PICK pass : /\ pass[0] = {} /\ Resolved(p) = pass[Len(p)]
                  /\ \A n \in Nat : n < Len(p) => pass[n + 1] = OnePass(p, pass[n])
  BY <1>p, PassesGrow
<1> SUFFICES ASSUME \A i \in DOMAIN p : p[i].deps \subseteq PlanIds(p),
                    \A U \in SUBSET PlanIds(p) : U # {} =>
                      \E i \in DOMAIN p : p[i].id \in U /\ p[i].deps \intersect U = {}
             PROVE  Resolved(p) = PlanIds(p)
  OBVIOUS
<1> DEFINE ids == PlanIds(p)
<1>0. /\ Len(p) \in Nat /\ IsFiniteSet(ids) /\ Cardinality(ids) \in Nat
      /\ Cardinality(ids) <= Len(p)
      /\ \A i \in DOMAIN p : p[i].id \in ids
  <2>1. Len(p) \in Nat /\ DOMAIN p = 1..Len(p)
    BY PlansAssumption, LenProperties
  <2>2. IsFiniteSet(DOMAIN p) /\ Cardinality(DOMAIN p) = Len(p)
    BY <2>1, FS_Interval
  <2> DEFINE f == [i \in DOMAIN p |-> p[i].id]
  <2>3. f \in Surjection(DOMAIN p, ids)
    BY DEF Surjection, PlanIds
  <2>4. IsFiniteSet(ids) /\ Cardinality(ids) <= Cardinality(DOMAIN p)
    BY <2>2, <2>3, FS_Surjection
  <2>5. \A i \in DOMAIN p : p[i].id \in ids
    BY DEF PlanIds
  <2> QED
    BY <2>1, <2>2, <2>4, <2>5, FS_CardinalityType
<1> HIDE DEF ids
<1> DEFINE Far(n) == pass[n] \subseteq ids /\ (pass[n] = ids \/ Cardinality(pass[n]) >= n)
           T == {n \in Nat : n <= Len(p) => Far(n)}
<1>2. 0 \in T
  <2>1. pass[0] \subseteq ids /\ Cardinality(pass[0]) = 0
    BY <1>1, FS_EmptySet
  <2> QED
    BY <2>1
<1>3. ASSUME NEW n \in Nat, n \in T
      PROVE  n + 1 \in T
  <2> SUFFICES ASSUME n + 1 <= Len(p)
               PROVE  Far(n + 1)
    OBVIOUS
  <2>1. Far(n) /\ n < Len(p)
    BY <1>0, <1>3
  <2>2. pass[n + 1] = pass[n] \union
          {p[i].id : i \in {j \in DOMAIN p : p[j].deps \subseteq pass[n]}}
    BY <1>1, <2>1 DEF OnePass
  <2>3. pass[n] \subseteq pass[n + 1] /\ pass[n + 1] \subseteq ids
    BY <1>0, <2>1, <2>2
  <2>4. CASE pass[n] = ids
    BY <2>3, <2>4
  <2>5. CASE pass[n] # ids
    <3>1. PICK i \in DOMAIN p : p[i].id \in ids \ pass[n] /\ p[i].deps \intersect (ids \ pass[n]) = {}
      BY <2>1, <2>5 DEF ids
    <3>2. p[i].deps \subseteq pass[n]
      BY <3>1 DEF ids
    <3>3. p[i].id \in pass[n + 1] /\ p[i].id \notin pass[n]
      BY <2>2, <3>1, <3>2
    <3>4. IsFiniteSet(pass[n]) /\ IsFiniteSet(pass[n + 1])
      BY <1>0, <2>1, <2>3, FS_Subset
    <3>5. /\ Cardinality(pass[n]) <= Cardinality(pass[n + 1])
          /\ Cardinality(pass[n]) # Cardinality(pass[n + 1])
      BY <2>3, <3>3, <3>4, FS_Subset
    <3>6. Cardinality(pass[n]) >= n /\ Cardinality(pass[n]) \in Nat
          /\ Cardinality(pass[n + 1]) \in Nat
      BY <2>1, <2>5, <3>4, FS_CardinalityType
    <3> QED
      BY <2>3, <3>5, <3>6
  <2> QED
    BY <2>4, <2>5
<1>4. Far(Len(p))
  <2>1. Nat \subseteq T
    <3> HIDE DEF T
    <3> QED
      BY <1>2, <1>3, SetInduction
  <2> QED
    BY <1>0, <2>1
<1>5. CASE pass[Len(p)] # ids
  <2>1. Cardinality(pass[Len(p)]) >= Len(p) /\ pass[Len(p)] \subseteq ids
    BY <1>4, <1>5
  <2>2. /\ IsFiniteSet(pass[Len(p)]) /\ Cardinality(pass[Len(p)]) <= Cardinality(ids)
        /\ Cardinality(ids) = Cardinality(pass[Len(p)]) => ids = pass[Len(p)]
        /\ Cardinality(pass[Len(p)]) \in Nat
    BY <1>0, <2>1, FS_Subset, FS_CardinalityType
  <2> QED
    BY <1>0, <1>5, <2>1, <2>2
<1> QED
  BY <1>1, <1>5 DEF ids

(***************************************************************************)
(* _validate_plan in orchestrator.py is exact: it lets a plan through if   *)
(* and only if no id occurs twice, every dependency is a task of the plan, *)
(* and among any of its tasks one needs none of the others, which is to    *)
(* say that no tasks wait for each other in a circle.                      *)
(***************************************************************************)
THEOREM ValidationIsExact ==
  ASSUME NEW p \in Plans
  PROVE  ValidPlan(p) <=>
           /\ \A i, j \in DOMAIN p : i # j => p[i].id # p[j].id
           /\ \A i \in DOMAIN p : p[i].deps \subseteq PlanIds(p)
           /\ \A U \in SUBSET PlanIds(p) : U # {} =>
                \E i \in DOMAIN p : p[i].id \in U /\ p[i].deps \intersect U = {}
<1>1. Len(p) \in Nat
  BY PlansAssumption, LenProperties
<1> QED
  BY <1>1, ValidPlanOrders, OrderedIsResolved DEF ValidPlan

LEMMA SubmitOrderable ==
  ASSUME NEW p \in Plans, Submit(p)
  PROVE  Orderable'
<1>1. p \in Seq(PlannedTask) /\ Len(p) \in Nat /\ ValidPlan(p)
  BY PlansAssumption, LenProperties DEF Submit
<1>2. /\ DOMAIN plan' = PlanIds(p)
      /\ \A i \in DOMAIN p : p[i].id \in PlanIds(p) /\ plan'[p[i].id] = p[i]
  <2>1. plan' = [t \in PlanIds(p) |-> p[CHOOSE i \in DOMAIN p : p[i].id = t]]
    BY DEF Submit
  <2>2. ASSUME NEW i \in DOMAIN p
        PROVE  p[i].id \in PlanIds(p) /\ plan'[p[i].id] = p[i]
    <3>1. p[i].id \in PlanIds(p)
      BY DEF PlanIds
    <3>2. (CHOOSE j \in DOMAIN p : p[j].id = p[i].id) = i
      <4>1. \A j \in DOMAIN p : p[j].id = p[i].id => j = i
        BY <1>1 DEF ValidPlan
      <4> QED
        BY <4>1
    <3> QED
      BY <2>1, <3>1, <3>2
  <2> QED
    BY <2>1, <2>2
<1>3. ASSUME NEW t \in PlanIds(p)
      PROVE  plan'[t].deps \subseteq PlanIds(p)
  <2>1. PICK i \in DOMAIN p : p[i].id = t
    BY DEF PlanIds
  <2> QED
    BY <1>1, <1>2, <2>1 DEF ValidPlan
<1>4. ASSUME NEW U \in SUBSET PlanIds(p), U # {}
      PROVE  \E t \in U : plan'[t].deps \intersect U = {}
  <2>1. PICK i \in DOMAIN p : p[i].id \in U /\ p[i].deps \intersect U = {}
    BY <1>1, <1>4, ValidPlanOrders
  <2> QED
    BY <1>2, <2>1
<1> QED
  BY <1>2, <1>3, <1>4 DEF Orderable

(***************************************************************************)
(* A goal that one process works on.                                       *)
(***************************************************************************)
LEMMA InHand ==
  ASSUME IInv, NEW r \in Runner, LocalsExact(run[r]), run[r].pc \in InTask
  PROVE  /\ DOMAIN tasks = DOMAIN plan /\ run[r].task \in DOMAIN tasks
         /\ tasks[run[r].task].status # "canonical"
         /\ run[r].task \in run[r].pending
         /\ run[r].version \in 1..(MaxRevisions + 1)
         /\ goal = "running"
<1>1. /\ run[r].task \in run[r].batch /\ run[r].batch \subseteq run[r].pending
      /\ run[r].version >= 1
  BY DEF IInv, LocalsSound
<1>2. run[r].pending = {t \in DOMAIN tasks : tasks[t].status # "canonical"}
  BY DEF LocalsExact, InTask
<1>3. goal = "running" /\ DOMAIN tasks = DOMAIN plan
  BY DEF LocalsExact, IInv, TypeOK
<1>4. run[r].version \in 0..(MaxRevisions + 1)
  BY DEF IInv, TypeOK, RunRecord
<1> QED
  BY <1>1, <1>2, <1>3, <1>4, BoundsAssumption

LEMMA SetTaskWrites ==
  ASSUME NEW r \in Runner, NEW status, SetTask(r, status), run[r].task \in DOMAIN tasks
  PROVE  /\ DOMAIN tasks' = DOMAIN tasks
         /\ tasks'[run[r].task].status = status
         /\ tasks'[run[r].task].attempts = run[r].version
         /\ \A t \in DOMAIN tasks \ {run[r].task} : tasks'[t] = tasks[t]
BY DEF SetTask

(* The only status of a task that changes from or to canonical is that of  *)
(* the task in hand of a run() that has promoted its artifact.             *)
LEMMA TasksKept ==
  ASSUME IInv, NEW r \in Runner, LocalsExact(run[r]),
         Call(r) \/ Step(r) \/ Crash(r)
  PROVE  /\ DOMAIN tasks' = DOMAIN tasks
         /\ \A t \in DOMAIN tasks :
              (tasks'[t].status = "canonical") <=>
                 (tasks[t].status = "canonical" \/ (Canonize(r) /\ t = run[r].task))
<1>1. CASE Attempt(r) \/ SubmitForReview(r) \/ Revise(r) \/ Reject(r)
  <2>1. /\ run[r].pc \in InTask /\ ~Canonize(r)
        /\ \E status \in RunStatus \ {"canonical"} : SetTask(r, status)
    BY <1>1 DEF Attempt, SubmitForReview, Revise, Reject, Canonize, At, InTask, RunStatus
  <2> QED
    BY <2>1, InHand, SetTaskWrites
<1>2. CASE Canonize(r)
  <2>1. run[r].pc \in InTask /\ SetTask(r, "canonical")
    BY <1>2 DEF Canonize, At, InTask
  <2> QED
    BY <1>2, <2>1, InHand, SetTaskWrites
<1>3. CASE ~Attempt(r) /\ ~SubmitForReview(r) /\ ~Revise(r) /\ ~Reject(r) /\ ~Canonize(r)
  <2>1. tasks' = tasks
    BY <1>3 DEF Step, Call, Crash, ReadCompleted, Begin, StartTask, NoProducer, Blocked,
       FinishGoal, LogCompletion, Produce, Review, NoReviewer, FailGoal, Promote,
       Escalate, database
  <2> QED
    BY <1>3, <2>1
<1> QED
  BY <1>1, <1>2, <1>3

(* submit() refused the plans that a run() could be blocked on.            *)
LEMMA NeverBlocked ==
  ASSUME IInv, Orderable, NEW r \in Runner, LocalsExact(run[r]), Blocked(r)
  PROVE  FALSE
<1>1. /\ run[r].pc = "loop" /\ run[r].pending # {} /\ Batch(r) = {}
  BY DEF Blocked, At
<1>2. /\ run[r].pending \subseteq DOMAIN plan /\ DOMAIN tasks = DOMAIN plan
  BY DEF IInv, LocalsSound, TypeOK
<1>3. /\ run[r].pending = {t \in DOMAIN tasks : tasks[t].status # "canonical"}
      /\ run[r].completed = {t \in DOMAIN tasks : tasks[t].status = "canonical"}
  BY <1>1 DEF LocalsExact
<1>4. PICK t \in run[r].pending : plan[t].deps \intersect run[r].pending = {}
  BY <1>1, <1>2 DEF Orderable
<1>5. plan[t].deps \subseteq DOMAIN plan
  BY <1>2 DEF Orderable
<1>6. plan[t].deps \subseteq run[r].completed
  BY <1>2, <1>3, <1>4, <1>5
<1>7. Ready(r) # {}
  BY <1>6 DEF Ready
<1> QED
  BY <1>1, <1>7 DEF Batch

LEMMA OutcomeStep ==
  ASSUME IInv, OutcomeBacked, NEW r \in Runner, LocalsExact(run[r]),
         Call(r) \/ Step(r) \/ Crash(r)
  PROVE  OutcomeBacked'
<1>1. CASE FinishGoal(r)
  <2>1. \A t \in DOMAIN tasks : tasks[t].status = "canonical"
    BY <1>1 DEF FinishGoal, At, LocalsExact
  <2>2. goal' = "canonical" /\ tasks' = tasks
    BY <1>1 DEF FinishGoal, database
  <2> QED
    BY <2>1, <2>2 DEF OutcomeBacked
<1>2. CASE FailGoal(r)
  <2>1. FailureBacked /\ goal' = "failed"
    BY <1>2 DEF FailGoal, At, LocalsExact
  <2>2. UNCHANGED <<tasks, reviews, artifacts>>
    BY <1>2 DEF FailGoal, database
  <2>3. FailureBacked'
    BY <2>1, <2>2 DEF FailureBacked, HasVerdict, ArtifactsOf
  <2> QED
    BY <2>1, <2>3 DEF OutcomeBacked
<1>3. CASE Escalate(r)
  <2>1. EscalationBacked(run[r].task, run[r].why) /\ goal' = "escalated"
    BY <1>3 DEF Escalate, At, LocalsExact
  <2>2. UNCHANGED <<tasks, reviews, artifacts>>
    BY <1>3 DEF Escalate
  <2>3. LastEscalation' = [task |-> run[r].task, why |-> run[r].why]
    <3>1. escalations' = Append(escalations, [task |-> run[r].task, why |-> run[r].why])
      BY <1>3 DEF Escalate
    <3>2. escalations \in Seq([task: TaskId \union {NoTask}, why: Reason])
          /\ run[r].task \in TaskId \union {NoTask} /\ run[r].why \in Reason
      BY DEF IInv, TypeOK, RunRecord
    <3> QED
      BY <3>1, <3>2 DEF LastEscalation
  <2>4. LastEscalation'.task = run[r].task /\ LastEscalation'.why = run[r].why
    BY <2>3
  <2>5. (/\ LastEscalation.why # "blocked" /\ LastEscalation.task \in DOMAIN tasks
         /\ LastEscalation.why = "revisions exhausted" =>
              tasks[LastEscalation.task].attempts = MaxRevisions + 1
         /\ LastEscalation.why = "reviewer" => HasVerdict(LastEscalation.task, "escalate"))'
    BY <2>1, <2>2, <2>4 DEF EscalationBacked, HasVerdict, ArtifactsOf
  <2> QED
    BY <2>1, <2>5 DEF OutcomeBacked, EscalationBacked
<1>4. CASE UNCHANGED <<goal, tasks, artifacts, reviews, escalations>>
  BY <1>4 DEF OutcomeBacked, FailureBacked, EscalationBacked, LastEscalation,
     HasVerdict, ArtifactsOf
<1>5. CASE goal' = "running"
  BY <1>5 DEF OutcomeBacked
<1>6. CASE run[r].pc \in InTask /\ goal' = goal
  BY <1>5, <1>6 DEF LocalsExact
<1> QED
  BY <1>1, <1>2, <1>3, <1>4, <1>5, <1>6
     DEF Step, Call, Crash, ReadCompleted, Begin, StartTask, NoProducer, Blocked,
         LogCompletion, Attempt, Produce, SubmitForReview, Review, NoReviewer,
         Revise, Reject, Promote, Canonize, At, InTask, database

LEMMA ExactStep ==
  ASSUME IInv, Orderable, NEW r \in Runner, LocalsExact(run[r]),
         Call(r) \/ Step(r) \/ Crash(r)
  PROVE  LocalsExact(run[r])'
<1> DEFINE Open == {t \in DOMAIN tasks : tasks[t].status # "canonical"}
           Done == {t \in DOMAIN tasks : tasks[t].status = "canonical"}
<1>0. /\ run[r] \in RunRecord /\ run \in [Runner -> RunRecord] /\ DOMAIN run = Runner
      /\ DOMAIN tasks = DOMAIN plan /\ DOMAIN tasks' = DOMAIN tasks
  BY TasksKept DEF IInv, TypeOK
<1>1. CASE LogCompletion(r) \/ FailGoal(r) \/ Escalate(r) \/ Crash(r)
  <2>1. run'[r] = IdleRun
    BY <1>0, <1>1 DEF LogCompletion, FailGoal, Escalate, Crash
  <2> QED
    BY <2>1 DEF IdleRun, LocalsExact, InTask
<1>2. CASE Call(r)
  <2>1. run'[r].pc = "completed" /\ run'[r].pending = Open /\ tasks' = tasks
    BY <1>0, <1>2 DEF Call, database, RunRecord
  <2> QED
    BY <2>1 DEF LocalsExact, InTask
<1>3. CASE ReadCompleted(r)
  <2>1. /\ run'[r].pc = "begin" /\ run'[r].completed = Done /\ tasks' = tasks
        /\ run'[r].pending = run[r].pending /\ run[r].pc = "completed"
    BY <1>0, <1>3 DEF ReadCompleted, database, RunRecord, At
  <2> QED
    BY <2>1 DEF LocalsExact, InTask
<1>4. CASE Begin(r)
  <2>1. /\ run'[r].pc = "loop" /\ run'[r].completed = run[r].completed /\ tasks' = tasks
        /\ run'[r].pending = run[r].pending /\ run[r].pc = "begin" /\ goal' = "running"
    BY <1>0, <1>4 DEF Begin, database, RunRecord, At
  <2> QED
    BY <2>1 DEF LocalsExact, InTask
<1>5. CASE StartTask(r)
  <2>1. PICK u \in FirstOf(Batch(r)), a \in AgentId :
           /\ run' = [run EXCEPT ![r] = [run[r] EXCEPT
                        !.pc = "attempt", !.batch = Batch(r), !.task = u,
                        !.producer = a, !.version = 1]]
           /\ run[r].pc = "loop" /\ run[r] \in RunRecord
    BY <1>5, StartTaskLocals
  <2>2. /\ run'[r].pc = "attempt" /\ run'[r].completed = run[r].completed
        /\ run'[r].pending = run[r].pending
    BY <1>0, <2>1 DEF RunRecord
  <2>3. tasks' = tasks /\ goal' = goal
    BY <1>5 DEF StartTask, database
  <2> QED
    BY <2>1, <2>2, <2>3 DEF LocalsExact, InTask
<1>6. CASE NoProducer(r)
  <2>1. PICK u \in FirstOf(Batch(r)) :
          run' = [run EXCEPT ![r].pc = "escalate", ![r].task = u,
                             ![r].why = "no producer"]
    BY <1>6 DEF NoProducer
  <2>2. /\ run'[r].pc = "escalate" /\ run'[r].completed = run[r].completed
        /\ run'[r].pending = run[r].pending /\ run'[r].task = u
        /\ run'[r].why = "no producer" /\ run[r].pc = "loop"
    BY <1>0, <1>6, <2>1 DEF RunRecord, NoProducer, At
  <2>3. UNCHANGED <<tasks, goal>>
    BY <1>6 DEF NoProducer, database
  <2>4. u \in DOMAIN tasks
    <3>1. u \in Batch(r)
      BY DEF FirstOf
    <3>2. run[r].batch \subseteq run[r].pending /\ run[r].pending \subseteq DOMAIN plan
      BY DEF IInv, LocalsSound
    <3> QED
      BY <1>0, <3>1, <3>2 DEF Batch, Ready
  <2> QED
    BY <2>2, <2>3, <2>4 DEF LocalsExact, InTask, EscalationBacked
<1>7. CASE Blocked(r)
  BY <1>7, NeverBlocked
<1>8. CASE FinishGoal(r)
  <2>1. /\ run'[r].pc = "log" /\ run'[r].completed = run[r].completed /\ tasks' = tasks
        /\ run'[r].pending = run[r].pending /\ run[r].pc = "loop" /\ goal' = "canonical"
    BY <1>0, <1>8 DEF FinishGoal, database, RunRecord, At
  <2> QED
    BY <2>1 DEF LocalsExact, InTask
<1>9. CASE Canonize(r)
  <2>1. /\ run'[r].pc = "loop" /\ run'[r].pending = run[r].pending \ {run[r].task}
        /\ run'[r].completed = run[r].completed \union {run[r].task}
        /\ run[r].pc = "canonize" /\ goal' = goal
    BY <1>0, <1>9 DEF Canonize, At
  <2>2. /\ run[r].pending = Open /\ run[r].completed = Done /\ goal = "running"
        /\ run[r].task \in DOMAIN tasks
    BY <2>1, InHand DEF LocalsExact, InTask
  <2>3. \A t \in DOMAIN tasks : (tasks'[t].status = "canonical") <=>
          (tasks[t].status = "canonical" \/ t = run[r].task)
    BY <1>9, TasksKept
  <2> QED
    BY <1>0, <2>1, <2>2, <2>3 DEF LocalsExact, InTask
<1>10. ASSUME run[r].pc \in InTask, ~Canonize(r),
              run'[r].pending = run[r].pending, run'[r].completed = run[r].completed,
              run'[r].pc \in (InTask \union {"escalate", "fail"}),
              goal' = goal,
              run'[r].pc = "reject" => HasVerdict(run[r].task, "reject")',
              run'[r].task = run[r].task,
              run'[r].pc = "fail" => FailureBacked',
              run'[r].pc = "escalate" => EscalationBacked(run[r].task, run[r].why)'
       PROVE  LocalsExact(run[r])'
  <2>1. /\ run[r].pending = Open /\ run[r].completed = Done /\ goal = "running"
    BY <1>10 DEF LocalsExact, InTask
  <2>2. /\ run'[r].pending = {t \in DOMAIN tasks' : tasks'[t].status # "canonical"}
        /\ run'[r].completed = {t \in DOMAIN tasks' : tasks'[t].status = "canonical"}
    BY <1>0, <1>10, <2>1, TasksKept
  <2>3. (/\ run[r].pc \in InTask \union {"loop", "escalate", "fail"} => goal = "running"
         /\ run[r].pc = "log" => goal = "canonical")'
    BY <1>10, <2>1 DEF InTask
  <2>4. (/\ run[r].pc = "reject" => HasVerdict(run[r].task, "reject")
         /\ run[r].pc = "fail" => FailureBacked
         /\ run[r].pc = "escalate" => EscalationBacked(run[r].task, run[r].why))'
    BY <1>10
  <2> QED
    BY <2>2, <2>3, <2>4 DEF LocalsExact
<1>11. CASE Attempt(r) \/ Produce(r) \/ SubmitForReview(r) \/ Promote(r)
  <2>1. /\ run[r].pc \in InTask /\ ~Canonize(r)
        /\ run'[r].pending = run[r].pending /\ run'[r].completed = run[r].completed
        /\ run'[r].pc \in {"produce", "submit", "review", "canonize"}
        /\ goal' = goal /\ run'[r].task = run[r].task
    BY <1>0, <1>11 DEF Attempt, Produce, SubmitForReview, Promote, At, InTask,
       RunRecord, Canonize
  <2> QED
    BY <1>10, <2>1 DEF InTask
<1>12. CASE NoReviewer(r)
  <2>1. /\ run[r].pc \in InTask /\ ~Canonize(r)
        /\ run'[r].pending = run[r].pending /\ run'[r].completed = run[r].completed
        /\ run'[r].pc = "escalate" /\ run'[r].why = "no reviewer"
        /\ goal' = goal /\ run'[r].task = run[r].task
    BY <1>0, <1>12 DEF NoReviewer, At, InTask, RunRecord, Canonize
  <2>2. EscalationBacked(run[r].task, run[r].why)'
    BY <1>0, <2>1, InHand DEF EscalationBacked, HasVerdict
  <2> QED
    BY <1>10, <2>1, <2>2 DEF InTask
<1>13. CASE Revise(r)
  <2>1. /\ run[r].pc \in InTask /\ ~Canonize(r)
        /\ run'[r].pending = run[r].pending /\ run'[r].completed = run[r].completed
        /\ goal' = goal /\ run'[r].task = run[r].task
        /\ \/ run'[r].pc = "attempt"
           \/ /\ run'[r].pc = "escalate" /\ run'[r].why = "revisions exhausted"
              /\ ~(run[r].version <= MaxRevisions)
        /\ SetTask(r, "revision_required")
    BY <1>0, <1>13 DEF Revise, AfterRevise, At, InTask, RunRecord, Canonize
  <2>2. run'[r].pc = "escalate" => EscalationBacked(run[r].task, run[r].why)'
    <3> SUFFICES ASSUME run'[r].pc = "escalate"
                 PROVE  EscalationBacked(run[r].task, run[r].why)'
      OBVIOUS
    <3>1. run'[r].why = "revisions exhausted" /\ ~(run[r].version <= MaxRevisions)
      BY <2>1
    <3>2. run[r].version = MaxRevisions + 1
      <4>1. run[r].version \in 1..(MaxRevisions + 1)
        BY <2>1, InHand
      <4>2. MaxRevisions \in Nat
        BY BoundsAssumption
      <4>3. ~(run[r].version <= MaxRevisions)
        BY <3>1
      <4> QED
        BY <4>1, <4>2, <4>3
    <3>3. tasks'[run[r].task].attempts = MaxRevisions + 1 /\ run[r].task \in DOMAIN tasks
      BY <2>1, <3>2, InHand, SetTaskWrites
    <3> QED
      BY <1>0, <2>1, <3>1, <3>3 DEF EscalationBacked
  <2> QED
    BY <1>10, <2>1, <2>2 DEF InTask
<1>14. CASE Reject(r)
  <2>1. /\ run[r].pc = "reject" /\ run[r].pc \in InTask /\ ~Canonize(r)
        /\ run'[r].pending = run[r].pending /\ run'[r].completed = run[r].completed
        /\ goal' = goal /\ run'[r].task = run[r].task /\ run'[r].pc = "fail"
        /\ SetTask(r, "failed") /\ UNCHANGED <<reviews, artifacts>>
    BY <1>0, <1>14 DEF Reject, At, InTask, RunRecord, Canonize
  <2>2. HasVerdict(run[r].task, "reject")
    BY <2>1 DEF LocalsExact
  <2>3. \E t \in DOMAIN tasks' : tasks'[t].status = "failed"
          /\ \E rv \in reviews : rv.verdict = "reject" /\ rv.artifact \in ArtifactsOf(t)
    BY <1>0, <2>1, <2>2, InHand, SetTaskWrites DEF HasVerdict
  <2>4. FailureBacked'
    BY <2>1, <2>3 DEF FailureBacked, HasVerdict, ArtifactsOf
  <2> QED
    BY <1>10, <2>1, <2>4 DEF InTask
<1>15. ASSUME NEW verdict \in Verdict, Review(r, verdict)
       PROVE  LocalsExact(run[r])'
  <2>1. /\ run[r].pc = "review" /\ run[r].pc \in InTask /\ ~Canonize(r)
        /\ run'[r] = AfterVerdict(r, verdict)
        /\ goal' = goal /\ artifacts' = artifacts /\ tasks' = tasks
        /\ crashes' = crashes
    BY <1>0, <1>15 DEF Review, At, InTask, Canonize, counters
  <2>3. /\ run'[r].pending = run[r].pending /\ run'[r].completed = run[r].completed
        /\ run'[r].task = run[r].task
        /\ run'[r].pc \in {"review", "escalate", "reject", "revise"}
        /\ run'[r].pc = "reject" => verdict = "reject"
        /\ run'[r].pc = "escalate" => verdict = "escalate" /\ run'[r].why = "reviewer"
    BY <1>0, <2>1 DEF AfterVerdict, Verdict, RunRecord
  <2>4. HasVerdict(run[r].task, verdict)'
    <3>1. PICK a \in Reviewers(r) :
            reviews' = reviews \union
              {[artifact |-> run[r].draft, gate |-> Gates(r)[run[r].gate],
                reviewer |-> a, verdict |-> verdict]}
      BY <1>15 DEF Review
    <3>2. run[r].draft \in ArtifactsOf(run[r].task)
      BY <2>1 DEF ArtifactsOf, IInv, DraftSound, WithDraft
    <3> DEFINE rw == [artifact |-> run[r].draft, gate |-> Gates(r)[run[r].gate],
                      reviewer |-> a, verdict |-> verdict]
    <3>3. rw \in reviews' /\ rw.verdict = verdict /\ rw.artifact = run[r].draft
      BY <3>1
    <3>4. \E rv \in reviews' : rv.verdict = verdict /\ rv.artifact \in ArtifactsOf(run[r].task)
      <4> HIDE DEF rw
      <4> QED
        BY <3>2, <3>3
    <3> QED
      BY <2>1, <2>3, <3>4 DEF HasVerdict, ArtifactsOf
  <2>5. run'[r].pc = "escalate" => EscalationBacked(run[r].task, run[r].why)'
    BY <1>0, <2>1, <2>3, <2>4, InHand DEF EscalationBacked
  <2> QED
    BY <1>10, <2>1, <2>3, <2>4, <2>5 DEF InTask
<1> QED
  BY <1>1, <1>2, <1>3, <1>4, <1>5, <1>6, <1>7, <1>8, <1>9, <1>11, <1>12, <1>13,
     <1>14, <1>15 DEF Step

(* A promotion is the first of its task, unless a crash lost one before.   *)
LEMMA CopiesStep ==
  ASSUME IInv, Solo, NEW r \in Runner, LocalsExact(run[r]),
         Call(r) \/ Step(r) \/ Crash(r),
         NEW t \in DOMAIN plan, CopiesExplained(t)
  PROVE  CopiesExplained(t)'
<1>0. /\ run \in [Runner -> RunRecord] /\ \A s \in Runner : s = r
      /\ artifacts \in Seq(Artifact) /\ crashes \in Nat
      /\ Cardinality(Copies(t)) \in Nat /\ t \in DOMAIN tasks
  BY WorkFinite DEF IInv, TypeOK, Solo
<1>1. Cardinality(Copies(t))' =
        Cardinality(Copies(t)) + IF Promote(r) /\ run[r].task = t THEN 1 ELSE 0
  BY WorkAdds
<1>2. CASE Promote(r) /\ run[r].task = t
  <2>1. /\ run[r].pc = "review" /\ run[r].pc \in InTask /\ crashes' = crashes
        /\ run'[r].pc = "canonize" /\ run'[r].task = t
    BY <1>0, <1>2 DEF Promote, At, InTask, counters, RunRecord
  <2>2. ~Concluded(t)
    BY <1>0, <1>2, <2>1, InHand DEF Concluded, At
  <2>3. Concluded(t)'
    BY <2>1 DEF Concluded, At
  <2>4. Cardinality(Copies(t)) <= crashes
    BY <1>0, <2>2 DEF CopiesExplained
  <2> QED
    BY <1>0, <1>1, <1>2, <2>1, <2>3, <2>4 DEF CopiesExplained
<1>3. CASE Crash(r)
  <2>1. crashes' = crashes + 1 /\ ~Promote(r)
    BY <1>0, <1>3 DEF Crash, Promote, counters
  <2>2. Cardinality(Copies(t)) <= crashes + 1
    BY <1>0 DEF CopiesExplained
  <2> QED
    BY <1>0, <1>1, <2>1, <2>2 DEF CopiesExplained
<1>4. CASE ~Crash(r) /\ ~(Promote(r) /\ run[r].task = t)
  <2>1. crashes' = crashes
    BY <1>4 DEF Step, Call, ReadCompleted, Begin, StartTask, NoProducer, Blocked,
       FinishGoal, LogCompletion, Attempt, Produce, SubmitForReview, Review,
       NoReviewer, Revise, Reject, FailGoal, Promote, Canonize, Escalate, counters
  <2>2. Concluded(t) => Concluded(t)'
    <3>1. CASE tasks[t].status = "canonical"
      <4>1. tasks'[t].status = "canonical"
        BY <1>0, <3>1, TasksKept
      <4> QED
        BY <4>1 DEF Concluded
    <3>2. CASE At(r, "canonize") /\ run[r].task = t
      <4>1. Canonize(r)
        BY <1>4, <3>2 DEF At, Step, Call, ReadCompleted, Begin, StartTask,
           NoProducer, Blocked, FinishGoal, LogCompletion, Attempt, Produce,
           SubmitForReview, Review, NoReviewer, Revise, Reject, FailGoal, Promote,
           Escalate
      <4>2. tasks'[t].status = "canonical"
        BY <1>0, <3>2, <4>1, TasksKept
      <4> QED
        BY <4>2 DEF Concluded
    <3> QED
      BY <1>0, <3>1, <3>2 DEF Concluded
  <2>3. Cardinality(Copies(t))' = Cardinality(Copies(t))
    BY <1>0, <1>1, <1>4
  <2> QED
    BY <1>0, <2>1, <2>2, <2>3 DEF CopiesExplained
<1> QED
  BY <1>2, <1>3, <1>4

LEMMA SoloInit == Init => SoloInv
<1> SUFFICES ASSUME Init PROVE SoloInv
  OBVIOUS
<1>1. /\ DOMAIN plan = {} /\ goal = "none"
      /\ \A r \in Runner : run[r] = IdleRun
  BY DEF Init
<1>2. \A r \in Runner : LocalsExact(run[r])
  BY <1>1 DEF LocalsExact, IdleRun, InTask
<1> QED
  BY <1>1, <1>2 DEF SoloInv, Orderable, OutcomeBacked

LEMMA SoloSubmit ==
  ASSUME IInv, NEW p \in Plans, Submit(p)
  PROVE  SoloInv'
<1>1. /\ goal' = "planned" /\ UNCHANGED <<artifacts, run, crashes>>
      /\ DOMAIN plan = {} /\ \A r \in Runner : At(r, "idle")
  BY DEF Submit, IInv, TablesAgree, counters
<1>2. \A r \in Runner : LocalsExact(run[r])'
  BY <1>1 DEF LocalsExact, InTask, At
<1>3. \A t \in DOMAIN plan' : CopiesExplained(t)'
  <2>1. DOMAIN artifacts = {} /\ crashes \in Nat
    BY <1>1 DEF IInv, TablesAgree, TypeOK
  <2>2. \A t : Copies(t)' = {}
    BY <1>1, <2>1 DEF Copies
  <2> QED
    BY <1>1, <2>1, <2>2, FS_EmptySet DEF CopiesExplained
<1> QED
  BY <1>1, <1>2, <1>3, SubmitOrderable DEF SoloInv, OutcomeBacked

LEMMA SoloStep == Solo /\ IInv /\ SoloInv /\ [Next]_vars => SoloInv'
<1> SUFFICES ASSUME Solo, IInv, SoloInv, [Next]_vars PROVE SoloInv'
  OBVIOUS
<1>1. ASSUME NEW r \in Runner, Call(r) \/ Step(r) \/ Crash(r)
      PROVE  SoloInv'
  <2>1. plan' = plan
    BY <1>1 DEF Step, Call, Crash, ReadCompleted, Begin, StartTask, NoProducer,
       Blocked, FinishGoal, LogCompletion, Attempt, Produce, SubmitForReview,
       Review, NoReviewer, Revise, Reject, FailGoal, Promote, Canonize, Escalate,
       database
  <2>2. Orderable'
    BY <2>1 DEF SoloInv, Orderable
  <2>3. LocalsExact(run[r])' /\ OutcomeBacked'
    BY <1>1, ExactStep, OutcomeStep DEF SoloInv
  <2>4. \A s \in Runner : LocalsExact(run[s])'
    BY <2>3 DEF Solo
  <2>5. \A t \in DOMAIN plan : CopiesExplained(t)'
    BY <1>1, CopiesStep DEF SoloInv
  <2> QED
    BY <2>1, <2>2, <2>3, <2>4, <2>5 DEF SoloInv
<1>2. CASE UNCHANGED <<goal, database, run, counters>>
  <2>1. Orderable' /\ OutcomeBacked'
    BY <1>2 DEF SoloInv, database, Orderable, OutcomeBacked, FailureBacked,
       EscalationBacked, LastEscalation, HasVerdict, ArtifactsOf
  <2>2. ASSUME NEW r \in Runner
        PROVE  LocalsExact(run[r])'
    <3>1. LocalsExact(run[r])
      BY DEF SoloInv
    <3> QED
      BY <1>2, <3>1 DEF database, LocalsExact, FailureBacked, EscalationBacked,
         HasVerdict, ArtifactsOf
  <2>3. \A t \in DOMAIN plan : CopiesExplained(t)'
    BY <1>2 DEF SoloInv, database, counters, CopiesExplained, Copies, Concluded, At
  <2>4. plan' = plan
    BY <1>2 DEF database
  <2> QED
    BY <2>1, <2>2, <2>3, <2>4 DEF SoloInv
<1>3. ASSUME NEW p \in Plans, Submit(p)
      PROVE  SoloInv'
  BY <1>3, SoloSubmit
<1>4. CASE (\E offer \in Offers : Register(offer[1], offer[2])) \/ UNCHANGED vars
  BY <1>2, <1>4 DEF Register, vars
<1> QED
  BY <1>1, <1>3, <1>4 DEF Next

LEMMA SoloInvariance ==
  ASSUME Solo
  PROVE  Spec => []SoloInv
<1>1. IInv /\ SoloInv /\ [Next]_vars => SoloInv'
  BY SoloStep
<1> QED
  BY <1>1, SoloInit, Invariance, PTL DEF Spec

(* However often the one process that works on a goal crashes and is run   *)
(* again, the status it leaves on the goal is borne out by the other       *)
(* tables, and it never escalates a goal as blocked.                       *)
THEOREM OutcomesAreBacked ==
  ASSUME Solo
  PROVE  Spec => []OutcomeBacked
<1>1. SoloInv => OutcomeBacked
  BY DEF SoloInv
<1> QED
  BY <1>1, SoloInvariance, PTL

(* Without a rival, a task has at most one canonical artifact more than    *)
(* there were crashes.                                                     *)
THEOREM OnlyCrashesDuplicate ==
  ASSUME Solo
  PROVE  Spec => []SecondCopyNeedsCrash
<1>1. IInv /\ SoloInv => SecondCopyNeedsCrash
  <2> SUFFICES ASSUME IInv, SoloInv, NEW t \in DOMAIN plan
               PROVE  Cardinality(Copies(t)) <= 1 + crashes
    BY DEF SecondCopyNeedsCrash
  <2>1. crashes \in Nat /\ Cardinality(Copies(t)) \in Nat
    BY WorkFinite DEF IInv, TypeOK
  <2> QED
    BY <2>1 DEF SoloInv, CopiesExplained
<1> QED
  BY <1>1, Invariance, SoloInvariance, PTL

(* A run() without a rival, called again after a crash or an escalation,   *)
(* never takes the canonical status from a task.                           *)
THEOREM FinishedWorkStaysFinished ==
  ASSUME Solo
  PROVE  Spec => CanonicalTaskStays
<1>1. IInv /\ SoloInv /\ [Next]_vars =>
        [\A t \in DOMAIN tasks :
           tasks[t].status = "canonical" => tasks'[t].status = "canonical"]_vars
  <2> SUFFICES ASSUME IInv, SoloInv, [Next]_vars,
                      NEW t \in DOMAIN tasks, tasks[t].status = "canonical"
               PROVE  tasks'[t].status = "canonical"
    OBVIOUS
  <2>1. ASSUME NEW r \in Runner, Call(r) \/ Step(r) \/ Crash(r)
        PROVE  tasks'[t].status = "canonical"
    BY <2>1, TasksKept DEF SoloInv
  <2>2. ASSUME NEW p \in Plans, Submit(p)
        PROVE  FALSE
    BY <2>2 DEF Submit, IInv, TablesAgree, TypeOK
  <2>3. CASE tasks' = tasks
    BY <2>3
  <2> QED
    BY <2>1, <2>2, <2>3 DEF Next, Register, vars, database
<1> QED
  BY <1>1, Invariance, SoloInvariance, PTL DEF Spec, CanonicalTaskStays

(* A lone run() writes, has reviewed and promotes artifacts only between   *)
(* the step that marks the goal running and the one that settles it.       *)
THEOREM WorkWhileRunning ==
  ASSUME Solo
  PROVE  Spec => WorkOnlyWhileRunning
<1>1. IInv /\ SoloInv /\ [Next]_vars =>
        [(artifacts' # artifacts \/ reviews' # reviews) => goal = "running"]_vars
  <2> SUFFICES ASSUME IInv, SoloInv, [Next]_vars,
                      artifacts' # artifacts \/ reviews' # reviews
               PROVE  goal = "running"
    OBVIOUS
  <2>1. ASSUME NEW r \in Runner,
               Produce(r) \/ Promote(r) \/ \E verdict \in Verdict : Review(r, verdict)
        PROVE  goal = "running"
    <3>1. run[r].pc \in InTask
      BY <2>1 DEF Produce, Promote, Review, At, InTask
    <3> QED
      BY <3>1 DEF SoloInv, LocalsExact
  <2>2. \E r \in Runner :
          Produce(r) \/ Promote(r) \/ \E verdict \in Verdict : Review(r, verdict)
    BY DEF Next, Submit, Register, vars, database, Step, Call, Crash, ReadCompleted,
       Begin, StartTask, NoProducer, Blocked, FinishGoal, LogCompletion, Attempt,
       SubmitForReview, NoReviewer, Revise, Reject, FailGoal, Canonize, Escalate
  <2> QED
    BY <2>1, <2>2
<1> QED
  BY <1>1, Invariance, SoloInvariance, PTL DEF Spec, WorkOnlyWhileRunning

(* A lone run() that returns leaves the goal canonical, failed or          *)
(* escalated.                                                              *)
THEOREM ReturnSettles ==
  ASSUME Solo
  PROVE  Spec => ReturnSettlesGoal
<1>1. IInv /\ SoloInv /\ [Next]_vars =>
        [\A r \in Runner :
           (~At(r, "idle") /\ run'[r].pc = "idle" /\ crashes' = crashes)
             => goal' \in Settled]_vars
  <2> SUFFICES ASSUME IInv, SoloInv, [Next]_vars, NEW r \in Runner,
                      ~At(r, "idle"), run'[r].pc = "idle", crashes' = crashes
               PROVE  goal' \in Settled
    OBVIOUS
  <2>0. /\ run \in [Runner -> RunRecord] /\ crashes \in Nat /\ run' # run
    BY DEF IInv, TypeOK, At
  <2>1. PICK s \in Runner : Call(s) \/ Step(s) \/ Crash(s)
    BY <2>0 DEF Next, Submit, Register, vars
  <2>2. s = r
    BY <2>0, <2>1, OthersStand DEF At
  <2>3. ~Crash(r)
    BY <2>0 DEF Crash
  <2>4. LogCompletion(r) \/ FailGoal(r) \/ Escalate(r)
    <3> SUFFICES ASSUME ~LogCompletion(r), ~FailGoal(r), ~Escalate(r)
                 PROVE  run'[r].pc # "idle"
      OBVIOUS
    <3>0. run[r] \in RunRecord
      BY <2>0
    <3>1. CASE StartTask(r)
      <4>1. PICK u \in FirstOf(Batch(r)), a \in AgentId :
              /\ run' = [run EXCEPT ![r] = [run[r] EXCEPT
                           !.pc = "attempt", !.batch = Batch(r), !.task = u,
                           !.producer = a, !.version = 1]]
              /\ run[r].pc = "loop" /\ run[r] \in RunRecord
        BY <3>1, StartTaskLocals
      <4> QED
        BY <2>0, <3>0, <4>1 DEF RunRecord
    <3>2. CASE NoProducer(r)
      <4>1. PICK u \in FirstOf(Batch(r)) :
              run' = [run EXCEPT ![r].pc = "escalate", ![r].task = u,
                                 ![r].why = "no producer"]
        BY <3>2 DEF NoProducer
      <4> QED
        BY <2>0, <3>0, <4>1 DEF RunRecord
    <3>3. ASSUME NEW verdict \in Verdict, Review(r, verdict)
          PROVE  run'[r].pc # "idle"
      <4>1. run'[r] = AfterVerdict(r, verdict) /\ run[r].pc = "review"
        BY <2>0, <3>3 DEF Review, At
      <4> QED
        BY <3>0, <4>1 DEF AfterVerdict, Verdict, RunRecord
    <3>4. CASE Revise(r)
      BY <2>0, <3>0, <3>4 DEF Revise, AfterRevise, RunRecord
    <3>5. CASE Canonize(r)
      BY <2>0, <3>5 DEF Canonize
    <3>6. CASE Call(r) \/ ReadCompleted(r)
      BY <2>0, <3>0, <3>6 DEF Call, ReadCompleted, RunRecord
    <3>7. CASE Begin(r) \/ Blocked(r) \/ FinishGoal(r)
      <4>1. run'[r].pc \in {"loop", "escalate", "log"}
        BY <2>0, <3>0, <3>7 DEF Begin, Blocked, FinishGoal, RunRecord
      <4> QED
        BY <4>1
    <3>8. CASE Attempt(r) \/ Produce(r) \/ SubmitForReview(r)
      BY <2>0, <3>0, <3>8 DEF Attempt, Produce, SubmitForReview, RunRecord
    <3>9. CASE NoReviewer(r) \/ Reject(r) \/ Promote(r)
      <4>1. run'[r].pc \in {"escalate", "fail", "canonize"}
        <5>1. CASE NoReviewer(r)
          BY <2>0, <3>0, <5>1 DEF NoReviewer, RunRecord
        <5>2. CASE Reject(r)
          BY <2>0, <3>0, <5>2 DEF Reject, RunRecord
        <5>3. CASE Promote(r)
          BY <2>0, <3>0, <5>3 DEF Promote, RunRecord
        <5> QED
          BY <3>9, <5>1, <5>2, <5>3
      <4> QED
        BY <4>1
    <3>10. Call(r) \/ Step(r)
      BY <2>1, <2>2, <2>3
    <3> QED
      BY <3>1, <3>2, <3>3, <3>4, <3>5, <3>6, <3>7, <3>8, <3>9, <3>10, Zenon DEF Step
  <2>5. CASE LogCompletion(r)
    <3>1. goal = "canonical" /\ goal' = goal
      BY <2>5 DEF LogCompletion, At, SoloInv, LocalsExact
    <3> QED
      BY <3>1 DEF Settled
  <2>6. CASE FailGoal(r) \/ Escalate(r)
    BY <2>6 DEF FailGoal, Escalate, Settled
  <2> QED
    BY <2>4, <2>5, <2>6
<1> QED
  BY <1>1, Invariance, SoloInvariance, PTL DEF Spec, ReturnSettlesGoal
==============================================================================
