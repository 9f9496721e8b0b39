----------------------------- MODULE Orchestrator -----------------------------
(***************************************************************************)
(* GovernedOrchestrator (orchestrator.py) working on one goal.             *)
(*                                                                         *)
(* The database outlives the processes that write to it.  Each runner is a *)
(* GovernedOrchestrator object in a process of its own; run() is a         *)
(* sequential program whose locals are lost in a crash, and every helper   *)
(* it calls (_set_goal, _set_task, _artifact, _save_review, _promote,      *)
(* _escalate, _record_event) is one committed transaction.  An action is   *)
(* therefore one such transaction, or one read of the database, with the   *)
(* local computation around it.                                            *)
(***************************************************************************)
EXTENDS Naturals, Sequences, FiniteSets, Routing

CONSTANTS
  Runner,        \* processes that may call run() on the goal
  Capability,    \* names of capabilities; a review gate is one of them
  Plans,         \* what the planner may return: sequences of planned tasks
  MaxRevisions,  \* max_revisions
  HighRisk,      \* whether the goal's risk level is high or critical
  Registry0,     \* the agents registered at the start
  Offers,        \* <<agent, profile>> pairs somebody may register meanwhile
  MaxCandidates, \* RoutingRequest.max_candidates, 10 in the code
  MaxCalls,      \* bound: calls of run()
  MaxCrashes     \* bound: crashes and exceptions out of run()

TaskId == Nat \ {0}
NoTask == 0

PlannedTask == [id: TaskId, deps: SUBSET TaskId, priority: Nat,
                caps: SUBSET Capability, gates: Seq(Capability)]

Profile == [role: {"production", "review"}, caps: SUBSET Capability,
            tools: SUBSET STRING, domains: SUBSET STRING, authority: BOOLEAN,
            score: Nat, enabled: BOOLEAN]

ASSUME PlansAssumption == \A p \in Plans : p \in Seq(PlannedTask)
ASSUME BoundsAssumption ==
  /\ MaxRevisions \in Nat /\ MaxCandidates \in Nat
  /\ MaxCalls \in Nat /\ MaxCrashes \in Nat
  /\ HighRisk \in BOOLEAN
ASSUME RegistryAssumption ==
  /\ DOMAIN Registry0 \subseteq AgentId
  /\ Registry0 \in [DOMAIN Registry0 -> Profile]
  /\ Offers \subseteq AgentId \X Profile

VARIABLES
  registry,    \* agents table: agent id -> profile
  goal,        \* status column of the goal's row, "none" before submit
  plan,        \* payload column of the tasks table: task id -> planned task
  tasks,       \* its other columns: task id -> [status, producer, attempts]
  artifacts,   \* artifacts table in insertion order; an id is a position
  reviews,     \* reviews table
  approvals,   \* artifact ids in the approvals table
  escalations, \* escalations table in insertion order
  events,      \* event types logged for the goal
  run,         \* per runner: where it is in run() and its locals
  calls,       \* calls of run() so far (bound)
  crashes      \* crashes so far (bound)

database == <<plan, tasks, artifacts, reviews, approvals, escalations, events>>
counters == <<calls, crashes>>
vars == <<registry, goal, database, run, counters>>

RunStatus == {"planned", "running", "reviewing", "revision_required",
              "canonical", "escalated", "failed"}
Settled == {"canonical", "escalated", "failed"}
Verdict == {"approve", "revise", "reject", "escalate"}

IdleRun == [pc |-> "idle", pending |-> {}, completed |-> {}, batch |-> {},
            task |-> NoTask, producer |-> NoAgent, version |-> 0,
            draft |-> 0, gate |-> 0, why |-> "none"]

(***************************************************************************)
(* submit(): the plan is validated, then written in one transaction.       *)
(***************************************************************************)
PlanIds(p) == {p[i].id : i \in DOMAIN p}

(* The loop of _validate_plan: the ids resolved after n passes.            *)
Resolved(p) ==
  LET pass[n \in 0..Len(p)] ==
        IF n = 0 THEN {}
        ELSE pass[n - 1] \union
             {p[i].id : i \in {j \in DOMAIN p : p[j].deps \subseteq pass[n - 1]}}
  IN pass[Len(p)]

(* Mutant: the plan is not checked for cycles.                             *)
CyclicPlan(p) ==
  /\ \A i, j \in DOMAIN p : i # j => p[i].id # p[j].id
  /\ \A i \in DOMAIN p : p[i].deps \subseteq PlanIds(p)

ValidPlan(p) ==
  /\ \A i, j \in DOMAIN p : i # j => p[i].id # p[j].id
  /\ \A i \in DOMAIN p : p[i].deps \subseteq PlanIds(p)
  /\ Resolved(p) = PlanIds(p)

Submit(p) ==
  /\ goal = "none"
  /\ ValidPlan(p)
  /\ goal' = "planned"
  /\ plan' = [t \in PlanIds(p) |-> p[CHOOSE i \in DOMAIN p : p[i].id = t]]
  /\ tasks' = [t \in PlanIds(p) |->
                 [status |-> "planned", producer |-> NoAgent, attempts |-> 0]]
  /\ events' = <<"goal_submitted">>
  /\ UNCHANGED <<registry, artifacts, reviews, approvals, escalations, run,
                 counters>>

(***************************************************************************)
(* run(): three reads and writes before the loop.                          *)
(***************************************************************************)
At(r, pc) == run[r].pc = pc

(* Mutant: _load_tasks without its status filter.                          *)
CallAfresh(r) ==
  /\ At(r, "idle") /\ goal # "none"
  /\ calls < MaxCalls
  /\ calls' = calls + 1
  /\ run' = [run EXCEPT ![r].pc = "completed", ![r].pending = DOMAIN tasks]
  /\ UNCHANGED <<registry, goal, database, crashes>>

(* _load_goal, which raises for an unknown goal, and _load_tasks.          *)
Call(r) ==
  /\ At(r, "idle") /\ goal # "none"
  /\ calls < MaxCalls
  /\ calls' = calls + 1
  /\ run' = [run EXCEPT
       ![r].pc = "completed",
       ![r].pending = {t \in DOMAIN tasks : tasks[t].status # "canonical"}]
  /\ UNCHANGED <<registry, goal, database, crashes>>

(* Mutant: a task under review counts as completed.                        *)
ReadReviewed(r) ==
  /\ At(r, "completed")
  /\ run' = [run EXCEPT
       ![r].pc = "begin",
       ![r].completed = {t \in DOMAIN tasks :
                           tasks[t].status \in {"reviewing", "canonical"}}]
  /\ UNCHANGED <<registry, goal, database, counters>>

(* _canonical_task_ids.                                                    *)
ReadCompleted(r) ==
  /\ At(r, "completed")
  /\ run' = [run EXCEPT
       ![r].pc = "begin",
       ![r].completed = {t \in DOMAIN tasks : tasks[t].status = "canonical"}]
  /\ UNCHANGED <<registry, goal, database, counters>>

(* Mutant: run() does not mark the goal running.                           *)
BeginUnmarked(r) ==
  /\ At(r, "begin")
  /\ run' = [run EXCEPT ![r].pc = "loop"]
  /\ UNCHANGED <<registry, goal, database, counters>>

Begin(r) ==
  /\ At(r, "begin")
  /\ goal' = "running"
  /\ run' = [run EXCEPT ![r].pc = "loop"]
  /\ UNCHANGED <<registry, database, counters>>

(***************************************************************************)
(* The two nested loops of run(): a batch of ready tasks is fixed, sorted  *)
(* by (priority, id), and worked off before the next batch is computed.    *)
(***************************************************************************)
(* Mutant: dependencies are not waited for.                                *)
ReadyAtOnce(r) == run[r].pending

Ready(r) == {t \in run[r].pending : plan[t].deps \subseteq run[r].completed}

Batch(r) == IF run[r].batch = {} THEN Ready(r) ELSE run[r].batch

FirstOf(batch) ==
  {t \in batch : \A u \in batch \ {t} :
     \/ plan[t].priority < plan[u].priority
     \/ plan[t].priority = plan[u].priority /\ t < u}

Request(role, caps, producer) ==
  [role |-> role, caps |-> caps, tools |-> {}, domain |-> NoDomain,
   highRisk |-> HighRisk, producer |-> producer, excluded |-> {},
   max |-> MaxCandidates]

Producers(t) == Selected(registry, Request("production", plan[t].caps, NoAgent))

(* _run_task routes the production of its task before anything else.       *)
StartTask(r) ==
  /\ At(r, "loop")
  /\ \E t \in FirstOf(Batch(r)) : \E a \in Producers(t) :
       run' = [run EXCEPT ![r].pc = "attempt", ![r].batch = Batch(r),
                          ![r].task = t, ![r].producer = a, ![r].version = 1]
  /\ UNCHANGED <<registry, goal, database, counters>>

(* Mutant: run() waits for a producer to be registered.                    *)
AwaitProducer(r) == At(r, "loop") /\ UNCHANGED vars

NoProducer(r) ==
  /\ At(r, "loop")
  /\ \E t \in FirstOf(Batch(r)) :
       /\ Producers(t) = {}
       /\ run' = [run EXCEPT ![r].pc = "escalate", ![r].task = t,
                             ![r].why = "no producer"]
  /\ UNCHANGED <<registry, goal, database, counters>>

Blocked(r) ==
  /\ At(r, "loop")
  /\ run[r].pending # {} /\ Batch(r) = {}
  /\ run' = [run EXCEPT ![r].pc = "escalate", ![r].why = "blocked"]
  /\ UNCHANGED <<registry, goal, database, counters>>

FinishGoal(r) ==
  /\ At(r, "loop") /\ run[r].pending = {}
  /\ goal' = "canonical"
  /\ run' = [run EXCEPT ![r].pc = "log"]
  /\ UNCHANGED <<registry, database, counters>>

LogCompletion(r) ==
  /\ At(r, "log")
  /\ events' = Append(events, "goal_completed")
  /\ run' = [run EXCEPT ![r] = IdleRun]
  /\ UNCHANGED <<registry, goal, plan, tasks, artifacts, reviews, approvals,
                 escalations, counters>>

(***************************************************************************)
(* _run_task: versions 1 to max_revisions + 1 of the artifact.             *)
(***************************************************************************)
SetTask(r, status) ==
  tasks' = [tasks EXCEPT ![run[r].task] =
              [status |-> status, producer |-> run[r].producer,
               attempts |-> run[r].version]]

Attempt(r) ==
  /\ At(r, "attempt")
  /\ SetTask(r, "running")
  /\ run' = [run EXCEPT ![r].pc = "produce"]
  /\ UNCHANGED <<registry, goal, plan, artifacts, reviews, approvals,
                 escalations, events, counters>>

(* The production executor and _artifact.                                  *)
Produce(r) ==
  /\ At(r, "produce")
  /\ artifacts' = Append(artifacts,
       [task |-> run[r].task, version |-> run[r].version,
        by |-> run[r].producer, status |-> "draft"])
  /\ run' = [run EXCEPT ![r].pc = "submit", ![r].draft = Len(artifacts) + 1]
  /\ UNCHANGED <<registry, goal, plan, tasks, reviews, approvals, escalations,
                 events, counters>>

SubmitForReview(r) ==
  /\ At(r, "submit")
  /\ SetTask(r, "reviewing")
  /\ run' = [run EXCEPT ![r].pc = "review", ![r].gate = 1]
  /\ UNCHANGED <<registry, goal, plan, artifacts, reviews, approvals,
                 escalations, events, counters>>

Gates(r) == plan[run[r].task].gates

Reviewers(r) ==
  Selected(registry, Request("review", {Gates(r)[run[r].gate]}, run[r].producer))

(* One pass of the loop over review_gates: route, the review executor and  *)
(* _save_review.  Routing only reads the registry and the executor touches *)
(* no table, so only the last of the three is visible to others.           *)
AfterVerdict(r, verdict) ==
  CASE verdict = "approve"  -> [run[r] EXCEPT !.gate = @ + 1]
    [] verdict = "escalate" -> [run[r] EXCEPT !.pc = "escalate",
                                              !.why = "reviewer"]
    [] verdict = "reject"   -> [run[r] EXCEPT !.pc = "reject"]
    [] verdict = "revise"   -> [run[r] EXCEPT !.pc = "revise"]

Review(r, verdict) ==
  /\ At(r, "review") /\ run[r].gate <= Len(Gates(r))
  /\ \E a \in Reviewers(r) :
       reviews' = reviews \union
         {[artifact |-> run[r].draft, gate |-> Gates(r)[run[r].gate],
           reviewer |-> a, verdict |-> verdict]}
  /\ run' = [run EXCEPT ![r] = AfterVerdict(r, verdict)]
  /\ UNCHANGED <<registry, goal, plan, tasks, artifacts, approvals,
                 escalations, events, counters>>

NoReviewer(r) ==
  /\ At(r, "review") /\ run[r].gate <= Len(Gates(r))
  /\ Reviewers(r) = {}
  /\ run' = [run EXCEPT ![r].pc = "escalate", ![r].why = "no reviewer"]
  /\ UNCHANGED <<registry, goal, database, counters>>

(* The verdict was REVISE: the next version, or "Maximum revision count    *)
(* exhausted."                                                             *)
(* Mutant: one version too many.                                           *)
AfterReviseOnceMore(r) ==
  IF run[r].version <= MaxRevisions + 1
  THEN [run[r] EXCEPT !.pc = "attempt", !.version = @ + 1, !.draft = 0, !.gate = 0]
  ELSE [run[r] EXCEPT !.pc = "escalate", !.why = "revisions exhausted"]

AfterRevise(r) ==
  IF run[r].version <= MaxRevisions
  THEN [run[r] EXCEPT !.pc = "attempt", !.version = @ + 1, !.draft = 0, !.gate = 0]
  ELSE [run[r] EXCEPT !.pc = "escalate", !.why = "revisions exhausted"]

Revise(r) ==
  /\ At(r, "revise")
  /\ SetTask(r, "revision_required")
  /\ run' = [run EXCEPT ![r] = AfterRevise(r)]
  /\ UNCHANGED <<registry, goal, plan, artifacts, reviews, approvals,
                 escalations, events, counters>>

(* The verdict was REJECT: the task fails, then the goal; run() returns.   *)
Reject(r) ==
  /\ At(r, "reject")
  /\ SetTask(r, "failed")
  /\ run' = [run EXCEPT ![r].pc = "fail"]
  /\ UNCHANGED <<registry, goal, plan, artifacts, reviews, approvals,
                 escalations, events, counters>>

(* Mutant: a rejection fails the task and not the goal.                    *)
FailTaskOnly(r) ==
  /\ At(r, "fail")
  /\ run' = [run EXCEPT ![r] = IdleRun]
  /\ UNCHANGED <<registry, goal, database, counters>>

FailGoal(r) ==
  /\ At(r, "fail")
  /\ goal' = "failed"
  /\ run' = [run EXCEPT ![r] = IdleRun]
  /\ UNCHANGED <<registry, database, counters>>

(* Every gate approved: _promote marks the draft and records the approval. *)
Promote(r) ==
  /\ At(r, "review") /\ run[r].gate > Len(Gates(r))
  /\ artifacts' = [artifacts EXCEPT ![run[r].draft].status = "canonical"]
  /\ approvals' = approvals \union {run[r].draft}
  /\ run' = [run EXCEPT ![r].pc = "canonize"]
  /\ UNCHANGED <<registry, goal, plan, tasks, reviews, escalations, events,
                 counters>>

(* Mutant: a finished task stays in the list of pending ones.              *)
CanonizePending(r) ==
  /\ At(r, "canonize")
  /\ SetTask(r, "canonical")
  /\ run' = [run EXCEPT ![r] =
       [IdleRun EXCEPT
          !.pc = "loop",
          !.pending = run[r].pending,
          !.completed = run[r].completed \union {run[r].task},
          !.batch = run[r].batch \ {run[r].task}]]
  /\ UNCHANGED <<registry, goal, plan, artifacts, reviews, approvals,
                 escalations, events, counters>>

(* The last _set_task of _run_task, and what run() does with its result.   *)
Canonize(r) ==
  /\ At(r, "canonize")
  /\ SetTask(r, "canonical")
  /\ run' = [run EXCEPT ![r] =
       [IdleRun EXCEPT
          !.pc = "loop",
          !.pending = run[r].pending \ {run[r].task},
          !.completed = run[r].completed \union {run[r].task},
          !.batch = run[r].batch \ {run[r].task}]]
  /\ UNCHANGED <<registry, goal, plan, artifacts, reviews, approvals,
                 escalations, events, counters>>

(* _escalate: the escalation, the goal's status and the event together.    *)
Escalate(r) ==
  /\ At(r, "escalate")
  /\ escalations' = Append(escalations, [task |-> run[r].task, why |-> run[r].why])
  /\ goal' = "escalated"
  /\ events' = Append(events, "goal_escalated")
  /\ run' = [run EXCEPT ![r] = IdleRun]
  /\ UNCHANGED <<registry, plan, tasks, artifacts, reviews, approvals, counters>>

(***************************************************************************)
(* What happens around the runners.                                        *)
(***************************************************************************)

(* The process dies, or an executor or the registry raises: run() has no   *)
(* handler, so either way its locals are gone and the database stays.      *)
Crash(r) ==
  /\ ~At(r, "idle")
  /\ crashes < MaxCrashes
  /\ crashes' = crashes + 1
  /\ run' = [run EXCEPT ![r] = IdleRun]
  /\ UNCHANGED <<registry, goal, database, calls>>

(* SQLiteAgentRegistry.register by an operator: an upsert of a whole row.  *)
Register(a, profile) ==
  /\ registry' = [x \in DOMAIN registry \union {a} |->
                    IF x = a THEN profile ELSE registry[x]]
  /\ UNCHANGED <<goal, database, run, counters>>

(***************************************************************************)
(* The specification.                                                      *)
(***************************************************************************)
Init ==
  /\ registry = Registry0
  /\ goal = "none"
  /\ plan = << >> /\ tasks = << >>
  /\ artifacts = << >> /\ reviews = {} /\ approvals = {}
  /\ escalations = << >> /\ events = << >>
  /\ run = [r \in Runner |-> IdleRun]
  /\ calls = 0 /\ crashes = 0

(* What run() does next once it has been called.                           *)
Step(r) ==
  \/ ReadCompleted(r) \/ Begin(r)
  \/ StartTask(r) \/ NoProducer(r) \/ Blocked(r)
  \/ FinishGoal(r) \/ LogCompletion(r)
  \/ Attempt(r) \/ Produce(r) \/ SubmitForReview(r)
  \/ \E verdict \in Verdict : Review(r, verdict)
  \/ NoReviewer(r) \/ Revise(r) \/ Reject(r) \/ FailGoal(r)
  \/ Promote(r) \/ Canonize(r) \/ Escalate(r)

Next ==
  \/ \E p \in Plans : Submit(p)
  \/ \E r \in Runner : Call(r) \/ Step(r) \/ Crash(r)
  \/ \E offer \in Offers : Register(offer[1], offer[2])

Spec == Init /\ [][Next]_vars

(* run() is straight-line code between its database calls, and SQLite's    *)
(* 30 s busy timeout is taken to suffice: a called run() keeps moving.     *)
FairSpec == Spec /\ \A r \in Runner : WF_vars(Step(r))

(***************************************************************************)
(* Properties of any number of runners.                                    *)
(***************************************************************************)
Row == [status: RunStatus, producer: AgentId \union {NoAgent},
        attempts: 0..(MaxRevisions + 1)]

Artifact == [task: TaskId, version: 1..(MaxRevisions + 1), by: AgentId,
             status: {"draft", "canonical"}]

Reason == {"none", "no producer", "blocked", "no reviewer", "reviewer",
           "revisions exhausted"}

RunRecord ==
  [pc: {"idle", "completed", "begin", "loop", "log", "attempt", "produce",
        "submit", "review", "revise", "reject", "fail", "canonize", "escalate"},
   pending: SUBSET TaskId, completed: SUBSET TaskId, batch: SUBSET TaskId,
   task: TaskId \union {NoTask}, producer: AgentId \union {NoAgent},
   version: 0..(MaxRevisions + 1), draft: Nat, gate: Nat,
   why: Reason]

(* The type of every table, and of the locals of run().                    *)
TypeOK ==
  /\ DOMAIN registry \subseteq AgentId
  /\ registry \in [DOMAIN registry -> Profile]
  /\ goal \in {"none", "planned", "running", "canonical", "escalated", "failed"}
  /\ DOMAIN plan \subseteq TaskId
  /\ plan \in [DOMAIN plan -> PlannedTask]
  /\ tasks \in [DOMAIN plan -> Row]
  /\ artifacts \in Seq(Artifact)
  /\ reviews \subseteq [artifact: Nat, gate: Capability, reviewer: AgentId,
                        verdict: Verdict]
  /\ approvals \subseteq Nat
  /\ escalations \in Seq([task: TaskId \union {NoTask}, why: Reason])
  /\ events \in Seq({"goal_submitted", "goal_completed", "goal_escalated"})
  /\ run \in [Runner -> RunRecord]
  /\ calls \in Nat /\ crashes \in Nat

ReviewsOf(a) == {rv \in reviews : rv.artifact = a}

(* The gates of artifact a's task, as gate names.                          *)
GatesOf(a) == {plan[artifacts[a].task].gates[i] :
                 i \in DOMAIN plan[artifacts[a].task].gates}

Reviewed(a) ==
  /\ a \in approvals
  /\ \A g \in GatesOf(a) : \E rv \in ReviewsOf(a) : rv.gate = g
  /\ \A rv \in ReviewsOf(a) :
       rv.verdict = "approve" /\ rv.reviewer # artifacts[a].by

(* A canonical artifact has its approval row; every review gate of its     *)
(* task approved this very version of it; nobody recorded another verdict  *)
(* on it; and none of its reviewers is its author, however the registry    *)
(* changed, other runners interleaved or earlier runs crashed.             *)
CanonicalArtifactsReviewed ==
  \A a \in DOMAIN artifacts : artifacts[a].status = "canonical" => Reviewed(a)

(* The tasks that have a canonical artifact.                               *)
Delivered ==
  {artifacts[a].task : a \in {x \in DOMAIN artifacts :
                                artifacts[x].status = "canonical"}}

(* Seen from outside, the runners deliver the plan: tasks get canonical    *)
(* artifacts in dependency order, and the goal is canonical only when all  *)
(* of them have one.                                                       *)
PlanGraph(p) ==
  [t \in PlanIds(p) |-> p[CHOOSE i \in DOMAIN p : p[i].id = t].deps]

Delivery == INSTANCE GoalDelivery WITH
  Graphs <- {PlanGraph(p) : p \in Plans},
  status <- goal,
  graph <- [t \in DOMAIN plan |-> plan[t].deps],
  delivered <- Delivered

DeliversPlan == Delivery!Spec

Copies(t) == {a \in DOMAIN artifacts :
                artifacts[a].task = t /\ artifacts[a].status = "canonical"}

ArtifactsOf(t) == {a \in DOMAIN artifacts : artifacts[a].task = t}

(* One call of run() writes at most max_revisions + 1 versions of a task   *)
(* and promotes at most one of them, so repeated and concurrent calls      *)
(* multiply the work but never without bound.                              *)
WorkBoundedByCalls ==
  \A t \in DOMAIN plan :
    /\ Cardinality(ArtifactsOf(t)) <= calls * (MaxRevisions + 1)
    /\ Cardinality(Copies(t)) <= calls

(* A called run() always comes to an end: it returns or it crashes; no     *)
(* revision loop, review loop or blocked dependency keeps it.              *)
EveryCallReturns == \A r \in Runner : ~At(r, "idle") ~> At(r, "idle")

(***************************************************************************)
(* Properties of a goal that one process works on: it may crash, be run    *)
(* again and have the registry changed under it, but has no rival.         *)
(***************************************************************************)
LastEscalation == escalations[Len(escalations)]

HasVerdict(t, verdict) ==
  \E rv \in reviews : rv.verdict = verdict /\ rv.artifact \in ArtifactsOf(t)

FailureBacked ==
  \E t \in DOMAIN tasks : tasks[t].status = "failed" /\ HasVerdict(t, "reject")

EscalationBacked(t, why) ==
  /\ why # "blocked" /\ t \in DOMAIN tasks
  /\ why = "revisions exhausted" => tasks[t].attempts = MaxRevisions + 1
  /\ why = "reviewer" => HasVerdict(t, "escalate")

(* The status a reader finds on a goal is borne out by the other tables: a *)
(* canonical goal has only canonical tasks; a failed one has a task that   *)
(* failed on a recorded rejection; an escalated one names a task that used *)
(* up its revisions or has an escalating review, and is never "blocked",   *)
(* because submit() refused plans that could be.                           *)
OutcomeBacked ==
  /\ goal = "canonical" => \A t \in DOMAIN tasks : tasks[t].status = "canonical"
  /\ goal = "failed" => FailureBacked
  /\ goal = "escalated" => EscalationBacked(LastEscalation.task, LastEscalation.why)

(* A task that is canonical stays so: run() called again, after a crash or *)
(* after an escalation, does not reopen finished work.                     *)
CanonicalTaskStays ==
  [][\A t \in DOMAIN tasks :
       tasks[t].status = "canonical" => tasks'[t].status = "canonical"]_vars

(* A task gets a second canonical artifact only through a crash between    *)
(* _promote and the _set_task that follows it.                             *)
SecondCopyNeedsCrash ==
  \A t \in DOMAIN plan : Cardinality(Copies(t)) <= 1 + crashes

(* Artifacts are written, reviewed and promoted only while the goal is     *)
(* marked running: nobody works on a goal that was escalated or failed.    *)
WorkOnlyWhileRunning ==
  [][(artifacts' # artifacts \/ reviews' # reviews) => goal = "running"]_vars

(* A call that is not cut short leaves the goal canonical, escalated or    *)
(* failed, whatever state it found it in.                                  *)
ReturnSettlesGoal ==
  [][\A r \in Runner :
       (~At(r, "idle") /\ run'[r].pc = "idle" /\ crashes' = crashes)
         => goal' \in Settled]_vars

(***************************************************************************)
(* What the documentation says and the code does not do.                   *)
(***************************************************************************)

(* "All retries and revision loops have limits" (ORCHESTRATOR.md:105): a   *)
(* task whose calls were only repeated because they crashed is revised at  *)
(* most max_revisions times.                                               *)
RevisionLimitSurvivesCrash ==
  calls <= 1 + crashes =>
    \A t \in DOMAIN plan : Cardinality(ArtifactsOf(t)) <= MaxRevisions + 1

(***************************************************************************)
(* The inductive invariant behind the properties of any number of runners. *)
(***************************************************************************)
InTask == {"attempt", "produce", "submit", "review", "revise", "reject",
           "canonize"}
WithDraft == {"submit", "review"}

(* Nothing exists before submit(), and the tables refer to each other.     *)
TablesAgree ==
  /\ goal = "none" => DOMAIN plan = {} /\ \A r \in Runner : At(r, "idle")
  /\ \A a \in DOMAIN artifacts : artifacts[a].task \in DOMAIN plan
  /\ \A rv \in reviews : rv.artifact \in DOMAIN artifacts
  /\ \A t \in DOMAIN plan : tasks[t].status = "canonical" => t \in Delivered
  /\ goal = "canonical" => DOMAIN plan \subseteq Delivered

(* The locals of a run() are in keeping with the tables: what it takes for *)
(* completed is delivered, what is not pending is delivered, and the task  *)
(* in hand depends on completed ones only.                                 *)
LocalsSound(me) ==
  /\ me.pending \subseteq DOMAIN plan
  /\ me.completed \subseteq Delivered
  /\ me.pc # "idle" => DOMAIN plan \ me.pending \subseteq Delivered
  /\ me.pc \in {"idle", "completed", "begin"} => me.batch = {}
  /\ me.batch \subseteq me.pending
  /\ \A t \in me.batch : plan[t].deps \subseteq me.completed
  /\ me.pc \in InTask => /\ me.task \in me.batch
                         /\ me.producer \in AgentId
                         /\ me.version >= 1
  /\ me.pc = "canonize" => me.task \in Delivered
  /\ me.pc = "log" => DOMAIN plan \subseteq Delivered

(* Between _artifact and the verdict that ends its review, a runner holds  *)
(* a draft that is its own; the reviews it has so far are approvals of the *)
(* gates already passed, by agents other than the author.                  *)
DraftSound(me) ==
  me.pc \in WithDraft =>
    /\ me.draft \in DOMAIN artifacts
    /\ artifacts[me.draft].task = me.task
    /\ artifacts[me.draft].by = me.producer
    /\ artifacts[me.draft].status = "draft"
    /\ \A rv \in ReviewsOf(me.draft) :
         rv.verdict = "approve" /\ rv.reviewer # me.producer
    /\ me.pc = "review" =>
         /\ me.gate \in Nat \ {0}
         /\ \A i \in DOMAIN plan[me.task].gates : i < me.gate =>
              \E rv \in ReviewsOf(me.draft) : rv.gate = plan[me.task].gates[i]

DraftsApart ==
  \A r, s \in Runner :
    (r # s /\ run[r].pc \in WithDraft /\ run[s].pc \in WithDraft)
      => run[r].draft # run[s].draft

IInv ==
  /\ TypeOK
  /\ TablesAgree
  /\ \A r \in Runner : LocalsSound(run[r]) /\ DraftSound(run[r])
  /\ DraftsApart
  /\ CanonicalArtifactsReviewed

(***************************************************************************)
(* The inductive invariant behind WorkBoundedByCalls, relative to IInv:    *)
(* what calls have written of a task, with what they may still write, is   *)
(* within what they were allowed.                                          *)
(***************************************************************************)
Version == 1..(MaxRevisions + 1)
BeforeTask == {"completed", "begin", "loop"}

(* A run() with these locals may yet write version v of task t.            *)
CanWrite(me, t, v) ==
  /\ t \in me.pending
  /\ \/ me.pc \in BeforeTask
     \/ /\ me.pc \in InTask
        /\ me.task = t => \/ v > me.version
                          \/ v = me.version /\ me.pc \in {"attempt", "produce"}

(* A run() with these locals may yet promote an artifact of task t.        *)
CanPromote(me, t) ==
  /\ t \in me.pending
  /\ \/ me.pc \in BeforeTask
     \/ me.pc \in InTask /\ ~(me.pc = "canonize" /\ me.task = t)

MayWrite(t) == {w \in Runner \X Version : CanWrite(run[w[1]], t, w[2])}
MayPromote(t) == {r \in Runner : CanPromote(run[r], t)}

WritesCovered(t) ==
  Cardinality(ArtifactsOf(t)) + Cardinality(MayWrite(t)) <= calls * (MaxRevisions + 1)

CopiesCovered(t) == Cardinality(Copies(t)) + Cardinality(MayPromote(t)) <= calls

WorkCovered == \A t \in DOMAIN plan : WritesCovered(t) /\ CopiesCovered(t)

(***************************************************************************)
(* The inductive invariant, relative to IInv, behind the properties of a   *)
(* goal without rival runners.                                             *)
(***************************************************************************)
Solo == \A r, s \in Runner : r = s

(* Among any tasks of the plan there is one that needs none of the others. *)
Orderable ==
  /\ \A t \in DOMAIN plan : plan[t].deps \subseteq DOMAIN plan
  /\ \A U \in SUBSET DOMAIN plan :
       U # {} => \E t \in U : plan[t].deps \intersect U = {}

(* What a lone run() knows of the tasks is what the tables say, and what   *)
(* it is about to make of the goal is borne out already.                   *)
LocalsExact(me) ==
  /\ me.pc \in InTask \union {"loop", "escalate", "fail"} => goal = "running"
  /\ me.pc = "log" => goal = "canonical"
  /\ me.pc # "idle" =>
       me.pending = {t \in DOMAIN tasks : tasks[t].status # "canonical"}
  /\ me.pc \notin {"idle", "completed"} =>
       me.completed = {t \in DOMAIN tasks : tasks[t].status = "canonical"}
  /\ me.pc = "reject" => HasVerdict(me.task, "reject")
  /\ me.pc = "fail" => FailureBacked
  /\ me.pc = "escalate" => EscalationBacked(me.task, me.why)

(* The task is canonical, or is about to be: its artifact is promoted.     *)
Concluded(t) ==
  \/ tasks[t].status = "canonical"
  \/ \E r \in Runner : At(r, "canonize") /\ run[r].task = t

CopiesExplained(t) ==
  Cardinality(Copies(t)) <= crashes + IF Concluded(t) THEN 1 ELSE 0

SoloInv ==
  /\ Orderable /\ OutcomeBacked
  /\ \A r \in Runner : LocalsExact(run[r])
  /\ \A t \in DOMAIN plan : CopiesExplained(t)

(***************************************************************************)
(* Why every call of run() comes to an end: the most steps it can still    *)
(* take, when no task of the plan has more than `most` gates.              *)
(***************************************************************************)
PerVersion(most) == most + 6
PerTask(most) == (MaxRevisions + 1) * PerVersion(most)
PerCall(most) == Cardinality(DOMAIN plan) * PerTask(most) + 4

(* What is left of the version in hand.                                    *)
VersionLeft(me, most) ==
  CASE me.pc = "attempt" -> most + 5
    [] me.pc = "produce" -> most + 4
    [] me.pc = "submit"  -> most + 3
    [] me.pc = "review"  -> most + 3 - me.gate
    [] me.pc \in {"canonize", "revise"} -> 1

StepsLeft(me, most) ==
  LET pending == Cardinality(me.pending) IN
  CASE me.pc = "idle"      -> 0
    [] me.pc \in {"log", "escalate", "fail"} -> 1
    [] me.pc = "reject"    -> 2
    [] me.pc = "loop"      -> pending * PerTask(most) + 2
    [] me.pc = "begin"     -> pending * PerTask(most) + 3
    [] me.pc = "completed" -> pending * PerTask(most) + 4
    [] me.pc \in InTask \ {"reject"} ->
         (pending - 1) * PerTask(most)
           + (MaxRevisions + 1 - me.version) * PerVersion(most)
           + VersionLeft(me, most) + 2

GateCounts == {Len(plan[t].gates) : t \in DOMAIN plan} \union {0}
MostGates == CHOOSE n \in GateCounts : \A k \in GateCounts : k <= n

(* A step of a called run() leaves it fewer to take, of a number fixed by  *)
(* the plan when it was called; nothing else changes its locals, but for a *)
(* crash, which ends it.                                                   *)
Shrinks(r, most) ==
  /\ Step(r) => StepsLeft(run'[r], most) < StepsLeft(run[r], most)
  /\ Call(r) => StepsLeft(run'[r], most) <= PerCall(most)
  /\ Call(r) \/ Step(r) \/ run'[r] \in {run[r], IdleRun}

CallsShrink == [][\A r \in Runner : Shrinks(r, MostGates)]_vars

(* The order (priority, id) always singles out one of the ready tasks.     *)
OneTaskFirst ==
  \A r \in Runner : (At(r, "loop") /\ Batch(r) # {}) =>
    \E t \in Batch(r) : FirstOf(Batch(r)) = {t}

(* Gates are taken one after the other, of one of finitely many tasks.     *)
CallBounded ==
  /\ IsFiniteSet(DOMAIN plan)
  /\ \A r \in Runner : At(r, "review") => run[r].gate <= Len(Gates(r)) + 1
==============================================================================
