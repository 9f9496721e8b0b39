# A specification of the OSI orchestrator

TLA+ modules, TLC runs and TLAPS proofs for `src/osi_orchestrator`, a
Python library that runs goals through planning, production, independent
review and approval on top of SQLite.

Everything in this system is a row in a SQLite table. There are no threads in
the library; concurrency comes from several processes (workers, runners, CLI
invocations) that open the same database file, and failure from processes that
die, or executors that raise, between two transactions. What is hard to test is
therefore always the same question: what may others do, and what survives,
between two statements of a function that reads first and writes later.

## 1. Inventory

| component | state | operations | what makes it correct |
|---|---|---|---|
| **Goal orchestrator** `orchestrator.py` | tables goals, tasks, artifacts, reviews, approvals, escalations, events; locals of `run()` | `submit`, `run` (with `_run_task`, `_artifact`, `_save_review`, `_promote`, `_escalate`, `_set_task`, `_set_goal`), `status`, `events` | only independently reviewed drafts become canonical; tasks are delivered in dependency order; a goal is canonical only when its plan is delivered; loops end; work done is not redone; a status is borne out by the other tables |
| **Agent registry and routing** `routing.py` | tables agents, routing_decisions | `register`, `get`, `list_agents`, `route`, `replace` | an agent is eligible, independent of the producer and authorised; selection is deterministic; each decision is recorded |
| **Work queue** `queue.py` | tables queue_items, queue_events | `publish`, `claim`, `acknowledge`, `retry`, `recover_expired` | exclusive leases; bounded attempts; sequence numbers without gaps; an audit history that explains the row; every item settles |
| **Lifecycle state machine** `state_machine.py` | none | `validate`, `transition`, `replay` | canonical only through review; terminal states end |
| **Work item store** `storage.py` | tables work_items, audit_events | `create`, `get`, `append`, `apply_transition`, `rebuild_state`, `verify_snapshot` | the snapshot is the replay of the ledger; streams are walks; a request is applied once |
| **Governance store and institution** `governance.py` | tables governance_budgets, governance_reservations, governance_stop_conditions, founder_escalation_packets | `create_budget`, `add_stop_condition`, `evaluate`, `settle`, `submit_and_run` | budgets are kept; books balance; nothing unfunded is started; an answer is true of the tables |
| **Command line** `cli.py` | none of its own; every invocation writes agents and stop conditions | `init`, `create-budget`, `status`, `events`, `run` | a flagged goal is stopped; the bootstrap staffs the registry; the exit code is true of both stores; money follows work; every invocation ends |
| **Contracts** `contracts.py` | none (frozen data classes) | constructors: defaults, stripping, checks | a contract is typed, normalised and valid, and stays so when rebuilt |
| **Contract codec** `contract_codec.py` | none | `encode_contract`, `decode_contract` | decoding inverts encoding; nothing invalid is decoded |
| Package interface `__init__.py` | none | re-exports | not modelled |

How they interact. `GovernedInstitution.submit_and_run` calls
`GovernanceStore.evaluate`, then `GovernedOrchestrator.submit` and `run`, then
`GovernanceStore.settle`. The command line calls all of it in one process, after
it has filled an empty registry and added the stop conditions. `run` asks the registry for a producer and for a
reviewer at every gate, and calls two executors given as callbacks. The queue
and the work item store stand beside them: no code in `src/` calls them except
their tests and the package interface. All share one database file through
connections of their own.

Hard behaviours, each listed at its line under `hazards` in `PROJECT.json`:

- reads outside the transaction that writes: `queue.py:335`, `storage.py:195`,
  `governance.py:147` and `:175`, `orchestrator.py:156-157`;
- crashes between two transactions that belong together:
  `orchestrator.py:172/173`, `:232/233`, `:241/242`, `governance.py:238-241`;
- calls repeated after a crash: the revision counter is a local
  (`orchestrator.py:206`), a second evaluation reserves again, for another cost
  or on another budget perhaps, while the goal keeps its first row
  (`governance.py:162-169`);
- rivals: two processes running one goal; two workers after one lease;
- the clock: a lease that runs out between check and update, a claim that waits
  for the database (`queue.py:220`);
- the registry changing under a running goal, and between the two reads of one
  `route()` (`routing.py:173` and `:198`);
- an invocation that dies or raises between the stores: after reserving, after
  submitting (a blank title raises only in `run()`, `orchestrator.py:192`),
  before settling, between the two default agents (`cli.py:37-41`).

## 2. Modules

```
Routing <- Orchestrator --implements--> GoalDelivery
                ^-- MCOrchestrator (runs)    ^-- OrchestratorProofs
WorkQueue --implements--> LeaseQueue
                ^-- MCWorkQueue              ^-- WorkQueueProofs
StateMachine <- LifecycleStore --implements--> Lifecycle
                ^-- MCLifecycleStore         ^-- LifecycleProofs
Institution --implements--> GoalFunding
                ^-- MCInstitution            ^-- InstitutionProofs
Routing <- Registry
                ^-- MCRegistry               ^-- RegistryProofs
CommandLine --implements--> Orchestrator and Institution
                ^-- MCCommandLine            ^-- CommandLineProofs (uses OrchestratorProofs)
Contracts <- ContractCodec                   ^-- ContractCodecProofs
Induction <- OrchestratorProofs, LifecycleProofs, RegistryProofs, InstitutionProofs
```

**Granularity.** One action is one committed transaction, or one read of the
database, with the local computation up to the next. A function that checks in
one statement and writes in another is two actions with a per-process record
(`run`, `call`) of where it is and what it read. A crash, and likewise an
exception that leaves the function, drops that record and nothing else.

**Orchestrator** is `GovernedOrchestrator` on one goal, with any number of
runners. `plan` and `tasks` are the payload and the other columns of the tasks
table; an artifact's id is its position. `run[r]` holds the locals of `run()`
and `_run_task`: `pending`, `completed`, the batch of ready tasks being worked
off, the task, its producer, version, draft and gate. The operations are
`Submit`; `Call`, `ReadCompleted`, `Begin` (the three statements before the
loop); `StartTask`/`NoProducer`/`Blocked`; `Attempt`, `Produce`,
`SubmitForReview`, `Review`, `NoReviewer`, `Revise`, `Reject`, `FailGoal`,
`Promote`, `Canonize`, `Escalate`; `FinishGoal`, `LogCompletion`. The verdict is
any of the four, as the review executor decides it. Task events are not kept
(each accompanies the change of its row, in one transaction); goal events are.
Routing decision records are not kept.

**Routing** is the pure part of `route()`: candidates in id order cut at
`max_candidates` before eligibility is looked at, the eight reasons of
`_evaluate`, and the sort key. Scores are ranks; the capability share is the
same for every eligible agent.

**Registry** is `SQLiteAgentRegistry` with callers that route, and replace an
agent that failed, while others register. `route()` is `List` (the SELECT, the
cut, eligibility and sort, from `Routing`), then `Refuse`, or `Reread` (the
second SELECT with `_enforce_authority`, which may end in `Violation`) and
`Record`. A caller passes to `replace` the exclusions it has passed before, as
`replace` itself does for the request it is given.

**GoalDelivery** is what the orchestrator promises: a plan accepted once, tasks
delivered after what they depend on, `canonical` only when all is delivered.
"Delivered" means having a canonical artifact.

**WorkQueue** is `SQLiteWorkQueue`. `publish`, `claim` and `recover_expired`
run in `BEGIN IMMEDIATE` and are one action each; `acknowledge` and `retry` are
`Check` (or `Refuse`) and then `Acknowledge`/`Retry`, whose update has no
condition but the id. Time is a number; a claim works with a time up to
`ClaimDelay` old. A worker handles one item at a time and gives it up when it is
refused. Items are known by their idempotency key.

**LeaseQueue** is a queue whose operations are atomic, without clock or log.

**StateMachine**, **LifecycleStore** and **Lifecycle** are the transition
table, the store, and the lifecycle as a walk. `apply_transition` is `Apply`
(ledger lookup and validation), `Read` (the SELECT, which Python's `sqlite3`
runs before it opens a transaction) and `Write` (UPDATE ... AND version = ?,
INSERT, rollback on either failing). A client names the version it read, and as
the state the one it read or one it takes the item to be in. Items to which somebody appends events
directly are the set `LedgerOnly`; `append` validates nothing, so nothing is
claimed of their streams. They are there because their events take request ids.

**Institution** is `GovernedInstitution` over `GovernanceStore`. `evaluate` is
`Evaluate` (stop conditions), `ReadBudget`, `Reserve`, or `PersistPacket`;
`settle` is `ReadReservation` and `Pay`. Of the orchestrator it keeps what the
institution sees: `submit` refuses a goal it has, `run` ends with a status, and
the caller says what the goal cost in the end, which may be more than estimated.
Nothing binds a goal to one request: whoever asks again may come with another
cost and budget, as the messages at `governance.py:151` and `:157` suggest.
`settle` may be called directly (`CallSettle`), for a goal that is not finished
too, as it does not look. Four variables are history: the request a goal was
submitted with (`orders`), all that was ever reserved for it on each budget
(`grants`), the costs it was settled at (`paid`), and what settlements paid above
the reserved amounts (`overrun`). With
`Serialized` accesses to one budget do not overlap between read and write;
without, they do, as the code allows.

**GoalFunding** is what governance promises about money, without callers, stop
conditions or anybody between a read and a write: a cost is granted while the
budget has it, work that needs funds starts after its cost was granted on its
budget, a goal is paid for once (by `submit_and_run` when it is canonical, or by
whoever settles it directly), and none of this is taken back.

**CommandLine** is `main()` of several invocations on one database, and the
composition: it instantiates Orchestrator and Institution with the parameters
`cli.py` gives them (the default planner, two revisions, executors that always
deliver and approve, settlement at the estimate) and its steps are
`ListAgents`, `RegisterProducer`, `RegisterReviewer`, `AddCondition` (four
times), the commands, and for `run` the steps of the parts in the order
`submit_and_run` takes them; what the institution sees of a goal is now the
orchestrator's own table. One invocation is a `run`: others have goals of their
own under fresh ids, so what they share with it is the registry, the stop
conditions and the budgets. `Raise` is the error for a blank title or
description, `Crash` any other end of the process.

**Contracts** and **ContractCodec** are the data classes and their JSON form.
A contract is a function from field names to values, `Fields` the annotations,
`Construct` the constructor: a set with the one contract it returns or none.
JSON values carry their type, so that a bool is not an int and an id, a time or
an enumeration is a text. `IsEncoding` relates a contract to its documents
(a float field may hold an int), `Decode` is `decode_contract`, as a set of one
result or none; that every error becomes `ContractDecodeError` is left out.
`strip`, `upper`, `UUID`, `fromisoformat` and their inverses are parameters.
Fields are taken to have the annotated types, which the data classes themselves
do not check. These two modules are pure functions without a run: what they
promise is proved.

**Induction** holds facts about numbers and finite sets that the proofs share:
least and greatest numbers, induction on a set of numbers (the library's own
induction theorems take an operator as a parameter, which cannot be
instantiated), and sums over a finite set, in the shape the community modules'
`MapThenSumSet` unfolds to: they exist, it does not matter in which order
one adds, and a sum is covered by another that covers it item by item.

## 3. Runs

| run | what it asks | bounds |
|---|---|---|
| `orch_crash` | one runner, crashes and repeated calls: outcomes borne out (`OutcomeBacked`), finished work kept, every call settles and ends, each step of it leaves fewer to take (`CallsShrink`) | 2 tasks, 3 agents, one of them hired late and one dismissed, 1 revision, 2 calls, 1 crash; plans with a chain, a pair, an ungated task, a cycle, an unknown dependency and a repeated id |
| `orch_race` | two runners on one goal while the producer becomes a reviewer: reviewed artifacts, the inductive invariant, bounded work, delivery in order | 2 runners, a chain of 2 tasks of which the first has a gate, 1 revision, 3 calls (with 3, one runner can set a task back that another took for finished, and that one ends "blocked") |
| `orch_revision_limit` | refuted: the revision limit survives a crash | as `orch_crash` |
| `queue_prompt` | exclusive leases, attempts, gapless numbers, atomicity, when calls keep within their lease | 2 workers, 2 items, conflicting keys and ids, lease of 2 ticks, claim 1 tick late |
| `queue_late` | what is left when they do not: audit trail, bounded overrun, everything settles | 2 workers, 1 item, delays 0 and 1 |
| `queue_exclusive` | refuted: exclusive leases when an update comes late | 2 workers, 1 item |
| `lifecycle` | streams are walks, snapshots replay, canonical through review | 2 clients, which may be wrong about an item's state, 2 items, 3 request ids, 3 transitions |
| `registry` | decisions and refusals are warranted when agents change between the statements of `route()`; a failed agent does not come back; hiring does not make a request fail | 2 callers, 2 agents to begin with, registrations that add a third or change one, requests that look at 2 or 3 candidates, at most 3 versions and 3 calls |
| `institution_serial` | books balance, budgets are kept but for overruns (`LedgerInv`), funding acts as if atomic (`GoalFunding`), work is funded, answers hold | 2 callers, 3 calls; 3 goals, of which one is asked for with two costs on two budgets and also settled directly, one costs more than estimated, one needs no funds; 2 budgets, each with room for one goal at a time or for none of cost 2 |
| `institution_overlap` | refuted: a budget stays within its limit | 2 callers, 2 costly goals |
| `institution_repeat` | refuted: approved costs are covered when a goal is asked for in part and then as a whole | 1 caller, 1 goal, 2 calls |
| `commandline` | a flagged goal never starts; the registry is staffed or was cut short; exit code, goal, log, reservation agree; every invocation ends; both parts are implemented | 2 invocations, of which one is a `run` and the other creates its budget, initialises or asks for the status; each may die anywhere; 6 goals: plain, costly, flagged, with a gate or capability nobody has, with a blank title; a budget too small or not |

Why these bounds are enough to be interesting: two runners, workers, clients or
callers are what an interleaving needs; two calls with a crash in between, or three by two runners, reach
every restart; one revision gives a first draft, a last draft and an exhausted
task; a budget of 3 with two goals of cost 2 grants one and refuses the other,
and grants it again once settled; a lease of two ticks lets an update come
within it, at its end and after. `MaxCalls`, `MaxCrashes`, `MaxVersion` and
`MaxTime` bound counters the code does not bound. Runs say `CHECK_DEADLOCK FALSE`
because a database at rest, with its bounds used up, is a normal end.

**Fairness.** `Orchestrator!FairSpec` has weak fairness of the steps of a called
`run()`: it is sequential code between database calls, each of which is taken to
get through within the 30 s busy timeout. Nothing is assumed of operators,
callers or crashes. `WorkQueue!FairSpec` has weak fairness of the clock, of
`recover_expired` and `claim` (a deployment has to call them, in a loop or from
a timer: nothing in `src/` does) and of a worker that was given an item, which
answers or dies. `CommandLine!FairSpec` has weak fairness of each invocation that
was started: `main()` is sequential code. It need not be started, and may die.

### What the code does otherwise than it says

1. *Revision limit* (`RevisionLimitSurvivesCrash`). `ORCHESTRATOR.md:105`: "All
   retries and revision loops have limits." `_run_task` counts from 1 in each
   call and ignores `tasks.attempts`. The limit that does hold is
   `WorkBoundedByCalls`.
2. *Exclusive leases* (`ExclusiveLeases` in `queue_exclusive`). `queue.py:140`
   promises them; the update of `_finish` and `retry` comes with no condition on
   owner or lease. Late, either clears the lease of the worker that has claimed
   the item since; after a late retry the item is ready as well, and a third
   worker may get it while the second is at it. What still holds is `AuditTrail`,
   `OverrunBounded` and `SettlesForGood`.
3. *Budgets* (`WithinLimit` in `institution_overlap`). `contracts.py:296`:
   "Budget commitments exceed limit"; `ORCHESTRATOR.md:104`: "No material action
   proceeds beyond approved budget or authority." `evaluate` reads the balance
   outside the reserving transaction.
4. *Repeated goals* (`ApprovalCovers` in `institution_repeat`), of the same
   sentence of `ORCHESTRATOR.md:104`, and without a rival: `INSERT OR IGNORE`
   (`governance.py:166`) keeps the reservation of a call that died, so a goal
   asked for again with more, as `governance.py:151` and `:157` tell callers who
   were refused to do with another budget or scope, is settled by its old row: the
   first amount comes back, the actual cost goes, and the second grant stays
   reserved. What holds is that the goal at work has its cost on its budget
   (`WorkIsFunded`) and what the totals are instead (`BooksBalance`).

Three more, which no run refutes because the model says what the code does.
`ORCHESTRATOR.md:59`, "Records every consequential state transition and decision
basis": a rejection sets the goal to failed without an event
(`orchestrator.py:233`). The
docstring of `NoEligibleAgent` (`routing.py:22`), "Raised when governance and
capability filtering leaves no candidate", holds only among the first `max_candidates` agents by
id: `RefusalsWarranted` says which agents are overlooked. And `README.md:48` of
the repository, "install the default demonstration producer and reviewer": an
invocation that dies between the two registrations leaves a registry that is not
empty, so no later `init` adds the reviewer, and every `run` escalates;
`StaffedOrCutShort` says that nothing else leads there.

## 4. Proofs

All for every value of the constants: any number of runners, workers, clients,
callers, any plan, registry, limit and bound.

- `OrchestratorProofs`, for any number of runners. `IInv` is inductive.
  `CanonicalArtifactsReviewed` alone
  is not: to know that the draft being promoted was approved at *every* gate,
  one needs that a runner's draft is its own (`DraftsApart`), that its reviews
  so far are approvals of the gates passed (`DraftSound`), and that tables refer
  to each other (`TablesAgree`). For `RunsDeliverThePlan` one needs that what a
  runner takes for completed is delivered, even when a rival has set the task
  back (`LocalsSound`): delivered means having a canonical artifact, and that is
  never undone. One lemma per action, then the refinement step by step.
  `WorkIsBounded`, for finitely many runners, is a matter of accounting: for
  every task, the artifacts written and the versions runners may still write are
  together within what the calls so far allow (`WorkCovered`, relative to `IInv`).
- `OrchestratorProofs`, under `Solo`: there is one runner, which may crash, be
  called again and have the registry changed under it. `SoloInv`, relative to
  `IInv`, says that what the runner holds of the tasks is what the table says
  (`LocalsExact`); that a second canonical artifact is accounted for by a crash
  (`CopiesExplained`); and that among any tasks of an accepted plan one needs
  none of the others (`Orderable`), which is why `run()` never ends "blocked". From it:
  `OutcomesAreBacked`, `OnlyCrashesDuplicate`, `FinishedWorkStaysFinished`,
  `WorkWhileRunning`, `ReturnSettles`.
- `OrchestratorProofs`, on the loops. `EveryStepCounts`: a call of `run()` on n
  tasks of at most m gates takes at most n * (`max_revisions` + 1) * (m + 6) + 4
  steps, by a measure of the tasks pending, the versions left of the task in hand
  and the gates left of the version. That the measure covers a call at all needs
  that it never looks past the last gate (`CallBounded`). `OneTaskIsFirst`:
  the key (priority, id) singles out one of the ready tasks, so a call is never
  without a next step for want of one. `ValidationIsExact`: `_validate_plan`
  accepts a plan if and only if its ids are distinct, its dependencies known, and
  among any of its tasks one needs none of the others (by induction over the
  passes; the other way, the tasks never reached would all wait for each other).
- `WorkQueueProofs`. Type correctness, gapless numbering, a truthful history and
  a bounded overrun hold without assumption on how long a call takes (the last
  for finitely many workers: by `OverrunInView` there can be no more claims past
  the limit than there are calls past their check with an old attempt count).
  With it, `HistoryIsBounded`: the events of an item, the workers that still have
  a grant of it and the lease are together at most three for each claim, and one
  (`HistoryInView`), so that late answers, recoveries and claims cannot go on
  answering each other. The rest is under `PromptCalls`: a call commits before the
  lease it checked runs out, the assumption under which the missing condition of
  the update does no harm.
  `QInv` says that a grant which is not over is the row's lease, that a call past
  its check is within it and knows the attempt count, and that ready items have
  attempts left. From it: exclusive leases, bounded attempts, and
  `QueueActsAtomically`, the refinement of `LeaseQueue`.
- `LifecycleProofs`. `LInv`: a stream is a chain of valid transitions ending in
  the item's state, the version counts it, a request has one event, and an item
  that still has the version a caller read has the state it read. From it, the
  refinement of `Lifecycle`; `CanonicalIsReviewed`; and, by induction over the
  stream, that replaying it gives the snapshot (`SnapshotsReplay`). No assumption
  but the types of the constants and
  that the items of `LedgerOnly` are not changed through `apply_transition`.
- `RegistryProofs`. `RInv`: what a caller holds was listed from a table that was
  current then. From it, that recorded decisions are warranted, refusals
  overlook only agents beyond the cut, replacements are new, and an additional
  agent does no harm while the table fits `max_candidates`. `RoutingDecides`: of
  the eligible candidates one, and only one, comes first.
- `CommandLineProofs`. The composition implements both parts, so what is proved
  of the orchestrator carries over (`GoalIsReviewed` and `GoalIsBacked` use
  `OrchestratorProofs` through an instance of it). `CInv` in two layers: what
  `main()` keeps
  (`MainInv`: the registry fills up in order, whoever is past its loop has its
  conditions in the table) is inductive by itself; that a call past the stop
  conditions is for an unflagged goal, and that `run()` works only inside
  `submit_and_run` (`CallInv`), is inductive relative to it and to the
  orchestrator's typing. `RunInv`, relative to both, follows the one run through
  the two stores: what each stage has left in the tables (`StagesAgree`), what
  the answer, the log and the exit code stand for (`OutcomeKnown`), and where the
  money is (`AccountsKept`). `ExitIsTrue` and `MoneyFollowsWork` follow with what
  `IInv` says of a canonical goal. `InvocationsUseUpTheirSteps`: the stages of
  `main()`, of `submit_and_run` and, by the orchestrator's own measure, of `run()`
  are passed in one direction; an invocation takes at most
  (`max_revisions` + 1) * (m + 6) + 20 steps for m gates, and no other adds any.
- `ContractCodecProofs`, from `Conversions`, the facts about the conversions of
  the language: `strip` and `upper` are idempotent and undo nothing of each
  other, and parsing inverts printing. Scalars, then lists and objects item by
  item, then fields, then the constructor, which accepts and leaves alone what
  it once returned.
- `InstitutionProofs`, under `Serialized`, for any requests, repeated in whatever
  form. `BInv` and with it `WithinLimit`.
  Settlements above the reserved amount are counted in `overrun`, and the limit is
  exceeded by no more. `WithinLimit` alone is not inductive: `Reserve` acts on a
  balance read earlier, so `FundsKept` says it is still there and that nobody
  else is about to take it or to pay from the same budget, whichever that is by
  the goal's row (`RowsMatch`). `LedgerInv` adds that
  whoever is about to pay for a goal is the only one and finds its reservation
  open (`PayersAlone`), that a goal has been paid for once if its row is settled
  and not at all otherwise (`PaidOnce`), and that a row is for no more than was
  granted (`RowsGranted`). From it,
  `BooksBalanced`, with the sums of Induction for those of the community module:
  each step adds to a total what it adds to one row. `FundingKept`: a goal being
  worked on has had its cost granted on its budget, for its amount is reserved
  there whatever row it has; and the total covers all such goals together,
  because what was granted less the settled rows does (`SetSumCovers`). And
  `FundingIsAtomic`, the refinement of `GoalFunding`, step by step.
- `InstitutionProofs`, whether accesses overlap or not. That answers hold, and
  that each goal was granted its cost before it was submitted (`AInv`). How far
  finding 3 can go,
  `OvershootLimited`: with n callers and no request above `most`, a budget is
  committed at most (n - 1) * `most` beyond its limit, overruns apart, because of
  the callers about to reserve the one that read last still finds its funds
  (`OvershootInv`). And how far overlapping settlements can:
  `PaymentsLimited`, that each of n callers pays for a goal once at most, since
  none finds the reservation open after the first has paid (`PaymentsInv`).

Only model-checked: liveness. `EveryCallReturns`, `SettlesForGood` and
`EveryInvocationEnds` need `ENABLED`, which is out of the provers' reach. What is
proved of each is that it cannot fail by going on forever: `EveryStepCounts` and
`OneTaskIsFirst` of a call of `run()`, `InvocationsUseUpTheirSteps` of an
invocation, `HistoryIsBounded` of an item in the queue; that it does not stop
midway either is what TLC adds. Contracts and codec, the other way round, are
only proved: what they promise, round trip and soundness, is about all values of
all fields.

## 5. Not modelled

The package interface (re-exports). Output of the command line, and its `events`
command, which only reads. `Budget.available`. Wording, hashes, ids, metadata, payloads. The text of timestamps: times are
numbers, so comparisons of ISO strings with different offsets are not covered.
SQLite itself: a transaction is atomic, isolated and durable, and a busy
database is a call that fails. Currencies and `hard_stop`, which `evaluate` never
reads. Floats: costs are natural numbers, and in the contracts numbers are exact
multiples of a unit, so rounding, infinities, NaN and the `OverflowError` of a
huge integer in a float field, which leaves `decode_contract` as it is, are not
covered. Contracts built with fields of other types than annotated.

## 6. Plan

Done, in order of importance: orchestrator with routing and its abstract
specification; queue and its abstract specification; store and lifecycle;
governance; registry; the command line as the composition; contracts and codec;
inductive invariants and refinements.

Left for a later extension: several `run` invocations on one budget, which the
composition leaves to `institution_overlap`; more of what is proved of the
orchestrator and the institution carried over to the command line by its
refinement; timestamps as text.
