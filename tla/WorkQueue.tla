------------------------------- MODULE WorkQueue -------------------------------
(***************************************************************************)
(* SQLiteWorkQueue (queue.py) used by several workers, each with its own   *)
(* connection to the database.                                             *)
(*                                                                         *)
(* publish, claim and recover_expired do all their work in one             *)
(* transaction (BEGIN IMMEDIATE), so each is one action.  acknowledge and  *)
(* retry are two: they read the row and check the lease outside any        *)
(* transaction, and update it later, by id alone.  Between the two the     *)
(* clock runs and other workers go on.                                     *)
(*                                                                         *)
(* Time is a counter.  A worker handles one item at a time.                *)
(***************************************************************************)
EXTENDS Naturals, Sequences, FiniteSets

CONSTANTS
  Key,         \* idempotency keys; a published item is known by its key
  Work,        \* work items that published events belong to
  Worker,
  NoKey, NoWorker,
  Envelopes,   \* what publishers try to publish: [key, id, work] records
  Limits,      \* values of max_attempts
  Delays,      \* delays of publication (available_at) and of retry
  LeaseTime,   \* lease_seconds
  ClaimDelay,  \* bound: how long claim may wait for the database
  PromptCalls, \* whether acknowledge and retry always commit before the lease
               \* they checked runs out
  MaxTime      \* bound: how far the clock runs when nothing waits for it

ASSUME KeyAssumption == NoKey \notin Key /\ NoWorker \notin Worker
ASSUME EnvelopeAssumption ==
  \A e \in Envelopes : e.key \in Key /\ e.work \in Work
ASSUME TimeAssumption ==
  /\ Limits \subseteq Nat \ {0} /\ Delays \subseteq Nat
  /\ LeaseTime \in Nat \ {0} /\ ClaimDelay \in Nat /\ MaxTime \in Nat
  /\ PromptCalls \in BOOLEAN

VARIABLES
  now,    \* the clock
  items,  \* queue_items: key of each published item -> its row
  log,    \* queue_events: key -> the item's events, oldest first
  grant,  \* per worker: the item claim gave it and the end of that lease
  call    \* per worker: the call it is in between its check and its update,
          \* with the time and the attempt count it read

vars == <<now, items, log, grant, call>>

NoGrant == [item |-> NoKey, until |-> 0]
Idle == [op |-> "idle", stamp |-> 0, attempts |-> 0]

Terminal == {"acknowledged", "dead_letter"}

Init ==
  /\ now = 0
  /\ items = << >> /\ log = << >>
  /\ grant = [w \in Worker |-> NoGrant]
  /\ call = [w \in Worker |-> Idle]

Record(k, kind, attempts) ==
  log' = [log EXCEPT ![k] = Append(@, [kind |-> kind, attempts |-> attempts])]

(***************************************************************************)
(* publish: the next work_sequence of the work item; a key or an event id  *)
(* that is already there violates a UNIQUE constraint and nothing happens. *)
(***************************************************************************)
Siblings(work) == {k \in DOMAIN items : items[k].work = work}

(* COALESCE(MAX(work_sequence), 0): a set of one number.                   *)
LastSequence(work) ==
  {n \in {0} \union {items[k].seq : k \in Siblings(work)} :
     \A k \in Siblings(work) : items[k].seq <= n}

(* Mutant of Fresh: a conflict replaces the row.                           *)
ReplaceOnConflict(e) == TRUE

Fresh(e) == e.key \notin DOMAIN items /\ \A k \in DOMAIN items : items[k].id # e.id

Publish(e, limit, delay) ==
  /\ Fresh(e)
  /\ \E last \in LastSequence(e.work) :
       items' = [k \in DOMAIN items \union {e.key} |->
         IF k = e.key
         THEN [id |-> e.id, work |-> e.work, seq |-> last + 1,
               status |-> "ready", attempts |-> 0, limit |-> limit,
               available |-> now + delay, created |-> now,
               owner |-> NoWorker, until |-> 0]
         ELSE items[k]]
  /\ log' = [k \in DOMAIN items \union {e.key} |->
       IF k = e.key THEN <<[kind |-> "published", attempts |-> 0]>> ELSE log[k]]
  /\ UNCHANGED <<now, grant, call>>

(***************************************************************************)
(* claim: "stamp" is the time it read before it got the database.  Ties in *)
(* (work_sequence, created_at) are broken by a random id.                  *)
(***************************************************************************)
(* Mutant of Claimable: leased items are offered again.                    *)
ClaimableLeased(stamp) ==
  {k \in DOMAIN items : items[k].status \notin Terminal /\ items[k].available <= stamp}

Claimable(stamp) ==
  {k \in DOMAIN items : items[k].status = "ready" /\ items[k].available <= stamp}

First(keys) ==
  {k \in keys : \A j \in keys :
     \/ items[k].seq < items[j].seq
     \/ items[k].seq = items[j].seq /\ items[k].created <= items[j].created}

Claim(w, stamp) ==
  /\ grant[w] = NoGrant
  /\ \E k \in First(Claimable(stamp)) :
       /\ items' = [items EXCEPT ![k].status = "leased",
                                 ![k].attempts = @ + 1,
                                 ![k].owner = w,
                                 ![k].until = stamp + LeaseTime]
       /\ Record(k, "claimed", items[k].attempts + 1)
       /\ grant' = [grant EXCEPT ![w] = [item |-> k, until |-> stamp + LeaseTime]]
  /\ UNCHANGED <<now, call>>

(***************************************************************************)
(* acknowledge and retry: get and _require_lease first.                    *)
(***************************************************************************)
(* Mutant of HoldsLease: the end of the lease is not looked at.            *)
OwnsItem(w) ==
  items[grant[w].item].status = "leased" /\ items[grant[w].item].owner = w

HoldsLease(w) ==
  LET row == items[grant[w].item] IN
    row.status = "leased" /\ row.owner = w /\ row.until > now

Check(w, op) ==
  /\ grant[w] # NoGrant /\ call[w] = Idle
  /\ HoldsLease(w)
  /\ call' = [call EXCEPT ![w] =
                [op |-> op, stamp |-> now,
                 attempts |-> items[grant[w].item].attempts]]
  /\ UNCHANGED <<now, items, log, grant>>

(* LeaseConflictError: the worker has lost the item and lets it go.        *)
Refuse(w) ==
  /\ grant[w] # NoGrant /\ call[w] = Idle
  /\ ~HoldsLease(w)
  /\ grant' = [grant EXCEPT ![w] = NoGrant]
  /\ UNCHANGED <<now, items, log, call>>

Return(w) ==
  /\ grant' = [grant EXCEPT ![w] = NoGrant]
  /\ call' = [call EXCEPT ![w] = Idle]

(* Then the update, WHERE id = ? and no other condition, and the event.    *)
Acknowledge(w) ==
  LET k == grant[w].item IN
  /\ call[w].op = "acknowledge"
  /\ items' = [items EXCEPT ![k].status = "acknowledged",
                            ![k].owner = NoWorker, ![k].until = 0]
  /\ Record(k, "acknowledged", call[w].attempts)
  /\ Return(w)
  /\ UNCHANGED now

Retry(w, delay) ==
  LET k == grant[w].item
      terminal == call[w].attempts >= items[k].limit
  IN
  /\ call[w].op = "retry"
  /\ items' = [items EXCEPT
       ![k].status = IF terminal THEN "dead_letter" ELSE "ready",
       ![k].available = call[w].stamp + delay,
       ![k].owner = NoWorker, ![k].until = 0]
  /\ Record(k, IF terminal THEN "dead_lettered" ELSE "retried", call[w].attempts)
  /\ Return(w)
  /\ UNCHANGED now

(***************************************************************************)
(* recover_expired, called with a time that has come.                      *)
(***************************************************************************)
(* Mutants of Expired: leases end one tick early; items without attempts   *)
(* left are passed over.                                                   *)
ExpiredEarly(stamp) ==
  {k \in DOMAIN items : items[k].status = "leased" /\ items[k].until <= stamp + 1}
ExpiredRetryable(stamp) ==
  {k \in DOMAIN items : /\ items[k].status = "leased" /\ items[k].until <= stamp
                        /\ items[k].attempts < items[k].limit}

Expired(stamp) ==
  {k \in DOMAIN items : items[k].status = "leased" /\ items[k].until <= stamp}

(* Mutants of UsedUp: one attempt too many; blind to a passed limit.       *)
UsedUpLate(k) == items[k].attempts > items[k].limit
UsedUpExactly(k) == items[k].attempts = items[k].limit

UsedUp(k) == items[k].attempts >= items[k].limit

(* Mutant of RecoveryKind: a dead item is logged as recovered.             *)
AlwaysRecovered(k) == "lease_recovered"

RecoveryKind(k) == IF UsedUp(k) THEN "dead_lettered" ELSE "lease_recovered"

Recover(stamp) ==
  /\ Expired(stamp) # {}
  /\ items' = [k \in DOMAIN items |->
       IF k \in Expired(stamp)
       THEN [items[k] EXCEPT !.status = IF UsedUp(k) THEN "dead_letter" ELSE "ready",
                             !.owner = NoWorker, !.until = 0]
       ELSE items[k]]
  /\ log' = [k \in DOMAIN items |->
       IF k \in Expired(stamp)
       THEN Append(log[k],
              [kind |-> RecoveryKind(k), attempts |-> items[k].attempts])
       ELSE log[k]]
  /\ UNCHANGED <<now, grant, call>>

(***************************************************************************)
(* Workers die, and time passes.                                           *)
(***************************************************************************)
Crash(w) == grant[w] # NoGrant /\ Return(w) /\ UNCHANGED <<now, items, log>>

(* The clock stops at MaxTime unless a lease or a delay is still running.  *)
Waiting(k) ==
  \/ items[k].status = "leased" /\ items[k].until > now
  \/ items[k].status = "ready" /\ items[k].available > now

Tick ==
  /\ now < MaxTime \/ \E k \in DOMAIN items : Waiting(k)
  /\ PromptCalls =>
       \A w \in Worker : call[w] # Idle => now + 1 < grant[w].until
  /\ now' = now + 1
  /\ UNCHANGED <<items, log, grant, call>>

Stamps == {t \in 0..now : t + ClaimDelay >= now}

ClaimSome(w) == \E stamp \in Stamps : Claim(w, stamp)
Commit(w) == Acknowledge(w) \/ \E delay \in Delays : Retry(w, delay)
Respond(w) ==
  \/ \E op \in {"acknowledge", "retry"} : Check(w, op)
  \/ Refuse(w)
  \/ Commit(w)

Next ==
  \/ \E e \in Envelopes, limit \in Limits, delay \in Delays : Publish(e, limit, delay)
  \/ \E w \in Worker : ClaimSome(w) \/ Respond(w) \/ Crash(w)
  \/ \E stamp \in Stamps : Recover(stamp)
  \/ Tick

Spec == Init /\ [][Next]_vars

(* Somebody keeps calling recover_expired and claim, and a worker that was *)
(* given an item answers unless it dies.                                   *)
FairSpec ==
  /\ Spec
  /\ WF_vars(Tick)
  /\ WF_vars(Recover(now))
  /\ WF_vars(\E w \in Worker : Claim(w, now))
  /\ \A w \in Worker : WF_vars(Respond(w) \/ Crash(w))

(***************************************************************************)
(* Properties.                                                             *)
(***************************************************************************)
Status == {"ready", "leased"} \union Terminal
Kind == {"published", "claimed", "acknowledged", "retried", "dead_lettered",
         "lease_recovered"}

ItemRow == [id: {e.id : e \in Envelopes}, work: Work, seq: Nat, status: Status,
            attempts: Nat, limit: Limits, available: Nat, created: Nat,
            owner: Worker \union {NoWorker}, until: Nat]

(* Every row, event and local is well typed, an item has an owner and a    *)
(* lease exactly while it is leased, and a call in progress has a grant.   *)
TypeOK ==
  /\ now \in Nat
  /\ DOMAIN items \subseteq Key
  /\ items \in [DOMAIN items -> ItemRow]
  /\ \A k \in DOMAIN items : items[k].owner \in Worker <=> items[k].status = "leased"
  /\ log \in [DOMAIN items -> Seq([kind: Kind, attempts: Nat])]
  /\ grant \in [Worker -> [item: DOMAIN items, until: Nat] \union {NoGrant}]
  /\ call \in [Worker -> [op: {"idle", "acknowledge", "retry"}, stamp: Nat,
                          attempts: Nat]]
  /\ \A w \in Worker : call[w].op # "idle" => grant[w] # NoGrant

Holds(w, k) == grant[w].item = k /\ grant[w].until > now

(* "Exclusive leases" (queue.py:140): no two workers are told at once that *)
(* an item is theirs.                                                      *)
ExclusiveLeases ==
  \A k \in DOMAIN items : \A v, w \in Worker : Holds(v, k) /\ Holds(w, k) => v = w

(* An item is handed out at most max_attempts times (queue.py:169).        *)
AttemptsWithinLimit == \A k \in DOMAIN items : items[k].attempts <= items[k].limit

(* Through late updates the count can pass the limit, by one attempt for   *)
(* each other worker that read the row while attempts were left.           *)
OverrunBounded ==
  \A k \in DOMAIN items :
    items[k].attempts <= items[k].limit + Cardinality(Worker) - 1

StateOf(status) ==
  CASE status = "ready" -> "ready"
    [] status = "leased" -> "leased"
    [] status = "acknowledged" -> "done"
    [] status = "dead_letter" -> "dead"

LeaseRow(k) ==
  IF k \in DOMAIN items
  THEN [state |-> StateOf(items[k].status), attempts |-> items[k].attempts,
        limit |-> items[k].limit, owner |-> items[k].owner]
  ELSE [state |-> "absent", attempts |-> 0, limit |-> 0, owner |-> NoWorker]

LeaseRows == [k \in Key |-> LeaseRow(k)]

Leases == INSTANCE LeaseQueue WITH row <- LeaseRows

(* As long as no call outlives the lease it checked, the unconditional     *)
(* updates act as if they were conditional: the queue behaves like one     *)
(* whose every operation is atomic.                                        *)
ActsAtomically == Leases!Spec

ClaimsIn(events) == {i \in DOMAIN events : events[i].kind = "claimed"}

(* Claims are numbered in order.                                           *)
Numbered(events) ==
  \A i \in ClaimsIn(events) :
    events[i].attempts = Cardinality({j \in ClaimsIn(events) : j <= i})

KindsOf(status) ==
  CASE status = "ready" -> {"published", "retried", "lease_recovered"}
    [] status = "leased" -> {"claimed"}
    [] status = "acknowledged" -> {"acknowledged"}
    [] status = "dead_letter" -> {"dead_lettered"}

Audited(k) ==
  /\ log[k][Len(log[k])].kind \in KindsOf(items[k].status)
  /\ Cardinality(ClaimsIn(log[k])) = items[k].attempts
  /\ Numbered(log[k])

(* The audit history tells the state of an item: the last event names its  *)
(* status, and there are as many claims in it as attempts were counted,    *)
(* numbered in order, whoever interfered.                                  *)
AuditTrail == \A k \in DOMAIN items : Audited(k)

(* The items of a work item are numbered 1, 2, 3, ... whatever the order   *)
(* of publishers and however many publications were refused.               *)
SequenceGapless ==
  \A work \in Work :
    {items[k].seq : k \in Siblings(work)} = 1..Cardinality(Siblings(work))

(* Every published item is acknowledged or dead in the end, for good, even *)
(* when workers die with it or write to it late.                           *)
SettlesForGood ==
  \A k \in Key :
    (k \in DOMAIN items) ~> [](k \in DOMAIN items /\ items[k].status \in Terminal)

(***************************************************************************)
(* The inductive invariant for calls that keep their leases.               *)
(***************************************************************************)

(* A worker's grant and its item agree: the row, while it names the worker *)
(* as owner, has the grant's end of lease; until then it does name it; and *)
(* a call past its check is within the lease and knows the attempt count.  *)
GrantGood(w) ==
  LET row == items[grant[w].item] IN
  /\ row.owner = w => row.until = grant[w].until
  /\ grant[w].until > now => row.owner = w

CallGood(w) ==
  /\ grant[w].until > now
  /\ call[w].attempts = items[grant[w].item].attempts

LeasesHeld ==
  \A w \in Worker :
    /\ grant[w] # NoGrant => GrantGood(w)
    /\ call[w].op # "idle" => CallGood(w)

AttemptsLeft ==
  \A k \in DOMAIN items :
    /\ items[k].attempts <= items[k].limit
    /\ items[k].status = "ready" => items[k].attempts < items[k].limit

QInv == TypeOK /\ LeasesHeld /\ AttemptsLeft

(***************************************************************************)
(* The inductive invariant behind OverrunBounded, for calls of any length. *)
(***************************************************************************)

(* Calls that read the row while there were attempts left, and may still   *)
(* make the item ready although there are none.                            *)
Stale(k) ==
  {w \in Worker : call[w].op # "idle" /\ grant[w].item = k
                  /\ call[w].attempts < items[k].limit}

(* Each such call is good for one more claim; an item that is ready again  *)
(* has used one of them up.                                                *)
OverrunInView ==
  \A k \in DOMAIN items : items[k].attempts >= items[k].limit =>
    items[k].attempts + Cardinality(Stale(k))
      + (IF items[k].status = "ready" THEN 1 ELSE 0)
      < items[k].limit + Cardinality(Worker)
(***************************************************************************)
(* How long the history of an item can get, for calls of any length.       *)
(***************************************************************************)

(* Every claim leads to at most two events more, however late its worker   *)
(* answers: the recovery of its lease, and the answer.                     *)
HistoryBounded ==
  \A k \in DOMAIN items :
    Len(log[k]) <= 3 * (items[k].limit + Cardinality(Worker)) - 2

Holders(k) == {w \in Worker : grant[w].item = k}

(* An answer may still come of every worker with a grant, and a recovery   *)
(* while the item is leased.                                               *)
HistoryInView ==
  \A k \in DOMAIN items :
    Len(log[k]) + Cardinality(Holders(k)) + (IF items[k].status = "leased" THEN 1 ELSE 0)
      <= 1 + 3 * items[k].attempts
==============================================================================
