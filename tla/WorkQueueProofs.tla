---------------------------- MODULE WorkQueueProofs ----------------------------
(***************************************************************************)
(* Proofs about WorkQueue, for any workers, items, limits, delays and      *)
(* lease time: leases and attempts when no call outlives the lease it      *)
(* checked; history, numbering and the overrun of attempts however long    *)
(* calls take.                                                             *)
(***************************************************************************)
EXTENDS WorkQueue, FiniteSetTheorems, SequenceTheorems, TLAPS

(* The type of a grant, taken apart.                                       *)
LEMMA GrantFacts ==
  ASSUME TypeOK, NEW w \in Worker, grant[w] # NoGrant
  PROVE  /\ grant[w].item \in DOMAIN items /\ grant[w].until \in Nat
         /\ items[grant[w].item] \in ItemRow
  BY DEF TypeOK

LEMMA BusyHasGrant ==
  ASSUME TypeOK, NEW w \in Worker, call[w].op # "idle"
  PROVE  grant[w] # NoGrant
  BY DEF TypeOK

(***************************************************************************)
(* Types.                                                                  *)
(***************************************************************************)
LEMMA LastSequenceNat ==
  ASSUME TypeOK, NEW work
  PROVE  LastSequence(work) \subseteq Nat
  BY DEF TypeOK, LastSequence, Siblings, ItemRow

LEMMA InitType == Init => TypeOK
<1> SUFFICES ASSUME Init PROVE TypeOK
  OBVIOUS
<1>1. DOMAIN items = {} /\ log = << >> /\ items = << >>
  BY DEF Init
<1>2. items \in [DOMAIN items -> ItemRow]
  BY <1>1
<1>3. log \in [DOMAIN items -> Seq([kind: Kind, attempts: Nat])]
  BY <1>1
<1> QED
  BY <1>1, <1>2, <1>3 DEF Init, TypeOK, NoGrant, Idle

LEMMA PublishType ==
  ASSUME TypeOK, NEW e \in Envelopes, NEW limit \in Limits, NEW delay \in Delays,
         Publish(e, limit, delay)
  PROVE  TypeOK'
<1>1. PICK last \in LastSequence(e.work) :
        items' = [k \in DOMAIN items \union {e.key} |->
          IF k = e.key
          THEN [id |-> e.id, work |-> e.work, seq |-> last + 1,
                status |-> "ready", attempts |-> 0, limit |-> limit,
                available |-> now + delay, created |-> now,
                owner |-> NoWorker, until |-> 0]
          ELSE items[k]]
  BY DEF Publish
<1> DEFINE new == [id |-> e.id, work |-> e.work, seq |-> last + 1,
                   status |-> "ready", attempts |-> 0, limit |-> limit,
                   available |-> now + delay, created |-> now,
                   owner |-> NoWorker, until |-> 0]
<1>2. new \in ItemRow
  <2>1. last \in Nat /\ now \in Nat /\ delay \in Nat /\ e.work \in Work
    BY LastSequenceNat, EnvelopeAssumption, TimeAssumption DEF TypeOK
  <2> QED
    BY <2>1 DEF ItemRow, Status
<1>3. /\ DOMAIN items' = DOMAIN items \union {e.key} /\ DOMAIN items' \subseteq Key
      /\ items' \in [DOMAIN items' -> ItemRow]
  BY <1>1, <1>2, EnvelopeAssumption DEF TypeOK
<1>4. \A k \in DOMAIN items' : items'[k].owner \in Worker <=> items'[k].status = "leased"
  BY <1>1, KeyAssumption DEF TypeOK
<1>5. log' \in [DOMAIN items' -> Seq([kind: Kind, attempts: Nat])]
  <2>1. <<[kind |-> "published", attempts |-> 0]>> \in Seq([kind: Kind, attempts: Nat])
    BY DEF Kind
  <2> QED
    BY <1>3, <2>1 DEF Publish, TypeOK
<1>6. grant' \in [Worker -> [item: DOMAIN items', until: Nat] \union {NoGrant}]
  BY <1>3 DEF Publish, TypeOK
<1> QED
  BY <1>3, <1>4, <1>5, <1>6 DEF Publish, TypeOK

(* Changing one row and adding one event to it.                            *)
LEMMA UpdateType ==
  ASSUME TypeOK, NEW k \in DOMAIN items, NEW row \in ItemRow,
         row.owner \in Worker <=> row.status = "leased",
         items' = [items EXCEPT ![k] = row],
         NEW kind \in Kind, NEW n \in Nat, Record(k, kind, n)
  PROVE  /\ DOMAIN items' = DOMAIN items
         /\ items' \in [DOMAIN items' -> ItemRow]
         /\ \A j \in DOMAIN items' :
              items'[j].owner \in Worker <=> items'[j].status = "leased"
         /\ log' \in [DOMAIN items' -> Seq([kind: Kind, attempts: Nat])]
<1>1. DOMAIN items' = DOMAIN items /\ items' \in [DOMAIN items' -> ItemRow]
  BY DEF TypeOK
<1>2. \A j \in DOMAIN items' : items'[j].owner \in Worker <=> items'[j].status = "leased"
  BY DEF TypeOK
<1>3. Append(log[k], [kind |-> kind, attempts |-> n]) \in Seq([kind: Kind, attempts: Nat])
  <2>1. log[k] \in Seq([kind: Kind, attempts: Nat])
    BY DEF TypeOK
  <2> QED
    BY <2>1, AppendProperties
<1>4. log' \in [DOMAIN items' -> Seq([kind: Kind, attempts: Nat])]
  BY <1>1, <1>3 DEF TypeOK, Record
<1> QED
  BY <1>1, <1>2, <1>4

LEMMA ClaimType ==
  ASSUME TypeOK, NEW w \in Worker, NEW stamp \in Stamps, Claim(w, stamp)
  PROVE  TypeOK'
<1>1. PICK k \in First(Claimable(stamp)) :
        /\ items' = [items EXCEPT ![k].status = "leased",
                                  ![k].attempts = @ + 1,
                                  ![k].owner = w,
                                  ![k].until = stamp + LeaseTime]
        /\ Record(k, "claimed", items[k].attempts + 1)
        /\ grant' = [grant EXCEPT ![w] = [item |-> k, until |-> stamp + LeaseTime]]
  BY DEF Claim
<1> DEFINE row == [items[k] EXCEPT !.status = "leased", !.attempts = @ + 1,
                                   !.owner = w, !.until = stamp + LeaseTime]
<1>2. stamp + LeaseTime \in Nat /\ k \in DOMAIN items /\ items[k] \in ItemRow
  <2>1. k \in DOMAIN items
    BY DEF First, Claimable
  <2> QED
    BY <2>1, TimeAssumption DEF Stamps, TypeOK
<1>3. row \in ItemRow /\ row.owner \in Worker /\ row.status = "leased"
      /\ items[k].attempts + 1 \in Nat
  <2>1. items[k].attempts \in Nat /\ items[k].attempts + 1 \in Nat
    BY <1>2 DEF ItemRow
  <2>2. row \in ItemRow
    BY <1>2, <2>1 DEF ItemRow, Status
  <2>3. row.owner = w /\ row.status = "leased"
    BY <1>2 DEF ItemRow
  <2> QED
    BY <2>1, <2>2, <2>3
<1>4. items' = [items EXCEPT ![k] = row]
  BY <1>1
<1> HIDE DEF row
<1>5. "claimed" \in Kind
  BY DEF Kind
<1>6. /\ DOMAIN items' = DOMAIN items
      /\ items' \in [DOMAIN items' -> ItemRow]
      /\ \A j \in DOMAIN items' :
           items'[j].owner \in Worker <=> items'[j].status = "leased"
      /\ log' \in [DOMAIN items' -> Seq([kind: Kind, attempts: Nat])]
  BY <1>1, <1>2, <1>3, <1>4, <1>5, UpdateType
<1>7. grant' \in [Worker -> [item: DOMAIN items', until: Nat] \union {NoGrant}]
      /\ \A v \in Worker : call[v].op # "idle" => grant'[v] # NoGrant
  <2>1. grant'[w] # NoGrant
    BY <1>1, <1>2, KeyAssumption DEF TypeOK, NoGrant
  <2> QED
    BY <1>1, <1>2, <1>6, <2>1 DEF TypeOK
<1> QED
  BY <1>6, <1>7 DEF Claim, TypeOK

LEMMA ReturnType ==
  ASSUME TypeOK, NEW w \in Worker, Return(w), DOMAIN items' = DOMAIN items
  PROVE  /\ grant' \in [Worker -> [item: DOMAIN items', until: Nat] \union {NoGrant}]
         /\ call' \in [Worker -> [op: {"idle", "acknowledge", "retry"}, stamp: Nat,
                                  attempts: Nat]]
         /\ \A v \in Worker : call'[v].op # "idle" => grant'[v] # NoGrant
  BY DEF TypeOK, Return, Idle

LEMMA AcknowledgeType ==
  ASSUME TypeOK, NEW w \in Worker, Acknowledge(w)
  PROVE  TypeOK'
<1> DEFINE k == grant[w].item
           row == [items[k] EXCEPT !.status = "acknowledged",
                                   !.owner = NoWorker, !.until = 0]
<1>1. k \in DOMAIN items /\ items[k] \in ItemRow /\ call[w].attempts \in Nat
  BY BusyHasGrant, GrantFacts DEF Acknowledge, TypeOK
<1>2. row \in ItemRow /\ row.owner \notin Worker /\ row.status # "leased"
  BY <1>1, KeyAssumption DEF ItemRow, Status, Terminal
<1>3. items' = [items EXCEPT ![k] = row] /\ Record(k, "acknowledged", call[w].attempts)
      /\ "acknowledged" \in Kind
  BY DEF Acknowledge, Kind
<1> HIDE DEF row, k
<1>4. /\ DOMAIN items' = DOMAIN items
      /\ items' \in [DOMAIN items' -> ItemRow]
      /\ \A j \in DOMAIN items' :
           items'[j].owner \in Worker <=> items'[j].status = "leased"
      /\ log' \in [DOMAIN items' -> Seq([kind: Kind, attempts: Nat])]
  BY <1>1, <1>2, <1>3, UpdateType
<1> QED
  BY <1>4, ReturnType DEF Acknowledge, TypeOK

LEMMA RetryType ==
  ASSUME TypeOK, NEW w \in Worker, NEW delay \in Delays, Retry(w, delay)
  PROVE  TypeOK'
<1> DEFINE k == grant[w].item
           terminal == call[w].attempts >= items[k].limit
           status == IF terminal THEN "dead_letter" ELSE "ready"
           kind == IF terminal THEN "dead_lettered" ELSE "retried"
           row == [items[k] EXCEPT !.status = status,
                                   !.available = call[w].stamp + delay,
                                   !.owner = NoWorker, !.until = 0]
<1>1. k \in DOMAIN items /\ items[k] \in ItemRow /\ call[w].attempts \in Nat
      /\ call[w].stamp + delay \in Nat
  <2>1. call[w].op # "idle"
    BY DEF Retry
  <2>2. k \in DOMAIN items /\ items[k] \in ItemRow
    BY <2>1, BusyHasGrant, GrantFacts
  <2>3. call[w].attempts \in Nat /\ call[w].stamp \in Nat
    BY DEF TypeOK
  <2>4. delay \in Nat
    BY TimeAssumption
  <2> QED
    BY <2>2, <2>3, <2>4
<1>2. status \in {"dead_letter", "ready"} /\ kind \in Kind
  BY DEF Kind
<1>3. items' = [items EXCEPT ![k] = row] /\ Record(k, kind, call[w].attempts)
  BY DEF Retry
<1> HIDE DEF status, kind, k
<1>4. row \in ItemRow /\ row.owner \notin Worker /\ row.status # "leased"
  BY <1>1, <1>2, KeyAssumption DEF ItemRow, Status, Terminal
<1> HIDE DEF row
<1>5. /\ DOMAIN items' = DOMAIN items
      /\ items' \in [DOMAIN items' -> ItemRow]
      /\ \A j \in DOMAIN items' :
           items'[j].owner \in Worker <=> items'[j].status = "leased"
      /\ log' \in [DOMAIN items' -> Seq([kind: Kind, attempts: Nat])]
  BY <1>1, <1>2, <1>3, <1>4, UpdateType
<1> QED
  BY <1>5, ReturnType DEF Retry, TypeOK

(* Recovery changes many rows at once, and adds one event to each.         *)
LEMMA RecoverType ==
  ASSUME TypeOK, NEW stamp \in Nat, Recover(stamp)
  PROVE  TypeOK'
<1>1. DOMAIN items' = DOMAIN items /\ DOMAIN log' = DOMAIN items
  BY DEF Recover
<1>2. ASSUME NEW k \in DOMAIN items
      PROVE  /\ items'[k] \in ItemRow
             /\ items'[k].owner \in Worker <=> items'[k].status = "leased"
  <2>1. items[k] \in ItemRow /\ (items[k].owner \in Worker <=> items[k].status = "leased")
    BY DEF TypeOK
  <2>2. CASE k \in Expired(stamp)
    <3> DEFINE status == IF UsedUp(k) THEN "dead_letter" ELSE "ready"
               row == [items[k] EXCEPT !.status = status, !.owner = NoWorker, !.until = 0]
    <3>1. items'[k] = row
      BY <2>2 DEF Recover
    <3>2. status \in {"dead_letter", "ready"}
      OBVIOUS
    <3> HIDE DEF status
    <3>3. row \in ItemRow /\ row.owner = NoWorker /\ row.status # "leased"
      BY <2>1, <3>2 DEF ItemRow, Status, Terminal
    <3> QED
      BY <3>1, <3>3, KeyAssumption
  <2>3. CASE k \notin Expired(stamp)
    BY <2>1, <2>3 DEF Recover
  <2> QED
    BY <2>2, <2>3
<1>3. ASSUME NEW k \in DOMAIN items
      PROVE  log'[k] \in Seq([kind: Kind, attempts: Nat])
  <2>1. log[k] \in Seq([kind: Kind, attempts: Nat]) /\ items[k].attempts \in Nat
    BY DEF TypeOK, ItemRow
  <2> DEFINE kind == RecoveryKind(k)
  <2>2. kind \in Kind
    BY DEF Kind, RecoveryKind
  <2>3. log'[k] = IF k \in Expired(stamp)
                  THEN Append(log[k], [kind |-> kind, attempts |-> items[k].attempts])
                  ELSE log[k]
    BY DEF Recover
  <2> HIDE DEF kind
  <2>4. Append(log[k], [kind |-> kind, attempts |-> items[k].attempts])
          \in Seq([kind: Kind, attempts: Nat])
    BY <2>1, <2>2, AppendProperties
  <2> QED
    BY <2>1, <2>3, <2>4
<1>4. /\ items' \in [DOMAIN items' -> ItemRow]
      /\ \A k \in DOMAIN items' :
           items'[k].owner \in Worker <=> items'[k].status = "leased"
  <2>1. items' = [k \in DOMAIN items' |-> items'[k]]
    BY DEF Recover
  <2> QED
    BY <1>1, <1>2, <2>1
<1>5. log' \in [DOMAIN items' -> Seq([kind: Kind, attempts: Nat])]
  <2>1. log' = [k \in DOMAIN items' |-> log'[k]]
    BY <1>1 DEF Recover
  <2> QED
    BY <1>1, <1>3, <2>1
<1> QED
  BY <1>1, <1>4, <1>5 DEF Recover, TypeOK

(* Check only writes down what it read.                                    *)
LEMMA CheckType ==
  ASSUME TypeOK, NEW w \in Worker, NEW op \in {"acknowledge", "retry"}, Check(w, op)
  PROVE  TypeOK'
<1>1. items[grant[w].item].attempts \in Nat /\ now \in Nat
  BY GrantFacts DEF Check, ItemRow, TypeOK
<1>2. call' \in [Worker -> [op: {"idle", "acknowledge", "retry"}, stamp: Nat,
                            attempts: Nat]]
  BY <1>1 DEF Check, TypeOK
<1>3. \A v \in Worker : call'[v].op # "idle" => grant'[v] # NoGrant
  BY DEF Check, TypeOK
<1> QED
  BY <1>2, <1>3 DEF Check, TypeOK

LEMMA RefuseType ==
  ASSUME TypeOK, NEW w \in Worker, Refuse(w)
  PROVE  TypeOK'
<1>1. \A v \in Worker : call'[v].op # "idle" => grant'[v] # NoGrant
  BY DEF Refuse, TypeOK, Idle
<1> QED
  BY <1>1 DEF Refuse, TypeOK

LEMMA CrashType ==
  ASSUME TypeOK, NEW w \in Worker, Crash(w)
  PROVE  TypeOK'
  BY ReturnType DEF Crash, TypeOK

LEMMA TickType ==
  ASSUME TypeOK, Tick
  PROVE  TypeOK'
<1>1. now' \in Nat /\ UNCHANGED <<items, log, grant, call>>
  BY DEF Tick, TypeOK
<1> QED
  BY <1>1 DEF TypeOK

(* Every action keeps the types.                                           *)
LEMMA NextType ==
  ASSUME TypeOK, [Next]_vars
  PROVE  TypeOK'
<1>1. CASE UNCHANGED vars
  BY <1>1 DEF vars, TypeOK
<1>2. ASSUME NEW e \in Envelopes, NEW limit \in Limits, NEW delay \in Delays,
             Publish(e, limit, delay)
      PROVE  TypeOK'
  BY <1>2, PublishType
<1>3. ASSUME NEW w \in Worker, ClaimSome(w)
      PROVE  TypeOK'
  BY <1>3, ClaimType DEF ClaimSome
<1>4. ASSUME NEW w \in Worker, Respond(w)
      PROVE  TypeOK'
  BY <1>4, CheckType, RefuseType, AcknowledgeType, RetryType DEF Respond, Commit
<1>5. ASSUME NEW w \in Worker, Crash(w)
      PROVE  TypeOK'
  BY <1>5, CrashType
<1>6. ASSUME NEW stamp \in Stamps, Recover(stamp)
      PROVE  TypeOK'
  <2>1. stamp \in Nat
    BY DEF Stamps, TypeOK
  <2> QED
    BY <1>6, <2>1, RecoverType
<1>7. CASE Tick
  BY <1>7, TickType
<1> QED
  BY <1>1, <1>2, <1>3, <1>4, <1>5, <1>6, <1>7 DEF Next

(***************************************************************************)
(* Leases.                                                                 *)
(***************************************************************************)

(* A worker none of whose facts changed keeps what it was promised.        *)
LEMMA Untouched ==
  ASSUME TypeOK, LeasesHeld, NEW v \in Worker,
         now' = now, grant'[v] = grant[v], call'[v] = call[v],
         grant[v] # NoGrant => items'[grant[v].item] = items[grant[v].item]
  PROVE  /\ grant'[v] # NoGrant => GrantGood(v)'
         /\ call'[v].op # "idle" => CallGood(v)'
<1>1. call[v].op # "idle" => grant[v] # NoGrant
  BY BusyHasGrant
<1> QED
  BY <1>1 DEF LeasesHeld, GrantGood, CallGood

(* Giving up the item of a grant that still runs touches no other worker:  *)
(* the item is nobody else's.                                              *)
LEMMA ReleaseHeld ==
  ASSUME TypeOK, LeasesHeld, NEW w \in Worker, call[w].op # "idle",
         now' = now, Return(w),
         items'[grant[w].item].owner = NoWorker,
         \A k \in DOMAIN items : k # grant[w].item => items'[k] = items[k]
  PROVE  LeasesHeld'
<1> SUFFICES ASSUME NEW v \in Worker
             PROVE  /\ grant'[v] # NoGrant => GrantGood(v)'
                    /\ call'[v].op # "idle" => CallGood(v)'
  BY DEF LeasesHeld
<1>1. grant[w] # NoGrant /\ GrantGood(w) /\ CallGood(w)
  BY BusyHasGrant DEF LeasesHeld
<1>2. items[grant[w].item].owner = w
  BY <1>1 DEF GrantGood, CallGood
<1>3. CASE v = w
  BY <1>3 DEF Return, Idle, TypeOK
<1>4. CASE v # w /\ (grant[v] = NoGrant \/ grant[v].item # grant[w].item)
  <2>1. grant'[v] = grant[v] /\ call'[v] = call[v]
    BY <1>4 DEF Return, TypeOK
  <2>2. grant[v] # NoGrant => items'[grant[v].item] = items[grant[v].item]
    BY <1>4, GrantFacts
  <2> QED
    BY <2>1, <2>2, Untouched
<1>5. CASE v # w /\ grant[v] # NoGrant /\ grant[v].item = grant[w].item
  <2>1. grant'[v] = grant[v] /\ call'[v] = call[v]
    BY <1>5 DEF Return, TypeOK
  <2>2. ~(grant[v].until > now) /\ call[v].op = "idle"
    BY <1>2, <1>5 DEF LeasesHeld, GrantGood, CallGood
  <2>3. NoWorker # v
    BY KeyAssumption
  <2> QED
    BY <1>5, <2>1, <2>2, <2>3 DEF GrantGood
<1> QED
  BY <1>3, <1>4, <1>5

LEMMA PublishHeld ==
  ASSUME TypeOK, LeasesHeld, NEW e \in Envelopes, NEW limit \in Limits,
         NEW delay \in Delays, Publish(e, limit, delay)
  PROVE  LeasesHeld'
<1>1. \A k \in DOMAIN items : items'[k] = items[k]
  BY DEF Publish, Fresh
<1>2. \A v \in Worker : grant[v] # NoGrant => items'[grant[v].item] = items[grant[v].item]
  BY <1>1, GrantFacts
<1> QED
  BY <1>2, Untouched DEF Publish, LeasesHeld

LEMMA ClaimHeld ==
  ASSUME TypeOK, LeasesHeld, NEW w \in Worker, NEW stamp \in Stamps, Claim(w, stamp)
  PROVE  LeasesHeld'
<1>1. PICK k \in First(Claimable(stamp)) :
        /\ items' = [items EXCEPT ![k].status = "leased",
                                  ![k].attempts = @ + 1,
                                  ![k].owner = w,
                                  ![k].until = stamp + LeaseTime]
        /\ grant' = [grant EXCEPT ![w] = [item |-> k, until |-> stamp + LeaseTime]]
  BY DEF Claim
<1>2. k \in DOMAIN items /\ items[k].status = "ready"
  BY DEF First, Claimable
<1>3. items[k] \in ItemRow /\ items[k].owner \notin Worker
  BY <1>2 DEF TypeOK
<1>4. items'[k].owner = w /\ items'[k].until = stamp + LeaseTime
      /\ \A j \in DOMAIN items : j # k => items'[j] = items[j]
  BY <1>1, <1>2, <1>3 DEF ItemRow
<1> SUFFICES ASSUME NEW v \in Worker
             PROVE  /\ grant'[v] # NoGrant => GrantGood(v)'
                    /\ call'[v].op # "idle" => CallGood(v)'
  BY DEF LeasesHeld
<1>5. CASE v = w
  <2>1. call'[v].op = "idle"
    BY <1>5, BusyHasGrant DEF Claim
  <2>2. grant'[v] = [item |-> k, until |-> stamp + LeaseTime]
    BY <1>1, <1>5 DEF TypeOK
  <2> QED
    BY <1>4, <1>5, <2>1, <2>2 DEF GrantGood
<1>6. CASE v # w /\ (grant[v] = NoGrant \/ grant[v].item # k)
  <2>1. grant'[v] = grant[v] /\ call'[v] = call[v] /\ now' = now
    BY <1>1, <1>6 DEF Claim, TypeOK
  <2>2. grant[v] # NoGrant => items'[grant[v].item] = items[grant[v].item]
    BY <1>4, <1>6, GrantFacts
  <2> QED
    BY <2>1, <2>2, Untouched
<1>7. CASE v # w /\ grant[v] # NoGrant /\ grant[v].item = k
  <2>1. grant'[v] = grant[v] /\ call'[v] = call[v] /\ now' = now
    BY <1>1, <1>7 DEF Claim, TypeOK
  <2>2. ~(grant[v].until > now) /\ call[v].op = "idle"
    BY <1>3, <1>7 DEF LeasesHeld, GrantGood, CallGood
  <2> QED
    BY <1>4, <1>7, <2>1, <2>2 DEF GrantGood
<1> QED
  BY <1>5, <1>6, <1>7

LEMMA CheckHeld ==
  ASSUME TypeOK, LeasesHeld, NEW w \in Worker, NEW op \in {"acknowledge", "retry"},
         Check(w, op)
  PROVE  LeasesHeld'
<1> SUFFICES ASSUME NEW v \in Worker
             PROVE  /\ grant'[v] # NoGrant => GrantGood(v)'
                    /\ call'[v].op # "idle" => CallGood(v)'
  BY DEF LeasesHeld
<1>1. CASE v = w
  <2>1. grant[w] # NoGrant /\ GrantGood(w)
    BY DEF Check, LeasesHeld
  <2>2. items[grant[w].item].owner = w /\ items[grant[w].item].until > now
    BY DEF Check, HoldsLease
  <2>3. call'[w].attempts = items[grant[w].item].attempts
    BY DEF Check, TypeOK
  <2> QED
    BY <1>1, <2>1, <2>2, <2>3 DEF Check, GrantGood, CallGood
<1>2. CASE v # w
  BY <1>2, Untouched DEF Check, TypeOK
<1> QED
  BY <1>1, <1>2

(* Refuse and Crash leave the worker with nothing.                         *)
LEMMA ForgetHeld ==
  ASSUME TypeOK, LeasesHeld, NEW w \in Worker, UNCHANGED <<now, items>>,
         grant' = [grant EXCEPT ![w] = NoGrant],
         call' = [call EXCEPT ![w] = Idle]
  PROVE  LeasesHeld'
<1> SUFFICES ASSUME NEW v \in Worker
             PROVE  /\ grant'[v] # NoGrant => GrantGood(v)'
                    /\ call'[v].op # "idle" => CallGood(v)'
  BY DEF LeasesHeld
<1>1. CASE v = w
  BY <1>1 DEF TypeOK, Idle
<1>2. CASE v # w
  <2>1. grant'[v] = grant[v] /\ call'[v] = call[v]
    BY <1>2 DEF TypeOK
  <2> QED
    BY <2>1, Untouched
<1> QED
  BY <1>1, <1>2

LEMMA AcknowledgeHeld ==
  ASSUME TypeOK, LeasesHeld, NEW w \in Worker, Acknowledge(w)
  PROVE  LeasesHeld'
<1>1. call[w].op # "idle" /\ Return(w) /\ now' = now
  BY DEF Acknowledge
<1>2. grant[w].item \in DOMAIN items /\ items[grant[w].item] \in ItemRow
  BY <1>1, BusyHasGrant, GrantFacts
<1>3. items'[grant[w].item].owner = NoWorker
      /\ \A k \in DOMAIN items : k # grant[w].item => items'[k] = items[k]
  BY <1>2 DEF Acknowledge, ItemRow
<1> QED
  BY <1>1, <1>3, ReleaseHeld

LEMMA RetryHeld ==
  ASSUME TypeOK, LeasesHeld, NEW w \in Worker, NEW delay \in Delays, Retry(w, delay)
  PROVE  LeasesHeld'
<1>1. call[w].op # "idle" /\ Return(w) /\ now' = now
  BY DEF Retry
<1>2. grant[w].item \in DOMAIN items /\ items[grant[w].item] \in ItemRow
  BY <1>1, BusyHasGrant, GrantFacts
<1>3. items'[grant[w].item].owner = NoWorker
      /\ \A k \in DOMAIN items : k # grant[w].item => items'[k] = items[k]
  BY <1>2 DEF Retry, ItemRow
<1> QED
  BY <1>1, <1>3, ReleaseHeld

(* What recovery takes away had run out for its worker too.                *)
LEMMA RecoverHeld ==
  ASSUME TypeOK, LeasesHeld, NEW stamp \in Stamps, Recover(stamp)
  PROVE  LeasesHeld'
<1> SUFFICES ASSUME NEW v \in Worker
             PROVE  /\ grant'[v] # NoGrant => GrantGood(v)'
                    /\ call'[v].op # "idle" => CallGood(v)'
  BY DEF LeasesHeld
<1>1. UNCHANGED <<now, grant, call>>
  BY DEF Recover
<1>2. CASE grant[v] = NoGrant \/ grant[v].item \notin Expired(stamp)
  <2>1. grant[v] # NoGrant => items'[grant[v].item] = items[grant[v].item]
    BY <1>2, GrantFacts DEF Recover
  <2> QED
    BY <1>1, <2>1, Untouched
<1>3. CASE grant[v] # NoGrant /\ grant[v].item \in Expired(stamp)
  <2> DEFINE k == grant[v].item
  <2>1. k \in DOMAIN items /\ items[k] \in ItemRow
    BY <1>3, GrantFacts
  <2>2. items'[k].owner = NoWorker
    BY <1>3, <2>1 DEF Recover, ItemRow
  <2>3. items[k].until \in Nat /\ stamp \in Nat /\ now \in Nat /\ stamp <= now
        /\ items[k].until <= stamp
    BY <1>3, <2>1 DEF Expired, Stamps, TypeOK, ItemRow
  <2>4. ~(grant[v].until > now)
    BY <1>3, <2>3 DEF LeasesHeld, GrantGood
  <2>5. call[v].op = "idle"
    BY <2>4 DEF LeasesHeld, CallGood
  <2> QED
    BY <1>1, <2>2, <2>4, <2>5, KeyAssumption DEF GrantGood
<1> QED
  BY <1>2, <1>3

LEMMA TickHeld ==
  ASSUME TypeOK, LeasesHeld, PromptCalls, Tick
  PROVE  LeasesHeld'
<1> SUFFICES ASSUME NEW v \in Worker
             PROVE  /\ grant'[v] # NoGrant => GrantGood(v)'
                    /\ call'[v].op # "idle" => CallGood(v)'
  BY DEF LeasesHeld
<1>1. now \in Nat /\ now' = now + 1 /\ UNCHANGED <<items, grant, call>>
  BY DEF Tick, TypeOK
<1>2. ASSUME grant[v] # NoGrant
      PROVE  GrantGood(v)'
  <2>1. grant[v].until \in Nat /\ GrantGood(v)
    BY <1>2, GrantFacts DEF LeasesHeld
  <2> QED
    BY <1>1, <2>1 DEF GrantGood
<1>3. ASSUME call[v].op # "idle"
      PROVE  CallGood(v)'
  <2>1. call[v] # Idle
    BY <1>3 DEF Idle
  <2>2. now + 1 < grant[v].until /\ CallGood(v)
    BY <1>3, <2>1 DEF Tick, LeasesHeld
  <2>3. grant[v].until \in Nat
    BY <1>3, BusyHasGrant, GrantFacts
  <2> QED
    BY <1>1, <2>2, <2>3 DEF CallGood
<1> QED
  BY <1>1, <1>2, <1>3

(***************************************************************************)
(* Attempts.                                                               *)
(***************************************************************************)
LEMMA NextAttempts ==
  ASSUME QInv, [Next]_vars
  PROVE  AttemptsLeft'
<1> USE DEF QInv
<1>1. CASE UNCHANGED <<items>>
  BY <1>1 DEF AttemptsLeft
<1>2. ASSUME NEW e \in Envelopes, NEW limit \in Limits, NEW delay \in Delays,
             Publish(e, limit, delay)
      PROVE  AttemptsLeft'
  <2>1. limit \in Nat /\ 0 < limit
    BY TimeAssumption
  <2> QED
    BY <1>2, <2>1 DEF Publish, AttemptsLeft
<1>3. ASSUME NEW w \in Worker, NEW stamp \in Stamps, Claim(w, stamp)
      PROVE  AttemptsLeft'
  <2>1. PICK k \in First(Claimable(stamp)) :
          items' = [items EXCEPT ![k].status = "leased",
                                 ![k].attempts = @ + 1,
                                 ![k].owner = w,
                                 ![k].until = stamp + LeaseTime]
    BY <1>3 DEF Claim
  <2>2. k \in DOMAIN items /\ items[k].status = "ready"
    BY DEF First, Claimable
  <2>3. items[k] \in ItemRow /\ items[k].attempts \in Nat /\ items[k].limit \in Nat
    BY <2>2, TimeAssumption DEF TypeOK, ItemRow
  <2>4. items'[k].attempts = items[k].attempts + 1 /\ items'[k].limit = items[k].limit
        /\ items'[k].status = "leased"
    BY <2>1, <2>2, <2>3 DEF ItemRow
  <2>5. items[k].attempts < items[k].limit
    BY <2>2 DEF AttemptsLeft
  <2>6. \A j \in DOMAIN items : j # k => items'[j] = items[j]
    BY <2>1
  <2>7. DOMAIN items' = DOMAIN items
    BY <2>1
  <2> QED
    BY <2>3, <2>4, <2>5, <2>6, <2>7 DEF AttemptsLeft
<1>4. ASSUME NEW w \in Worker, Acknowledge(w)
      PROVE  AttemptsLeft'
  <2>1. grant[w].item \in DOMAIN items /\ items[grant[w].item] \in ItemRow
    BY <1>4, BusyHasGrant, GrantFacts DEF Acknowledge
  <2>2. items'[grant[w].item].attempts = items[grant[w].item].attempts
        /\ items'[grant[w].item].limit = items[grant[w].item].limit
        /\ items'[grant[w].item].status = "acknowledged"
        /\ DOMAIN items' = DOMAIN items
        /\ \A j \in DOMAIN items : j # grant[w].item => items'[j] = items[j]
    BY <1>4, <2>1 DEF Acknowledge, ItemRow
  <2> QED
    BY <2>1, <2>2 DEF AttemptsLeft
<1>5. ASSUME NEW w \in Worker, NEW delay \in Delays, Retry(w, delay)
      PROVE  AttemptsLeft'
  <2> DEFINE k == grant[w].item
  <2>1. k \in DOMAIN items /\ items[k] \in ItemRow
    BY <1>5, BusyHasGrant, GrantFacts DEF Retry
  <2>2. items'[k].attempts = items[k].attempts /\ items'[k].limit = items[k].limit
        /\ DOMAIN items' = DOMAIN items
        /\ \A j \in DOMAIN items : j # k => items'[j] = items[j]
    BY <1>5, <2>1 DEF Retry, ItemRow
  <2>3. items'[k].status = IF call[w].attempts >= items[k].limit
                           THEN "dead_letter" ELSE "ready"
    BY <1>5, <2>1 DEF Retry, ItemRow
  <2>4. call[w].attempts = items[k].attempts
    BY <1>5 DEF Retry, LeasesHeld, CallGood
  <2>5. items[k].attempts \in Nat /\ items[k].limit \in Nat
    BY <2>1, TimeAssumption DEF ItemRow
  <2> HIDE DEF k
  <2>6. items'[k].status = "ready" => items'[k].attempts < items'[k].limit
    BY <2>2, <2>3, <2>4, <2>5
  <2> QED
    BY <2>1, <2>2, <2>6 DEF AttemptsLeft
<1>6. ASSUME NEW stamp \in Stamps, Recover(stamp)
      PROVE  AttemptsLeft'
  <2> SUFFICES ASSUME NEW k \in DOMAIN items
               PROVE  /\ items'[k].attempts <= items'[k].limit
                      /\ items'[k].status = "ready" =>
                           items'[k].attempts < items'[k].limit
    BY <1>6 DEF Recover, AttemptsLeft
  <2>1. items[k] \in ItemRow /\ items[k].attempts \in Nat /\ items[k].limit \in Nat
        /\ items[k].attempts <= items[k].limit
    BY TimeAssumption DEF TypeOK, ItemRow, AttemptsLeft
  <2>2. CASE k \in Expired(stamp)
    <3>1. items'[k].attempts = items[k].attempts /\ items'[k].limit = items[k].limit
          /\ items'[k].status = IF UsedUp(k) THEN "dead_letter" ELSE "ready"
      BY <1>6, <2>1, <2>2 DEF Recover, ItemRow
    <3> QED
      BY <2>1, <3>1 DEF UsedUp
  <2>3. CASE k \notin Expired(stamp)
    BY <1>6, <2>3 DEF Recover, AttemptsLeft
  <2> QED
    BY <2>2, <2>3
<1>7. ASSUME NEW w \in Worker, ClaimSome(w) \/ Respond(w) \/ Crash(w)
      PROVE  AttemptsLeft'
  <2>1. Crash(w) \/ Refuse(w) => AttemptsLeft'
    BY <1>1 DEF Crash, Refuse
  <2>2. (\E op \in {"acknowledge", "retry"} : Check(w, op)) => AttemptsLeft'
    BY <1>1 DEF Check
  <2> QED
    BY <1>3, <1>4, <1>5, <1>7, <2>1, <2>2 DEF ClaimSome, Respond, Commit
<1> QED
  BY <1>1, <1>2, <1>6, <1>7 DEF Next, Tick, vars

LEMMA NextHeld ==
  ASSUME QInv, PromptCalls, [Next]_vars
  PROVE  LeasesHeld'
<1> USE DEF QInv
<1>1. CASE UNCHANGED vars
  BY <1>1, Untouched DEF vars, LeasesHeld
<1>2. ASSUME NEW w \in Worker, Respond(w)
      PROVE  LeasesHeld'
  <2>1. ASSUME Refuse(w) PROVE LeasesHeld'
    <3>1. call' = [call EXCEPT ![w] = Idle]
      BY <2>1 DEF Refuse, TypeOK
    <3> QED
      BY <2>1, <3>1, ForgetHeld DEF Refuse
  <2> QED
    BY <1>2, <2>1, CheckHeld, AcknowledgeHeld, RetryHeld DEF Respond, Commit
<1>3. ASSUME NEW w \in Worker, Crash(w)
      PROVE  LeasesHeld'
  BY <1>3, ForgetHeld DEF Crash, Return
<1> QED
  BY <1>1, <1>2, <1>3, PublishHeld, ClaimHeld, RecoverHeld, TickHeld DEF Next, ClaimSome

(***************************************************************************)
(* The theorems.                                                           *)
(***************************************************************************)

(* Types hold of the queue however long its calls take.                    *)
THEOREM QueueTypeCorrectness == Spec => []TypeOK
<1>1. Init => TypeOK
  BY InitType
<1>2. TypeOK /\ [Next]_vars => TypeOK'
  BY NextType
<1> QED
  BY <1>1, <1>2, PTL DEF Spec

(* With prompt calls every grant that runs is the lease in the database.   *)
THEOREM QueueInvariance == ASSUME PromptCalls PROVE Spec => []QInv
<1>1. Init => QInv
  BY InitType DEF QInv, Init, LeasesHeld, AttemptsLeft, Idle
<1>2. QInv /\ [Next]_vars => QInv'
  <2> SUFFICES ASSUME QInv, [Next]_vars PROVE QInv'
    OBVIOUS
  <2>1. TypeOK'
    BY NextType DEF QInv
  <2>2. LeasesHeld'
    BY NextHeld
  <2>3. AttemptsLeft'
    BY NextAttempts
  <2> QED
    BY <2>1, <2>2, <2>3 DEF QInv
<1> QED
  BY <1>1, <1>2, PTL DEF Spec

(* Leases are exclusive: nobody else holds what a worker was given, until  *)
(* its lease has run out by the queue's clock.                             *)
THEOREM LeasesAreExclusive == ASSUME PromptCalls PROVE Spec => []ExclusiveLeases
<1>1. QInv => ExclusiveLeases
  <2> SUFFICES ASSUME QInv, NEW k \in DOMAIN items, NEW v \in Worker, NEW w \in Worker,
                      Holds(v, k), Holds(w, k)
               PROVE  v = w
    BY DEF ExclusiveLeases
  <2>1. k # NoKey
    BY KeyAssumption DEF QInv, TypeOK
  <2>2. grant[v] # NoGrant /\ grant[w] # NoGrant
    BY <2>1 DEF Holds, NoGrant
  <2>3. items[k].owner = v /\ items[k].owner = w
    BY <2>2 DEF QInv, LeasesHeld, GrantGood, Holds
  <2> QED
    BY <2>3
<1> QED
  BY <1>1, QueueInvariance, PTL

(* No item is handed out more often than its publisher allowed.            *)
THEOREM AttemptsBounded == ASSUME PromptCalls PROVE Spec => []AttemptsWithinLimit
<1>1. QInv => AttemptsWithinLimit
  BY DEF QInv, AttemptsLeft, AttemptsWithinLimit
<1> QED
  BY <1>1, QueueInvariance, PTL

(***************************************************************************)
(* With prompt calls the queue implements LeaseQueue.                      *)
(***************************************************************************)

(* The abstract row of an item, and how a step that changes one item       *)
(* changes the abstract rows.                                              *)
LEMMA RowOf ==
  ASSUME TypeOK, NEW k \in DOMAIN items
  PROVE  /\ k \in Key
         /\ LeaseRows[k] = [state |-> StateOf(items[k].status),
                            attempts |-> items[k].attempts,
                            limit |-> items[k].limit, owner |-> items[k].owner]
  BY DEF TypeOK, LeaseRows, LeaseRow

LEMMA OneRow ==
  ASSUME NEW k \in Key, NEW new, DOMAIN items' = DOMAIN items \union {k},
         LeaseRow(k)' = new,
         \A j \in DOMAIN items : j # k => items'[j] = items[j]
  PROVE  LeaseRows' = [LeaseRows EXCEPT ![k] = new]
<1>1. \A j \in Key : j # k => LeaseRow(j)' = LeaseRow(j)
  BY DEF LeaseRow
<1> QED
  BY <1>1 DEF LeaseRows

LEMMA SameRows ==
  ASSUME UNCHANGED items
  PROVE  UNCHANGED LeaseRows
  BY DEF LeaseRows, LeaseRow

LEMMA PublishLeases ==
  ASSUME TypeOK, NEW e \in Envelopes, NEW limit \in Limits, NEW delay \in Delays,
         Publish(e, limit, delay)
  PROVE  Leases!Publish(e.key, limit)
<1> DEFINE new == [state |-> "ready", attempts |-> 0, limit |-> limit, owner |-> NoWorker]
<1>1. e.key \in Key /\ e.key \notin DOMAIN items
  BY EnvelopeAssumption DEF Publish, Fresh
<1>2. DOMAIN items' = DOMAIN items \union {e.key}
      /\ \A j \in DOMAIN items : j # e.key => items'[j] = items[j]
  BY DEF Publish
<1>3. items'[e.key].status = "ready" /\ items'[e.key].attempts = 0
      /\ items'[e.key].limit = limit /\ items'[e.key].owner = NoWorker
  BY DEF Publish
<1>4. LeaseRow(e.key)' = new
  BY <1>2, <1>3 DEF LeaseRow, StateOf
<1>5. LeaseRows' = [LeaseRows EXCEPT ![e.key] = new]
  BY <1>1, <1>2, <1>4, OneRow
<1>6. LeaseRows[e.key].state = "absent"
  BY <1>1 DEF LeaseRows, LeaseRow
<1> QED
  BY <1>5, <1>6 DEF Leases!Publish

LEMMA ClaimLeases ==
  ASSUME QInv, NEW w \in Worker, NEW stamp \in Stamps, Claim(w, stamp)
  PROVE  \E k \in Key : Leases!Lease(k, w)
<1>1. PICK k \in First(Claimable(stamp)) :
        items' = [items EXCEPT ![k].status = "leased",
                               ![k].attempts = @ + 1,
                               ![k].owner = w,
                               ![k].until = stamp + LeaseTime]
  BY DEF Claim
<1>2. k \in DOMAIN items /\ items[k].status = "ready"
  BY DEF First, Claimable
<1>3. items[k] \in ItemRow
  BY <1>2 DEF QInv, TypeOK
<1>4. items'[k].attempts = items[k].attempts + 1 /\ items'[k].limit = items[k].limit
      /\ items'[k].status = "leased" /\ items'[k].owner = w
  BY <1>1, <1>2, <1>3 DEF ItemRow
<1>5. DOMAIN items' = DOMAIN items /\ \A j \in DOMAIN items : j # k => items'[j] = items[j]
  BY <1>1
<1> DEFINE new == [state |-> "leased", attempts |-> items[k].attempts + 1,
                   limit |-> items[k].limit, owner |-> w]
<1>6. LeaseRow(k)' = new
  BY <1>2, <1>4, <1>5 DEF LeaseRow, StateOf
<1>7. k \in Key /\ LeaseRows[k] = [state |-> "ready", attempts |-> items[k].attempts,
                                   limit |-> items[k].limit, owner |-> items[k].owner]
  BY <1>2, RowOf DEF QInv, StateOf
<1>8. DOMAIN items' = DOMAIN items \union {k}
  BY <1>2, <1>5
<1>9. LeaseRows' = [LeaseRows EXCEPT ![k] = new]
  BY <1>5, <1>6, <1>7, <1>8, OneRow
<1>10. items[k].attempts < items[k].limit
  BY <1>2 DEF QInv, AttemptsLeft
<1>11. LeaseRows[k].state = "ready" /\ LeaseRows[k].attempts = items[k].attempts
       /\ LeaseRows[k].limit = items[k].limit
  BY <1>7
<1>12. Leases!Lease(k, w)
  BY <1>9, <1>10, <1>11 DEF Leases!Lease
<1> QED
  BY <1>7, <1>12

(* A call past its check holds the lease.                                  *)
LEMMA BusyHolds ==
  ASSUME QInv, NEW w \in Worker, call[w].op # "idle"
  PROVE  /\ grant[w].item \in DOMAIN items
         /\ items[grant[w].item] \in ItemRow
         /\ items[grant[w].item].status = "leased"
         /\ items[grant[w].item].owner = w
         /\ items[grant[w].item].attempts = call[w].attempts
         /\ grant[w].item \in Key
         /\ LeaseRows[grant[w].item] =
              [state |-> "leased", attempts |-> call[w].attempts,
               limit |-> items[grant[w].item].limit, owner |-> w]
<1>1. grant[w] # NoGrant
  BY BusyHasGrant DEF QInv
<1>2. grant[w].item \in DOMAIN items /\ items[grant[w].item] \in ItemRow
  BY <1>1, GrantFacts DEF QInv
<1>3. items[grant[w].item].owner = w
      /\ items[grant[w].item].attempts = call[w].attempts
  BY <1>1 DEF QInv, LeasesHeld, GrantGood, CallGood
<1>4. items[grant[w].item].status = "leased"
  BY <1>2, <1>3 DEF QInv, TypeOK
<1>5. StateOf("leased") = "leased"
  BY DEF StateOf
<1> QED
  BY <1>2, <1>3, <1>4, <1>5, RowOf DEF QInv

LEMMA AcknowledgeLeases ==
  ASSUME QInv, NEW w \in Worker, Acknowledge(w)
  PROVE  \E k \in Key : Leases!Finish(k, w)
<1>1. call[w].op # "idle"
  BY DEF Acknowledge
<1> PICK k \in DOMAIN items : k = grant[w].item
  BY <1>1, BusyHolds
<1> DEFINE new == [state |-> "done", attempts |-> items[k].attempts,
                   limit |-> items[k].limit, owner |-> NoWorker]
<1>2. k \in DOMAIN items /\ k \in Key /\ items[k] \in ItemRow
      /\ LeaseRows[k] = [state |-> "leased", attempts |-> items[k].attempts,
                         limit |-> items[k].limit, owner |-> w]
  BY <1>1, BusyHolds
<1>3. items'[k].attempts = items[k].attempts /\ items'[k].limit = items[k].limit
      /\ items'[k].status = "acknowledged" /\ items'[k].owner = NoWorker
  BY <1>2 DEF Acknowledge, ItemRow
<1>4. DOMAIN items' = DOMAIN items \union {k}
      /\ \A j \in DOMAIN items : j # k => items'[j] = items[j]
  BY <1>2 DEF Acknowledge
<1>5. LeaseRow(k)' = new
  BY <1>3, <1>4 DEF LeaseRow, StateOf
<1>6. LeaseRows' = [LeaseRows EXCEPT ![k] = new]
  BY <1>2, <1>4, <1>5, OneRow
<1>7. LeaseRows[k].state = "leased" /\ LeaseRows[k].attempts = items[k].attempts
      /\ LeaseRows[k].limit = items[k].limit /\ LeaseRows[k].owner = w
  BY <1>2
<1>8. Leases!Finish(k, w)
  BY <1>6, <1>7 DEF Leases!Finish
<1> QED
  BY <1>2, <1>8

LEMMA RetryLeases ==
  ASSUME QInv, NEW w \in Worker, NEW delay \in Delays, Retry(w, delay)
  PROVE  \E keys \in SUBSET Key : Leases!Return(keys)
<1>1. call[w].op # "idle"
  BY DEF Retry
<1> PICK k \in DOMAIN items : k = grant[w].item
  BY <1>1, BusyHolds
<1> DEFINE new == Leases!Returned(LeaseRows[k])
<1>2. k \in DOMAIN items /\ k \in Key /\ items[k] \in ItemRow
      /\ call[w].attempts = items[k].attempts
      /\ LeaseRows[k] = [state |-> "leased", attempts |-> items[k].attempts,
                         limit |-> items[k].limit, owner |-> w]
  BY <1>1, BusyHolds
<1>3. items[k].attempts \in Nat /\ items[k].limit \in Nat
  BY <1>2, TimeAssumption DEF ItemRow
<1>4. items'[k].attempts = items[k].attempts /\ items'[k].limit = items[k].limit
      /\ items'[k].owner = NoWorker
      /\ items'[k].status = IF call[w].attempts >= items[k].limit
                            THEN "dead_letter" ELSE "ready"
  BY <1>2 DEF Retry, ItemRow
<1>5. DOMAIN items' = DOMAIN items \union {k}
      /\ \A j \in DOMAIN items : j # k => items'[j] = items[j]
  BY <1>2 DEF Retry
<1>6. LeaseRow(k)' = new
  <2>1. StateOf("ready") = "ready" /\ StateOf("dead_letter") = "dead"
    BY DEF StateOf
  <2>2. CASE items[k].attempts < items[k].limit
    <3>1. items'[k].status = "ready"
      BY <1>2, <1>3, <1>4, <2>2
    <3> QED
      BY <1>2, <1>4, <1>5, <2>1, <2>2, <3>1 DEF LeaseRow, Leases!Returned
  <2>3. CASE ~(items[k].attempts < items[k].limit)
    <3>1. items'[k].status = "dead_letter"
      BY <1>2, <1>3, <1>4, <2>3
    <3> QED
      BY <1>2, <1>4, <1>5, <2>1, <2>3, <3>1 DEF LeaseRow, Leases!Returned
  <2> QED
    BY <2>2, <2>3
<1> HIDE DEF new
<1>7. LeaseRows' = [LeaseRows EXCEPT ![k] = new]
  BY <1>2, <1>5, <1>6, OneRow
<1>8. LeaseRows' = [j \in Key |-> IF j \in {k} THEN Leases!Returned(LeaseRows[j])
                                  ELSE LeaseRows[j]]
  BY <1>7 DEF LeaseRows, new
<1>9. Leases!Return({k})
  BY <1>2, <1>8 DEF Leases!Return
<1> QED
  BY <1>2, <1>9

LEMMA RecoverLeases ==
  ASSUME QInv, NEW stamp \in Stamps, Recover(stamp)
  PROVE  \E keys \in SUBSET Key : Leases!Return(keys)
<1>1. \A k \in Expired(stamp) : k \in DOMAIN items /\ items[k].status = "leased"
  BY DEF Expired
<1>2. Expired(stamp) \subseteq Key /\ DOMAIN items' = DOMAIN items
  BY DEF Expired, Recover, QInv, TypeOK
<1>3. \A k \in Expired(stamp) : LeaseRows[k].state = "leased"
  <2> SUFFICES ASSUME NEW k \in Expired(stamp) PROVE LeaseRows[k].state = "leased"
    OBVIOUS
  <2>1. StateOf("leased") = "leased"
    BY DEF StateOf
  <2> QED
    <3>1. k \in DOMAIN items /\ items[k].status = "leased"
      BY <1>1
    <3>2. TypeOK
      BY DEF QInv
    <3>3. LeaseRows[k] = [state |-> StateOf(items[k].status),
                          attempts |-> items[k].attempts,
                          limit |-> items[k].limit, owner |-> items[k].owner]
      BY <3>1, <3>2, RowOf
    <3> QED
      BY <2>1, <3>1, <3>3
<1>4. ASSUME NEW k \in Key
      PROVE  LeaseRow(k)' = IF k \in Expired(stamp) THEN Leases!Returned(LeaseRow(k))
                            ELSE LeaseRow(k)
  <2>1. CASE k \in Expired(stamp)
    <3>1. k \in DOMAIN items /\ items[k] \in ItemRow
      BY <1>1, <2>1 DEF QInv, TypeOK
    <3>2. items[k].attempts \in Nat /\ items[k].limit \in Nat
      BY <3>1, TimeAssumption DEF ItemRow
    <3>3. items'[k].attempts = items[k].attempts /\ items'[k].limit = items[k].limit
          /\ items'[k].owner = NoWorker
          /\ items'[k].status = IF UsedUp(k) THEN "dead_letter" ELSE "ready"
      BY <2>1, <3>1 DEF Recover, ItemRow
    <3>4. StateOf("ready") = "ready" /\ StateOf("dead_letter") = "dead"
      BY DEF StateOf
    <3>5. UsedUp(k) <=> ~(items[k].attempts < items[k].limit)
      BY <3>2 DEF UsedUp
    <3>6. CASE UsedUp(k)
      BY <1>2, <2>1, <3>1, <3>3, <3>4, <3>5, <3>6 DEF LeaseRow, Leases!Returned
    <3>7. CASE ~UsedUp(k)
      BY <1>2, <2>1, <3>1, <3>3, <3>4, <3>5, <3>7 DEF LeaseRow, Leases!Returned
    <3> QED
      BY <3>6, <3>7
  <2>2. CASE k \notin Expired(stamp)
    BY <1>2, <2>2 DEF Recover, LeaseRow
  <2> QED
    BY <2>1, <2>2
<1>5. LeaseRows' = [k \in Key |-> IF k \in Expired(stamp)
                                  THEN Leases!Returned(LeaseRows[k]) ELSE LeaseRows[k]]
  BY <1>4 DEF LeaseRows
<1> QED
  BY <1>2, <1>3, <1>5 DEF Leases!Return

(* As long as no call outlives the lease it checked, the two-step calls    *)
(* act as the atomic ones of LeaseQueue.                                   *)
THEOREM QueueActsAtomically == ASSUME PromptCalls PROVE Spec => ActsAtomically
<1>1. Init => Leases!Init
  BY DEF Init, Leases!Init, Leases!Absent, LeaseRows, LeaseRow
<1>2. QInv /\ [Next]_vars => [Leases!Next]_LeaseRows
  <2> SUFFICES ASSUME QInv, [Next]_vars PROVE [Leases!Next]_LeaseRows
    OBVIOUS
  <2>1. UNCHANGED items => UNCHANGED LeaseRows
    BY SameRows
  <2>2. ASSUME NEW e \in Envelopes, NEW limit \in Limits, NEW delay \in Delays,
               Publish(e, limit, delay)
        PROVE  Leases!Next
    BY <2>2, PublishLeases, EnvelopeAssumption DEF QInv, Leases!Next
  <2>3. ASSUME NEW w \in Worker, ClaimSome(w)
        PROVE  Leases!Next
    BY <2>3, ClaimLeases DEF ClaimSome, Leases!Next
  <2>4. ASSUME NEW w \in Worker, Commit(w)
        PROVE  Leases!Next
    BY <2>4, AcknowledgeLeases, RetryLeases DEF Commit, Leases!Next
  <2>5. ASSUME NEW w \in Worker, Respond(w) \/ Crash(w)
        PROVE  Leases!Next \/ UNCHANGED items
    BY <2>4, <2>5 DEF Respond, Check, Refuse, Crash
  <2>6. ASSUME NEW stamp \in Stamps, Recover(stamp)
        PROVE  Leases!Next
    BY <2>6, RecoverLeases DEF Leases!Next
  <2>7. Tick \/ UNCHANGED vars => UNCHANGED items
    BY DEF Tick, vars
  <2> QED
    BY <2>1, <2>2, <2>3, <2>5, <2>6, <2>7 DEF Next
<1> QED
  BY <1>1, <1>2, QueueInvariance, PTL DEF Spec, ActsAtomically, Leases!Spec

(***************************************************************************)
(* The numbering and the history, which hold however long calls take.      *)
(***************************************************************************)

(* A step that writes to an item keeps its place and adds one event.       *)
Writes(k) ==
  \E kind \in Kind, n \in Nat :
    /\ log'[k] = Append(log[k], [kind |-> kind, attempts |-> n])
    /\ kind \in KindsOf(items'[k].status)
    /\ items'[k].attempts = IF kind = "claimed" THEN items[k].attempts + 1
                                                ELSE items[k].attempts
    /\ kind = "claimed" => n = items[k].attempts + 1

Kept(k) ==
  /\ items'[k].work = items[k].work /\ items'[k].seq = items[k].seq
  /\ Writes(k) \/ (items'[k] = items[k] /\ log'[k] = log[k])

LEMMA RecordWrites ==
  ASSUME TypeOK, NEW k \in DOMAIN items, NEW kind \in Kind, NEW n \in Nat,
         Record(k, kind, n), DOMAIN items' = DOMAIN items,
         \A j \in DOMAIN items : j # k => items'[j] = items[j],
         items'[k].work = items[k].work, items'[k].seq = items[k].seq,
         kind \in KindsOf(items'[k].status),
         items'[k].attempts = IF kind = "claimed" THEN items[k].attempts + 1
                                                  ELSE items[k].attempts,
         kind = "claimed" => n = items[k].attempts + 1
  PROVE  \A j \in DOMAIN items : Kept(j)
<1> SUFFICES ASSUME NEW j \in DOMAIN items PROVE Kept(j)
  OBVIOUS
<1>1. CASE j # k
  BY <1>1 DEF Kept, Record, TypeOK
<1>2. CASE j = k
  <2>1. log'[k] = Append(log[k], [kind |-> kind, attempts |-> n])
    BY DEF Record, TypeOK
  <2>2. Writes(k)
    BY <2>1 DEF Writes
  <2> QED
    BY <1>2, <2>2 DEF Kept
<1> QED
  BY <1>1, <1>2

LEMMA ClaimKeeps ==
  ASSUME TypeOK, NEW w \in Worker, NEW stamp \in Stamps, Claim(w, stamp)
  PROVE  DOMAIN items' = DOMAIN items /\ \A k \in DOMAIN items : Kept(k)
<1>1. PICK k \in First(Claimable(stamp)) :
        /\ items' = [items EXCEPT ![k].status = "leased",
                                  ![k].attempts = @ + 1,
                                  ![k].owner = w,
                                  ![k].until = stamp + LeaseTime]
        /\ Record(k, "claimed", items[k].attempts + 1)
  BY DEF Claim
<1>2. k \in DOMAIN items
  BY DEF First, Claimable
<1>3. items[k] \in ItemRow /\ items[k].attempts + 1 \in Nat
  BY <1>2 DEF TypeOK, ItemRow
<1>4. /\ DOMAIN items' = DOMAIN items
      /\ \A j \in DOMAIN items : j # k => items'[j] = items[j]
      /\ items'[k].work = items[k].work /\ items'[k].seq = items[k].seq
      /\ items'[k].attempts = items[k].attempts + 1 /\ items'[k].status = "leased"
  BY <1>1, <1>2, <1>3 DEF ItemRow
<1>5. "claimed" \in Kind /\ "claimed" \in KindsOf("leased")
  BY DEF Kind, KindsOf
<1> QED
  BY <1>1, <1>2, <1>3, <1>4, <1>5, RecordWrites

LEMMA AcknowledgeKeeps ==
  ASSUME TypeOK, NEW w \in Worker, Acknowledge(w)
  PROVE  DOMAIN items' = DOMAIN items /\ \A k \in DOMAIN items : Kept(k)
<1> DEFINE k == grant[w].item
<1>1. k \in DOMAIN items /\ items[k] \in ItemRow /\ call[w].attempts \in Nat
  BY BusyHasGrant, GrantFacts DEF Acknowledge, TypeOK
<1>2. /\ Record(k, "acknowledged", call[w].attempts)
      /\ DOMAIN items' = DOMAIN items
      /\ \A j \in DOMAIN items : j # k => items'[j] = items[j]
      /\ items'[k].work = items[k].work /\ items'[k].seq = items[k].seq
      /\ items'[k].attempts = items[k].attempts /\ items'[k].status = "acknowledged"
  BY <1>1 DEF Acknowledge, ItemRow
<1>3. "acknowledged" \in Kind /\ "acknowledged" \in KindsOf("acknowledged")
  BY DEF Kind, KindsOf
<1> HIDE DEF k
<1> QED
  BY <1>1, <1>2, <1>3, RecordWrites

LEMMA RetryKeeps ==
  ASSUME TypeOK, NEW w \in Worker, NEW delay \in Delays, Retry(w, delay)
  PROVE  DOMAIN items' = DOMAIN items /\ \A k \in DOMAIN items : Kept(k)
<1> DEFINE k == grant[w].item
           terminal == call[w].attempts >= items[k].limit
           kind == IF terminal THEN "dead_lettered" ELSE "retried"
<1>1. k \in DOMAIN items /\ items[k] \in ItemRow /\ call[w].attempts \in Nat
  BY BusyHasGrant, GrantFacts DEF Retry, TypeOK
<1>2. /\ Record(k, kind, call[w].attempts)
      /\ DOMAIN items' = DOMAIN items
      /\ \A j \in DOMAIN items : j # k => items'[j] = items[j]
      /\ items'[k].work = items[k].work /\ items'[k].seq = items[k].seq
      /\ items'[k].attempts = items[k].attempts
      /\ items'[k].status = IF terminal THEN "dead_letter" ELSE "ready"
  BY <1>1 DEF Retry, ItemRow
<1> HIDE DEF k, terminal
<1>3. kind \in Kind /\ kind # "claimed" /\ kind \in KindsOf(items'[k].status)
  BY <1>2 DEF Kind, KindsOf
<1> HIDE DEF kind
<1> QED
  BY <1>1, <1>2, <1>3, RecordWrites

LEMMA RecoverKeeps ==
  ASSUME TypeOK, NEW stamp, Recover(stamp)
  PROVE  DOMAIN items' = DOMAIN items /\ \A k \in DOMAIN items : Kept(k)
<1>1. DOMAIN items' = DOMAIN items
  BY DEF Recover
<1>2. ASSUME NEW k \in DOMAIN items PROVE Kept(k)
  <2>1. CASE k \notin Expired(stamp)
    BY <2>1 DEF Recover, Kept
  <2>2. CASE k \in Expired(stamp)
    <3>1. items[k] \in ItemRow /\ items[k].attempts \in Nat
      BY DEF TypeOK, ItemRow
    <3>2. /\ items'[k].work = items[k].work /\ items'[k].seq = items[k].seq
          /\ items'[k].attempts = items[k].attempts
          /\ items'[k].status = IF UsedUp(k) THEN "dead_letter" ELSE "ready"
      BY <2>2, <3>1 DEF Recover, ItemRow
    <3>3. log'[k] = Append(log[k], [kind |-> RecoveryKind(k), attempts |-> items[k].attempts])
      BY <2>2 DEF Recover
    <3>4. /\ RecoveryKind(k) \in Kind /\ RecoveryKind(k) # "claimed"
          /\ RecoveryKind(k) \in KindsOf(items'[k].status)
      BY <3>2 DEF Kind, KindsOf, RecoveryKind
    <3>5. Writes(k)
      BY <3>1, <3>2, <3>3, <3>4 DEF Writes
    <3> QED
      BY <3>2, <3>5 DEF Kept
  <2> QED
    BY <2>1, <2>2
<1> QED
  BY <1>1, <1>2

(* Only publish adds an item.                                              *)
LEMMA StepKeeps ==
  ASSUME TypeOK, [Next]_vars
  PROVE  \/ \E e \in Envelopes, limit \in Limits, delay \in Delays : Publish(e, limit, delay)
         \/ DOMAIN items' = DOMAIN items /\ \A k \in DOMAIN items : Kept(k)
<1>1. CASE UNCHANGED <<items, log>>
  BY <1>1 DEF Kept
<1>2. ASSUME NEW w \in Worker, Respond(w) \/ Crash(w)
      PROVE  DOMAIN items' = DOMAIN items /\ \A k \in DOMAIN items : Kept(k)
  <2>1. Crash(w) \/ Refuse(w) \/ (\E op \in {"acknowledge", "retry"} : Check(w, op))
          => UNCHANGED <<items, log>>
    BY DEF Check, Refuse, Crash
  <2>2. UNCHANGED <<items, log>> =>
          DOMAIN items' = DOMAIN items /\ \A k \in DOMAIN items : Kept(k)
    BY DEF Kept
  <2> QED
    BY <1>2, <2>1, <2>2, AcknowledgeKeeps, RetryKeeps DEF Respond, Commit
<1> QED
  BY <1>1, <1>2, ClaimKeeps, RecoverKeeps DEF Next, ClaimSome, Tick, vars

LEMMA AppendClaims ==
  ASSUME NEW s \in Seq([kind: Kind, attempts: Nat]), NEW e \in [kind: Kind, attempts: Nat],
         Numbered(s), e.kind = "claimed" => e.attempts = Cardinality(ClaimsIn(s)) + 1
  PROVE  /\ Append(s, e)[Len(Append(s, e))] = e
         /\ Cardinality(ClaimsIn(Append(s, e))) =
              IF e.kind = "claimed" THEN Cardinality(ClaimsIn(s)) + 1
                                    ELSE Cardinality(ClaimsIn(s))
         /\ Numbered(Append(s, e))
<1> DEFINE t == Append(s, e)
           n == Len(s) + 1
<1>1. /\ n \in Nat /\ Len(t) = n /\ DOMAIN s = 1..Len(s) /\ DOMAIN t = 1..n /\ t[n] = e
      /\ \A i \in DOMAIN s : t[i] = s[i] /\ i \in DOMAIN t /\ i \in Nat /\ i < n
      /\ \A i \in DOMAIN t : i \in DOMAIN s \/ i = n
      /\ n \notin DOMAIN s /\ n \in DOMAIN t
  BY AppendProperties
<1> HIDE DEF t, n
<1>2. IsFiniteSet(ClaimsIn(s)) /\ Cardinality(ClaimsIn(s)) \in Nat
  <2>1. IsFiniteSet(1..Len(s))
    BY FS_Interval
  <2>2. ClaimsIn(s) \in SUBSET (1..Len(s))
    BY <1>1 DEF ClaimsIn
  <2> QED
    BY <2>1, <2>2, FS_Subset, FS_CardinalityType
<1>3. ClaimsIn(t) = IF e.kind = "claimed" THEN ClaimsIn(s) \union {n} ELSE ClaimsIn(s)
  BY <1>1 DEF ClaimsIn
<1>4. ClaimsIn(s) \subseteq DOMAIN s
  BY DEF ClaimsIn
<1>5. Cardinality(ClaimsIn(t)) = IF e.kind = "claimed" THEN Cardinality(ClaimsIn(s)) + 1
                                                       ELSE Cardinality(ClaimsIn(s))
  <2>1. n \notin ClaimsIn(s)
    BY <1>1, <1>4
  <2>2. Cardinality(ClaimsIn(s) \union {n}) = Cardinality(ClaimsIn(s)) + 1
    BY <1>2, <2>1, FS_AddElement
  <2> QED
    BY <1>3, <2>2
<1>6. Numbered(t)
  <2> SUFFICES ASSUME NEW i \in ClaimsIn(t)
               PROVE  t[i].attempts = Cardinality({j \in ClaimsIn(t) : j <= i})
    BY DEF Numbered
  <2>1. CASE i \in ClaimsIn(s)
    <3>1. {j \in ClaimsIn(t) : j <= i} = {j \in ClaimsIn(s) : j <= i}
      BY <1>1, <1>3, <1>4, <2>1
    <3>2. t[i] = s[i]
      BY <1>1, <1>4, <2>1
    <3> QED
      BY <2>1, <3>1, <3>2 DEF Numbered
  <2>2. CASE i \notin ClaimsIn(s)
    <3>1. i = n /\ e.kind = "claimed"
      BY <1>3, <2>2
    <3>2. {j \in ClaimsIn(t) : j <= i} = ClaimsIn(t)
      BY <1>1, <1>3, <1>4, <3>1
    <3> QED
      BY <1>1, <1>5, <3>1, <3>2
  <2> QED
    BY <2>1, <2>2
<1> QED
  BY <1>1, <1>5, <1>6 DEF t

LEMMA NextAudited ==
  ASSUME TypeOK, AuditTrail, [Next]_vars
  PROVE  AuditTrail'
<1>1. ASSUME NEW e \in Envelopes, NEW limit \in Limits, NEW delay \in Delays,
             Publish(e, limit, delay)
      PROVE  AuditTrail'
  <2>1. PICK last : items' = [k \in DOMAIN items \union {e.key} |->
          IF k = e.key
          THEN [id |-> e.id, work |-> e.work, seq |-> last + 1,
                status |-> "ready", attempts |-> 0, limit |-> limit,
                available |-> now + delay, created |-> now,
                owner |-> NoWorker, until |-> 0]
          ELSE items[k]]
    BY <1>1 DEF Publish
  <2>2. e.key \notin DOMAIN items
    BY <1>1 DEF Publish, Fresh
  <2>3. /\ DOMAIN items' = DOMAIN items \union {e.key}
        /\ items'[e.key].status = "ready" /\ items'[e.key].attempts = 0
        /\ \A k \in DOMAIN items : items'[k] = items[k] /\ log'[k] = log[k]
        /\ log'[e.key] = <<[kind |-> "published", attempts |-> 0]>>
    BY <1>1, <2>1, <2>2 DEF Publish
  <2>4. Audited(e.key)'
    <3> DEFINE first == [kind |-> "published", attempts |-> 0]
               s == <<first>>
    <3>1. Len(s) = 1 /\ DOMAIN s = {1} /\ s[1] = first /\ first.kind = "published"
      OBVIOUS
    <3>2. log'[e.key] = s
      BY <2>3
    <3> HIDE DEF s, first
    <3>3. ClaimsIn(s) = {}
      BY <3>1 DEF ClaimsIn
    <3>4. Cardinality(ClaimsIn(s)) = 0 /\ Numbered(s)
      BY <3>3, FS_EmptySet DEF Numbered
    <3>5. s[Len(s)].kind \in KindsOf("ready")
      BY <3>1 DEF KindsOf
    <3> QED
      BY <2>3, <3>2, <3>4, <3>5 DEF Audited
  <2>5. \A k \in DOMAIN items : Audited(k)'
    BY <2>3 DEF AuditTrail, Audited
  <2> QED
    BY <2>3, <2>4, <2>5 DEF AuditTrail
<1>2. ASSUME DOMAIN items' = DOMAIN items, NEW k \in DOMAIN items, Kept(k)
      PROVE  Audited(k)'
  <2>1. Audited(k) /\ log[k] \in Seq([kind: Kind, attempts: Nat]) /\ items[k].attempts \in Nat
    BY DEF AuditTrail, TypeOK, ItemRow
  <2>2. CASE items'[k] = items[k] /\ log'[k] = log[k]
    BY <2>1, <2>2 DEF Audited
  <2>3. CASE Writes(k)
    <3> PICK kind \in Kind, n \in Nat :
          /\ log'[k] = Append(log[k], [kind |-> kind, attempts |-> n])
          /\ kind \in KindsOf(items'[k].status)
          /\ items'[k].attempts = IF kind = "claimed" THEN items[k].attempts + 1
                                                      ELSE items[k].attempts
          /\ kind = "claimed" => n = items[k].attempts + 1
      BY <2>3 DEF Writes
    <3> DEFINE e == [kind |-> kind, attempts |-> n]
               s == log[k]
    <3>1. e \in [kind: Kind, attempts: Nat] /\ e.kind = kind /\ e.attempts = n
      OBVIOUS
    <3>2. /\ s \in Seq([kind: Kind, attempts: Nat])
          /\ Cardinality(ClaimsIn(s)) = items[k].attempts /\ Numbered(s)
          /\ log'[k] = Append(s, e)
      BY <2>1 DEF Audited
    <3> HIDE DEF e, s
    <3>3. /\ Append(s, e)[Len(Append(s, e))] = e
          /\ Cardinality(ClaimsIn(Append(s, e))) =
               IF e.kind = "claimed" THEN Cardinality(ClaimsIn(s)) + 1
                                     ELSE Cardinality(ClaimsIn(s))
          /\ Numbered(Append(s, e))
      BY <3>1, <3>2, AppendClaims
    <3> QED
      BY <3>1, <3>2, <3>3 DEF Audited
  <2> QED
    BY <1>2, <2>2, <2>3 DEF Kept
<1> QED
  BY <1>1, <1>2, StepKeeps DEF AuditTrail

(* Numbering needs to know that there are finitely many items.             *)
Filed == IsFiniteSet(DOMAIN items) /\ SequenceGapless

LEMMA PublishFiled ==
  ASSUME TypeOK, Filed, NEW e \in Envelopes, NEW limit \in Limits, NEW delay \in Delays,
         Publish(e, limit, delay)
  PROVE  Filed'
<1>1. PICK last \in LastSequence(e.work) :
        items' = [k \in DOMAIN items \union {e.key} |->
          IF k = e.key
          THEN [id |-> e.id, work |-> e.work, seq |-> last + 1,
                status |-> "ready", attempts |-> 0, limit |-> limit,
                available |-> now + delay, created |-> now,
                owner |-> NoWorker, until |-> 0]
          ELSE items[k]]
  BY DEF Publish
<1>2. e.key \notin DOMAIN items
  BY DEF Publish, Fresh
<1>3. /\ DOMAIN items' = DOMAIN items \union {e.key}
      /\ items'[e.key].work = e.work /\ items'[e.key].seq = last + 1
      /\ \A k \in DOMAIN items : items'[k] = items[k]
  BY <1>1, <1>2
<1>4. IsFiniteSet(DOMAIN items')
  BY <1>3, FS_AddElement DEF Filed
<1>5. ASSUME NEW work \in Work
      PROVE  {items'[k].seq : k \in Siblings(work)'} = 1..Cardinality(Siblings(work)')
  <2> DEFINE S == Siblings(work)
             n == Cardinality(S)
  <2>1. IsFiniteSet(S) /\ n \in Nat
    <3>1. S \in SUBSET DOMAIN items
      BY DEF Siblings
    <3> QED
      BY <3>1, FS_Subset, FS_CardinalityType DEF Filed
  <2>2. {items[k].seq : k \in S} = 1..n
    BY DEF Filed, SequenceGapless
  <2>3. CASE work # e.work
    <3>1. Siblings(work)' = S
      BY <1>3, <2>3 DEF Siblings
    <3>2. {items'[k].seq : k \in S} = {items[k].seq : k \in S}
      BY <1>3 DEF Siblings
    <3> QED
      BY <2>2, <3>1, <3>2
  <2>4. CASE work = e.work
    <3>1. Siblings(work)' = S \union {e.key} /\ e.key \notin S
      BY <1>2, <1>3, <2>4 DEF Siblings
    <3>2. /\ last \in {0} \union {items[k].seq : k \in S}
          /\ \A k \in S : items[k].seq <= last
      BY <2>4 DEF LastSequence
    <3>3. last = n
      <4>1. last \in 0..n
        BY <2>1, <2>2, <3>2
      <4>2. \A i \in 1..n : i <= last
        BY <2>2, <3>2
      <4> HIDE DEF n
      <4> QED
        BY <2>1, <4>1, <4>2
    <3>4. Cardinality(S \union {e.key}) = n + 1
      BY <2>1, <3>1, FS_AddElement
    <3>5. {items'[k].seq : k \in S \union {e.key}} = {items[k].seq : k \in S} \union {last + 1}
      BY <1>3 DEF Siblings
    <3> HIDE DEF n, S
    <3>6. (1..n) \union {n + 1} = 1..(n + 1)
      BY <2>1
    <3> QED
      BY <2>2, <3>1, <3>3, <3>4, <3>5, <3>6
  <2> QED
    BY <2>3, <2>4
<1> QED
  BY <1>4, <1>5 DEF Filed, SequenceGapless

LEMMA NextFiled ==
  ASSUME TypeOK, Filed, [Next]_vars
  PROVE  Filed'
<1>1. ASSUME DOMAIN items' = DOMAIN items, \A k \in DOMAIN items : Kept(k)
      PROVE  Filed'
  <2>1. \A work \in Work : Siblings(work)' = Siblings(work)
    BY <1>1 DEF Siblings, Kept
  <2>2. \A work \in Work :
          {items'[k].seq : k \in Siblings(work)} = {items[k].seq : k \in Siblings(work)}
    BY <1>1 DEF Siblings, Kept
  <2> QED
    BY <1>1, <2>1, <2>2 DEF Filed, SequenceGapless
<1> QED
  BY <1>1, StepKeeps, PublishFiled

(***************************************************************************)
(* The history in queue_events of queue.py tells the state of every item   *)
(* and numbers its claims in order, for any workers, whoever writes late.  *)
(***************************************************************************)
THEOREM HistoryIsTrue == Spec => []AuditTrail
<1>1. Init => TypeOK /\ AuditTrail
  BY InitType DEF Init, AuditTrail
<1>2. TypeOK /\ AuditTrail /\ [Next]_vars => TypeOK' /\ AuditTrail'
  BY NextType, NextAudited
<1> QED
  BY <1>1, <1>2, PTL DEF Spec

(***************************************************************************)
(* publish of queue.py numbers the items of a work item without a gap, for *)
(* any publishers, keys and refused publications.                          *)
(***************************************************************************)
THEOREM NumberingIsGapless == Spec => []SequenceGapless
<1>1. Init => TypeOK /\ Filed
  <2> SUFFICES ASSUME Init PROVE Filed
    BY InitType
  <2>1. DOMAIN items = {} /\ \A work \in Work : Siblings(work) = {}
    BY DEF Init, Siblings
  <2>2. \A work \in Work : {items[k].seq : k \in Siblings(work)} = {}
    BY <2>1
  <2>3. 1..0 = {}
    OBVIOUS
  <2> QED
    BY <2>1, <2>2, <2>3, FS_EmptySet DEF Filed, SequenceGapless
<1>2. TypeOK /\ Filed /\ [Next]_vars => TypeOK' /\ Filed'
  BY NextType, NextFiled
<1>3. Filed => SequenceGapless
  BY DEF Filed
<1> QED
  BY <1>1, <1>2, <1>3, PTL DEF Spec

(***************************************************************************)
(* How far late updates carry the attempt count past the limit.            *)
(***************************************************************************)
ReadyOne(k) == IF items[k].status = "ready" THEN 1 ELSE 0

InView(k) ==
  items[k].attempts >= items[k].limit =>
    items[k].attempts + Cardinality(Stale(k)) + ReadyOne(k)
      < items[k].limit + Cardinality(Worker)

LEMMA StaleFinite ==
  ASSUME IsFiniteSet(Worker), NEW k
  PROVE  IsFiniteSet(Stale(k)) /\ Cardinality(Stale(k)) \in Nat /\ Cardinality(Worker) \in Nat
<1>1. Stale(k) \in SUBSET Worker
  BY DEF Stale
<1> QED
  BY <1>1, FS_Subset, FS_CardinalityType

LEMMA Numbers ==
  ASSUME TypeOK, NEW k \in DOMAIN items
  PROVE  /\ items[k] \in ItemRow /\ items[k].attempts \in Nat /\ items[k].limit \in Nat
         /\ ReadyOne(k) \in {0, 1}
  BY TimeAssumption DEF TypeOK, ItemRow, ReadyOne

(* An item that is not claimed or made ready stays in view.                *)
LEMMA ShrinkInView ==
  ASSUME IsFiniteSet(Worker), TypeOK, OverrunInView, NEW k \in DOMAIN items,
         items'[k].attempts = items[k].attempts, items'[k].limit = items[k].limit,
         items[k].attempts >= items[k].limit =>
           /\ items'[k].status = "ready" => items[k].status = "ready"
           /\ Stale(k)' \subseteq Stale(k)
  PROVE  InView(k)'
<1> SUFFICES ASSUME items[k].attempts >= items[k].limit
             PROVE  items[k].attempts + Cardinality(Stale(k)') + ReadyOne(k)'
                      < items[k].limit + Cardinality(Worker)
  BY DEF InView
<1>1. Cardinality(Stale(k)') \in Nat /\ Cardinality(Stale(k)') <= Cardinality(Stale(k))
  <2>1. Stale(k)' \in SUBSET Stale(k)
    OBVIOUS
  <2> QED
    BY <2>1, StaleFinite, FS_Subset, FS_CardinalityType
<1>2. ReadyOne(k)' \in {0, 1} /\ ReadyOne(k)' <= ReadyOne(k)
  BY DEF ReadyOne
<1>3. items[k].attempts + Cardinality(Stale(k)) + ReadyOne(k)
        < items[k].limit + Cardinality(Worker)
  BY DEF OverrunInView, ReadyOne
<1> QED
  BY <1>1, <1>2, <1>3, Numbers, StaleFinite

(* A worker that is given an item is in no call, so it holds no stale read *)
(* of it.                                                                  *)
LEMMA ClaimInView ==
  ASSUME IsFiniteSet(Worker), TypeOK, OverrunInView,
         NEW w \in Worker, NEW stamp \in Stamps, Claim(w, stamp)
  PROVE  OverrunInView'
<1>1. PICK k \in First(Claimable(stamp)) :
        /\ items' = [items EXCEPT ![k].status = "leased",
                                  ![k].attempts = @ + 1,
                                  ![k].owner = w,
                                  ![k].until = stamp + LeaseTime]
        /\ grant' = [grant EXCEPT ![w] = [item |-> k, until |-> stamp + LeaseTime]]
  BY DEF Claim
<1>2. k \in DOMAIN items /\ items[k].status = "ready"
  BY DEF First, Claimable
<1>3. /\ DOMAIN items' = DOMAIN items
      /\ \A j \in DOMAIN items : j # k => items'[j] = items[j]
      /\ items'[k].limit = items[k].limit /\ items'[k].status = "leased"
      /\ items'[k].attempts = items[k].attempts + 1
  BY <1>1, <1>2, Numbers DEF ItemRow
<1>4. call[w].op = "idle" /\ UNCHANGED call
  BY DEF Claim, TypeOK
<1>5. \A v \in Worker : v # w => grant'[v] = grant[v]
  BY <1>1 DEF TypeOK
<1>6. \A j \in DOMAIN items : Stale(j)' = Stale(j) /\ w \notin Stale(j)
  BY <1>3, <1>4, <1>5 DEF Stale
<1>7. ASSUME NEW j \in DOMAIN items, j # k PROVE InView(j)'
  BY <1>3, <1>6, <1>7, ShrinkInView
<1>8. InView(k)'
  <2>1. Cardinality(Stale(k)) + 1 <= Cardinality(Worker)
    <3>1. Stale(k) \in SUBSET (Worker \ {w})
      BY <1>2, <1>6 DEF Stale
    <3>2. IsFiniteSet(Worker \ {w}) /\ Cardinality(Worker \ {w}) = Cardinality(Worker) - 1
      BY FS_RemoveElement
    <3> QED
      BY <3>1, <3>2, FS_Subset, StaleFinite
  <2>2. ReadyOne(k) = 1 /\ ReadyOne(k)' = 0
    BY <1>2, <1>3 DEF ReadyOne
  <2>3. items[k].attempts >= items[k].limit =>
          items[k].attempts + Cardinality(Stale(k)) + 1 < items[k].limit + Cardinality(Worker)
    BY <1>2 DEF OverrunInView
  <2>4. /\ items[k].attempts \in Nat /\ items[k].limit \in Nat
        /\ Cardinality(Stale(k)) \in Nat /\ Cardinality(Worker) \in Nat
    BY <1>2, Numbers, StaleFinite
  <2>5. items[k].attempts + 1 >= items[k].limit =>
          items[k].attempts + 1 + Cardinality(Stale(k)) + 0 < items[k].limit + Cardinality(Worker)
    BY <2>1, <2>3, <2>4
  <2>6. Cardinality(Stale(k)') = Cardinality(Stale(k))
    BY <1>2, <1>6
  <2> QED
    BY <1>3, <2>2, <2>5, <2>6 DEF InView
<1> QED
  BY <1>3, <1>7, <1>8 DEF OverrunInView, InView, ReadyOne

(* A check made when no attempts are left is not stale.                    *)
LEMMA CheckInView ==
  ASSUME IsFiniteSet(Worker), TypeOK, OverrunInView, NEW w \in Worker, NEW op, Check(w, op)
  PROVE  OverrunInView'
<1>1. /\ UNCHANGED <<items, grant>>
      /\ call' = [call EXCEPT ![w] = [op |-> op, stamp |-> now,
                                      attempts |-> items[grant[w].item].attempts]]
  BY DEF Check
<1>2. \A k \in DOMAIN items : items[k].attempts >= items[k].limit => Stale(k)' \subseteq Stale(k)
  <2> SUFFICES ASSUME NEW k \in DOMAIN items, items[k].attempts >= items[k].limit,
                      NEW v \in Stale(k)'
               PROVE  v \in Stale(k)
    OBVIOUS
  <2>1. v \in Worker /\ grant[v].item = k /\ call'[v].attempts < items[k].limit
        /\ call'[v].op # "idle"
    BY <1>1 DEF Stale
  <2>2. v # w
    <3>1. call'[w].attempts = items[grant[w].item].attempts
      BY <1>1 DEF TypeOK
    <3> QED
      BY <2>1, <3>1, Numbers
  <2> QED
    BY <1>1, <2>1, <2>2 DEF Stale, TypeOK
<1>3. \A k \in DOMAIN items : InView(k)'
  BY <1>1, <1>2, ShrinkInView
<1> QED
  BY <1>1, <1>3 DEF OverrunInView, InView, ReadyOne

(* A call that returns is stale no more.                                   *)
LEMMA ReturnStale ==
  ASSUME TypeOK, NEW w \in Worker, Return(w) \/ (Refuse(w) /\ UNCHANGED items),
         NEW k \in DOMAIN items, items'[k].limit = items[k].limit
  PROVE  Stale(k)' \subseteq Stale(k) \ {w}
<1>1. call'[w].op = "idle" /\ \A v \in Worker : v # w => grant'[v] = grant[v] /\ call'[v] = call[v]
  <2>1. CASE Return(w)
    BY <2>1 DEF Return, Idle, TypeOK
  <2>2. CASE Refuse(w)
    BY <2>2 DEF Refuse, Idle, TypeOK
  <2> QED
    BY <2>1, <2>2
<1> QED
  BY <1>1 DEF Stale

LEMMA LeaveInView ==
  ASSUME IsFiniteSet(Worker), TypeOK, OverrunInView, NEW w \in Worker, Refuse(w) \/ Crash(w)
  PROVE  OverrunInView'
<1>1. UNCHANGED items /\ (Return(w) \/ (Refuse(w) /\ UNCHANGED items))
  BY DEF Refuse, Crash
<1>2. \A k \in DOMAIN items : Stale(k)' \subseteq Stale(k)
  BY <1>1, ReturnStale
<1>3. \A k \in DOMAIN items : InView(k)'
  BY <1>1, <1>2, ShrinkInView
<1> QED
  BY <1>1, <1>3 DEF OverrunInView, InView, ReadyOne

LEMMA AcknowledgeInView ==
  ASSUME IsFiniteSet(Worker), TypeOK, OverrunInView, NEW w \in Worker, Acknowledge(w)
  PROVE  OverrunInView'
<1> DEFINE k == grant[w].item
<1>1. k \in DOMAIN items /\ items[k] \in ItemRow
  BY BusyHasGrant, GrantFacts DEF Acknowledge
<1>2. /\ Return(w) /\ DOMAIN items' = DOMAIN items
      /\ \A j \in DOMAIN items : j # k => items'[j] = items[j]
      /\ items'[k].limit = items[k].limit /\ items'[k].attempts = items[k].attempts
      /\ items'[k].status = "acknowledged"
  BY <1>1 DEF Acknowledge, ItemRow
<1> HIDE DEF k
<1>3. \A j \in DOMAIN items : /\ items'[j].limit = items[j].limit
                              /\ items'[j].attempts = items[j].attempts
                              /\ items'[j].status = "ready" => items[j].status = "ready"
  BY <1>2
<1>4. \A j \in DOMAIN items : Stale(j)' \subseteq Stale(j)
  BY <1>2, <1>3, ReturnStale
<1>5. \A j \in DOMAIN items : InView(j)'
  BY <1>3, <1>4, ShrinkInView
<1> QED
  BY <1>2, <1>5 DEF OverrunInView, InView, ReadyOne

(* A stale retry makes the item ready and is used up.                      *)
LEMMA RetryInView ==
  ASSUME IsFiniteSet(Worker), TypeOK, OverrunInView, NEW w \in Worker,
         NEW delay \in Delays, Retry(w, delay)
  PROVE  OverrunInView'
<1>1. /\ grant[w].item \in DOMAIN items /\ items[grant[w].item] \in ItemRow
      /\ call[w].attempts \in Nat /\ call[w].op # "idle"
  BY BusyHasGrant, GrantFacts DEF Retry, TypeOK
<1> PICK k \in DOMAIN items : k = grant[w].item
  BY <1>1
<1>2. /\ Return(w) /\ DOMAIN items' = DOMAIN items
      /\ \A j \in DOMAIN items : j # k => items'[j] = items[j]
      /\ items'[k].limit = items[k].limit /\ items'[k].attempts = items[k].attempts
      /\ items'[k].status = IF call[w].attempts >= items[k].limit THEN "dead_letter" ELSE "ready"
  BY <1>1 DEF Retry, ItemRow
<1>3. call[w].attempts < items[k].limit => w \in Stale(k)
  BY <1>1 DEF Stale
<1>4. \A j \in DOMAIN items : /\ items'[j].limit = items[j].limit
                              /\ items'[j].attempts = items[j].attempts
  BY <1>2
<1>5. \A j \in DOMAIN items : Stale(j)' \subseteq Stale(j) \ {w}
  BY <1>2, <1>4, ReturnStale
<1>6. ASSUME NEW j \in DOMAIN items, j # k \/ call[w].attempts >= items[k].limit
      PROVE  InView(j)'
  BY <1>2, <1>4, <1>5, <1>6, ShrinkInView
<1>7. ASSUME call[w].attempts < items[k].limit
      PROVE  InView(k)'
  <2>1. Cardinality(Stale(k)') \in Nat /\ Cardinality(Stale(k)') <= Cardinality(Stale(k)) - 1
    <3>1. IsFiniteSet(Stale(k)) /\ Cardinality(Stale(k)) \in Nat
      BY StaleFinite
    <3>2. /\ IsFiniteSet(Stale(k) \ {w})
          /\ Cardinality(Stale(k) \ {w}) = Cardinality(Stale(k)) - 1
      BY <1>3, <1>7, <3>1, FS_RemoveElement
    <3>3. Stale(k)' \in SUBSET (Stale(k) \ {w})
      BY <1>1, <1>5
    <3> QED
      BY <3>2, <3>3, FS_Subset, FS_CardinalityType
  <2>2. items[k].attempts >= items[k].limit =>
          items[k].attempts + Cardinality(Stale(k)) + ReadyOne(k)
            < items[k].limit + Cardinality(Worker)
    BY <1>1 DEF OverrunInView, ReadyOne
  <2>3. /\ items[k].attempts \in Nat /\ items[k].limit \in Nat /\ ReadyOne(k) \in {0, 1}
        /\ Cardinality(Stale(k)) \in Nat /\ Cardinality(Worker) \in Nat
    BY <1>1, Numbers, StaleFinite
  <2>4. ReadyOne(k)' \in {0, 1}
    BY DEF ReadyOne
  <2>5. items[k].attempts >= items[k].limit =>
          items[k].attempts + Cardinality(Stale(k)') + ReadyOne(k)'
            < items[k].limit + Cardinality(Worker)
    BY <2>1, <2>2, <2>3, <2>4
  <2> QED
    BY <1>2, <2>5 DEF InView
<1>8. ASSUME NEW j \in DOMAIN items PROVE InView(j)'
  <2>1. call[w].attempts < items[k].limit \/ call[w].attempts >= items[k].limit
    BY <1>1, Numbers
  <2> QED
    BY <1>6, <1>7, <2>1
<1> QED
  BY <1>2, <1>8 DEF OverrunInView, InView, ReadyOne

LEMMA RecoverInView ==
  ASSUME IsFiniteSet(Worker), TypeOK, OverrunInView, NEW stamp \in Stamps, Recover(stamp)
  PROVE  OverrunInView'
<1>1. DOMAIN items' = DOMAIN items /\ UNCHANGED <<grant, call>>
  BY DEF Recover
<1>2. ASSUME NEW k \in DOMAIN items
      PROVE  /\ items'[k].limit = items[k].limit /\ items'[k].attempts = items[k].attempts
             /\ items[k].attempts >= items[k].limit =>
                  (items'[k].status = "ready" => items[k].status = "ready")
  <2>1. items[k] \in ItemRow
    BY Numbers
  <2>2. CASE k \in Expired(stamp)
    BY <2>1, <2>2 DEF Recover, ItemRow, UsedUp
  <2>3. CASE k \notin Expired(stamp)
    BY <2>3 DEF Recover
  <2> QED
    BY <2>2, <2>3
<1>3. \A k \in DOMAIN items : Stale(k)' = Stale(k)
  BY <1>1, <1>2 DEF Stale
<1>4. \A k \in DOMAIN items : InView(k)'
  BY <1>2, <1>3, ShrinkInView
<1> QED
  BY <1>1, <1>4 DEF OverrunInView, InView, ReadyOne

LEMMA PublishInView ==
  ASSUME IsFiniteSet(Worker), TypeOK, OverrunInView, NEW e \in Envelopes,
         NEW limit \in Limits, NEW delay \in Delays, Publish(e, limit, delay)
  PROVE  OverrunInView'
<1>1. /\ DOMAIN items' = DOMAIN items \union {e.key}
      /\ items'[e.key].attempts = 0 /\ items'[e.key].limit = limit
      /\ \A k \in DOMAIN items : items'[k] = items[k]
      /\ UNCHANGED <<grant, call>>
  BY DEF Publish, Fresh
<1>2. \A k \in DOMAIN items : Stale(k)' = Stale(k)
  BY <1>1 DEF Stale
<1>3. \A k \in DOMAIN items : InView(k)'
  BY <1>1, <1>2, ShrinkInView
<1>4. InView(e.key)'
  <2>1. limit \in Nat /\ ~(0 >= limit)
    BY TimeAssumption
  <2> QED
    BY <1>1, <2>1 DEF InView
<1> QED
  BY <1>1, <1>3, <1>4 DEF OverrunInView, InView, ReadyOne

LEMMA NextInView ==
  ASSUME IsFiniteSet(Worker), TypeOK, OverrunInView, [Next]_vars
  PROVE  OverrunInView'
<1>1. CASE UNCHANGED <<items, grant, call>>
  BY <1>1 DEF OverrunInView, Stale
<1>2. ASSUME NEW w \in Worker, Respond(w) \/ Crash(w) PROVE OverrunInView'
  BY <1>2, CheckInView, LeaveInView, AcknowledgeInView, RetryInView DEF Respond, Commit
<1> QED
  BY <1>1, <1>2, PublishInView, ClaimInView, RecoverInView DEF Next, ClaimSome, Tick, vars

(***************************************************************************)
(* However late the updates of acknowledge and retry in queue.py come: an  *)
(* item is claimed at most max_attempts times and once more for each other *)
(* worker.                                                                 *)
(***************************************************************************)
THEOREM OverrunIsBounded ==
  ASSUME IsFiniteSet(Worker)
  PROVE  Spec => []OverrunBounded
<1>1. Init => TypeOK /\ OverrunInView
  BY InitType DEF Init, OverrunInView
<1>2. TypeOK /\ OverrunInView /\ [Next]_vars => TypeOK' /\ OverrunInView'
  BY NextType, NextInView
<1>3. TypeOK /\ OverrunInView => OverrunBounded
  <2> SUFFICES ASSUME TypeOK, OverrunInView, NEW k \in DOMAIN items
               PROVE  items[k].attempts <= items[k].limit + Cardinality(Worker) - 1
    BY DEF OverrunBounded
  <2>1. items[k].attempts >= items[k].limit =>
          items[k].attempts + Cardinality(Stale(k)) + ReadyOne(k)
            < items[k].limit + Cardinality(Worker)
    BY DEF OverrunInView, ReadyOne
  <2> QED
    BY <2>1, Numbers, StaleFinite
<1> QED
  BY <1>1, <1>2, <1>3, PTL DEF Spec
(***************************************************************************)
(* The length of histories.                                                *)
(***************************************************************************)
LeasedOne(k) == IF items[k].status = "leased" THEN 1 ELSE 0

LEMMA HoldersCounted ==
  ASSUME IsFiniteSet(Worker), NEW k
  PROVE  /\ IsFiniteSet(Holders(k)) /\ Cardinality(Holders(k)) \in Nat
         /\ Cardinality(Holders(k)') \in Nat
         /\ Holders(k)' \subseteq Holders(k) =>
              Cardinality(Holders(k)') <= Cardinality(Holders(k))
         /\ \A w \in Holders(k) : Holders(k)' \subseteq Holders(k) \ {w} =>
              Cardinality(Holders(k)') + 1 <= Cardinality(Holders(k))
<1>1. /\ IsFiniteSet(Holders(k)) /\ Cardinality(Holders(k)) \in Nat
      /\ Cardinality(Holders(k)') \in Nat
  <2>1. Holders(k) \in SUBSET Worker /\ Holders(k)' \in SUBSET Worker
    BY DEF Holders
  <2> QED
    BY <2>1, FS_Subset, FS_CardinalityType
<1>2. Holders(k)' \subseteq Holders(k) => Cardinality(Holders(k)') <= Cardinality(Holders(k))
  BY <1>1, FS_Subset
<1>3. ASSUME NEW w \in Holders(k), Holders(k)' \subseteq Holders(k) \ {w}
      PROVE  Cardinality(Holders(k)') + 1 <= Cardinality(Holders(k))
  <2>1. /\ IsFiniteSet(Holders(k) \ {w})
        /\ Cardinality(Holders(k) \ {w}) = Cardinality(Holders(k)) - 1
    BY <1>1, FS_RemoveElement
  <2>2. Cardinality(Holders(k)') <= Cardinality(Holders(k) \ {w})
    BY <1>3, <2>1, FS_Subset
  <2> QED
    BY <1>1, <2>1, <2>2
<1> QED
  BY <1>1, <1>2, <1>3

LEMMA EventBound ==
  ASSUME NEW l \in Nat, NEW h \in Nat, NEW o \in Nat, NEW a \in Nat,
         NEW limit \in Nat, NEW n \in Nat,
         l + h + o <= 1 + 3 * a, a <= limit + n - 1
  PROVE  l <= 3 * (limit + n) - 2
  OBVIOUS

LEMMA EventNumbers ==
  ASSUME TypeOK, NEW k \in DOMAIN items
  PROVE  Len(log[k]) \in Nat /\ LeasedOne(k) \in {0, 1} /\ LeasedOne(k)' \in {0, 1}
<1>1. log[k] \in Seq([kind: Kind, attempts: Nat])
  BY DEF TypeOK
<1> QED
  BY <1>1 DEF LeasedOne

(* Nobody is given an item before it is published.                         *)
LEMMA PublishEvents ==
  ASSUME IsFiniteSet(Worker), TypeOK, HistoryInView, NEW e \in Envelopes,
         NEW limit \in Limits, NEW delay \in Delays, Publish(e, limit, delay)
  PROVE  HistoryInView'
<1>1. /\ DOMAIN items' = DOMAIN items \union {e.key} /\ e.key \notin DOMAIN items
      /\ items'[e.key].attempts = 0 /\ items'[e.key].status = "ready"
      /\ Len(log'[e.key]) = 1
      /\ \A k \in DOMAIN items : items'[k] = items[k] /\ log'[k] = log[k]
      /\ UNCHANGED grant
  BY DEF Publish, Fresh
<1>2. \A k \in DOMAIN items : Holders(k)' = Holders(k)
  BY <1>1 DEF Holders
<1>3. Cardinality(Holders(e.key)') = 0
  <2>1. \A w \in Worker : grant[w].item # e.key
    BY <1>1, EnvelopeAssumption, KeyAssumption DEF TypeOK, NoGrant
  <2>2. Holders(e.key)' = {}
    BY <1>1, <2>1 DEF Holders
  <2> QED
    BY <2>2, FS_EmptySet
<1>4. ASSUME NEW k \in DOMAIN items
      PROVE  Len(log'[k]) + Cardinality(Holders(k)') + (IF items'[k].status = "leased" THEN 1 ELSE 0)
               <= 1 + 3 * items'[k].attempts
  BY <1>1, <1>2 DEF HistoryInView
<1>5. Len(log'[e.key]) + Cardinality(Holders(e.key)')
        + (IF items'[e.key].status = "leased" THEN 1 ELSE 0) <= 1 + 3 * items'[e.key].attempts
  BY <1>1, <1>3
<1> QED
  BY <1>1, <1>4, <1>5 DEF HistoryInView

(* A claim adds a holder and a lease, and one event.                       *)
LEMMA ClaimEvents ==
  ASSUME IsFiniteSet(Worker), TypeOK, HistoryInView,
         NEW w \in Worker, NEW stamp \in Stamps, Claim(w, stamp)
  PROVE  HistoryInView'
<1>1. PICK k \in First(Claimable(stamp)) :
        /\ items' = [items EXCEPT ![k].status = "leased",
                                  ![k].attempts = @ + 1,
                                  ![k].owner = w,
                                  ![k].until = stamp + LeaseTime]
        /\ Record(k, "claimed", items[k].attempts + 1)
        /\ grant' = [grant EXCEPT ![w] = [item |-> k, until |-> stamp + LeaseTime]]
  BY DEF Claim
<1>2. k \in DOMAIN items /\ items[k].status = "ready"
  BY DEF First, Claimable
<1>3. /\ DOMAIN items' = DOMAIN items
      /\ \A j \in DOMAIN items : j # k => items'[j] = items[j] /\ log'[j] = log[j]
      /\ items'[k].status = "leased" /\ items'[k].attempts = items[k].attempts + 1
      /\ Len(log'[k]) = Len(log[k]) + 1
  BY <1>1, <1>2, Numbers DEF ItemRow, Record, TypeOK
<1>4. /\ grant[w].item = NoKey /\ grant'[w].item = k
      /\ \A v \in Worker : v # w => grant'[v] = grant[v]
  BY <1>1 DEF Claim, NoGrant, TypeOK
<1>5. \A j \in DOMAIN items : j # NoKey
  BY KeyAssumption DEF TypeOK
<1>6. \A j \in DOMAIN items : j # k => Holders(j)' = Holders(j)
  BY <1>4, <1>5 DEF Holders
<1>7. Cardinality(Holders(k)') = Cardinality(Holders(k)) + 1
  <2>1. Holders(k)' = Holders(k) \union {w} /\ w \notin Holders(k)
    BY <1>2, <1>4, <1>5 DEF Holders
  <2> QED
    BY <2>1, HoldersCounted, FS_AddElement
<1>8. Len(log'[k]) + Cardinality(Holders(k)') + 1 <= 1 + 3 * items'[k].attempts
  <2>1. Len(log[k]) + Cardinality(Holders(k)) + 0 <= 1 + 3 * items[k].attempts
    BY <1>2 DEF HistoryInView
  <2> QED
    BY <1>2, <1>3, <1>7, <2>1, HoldersCounted, EventNumbers, Numbers
<1> QED
  BY <1>2, <1>3, <1>6, <1>8 DEF HistoryInView

(* Any other step adds an event only by taking a holder or a lease away.   *)
LEMMA OtherEvents ==
  ASSUME IsFiniteSet(Worker), TypeOK, HistoryInView, DOMAIN items' = DOMAIN items,
         \A k \in DOMAIN items :
           /\ items'[k].attempts = items[k].attempts
           /\ Holders(k)' \subseteq Holders(k)
           /\ items'[k].status = "leased" => items[k].status = "leased"
           /\ \/ log'[k] = log[k]
              \/ /\ Len(log'[k]) = Len(log[k]) + 1
                 /\ \/ \E w \in Holders(k) : Holders(k)' \subseteq Holders(k) \ {w}
                    \/ items[k].status = "leased" /\ items'[k].status # "leased"
  PROVE  HistoryInView'
<1> SUFFICES ASSUME NEW k \in DOMAIN items
             PROVE  Len(log'[k]) + Cardinality(Holders(k)') + LeasedOne(k)'
                      <= 1 + 3 * items[k].attempts
  BY DEF HistoryInView, LeasedOne
<1>1. Len(log[k]) + Cardinality(Holders(k)) + LeasedOne(k) <= 1 + 3 * items[k].attempts
  BY DEF HistoryInView, LeasedOne
<1>2. LeasedOne(k)' <= LeasedOne(k) /\ Cardinality(Holders(k)') <= Cardinality(Holders(k))
  BY HoldersCounted DEF LeasedOne
<1>3. \/ log'[k] = log[k]
      \/ /\ Len(log'[k]) = Len(log[k]) + 1
         /\ \/ Cardinality(Holders(k)') + 1 <= Cardinality(Holders(k))
            \/ LeasedOne(k)' + 1 = LeasedOne(k)
  BY HoldersCounted DEF LeasedOne
<1>4. /\ Cardinality(Holders(k)) \in Nat /\ Cardinality(Holders(k)') \in Nat
      /\ Len(log[k]) \in Nat /\ items[k].attempts \in Nat
      /\ LeasedOne(k) \in Nat /\ LeasedOne(k)' \in Nat
  BY HoldersCounted, EventNumbers, Numbers
<1>5. Len(log'[k]) \in Nat /\ 1 + 3 * items[k].attempts \in Nat
  BY <1>3, <1>4
<1>6. PICK l \in Nat, m \in Nat, h \in Nat, i \in Nat :
        /\ l = Len(log[k]) /\ m = Len(log'[k])
        /\ h = Cardinality(Holders(k)) /\ i = Cardinality(Holders(k)')
  BY <1>4, <1>5
<1>7. PICK o \in Nat, p \in Nat, bound \in Nat :
        /\ o = LeasedOne(k) /\ p = LeasedOne(k)' /\ bound = 1 + 3 * items[k].attempts
  BY <1>4, <1>5
<1>8. l + h + o <= bound /\ i <= h /\ p <= o
  BY <1>1, <1>2, <1>6, <1>7
<1>9. m = l \/ (m = l + 1 /\ (i + 1 <= h \/ p + 1 = o))
  BY <1>3, <1>6, <1>7
<1>10. m + i + p <= bound
  BY <1>8, <1>9
<1> QED
  BY <1>6, <1>7, <1>10

LEMMA OneEvent ==
  ASSUME TypeOK, NEW k \in DOMAIN items, NEW kind, NEW n, Record(k, kind, n)
  PROVE  /\ Len(log'[k]) = Len(log[k]) + 1
         /\ \A j \in DOMAIN items : j # k => log'[j] = log[j]
<1>1. log[k] \in Seq([kind: Kind, attempts: Nat]) /\ k \in DOMAIN log
  BY DEF TypeOK
<1>2. log'[k] = Append(log[k], [kind |-> kind, attempts |-> n])
  BY <1>1 DEF Record
<1> QED
  BY <1>1, <1>2 DEF Record, TypeOK

LEMMA CommitEvents ==
  ASSUME IsFiniteSet(Worker), TypeOK, HistoryInView, NEW w \in Worker, Commit(w)
  PROVE  HistoryInView'
<1>1. Return(w) /\ grant[w].item \in DOMAIN items /\ items[grant[w].item] \in ItemRow
  BY BusyHasGrant, GrantFacts DEF Commit, Acknowledge, Retry
<1> PICK k \in DOMAIN items : k = grant[w].item
  BY <1>1
<1> DEFINE answered ==
      /\ DOMAIN items' = DOMAIN items
      /\ \A j \in DOMAIN items : j # k => items'[j] = items[j]
      /\ items'[k].attempts = items[k].attempts /\ items'[k].status # "leased"
      /\ \E kind : Record(k, kind, call[w].attempts)
<1>2. answered
  <2>1. CASE Acknowledge(w)
    BY <1>1, <2>1 DEF Acknowledge, ItemRow
  <2>2. ASSUME NEW delay \in Delays, Retry(w, delay)
        PROVE  answered
    BY <1>1, <2>2 DEF Retry, ItemRow
  <2> QED
    BY <2>1, <2>2 DEF Commit
<1>3. \A j \in DOMAIN items : Holders(j)' \subseteq Holders(j) \ {w}
  BY <1>1, KeyAssumption DEF Holders, Return, NoGrant, TypeOK
<1>4. w \in Holders(k)
  BY DEF Holders
<1> QED
  BY <1>2, <1>3, <1>4, OneEvent, OtherEvents

(* A recovery of expired leases takes those leases away.                   *)
LEMMA RecoverEvents ==
  ASSUME IsFiniteSet(Worker), TypeOK, HistoryInView, NEW stamp, Recover(stamp)
  PROVE  HistoryInView'
<1>1. DOMAIN items' = DOMAIN items /\ \A k : Holders(k)' = Holders(k)
  BY DEF Recover, Holders
<1>2. ASSUME NEW k \in Expired(stamp)
      PROVE  /\ items'[k].attempts = items[k].attempts
             /\ items[k].status = "leased" /\ items'[k].status # "leased"
             /\ Len(log'[k]) = Len(log[k]) + 1
  <2>1. k \in DOMAIN items /\ items[k].status = "leased"
    BY DEF Expired
  <2>2. /\ items'[k].attempts = items[k].attempts /\ items'[k].status # "leased"
    BY <2>1, Numbers DEF Recover, ItemRow
  <2>3. log[k] \in Seq([kind: Kind, attempts: Nat])
    BY <2>1 DEF TypeOK
  <2>4. log'[k] = Append(log[k], [kind |-> RecoveryKind(k), attempts |-> items[k].attempts])
    BY <2>1 DEF Recover
  <2> QED
    BY <2>1, <2>2, <2>3, <2>4
<1>3. \A k \in DOMAIN items \ Expired(stamp) : items'[k] = items[k] /\ log'[k] = log[k]
  BY DEF Recover
<1> QED
  BY <1>1, <1>2, <1>3, OtherEvents

LEMMA NextEvents ==
  ASSUME IsFiniteSet(Worker), TypeOK, HistoryInView, [Next]_vars
  PROVE  HistoryInView'
<1>1. CASE UNCHANGED <<items, log>> /\ \A k \in DOMAIN items : Holders(k)' \subseteq Holders(k)
  BY <1>1, OtherEvents
<1>2. ASSUME NEW w \in Worker, Respond(w) \/ Crash(w) PROVE HistoryInView'
  <2>1. CASE Commit(w)
    BY <2>1, CommitEvents
  <2>2. CASE ~Commit(w)
    <3>1. UNCHANGED <<items, log>>
      BY <1>2, <2>2 DEF Respond, Check, Refuse, Crash
    <3>2. grant' = grant \/ grant' = [grant EXCEPT ![w] = NoGrant]
      BY <1>2, <2>2 DEF Respond, Check, Refuse, Crash, Return
    <3>3. \A k \in DOMAIN items, v \in Worker : grant'[v].item = k => grant[v].item = k
      <4>1. DOMAIN grant = Worker /\ NoGrant.item = NoKey /\ NoKey \notin DOMAIN items
        BY KeyAssumption DEF NoGrant, TypeOK
      <4>2. \A v \in Worker : grant'[v] = grant[v] \/ grant'[v] = NoGrant
        BY <3>2, <4>1
      <4> QED
        BY <4>1, <4>2
    <3>4. \A k \in DOMAIN items : Holders(k)' \subseteq Holders(k)
      BY <3>3 DEF Holders
    <3> QED
      BY <1>1, <3>1, <3>4
  <2> QED
    BY <2>1, <2>2
<1>3. CASE Tick \/ UNCHANGED vars
  <2>1. UNCHANGED <<items, log, grant>>
    BY <1>3 DEF Tick, vars
  <2> QED
    BY <1>1, <2>1 DEF Holders
<1> QED
  BY <1>2, <1>3, PublishEvents, ClaimEvents, RecoverEvents DEF Next, ClaimSome

(***************************************************************************)
(* queue_events of queue.py gets no longer for an item than its attempts   *)
(* and the number of workers allow: a late answer, a recovery and a new    *)
(* claim cannot go on answering each other.                                *)
(***************************************************************************)
THEOREM HistoryIsBounded ==
  ASSUME IsFiniteSet(Worker)
  PROVE  Spec => []HistoryBounded
<1>1. Init => TypeOK /\ HistoryInView
  BY InitType DEF Init, HistoryInView
<1>2. TypeOK /\ HistoryInView /\ [Next]_vars => TypeOK' /\ HistoryInView'
  BY NextType, NextEvents
<1>3. TypeOK /\ HistoryInView /\ OverrunBounded => HistoryBounded
  <2> SUFFICES ASSUME TypeOK, HistoryInView, OverrunBounded, NEW k \in DOMAIN items
               PROVE  Len(log[k]) <= 3 * (items[k].limit + Cardinality(Worker)) - 2
    BY DEF HistoryBounded
  <2>1. Len(log[k]) + Cardinality(Holders(k)) + LeasedOne(k) <= 1 + 3 * items[k].attempts
    BY DEF HistoryInView, LeasedOne
  <2>2. items[k].attempts <= items[k].limit + Cardinality(Worker) - 1
    BY DEF OverrunBounded
  <2>3. /\ Cardinality(Holders(k)) \in Nat /\ Cardinality(Worker) \in Nat
        /\ Len(log[k]) \in Nat /\ items[k].attempts \in Nat /\ items[k].limit \in Nat
        /\ LeasedOne(k) \in Nat
    BY HoldersCounted, EventNumbers, Numbers, FS_CardinalityType
  <2> QED
    BY <2>1, <2>2, <2>3, EventBound
<1> QED
  BY <1>1, <1>2, <1>3, OverrunIsBounded, PTL DEF Spec

==============================================================================
