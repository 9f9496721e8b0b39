---------------------------- MODULE LifecycleStore ----------------------------
(***************************************************************************)
(* SQLiteStore (storage.py) used by several clients, each with its own     *)
(* connection.                                                             *)
(*                                                                         *)
(* apply_transition is three steps: it looks for the request in the ledger *)
(* and validates it, it reads the work item (Python's sqlite3 opens a      *)
(* transaction at the first write, not at this SELECT), and it updates the *)
(* item and inserts the audit event in one transaction.  Other clients go  *)
(* on between the steps.                                                   *)
(***************************************************************************)
EXTENDS StateMachine

CONSTANTS
  Client,
  Item,        \* work item ids
  RequestId,
  Initials,    \* states in which items are created
  Targets,     \* states clients ask for
  Strays,      \* [from, to] records of events appended directly
  LedgerOnly,  \* items to which somebody appends events without a transition
  MaxVersion   \* bound: length of an item's audit stream

ASSUME StoreAssumption ==
  /\ Initials \subseteq State /\ Targets \subseteq State
  /\ Strays \subseteq [from: State, to: State]
  /\ LedgerOnly \subseteq Item /\ MaxVersion \in Nat

Event == [id: RequestId, item: Item, from: State, to: State, reason: BOOLEAN,
          rule: BOOLEAN]

VARIABLES
  items,    \* work_items: id of each created item -> [state, version]
  ledger,   \* audit_events: id of each item -> its events by sequence number
  known,    \* per client: the work item it got last
  call      \* per client: the apply_transition it is in

vars == <<items, ledger, known, call>>

Nothing == [pc |-> "idle"]

Init ==
  /\ items = << >> /\ ledger = << >>
  /\ known = [c \in Client |-> Nothing]
  /\ call = [c \in Client |-> Nothing]

Create(i, s) ==
  /\ i \notin DOMAIN items
  /\ items' = [j \in DOMAIN items \union {i} |->
                 IF j = i THEN [state |-> s, version |-> 0] ELSE items[j]]
  /\ ledger' = [j \in DOMAIN items \union {i} |->
                  IF j = i THEN << >> ELSE ledger[j]]
  /\ UNCHANGED <<known, call>>

Get(c, i) ==
  /\ call[c] = Nothing
  /\ known' = [known EXCEPT ![c] = [pc |-> "got", item |-> i, row |-> items[i]]]
  /\ UNCHANGED <<items, ledger, call>>

ContainsRequest(id) ==
  \E i \in DOMAIN ledger : \E n \in DOMAIN ledger[i] : ledger[i][n].id = id

InsertEvent(e) == ledger' = [ledger EXCEPT ![e.item] = Append(@, e)]

(* append(): the ledger alone; the item is not looked at and the event is  *)
(* not validated.                                                          *)
AppendEvent(e) ==
  /\ e.item \in DOMAIN items /\ ~ContainsRequest(e.id)
  /\ Len(ledger[e.item]) < MaxVersion
  /\ InsertEvent(e)
  /\ UNCHANGED <<items, known, call>>

(***************************************************************************)
(* apply_transition, for the item and version the client got last; the     *)
(* state it names is its own affair.  A call that raises leaves the        *)
(* database as it was.                                                     *)
(***************************************************************************)
Apply(c, id, from, to, reason, rule) ==
  LET request == [id |-> id, item |-> known[c].item, from |-> from, to |-> to,
                  reason |-> reason, rule |-> rule]
  IN
  /\ call[c] = Nothing /\ known[c] # Nothing
  /\ ~ContainsRequest(id) /\ Valid(request)
  /\ call' = [call EXCEPT ![c] = [pc |-> "read", request |-> request,
                                  expected |-> known[c].row.version]]
  /\ UNCHANGED <<items, ledger, known>>

Target(c) == items[call[c].request.item]

(* Mutant of Read: the state of the item is not compared.                  *)
ReadVersion(c) ==
  /\ call[c].pc = "read"
  /\ call' = [call EXCEPT ![c] =
       IF Target(c).version = call[c].expected
       THEN [call[c] EXCEPT !.pc = "write"]
       ELSE Nothing]
  /\ UNCHANGED <<items, ledger, known>>

(* The ConcurrencyErrors of the SELECT: version and state must be those    *)
(* the client expects.                                                     *)
Read(c) ==
  /\ call[c].pc = "read"
  /\ call' = [call EXCEPT ![c] =
       IF /\ Target(c).version = call[c].expected
          /\ Target(c).state = call[c].request.from
       THEN [call[c] EXCEPT !.pc = "write"]
       ELSE Nothing]
  /\ UNCHANGED <<items, ledger, known>>

(* Mutant of Commits: the UPDATE without "AND version = ?".                *)
CommitsBlindly(c) == ~ContainsRequest(call[c].request.id)

(* The UPDATE finds the version it expects and the INSERT an unused id.    *)
Commits(c) ==
  /\ Target(c).version = call[c].expected
  /\ ~ContainsRequest(call[c].request.id)

(* Mutant of Write: a duplicate request id does not roll back the UPDATE.  *)
WriteHalf(c) ==
  /\ call[c].pc = "write"
  /\ IF Target(c).version = call[c].expected
     THEN /\ items' = [items EXCEPT
                         ![call[c].request.item] =
                           [state |-> call[c].request.to, version |-> @.version + 1]]
          /\ IF ContainsRequest(call[c].request.id) THEN UNCHANGED ledger
             ELSE InsertEvent(call[c].request)
     ELSE UNCHANGED <<items, ledger>>
  /\ call' = [call EXCEPT ![c] = Nothing]
  /\ UNCHANGED known

Write(c) ==
  /\ call[c].pc = "write"
  /\ IF Commits(c)
     THEN /\ items' = [items EXCEPT
                         ![call[c].request.item] =
                           [state |-> call[c].request.to, version |-> @.version + 1]]
          /\ InsertEvent(call[c].request)
     ELSE UNCHANGED <<items, ledger>>
  /\ call' = [call EXCEPT ![c] = Nothing]
  /\ UNCHANGED known

(* The call dies with its process or on a locked database.                 *)
Fail(c) ==
  /\ call[c] # Nothing
  /\ call' = [call EXCEPT ![c] = Nothing]
  /\ UNCHANGED <<items, ledger, known>>

(* A client names the state it read or one it takes the item to be in, and *)
(* a constitutional rule only when it escalates.                           *)
Ask(c) ==
  /\ known[c] # Nothing /\ known[c].row.version < MaxVersion
  /\ \E id \in RequestId, to \in Targets, reason \in BOOLEAN :
       \E from \in {known[c].row.state} \union Initials,
          rule \in {to = "escalated", FALSE} : Apply(c, id, from, to, reason, rule)

Next ==
  \/ \E i \in Item, s \in Initials : Create(i, s)
  \/ \E c \in Client, i \in DOMAIN items \ LedgerOnly : Get(c, i)
  \/ \E c \in Client : Ask(c) \/ Read(c) \/ Write(c) \/ Fail(c)
  \/ \E id \in RequestId, i \in LedgerOnly, e \in Strays :
       AppendEvent([id |-> id, item |-> i, from |-> e.from, to |-> e.to,
                    reason |-> TRUE, rule |-> FALSE])

Spec == Init /\ [][Next]_vars

(***************************************************************************)
(* Properties.                                                             *)
(***************************************************************************)
Row == [state: State, version: Nat]

Audited == DOMAIN items \ LedgerOnly

TypeOK ==
  /\ DOMAIN items \subseteq Item /\ items \in [DOMAIN items -> Row]
  /\ ledger \in [DOMAIN items -> Seq(Event)]
  /\ DOMAIN known = Client /\ DOMAIN call = Client
  /\ \A c \in Client :
       /\ \/ known[c] = Nothing
          \/ known[c] \in [pc: {"got"}, item: Audited, row: Row]
       /\ \/ call[c] = Nothing
          \/ /\ call[c] \in [pc: {"read", "write"}, request: Event, expected: Nat]
             /\ call[c].request.item \in Audited
             /\ Valid(call[c].request)

(* verify_snapshot() never fails for an item that is only changed through  *)
(* apply_transition: its stream replays to its state and is as long as its *)
(* version, whatever clients, retries and failures did.                    *)
SnapshotReplays ==
  \A i \in Audited :
    /\ items[i].version = Len(ledger[i])
    /\ \E s \in Initials : Replay(s, ledger[i]) = items[i].state

(* Work becomes canonical through review: since an item was last executing *)
(* or in revision it has entered review, then approval, then canonical.    *)
CanonicalThroughReview ==
  \A i \in Audited : \A n \in DOMAIN ledger[i] :
    ledger[i][n].to = "canonical" =>
      \A m \in 1..n : ledger[i][m].from \in {"executing", "revision"} =>
        \E k \in m..n : /\ ledger[i][k].to = "review"
                        /\ \E l \in k..n : ledger[i][l].to = "approved"

(* Where the stream of an item starts, and the states it has been in.      *)
Origin(i) == IF ledger[i] = << >> THEN items[i].state ELSE ledger[i][1].from

PathOf(i) ==
  IF i \in Audited
  THEN [n \in 1..Len(ledger[i]) + 1 |->
          IF n = 1 THEN Origin(i) ELSE ledger[i][n - 1].to]
  ELSE << >>

Paths == [i \in Item |-> PathOf(i)]

Life == INSTANCE Lifecycle WITH path <- Paths

(* The audit stream of an item is a walk through the lifecycle: transitions *)
(* of competing clients are never interleaved into a stream that jumps.    *)
FollowsLifecycle == Life!Spec

(***************************************************************************)
(* The inductive invariant.                                                *)
(***************************************************************************)

(* A stream is a chain of valid transitions that ends in the item's state, *)
(* and the version counts them.                                            *)
Chained(i) ==
  /\ items[i].version = Len(ledger[i])
  /\ \A n \in DOMAIN ledger[i] :
       /\ ledger[i][n].item = i /\ Valid(ledger[i][n])
       /\ n > 1 => ledger[i][n].from = ledger[i][n - 1].to
  /\ ledger[i] # << >> => ledger[i][Len(ledger[i])].to = items[i].state

(* A stream starts in a state in which items are created.                  *)
OriginsInitial == \A i \in Audited : Origin(i) \in Initials

(* A request has one event, across all items.                              *)
RequestsOnce ==
  \A i, j \in DOMAIN ledger : \A n \in DOMAIN ledger[i], m \in DOMAIN ledger[j] :
    ledger[i][n].id = ledger[j][m].id => i = j /\ n = m

(* An item that still has the version a caller read has the state it read. *)
CallSound(c) ==
  call[c].pc = "write" =>
    /\ call[c].expected <= Target(c).version
    /\ Target(c).version = call[c].expected => Target(c).state = call[c].request.from

LInv ==
  /\ TypeOK
  /\ \A i \in Audited : Chained(i)
  /\ OriginsInitial
  /\ RequestsOnce
  /\ \A c \in Client : CallSound(c)
==============================================================================
