---------------------------- MODULE LifecycleProofs ----------------------------
(***************************************************************************)
(* Proofs about LifecycleStore: for any clients, items and request ids,    *)
(* the audit stream of an item is a walk through the lifecycle.            *)
(***************************************************************************)
EXTENDS LifecycleStore, SequenceTheorems, Induction, TLAPS

(* The facts about a call in progress.                                     *)
LEMMA CallFacts ==
  ASSUME TypeOK, NEW c \in Client, call[c] # Nothing
  PROVE  /\ call[c] \in [pc: {"read", "write"}, request: Event, expected: Nat]
         /\ call[c].request \in Event /\ call[c].expected \in Nat
         /\ call[c].request.item \in Audited /\ call[c].request.item \in DOMAIN items
         /\ Valid(call[c].request)
  BY DEF TypeOK, Audited

LEMMA BusyCall ==
  ASSUME NEW c, call[c].pc \in {"read", "write"}
  PROVE  call[c] # Nothing
  BY DEF Nothing

(* The type of the clients' locals depends on the audited items alone.     *)
LocalsOK(c) ==
  /\ \/ known[c] = Nothing
     \/ known[c] \in [pc: {"got"}, item: Audited, row: Row]
  /\ \/ call[c] = Nothing
     \/ /\ call[c] \in [pc: {"read", "write"}, request: Event, expected: Nat]
        /\ call[c].request.item \in Audited
        /\ Valid(call[c].request)

LEMMA TypeParts ==
  TypeOK <=> /\ DOMAIN items \subseteq Item /\ items \in [DOMAIN items -> Row]
             /\ ledger \in [DOMAIN items -> Seq(Event)]
             /\ DOMAIN known = Client /\ DOMAIN call = Client
             /\ \A c \in Client : LocalsOK(c)
  BY DEF TypeOK, LocalsOK

(***************************************************************************)
(* Types.                                                                  *)
(***************************************************************************)
LEMMA CreateType ==
  ASSUME TypeOK, NEW i \in Item, NEW s \in Initials, Create(i, s)
  PROVE  TypeOK'
<1>1. DOMAIN items' = DOMAIN items \union {i} /\ DOMAIN items' \subseteq Item
  BY DEF Create, TypeOK
<1>2. [state |-> s, version |-> 0] \in Row
  BY StoreAssumption DEF Row
<1>3. items' \in [DOMAIN items' -> Row]
  BY <1>1, <1>2 DEF Create, TypeOK
<1>4. ledger' \in [DOMAIN items' -> Seq(Event)]
  BY <1>1 DEF Create, TypeOK
<1>5. \A c \in Client : LocalsOK(c)'
  <2>1. Audited \subseteq Audited' /\ UNCHANGED <<known, call>>
    BY <1>1 DEF Audited, Create
  <2>2. \A c \in Client : LocalsOK(c)
    BY TypeParts
  <2> QED
    BY <2>1, <2>2 DEF LocalsOK
<1> QED
  BY <1>1, <1>3, <1>4, <1>5 DEF TypeOK, LocalsOK, Create

LEMMA GetType ==
  ASSUME TypeOK, NEW c \in Client, NEW i \in DOMAIN items \ LedgerOnly, Get(c, i)
  PROVE  TypeOK'
<1>1. [pc |-> "got", item |-> i, row |-> items[i]] \in [pc: {"got"}, item: Audited, row: Row]
  BY DEF TypeOK, Audited
<1>2. Audited' = Audited /\ UNCHANGED <<items, ledger, call>>
  BY DEF Get, Audited
<1>3. \A d \in Client : LocalsOK(d)
  BY TypeParts
<1>4. \A d \in Client : known'[d] = known[d] \/ known'[d] \in [pc: {"got"}, item: Audited, row: Row]
  BY <1>1 DEF Get, TypeOK
<1>5. \A d \in Client : LocalsOK(d)'
  BY <1>2, <1>3, <1>4 DEF LocalsOK
<1> QED
  BY <1>2, <1>5 DEF TypeOK, LocalsOK, Get

LEMMA InsertType ==
  ASSUME TypeOK, NEW e \in Event, e.item \in DOMAIN items, InsertEvent(e)
  PROVE  /\ ledger' \in [DOMAIN items -> Seq(Event)]
         /\ ledger'[e.item] = Append(ledger[e.item], e)
         /\ \A i \in DOMAIN items : i # e.item => ledger'[i] = ledger[i]
<1>1. ledger[e.item] \in Seq(Event)
  BY DEF TypeOK
<1>2. Append(ledger[e.item], e) \in Seq(Event)
  BY <1>1, AppendProperties
<1> QED
  BY <1>2 DEF InsertEvent, TypeOK

LEMMA SameLocals ==
  ASSUME TypeOK, DOMAIN items' = DOMAIN items, UNCHANGED known,
         \A c \in Client : call'[c] = call[c] \/ call'[c] = Nothing
  PROVE  \A c \in Client : LocalsOK(c)'
<1>1. Audited' = Audited
  BY DEF Audited
<1>2. \A c \in Client : LocalsOK(c)
  BY TypeParts
<1> QED
  BY <1>1, <1>2 DEF LocalsOK

LEMMA AppendType ==
  ASSUME TypeOK, NEW e \in Event, AppendEvent(e)
  PROVE  TypeOK'
<1>1. UNCHANGED <<items, known, call>> /\ InsertEvent(e) /\ e.item \in DOMAIN items
  BY DEF AppendEvent
<1>2. \A c \in Client : LocalsOK(c)'
  BY <1>1, SameLocals
<1> QED
  BY <1>1, <1>2, InsertType DEF TypeOK, LocalsOK

LEMMA AskFacts ==
  ASSUME TypeOK, NEW c \in Client, Ask(c)
  PROVE  \E request \in Event, expected \in Nat :
           /\ request.item \in Audited /\ Valid(request)
           /\ call' = [call EXCEPT ![c] = [pc |-> "read", request |-> request,
                                           expected |-> expected]]
           /\ UNCHANGED <<items, ledger, known>>
<1>1. PICK id \in RequestId, to \in Targets, reason \in BOOLEAN :
        \E from \in {known[c].row.state} \union Initials,
           rule \in {to = "escalated", FALSE} : Apply(c, id, from, to, reason, rule)
  BY DEF Ask
<1>2. PICK from \in {known[c].row.state} \union Initials,
           rule \in {to = "escalated", FALSE} : Apply(c, id, from, to, reason, rule)
  BY <1>1
<1> DEFINE request == [id |-> id, item |-> known[c].item, from |-> from, to |-> to,
                       reason |-> reason, rule |-> rule]
<1>3. known[c] \in [pc: {"got"}, item: Audited, row: Row]
  BY <1>2 DEF Apply, TypeOK
<1>4. known[c].item \in Item /\ known[c].item \in Audited
      /\ known[c].row.state \in State /\ known[c].row.version \in Nat
  BY <1>3 DEF Row, Audited, TypeOK
<1>5. request \in Event
  <2>1. from \in State /\ to \in State /\ rule \in BOOLEAN
    BY <1>4, StoreAssumption
  <2> QED
    BY <1>4, <2>1 DEF Event
<1>6. /\ Valid(request)
      /\ call' = [call EXCEPT ![c] = [pc |-> "read", request |-> request,
                                      expected |-> known[c].row.version]]
      /\ UNCHANGED <<items, ledger, known>>
  BY <1>2 DEF Apply
<1>7. request.item \in Audited
  BY <1>4
<1> HIDE DEF request
<1> QED
  BY <1>4, <1>5, <1>6, <1>7

LEMMA AskType ==
  ASSUME TypeOK, NEW c \in Client, Ask(c)
  PROVE  TypeOK'
<1>1. PICK request \in Event, expected \in Nat :
        /\ request.item \in Audited /\ Valid(request)
        /\ call' = [call EXCEPT ![c] = [pc |-> "read", request |-> request,
                                        expected |-> expected]]
        /\ UNCHANGED <<items, ledger, known>>
  BY AskFacts
<1> DEFINE new == [pc |-> "read", request |-> request, expected |-> expected]
<1>2. new \in [pc: {"read", "write"}, request: Event, expected: Nat]
      /\ new.request = request
  OBVIOUS
<1>3. \A d \in Client : call'[d] = call[d] \/ call'[d] = new
  BY <1>1 DEF TypeOK
<1>4. Audited' = Audited
  BY <1>1 DEF Audited
<1> HIDE DEF new
<1>5. \A d \in Client : LocalsOK(d)
  BY TypeParts
<1>6. \A d \in Client : LocalsOK(d)'
  BY <1>1, <1>2, <1>3, <1>4, <1>5 DEF LocalsOK
<1> QED
  BY <1>1, <1>6 DEF TypeOK, LocalsOK

LEMMA ReadType ==
  ASSUME TypeOK, NEW c \in Client, Read(c)
  PROVE  TypeOK'
<1> DEFINE moved == [call[c] EXCEPT !.pc = "write"]
<1>1. call[c] # Nothing
  BY BusyCall DEF Read
<1>2. moved \in [pc: {"read", "write"}, request: Event, expected: Nat]
      /\ moved.request = call[c].request
  BY <1>1, CallFacts
<1>3. \A d \in Client : call'[d] = call[d] \/ call'[d] = Nothing
                        \/ (d = c /\ call'[d] = moved)
  BY DEF Read, TypeOK
<1>4. UNCHANGED <<items, ledger, known>> /\ Audited' = Audited
  BY DEF Read, Audited
<1> HIDE DEF moved
<1>5. call[c].request.item \in Audited /\ Valid(call[c].request)
  BY <1>1, CallFacts
<1>6. \A d \in Client : LocalsOK(d)
  BY TypeParts
<1>7. \A d \in Client : LocalsOK(d)'
  BY <1>2, <1>3, <1>4, <1>5, <1>6 DEF LocalsOK
<1> QED
  BY <1>4, <1>7 DEF TypeOK, LocalsOK, Read

(* A committed transaction, in terms of its request.                       *)
LEMMA WriteFacts ==
  ASSUME TypeOK, NEW c \in Client, Write(c), Commits(c)
  PROVE  \E request \in Event :
           /\ request = call[c].request
           /\ request.item \in Audited /\ request.item \in DOMAIN items /\ Valid(request)
           /\ items' = [items EXCEPT ![request.item] =
                          [state |-> request.to,
                           version |-> items[request.item].version + 1]]
           /\ InsertEvent(request) /\ ~ContainsRequest(request.id)
           /\ UNCHANGED known /\ call' = [call EXCEPT ![c] = Nothing]
<1>1. call[c] # Nothing
  BY BusyCall DEF Write
<1>2. call[c].request \in Event /\ call[c].request.item \in Audited
      /\ call[c].request.item \in DOMAIN items /\ Valid(call[c].request)
  BY <1>1, CallFacts
<1>3. /\ items' = [items EXCEPT ![call[c].request.item] =
                      [state |-> call[c].request.to,
                       version |-> items[call[c].request.item].version + 1]]
      /\ InsertEvent(call[c].request) /\ ~ContainsRequest(call[c].request.id)
      /\ UNCHANGED known /\ call' = [call EXCEPT ![c] = Nothing]
  BY DEF Write, Commits
<1> QED
  BY <1>2, <1>3

LEMMA WriteType ==
  ASSUME TypeOK, NEW c \in Client, Write(c)
  PROVE  TypeOK'
<1>1. CASE ~Commits(c)
  <2>1. UNCHANGED <<items, ledger, known>> /\ call' = [call EXCEPT ![c] = Nothing]
    BY <1>1 DEF Write
  <2>2. \A d \in Client : call'[d] = call[d] \/ call'[d] = Nothing
    BY <2>1 DEF TypeOK
  <2> QED
    BY <2>1, <2>2, SameLocals DEF TypeOK, LocalsOK
<1>2. CASE Commits(c)
  <2>1. PICK request \in Event :
          /\ request.item \in DOMAIN items
          /\ items' = [items EXCEPT ![request.item] =
                         [state |-> request.to,
                          version |-> items[request.item].version + 1]]
          /\ InsertEvent(request)
          /\ UNCHANGED known /\ call' = [call EXCEPT ![c] = Nothing]
    BY <1>2, WriteFacts
  <2>2. [state |-> request.to, version |-> items[request.item].version + 1] \in Row
    <3>1. request.to \in State
      BY DEF Event
    <3>2. items[request.item].version \in Nat
      BY <2>1 DEF TypeOK, Row
    <3> QED
      BY <3>1, <3>2 DEF Row
  <2>3. DOMAIN items' = DOMAIN items /\ items' \in [DOMAIN items' -> Row]
    BY <2>1, <2>2 DEF TypeOK
  <2>4. ledger' \in [DOMAIN items' -> Seq(Event)]
    BY <2>1, <2>3, InsertType
  <2>5. \A d \in Client : call'[d] = call[d] \/ call'[d] = Nothing
    BY <2>1 DEF TypeOK
  <2>6. \A d \in Client : LocalsOK(d)'
    BY <2>1, <2>3, <2>5, SameLocals
  <2> QED
    BY <2>1, <2>3, <2>4, <2>6 DEF TypeOK, LocalsOK
<1> QED
  BY <1>1, <1>2

LEMMA FailType ==
  ASSUME TypeOK, NEW c \in Client, Fail(c)
  PROVE  TypeOK'
<1>1. UNCHANGED <<items, ledger, known>>
      /\ \A d \in Client : call'[d] = call[d] \/ call'[d] = Nothing
  BY DEF Fail, TypeOK
<1> QED
  BY <1>1, SameLocals DEF TypeOK, LocalsOK, Fail

(* The event somebody appends to a LedgerOnly item.                        *)
LEMMA StrayEvent ==
  ASSUME NEW id \in RequestId, NEW i \in LedgerOnly, NEW e \in Strays
  PROVE  [id |-> id, item |-> i, from |-> e.from, to |-> e.to,
          reason |-> TRUE, rule |-> FALSE] \in Event
<1>1. e.from \in State /\ e.to \in State /\ i \in Item
  BY StoreAssumption
<1> QED
  BY <1>1 DEF Event

LEMMA NextType ==
  ASSUME TypeOK, [Next]_vars
  PROVE  TypeOK'
<1>1. CASE UNCHANGED vars
  BY <1>1 DEF vars, TypeOK, Audited
<1>2. ASSUME NEW i \in Item, NEW s \in Initials, Create(i, s)
      PROVE  TypeOK'
  BY <1>2, CreateType
<1>3. ASSUME NEW c \in Client, NEW i \in DOMAIN items \ LedgerOnly, Get(c, i)
      PROVE  TypeOK'
  BY <1>3, GetType
<1>4. ASSUME NEW c \in Client, Ask(c) \/ Read(c) \/ Write(c) \/ Fail(c)
      PROVE  TypeOK'
  BY <1>4, AskType, ReadType, WriteType, FailType
<1>5. ASSUME NEW id \in RequestId, NEW i \in LedgerOnly, NEW e \in Strays,
             AppendEvent([id |-> id, item |-> i, from |-> e.from, to |-> e.to,
                          reason |-> TRUE, rule |-> FALSE])
      PROVE  TypeOK'
  BY <1>5, StrayEvent, AppendType
<1> QED
  BY <1>1, <1>2, <1>3, <1>4, <1>5 DEF Next

(***************************************************************************)
(* Streams.                                                                *)
(***************************************************************************)

(* An unused id stays unique when it is added.                             *)
LEMMA InsertOnce ==
  ASSUME TypeOK, RequestsOnce, NEW e \in Event, e.item \in DOMAIN items,
         InsertEvent(e), ~ContainsRequest(e.id)
  PROVE  RequestsOnce'
<1>1. DOMAIN ledger = DOMAIN items /\ DOMAIN ledger' = DOMAIN items
      /\ ledger'[e.item] = Append(ledger[e.item], e)
      /\ \A i \in DOMAIN items : i # e.item => ledger'[i] = ledger[i]
  BY InsertType DEF TypeOK
<1>2. ledger[e.item] \in Seq(Event)
  BY DEF TypeOK
<1> DEFINE s == ledger[e.item]
<1>3. /\ DOMAIN ledger'[e.item] = 1..(Len(s) + 1) /\ DOMAIN s = 1..Len(s)
      /\ Len(s) \in Nat
      /\ \A n \in DOMAIN s : ledger'[e.item][n] = s[n]
      /\ ledger'[e.item][Len(s) + 1] = e
  BY <1>1, <1>2, AppendProperties, LenProperties
<1> HIDE DEF s
<1>4. \A n \in DOMAIN ledger'[e.item] : n \in DOMAIN s \/ n = Len(s) + 1
  BY <1>3
<1>5. \A i \in DOMAIN items : \A n \in DOMAIN ledger'[i] :
        \/ n \in DOMAIN ledger[i] /\ ledger'[i][n] = ledger[i][n]
        \/ i = e.item /\ n = Len(s) + 1 /\ ledger'[i][n] = e
  BY <1>1, <1>3, <1>4 DEF s
<1>6. \A i \in DOMAIN items : \A n \in DOMAIN ledger[i] : ledger[i][n].id # e.id
  BY <1>1 DEF ContainsRequest
<1> SUFFICES ASSUME NEW i \in DOMAIN ledger', NEW j \in DOMAIN ledger',
                    NEW n \in DOMAIN ledger'[i], NEW m \in DOMAIN ledger'[j],
                    ledger'[i][n].id = ledger'[j][m].id
             PROVE  i = j /\ n = m
  BY DEF RequestsOnce
<1>7. i \in DOMAIN items /\ j \in DOMAIN items
  BY <1>1
<1> QED
  BY <1>1, <1>5, <1>6, <1>7 DEF RequestsOnce

(* A valid event that starts in the item's state makes its chain longer.   *)
LEMMA InsertChained ==
  ASSUME TypeOK, NEW e \in Event, e.item \in DOMAIN items, Chained(e.item),
         Valid(e), items[e.item].state = e.from,
         InsertEvent(e),
         items' = [items EXCEPT ![e.item] =
                     [state |-> e.to, version |-> items[e.item].version + 1]]
  PROVE  Chained(e.item)'
<1> DEFINE i == e.item
           s == ledger[i]
<1>1. s \in Seq(Event) /\ Len(s) \in Nat /\ DOMAIN s = 1..Len(s)
  BY LenProperties DEF TypeOK
<1>2. ledger'[i] = Append(s, e)
  BY InsertType
<1>3. /\ Len(ledger'[i]) = Len(s) + 1
      /\ DOMAIN ledger'[i] = 1..(Len(s) + 1)
      /\ \A n \in 1..Len(s) : ledger'[i][n] = s[n]
      /\ ledger'[i][Len(s) + 1] = e
  BY <1>1, <1>2, AppendProperties
<1>4. items'[i].state = e.to /\ items'[i].version = items[i].version + 1
  BY DEF TypeOK
<1>5. /\ items[i].version = Len(s)
      /\ \A n \in DOMAIN s : /\ s[n].item = i /\ Valid(s[n])
                             /\ n > 1 => s[n].from = s[n - 1].to
      /\ s # << >> => s[Len(s)].to = e.from
  BY DEF Chained
<1> HIDE DEF i, s
<1>6. s # << >> <=> Len(s) > 0
  BY <1>1, EmptySeq
<1>7. ASSUME NEW n \in 1..(Len(s) + 1)
      PROVE  /\ ledger'[i][n].item = i /\ Valid(ledger'[i][n])
             /\ n > 1 => ledger'[i][n].from = ledger'[i][n - 1].to
  <2>1. CASE n \in 1..Len(s)
    <3>1. n > 1 => n - 1 \in 1..Len(s)
      BY <1>1, <2>1
    <3> QED
      BY <1>1, <1>3, <1>5, <2>1, <3>1
  <2>2. CASE n = Len(s) + 1
    <3>1. e.item = i
      BY DEF i
    <3>2. n > 1 => n - 1 = Len(s) /\ Len(s) \in 1..Len(s) /\ s # << >>
      BY <1>1, <1>6, <2>2
    <3> QED
      BY <1>3, <1>5, <2>2, <3>1, <3>2
  <2> QED
    BY <1>1, <2>1, <2>2
<1>8. ledger'[i][Len(ledger'[i])].to = items'[i].state
      /\ items'[i].version = Len(ledger'[i])
  BY <1>3, <1>4, <1>5
<1> QED
  BY <1>3, <1>7, <1>8 DEF Chained, i

LEMMA NextLedger ==
  ASSUME LInv, [Next]_vars
  PROVE  /\ \A i \in Audited' : Chained(i)'
         /\ RequestsOnce'
<1> USE DEF LInv
<1>1. CASE UNCHANGED <<items, ledger>>
  BY <1>1 DEF Audited, Chained, RequestsOnce
<1>2. ASSUME NEW i \in Item, NEW s \in Initials, Create(i, s)
      PROVE  /\ \A j \in Audited' : Chained(j)'
             /\ RequestsOnce'
  <2>1. /\ DOMAIN items' = DOMAIN items \union {i}
        /\ i \notin DOMAIN items /\ DOMAIN ledger = DOMAIN items
        /\ items'[i] = [state |-> s, version |-> 0] /\ ledger'[i] = << >>
        /\ DOMAIN ledger' = DOMAIN items'
    BY <1>2 DEF Create, TypeOK
  <2>2. \A j \in DOMAIN items : items'[j] = items[j] /\ ledger'[j] = ledger[j]
    BY <1>2 DEF Create
  <2>3. ASSUME NEW j \in Audited'
        PROVE  Chained(j)'
    <3>1. CASE j = i
      BY <2>1, <3>1 DEF Chained
    <3>2. CASE j # i
      BY <2>1, <2>2, <3>2 DEF Chained, Audited
    <3> QED
      BY <3>1, <3>2
  <2>4. RequestsOnce'
    BY <2>1, <2>2 DEF RequestsOnce
  <2> QED
    BY <2>3, <2>4
<1>3. ASSUME NEW c \in Client, Write(c), Commits(c)
      PROVE  /\ \A j \in Audited' : Chained(j)'
             /\ RequestsOnce'
  <2>1. PICK e \in Event :
          /\ e = call[c].request
          /\ e.item \in Audited /\ e.item \in DOMAIN items /\ Valid(e)
          /\ items' = [items EXCEPT ![e.item] =
                         [state |-> e.to, version |-> items[e.item].version + 1]]
          /\ InsertEvent(e) /\ ~ContainsRequest(e.id)
    BY <1>3, WriteFacts
  <2>2. items[e.item].state = e.from
    BY <1>3, <2>1 DEF Write, Commits, CallSound, Target
  <2>3. RequestsOnce'
    BY <2>1, InsertOnce
  <2>4. Chained(e.item)'
    BY <2>1, <2>2, InsertChained
  <2>5. \A j \in Audited' : j # e.item => Chained(j)'
    <3>1. \A j \in DOMAIN items : j # e.item => ledger'[j] = ledger[j] /\ items'[j] = items[j]
      BY <2>1, InsertType
    <3>2. Audited' = Audited
      BY <2>1 DEF Audited
    <3> QED
      BY <3>1, <3>2 DEF Chained, Audited
  <2> QED
    BY <2>3, <2>4, <2>5
<1>4. ASSUME NEW id \in RequestId, NEW i \in LedgerOnly, NEW e \in Strays,
             AppendEvent([id |-> id, item |-> i, from |-> e.from, to |-> e.to,
                          reason |-> TRUE, rule |-> FALSE])
      PROVE  /\ \A j \in Audited' : Chained(j)'
             /\ RequestsOnce'
  <2>1. PICK new \in Event :
          new.item = i /\ AppendEvent(new)
    BY <1>4, StrayEvent
  <2>2. new.item \in DOMAIN items /\ InsertEvent(new) /\ ~ContainsRequest(new.id)
        /\ UNCHANGED items
    BY <2>1 DEF AppendEvent
  <2>3. RequestsOnce'
    BY <2>2, InsertOnce
  <2>4. \A j \in Audited : ledger'[j] = ledger[j]
    BY <2>1, <2>2, InsertType DEF Audited
  <2>5. Audited' = Audited
    BY <2>2 DEF Audited
  <2>6. \A j \in Audited' : Chained(j)'
    BY <2>2, <2>4, <2>5 DEF Chained
  <2> QED
    BY <2>3, <2>6
<1>5. ASSUME NEW c \in Client, Ask(c) \/ Read(c) \/ Write(c) \/ Fail(c)
      PROVE  /\ \A j \in Audited' : Chained(j)'
             /\ RequestsOnce'
  <2>1. Ask(c) => UNCHANGED <<items, ledger>>
    BY AskFacts
  <2>2. Read(c) \/ Fail(c) \/ (Write(c) /\ ~Commits(c)) => UNCHANGED <<items, ledger>>
    BY DEF Read, Fail, Write
  <2> QED
    BY <1>1, <1>3, <1>5, <2>1, <2>2
<1>6. ASSUME NEW c \in Client, NEW i \in DOMAIN items \ LedgerOnly, Get(c, i)
      PROVE  UNCHANGED <<items, ledger>>
  BY <1>6 DEF Get
<1> QED
  BY <1>1, <1>2, <1>4, <1>5, <1>6 DEF Next, vars

(* A stream starts where its item was created: its first event is written  *)
(* when the item still has the state it was created with.                  *)
LEMMA NextOrigins ==
  ASSUME LInv, [Next]_vars
  PROVE  OriginsInitial'
<1> USE DEF LInv
<1>1. ASSUME Audited' = Audited, \A j \in Audited : Origin(j)' = Origin(j)
      PROVE  OriginsInitial'
  BY <1>1 DEF OriginsInitial
<1>2. ASSUME NEW i \in Item, NEW s \in Initials, Create(i, s)
      PROVE  OriginsInitial'
  <2>1. /\ DOMAIN items' = DOMAIN items \union {i}
        /\ items'[i] = [state |-> s, version |-> 0] /\ ledger'[i] = << >>
    BY <1>2 DEF Create, TypeOK
  <2>2. \A j \in DOMAIN items : items'[j] = items[j] /\ ledger'[j] = ledger[j]
    BY <1>2 DEF Create
  <2>3. \A j \in Audited' : Origin(j)' \in Initials
    <3>1. Origin(i)' = s
      BY <2>1 DEF Origin
    <3>2. \A j \in Audited : Origin(j)' = Origin(j)
      BY <2>2 DEF Origin, Audited
    <3>3. \A j \in Audited' : j = i \/ j \in Audited
      BY <2>1 DEF Audited
    <3> QED
      BY <3>1, <3>2, <3>3 DEF OriginsInitial
  <2> QED
    BY <2>3 DEF OriginsInitial
<1>3. ASSUME NEW c \in Client, Write(c), Commits(c)
      PROVE  OriginsInitial'
  <2>1. PICK e \in Event :
          /\ e = call[c].request
          /\ e.item \in Audited /\ e.item \in DOMAIN items
          /\ items' = [items EXCEPT ![e.item] =
                         [state |-> e.to, version |-> items[e.item].version + 1]]
          /\ InsertEvent(e)
    BY <1>3, WriteFacts
  <2>2. items[e.item].state = e.from
    BY <1>3, <2>1 DEF Write, Commits, CallSound, Target
  <2>3. ledger[e.item] \in Seq(Event) /\ ledger'[e.item] = Append(ledger[e.item], e)
    BY <2>1, InsertType DEF TypeOK
  <2>4. Origin(e.item)' = Origin(e.item)
    <3>1. ledger'[e.item] # << >>
      BY <2>3, AppendProperties
    <3>2. CASE ledger[e.item] = << >>
      <4>1. ledger'[e.item][1] = e
        BY <2>3, <3>2
      <4> QED
        BY <2>2, <3>1, <3>2, <4>1 DEF Origin
    <3>3. CASE ledger[e.item] # << >>
      <4>1. 1 \in 1..Len(ledger[e.item])
        BY <2>3, <3>3, EmptySeq, LenProperties
      <4>2. ledger'[e.item][1] = ledger[e.item][1]
        BY <2>3, <4>1, AppendProperties
      <4> QED
        BY <3>1, <3>3, <4>2 DEF Origin
    <3> QED
      BY <3>2, <3>3
  <2>5. \A j \in DOMAIN items : j # e.item => ledger'[j] = ledger[j] /\ items'[j] = items[j]
    BY <2>1, InsertType
  <2>6. Audited' = Audited
    BY <2>1 DEF Audited
  <2>7. \A j \in Audited : j # e.item => Origin(j)' = Origin(j)
    BY <2>5 DEF Origin, Audited
  <2> QED
    BY <1>1, <2>4, <2>6, <2>7
<1>4. ASSUME NEW id \in RequestId, NEW i \in LedgerOnly, NEW e \in Strays,
             AppendEvent([id |-> id, item |-> i, from |-> e.from, to |-> e.to,
                          reason |-> TRUE, rule |-> FALSE])
      PROVE  OriginsInitial'
  <2>1. PICK new \in Event :
          new.item = i /\ AppendEvent(new)
    BY <1>4, StrayEvent
  <2>2. new.item \in DOMAIN items /\ InsertEvent(new) /\ UNCHANGED items
    BY <2>1 DEF AppendEvent
  <2>3. \A j \in Audited : ledger'[j] = ledger[j]
    BY <2>1, <2>2, InsertType DEF Audited
  <2>4. Audited' = Audited /\ \A j \in Audited : Origin(j)' = Origin(j)
    BY <2>2, <2>3 DEF Audited, Origin
  <2> QED
    BY <1>1, <2>4
<1>5. ASSUME UNCHANGED <<items, ledger>>
      PROVE  OriginsInitial'
  BY <1>1, <1>5 DEF Origin, Audited
<1>6. ASSUME NEW c \in Client, Ask(c) \/ Read(c) \/ Write(c) \/ Fail(c)
      PROVE  OriginsInitial'
  <2>1. Ask(c) => UNCHANGED <<items, ledger>>
    BY AskFacts
  <2>2. Read(c) \/ Fail(c) \/ (Write(c) /\ ~Commits(c)) => UNCHANGED <<items, ledger>>
    BY DEF Read, Fail, Write
  <2> QED
    BY <1>3, <1>5, <1>6, <2>1, <2>2
<1>7. ASSUME NEW c \in Client, NEW i \in DOMAIN items \ LedgerOnly, Get(c, i)
      PROVE  OriginsInitial'
  BY <1>5, <1>7 DEF Get
<1> QED
  BY <1>2, <1>4, <1>5, <1>6, <1>7 DEF Next, vars

(* Rows keep or raise their versions, and keep the state with the version. *)
LEMMA RowsMoveOn ==
  ASSUME TypeOK, [Next]_vars, NEW i \in DOMAIN items
  PROVE  \/ i \in DOMAIN items' /\ items'[i] = items[i]
         \/ i \in DOMAIN items' /\ items'[i].version = items[i].version + 1
<1>1. CASE UNCHANGED items
  BY <1>1
<1>2. ASSUME NEW j \in Item, NEW s \in Initials, Create(j, s)
      PROVE  i \in DOMAIN items' /\ items'[i] = items[i]
  BY <1>2 DEF Create
<1>3. ASSUME NEW c \in Client, Write(c), Commits(c)
      PROVE  i \in DOMAIN items' /\ (items'[i] = items[i]
                \/ items'[i].version = items[i].version + 1)
  <2>1. PICK e \in Event :
          items' = [items EXCEPT ![e.item] =
                         [state |-> e.to, version |-> items[e.item].version + 1]]
    BY <1>3, WriteFacts
  <2> QED
    BY <2>1
<1>4. ASSUME NEW c \in Client, Ask(c) \/ Read(c) \/ Fail(c) \/ (Write(c) /\ ~Commits(c))
      PROVE  UNCHANGED items
  BY <1>4, AskFacts DEF Read, Fail, Write
<1>5. ASSUME NEW c \in Client, NEW j \in DOMAIN items \ LedgerOnly, Get(c, j)
      PROVE  UNCHANGED items
  BY <1>5 DEF Get
<1>6. ASSUME NEW e, AppendEvent(e)
      PROVE  UNCHANGED items
  BY <1>6 DEF AppendEvent
<1> QED
  BY <1>1, <1>2, <1>3, <1>4, <1>5, <1>6 DEF Next, vars

LEMMA NextCalls ==
  ASSUME LInv, [Next]_vars
  PROVE  \A c \in Client : CallSound(c)'
<1> USE DEF LInv
<1> SUFFICES ASSUME NEW c \in Client, call'[c].pc = "write"
             PROVE  CallSound(c)'
  BY DEF CallSound
<1>1. ASSUME Read(c)
      PROVE  CallSound(c)'
  <2>1. call[c] # Nothing
    BY <1>1, BusyCall DEF Read
  <2>2. call[c] \in [pc: {"read", "write"}, request: Event, expected: Nat]
    BY <2>1, CallFacts
  <2>3. call'[c] = [call[c] EXCEPT !.pc = "write"]
        /\ Target(c).version = call[c].expected
        /\ Target(c).state = call[c].request.from
    BY <1>1 DEF Read, Nothing, TypeOK
  <2>4. call'[c].request = call[c].request /\ call'[c].expected = call[c].expected
        /\ UNCHANGED items
    BY <1>1, <2>2, <2>3 DEF Read
  <2> QED
    BY <2>2, <2>3, <2>4 DEF CallSound, Target
<1>2. ASSUME ~Read(c)
      PROVE  call'[c] = call[c]
  <2>1. ASSUME NEW d \in Client, Ask(d)
        PROVE  call'[c] = call[c]
    <3>1. PICK request \in Event, expected \in Nat :
            call' = [call EXCEPT ![d] = [pc |-> "read", request |-> request,
                                         expected |-> expected]]
      BY <2>1, AskFacts
    <3> QED
      BY <3>1 DEF TypeOK
  <2>2. ASSUME NEW d \in Client, Read(d)
        PROVE  call'[c] = call[c]
    <3>1. PICK new : call' = [call EXCEPT ![d] = new]
      BY <2>2 DEF Read
    <3>2. d # c
      BY <1>2, <2>2
    <3> QED
      BY <3>1, <3>2 DEF TypeOK
  <2>3. ASSUME NEW d \in Client, Write(d) \/ Fail(d)
        PROVE  call'[c] = call[c]
    BY <2>3 DEF Write, Fail, Nothing, TypeOK
  <2>4. ASSUME NEW d \in Client, NEW i \in DOMAIN items \ LedgerOnly, Get(d, i)
        PROVE  call'[c] = call[c]
    BY <2>4 DEF Get
  <2>5. ASSUME NEW e, AppendEvent(e)
        PROVE  call'[c] = call[c]
    BY <2>5 DEF AppendEvent
  <2>6. ASSUME NEW i \in Item, NEW s \in Initials, Create(i, s)
        PROVE  call'[c] = call[c]
    BY <2>6 DEF Create
  <2> QED
    BY <2>1, <2>2, <2>3, <2>4, <2>5, <2>6 DEF Next, vars
<1>3. ASSUME call'[c] = call[c]
      PROVE  CallSound(c)'
  <2>1. call[c].pc = "write" /\ call[c] # Nothing
    BY <1>3, BusyCall
  <2>2. call[c].expected \in Nat /\ call[c].request.item \in DOMAIN items
    BY <2>1, CallFacts
  <2>3. Target(c).version \in Nat
    BY <2>2 DEF Target, TypeOK, Row
  <2>4. Target(c)' = Target(c) \/ Target(c)'.version = Target(c).version + 1
    BY <1>3, <2>2, RowsMoveOn DEF Target
  <2>5. call[c].expected <= Target(c).version
        /\ Target(c).version = call[c].expected => Target(c).state = call[c].request.from
    BY <2>1 DEF CallSound
  <2> QED
    BY <1>3, <2>2, <2>3, <2>4, <2>5 DEF CallSound
<1> QED
  BY <1>1, <1>2, <1>3

(***************************************************************************)
(* The theorems.                                                           *)
(***************************************************************************)

(* Every audit stream is a chain of valid transitions that ends in the     *)
(* state of its item, no request has two events, and a caller that still   *)
(* finds the version it read finds the state it read.                      *)
THEOREM StoreInvariance == Spec => []LInv
<1>1. Init => LInv
  <2> SUFFICES ASSUME Init PROVE LInv
    OBVIOUS
  <2>1. DOMAIN items = {} /\ DOMAIN ledger = {}
    BY DEF Init
  <2>2. TypeOK
    <3>1. items \in [DOMAIN items -> Row] /\ ledger \in [DOMAIN items -> Seq(Event)]
      BY <2>1 DEF Init
    <3> QED
      BY <2>1, <3>1 DEF Init, TypeOK
  <2> QED
    BY <2>1, <2>2
       DEF LInv, Audited, OriginsInitial, RequestsOnce, CallSound, Init, Nothing
<1>2. LInv /\ [Next]_vars => LInv'
  <2> SUFFICES ASSUME LInv, [Next]_vars PROVE LInv'
    OBVIOUS
  <2>1. TypeOK'
    BY NextType DEF LInv
  <2>2. (\A i \in Audited' : Chained(i)') /\ RequestsOnce'
    BY NextLedger
  <2>3. \A c \in Client : CallSound(c)'
    BY NextCalls
  <2>4. OriginsInitial'
    BY NextOrigins
  <2> QED
    BY <2>1, <2>2, <2>3, <2>4 DEF LInv
<1> QED
  BY <1>1, <1>2, PTL DEF Spec

(* Only approval leads to canonical, and only review to approval.          *)
LEMMA OnlyThroughReview ==
  ASSUME NEW s \in State
  PROVE  /\ "canonical" \in AllowedTargets(s) => s = "approved"
         /\ "approved" \in AllowedTargets(s) => s = "review"
BY DEF State, AllowedTargets, TerminalStates

(* Work becomes canonical through review: since an item was last executing *)
(* or in revision it has entered review, then approval, then canonical.    *)
(* It follows from the chain, read backwards from the canonical event.     *)
THEOREM CanonicalIsReviewed == Spec => []CanonicalThroughReview
<1>1. LInv => CanonicalThroughReview
  <2> SUFFICES ASSUME LInv, NEW i \in Audited, NEW n \in DOMAIN ledger[i],
                      ledger[i][n].to = "canonical", NEW m \in 1..n,
                      ledger[i][m].from \in {"executing", "revision"}
               PROVE  \E k \in m..n : /\ ledger[i][k].to = "review"
                                      /\ \E l \in k..n : ledger[i][l].to = "approved"
    BY DEF CanonicalThroughReview
  <2> DEFINE s == ledger[i]
  <2>1. s \in Seq(Event)
    BY DEF LInv, TypeOK, Audited
  <2>2. Len(s) \in Nat /\ DOMAIN s = 1..Len(s) /\ n \in 1..Len(s) /\ m \in Nat
    BY <2>1, LenProperties
  <2>3. ASSUME NEW j \in 1..Len(s)
        PROVE  /\ s[j].to = "canonical" => s[j].from = "approved"
               /\ s[j].to = "approved" => s[j].from = "review"
    <3>1. s[j].from \in State
      <4>1. s[j] \in Event
        BY <2>1, ElementOfSeq
      <4> QED
        BY <4>1 DEF Event
    <3>2. s[j].to \in AllowedTargets(s[j].from)
      BY <2>2 DEF LInv, Chained, Valid
    <3>3. /\ "canonical" \in AllowedTargets(s[j].from) => s[j].from = "approved"
          /\ "approved" \in AllowedTargets(s[j].from) => s[j].from = "review"
      BY <3>1, OnlyThroughReview
    <3> QED
      BY <3>2, <3>3
  <2>4. ASSUME NEW j \in 1..Len(s), j > 1
        PROVE  j - 1 \in 1..Len(s) /\ s[j].from = s[j - 1].to
    BY <2>2, <2>4 DEF LInv, Chained
  <2>5. s[n].from = "approved"
    BY <2>2, <2>3
  <2>6. m < n /\ n > 1
    BY <2>2, <2>5
  <2>7. n - 1 \in 1..Len(s) /\ s[n - 1].from = "review" /\ s[n - 1].to = "approved"
    BY <2>2, <2>3, <2>4, <2>5, <2>6
  <2>8. m < n - 1 /\ n - 1 > 1
    BY <2>2, <2>6, <2>7
  <2>9. s[n - 2].to = "review"
    <3>1. s[n - 1].from = s[(n - 1) - 1].to
      BY <2>4, <2>7, <2>8
    <3>2. (n - 1) - 1 = n - 2
      BY <2>2
    <3> QED
      BY <2>7, <3>1, <3>2
  <2>10. n - 2 \in m..n /\ n - 1 \in (n - 2)..n
    BY <2>2, <2>8
  <2> QED
    BY <2>7, <2>9, <2>10
<1> QED
  BY <1>1, StoreInvariance, PTL

(* A stream of valid transitions, each from where the one before it led,   *)
(* replays to where the last one led.  By induction over the stream.       *)
LEMMA ReplayOfChain ==
  ASSUME NEW s, NEW stream \in Seq(Event),
         \A n \in 1..Len(stream) :
           /\ Valid(stream[n])
           /\ stream[n].from = IF n = 1 THEN s ELSE stream[n - 1].to
  PROVE  Replay(s, stream) = IF stream = << >> THEN s ELSE stream[Len(stream)].to
<1> DEFINE D == 0..Len(stream)
           Reached(f, n) == IF n = 0 THEN s
                            ELSE IF f[n - 1] = stream[n].from /\ Valid(stream[n])
                                 THEN stream[n].to ELSE InvalidStream
           current[n \in D] == IF n = 0 THEN s
                            ELSE IF current[n - 1] = stream[n].from /\ Valid(stream[n])
                                 THEN stream[n].to ELSE InvalidStream
           path == [n \in D |-> IF n = 0 THEN s ELSE stream[n].to]
<1>1. Len(stream) \in Nat
  BY LenProperties
<1>2. Replay(s, stream) = current[Len(stream)]
  BY DEF Replay
<1>3. path = [n \in D |-> Reached(path, n)]
  <2>1. ASSUME NEW n \in D
        PROVE  path[n] = Reached(path, n)
    <3>1. CASE n = 0
      BY <3>1
    <3>2. CASE n # 0
      <4>1. n \in 1..Len(stream) /\ n - 1 \in D
        BY <1>1, <3>2
      <4>2. path[n - 1] = stream[n].from
        BY <1>1, <4>1
      <4> QED
        BY <3>2, <4>1, <4>2
    <3> QED
      BY <3>1, <3>2
  <2> HIDE DEF Reached
  <2> QED
    BY <2>1
<1>4. current = [n \in D |-> Reached(current, n)]
  BY <1>3
<1>5. \A n \in D : current[n] = path[n]
  <2> DEFINE T == {n \in Nat : n \in D => current[n] = path[n]}
  <2> HIDE DEF current
  <2>1. 0 \in T
    BY <1>4
  <2>2. ASSUME NEW n \in Nat, n \in T
        PROVE  n + 1 \in T
    <3>1. SUFFICES ASSUME n + 1 \in D
                   PROVE  current[n + 1] = path[n + 1]
      OBVIOUS
    <3>2. n \in D /\ n + 1 \in 1..Len(stream) /\ n + 1 # 0 /\ (n + 1) - 1 = n
      BY <1>1, <3>1
    <3>3. current[n] = stream[n + 1].from
      BY <1>1, <2>2, <3>2
    <3>4. current[n + 1] = Reached(current, n + 1)
      BY <1>4, <3>1
    <3> QED
      BY <3>1, <3>2, <3>3, <3>4
  <2>3. Nat \subseteq T
    BY <2>1, <2>2, SetInduction
  <2>4. \A n \in Nat : n \in D => current[n] = path[n]
    BY <2>3
  <2>5. D \subseteq Nat
    BY <1>1
  <2> HIDE DEF D, T, path
  <2> QED
    BY <2>4, <2>5
<1> HIDE DEF current
<1>6. current[Len(stream)] = path[Len(stream)]
  BY <1>1, <1>5
<1> QED
  BY <1>1, <1>2, <1>6, EmptySeq, LenProperties

(* verify_snapshot() never fails for an item that is only changed through  *)
(* apply_transition: its stream replays to its state and is as long as its *)
(* version, for any number of clients, retries and failures.               *)
THEOREM SnapshotsReplay == Spec => []SnapshotReplays
<1>1. LInv => SnapshotReplays
  <2> SUFFICES ASSUME LInv, NEW i \in Audited
               PROVE  /\ items[i].version = Len(ledger[i])
                      /\ \E s \in Initials : Replay(s, ledger[i]) = items[i].state
    BY DEF SnapshotReplays
  <2>1. ledger[i] \in Seq(Event) /\ Origin(i) \in Initials
    BY DEF LInv, TypeOK, Audited, OriginsInitial
  <2>2. DOMAIN ledger[i] = 1..Len(ledger[i]) /\ Len(ledger[i]) \in Nat
    BY <2>1, LenProperties
  <2>3. ASSUME NEW n \in 1..Len(ledger[i])
        PROVE  /\ Valid(ledger[i][n])
               /\ ledger[i][n].from = IF n = 1 THEN Origin(i) ELSE ledger[i][n - 1].to
    <3>1. Valid(ledger[i][n]) /\ (n > 1 => ledger[i][n].from = ledger[i][n - 1].to)
      BY <2>2 DEF LInv, Chained
    <3>2. ledger[i] # << >>
      BY <2>1, <2>2, EmptySeq
    <3> QED
      BY <2>2, <3>1, <3>2 DEF Origin
  <2>4. Replay(Origin(i), ledger[i]) =
          IF ledger[i] = << >> THEN Origin(i) ELSE ledger[i][Len(ledger[i])].to
    BY <2>1, <2>3, ReplayOfChain
  <2>5. Replay(Origin(i), ledger[i]) = items[i].state
    BY <2>4 DEF LInv, Chained, Origin
  <2> QED
    BY <2>1, <2>5 DEF LInv, Chained
<1> QED
  BY <1>1, StoreInvariance, PTL

(***************************************************************************)
(* Refinement: the path of an item, taken from its stream.                 *)
(***************************************************************************)

(* The path of an audited item has one state more than its stream, and     *)
(* ends in the item's state.                                               *)
LEMMA PathFacts ==
  ASSUME LInv, NEW i \in Audited
  PROVE  /\ Len(ledger[i]) \in Nat
         /\ PathOf(i) \in Seq(State)
         /\ Len(PathOf(i)) = Len(ledger[i]) + 1
         /\ PathOf(i) \in [1..(Len(ledger[i]) + 1) -> State]
         /\ PathOf(i)[Len(ledger[i]) + 1] = items[i].state
         /\ PathOf(i) # << >>
<1>1. i \in DOMAIN items /\ ledger[i] \in Seq(Event) /\ items[i].state \in State
  BY DEF LInv, TypeOK, Audited, Row
<1> DEFINE s == ledger[i]
           k == Len(s)
<1>2. k \in Nat /\ DOMAIN s = 1..k /\ s \in [1..k -> Event] /\ (s # << >> => k > 0)
      /\ (s = << >> => k = 0)
  BY <1>1, LenProperties, EmptySeq
<1>3. \A n \in 1..k : s[n].from \in State /\ s[n].to \in State
  BY <1>2 DEF Event
<1>4. s # << >> => s[k].to = items[i].state
  BY DEF LInv, Chained
<1> HIDE DEF k
<1>5. Origin(i) \in State
  BY <1>1, <1>2, <1>3 DEF Origin
<1>6. PathOf(i) = [n \in 1..(k + 1) |-> IF n = 1 THEN Origin(i) ELSE s[n - 1].to]
  BY DEF PathOf, k
<1> HIDE DEF s
<1>7. \A n \in 1..(k + 1) : n # 1 => n - 1 \in 1..k
  BY <1>2
<1>8. PathOf(i) \in [1..(k + 1) -> State]
  BY <1>3, <1>5, <1>6, <1>7
<1>9. k + 1 \in Nat /\ k + 1 # 0
  BY <1>2
<1>10. PathOf(i) \in Seq(State) /\ Len(PathOf(i)) = k + 1
  BY <1>8, <1>9
<1>11. PathOf(i)[k + 1] = items[i].state
  <2>1. CASE s = << >>
    <3>1. k = 0 /\ Origin(i) = items[i].state
      BY <1>2, <2>1 DEF Origin, s
    <3> QED
      BY <1>6, <3>1
  <2>2. CASE s # << >>
    <3>1. k + 1 # 1 /\ k + 1 \in 1..(k + 1) /\ (k + 1) - 1 = k
      BY <1>2, <2>2
    <3>2. PathOf(i)[k + 1] = s[k].to
      BY <1>6, <3>1
    <3> QED
      BY <1>4, <2>2, <3>2
  <2> QED
    BY <2>1, <2>2
<1>12. PathOf(i) # << >>
  BY <1>9, <1>10, EmptySeq
<1> QED
  BY <1>2, <1>8, <1>10, <1>11, <1>12 DEF k, s

(* Both modules have the same table.                                       *)
LEMMA SameTable ==
  /\ Life!State = State
  /\ \A s : Life!AllowedTargets(s) = AllowedTargets(s)
  BY DEF Life!State, State, Life!AllowedTargets, AllowedTargets,
         Life!TerminalStates, TerminalStates

LEMMA CreateLife ==
  ASSUME LInv, NEW i \in Item, NEW s \in Initials, Create(i, s)
  PROVE  [Life!Next]_Paths
<1>1. /\ i \notin DOMAIN items /\ DOMAIN items' = DOMAIN items \union {i}
      /\ items'[i] = [state |-> s, version |-> 0] /\ ledger'[i] = << >>
      /\ \A j \in DOMAIN items : items'[j] = items[j] /\ ledger'[j] = ledger[j]
  BY DEF Create
<1>2. \A j \in Item : j # i => PathOf(j)' = PathOf(j)
  BY <1>1 DEF PathOf, Audited, Origin
<1>3. CASE i \in LedgerOnly
  <2>1. PathOf(i)' = PathOf(i)
    BY <1>3 DEF PathOf, Audited
  <2> QED
    BY <1>2, <2>1 DEF Paths
<1>4. CASE i \notin LedgerOnly
  <2>1. i \in Audited' /\ Origin(i)' = s /\ PathOf(i) = << >>
    BY <1>1, <1>4 DEF Audited, Origin, PathOf
  <2>2. Len(ledger'[i]) = 0
    BY <1>1, EmptySeq
  <2>3. PathOf(i)' = [n \in 1..1 |-> s]
    BY <2>1, <2>2 DEF PathOf
  <2>4. PathOf(i)' = <<s>>
    BY <2>3
  <2>5. Paths' = [Paths EXCEPT ![i] = <<s>>] /\ Paths[i] = << >>
    BY <1>2, <2>1, <2>4 DEF Paths
  <2> QED
    <3>1. Life!Create(i, s) /\ s \in Life!State
      BY <2>5, StoreAssumption, SameTable DEF Life!Create
    <3> QED
      BY <3>1 DEF Life!Next
<1> QED
  BY <1>3, <1>4

LEMMA WriteLife ==
  ASSUME LInv, LInv', NEW c \in Client, Write(c), Commits(c)
  PROVE  Life!Next
<1>1. PICK e \in Event :
        /\ e = call[c].request
        /\ e.item \in Audited /\ e.item \in DOMAIN items /\ Valid(e)
        /\ items' = [items EXCEPT ![e.item] =
                       [state |-> e.to, version |-> items[e.item].version + 1]]
        /\ InsertEvent(e)
  BY WriteFacts DEF LInv
<1> PICK i \in Item : i = e.item
  BY <1>1 DEF LInv, TypeOK
<1>2. items[i].state = e.from
  BY <1>1 DEF Write, Commits, CallSound, Target, LInv
<1>3. ledger[i] \in Seq(Event) /\ ledger'[i] = Append(ledger[i], e)
      /\ \A j \in DOMAIN items : j # i => ledger'[j] = ledger[j] /\ items'[j] = items[j]
  <2>1. TypeOK /\ ledger[i] \in Seq(Event)
    BY <1>1 DEF LInv, TypeOK
  <2>2. ledger'[i] = Append(ledger[i], e)
        /\ \A j \in DOMAIN items : j # i => ledger'[j] = ledger[j]
    BY <1>1, <2>1, InsertType
  <2>3. \A j \in DOMAIN items : j # i => items'[j] = items[j]
    BY <1>1
  <2> QED
    BY <2>1, <2>2, <2>3
<1>4. Audited' = Audited /\ DOMAIN items' = DOMAIN items
  BY <1>1 DEF Audited
<1>5. \A j \in Item : j # i => PathOf(j)' = PathOf(j)
  BY <1>3, <1>4 DEF PathOf, Audited, Origin
<1> DEFINE k == Len(ledger[i])
<1>6. /\ k \in Nat /\ PathOf(i) \in Seq(State) /\ Len(PathOf(i)) = k + 1
      /\ PathOf(i) \in [1..(k + 1) -> State]
      /\ PathOf(i)[k + 1] = e.from /\ PathOf(i) # << >>
  BY <1>1, <1>2, PathFacts
<1>7. /\ Len(ledger'[i]) = k + 1
      /\ \A n \in 1..k : ledger'[i][n] = ledger[i][n]
      /\ ledger'[i][k + 1] = e
  BY <1>3, <1>6, AppendProperties, LenProperties
<1>8. Origin(i)' = Origin(i)
  <2>1. ledger'[i] # << >>
    BY <1>3, AppendProperties
  <2>2. CASE ledger[i] = << >>
    <3>1. k = 0
      BY <2>2, EmptySeq
    <3> QED
      BY <1>2, <1>7, <2>1, <2>2, <3>1 DEF Origin
  <2>3. CASE ledger[i] # << >>
    <3>1. 1 \in 1..k
      BY <1>3, <1>6, <2>3, EmptySeq
    <3> QED
      BY <1>7, <2>1, <2>3, <3>1 DEF Origin
  <2> QED
    BY <2>2, <2>3
<1>9. PathOf(i)' = [n \in 1..(k + 2) |->
                      IF n = 1 THEN Origin(i) ELSE ledger'[i][n - 1].to]
  <2>1. i \in Audited' /\ (k + 1) + 1 = k + 2
    BY <1>1, <1>4, <1>6
  <2> QED
    BY <1>7, <1>8, <2>1 DEF PathOf
<1>10. PathOf(i) = [n \in 1..(k + 1) |->
                      IF n = 1 THEN Origin(i) ELSE ledger[i][n - 1].to]
  BY <1>1 DEF PathOf
<1>11. e.to \in State
  BY DEF Event
<1> DEFINE longer == Append(PathOf(i), e.to)
<1>12. longer = [n \in 1..(k + 2) |-> IF n = k + 2 THEN e.to ELSE PathOf(i)[n]]
  <2>1. /\ Len(longer) = k + 2 /\ longer \in Seq(State)
        /\ longer[k + 2] = e.to
        /\ \A n \in 1..(k + 1) : longer[n] = PathOf(i)[n]
    BY <1>6, <1>11, AppendProperties
  <2>2. longer = [n \in 1..(k + 2) |-> longer[n]]
    BY <2>1, LenProperties
  <2>3. \A n \in 1..(k + 2) : n # k + 2 => n \in 1..(k + 1)
    BY <1>6
  <2> HIDE DEF longer
  <2> QED
    BY <2>1, <2>2, <2>3
<1>13. PathOf(i)' = longer
  <2> HIDE DEF longer, k
  <2>1. ASSUME NEW n \in 1..(k + 2)
        PROVE  (IF n = 1 THEN Origin(i) ELSE ledger'[i][n - 1].to)
                 = (IF n = k + 2 THEN e.to ELSE PathOf(i)[n])
    <3>1. CASE n = 1
      BY <1>6, <1>10, <3>1
    <3>2. CASE n # 1 /\ n = k + 2
      BY <1>6, <1>7, <3>2
    <3>3. CASE n # 1 /\ n # k + 2
      <4>1. n - 1 \in 1..k /\ n \in 1..(k + 1)
        BY <1>6, <3>3
      <4> QED
        BY <1>7, <1>10, <3>3, <4>1
    <3> QED
      BY <3>1, <3>2, <3>3
  <2> QED
    BY <1>9, <1>12, <2>1
<1>14. Paths' = [Paths EXCEPT ![i] = Append(Paths[i], e.to)]
  BY <1>5, <1>13 DEF Paths
<1>15. Paths[i] # << >> /\ e.to \in AllowedTargets(Paths[i][Len(Paths[i])])
  BY <1>1, <1>6 DEF Paths, Valid
<1>16. Life!Step(i, e.to)
  BY <1>14, <1>15, SameTable DEF Life!Step
<1> QED
  BY <1>11, <1>16, SameTable DEF Life!Next

(* Every item walks the lifecycle, whatever its clients do at once.        *)
THEOREM StoreFollowsLifecycle == Spec => FollowsLifecycle
<1>1. Init => Life!Init
  BY DEF Init, Life!Init, Paths, PathOf, Audited
<1>2. LInv /\ LInv' /\ [Next]_vars => [Life!Next]_Paths
  <2> SUFFICES ASSUME LInv, LInv', [Next]_vars PROVE [Life!Next]_Paths
    OBVIOUS
  <2>1. UNCHANGED <<items, ledger>> => UNCHANGED Paths
    BY DEF Paths, PathOf, Audited, Origin
  <2>2. ASSUME NEW c \in Client, Ask(c) \/ Read(c) \/ Write(c) \/ Fail(c)
        PROVE  [Life!Next]_Paths
    <3>1. Ask(c) => UNCHANGED <<items, ledger>>
      BY AskFacts DEF LInv
    <3>2. Read(c) \/ Fail(c) \/ (Write(c) /\ ~Commits(c)) => UNCHANGED <<items, ledger>>
      BY DEF Read, Fail, Write
    <3> QED
      BY <2>1, <2>2, <3>1, <3>2, WriteLife
  <2>3. ASSUME NEW id \in RequestId, NEW i \in LedgerOnly, NEW e \in Strays,
               AppendEvent([id |-> id, item |-> i, from |-> e.from, to |-> e.to,
                            reason |-> TRUE, rule |-> FALSE])
        PROVE  UNCHANGED Paths
    <3>1. PICK new \in Event : new.item = i /\ AppendEvent(new)
      BY <2>3, StrayEvent
    <3>2. UNCHANGED items /\ \A j \in Audited : ledger'[j] = ledger[j]
      BY <3>1, InsertType DEF AppendEvent, Audited, LInv
    <3> QED
      BY <3>2 DEF Paths, PathOf, Audited, Origin
  <2>4. ASSUME NEW c \in Client, NEW i \in DOMAIN items \ LedgerOnly, Get(c, i)
        PROVE  UNCHANGED <<items, ledger>>
    BY <2>4 DEF Get
  <2> QED
    BY <2>1, <2>2, <2>3, <2>4, CreateLife DEF Next, vars
<1> QED
  BY <1>1, <1>2, StoreInvariance, PTL DEF Spec, FollowsLifecycle, Life!Spec
==============================================================================
