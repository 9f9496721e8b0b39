--------------------------- MODULE RegistryProofs ---------------------------
(***************************************************************************)
(* Proofs about Registry: for any agents, requests, callers and            *)
(* registrations in between, what route() records was warranted.           *)
(***************************************************************************)
EXTENDS Registry, FiniteSetTheorems, Induction, TLAPS

(* Tables: functions on a finite set of numbers.                           *)
LEMMA TableFacts ==
  ASSUME NEW table \in Table
  PROVE  /\ DOMAIN table \subseteq Known /\ DOMAIN table \subseteq AgentId
         /\ table \in [DOMAIN table -> Profiles]
         /\ IsFiniteSet(DOMAIN table)
<1>1. PICK ids \in SUBSET Known : table \in [ids -> Profiles]
  BY DEF Table
<1>2. IsFiniteSet(ids)
  BY <1>1, AgentsAssumption, FS_Subset
<1> QED
  BY <1>1, <1>2, AgentsAssumption

LEMMA RegisterTable ==
  ASSUME NEW table \in Table, NEW offer \in Offers
  PROVE  [x \in DOMAIN table \union {offer[1]} |->
            IF x = offer[1] THEN offer[2] ELSE table[x]] \in Table
<1> DEFINE ids == DOMAIN table \union {offer[1]}
<1>1. ids \in SUBSET Known /\ offer[2] \in Profiles
  BY TableFacts DEF Known, Profiles
<1>2. [x \in ids |-> IF x = offer[1] THEN offer[2] ELSE table[x]] \in [ids -> Profiles]
  BY <1>1, TableFacts
<1> QED
  BY <1>1, <1>2 DEF Table

(* Who is chosen is an eligible candidate, hence not excluded.             *)
LEMMA ChosenFacts ==
  ASSUME NEW table \in Table, NEW q \in Request, NEW a \in Selected(table, q)
  PROVE  a \in AgentId /\ a \in DOMAIN table /\ a \notin q.excluded
  BY TableFacts DEF Selected, EligibleCandidates, Candidates, Eligible

LEMMA CandidateTypes ==
  ASSUME NEW table \in Table, NEW q \in Request
  PROVE  /\ Candidates(table, q) \in SUBSET AgentId
         /\ EligibleCandidates(table, q) \in SUBSET AgentId
  BY TableFacts DEF EligibleCandidates, Candidates

LEMMA ExcludingType ==
  ASSUME NEW q \in Request, NEW a \in AgentId
  PROVE  /\ Excluding(q, a) \in Request
         /\ Excluding(q, a).excluded = q.excluded \union {a}
  BY DEF Excluding, Request

(* The tables of the past, as callers and decisions refer to them.         *)
LEMMA VersionFacts ==
  ASSUME TypeOK
  PROVE  /\ Len(versions) \in Nat \ {0}
         /\ \A n \in Nat \ {0} : n <= Len(versions) => versions[n] \in Table
         /\ agents \in Table
  BY DEF TypeOK, agents

LEMMA BusyTypes ==
  ASSUME TypeOK, NEW c \in Caller, ~At(c, "idle")
  PROVE  call[c] \in Locals
  BY DEF TypeOK, At, Idle

(* A decision refers to tables that were current.                          *)
LEMMA DecisionFacts ==
  ASSUME RInv, NEW i \in DOMAIN decisions
  PROVE  /\ decisions[i] \in Row
         /\ decisions[i].listed \in Nat \ {0} /\ decisions[i].checked \in Nat \ {0}
         /\ decisions[i].listed <= Len(versions)
         /\ decisions[i].checked <= Len(versions)
<1>1. decisions \in Seq(Row) /\ Len(versions) \in Nat
  BY DEF RInv, TypeOK
<1>2. decisions[i] \in Row
  BY <1>1
<1>3. decisions[i].listed <= decisions[i].checked
      /\ decisions[i].checked <= Len(versions)
  BY DEF RInv, RowsFaithful
<1>4. decisions[i].listed \in Nat \ {0} /\ decisions[i].checked \in Nat \ {0}
  BY <1>2 DEF Row
<1> QED
  BY <1>1, <1>2, <1>3, <1>4

(***************************************************************************)
(* One lemma per action.                                                   *)
(***************************************************************************)

(* Steps that leave tables and decisions alone and concern one caller.     *)
LEMMA OneCaller ==
  ASSUME RInv, NEW c \in Caller, UNCHANGED <<versions, decisions>>,
         TypeOK',
         \A d \in Caller \ {c} : call'[d] = call[d] /\ failed'[d] = failed[d],
         ~At(c, "idle")' => LocalsSound(c)'
  PROVE  RInv'
<1>1. DecisionsWarranted' /\ RowsFaithful'
  BY DEF RInv, DecisionsWarranted, RowsFaithful
<1>2. ASSUME NEW d \in Caller, ~At(d, "idle")'
      PROVE  LocalsSound(d)'
  <2>1. CASE d = c
    BY <1>2, <2>1
  <2>2. CASE d # c
    BY <1>2, <2>2 DEF RInv, LocalsSound, At
  <2> QED
    BY <2>1, <2>2
<1> QED
  BY <1>1, <1>2 DEF RInv

LEMMA ListInv ==
  ASSUME RInv, NEW c \in Caller, NEW q \in Request,
         NEW r \in AgentId \union {NoAgent}, List(c, q, r),
         NEW gone \in SUBSET AgentId, gone \subseteq q.excluded,
         failed' = [failed EXCEPT ![c] = gone]
  PROVE  RInv'
<1>1. TypeOK /\ agents \in Table /\ Len(versions) \in Nat \ {0}
  BY VersionFacts DEF RInv
<1>2. PICK pc \in {"reread", "refuse"}, a \in AgentId \union {NoAgent} :
        /\ call' = [call EXCEPT ![c] =
             [pc |-> pc, request |-> q, replaced |-> r, chosen |-> a,
              listed |-> Len(versions), checked |-> Len(versions)]]
        /\ IF pc = "refuse"
           THEN a = NoAgent /\ EligibleCandidates(agents, q) = {}
           ELSE a \in Selected(agents, q)
  <2>1. \A a \in Selected(agents, q) : a \in AgentId
    BY <1>1, ChosenFacts
  <2> QED
    BY <2>1 DEF List
<1>3. calls' = calls + 1 /\ UNCHANGED <<versions, decisions>>
  BY DEF List
<1> DEFINE me == [pc |-> pc, request |-> q, replaced |-> r, chosen |-> a,
                  listed |-> Len(versions), checked |-> Len(versions)]
<1>4. me \in Locals
  BY <1>1 DEF Locals
<1>5. call'[c] = me /\ failed'[c] = gone
      /\ \A d \in Caller \ {c} : call'[d] = call[d] /\ failed'[d] = failed[d]
  BY <1>1, <1>2 DEF TypeOK
<1>6. TypeOK'
  BY <1>1, <1>2, <1>3, <1>4 DEF TypeOK
<1>7. LocalsSound(c)'
  <2>1. me.listed = Len(versions) /\ me.checked = Len(versions) /\ me.pc = pc
        /\ me.chosen = a /\ me.request = q
    OBVIOUS
  <2>2. versions'[Len(versions)] = agents
    BY <1>3 DEF agents
  <2> HIDE DEF me
  <2> QED
    BY <1>1, <1>2, <1>3, <1>5, <2>1, <2>2 DEF LocalsSound
<1> QED
  BY <1>3, <1>5, <1>6, <1>7, OneCaller

LEMMA RouteInv ==
  ASSUME RInv, NEW c \in Caller, NEW q \in Requests, Route(c, q)
  PROVE  RInv'
<1>1. q \in Request
  BY RequestsAssumption
<1>2. List(c, q, NoAgent) /\ failed' = [failed EXCEPT ![c] = {}]
  BY DEF Route
<1> QED
  BY <1>1, <1>2, ListInv

LEMMA ReplaceInv ==
  ASSUME RInv, NEW c \in Caller, Replace(c)
  PROVE  RInv'
<1> DEFINE q == Excluding(call[c].request, call[c].chosen)
           gone == failed[c] \union {call[c].chosen}
<1>1. At(c, "assigned") /\ ~At(c, "idle")
  BY DEF Replace, At
<1>2. call[c] \in Locals /\ LocalsSound(c) /\ TypeOK
  BY <1>1, BusyTypes DEF RInv
<1>3. call[c].chosen \in AgentId
  <2>1. versions[call[c].listed] \in Table
    BY <1>2, VersionFacts DEF LocalsSound, Locals
  <2>2. call[c].chosen \in Selected(versions[call[c].listed], call[c].request)
    BY <1>1, <1>2 DEF LocalsSound, At
  <2> QED
    BY <1>2, <2>1, <2>2, ChosenFacts DEF Locals
<1>4. q \in Request /\ q.excluded = call[c].request.excluded \union {call[c].chosen}
  BY <1>2, <1>3, ExcludingType DEF Locals
<1>5. gone \in SUBSET AgentId /\ gone \subseteq q.excluded
  BY <1>2, <1>3, <1>4 DEF LocalsSound, TypeOK
<1>6. List(c, q, call[c].chosen) /\ failed' = [failed EXCEPT ![c] = gone]
  BY DEF Replace
<1> HIDE DEF q, gone
<1> QED
  BY <1>3, <1>4, <1>5, <1>6, ListInv

LEMMA RereadInv ==
  ASSUME RInv, NEW c \in Caller, Reread(c)
  PROVE  RInv'
<1> DEFINE me == [call[c] EXCEPT !.pc = "record", !.checked = Len(versions)]
<1>1. At(c, "reread") /\ ~At(c, "idle")
  BY DEF Reread, At
<1>2. call[c] \in Locals /\ LocalsSound(c) /\ TypeOK /\ Len(versions) \in Nat \ {0}
  BY <1>1, BusyTypes, VersionFacts DEF RInv
<1>3. /\ me \in Locals /\ me.pc = "record" /\ me.checked = Len(versions)
      /\ me.listed = call[c].listed /\ me.chosen = call[c].chosen
      /\ me.request = call[c].request
  BY <1>2 DEF Locals
<1>4. call' = [call EXCEPT ![c] = me]
      /\ UNCHANGED <<versions, decisions, failed, calls>>
  BY DEF Reread
<1>5. Authorized(versions[Len(versions)], call[c].chosen, call[c].request)
  BY DEF Reread, agents
<1> HIDE DEF me
<1>6. call'[c] = me /\ \A d \in Caller \ {c} : call'[d] = call[d]
  BY <1>2, <1>4 DEF TypeOK
<1>7. TypeOK'
  BY <1>2, <1>3, <1>4 DEF TypeOK
<1>8. LocalsSound(c)'
  <2>1. call[c].listed \in Nat /\ call[c].listed <= Len(versions)
    BY <1>2 DEF LocalsSound, Locals
  <2> QED
    BY <1>1, <1>2, <1>3, <1>4, <1>5, <1>6, <2>1 DEF LocalsSound, At
<1> QED
  BY <1>4, <1>6, <1>7, <1>8, OneCaller

(* Violation and Crash, and the end of Refuse.                             *)
LEMMA GoneIdle ==
  ASSUME TypeOK, NEW c \in Caller, call' = [call EXCEPT ![c] = Idle]
  PROVE  /\ call' \in [Caller -> {Idle} \union Locals]
         /\ At(c, "idle")' /\ \A d \in Caller \ {c} : call'[d] = call[d]
  BY DEF TypeOK, Idle, At

LEMMA StopInv ==
  ASSUME RInv, NEW c \in Caller, call' = [call EXCEPT ![c] = Idle],
         UNCHANGED <<versions, decisions, failed, calls>>
  PROVE  RInv'
<1>1. TypeOK' /\ At(c, "idle")' /\ \A d \in Caller \ {c} : call'[d] = call[d]
  BY GoneIdle DEF RInv, TypeOK
<1> QED
  BY <1>1, OneCaller

(* Appending the decision of a caller whose locals are sound.              *)
LEMMA AppendDecision ==
  ASSUME RInv, NEW c \in Caller,
         NEW outcome \in {"selected", "escalated", "paused"},
         outcome = "selected" <=> At(c, "record"),
         call[c].pc \in {"record", "refuse"},
         decisions' = Append(decisions, Decision(c, outcome)), UNCHANGED versions
  PROVE  decisions' \in Seq(Row) /\ DecisionsWarranted' /\ RowsFaithful'
<1> DEFINE d == Decision(c, outcome)
           me == call[c]
<1>1. ~At(c, "idle") /\ me \in Locals /\ LocalsSound(c) /\ TypeOK
  BY BusyTypes DEF RInv, At
<1>2. me.listed \in Nat \ {0} /\ me.checked \in Nat \ {0} /\ me.listed <= Len(versions)
      /\ me.request \in Request /\ versions[me.listed] \in Table
  BY <1>1, VersionFacts DEF Locals, LocalsSound
<1>3. /\ d.request = me.request /\ d.selected = me.chosen /\ d.outcome = outcome
      /\ d.listed = me.listed /\ d.checked = me.checked
      /\ d.candidates = Candidates(versions[me.listed], me.request)
      /\ d.eligible = EligibleCandidates(versions[me.listed], me.request)
  BY DEF Decision
<1>4. d \in Row
  BY <1>1, <1>2, CandidateTypes DEF Row, Locals, Decision
<1>5. decisions' \in Seq(Row)
  BY <1>1, <1>4 DEF TypeOK
<1>6. IF d.outcome = "selected"
      THEN /\ d.selected \in Selected(versions[d.listed], d.request)
           /\ d.listed <= d.checked
           /\ Authorized(versions[d.checked], d.selected, d.request)
      ELSE d.selected = NoAgent /\ EligibleCandidates(versions[d.listed], d.request) = {}
  <2>1. CASE At(c, "record")
    BY <1>1, <1>3, <2>1 DEF LocalsSound, At
  <2>2. CASE ~At(c, "record")
    BY <1>1, <1>3, <2>2 DEF LocalsSound, At
  <2> QED
    BY <2>1, <2>2
<1>7. \A i \in DOMAIN decisions' :
        \/ i \in DOMAIN decisions /\ decisions'[i] = decisions[i]
        \/ decisions'[i] = d
  BY <1>1, <1>4 DEF TypeOK
<1>8. DecisionsWarranted'
  <2> HIDE DEF d
  <2> SUFFICES ASSUME NEW i \in DOMAIN decisions'
               PROVE  LET e == decisions'[i] IN
                 IF e.outcome = "selected"
                 THEN /\ e.selected \in Selected(versions[e.listed], e.request)
                      /\ e.listed <= e.checked
                      /\ Authorized(versions[e.checked], e.selected, e.request)
                 ELSE e.selected = NoAgent
                      /\ EligibleCandidates(versions[e.listed], e.request) = {}
    BY DEF DecisionsWarranted
  <2>1. CASE decisions'[i] = d
    BY <1>6, <2>1
  <2>2. CASE i \in DOMAIN decisions /\ decisions'[i] = decisions[i]
    BY <2>2 DEF RInv, DecisionsWarranted
  <2> QED
    BY <1>7, <2>1, <2>2
<1>9. RowsFaithful'
  <2>1. d.listed <= d.checked /\ d.checked <= Len(versions)
    BY <1>1, <1>3 DEF LocalsSound
  <2> HIDE DEF d
  <2> QED
    BY <1>3, <1>7, <2>1 DEF RInv, RowsFaithful
<1> QED
  BY <1>5, <1>8, <1>9

LEMMA RecordInv ==
  ASSUME RInv, NEW c \in Caller, Record(c)
  PROVE  RInv'
<1> DEFINE me == [call[c] EXCEPT !.pc = "assigned"]
<1>1. At(c, "record") /\ call[c] \in Locals /\ LocalsSound(c) /\ TypeOK
  BY BusyTypes DEF Record, At, RInv
<1>2. decisions' \in Seq(Row) /\ DecisionsWarranted' /\ RowsFaithful'
  BY AppendDecision DEF Record, At
<1>3. /\ me \in Locals /\ me.pc = "assigned" /\ me.request = call[c].request
      /\ me.chosen = call[c].chosen /\ me.listed = call[c].listed
      /\ me.checked = call[c].checked
  BY <1>1 DEF Locals
<1>4. call' = [call EXCEPT ![c] = me] /\ UNCHANGED <<versions, failed, calls>>
  BY DEF Record
<1> HIDE DEF me
<1>5. call'[c] = me /\ \A d \in Caller \ {c} : call'[d] = call[d]
  BY <1>1, <1>4 DEF TypeOK
<1>6. TypeOK'
  BY <1>1, <1>2, <1>3, <1>4 DEF TypeOK
<1>7. LocalsSound(c)'
  BY <1>1, <1>3, <1>4, <1>5 DEF LocalsSound, At
<1>8. \A d \in Caller \ {c} : ~At(d, "idle")' => LocalsSound(d)'
  BY <1>4, <1>5 DEF RInv, LocalsSound, At
<1> QED
  BY <1>2, <1>6, <1>7, <1>8 DEF RInv

LEMMA RefuseInv ==
  ASSUME RInv, NEW c \in Caller, Refuse(c)
  PROVE  RInv'
<1> DEFINE outcome == IF call[c].request.highRisk THEN "escalated" ELSE "paused"
<1>1. At(c, "refuse") /\ TypeOK /\ call' = [call EXCEPT ![c] = Idle]
      /\ UNCHANGED <<versions, failed, calls>>
      /\ decisions' = Append(decisions, Decision(c, outcome))
  BY DEF Refuse, RInv
<1>2. outcome \in {"selected", "escalated", "paused"} /\ outcome # "selected"
  OBVIOUS
<1> HIDE DEF outcome
<1>3. decisions' \in Seq(Row) /\ DecisionsWarranted' /\ RowsFaithful'
  BY <1>1, <1>2, AppendDecision DEF At
<1>4. call' \in [Caller -> {Idle} \union Locals] /\ At(c, "idle")'
      /\ \A d \in Caller \ {c} : call'[d] = call[d]
  BY <1>1, GoneIdle
<1>5. TypeOK'
  BY <1>1, <1>3, <1>4 DEF TypeOK
<1>6. \A d \in Caller : ~At(d, "idle")' => LocalsSound(d)'
  BY <1>1, <1>4 DEF RInv, LocalsSound, At
<1> QED
  BY <1>3, <1>5, <1>6 DEF RInv

(* A registration adds a table; those before it stay as they were.         *)
LEMMA RegisterInv ==
  ASSUME RInv, NEW offer \in Offers, Register(offer[1], offer[2])
  PROVE  RInv'
<1>1. TypeOK /\ agents \in Table /\ Len(versions) \in Nat \ {0}
  BY VersionFacts DEF RInv
<1> DEFINE table == [x \in DOMAIN agents \union {offer[1]} |->
                       IF x = offer[1] THEN offer[2] ELSE agents[x]]
<1>2. table \in Table
  BY <1>1, RegisterTable
<1>3. versions' = Append(versions, table)
      /\ UNCHANGED <<decisions, call, failed, calls>>
  BY DEF Register
<1> HIDE DEF table
<1>4. /\ versions' \in Seq(Table) /\ versions' # << >>
      /\ Len(versions') = Len(versions) + 1
      /\ \A n \in Nat \ {0} : n <= Len(versions) => versions'[n] = versions[n]
  BY <1>1, <1>2, <1>3 DEF TypeOK
<1>5. TypeOK'
  BY <1>1, <1>3, <1>4 DEF TypeOK
<1>6. \A i \in DOMAIN decisions :
        /\ decisions[i].listed \in Nat \ {0} /\ decisions[i].checked \in Nat \ {0}
        /\ decisions[i].listed <= Len(versions)
        /\ decisions[i].checked <= Len(versions)
  BY DecisionFacts
<1>7. DecisionsWarranted'
  BY <1>3, <1>4, <1>6 DEF RInv, DecisionsWarranted
<1>8. RowsFaithful'
  BY <1>1, <1>3, <1>4, <1>6 DEF RInv, RowsFaithful
<1>9. ASSUME NEW c \in Caller, ~At(c, "idle")'
      PROVE  LocalsSound(c)'
  <2>1. call[c] \in Locals /\ LocalsSound(c)
    BY <1>1, <1>3, <1>9, BusyTypes DEF RInv, At
  <2>2. /\ call[c].listed \in Nat \ {0} /\ call[c].checked \in Nat \ {0}
        /\ call[c].listed <= Len(versions) /\ call[c].checked <= Len(versions)
    BY <1>1, <2>1 DEF Locals, LocalsSound
  <2>3. versions'[call[c].listed] = versions[call[c].listed]
        /\ versions'[call[c].checked] = versions[call[c].checked]
    BY <1>4, <2>2
  <2> QED
    BY <1>1, <1>3, <1>4, <2>1, <2>2, <2>3 DEF LocalsSound
<1> QED
  BY <1>5, <1>7, <1>8, <1>9 DEF RInv

(***************************************************************************)
(* The theorems.                                                           *)
(***************************************************************************)
LEMMA RInvInit ==
  Init => RInv
<1> SUFFICES ASSUME Init PROVE RInv
  OBVIOUS
<1>1. TypeOK
  BY AgentsAssumption DEF Init, TypeOK
<1> QED
  BY <1>1 DEF Init, RInv, DecisionsWarranted, RowsFaithful, At, Idle

LEMMA RInvNext ==
  RInv /\ [Next]_vars => RInv'
<1> SUFFICES ASSUME RInv, [Next]_vars PROVE RInv'
  OBVIOUS
<1>1. CASE UNCHANGED vars
  BY <1>1 DEF vars, RInv, TypeOK, DecisionsWarranted, RowsFaithful, LocalsSound, At
<1>2. ASSUME NEW offer \in Offers, Register(offer[1], offer[2])
      PROVE  RInv'
  BY <1>2, RegisterInv
<1>3. ASSUME NEW c \in Caller, Step(c)
      PROVE  RInv'
  <2>1. ASSUME NEW q \in Requests, Route(c, q) PROVE RInv'
    BY <2>1, RouteInv
  <2>2. CASE Replace(c)
    BY <2>2, ReplaceInv
  <2>3. CASE Reread(c)
    BY <2>3, RereadInv
  <2>4. CASE Violation(c)
    BY <2>4, StopInv DEF Violation
  <2>5. CASE Record(c)
    BY <2>5, RecordInv
  <2>6. CASE Refuse(c)
    BY <2>6, RefuseInv
  <2>7. CASE Crash(c)
    BY <2>7, StopInv DEF Crash
  <2> QED
    BY <1>3, <2>1, <2>2, <2>3, <2>4, <2>5, <2>6, <2>7 DEF Step
<1> QED
  BY <1>1, <1>2, <1>3 DEF Next

(* For any registrations between the statements of route(): types, sound   *)
(* locals, faithful records.                                               *)
THEOREM RegistryInvariance ==
  Spec => []RInv
  BY RInvInit, RInvNext, PTL DEF Spec

(* Every recorded selection was the best eligible candidate of a table     *)
(* that was current, and was authorised again at that time or later; every *)
(* recorded refusal found nobody.                                          *)
THEOREM DecisionsAreWarranted ==
  Spec => []DecisionsWarranted
<1>1. RInv => DecisionsWarranted
  BY DEF RInv
<1> QED
  BY <1>1, RegistryInvariance, PTL

(* A refusal overlooks an eligible agent only behind max_candidates        *)
(* others: the cut is the only reason.                                     *)
THEOREM RefusalsAreWarranted ==
  Spec => []RefusalsWarranted
<1>1. ASSUME RInv PROVE RefusalsWarranted
  <2> SUFFICES ASSUME NEW i \in DOMAIN decisions, decisions[i].outcome # "selected",
                      NEW a \in DOMAIN versions[decisions[i].listed],
                      Eligible(versions[decisions[i].listed], decisions[i].request, a)
               PROVE  Cardinality({b \in DOMAIN versions[decisions[i].listed] : b < a})
                        >= decisions[i].request.max
    BY DEF RefusalsWarranted
  <2> DEFINE d == decisions[i]
             before == {b \in DOMAIN versions[d.listed] : b < a}
  <2>1. d \in Row /\ d.listed <= Len(versions)
    BY <1>1, DecisionFacts
  <2>2. versions[d.listed] \in Table /\ d.request.max \in Nat
    BY <1>1, <2>1, VersionFacts DEF RInv, Row, Request
  <2>3. Cardinality(before) \in Nat
    <3>1. IsFiniteSet(before)
      BY <2>2, TableFacts, FS_Subset
    <3> QED
      BY <3>1, FS_CardinalityType
  <2>4. EligibleCandidates(versions[d.listed], d.request) = {}
    BY <1>1 DEF RInv, DecisionsWarranted
  <2>5. ~(Cardinality(before) < d.request.max)
    BY <2>4 DEF EligibleCandidates, Candidates
  <2> HIDE DEF before
  <2>6. Cardinality(before) >= d.request.max
    BY <2>2, <2>3, <2>5
  <2> QED
    BY <2>6 DEF before
<1> QED
  BY <1>1, RegistryInvariance, PTL

(* In any number of replacements nobody who failed is chosen again.        *)
THEOREM ReplacementsAreNew ==
  Spec => []NobodyTwice
<1>1. ASSUME RInv PROVE NobodyTwice
  <2> SUFFICES ASSUME NEW c \in Caller, ~At(c, "idle")
               PROVE  call[c].chosen \notin failed[c]
    BY DEF NobodyTwice
  <2>1. LocalsSound(c) /\ call[c] \in Locals /\ TypeOK
    BY <1>1, BusyTypes DEF RInv
  <2>2. versions[call[c].listed] \in Table /\ call[c].request \in Request
    BY <2>1, VersionFacts DEF LocalsSound, Locals
  <2>3. CASE At(c, "refuse")
    BY <2>1, <2>3 DEF LocalsSound, At, TypeOK, AgentId, NoAgent
  <2>4. CASE ~At(c, "refuse")
    BY <2>1, <2>2, <2>4, ChosenFacts DEF LocalsSound, At
  <2> QED
    BY <2>3, <2>4
<1> QED
  BY <1>1, RegistryInvariance, PTL

(* Within max_candidates, one more agent does no request any harm.         *)
THEOREM HiringIsHarmless ==
  Spec => HiringKeepsServing
<1>1. ASSUME RInv, [Next]_vars, NEW q \in Requests,
             \A a \in DOMAIN agents : agents'[a] = agents[a],
             Cardinality(DOMAIN agents') <= q.max,
             EligibleCandidates(agents, q) # {}
      PROVE  EligibleCandidates(agents', q) # {}
  <2>1. RInv' /\ agents \in Table /\ agents' \in Table
    <3>1. RInv'
      BY <1>1, RInvNext
    <3>2. TypeOK => agents \in Table
      BY VersionFacts
    <3>3. TypeOK' => agents' \in Table
      BY DEF TypeOK, agents
    <3> QED
      BY <1>1, <3>1, <3>2, <3>3 DEF RInv
  <2>2. DOMAIN agents \subseteq DOMAIN agents'
    <3>1. CASE versions' = versions
      BY <3>1 DEF agents
    <3>2. ASSUME NEW offer \in Offers, Register(offer[1], offer[2])
          PROVE  DOMAIN agents \subseteq DOMAIN agents'
      <4>1. versions \in Seq(Table)
        BY <1>1 DEF RInv, TypeOK
      <4>2. agents' = [x \in DOMAIN agents \union {offer[1]} |->
                         IF x = offer[1] THEN offer[2] ELSE agents[x]]
        BY <3>2, <4>1 DEF Register, agents
      <4> QED
        BY <4>2
    <3>3. ASSUME NEW c \in Caller, Step(c)
          PROVE  versions' = versions
      BY <3>3 DEF Step, Route, Replace, List, Reread, Violation, Record, Refuse, Crash
    <3> QED
      BY <1>1, <3>1, <3>2, <3>3 DEF Next, vars
  <2>3. PICK a \in DOMAIN agents : Eligible(agents, q, a)
    BY <1>1 DEF EligibleCandidates, Candidates
  <2>4. a \in DOMAIN agents' /\ Eligible(agents', q, a)
    BY <1>1, <2>2, <2>3 DEF Eligible
  <2> DEFINE before == {b \in DOMAIN agents' : b < a}
  <2>5. /\ IsFiniteSet(DOMAIN agents') /\ before \subseteq DOMAIN agents'
        /\ before # DOMAIN agents'
    <3>1. a \notin before
      BY <2>1, <2>4, TableFacts DEF AgentId
    <3> QED
      BY <2>1, <2>4, <3>1, TableFacts
  <2>6. Cardinality(before) < Cardinality(DOMAIN agents')
        /\ Cardinality(before) \in Nat /\ Cardinality(DOMAIN agents') \in Nat
    BY <2>5, FS_Subset, FS_CardinalityType
  <2>7. q.max \in Nat
    BY RequestsAssumption DEF Request
  <2> HIDE DEF before
  <2>8. Cardinality(before) < q.max
    BY <1>1, <2>6, <2>7
  <2> QED
    BY <2>4, <2>8 DEF EligibleCandidates, Candidates, before
<1>2. RInv /\ [Next]_vars =>
        \A q \in Requests :
          (/\ \A a \in DOMAIN agents : agents'[a] = agents[a]
           /\ Cardinality(DOMAIN agents') <= q.max
           /\ EligibleCandidates(agents, q) # {})
             => EligibleCandidates(agents', q) # {}
  BY <1>1
<1> QED
  BY <1>2, RegistryInvariance, PTL DEF Spec, HiringKeepsServing

(* Among any agents one comes first by score and then by id.               *)
LEMMA BestExists ==
  ASSUME NEW table \in Table, NEW pool, pool \subseteq DOMAIN table, pool # {}
  PROVE  \E a \in pool : {x \in pool : \A y \in pool \ {x} : Precedes(table, x, y)} = {a}
<1> DEFINE First == {x \in pool : \A y \in pool \ {x} : Precedes(table, x, y)}
           f == [x \in pool |-> table[x].score]
           Scores == {table[x].score : x \in pool}
<1>1. /\ pool \subseteq Nat /\ IsFiniteSet(pool)
      /\ \A x \in pool : table[x].score \in Nat
  BY TableFacts, AgentsAssumption, FS_Subset DEF AgentId
<1>2. PICK best \in Scores : \A k \in Scores : k <= best
  <2>1. f \in Surjection(pool, Scores)
    BY DEF Surjection
  <2>2. IsFiniteSet(Scores)
    BY <1>1, <2>1, FS_Surjection
  <2>3. Scores \subseteq Nat /\ Scores # {}
    BY <1>1
  <2> QED
    BY <2>2, <2>3, GreatestNumber
<1> DEFINE Front == {x \in pool : table[x].score = best}
<1>3. PICK a \in Front : \A y \in Front : a <= y
  <2>1. Front \subseteq Nat /\ Front # {}
    BY <1>1, <1>2
  <2> QED
    BY <2>1, LeastNumber
<1>4. a \in First
  <2>1. ASSUME NEW y \in pool \ {a} PROVE Precedes(table, a, y)
    <3>1. table[y].score <= table[a].score /\ a \in Nat /\ y \in Nat
      BY <1>1, <1>2, <1>3
    <3>2. table[y].score = table[a].score => a <= y
      BY <1>3
    <3> QED
      BY <1>1, <1>3, <3>1, <3>2 DEF Precedes
  <2> QED
    BY <1>3, <2>1
<1>5. ASSUME NEW u \in First PROVE u = a
  <2>1. u \in pool /\ a \in pool
    BY <1>3
  <2>2. CASE u # a
    <3>1. Precedes(table, a, u) /\ Precedes(table, u, a)
      BY <1>4, <2>1, <2>2
    <3> QED
      BY <1>1, <2>1, <3>1 DEF Precedes
  <2> QED
    BY <2>2
<1> QED
  BY <1>3, <1>4, <1>5

(***************************************************************************)
(* route() in routing.py decides: whatever agents are registered in        *)
(* between, a request that somebody eligible can take singles out one      *)
(* agent, the first by score and id, and is refused otherwise.             *)
(***************************************************************************)
THEOREM RoutingDecides == Spec => []RouteDecides
<1>1. TypeOK => RouteDecides
  <2> SUFFICES ASSUME TypeOK, NEW q \in Requests, EligibleCandidates(agents, q) # {}
               PROVE  \E a \in EligibleCandidates(agents, q) : Selected(agents, q) = {a}
    BY DEF RouteDecides
  <2>1. agents \in Table
    BY VersionFacts
  <2>2. EligibleCandidates(agents, q) \subseteq DOMAIN agents
    BY DEF EligibleCandidates, Candidates
  <2> QED
    BY <2>1, <2>2, BestExists DEF Selected
<1> QED
  BY <1>1, RegistryInvariance, PTL DEF RInv
==============================================================================
