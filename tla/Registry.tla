------------------------------- MODULE Registry -------------------------------
(***************************************************************************)
(* SQLiteAgentRegistry (routing.py) used by several processes at once.     *)
(*                                                                         *)
(* route() is not one transaction: it lists the agents and evaluates them, *)
(* reads the one it chose again and checks its authority, and writes the   *)
(* decision; register() may commit in between.  Each of the three is an    *)
(* action, and call[c] holds the locals of the route() that c is in.       *)
(***************************************************************************)
EXTENDS Routing, Sequences

CONSTANTS
  Caller,
  Agents0,     \* the agents table at the start
  Offers,      \* <<agent, profile>> pairs that somebody may register
  Requests,    \* RoutingRequests that callers make
  MaxVersions, \* bound: contents of the agents table
  MaxCalls     \* bound: calls of route() and replace()

Request == [role: {"production", "review"}, caps: SUBSET STRING,
            tools: SUBSET STRING, domain: STRING, highRisk: BOOLEAN,
            producer: AgentId \union {NoAgent}, excluded: SUBSET AgentId,
            max: Nat \ {0}]

Known == DOMAIN Agents0 \union {offer[1] : offer \in Offers}
Profiles == {Agents0[a] : a \in DOMAIN Agents0} \union {offer[2] : offer \in Offers}
Table == UNION {[ids -> Profiles] : ids \in SUBSET Known}

(* RoutingRequest refuses a review without a producer when it is built.    *)
ASSUME RequestsAssumption ==
  /\ Requests \subseteq Request
  /\ \A q \in Requests : q.role = "review" => q.producer # NoAgent
ASSUME AgentsAssumption ==
  /\ Known \subseteq AgentId /\ IsFiniteSet(Known)
  /\ Agents0 \in Table
  /\ \A profile \in Profiles : profile.score \in Nat
  /\ MaxVersions \in Nat /\ MaxCalls \in Nat

VARIABLES
  versions,  \* the agents table after each registration; the last is current
  decisions, \* routing_decisions in order of sequence
  call,      \* per caller: where it is in route(), and its locals
  failed,    \* history, per caller: agents that failed on its work item
  calls      \* calls so far (bound)

vars == <<versions, decisions, call, failed, calls>>

agents == versions[Len(versions)]

Idle == [pc |-> "idle"]

Init ==
  /\ versions = <<Agents0>> /\ decisions = << >>
  /\ call = [c \in Caller |-> Idle]
  /\ failed = [c \in Caller |-> {}]
  /\ calls = 0

At(c, pc) == call[c].pc = pc

(* register(): an upsert of a whole row.                                   *)
Register(a, profile) ==
  /\ Len(versions) < MaxVersions
  /\ versions' = Append(versions,
       [x \in DOMAIN agents \union {a} |-> IF x = a THEN profile ELSE agents[x]])
  /\ UNCHANGED <<decisions, call, failed, calls>>

(* list_agents and the evaluations: the best of the eligible candidates is *)
(* chosen, or the request will be refused.                                 *)
List(c, q, replaced) ==
  LET Goto(pc, a) ==
        call' = [call EXCEPT ![c] =
          [pc |-> pc, request |-> q, replaced |-> replaced, chosen |-> a,
           listed |-> Len(versions), checked |-> Len(versions)]]
  IN
  /\ calls < MaxCalls
  /\ calls' = calls + 1
  /\ \/ \E a \in Selected(agents, q) : Goto("reread", a)
     \/ EligibleCandidates(agents, q) = {} /\ Goto("refuse", NoAgent)
  /\ UNCHANGED <<versions, decisions>>

Route(c, q) ==
  /\ call[c].pc \in {"idle", "assigned"}
  /\ List(c, q, NoAgent)
  /\ failed' = [failed EXCEPT ![c] = {}]

Excluding(q, a) == [q EXCEPT !.excluded = @ \union {a}]

(* Mutant: the exclusions of the request are not carried over.             *)
ReplaceForgetting(c) ==
  /\ At(c, "assigned")
  /\ List(c, [call[c].request EXCEPT !.excluded = {call[c].chosen}], call[c].chosen)
  /\ failed' = [failed EXCEPT ![c] = @ \union {call[c].chosen}]

(* replace(), by a caller whose agent failed and who passes on the         *)
(* exclusions of its earlier replacements.                                 *)
Replace(c) ==
  /\ At(c, "assigned")
  /\ List(c, Excluding(call[c].request, call[c].chosen), call[c].chosen)
  /\ failed' = [failed EXCEPT ![c] = @ \union {call[c].chosen}]

(* _enforce_authority, on the row as it is now; it looks at neither        *)
(* enabled nor capabilities.                                               *)
Authorized(table, a, q) ==
  /\ table[a].role = q.role
  /\ Independent(a, q)
  /\ HasAuthority(table[a], q)

(* Mutant: authority is not enforced.                                      *)
RereadOnly(c) ==
  /\ At(c, "reread")
  /\ call' = [call EXCEPT ![c].pc = "record", ![c].checked = Len(versions)]
  /\ UNCHANGED <<versions, decisions, failed, calls>>

Reread(c) ==
  /\ At(c, "reread")
  /\ Authorized(agents, call[c].chosen, call[c].request)
  /\ call' = [call EXCEPT ![c].pc = "record", ![c].checked = Len(versions)]
  /\ UNCHANGED <<versions, decisions, failed, calls>>

(* AuthorityViolation leaves route() before anything is recorded.          *)
Violation(c) ==
  /\ At(c, "reread")
  /\ ~Authorized(agents, call[c].chosen, call[c].request)
  /\ call' = [call EXCEPT ![c] = Idle]
  /\ UNCHANGED <<versions, decisions, failed, calls>>

(* Mutant: the evaluations are made again for the record.                  *)
DecisionAnew(c, outcome) ==
  LET me == call[c] IN
    [request |-> me.request, selected |-> me.chosen, outcome |-> outcome,
     replaced |-> me.replaced,
     candidates |-> Candidates(versions[me.listed], me.request),
     eligible |-> EligibleCandidates(agents, me.request),
     listed |-> me.listed, checked |-> me.checked]

(* The row _persist_decision writes; the last two fields are history.      *)
Decision(c, outcome) ==
  LET me == call[c] IN
    [request |-> me.request, selected |-> me.chosen, outcome |-> outcome,
     replaced |-> me.replaced,
     candidates |-> Candidates(versions[me.listed], me.request),
     eligible |-> EligibleCandidates(versions[me.listed], me.request),
     listed |-> me.listed, checked |-> me.checked]

Record(c) ==
  /\ At(c, "record")
  /\ decisions' = Append(decisions, Decision(c, "selected"))
  /\ call' = [call EXCEPT ![c].pc = "assigned"]
  /\ UNCHANGED <<versions, failed, calls>>

(* The refusal is recorded before NoEligibleAgent is raised.               *)
Refuse(c) ==
  /\ At(c, "refuse")
  /\ decisions' = Append(decisions,
       Decision(c, IF call[c].request.highRisk THEN "escalated" ELSE "paused"))
  /\ call' = [call EXCEPT ![c] = Idle]
  /\ UNCHANGED <<versions, failed, calls>>

Crash(c) ==
  /\ ~At(c, "idle")
  /\ call' = [call EXCEPT ![c] = Idle]
  /\ UNCHANGED <<versions, decisions, failed, calls>>

Step(c) ==
  \/ \E q \in Requests : Route(c, q)
  \/ Replace(c) \/ Reread(c) \/ Violation(c) \/ Record(c) \/ Refuse(c) \/ Crash(c)

Next ==
  \/ \E offer \in Offers : Register(offer[1], offer[2])
  \/ \E c \in Caller : Step(c)

Spec == Init /\ [][Next]_vars

(***************************************************************************)
(* Properties.                                                             *)
(***************************************************************************)
Locals == [pc: {"reread", "record", "refuse", "assigned"}, request: Request,
           replaced: AgentId \union {NoAgent}, chosen: AgentId \union {NoAgent},
           listed: Nat \ {0}, checked: Nat \ {0}]

Row == [request: Request, selected: AgentId \union {NoAgent},
        outcome: {"selected", "escalated", "paused"},
        replaced: AgentId \union {NoAgent},
        candidates: SUBSET AgentId, eligible: SUBSET AgentId,
        listed: Nat \ {0}, checked: Nat \ {0}]

TypeOK ==
  /\ versions \in Seq(Table) /\ versions # << >>
  /\ decisions \in Seq(Row)
  /\ call \in [Caller -> {Idle} \union Locals]
  /\ failed \in [Caller -> SUBSET AgentId]
  /\ calls \in Nat

(* However registrations fall between the statements of route(): the agent *)
(* of a recorded selection was the best of the eligible candidates when    *)
(* the agents were listed, and it still had the role, the independence and *)
(* the authority the request asks for when it was read again, at that time *)
(* or later; a refusal found no eligible candidate.                        *)
DecisionsWarranted ==
  \A i \in DOMAIN decisions : LET d == decisions[i] IN
    IF d.outcome = "selected"
    THEN /\ d.selected \in Selected(versions[d.listed], d.request)
         /\ d.listed <= d.checked
         /\ Authorized(versions[d.checked], d.selected, d.request)
    ELSE d.selected = NoAgent /\ EligibleCandidates(versions[d.listed], d.request) = {}

(* A request is refused only if nobody in the table was eligible, or those *)
(* who were come after the first max_candidates agents.                    *)
RefusalsWarranted ==
  \A i \in DOMAIN decisions : LET d == decisions[i] IN
    d.outcome # "selected" =>
      \A a \in DOMAIN versions[d.listed] :
        Eligible(versions[d.listed], d.request, a)
          => Cardinality({b \in DOMAIN versions[d.listed] : b < a}) >= d.request.max

(* A request that somebody eligible can take singles out one agent, so that *)
(* route() is never at a loss and its choice is reproducible.              *)
RouteDecides ==
  \A q \in Requests : EligibleCandidates(agents, q) # {} =>
    \E a \in EligibleCandidates(agents, q) : Selected(agents, q) = {a}

(* A caller that passes its exclusions on is never given an agent that     *)
(* failed on the work item before, in however many replacements.           *)
NobodyTwice ==
  \A c \in Caller :
    ~At(c, "idle") => call[c].chosen \notin failed[c]

(* As long as the table has no more agents than max_candidates, one more   *)
(* agent never makes a request fail that could be served.                  *)
HiringKeepsServing ==
  [][\A q \in Requests :
       (/\ \A a \in DOMAIN agents : agents'[a] = agents[a]
        /\ Cardinality(DOMAIN agents') <= q.max
        /\ EligibleCandidates(agents, q) # {})
          => EligibleCandidates(agents', q) # {}]_vars

(***************************************************************************)
(* The inductive invariant behind them.                                    *)
(***************************************************************************)

(* A caller inside route() has chosen well from a table that was current   *)
(* when it listed the agents; past the second read, its agent was          *)
(* authorised then; whoever failed before is excluded.                     *)
LocalsSound(c) ==
  LET me == call[c] IN
    /\ me.listed <= me.checked /\ me.checked <= Len(versions)
    /\ IF me.pc = "refuse"
       THEN me.chosen = NoAgent
            /\ EligibleCandidates(versions[me.listed], me.request) = {}
       ELSE me.chosen \in Selected(versions[me.listed], me.request)
    /\ me.pc \in {"record", "assigned"} =>
         Authorized(versions[me.checked], me.chosen, me.request)
    /\ failed[c] \subseteq me.request.excluded

(* A decision lists the candidates, and who of them was eligible, as they  *)
(* were when the agents were listed.                                       *)
RowsFaithful ==
  \A i \in DOMAIN decisions : LET d == decisions[i] IN
    /\ d.listed <= d.checked /\ d.checked <= Len(versions)
    /\ d.candidates = Candidates(versions[d.listed], d.request)
    /\ d.eligible = EligibleCandidates(versions[d.listed], d.request)

RInv ==
  /\ TypeOK
  /\ DecisionsWarranted /\ RowsFaithful
  /\ \A c \in Caller : ~At(c, "idle") => LocalsSound(c)
==============================================================================
