------------------------------- MODULE Routing -------------------------------
(***************************************************************************)
(* The pure part of SQLiteAgentRegistry.route (routing.py): which agents   *)
(* of a registry are looked at, which of them are eligible for a request,  *)
(* and which one is chosen.  A registry is a function from agent           *)
(* identifiers to profiles; identifiers are numbers because the code       *)
(* orders agents by str(id).                                               *)
(*                                                                         *)
(* A profile is the row of the agents table without its wording:           *)
(*   [role, caps, tools, domains, authority, score, enabled]               *)
(* "authority" says that authority_policy_ids is not empty, and "score" is *)
(* the rank of 0.35 * reliability + 0.10 * cost_score: the capability      *)
(* share of the total is 1.0 for every eligible agent.                     *)
(*                                                                         *)
(* A request is [role, caps, tools, domain, highRisk, producer, excluded,  *)
(* max], with "max" its max_candidates.                                    *)
(***************************************************************************)
EXTENDS Naturals, FiniteSets

AgentId == Nat \ {0}
NoAgent == 0            \* the None of producing_agent_id
NoDomain == "no domain" \* the None of RoutingRequest.domain

(* Mutant: one candidate too few.                                          *)
FewerCandidates(registry, request) ==
  {a \in DOMAIN registry :
     Cardinality({b \in DOMAIN registry : b <= a}) < request.max}

(* list_agents() orders by id and route() keeps the first max_candidates   *)
(* evaluations, before it looks at eligibility.                            *)
Candidates(registry, request) ==
  {a \in DOMAIN registry :
     Cardinality({b \in DOMAIN registry : b < a}) < request.max}

(* High and critical risk need an agent with an authority policy.          *)
HasAuthority(profile, request) == request.highRisk => profile.authority

(* Mutant: self review is not ruled out.                                   *)
SelfReview(a, request) == TRUE

(* No agent reviews what it produced.                                      *)
Independent(a, request) == request.role = "review" => a # request.producer

(* CandidateEvaluation.eligible: _evaluate found no reason against it.     *)
Eligible(registry, request, a) ==
  LET profile == registry[a] IN
    /\ profile.enabled
    /\ a \notin request.excluded
    /\ profile.role = request.role
    /\ request.caps \subseteq profile.caps
    /\ request.tools \subseteq profile.tools
    /\ \/ request.domain = NoDomain
       \/ profile.domains = {}
       \/ request.domain \in profile.domains
    /\ Independent(a, request)
    /\ HasAuthority(profile, request)

EligibleCandidates(registry, request) ==
  {a \in Candidates(registry, request) : Eligible(registry, request, a)}

(* The sort key (-total_score, str(agent_id)).                             *)
Precedes(registry, a, b) ==
  \/ registry[a].score > registry[b].score
  \/ registry[a].score = registry[b].score /\ a < b

(* The agent route() selects: a set of at most one agent.                  *)
Selected(registry, request) ==
  LET pool == EligibleCandidates(registry, request) IN
    {a \in pool : \A b \in pool \ {a} : Precedes(registry, a, b)}
==============================================================================
