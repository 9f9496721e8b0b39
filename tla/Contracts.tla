------------------------------- MODULE Contracts -------------------------------
(***************************************************************************)
(* The canonical contracts (contracts.py): the annotated fields of each of *)
(* the ten data classes, and what their constructors do to the values they *)
(* are given: defaults, normalisation, validation.                         *)
(*                                                                         *)
(* A contract is a function from its field names to values of the annotated *)
(* types.  A number of type float is counted in units of 1 / One.          *)
(***************************************************************************)
EXTENDS Integers, Sequences

CONSTANTS
  Text, Uuid, Datetime,  \* values of type str, UUID and datetime
  Strip, Upper,          \* str.strip() and str.upper(), as functions on Text
  One,                   \* 1.0
  None,
  NewId, Now             \* what uuid4() and _now() return

LifecycleState == INSTANCE StateMachine

SchemaVersion == "1.0"
Empty == ""

(***************************************************************************)
(* Annotations.                                                            *)
(***************************************************************************)
RiskLevel == {"low", "moderate", "high", "critical"}
DependencyKind == {"finish_to_start", "approval", "artifact", "policy"}
AgentRole == {"production", "review", "planning", "governance"}
ReviewOutcome == {"approve", "revise", "reject", "escalate"}
ApprovalOutcome == {"approved", "revision_required", "rejected", "escalated"}
ArtifactStatus == {"draft", "reviewed", "canonical", "superseded"}
EscalationStatus == {"open", "resolved", "withdrawn"}
PolicyEffect == {"allow", "deny", "require_review", "escalate"}

Enumeration ==
  [RiskLevel |-> RiskLevel, DependencyKind |-> DependencyKind,
   AgentRole |-> AgentRole, ReviewOutcome |-> ReviewOutcome,
   ApprovalOutcome |-> ApprovalOutcome, ArtifactStatus |-> ArtifactStatus,
   EscalationStatus |-> EscalationStatus, PolicyEffect |-> PolicyEffect,
   State |-> LifecycleState!State]

Enums == DOMAIN Enumeration
Scalars == {"str", "int", "float", "bool", "UUID", "datetime"} \union Enums

Values(scalar) ==
  IF scalar \in Enums THEN Enumeration[scalar]
  ELSE [str |-> Text, int |-> Int, float |-> Int, bool |-> BOOLEAN,
        UUID |-> Uuid, datetime |-> Datetime][scalar]

Annotation == [form: {"one", "optional", "many", "mapping"}, of: Scalars]

A(scalar) == [form |-> "one", of |-> scalar]
Optional(scalar) == [form |-> "optional", of |-> scalar]
Many(scalar) == [form |-> "many", of |-> scalar]
Mapping(scalar) == [form |-> "mapping", of |-> scalar]

Typed(a) ==
  IF a.form = "many" THEN Seq(Values(a.of))
  ELSE IF a.form = "mapping" THEN UNION {[K -> Values(a.of)] : K \in SUBSET Text}
  ELSE Values(a.of) \union IF a.form = "optional" THEN {None} ELSE {}

(***************************************************************************)
(* The contracts.                                                          *)
(***************************************************************************)
Objective ==
  [title |-> A("str"), description |-> A("str"), id |-> A("UUID"),
   schema_version |-> A("str"), success_criteria |-> Many("str"),
   constraints |-> Many("str"), risk_level |-> A("RiskLevel"),
   budget_id |-> Optional("UUID"), policy_ids |-> Many("UUID"),
   created_by |-> A("str"), created_at |-> A("datetime")]

WorkItemSpec ==
  [objective_id |-> A("UUID"), title |-> A("str"), description |-> A("str"),
   id |-> A("UUID"), schema_version |-> A("str"), state |-> A("State"),
   required_capabilities |-> Many("str"), required_review_gates |-> Many("str"),
   dependency_ids |-> Many("UUID"), assigned_agent_id |-> Optional("UUID"),
   priority |-> A("int"), max_attempts |-> A("int"), timeout_seconds |-> A("int"),
   idempotency_key |-> Optional("str"), created_at |-> A("datetime")]

Dependency ==
  [predecessor_id |-> A("UUID"), successor_id |-> A("UUID"),
   kind |-> A("DependencyKind"), id |-> A("UUID"), schema_version |-> A("str"),
   required_state |-> A("State"), description |-> A("str"),
   created_at |-> A("datetime")]

Agent ==
  [name |-> A("str"), role |-> A("AgentRole"), capabilities |-> Many("str"),
   id |-> A("UUID"), schema_version |-> A("str"), version |-> A("str"),
   tool_permissions |-> Many("str"), domain_eligibility |-> Many("str"),
   authority_policy_ids |-> Many("UUID"), cost_per_execution |-> A("float"),
   reliability_score |-> A("float"), enabled |-> A("bool"),
   created_at |-> A("datetime")]

Review ==
  [work_item_id |-> A("UUID"), artifact_ids |-> Many("UUID"),
   reviewer_agent_id |-> A("UUID"), gate |-> A("str"),
   outcome |-> A("ReviewOutcome"), rationale |-> A("str"), id |-> A("UUID"),
   schema_version |-> A("str"), evidence |-> Many("str"), rule_ids |-> Many("UUID"),
   reviewed_at |-> A("datetime")]

ApprovalDecision ==
  [work_item_id |-> A("UUID"), outcome |-> A("ApprovalOutcome"),
   decided_by |-> A("str"), rationale |-> A("str"), review_ids |-> Many("UUID"),
   id |-> A("UUID"), schema_version |-> A("str"), rule_ids |-> Many("UUID"),
   escalation_id |-> Optional("UUID"), decided_at |-> A("datetime")]

Artifact ==
  [work_item_id |-> A("UUID"), name |-> A("str"), media_type |-> A("str"),
   content_uri |-> A("str"), content_hash |-> A("str"),
   created_by_agent_id |-> A("UUID"), id |-> A("UUID"), schema_version |-> A("str"),
   version |-> A("int"), status |-> A("ArtifactStatus"),
   input_artifact_ids |-> Many("UUID"), supersedes_id |-> Optional("UUID"),
   metadata |-> Mapping("str"), created_at |-> A("datetime")]

Escalation ==
  [work_item_id |-> A("UUID"), rule_id |-> A("UUID"), question |-> A("str"),
   reason |-> A("str"), options |-> Many("str"), recommendation |-> A("str"),
   id |-> A("UUID"), schema_version |-> A("str"), risk_level |-> A("RiskLevel"),
   status |-> A("EscalationStatus"), evidence |-> Many("str"),
   resolution |-> Optional("str"), created_at |-> A("datetime"),
   resolved_at |-> Optional("datetime")]

Budget ==
  [name |-> A("str"), currency |-> A("str"), limit |-> A("float"), id |-> A("UUID"),
   schema_version |-> A("str"), spent |-> A("float"), reserved |-> A("float"),
   hard_stop |-> A("bool"), created_at |-> A("datetime")]

Policy ==
  [name |-> A("str"), description |-> A("str"), effect |-> A("PolicyEffect"),
   condition |-> A("str"), id |-> A("UUID"), schema_version |-> A("str"),
   priority |-> A("int"), applies_to |-> Many("str"), authority |-> A("str"),
   enabled |-> A("bool"), created_at |-> A("datetime")]

Fields ==
  [Objective |-> Objective, WorkItemSpec |-> WorkItemSpec, Dependency |-> Dependency,
   Agent |-> Agent, Review |-> Review, ApprovalDecision |-> ApprovalDecision,
   Artifact |-> Artifact, Escalation |-> Escalation, Budget |-> Budget,
   Policy |-> Policy]

Contract == DOMAIN Fields

(* The fields without a default.                                           *)
Required ==
  [Objective |-> {"title", "description"},
   WorkItemSpec |-> {"objective_id", "title", "description"},
   Dependency |-> {"predecessor_id", "successor_id"},
   Agent |-> {"name", "role", "capabilities"},
   Review |-> {"work_item_id", "artifact_ids", "reviewer_agent_id", "gate",
               "outcome", "rationale"},
   ApprovalDecision |-> {"work_item_id", "outcome", "decided_by", "rationale",
                         "review_ids"},
   Artifact |-> {"work_item_id", "name", "media_type", "content_uri",
                 "content_hash", "created_by_agent_id"},
   Escalation |-> {"work_item_id", "rule_id", "question", "reason", "options",
                   "recommendation"},
   Budget |-> {"name", "currency", "limit"},
   Policy |-> {"name", "description", "effect", "condition"}]

(* Defaults of scalar fields other than ids, times and the version.        *)
ScalarDefault ==
  [Objective |-> [risk_level |-> "moderate", created_by |-> "system"],
   WorkItemSpec |-> [state |-> "proposed", priority |-> 100, max_attempts |-> 3,
                     timeout_seconds |-> 900],
   Dependency |-> [kind |-> "finish_to_start", required_state |-> "canonical",
                   description |-> Empty],
   Agent |-> [version |-> "1.0.0", cost_per_execution |-> 0,
              reliability_score |-> One, enabled |-> TRUE],
   Review |-> << >>,
   ApprovalDecision |-> << >>,
   Artifact |-> [version |-> 1, status |-> "draft"],
   Escalation |-> [risk_level |-> "high", status |-> "open"],
   Budget |-> [spent |-> 0, reserved |-> 0, hard_stop |-> TRUE],
   Policy |-> [priority |-> 100, authority |-> "institution", enabled |-> TRUE]]

Default(contract, f) ==
  LET a == Fields[contract][f] IN
  IF a.form = "optional" THEN None
  ELSE IF a.form # "one" THEN << >>
  ELSE IF a.of = "UUID" THEN NewId
  ELSE IF a.of = "datetime" THEN Now
  ELSE IF f = "schema_version" THEN SchemaVersion
  ELSE ScalarDefault[contract][f]

(***************************************************************************)
(* __post_init__: the texts that are stripped and must not be blank, and   *)
(* what else is refused.                                                   *)
(***************************************************************************)
Stripped ==
  [Objective |-> {"title", "description", "created_by"},
   WorkItemSpec |-> {"title", "description"},
   Dependency |-> {},
   Agent |-> {"name"},
   Review |-> {"gate", "rationale"},
   ApprovalDecision |-> {"decided_by", "rationale"},
   Artifact |-> {"name", "media_type", "content_uri", "content_hash"},
   Escalation |-> {"question", "reason", "recommendation"},
   Budget |-> {"name", "currency"},
   Policy |-> {"name", "description", "condition", "authority"}]

Normalized(contract, c) ==
  [f \in DOMAIN c |->
     IF contract = "Budget" /\ f = "currency" THEN Upper[Strip[c[f]]]
     ELSE IF f \in Stripped[contract] THEN Strip[c[f]]
     ELSE c[f]]

NothingBlank(contract, c) == \A f \in Stripped[contract] : Strip[c[f]] # Empty

ValidWorkItem(c) ==
  /\ c.priority >= 0 /\ c.max_attempts > 0 /\ c.timeout_seconds > 0
  /\ \A i \in DOMAIN c.dependency_ids : c.dependency_ids[i] # c.id

ValidDependency(c) == c.predecessor_id # c.successor_id

ValidAgent(c) ==
  /\ c.capabilities # << >>
  /\ c.cost_per_execution >= 0
  /\ 0 <= c.reliability_score /\ c.reliability_score <= One

ValidReview(c) == c.artifact_ids # << >>

ValidApproval(c) ==
  /\ c.review_ids # << >>
  /\ c.outcome = "escalated" => c.escalation_id # None

ValidArtifact(c) == c.version > 0

ValidEscalation(c) ==
  /\ Len(c.options) >= 2
  /\ c.status = "resolved" => c.resolution \notin {None, Empty}

ValidBudget(c) ==
  /\ c.limit >= 0 /\ c.spent >= 0 /\ c.reserved >= 0
  /\ c.spent + c.reserved <= c.limit

ValidPolicy(c) == c.priority >= 0

Accepted(contract, c) ==
  /\ NothingBlank(contract, c)
  /\ contract = "WorkItemSpec" => ValidWorkItem(c)
  /\ contract = "Dependency" => ValidDependency(c)
  /\ contract = "Agent" => ValidAgent(c)
  /\ contract = "Review" => ValidReview(c)
  /\ contract = "ApprovalDecision" => ValidApproval(c)
  /\ contract = "Artifact" => ValidArtifact(c)
  /\ contract = "Escalation" => ValidEscalation(c)
  /\ contract = "Budget" => ValidBudget(c)
  /\ contract = "Policy" => ValidPolicy(c)

(* The contract a constructor returns for the given fields, as a set: it   *)
(* is empty when the constructor raises.                                   *)
Construct(contract, given) ==
  LET c == [f \in DOMAIN Fields[contract] |->
              IF f \in DOMAIN given THEN given[f] ELSE Default(contract, f)]
  IN IF Required[contract] \subseteq DOMAIN given /\ Accepted(contract, c)
     THEN {Normalized(contract, c)} ELSE {}
==============================================================================
