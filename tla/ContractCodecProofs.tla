-------------------------- MODULE ContractCodecProofs --------------------------
(***************************************************************************)
(* What the contracts and their codec promise, for all field values: what  *)
(* encode_contract makes of a contract is decoded to that contract, and    *)
(* what decode_contract returns is a contract its constructor could have   *)
(* returned.  Both rest on Conversions, the facts about the conversions of *)
(* the language.                                                           *)
(***************************************************************************)
EXTENDS ContractCodec, TLAPS

(***************************************************************************)
(* The tables of the schema.                                               *)
(***************************************************************************)
LEMMA ContractNames ==
  Contract = {"Objective", "WorkItemSpec", "Dependency", "Agent", "Review",
              "ApprovalDecision", "Artifact", "Escalation", "Budget", "Policy"}
BY DEF Contract, Fields

LEMMA EnumNames ==
  Enums = {"RiskLevel", "DependencyKind", "AgentRole", "ReviewOutcome",
           "ApprovalOutcome", "ArtifactStatus", "EscalationStatus", "PolicyEffect",
           "State"}
BY DEF Enums, Enumeration

LEMMA ScalarKinds ==
  ASSUME NEW scalar \in Scalars
  PROVE  \/ scalar \in {"str", "int", "float", "bool", "UUID", "datetime"}
         \/ scalar \in Enums
BY DEF Scalars

LEMMA ScalarInverse ==
  ASSUME Conversions, NEW scalar \in Scalars, NEW v \in Values(scalar),
         NEW j, EncodesScalar(scalar, v, j)
  PROVE  DecodeScalar(scalar, j) = {v} /\ j.json # "null"
<1>1. CASE scalar = "str"
  BY <1>1, EnumNames DEF EncodesScalar, DecodeScalar, JsonTypes, Json
<1>2. CASE scalar = "UUID"
  BY <1>2, EnumNames DEF EncodesScalar, DecodeScalar, JsonTypes, Json, Values, Conversions
<1>3. CASE scalar = "datetime"
  BY <1>3, EnumNames DEF EncodesScalar, DecodeScalar, JsonTypes, Json, Values, Conversions
<1>4. CASE scalar = "float"
  <2>1. \/ j = Json("float", v)
        \/ j = Json("int", j.of) /\ v = j.of * One
    BY <1>4, EnumNames DEF EncodesScalar
  <2> QED BY <1>4, <2>1, EnumNames DEF DecodeScalar, JsonTypes, Json
<1>5. CASE scalar \in {"int", "bool"}
  BY <1>5, EnumNames DEF EncodesScalar, DecodeScalar, JsonTypes, Json, Values
<1>6. CASE scalar \in Enums
  <2>1. v \in Enumeration[scalar]
    BY <1>6, EnumNames DEF Values
  <2> QED BY <1>6, <2>1, EnumNames DEF EncodesScalar, DecodeScalar, JsonTypes, Json
<1> QED BY <1>1, <1>2, <1>3, <1>4, <1>5, <1>6, ScalarKinds

LEMMA EachInverse ==
  ASSUME Conversions, NEW scalar \in Scalars, NEW s, NEW items,
         s = [i \in DOMAIN s |-> s[i]],
         \A i \in DOMAIN s : s[i] \in Values(scalar),
         EncodesEach(scalar, s, items)
  PROVE  DecodeEach(scalar, items) = {s}
<1>1. ASSUME NEW i \in DOMAIN items
      PROVE  DecodeScalar(scalar, items[i]) = {s[i]}
  BY <1>1, ScalarInverse DEF EncodesEach
<1>2. \A i \in DOMAIN items : The(DecodeScalar(scalar, items[i])) = s[i]
  BY <1>1 DEF The
<1>3. [i \in DOMAIN items |-> The(DecodeScalar(scalar, items[i]))] = s
  BY <1>2 DEF EncodesEach
<1> QED BY <1>1, <1>3 DEF DecodeEach

LEMMA ValueInverse ==
  ASSUME Conversions, NEW a \in Annotation, NEW v \in Typed(a), NEW j,
         Encodes(a, v, j)
  PROVE  DecodeValue(a, j) = {v}
<1>0. a.of \in Scalars /\ a.form \in {"one", "optional", "many", "mapping"}
  BY DEF Annotation
<1>1. CASE a.form = "one"
  <2>1. v \in Values(a.of)
    BY <1>1 DEF Typed
  <2>2. EncodesScalar(a.of, v, j)
    BY <1>1 DEF Encodes, Container
  <2> QED BY <1>0, <1>1, <2>1, <2>2, ScalarInverse DEF DecodeValue
<1>2. CASE a.form = "optional"
  <2>1. CASE v = None
    BY <1>2, <2>1 DEF Encodes, DecodeValue, Null, Json, Container
  <2>2. CASE v # None
    <3>1. v \in Values(a.of)
      BY <1>2, <2>2 DEF Typed
    <3>2. EncodesScalar(a.of, v, j)
      BY <1>2, <2>2 DEF Encodes, Container
    <3> QED BY <1>0, <1>2, <3>1, <3>2, ScalarInverse DEF DecodeValue
  <2> QED BY <2>1, <2>2
<1>3. CASE a.form = "many"
  <2>1. v \in Seq(Values(a.of)) /\ j.json = "list" /\ EncodesEach(a.of, v, j.of)
    BY <1>3 DEF Encodes, Typed, Json, Container
  <2>2. v = [i \in DOMAIN v |-> v[i]] /\ \A i \in DOMAIN v : v[i] \in Values(a.of)
    BY <2>1
  <2>3. DecodeEach(a.of, j.of) = {v}
    BY <1>0, <2>1, <2>2, EachInverse
  <2> QED BY <1>3, <2>1, <2>3 DEF DecodeValue, Container
<1>4. CASE a.form = "mapping"
  <2>1. PICK K \in SUBSET Text : v \in [K -> Values(a.of)]
    BY <1>4 DEF Typed
  <2>2. v = [i \in DOMAIN v |-> v[i]] /\ \A i \in DOMAIN v : v[i] \in Values(a.of)
    BY <2>1
  <2>3. j.json = "object" /\ EncodesEach(a.of, v, j.of)
    BY <1>4 DEF Encodes, Json, Container
  <2>4. DecodeEach(a.of, j.of) = {v}
    BY <1>0, <2>2, <2>3, EachInverse
  <2> QED BY <1>4, <2>3, <2>4 DEF DecodeValue, Container
<1> QED BY <1>0, <1>1, <1>2, <1>3, <1>4

LEMMA SchemaTyped ==
  ASSUME NEW contract \in Contract, NEW f \in DOMAIN Fields[contract]
  PROVE  Fields[contract][f] \in Annotation
<1>1. CASE contract = "Objective"
  BY <1>1, EnumNames DEF Fields, Objective, Annotation, Scalars, A, Optional, Many, Mapping
<1>2. CASE contract = "WorkItemSpec"
  BY <1>2, EnumNames DEF Fields, WorkItemSpec, Annotation, Scalars, A, Optional, Many, Mapping
<1>3. CASE contract = "Dependency"
  BY <1>3, EnumNames DEF Fields, Dependency, Annotation, Scalars, A, Optional, Many, Mapping
<1>4. CASE contract = "Agent"
  BY <1>4, EnumNames DEF Fields, Agent, Annotation, Scalars, A, Optional, Many, Mapping
<1>5. CASE contract = "Review"
  BY <1>5, EnumNames DEF Fields, Review, Annotation, Scalars, A, Optional, Many, Mapping
<1>6. CASE contract = "ApprovalDecision"
  BY <1>6, EnumNames DEF Fields, ApprovalDecision, Annotation, Scalars, A, Optional, Many, Mapping
<1>7. CASE contract = "Artifact"
  BY <1>7, EnumNames DEF Fields, Artifact, Annotation, Scalars, A, Optional, Many, Mapping
<1>8. CASE contract = "Escalation"
  BY <1>8, EnumNames DEF Fields, Escalation, Annotation, Scalars, A, Optional, Many, Mapping
<1>9. CASE contract = "Budget"
  BY <1>9, EnumNames DEF Fields, Budget, Annotation, Scalars, A, Optional, Many, Mapping
<1>10. CASE contract = "Policy"
  BY <1>10, EnumNames DEF Fields, Policy, Annotation, Scalars, A, Optional, Many, Mapping
<1> QED BY <1>1, <1>2, <1>3, <1>4, <1>5, <1>6, <1>7, <1>8, <1>9, <1>10, ContractNames

LEMMA VersionField ==
  ASSUME NEW contract \in Contract
  PROVE  /\ "schema_version" \in DOMAIN Fields[contract]
         /\ Fields[contract]["schema_version"] = A("str")
         /\ "schema_version" \notin Stripped[contract] \union Required[contract]
<1>1. CASE contract = "Objective"
  BY <1>1, EnumNames DEF Fields, Objective, Stripped, Required
<1>2. CASE contract = "WorkItemSpec"
  BY <1>2, EnumNames DEF Fields, WorkItemSpec, Stripped, Required
<1>3. CASE contract = "Dependency"
  BY <1>3, EnumNames DEF Fields, Dependency, Stripped, Required
<1>4. CASE contract = "Agent"
  BY <1>4, EnumNames DEF Fields, Agent, Stripped, Required
<1>5. CASE contract = "Review"
  BY <1>5, EnumNames DEF Fields, Review, Stripped, Required
<1>6. CASE contract = "ApprovalDecision"
  BY <1>6, EnumNames DEF Fields, ApprovalDecision, Stripped, Required
<1>7. CASE contract = "Artifact"
  BY <1>7, EnumNames DEF Fields, Artifact, Stripped, Required
<1>8. CASE contract = "Escalation"
  BY <1>8, EnumNames DEF Fields, Escalation, Stripped, Required
<1>9. CASE contract = "Budget"
  BY <1>9, EnumNames DEF Fields, Budget, Stripped, Required
<1>10. CASE contract = "Policy"
  BY <1>10, EnumNames DEF Fields, Policy, Stripped, Required
<1> QED BY <1>1, <1>2, <1>3, <1>4, <1>5, <1>6, <1>7, <1>8, <1>9, <1>10, ContractNames

LEMMA StrippedTexts ==
  ASSUME NEW contract \in Contract, NEW f \in Stripped[contract]
  PROVE  f \in DOMAIN Fields[contract] /\ Fields[contract][f] = A("str")
<1>1. CASE contract = "Objective"
  BY <1>1, EnumNames DEF Fields, Objective, Stripped
<1>2. CASE contract = "WorkItemSpec"
  BY <1>2, EnumNames DEF Fields, WorkItemSpec, Stripped
<1>3. CASE contract = "Dependency"
  BY <1>3, EnumNames DEF Fields, Dependency, Stripped
<1>4. CASE contract = "Agent"
  BY <1>4, EnumNames DEF Fields, Agent, Stripped
<1>5. CASE contract = "Review"
  BY <1>5, EnumNames DEF Fields, Review, Stripped
<1>6. CASE contract = "ApprovalDecision"
  BY <1>6, EnumNames DEF Fields, ApprovalDecision, Stripped
<1>7. CASE contract = "Artifact"
  BY <1>7, EnumNames DEF Fields, Artifact, Stripped
<1>8. CASE contract = "Escalation"
  BY <1>8, EnumNames DEF Fields, Escalation, Stripped
<1>9. CASE contract = "Budget"
  BY <1>9, EnumNames DEF Fields, Budget, Stripped
<1>10. CASE contract = "Policy"
  BY <1>10, EnumNames DEF Fields, Policy, Stripped
<1> QED BY <1>1, <1>2, <1>3, <1>4, <1>5, <1>6, <1>7, <1>8, <1>9, <1>10, ContractNames

LEMMA RequiredFields ==
  ASSUME NEW contract \in Contract
  PROVE  Required[contract] \subseteq DOMAIN Fields[contract]
<1>1. CASE contract = "Objective"
  BY <1>1, EnumNames DEF Fields, Objective, Required
<1>2. CASE contract = "WorkItemSpec"
  BY <1>2, EnumNames DEF Fields, WorkItemSpec, Required
<1>3. CASE contract = "Dependency"
  BY <1>3, EnumNames DEF Fields, Dependency, Required
<1>4. CASE contract = "Agent"
  BY <1>4, EnumNames DEF Fields, Agent, Required
<1>5. CASE contract = "Review"
  BY <1>5, EnumNames DEF Fields, Review, Required
<1>6. CASE contract = "ApprovalDecision"
  BY <1>6, EnumNames DEF Fields, ApprovalDecision, Required
<1>7. CASE contract = "Artifact"
  BY <1>7, EnumNames DEF Fields, Artifact, Required
<1>8. CASE contract = "Escalation"
  BY <1>8, EnumNames DEF Fields, Escalation, Required
<1>9. CASE contract = "Budget"
  BY <1>9, EnumNames DEF Fields, Budget, Required
<1>10. CASE contract = "Policy"
  BY <1>10, EnumNames DEF Fields, Policy, Required
<1> QED BY <1>1, <1>2, <1>3, <1>4, <1>5, <1>6, <1>7, <1>8, <1>9, <1>10, ContractNames

(* Defaults have the annotated types.                                      *)
LEMMA SomeValues ==
  /\ Values("str") = Text
  /\ Values("int") = Int /\ Values("float") = Int /\ Values("bool") = BOOLEAN
  /\ {"moderate", "high"} \subseteq Values("RiskLevel")
  /\ {"proposed", "canonical"} \subseteq Values("State")
  /\ "finish_to_start" \in Values("DependencyKind")
  /\ "draft" \in Values("ArtifactStatus")
  /\ "open" \in Values("EscalationStatus")
<1>1. /\ Values("str") = Text
      /\ Values("int") = Int /\ Values("float") = Int /\ Values("bool") = BOOLEAN
  BY EnumNames DEF Values
<1>2. \A e \in Enums : Values(e) = Enumeration[e]
  BY DEF Values
<1>3. /\ Enumeration["RiskLevel"] = RiskLevel
      /\ Enumeration["State"] = LifecycleState!State
      /\ Enumeration["DependencyKind"] = DependencyKind
      /\ Enumeration["ArtifactStatus"] = ArtifactStatus
      /\ Enumeration["EscalationStatus"] = EscalationStatus
  BY DEF Enumeration
<1> QED
  BY <1>1, <1>2, <1>3, EnumNames
     DEF RiskLevel, DependencyKind, ArtifactStatus, EscalationStatus, LifecycleState!State

LEMMA TextValues == Typed(A("str")) = Text
BY SomeValues DEF Typed, A

LEMMA ScalarDefaultTyped ==
  ASSUME Conversions, NEW contract \in Contract,
         NEW f \in DOMAIN Fields[contract], f \notin Required[contract],
         Fields[contract][f].form = "one",
         Fields[contract][f].of \notin {"UUID", "datetime"}, f # "schema_version"
  PROVE  ScalarDefault[contract][f] \in Values(Fields[contract][f].of)
<1>1. CASE contract = "Objective"
  <2>1. f \in {"risk_level", "created_by"}
    BY <1>1 DEF Fields, Objective, Required, A, Optional, Many, Mapping
  <2>2. /\ Fields["Objective"].risk_level.of = "RiskLevel"
        /\ Fields["Objective"].created_by.of = "str"
    BY DEF Fields, Objective, A
  <2>3. /\ ScalarDefault["Objective"].risk_level = "moderate"
        /\ ScalarDefault["Objective"].created_by = "system"
    BY DEF ScalarDefault
  <2> QED BY <1>1, <2>1, <2>2, <2>3, SomeValues DEF Conversions
<1>2. CASE contract = "WorkItemSpec"
  <2>1. f \in {"state", "priority", "max_attempts", "timeout_seconds"}
    BY <1>2 DEF Fields, WorkItemSpec, Required, A, Optional, Many, Mapping
  <2>2. /\ Fields["WorkItemSpec"].state.of = "State"
        /\ Fields["WorkItemSpec"].priority.of = "int"
        /\ Fields["WorkItemSpec"].max_attempts.of = "int"
        /\ Fields["WorkItemSpec"].timeout_seconds.of = "int"
    BY DEF Fields, WorkItemSpec, A
  <2>3. /\ ScalarDefault["WorkItemSpec"].state = "proposed"
        /\ ScalarDefault["WorkItemSpec"].priority = 100
        /\ ScalarDefault["WorkItemSpec"].max_attempts = 3
        /\ ScalarDefault["WorkItemSpec"].timeout_seconds = 900
    BY DEF ScalarDefault
  <2> QED BY <1>2, <2>1, <2>2, <2>3, SomeValues DEF Conversions
<1>3. CASE contract = "Dependency"
  <2>1. f \in {"kind", "required_state", "description"}
    BY <1>3 DEF Fields, Dependency, Required, A, Optional, Many, Mapping
  <2>2. /\ Fields["Dependency"].kind.of = "DependencyKind"
        /\ Fields["Dependency"].required_state.of = "State"
        /\ Fields["Dependency"].description.of = "str"
    BY DEF Fields, Dependency, A
  <2>3. /\ ScalarDefault["Dependency"].kind = "finish_to_start"
        /\ ScalarDefault["Dependency"].required_state = "canonical"
        /\ ScalarDefault["Dependency"].description = Empty
    BY DEF ScalarDefault
  <2> QED BY <1>3, <2>1, <2>2, <2>3, SomeValues DEF Conversions
<1>4. CASE contract = "Agent"
  <2>1. f \in {"version", "cost_per_execution", "reliability_score", "enabled"}
    BY <1>4 DEF Fields, Agent, Required, A, Optional, Many, Mapping
  <2>2. /\ Fields["Agent"].version.of = "str"
        /\ Fields["Agent"].cost_per_execution.of = "float"
        /\ Fields["Agent"].reliability_score.of = "float"
        /\ Fields["Agent"].enabled.of = "bool"
    BY DEF Fields, Agent, A
  <2>3. /\ ScalarDefault["Agent"].version = "1.0.0"
        /\ ScalarDefault["Agent"].cost_per_execution = 0
        /\ ScalarDefault["Agent"].reliability_score = One
        /\ ScalarDefault["Agent"].enabled = TRUE
    BY DEF ScalarDefault
  <2>4. CASE f = "enabled"
    BY <1>4, <2>2, <2>3, <2>4, SomeValues, Zenon
  <2>5. CASE f # "enabled"
    BY <1>4, <2>1, <2>2, <2>3, <2>5, SomeValues DEF Conversions
  <2> QED BY <2>4, <2>5
<1>5. CASE contract = "Review"
  BY <1>5 DEF Fields, Review, Required, A, Optional, Many, Mapping
<1>6. CASE contract = "ApprovalDecision"
  BY <1>6 DEF Fields, ApprovalDecision, Required, A, Optional, Many, Mapping
<1>7. CASE contract = "Artifact"
  <2>1. f \in {"version", "status"}
    BY <1>7 DEF Fields, Artifact, Required, A, Optional, Many, Mapping
  <2>2. /\ Fields["Artifact"].version.of = "int"
        /\ Fields["Artifact"].status.of = "ArtifactStatus"
    BY DEF Fields, Artifact, A
  <2>3. /\ ScalarDefault["Artifact"].version = 1
        /\ ScalarDefault["Artifact"].status = "draft"
    BY DEF ScalarDefault
  <2> QED BY <1>7, <2>1, <2>2, <2>3, SomeValues DEF Conversions
<1>8. CASE contract = "Escalation"
  <2>1. f \in {"risk_level", "status"}
    BY <1>8 DEF Fields, Escalation, Required, A, Optional, Many, Mapping
  <2>2. /\ Fields["Escalation"].risk_level.of = "RiskLevel"
        /\ Fields["Escalation"].status.of = "EscalationStatus"
    BY DEF Fields, Escalation, A
  <2>3. /\ ScalarDefault["Escalation"].risk_level = "high"
        /\ ScalarDefault["Escalation"].status = "open"
    BY DEF ScalarDefault
  <2> QED BY <1>8, <2>1, <2>2, <2>3, SomeValues DEF Conversions
<1>9. CASE contract = "Budget"
  <2>1. f \in {"spent", "reserved", "hard_stop"}
    BY <1>9 DEF Fields, Budget, Required, A, Optional, Many, Mapping
  <2>2. /\ Fields["Budget"].spent.of = "float"
        /\ Fields["Budget"].reserved.of = "float"
        /\ Fields["Budget"].hard_stop.of = "bool"
    BY DEF Fields, Budget, A
  <2>3. /\ ScalarDefault["Budget"].spent = 0
        /\ ScalarDefault["Budget"].reserved = 0
        /\ ScalarDefault["Budget"].hard_stop = TRUE
    BY DEF ScalarDefault
  <2>4. CASE f = "hard_stop"
    BY <1>9, <2>2, <2>3, <2>4, SomeValues, Zenon
  <2>5. CASE f # "hard_stop"
    BY <1>9, <2>1, <2>2, <2>3, <2>5, SomeValues DEF Conversions
  <2> QED BY <2>4, <2>5
<1>10. CASE contract = "Policy"
  <2>1. f \in {"priority", "authority", "enabled"}
    BY <1>10 DEF Fields, Policy, Required, A, Optional, Many, Mapping
  <2>2. /\ Fields["Policy"].priority.of = "int"
        /\ Fields["Policy"].authority.of = "str"
        /\ Fields["Policy"].enabled.of = "bool"
    BY DEF Fields, Policy, A
  <2>3. /\ ScalarDefault["Policy"].priority = 100
        /\ ScalarDefault["Policy"].authority = "institution"
        /\ ScalarDefault["Policy"].enabled = TRUE
    BY DEF ScalarDefault
  <2>4. CASE f = "enabled"
    BY <1>10, <2>2, <2>3, <2>4, SomeValues, Zenon
  <2>5. CASE f # "enabled"
    BY <1>10, <2>1, <2>2, <2>3, <2>5, SomeValues DEF Conversions
  <2> QED BY <2>4, <2>5
<1> QED BY <1>1, <1>2, <1>3, <1>4, <1>5, <1>6, <1>7, <1>8, <1>9, <1>10, ContractNames

LEMMA DefaultTyped ==
  ASSUME Conversions, NEW contract \in Contract,
         NEW f \in DOMAIN Fields[contract], f \notin Required[contract]
  PROVE  Default(contract, f) \in Typed(Fields[contract][f])
<1> DEFINE a == Fields[contract][f]
<1>0. a \in Annotation
  BY SchemaTyped
<1>1. CASE a.form = "optional"
  BY <1>1 DEF Default, Typed
<1>2. CASE a.form = "many"
  BY <1>2 DEF Default, Typed
<1>3. CASE a.form = "mapping"
  <2>1. << >> \in [{} -> Values(a.of)] /\ {} \in SUBSET Text
    OBVIOUS
  <2> QED BY <1>3, <2>1 DEF Default, Typed
<1>4. CASE a.form = "one"
  <2>1. Typed(a) = Values(a.of)
    BY <1>4 DEF Typed
  <2>2. CASE a.of \in {"UUID", "datetime"}
    BY <1>4, <2>1, <2>2, EnumNames DEF Default, Values, Conversions
  <2>3. CASE a.of \notin {"UUID", "datetime"} /\ f = "schema_version"
    BY <1>4, <2>1, <2>3, EnumNames, VersionField DEF Default, Values, Conversions, A
  <2>4. CASE a.of \notin {"UUID", "datetime"} /\ f # "schema_version"
    BY <1>4, <2>1, <2>4, ScalarDefaultTyped DEF Default
  <2> QED BY <2>2, <2>3, <2>4
<1> QED BY <1>0, <1>1, <1>2, <1>3, <1>4 DEF Annotation

(***************************************************************************)
(* Normalisation: doing it twice changes nothing, and what a constructor   *)
(* accepts it accepts again when normalised.                               *)
(***************************************************************************)
LEMMA TextFields ==
  ASSUME NEW contract \in Contract, NEW c,
         \A f \in DOMAIN Fields[contract] : c[f] \in Typed(Fields[contract][f]),
         NEW f \in Stripped[contract]
  PROVE  c[f] \in Text
BY StrippedTexts, TextValues

LEMMA NormalizedOnce ==
  ASSUME Conversions, NEW contract \in Contract, NEW c,
         c = [f \in DOMAIN Fields[contract] |-> c[f]],
         \A f \in DOMAIN Fields[contract] : c[f] \in Typed(Fields[contract][f])
  PROVE  LET n == Normalized(contract, c) IN
         /\ n = [f \in DOMAIN Fields[contract] |-> n[f]]
         /\ \A f \in DOMAIN Fields[contract] : n[f] \in Typed(Fields[contract][f])
         /\ \A f \in DOMAIN Fields[contract] \ Stripped[contract] : n[f] = c[f]
         /\ Normalized(contract, n) = n
         /\ NothingBlank(contract, c) => NothingBlank(contract, n)
<1> DEFINE n == Normalized(contract, c)
           F == DOMAIN Fields[contract]
<1>1. DOMAIN c = F /\ DOMAIN n = F /\ n = [f \in F |-> n[f]]
  BY DEF Normalized
<1>2. contract = "Budget" => "currency" \in Stripped[contract]
  BY DEF Stripped
<1>3. \A f \in F \ Stripped[contract] : n[f] = c[f]
  BY <1>1, <1>2 DEF Normalized
<1>4. ASSUME NEW f \in Stripped[contract]
      PROVE  /\ f \in F /\ n[f] \in Text /\ Strip[n[f]] = n[f]
             /\ contract = "Budget" /\ f = "currency" => Upper[n[f]] = n[f]
             /\ n[f] = Empty => Strip[c[f]] = Empty
  <2>1. f \in F /\ c[f] \in Text
    BY StrippedTexts, TextFields
  <2>2. n[f] = IF contract = "Budget" /\ f = "currency" THEN Upper[Strip[c[f]]]
               ELSE Strip[c[f]]
    BY <1>1, <2>1 DEF Normalized
  <2>3. CASE contract = "Budget" /\ f = "currency"
    BY <2>1, <2>2, <2>3 DEF Conversions
  <2>4. CASE ~(contract = "Budget" /\ f = "currency")
    BY <2>1, <2>2, <2>4 DEF Conversions
  <2> QED BY <2>1, <2>3, <2>4
<1>5. \A f \in F : n[f] \in Typed(Fields[contract][f])
  BY <1>3, <1>4, StrippedTexts, TextValues
<1>6. Normalized(contract, n) = n
  BY <1>1, <1>2, <1>4 DEF Normalized
<1>7. NothingBlank(contract, c) => NothingBlank(contract, n)
  BY <1>4 DEF NothingBlank
<1> QED BY <1>1, <1>3, <1>5, <1>6, <1>7

LEMMA AcceptedAgain ==
  ASSUME Conversions, NEW contract \in Contract, NEW c, NEW n,
         \A f \in DOMAIN Fields[contract] \ Stripped[contract] : n[f] = c[f],
         NothingBlank(contract, n), Accepted(contract, c)
  PROVE  Accepted(contract, n)
<1>1. ASSUME contract = "WorkItemSpec"
      PROVE  ValidWorkItem(n)
  <2>1. {"priority", "max_attempts", "timeout_seconds", "dependency_ids", "id"} \subseteq DOMAIN Fields[contract] \ Stripped[contract]
    BY <1>1 DEF Fields, WorkItemSpec, Stripped
  <2>2. /\ n.priority = c.priority
        /\ n.max_attempts = c.max_attempts
        /\ n.timeout_seconds = c.timeout_seconds
        /\ n.dependency_ids = c.dependency_ids
        /\ n.id = c.id
    BY <2>1
  <2> QED BY <1>1, <2>2 DEF Accepted, ValidWorkItem
<1>2. ASSUME contract = "Dependency"
      PROVE  ValidDependency(n)
  <2>1. {"predecessor_id", "successor_id"} \subseteq DOMAIN Fields[contract] \ Stripped[contract]
    BY <1>2 DEF Fields, Dependency, Stripped
  <2>2. /\ n.predecessor_id = c.predecessor_id
        /\ n.successor_id = c.successor_id
    BY <2>1
  <2> QED BY <1>2, <2>2 DEF Accepted, ValidDependency
<1>3. ASSUME contract = "Agent"
      PROVE  ValidAgent(n)
  <2>1. {"capabilities", "cost_per_execution", "reliability_score"} \subseteq DOMAIN Fields[contract] \ Stripped[contract]
    BY <1>3 DEF Fields, Agent, Stripped
  <2>2. /\ n.capabilities = c.capabilities
        /\ n.cost_per_execution = c.cost_per_execution
        /\ n.reliability_score = c.reliability_score
    BY <2>1
  <2> QED BY <1>3, <2>2 DEF Accepted, ValidAgent
<1>4. ASSUME contract = "Review"
      PROVE  ValidReview(n)
  <2>1. {"artifact_ids"} \subseteq DOMAIN Fields[contract] \ Stripped[contract]
    BY <1>4 DEF Fields, Review, Stripped
  <2>2. /\ n.artifact_ids = c.artifact_ids
    BY <2>1
  <2> QED BY <1>4, <2>2 DEF Accepted, ValidReview
<1>5. ASSUME contract = "ApprovalDecision"
      PROVE  ValidApproval(n)
  <2>1. {"review_ids", "outcome", "escalation_id"} \subseteq DOMAIN Fields[contract] \ Stripped[contract]
    BY <1>5 DEF Fields, ApprovalDecision, Stripped
  <2>2. /\ n.review_ids = c.review_ids
        /\ n.outcome = c.outcome
        /\ n.escalation_id = c.escalation_id
    BY <2>1
  <2> QED BY <1>5, <2>2 DEF Accepted, ValidApproval
<1>6. ASSUME contract = "Artifact"
      PROVE  ValidArtifact(n)
  <2>1. {"version"} \subseteq DOMAIN Fields[contract] \ Stripped[contract]
    BY <1>6 DEF Fields, Artifact, Stripped
  <2>2. /\ n.version = c.version
    BY <2>1
  <2> QED BY <1>6, <2>2 DEF Accepted, ValidArtifact
<1>7. ASSUME contract = "Escalation"
      PROVE  ValidEscalation(n)
  <2>1. {"options", "status", "resolution"} \subseteq DOMAIN Fields[contract] \ Stripped[contract]
    BY <1>7 DEF Fields, Escalation, Stripped
  <2>2. /\ n.options = c.options
        /\ n.status = c.status
        /\ n.resolution = c.resolution
    BY <2>1
  <2> QED BY <1>7, <2>2 DEF Accepted, ValidEscalation
<1>8. ASSUME contract = "Budget"
      PROVE  ValidBudget(n)
  <2>1. {"limit", "spent", "reserved"} \subseteq DOMAIN Fields[contract] \ Stripped[contract]
    BY <1>8 DEF Fields, Budget, Stripped
  <2>2. /\ n.limit = c.limit
        /\ n.spent = c.spent
        /\ n.reserved = c.reserved
    BY <2>1
  <2> QED BY <1>8, <2>2 DEF Accepted, ValidBudget
<1>9. ASSUME contract = "Policy"
      PROVE  ValidPolicy(n)
  <2>1. {"priority"} \subseteq DOMAIN Fields[contract] \ Stripped[contract]
    BY <1>9 DEF Fields, Policy, Stripped
  <2>2. /\ n.priority = c.priority
    BY <2>1
  <2> QED BY <1>9, <2>2 DEF Accepted, ValidPolicy
<1> QED BY <1>1, <1>2, <1>3, <1>4, <1>5, <1>6, <1>7, <1>8, <1>9 DEF Accepted

(***************************************************************************)
(* Constructors.                                                           *)
(***************************************************************************)
LEMMA ConstructedSound ==
  ASSUME Conversions, NEW contract \in Contract, NEW given,
         DOMAIN given \subseteq DOMAIN Fields[contract],
         \A f \in DOMAIN given : given[f] \in Typed(Fields[contract][f]),
         NEW r \in Construct(contract, given)
  PROVE  Sound(contract, r)
<1> DEFINE F == DOMAIN Fields[contract]
           c == [f \in F |-> IF f \in DOMAIN given THEN given[f] ELSE Default(contract, f)]
<1>1. Required[contract] \subseteq DOMAIN given /\ Accepted(contract, c)
      /\ r = Normalized(contract, c)
  BY DEF Construct
<1>2. \A f \in F : c[f] \in Typed(Fields[contract][f])
  BY <1>1, DefaultTyped
<1>3. DOMAIN c = F /\ c = [f \in F |-> c[f]]
  OBVIOUS
<1> HIDE DEF c
<1>4. /\ r = [f \in F |-> r[f]]
      /\ \A f \in F : r[f] \in Typed(Fields[contract][f])
      /\ \A f \in F \ Stripped[contract] : r[f] = c[f]
      /\ Normalized(contract, r) = r
      /\ NothingBlank(contract, c) => NothingBlank(contract, r)
  BY <1>1, <1>2, <1>3, NormalizedOnce
<1>5. Accepted(contract, r)
  BY <1>1, <1>4, AcceptedAgain DEF Accepted
<1> QED BY <1>4, <1>5 DEF Sound

LEMMA SoundConstructed ==
  ASSUME NEW contract \in Contract, NEW c, Sound(contract, c)
  PROVE  Construct(contract, c) = {c}
<1> DEFINE F == DOMAIN Fields[contract]
<1>1. c = [f \in F |-> c[f]] /\ DOMAIN c = F
  BY DEF Sound
<1>2. [f \in F |-> IF f \in DOMAIN c THEN c[f] ELSE Default(contract, f)] = c
  BY <1>1
<1> QED BY <1>1, <1>2, RequiredFields DEF Construct, Sound

(* What a constructor returns for typed arguments, defaults included, is   *)
(* typed and normalised, and the constructor takes it again as it is       *)
(* (__post_init__ of contracts.py); nothing else is a contract.            *)
THEOREM ContractsAreSound ==
  ASSUME Conversions, NEW contract \in Contract, NEW c
  PROVE  c \in Constructed(contract) <=> Sound(contract, c)
<1>1. ASSUME c \in Constructed(contract)
      PROVE  Sound(contract, c)
  <2>1. PICK given \in Given(contract) : c \in Construct(contract, given)
    BY <1>1 DEF Constructed
  <2>2. /\ DOMAIN given \subseteq DOMAIN Fields[contract]
        /\ \A f \in DOMAIN given : given[f] \in Typed(Fields[contract][f])
    BY <2>1 DEF Given
  <2> QED BY <2>1, <2>2, ConstructedSound
<1>2. ASSUME Sound(contract, c)
      PROVE  c \in Constructed(contract)
  <2> DEFINE F == DOMAIN Fields[contract]
  <2>1. /\ DOMAIN c = F /\ c = [f \in F |-> c[f]]
        /\ \A f \in F : c[f] \in Typed(Fields[contract][f])
    BY <1>2 DEF Sound
  <2>2. c \in [F -> UNION {Typed(Fields[contract][f]) : f \in F}]
    BY <2>1
  <2>3. c \in Given(contract)
    BY <2>1, <2>2 DEF Given
  <2> QED BY <1>2, <2>3, SoundConstructed DEF Constructed
<1> QED BY <1>1, <1>2

(***************************************************************************)
(* The codec.                                                              *)
(***************************************************************************)

(* What encode_contract makes of a contract of the current schema version, *)
(* decode_contract turns into the same contract                            *)
(* (test_all_canonical_contracts_round_trip, for all contracts there are). *)
THEOREM RoundTrip ==
  ASSUME Conversions, NEW contract \in Contract, NEW c \in Constructed(contract),
         c["schema_version"] = SchemaVersion,
         NEW document, IsEncoding(contract, c, document)
  PROVE  Decode(document) = {[contract |-> contract, fields |-> c]}
<1> DEFINE F == DOMAIN Fields[contract]
           payload == document.payload.of
<1>1. Sound(contract, c)
  BY ContractsAreSound
<1>2. /\ DOMAIN c = F /\ c = [f \in F |-> c[f]]
      /\ \A f \in F : c[f] \in Typed(Fields[contract][f])
  BY <1>1 DEF Sound
<1>3. /\ document.contract_type = Json("str", contract)
      /\ document.payload = Json("object", payload)
      /\ DOMAIN payload = F
      /\ \A f \in F : Encodes(Fields[contract][f], c[f], payload[f])
  BY <1>2 DEF IsEncoding
<1> HIDE DEF payload
<1>4. \A f \in F : DecodeValue(Fields[contract][f], payload[f]) = {c[f]}
  BY <1>2, <1>3, SchemaTyped, ValueInverse
<1>5. payload["schema_version"] = Json("str", SchemaVersion)
  BY <1>3, VersionField, EnumNames DEF Encodes, EncodesScalar, A, Container
<1>6. [f \in DOMAIN payload |-> The(DecodeValue(Fields[contract][f], payload[f]))] = c
  <2>1. \A f \in F : The(DecodeValue(Fields[contract][f], payload[f])) = c[f]
    BY <1>4 DEF The
  <2> QED BY <1>2, <1>3, <2>1
<1>7. DecodePayload(contract, payload) = {c}
  BY <1>1, <1>3, <1>4, <1>5, <1>6, VersionField, SoundConstructed DEF DecodePayload
<1>8. /\ document.contract_type.json = "str" /\ document.contract_type.of = contract
      /\ document.payload.json = "object" /\ document.payload.of = payload
  BY <1>3 DEF Json
<1> QED BY <1>7, <1>8 DEF Decode

(* A contract may be built with any schema version, but what is encoded    *)
(* from one of another version than the current is refused: the codec      *)
(* loses nothing silently.                                                 *)
THEOREM OtherVersionsRefused ==
  ASSUME NEW contract \in Contract, NEW c,
         "schema_version" \in DOMAIN c, c["schema_version"] # SchemaVersion,
         NEW document, IsEncoding(contract, c, document)
  PROVE  Decode(document) = {}
<1> DEFINE payload == document.payload.of
<1>1. /\ document.contract_type = Json("str", contract)
      /\ Encodes(A("str"), c["schema_version"], payload["schema_version"])
  BY VersionField DEF IsEncoding
<1>2. payload["schema_version"] # Json("str", SchemaVersion)
  BY <1>1, EnumNames DEF Encodes, EncodesScalar, A, Container, Json
<1>3. DecodePayload(contract, payload) = {}
  BY <1>2 DEF DecodePayload
<1> QED BY <1>1, <1>3 DEF Decode, Json

LEMMA ScalarTyped ==
  ASSUME Conversions, NEW scalar \in Scalars, NEW j \in JsonScalar,
         NEW v \in DecodeScalar(scalar, j)
  PROVE  v \in Values(scalar)
<1>1. CASE scalar = "UUID"
  <2>1. j.json = "str" /\ v \in ParseUuid[j.of]
    BY <1>1 DEF DecodeScalar, JsonTypes
  <2>2. j.of \in Text
    BY <2>1 DEF JsonScalar, Null, Json
  <2> QED BY <1>1, <2>1, <2>2, EnumNames DEF Conversions, Values
<1>2. CASE scalar = "datetime"
  <2>1. j.json = "str" /\ v \in ParseTime[j.of]
    BY <1>2 DEF DecodeScalar, JsonTypes
  <2>2. j.of \in Text
    BY <2>1 DEF JsonScalar, Null, Json
  <2> QED BY <1>2, <2>1, <2>2, EnumNames DEF Conversions, Values
<1>3. CASE scalar \in Enums
  BY <1>3, EnumNames DEF DecodeScalar, JsonTypes, Values
<1>4. CASE scalar = "str"
  <2>1. j.json = "str" /\ v = j.of
    BY <1>4, EnumNames DEF DecodeScalar, JsonTypes
  <2>2. j.of \in Text
    BY <2>1 DEF JsonScalar, Null, Json
  <2> QED BY <1>4, <2>1, <2>2, SomeValues
<1>5. CASE scalar = "int"
  <2>1. j.json = "int" /\ v = j.of
    BY <1>5, EnumNames DEF DecodeScalar, JsonTypes
  <2>2. j.of \in Int
    BY <2>1 DEF JsonScalar, Null, Json
  <2> QED BY <1>5, <2>1, <2>2, SomeValues
<1>6. CASE scalar = "bool"
  <2>1. j.json = "bool" /\ v = j.of
    BY <1>6, EnumNames DEF DecodeScalar, JsonTypes
  <2>2. j.of \in BOOLEAN
    BY <2>1 DEF JsonScalar, Null, Json
  <2> QED BY <1>6, <2>1, <2>2, SomeValues
<1>7. CASE scalar = "float"
  <2>1. /\ j.json \in {"int", "float"}
        /\ v = IF j.json = "int" THEN j.of * One ELSE j.of
    BY <1>7, EnumNames DEF DecodeScalar, JsonTypes
  <2>2. j.of \in Int /\ One \in Int
    BY <2>1 DEF JsonScalar, Null, Json, Conversions
  <2> QED BY <1>7, <2>1, <2>2, SomeValues
<1> QED BY <1>1, <1>2, <1>3, <1>4, <1>5, <1>6, <1>7, ScalarKinds

LEMMA EachTyped ==
  ASSUME Conversions, NEW scalar \in Scalars, NEW items,
         \A i \in DOMAIN items : items[i] \in JsonScalar,
         NEW s \in DecodeEach(scalar, items)
  PROVE  s \in [DOMAIN items -> Values(scalar)]
<1>1. /\ \A i \in DOMAIN items : DecodeScalar(scalar, items[i]) # {}
      /\ s = [i \in DOMAIN items |-> The(DecodeScalar(scalar, items[i]))]
  BY DEF DecodeEach
<1>2. ASSUME NEW i \in DOMAIN items
      PROVE  The(DecodeScalar(scalar, items[i])) \in Values(scalar)
  <2>1. The(DecodeScalar(scalar, items[i])) \in DecodeScalar(scalar, items[i])
    BY <1>1 DEF The
  <2> QED BY <2>1, ScalarTyped
<1> QED BY <1>1, <1>2

LEMMA ValueTyped ==
  ASSUME Conversions, NEW a \in Annotation, NEW j, IsJson(j),
         NEW v \in DecodeValue(a, j)
  PROVE  v \in Typed(a)
<1>0. a.of \in Scalars /\ a.form \in {"one", "optional", "many", "mapping"}
  BY DEF Annotation
<1>1. CASE a.form = "optional" /\ j.json = "null"
  BY <1>1 DEF DecodeValue, Typed
<1>2. CASE a.form \in {"one", "optional"} /\ ~(a.form = "optional" /\ j.json = "null")
  <2>1. v \in DecodeScalar(a.of, j)
    BY <1>2 DEF DecodeValue
  <2>2. j.json \notin {"list", "object"}
    BY <1>0, <2>1, EnumNames DEF DecodeScalar, JsonTypes
  <2>3. j \in JsonScalar
    BY <2>2 DEF IsJson, Json
  <2> QED BY <1>0, <1>2, <2>1, <2>3, ScalarTyped DEF Typed
<1>3. CASE a.form = "many"
  <2>1. j.json = "list" /\ v \in DecodeEach(a.of, j.of)
    BY <1>3 DEF DecodeValue, Container
  <2>2. j.of \in Seq(JsonScalar)
    BY <2>1 DEF IsJson, JsonScalar, Null, Json
  <2>3. v \in [DOMAIN j.of -> Values(a.of)]
    BY <1>0, <2>1, <2>2, EachTyped
  <2>4. DOMAIN j.of = 1..Len(j.of) /\ Len(j.of) \in Nat
    BY <2>2
  <2>5. v \in Seq(Values(a.of))
    BY <2>3, <2>4
  <2> QED BY <1>3, <2>5 DEF Typed
<1>4. CASE a.form = "mapping"
  <2>1. j.json = "object" /\ v \in DecodeEach(a.of, j.of)
    BY <1>4 DEF DecodeValue, Container
  <2>2. PICK K \in SUBSET Text : j.of \in [K -> JsonScalar]
    <3>1. j \notin JsonScalar
      BY <2>1 DEF JsonScalar, Null, Json
    <3>2. j # Json("list", j.of)
      BY <2>1 DEF Json
    <3> QED BY <3>1, <3>2 DEF IsJson
  <2>3. v \in [K -> Values(a.of)]
    BY <1>0, <2>1, <2>2, EachTyped
  <2> QED BY <1>4, <2>3 DEF Typed
<1> QED BY <1>0, <1>1, <1>2, <1>3, <1>4

(* Whatever JSON document decode_contract is given, it refuses it or       *)
(* returns a contract of the current schema version that its constructor   *)
(* could have returned: no document smuggles an invalid contract in        *)
(* ("decode and validate", contract_codec.py:35).                          *)
THEOREM DecodedIsSound ==
  ASSUME Conversions, NEW document, IsDocument(document), NEW r \in Decode(document)
  PROVE  /\ r.contract \in Contract
         /\ Sound(r.contract, r.fields)
         /\ r.fields["schema_version"] = SchemaVersion
<1> DEFINE contract == document.contract_type.of
           payload == document.payload.of
           F == DOMAIN Fields[contract]
           given == [f \in DOMAIN payload |-> The(DecodeValue(Fields[contract][f], payload[f]))]
<1>1. /\ contract \in Contract /\ document.payload.json = "object"
      /\ r.contract = contract /\ r.fields \in DecodePayload(contract, payload)
  BY DEF Decode
<1>2. /\ "schema_version" \in DOMAIN payload
      /\ payload["schema_version"] = Json("str", SchemaVersion)
      /\ DOMAIN payload \subseteq F
      /\ \A f \in DOMAIN payload : DecodeValue(Fields[contract][f], payload[f]) # {}
      /\ r.fields \in Construct(contract, given)
  BY <1>1 DEF DecodePayload
<1>3. ASSUME NEW f \in DOMAIN payload
      PROVE  given[f] \in Typed(Fields[contract][f])
  <2>1. given[f] \in DecodeValue(Fields[contract][f], payload[f])
    BY <1>2 DEF The
  <2>2. IsJson(payload[f]) /\ Fields[contract][f] \in Annotation
    BY <1>1, <1>2, SchemaTyped DEF IsDocument
  <2> QED BY <2>1, <2>2, ValueTyped
<1>4. DOMAIN given = DOMAIN payload
  OBVIOUS
<1>5. given["schema_version"] = SchemaVersion
  <2>1. DecodeValue(A("str"), Json("str", SchemaVersion)) = {SchemaVersion}
    BY EnumNames DEF DecodeValue, DecodeScalar, JsonTypes, A, Json
  <2> QED BY <1>1, <1>2, <2>1, VersionField DEF The
<1> HIDE DEF given
<1>6. Sound(contract, r.fields)
  BY <1>1, <1>2, <1>3, <1>4, ConstructedSound
<1>7. r.fields["schema_version"] = SchemaVersion
  BY <1>1, <1>2, <1>4, <1>5, VersionField DEF Construct, Normalized
<1> QED BY <1>1, <1>6, <1>7
================================================================================
