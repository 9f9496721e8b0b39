----------------------------- MODULE ContractCodec -----------------------------
(***************************************************************************)
(* encode_contract and decode_contract (contract_codec.py).  A JSON value  *)
(* is a record [json, of]: its type and what it holds.  Conversions that   *)
(* may raise return a set, of the one result or of none.                   *)
(***************************************************************************)
EXTENDS Contracts

CONSTANTS
  UuidText, TimeText,    \* str(uuid) and datetime.isoformat()
  ParseUuid, ParseTime   \* UUID(text) and datetime.fromisoformat(text)

Json(type, x) == [json |-> type, of |-> x]
Null == Json("null", None)

The(S) == CHOOSE x \in S : TRUE

(* What the conversions of the language do: strip() and upper() change     *)
(* nothing the second time, and text made from a UUID or a time is parsed  *)
(* to the same again.                                                      *)
Conversions ==
  /\ \A t \in Text : Strip[t] \in Text /\ Strip[Strip[t]] = Strip[t]
  /\ \A t \in Text :
       LET u == Upper[Strip[t]] IN
       /\ u \in Text /\ Strip[u] = u /\ Upper[u] = u
       /\ u = Empty => Strip[t] = Empty
  /\ \A id \in Uuid : UuidText[id] \in Text /\ ParseUuid[UuidText[id]] = {id}
  /\ \A d \in Datetime : TimeText[d] \in Text /\ ParseTime[TimeText[d]] = {d}
  /\ \A t \in Text : ParseUuid[t] \in SUBSET Uuid /\ ParseTime[t] \in SUBSET Datetime
  /\ One \in Nat \ {0} /\ NewId \in Uuid /\ Now \in Datetime
  /\ {Empty, SchemaVersion, "1.0.0", "system", "institution"} \subseteq Text
  /\ \A e \in Enums : Enumeration[e] \subseteq Text

(***************************************************************************)
(* _encode_value.  A value of type float may be held as an int.            *)
(***************************************************************************)
EncodesScalar(scalar, v, j) ==
  \/ scalar = "UUID" /\ j = Json("str", UuidText[v])
  \/ scalar = "datetime" /\ j = Json("str", TimeText[v])
  \/ scalar \in {"str"} \union Enums /\ j = Json("str", v)
  \/ scalar \in {"int", "float", "bool"} /\ j = Json(scalar, v)
  \/ /\ scalar = "float" /\ j = Json("int", j.of)
     /\ j.of \in Int /\ v = j.of * One

(* Lists and objects are encoded item by item.                             *)
EncodesEach(scalar, s, items) ==
  /\ DOMAIN items = DOMAIN s
  /\ \A i \in DOMAIN s : EncodesScalar(scalar, s[i], items[i])

Container == [many |-> "list", mapping |-> "object"]

(* Value v of a field may be encoded as j.                                 *)
Encodes(a, v, j) ==
  \/ a.form = "one" /\ EncodesScalar(a.of, v, j)
  \/ a.form = "optional" /\ IF v = None THEN j = Null ELSE EncodesScalar(a.of, v, j)
  \/ /\ a.form \in DOMAIN Container
     /\ j = Json(Container[a.form], j.of) /\ EncodesEach(a.of, v, j.of)

(* document is what encode_contract makes of contract c.                   *)
IsEncoding(contract, c, document) ==
  LET payload == document.payload.of IN
  /\ document = [contract_type |-> Json("str", contract),
                 payload |-> Json("object", payload)]
  /\ DOMAIN payload = DOMAIN c
  /\ \A f \in DOMAIN c : Encodes(Fields[contract][f], c[f], payload[f])

(***************************************************************************)
(* _decode_value.  A bool is no number.                                    *)
(***************************************************************************)
JsonTypes(scalar) ==
  IF scalar = "float" THEN {"int", "float"}
  ELSE IF scalar \in {"int", "bool"} THEN {scalar} ELSE {"str"}

DecodeScalar(scalar, j) ==
  IF j.json \notin JsonTypes(scalar) THEN {}
  ELSE IF scalar = "UUID" THEN ParseUuid[j.of]
  ELSE IF scalar = "datetime" THEN ParseTime[j.of]
  ELSE IF scalar \in Enums THEN {j.of} \intersect Enumeration[scalar]
  ELSE {IF scalar = "float" /\ j.json = "int" THEN j.of * One ELSE j.of}

DecodeEach(scalar, items) ==
  IF \A i \in DOMAIN items : DecodeScalar(scalar, items[i]) # {}
  THEN {[i \in DOMAIN items |-> The(DecodeScalar(scalar, items[i]))]}
  ELSE {}

DecodeValue(a, j) ==
  IF a.form = "optional" /\ j.json = "null" THEN {None}
  ELSE IF a.form \in {"one", "optional"} THEN DecodeScalar(a.of, j)
  ELSE IF j.json = Container[a.form] THEN DecodeEach(a.of, j.of)
  ELSE {}

(* decode_contract; a tag that is missing reads as Null.                   *)
DecodePayload(contract, payload) ==
  LET decoded(f) == DecodeValue(Fields[contract][f], payload[f])
  IN IF /\ "schema_version" \in DOMAIN payload
        /\ payload["schema_version"] = Json("str", SchemaVersion)
        /\ DOMAIN payload \subseteq DOMAIN Fields[contract]
        /\ \A f \in DOMAIN payload : decoded(f) # {}
     THEN Construct(contract, [f \in DOMAIN payload |-> The(decoded(f))])
     ELSE {}

Decode(document) ==
  LET name == document.contract_type
      payload == document.payload
  IN IF name.json = "str" /\ name.of \in Contract /\ payload.json = "object"
     THEN {[contract |-> name.of, fields |-> c] :
             c \in DecodePayload(name.of, payload.of)}
     ELSE {}

(***************************************************************************)
(* Contracts as their constructors return them, and arbitrary documents.   *)
(***************************************************************************)
Given(contract) ==
  {given \in UNION {[D -> UNION {Typed(Fields[contract][f]) : f \in D}] :
                      D \in SUBSET DOMAIN Fields[contract]} :
     \A f \in DOMAIN given : given[f] \in Typed(Fields[contract][f])}

Constructed(contract) ==
  UNION {Construct(contract, given) : given \in Given(contract)}

(* A JSON value.  No field takes a list or an object inside another: all   *)
(* of those are Json("nested", None).                                      *)
JsonScalar ==
  [json: {"str"}, of: Text] \union [json: {"int", "float"}, of: Int]
  \union [json: {"bool"}, of: BOOLEAN] \union {Null, Json("nested", None)}

IsJson(j) ==
  \/ j \in JsonScalar
  \/ j = Json("list", j.of) /\ j.of \in Seq(JsonScalar)
  \/ j = Json("object", j.of) /\ \E K \in SUBSET Text : j.of \in [K -> JsonScalar]

IsDocument(document) ==
  document.payload.json = "object" =>
    \A f \in DOMAIN document.payload.of : IsJson(document.payload.of[f])

(* What holds of every contract there is: its fields are typed, its texts  *)
(* normalised, and its constructor would accept it again.                  *)
Sound(contract, c) ==
  /\ c = [f \in DOMAIN Fields[contract] |-> c[f]]
  /\ \A f \in DOMAIN c : c[f] \in Typed(Fields[contract][f])
  /\ Normalized(contract, c) = c
  /\ Accepted(contract, c)
==============================================================================
