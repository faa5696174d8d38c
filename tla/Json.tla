--------------------------------- MODULE Json ---------------------------------
(***************************************************************************)
(* A JSON document as arnm's writer builds and its reader walks one (arnm  *)
(* is a library outside this repository; the mapping's use of it is what   *)
(* is modelled).  A value is one of five kinds; a string is the text some  *)
(* spelling produced: hex of so many bytes, a uuid, base64, or a name.     *)
(***************************************************************************)
EXTENDS Integers, Sequences

JNull == [null |-> TRUE]

JNumber(n) == [number |-> n]

JString(text) == [string |-> text]

JArray(list) == [array |-> list]

\* An object is its members by name: no reader here asks for their order.
JObject(members) == [object |-> members]

\* The members of two parts of an object, or the entries of two parts of a table.
Together(f, g) ==
  [key \in DOMAIN f \cup DOMAIN g |-> IF key \in DOMAIN f THEN f[key] ELSE g[key]]

HexText(size, data) == [hex |-> data, size |-> size]

UuidText(data) == [uuid |-> data]

\* arnm 0.8 writes no bytes as the empty string.
Base64Text(block) == [base64 |-> block.data, size |-> block.size]

NameText(name) == [name |-> name]

Is(kind, value) == kind \in DOMAIN value

-----------------------------------------------------------------------------
(* arnm_json_read_object: a table says which members are wanted and as     *)
(* what.  One walk takes what fits; null under a typed entry counts as     *)
(* absent, under "value" it is handed over like anything else; a member of *)
(* another kind, or a text that does not spell what is wanted, ends it.    *)

Hex(size) == [as |-> "hex", size |-> size]

As(type) == [as |-> type]

Verdict(value, entry) ==
  CASE entry.as = "value" -> "SUCCESS"
    [] entry.as \in {"int", "uint"} ->
         IF ~Is("number", value) THEN "INVALID_ENUM_TYPE"
         ELSE IF entry.as = "uint" /\ value.number < 0 THEN "ARITHMETIC_OVERFLOW"
         ELSE "SUCCESS"
    [] entry.as \in {"string", "uuid", "hex"} ->
         IF ~Is("string", value) THEN "INVALID_ENUM_TYPE"
         ELSE IF \/ entry.as = "string"
                 \/ entry.as = "uuid" /\ Is("uuid", value.string)
                 \/ entry.as = "hex" /\ Is("hex", value.string) /\ value.string.size = entry.size
         THEN "SUCCESS"
         ELSE "DECODE_FAILED"

Content(value, entry) ==
  CASE entry.as = "value" -> value
    [] entry.as \in {"int", "uint"} -> value.number
    [] entry.as = "string" -> value.string
    [] entry.as = "uuid" -> value.string.uuid
    [] entry.as = "hex" -> value.string.hex

\* [result, value]: with SUCCESS the members seen, by name.
ReadObject(value, table) ==
  IF ~Is("object", value) THEN [result |-> "INVALID_ENUM_TYPE", value |-> JNull]
  ELSE LET members == value.object
           met     == {key \in DOMAIN table \cap DOMAIN members :
                         table[key].as = "value" \/ members[key] # JNull}
           refused == {key \in met : Verdict(members[key], table[key]) # "SUCCESS"}
       IN  IF refused = {}
           THEN [result |-> "SUCCESS",
                 value |-> [key \in met |-> Content(members[key], table[key])]]
           ELSE LET key == CHOOSE key \in refused : TRUE
                IN  [result |-> Verdict(members[key], table[key]), value |-> JNull]

=============================================================================
