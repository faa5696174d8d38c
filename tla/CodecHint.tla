------------------------------ MODULE CodecHint ------------------------------
(***************************************************************************)
(* What arnm's writer needs for a document: one value for everything that  *)
(* is there, and for a string of the mapping's own spelling its characters *)
(* with two quotes and a terminator.                                       *)
(***************************************************************************)
EXTENDS CodecAnswers

RECURSIVE Values(_), PoolBytes(_)
Values(v) ==
  CASE Is("array", v) -> 1 + SumOf(v.array, Values)
    [] Is("object", v) ->
         1 + FoldSet(LAMBDA key, sum : 1 + Values(v.object[key]) + sum, 0, DOMAIN v.object)
    [] OTHER -> 1

PoolBytes(v) ==
  CASE Is("array", v) -> SumOf(v.array, PoolBytes)
    [] Is("object", v) ->
         FoldSet(LAMBDA key, sum : PoolBytes(v.object[key]) + sum, 0, DOMAIN v.object)
    [] Is("string", v) ->
         (CASE Is("hex", v.string) -> 2 * v.string.size + 3
            [] Is("uuid", v.string) -> 36 + 3
            [] Is("base64", v.string) ->
                 4 * (CHOOSE n \in 0..v.string.size : 3 * n >= v.string.size
                                                     /\ 3 * (n - 1) < v.string.size) + 3
            [] OTHER -> 0)
    [] OTHER -> 0

\* calculate_hint counts the document before it is written, and is right: one value short and
\* the writer grows on the way, which its caller's buffer may not allow.
HintIsExact ==
  document # NULL =>
    CalculateHint(tx) = [values |-> Values(document), string_bytes |-> PoolBytes(document)]

=============================================================================
