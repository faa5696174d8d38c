------------------------------- MODULE Protobuf -------------------------------
(***************************************************************************)
(* pbtools, the runtime under the generated message code: an encoded       *)
(* message is the sequence of its fields, each with the number it is       *)
(* written under and one value - a varint, bytes, or a message.  What a    *)
(* byte costs is left out; which fields are written, in which order they   *)
(* are found again and what a missing one reads as is kept.                *)
(***************************************************************************)
EXTENDS Integers, Sequences, FiniteSets, SequencesExt

CONSTANTS
  NULL,          \* a pointer to nothing
  FieldNumbers,  \* 2^29: what a 32-bit tag keeps of a field number
  Word           \* 2^32: what a 32-bit field keeps of a varint

\* The largest number a message of the protocol uses is 13.
ASSUME FieldNumbersAssumption == FieldNumbers \in Nat /\ FieldNumbers > 14
ASSUME WordAssumption == Word \in Nat /\ Word > 2

\* struct pbtools_bytes_t: a length, and what is there.
BytesOf(size, data) == [size |-> size, data |-> data]

NoBytes == BytesOf(0, NULL)

-----------------------------------------------------------------------------
(* Writing: a number that is 0, bytes of length 0 and a message that is    *)
(* NULL leave nothing behind; the members of a oneof are written anyway.   *)

\* A slip: the member of a oneof is left out where it is 0.
VarintUnlessZero(number, value) ==
  IF value = 0 THEN <<>> ELSE <<[tag |-> number, varint |-> value]>>

VarintAlways(number, value) == <<[tag |-> number, varint |-> value]>>

Varint(number, value) ==
  IF value = 0 THEN <<>> ELSE VarintAlways(number, value)

Flag(number, value) == IF value THEN VarintAlways(number, 1) ELSE <<>>

BytesAlways(number, value) == <<[tag |-> number, bytes |-> value]>>

Bytes(number, value) ==
  IF value.size = 0 THEN <<>> ELSE BytesAlways(number, value)

MessageAlways(number, message, Encode(_)) ==
  <<[tag |-> number, message |-> Encode(message)]>>

Message(number, message, Encode(_)) ==
  IF message = NULL THEN <<>> ELSE MessageAlways(number, message, Encode)

Repeated(number, list, Encode(_)) ==
  [i \in DOMAIN list |-> [tag |-> number, message |-> Encode(list[i])]]

-----------------------------------------------------------------------------
(* Reading: the decoder walks the fields and switches on the number, so    *)
(* the last field with a number is the one that counts and numbers nobody  *)
(* knows are skipped.  A message read twice replaces the first; it does    *)
(* not merge.                                                              *)

\* A tag is read as a varint and kept in 32 bits, three of them the wire type.
Number(field) == field.tag % FieldNumbers

\* pbtools_decoder_read_tag aborts the decode at number 0.
Aborts(fields) == \E i \in DOMAIN fields : Number(fields[i]) = 0

Places(fields, numbers) == {i \in DOMAIN fields : Number(fields[i]) \in numbers}

\* The last of the fields with one of these numbers.
LastOf(fields, numbers) ==
  fields[CHOOSE i \in Places(fields, numbers) : \A j \in Places(fields, numbers) : j <= i]

Present(fields, number) == Places(fields, {number}) # {}

ReadVarint(fields, number) ==
  IF Present(fields, number) THEN LastOf(fields, {number}).varint ELSE 0

ReadUint32(fields, number) == ReadVarint(fields, number) % Word

ReadInt32(fields, number) ==
  ((ReadVarint(fields, number) + (Word \div 2)) % Word) - (Word \div 2)

\* pbtools_decoder_read_enum
ReadEnum(fields, number) == ReadInt32(fields, number)

ReadFlag(fields, number) == ReadInt32(fields, number) # 0

ReadBytes(fields, number) ==
  IF Present(fields, number) THEN LastOf(fields, {number}).bytes ELSE NoBytes

ReadMessage(fields, number, Decode(_)) ==
  IF Present(fields, number) THEN Decode(LastOf(fields, {number}).message) ELSE NULL

(***************************************************************************)
(* A repeated field is counted on the walk and read after it.  When the    *)
(* workspace has no room for the items pbtools_decode_repeated_inner       *)
(* returns before it reads any, and does not abort.                        *)
(***************************************************************************)
ReadRepeated(fields, number, Decode(_), hasRoom) ==
  LET places  == IF hasRoom THEN Places(fields, {number}) ELSE {}
      Item(n) == CHOOSE i \in places : Cardinality({j \in places : j <= i}) = n
  IN  [n \in 1..Cardinality(places) |-> Decode(fields[Item(n)].message)]

\* The member of a oneof that is set: the last one read, or 0.
Chosen(fields, numbers) ==
  IF Places(fields, numbers) = {} THEN 0 ELSE Number(LastOf(fields, numbers))

\* What a message costs in a buffer: the bytes are left out, not that there are
\* some and that more fields need more.
EncodedSize(fields) == 2 * Len(fields) + 1

=============================================================================
