-------------------------------- MODULE Codec --------------------------------
(***************************************************************************)
(* A transaction on its way through its four forms: composed in the wire   *)
(* form, encoded, received, decoded, made into the runtime form, written   *)
(* as JSON and read back.  What arrives need not be what was sent: another *)
(* program encodes as it likes, leaving out a member or repeating one, and *)
(* a document may have been edited.                                        *)
(*                                                                         *)
(* The decoders work out of an arena the caller brings.  They fail with    *)
(* OUT_OF_MEMORY where it is too small - except for a list: pbtools reads  *)
(* none of it and carries on (see Protobuf).                               *)
(***************************************************************************)
EXTENDS JsonForm

CONSTANTS
  Compositions,  \* [body, confirmed]: what a host assembles; body_bytes not yet set
  Community,     \* the community of the chain a transaction is decoded for
  BufferSizes,   \* the destinations an encoder is given
  ChangeKinds,   \* what may happen to one field of a message on the way
  EditKinds,     \* what an editor may do to one member of a document
  EmptyClones,   \* what arnm may answer to a copy of an empty block
  EmptyMemos,    \* what arnm may answer to a document's memo of no bytes
  MaxFaults      \* bound: how much goes wrong with one transaction

ASSUME CompositionsAssumption ==
  \A c \in Compositions :
    /\ c = [body |-> c.body, confirmed |-> c.confirmed]
    /\ IsTransactionBody(c.body) /\ IsConfirmedTransaction(c.confirmed)
    /\ c.confirmed.transaction.body_bytes = NoBytes

\* A destination is memory that arnm gave out.
ASSUME BufferSizesAssumption == BufferSizes \subseteq 0..MaxAlloc

\* A chain is some community's; a copy of nothing takes no memory that could be out.
ASSUME CommunityAssumption == Community # NULL

ASSUME EmptyClonesAssumption == "OUT_OF_MEMORY" \notin EmptyClones

VARIABLES
  composed,  \* the composition at hand, or NULL
  binary,    \* its encoded form, or NULL
  arrived,   \* how what was received differs from what was sent
  decoding,  \* the last decode: [result, room, wire, body, peeked], or NULL
  tx,        \* the transaction decoded into
  document,  \* what was written of tx, or NULL
  reading,   \* the last read: [result, edit, held] (held: the target before), or NULL
  target     \* the transaction read into

vars == <<composed, binary, arrived, decoding, tx, document, reading, target>>

Init ==
  /\ composed = NULL /\ binary = NULL /\ arrived = [kind |-> "unchanged"]
  /\ decoding = NULL /\ tx = Blank
  /\ document = NULL /\ reading = NULL /\ target = Blank

-----------------------------------------------------------------------------
(* Composing and encoding.                                                 *)

\* grdw_transaction_body_reserve_memos and its like: what a counter can say.
Reservable(count) == count <= MaxCount

Compose(c) ==
  /\ composed = NULL
  /\ Reservable(Len(c.body.memos)) /\ Reservable(Len(c.confirmed.account_balances))
  /\ Reservable(Len(c.confirmed.transaction.sig_map))
  /\ composed' = c
  /\ UNCHANGED <<binary, arrived, decoding, tx, document, reading, target>>

\* grdw_transaction_body_encode, its bytes kept as what is signed.
EncodeBody(room) ==
  LET fields == EncodeTransactionBody(TransactionBodyFromWire(composed.body))
  IN  /\ composed # NULL
      /\ composed.confirmed.transaction.body_bytes = NoBytes
      /\ EncodedSize(fields) <= room
      /\ composed' = [composed EXCEPT !.confirmed.transaction.body_bytes =
                        BytesOf(EncodedSize(fields), fields)]
      /\ UNCHANGED <<binary, arrived, decoding, tx, document, reading, target>>

\* grdw_confirmed_transaction_encode; a destination too small, or a list too
\* long, leaves nothing to send.
EncodeConfirmed(room) ==
  /\ composed # NULL /\ binary = NULL
  /\ composed.confirmed.transaction.body_bytes # NoBytes
  /\ LET made == ConfirmedTransactionFromWire(composed.confirmed)
     IN  /\ made.result = "SUCCESS"
         /\ EncodedSize(EncodeConfirmedTransaction(made.value)) <= room
         /\ binary' = EncodeConfirmedTransaction(made.value)
  /\ UNCHANGED <<composed, arrived, decoding, tx, document, reading, target>>

-----------------------------------------------------------------------------
(* What may have changed on the way: one field left out, sent again at the *)
(* end as it was or with another number, or one nobody knows added; in the *)
(* message, in a message in it, or in the body.                            *)

\* A number no message of the protocol uses.
Foreign == 14

ChangesOf(fields) ==
  [kind : ChangeKinds \cap {"added"}]
  \cup [kind : ChangeKinds \cap {"left out", "repeated"}, at : DOMAIN fields]
  \cup [kind : ChangeKinds \cap {"overridden"},
        at : {i \in DOMAIN fields : "varint" \in DOMAIN fields[i]}]

Altered(fields, change) ==
  CASE change.kind = "unchanged" -> fields
    [] change.kind = "added" -> Append(fields, [tag |-> Foreign, varint |-> 1])
    [] change.kind = "left out" -> RemoveAt(fields, change.at)
    [] change.kind = "repeated" -> Append(fields, fields[change.at])
    [] change.kind = "overridden" ->
         Append(fields, [fields[change.at] EXCEPT !.varint = @ + 1])

Within(fields) ==
  UNION {{[kind |-> "within", at |-> i, change |-> c] : c \in ChangesOf(fields[i].message)} :
           i \in {i \in DOMAIN fields : "message" \in DOMAIN fields[i]}}

AlteredWithin(fields, change) ==
  IF change.kind = "within"
  THEN [fields EXCEPT ![change.at].message = Altered(@, change.change)]
  ELSE Altered(fields, change)

\* Where a message holds its field of this number.
Place(fields, number) == CHOOSE i \in DOMAIN fields : fields[i].tag = number

\* The fields of the body, which the signed transaction keeps as bytes.
BodyFields(fields) ==
  LET transaction == fields[Place(fields, 2)].message
  IN  transaction[Place(transaction, 2)].bytes.data

Changes(fields) ==
  ChangesOf(fields) \cup Within(fields)
  \cup {[kind |-> "body", change |-> c] :
          c \in ChangesOf(BodyFields(fields)) \cup Within(BodyFields(fields))}

Received(fields, change) ==
  LET at == Place(fields, 2)
  IN  IF change.kind = "body"
      THEN [fields EXCEPT ![at].message[Place(fields[at].message, 2)].bytes.data =
              AlteredWithin(@, change.change)]
      ELSE AlteredWithin(fields, change)

Arrive(change) ==
  /\ binary # NULL /\ arrived = [kind |-> "unchanged"] /\ decoding = NULL
  /\ arrived' = change
  /\ UNCHANGED <<composed, binary, decoding, tx, document, reading, target>>

-----------------------------------------------------------------------------
(* Decoding.                                                               *)

Lists == {"sig_pair", "memos", "account_balances"}

\* grdw_confirmed_transaction_decode, grdw_transaction_body_decode: the
\* generated decoder aborts at field number 0.
ConfirmedTransactionDecode(fields, roomFor) ==
  IF Aborts(fields) THEN Failure("DECODE_FAILED")
  ELSE ConfirmedTransactionFromPb(DecodeConfirmedTransaction(fields, roomFor))

TransactionBodyDecode(fields, roomFor) ==
  IF Aborts(fields) THEN Failure("DECODE_FAILED")
  ELSE TransactionBodyFromPbtools(DecodeTransactionBody(fields, roomFor))

\* A slip: the first of two numbers counts.
PeekFirst(fields) ==
  LET ids   == {i \in DOMAIN fields : fields[i].tag = 1}
      first == CHOOSE i \in ids : \A j \in ids : i <= j
  IN  IF \E i \in DOMAIN fields : fields[i].tag = 0 THEN Failure("DECODE_FAILED")
      ELSE Success(IF ids = {} THEN 0 ELSE fields[first].varint)

(***************************************************************************)
(* grdw_confirmed_transaction_peek_id: the number without the rest.  It    *)
(* walks the top level only and keeps the whole field number, where the    *)
(* decoder keeps what fits in 32 bits of the tag.                          *)
(***************************************************************************)
PeekId(fields) ==
  LET ids  == {i \in DOMAIN fields : fields[i].tag = 1}
      last == CHOOSE i \in ids : \A j \in ids : j <= i
  IN  IF \E i \in DOMAIN fields : fields[i].tag = 0 THEN Failure("DECODE_FAILED")
      ELSE Success(IF ids = {} THEN 0 ELSE fields[last].varint)

(***************************************************************************)
(* grdr_complete_transaction_init_from_protobuf.  The target is released   *)
(* only when both decodes have gone well.                                  *)
(***************************************************************************)
InitFromProtobuf(roomFor, emptyClone) ==
  LET fields == Received(binary, arrived)
      wire   == ConfirmedTransactionDecode(fields, roomFor)
      body   == Then(wire, LAMBDA w : TransactionBodyDecode(w.transaction.body_bytes.data, roomFor))
      made   == IF body.result # "SUCCESS" THEN [result |-> body.result, tx |-> tx]
                ELSE CompleteTransactionFromWire(body.value, wire.value, Community, emptyClone)
  IN  /\ binary # NULL /\ decoding = NULL
      /\ tx' = made.tx
      /\ decoding' = [result |-> made.result, room |-> roomFor, wire |-> wire.value,
                      body |-> body.value, peeked |-> PeekId(fields)]
      /\ UNCHANGED <<composed, binary, arrived, document, reading, target>>

\* Anything but a list that finds no room in the caller's arena.
DecodeOutOfMemory ==
  /\ binary # NULL /\ decoding = NULL
  /\ decoding' = [result |-> "OUT_OF_MEMORY", room |-> {}, wire |-> NULL, body |-> NULL,
                  peeked |-> PeekId(Received(binary, arrived))]
  /\ UNCHANGED <<composed, binary, arrived, tx, document, reading, target>>

-----------------------------------------------------------------------------
(* JSON, and what an editor may have made of a document: a member gone,    *)
(* null, of another kind, or a text that spells nothing; at the root or in *)
(* an object under it.                                                     *)

WriteJson ==
  /\ decoding # NULL /\ document = NULL
  /\ JsonFromCompleteTransaction(tx).result = "SUCCESS"
  /\ document' = JsonFromCompleteTransaction(tx).value
  /\ UNCHANGED <<composed, binary, arrived, decoding, tx, reading, target>>

Spells == JString(NameText("SOMETHING"))

\* Another kind of value than this one.
OtherKind(value) == IF Is("number", value) THEN Spells ELSE JNumber(7)

EditsOf(members) ==
  {[kind |-> k, key |-> key] :
     k \in EditKinds \cap {"gone", "null", "other kind"}, key \in DOMAIN members}
  \cup {[kind |-> k, key |-> key] :
          k \in EditKinds \cap {"other text"},
          key \in {key \in DOMAIN members : Is("string", members[key])}}

Edits(root) ==
  {[kind |-> k] : k \in {"none"} \cup (EditKinds \cap {"not JSON"})} \cup EditsOf(root.object)
  \cup UNION {{[kind |-> "below", key |-> key, edit |-> e] :
                 e \in EditsOf(root.object[key].object)} :
              key \in {key \in DOMAIN root.object : Is("object", root.object[key])}}

EditedMembers(members, edit) ==
  CASE edit.kind = "gone" -> [key \in DOMAIN members \ {edit.key} |-> members[key]]
    [] edit.kind = "null" -> [members EXCEPT ![edit.key] = JNull]
    [] edit.kind = "other kind" -> [members EXCEPT ![edit.key] = OtherKind(@)]
    [] edit.kind = "other text" -> [members EXCEPT ![edit.key] = Spells]

Edited(root, edit) ==
  CASE edit.kind = "none" -> root
    [] edit.kind = "not JSON" -> NotJson
    [] edit.kind = "below" ->
         [root EXCEPT !.object[edit.key].object = EditedMembers(@, edit.edit)]
    [] OTHER -> [root EXCEPT !.object = EditedMembers(@, edit)]

\* Bound: a document of what was changed on the way need not be edited too.
FaultsWith(edit) ==
  (IF arrived.kind = "unchanged" THEN 0 ELSE 1) + (IF edit.kind = "none" THEN 0 ELSE 1)

ReadJson(edit, emptyMemo) ==
  LET read == CompleteTransactionFromJson(target, Edited(document, edit), emptyMemo)
  IN  /\ document # NULL /\ FaultsWith(edit) <= MaxFaults
      /\ reading # NULL => reading.result = "SUCCESS" /\ reading.edit.kind = "none"
      /\ target' = read.tx
      /\ reading' = [result |-> read.result, edit |-> edit, held |-> target]
      /\ UNCHANGED <<composed, binary, arrived, decoding, tx, document>>

\* The reader's or the transaction's own memory ran out after the parse.
ReadOutOfMemory ==
  /\ document # NULL /\ reading = NULL
  /\ target' = Blank
  /\ reading' = [result |-> "OUT_OF_MEMORY", edit |-> [kind |-> "no memory"], held |-> target]
  /\ UNCHANGED <<composed, binary, arrived, decoding, tx, document>>

\* Everything is given back, and the next transaction begins.
Release ==
  /\ composed # NULL
  /\ composed' = NULL /\ binary' = NULL /\ arrived' = [kind |-> "unchanged"]
  /\ decoding' = NULL /\ tx' = Blank
  /\ document' = NULL /\ reading' = NULL /\ target' = Blank

Next ==
  \/ \E c \in Compositions : Compose(c)
  \/ \E room \in BufferSizes : EncodeBody(room)
  \/ \E room \in BufferSizes : EncodeConfirmed(room)
  \/ binary # NULL /\ \E change \in Changes(binary) : Arrive(change)
  \/ \E roomFor \in SUBSET Lists, answer \in EmptyClones : InitFromProtobuf(roomFor, answer)
  \/ DecodeOutOfMemory
  \/ WriteJson
  \/ /\ document # NULL
     /\ \E edit \in Edits(document), emptyMemo \in EmptyMemos : ReadJson(edit, emptyMemo)
  \/ ReadOutOfMemory
  \/ Release

Spec == Init /\ [][Next]_vars

=============================================================================
