---------------------------- MODULE DocumentProofs ----------------------------
(***************************************************************************)
(* Documents: what is written of a transaction and read back is what it    *)
(* was, so the getters answer what the host composed; and a document that  *)
(* is refused leaves nothing behind.                                       *)
(*                                                                         *)
(* A document is members under keys, and a reader is a table of the kinds  *)
(* it expects under them.  Each part of a transaction is written under keys*)
(* of its own, so the table of the whole finds in the whole what the table *)
(* of a part finds in the part.                                            *)
(***************************************************************************)
EXTENDS CodecProofs

-----------------------------------------------------------------------------
(* A refused document.                                                     *)

\* What is written is a document, and what is refused has left nothing.
DocumentInv ==
  /\ document # NULL => document = [object |-> document.object]
  /\ RefusedLeavesNothing

\* A document stays one under an editor's hands, unless he makes it no JSON at all.
LEMMA EditedIsJson ==
  ASSUME NEW root, root = [object |-> root.object], NEW edit, edit.kind # "not JSON"
  PROVE  Edited(root, edit) # NotJson
<1> DEFINE made == Edited(root, edit)
<1>1. DOMAIN root = {"object"}
  BY Zenon
<1>2. DOMAIN made = {"object"}
  <2>1. CASE edit.kind = "none"
    BY <1>1, <2>1 DEF Edited
  <2>2. CASE edit.kind = "below"
    <3> DEFINE members == [root.object EXCEPT ![edit.key].object = EditedMembers(@, edit.edit)]
    <3>1. made = [root EXCEPT !.object = members]
      BY <2>2 DEF Edited
    <3> HIDE DEF members, made
    <3> QED BY <1>1, <3>1
  <2>3. CASE edit.kind \notin {"none", "below"}
    <3> DEFINE members == EditedMembers(root.object, edit)
    <3>1. made = [root EXCEPT !.object = members]
      BY <2>3 DEF Edited
    <3> HIDE DEF members, made
    <3> QED BY <1>1, <3>1
  <2> QED BY <2>1, <2>2, <2>3
<1>3. DOMAIN NotJson = {"text"}
  BY DEF NotJson
<1> HIDE DEF made
<1>4. DOMAIN made # DOMAIN NotJson
  BY <1>2, <1>3
<1> QED BY <1>4 DEF made

LEMMA ReadJsonRefused ==
  ASSUME DocumentInv, NEW edit, NEW emptyMemo, ReadJson(edit, emptyMemo)
  PROVE  DocumentInv'
<1> DEFINE text == Edited(document, edit)
           read == CompleteTransactionFromJson(target, text, emptyMemo)
<1>1. /\ document # NULL /\ document' = document /\ target' = read.tx
      /\ reading' = [result |-> read.result, edit |-> edit, held |-> target]
  BY DEF ReadJson
<1>2. document = [object |-> document.object]
  BY <1>1 DEF DocumentInv
<1>3. ASSUME edit.kind # "not JSON", read.result # "SUCCESS" PROVE read.tx = Blank
  <2>1. text # NotJson
    BY <1>2, <1>3, EditedIsJson
  <2> HIDE DEF text
  <2> QED BY <1>3, <2>1 DEF CompleteTransactionFromJson
<1> HIDE DEF read
<1>4. reading'.result = read.result /\ reading'.edit = edit
  BY <1>1
<1>5. RefusedLeavesNothing'
  <2>1. reading'.result # "SUCCESS" /\ reading'.edit.kind # "not JSON" => target' = Blank
    BY <1>1, <1>3, <1>4
  <2> QED BY <2>1 DEF RefusedLeavesNothing, Blank, NoArena
<1> QED BY <1>1, <1>2, <1>5 DEF DocumentInv

LEMMA DocumentKept ==
  ASSUME DocumentInv, [Next]_vars
  PROVE  DocumentInv'
<1>1. ASSUME UNCHANGED <<document, reading, target>> PROVE DocumentInv'
  BY <1>1 DEF DocumentInv, RefusedLeavesNothing, Blank, NoArena
<1>2. ASSUME NEW c \in Compositions, Compose(c) PROVE DocumentInv'
  BY <1>1, <1>2 DEF Compose
<1>3. ASSUME NEW room, EncodeBody(room) PROVE DocumentInv'
  BY <1>1, <1>3 DEF EncodeBody
<1>4. ASSUME NEW room, EncodeConfirmed(room) PROVE DocumentInv'
  BY <1>1, <1>4 DEF EncodeConfirmed
<1>5. ASSUME NEW change, Arrive(change) PROVE DocumentInv'
  BY <1>1, <1>5 DEF Arrive
<1>6. ASSUME NEW room, NEW answer, InitFromProtobuf(room, answer) PROVE DocumentInv'
  BY <1>1, <1>6 DEF InitFromProtobuf
<1>7. CASE DecodeOutOfMemory
  BY <1>1, <1>7 DEF DecodeOutOfMemory
<1>8. CASE WriteJson
  <2>1. /\ document' = JsonFromCompleteTransaction(tx).value
        /\ JsonFromCompleteTransaction(tx).result = "SUCCESS"
        /\ UNCHANGED <<reading, target>>
    BY <1>8 DEF WriteJson
  <2>2. document' = JObject(AddCompleteTransaction(tx))
    BY <2>1 DEF JsonFromCompleteTransaction, Success, Failure
  <2> HIDE DEF AddCompleteTransaction
  <2>3. document' = [object |-> document'.object]
    BY <2>2 DEF JObject
  <2> QED BY <2>1, <2>3 DEF DocumentInv, RefusedLeavesNothing, Blank, NoArena
<1>9. ASSUME NEW edit, NEW emptyMemo, ReadJson(edit, emptyMemo) PROVE DocumentInv'
  BY <1>9, ReadJsonRefused
<1>10. CASE ReadOutOfMemory
  BY <1>10 DEF ReadOutOfMemory, DocumentInv, RefusedLeavesNothing, Blank, NoArena
<1>11. CASE Release
  BY <1>11 DEF Release, DocumentInv, RefusedLeavesNothing, Blank, NoArena
<1>12. CASE UNCHANGED vars
  BY <1>1, <1>12 DEF vars
<1> QED BY <1>2, <1>3, <1>4, <1>5, <1>6, <1>7, <1>8, <1>9, <1>10, <1>11, <1>12 DEF Next

\* A read that is refused after the text has parsed leaves the target released, whatever it held
\* and wherever the document fails (RefusedLeavesNothing: grdm_complete_transaction_from_json).
THEOREM RefusalLeavesNothing == Spec => []RefusedLeavesNothing
<1>1. Init => DocumentInv
  BY DEF Init, DocumentInv, RefusedLeavesNothing, Blank, NoArena
<1>2. DocumentInv /\ [Next]_vars => DocumentInv'
  BY DocumentKept
<1>3. DocumentInv => RefusedLeavesNothing
  BY DEF DocumentInv
<1> QED BY <1>1, <1>2, <1>3, PTL DEF Spec

-----------------------------------------------------------------------------
(* What is written of a transaction reads as what it was: the kinds of     *)
(* members, and objects of which every member is there.                    *)

LEMMA NumberFits ==
  ASSUME NEW n
  PROVE  /\ JNumber(n) # JNull
         /\ Verdict(JNumber(n), As("int")) = "SUCCESS" /\ Content(JNumber(n), As("int")) = n
         /\ n \in Nat => Verdict(JNumber(n), As("uint")) = "SUCCESS"
         /\ Content(JNumber(n), As("uint")) = n
<1>1. JNumber(n) # JNull
  <2>1. DOMAIN JNumber(n) = {"number"} /\ DOMAIN JNull = {"null"}
    BY DEF JNumber, JNull
  <2> QED BY <2>1
<1>2. Is("number", JNumber(n)) /\ JNumber(n).number = n
  BY DEF Is, JNumber
<1> HIDE DEF JNumber
<1>3. As("int").as = "int" /\ As("uint").as = "uint"
  BY DEF As
<1>4. n \in Nat => ~(n < 0)
  OBVIOUS
<1> QED BY <1>1, <1>2, <1>3, <1>4 DEF Verdict, Content

LEMMA StringFits ==
  ASSUME NEW text
  PROVE  /\ JString(text) # JNull
         /\ Verdict(JString(text), As("string")) = "SUCCESS"
         /\ Content(JString(text), As("string")) = text
<1>1. JString(text) # JNull
  <2>1. DOMAIN JString(text) = {"string"} /\ DOMAIN JNull = {"null"}
    BY DEF JString, JNull
  <2> QED BY <2>1
<1>2. Is("string", JString(text)) /\ JString(text).string = text
  BY DEF Is, JString
<1>3. As("string").as = "string"
  BY DEF As
<1> QED BY <1>1, <1>2, <1>3 DEF Verdict, Content

LEMMA HexFits ==
  ASSUME NEW size, NEW data
  PROVE  /\ AddHex(size, data) # JNull
         /\ Verdict(AddHex(size, data), Hex(size)) = "SUCCESS"
         /\ Content(AddHex(size, data), Hex(size)) = data
<1> DEFINE text == HexText(size, data)
           value == JString(text)
<1>1. Is("hex", text) /\ text.size = size /\ text.hex = data
  BY DEF Is, HexText
<1>2. Is("string", value) /\ value.string = text
  BY DEF Is, JString
<1>3. value # JNull
  BY StringFits
<1>4. Hex(size).as = "hex" /\ Hex(size).size = size
  BY DEF Hex
<1>5. AddHex(size, data) = value
  BY DEF AddHex
<1> HIDE DEF text, value
<1> QED BY <1>1, <1>2, <1>3, <1>4, <1>5 DEF Verdict, Content

LEMMA UuidFits ==
  ASSUME NEW uuid, uuid # NULL
  PROVE  /\ AddUuid(uuid) # JNull
         /\ Verdict(AddUuid(uuid), As("uuid")) = "SUCCESS"
         /\ Content(AddUuid(uuid), As("uuid")) = uuid
<1> DEFINE text == UuidText(uuid)
           value == JString(text)
<1>1. Is("uuid", text) /\ text.uuid = uuid
  BY DEF Is, UuidText
<1>2. Is("string", value) /\ value.string = text
  BY DEF Is, JString
<1>3. value # JNull
  BY StringFits
<1>4. As("uuid").as = "uuid"
  BY DEF As
<1>5. AddUuid(uuid) = value
  BY DEF AddUuid
<1> HIDE DEF text, value
<1> QED BY <1>1, <1>2, <1>3, <1>4, <1>5 DEF Verdict, Content

LEMMA ValueFits ==
  ASSUME NEW value
  PROVE  /\ Verdict(value, As("value")) = "SUCCESS" /\ Content(value, As("value")) = value
         /\ As("value").as = "value"
BY DEF Verdict, Content, As

LEMMA ObjectFits ==
  ASSUME NEW members
  PROVE  /\ JObject(members) # JNull /\ JObject(members).object = members
         /\ Is("object", JObject(members))
<1>1. DOMAIN JObject(members) = {"object"} /\ DOMAIN JNull = {"null"}
  BY DEF JObject, JNull
<1> QED BY <1>1 DEF JObject, Is

LEMMA ArrayFits ==
  ASSUME NEW list
  PROVE  /\ JArray(list) # JNull /\ JArray(list).array = list /\ Is("array", JArray(list))
<1>1. DOMAIN JArray(list) = {"array"} /\ DOMAIN JNull = {"null"}
  BY DEF JArray, JNull
<1> QED BY <1>1 DEF JArray, Is

\* Members that are all there and all of the kind their entry asks for, and what they say.
Fits(members, table) ==
  /\ DOMAIN members = DOMAIN table
  /\ \A key \in DOMAIN table :
       members[key] # JNull /\ Verdict(members[key], table[key]) = "SUCCESS"

Said(members, table) == [key \in DOMAIN table |-> Content(members[key], table[key])]

LEMMA WholeIsRead ==
  ASSUME NullIsNoRecord, NEW members, NEW table, Fits(members, table)
  PROVE  /\ JObject(members) # NULL
         /\ ReadObject(JObject(members), table) = Success(Said(members, table))
         /\ DOMAIN Said(members, table) = DOMAIN table
<1> DEFINE met == {key \in DOMAIN table \cap DOMAIN members :
                     table[key].as = "value" \/ members[key] # JNull}
           refused == {key \in met : Verdict(members[key], table[key]) # "SUCCESS"}
<1>1. met = DOMAIN table /\ refused = {}
  BY DEF Fits
<1>2. ReadObject(JObject(members), table)
        = [result |-> "SUCCESS", value |-> [key \in met |-> Content(members[key], table[key])]]
  <2>1. JObject(members).object = members /\ Is("object", JObject(members))
    BY ObjectFits
  <2> QED BY <1>1, <2>1 DEF ReadObject
<1>3. JObject(members) # NULL
  BY RecordIsThere DEF JObject
<1> QED BY <1>1, <1>2, <1>3 DEF Success, Said

LEMMA TimestampReadsBack ==
  ASSUME NullIsNoRecord, NEW t
  PROVE  ReadTimestamp(AddTimestamp(t)) = Success([seconds |-> t.seconds, nanos |-> t.nanos])
<1> DEFINE table == [seconds |-> As("int"), nanos |-> As("int")]
           members == [seconds |-> JNumber(t.seconds), nanos |-> JNumber(t.nanos)]
<1>1. Fits(members, table) /\ Said(members, table) = [seconds |-> t.seconds, nanos |-> t.nanos]
  BY NumberFits DEF Fits, Said
<1>2. AddTimestamp(t) = JObject(members)
  BY DEF AddTimestamp
<1> HIDE DEF members, table
<1>3. ReadWhole(JObject(members), table, LAMBDA seen : seen) = Success(Said(members, table))
  BY <1>1, WholeIsRead DEF ReadWhole, Then, Success
<1> QED BY <1>1, <1>2, <1>3 DEF ReadTimestamp, table

-----------------------------------------------------------------------------
(* Names and anchors.                                                      *)

LEMMA NamesReadBack ==
  /\ \A type \in {0} \cup 2..8 : LedgerAnchorFromString(LedgerAnchorToString(type)) = type
  /\ \A type \in 0..3 : /\ CrossGroupFromString(CrossGroupToString(type)) = type
                        /\ type # CrossGroupNone
  /\ \A type \in 0..2 : /\ MemoKeyFromString(MemoKeyToString(type)) = type
                        /\ type # MemoKeyNone
  /\ \A type \in 1..7 : /\ AddressFromString(AddressToString(type)) = type
                        /\ type # AddressNone
<1>1. \A type \in {0} \cup 2..8 : LedgerAnchorFromString(LedgerAnchorToString(type)) = type
  <2> DEFINE table == LedgerAnchorNames
  <2>1. /\ DOMAIN table = 1..9
        /\ \A i \in 1..9, j \in 1..9 : table[i] = table[j] => i = j
        /\ \A i \in 1..9 : table[i] = Unknown <=> i = 2
    BY DEF LedgerAnchorNames, Unknown
  <2> HIDE DEF table
  <2> SUFFICES ASSUME NEW type \in {0} \cup 2..8
               PROVE  FromName(table, ToName(table, type), 0) = type
    BY DEF LedgerAnchorFromString, LedgerAnchorToString, table
  <2>2. type + 1 \in 1..9 /\ type + 1 # 2 /\ ToName(table, type) = table[type + 1]
    BY <2>1 DEF ToName
  <2>3. (CHOOSE i \in DOMAIN table : table[i] = table[type + 1]) = type + 1
    BY <2>1, <2>2
  <2> QED BY <2>1, <2>2, <2>3 DEF FromName
<1>2. \A type \in 0..3 : CrossGroupFromString(CrossGroupToString(type)) = type
  <2> DEFINE table == CrossGroupNames
  <2>1. /\ DOMAIN table = 1..5
        /\ \A i \in 1..5, j \in 1..5 : table[i] = table[j] => i = j
        /\ \A i \in 1..5 : table[i] # Unknown
    BY DEF CrossGroupNames, Unknown
  <2> HIDE DEF table
  <2> SUFFICES ASSUME NEW type \in 0..3
               PROVE  FromName(table, ToName(table, type), CrossGroupNone) = type
    BY DEF CrossGroupFromString, CrossGroupToString, table
  <2>2. type + 1 \in 1..5 /\ ToName(table, type) = table[type + 1]
    BY <2>1 DEF ToName
  <2>3. (CHOOSE i \in DOMAIN table : table[i] = table[type + 1]) = type + 1
    BY <2>1, <2>2
  <2> QED BY <2>1, <2>2, <2>3 DEF FromName
<1>3. \A type \in 0..2 : MemoKeyFromString(MemoKeyToString(type)) = type
  <2> DEFINE table == MemoKeyNames
  <2>1. /\ DOMAIN table = 1..4
        /\ \A i \in 1..4, j \in 1..4 : table[i] = table[j] => i = j
        /\ \A i \in 1..4 : table[i] # Unknown
    BY DEF MemoKeyNames, Unknown
  <2> HIDE DEF table
  <2> SUFFICES ASSUME NEW type \in 0..2
               PROVE  FromName(table, ToName(table, type), MemoKeyNone) = type
    BY DEF MemoKeyFromString, MemoKeyToString, table
  <2>2. type + 1 \in 1..4 /\ ToName(table, type) = table[type + 1]
    BY <2>1 DEF ToName
  <2>3. (CHOOSE i \in DOMAIN table : table[i] = table[type + 1]) = type + 1
    BY <2>1, <2>2
  <2> QED BY <2>1, <2>2, <2>3 DEF FromName
<1>4. \A type \in 1..7 : AddressFromString(AddressToString(type)) = type
  <2> DEFINE table == AddressNames
  <2>1. /\ DOMAIN table = 1..8
        /\ \A i \in 1..8, j \in 1..8 : table[i] = table[j] => i = j
        /\ \A i \in 1..8 : table[i] # Unknown
    BY DEF AddressNames, Unknown
  <2> HIDE DEF table
  <2> SUFFICES ASSUME NEW type \in 1..7
               PROVE  FromName(table, ToName(table, type), AddressNone) = type
    BY DEF AddressFromString, AddressToString, table
  <2>2. type + 1 \in 1..8 /\ ToName(table, type) = table[type + 1]
    BY <2>1 DEF ToName
  <2>3. (CHOOSE i \in DOMAIN table : table[i] = table[type + 1]) = type + 1
    BY <2>1, <2>2
  <2> QED BY <2>1, <2>2, <2>3 DEF FromName
<1> QED BY <1>1, <1>2, <1>3, <1>4 DEF CrossGroupNone, MemoKeyNone, AddressNone

LEMMA TransactionNamesReadBack ==
  \A type \in LaidOut :
    /\ TransactionFromString(TransactionToString(type)) = type
    /\ type # "none"
<1> DEFINE table == TransactionNames
<1>1. /\ LaidOut \subseteq DOMAIN table /\ "none" \notin LaidOut
      /\ \A i \in DOMAIN table, j \in DOMAIN table : table[i] = table[j] => i = j
  BY DEF TransactionNames, LaidOut
<1> HIDE DEF table
<1>2. \A type \in LaidOut : (CHOOSE i \in DOMAIN table : table[i] = table[type]) = type
  BY <1>1
<1>3. \A type \in LaidOut : type \in DOMAIN table
  BY <1>1
<1> QED BY <1>1, <1>2, <1>3 DEF TransactionFromString, TransactionToString, table

LEMMA NameIsRead ==
  ASSUME NEW name
  PROVE  /\ AddEnumString(name) # JNull
         /\ Verdict(AddEnumString(name), As("string")) = "SUCCESS"
         /\ Name(Content(AddEnumString(name), As("string"))) = name
<1>1. Is("name", NameText(name)) /\ NameText(name).name = name
  BY DEF Is, NameText
<1> QED BY <1>1, StringFits DEF AddEnumString, Name

\* What an anchor of the runtime form is made of.
HieroForm(id) ==
  id = [transactionValidStart |-> [seconds |-> id.transactionValidStart.seconds,
                                   nanos |-> id.transactionValidStart.nanos],
        accountID |-> [shardNum |-> id.accountID.shardNum, realmNum |-> id.accountID.realmNum,
                       accountNum |-> id.accountID.accountNum]]

AnchorForm(anchor) ==
  /\ anchor.type \in Int
  /\ IF anchor.type = Hiero
     THEN /\ anchor = [type |-> Hiero, hiero_transaction_id |-> anchor.hiero_transaction_id]
          /\ HieroForm(anchor.hiero_transaction_id)
     ELSE anchor = [type |-> anchor.type, id |-> anchor.id] /\ anchor.id \in Nat

\* One that says nothing it does not mean, and has a name.
Spoken(anchor) ==
  /\ anchor.type # Unspecified => LedgerAnchorToString(anchor.type) # Unknown
  /\ anchor.type = Unspecified => anchor = NoAnchor

LEMMA SpokenTypes ==
  ASSUME NEW anchor, AnchorForm(anchor), Spoken(anchor)
  PROVE  anchor.type \in {0} \cup 2..8
<1>1. CASE anchor.type = Unspecified
  BY <1>1 DEF Unspecified
<1>2. CASE anchor.type # Unspecified
  <2> DEFINE table == LedgerAnchorNames
  <2>1. DOMAIN table = 1..9 /\ table[2] = Unknown
    BY DEF LedgerAnchorNames
  <2> HIDE DEF table
  <2>2. ToName(table, anchor.type) # Unknown
    BY <1>2 DEF Spoken, LedgerAnchorToString, table
  <2>3. anchor.type + 1 \in 1..9 /\ anchor.type + 1 # 2
    BY <2>1, <2>2 DEF ToName
  <2> QED BY <2>3 DEF AnchorForm
<1> QED BY <1>1, <1>2

LEMMA AccountReadsBack ==
  ASSUME NullIsNoRecord, NEW id
  PROVE  LET written == JObject([shard_num |-> JNumber(id.shardNum),
                                 realm_num |-> JNumber(id.realmNum),
                                 account_num |-> JNumber(id.accountNum)])
         IN  ReadAccountId(written) = Success([shardNum |-> id.shardNum, realmNum |-> id.realmNum,
                                               accountNum |-> id.accountNum])
<1> DEFINE table == [shard_num |-> As("int"), realm_num |-> As("int"), account_num |-> As("int")]
           members == [shard_num |-> JNumber(id.shardNum), realm_num |-> JNumber(id.realmNum),
                       account_num |-> JNumber(id.accountNum)]
           said == Said(members, table)
<1>1. /\ Fits(members, table)
      /\ said.shard_num = id.shardNum /\ said.realm_num = id.realmNum
      /\ said.account_num = id.accountNum
  BY NumberFits DEF Fits, Said
<1> HIDE DEF members, table
<1>2. ReadWhole(JObject(members), table,
                LAMBDA seen : [shardNum |-> seen.shard_num, realmNum |-> seen.realm_num,
                               accountNum |-> seen.account_num])
        = Success([shardNum |-> said.shard_num, realmNum |-> said.realm_num,
                   accountNum |-> said.account_num])
  <2>1. /\ JObject(members) # NULL /\ ReadObject(JObject(members), table) = Success(said)
        /\ DOMAIN said = DOMAIN table
    BY <1>1, WholeIsRead
  <2> HIDE DEF said
  <2> QED BY <2>1 DEF ReadWhole, Then, Success
<1> HIDE DEF said
<1> QED BY <1>1, <1>2 DEF ReadAccountId, table, members

LEMMA HieroReadsBack ==
  ASSUME NullIsNoRecord, NEW id, HieroForm(id)
  PROVE  ReadHieroTransactionId(HieroId(id)) = Success(id)
<1> DEFINE table == [transaction_valid_start |-> As("value"), account_id |-> As("value")]
           start == AddTimestamp(id.transactionValidStart)
           account == JObject([shard_num |-> JNumber(id.accountID.shardNum),
                               realm_num |-> JNumber(id.accountID.realmNum),
                               account_num |-> JNumber(id.accountID.accountNum)])
           members == [transaction_valid_start |-> start, account_id |-> account]
           said == Said(members, table)
           s == id.transactionValidStart
           a == id.accountID
<1>1. start # JNull /\ account # JNull
  BY ObjectFits DEF AddTimestamp
<1>2. ReadTimestamp(start) = Success([seconds |-> s.seconds, nanos |-> s.nanos])
  BY TimestampReadsBack
<1>3. ReadAccountId(account) = Success([shardNum |-> a.shardNum, realmNum |-> a.realmNum,
                                        accountNum |-> a.accountNum])
  BY AccountReadsBack
<1>4. HieroId(id) = JObject(members)
  BY DEF HieroId
<1> HIDE DEF start, account
<1>5. /\ Fits(members, table)
      /\ said.transaction_valid_start = start /\ said.account_id = account
  BY <1>1, ValueFits DEF Fits, Said
<1> HIDE DEF members, table
<1>6. ReadWhole(JObject(members), table, LAMBDA seen : seen) = Success(said)
  <2>1. /\ JObject(members) # NULL /\ ReadObject(JObject(members), table) = Success(said)
        /\ DOMAIN said = DOMAIN table
    BY <1>5, WholeIsRead
  <2> HIDE DEF said
  <2> QED BY <2>1 DEF ReadWhole, Then, Success
<1> HIDE DEF said
<1> DEFINE s1 == [seconds |-> s.seconds, nanos |-> s.nanos]
           a1 == [shardNum |-> a.shardNum, realmNum |-> a.realmNum, accountNum |-> a.accountNum]
<1>7. id = [transactionValidStart |-> s1, accountID |-> a1]
  BY DEF HieroForm
<1>8. ReadTimestamp(start) = Success(s1) /\ ReadAccountId(account) = Success(a1)
  BY <1>2, <1>3
<1> HIDE DEF s1, a1, s, a
<1>9. ReadHieroTransactionId(JObject(members))
        = Success([transactionValidStart |-> s1, accountID |-> a1])
  <2>1. ReadHieroTransactionId(JObject(members))
          = Then(ReadWhole(JObject(members), table, LAMBDA seen : seen), LAMBDA seen :
              Then(ReadTimestamp(seen.transaction_valid_start), LAMBDA st :
                Then(ReadAccountId(seen.account_id), LAMBDA ac :
                  Success([transactionValidStart |-> st, accountID |-> ac]))))
    BY DEF ReadHieroTransactionId, table
  <2> QED BY <1>5, <1>6, <1>8, <2>1 DEF Then, Success
<1> QED BY <1>4, <1>7, <1>9

LEMMA Merged ==
  ASSUME NEW f, NEW g
  PROVE  DOMAIN Together(f, g) = DOMAIN f \cup DOMAIN g
BY DEF Together

LEMMA MergedAt ==
  ASSUME NEW f, NEW g, NEW key
  PROVE  /\ key \in DOMAIN f => Together(f, g)[key] = f[key]
         /\ key \in DOMAIN g /\ key \notin DOMAIN f => Together(f, g)[key] = g[key]
BY DEF Together

\* The entries of a table that the members meet, and what these say.
Met(members, table) ==
  {key \in DOMAIN table \cap DOMAIN members : table[key].as = "value" \/ members[key] # JNull}

Seen(members, table) == [key \in Met(members, table) |-> Content(members[key], table[key])]

LEMMA ObjectIsRead ==
  ASSUME NullIsNoRecord, NEW members, NEW table,
         \A key \in Met(members, table) : Verdict(members[key], table[key]) = "SUCCESS"
  PROVE  /\ JObject(members) # NULL
         /\ ReadObject(JObject(members), table) = Success(Seen(members, table))
         /\ DOMAIN Seen(members, table) = Met(members, table)
<1> DEFINE met == Met(members, table)
           refused == {key \in met : Verdict(members[key], table[key]) # "SUCCESS"}
<1>1. refused = {}
  OBVIOUS
<1>2. ReadObject(JObject(members), table)
        = [result |-> "SUCCESS", value |-> [key \in met |-> Content(members[key], table[key])]]
  <2>1. JObject(members).object = members /\ Is("object", JObject(members))
    BY ObjectFits
  <2> QED BY <1>1, <2>1 DEF ReadObject, Met
<1>3. JObject(members) # NULL
  BY RecordIsThere DEF JObject
<1> QED BY <1>2, <1>3 DEF Success, Seen

LEMMA AnchorReadsBack ==
  ASSUME NullIsNoRecord, NEW anchor, AnchorForm(anchor), Spoken(anchor)
  PROVE  /\ ReadLedgerAnchor(AddLedgerAnchor(anchor)) = Success(anchor)
         /\ AddLedgerAnchor(anchor) # JNull
<1> DEFINE table == [type |-> As("string"), hiero_transaction_id |-> As("value"),
                     id |-> As("uint")]
           name == AddEnumString(LedgerAnchorToString(anchor.type))
           type == [type |-> name]
           hiero == HieroId(anchor.hiero_transaction_id)
           number == JNumber(anchor.id)
           with1 == [hiero_transaction_id |-> hiero]
           with2 == [id |-> number]
           members == CASE anchor.type = Unspecified -> type
                        [] anchor.type = Hiero -> Together(type, with1)
                        [] OTHER -> Together(type, with2)
           seen == Seen(members, table)
<1>1. anchor # NULL
  <2>1. CASE anchor.type = Hiero
    BY <2>1, RecordIsThere DEF AnchorForm
  <2>2. CASE anchor.type # Hiero
    BY <2>2, RecordIsThere DEF AnchorForm
  <2> QED BY <2>1, <2>2
<1>2. /\ anchor.type \in {0} \cup 2..8
      /\ LedgerAnchorFromString(LedgerAnchorToString(anchor.type)) = anchor.type
  BY SpokenTypes, NamesReadBack
<1>3. Hiero # Unspecified
  BY DEF Hiero, Unspecified
<1>4. AddLedgerAnchor(anchor) = JObject(members)
  BY <1>1, <1>3 DEF AddLedgerAnchor
<1>5. /\ name # JNull /\ Verdict(name, As("string")) = "SUCCESS"
      /\ Name(Content(name, As("string"))) = LedgerAnchorToString(anchor.type)
  BY NameIsRead
<1>6. /\ table.type = As("string") /\ table.hiero_transaction_id = As("value")
      /\ table.id = As("uint") /\ DOMAIN table = {"type", "hiero_transaction_id", "id"}
  OBVIOUS
<1>7. /\ DOMAIN type = {"type"} /\ type["type"] = name
      /\ DOMAIN with1 = {"hiero_transaction_id"} /\ with1["hiero_transaction_id"] = hiero
      /\ DOMAIN with2 = {"id"} /\ with2["id"] = number
  OBVIOUS
<1> HIDE DEF type, with1, with2, name
<1>8. /\ DOMAIN Together(type, with1) = {"type", "hiero_transaction_id"}
      /\ Together(type, with1)["type"] = name /\ Together(type, with1)["hiero_transaction_id"] = hiero
      /\ DOMAIN Together(type, with2) = {"type", "id"}
      /\ Together(type, with2)["type"] = name /\ Together(type, with2)["id"] = number
  <2>1. /\ DOMAIN Together(type, with1) = DOMAIN type \cup DOMAIN with1
        /\ DOMAIN Together(type, with2) = DOMAIN type \cup DOMAIN with2
    BY Merged
  <2>2. Together(type, with1)["type"] = name /\ Together(type, with2)["type"] = name
    BY <1>7, MergedAt
  <2>3. /\ "hiero_transaction_id" \in DOMAIN with1 /\ "hiero_transaction_id" \notin DOMAIN type
        /\ "id" \in DOMAIN with2 /\ "id" \notin DOMAIN type
    BY <1>7
  <2>4. Together(type, with1)["hiero_transaction_id"] = hiero
    BY <1>7, <2>3, MergedAt
  <2>5. Together(type, with2)["id"] = number
    BY <1>7, <2>3, MergedAt
  <2> QED BY <1>7, <2>1, <2>2, <2>4, <2>5
<1>9. CASE anchor.type = Unspecified
  <2>1. members = type
    BY <1>3, <1>9
  <2> HIDE DEF members, table
  <2>2. Met(members, table) = {"type"}
    BY <1>5, <1>6, <1>7, <2>1 DEF Met
  <2>3. /\ ReadObject(JObject(members), table) = Success(seen) /\ JObject(members) # NULL
        /\ DOMAIN seen = {"type"}
    BY <1>5, <1>6, <1>7, <2>1, <2>2, ObjectIsRead
  <2>4. seen.type = Content(name, As("string"))
    BY <1>6, <1>7, <2>1, <2>2 DEF Seen
  <2> HIDE DEF seen
  <2>5. "type" \in DOMAIN seen /\ LedgerAnchorFromString(Name(seen.type)) = Unspecified
    BY <1>2, <1>5, <1>9, <2>3, <2>4
  <2>6. ReadLedgerAnchor(JObject(members)) = Success(NoAnchor)
    BY <1>3, <2>3, <2>5 DEF ReadLedgerAnchor, Then, Success, table
  <2> QED BY <1>4, <1>9, <2>6, ObjectFits DEF Spoken
<1>10. CASE anchor.type = Hiero
  <2>1. members = Together(type, with1)
    BY <1>3, <1>10
  <2> HIDE DEF members, table
  <2>2. hiero # JNull
    BY ObjectFits DEF HieroId
  <2> HIDE DEF hiero
  <2>3. Met(members, table) = {"type", "hiero_transaction_id"}
    BY <1>5, <1>6, <1>8, <2>1, <2>2 DEF Met
  <2>4. /\ ReadObject(JObject(members), table) = Success(seen) /\ JObject(members) # NULL
        /\ DOMAIN seen = {"type", "hiero_transaction_id"}
    BY <1>5, <1>6, <1>8, <2>1, <2>3, ObjectIsRead, ValueFits
  <2>5. seen.type = Content(name, As("string")) /\ seen.hiero_transaction_id = hiero
    BY <1>6, <1>8, <2>1, <2>3, ValueFits DEF Seen
  <2> HIDE DEF seen
  <2>6. Handle(seen, "hiero_transaction_id") = hiero
    BY <2>4, <2>5 DEF Handle
  <2>7. ReadHieroTransactionId(hiero) = Success(anchor.hiero_transaction_id)
    BY <1>10, HieroReadsBack DEF AnchorForm, hiero
  <2>8. ReadLedgerAnchor(JObject(members))
          = Success([type |-> Hiero, hiero_transaction_id |-> anchor.hiero_transaction_id])
    BY <1>2, <1>3, <1>5, <1>10, <2>4, <2>5, <2>6, <2>7
       DEF ReadLedgerAnchor, Then, Success, table
  <2> QED BY <1>4, <1>10, <2>8, ObjectFits DEF AnchorForm
<1>11. CASE anchor.type # Unspecified /\ anchor.type # Hiero
  <2>1. members = Together(type, with2)
    BY <1>11
  <2> HIDE DEF members, table
  <2>2. /\ number # JNull /\ Verdict(number, As("uint")) = "SUCCESS"
        /\ Content(number, As("uint")) = anchor.id
    BY <1>11, NumberFits DEF AnchorForm
  <2> HIDE DEF number
  <2>3. Met(members, table) = {"type", "id"}
    BY <1>5, <1>6, <1>8, <2>1, <2>2 DEF Met
  <2>4. /\ ReadObject(JObject(members), table) = Success(seen) /\ JObject(members) # NULL
        /\ DOMAIN seen = {"type", "id"}
    BY <1>5, <1>6, <1>8, <2>1, <2>2, <2>3, ObjectIsRead
  <2>5. seen.type = Content(name, As("string")) /\ seen.id = anchor.id
    BY <1>6, <1>8, <2>1, <2>2, <2>3 DEF Seen
  <2> HIDE DEF seen
  <2>6. ReadLedgerAnchor(JObject(members)) = Success([type |-> anchor.type, id |-> anchor.id])
    BY <1>2, <1>5, <1>11, <2>4, <2>5 DEF ReadLedgerAnchor, Then, Success, table
  <2> QED BY <1>4, <1>11, <2>6, ObjectFits DEF AnchorForm
<1> QED BY <1>9, <1>10, <1>11

-----------------------------------------------------------------------------
(* The detail of a transaction.                                            *)

TransferForm(d) ==
  /\ d = [sender_pubkey |-> d.sender_pubkey, recipient_pubkey |-> d.recipient_pubkey,
          amount |-> d.amount, coin_community_uuid |-> d.coin_community_uuid]
  /\ d.coin_community_uuid # NULL

RegistrationForm(d) ==
  d = [user_public_key |-> d.user_public_key, name_hash |-> d.name_hash,
       account_public_key |-> d.account_public_key]

RootForm(d) ==
  d = [public_key |-> d.public_key, gmw_public_key |-> d.gmw_public_key,
       auf_public_key |-> d.auf_public_key]

LEMMA TransferReadsBack ==
  ASSUME NullIsNoRecord, NEW d, TransferForm(d)
  PROVE  ReadTransfer(AddTransfer(d).transfer) = Success(d)
<1> DEFINE table == [sender_pubkey |-> Hex(KeySize), recipient_pubkey |-> Hex(KeySize),
                     amount |-> As("int"), coin_community_uuid |-> As("uuid")]
           members == [sender_pubkey |-> AddHex(KeySize, d.sender_pubkey),
                       recipient_pubkey |-> AddHex(KeySize, d.recipient_pubkey),
                       amount |-> JNumber(d.amount),
                       coin_community_uuid |-> AddUuid(d.coin_community_uuid)]
<1>1. /\ AddHex(KeySize, d.sender_pubkey) # JNull /\ AddHex(KeySize, d.recipient_pubkey) # JNull
      /\ Verdict(AddHex(KeySize, d.sender_pubkey), Hex(KeySize)) = "SUCCESS"
      /\ Verdict(AddHex(KeySize, d.recipient_pubkey), Hex(KeySize)) = "SUCCESS"
      /\ Content(AddHex(KeySize, d.sender_pubkey), Hex(KeySize)) = d.sender_pubkey
      /\ Content(AddHex(KeySize, d.recipient_pubkey), Hex(KeySize)) = d.recipient_pubkey
  BY HexFits
<1>2. /\ JNumber(d.amount) # JNull /\ Verdict(JNumber(d.amount), As("int")) = "SUCCESS"
      /\ Content(JNumber(d.amount), As("int")) = d.amount
  BY NumberFits
<1>3. /\ AddUuid(d.coin_community_uuid) # JNull
      /\ Verdict(AddUuid(d.coin_community_uuid), As("uuid")) = "SUCCESS"
      /\ Content(AddUuid(d.coin_community_uuid), As("uuid")) = d.coin_community_uuid
  BY UuidFits DEF TransferForm
<1>4. Fits(members, table)
  BY <1>1, <1>2, <1>3 DEF Fits
<1>5. Said(members, table) = d
  BY <1>1, <1>2, <1>3 DEF Said, TransferForm
<1>6. AddTransfer(d).transfer = JObject(members)
  BY DEF AddTransfer
<1> HIDE DEF members, table
<1>7. ReadWhole(JObject(members), table, LAMBDA seen : seen) = Success(d)
  BY <1>4, <1>5, WholeIsRead DEF ReadWhole, Then, Success
<1> QED BY <1>6, <1>7 DEF ReadTransfer, table

LEMMA RegistrationReadsBack ==
  ASSUME NullIsNoRecord, NEW d, RegistrationForm(d)
  PROVE  ReadRegisterAddress(AddRegisterAddress(d).register_address) = Success(d)
<1> DEFINE table == [user_public_key |-> Hex(KeySize), name_hash |-> Hex(HashSize),
                     account_public_key |-> Hex(KeySize)]
           members == [user_public_key |-> AddHex(KeySize, d.user_public_key),
                       name_hash |-> AddHex(HashSize, d.name_hash),
                       account_public_key |-> AddHex(KeySize, d.account_public_key)]
<1>1. /\ AddHex(KeySize, d.user_public_key) # JNull /\ AddHex(HashSize, d.name_hash) # JNull
      /\ AddHex(KeySize, d.account_public_key) # JNull
      /\ Verdict(AddHex(KeySize, d.user_public_key), Hex(KeySize)) = "SUCCESS"
      /\ Verdict(AddHex(HashSize, d.name_hash), Hex(HashSize)) = "SUCCESS"
      /\ Verdict(AddHex(KeySize, d.account_public_key), Hex(KeySize)) = "SUCCESS"
      /\ Content(AddHex(KeySize, d.user_public_key), Hex(KeySize)) = d.user_public_key
      /\ Content(AddHex(HashSize, d.name_hash), Hex(HashSize)) = d.name_hash
      /\ Content(AddHex(KeySize, d.account_public_key), Hex(KeySize)) = d.account_public_key
  BY HexFits
<1>2. Fits(members, table)
  BY <1>1 DEF Fits
<1>3. Said(members, table) = d
  BY <1>1 DEF Said, RegistrationForm
<1>4. AddRegisterAddress(d).register_address = JObject(members)
  BY DEF AddRegisterAddress
<1> HIDE DEF members, table
<1>5. ReadWhole(JObject(members), table, LAMBDA seen : seen) = Success(d)
  BY <1>2, <1>3, WholeIsRead DEF ReadWhole, Then, Success
<1> QED BY <1>4, <1>5 DEF ReadRegisterAddress, table

LEMMA RootReadsBack ==
  ASSUME NullIsNoRecord, NEW d, RootForm(d)
  PROVE  ReadCommunityRoot(AddCommunityRoot(d).community_root) = Success(d)
<1> DEFINE table == [public_key |-> Hex(KeySize), gmw_public_key |-> Hex(KeySize),
                     auf_public_key |-> Hex(KeySize)]
           members == [public_key |-> AddHex(KeySize, d.public_key),
                       gmw_public_key |-> AddHex(KeySize, d.gmw_public_key),
                       auf_public_key |-> AddHex(KeySize, d.auf_public_key)]
<1>1. /\ AddHex(KeySize, d.public_key) # JNull /\ AddHex(KeySize, d.gmw_public_key) # JNull
      /\ AddHex(KeySize, d.auf_public_key) # JNull
      /\ Verdict(AddHex(KeySize, d.public_key), Hex(KeySize)) = "SUCCESS"
      /\ Verdict(AddHex(KeySize, d.gmw_public_key), Hex(KeySize)) = "SUCCESS"
      /\ Verdict(AddHex(KeySize, d.auf_public_key), Hex(KeySize)) = "SUCCESS"
      /\ Content(AddHex(KeySize, d.public_key), Hex(KeySize)) = d.public_key
      /\ Content(AddHex(KeySize, d.gmw_public_key), Hex(KeySize)) = d.gmw_public_key
      /\ Content(AddHex(KeySize, d.auf_public_key), Hex(KeySize)) = d.auf_public_key
  BY HexFits
<1>2. Fits(members, table)
  BY <1>1 DEF Fits
<1>3. Said(members, table) = d
  BY <1>1 DEF Said, RootForm
<1>4. AddCommunityRoot(d).community_root = JObject(members)
  BY DEF AddCommunityRoot
<1> HIDE DEF members, table
<1>5. ReadWhole(JObject(members), table, LAMBDA seen : seen) = Success(d)
  BY <1>2, <1>3, WholeIsRead DEF ReadWhole, Then, Success
<1> QED BY <1>4, <1>5 DEF ReadCommunityRoot, table

-----------------------------------------------------------------------------
(* The lists of a transaction.                                             *)

Listed(list) == Len(list) \in Nat /\ list = [i \in 1..Len(list) |-> list[i]]

BalanceForm(b) ==
  /\ b = [pubkey |-> b.pubkey, balance |-> b.balance, community_uuid |-> b.community_uuid]
  /\ b.community_uuid # NULL

MemoForm(m) == m = [type |-> m.type, memo |-> m.memo] /\ IsMemoryBlock(m.memo)

SignatureForm(p) == p = [public_key |-> p.public_key, signature |-> p.signature]

LEMMA BalanceReadsBack ==
  ASSUME NullIsNoRecord, NEW b, BalanceForm(b)
  PROVE  ReadBalance(AddBalance(b)) = Success(b)
<1> DEFINE table == [pubkey |-> Hex(KeySize), balance |-> As("int"), community_uuid |-> As("uuid")]
           members == [pubkey |-> AddHex(KeySize, b.pubkey), balance |-> JNumber(b.balance),
                       community_uuid |-> AddUuid(b.community_uuid)]
<1>1. /\ AddHex(KeySize, b.pubkey) # JNull
      /\ Verdict(AddHex(KeySize, b.pubkey), Hex(KeySize)) = "SUCCESS"
      /\ Content(AddHex(KeySize, b.pubkey), Hex(KeySize)) = b.pubkey
  BY HexFits
<1>2. /\ JNumber(b.balance) # JNull /\ Verdict(JNumber(b.balance), As("int")) = "SUCCESS"
      /\ Content(JNumber(b.balance), As("int")) = b.balance
  BY NumberFits
<1>3. /\ AddUuid(b.community_uuid) # JNull
      /\ Verdict(AddUuid(b.community_uuid), As("uuid")) = "SUCCESS"
      /\ Content(AddUuid(b.community_uuid), As("uuid")) = b.community_uuid
  BY UuidFits DEF BalanceForm
<1>4. Fits(members, table)
  BY <1>1, <1>2, <1>3 DEF Fits
<1>5. Said(members, table) = b
  BY <1>1, <1>2, <1>3 DEF Said, BalanceForm
<1>6. AddBalance(b) = JObject(members)
  BY DEF AddBalance
<1> HIDE DEF members, table
<1>7. ReadWhole(JObject(members), table, LAMBDA seen : seen) = Success(b)
  BY <1>4, <1>5, WholeIsRead DEF ReadWhole, Then, Success
<1> QED BY <1>6, <1>7 DEF ReadBalance, table

LEMMA SignatureReadsBack ==
  ASSUME NullIsNoRecord, NEW p, SignatureForm(p)
  PROVE  ReadSignature(AddSignature(p)) = Success(p)
<1> DEFINE table == [public_key |-> Hex(KeySize), signature |-> Hex(SignatureSize)]
           members == [public_key |-> AddHex(KeySize, p.public_key),
                       signature |-> AddHex(SignatureSize, p.signature)]
<1>1. /\ AddHex(KeySize, p.public_key) # JNull /\ AddHex(SignatureSize, p.signature) # JNull
      /\ Verdict(AddHex(KeySize, p.public_key), Hex(KeySize)) = "SUCCESS"
      /\ Verdict(AddHex(SignatureSize, p.signature), Hex(SignatureSize)) = "SUCCESS"
      /\ Content(AddHex(KeySize, p.public_key), Hex(KeySize)) = p.public_key
      /\ Content(AddHex(SignatureSize, p.signature), Hex(SignatureSize)) = p.signature
  BY HexFits
<1>2. Fits(members, table)
  BY <1>1 DEF Fits
<1>3. Said(members, table) = p
  BY <1>1 DEF Said, SignatureForm
<1>4. AddSignature(p) = JObject(members)
  BY DEF AddSignature
<1> HIDE DEF members, table
<1>5. ReadWhole(JObject(members), table, LAMBDA seen : seen) = Success(p)
  BY <1>2, <1>3, WholeIsRead DEF ReadWhole, Then, Success
<1> QED BY <1>4, <1>5 DEF ReadSignature, table

LEMMA BlockReadsBack ==
  ASSUME NEW block, IsMemoryBlock(block)
  PROVE  /\ ReadBase64Block(Base64Text(block)) = Success(block)
         /\ SpelledBytes(Base64Text(block)) = block
         /\ Is("base64", Base64Text(block)) /\ Base64Text(block).size = block.size
         /\ block.size \in Nat /\ block.size = 0 => block = NoBytes
<1>1. /\ Is("base64", Base64Text(block)) /\ Base64Text(block).size = block.size
      /\ Base64Text(block).base64 = block.data
  BY DEF Base64Text, Is
<1>2. CASE block = NoBytes
  <2>1. block.size = 0
    BY <1>2 DEF NoBytes, BytesOf
  <2> QED BY <1>1, <1>2, <2>1 DEF ReadBase64Block, SpelledBytes
<1>3. CASE block = BytesOf(block.size, block.data) /\ block.size \in 1..MaxAlloc
  <2>1. block.size # 0 /\ block.size \in Nat
    BY <1>3, MaxAllocAssumption
  <2> QED BY <1>1, <1>3, <2>1 DEF ReadBase64Block, SpelledBytes
<1> QED BY <1>2, <1>3 DEF IsMemoryBlock

\* A memo is read, unless it has no bytes and is refused for that.
LEMMA MemoReadsBack ==
  ASSUME NullIsNoRecord, NEW m, MemoForm(m), m.type \in 0..2, NEW emptyMemo
  PROVE  LET named == [type |-> m.type, memo |-> Base64Text(m.memo)]
         IN  /\ ReadMemo(AddMemo(m)) = Success(named)
             /\ \/ DeserializeMemo(named, emptyMemo) = Success(m)
                \/ /\ m.memo = NoBytes /\ emptyMemo # "SUCCESS"
                   /\ DeserializeMemo(named, emptyMemo) = Failure(emptyMemo)
<1> DEFINE name == AddEnumString(MemoKeyToString(m.type))
           text == Base64Text(m.memo)
           table == [type |-> As("string"), memo |-> As("string")]
           members == [type |-> name, memo |-> AddBase64(m.memo)]
           said == Said(members, table)
           named == [type |-> m.type, memo |-> text]
<1>1. /\ name # JNull /\ Verdict(name, As("string")) = "SUCCESS"
      /\ Name(Content(name, As("string"))) = MemoKeyToString(m.type)
  BY NameIsRead
<1>2. MemoKeyFromString(MemoKeyToString(m.type)) = m.type /\ m.type # MemoKeyNone
  BY NamesReadBack
<1>3. /\ AddBase64(m.memo) # JNull /\ Verdict(AddBase64(m.memo), As("string")) = "SUCCESS"
      /\ Content(AddBase64(m.memo), As("string")) = text
  BY StringFits DEF AddBase64
<1>4. AddMemo(m) = JObject(members)
  BY DEF AddMemo
<1>5. /\ Is("base64", text) /\ SpelledBytes(text) = m.memo
      /\ text.size = 0 => m.memo = NoBytes
  BY BlockReadsBack DEF MemoForm
<1> HIDE DEF name, text
<1>6. /\ Fits(members, table)
      /\ said.type = Content(name, As("string")) /\ said.memo = text
  BY <1>1, <1>3 DEF Fits, Said
<1> HIDE DEF members, table
<1>7. ReadWhole(JObject(members), table, LAMBDA seen : seen) = Success(said)
  BY <1>6, WholeIsRead DEF ReadWhole, Then, Success
<1> HIDE DEF said
<1>8. ReadMemo(JObject(members)) = Success(named)
  <2>1. ReadMemo(JObject(members))
          = Then(ReadWhole(JObject(members), table, LAMBDA seen : seen), LAMBDA seen :
              IF MemoKeyFromString(Name(seen.type)) = MemoKeyNone THEN Failure("ENUM_UNKNOWN")
              ELSE Success([type |-> MemoKeyFromString(Name(seen.type)), memo |-> seen.memo]))
    BY DEF ReadMemo, table
  <2>2. MemoKeyFromString(Name(said.type)) = m.type
    BY <1>1, <1>2, <1>6
  <2> QED BY <1>2, <1>6, <1>7, <2>1, <2>2 DEF Then, Success
<1>9. \/ DeserializeMemo(named, emptyMemo) = Success(m)
      \/ /\ m.memo = NoBytes /\ emptyMemo # "SUCCESS"
         /\ DeserializeMemo(named, emptyMemo) = Failure(emptyMemo)
  <2>1. named.type = m.type /\ named.memo = text
    OBVIOUS
  <2> HIDE DEF named
  <2>2. CASE text.size = 0 /\ emptyMemo # "SUCCESS"
    BY <1>5, <2>1, <2>2 DEF DeserializeMemo
  <2>3. CASE ~(text.size = 0 /\ emptyMemo # "SUCCESS")
    <3>1. DeserializeMemo(named, emptyMemo) = Success([type |-> m.type, memo |-> m.memo])
      BY <1>5, <2>1, <2>3 DEF DeserializeMemo
    <3> QED BY <3>1 DEF MemoForm
  <2> QED BY <2>2, <2>3
<1> QED BY <1>4, <1>8, <1>9 DEF text

LEMMA BalancesReadBack ==
  ASSUME NullIsNoRecord, NEW list, Listed(list), \A i \in 1..Len(list) : BalanceForm(list[i])
  PROVE  LET written == [i \in DOMAIN list |-> AddBalance(list[i])]
         IN  ReadAccountBalances(written) = Success(list) /\ Len(written) = Len(list)
<1> DEFINE n == Len(list)
           written == [i \in DOMAIN list |-> AddBalance(list[i])]
           made == [i \in DOMAIN written |-> ReadBalance(written[i])]
           failed == {i \in DOMAIN written : made[i].result # "SUCCESS"}
           values == [i \in DOMAIN written |-> made[i].value]
<1>1. n \in Nat /\ DOMAIN list = 1..n /\ list = [i \in 1..n |-> list[i]]
  BY DEF Listed
<1>2. \A i \in 1..n : BalanceForm(list[i])
  OBVIOUS
<1> HIDE DEF n
<1>3. DOMAIN written = 1..n /\ Len(written) = n
  BY <1>1
<1>4. \A i \in 1..n : made[i] = Success(list[i])
  BY <1>1, <1>2, BalanceReadsBack
<1>5. ReadAccountBalances(written)
        = IF failed = {} THEN Success(values)
          ELSE Failure(made[CHOOSE i \in failed : \A j \in failed : i <= j].result)
  BY DEF ReadAccountBalances, Every
<1> HIDE DEF written, made
<1>6. \A i \in 1..n : made[i].result = "SUCCESS" /\ made[i].value = list[i]
  <2> TAKE i \in 1..n
  <2>1. made[i] = Success(list[i])
    BY <1>4
  <2> QED BY <2>1 DEF Success
<1>7. failed = {} /\ values = list
  BY ONLY <1>1, <1>3, <1>6
<1> HIDE DEF failed, values
<1> QED BY <1>3, <1>5, <1>7 DEF n, written

LEMMA SignaturesReadBack ==
  ASSUME NullIsNoRecord, NEW list, Listed(list), \A i \in 1..Len(list) : SignatureForm(list[i])
  PROVE  LET written == [i \in DOMAIN list |-> AddSignature(list[i])]
         IN  ReadSignaturePairs(written) = Success(list) /\ Len(written) = Len(list)
<1> DEFINE n == Len(list)
           written == [i \in DOMAIN list |-> AddSignature(list[i])]
           made == [i \in DOMAIN written |-> ReadSignature(written[i])]
           failed == {i \in DOMAIN written : made[i].result # "SUCCESS"}
           values == [i \in DOMAIN written |-> made[i].value]
<1>1. n \in Nat /\ DOMAIN list = 1..n /\ list = [i \in 1..n |-> list[i]]
  BY DEF Listed
<1>2. \A i \in 1..n : SignatureForm(list[i])
  OBVIOUS
<1> HIDE DEF n
<1>3. DOMAIN written = 1..n /\ Len(written) = n
  BY <1>1
<1>4. \A i \in 1..n : made[i] = Success(list[i])
  BY <1>1, <1>2, SignatureReadsBack
<1>5. ReadSignaturePairs(written)
        = IF failed = {} THEN Success(values)
          ELSE Failure(made[CHOOSE i \in failed : \A j \in failed : i <= j].result)
  BY DEF ReadSignaturePairs, Every
<1> HIDE DEF written, made
<1>6. \A i \in 1..n : made[i].result = "SUCCESS" /\ made[i].value = list[i]
  <2> TAKE i \in 1..n
  <2>1. made[i] = Success(list[i])
    BY <1>4
  <2> QED BY <2>1 DEF Success
<1>7. failed = {} /\ values = list
  BY ONLY <1>1, <1>3, <1>6
<1> HIDE DEF failed, values
<1> QED BY <1>3, <1>5, <1>7 DEF n, written

\* The memos as the reader holds them between its two walks.
NamedMemos(list) == [i \in DOMAIN list |-> [type |-> list[i].type, memo |-> Base64Text(list[i].memo)]]

LEMMA MemosReadBack ==
  ASSUME NullIsNoRecord, NEW list, Listed(list),
         \A i \in 1..Len(list) : MemoForm(list[i]) /\ list[i].type \in 0..2,
         NEW emptyMemo
  PROVE  LET written == [i \in DOMAIN list |-> AddMemo(list[i])]
             read == DeserializeEncryptedMemos(NamedMemos(list), emptyMemo)
         IN  /\ ReadEncryptedMemos(written) = Success(NamedMemos(list))
             /\ \/ read = Success(list)
                \/ /\ \E i \in 1..Len(list) : list[i].memo = NoBytes
                   /\ emptyMemo # "SUCCESS" /\ read = Failure(emptyMemo)
             /\ Len(written) = Len(list)
<1> DEFINE n == Len(list)
           written == [i \in DOMAIN list |-> AddMemo(list[i])]
           made == [i \in DOMAIN written |-> ReadMemo(written[i])]
           failed == {i \in DOMAIN written : made[i].result # "SUCCESS"}
           values == [i \in DOMAIN written |-> made[i].value]
           named == NamedMemos(list)
           made2 == [i \in DOMAIN named |-> DeserializeMemo(named[i], emptyMemo)]
           failed2 == {i \in DOMAIN named : made2[i].result # "SUCCESS"}
           values2 == [i \in DOMAIN named |-> made2[i].value]
           read == DeserializeEncryptedMemos(named, emptyMemo)
           Empty(i) == list[i].memo = NoBytes /\ emptyMemo # "SUCCESS"
<1>1. n \in Nat /\ DOMAIN list = 1..n /\ list = [i \in 1..n |-> list[i]]
  BY DEF Listed
<1>2. \A i \in 1..n : MemoForm(list[i]) /\ list[i].type \in 0..2
  OBVIOUS
<1> HIDE DEF n
<1>3. DOMAIN written = 1..n /\ Len(written) = n /\ \A i \in 1..n : written[i] = AddMemo(list[i])
  BY <1>1
<1>4. /\ DOMAIN named = 1..n /\ named = [i \in 1..n |-> named[i]]
      /\ \A i \in 1..n : named[i] = [type |-> list[i].type, memo |-> Base64Text(list[i].memo)]
  BY <1>1 DEF NamedMemos
<1> HIDE DEF written, named
<1>5. ASSUME NEW i \in 1..n
      PROVE  /\ ReadMemo(written[i]) = Success(named[i])
             /\ \/ DeserializeMemo(named[i], emptyMemo) = Success(list[i])
                \/ Empty(i) /\ DeserializeMemo(named[i], emptyMemo) = Failure(emptyMemo)
  <2> DEFINE entry == list[i]
             text == [type |-> entry.type, memo |-> Base64Text(entry.memo)]
  <2>1. MemoForm(entry) /\ entry.type \in 0..2
    BY <1>2
  <2>2. named[i] = text /\ written[i] = AddMemo(entry)
    BY <1>3, <1>4
  <2> HIDE DEF entry
  <2>3. /\ ReadMemo(AddMemo(entry)) = Success(text)
        /\ \/ DeserializeMemo(text, emptyMemo) = Success(entry)
           \/ /\ entry.memo = NoBytes /\ emptyMemo # "SUCCESS"
              /\ DeserializeMemo(text, emptyMemo) = Failure(emptyMemo)
    BY <2>1, MemoReadsBack
  <2> HIDE DEF text
  <2> QED BY <2>2, <2>3 DEF entry
<1>6. /\ \A i \in 1..n : made[i] = Success(named[i])
      /\ \A i \in 1..n : \/ made2[i] = Success(list[i])
                         \/ Empty(i) /\ made2[i] = Failure(emptyMemo)
  BY <1>3, <1>4, <1>5
<1>7. ReadEncryptedMemos(written)
        = IF failed = {} THEN Success(values)
          ELSE Failure(made[CHOOSE i \in failed : \A j \in failed : i <= j].result)
  BY DEF ReadEncryptedMemos, Every
<1>8. read
        = IF failed2 = {} THEN Success(values2)
          ELSE Failure(made2[CHOOSE i \in failed2 : \A j \in failed2 : i <= j].result)
  BY DEF DeserializeEncryptedMemos, Every
<1> HIDE DEF made, made2, read, Empty
<1>9. \A i \in 1..n : made[i].result = "SUCCESS" /\ made[i].value = named[i]
  <2> TAKE i \in 1..n
  <2>1. made[i] = Success(named[i])
    BY <1>6
  <2> QED BY <2>1 DEF Success
<1>10. failed = {} /\ values = named
  BY ONLY <1>3, <1>4, <1>9
<1>11. ReadEncryptedMemos(written) = Success(named)
  BY <1>7, <1>10
<1>12. ASSUME failed2 = {}
       PROVE  read = Success(list)
  <2>1. \A i \in 1..n : made2[i].result = "SUCCESS"
    BY <1>4, <1>12
  <2>2. \A i \in 1..n : made2[i].value = list[i]
    <3> TAKE i \in 1..n
    <3>1. CASE made2[i] = Success(list[i])
      BY <3>1 DEF Success
    <3>2. CASE Empty(i) /\ made2[i] = Failure(emptyMemo)
      BY <2>1, <3>2 DEF Empty, Failure
    <3> QED BY <1>6, <3>1, <3>2
  <2>3. values2 = list
    BY ONLY <1>1, <1>4, <2>2
  <2> QED BY <1>8, <1>12, <2>3
<1>13. ASSUME failed2 # {}
       PROVE  \E i \in 1..n : Empty(i) /\ read = Failure(emptyMemo)
  <2> DEFINE first == CHOOSE i \in failed2 : \A j \in failed2 : i <= j
  <2>1. failed2 \subseteq Nat
    BY <1>1, <1>4
  <2>2. \E i \in failed2 : \A j \in failed2 : i <= j
    BY <1>13, <2>1, LeastNumber
  <2>3. first \in failed2
    BY <2>2
  <2> HIDE DEF first
  <2>4. first \in 1..n /\ made2[first].result # "SUCCESS"
    BY <1>4, <2>3
  <2>5. Empty(first) /\ made2[first] = Failure(emptyMemo)
    <3>1. CASE made2[first] = Success(list[first])
      BY <2>4, <3>1 DEF Success
    <3> QED BY <1>6, <2>4, <3>1
  <2>6. made2[first].result = emptyMemo
    BY <2>5 DEF Failure
  <2> QED BY <1>8, <1>13, <2>4, <2>5, <2>6 DEF first
<1> HIDE DEF failed2
<1> QED BY <1>3, <1>11, <1>12, <1>13 DEF n, written, named, read, Empty

-----------------------------------------------------------------------------
(* The members of the root, and the table they are read with.              *)

\* A member of an object, or an entry of a table, and what it is.
Holds(f, key, value) == key \in DOMAIN f /\ f[key] = value

LEMMA FirstHolds ==
  ASSUME NEW f, NEW g, NEW key, NEW value, Holds(f, key, value)
  PROVE  Holds(Together(f, g), key, value)
BY Merged, MergedAt DEF Holds

LEMMA SecondHolds ==
  ASSUME NEW f, NEW g, NEW key, NEW value, Holds(g, key, value), key \notin DOMAIN f
  PROVE  Holds(Together(f, g), key, value)
<1>1. key \in DOMAIN g /\ g[key] = value
  BY DEF Holds
<1>2. Together(f, g)[key] = g[key]
  BY <1>1, MergedAt
<1> QED BY <1>1, <1>2, Merged DEF Holds

LEMMA HeldIsSeen ==
  ASSUME NEW members, NEW table, NEW key, NEW value, NEW entry,
         Holds(members, key, value), Holds(table, key, entry),
         value # JNull \/ entry.as = "value"
  PROVE  Holds(Seen(members, table), key, Content(value, entry))
BY DEF Holds, Seen, Met

LEMMA NullIsNotSeen ==
  ASSUME NEW members, NEW table, NEW key, NEW entry,
         Holds(members, key, JNull), Holds(table, key, entry), entry.as # "value"
  PROVE  key \notin DOMAIN Seen(members, table)
BY DEF Holds, Seen, Met

EnvelopeKeys ==
  {"transaction_type", "tx_nr", "confirmed_at", "created_at", "tx_community_uuid",
   "ledger_anchor", "tx_running_hash", "cross_group_type", "body_bytes"}

PairingKeys == {"tx_pairing_community_uuid", "pairing_ledger_anchor"}

ListKeys == {"account_balances", "encrypted_memos", "signature_pairs"}

DetailKeys ==
  {"transfer", "register_address", "community_root", "target_date", "timeout_duration",
   "previous_tx", "address_type", "derivation_index"}

LEMMA KeysApart ==
  /\ EnvelopeKeys \cap PairingKeys = {} /\ EnvelopeKeys \cap ListKeys = {}
  /\ EnvelopeKeys \cap DetailKeys = {} /\ PairingKeys \cap ListKeys = {}
  /\ PairingKeys \cap DetailKeys = {} /\ ListKeys \cap DetailKeys = {}
BY DEF EnvelopeKeys, PairingKeys, ListKeys, DetailKeys

\* The entries of a type.
DetailTable(type) == Together(RequiredDetail(type), RequiredContext(type))

LEMMA PartsHaveTheirKeys ==
  ASSUME NEW t
  PROVE  /\ DOMAIN AddEnvelope(t) = EnvelopeKeys \cup PairingKeys
         /\ DOMAIN AddArrays(t) = ListKeys
         /\ DOMAIN RequiredEnvelope = EnvelopeKeys
         /\ DOMAIN Optional = ListKeys \cup PairingKeys
BY DEF AddEnvelope, AddArrays, RequiredEnvelope, Optional, EnvelopeKeys, PairingKeys, ListKeys

\* What a type's detail and context are made of.
DetailForm(type, d) ==
  /\ type \in TransferTypes \cup {"creation"} => TransferForm(d)
  /\ type = "register_address" => RegistrationForm(d)
  /\ type = "community_root" => RootForm(d)
  /\ type = "timeout_deferred" => d = NULL

ContextForm(type, c) ==
  CASE type = "creation" -> c = [target_date |-> c.target_date]
    [] type = "deferred_transfer" -> c = [timeout_duration |-> c.timeout_duration]
    [] type \in {"redeem_deferred", "timeout_deferred"} ->
         c = [previous_tx |-> c.previous_tx] /\ c.previous_tx \in Nat
    [] type = "register_address" ->
         /\ c = [address_type |-> c.address_type, derivation_index |-> c.derivation_index]
         /\ c.derivation_index \in Nat
    [] OTHER -> c = NULL

LEMMA RequiredHolds ==
  ASSUME NEW type, NEW key, NEW entry,
         Holds(RequiredEnvelope, key, entry) \/ Holds(DetailTable(type), key, entry),
         DOMAIN DetailTable(type) \cap EnvelopeKeys = {}
  PROVE  Holds(Required(type), key, entry)
<1> DEFINE e == RequiredEnvelope
           d == RequiredDetail(type)
           c == RequiredContext(type)
<1>1. /\ Required(type) = Together(Together(e, d), c) /\ DetailTable(type) = Together(d, c)
      /\ DOMAIN e = EnvelopeKeys
  BY PartsHaveTheirKeys DEF Required, DetailTable
<1> HIDE DEF e, d, c
<1>2. CASE Holds(e, key, entry)
  BY <1>1, <1>2, FirstHolds
<1>3. CASE Holds(Together(d, c), key, entry)
  <2>1. key \notin DOMAIN e /\ DOMAIN Together(d, c) = DOMAIN d \cup DOMAIN c
        /\ key \in DOMAIN d \cup DOMAIN c
    BY <1>1, <1>3, Merged DEF Holds
  <2>2. CASE key \in DOMAIN d
    <3>1. Holds(d, key, entry)
      BY <1>3, <2>2, MergedAt DEF Holds
    <3> QED BY <1>1, <2>1, <3>1, FirstHolds, SecondHolds
  <2>3. CASE key \in DOMAIN c /\ key \notin DOMAIN d
    <3>1. Holds(c, key, entry)
      BY <1>3, <2>3, MergedAt DEF Holds
    <3>2. DOMAIN Together(e, d) = DOMAIN e \cup DOMAIN d
      BY Merged
    <3>3. key \notin DOMAIN Together(e, d)
      BY <2>1, <2>3, <3>2
    <3> QED BY <1>1, <3>1, <3>3, SecondHolds
  <2> QED BY <2>1, <2>2, <2>3
<1> QED BY <1>1, <1>2, <1>3 DEF e

LEMMA WithNothing ==
  ASSUME NEW f, f = [key \in DOMAIN f |-> f[key]]
  PROVE  Together(f, <<>>) = f /\ Together(<<>>, f) = f
<1>1. DOMAIN <<>> = {}
  OBVIOUS
<1>2. Together(f, <<>>) = [key \in DOMAIN f |-> f[key]]
  BY <1>1 DEF Together
<1>3. Together(<<>>, f) = [key \in DOMAIN f |-> f[key]]
  BY <1>1 DEF Together
<1> QED BY <1>2, <1>3

\* The two parts of what a type writes.
DetailPart(t) ==
  CASE t.transaction_type \in TransferTypes \cup {"creation"} -> AddTransfer(t.detail)
    [] t.transaction_type = "register_address" -> AddRegisterAddress(t.detail)
    [] t.transaction_type = "community_root" -> AddCommunityRoot(t.detail)
    [] OTHER -> <<>>

ContextPart(t) ==
  CASE t.transaction_type = "creation" -> [target_date |-> JNumber(t.context.target_date)]
    [] t.transaction_type = "deferred_transfer" ->
         [timeout_duration |-> JNumber(t.context.timeout_duration)]
    [] t.transaction_type \in {"redeem_deferred", "timeout_deferred"} ->
         [previous_tx |-> JNumber(t.context.previous_tx)]
    [] t.transaction_type = "register_address" ->
         [address_type |-> AddEnumString(AddressToString(t.context.address_type)),
          derivation_index |-> JNumber(t.context.derivation_index)]
    [] OTHER -> <<>>

LEMMA DetailHasTwoParts ==
  ASSUME NEW t, t.transaction_type \in LaidOut
  PROVE  AddTransactionDetail(t) = Together(DetailPart(t), ContextPart(t))
<1> DEFINE d == AddTransfer(t.detail)
           c == [previous_tx |-> JNumber(t.context.previous_tx)]
           r == AddCommunityRoot(t.detail)
<1>1. Together(d, <<>>) = d /\ Together(r, <<>>) = r
  BY WithNothing DEF AddTransfer, AddCommunityRoot
<1>2. Together(<<>>, c) = c
  BY WithNothing
<1> HIDE DEF d, c, r
<1>3. CASE t.transaction_type = "transfer"
  BY <1>1, <1>3 DEF AddTransactionDetail, DetailPart, ContextPart, TransferTypes, d
<1>4. CASE t.transaction_type = "creation"
  BY <1>4 DEF AddTransactionDetail, DetailPart, ContextPart, TransferTypes
<1>5. CASE t.transaction_type = "register_address"
  BY <1>5 DEF AddTransactionDetail, DetailPart, ContextPart, TransferTypes
<1>6. CASE t.transaction_type = "deferred_transfer"
  BY <1>6 DEF AddTransactionDetail, DetailPart, ContextPart, TransferTypes
<1>7. CASE t.transaction_type = "redeem_deferred"
  BY <1>7 DEF AddTransactionDetail, DetailPart, ContextPart, TransferTypes
<1>8. CASE t.transaction_type = "timeout_deferred"
  BY <1>2, <1>8 DEF AddTransactionDetail, DetailPart, ContextPart, TransferTypes, c
<1>9. CASE t.transaction_type = "community_root"
  BY <1>1, <1>9 DEF AddTransactionDetail, DetailPart, ContextPart, TransferTypes, r
<1> QED BY <1>3, <1>4, <1>5, <1>6, <1>7, <1>8, <1>9 DEF LaidOut

\* What a walk that meets every entry of a table makes of the members.
Agrees(view, members, table) ==
  \A key \in DOMAIN table : view[key] = Content(members[key], table[key])

LEMMA DetailPartReadsBack ==
  ASSUME NullIsNoRecord, NEW t, t.transaction_type \in LaidOut,
         DetailForm(t.transaction_type, t.detail)
  PROVE  LET type == t.transaction_type
         IN  /\ Fits(DetailPart(t), RequiredDetail(type))
             /\ DOMAIN RequiredDetail(type) \subseteq DetailKeys
             /\ \A view : Agrees(view, DetailPart(t), RequiredDetail(type)) =>
                  ReadTransactionDetail(type, view) = Success(t.detail)
<1> DEFINE type == t.transaction_type
<1>1. CASE type \in TransferTypes \cup {"creation"}
  <2> DEFINE d == AddTransfer(t.detail)
             value == d.transfer
             table == [transfer |-> As("value")]
  <2>1. DetailPart(t) = d /\ RequiredDetail(type) = table
    BY <1>1 DEF DetailPart, RequiredDetail, TransferTypes
  <2>2. DOMAIN d = {"transfer"} /\ d["transfer"] = value /\ value # JNull
    BY ObjectFits DEF AddTransfer
  <2>3. ReadTransfer(value) = Success(t.detail)
    BY <1>1, TransferReadsBack DEF DetailForm
  <2> HIDE DEF d, value
  <2>4. Fits(d, table) /\ DOMAIN table \subseteq DetailKeys
    BY <2>2, ValueFits DEF Fits, DetailKeys
  <2>5. ASSUME NEW view, Agrees(view, d, table)
        PROVE  ReadTransactionDetail(type, view) = Success(t.detail)
    <3>1. view["transfer"] = value
      BY <2>2, <2>5, ValueFits DEF Agrees
    <3>2. ReadTransactionDetail(type, view) = ReadTransfer(view["transfer"])
      BY <1>1 DEF ReadTransactionDetail, TransferTypes
    <3> QED BY <2>3, <3>1, <3>2
  <2> QED BY <2>1, <2>4, <2>5
<1>2. CASE type = "register_address"
  <2> DEFINE d == AddRegisterAddress(t.detail)
             value == d.register_address
             table == [register_address |-> As("value")]
  <2>1. DetailPart(t) = d /\ RequiredDetail(type) = table
    BY <1>2 DEF DetailPart, RequiredDetail, TransferTypes
  <2>2. DOMAIN d = {"register_address"} /\ d["register_address"] = value /\ value # JNull
    BY ObjectFits DEF AddRegisterAddress
  <2>3. ReadRegisterAddress(value) = Success(t.detail)
    BY <1>2, RegistrationReadsBack DEF DetailForm
  <2> HIDE DEF d, value
  <2>4. Fits(d, table) /\ DOMAIN table \subseteq DetailKeys
    BY <2>2, ValueFits DEF Fits, DetailKeys
  <2>5. ASSUME NEW view, Agrees(view, d, table)
        PROVE  ReadTransactionDetail(type, view) = Success(t.detail)
    <3>1. view["register_address"] = value
      BY <2>2, <2>5, ValueFits DEF Agrees
    <3>2. ReadTransactionDetail(type, view) = ReadRegisterAddress(view["register_address"])
      BY <1>2 DEF ReadTransactionDetail, TransferTypes
    <3> QED BY <2>3, <3>1, <3>2
  <2> QED BY <2>1, <2>4, <2>5
<1>3. CASE type = "community_root"
  <2> DEFINE d == AddCommunityRoot(t.detail)
             value == d.community_root
             table == [community_root |-> As("value")]
  <2>1. DetailPart(t) = d /\ RequiredDetail(type) = table
    BY <1>3 DEF DetailPart, RequiredDetail, TransferTypes
  <2>2. DOMAIN d = {"community_root"} /\ d["community_root"] = value /\ value # JNull
    BY ObjectFits DEF AddCommunityRoot
  <2>3. ReadCommunityRoot(value) = Success(t.detail)
    BY <1>3, RootReadsBack DEF DetailForm
  <2> HIDE DEF d, value
  <2>4. Fits(d, table) /\ DOMAIN table \subseteq DetailKeys
    BY <2>2, ValueFits DEF Fits, DetailKeys
  <2>5. ASSUME NEW view, Agrees(view, d, table)
        PROVE  ReadTransactionDetail(type, view) = Success(t.detail)
    <3>1. view["community_root"] = value
      BY <2>2, <2>5, ValueFits DEF Agrees
    <3>2. ReadTransactionDetail(type, view) = ReadCommunityRoot(view["community_root"])
      BY <1>3 DEF ReadTransactionDetail, TransferTypes
    <3> QED BY <2>3, <3>1, <3>2
  <2> QED BY <2>1, <2>4, <2>5
<1>4. CASE type = "timeout_deferred"
  <2>1. DetailPart(t) = <<>> /\ RequiredDetail(type) = <<>>
    BY <1>4 DEF DetailPart, RequiredDetail, TransferTypes
  <2>2. Fits(<<>>, <<>>) /\ DOMAIN <<>> \subseteq DetailKeys
    BY DEF Fits
  <2>3. \A view : ReadTransactionDetail(type, view) = Success(t.detail)
    BY <1>4 DEF ReadTransactionDetail, TransferTypes, DetailForm
  <2> QED BY <2>1, <2>2, <2>3
<1> QED BY <1>1, <1>2, <1>3, <1>4 DEF LaidOut, TransferTypes

LEMMA ContextPartReadsBack ==
  ASSUME NullIsNoRecord, NEW t, t.transaction_type \in LaidOut,
         ContextForm(t.transaction_type, t.context),
         t.transaction_type = "register_address" => t.context.address_type \in 1..7
  PROVE  LET type == t.transaction_type
         IN  /\ Fits(ContextPart(t), RequiredContext(type))
             /\ DOMAIN RequiredContext(type) \subseteq DetailKeys
             /\ \A view : Agrees(view, ContextPart(t), RequiredContext(type)) =>
                  /\ ContextFrom(type, view) = t.context
                  /\ type = "register_address" =>
                       AddressFromString(Name(view.address_type)) # AddressNone
<1> DEFINE type == t.transaction_type
           c == t.context
           Back(view) == /\ ContextFrom(type, view) = c
                         /\ type = "register_address" =>
                              AddressFromString(Name(view.address_type)) # AddressNone
<1>1. CASE type = "creation"
  <2> DEFINE value == JNumber(c.target_date)
             part == [target_date |-> value]
             table == [target_date |-> As("int")]
  <2>1. ContextPart(t) = part /\ RequiredContext(type) = table
    BY <1>1 DEF ContextPart, RequiredContext
  <2>2. value # JNull /\ Verdict(value, As("int")) = "SUCCESS"
        /\ Content(value, As("int")) = c.target_date
    BY NumberFits
  <2> HIDE DEF value
  <2>3. Fits(part, table) /\ DOMAIN table \subseteq DetailKeys
    BY <2>2 DEF Fits, DetailKeys
  <2>4. ASSUME NEW view, Agrees(view, part, table)
        PROVE  Back(view)
    <3>1. view.target_date = c.target_date
      BY <2>2, <2>4 DEF Agrees
    <3>2. ContextFrom(type, view) = [target_date |-> view.target_date]
      BY <1>1 DEF ContextFrom
    <3> QED BY <1>1, <3>1, <3>2 DEF ContextForm
  <2> QED BY <2>1, <2>3, <2>4
<1>2. CASE type = "deferred_transfer"
  <2> DEFINE value == JNumber(c.timeout_duration)
             part == [timeout_duration |-> value]
             table == [timeout_duration |-> As("int")]
  <2>1. ContextPart(t) = part /\ RequiredContext(type) = table
    BY <1>2 DEF ContextPart, RequiredContext
  <2>2. value # JNull /\ Verdict(value, As("int")) = "SUCCESS"
        /\ Content(value, As("int")) = c.timeout_duration
    BY NumberFits
  <2> HIDE DEF value
  <2>3. Fits(part, table) /\ DOMAIN table \subseteq DetailKeys
    BY <2>2 DEF Fits, DetailKeys
  <2>4. ASSUME NEW view, Agrees(view, part, table)
        PROVE  Back(view)
    <3>1. view.timeout_duration = c.timeout_duration
      BY <2>2, <2>4 DEF Agrees
    <3>2. ContextFrom(type, view) = [timeout_duration |-> view.timeout_duration]
      BY <1>2 DEF ContextFrom
    <3> QED BY <1>2, <3>1, <3>2 DEF ContextForm
  <2> QED BY <2>1, <2>3, <2>4
<1>3. CASE type \in {"redeem_deferred", "timeout_deferred"}
  <2> DEFINE value == JNumber(c.previous_tx)
             part == [previous_tx |-> value]
             table == [previous_tx |-> As("uint")]
  <2>1. ContextPart(t) = part /\ RequiredContext(type) = table
    BY <1>3 DEF ContextPart, RequiredContext
  <2>2. value # JNull /\ Verdict(value, As("uint")) = "SUCCESS"
        /\ Content(value, As("uint")) = c.previous_tx
    BY <1>3, NumberFits DEF ContextForm
  <2> HIDE DEF value
  <2>3. Fits(part, table) /\ DOMAIN table \subseteq DetailKeys
    BY <2>2 DEF Fits, DetailKeys
  <2>4. ASSUME NEW view, Agrees(view, part, table)
        PROVE  Back(view)
    <3>1. view.previous_tx = c.previous_tx
      BY <2>2, <2>4 DEF Agrees
    <3>2. ContextFrom(type, view) = [previous_tx |-> view.previous_tx]
      BY <1>3 DEF ContextFrom
    <3> QED BY <1>3, <3>1, <3>2 DEF ContextForm
  <2> QED BY <2>1, <2>3, <2>4
<1>4. CASE type = "register_address"
  <2> DEFINE name == AddEnumString(AddressToString(c.address_type))
             value == JNumber(c.derivation_index)
             part == [address_type |-> name, derivation_index |-> value]
             table == [address_type |-> As("string"), derivation_index |-> As("uint")]
  <2>1. ContextPart(t) = part /\ RequiredContext(type) = table
    BY <1>4 DEF ContextPart, RequiredContext
  <2>2. value # JNull /\ Verdict(value, As("uint")) = "SUCCESS"
        /\ Content(value, As("uint")) = c.derivation_index
    BY <1>4, NumberFits DEF ContextForm
  <2>3. name # JNull /\ Verdict(name, As("string")) = "SUCCESS"
        /\ Name(Content(name, As("string"))) = AddressToString(c.address_type)
    BY NameIsRead
  <2>4. /\ AddressFromString(AddressToString(c.address_type)) = c.address_type
        /\ c.address_type # AddressNone
    BY <1>4, NamesReadBack
  <2> HIDE DEF value, name
  <2>5. Fits(part, table) /\ DOMAIN table \subseteq DetailKeys
    BY <2>2, <2>3 DEF Fits, DetailKeys
  <2>6. ASSUME NEW view, Agrees(view, part, table)
        PROVE  Back(view)
    <3>1. /\ view.address_type = Content(name, As("string"))
          /\ view.derivation_index = c.derivation_index
      BY <2>2, <2>6 DEF Agrees
    <3>2. AddressFromString(Name(view.address_type)) = c.address_type
      BY <2>3, <2>4, <3>1
    <3>3. ContextFrom(type, view)
            = [address_type |-> c.address_type, derivation_index |-> c.derivation_index]
      BY <1>4, <3>1, <3>2 DEF ContextFrom
    <3> QED BY <1>4, <2>4, <3>2, <3>3 DEF ContextForm
  <2> QED BY <2>1, <2>5, <2>6
<1>5. CASE type \in {"transfer", "community_root"}
  <2>1. ContextPart(t) = <<>> /\ RequiredContext(type) = <<>>
    BY <1>5 DEF ContextPart, RequiredContext
  <2>2. Fits(<<>>, <<>>) /\ DOMAIN <<>> \subseteq DetailKeys
    BY DEF Fits
  <2>3. c = NULL
    BY <1>5 DEF ContextForm
  <2>4. \A view : Back(view)
    BY <1>5, <2>3 DEF ContextFrom
  <2> QED BY <2>1, <2>2, <2>4
<1> QED BY <1>1, <1>2, <1>3, <1>4, <1>5 DEF LaidOut

-----------------------------------------------------------------------------
(* The root.                                                               *)

\* What the envelope and the lists of a transaction of the runtime form are made of.
EnvelopeForm(t) ==
  /\ t.tx_nr \in Nat /\ t.tx_community_uuid # NULL /\ t.transaction_type \in LaidOut
  /\ t.confirmed_at = [seconds |-> t.confirmed_at.seconds, nanos |-> t.confirmed_at.nanos]
  /\ t.created_at = [seconds |-> t.created_at.seconds, nanos |-> t.created_at.nanos]
  /\ AnchorForm(t.ledger_anchor)
  /\ t.pairing_ledger_anchor # NULL => AnchorForm(t.pairing_ledger_anchor)
  /\ IsMemoryBlock(t.body_bytes)

ListsForm(t) ==
  /\ Listed(t.account_balances) /\ \A i \in 1..Len(t.account_balances) :
                                     BalanceForm(t.account_balances[i])
  /\ Listed(t.encrypted_memos) /\ \A i \in 1..Len(t.encrypted_memos) :
                                    MemoForm(t.encrypted_memos[i])
  /\ Listed(t.signature_pairs) /\ \A i \in 1..Len(t.signature_pairs) :
                                    SignatureForm(t.signature_pairs[i])

PartsForm(t) ==
  DetailForm(t.transaction_type, t.detail) /\ ContextForm(t.transaction_type, t.context)

\* A transaction as a decoder makes one.
DecodedForm(t) == EnvelopeForm(t) /\ ListsForm(t) /\ PartsForm(t)

LEMMA ExpressibleParts ==
  ASSUME NEW t, Expressible(t)
  PROVE  /\ Spoken(t.ledger_anchor)
         /\ t.pairing_ledger_anchor # NULL => Spoken(t.pairing_ledger_anchor)
         /\ t.cross_group_type \in 0..3
         /\ \A m \in Range(t.encrypted_memos) : m.type \in 0..2
         /\ t.transaction_type = "register_address" => t.context.address_type \in 1..7
BY DEF Expressible, Spoken

\* The table of the root walk.
RootTable(type) == Together(Required(type), Optional)

LEMMA RequiredKeys ==
  ASSUME NEW type
  PROVE  /\ DOMAIN DetailTable(type) = DOMAIN RequiredDetail(type) \cup DOMAIN RequiredContext(type)
         /\ DOMAIN Required(type) = EnvelopeKeys \cup DOMAIN DetailTable(type)
         /\ DOMAIN RootTable(type)
              = EnvelopeKeys \cup DOMAIN DetailTable(type) \cup ListKeys \cup PairingKeys
<1> DEFINE e == RequiredEnvelope
           d == RequiredDetail(type)
           c == RequiredContext(type)
<1>1. /\ Required(type) = Together(Together(e, d), c) /\ DetailTable(type) = Together(d, c)
      /\ DOMAIN e = EnvelopeKeys /\ RootTable(type) = Together(Required(type), Optional)
      /\ DOMAIN Optional = ListKeys \cup PairingKeys
  BY PartsHaveTheirKeys DEF Required, DetailTable, RootTable
<1> HIDE DEF e, d, c
<1>2. DOMAIN Together(d, c) = DOMAIN d \cup DOMAIN c
  BY Merged
<1>3. DOMAIN Together(e, d) = DOMAIN e \cup DOMAIN d
  BY Merged
<1>4. DOMAIN Together(Together(e, d), c) = DOMAIN Together(e, d) \cup DOMAIN c
  BY Merged
<1>5. DOMAIN Together(Required(type), Optional) = DOMAIN Required(type) \cup DOMAIN Optional
  BY Merged
<1> QED BY <1>1, <1>2, <1>3, <1>4, <1>5 DEF d, c

LEMMA RootTableHolds ==
  ASSUME NEW type, DOMAIN DetailTable(type) \subseteq DetailKeys, NEW key, NEW entry,
         \/ Holds(RequiredEnvelope, key, entry)
         \/ Holds(DetailTable(type), key, entry)
         \/ Holds(Optional, key, entry)
  PROVE  Holds(RootTable(type), key, entry)
<1>1. DOMAIN DetailTable(type) \cap EnvelopeKeys = {}
  BY KeysApart
<1>2. CASE Holds(RequiredEnvelope, key, entry) \/ Holds(DetailTable(type), key, entry)
  <2>1. Holds(Required(type), key, entry)
    BY <1>1, <1>2, RequiredHolds
  <2> QED BY <2>1, FirstHolds DEF RootTable
<1>3. CASE Holds(Optional, key, entry)
  <2>1. DOMAIN Optional = ListKeys \cup PairingKeys
    BY PartsHaveTheirKeys
  <2>2. key \in ListKeys \cup PairingKeys
    BY <1>3, <2>1 DEF Holds
  <2>3. DOMAIN Required(type) = EnvelopeKeys \cup DOMAIN DetailTable(type)
    BY RequiredKeys
  <2>4. key \notin DOMAIN Required(type)
    BY <2>2, <2>3, KeysApart
  <2> QED BY <1>3, <2>4, SecondHolds DEF RootTable
<1> QED BY <1>2, <1>3

LEMMA RootHolds ==
  ASSUME NEW t, DOMAIN AddTransactionDetail(t) \subseteq DetailKeys, NEW key, NEW value,
         \/ Holds(AddEnvelope(t), key, value)
         \/ Holds(AddTransactionDetail(t), key, value)
         \/ Holds(AddArrays(t), key, value)
  PROVE  Holds(AddCompleteTransaction(t), key, value)
<1> DEFINE e == AddEnvelope(t)
           d == AddTransactionDetail(t)
           a == AddArrays(t)
<1>1. /\ DOMAIN e = EnvelopeKeys \cup PairingKeys /\ DOMAIN a = ListKeys
      /\ AddCompleteTransaction(t) = Together(Together(e, d), a)
      /\ DOMAIN d \subseteq DetailKeys
  BY PartsHaveTheirKeys DEF AddCompleteTransaction
<1>2. DOMAIN Together(e, d) = DOMAIN e \cup DOMAIN d
  BY Merged
<1> HIDE DEF e, d, a
<1>3. CASE Holds(e, key, value)
  <2>1. Holds(Together(e, d), key, value)
    BY <1>3, FirstHolds
  <2> QED BY <1>1, <2>1, FirstHolds
<1>4. CASE Holds(d, key, value)
  <2>1. key \in DOMAIN d
    BY <1>4 DEF Holds
  <2>2. key \notin DOMAIN e
    BY <1>1, <2>1, KeysApart
  <2>3. Holds(Together(e, d), key, value)
    BY <1>4, <2>2, SecondHolds
  <2> QED BY <1>1, <2>3, FirstHolds
<1>5. CASE Holds(a, key, value)
  <2>1. key \in DOMAIN a
    BY <1>5 DEF Holds
  <2>2. key \notin DOMAIN Together(e, d)
    BY <1>1, <1>2, <2>1, KeysApart
  <2> QED BY <1>1, <1>5, <2>2, SecondHolds
<1> QED BY <1>3, <1>4, <1>5 DEF e, d, a

LEMMA EnvelopeFits ==
  ASSUME NullIsNoRecord, NEW t, EnvelopeForm(t), Expressible(t)
  PROVE  LET e == AddEnvelope(t)
         IN  /\ \A key \in EnvelopeKeys :
                  e[key] # JNull /\ Verdict(e[key], RequiredEnvelope[key]) = "SUCCESS"
             /\ e["tx_pairing_community_uuid"] # JNull =>
                  Verdict(e["tx_pairing_community_uuid"], As("uuid")) = "SUCCESS"
<1> DEFINE e == AddEnvelope(t)
           r == RequiredEnvelope
<1>1. /\ e["transaction_type"] = AddEnumString(TransactionToString(t.transaction_type))
      /\ e["tx_nr"] = JNumber(t.tx_nr) /\ e["confirmed_at"] = AddTimestamp(t.confirmed_at)
      /\ e["created_at"] = AddTimestamp(t.created_at)
      /\ e["tx_community_uuid"] = AddUuid(t.tx_community_uuid)
      /\ e["ledger_anchor"] = AddLedgerAnchor(t.ledger_anchor)
      /\ e["tx_running_hash"] = AddHex(HashSize, t.tx_running_hash)
      /\ e["cross_group_type"] = AddEnumString(CrossGroupToString(t.cross_group_type))
      /\ e["body_bytes"] = AddBase64(t.body_bytes)
      /\ e["tx_pairing_community_uuid"] = AddUuid(t.tx_pairing_community_uuid)
  BY DEF AddEnvelope
<1>2. /\ r["transaction_type"] = As("string") /\ r["tx_nr"] = As("uint")
      /\ r["confirmed_at"] = As("value") /\ r["created_at"] = As("value")
      /\ r["tx_community_uuid"] = As("uuid") /\ r["ledger_anchor"] = As("value")
      /\ r["tx_running_hash"] = Hex(HashSize) /\ r["cross_group_type"] = As("string")
      /\ r["body_bytes"] = As("string")
  BY DEF RequiredEnvelope
<1> HIDE DEF e, r
<1>3. /\ e["transaction_type"] # JNull /\ e["cross_group_type"] # JNull
      /\ Verdict(e["transaction_type"], As("string")) = "SUCCESS"
      /\ Verdict(e["cross_group_type"], As("string")) = "SUCCESS"
  BY <1>1, NameIsRead
<1>4. e["tx_nr"] # JNull /\ Verdict(e["tx_nr"], As("uint")) = "SUCCESS"
  BY <1>1, NumberFits DEF EnvelopeForm
<1>5. /\ e["confirmed_at"] # JNull /\ e["created_at"] # JNull
      /\ Verdict(e["confirmed_at"], As("value")) = "SUCCESS"
      /\ Verdict(e["created_at"], As("value")) = "SUCCESS"
      /\ Verdict(e["ledger_anchor"], As("value")) = "SUCCESS"
  BY <1>1, ObjectFits, ValueFits DEF AddTimestamp
<1>6. e["tx_community_uuid"] # JNull /\ Verdict(e["tx_community_uuid"], As("uuid")) = "SUCCESS"
  BY <1>1, UuidFits DEF EnvelopeForm
<1>7. e["ledger_anchor"] # JNull
  <2>1. AnchorForm(t.ledger_anchor) /\ Spoken(t.ledger_anchor)
    BY ExpressibleParts DEF EnvelopeForm
  <2> QED BY <1>1, <2>1, AnchorReadsBack
<1>8. e["tx_running_hash"] # JNull /\ Verdict(e["tx_running_hash"], Hex(HashSize)) = "SUCCESS"
  BY <1>1, HexFits
<1>9. e["body_bytes"] # JNull /\ Verdict(e["body_bytes"], As("string")) = "SUCCESS"
  BY <1>1, StringFits DEF AddBase64
<1>10. e["tx_pairing_community_uuid"] # JNull =>
         Verdict(e["tx_pairing_community_uuid"], As("uuid")) = "SUCCESS"
  <2>1. CASE t.tx_pairing_community_uuid = NULL
    BY <1>1, <2>1 DEF AddUuid
  <2>2. CASE t.tx_pairing_community_uuid # NULL
    BY <1>1, <2>2, UuidFits
  <2> QED BY <2>1, <2>2
<1>11. \A key \in EnvelopeKeys : e[key] # JNull /\ Verdict(e[key], r[key]) = "SUCCESS"
  BY <1>2, <1>3, <1>4, <1>5, <1>6, <1>7, <1>8, <1>9 DEF EnvelopeKeys
<1> QED BY <1>10, <1>11 DEF e, r

LEMMA TwoPartsFit ==
  ASSUME NEW f, NEW g, NEW e, NEW h, Fits(f, e), Fits(g, h)
  PROVE  Fits(Together(f, g), Together(e, h))
<1>1. DOMAIN Together(f, g) = DOMAIN Together(e, h) /\ DOMAIN Together(e, h) = DOMAIN e \cup DOMAIN h
  <2>1. DOMAIN Together(f, g) = DOMAIN f \cup DOMAIN g
    BY Merged
  <2>2. DOMAIN Together(e, h) = DOMAIN e \cup DOMAIN h
    BY Merged
  <2> QED BY <2>1, <2>2 DEF Fits
<1>2. SUFFICES ASSUME NEW key \in DOMAIN Together(e, h)
               PROVE  /\ Together(f, g)[key] # JNull
                      /\ Verdict(Together(f, g)[key], Together(e, h)[key]) = "SUCCESS"
  BY <1>1 DEF Fits
<1>3. CASE key \in DOMAIN e
  <2>1. Together(e, h)[key] = e[key]
    BY <1>3, MergedAt
  <2>2. Together(f, g)[key] = f[key]
    BY <1>3, MergedAt DEF Fits
  <2> QED BY <1>3, <2>1, <2>2 DEF Fits
<1>4. CASE key \notin DOMAIN e
  <2>1. key \in DOMAIN h /\ key \in DOMAIN g /\ key \notin DOMAIN f
    BY <1>1, <1>4 DEF Fits
  <2>2. Together(e, h)[key] = h[key]
    BY <1>4, <2>1, MergedAt
  <2>3. Together(f, g)[key] = g[key]
    BY <2>1, MergedAt
  <2> QED BY <2>1, <2>2, <2>3 DEF Fits
<1> QED BY <1>3, <1>4

LEMMA DetailFits ==
  ASSUME NullIsNoRecord, NEW t, t.transaction_type \in LaidOut, PartsForm(t), Expressible(t)
  PROVE  /\ Fits(AddTransactionDetail(t), DetailTable(t.transaction_type))
         /\ DOMAIN DetailTable(t.transaction_type) \subseteq DetailKeys
         /\ DOMAIN AddTransactionDetail(t) = DOMAIN DetailTable(t.transaction_type)
<1> DEFINE type == t.transaction_type
<1>1. Fits(DetailPart(t), RequiredDetail(type)) /\ DOMAIN RequiredDetail(type) \subseteq DetailKeys
  BY DetailPartReadsBack DEF PartsForm
<1>2. Fits(ContextPart(t), RequiredContext(type)) /\ DOMAIN RequiredContext(type) \subseteq DetailKeys
  <2>1. type = "register_address" => t.context.address_type \in 1..7
    BY ExpressibleParts
  <2> QED BY <2>1, ContextPartReadsBack DEF PartsForm
<1>3. AddTransactionDetail(t) = Together(DetailPart(t), ContextPart(t))
  BY DetailHasTwoParts
<1>4. Fits(AddTransactionDetail(t), DetailTable(type))
  BY <1>1, <1>2, <1>3, TwoPartsFit DEF DetailTable
<1>5. DOMAIN DetailTable(type) = DOMAIN RequiredDetail(type) \cup DOMAIN RequiredContext(type)
  BY RequiredKeys
<1> QED BY <1>1, <1>2, <1>4, <1>5 DEF Fits

\* What the root walk makes of what was written.
ViewOf(t) == Seen(AddCompleteTransaction(t), RootTable(t.transaction_type))

LEMMA RootIsRead ==
  ASSUME NullIsNoRecord, NEW t, DecodedForm(t), Expressible(t)
  PROVE  ReadObject(JObject(AddCompleteTransaction(t)), RootTable(t.transaction_type))
           = Success(ViewOf(t))
<1> DEFINE type == t.transaction_type
           members == AddCompleteTransaction(t)
           table == RootTable(type)
           e == AddEnvelope(t)
           d == AddTransactionDetail(t)
<1>1. type \in LaidOut /\ EnvelopeForm(t) /\ PartsForm(t)
  BY DEF DecodedForm, EnvelopeForm
<1>2. /\ Fits(d, DetailTable(type)) /\ DOMAIN DetailTable(type) \subseteq DetailKeys
      /\ DOMAIN d = DOMAIN DetailTable(type)
  BY <1>1, DetailFits
<1>3. /\ \A key \in EnvelopeKeys :
           e[key] # JNull /\ Verdict(e[key], RequiredEnvelope[key]) = "SUCCESS"
      /\ e["tx_pairing_community_uuid"] # JNull =>
           Verdict(e["tx_pairing_community_uuid"], As("uuid")) = "SUCCESS"
  BY <1>1, EnvelopeFits
<1>4. /\ DOMAIN table = EnvelopeKeys \cup DOMAIN DetailTable(type) \cup ListKeys \cup PairingKeys
      /\ DOMAIN e = EnvelopeKeys \cup PairingKeys /\ DOMAIN RequiredEnvelope = EnvelopeKeys
      /\ DOMAIN Optional = ListKeys \cup PairingKeys
  BY RequiredKeys, PartsHaveTheirKeys
<1>5. /\ Optional["account_balances"] = As("value") /\ Optional["encrypted_memos"] = As("value")
      /\ Optional["signature_pairs"] = As("value")
      /\ Optional["pairing_ledger_anchor"] = As("value")
      /\ Optional["tx_pairing_community_uuid"] = As("uuid")
  BY DEF Optional
<1>6. \A key \in Met(members, table) : Verdict(members[key], table[key]) = "SUCCESS"
  <2> HIDE DEF members, table, e, d
  <2>0. DOMAIN d \subseteq DetailKeys
    BY <1>2
  <2> SUFFICES ASSUME NEW key \in Met(members, table)
               PROVE  Verdict(members[key], table[key]) = "SUCCESS"
    OBVIOUS
  <2>1. key \in DOMAIN table /\ (table[key].as = "value" \/ members[key] # JNull)
    BY DEF Met
  <2>2. CASE key \in EnvelopeKeys
    <3>1. Holds(e, key, e[key]) /\ Holds(RequiredEnvelope, key, RequiredEnvelope[key])
      BY <1>4, <2>2 DEF Holds
    <3>2. Holds(members, key, e[key])
      BY <2>0, <3>1, RootHolds DEF members, e, d
    <3>3. Holds(table, key, RequiredEnvelope[key])
      BY <1>2, <3>1, RootTableHolds DEF table
    <3> QED BY <1>3, <2>2, <3>2, <3>3 DEF Holds
  <2>3. CASE key \in DOMAIN DetailTable(type)
    <3>1. Holds(d, key, d[key]) /\ Holds(DetailTable(type), key, DetailTable(type)[key])
      BY <1>2, <2>3 DEF Holds
    <3>2. Holds(members, key, d[key])
      BY <2>0, <3>1, RootHolds DEF members, d
    <3>3. Holds(table, key, DetailTable(type)[key])
      BY <1>2, <3>1, RootTableHolds DEF table
    <3> QED BY <1>2, <2>3, <3>2, <3>3 DEF Holds, Fits
  <2>4. CASE key \in ListKeys \cup {"pairing_ledger_anchor"}
    <3>1. Optional[key] = As("value") /\ Holds(Optional, key, Optional[key])
      BY <1>4, <1>5, <2>4 DEF ListKeys, PairingKeys, Holds
    <3>2. Holds(table, key, As("value"))
      BY <1>2, <3>1, RootTableHolds DEF table
    <3> QED BY <3>2, ValueFits DEF Holds
  <2>5. CASE key = "tx_pairing_community_uuid"
    <3>1. /\ Optional[key] = As("uuid") /\ Holds(Optional, key, Optional[key])
          /\ Holds(e, key, e[key])
      BY <1>4, <1>5, <2>5 DEF ListKeys, PairingKeys, Holds
    <3>2. Holds(table, key, As("uuid"))
      BY <1>2, <3>1, RootTableHolds DEF table
    <3>3. Holds(members, key, e[key])
      BY <2>0, <3>1, RootHolds DEF members, e, d
    <3>4. As("uuid").as # "value"
      BY DEF As
    <3> QED BY <1>3, <2>1, <2>5, <3>2, <3>3, <3>4 DEF Holds
  <2> QED BY <1>4, <2>1, <2>2, <2>3, <2>4, <2>5 DEF PairingKeys
<1> QED BY <1>6, ObjectIsRead DEF ViewOf

LEMMA EnvelopeIsSeen ==
  ASSUME NEW t, NEW key, NEW value, NEW entry, DecodedForm(t), Expressible(t), NullIsNoRecord,
         \/ Holds(AddEnvelope(t), key, value) /\ Holds(RequiredEnvelope, key, entry)
         \/ Holds(AddEnvelope(t), key, value) /\ Holds(Optional, key, entry)
         \/ Holds(AddArrays(t), key, value) /\ Holds(Optional, key, entry)
         \/ /\ Holds(AddTransactionDetail(t), key, value)
            /\ Holds(DetailTable(t.transaction_type), key, entry)
  PROVE  /\ value # JNull \/ entry.as = "value" =>
              Holds(ViewOf(t), key, Content(value, entry))
         /\ value = JNull /\ entry.as # "value" => key \notin DOMAIN ViewOf(t)
<1> DEFINE type == t.transaction_type
<1>1. /\ DOMAIN DetailTable(type) \subseteq DetailKeys
      /\ DOMAIN AddTransactionDetail(t) = DOMAIN DetailTable(type)
  BY DetailFits DEF DecodedForm, EnvelopeForm
<1>2. Holds(AddCompleteTransaction(t), key, value)
  BY <1>1, RootHolds
<1>3. Holds(RootTable(type), key, entry)
  BY <1>1, RootTableHolds
<1> QED BY <1>2, <1>3, HeldIsSeen, NullIsNotSeen DEF ViewOf

LEMMA EnvelopeReadsBack ==
  ASSUME NullIsNoRecord, NEW t, DecodedForm(t), Expressible(t)
  PROVE  LET v == ViewOf(t)
         IN  /\ v.tx_nr = t.tx_nr /\ v.confirmed_at = AddTimestamp(t.confirmed_at)
             /\ v.created_at = AddTimestamp(t.created_at)
             /\ v.tx_community_uuid = t.tx_community_uuid
             /\ v.ledger_anchor = AddLedgerAnchor(t.ledger_anchor)
             /\ v.tx_running_hash = t.tx_running_hash
             /\ Name(v.cross_group_type) = CrossGroupToString(t.cross_group_type)
             /\ v.body_bytes = Base64Text(t.body_bytes)
<1> DEFINE e == AddEnvelope(t)
           r == RequiredEnvelope
           v == ViewOf(t)
           type == AddEnumString(CrossGroupToString(t.cross_group_type))
           text == Base64Text(t.body_bytes)
<1>1. /\ Holds(e, "tx_nr", JNumber(t.tx_nr)) /\ Holds(r, "tx_nr", As("uint"))
      /\ Holds(e, "confirmed_at", AddTimestamp(t.confirmed_at)) /\ Holds(r, "confirmed_at", As("value"))
      /\ Holds(e, "created_at", AddTimestamp(t.created_at)) /\ Holds(r, "created_at", As("value"))
      /\ Holds(e, "tx_community_uuid", AddUuid(t.tx_community_uuid))
      /\ Holds(r, "tx_community_uuid", As("uuid"))
      /\ Holds(e, "ledger_anchor", AddLedgerAnchor(t.ledger_anchor))
      /\ Holds(r, "ledger_anchor", As("value"))
      /\ Holds(e, "tx_running_hash", AddHex(HashSize, t.tx_running_hash))
      /\ Holds(r, "tx_running_hash", Hex(HashSize))
      /\ Holds(e, "cross_group_type", type) /\ Holds(r, "cross_group_type", As("string"))
      /\ Holds(e, "body_bytes", JString(text)) /\ Holds(r, "body_bytes", As("string"))
  BY DEF AddEnvelope, RequiredEnvelope, Holds, AddBase64
<1>2. t.tx_nr \in Nat /\ t.tx_community_uuid # NULL
  BY DEF DecodedForm, EnvelopeForm
<1> HIDE DEF e, r, v, type, text
<1>3. \A key, value, entry :
        /\ Holds(e, key, value) /\ Holds(r, key, entry)
        /\ value # JNull \/ entry.as = "value"
        => v[key] = Content(value, entry)
  <2> TAKE key, value, entry
  <2> QED BY EnvelopeIsSeen DEF Holds, e, r, v
<1>4. v["tx_nr"] = t.tx_nr
  <2>1. JNumber(t.tx_nr) # JNull /\ Content(JNumber(t.tx_nr), As("uint")) = t.tx_nr
    BY NumberFits
  <2>2. v["tx_nr"] = Content(JNumber(t.tx_nr), As("uint"))
    BY <1>1, <1>3, <2>1
  <2> QED BY <2>1, <2>2
<1>5. As("value").as = "value"
  BY DEF As
<1>6. v["confirmed_at"] = AddTimestamp(t.confirmed_at)
  <2>1. v["confirmed_at"] = Content(AddTimestamp(t.confirmed_at), As("value"))
    BY <1>1, <1>3, <1>5
  <2> QED BY <2>1, ValueFits
<1>7. v["created_at"] = AddTimestamp(t.created_at)
  <2>1. v["created_at"] = Content(AddTimestamp(t.created_at), As("value"))
    BY <1>1, <1>3, <1>5
  <2> QED BY <2>1, ValueFits
<1>8. v["ledger_anchor"] = AddLedgerAnchor(t.ledger_anchor)
  <2>1. v["ledger_anchor"] = Content(AddLedgerAnchor(t.ledger_anchor), As("value"))
    BY <1>1, <1>3, <1>5
  <2> QED BY <2>1, ValueFits
<1>9. v["tx_community_uuid"] = t.tx_community_uuid
  <2>1. /\ AddUuid(t.tx_community_uuid) # JNull
        /\ Content(AddUuid(t.tx_community_uuid), As("uuid")) = t.tx_community_uuid
    BY <1>2, UuidFits
  <2>2. v["tx_community_uuid"] = Content(AddUuid(t.tx_community_uuid), As("uuid"))
    BY <1>1, <1>3, <2>1
  <2> QED BY <2>1, <2>2
<1>10. v["tx_running_hash"] = t.tx_running_hash
  <2>1. /\ AddHex(HashSize, t.tx_running_hash) # JNull
        /\ Content(AddHex(HashSize, t.tx_running_hash), Hex(HashSize)) = t.tx_running_hash
    BY HexFits
  <2>2. v["tx_running_hash"] = Content(AddHex(HashSize, t.tx_running_hash), Hex(HashSize))
    BY <1>1, <1>3, <2>1
  <2> QED BY <2>1, <2>2
<1>11. Name(v["cross_group_type"]) = CrossGroupToString(t.cross_group_type)
  <2>1. /\ type # JNull
        /\ Name(Content(type, As("string"))) = CrossGroupToString(t.cross_group_type)
    BY NameIsRead DEF type
  <2>2. v["cross_group_type"] = Content(type, As("string"))
    BY <1>1, <1>3, <2>1
  <2> QED BY <2>1, <2>2
<1>12. v["body_bytes"] = text
  <2>1. JString(text) # JNull /\ Content(JString(text), As("string")) = text
    BY StringFits
  <2>2. v["body_bytes"] = Content(JString(text), As("string"))
    BY <1>1, <1>3, <2>1
  <2> QED BY <2>1, <2>2
<1> QED BY <1>4, <1>6, <1>7, <1>8, <1>9, <1>10, <1>11, <1>12 DEF v, text

LEMMA PairingReadsBack ==
  ASSUME NullIsNoRecord, NEW t, DecodedForm(t), Expressible(t)
  PROVE  LET v == ViewOf(t)
         IN  /\ Handle(v, "tx_pairing_community_uuid") = t.tx_pairing_community_uuid
             /\ HasPairingAnchor(v) = (t.pairing_ledger_anchor # NULL)
             /\ v.pairing_ledger_anchor = AddLedgerAnchor(t.pairing_ledger_anchor)
<1> DEFINE e == AddEnvelope(t)
           v == ViewOf(t)
           uuid == AddUuid(t.tx_pairing_community_uuid)
           anchor == AddLedgerAnchor(t.pairing_ledger_anchor)
<1>1. /\ Holds(e, "tx_pairing_community_uuid", uuid) /\ Holds(e, "pairing_ledger_anchor", anchor)
      /\ Holds(Optional, "tx_pairing_community_uuid", As("uuid"))
      /\ Holds(Optional, "pairing_ledger_anchor", As("value"))
  BY DEF AddEnvelope, Optional, Holds
<1>2. As("value").as = "value" /\ As("uuid").as # "value"
  BY DEF As
<1> HIDE DEF e, v
<1>3. Handle(v, "tx_pairing_community_uuid") = t.tx_pairing_community_uuid
  <2>1. CASE t.tx_pairing_community_uuid = NULL
    <3>1. uuid = JNull
      BY <2>1 DEF AddUuid
    <3>2. "tx_pairing_community_uuid" \notin DOMAIN v
      BY <1>1, <1>2, <3>1, EnvelopeIsSeen DEF e, v
    <3> QED BY <2>1, <3>2 DEF Handle
  <2>2. CASE t.tx_pairing_community_uuid # NULL
    <3>1. uuid # JNull /\ Content(uuid, As("uuid")) = t.tx_pairing_community_uuid
      BY <2>2, UuidFits
    <3>2. Holds(v, "tx_pairing_community_uuid", Content(uuid, As("uuid")))
      BY <1>1, <3>1, EnvelopeIsSeen DEF e, v
    <3> QED BY <3>1, <3>2 DEF Handle, Holds
  <2> QED BY <2>1, <2>2
<1>4. Holds(v, "pairing_ledger_anchor", anchor)
  <2>1. Holds(v, "pairing_ledger_anchor", Content(anchor, As("value")))
    BY <1>1, <1>2, EnvelopeIsSeen DEF e, v
  <2> QED BY <2>1, ValueFits
<1>5. HasPairingAnchor(v) = (anchor \notin {NULL, JNull})
  BY <1>4 DEF HasPairingAnchor, Handle, Holds
<1>6. CASE t.pairing_ledger_anchor = NULL
  <2>1. anchor = JNull
    BY <1>6 DEF AddLedgerAnchor
  <2> QED BY <1>3, <1>4, <1>5, <1>6, <2>1 DEF Holds, v
<1>7. CASE t.pairing_ledger_anchor # NULL
  <2>1. AnchorForm(t.pairing_ledger_anchor) /\ Spoken(t.pairing_ledger_anchor)
    BY <1>7, ExpressibleParts DEF DecodedForm, EnvelopeForm
  <2>2. ReadLedgerAnchor(anchor) = Success(t.pairing_ledger_anchor) /\ anchor # JNull
    BY <2>1, AnchorReadsBack
  <2>3. ReadLedgerAnchor(anchor).result = "SUCCESS"
    BY <2>2 DEF Success
  <2>4. ReadLedgerAnchor(NULL).result = "DECODE_FAILED"
    BY DEF ReadLedgerAnchor, Failure
  <2>5. anchor # NULL
    BY <2>3, <2>4
  <2> QED BY <1>3, <1>4, <1>5, <1>7, <2>2, <2>5 DEF Holds, v
<1> QED BY <1>6, <1>7

LEMMA ListsReadBack ==
  ASSUME NullIsNoRecord, NEW t, DecodedForm(t), Expressible(t)
  PROVE  LET v == ViewOf(t)
         IN  /\ ReadElements(Handle(v, "account_balances"))
                  = [i \in DOMAIN t.account_balances |-> AddBalance(t.account_balances[i])]
             /\ ReadElements(Handle(v, "encrypted_memos"))
                  = [i \in DOMAIN t.encrypted_memos |-> AddMemo(t.encrypted_memos[i])]
             /\ ReadElements(Handle(v, "signature_pairs"))
                  = [i \in DOMAIN t.signature_pairs |-> AddSignature(t.signature_pairs[i])]
<1> DEFINE a == AddArrays(t)
           v == ViewOf(t)
           balances == [i \in DOMAIN t.account_balances |-> AddBalance(t.account_balances[i])]
           memos == [i \in DOMAIN t.encrypted_memos |-> AddMemo(t.encrypted_memos[i])]
           signatures == [i \in DOMAIN t.signature_pairs |-> AddSignature(t.signature_pairs[i])]
<1>1. /\ Holds(a, "account_balances", JArray(balances)) /\ Holds(a, "encrypted_memos", JArray(memos))
      /\ Holds(a, "signature_pairs", JArray(signatures))
  BY DEF AddArrays, Holds
<1>2. /\ Holds(Optional, "account_balances", As("value"))
      /\ Holds(Optional, "encrypted_memos", As("value"))
      /\ Holds(Optional, "signature_pairs", As("value"))
      /\ As("value").as = "value"
  BY DEF Optional, Holds, As
<1> HIDE DEF a, v, balances, memos, signatures
<1>3. ASSUME NEW key, NEW list, Holds(a, key, JArray(list)), Holds(Optional, key, As("value"))
      PROVE  ReadElements(Handle(v, key)) = list
  <2>1. Holds(v, key, Content(JArray(list), As("value")))
    BY <1>2, <1>3, EnvelopeIsSeen DEF a, v
  <2>2. Handle(v, key) = JArray(list)
    BY <2>1, ValueFits DEF Holds, Handle
  <2>3. JArray(list) # NULL
    BY RecordIsThere DEF JArray
  <2> QED BY <2>2, <2>3, ArrayFits DEF ReadElements
<1> QED BY <1>1, <1>2, <1>3 DEF v, balances, memos, signatures

LEMMA PartsReadBack ==
  ASSUME NullIsNoRecord, NEW t, DecodedForm(t), Expressible(t)
  PROVE  LET v == ViewOf(t)
             type == t.transaction_type
         IN  /\ ReadTransactionDetail(type, v) = Success(t.detail)
             /\ ContextFrom(type, v) = t.context
             /\ type = "register_address" =>
                  AddressFromString(Name(v.address_type)) # AddressNone
             /\ DOMAIN Required(type) \subseteq DOMAIN v
<1> DEFINE type == t.transaction_type
           v == ViewOf(t)
           d == AddTransactionDetail(t)
           table == DetailTable(type)
           part == DetailPart(t)
           context == ContextPart(t)
<1>1. /\ type \in LaidOut /\ PartsForm(t)
      /\ type = "register_address" => t.context.address_type \in 1..7
  BY ExpressibleParts DEF DecodedForm, EnvelopeForm
<1>2. /\ Fits(part, RequiredDetail(type)) /\ DOMAIN RequiredDetail(type) \subseteq DetailKeys
      /\ Agrees(v, part, RequiredDetail(type)) =>
           ReadTransactionDetail(type, v) = Success(t.detail)
  BY <1>1, DetailPartReadsBack DEF PartsForm
<1>3. /\ Fits(context, RequiredContext(type)) /\ DOMAIN RequiredContext(type) \subseteq DetailKeys
      /\ Agrees(v, context, RequiredContext(type)) =>
           /\ ContextFrom(type, v) = t.context
           /\ type = "register_address" => AddressFromString(Name(v.address_type)) # AddressNone
  BY <1>1, ContextPartReadsBack DEF PartsForm
<1>4. d = Together(part, context) /\ table = Together(RequiredDetail(type), RequiredContext(type))
  BY <1>1, DetailHasTwoParts DEF DetailTable
<1>5. DOMAIN RequiredDetail(type) \cap DOMAIN RequiredContext(type) = {}
  BY <1>1 DEF RequiredDetail, RequiredContext, TransferTypes, LaidOut
<1> HIDE DEF v, d, table, part, context
<1>6. ASSUME NEW key, NEW value, NEW entry, Holds(d, key, value), Holds(table, key, entry),
             value # JNull
      PROVE  Holds(v, key, Content(value, entry))
  BY <1>6, EnvelopeIsSeen DEF v, d, table
<1>7. /\ Agrees(v, part, RequiredDetail(type))
      /\ DOMAIN RequiredDetail(type) \subseteq DOMAIN v
  <2> SUFFICES ASSUME NEW key \in DOMAIN RequiredDetail(type)
               PROVE  Holds(v, key, Content(part[key], RequiredDetail(type)[key]))
    BY DEF Agrees, Holds
  <2>1. Holds(part, key, part[key]) /\ part[key] # JNull
    BY <1>2 DEF Fits, Holds
  <2>2. Holds(RequiredDetail(type), key, RequiredDetail(type)[key])
    BY DEF Holds
  <2>3. Holds(d, key, part[key])
    BY <1>4, <2>1, FirstHolds
  <2>4. Holds(table, key, RequiredDetail(type)[key])
    BY <1>4, <2>2, FirstHolds
  <2> QED BY <1>6, <2>1, <2>3, <2>4
<1>8. /\ Agrees(v, context, RequiredContext(type))
      /\ DOMAIN RequiredContext(type) \subseteq DOMAIN v
  <2> SUFFICES ASSUME NEW key \in DOMAIN RequiredContext(type)
               PROVE  Holds(v, key, Content(context[key], RequiredContext(type)[key]))
    BY DEF Agrees, Holds
  <2>1. Holds(context, key, context[key]) /\ context[key] # JNull
    BY <1>3 DEF Fits, Holds
  <2>2. Holds(RequiredContext(type), key, RequiredContext(type)[key])
    BY DEF Holds
  <2>3. key \notin DOMAIN RequiredDetail(type) /\ key \notin DOMAIN part
    BY <1>2, <1>5 DEF Fits
  <2>4. Holds(d, key, context[key])
    BY <1>4, <2>1, <2>3, SecondHolds
  <2>5. Holds(table, key, RequiredContext(type)[key])
    BY <1>4, <2>2, <2>3, SecondHolds
  <2> QED BY <1>6, <2>1, <2>4, <2>5
<1>9. EnvelopeKeys \subseteq DOMAIN v
  <2> SUFFICES ASSUME NEW key \in EnvelopeKeys
               PROVE  key \in DOMAIN v
    OBVIOUS
  <2> DEFINE value == AddEnvelope(t)[key]
             entry == RequiredEnvelope[key]
  <2>1. value # JNull
    BY EnvelopeFits DEF DecodedForm
  <2>2. Holds(AddEnvelope(t), key, value) /\ Holds(RequiredEnvelope, key, entry)
    BY PartsHaveTheirKeys DEF Holds
  <2> HIDE DEF value, entry
  <2>3. Holds(v, key, Content(value, entry))
    BY <2>1, <2>2, EnvelopeIsSeen DEF v
  <2> QED BY <2>3 DEF Holds
<1>10. DOMAIN Required(type) \subseteq DOMAIN v
  <2>1. /\ DOMAIN table = DOMAIN RequiredDetail(type) \cup DOMAIN RequiredContext(type)
        /\ DOMAIN Required(type) = EnvelopeKeys \cup DOMAIN table
    BY RequiredKeys DEF table
  <2> QED BY <1>7, <1>8, <1>9, <2>1
<1> QED BY <1>2, <1>3, <1>7, <1>8, <1>10 DEF v, part, context

-----------------------------------------------------------------------------
(* The document.                                                           *)

\* The parts of a transaction that are not its arena.
SameParts(u, t) ==
  /\ u.tx_nr = t.tx_nr /\ u.confirmed_at = t.confirmed_at /\ u.created_at = t.created_at
  /\ u.tx_community_uuid = t.tx_community_uuid /\ u.ledger_anchor = t.ledger_anchor
  /\ u.transaction_type = t.transaction_type /\ u.detail = t.detail /\ u.context = t.context
  /\ u.tx_running_hash = t.tx_running_hash /\ u.account_balances = t.account_balances
  /\ u.encrypted_memos = t.encrypted_memos /\ u.signature_pairs = t.signature_pairs
  /\ u.cross_group_type = t.cross_group_type
  /\ u.tx_pairing_community_uuid = t.tx_pairing_community_uuid
  /\ u.pairing_ledger_anchor = t.pairing_ledger_anchor /\ u.body_bytes = t.body_bytes

LEMMA FilledKeepsTheParts ==
  ASSUME NEW size, NEW envelope, NEW t, DOMAIN t = DOMAIN Blank,
         FilledFrom(size, envelope, t).result = "SUCCESS"
  PROVE  /\ SameParts(FilledFrom(size, envelope, t).tx, t)
         /\ DOMAIN FilledFrom(size, envelope, t).tx = DOMAIN Blank
<1>1. FilledFrom(size, envelope, t).tx
        = [t EXCEPT !.memory_area = [size |-> size, used |-> Taken(t)]]
  BY DEF FilledFrom
<1> DEFINE area == [size |-> size, used |-> Taken(t)]
<1> HIDE DEF area
<1>2. SameParts([t EXCEPT !.memory_area = area], t) /\ DOMAIN [t EXCEPT !.memory_area = area] = DOMAIN t
  BY DEF SameParts, Blank
<1> QED BY <1>1, <1>2 DEF area

LEMMA ChainIsRead ==
  ASSUME NEW type, NEW cross, NEW view, NEW b, NEW m, NEW s, NEW sized, NEW t,
         NEW emptyMemo,
         MemorySizeFromJson(view, b, m, s) = Success(sized),
         ReadTimestamp(view.confirmed_at) = Success(t.confirmed_at),
         ReadTimestamp(view.created_at) = Success(t.created_at),
         ReadLedgerAnchor(view.ledger_anchor) = Success(t.ledger_anchor),
         ReadTransactionDetail(type, view) = Success(t.detail),
         ReadAccountBalances(b) = Success(t.account_balances),
         DeserializeEncryptedMemos(sized.named, emptyMemo) = Success(t.encrypted_memos),
         ReadSignaturePairs(s) = Success(t.signature_pairs),
         (IF HasPairingAnchor(view) THEN ReadLedgerAnchor(view.pairing_ledger_anchor)
          ELSE Success(NULL)) = Success(t.pairing_ledger_anchor),
         ReadBase64Block(view.body_bytes) = Success(t.body_bytes),
         view.tx_nr = t.tx_nr, view.tx_community_uuid = t.tx_community_uuid,
         type = t.transaction_type, ContextFrom(type, view) = t.context,
         view.tx_running_hash = t.tx_running_hash, cross = t.cross_group_type,
         Handle(view, "tx_pairing_community_uuid") = t.tx_pairing_community_uuid
  PROVE  \E made :
           /\ SameParts(made, t) /\ DOMAIN made = DOMAIN Blank
           /\ ReadCompleteTransaction(type, cross, view, b, m, s, emptyMemo)
                = [result |-> FilledFrom(sized.size, Blank, made).result,
                   value |-> FilledFrom(sized.size, Blank, made).tx]
<1> DEFINE memory == MemorySizeFromJson(view, b, m, s)
           confirmed == ReadTimestamp(view.confirmed_at)
           created == ReadTimestamp(view.created_at)
           anchor == ReadLedgerAnchor(view.ledger_anchor)
           detail == ReadTransactionDetail(type, view)
           balances == ReadAccountBalances(b)
           memos == DeserializeEncryptedMemos(memory.value.named, emptyMemo)
           signatures == ReadSignaturePairs(s)
           pairing == IF HasPairingAnchor(view) THEN ReadLedgerAnchor(view.pairing_ledger_anchor)
                      ELSE Success(NULL)
           block == ReadBase64Block(view.body_bytes)
           made ==
             [Blank EXCEPT !.tx_nr = view.tx_nr, !.confirmed_at = confirmed.value,
                           !.created_at = created.value,
                           !.tx_community_uuid = view.tx_community_uuid,
                           !.ledger_anchor = anchor.value, !.transaction_type = type,
                           !.detail = detail.value, !.context = ContextFrom(type, view),
                           !.tx_running_hash = view.tx_running_hash,
                           !.account_balances = balances.value,
                           !.encrypted_memos = memos.value,
                           !.signature_pairs = signatures.value, !.cross_group_type = cross,
                           !.tx_pairing_community_uuid =
                             Handle(view, "tx_pairing_community_uuid"),
                           !.pairing_ledger_anchor = pairing.value,
                           !.body_bytes = block.value]
<1>1. /\ memory.result = "SUCCESS" /\ memory.value = sized
      /\ confirmed.result = "SUCCESS" /\ confirmed.value = t.confirmed_at
      /\ created.result = "SUCCESS" /\ created.value = t.created_at
      /\ anchor.result = "SUCCESS" /\ anchor.value = t.ledger_anchor
      /\ detail.result = "SUCCESS" /\ detail.value = t.detail
      /\ balances.result = "SUCCESS" /\ balances.value = t.account_balances
  BY DEF Success
<1>2. /\ memos.result = "SUCCESS" /\ memos.value = t.encrypted_memos
  BY <1>1 DEF Success
<1>3. /\ signatures.result = "SUCCESS" /\ signatures.value = t.signature_pairs
      /\ block.result = "SUCCESS" /\ block.value = t.body_bytes
  BY DEF Success
<1>4. pairing.result = "SUCCESS" /\ pairing.value = t.pairing_ledger_anchor
  <2>1. pairing = Success(t.pairing_ledger_anchor)
    OBVIOUS
  <2> HIDE DEF pairing
  <2> QED BY <2>1 DEF Success
<1>5. ReadCompleteTransaction(type, cross, view, b, m, s, emptyMemo)
        = [result |-> FilledFrom(memory.value.size, Blank, made).result,
           value |-> FilledFrom(memory.value.size, Blank, made).tx]
  BY <1>1, <1>2, <1>3, <1>4 DEF ReadCompleteTransaction, Then
<1> HIDE DEF memory, confirmed, created, anchor, detail, balances, memos, signatures, pairing, block
<1>6. SameParts(made, t)
  BY <1>1, <1>2, <1>3, <1>4 DEF SameParts, Blank
<1>7. DOMAIN made = DOMAIN Blank
  BY DEF Blank
<1> HIDE DEF made
<1> QED BY <1>1, <1>5, <1>6, <1>7

LEMMA SizeIsRead ==
  ASSUME NEW view, NEW b, NEW m, NEW s, NEW named, ReadEncryptedMemos(m) = Success(named),
         MemorySizeFromJson(view, b, m, s).result = "SUCCESS"
  PROVE  /\ MemorySizeFromJson(view, b, m, s) = Success(MemorySizeFromJson(view, b, m, s).value)
         /\ MemorySizeFromJson(view, b, m, s).value.named = named
BY DEF MemorySizeFromJson, Then, Success, Failure

\* The size the reader works out for a document: a result, and with SUCCESS the size.
SizedFrom(t) ==
  MemorySizeFromJson(ViewOf(t),
                     [i \in DOMAIN t.account_balances |-> AddBalance(t.account_balances[i])],
                     [i \in DOMAIN t.encrypted_memos |-> AddMemo(t.encrypted_memos[i])],
                     [i \in DOMAIN t.signature_pairs |-> AddSignature(t.signature_pairs[i])])

LEMMA TypeIsRead ==
  ASSUME NullIsNoRecord, NEW t, DecodedForm(t), Expressible(t), NEW emptyMemo
  PROVE  LET root == JObject(AddCompleteTransaction(t))
             type == t.transaction_type
             view == ViewOf(t)
         IN  ReadDocument(root, emptyMemo)
               = ReadCompleteTransaction(type, t.cross_group_type, view,
                   ReadElements(Handle(view, "account_balances")),
                   ReadElements(Handle(view, "encrypted_memos")),
                   ReadElements(Handle(view, "signature_pairs")), emptyMemo)
<1> DEFINE root == JObject(AddCompleteTransaction(t))
           type == t.transaction_type
           view == ViewOf(t)
           name == AddEnumString(TransactionToString(type))
           table == [transaction_type |-> As("string")]
           first == Seen(AddCompleteTransaction(t), table)
<1>1. type \in LaidOut
  BY DEF DecodedForm, EnvelopeForm
<1>2. /\ name # JNull /\ Verdict(name, As("string")) = "SUCCESS"
      /\ Content(name, As("string")) = NameText(TransactionToString(type))
      /\ Name(Content(name, As("string"))) = TransactionToString(type)
  BY NameIsRead, StringFits DEF AddEnumString
<1>3. Holds(AddCompleteTransaction(t), "transaction_type", name)
  <2>1. DOMAIN AddTransactionDetail(t) \subseteq DetailKeys
    BY <1>1, DetailFits DEF DecodedForm
  <2>2. Holds(AddEnvelope(t), "transaction_type", name)
    BY DEF AddEnvelope, Holds
  <2> QED BY <2>1, <2>2, RootHolds
<1>4. Holds(table, "transaction_type", As("string")) /\ DOMAIN table = {"transaction_type"}
  BY DEF Holds
<1> HIDE DEF table, name
<1>5. ReadObject(root, table) = Success(first)
  <2>1. \A key \in Met(AddCompleteTransaction(t), table) :
          Verdict(AddCompleteTransaction(t)[key], table[key]) = "SUCCESS"
    BY <1>2, <1>3, <1>4 DEF Met, Holds
  <2> QED BY <2>1, ObjectIsRead
<1>6. Holds(first, "transaction_type", NameText(TransactionToString(type)))
  BY <1>2, <1>3, <1>4, HeldIsSeen
<1> HIDE DEF first
<1>7. /\ Handle(first, "transaction_type") = NameText(TransactionToString(type))
      /\ first.transaction_type = NameText(TransactionToString(type))
  BY <1>6 DEF Holds, Handle
<1>8. NameText(TransactionToString(type)) \notin {NULL, EmptyText}
  <2>1. NameText(TransactionToString(type)) # NULL
    BY RecordIsThere DEF NameText
  <2>2. /\ DOMAIN NameText(TransactionToString(type)) = {"name"}
        /\ DOMAIN EmptyText = {"base64", "size"}
    BY DEF NameText, EmptyText, Base64Text
  <2> QED BY <2>1, <2>2
<1>9. /\ TransactionFromString(Name(first.transaction_type)) = type /\ type # "none"
  BY <1>1, <1>2, <1>7, TransactionNamesReadBack
<1>10. ReadRoot(root, type) = Success(view)
  <2>1. ReadObject(root, Together(Required(type), Optional)) = Success(view)
    BY RootIsRead DEF RootTable
  <2>2. /\ DOMAIN Required(type) \subseteq DOMAIN view
        /\ type = "register_address" => AddressFromString(Name(view.address_type)) # AddressNone
    BY PartsReadBack
  <2> HIDE DEF root, view
  <2> QED BY <2>1, <2>2 DEF ReadRoot, Then, Success
<1>11. /\ CrossGroupFromString(Name(view.cross_group_type)) = t.cross_group_type
       /\ t.cross_group_type # CrossGroupNone
  <2>1. t.cross_group_type \in 0..3
    BY ExpressibleParts
  <2>2. Name(view.cross_group_type) = CrossGroupToString(t.cross_group_type)
    BY EnvelopeReadsBack
  <2> QED BY <2>1, <2>2, NamesReadBack
<1> HIDE DEF root, view, type
<1>12. /\ ReadObject(root, table).result = "SUCCESS" /\ ReadObject(root, table).value = first
       /\ ReadRoot(root, type).result = "SUCCESS" /\ ReadRoot(root, type).value = view
  BY <1>5, <1>10 DEF Success
<1>13. ReadDocument(root, emptyMemo)
         = Then(ReadRoot(root, type), LAMBDA seen :
             LET cross == CrossGroupFromString(Name(seen.cross_group_type))
             IN  IF cross = CrossGroupNone THEN Failure("ENUM_UNKNOWN")
                 ELSE ReadCompleteTransaction(type, cross, seen,
                        ReadElements(Handle(seen, "account_balances")),
                        ReadElements(Handle(seen, "encrypted_memos")),
                        ReadElements(Handle(seen, "signature_pairs")), emptyMemo))
  BY <1>7, <1>8, <1>9, <1>12 DEF ReadDocument, Then, table
<1>14. ReadDocument(root, emptyMemo)
         = ReadCompleteTransaction(type, t.cross_group_type, view,
             ReadElements(Handle(view, "account_balances")),
             ReadElements(Handle(view, "encrypted_memos")),
             ReadElements(Handle(view, "signature_pairs")), emptyMemo)
  BY <1>11, <1>12, <1>13 DEF Then
<1> QED BY <1>14 DEF root, view, type

\* A document is read, unless its size is too large or arnm has nothing to say to a memo of no
\* bytes but an error.
LEMMA DocumentIsRead ==
  ASSUME NullIsNoRecord, NEW t, DecodedForm(t), Expressible(t), NEW emptyMemo
  PROVE  LET read == ReadDocument(JObject(AddCompleteTransaction(t)), emptyMemo)
             sized == SizedFrom(t)
         IN  /\ sized.result # "SUCCESS" => read.result # "SUCCESS"
             /\ sized.result = "SUCCESS" =>
                  \/ \E made :
                       /\ SameParts(made, t) /\ DOMAIN made = DOMAIN Blank
                       /\ read = [result |-> FilledFrom(sized.value.size, Blank, made).result,
                                  value |-> FilledFrom(sized.value.size, Blank, made).tx]
                  \/ HoldsAnEmptyMemo(t) /\ emptyMemo # "SUCCESS" /\ read.result = emptyMemo
<1> DEFINE v == ViewOf(t)
           type == t.transaction_type
           b == [i \in DOMAIN t.account_balances |-> AddBalance(t.account_balances[i])]
           m == [i \in DOMAIN t.encrypted_memos |-> AddMemo(t.encrypted_memos[i])]
           s == [i \in DOMAIN t.signature_pairs |-> AddSignature(t.signature_pairs[i])]
           sized == SizedFrom(t)
           read == ReadDocument(JObject(AddCompleteTransaction(t)), emptyMemo)
           named == NamedMemos(t.encrypted_memos)
<1>1. ListsForm(t) /\ EnvelopeForm(t)
  BY DEF DecodedForm
<1>2. /\ ReadElements(Handle(v, "account_balances")) = b
      /\ ReadElements(Handle(v, "encrypted_memos")) = m
      /\ ReadElements(Handle(v, "signature_pairs")) = s
  BY ListsReadBack
<1>3. ReadAccountBalances(b) = Success(t.account_balances)
  BY <1>1, BalancesReadBack DEF ListsForm
<1>4. ReadSignaturePairs(s) = Success(t.signature_pairs)
  BY <1>1, SignaturesReadBack DEF ListsForm
<1>5. /\ ReadEncryptedMemos(m) = Success(named)
      /\ \/ DeserializeEncryptedMemos(named, emptyMemo) = Success(t.encrypted_memos)
         \/ /\ HoldsAnEmptyMemo(t) /\ emptyMemo # "SUCCESS"
            /\ DeserializeEncryptedMemos(named, emptyMemo) = Failure(emptyMemo)
  <2>1. \A i \in 1..Len(t.encrypted_memos) :
          MemoForm(t.encrypted_memos[i]) /\ t.encrypted_memos[i].type \in 0..2
    <3> TAKE i \in 1..Len(t.encrypted_memos)
    <3>1. MemoForm(t.encrypted_memos[i])
      BY <1>1 DEF ListsForm
    <3>2. DOMAIN t.encrypted_memos = 1..Len(t.encrypted_memos)
      BY <1>1 DEF ListsForm, Listed
    <3>3. t.encrypted_memos[i] \in Range(t.encrypted_memos)
      BY <3>2 DEF Range
    <3> QED BY <3>1, <3>3, ExpressibleParts
  <2>2. DOMAIN t.encrypted_memos = 1..Len(t.encrypted_memos)
    BY <1>1 DEF ListsForm, Listed
  <2>3. (\E i \in 1..Len(t.encrypted_memos) : t.encrypted_memos[i].memo = NoBytes)
          => HoldsAnEmptyMemo(t)
    BY <2>2 DEF HoldsAnEmptyMemo, Range
  <2> QED BY <1>1, <2>1, <2>3, MemosReadBack DEF ListsForm
<1>6. sized = MemorySizeFromJson(v, b, m, s)
  BY DEF SizedFrom
<1>7. read = ReadCompleteTransaction(type, t.cross_group_type, v, b, m, s, emptyMemo)
  BY <1>2, TypeIsRead
<1>8. /\ v.tx_nr = t.tx_nr /\ v.confirmed_at = AddTimestamp(t.confirmed_at)
      /\ v.created_at = AddTimestamp(t.created_at)
      /\ v.tx_community_uuid = t.tx_community_uuid
      /\ v.ledger_anchor = AddLedgerAnchor(t.ledger_anchor)
      /\ v.tx_running_hash = t.tx_running_hash
      /\ v.body_bytes = Base64Text(t.body_bytes)
  BY EnvelopeReadsBack
<1>9. /\ ReadTransactionDetail(type, v) = Success(t.detail)
      /\ ContextFrom(type, v) = t.context
  BY PartsReadBack
<1>10. /\ Handle(v, "tx_pairing_community_uuid") = t.tx_pairing_community_uuid
       /\ HasPairingAnchor(v) = (t.pairing_ledger_anchor # NULL)
       /\ v.pairing_ledger_anchor = AddLedgerAnchor(t.pairing_ledger_anchor)
  BY PairingReadsBack
<1> HIDE DEF v, b, m, s, sized, read, named, type
<1>11. ReadTimestamp(v.confirmed_at) = Success(t.confirmed_at)
  <2>1. ReadTimestamp(v.confirmed_at)
          = Success([seconds |-> t.confirmed_at.seconds, nanos |-> t.confirmed_at.nanos])
    BY <1>8, TimestampReadsBack
  <2> QED BY <1>1, <2>1 DEF EnvelopeForm
<1>12. ReadTimestamp(v.created_at) = Success(t.created_at)
  <2>1. ReadTimestamp(v.created_at)
          = Success([seconds |-> t.created_at.seconds, nanos |-> t.created_at.nanos])
    BY <1>8, TimestampReadsBack
  <2> QED BY <1>1, <2>1 DEF EnvelopeForm
<1>13. ReadLedgerAnchor(v.ledger_anchor) = Success(t.ledger_anchor)
  BY <1>1, <1>8, ExpressibleParts, AnchorReadsBack DEF EnvelopeForm
<1>14. ReadBase64Block(v.body_bytes) = Success(t.body_bytes)
  BY <1>1, <1>8, BlockReadsBack DEF EnvelopeForm
<1>15. (IF HasPairingAnchor(v) THEN ReadLedgerAnchor(v.pairing_ledger_anchor)
        ELSE Success(NULL)) = Success(t.pairing_ledger_anchor)
  <2>1. CASE t.pairing_ledger_anchor = NULL
    BY <1>10, <2>1
  <2>2. CASE t.pairing_ledger_anchor # NULL
    <3>1. AnchorForm(t.pairing_ledger_anchor) /\ Spoken(t.pairing_ledger_anchor)
      BY <1>1, <2>2, ExpressibleParts DEF EnvelopeForm
    <3>2. ReadLedgerAnchor(v.pairing_ledger_anchor) = Success(t.pairing_ledger_anchor)
      BY <1>10, <3>1, AnchorReadsBack
    <3> QED BY <1>10, <2>2, <3>2
  <2> QED BY <2>1, <2>2
<1>16. sized.result # "SUCCESS" => read.result # "SUCCESS"
  BY <1>6, <1>7 DEF ReadCompleteTransaction, Then
<1>17. ASSUME sized.result = "SUCCESS"
       PROVE  \/ \E made :
                   /\ SameParts(made, t) /\ DOMAIN made = DOMAIN Blank
                   /\ read = [result |-> FilledFrom(sized.value.size, Blank, made).result,
                              value |-> FilledFrom(sized.value.size, Blank, made).tx]
              \/ HoldsAnEmptyMemo(t) /\ emptyMemo # "SUCCESS" /\ read.result = emptyMemo
  <2>1. /\ MemorySizeFromJson(v, b, m, s) = Success(sized.value)
        /\ sized.value.named = named
    BY <1>5, <1>6, <1>17, SizeIsRead
  <2>2. CASE DeserializeEncryptedMemos(named, emptyMemo) = Success(t.encrypted_memos)
    <3>1. DeserializeEncryptedMemos(sized.value.named, emptyMemo) = Success(t.encrypted_memos)
      BY <2>1, <2>2
    <3> QED BY <1>3, <1>4, <1>7, <1>8, <1>9, <1>10, <1>11, <1>12, <1>13, <1>14, <1>15, <2>1,
               <3>1, ChainIsRead DEF type
  <2>3. CASE /\ HoldsAnEmptyMemo(t) /\ emptyMemo # "SUCCESS"
             /\ DeserializeEncryptedMemos(named, emptyMemo) = Failure(emptyMemo)
    <3> DEFINE memos == DeserializeEncryptedMemos(sized.value.named, emptyMemo)
    <3>1. memos.result = emptyMemo /\ memos.result # "SUCCESS"
      BY <2>1, <2>3 DEF Failure
    <3>2. /\ MemorySizeFromJson(v, b, m, s).result = "SUCCESS"
          /\ MemorySizeFromJson(v, b, m, s).value = sized.value
          /\ ReadTimestamp(v.confirmed_at).result = "SUCCESS"
          /\ ReadTimestamp(v.created_at).result = "SUCCESS"
          /\ ReadLedgerAnchor(v.ledger_anchor).result = "SUCCESS"
          /\ ReadTransactionDetail(type, v).result = "SUCCESS"
          /\ ReadAccountBalances(b).result = "SUCCESS"
      BY <1>3, <1>9, <1>11, <1>12, <1>13, <2>1 DEF Success
    <3> HIDE DEF memos
    <3>3. ReadCompleteTransaction(type, t.cross_group_type, v, b, m, s, emptyMemo) = memos
      BY <3>1, <3>2 DEF ReadCompleteTransaction, Then, memos
    <3> QED BY <1>7, <2>3, <3>1, <3>3
  <2> QED BY <1>5, <2>2, <2>3
<1> QED BY <1>16, <1>17 DEF sized, read

-----------------------------------------------------------------------------
(* What is decoded, what is written and what is read.                      *)

\* The parts of a transaction, taken from the wire form.
MadeOf(u, body, confirmed) ==
  LET pairing == confirmed.transaction.pairing_ledger_anchor
  IN  /\ u.tx_nr = confirmed.id /\ u.confirmed_at = confirmed.confirmed_at
      /\ u.created_at = body.created_at /\ u.tx_community_uuid = Community
      /\ u.ledger_anchor = confirmed.ledger_anchor
      /\ u.transaction_type = body.transaction_type /\ u.transaction_type \in LaidOut
      /\ u.detail = Detail(body.transaction_type, body.data)
      /\ u.context = Context(body.transaction_type, body.data)
      /\ u.tx_running_hash = confirmed.running_hash
      /\ u.account_balances = confirmed.account_balances
      /\ u.encrypted_memos = body.memos /\ u.signature_pairs = confirmed.transaction.sig_map
      /\ u.cross_group_type = body.type
      /\ u.tx_pairing_community_uuid = body.other_community_uuid
      /\ u.pairing_ledger_anchor = IF pairing.type = Unspecified THEN NULL ELSE pairing
      /\ u.body_bytes = confirmed.transaction.body_bytes

LEMMA WireFillsTheParts ==
  ASSUME NEW body, NEW confirmed, NEW answer
  PROVE  LET made == CompleteTransactionFromWire(body, confirmed, Community, answer)
         IN  IF made.result = "SUCCESS" THEN MadeOf(made.tx, body, confirmed)
             ELSE made.tx.transaction_type = "none"
<1> DEFINE size == MemorySizeFromWire(confirmed, body)
           area == [size |-> size, used |-> 0]
           envelope == [Blank EXCEPT !.tx_nr = confirmed.id,
                                     !.confirmed_at = confirmed.confirmed_at,
                                     !.created_at = body.created_at,
                                     !.tx_community_uuid = Community,
                                     !.ledger_anchor = confirmed.ledger_anchor,
                                     !.memory_area = area]
           pairing == IF confirmed.transaction.pairing_ledger_anchor.type = Unspecified
                      THEN NULL ELSE confirmed.transaction.pairing_ledger_anchor
           filled == [envelope EXCEPT !.detail = Detail(body.transaction_type, body.data),
                                      !.context = Context(body.transaction_type, body.data),
                                      !.transaction_type = body.transaction_type,
                                      !.tx_running_hash = confirmed.running_hash,
                                      !.account_balances = confirmed.account_balances,
                                      !.encrypted_memos = body.memos,
                                      !.signature_pairs = confirmed.transaction.sig_map,
                                      !.cross_group_type = body.type,
                                      !.tx_pairing_community_uuid = body.other_community_uuid,
                                      !.pairing_ledger_anchor = pairing,
                                      !.body_bytes = confirmed.transaction.body_bytes]
           made == CompleteTransactionFromWire(body, confirmed, Community, answer)
<1>1. \/ made.result # "SUCCESS" /\ made.tx = Blank
      \/ made.result # "SUCCESS" /\ made.tx = envelope
      \/ made.result # "SUCCESS" /\ made.tx = [envelope EXCEPT !.memory_area.used = size]
      \/ /\ body.transaction_type \in LaidOut
         /\ made = FilledFrom(size, envelope, filled)
  BY DEF CompleteTransactionFromWire
<1> HIDE DEF size, area, pairing
<1>2. /\ Blank.transaction_type = "none" /\ envelope.transaction_type = "none"
      /\ [envelope EXCEPT !.memory_area.used = size].transaction_type = "none"
  BY DEF Blank
<1>3. /\ DOMAIN envelope = DOMAIN Blank /\ DOMAIN filled = DOMAIN Blank
      /\ [envelope EXCEPT !.memory_area = [size |-> size, used |-> size]].transaction_type = "none"
  BY DEF Blank
<1>4. body.transaction_type \in LaidOut => MadeOf(filled, body, confirmed)
  BY DEF MadeOf, Blank, pairing
<1> HIDE DEF envelope, filled, made
<1>5. CASE body.transaction_type \in LaidOut /\ made = FilledFrom(size, envelope, filled)
  <2>1. CASE made.result = "SUCCESS"
    <3>1. SameParts(made.tx, filled)
      BY <1>3, <1>5, <2>1, FilledKeepsTheParts
    <3>2. MadeOf(made.tx, body, confirmed)
      BY <1>4, <1>5, <3>1 DEF SameParts, MadeOf
    <3> QED BY <2>1, <3>2 DEF made
  <2>2. CASE made.result # "SUCCESS"
    <3>1. made.tx = [envelope EXCEPT !.memory_area = [size |-> size, used |-> size]]
      BY <1>5, <2>2 DEF FilledFrom
    <3> QED BY <1>3, <2>2, <3>1 DEF made
  <2> QED BY <2>1, <2>2
<1>6. CASE made.result # "SUCCESS" /\ made.tx.transaction_type = "none"
  BY <1>6 DEF made
<1> QED BY <1>1, <1>2, <1>5, <1>6

\* A transaction is blank until it is decoded, and a transaction that has a type was read; a
\* document is written of the transaction at hand, and what was read was read of the document.
FormInv ==
  /\ decoding = NULL => tx.transaction_type = "none" /\ document = NULL
  /\ \/ tx.transaction_type = "none"
     \/ Read /\ MadeOf(tx, decoding.body, decoding.wire)
  /\ document # NULL =>
       document = JObject(AddCompleteTransaction(tx)) /\ tx.transaction_type \in LaidOut
  /\ reading # NULL => document # NULL
  /\ ReadBack =>
       \E emptyMemo :
         LET read == ReadDocument(Edited(document, reading.edit), emptyMemo)
         IN  read.result = "SUCCESS" /\ target = read.value

LEMMA FormInitially ==
  ASSUME Init
  PROVE  FormInv
BY DEF Init, FormInv, Blank, Read, ReadBack

LEMMA NoneIsNotLaidOut == "none" \notin LaidOut
BY DEF LaidOut

LEMMA FormOtherwise ==
  ASSUME FormInv, UNCHANGED <<decoding, tx, document, reading, target>>
  PROVE  FormInv'
<1>1. /\ decoding' = decoding /\ tx' = tx /\ document' = document /\ reading' = reading
      /\ target' = target
  OBVIOUS
<1> QED BY <1>1 DEF FormInv, Read, ReadBack

LEMMA InitFromProtobufForms ==
  ASSUME NullIsNoRecord, FormInv, NEW room, NEW answer, InitFromProtobuf(room, answer)
  PROVE  FormInv'
<1> DEFINE fields == Received(binary, arrived)
           wire   == ConfirmedTransactionDecode(fields, room)
           body   == BodyDecoded(fields, room)
           whole  == CompleteTransactionFromWire(body.value, wire.value, Community, answer)
           made   == IF body.result # "SUCCESS" THEN [result |-> body.result, tx |-> tx] ELSE whole
<1>1. /\ decoding = NULL /\ tx' = made.tx /\ UNCHANGED <<document, reading, target>>
      /\ decoding' = [result |-> made.result, room |-> room, wire |-> wire.value,
                      body |-> body.value, peeked |-> PeekId(fields)]
  BY DEF InitFromProtobuf, BodyDecoded
<1>2. IF whole.result = "SUCCESS" THEN MadeOf(whole.tx, body.value, wire.value)
      ELSE whole.tx.transaction_type = "none"
  BY WireFillsTheParts
<1> HIDE DEF wire, body, fields, whole
<1>3. /\ decoding'.result = made.result /\ decoding'.body = body.value
      /\ decoding'.wire = wire.value /\ decoding' # NULL
  BY <1>1, RecordIsThere
<1>4. tx.transaction_type = "none" /\ document = NULL /\ reading = NULL
  BY <1>1 DEF FormInv
<1>5. IF made.result = "SUCCESS" THEN MadeOf(made.tx, body.value, wire.value)
      ELSE made.tx.transaction_type = "none"
  BY <1>2, <1>4
<1> HIDE DEF made
<1> QED BY <1>1, <1>3, <1>4, <1>5 DEF FormInv, Read, ReadBack

LEMMA ReadJsonForms ==
  ASSUME FormInv, NEW edit, NEW emptyMemo, ReadJson(edit, emptyMemo)
  PROVE  FormInv'
<1> DEFINE text == Edited(document, edit)
           answer == CompleteTransactionFromJson(target, text, emptyMemo)
           read == ReadDocument(text, emptyMemo)
<1>1. /\ document # NULL /\ target' = answer.tx /\ UNCHANGED <<decoding, tx, document>>
      /\ reading' = [result |-> answer.result, edit |-> edit, held |-> target]
  BY DEF ReadJson
<1>2. answer.result = "SUCCESS" => read.result = "SUCCESS" /\ answer.tx = read.value
  BY DEF CompleteTransactionFromJson
<1> HIDE DEF answer
<1>3. reading'.result = answer.result /\ reading'.edit = edit
  BY <1>1
<1> HIDE DEF text
<1> QED BY <1>1, <1>2, <1>3 DEF FormInv, Read, ReadBack, text

LEMMA FormKept ==
  ASSUME NullIsNoRecord, FormInv, [Next]_vars
  PROVE  FormInv'
<1>1. ASSUME NEW c \in Compositions, Compose(c) PROVE FormInv'
  BY <1>1, FormOtherwise DEF Compose
<1>2. ASSUME NEW room, EncodeBody(room) PROVE FormInv'
  BY <1>2, FormOtherwise DEF EncodeBody
<1>3. ASSUME NEW room, EncodeConfirmed(room) PROVE FormInv'
  BY <1>3, FormOtherwise DEF EncodeConfirmed
<1>4. ASSUME NEW change, Arrive(change) PROVE FormInv'
  BY <1>4, FormOtherwise DEF Arrive
<1>5. ASSUME NEW room, NEW answer, InitFromProtobuf(room, answer) PROVE FormInv'
  BY <1>5, InitFromProtobufForms
<1>6. CASE DecodeOutOfMemory
  <2>1. /\ decoding = NULL /\ decoding' # NULL /\ decoding'.result = "OUT_OF_MEMORY"
        /\ UNCHANGED <<tx, document, reading, target>>
    BY <1>6, RecordIsThere DEF DecodeOutOfMemory
  <2> QED BY <2>1 DEF FormInv, Read, ReadBack
<1>7. CASE WriteJson
  <2> DEFINE made == JsonFromCompleteTransaction(tx)
  <2>1. /\ document = NULL /\ made.result = "SUCCESS" /\ document' = made.value
        /\ UNCHANGED <<decoding, tx, reading, target>> /\ decoding # NULL
    BY <1>7 DEF WriteJson
  <2>2. document' = JObject(AddCompleteTransaction(tx)) /\ tx.transaction_type \in LaidOut
    BY <2>1 DEF JsonFromCompleteTransaction, Success, Failure
  <2>3. reading = NULL /\ reading' = NULL
    BY <2>1 DEF FormInv
  <2> HIDE DEF made
  <2> QED BY <2>1, <2>2, <2>3 DEF FormInv, Read, ReadBack
<1>8. ASSUME NEW edit, NEW emptyMemo, ReadJson(edit, emptyMemo) PROVE FormInv'
  BY <1>8, ReadJsonForms
<1>9. CASE ReadOutOfMemory
  <2>1. /\ document # NULL /\ reading'.result = "OUT_OF_MEMORY"
        /\ UNCHANGED <<decoding, tx, document>>
    BY <1>9 DEF ReadOutOfMemory
  <2> QED BY <2>1 DEF FormInv, Read, ReadBack
<1>10. CASE Release
  BY <1>10 DEF Release, FormInv, Blank, Read, ReadBack
<1>11. CASE UNCHANGED vars
  BY <1>11, FormOtherwise DEF vars
<1> QED BY <1>1, <1>2, <1>3, <1>4, <1>5, <1>6, <1>7, <1>8, <1>9, <1>10, <1>11 DEF Next

-----------------------------------------------------------------------------
(* A transaction that was decoded as it was composed.                      *)

\* What a decoder made of a composition that nothing happened to.
LEMMA ReadAsSent ==
  ASSUME NullIsNoRecord, CodecInv, Read, arrived.kind = "unchanged"
  PROVE  /\ decoding.wire = WireIn(composed.confirmed, decoding.room)
         /\ decoding.body = BodyIn(composed.body, decoding.room)
         /\ IsTransactionBody(composed.body) /\ IsConfirmedTransaction(composed.confirmed)
         /\ IsMemoryBlock(composed.confirmed.transaction.body_bytes)
<1> DEFINE w == composed.confirmed
           size == EncodedSize(BodySent)
           block == w.transaction.body_bytes
<1>1. /\ decoding.wire = WireIn(w, decoding.room)
      /\ decoding.body = BodyIn(composed.body, decoding.room)
      /\ IsTransactionBody(composed.body) /\ IsConfirmedTransaction(w) /\ Signed
  BY ArrivesAsSent DEF Read
<1>2. size \in 1..MaxAlloc /\ block = BytesOf(size, BodySent)
  BY <1>1 DEF Signed
<1> HIDE DEF size, block
<1>3. block.size = size /\ block.data = BodySent
  BY <1>2 DEF BytesOf
<1> QED BY <1>1, <1>2, <1>3 DEF IsMemoryBlock, block

LEMMA AnchorFormed ==
  ASSUME NEW anchor, IsLedgerAnchor(anchor)
  PROVE  AnchorForm(anchor)
BY DEF IsLedgerAnchor, AnchorForm, Int32, IsHieroId, HieroForm, IsTimestamp

LEMMA ListsFormed ==
  ASSUME NEW list, list \in Seq(Range(list))
  PROVE  Listed(list) /\ DOMAIN list = 1..Len(list)
BY ListIsIndexed DEF Listed

LEMMA NothingListed == Listed(<<>>) /\ Len(<<>>) = 0
BY DEF Listed

\* What a part of the wire form becomes.
LEMMA PartFormed ==
  ASSUME NEW type \in LaidOut, NEW part, IsPart(type, part)
  PROVE  DetailForm(type, Detail(type, part)) /\ ContextForm(type, Context(type, part))
<1>1. CASE type = "transfer"
  <2>1. part.sender.community_uuid # NULL
    BY <1>1 DEF IsPart, IsTransfer, IsTransferAmount
  <2>2. TransferForm(CopyTransfer(part))
    BY <2>1 DEF TransferForm, CopyTransfer
  <2> QED BY <1>1, <2>2 DEF DetailForm, ContextForm, Detail, Context, TransferTypes
<1>2. CASE type = "creation"
  <2>2. TransferForm(CopyCreation(part))
    BY NilAssumption DEF TransferForm, CopyCreation
  <2> QED BY <1>2, <2>2 DEF DetailForm, ContextForm, Detail, Context, TransferTypes
<1>3. CASE type = "register_address"
  <2>1. part.derivation_index \in Nat
    BY <1>3 DEF IsPart, Uint32
  <2>2. RegistrationForm(CopyRegisterAddress(part))
    BY DEF RegistrationForm, CopyRegisterAddress
  <2> QED BY <1>3, <2>1, <2>2 DEF DetailForm, ContextForm, Detail, Context, TransferTypes
<1>4. CASE type \in {"deferred_transfer", "redeem_deferred"}
  <2>1. part.transfer.sender.community_uuid # NULL
    BY <1>4 DEF IsPart, IsTransfer, IsTransferAmount
  <2>2. TransferForm(CopyTransfer(part.transfer))
    BY <2>1 DEF TransferForm, CopyTransfer
  <2>3. type = "redeem_deferred" => part.deferred_transfer_transaction_nr \in Nat
    BY <1>4 DEF IsPart
  <2>4. DetailForm(type, Detail(type, part))
    BY <1>4, <2>2 DEF DetailForm, Detail
  <2>5. ContextForm(type, Context(type, part))
    BY <1>4, <2>3 DEF ContextForm, Context
  <2> QED BY <2>4, <2>5
<1>5. CASE type = "timeout_deferred"
  <2>1. part.deferred_transfer_transaction_nr \in Nat
    BY <1>5 DEF IsPart
  <2> QED BY <1>5, <2>1 DEF DetailForm, ContextForm, Detail, Context, TransferTypes
<1>6. CASE type = "community_root"
  <2>2. RootForm(CopyCommunityRoot(part))
    BY DEF RootForm, CopyCommunityRoot
  <2> QED BY <1>6, <2>2 DEF DetailForm, ContextForm, Detail, Context, TransferTypes
<1> QED BY <1>1, <1>2, <1>3, <1>4, <1>5, <1>6 DEF LaidOut

\* What is left of a message when some lists found no room is still of its form.
LEMMA WireFormed ==
  ASSUME NEW w, IsConfirmedTransaction(w), IsMemoryBlock(w.transaction.body_bytes), NEW room
  PROVE  LET in == WireIn(w, room)
         IN  /\ in.id = w.id /\ in.id \in Nat /\ in.running_hash = w.running_hash
             /\ in.confirmed_at = w.confirmed_at /\ IsTimestamp(in.confirmed_at)
             /\ in.ledger_anchor = w.ledger_anchor /\ IsLedgerAnchor(in.ledger_anchor)
             /\ in.transaction.pairing_ledger_anchor = w.transaction.pairing_ledger_anchor
             /\ IsLedgerAnchor(in.transaction.pairing_ledger_anchor)
             /\ in.transaction.body_bytes = w.transaction.body_bytes
             /\ Listed(in.account_balances) /\ Listed(in.transaction.sig_map)
             /\ \A i \in 1..Len(in.account_balances) : BalanceForm(in.account_balances[i])
             /\ \A i \in 1..Len(in.transaction.sig_map) : SignatureForm(in.transaction.sig_map[i])
<1> DEFINE in == WireIn(w, room)
           transaction == SignedIn(w.transaction, room)
           balances == IF "account_balances" \in room THEN w.account_balances ELSE <<>>
           pairs == IF "sig_pair" \in room THEN w.transaction.sig_map ELSE <<>>
<1>1. IsGradidoTransaction(w.transaction)
  BY DEF IsConfirmedTransaction
<1>2. /\ transaction.sig_map = pairs
      /\ transaction.pairing_ledger_anchor = w.transaction.pairing_ledger_anchor
      /\ transaction.body_bytes = w.transaction.body_bytes
  <2> DEFINE t == w.transaction
  <2>1. IsGradidoTransaction(t)
    BY <1>1
  <2> HIDE DEF t
  <2> QED BY <2>1 DEF SignedIn, IsGradidoTransaction, t
<1>3. /\ in.id = w.id /\ in.running_hash = w.running_hash /\ in.confirmed_at = w.confirmed_at
      /\ in.ledger_anchor = w.ledger_anchor /\ in.transaction = transaction
      /\ in.account_balances = balances
  <2> HIDE DEF transaction
  <2>1. in = [[w EXCEPT !.transaction = transaction] EXCEPT !.account_balances = balances]
    BY DEF IsConfirmedTransaction, WireIn, transaction
  <2> HIDE DEF in, balances
  <2> QED BY <2>1 DEF IsConfirmedTransaction
<1>4. Listed(balances) /\ \A i \in 1..Len(balances) : BalanceForm(balances[i])
  <2>1. /\ Listed(w.account_balances) /\ DOMAIN w.account_balances = 1..Len(w.account_balances)
        /\ \A i \in DOMAIN w.account_balances : IsAccountBalance(w.account_balances[i])
    BY ListsFormed DEF IsConfirmedTransaction, IsListOf
  <2>2. \A i \in 1..Len(w.account_balances) : BalanceForm(w.account_balances[i])
    BY <2>1 DEF IsAccountBalance, BalanceForm
  <2> QED BY <2>1, <2>2, NothingListed
<1>5. Listed(pairs) /\ \A i \in 1..Len(pairs) : SignatureForm(pairs[i])
  <2> DEFINE list == w.transaction.sig_map
  <2>1. Listed(list) /\ DOMAIN list = 1..Len(list) /\ \A i \in DOMAIN list : IsSignaturePair(list[i])
    BY <1>1, ListsFormed DEF IsGradidoTransaction, IsListOf
  <2>2. \A i \in 1..Len(list) : SignatureForm(list[i])
    BY <2>1 DEF IsSignaturePair, SignatureForm
  <2> QED BY <2>1, <2>2, NothingListed
<1>6. /\ w.id \in Nat /\ IsTimestamp(w.confirmed_at) /\ IsLedgerAnchor(w.ledger_anchor)
      /\ IsLedgerAnchor(w.transaction.pairing_ledger_anchor)
  BY <1>1 DEF IsConfirmedTransaction, IsGradidoTransaction
<1> HIDE DEF in, transaction, balances, pairs
<1> QED BY <1>2, <1>3, <1>4, <1>5, <1>6 DEF in

LEMMA BodyFormed ==
  ASSUME NEW w, IsTransactionBody(w), NEW room
  PROVE  LET in == BodyIn(w, room)
         IN  /\ in.created_at = w.created_at /\ IsTimestamp(in.created_at)
             /\ in.type = w.type /\ in.transaction_type = w.transaction_type /\ in.data = w.data
             /\ in.other_community_uuid = w.other_community_uuid
             /\ IsPart(in.transaction_type, in.data)
             /\ Listed(in.memos) /\ \A i \in 1..Len(in.memos) : MemoForm(in.memos[i])
<1> DEFINE in == BodyIn(w, room)
           memos == IF "memos" \in room THEN w.memos ELSE <<>>
<1>1. /\ in.created_at = w.created_at /\ in.type = w.type
      /\ in.transaction_type = w.transaction_type /\ in.data = w.data
      /\ in.other_community_uuid = w.other_community_uuid /\ in.memos = memos
  <2>1. in = [w EXCEPT !.memos = memos]
    BY DEF IsTransactionBody, BodyIn
  <2> HIDE DEF in, memos
  <2> QED BY <2>1 DEF IsTransactionBody
<1>2. Listed(memos) /\ \A i \in 1..Len(memos) : MemoForm(memos[i])
  <2>1. /\ Listed(w.memos) /\ DOMAIN w.memos = 1..Len(w.memos)
        /\ \A i \in DOMAIN w.memos : IsEncryptedMemo(w.memos[i])
    BY ListsFormed DEF IsTransactionBody, IsListOf
  <2>2. \A i \in 1..Len(w.memos) : MemoForm(w.memos[i])
    BY <2>1 DEF IsEncryptedMemo, MemoForm
  <2> QED BY <2>1, <2>2, NothingListed
<1>3. IsTimestamp(w.created_at) /\ IsPart(w.transaction_type, w.data)
  BY DEF IsTransactionBody
<1> HIDE DEF in, memos
<1> QED BY <1>1, <1>2, <1>3 DEF in

LEMMA MadeIsFormed ==
  ASSUME NEW t, NEW b, IsTransactionBody(b), NEW w, IsConfirmedTransaction(w),
         IsMemoryBlock(w.transaction.body_bytes), NEW room,
         MadeOf(t, BodyIn(b, room), WireIn(w, room))
  PROVE  DecodedForm(t)
<1> DEFINE body == BodyIn(b, room)
           wire == WireIn(w, room)
<1>1. /\ IsTimestamp(body.created_at) /\ IsPart(body.transaction_type, body.data)
      /\ Listed(body.memos) /\ \A i \in 1..Len(body.memos) : MemoForm(body.memos[i])
  BY BodyFormed
<1>2. /\ wire.id \in Nat /\ IsTimestamp(wire.confirmed_at) /\ IsLedgerAnchor(wire.ledger_anchor)
      /\ IsLedgerAnchor(wire.transaction.pairing_ledger_anchor)
      /\ IsMemoryBlock(wire.transaction.body_bytes)
      /\ Listed(wire.account_balances) /\ Listed(wire.transaction.sig_map)
      /\ \A i \in 1..Len(wire.account_balances) : BalanceForm(wire.account_balances[i])
      /\ \A i \in 1..Len(wire.transaction.sig_map) : SignatureForm(wire.transaction.sig_map[i])
  BY WireFormed
<1> HIDE DEF body, wire
<1>3. MadeOf(t, body, wire)
  BY DEF body, wire
<1>4. PartsForm(t)
  BY <1>1, <1>3, PartFormed DEF MadeOf, PartsForm
<1>5. ListsForm(t)
  <2>1. /\ t.account_balances = wire.account_balances /\ t.encrypted_memos = body.memos
        /\ t.signature_pairs = wire.transaction.sig_map
    BY <1>3 DEF MadeOf
  <2> QED BY <1>1, <1>2, <2>1 DEF ListsForm
<1>6. EnvelopeForm(t)
  <2>1. /\ AnchorForm(wire.ledger_anchor) /\ AnchorForm(wire.transaction.pairing_ledger_anchor)
    BY <1>2, AnchorFormed
  <2>2. /\ t.tx_nr = wire.id /\ t.confirmed_at = wire.confirmed_at
        /\ t.created_at = body.created_at /\ t.tx_community_uuid = Community
        /\ t.ledger_anchor = wire.ledger_anchor /\ t.transaction_type \in LaidOut
        /\ t.pairing_ledger_anchor # NULL =>
             t.pairing_ledger_anchor = wire.transaction.pairing_ledger_anchor
        /\ t.body_bytes = wire.transaction.body_bytes
    BY <1>3 DEF MadeOf
  <2>3. /\ wire.confirmed_at = [seconds |-> wire.confirmed_at.seconds,
                                nanos |-> wire.confirmed_at.nanos]
        /\ body.created_at = [seconds |-> body.created_at.seconds,
                              nanos |-> body.created_at.nanos]
    BY <1>1, <1>2 DEF IsTimestamp
  <2> QED BY <1>2, <2>1, <2>2, <2>3, CommunityAssumption DEF EnvelopeForm
<1> QED BY <1>4, <1>5, <1>6 DEF DecodedForm

-----------------------------------------------------------------------------
(* What the getters answer.                                                *)

\* Those that go by the type.
LEMMA TypedGettersAnswer ==
  ASSUME NEW u, NEW body, body.transaction_type \in LaidOut,
         u.transaction_type = body.transaction_type,
         u.detail = Detail(body.transaction_type, body.data),
         u.context = Context(body.transaction_type, body.data)
  PROVE  LET type == body.transaction_type
             keys == KeysOf(body)
         IN  /\ GetSenderPublicKey(u) = IF type \in TransferTypes THEN keys[1] ELSE NULL
             /\ GetRecipientPublicKey(u) =
                  IF type \in TransferTypes \cup {"creation"} THEN Last(keys) ELSE NULL
             /\ GetRegisteredAccount(u) = IF type = "register_address" THEN keys[3] ELSE NULL
             /\ GetAmount(u) = CASE type = "transfer" -> body.data.sender.amount
                                 [] type \in {"deferred_transfer", "redeem_deferred"} ->
                                      body.data.transfer.sender.amount
                                 [] type = "creation" -> body.data.recipient.amount
                                 [] OTHER -> 0
             /\ GetTargetDate(u) = IF type = "creation" THEN body.data.target_date.seconds ELSE 0
             /\ GetTimeoutDuration(u) =
                  IF type = "deferred_transfer" THEN body.data.timeout_duration ELSE 0
<1> DEFINE type == body.transaction_type
           part == body.data
           keys == KeysOf(body)
<1>1. keys = PartKeys(type, part) /\ u.transaction_type = type
  BY PartKeysAre
<1>2. /\ \A a, b : Last(<<a, b>>) = b
      /\ \A a : Last(<<a>>) = a
  BY DEF Last
<1> HIDE DEF keys
<1>3. CASE type = "transfer"
  <2>1. keys = <<part.sender.pubkey, part.recipient>>
    BY <1>1, <1>3, PartKeysAre
  <2>2. /\ u.detail.sender_pubkey = part.sender.pubkey /\ u.detail.recipient_pubkey = part.recipient
        /\ u.detail.amount = part.sender.amount
    BY <1>3 DEF Detail, CopyTransfer
  <2>3. keys[1] = part.sender.pubkey /\ Last(keys) = part.recipient
    BY <1>2, <2>1
  <2> QED BY <1>1, <1>3, <2>2, <2>3 DEF keys, GetSenderPublicKey, GetRecipientPublicKey,
             GetRegisteredAccount, GetAmount, GetTargetDate, GetTimeoutDuration, TransferTypes
<1>4. CASE type = "creation"
  <2>1. keys = <<part.recipient.pubkey>>
    BY <1>1, <1>4, PartKeysAre
  <2>2. /\ u.detail.recipient_pubkey = part.recipient.pubkey
        /\ u.detail.amount = part.recipient.amount
        /\ u.context.target_date = part.target_date.seconds
    BY <1>4 DEF Detail, CopyCreation, Context
  <2>3. Last(keys) = part.recipient.pubkey
    BY <1>2, <2>1
  <2> QED BY <1>1, <1>4, <2>2, <2>3 DEF keys, GetSenderPublicKey, GetRecipientPublicKey,
             GetRegisteredAccount, GetAmount, GetTargetDate, GetTimeoutDuration, TransferTypes
<1>5. CASE type \in {"deferred_transfer", "redeem_deferred"}
  <2> DEFINE transfer == part.transfer
  <2>1. keys = <<transfer.sender.pubkey, transfer.recipient>>
    BY <1>1, <1>5, PartKeysAre
  <2>2. /\ u.detail.sender_pubkey = transfer.sender.pubkey
        /\ u.detail.recipient_pubkey = transfer.recipient
        /\ u.detail.amount = transfer.sender.amount
        /\ type = "deferred_transfer" => u.context.timeout_duration = part.timeout_duration
    BY <1>5 DEF Detail, CopyTransfer, Context
  <2>3. keys[1] = transfer.sender.pubkey /\ Last(keys) = transfer.recipient
    BY <1>2, <2>1
  <2> QED BY <1>1, <1>5, <2>2, <2>3 DEF keys, GetSenderPublicKey, GetRecipientPublicKey,
             GetRegisteredAccount, GetAmount, GetTargetDate, GetTimeoutDuration, TransferTypes
<1>6. CASE type = "register_address"
  <2>1. keys = <<part.user_pubkey, part.name_hash, part.account_pubkey>>
    BY <1>1, <1>6, PartKeysAre
  <2>2. u.detail.account_public_key = part.account_pubkey
    BY <1>6 DEF Detail, CopyRegisterAddress
  <2>3. keys[3] = part.account_pubkey
    BY <2>1
  <2> QED BY <1>1, <1>6, <2>2, <2>3 DEF keys, GetSenderPublicKey, GetRecipientPublicKey,
             GetRegisteredAccount, GetAmount, GetTargetDate, GetTimeoutDuration, TransferTypes
<1>7. CASE type \in {"timeout_deferred", "community_root"}
  BY <1>1, <1>7 DEF GetSenderPublicKey, GetRecipientPublicKey,
             GetRegisteredAccount, GetAmount, GetTargetDate, GetTimeoutDuration, TransferTypes
<1> QED BY <1>3, <1>4, <1>5, <1>6, <1>7 DEF LaidOut

\* That of a balance: the first with its key is one with its key.
LEMMA BalanceIsFound ==
  ASSUME NEW u, Listed(u.account_balances), NEW b \in Range(u.account_balances)
  PROVE  GetAccountBalanceForPublicKey(u, b.pubkey).pubkey = b.pubkey
<1> DEFINE list == u.account_balances
           key == b.pubkey
           own == {i \in DOMAIN list : list[i].pubkey = key}
           first == CHOOSE i \in own : \A j \in own : i <= j
<1>1. DOMAIN list = 1..Len(list) /\ Len(list) \in Nat
  BY DEF Listed
<1>2. own # {} /\ own \subseteq Nat
  <2>1. PICK i \in DOMAIN list : list[i] = b
    BY DEF Range
  <2>2. i \in own
    BY <2>1
  <2> QED BY <1>1, <2>2
<1> HIDE DEF list
<1>3. \E i \in own : \A j \in own : i <= j
  <2> HIDE DEF own
  <2> QED BY <1>2, LeastNumber
<1>4. first \in own
  <2> HIDE DEF own
  <2> QED BY <1>3
<1>5. GetAccountBalanceForPublicKey(u, key) = list[first]
  BY <1>2 DEF GetAccountBalanceForPublicKey, list
<1> QED BY <1>4, <1>5

\* Those of an anchor that has a name: its own kind answers, and the other says 0.
LEMMA AnchorGettersAnswer ==
  ASSUME NEW anchor, AnchorForm(anchor), Spoken(anchor), NullIsNoRecord
  PROVE  /\ GetHieroTransactionId(anchor) =
              IF anchor.type = Hiero THEN anchor.hiero_transaction_id ELSE NULL
         /\ anchor.type \notin {Unspecified, Hiero} =>
              {GetLegacyId(anchor), GetNodeTriggerId(anchor)} = {anchor.id, 0}
<1>1. anchor.type \in {0} \cup 2..8
  BY SpokenTypes
<1>2. anchor # NULL
  <2>1. CASE anchor.type = Hiero
    BY <2>1, RecordIsThere DEF AnchorForm
  <2>2. CASE anchor.type # Hiero
    BY <2>2, RecordIsThere DEF AnchorForm
  <2> QED BY <2>1, <2>2
<1>3. ASSUME anchor.type \notin {Unspecified, Hiero}
      PROVE  anchor.type = NodeTrigger \/ anchor.type \in LegacyTypes
  BY <1>1, <1>3 DEF Unspecified, Hiero, NodeTrigger, LegacyTypes
<1>4. NodeTrigger \notin LegacyTypes
  BY DEF NodeTrigger, LegacyTypes
<1> QED BY <1>2, <1>3, <1>4 DEF GetHieroTransactionId, IsHieroTransactionId, GetLegacyId, IsLegacy,
           GetNodeTriggerId, IsNodeTriggerTransactionId

-----------------------------------------------------------------------------
(* So a host that asks is told what was composed.                          *)

LEMMA GettersAnswer ==
  ASSUME NullIsNoRecord, CodecInv, FormInv
  PROVE  GettersAnswerTheBody
<1> SUFFICES ASSUME ReadBack, Unedited, arrived.kind = "unchanged", Expressible(tx)
             PROVE  GettersAnswerTheBody
  BY DEF GettersAnswerTheBody
<1> DEFINE b == composed.body
           w == composed.confirmed
           room == decoding.room
           body == BodyIn(b, room)
           wire == WireIn(w, room)
<1>1. /\ document = JObject(AddCompleteTransaction(tx)) /\ tx.transaction_type \in LaidOut
      /\ Read /\ MadeOf(tx, decoding.body, decoding.wire)
  <2>1. reading # NULL
    BY DEF ReadBack
  <2> QED BY <2>1, NoneIsNotLaidOut DEF FormInv
<1>2. /\ decoding.wire = wire /\ decoding.body = body
      /\ IsTransactionBody(b) /\ IsConfirmedTransaction(w)
      /\ IsMemoryBlock(w.transaction.body_bytes)
  BY <1>1, ReadAsSent
<1>3. MadeOf(tx, body, wire)
  BY <1>1, <1>2
<1>4. DecodedForm(tx)
  BY <1>2, <1>3, MadeIsFormed
<1>5. SameParts(target, tx)
  <2> DEFINE ReadWith(emptyMemo) == ReadDocument(JObject(AddCompleteTransaction(tx)), emptyMemo)
             sized == SizedFrom(tx)
  <2>1. PICK emptyMemo : /\ ReadWith(emptyMemo).result = "SUCCESS"
                         /\ target = ReadWith(emptyMemo).value
    <3>1. Edited(document, reading.edit) = document
      BY DEF Edited, Unedited
    <3> QED BY <1>1, <3>1 DEF FormInv
  <2> DEFINE read == ReadWith(emptyMemo)
  <2>2. read.result = "SUCCESS" /\ target = read.value
    BY <2>1
  <2>3. sized.result = "SUCCESS"
    BY <1>4, <2>2, DocumentIsRead
  <2>4. PICK made : /\ SameParts(made, tx) /\ DOMAIN made = DOMAIN Blank
                    /\ read = [result |-> FilledFrom(sized.value.size, Blank, made).result,
                               value |-> FilledFrom(sized.value.size, Blank, made).tx]
    BY <1>4, <2>2, <2>3, DocumentIsRead
  <2> HIDE DEF read, sized
  <2>5. /\ FilledFrom(sized.value.size, Blank, made).result = "SUCCESS"
        /\ target = FilledFrom(sized.value.size, Blank, made).tx
    BY <2>2, <2>4
  <2>6. SameParts(target, made)
    BY <2>4, <2>5, FilledKeepsTheParts
  <2> QED BY <2>4, <2>6 DEF SameParts
<1>6. /\ body.transaction_type = b.transaction_type /\ body.data = b.data /\ body.type = b.type
      /\ body.other_community_uuid = b.other_community_uuid
      /\ wire.ledger_anchor = w.ledger_anchor
  BY <1>2, BodyFormed, WireFormed
<1> HIDE DEF body, wire
<1>7. /\ b.transaction_type \in LaidOut /\ target.transaction_type = b.transaction_type
      /\ target.detail = Detail(b.transaction_type, b.data)
      /\ target.context = Context(b.transaction_type, b.data)
      /\ target.cross_group_type = b.type /\ target.tx_community_uuid = Community
      /\ target.tx_pairing_community_uuid = b.other_community_uuid
      /\ target.ledger_anchor = w.ledger_anchor
      /\ target.account_balances = tx.account_balances /\ target.ledger_anchor = tx.ledger_anchor
  BY <1>3, <1>5, <1>6 DEF MadeOf, SameParts
<1>8. /\ b.type = Outbound =>
           /\ GetSenderCommunityUuid(target) = Community
           /\ GetRecipientCommunityUuid(target) = b.other_community_uuid
      /\ b.type = Inbound =>
           /\ GetSenderCommunityUuid(target) = b.other_community_uuid
           /\ GetRecipientCommunityUuid(target) = Community
  BY <1>7 DEF GetSenderCommunityUuid, GetRecipientCommunityUuid, Local, Inbound, Outbound
<1>9. \A balance \in Range(target.account_balances) :
        GetAccountBalanceForPublicKey(target, balance.pubkey).pubkey = balance.pubkey
  <2>1. Listed(target.account_balances)
    BY <1>4, <1>7 DEF DecodedForm, ListsForm
  <2> QED BY <2>1, BalanceIsFound
<1>10. /\ GetHieroTransactionId(target.ledger_anchor) =
            IF w.ledger_anchor.type = Hiero THEN w.ledger_anchor.hiero_transaction_id ELSE NULL
       /\ w.ledger_anchor.type \notin {Unspecified, Hiero} =>
            {GetLegacyId(target.ledger_anchor), GetNodeTriggerId(target.ledger_anchor)}
              = {w.ledger_anchor.id, 0}
  <2>1. AnchorForm(tx.ledger_anchor) /\ Spoken(tx.ledger_anchor)
    BY <1>4, ExpressibleParts DEF DecodedForm, EnvelopeForm
  <2> QED BY <1>7, <2>1, AnchorGettersAnswer
<1> HIDE DEF b, w
<1>11. /\ GetSenderPublicKey(target) =
            IF b.transaction_type \in TransferTypes THEN KeysOf(b)[1] ELSE NULL
       /\ GetRecipientPublicKey(target) =
            IF b.transaction_type \in TransferTypes \cup {"creation"} THEN Last(KeysOf(b)) ELSE NULL
       /\ GetRegisteredAccount(target) =
            IF b.transaction_type = "register_address" THEN KeysOf(b)[3] ELSE NULL
       /\ GetAmount(target) = CASE b.transaction_type = "transfer" -> b.data.sender.amount
                                [] b.transaction_type \in {"deferred_transfer", "redeem_deferred"} ->
                                     b.data.transfer.sender.amount
                                [] b.transaction_type = "creation" -> b.data.recipient.amount
                                [] OTHER -> 0
       /\ GetTargetDate(target) =
            IF b.transaction_type = "creation" THEN b.data.target_date.seconds ELSE 0
       /\ GetTimeoutDuration(target) =
            IF b.transaction_type = "deferred_transfer" THEN b.data.timeout_duration ELSE 0
  BY <1>7, TypedGettersAnswer
<1> QED BY <1>8, <1>9, <1>10, <1>11 DEF GettersAnswerTheBody, b, w

\* Asked of what was read back from an unedited document, the getters answer what the host
\* assembled, for every composition that nothing happened to on its way (GettersAnswerTheBody:
\* json_from_runtime.c, runtime_from_json.c and the getters of complete_transaction.c and
\* ledger_anchor.c).
THEOREM GettersTellWhatWasComposed ==
  ASSUME NullIsNoRecord
  PROVE  Spec => []GettersAnswerTheBody
<1> DEFINE Inv == CodecInv /\ FormInv
<1>1. Init => Inv
  BY CodecInitially, FormInitially
<1>2. Inv /\ [Next]_vars => Inv'
  BY CodecKept, FormKept
<1>3. Inv => GettersAnswerTheBody
  BY GettersAnswer
<1> QED BY <1>1, <1>2, <1>3, PTL DEF Spec

===============================================================================
