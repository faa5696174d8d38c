------------------------------ MODULE CodecProofs ------------------------------
(***************************************************************************)
(* What is sent is received: every transaction of the wire form, encoded   *)
(* and decoded, is the one that was composed; a number that is peeked is   *)
(* the one that is decoded; and a changed message that is read names no    *)
(* key but those that were sent.                                           *)
(*                                                                         *)
(* A message is written as pieces one after the other, each under numbers  *)
(* of its own, so that what is read under a number is what its piece says. *)
(***************************************************************************)
EXTENDS CodecAnswers, FiniteSetTheorems, SequenceTheorems, CountingProofs

-----------------------------------------------------------------------------
(* Pieces.                                                                 *)

Sequence(f) == f \in Seq({f[i] : i \in DOMAIN f})

\* A sequence of fields with numbers out of these.
Piece(f, numbers) ==
  /\ Sequence(f)
  /\ \A i \in DOMAIN f : Number(f[i]) \in numbers

\* Two sequences of fields that say the same of these numbers.
Same(f, g, numbers) ==
  \/ Places(f, numbers) = {} /\ Places(g, numbers) = {}
  \/ /\ Places(f, numbers) # {} /\ Places(g, numbers) # {}
     /\ LastOf(f, numbers) = LastOf(g, numbers)

\* Sequences one after the other.
LEMMA Joined ==
  ASSUME NEW f, NEW g, Sequence(f), Sequence(g)
  PROVE  /\ Len(f) \in Nat /\ DOMAIN f = 1..Len(f)
         /\ Len(g) \in Nat /\ DOMAIN g = 1..Len(g)
         /\ Len(f \o g) = Len(f) + Len(g) /\ DOMAIN (f \o g) = 1..Len(f) + Len(g)
         /\ \A i \in 1..Len(f) : (f \o g)[i] = f[i]
         /\ \A i \in 1..Len(g) : (f \o g)[Len(f) + i] = g[i]
         /\ Sequence(f \o g)
<1> DEFINE A == {f[i] : i \in DOMAIN f}
           B == {g[i] : i \in DOMAIN g}
           C == A \cup B
<1>1. f \in Seq(C) /\ g \in Seq(C)
  <2>1. f \in Seq(A) /\ g \in Seq(B)
    BY DEF Sequence
  <2> HIDE DEF A, B
  <2> QED BY <2>1
<1> HIDE DEF C
<1>2. /\ Len(f) \in Nat /\ DOMAIN f = 1..Len(f)
      /\ Len(g) \in Nat /\ DOMAIN g = 1..Len(g)
      /\ Len(f \o g) = Len(f) + Len(g) /\ DOMAIN (f \o g) = 1..Len(f) + Len(g)
      /\ f \o g \in Seq(C)
  BY <1>1
<1>3. /\ \A i \in 1..Len(f) : (f \o g)[i] = f[i]
      /\ \A i \in 1..Len(g) : (f \o g)[Len(f) + i] = g[i]
  BY <1>1, <1>2
<1>4. Sequence(f \o g)
  <2> DEFINE h == f \o g
  <2>1. h \in Seq(C) /\ Len(h) \in Nat /\ DOMAIN h = 1..Len(h)
    BY <1>2
  <2> HIDE DEF h
  <2> DEFINE D == {h[i] : i \in DOMAIN h}
  <2>2. \A i \in 1..Len(h) : h[i] \in D
    BY <2>1
  <2> HIDE DEF D
  <2>3. h \in Seq(D)
    BY <2>1, <2>2
  <2> QED BY <2>3 DEF h, D, Sequence
<1> QED BY <1>2, <1>3, <1>4

\* The field that LastOf finds.
LEMMA LastIs ==
  ASSUME NEW f, NEW n \in Nat, DOMAIN f = 1..n, NEW numbers,
         NEW last \in Places(f, numbers), \A j \in Places(f, numbers) : j <= last
  PROVE  LastOf(f, numbers) = f[last]
<1>1. Places(f, numbers) \subseteq 1..n
  BY DEF Places
<1>2. \A i \in Places(f, numbers) : (\A j \in Places(f, numbers) : j <= i) => i = last
  BY <1>1
<1> HIDE DEF Places
<1>3. (CHOOSE i \in Places(f, numbers) : \A j \in Places(f, numbers) : j <= i) = last
  BY <1>2
<1> QED BY <1>3 DEF LastOf

\* There is one where there is any.
LEMMA LastThere ==
  ASSUME NEW f, NEW n \in Nat, DOMAIN f = 1..n, NEW numbers, Places(f, numbers) # {}
  PROVE  \E last \in Places(f, numbers) : \A j \in Places(f, numbers) : j <= last
<1> DEFINE P == Places(f, numbers)
<1>1. P \subseteq 1..n /\ P # {}
  BY DEF Places
<1> HIDE DEF P
<1>2. \E last \in P : \A j \in P : j <= last
  <2> DEFINE Q == {n - i : i \in P}
  <2>1. Q \in SUBSET Nat /\ Q # {}
    <3>1. \A i \in P : n - i \in Nat
      BY <1>1
    <3>2. PICK i \in P : TRUE
      BY <1>1
    <3> QED BY <3>1, <3>2
  <2>2. PICK q \in Q : \A r \in Q : q <= r
    <3> HIDE DEF Q
    <3> QED BY <2>1, LeastNumber
  <2>3. PICK last \in P : q = n - last
    OBVIOUS
  <2>4. ASSUME NEW j \in P PROVE j <= last
    <3>1. n - j \in Q
      OBVIOUS
    <3>2. n - last <= n - j
      BY <2>2, <2>3, <3>1
    <3> QED BY <1>1, <3>2
  <2> QED BY <2>4
<1> QED BY <1>2 DEF P

\* Two pieces with different numbers: each is read as if it were alone.
LEMMA Apart ==
  ASSUME NEW f, NEW g, NEW A, NEW B, Piece(f, A), Piece(g, B), A \cap B = {}
  PROVE  /\ Piece(f \o g, A \cup B)
         /\ \A N \in SUBSET A : Same(f \o g, f, N)
         /\ \A N \in SUBSET B : Same(f \o g, g, N)
<1> DEFINE h == f \o g
           m == Len(f)
           n == Len(g)
<1>1. /\ m \in Nat /\ DOMAIN f = 1..m
      /\ n \in Nat /\ DOMAIN g = 1..n
      /\ DOMAIN h = 1..m + n
      /\ \A i \in 1..m : h[i] = f[i]
      /\ \A i \in 1..n : h[m + i] = g[i]
      /\ Sequence(h)
  <2>1. Sequence(f) /\ Sequence(g)
    BY DEF Piece
  <2> QED BY <2>1, Joined
<1> HIDE DEF h, m, n
<1>2. /\ \A i \in 1..m : Number(f[i]) \in A
      /\ \A i \in 1..n : Number(g[i]) \in B
  BY <1>1 DEF Piece
<1>3. \A i \in 1..m + n : i \in 1..m \/ (i - m \in 1..n /\ h[i] = g[i - m])
  <2> SUFFICES ASSUME NEW i \in 1..m + n, i \notin 1..m
               PROVE  i - m \in 1..n /\ h[i] = g[i - m]
    OBVIOUS
  <2>1. i - m \in 1..n /\ m + (i - m) = i
    BY <1>1
  <2> QED BY <1>1, <2>1
<1>4. Piece(h, A \cup B)
  <2>1. ASSUME NEW i \in 1..m + n PROVE Number(h[i]) \in A \cup B
    <3>1. CASE i \in 1..m
      BY <1>1, <1>2, <3>1
    <3>2. CASE i \notin 1..m
      BY <1>2, <1>3, <3>2
    <3> QED BY <3>1, <3>2
  <2> QED BY <1>1, <2>1 DEF Piece
<1>5. ASSUME NEW N \in SUBSET A PROVE Same(h, f, N)
  <2>1. Places(h, N) = Places(f, N)
    <3>1. \A i \in 1..m + n : Number(h[i]) \in N => i \in 1..m
      BY <1>2, <1>3
    <3> QED BY <1>1, <3>1 DEF Places
  <2>2. CASE Places(f, N) # {}
    <3>1. PICK last \in Places(f, N) : \A j \in Places(f, N) : j <= last
      BY <1>1, <2>2, LastThere
    <3>2. LastOf(f, N) = f[last]
      BY <1>1, <3>1, LastIs
    <3>3. LastOf(h, N) = h[last]
      <4>1. m + n \in Nat
        BY <1>1
      <4> QED BY <1>1, <2>1, <3>1, <4>1, LastIs
    <3>4. h[last] = f[last]
      BY <1>1, <3>1 DEF Places
    <3> QED BY <2>1, <2>2, <3>2, <3>3, <3>4 DEF Same
  <2> QED BY <2>1, <2>2 DEF Same
<1>6. ASSUME NEW N \in SUBSET B PROVE Same(h, g, N)
  <2>1. \A i \in Places(h, N) : i - m \in Places(g, N) /\ h[i] = g[i - m] /\ i \in 1..m + n
    <3> SUFFICES ASSUME NEW i \in 1..m + n, Number(h[i]) \in N
                 PROVE  i - m \in Places(g, N) /\ h[i] = g[i - m]
      BY <1>1 DEF Places
    <3>1. i \notin 1..m
      BY <1>1, <1>2
    <3> QED BY <1>1, <1>3, <3>1 DEF Places
  <2>2. \A i \in Places(g, N) : m + i \in Places(h, N) /\ i \in 1..n
    <3> SUFFICES ASSUME NEW i \in 1..n, Number(g[i]) \in N
                 PROVE  m + i \in Places(h, N)
      BY <1>1 DEF Places
    <3>1. m + i \in 1..m + n /\ h[m + i] = g[i]
      BY <1>1
    <3> QED BY <1>1, <3>1 DEF Places
  <2>3. CASE Places(g, N) # {}
    <3>1. PICK last \in Places(g, N) : \A j \in Places(g, N) : j <= last
      BY <1>1, <2>3, LastThere
    <3>2. LastOf(g, N) = g[last]
      BY <1>1, <3>1, LastIs
    <3>3. m + last \in Places(h, N) /\ last \in 1..n
      BY <2>2
    <3>4. \A j \in Places(h, N) : j <= m + last
      BY <1>1, <2>1, <3>1, <3>3
    <3>5. LastOf(h, N) = h[m + last]
      <4>1. m + n \in Nat
        BY <1>1
      <4> QED BY <1>1, <3>3, <3>4, <4>1, LastIs
    <3>6. h[m + last] = g[last]
      BY <1>1, <3>3
    <3> QED BY <2>3, <3>2, <3>3, <3>5, <3>6 DEF Same
  <2>4. CASE Places(g, N) = {}
    BY <2>1, <2>4 DEF Same
  <2> QED BY <2>3, <2>4
<1> QED BY <1>4, <1>5, <1>6 DEF h

LEMMA SameAgain ==
  ASSUME NEW f, NEW g, NEW h, NEW N, Same(f, g, N), Same(g, h, N)
  PROVE  Same(f, h, N)
BY DEF Same

-----------------------------------------------------------------------------
(* Whole messages of several pieces.                                       *)

LEMMA Three ==
  ASSUME NEW f1, NEW f2, NEW f3, NEW A1, NEW A2, NEW A3,
         Piece(f1, A1), Piece(f2, A2), Piece(f3, A3),
         A1 \cap A2 = {}, (A1 \cup A2) \cap A3 = {}
  PROVE  LET f == f1 \o f2 \o f3
         IN  /\ Piece(f, A1 \cup A2 \cup A3)
             /\ \A N \in SUBSET A1 : Same(f, f1, N)
             /\ \A N \in SUBSET A2 : Same(f, f2, N)
             /\ \A N \in SUBSET A3 : Same(f, f3, N)
<1> DEFINE g == f1 \o f2
           f == g \o f3
<1>1. /\ Piece(g, A1 \cup A2)
      /\ \A N \in SUBSET A1 : Same(g, f1, N)
      /\ \A N \in SUBSET A2 : Same(g, f2, N)
  BY Apart
<1> HIDE DEF g
<1>2. /\ Piece(f, A1 \cup A2 \cup A3)
      /\ \A N \in SUBSET (A1 \cup A2) : Same(f, g, N)
      /\ \A N \in SUBSET A3 : Same(f, f3, N)
  BY <1>1, Apart
<1> HIDE DEF f
<1>3. \A N \in SUBSET A1 : Same(f, f1, N)
  BY <1>1, <1>2, SameAgain
<1>4. \A N \in SUBSET A2 : Same(f, f2, N)
  BY <1>1, <1>2, SameAgain
<1> QED BY <1>2, <1>3, <1>4 DEF f, g

LEMMA Five ==
  ASSUME NEW f1, NEW f2, NEW f3, NEW f4, NEW f5, NEW A1, NEW A2, NEW A3, NEW A4, NEW A5,
         Piece(f1, A1), Piece(f2, A2), Piece(f3, A3), Piece(f4, A4), Piece(f5, A5),
         A1 \cap A2 = {}, (A1 \cup A2) \cap A3 = {}, (A1 \cup A2 \cup A3) \cap A4 = {},
         (A1 \cup A2 \cup A3 \cup A4) \cap A5 = {}
  PROVE  LET f == f1 \o f2 \o f3 \o f4 \o f5
         IN  /\ Piece(f, A1 \cup A2 \cup A3 \cup A4 \cup A5)
             /\ \A N \in SUBSET A1 : Same(f, f1, N)
             /\ \A N \in SUBSET A2 : Same(f, f2, N)
             /\ \A N \in SUBSET A3 : Same(f, f3, N)
             /\ \A N \in SUBSET A4 : Same(f, f4, N)
             /\ \A N \in SUBSET A5 : Same(f, f5, N)
<1> DEFINE g == f1 \o f2 \o f3
           A == A1 \cup A2 \cup A3
           f == g \o f4 \o f5
<1>1. /\ Piece(g, A)
      /\ \A N \in SUBSET A1 : Same(g, f1, N)
      /\ \A N \in SUBSET A2 : Same(g, f2, N)
      /\ \A N \in SUBSET A3 : Same(g, f3, N)
  BY Three
<1>2. A1 \subseteq A /\ A2 \subseteq A /\ A3 \subseteq A
  OBVIOUS
<1> HIDE DEF g, A
<1>3. /\ Piece(f, A \cup A4 \cup A5)
      /\ \A N \in SUBSET A : Same(f, g, N)
      /\ \A N \in SUBSET A4 : Same(f, f4, N)
      /\ \A N \in SUBSET A5 : Same(f, f5, N)
  <2>1. A \cap A4 = {} /\ (A \cup A4) \cap A5 = {}
    BY DEF A
  <2> QED BY <1>1, <2>1, Three
<1> HIDE DEF f
<1>4. \A N \in SUBSET A1 : Same(f, f1, N)
  BY <1>1, <1>2, <1>3, SameAgain
<1>5. \A N \in SUBSET A2 : Same(f, f2, N)
  BY <1>1, <1>2, <1>3, SameAgain
<1>6. \A N \in SUBSET A3 : Same(f, f3, N)
  BY <1>1, <1>2, <1>3, SameAgain
<1> QED BY <1>3, <1>4, <1>5, <1>6 DEF f, g, A

-----------------------------------------------------------------------------
(* What a piece of its own is read as.                                     *)

\* A piece without fields.
LEMMA NoPiece ==
  /\ \A A : Piece(<<>>, A)
  /\ \A N : Places(<<>>, N) = {}
BY DEF Piece, Places, Sequence

\* A piece of one field.
LEMMA OnePiece ==
  ASSUME NEW field, NEW n \in 1..14, field.tag = n
  PROVE  /\ Piece(<<field>>, {n})
         /\ \A N : n \in N => Places(<<field>>, N) = {1} /\ LastOf(<<field>>, N) = field
<1> DEFINE f == <<field>>
<1>1. Number(field) = n
  BY FieldNumbersAssumption DEF Number
<1>2. f \in Seq({field}) /\ DOMAIN f = 1..1 /\ f[1] = field /\ {f[i] : i \in DOMAIN f} = {field}
  OBVIOUS
<1> HIDE DEF f
<1>3. Piece(f, {n})
  BY <1>1, <1>2 DEF Piece, Sequence
<1>4. ASSUME NEW N, n \in N PROVE Places(f, N) = {1} /\ LastOf(f, N) = field
  <2>1. Places(f, N) = {1}
    BY <1>1, <1>2, <1>4 DEF Places
  <2>2. LastOf(f, N) = f[1]
    BY <1>2, <2>1, LastIs
  <2> QED BY <1>2, <2>1, <2>2
<1> QED BY <1>3, <1>4 DEF f

LEMMA VarintPiece ==
  ASSUME NEW n \in 1..14, NEW value
  PROVE  /\ Piece(Varint(n, value), {n})
         /\ \A f : Same(f, Varint(n, value), {n}) => ReadVarint(f, n) = value
<1> DEFINE field == [tag |-> n, varint |-> value]
<1>1. Piece(<<field>>, {n}) /\ Places(<<field>>, {n}) = {1} /\ LastOf(<<field>>, {n}) = field
  BY OnePiece
<1>2. CASE value = 0
  BY <1>2, NoPiece DEF Varint, Same, ReadVarint, Present
<1>3. CASE value # 0
  <2>1. Varint(n, value) = <<field>>
    BY <1>3 DEF Varint, VarintAlways
  <2> QED BY <1>1, <2>1 DEF Same, ReadVarint, Present
<1> QED BY <1>2, <1>3

\* Bytes of length 0 are nothing.
LEMMA BytesPiece ==
  ASSUME NEW n \in 1..14, NEW value, value.size = 0 => value = NoBytes
  PROVE  /\ Piece(Bytes(n, value), {n})
         /\ \A f : Same(f, Bytes(n, value), {n}) => ReadBytes(f, n) = value
<1> DEFINE field == [tag |-> n, bytes |-> value]
<1>1. Piece(<<field>>, {n}) /\ Places(<<field>>, {n}) = {1} /\ LastOf(<<field>>, {n}) = field
  BY OnePiece
<1>2. CASE value.size = 0
  BY <1>2, NoPiece DEF Bytes, Same, ReadBytes, Present
<1>3. CASE value.size # 0
  <2>1. Bytes(n, value) = <<field>>
    BY <1>3 DEF Bytes, BytesAlways
  <2>2. ASSUME NEW f, Same(f, <<field>>, {n}) PROVE ReadBytes(f, n) = value
    <3>1. Places(f, {n}) # {} /\ LastOf(f, {n}) = field
      BY <1>1, <2>2 DEF Same
    <3> QED BY <3>1 DEF ReadBytes, Present
  <2> QED BY <1>1, <2>1, <2>2
<1> QED BY <1>2, <1>3

LEMMA FlagPiece ==
  ASSUME NEW n \in 1..14, NEW value \in BOOLEAN
  PROVE  /\ Piece(Flag(n, value), {n})
         /\ \A f : Same(f, Flag(n, value), {n}) => ReadFlag(f, n) = value
<1> DEFINE number == IF value THEN 1 ELSE 0
<1>1. Flag(n, value) = Varint(n, number)
  BY DEF Flag, Varint
<1>2. /\ Piece(Varint(n, number), {n})
      /\ \A f : Same(f, Varint(n, number), {n}) => ReadVarint(f, n) = number
  BY VarintPiece
<1>3. ASSUME NEW f, ReadVarint(f, n) = number PROVE ReadFlag(f, n) = value
  <2>1. number \in {0, 1} /\ (number # 0) = value
    OBVIOUS
  <2> HIDE DEF number
  <2>2. ReadInt32(f, n) = number
    <3> DEFINE half == Word \div 2
    <3>1. half \in Nat /\ half + 1 < Word
      BY WordAssumption
    <3> HIDE DEF half
    <3>2. (number + half) % Word = number + half
      BY <2>1, <3>1, WordAssumption
    <3> QED BY <1>3, <2>1, <3>1, <3>2 DEF ReadInt32, half
  <2> QED BY <2>1, <2>2 DEF ReadFlag
<1> QED BY <1>1, <1>2, <1>3

LEMMA MessagePiece ==
  ASSUME NEW n \in 1..14, NEW message
  PROVE  LET one == <<[tag |-> n, message |-> message]>>
         IN  /\ Piece(one, {n})
             /\ \A f, N : n \in N /\ Same(f, one, N) =>
                            /\ Places(f, N) # {} /\ LastOf(f, N).message = message
                            /\ Number(LastOf(f, N)) = n
<1> DEFINE field == [tag |-> n, message |-> message]
<1>1. Number(field) = n
  BY FieldNumbersAssumption DEF Number
<1>2. /\ Piece(<<field>>, {n})
      /\ \A N : n \in N => Places(<<field>>, N) = {1} /\ LastOf(<<field>>, N) = field
  BY OnePiece
<1> QED BY <1>1, <1>2 DEF Same

\* A number that an int32_t or a uint32_t holds is read as it is.
LEMMA Int32IsRead ==
  ASSUME NEW f, NEW n, ReadVarint(f, n) \in Int32
  PROVE  ReadInt32(f, n) = ReadVarint(f, n)
<1> DEFINE half == Word \div 2
           value == ReadVarint(f, n)
<1>1. half \in Nat /\ Word \in Nat \ {0}
  BY WordAssumption
<1>2. value \in Int /\ value + half \in 0..Word - 1
  BY <1>1 DEF Int32
<1> HIDE DEF half, value
<1>3. (value + half) % Word = value + half
  BY <1>1, <1>2
<1> QED BY <1>1, <1>2, <1>3 DEF ReadInt32, half, value

LEMMA Uint32IsRead ==
  ASSUME NEW f, NEW n, ReadVarint(f, n) \in Uint32
  PROVE  ReadUint32(f, n) = ReadVarint(f, n)
BY WordAssumption DEF Uint32, ReadUint32

-----------------------------------------------------------------------------
(* The small messages: written, read and made into the wire form again.    *)

\* A pointer to nothing is not a message.
NullIsNoRecord == \A members : NULL # [m \in members |-> NULL[m]]

LEMMA RecordIsThere ==
  ASSUME NullIsNoRecord, NEW members, NEW r, r = [m \in members |-> r[m]]
  PROVE  r # NULL
BY DEF NullIsNoRecord

LEMMA UuidArrives ==
  ASSUME NEW uuid
  PROVE  LET bytes == CommunityUuidFromWire(uuid)
         IN  /\ bytes.size = 0 => bytes = NoBytes
             /\ uuid # NULL => bytes.size # 0 /\ CommunityUuidFromPbtools(bytes) = Success(uuid)
             /\ uuid = NULL => bytes.size = 0
BY DEF CommunityUuidFromWire, CommunityUuidFromPbtools, UuidSize, BytesOf, NoBytes

LEMMA KeysAreThere ==
  ASSUME NEW key
  PROVE  /\ BytesOf(KeySize, key).size = KeySize /\ BytesOf(KeySize, key).data = key
         /\ BytesOf(HashSize, key).size = HashSize /\ BytesOf(HashSize, key).data = key
         /\ BytesOf(SignatureSize, key).size = SignatureSize
         /\ BytesOf(SignatureSize, key).data = key
         /\ KeySize # 0 /\ HashSize # 0 /\ SignatureSize # 0
BY DEF BytesOf, KeySize, HashSize, SignatureSize

LEMMA TimestampArrives ==
  ASSUME NullIsNoRecord, NEW w, IsTimestamp(w)
  PROVE  LET pb == TimestampFromWire(w)
         IN  /\ pb # NULL /\ DecodeTimestamp(EncodeTimestamp(pb)) = pb
             /\ TimestampFromPbtools(pb) = Success(w)
<1> DEFINE pb == TimestampFromWire(w)
           f == EncodeTimestamp(pb)
<1>1. pb = [seconds |-> w.seconds, nanos |-> w.nanos]
  BY DEF TimestampFromWire
<1>2. pb # NULL
  <2>1. pb = [m \in {"seconds", "nanos"} |-> pb[m]]
    BY <1>1
  <2> HIDE DEF pb
  <2> QED BY <2>1, RecordIsThere
<1>3. f = Varint(1, w.seconds) \o Varint(2, w.nanos)
  BY <1>1 DEF EncodeTimestamp
<1> HIDE DEF f
<1>4. /\ Piece(Varint(1, w.seconds), {1}) /\ Piece(Varint(2, w.nanos), {2})
      /\ \A g : Same(g, Varint(1, w.seconds), {1}) => ReadVarint(g, 1) = w.seconds
      /\ \A g : Same(g, Varint(2, w.nanos), {2}) => ReadVarint(g, 2) = w.nanos
  BY VarintPiece
<1>5. Same(f, Varint(1, w.seconds), {1}) /\ Same(f, Varint(2, w.nanos), {2})
  <2>1. {1} \cap {2} = {}
    OBVIOUS
  <2> QED BY <2>1, <1>3, <1>4, Apart
<1>6. ReadVarint(f, 1) = w.seconds /\ ReadVarint(f, 2) = w.nanos
  BY <1>4, <1>5
<1>7. ReadInt32(f, 2) = w.nanos
  BY <1>6, Int32IsRead DEF IsTimestamp
<1>8. DecodeTimestamp(f) = pb
  BY <1>1, <1>6, <1>7 DEF DecodeTimestamp
<1>9. TimestampFromPbtools(pb) = Success(w)
  BY <1>1, <1>2 DEF TimestampFromPbtools, NotNull, IsTimestamp
<1> QED BY <1>2, <1>8, <1>9 DEF f

LEMMA SecondsArrive ==
  ASSUME NullIsNoRecord, NEW seconds
  PROVE  LET pb == [seconds |-> seconds]
         IN  /\ pb # NULL
             /\ DecodeTimestampSeconds(EncodeTimestampSeconds(pb)) = pb
             /\ DecodeDurationSeconds(EncodeDurationSeconds(pb)) = pb
             /\ TimestampSecondsFromPbtools(pb) = Success([seconds |-> seconds])
<1> DEFINE pb == [seconds |-> seconds]
<1>1. pb # NULL
  <2>1. pb = [m \in {"seconds"} |-> pb[m]]
    OBVIOUS
  <2> HIDE DEF pb
  <2> QED BY <2>1, RecordIsThere
<1>2. ReadVarint(Varint(1, seconds), 1) = seconds
  <2>1. Same(Varint(1, seconds), Varint(1, seconds), {1})
    BY DEF Same
  <2> QED BY <2>1, VarintPiece
<1> QED BY <1>1, <1>2 DEF DecodeTimestampSeconds, EncodeTimestampSeconds, DecodeDurationSeconds,
                          EncodeDurationSeconds, TimestampSecondsFromPbtools, NotNull

\* The layout that a balance and an amount have in common.
LEMMA AmountIsRead ==
  ASSUME NEW key, NEW amount, NEW uuid
  PROVE  LET k == BytesOf(KeySize, key)
             u == CommunityUuidFromWire(uuid)
             f == Bytes(1, k) \o Varint(2, amount) \o Bytes(3, u)
         IN  ReadBytes(f, 1) = k /\ ReadVarint(f, 2) = amount /\ ReadBytes(f, 3) = u
<1> DEFINE k == BytesOf(KeySize, key)
           u == CommunityUuidFromWire(uuid)
           f == Bytes(1, k) \o Varint(2, amount) \o Bytes(3, u)
<1>1. k.size # 0 /\ (u.size = 0 => u = NoBytes)
  BY KeysAreThere, UuidArrives
<1> HIDE DEF k, u
<1>2. /\ Piece(Bytes(1, k), {1}) /\ Piece(Varint(2, amount), {2}) /\ Piece(Bytes(3, u), {3})
      /\ \A g : Same(g, Bytes(1, k), {1}) => ReadBytes(g, 1) = k
      /\ \A g : Same(g, Varint(2, amount), {2}) => ReadVarint(g, 2) = amount
      /\ \A g : Same(g, Bytes(3, u), {3}) => ReadBytes(g, 3) = u
  BY <1>1, BytesPiece, VarintPiece
<1>3. /\ Same(f, Bytes(1, k), {1}) /\ Same(f, Varint(2, amount), {2}) /\ Same(f, Bytes(3, u), {3})
  <2> HIDE DEF f
  <2>1. {1} \cap {2} = {} /\ ({1} \cup {2}) \cap {3} = {}
    OBVIOUS
  <2> QED BY <1>2, <2>1, Three DEF f
<1> HIDE DEF f
<1>4. ReadBytes(f, 1) = k /\ ReadVarint(f, 2) = amount /\ ReadBytes(f, 3) = u
  BY <1>2, <1>3
<1> QED BY <1>4 DEF f, k, u

LEMMA AmountArrives ==
  ASSUME NullIsNoRecord, NEW w, IsTransferAmount(w)
  PROVE  LET pb == TransferAmountFromWire(w)
         IN  /\ pb # NULL /\ DecodeTransferAmount(EncodeTransferAmount(pb)) = pb
             /\ TransferAmountFromPbtools(pb) = Success(w)
<1> DEFINE pb == TransferAmountFromWire(w)
           k == BytesOf(KeySize, w.pubkey)
           u == CommunityUuidFromWire(w.community_uuid)
<1>1. pb = [pubkey |-> k, amount |-> w.amount, community_uuid |-> u]
  BY DEF TransferAmountFromWire
<1>2. pb # NULL
  <2>1. pb = [m \in {"pubkey", "amount", "community_uuid"} |-> pb[m]]
    BY <1>1
  <2> HIDE DEF pb
  <2> QED BY <2>1, RecordIsThere
<1>3. DecodeTransferAmount(EncodeTransferAmount(pb)) = pb
  <2>1. EncodeTransferAmount(pb) = Bytes(1, k) \o Varint(2, w.amount) \o Bytes(3, u)
    BY <1>1 DEF EncodeTransferAmount
  <2>2. LET f == Bytes(1, k) \o Varint(2, w.amount) \o Bytes(3, u)
        IN  ReadBytes(f, 1) = k /\ ReadVarint(f, 2) = w.amount /\ ReadBytes(f, 3) = u
    BY AmountIsRead
  <2> HIDE DEF k, u
  <2> QED BY <1>1, <2>1, <2>2 DEF DecodeTransferAmount
<1>4. TransferAmountFromPbtools(pb) = Success(w)
  <2>1. k.size = KeySize /\ k.data = w.pubkey
    BY KeysAreThere
  <2>2. CommunityUuidFromPbtools(u) = Success(w.community_uuid)
    BY UuidArrives DEF IsTransferAmount
  <2> HIDE DEF k, u
  <2>3. TransferAmountFromPbtools(pb)
          = Success([pubkey |-> w.pubkey, amount |-> w.amount, community_uuid |-> w.community_uuid])
    BY <1>1, <1>2, <2>1, <2>2 DEF TransferAmountFromPbtools, NotNull, Then, Success
  <2> QED BY <2>3 DEF IsTransferAmount
<1> QED BY <1>2, <1>3, <1>4

LEMMA BalanceArrives ==
  ASSUME NEW w, IsAccountBalance(w)
  PROVE  LET pb == AccountBalanceFromWire(w)
         IN  /\ DecodeAccountBalance(EncodeAccountBalance(pb)) = pb
             /\ AccountBalanceFromPbtools(pb) = Success(w)
<1> DEFINE pb == AccountBalanceFromWire(w)
           k == BytesOf(KeySize, w.pubkey)
           u == CommunityUuidFromWire(w.community_uuid)
<1>1. pb = [pubkey |-> k, balance |-> w.balance, community_uuid |-> u]
  BY DEF AccountBalanceFromWire
<1>2. DecodeAccountBalance(EncodeAccountBalance(pb)) = pb
  <2>1. EncodeAccountBalance(pb) = Bytes(1, k) \o Varint(2, w.balance) \o Bytes(3, u)
    BY <1>1 DEF EncodeAccountBalance
  <2>2. LET f == Bytes(1, k) \o Varint(2, w.balance) \o Bytes(3, u)
        IN  ReadBytes(f, 1) = k /\ ReadVarint(f, 2) = w.balance /\ ReadBytes(f, 3) = u
    BY AmountIsRead
  <2> HIDE DEF k, u
  <2> QED BY <1>1, <2>1, <2>2 DEF DecodeAccountBalance
<1>3. AccountBalanceFromPbtools(pb) = Success(w)
  <2>1. k.size = KeySize /\ k.data = w.pubkey
    BY KeysAreThere
  <2>2. CommunityUuidFromPbtools(u) = Success(w.community_uuid)
    BY UuidArrives DEF IsAccountBalance
  <2> HIDE DEF k, u
  <2>3. AccountBalanceFromPbtools(pb)
          = Success([pubkey |-> w.pubkey, balance |-> w.balance, community_uuid |-> w.community_uuid])
    BY <1>1, <2>1, <2>2 DEF AccountBalanceFromPbtools, Then, Success
  <2> QED BY <2>3 DEF IsAccountBalance
<1> QED BY <1>2, <1>3

LEMMA MemoArrives ==
  ASSUME NEW w, IsEncryptedMemo(w)
  PROVE  LET pb == EncryptedMemoFromWire(w)
         IN  /\ DecodeEncryptedMemo(EncodeEncryptedMemo(pb)) = pb
             /\ EncryptedMemoFromPbtools(pb) = Success(w)
<1> DEFINE pb == EncryptedMemoFromWire(w)
           f == EncodeEncryptedMemo(pb)
           b == w.memo
<1>1. (b.size = 0 => b = NoBytes) /\ (b.size # 0 => b.size \in 1..MaxAlloc)
  BY DEF IsEncryptedMemo, IsMemoryBlock, NoBytes, BytesOf
<1>2. pb = [type |-> w.type, memo |-> b]
  BY <1>1 DEF EncryptedMemoFromWire, MemoryBlockFromWire
<1>3. f = Varint(1, w.type) \o Bytes(2, b)
  BY <1>2 DEF EncodeEncryptedMemo
<1> HIDE DEF f
<1>4. /\ Piece(Varint(1, w.type), {1}) /\ Piece(Bytes(2, b), {2})
      /\ \A g : Same(g, Varint(1, w.type), {1}) => ReadVarint(g, 1) = w.type
      /\ \A g : Same(g, Bytes(2, b), {2}) => ReadBytes(g, 2) = b
  BY <1>1, VarintPiece, BytesPiece
<1>5. Same(f, Varint(1, w.type), {1}) /\ Same(f, Bytes(2, b), {2})
  <2>1. {1} \cap {2} = {}
    OBVIOUS
  <2> QED BY <2>1, <1>3, <1>4, Apart
<1>6. ReadVarint(f, 1) = w.type /\ ReadBytes(f, 2) = b
  BY <1>4, <1>5
<1>7. ReadInt32(f, 1) = w.type
  BY <1>6, Int32IsRead DEF IsEncryptedMemo
<1>8. DecodeEncryptedMemo(f) = pb
  BY <1>2, <1>6, <1>7 DEF DecodeEncryptedMemo, ReadEnum
<1>9. EncryptedMemoFromPbtools(pb) = Success(w)
  <2>1. b.size # 0 => MemoryBlockFromPbtools(b) = Success(b)
    <3>1. b.size # 0 => ~(b.size > MaxAlloc)
      BY <1>1, MaxAllocAssumption
    <3> QED BY <3>1 DEF MemoryBlockFromPbtools
  <2>2. w = [type |-> w.type, memo |-> b]
    BY DEF IsEncryptedMemo
  <2> QED BY <1>1, <1>2, <2>1, <2>2 DEF EncryptedMemoFromPbtools, Then, Success
<1> QED BY <1>8, <1>9 DEF f

LEMMA PairArrives ==
  ASSUME NEW w, IsSignaturePair(w)
  PROVE  LET pb == SignaturePairFromWire(w)
         IN  /\ DecodeSignaturePair(EncodeSignaturePair(pb)) = pb
             /\ SignaturePairFromPbtools(pb) = Success(w)
<1> DEFINE pb == SignaturePairFromWire(w)
           f == EncodeSignaturePair(pb)
           k == BytesOf(KeySize, w.public_key)
           s == BytesOf(SignatureSize, w.signature)
<1>1. pb = [pubkey |-> k, signature |-> s]
  BY DEF SignaturePairFromWire
<1>2. f = Bytes(1, k) \o Bytes(2, s)
  BY <1>1 DEF EncodeSignaturePair
<1>3. /\ k.size = KeySize /\ k.data = w.public_key /\ k.size # 0
      /\ s.size = SignatureSize /\ s.data = w.signature /\ s.size # 0
  BY KeysAreThere
<1> HIDE DEF f, k, s
<1>4. /\ Piece(Bytes(1, k), {1}) /\ Piece(Bytes(2, s), {2})
      /\ \A g : Same(g, Bytes(1, k), {1}) => ReadBytes(g, 1) = k
      /\ \A g : Same(g, Bytes(2, s), {2}) => ReadBytes(g, 2) = s
  BY <1>3, BytesPiece
<1>5. Same(f, Bytes(1, k), {1}) /\ Same(f, Bytes(2, s), {2})
  <2>1. {1} \cap {2} = {}
    OBVIOUS
  <2> QED BY <2>1, <1>2, <1>4, Apart
<1>6. DecodeSignaturePair(f) = pb
  BY <1>1, <1>4, <1>5 DEF DecodeSignaturePair
<1>7. SignaturePairFromPbtools(pb) = Success(w)
  BY <1>1, <1>3 DEF SignaturePairFromPbtools, IsSignaturePair
<1> QED BY <1>6, <1>7 DEF f

-----------------------------------------------------------------------------
(* Anchors.                                                                *)

LEMMA Wider ==
  ASSUME NEW f, NEW A, NEW B, Piece(f, A), A \subseteq B
  PROVE  Piece(f, B)
BY DEF Piece

LEMMA Four ==
  ASSUME NEW f1, NEW f2, NEW f3, NEW f4, NEW A1, NEW A2, NEW A3, NEW A4,
         Piece(f1, A1), Piece(f2, A2), Piece(f3, A3), Piece(f4, A4),
         A1 \cap A2 = {}, (A1 \cup A2) \cap A3 = {}, (A1 \cup A2 \cup A3) \cap A4 = {}
  PROVE  LET f == f1 \o f2 \o f3 \o f4
         IN  /\ \A N \in SUBSET A1 : Same(f, f1, N)
             /\ \A N \in SUBSET A2 : Same(f, f2, N)
             /\ \A N \in SUBSET A3 : Same(f, f3, N)
             /\ \A N \in SUBSET A4 : Same(f, f4, N)
<1> DEFINE g == f1 \o f2 \o f3
           A == A1 \cup A2 \cup A3
           f == g \o f4
<1>1. /\ Piece(g, A)
      /\ \A N \in SUBSET A1 : Same(g, f1, N)
      /\ \A N \in SUBSET A2 : Same(g, f2, N)
      /\ \A N \in SUBSET A3 : Same(g, f3, N)
  BY Three
<1>2. A1 \subseteq A /\ A2 \subseteq A /\ A3 \subseteq A
  OBVIOUS
<1> HIDE DEF g, A
<1>3. (\A N \in SUBSET A : Same(f, g, N)) /\ \A N \in SUBSET A4 : Same(f, f4, N)
  <2>1. A \cap A4 = {}
    BY DEF A
  <2> QED BY <1>1, <2>1, Apart
<1> HIDE DEF f
<1>4. \A N \in SUBSET A1 : Same(f, f1, N)
  BY <1>1, <1>2, <1>3, SameAgain
<1>5. \A N \in SUBSET A2 : Same(f, f2, N)
  BY <1>1, <1>2, <1>3, SameAgain
<1>6. \A N \in SUBSET A3 : Same(f, f3, N)
  BY <1>1, <1>2, <1>3, SameAgain
<1> QED BY <1>3, <1>4, <1>5, <1>6 DEF f, g

\* The member of a oneof, which is written even where it is 0.
LEMMA AlwaysPiece ==
  ASSUME NEW n \in 1..14, NEW value
  PROVE  /\ Piece(VarintAlways(n, value), {n})
         /\ \A f, N : n \in N /\ Same(f, VarintAlways(n, value), N) =>
                        /\ Places(f, N) # {} /\ LastOf(f, N).varint = value
                        /\ Number(LastOf(f, N)) = n
<1> DEFINE field == [tag |-> n, varint |-> value]
<1>1. Number(field) = n /\ field.varint = value
  BY FieldNumbersAssumption DEF Number
<1>2. /\ Piece(<<field>>, {n})
      /\ \A N : n \in N => Places(<<field>>, N) = {1} /\ LastOf(<<field>>, N) = field
  BY OnePiece
<1>3. VarintAlways(n, value) = <<field>>
  BY DEF VarintAlways
<1> HIDE DEF field
<1> QED BY <1>1, <1>2, <1>3 DEF Same

LEMMA AccountArrives ==
  ASSUME NullIsNoRecord, NEW w,
         w = [shardNum |-> w.shardNum, realmNum |-> w.realmNum, accountNum |-> w.accountNum]
  PROVE  LET pb == HieroAccountIdFromWire(w)
         IN  /\ pb # NULL /\ DecodeAccountId(EncodeAccountId(pb)) = pb
             /\ HieroAccountIdFromPbtools(pb) = Success(w)
<1> DEFINE pb == HieroAccountIdFromWire(w)
           f == EncodeAccountId(pb)
           f1 == VarintAlways(3, w.accountNum)
           f2 == Varint(1, w.shardNum)
           f3 == Varint(2, w.realmNum)
<1>1. /\ pb = [shard_num |-> w.shardNum, realm_num |-> w.realmNum,
               account |-> [number |-> 3, value |-> w.accountNum]]
      /\ pb.account.number = 3 /\ pb.account.value = w.accountNum
  BY DEF HieroAccountIdFromWire, Member
<1>2. pb # NULL
  <2>1. pb = [m \in {"shard_num", "realm_num", "account"} |-> pb[m]]
    BY <1>1
  <2> HIDE DEF pb
  <2> QED BY <2>1, RecordIsThere
<1>3. f = f1 \o f2 \o f3
  <2>1. /\ pb.account.number = 3 /\ pb.account.value = w.accountNum
        /\ pb.shard_num = w.shardNum /\ pb.realm_num = w.realmNum
    BY <1>1
  <2> HIDE DEF pb
  <2> QED BY <2>1 DEF EncodeAccountId
<1>4. /\ Piece(f1, {3}) /\ Piece(f2, {1}) /\ Piece(f3, {2})
      /\ \A g, N : 3 \in N /\ Same(g, f1, N) =>
            Places(g, N) # {} /\ LastOf(g, N).varint = w.accountNum /\ Number(LastOf(g, N)) = 3
      /\ \A g : Same(g, f2, {1}) => ReadVarint(g, 1) = w.shardNum
      /\ \A g : Same(g, f3, {2}) => ReadVarint(g, 2) = w.realmNum
  BY AlwaysPiece, VarintPiece
<1> HIDE DEF f, f1, f2, f3
<1>5. Same(f, f1, {3}) /\ Same(f, f1, {3, 4}) /\ Same(f, f2, {1}) /\ Same(f, f3, {2})
  <2>1. {3, 4} \cap {1} = {} /\ ({3, 4} \cup {1}) \cap {2} = {}
    OBVIOUS
  <2>2. Piece(f1, {3, 4})
    BY <1>4, Wider
  <2>3. {3} \in SUBSET {3, 4}
    OBVIOUS
  <2> QED BY <1>3, <1>4, <2>1, <2>2, <2>3, Three
<1>6. ReadVarint(f, 1) = w.shardNum /\ ReadVarint(f, 2) = w.realmNum
  BY <1>4, <1>5
<1>7. Chosen(f, {3, 4}) = 3
  BY <1>4, <1>5 DEF Chosen
<1>8. ReadVarint(f, 3) = w.accountNum
  BY <1>4, <1>5 DEF ReadVarint, Present
<1>9. DecodeAccountId(f) = pb
  BY <1>1, <1>6, <1>7, <1>8 DEF DecodeAccountId, Member
<1>10. HieroAccountIdFromPbtools(pb) = Success(w)
  BY <1>1, <1>2 DEF HieroAccountIdFromPbtools, NotNull
<1> QED BY <1>2, <1>9, <1>10 DEF f

LEMMA HieroIdArrives ==
  ASSUME NullIsNoRecord, NEW w, IsHieroId(w)
  PROVE  LET pb == HieroTransactionIdFromWire(w)
         IN  /\ pb # NULL /\ DecodeTransactionId(EncodeTransactionId(pb)) = pb
             /\ HieroTransactionIdFromPbtools(pb) = Success(w)
<1> DEFINE pb == HieroTransactionIdFromWire(w)
           start == TimestampFromWire(w.transactionValidStart)
           account == HieroAccountIdFromWire(w.accountID)
           f == EncodeTransactionId(pb)
           f1 == <<[tag |-> 1, message |-> EncodeTimestamp(start)]>>
           f2 == <<[tag |-> 2, message |-> EncodeAccountId(account)]>>
           f3 == Flag(3, FALSE)
           f4 == Varint(4, 0)
<1>1. pb = [transaction_valid_start |-> start, account_id |-> account, scheduled |-> FALSE,
            nonce |-> 0]
  BY DEF HieroTransactionIdFromWire
<1>2. pb # NULL
  <2>1. pb = [m \in {"transaction_valid_start", "account_id", "scheduled", "nonce"} |-> pb[m]]
    BY <1>1
  <2> HIDE DEF pb
  <2> QED BY <2>1, RecordIsThere
<1>3. /\ w = [transactionValidStart |-> w.transactionValidStart, accountID |-> w.accountID]
      /\ IsTimestamp(w.transactionValidStart)
      /\ w.accountID = [shardNum |-> w.accountID.shardNum, realmNum |-> w.accountID.realmNum,
                        accountNum |-> w.accountID.accountNum]
  BY DEF IsHieroId
<1>4. /\ start # NULL /\ DecodeTimestamp(EncodeTimestamp(start)) = start
      /\ TimestampFromPbtools(start) = Success(w.transactionValidStart)
  BY <1>3, TimestampArrives
<1>5. /\ account # NULL /\ DecodeAccountId(EncodeAccountId(account)) = account
      /\ HieroAccountIdFromPbtools(account) = Success(w.accountID)
  BY <1>3, AccountArrives
<1> HIDE DEF start, account
<1>6. f = f1 \o f2 \o f3 \o f4
  <2>1. /\ pb.transaction_valid_start = start /\ pb.account_id = account
        /\ pb.scheduled = FALSE /\ pb.nonce = 0
    BY <1>1
  <2> HIDE DEF pb
  <2>2. Message(1, pb.transaction_valid_start, EncodeTimestamp) = f1
    BY <1>4, <2>1 DEF Message, MessageAlways
  <2>3. Message(2, pb.account_id, EncodeAccountId) = f2
    BY <1>5, <2>1 DEF Message, MessageAlways
  <2>4. Flag(3, pb.scheduled) = f3 /\ Varint(4, pb.nonce) = f4
    BY <2>1
  <2> HIDE DEF f1, f2, f3, f4
  <2> QED BY <2>2, <2>3, <2>4 DEF EncodeTransactionId
<1>7. /\ Piece(f1, {1}) /\ Piece(f2, {2}) /\ Piece(f3, {3}) /\ Piece(f4, {4})
      /\ \A g : Same(g, f1, {1}) =>
           Places(g, {1}) # {} /\ LastOf(g, {1}).message = EncodeTimestamp(start)
      /\ \A g : Same(g, f2, {2}) =>
           Places(g, {2}) # {} /\ LastOf(g, {2}).message = EncodeAccountId(account)
      /\ \A g : Same(g, f3, {3}) => ReadFlag(g, 3) = FALSE
      /\ \A g : Same(g, f4, {4}) => ReadVarint(g, 4) = 0
  <2>1. /\ Piece(f1, {1})
        /\ \A g : Same(g, f1, {1}) =>
             Places(g, {1}) # {} /\ LastOf(g, {1}).message = EncodeTimestamp(start)
    BY MessagePiece
  <2>2. /\ Piece(f2, {2})
        /\ \A g : Same(g, f2, {2}) =>
             Places(g, {2}) # {} /\ LastOf(g, {2}).message = EncodeAccountId(account)
    BY MessagePiece
  <2>3. Piece(f3, {3}) /\ \A g : Same(g, f3, {3}) => ReadFlag(g, 3) = FALSE
    <3>1. f3 = Varint(3, 0)
      BY DEF Flag, Varint
    <3>2. 0 \in Int32
      BY WordAssumption DEF Int32
    <3>3. Piece(Varint(3, 0), {3}) /\ \A g : Same(g, Varint(3, 0), {3}) => ReadVarint(g, 3) = 0
      BY VarintPiece
    <3>4. \A g : ReadVarint(g, 3) = 0 => ReadInt32(g, 3) = 0
      BY <3>2, Int32IsRead
    <3> QED BY <3>1, <3>3, <3>4 DEF ReadFlag
  <2>4. Piece(f4, {4}) /\ \A g : Same(g, f4, {4}) => ReadVarint(g, 4) = 0
    BY VarintPiece
  <2> QED BY <2>1, <2>2, <2>3, <2>4
<1> HIDE DEF f, f1, f2, f3, f4
<1>8. Same(f, f1, {1}) /\ Same(f, f2, {2}) /\ Same(f, f3, {3}) /\ Same(f, f4, {4})
  <2>1. /\ {1} \cap {2} = {} /\ ({1} \cup {2}) \cap {3} = {}
        /\ ({1} \cup {2} \cup {3}) \cap {4} = {}
    OBVIOUS
  <2> QED BY <1>6, <1>7, <2>1, Four
<1>9. ReadMessage(f, 1, DecodeTimestamp) = start /\ ReadMessage(f, 2, DecodeAccountId) = account
  BY <1>4, <1>5, <1>7, <1>8 DEF ReadMessage, Present
<1>10. ReadFlag(f, 3) = FALSE /\ ReadInt32(f, 4) = 0
  <2>1. 0 \in Int32
    BY WordAssumption DEF Int32
  <2> QED BY <1>7, <1>8, <2>1, Int32IsRead
<1>11. DecodeTransactionId(f) = pb
  BY <1>1, <1>9, <1>10 DEF DecodeTransactionId
<1>12. HieroTransactionIdFromPbtools(pb) = Success(w)
  <2>1. HieroTransactionIdFromPbtools(pb)
          = Success([transactionValidStart |-> w.transactionValidStart, accountID |-> w.accountID])
    BY <1>1, <1>2, <1>4, <1>5 DEF HieroTransactionIdFromPbtools, NotNull, Then, Success
  <2> QED BY <1>3, <2>1
<1> QED BY <1>2, <1>11, <1>12 DEF f

LEMMA AnchorArrives ==
  ASSUME NullIsNoRecord, NEW w, IsLedgerAnchor(w)
  PROVE  LET pb == LedgerAnchorFromWire(w)
         IN  /\ pb # NULL /\ DecodeLedgerAnchor(EncodeLedgerAnchor(pb)) = pb
             /\ LedgerAnchorFromPbtools(pb) = Success(w)
<1> DEFINE pb == LedgerAnchorFromWire(w)
           f == EncodeLedgerAnchor(pb)
           f2 == Varint(1, w.type)
<1>1. pb = [type |-> w.type, anchor_id |-> pb.anchor_id]
  BY DEF LedgerAnchorFromWire
<1>2. pb # NULL
  <2>1. pb = [m \in {"type", "anchor_id"} |-> pb[m]]
    BY <1>1
  <2> HIDE DEF pb
  <2> QED BY <2>1, RecordIsThere
<1>3. w.type \in Int32
  BY DEF IsLedgerAnchor
<1>4. Piece(f2, {1}) /\ \A g : Same(g, f2, {1}) => ReadVarint(g, 1) = w.type
  BY VarintPiece
<1>5. {3, 4} \cap {1} = {} /\ {3} \in SUBSET {3, 4} /\ {4} \in SUBSET {3, 4}
  OBVIOUS
<1>6. CASE w.type = Hiero
  <2> DEFINE id == HieroTransactionIdFromWire(w.hiero_transaction_id)
             f1 == <<[tag |-> 3, message |-> EncodeTransactionId(id)]>>
  <2>1. pb.anchor_id = [number |-> 3, value |-> id]
    BY <1>6 DEF LedgerAnchorFromWire, Member
  <2>2. /\ w = [type |-> Hiero, hiero_transaction_id |-> w.hiero_transaction_id]
        /\ IsHieroId(w.hiero_transaction_id)
    BY <1>6 DEF IsLedgerAnchor
  <2>3. /\ DecodeTransactionId(EncodeTransactionId(id)) = id
        /\ HieroTransactionIdFromPbtools(id) = Success(w.hiero_transaction_id)
    BY <2>2, HieroIdArrives
  <2> HIDE DEF id
  <2>4. f = f1 \o f2
    BY <1>1, <2>1 DEF EncodeLedgerAnchor, MessageAlways
  <2>5. /\ Piece(f1, {3})
        /\ \A g, N : 3 \in N /\ Same(g, f1, N) =>
             /\ Places(g, N) # {} /\ LastOf(g, N).message = EncodeTransactionId(id)
             /\ Number(LastOf(g, N)) = 3
    BY MessagePiece
  <2> HIDE DEF f, f1, f2
  <2>6. Same(f, f1, {3}) /\ Same(f, f1, {3, 4}) /\ Same(f, f2, {1})
    <3>1. Piece(f1, {3, 4})
      BY <2>5, Wider
    <3> QED BY <1>4, <1>5, <2>4, <3>1, Apart
  <2>7. Chosen(f, {3, 4}) = 3
    BY <2>5, <2>6 DEF Chosen
  <2>8. ReadMessage(f, 3, DecodeTransactionId) = id
    BY <2>3, <2>5, <2>6 DEF ReadMessage, Present
  <2>9. ReadEnum(f, 1) = w.type
    BY <1>3, <1>4, <2>6, Int32IsRead DEF ReadEnum
  <2>10. DecodeLedgerAnchor(f) = pb
    BY <1>1, <2>1, <2>7, <2>8, <2>9 DEF DecodeLedgerAnchor, Member
  <2>11. LedgerAnchorFromPbtools(pb) = Success(w)
    <3>1. pb.type = Hiero /\ pb.anchor_id.number = 3 /\ pb.anchor_id.value = id
      BY <1>1, <1>6, <2>1
    <3> HIDE DEF pb
    <3>2. LedgerAnchorFromPbtools(pb)
            = Success([type |-> Hiero, hiero_transaction_id |-> w.hiero_transaction_id])
      BY <1>2, <2>3, <3>1 DEF LedgerAnchorFromPbtools, NotNull, Then, Success
    <3> QED BY <2>2, <3>2
  <2> QED BY <1>2, <2>10, <2>11 DEF f
<1>7. CASE w.type # Hiero
  <2> DEFINE f1 == VarintAlways(4, w.id)
  <2>1. pb.anchor_id = [number |-> 4, value |-> w.id]
    BY <1>7 DEF LedgerAnchorFromWire, Member
  <2>2. w = [type |-> w.type, id |-> w.id]
    BY <1>7 DEF IsLedgerAnchor
  <2>4. f = f1 \o f2
    BY <1>1, <2>1 DEF EncodeLedgerAnchor
  <2>5. /\ Piece(f1, {4})
        /\ \A g, N : 4 \in N /\ Same(g, f1, N) =>
             /\ Places(g, N) # {} /\ LastOf(g, N).varint = w.id
             /\ Number(LastOf(g, N)) = 4
    BY AlwaysPiece
  <2> HIDE DEF f, f1, f2
  <2>6. Same(f, f1, {4}) /\ Same(f, f1, {3, 4}) /\ Same(f, f2, {1})
    <3>1. Piece(f1, {3, 4})
      BY <2>5, Wider
    <3> QED BY <1>4, <1>5, <2>4, <3>1, Apart
  <2>7. Chosen(f, {3, 4}) = 4
    BY <2>5, <2>6 DEF Chosen
  <2>8. ReadVarint(f, 4) = w.id
    BY <2>5, <2>6 DEF ReadVarint, Present
  <2>9. ReadEnum(f, 1) = w.type
    BY <1>3, <1>4, <2>6, Int32IsRead DEF ReadEnum
  <2>10. DecodeLedgerAnchor(f) = pb
    BY <1>1, <2>1, <2>7, <2>8, <2>9 DEF DecodeLedgerAnchor, Member
  <2>11. LedgerAnchorFromPbtools(pb) = Success(w)
    <3>1. pb.type # Hiero /\ pb.type = w.type /\ pb.anchor_id.number = 4 /\ pb.anchor_id.value = w.id
      BY <1>1, <1>7, <2>1
    <3> HIDE DEF pb
    <3>2. LedgerAnchorFromPbtools(pb) = Success([type |-> w.type, id |-> w.id])
      BY <1>2, <3>1 DEF LedgerAnchorFromPbtools, NotNull
    <3> QED BY <2>2, <3>2
  <2> QED BY <1>2, <2>10, <2>11 DEF f
<1> QED BY <1>6, <1>7

-----------------------------------------------------------------------------
(* The specific transactions.                                              *)

LEMMA TransferArrives ==
  ASSUME NullIsNoRecord, NEW w, IsTransfer(w)
  PROVE  LET pb == GradidoTransferFromWire(w)
         IN  /\ pb # NULL /\ DecodeTransfer(EncodeTransfer(pb)) = pb
             /\ GradidoTransferFromPbtools(pb) = Success(w)
<1> DEFINE pb == GradidoTransferFromWire(w)
           sender == TransferAmountFromWire(w.sender)
           k == BytesOf(KeySize, w.recipient)
           f == EncodeTransfer(pb)
           f1 == <<[tag |-> 1, message |-> EncodeTransferAmount(sender)]>>
           f2 == Bytes(2, k)
<1>1. pb = [sender |-> sender, recipient |-> k]
  BY DEF GradidoTransferFromWire
<1>2. pb # NULL
  <2>1. pb = [m \in {"sender", "recipient"} |-> pb[m]]
    BY <1>1
  <2> HIDE DEF pb
  <2> QED BY <2>1, RecordIsThere
<1>3. w = [sender |-> w.sender, recipient |-> w.recipient] /\ IsTransferAmount(w.sender)
  BY DEF IsTransfer
<1>4. /\ sender # NULL /\ DecodeTransferAmount(EncodeTransferAmount(sender)) = sender
      /\ TransferAmountFromPbtools(sender) = Success(w.sender)
  BY <1>3, AmountArrives
<1>5. k.size = KeySize /\ k.size # 0 /\ k.data = w.recipient
  BY KeysAreThere
<1> HIDE DEF sender, k
<1>6. f = f1 \o f2
  <2>1. pb.sender = sender /\ pb.recipient = k
    BY <1>1
  <2> HIDE DEF pb
  <2> QED BY <1>4, <2>1 DEF EncodeTransfer, Message, MessageAlways
<1>7. /\ Piece(f1, {1}) /\ Piece(f2, {2})
      /\ \A g : Same(g, f1, {1}) =>
           Places(g, {1}) # {} /\ LastOf(g, {1}).message = EncodeTransferAmount(sender)
      /\ \A g : Same(g, f2, {2}) => ReadBytes(g, 2) = k
  BY <1>5, MessagePiece, BytesPiece
<1> HIDE DEF f, f1, f2
<1>8. Same(f, f1, {1}) /\ Same(f, f2, {2})
  <2>1. {1} \cap {2} = {}
    OBVIOUS
  <2> QED BY <1>6, <1>7, <2>1, Apart
<1>9. DecodeTransfer(f) = pb
  <2>1. ReadMessage(f, 1, DecodeTransferAmount) = sender
    BY <1>4, <1>7, <1>8 DEF ReadMessage, Present
  <2> QED BY <1>1, <1>7, <1>8, <2>1 DEF DecodeTransfer
<1>10. GradidoTransferFromPbtools(pb) = Success(w)
  <2>1. pb.sender = sender /\ pb.recipient = k
    BY <1>1
  <2> HIDE DEF pb
  <2>2. GradidoTransferFromPbtools(pb) = Success([sender |-> w.sender, recipient |-> w.recipient])
    BY <1>2, <1>4, <1>5, <2>1 DEF GradidoTransferFromPbtools, NotNull, Then, Success
  <2> QED BY <1>3, <2>2
<1> QED BY <1>2, <1>9, <1>10 DEF f

LEMMA CreationArrives ==
  ASSUME NullIsNoRecord, NEW w, IsPart("creation", w)
  PROVE  LET pb == GradidoCreationFromWire(w)
         IN  /\ DecodeCreation(EncodeCreation(pb)) = pb
             /\ GradidoCreationFromPbtools(pb) = Success(w)
<1> DEFINE pb == GradidoCreationFromWire(w)
           recipient == TransferAmountFromWire(w.recipient)
           date == [seconds |-> w.target_date.seconds]
           f == EncodeCreation(pb)
           f1 == <<[tag |-> 1, message |-> EncodeTransferAmount(recipient)]>>
           f2 == <<[tag |-> 3, message |-> EncodeTimestampSeconds(date)]>>
<1>1. pb = [recipient |-> recipient, target_date |-> date]
  BY DEF GradidoCreationFromWire, TimestampSecondsFromWire
<1>2. pb # NULL
  <2>1. pb = [m \in {"recipient", "target_date"} |-> pb[m]]
    BY <1>1
  <2> HIDE DEF pb
  <2> QED BY <2>1, RecordIsThere
<1>3. /\ w = [recipient |-> w.recipient, target_date |-> w.target_date]
      /\ IsTransferAmount(w.recipient) /\ w.target_date = date
  BY DEF IsPart
<1>4. /\ recipient # NULL /\ DecodeTransferAmount(EncodeTransferAmount(recipient)) = recipient
      /\ TransferAmountFromPbtools(recipient) = Success(w.recipient)
  BY <1>3, AmountArrives
<1>5. /\ date # NULL /\ DecodeTimestampSeconds(EncodeTimestampSeconds(date)) = date
      /\ TimestampSecondsFromPbtools(date) = Success(w.target_date)
  BY <1>3, SecondsArrive
<1>6. pb.recipient = recipient /\ pb.target_date = date
  BY <1>1
<1> HIDE DEF recipient, date
<1>7. f = f1 \o f2
  <2> HIDE DEF pb
  <2> QED BY <1>4, <1>5, <1>6 DEF EncodeCreation, Message, MessageAlways
<1>8. /\ Piece(f1, {1}) /\ Piece(f2, {3})
      /\ \A g : Same(g, f1, {1}) =>
           Places(g, {1}) # {} /\ LastOf(g, {1}).message = EncodeTransferAmount(recipient)
      /\ \A g : Same(g, f2, {3}) =>
           Places(g, {3}) # {} /\ LastOf(g, {3}).message = EncodeTimestampSeconds(date)
  BY MessagePiece
<1> HIDE DEF f, f1, f2
<1>9. Same(f, f1, {1}) /\ Same(f, f2, {3})
  <2>1. {1} \cap {3} = {}
    OBVIOUS
  <2> QED BY <1>7, <1>8, <2>1, Apart
<1>10. DecodeCreation(f) = pb
  <2>1. ReadMessage(f, 1, DecodeTransferAmount) = recipient
    BY <1>4, <1>8, <1>9 DEF ReadMessage, Present
  <2>2. ReadMessage(f, 3, DecodeTimestampSeconds) = date
    BY <1>5, <1>8, <1>9 DEF ReadMessage, Present
  <2> QED BY <1>1, <2>1, <2>2 DEF DecodeCreation
<1>11. GradidoCreationFromPbtools(pb) = Success(w)
  <2> HIDE DEF pb
  <2>1. GradidoCreationFromPbtools(pb)
          = Success([recipient |-> w.recipient, target_date |-> w.target_date])
    BY <1>2, <1>4, <1>5, <1>6 DEF GradidoCreationFromPbtools, NotNull, Then, Success
  <2> QED BY <1>3, <2>1
<1> QED BY <1>10, <1>11 DEF f

LEMMA FriendsUpdateArrives ==
  ASSUME NullIsNoRecord, NEW w, IsPart("friends_update", w)
  PROVE  LET pb == CommunityFriendsUpdateFromWire(w)
         IN  /\ DecodeCommunityFriendsUpdate(EncodeCommunityFriendsUpdate(pb)) = pb
             /\ CommunityFriendsUpdateFromPbtools(pb) = Success(w)
<1> DEFINE pb == CommunityFriendsUpdateFromWire(w)
<1>1. w = [color_fusion |-> w.color_fusion] /\ w.color_fusion \in BOOLEAN
  BY DEF IsPart
<1>2. pb = [color_fusion |-> w.color_fusion] /\ pb = w
  BY <1>1 DEF CommunityFriendsUpdateFromWire
<1>3. pb # NULL
  <2>1. pb = [m \in {"color_fusion"} |-> pb[m]]
    BY <1>2
  <2> HIDE DEF pb
  <2> QED BY <2>1, RecordIsThere
<1>4. ReadFlag(Flag(1, w.color_fusion), 1) = w.color_fusion
  <2> DEFINE flag == w.color_fusion
  <2>1. flag \in BOOLEAN
    BY <1>1
  <2> HIDE DEF flag
  <2>2. Same(Flag(1, flag), Flag(1, flag), {1})
    BY DEF Same
  <2>3. ReadFlag(Flag(1, flag), 1) = flag
    BY <2>1, <2>2, FlagPiece
  <2> QED BY <2>3 DEF flag
<1>5. DecodeCommunityFriendsUpdate(EncodeCommunityFriendsUpdate(pb)) = pb
  BY <1>2, <1>4 DEF DecodeCommunityFriendsUpdate, EncodeCommunityFriendsUpdate
<1>6. CommunityFriendsUpdateFromPbtools(pb) = Success(w)
  BY <1>2, <1>3 DEF CommunityFriendsUpdateFromPbtools, NotNull
<1> QED BY <1>5, <1>6

LEMMA CommunityRootArrives ==
  ASSUME NullIsNoRecord, NEW w, IsPart("community_root", w)
  PROVE  LET pb == CommunityRootFromWire(w)
         IN  /\ DecodeCommunityRoot(EncodeCommunityRoot(pb)) = pb
             /\ CommunityRootFromPbtools(pb) = Success(w)
<1> DEFINE pb == CommunityRootFromWire(w)
           k1 == BytesOf(KeySize, w.pubkey)
           k2 == BytesOf(KeySize, w.gmw_pubkey)
           k3 == BytesOf(KeySize, w.auf_pubkey)
           f == EncodeCommunityRoot(pb)
<1>1. pb = [pubkey |-> k1, gmw_pubkey |-> k2, auf_pubkey |-> k3]
  BY DEF CommunityRootFromWire
<1>2. pb # NULL
  <2>1. pb = [m \in {"pubkey", "gmw_pubkey", "auf_pubkey"} |-> pb[m]]
    BY <1>1
  <2> HIDE DEF pb
  <2> QED BY <2>1, RecordIsThere
<1>3. w = [pubkey |-> w.pubkey, gmw_pubkey |-> w.gmw_pubkey, auf_pubkey |-> w.auf_pubkey]
  BY DEF IsPart
<1>4. /\ k1.size = KeySize /\ k1.size # 0 /\ k1.data = w.pubkey
      /\ k2.size = KeySize /\ k2.size # 0 /\ k2.data = w.gmw_pubkey
      /\ k3.size = KeySize /\ k3.size # 0 /\ k3.data = w.auf_pubkey
  BY KeysAreThere
<1>5. pb.pubkey = k1 /\ pb.gmw_pubkey = k2 /\ pb.auf_pubkey = k3
  BY <1>1
<1> HIDE DEF k1, k2, k3
<1>6. f = Bytes(1, k1) \o Bytes(2, k2) \o Bytes(3, k3)
  <2> HIDE DEF pb
  <2> QED BY <1>5 DEF EncodeCommunityRoot
<1>7. /\ Piece(Bytes(1, k1), {1}) /\ Piece(Bytes(2, k2), {2}) /\ Piece(Bytes(3, k3), {3})
      /\ \A g : Same(g, Bytes(1, k1), {1}) => ReadBytes(g, 1) = k1
      /\ \A g : Same(g, Bytes(2, k2), {2}) => ReadBytes(g, 2) = k2
      /\ \A g : Same(g, Bytes(3, k3), {3}) => ReadBytes(g, 3) = k3
  BY <1>4, BytesPiece
<1> HIDE DEF f
<1>8. Same(f, Bytes(1, k1), {1}) /\ Same(f, Bytes(2, k2), {2}) /\ Same(f, Bytes(3, k3), {3})
  <2>1. {1} \cap {2} = {} /\ ({1} \cup {2}) \cap {3} = {}
    OBVIOUS
  <2> QED BY <1>6, <1>7, <2>1, Three
<1>9. DecodeCommunityRoot(f) = pb
  BY <1>1, <1>7, <1>8 DEF DecodeCommunityRoot
<1>10. CommunityRootFromPbtools(pb) = Success(w)
  <2> HIDE DEF pb
  <2>1. CommunityRootFromPbtools(pb)
          = Success([pubkey |-> w.pubkey, gmw_pubkey |-> w.gmw_pubkey, auf_pubkey |-> w.auf_pubkey])
    BY <1>2, <1>4, <1>5 DEF CommunityRootFromPbtools, NotNull
  <2> QED BY <1>3, <2>1
<1> QED BY <1>9, <1>10 DEF f

LEMMA RegisterAddressArrives ==
  ASSUME NullIsNoRecord, NEW w, IsPart("register_address", w)
  PROVE  LET pb == RegisterAddressFromWire(w)
         IN  /\ DecodeRegisterAddress(EncodeRegisterAddress(pb)) = pb
             /\ RegisterAddressFromPbtools(pb) = Success(w)
<1> DEFINE pb == RegisterAddressFromWire(w)
           k == BytesOf(KeySize, w.user_pubkey)
           h == BytesOf(HashSize, w.name_hash)
           a == BytesOf(KeySize, w.account_pubkey)
           type == w.address_type
           index == w.derivation_index
           f == EncodeRegisterAddress(pb)
<1>1. pb = [user_pubkey |-> k, address_type |-> type, name_hash |-> h, account_pubkey |-> a,
            derivation_index |-> index]
  BY DEF RegisterAddressFromWire
<1>2. pb # NULL
  <2>1. pb = [m \in {"user_pubkey", "address_type", "name_hash", "account_pubkey",
                     "derivation_index"} |-> pb[m]]
    BY <1>1
  <2> HIDE DEF pb
  <2> QED BY <2>1, RecordIsThere
<1>3. /\ w = [user_pubkey |-> w.user_pubkey, address_type |-> type, derivation_index |-> index,
              name_hash |-> w.name_hash, account_pubkey |-> w.account_pubkey]
      /\ type \in Int32 /\ index \in Uint32
  BY DEF IsPart
<1>4. /\ k.size = KeySize /\ k.size # 0 /\ k.data = w.user_pubkey
      /\ h.size = HashSize /\ h.size # 0 /\ h.data = w.name_hash
      /\ a.size = KeySize /\ a.size # 0 /\ a.data = w.account_pubkey
  BY KeysAreThere
<1>5. /\ pb.user_pubkey = k /\ pb.address_type = type /\ pb.name_hash = h
      /\ pb.account_pubkey = a /\ pb.derivation_index = index
  BY <1>1
<1> HIDE DEF k, h, a, type, index
<1>6. f = Bytes(1, k) \o Varint(2, type) \o Bytes(3, h) \o Bytes(4, a) \o Varint(5, index)
  <2> HIDE DEF pb
  <2> QED BY <1>5 DEF EncodeRegisterAddress
<1>7. /\ Piece(Bytes(1, k), {1}) /\ Piece(Varint(2, type), {2}) /\ Piece(Bytes(3, h), {3})
      /\ Piece(Bytes(4, a), {4}) /\ Piece(Varint(5, index), {5})
      /\ \A g : Same(g, Bytes(1, k), {1}) => ReadBytes(g, 1) = k
      /\ \A g : Same(g, Varint(2, type), {2}) => ReadVarint(g, 2) = type
      /\ \A g : Same(g, Bytes(3, h), {3}) => ReadBytes(g, 3) = h
      /\ \A g : Same(g, Bytes(4, a), {4}) => ReadBytes(g, 4) = a
      /\ \A g : Same(g, Varint(5, index), {5}) => ReadVarint(g, 5) = index
  BY <1>4, BytesPiece, VarintPiece
<1> HIDE DEF f
<1>8. /\ Same(f, Bytes(1, k), {1}) /\ Same(f, Varint(2, type), {2}) /\ Same(f, Bytes(3, h), {3})
      /\ Same(f, Bytes(4, a), {4}) /\ Same(f, Varint(5, index), {5})
  <2>1. /\ {1} \cap {2} = {} /\ ({1} \cup {2}) \cap {3} = {}
        /\ ({1} \cup {2} \cup {3}) \cap {4} = {} /\ ({1} \cup {2} \cup {3} \cup {4}) \cap {5} = {}
    OBVIOUS
  <2> DEFINE f1 == Bytes(1, k)
             f2 == Varint(2, type)
             f3 == Bytes(3, h)
             f4 == Bytes(4, a)
             f5 == Varint(5, index)
             g == f1 \o f2 \o f3 \o f4 \o f5
  <2>2. f = g
    BY <1>6
  <2>3. Piece(f1, {1}) /\ Piece(f2, {2}) /\ Piece(f3, {3}) /\ Piece(f4, {4}) /\ Piece(f5, {5})
    BY <1>7
  <2> HIDE DEF f1, f2, f3, f4, f5
  <2>4. /\ \A N \in SUBSET {1} : Same(g, f1, N)
        /\ \A N \in SUBSET {2} : Same(g, f2, N)
        /\ \A N \in SUBSET {3} : Same(g, f3, N)
        /\ \A N \in SUBSET {4} : Same(g, f4, N)
        /\ \A N \in SUBSET {5} : Same(g, f5, N)
    BY ONLY <2>1, <2>3, Five
  <2> HIDE DEF g
  <2>5. Same(g, f1, {1}) /\ Same(g, f2, {2}) /\ Same(g, f3, {3}) /\ Same(g, f4, {4})
        /\ Same(g, f5, {5})
    BY <2>4
  <2> QED BY <2>2, <2>5 DEF f1, f2, f3, f4, f5
<1>9. ReadEnum(f, 2) = type /\ ReadUint32(f, 5) = index
  BY <1>3, <1>7, <1>8, Int32IsRead, Uint32IsRead DEF ReadEnum
<1>10. DecodeRegisterAddress(f) = pb
  BY <1>1, <1>7, <1>8, <1>9 DEF DecodeRegisterAddress
<1>11. RegisterAddressFromPbtools(pb) = Success(w)
  <2> HIDE DEF pb
  <2>1. RegisterAddressFromPbtools(pb)
          = Success([user_pubkey |-> w.user_pubkey, address_type |-> type,
                     derivation_index |-> index, name_hash |-> w.name_hash,
                     account_pubkey |-> w.account_pubkey])
    BY <1>2, <1>4, <1>5 DEF RegisterAddressFromPbtools, NotNull
  <2> QED BY <1>3, <2>1
<1> QED BY <1>10, <1>11 DEF f

LEMMA DeferredTransferArrives ==
  ASSUME NullIsNoRecord, NEW w, IsPart("deferred_transfer", w)
  PROVE  LET pb == GradidoDeferredTransferFromWire(w)
         IN  /\ DecodeDeferredTransfer(EncodeDeferredTransfer(pb)) = pb
             /\ GradidoDeferredTransferFromPbtools(pb) = Success(w)
<1> DEFINE pb == GradidoDeferredTransferFromWire(w)
           transfer == GradidoTransferFromWire(w.transfer)
           duration == [seconds |-> w.timeout_duration]
           f == EncodeDeferredTransfer(pb)
           f1 == <<[tag |-> 1, message |-> EncodeTransfer(transfer)]>>
           f2 == <<[tag |-> 2, message |-> EncodeDurationSeconds(duration)]>>
<1>1. pb = [transfer |-> transfer, timeout_duration |-> duration]
  BY DEF GradidoDeferredTransferFromWire
<1>2. pb # NULL
  <2>1. pb = [m \in {"transfer", "timeout_duration"} |-> pb[m]]
    BY <1>1
  <2> HIDE DEF pb
  <2> QED BY <2>1, RecordIsThere
<1>3. /\ w = [transfer |-> w.transfer, timeout_duration |-> w.timeout_duration]
      /\ IsTransfer(w.transfer) /\ w.timeout_duration \in 0..MaxU32
  BY DEF IsPart
<1>4. /\ transfer # NULL /\ DecodeTransfer(EncodeTransfer(transfer)) = transfer
      /\ GradidoTransferFromPbtools(transfer) = Success(w.transfer)
  BY <1>3, TransferArrives
<1>5. /\ duration # NULL /\ DecodeDurationSeconds(EncodeDurationSeconds(duration)) = duration
      /\ duration.seconds = w.timeout_duration /\ ~(duration.seconds > MaxU32)
  BY <1>3, SecondsArrive, MaxAllocAssumption
<1>6. pb.transfer = transfer /\ pb.timeout_duration = duration
  BY <1>1
<1> HIDE DEF transfer, duration
<1>7. f = f1 \o f2
  <2> HIDE DEF pb
  <2> QED BY <1>4, <1>5, <1>6 DEF EncodeDeferredTransfer, Message, MessageAlways
<1>8. /\ Piece(f1, {1}) /\ Piece(f2, {2})
      /\ \A g : Same(g, f1, {1}) =>
           Places(g, {1}) # {} /\ LastOf(g, {1}).message = EncodeTransfer(transfer)
      /\ \A g : Same(g, f2, {2}) =>
           Places(g, {2}) # {} /\ LastOf(g, {2}).message = EncodeDurationSeconds(duration)
  BY MessagePiece
<1> HIDE DEF f, f1, f2
<1>9. Same(f, f1, {1}) /\ Same(f, f2, {2})
  <2>1. {1} \cap {2} = {}
    OBVIOUS
  <2> QED BY <1>7, <1>8, <2>1, Apart
<1>10. DecodeDeferredTransfer(f) = pb
  <2>1. ReadMessage(f, 1, DecodeTransfer) = transfer
    BY <1>4, <1>8, <1>9 DEF ReadMessage, Present
  <2>2. ReadMessage(f, 2, DecodeDurationSeconds) = duration
    BY <1>5, <1>8, <1>9 DEF ReadMessage, Present
  <2> QED BY <1>1, <2>1, <2>2 DEF DecodeDeferredTransfer
<1>11. GradidoDeferredTransferFromPbtools(pb) = Success(w)
  <2> HIDE DEF pb
  <2>1. GradidoDeferredTransferFromPbtools(pb)
          = Success([transfer |-> w.transfer, timeout_duration |-> w.timeout_duration])
    BY <1>2, <1>4, <1>5, <1>6 DEF GradidoDeferredTransferFromPbtools, NotNull, Then, Success
  <2> QED BY <1>3, <2>1
<1> QED BY <1>10, <1>11 DEF f

LEMMA RedeemDeferredTransferArrives ==
  ASSUME NullIsNoRecord, NEW w, IsPart("redeem_deferred", w)
  PROVE  LET pb == GradidoRedeemDeferredTransferFromWire(w)
         IN  /\ DecodeRedeemDeferredTransfer(EncodeRedeemDeferredTransfer(pb)) = pb
             /\ GradidoRedeemDeferredTransferFromPbtools(pb) = Success(w)
<1> DEFINE pb == GradidoRedeemDeferredTransferFromWire(w)
           number == w.deferred_transfer_transaction_nr
           transfer == GradidoTransferFromWire(w.transfer)
           f == EncodeRedeemDeferredTransfer(pb)
           f1 == Varint(1, number)
           f2 == <<[tag |-> 2, message |-> EncodeTransfer(transfer)]>>
<1>1. pb = [deferred_transfer_transaction_nr |-> number, transfer |-> transfer]
  BY DEF GradidoRedeemDeferredTransferFromWire
<1>2. pb # NULL
  <2>1. pb = [m \in {"deferred_transfer_transaction_nr", "transfer"} |-> pb[m]]
    BY <1>1
  <2> HIDE DEF pb
  <2> QED BY <2>1, RecordIsThere
<1>3. /\ w = [deferred_transfer_transaction_nr |-> number, transfer |-> w.transfer]
      /\ IsTransfer(w.transfer)
  BY DEF IsPart
<1>4. /\ transfer # NULL /\ DecodeTransfer(EncodeTransfer(transfer)) = transfer
      /\ GradidoTransferFromPbtools(transfer) = Success(w.transfer)
  BY <1>3, TransferArrives
<1>5. pb.deferred_transfer_transaction_nr = number /\ pb.transfer = transfer
  BY <1>1
<1> HIDE DEF number, transfer
<1>6. f = f1 \o f2
  <2> HIDE DEF pb
  <2> QED BY <1>4, <1>5 DEF EncodeRedeemDeferredTransfer, Message, MessageAlways
<1>7. /\ Piece(f1, {1}) /\ Piece(f2, {2})
      /\ \A g : Same(g, f1, {1}) => ReadVarint(g, 1) = number
      /\ \A g : Same(g, f2, {2}) =>
           Places(g, {2}) # {} /\ LastOf(g, {2}).message = EncodeTransfer(transfer)
  BY VarintPiece, MessagePiece
<1> HIDE DEF f, f1, f2
<1>8. Same(f, f1, {1}) /\ Same(f, f2, {2})
  <2>1. {1} \cap {2} = {}
    OBVIOUS
  <2> QED BY <1>6, <1>7, <2>1, Apart
<1>9. DecodeRedeemDeferredTransfer(f) = pb
  <2>1. ReadMessage(f, 2, DecodeTransfer) = transfer
    BY <1>4, <1>7, <1>8 DEF ReadMessage, Present
  <2> QED BY <1>1, <1>7, <1>8, <2>1 DEF DecodeRedeemDeferredTransfer
<1>10. GradidoRedeemDeferredTransferFromPbtools(pb) = Success(w)
  <2> HIDE DEF pb
  <2>1. GradidoRedeemDeferredTransferFromPbtools(pb)
          = Success([deferred_transfer_transaction_nr |-> number, transfer |-> w.transfer])
    BY <1>2, <1>4, <1>5 DEF GradidoRedeemDeferredTransferFromPbtools, NotNull, Then, Success
  <2> QED BY <1>3, <2>1
<1> QED BY <1>9, <1>10 DEF f

LEMMA TimeoutDeferredTransferArrives ==
  ASSUME NullIsNoRecord, NEW w, IsPart("timeout_deferred", w)
  PROVE  LET pb == GradidoTimeoutDeferredTransferFromWire(w)
         IN  /\ DecodeTimeoutDeferredTransfer(EncodeTimeoutDeferredTransfer(pb)) = pb
             /\ GradidoTimeoutDeferredTransferFromPbtools(pb) = Success(w)
<1> DEFINE pb == GradidoTimeoutDeferredTransferFromWire(w)
           number == w.deferred_transfer_transaction_nr
<1>1. w = [deferred_transfer_transaction_nr |-> number]
  BY DEF IsPart
<1>2. pb = [deferred_transfer_transaction_nr |-> number]
  BY DEF GradidoTimeoutDeferredTransferFromWire
<1>3. pb # NULL
  <2>1. pb = [m \in {"deferred_transfer_transaction_nr"} |-> pb[m]]
    BY <1>2
  <2> HIDE DEF pb
  <2> QED BY <2>1, RecordIsThere
<1>4. ReadVarint(Varint(1, number), 1) = number
  <2>1. Same(Varint(1, number), Varint(1, number), {1})
    BY DEF Same
  <2> QED BY <2>1, VarintPiece
<1> HIDE DEF number
<1>5. DecodeTimeoutDeferredTransfer(EncodeTimeoutDeferredTransfer(pb)) = pb
  BY <1>2, <1>4 DEF DecodeTimeoutDeferredTransfer, EncodeTimeoutDeferredTransfer
<1>6. GradidoTimeoutDeferredTransferFromPbtools(pb) = Success(w)
  BY <1>1, <1>2, <1>3 DEF GradidoTimeoutDeferredTransferFromPbtools, NotNull
<1> QED BY <1>5, <1>6

-----------------------------------------------------------------------------
(* The oneof of a body.                                                    *)

LEMMA MemberPiece ==
  ASSUME NEW n \in Specific, NEW message
  PROVE  LET one == <<[tag |-> n, message |-> message]>>
         IN  /\ Piece(one, Specific)
             /\ \A f : (\A N \in SUBSET Specific : Same(f, one, N)) =>
                          /\ Chosen(f, Specific) = n
                          /\ Present(f, n) /\ LastOf(f, {n}).message = message
<1> DEFINE one == <<[tag |-> n, message |-> message]>>
<1>1. n \in 1..14 /\ {n} \subseteq Specific /\ {n} \in SUBSET Specific /\ Specific \in SUBSET Specific
  BY DEF Specific
<1>2. /\ Piece(one, {n})
      /\ \A f, N : n \in N /\ Same(f, one, N) =>
                     /\ Places(f, N) # {} /\ LastOf(f, N).message = message
                     /\ Number(LastOf(f, N)) = n
  BY <1>1, MessagePiece
<1> HIDE DEF one
<1>3. Piece(one, Specific)
  BY <1>1, <1>2, Wider
<1>4. ASSUME NEW f, \A N \in SUBSET Specific : Same(f, one, N)
      PROVE  Chosen(f, Specific) = n /\ Present(f, n) /\ LastOf(f, {n}).message = message
  <2>1. Same(f, one, {n}) /\ Same(f, one, Specific)
    BY <1>1, <1>4
  <2>2. Places(f, {n}) # {} /\ LastOf(f, {n}).message = message
    BY <1>2, <2>1
  <2>3. Places(f, Specific) # {} /\ Number(LastOf(f, Specific)) = n
    BY <1>2, <2>1
  <2> QED BY <2>2, <2>3 DEF Chosen, Present
<1> QED BY <1>3, <1>4 DEF one

LEMMA SpecificArrives ==
  ASSUME NullIsNoRecord, NEW type \in Types, NEW part, IsPart(type, part)
  PROVE  LET data == SpecificFromWire(type, part)
             f1   == EncodeSpecific(data)
         IN  /\ Piece(f1, Specific)
             /\ \A f : (\A N \in SUBSET Specific : Same(f, f1, N)) => DecodeSpecific(f) = data
             /\ SpecificFromPbtools(data) = Success([type |-> type, part |-> part])
<1> DEFINE data == SpecificFromWire(type, part)
           f1   == EncodeSpecific(data)
<1>1. CASE type = "none"
  <2>1. part = NULL /\ data = NoMember
    BY <1>1 DEF IsPart, SpecificFromWire
  <2>2. f1 = <<>>
    BY <2>1 DEF EncodeSpecific, NoMember
  <2>3. ASSUME NEW f, \A N \in SUBSET Specific : Same(f, <<>>, N) PROVE DecodeSpecific(f) = NoMember
    <3>1. Specific \in SUBSET Specific
      OBVIOUS
    <3>2. Places(f, Specific) = {}
      BY <2>3, <3>1, NoPiece DEF Same
    <3>3. Chosen(f, Specific) = 0
      BY <3>2 DEF Chosen
    <3> QED BY <3>3 DEF DecodeSpecific
  <2>4. SpecificFromPbtools(NoMember) = Success([type |-> "none", part |-> NULL])
    BY DEF SpecificFromPbtools, NoMember
  <2> QED BY <1>1, <2>1, <2>2, <2>3, <2>4, NoPiece
<1>2. CASE type = "transfer"
  <2> DEFINE pb == GradidoTransferFromWire(part)
             one == <<[tag |-> 6, message |-> EncodeTransfer(pb)]>>
  <2>1. /\ DecodeTransfer(EncodeTransfer(pb)) = pb
        /\ GradidoTransferFromPbtools(pb) = Success(part)
    BY <1>2, TransferArrives DEF IsPart
  <2>2. data = [number |-> 6, value |-> pb]
    BY <1>2 DEF SpecificFromWire, Member
  <2> HIDE DEF pb
  <2>3. f1 = one
    BY <2>2 DEF EncodeSpecific, MessageAlways
  <2>4. /\ Piece(one, Specific)
        /\ \A f : (\A N \in SUBSET Specific : Same(f, one, N)) =>
              /\ Chosen(f, Specific) = 6
              /\ Present(f, 6) /\ LastOf(f, {6}).message = EncodeTransfer(pb)
    <3>1. 6 \in Specific
      BY DEF Specific
    <3> QED BY <3>1, MemberPiece
  <2> HIDE DEF one
  <2>5. ASSUME NEW f, \A N \in SUBSET Specific : Same(f, one, N)
        PROVE  DecodeSpecific(f) = [number |-> 6, value |-> pb]
    <3>1. Chosen(f, Specific) = 6 /\ ReadMessage(f, 6, DecodeTransfer) = pb
      BY <2>1, <2>4, <2>5 DEF ReadMessage
    <3> QED BY <3>1 DEF DecodeSpecific, Member
  <2>6. SpecificFromPbtools([number |-> 6, value |-> pb]) = Success([type |-> type, part |-> part])
    BY <1>2, <2>1 DEF SpecificFromPbtools, Then, Success
  <2> QED BY <2>2, <2>3, <2>4, <2>5, <2>6
<1>3. CASE type = "creation"
  <2> DEFINE pb == GradidoCreationFromWire(part)
             one == <<[tag |-> 7, message |-> EncodeCreation(pb)]>>
  <2>1. /\ DecodeCreation(EncodeCreation(pb)) = pb
        /\ GradidoCreationFromPbtools(pb) = Success(part)
    BY <1>3, CreationArrives
  <2>2. data = [number |-> 7, value |-> pb]
    BY <1>3 DEF SpecificFromWire, Member
  <2> HIDE DEF pb
  <2>3. f1 = one
    BY <2>2 DEF EncodeSpecific, MessageAlways
  <2>4. /\ Piece(one, Specific)
        /\ \A f : (\A N \in SUBSET Specific : Same(f, one, N)) =>
              /\ Chosen(f, Specific) = 7
              /\ Present(f, 7) /\ LastOf(f, {7}).message = EncodeCreation(pb)
    <3>1. 7 \in Specific
      BY DEF Specific
    <3> QED BY <3>1, MemberPiece
  <2> HIDE DEF one
  <2>5. ASSUME NEW f, \A N \in SUBSET Specific : Same(f, one, N)
        PROVE  DecodeSpecific(f) = [number |-> 7, value |-> pb]
    <3>1. Chosen(f, Specific) = 7 /\ ReadMessage(f, 7, DecodeCreation) = pb
      BY <2>1, <2>4, <2>5 DEF ReadMessage
    <3> QED BY <3>1 DEF DecodeSpecific, Member
  <2>6. SpecificFromPbtools([number |-> 7, value |-> pb]) = Success([type |-> type, part |-> part])
    BY <1>3, <2>1 DEF SpecificFromPbtools, Then, Success
  <2> QED BY <2>2, <2>3, <2>4, <2>5, <2>6
<1>4. CASE type = "friends_update"
  <2> DEFINE pb == CommunityFriendsUpdateFromWire(part)
             one == <<[tag |-> 8, message |-> EncodeCommunityFriendsUpdate(pb)]>>
  <2>1. /\ DecodeCommunityFriendsUpdate(EncodeCommunityFriendsUpdate(pb)) = pb
        /\ CommunityFriendsUpdateFromPbtools(pb) = Success(part)
    BY <1>4, FriendsUpdateArrives
  <2>2. data = [number |-> 8, value |-> pb]
    BY <1>4 DEF SpecificFromWire, Member
  <2> HIDE DEF pb
  <2>3. f1 = one
    BY <2>2 DEF EncodeSpecific, MessageAlways
  <2>4. /\ Piece(one, Specific)
        /\ \A f : (\A N \in SUBSET Specific : Same(f, one, N)) =>
              /\ Chosen(f, Specific) = 8
              /\ Present(f, 8) /\ LastOf(f, {8}).message = EncodeCommunityFriendsUpdate(pb)
    <3>1. 8 \in Specific
      BY DEF Specific
    <3> QED BY <3>1, MemberPiece
  <2> HIDE DEF one
  <2>5. ASSUME NEW f, \A N \in SUBSET Specific : Same(f, one, N)
        PROVE  DecodeSpecific(f) = [number |-> 8, value |-> pb]
    <3>1. Chosen(f, Specific) = 8 /\ ReadMessage(f, 8, DecodeCommunityFriendsUpdate) = pb
      BY <2>1, <2>4, <2>5 DEF ReadMessage
    <3> QED BY <3>1 DEF DecodeSpecific, Member
  <2>6. SpecificFromPbtools([number |-> 8, value |-> pb]) = Success([type |-> type, part |-> part])
    BY <1>4, <2>1 DEF SpecificFromPbtools, Then, Success
  <2> QED BY <2>2, <2>3, <2>4, <2>5, <2>6
<1>5. CASE type = "register_address"
  <2> DEFINE pb == RegisterAddressFromWire(part)
             one == <<[tag |-> 9, message |-> EncodeRegisterAddress(pb)]>>
  <2>1. /\ DecodeRegisterAddress(EncodeRegisterAddress(pb)) = pb
        /\ RegisterAddressFromPbtools(pb) = Success(part)
    BY <1>5, RegisterAddressArrives
  <2>2. data = [number |-> 9, value |-> pb]
    BY <1>5 DEF SpecificFromWire, Member
  <2> HIDE DEF pb
  <2>3. f1 = one
    BY <2>2 DEF EncodeSpecific, MessageAlways
  <2>4. /\ Piece(one, Specific)
        /\ \A f : (\A N \in SUBSET Specific : Same(f, one, N)) =>
              /\ Chosen(f, Specific) = 9
              /\ Present(f, 9) /\ LastOf(f, {9}).message = EncodeRegisterAddress(pb)
    <3>1. 9 \in Specific
      BY DEF Specific
    <3> QED BY <3>1, MemberPiece
  <2> HIDE DEF one
  <2>5. ASSUME NEW f, \A N \in SUBSET Specific : Same(f, one, N)
        PROVE  DecodeSpecific(f) = [number |-> 9, value |-> pb]
    <3>1. Chosen(f, Specific) = 9 /\ ReadMessage(f, 9, DecodeRegisterAddress) = pb
      BY <2>1, <2>4, <2>5 DEF ReadMessage
    <3> QED BY <3>1 DEF DecodeSpecific, Member
  <2>6. SpecificFromPbtools([number |-> 9, value |-> pb]) = Success([type |-> type, part |-> part])
    BY <1>5, <2>1 DEF SpecificFromPbtools, Then, Success
  <2> QED BY <2>2, <2>3, <2>4, <2>5, <2>6
<1>6. CASE type = "deferred_transfer"
  <2> DEFINE pb == GradidoDeferredTransferFromWire(part)
             one == <<[tag |-> 10, message |-> EncodeDeferredTransfer(pb)]>>
  <2>1. /\ DecodeDeferredTransfer(EncodeDeferredTransfer(pb)) = pb
        /\ GradidoDeferredTransferFromPbtools(pb) = Success(part)
    BY <1>6, DeferredTransferArrives
  <2>2. data = [number |-> 10, value |-> pb]
    BY <1>6 DEF SpecificFromWire, Member
  <2> HIDE DEF pb
  <2>3. f1 = one
    BY <2>2 DEF EncodeSpecific, MessageAlways
  <2>4. /\ Piece(one, Specific)
        /\ \A f : (\A N \in SUBSET Specific : Same(f, one, N)) =>
              /\ Chosen(f, Specific) = 10
              /\ Present(f, 10) /\ LastOf(f, {10}).message = EncodeDeferredTransfer(pb)
    <3>1. 10 \in Specific
      BY DEF Specific
    <3> QED BY <3>1, MemberPiece
  <2> HIDE DEF one
  <2>5. ASSUME NEW f, \A N \in SUBSET Specific : Same(f, one, N)
        PROVE  DecodeSpecific(f) = [number |-> 10, value |-> pb]
    <3>1. Chosen(f, Specific) = 10 /\ ReadMessage(f, 10, DecodeDeferredTransfer) = pb
      BY <2>1, <2>4, <2>5 DEF ReadMessage
    <3> QED BY <3>1 DEF DecodeSpecific, Member
  <2>6. SpecificFromPbtools([number |-> 10, value |-> pb]) = Success([type |-> type, part |-> part])
    BY <1>6, <2>1 DEF SpecificFromPbtools, Then, Success
  <2> QED BY <2>2, <2>3, <2>4, <2>5, <2>6
<1>7. CASE type = "community_root"
  <2> DEFINE pb == CommunityRootFromWire(part)
             one == <<[tag |-> 11, message |-> EncodeCommunityRoot(pb)]>>
  <2>1. /\ DecodeCommunityRoot(EncodeCommunityRoot(pb)) = pb
        /\ CommunityRootFromPbtools(pb) = Success(part)
    BY <1>7, CommunityRootArrives
  <2>2. data = [number |-> 11, value |-> pb]
    BY <1>7 DEF SpecificFromWire, Member
  <2> HIDE DEF pb
  <2>3. f1 = one
    BY <2>2 DEF EncodeSpecific, MessageAlways
  <2>4. /\ Piece(one, Specific)
        /\ \A f : (\A N \in SUBSET Specific : Same(f, one, N)) =>
              /\ Chosen(f, Specific) = 11
              /\ Present(f, 11) /\ LastOf(f, {11}).message = EncodeCommunityRoot(pb)
    <3>1. 11 \in Specific
      BY DEF Specific
    <3> QED BY <3>1, MemberPiece
  <2> HIDE DEF one
  <2>5. ASSUME NEW f, \A N \in SUBSET Specific : Same(f, one, N)
        PROVE  DecodeSpecific(f) = [number |-> 11, value |-> pb]
    <3>1. Chosen(f, Specific) = 11 /\ ReadMessage(f, 11, DecodeCommunityRoot) = pb
      BY <2>1, <2>4, <2>5 DEF ReadMessage
    <3> QED BY <3>1 DEF DecodeSpecific, Member
  <2>6. SpecificFromPbtools([number |-> 11, value |-> pb]) = Success([type |-> type, part |-> part])
    BY <1>7, <2>1 DEF SpecificFromPbtools, Then, Success
  <2> QED BY <2>2, <2>3, <2>4, <2>5, <2>6
<1>8. CASE type = "redeem_deferred"
  <2> DEFINE pb == GradidoRedeemDeferredTransferFromWire(part)
             one == <<[tag |-> 12, message |-> EncodeRedeemDeferredTransfer(pb)]>>
  <2>1. /\ DecodeRedeemDeferredTransfer(EncodeRedeemDeferredTransfer(pb)) = pb
        /\ GradidoRedeemDeferredTransferFromPbtools(pb) = Success(part)
    BY <1>8, RedeemDeferredTransferArrives
  <2>2. data = [number |-> 12, value |-> pb]
    BY <1>8 DEF SpecificFromWire, Member
  <2> HIDE DEF pb
  <2>3. f1 = one
    BY <2>2 DEF EncodeSpecific, MessageAlways
  <2>4. /\ Piece(one, Specific)
        /\ \A f : (\A N \in SUBSET Specific : Same(f, one, N)) =>
              /\ Chosen(f, Specific) = 12
              /\ Present(f, 12) /\ LastOf(f, {12}).message = EncodeRedeemDeferredTransfer(pb)
    <3>1. 12 \in Specific
      BY DEF Specific
    <3> QED BY <3>1, MemberPiece
  <2> HIDE DEF one
  <2>5. ASSUME NEW f, \A N \in SUBSET Specific : Same(f, one, N)
        PROVE  DecodeSpecific(f) = [number |-> 12, value |-> pb]
    <3>1. Chosen(f, Specific) = 12 /\ ReadMessage(f, 12, DecodeRedeemDeferredTransfer) = pb
      BY <2>1, <2>4, <2>5 DEF ReadMessage
    <3> QED BY <3>1 DEF DecodeSpecific, Member
  <2>6. SpecificFromPbtools([number |-> 12, value |-> pb]) = Success([type |-> type, part |-> part])
    BY <1>8, <2>1 DEF SpecificFromPbtools, Then, Success
  <2> QED BY <2>2, <2>3, <2>4, <2>5, <2>6
<1>9. CASE type = "timeout_deferred"
  <2> DEFINE pb == GradidoTimeoutDeferredTransferFromWire(part)
             one == <<[tag |-> 13, message |-> EncodeTimeoutDeferredTransfer(pb)]>>
  <2>1. /\ DecodeTimeoutDeferredTransfer(EncodeTimeoutDeferredTransfer(pb)) = pb
        /\ GradidoTimeoutDeferredTransferFromPbtools(pb) = Success(part)
    BY <1>9, TimeoutDeferredTransferArrives
  <2>2. data = [number |-> 13, value |-> pb]
    BY <1>9 DEF SpecificFromWire, Member
  <2> HIDE DEF pb
  <2>3. f1 = one
    BY <2>2 DEF EncodeSpecific, MessageAlways
  <2>4. /\ Piece(one, Specific)
        /\ \A f : (\A N \in SUBSET Specific : Same(f, one, N)) =>
              /\ Chosen(f, Specific) = 13
              /\ Present(f, 13) /\ LastOf(f, {13}).message = EncodeTimeoutDeferredTransfer(pb)
    <3>1. 13 \in Specific
      BY DEF Specific
    <3> QED BY <3>1, MemberPiece
  <2> HIDE DEF one
  <2>5. ASSUME NEW f, \A N \in SUBSET Specific : Same(f, one, N)
        PROVE  DecodeSpecific(f) = [number |-> 13, value |-> pb]
    <3>1. Chosen(f, Specific) = 13 /\ ReadMessage(f, 13, DecodeTimeoutDeferredTransfer) = pb
      BY <2>1, <2>4, <2>5 DEF ReadMessage
    <3> QED BY <3>1 DEF DecodeSpecific, Member
  <2>6. SpecificFromPbtools([number |-> 13, value |-> pb]) = Success([type |-> type, part |-> part])
    BY <1>9, <2>1 DEF SpecificFromPbtools, Then, Success
  <2> QED BY <2>2, <2>3, <2>4, <2>5, <2>6
<1> QED BY <1>1, <1>2, <1>3, <1>4, <1>5, <1>6, <1>7, <1>8, <1>9 DEF Types

-----------------------------------------------------------------------------
(* Lists: the items of a repeated field stand together.                    *)

Standing(f, b, n) ==
  \E base \in Nat :
    /\ Places(f, {n}) = base + 1 .. base + Len(b)
    /\ \A k \in 1..Len(b) : f[base + k] = b[k]

\* The place that the item of this position is read from.
ItemAt(places, k) == CHOOSE i \in places : Cardinality({j \in places : j <= i}) = k

\* They are read one by one, in their order.
LEMMA ItemsInOrder ==
  ASSUME NEW f, NEW b, NEW n, Len(b) \in Nat, Standing(f, b, n)
  PROVE  /\ Cardinality(Places(f, {n})) = Len(b)
         /\ \A k \in 1..Len(b) : f[ItemAt(Places(f, {n}), k)] = b[k]
<1> DEFINE places == Places(f, {n})
           m == Len(b)
<1>1. PICK base \in Nat : /\ places = base + 1 .. base + m
                          /\ \A k \in 1..m : f[base + k] = b[k]
  BY DEF Standing
<1> HIDE DEF m
<1>2. m \in Nat
  BY DEF m
<1> HIDE DEF places
<1>3. Cardinality(places) = m
  <2>1. base + 1 \in Int /\ base + m \in Int
    BY <1>2
  <2> QED BY <1>1, <1>2, <2>1, FS_Interval
<1>4. ASSUME NEW i \in places PROVE i \in Int /\ Cardinality({j \in places : j <= i}) = i - base
  <2>1. {j \in places : j <= i} = base + 1 .. i
    BY <1>1, <1>2
  <2>2. base \in Int /\ base + 1 \in Int /\ i \in Int /\ i >= base + 1
    BY <1>1, <1>2
  <2>3. Cardinality(base + 1 .. i) = (i - (base + 1)) + 1
    <3> DEFINE low == base + 1
    <3>1. low \in Int /\ i \in Int /\ low <= i
      BY <2>2
    <3> HIDE DEF low
    <3>2. Cardinality(low .. i) = (i - low) + 1
      <4>1. ~(low > i)
        BY <3>1
      <4>2. Cardinality(low .. i) = IF low > i THEN 0 ELSE i - low + 1
        BY <3>1, FS_Interval
      <4> QED BY <3>1, <4>1, <4>2
    <3> QED BY <3>2 DEF low
  <2>4. (i - (base + 1)) + 1 = i - base
    BY <2>2
  <2> QED BY <2>1, <2>2, <2>3, <2>4
<1>5. ASSUME NEW k \in 1..m PROVE f[ItemAt(places, k)] = b[k]
  <2>1. base + k \in places /\ (base + k) - base = k
    BY <1>1, <1>2
  <2>2. ASSUME NEW i \in places, Cardinality({j \in places : j <= i}) = k PROVE i = base + k
    <3>1. i \in Int /\ i - base = k
      BY <1>4, <2>2
    <3> QED BY <3>1
  <2>3. ItemAt(places, k) = base + k
    BY <1>4, <2>1, <2>2 DEF ItemAt
  <2> QED BY <1>1, <2>3
<1> QED BY <1>3, <1>5 DEF places, m

LEMMA StandsBefore ==
  ASSUME NEW f, NEW g, NEW b, NEW n, NEW C, Len(b) \in Nat, Sequence(f), Piece(g, C), n \notin C,
         Standing(f, b, n)
  PROVE  Standing(f \o g, b, n)
<1> DEFINE h == f \o g
<1>1. /\ Len(f) \in Nat /\ DOMAIN f = 1..Len(f) /\ Len(g) \in Nat /\ DOMAIN g = 1..Len(g)
      /\ DOMAIN h = 1..Len(f) + Len(g)
      /\ \A i \in 1..Len(f) : h[i] = f[i]
      /\ \A i \in 1..Len(g) : h[Len(f) + i] = g[i]
  BY Joined DEF Piece
<1> HIDE DEF h
<1>2. \A i \in 1..Len(f) + Len(g) :
         i \in 1..Len(f) \/ (i - Len(f) \in 1..Len(g) /\ h[i] = g[i - Len(f)])
  <2> SUFFICES ASSUME NEW i \in 1..Len(f) + Len(g), i \notin 1..Len(f)
               PROVE  i - Len(f) \in 1..Len(g) /\ h[i] = g[i - Len(f)]
    OBVIOUS
  <2>1. i - Len(f) \in 1..Len(g) /\ Len(f) + (i - Len(f)) = i
    BY <1>1
  <2> QED BY <1>1, <2>1
<1>3. \A i \in 1..Len(g) : Number(g[i]) # n
  BY <1>1 DEF Piece
<1>4. Places(h, {n}) = Places(f, {n})
  BY <1>1, <1>2, <1>3 DEF Places
<1>5. PICK base \in Nat : /\ Places(f, {n}) = base + 1 .. base + Len(b)
                          /\ \A k \in 1..Len(b) : f[base + k] = b[k]
  BY DEF Standing
<1>6. ASSUME NEW k \in 1..Len(b) PROVE h[base + k] = b[k]
  <2>1. base + k \in Places(f, {n})
    BY <1>5
  <2>2. base + k \in 1..Len(f)
    BY <1>1, <2>1 DEF Places
  <2> QED BY <1>1, <1>5, <2>2
<1>7. Standing(h, b, n)
  BY <1>4, <1>5, <1>6 DEF Standing
<1> QED BY <1>7 DEF h

LEMMA StandsAfter ==
  ASSUME NEW f, NEW b, NEW n, NEW C, Sequence(b), \A i \in DOMAIN b : Number(b[i]) = n,
         Piece(f, C), n \notin C
  PROVE  Standing(f \o b, b, n)
<1> DEFINE h == f \o b
<1>1. /\ Len(f) \in Nat /\ DOMAIN f = 1..Len(f) /\ Len(b) \in Nat /\ DOMAIN b = 1..Len(b)
      /\ DOMAIN h = 1..Len(f) + Len(b)
      /\ \A i \in 1..Len(f) : h[i] = f[i]
      /\ \A i \in 1..Len(b) : h[Len(f) + i] = b[i]
  BY Joined DEF Piece
<1> HIDE DEF h
<1>2. \A i \in 1..Len(f) + Len(b) : i \notin 1..Len(f) =>
         i - Len(f) \in 1..Len(b) /\ Len(f) + (i - Len(f)) = i
  BY <1>1
<1>3. \A i \in 1..Len(f) : Number(f[i]) # n
  BY <1>1 DEF Piece
<1>4. Places(h, {n}) = Len(f) + 1 .. Len(f) + Len(b)
  <2>1. ASSUME NEW i \in Places(h, {n}) PROVE i \in Len(f) + 1 .. Len(f) + Len(b)
    <3>1. i \in 1..Len(f) + Len(b) /\ Number(h[i]) = n
      BY <1>1 DEF Places
    <3>2. i \notin 1..Len(f)
      BY <1>1, <1>3, <3>1
    <3> QED BY <1>1, <3>1, <3>2
  <2>2. ASSUME NEW i \in Len(f) + 1 .. Len(f) + Len(b) PROVE i \in Places(h, {n})
    <3>1. i - Len(f) \in 1..Len(b) /\ Len(f) + (i - Len(f)) = i /\ i \in 1..Len(f) + Len(b)
      BY <1>1
    <3>2. h[i] = b[i - Len(f)]
      BY <1>1, <3>1
    <3>3. Number(h[i]) = n
      BY <1>1, <3>1, <3>2
    <3> QED BY <1>1, <3>1, <3>3 DEF Places
  <2> QED BY <2>1, <2>2
<1>5. Standing(h, b, n)
  BY <1>1, <1>4 DEF Standing
<1> QED BY <1>5 DEF h

\* The fields of a list whose items are encoded as e says.
LEMMA ListPiece ==
  ASSUME NEW n \in 1..14, NEW m \in Nat, NEW e
  PROVE  LET b == [i \in 1..m |-> [tag |-> n, message |-> e[i]]]
         IN  /\ Piece(b, {n}) /\ Len(b) = m
             /\ \A i \in DOMAIN b : Number(b[i]) = n
             /\ \A i \in 1..m : b[i].message = e[i]
             /\ Standing(b, b, n)
<1> DEFINE b == [i \in 1..m |-> [tag |-> n, message |-> e[i]]]
<1>1. DOMAIN b = 1..m /\ \A i \in 1..m : b[i] = [tag |-> n, message |-> e[i]]
  OBVIOUS
<1>2. Sequence(b) /\ Len(b) = m
  <2> DEFINE S == {b[i] : i \in DOMAIN b}
  <2>1. b = [i \in 1..m |-> b[i]] /\ \A i \in 1..m : b[i] \in S
    OBVIOUS
  <2> HIDE DEF b, S
  <2>2. b \in Seq(S) /\ Len(b) = m
    BY <2>1
  <2> QED BY <2>2 DEF Sequence, S
<1> HIDE DEF b
<1>3. \A i \in 1..m : Number(b[i]) = n /\ b[i].message = e[i]
  <2>1. n % FieldNumbers = n
    BY FieldNumbersAssumption
  <2>2. \A i \in 1..m : b[i].tag = n /\ b[i].message = e[i]
    BY <1>1
  <2> QED BY <2>1, <2>2 DEF Number
<1>4. Piece(b, {n})
  BY <1>1, <1>2, <1>3 DEF Piece
<1>5. Standing(b, b, n)
  <2>1. Places(b, {n}) = 0 + 1 .. 0 + Len(b)
    BY <1>1, <1>2, <1>3 DEF Places
  <2>2. \A k \in 1..Len(b) : b[0 + k] = b[k]
    BY <1>2
  <2> QED BY <2>1, <2>2 DEF Standing
<1> QED BY <1>1, <1>2, <1>3, <1>4, <1>5 DEF b

-----------------------------------------------------------------------------
(* Six pieces.                                                             *)

\* One predicate, so that the provers look for no other six.
SixPieces(f1, f2, f3, f4, f5, f6, A1, A2, A3, A4, A5, A6) ==
  /\ Piece(f1, A1) /\ Piece(f2, A2) /\ Piece(f3, A3)
  /\ Piece(f4, A4) /\ Piece(f5, A5) /\ Piece(f6, A6)
  /\ A1 \cap A2 = {} /\ (A1 \cup A2) \cap A3 = {} /\ (A1 \cup A2 \cup A3) \cap A4 = {}
  /\ (A1 \cup A2 \cup A3 \cup A4) \cap A5 = {}
  /\ (A1 \cup A2 \cup A3 \cup A4 \cup A5) \cap A6 = {}

LEMMA Six ==
  ASSUME NEW f1, NEW f2, NEW f3, NEW f4, NEW f5, NEW f6,
         NEW A1, NEW A2, NEW A3, NEW A4, NEW A5, NEW A6,
         SixPieces(f1, f2, f3, f4, f5, f6, A1, A2, A3, A4, A5, A6)
  PROVE  LET f == f1 \o f2 \o f3 \o f4 \o f5 \o f6
         IN  /\ Piece(f, A1 \cup A2 \cup A3 \cup A4 \cup A5 \cup A6)
             /\ \A N \in SUBSET A1 : Same(f, f1, N)
             /\ \A N \in SUBSET A2 : Same(f, f2, N)
             /\ \A N \in SUBSET A3 : Same(f, f3, N)
             /\ \A N \in SUBSET A4 : Same(f, f4, N)
             /\ \A N \in SUBSET A5 : Same(f, f5, N)
             /\ \A N \in SUBSET A6 : Same(f, f6, N)
<1> DEFINE g == f1 \o f2 \o f3 \o f4 \o f5
           A == A1 \cup A2 \cup A3 \cup A4 \cup A5
           f == g \o f6
<1>1. /\ Piece(g, A)
      /\ \A N \in SUBSET A1 : Same(g, f1, N)
      /\ \A N \in SUBSET A2 : Same(g, f2, N)
      /\ \A N \in SUBSET A3 : Same(g, f3, N)
      /\ \A N \in SUBSET A4 : Same(g, f4, N)
      /\ \A N \in SUBSET A5 : Same(g, f5, N)
  BY Five DEF SixPieces
<1>2. A1 \subseteq A /\ A2 \subseteq A /\ A3 \subseteq A /\ A4 \subseteq A /\ A5 \subseteq A
  OBVIOUS
<1> HIDE DEF g, A
<1>3. /\ Piece(f, A \cup A6)
      /\ \A N \in SUBSET A : Same(f, g, N)
      /\ \A N \in SUBSET A6 : Same(f, f6, N)
  <2>1. A \cap A6 = {} /\ Piece(f6, A6)
    BY DEF A, SixPieces
  <2> QED BY <1>1, <2>1, Apart
<1> HIDE DEF f
<1>4. \A N \in SUBSET A1 : Same(f, f1, N)
  BY <1>1, <1>2, <1>3, SameAgain
<1>5. \A N \in SUBSET A2 : Same(f, f2, N)
  BY <1>1, <1>2, <1>3, SameAgain
<1>6. \A N \in SUBSET A3 : Same(f, f3, N)
  BY <1>1, <1>2, <1>3, SameAgain
<1>7. \A N \in SUBSET A4 : Same(f, f4, N)
  BY <1>1, <1>2, <1>3, SameAgain
<1>8. \A N \in SUBSET A5 : Same(f, f5, N)
  BY <1>1, <1>2, <1>3, SameAgain
<1> QED BY <1>3, <1>4, <1>5, <1>6, <1>7, <1>8 DEF f, g, A

-----------------------------------------------------------------------------
(* What a list is read as.                                                 *)

LEMMA ItemsAreRead ==
  ASSUME NEW n \in 1..14, NEW m \in Nat, NEW e, NEW f,
         Standing(f, [i \in 1..m |-> [tag |-> n, message |-> e[i]]], n)
  PROVE  /\ Cardinality(Places(f, {n})) = m
         /\ \A k \in 1..m : f[ItemAt(Places(f, {n}), k)].message = e[k]
<1> DEFINE b == [i \in 1..m |-> [tag |-> n, message |-> e[i]]]
<1>1. Len(b) = m /\ \A i \in 1..m : b[i].message = e[i]
  BY ListPiece
<1>2. Standing(f, b, n)
  OBVIOUS
<1> HIDE DEF b
<1> QED BY <1>1, <1>2, ItemsInOrder

\* A list without items.
LEMMA NoItems ==
  /\ Cardinality({}) = 0
  /\ \A e : [i \in 1..0 |-> e[i]] = <<>>
<1>1. Cardinality({}) = 0
  BY FS_EmptySet
<1>2. ASSUME NEW e PROVE [i \in 1..0 |-> e[i]] = <<>>
  <2>1. 1..0 = {}
    OBVIOUS
  <2> QED BY <2>1
<1> QED BY <1>1, <1>2

LEMMA ListIsIndexed ==
  ASSUME NEW list, list \in Seq(Range(list))
  PROVE  Len(list) \in Nat /\ DOMAIN list = 1..Len(list) /\ list = [i \in 1..Len(list) |-> list[i]]
<1> DEFINE S == Range(list)
<1>1. list \in Seq(S)
  OBVIOUS
<1> HIDE DEF S
<1> QED BY <1>1

LEMMA MemosArrive ==
  ASSUME NEW list, IsListOf(list, IsEncryptedMemo)
  PROVE  LET pbs == [i \in DOMAIN list |-> EncryptedMemoFromWire(list[i])]
             b   == Repeated(1, pbs, EncodeEncryptedMemo)
         IN  /\ Sequence(b) /\ Piece(b, {1}) /\ (\A i \in DOMAIN b : Number(b[i]) = 1)
             /\ Len(b) = Len(list) /\ Len(pbs) = Len(list) /\ Len(list) \in Nat
             /\ \A f : Standing(f, b, 1) => ReadRepeated(f, 1, DecodeEncryptedMemo, TRUE) = pbs
             /\ \A f : ReadRepeated(f, 1, DecodeEncryptedMemo, FALSE) = <<>>
             /\ Every(pbs, EncryptedMemoFromPbtools) = Success(list)
             /\ Every(<<>>, EncryptedMemoFromPbtools) = Success(<<>>)
<1> DEFINE pbs == [i \in DOMAIN list |-> EncryptedMemoFromWire(list[i])]
           b   == Repeated(1, pbs, EncodeEncryptedMemo)
           m   == Len(list)
           e   == [i \in 1..m |-> EncodeEncryptedMemo(pbs[i])]
<1>1. m \in Nat /\ DOMAIN list = 1..m /\ list = [i \in 1..m |-> list[i]]
  BY ListIsIndexed DEF IsListOf
<1>2. \A i \in 1..m : IsEncryptedMemo(list[i])
  BY <1>1 DEF IsListOf
<1> HIDE DEF m
<1>3. /\ DOMAIN pbs = 1..m /\ pbs = [i \in 1..m |-> pbs[i]] /\ Len(pbs) = m
      /\ \A i \in 1..m : /\ DecodeEncryptedMemo(EncodeEncryptedMemo(pbs[i])) = pbs[i]
                         /\ EncryptedMemoFromPbtools(pbs[i]) = Success(list[i])
  BY <1>1, <1>2, MemoArrives
<1> HIDE DEF pbs
<1>4. b = [i \in 1..m |-> [tag |-> 1, message |-> e[i]]]
  BY <1>3 DEF Repeated
<1>5. \A i \in 1..m : e[i] = EncodeEncryptedMemo(pbs[i])
  OBVIOUS
<1> HIDE DEF b, e
<1>6. Piece(b, {1}) /\ Len(b) = m /\ (\A i \in DOMAIN b : Number(b[i]) = 1)
  BY <1>1, <1>4, ListPiece
<1>7. ASSUME NEW f, Standing(f, b, 1)
      PROVE  ReadRepeated(f, 1, DecodeEncryptedMemo, TRUE) = pbs
  <2> DEFINE places == Places(f, {1})
  <2>1. /\ Cardinality(places) = m
        /\ \A k \in 1..m : f[ItemAt(places, k)].message = e[k]
    BY <1>1, <1>4, <1>7, ItemsAreRead
  <2>2. ReadRepeated(f, 1, DecodeEncryptedMemo, TRUE)
          = [k \in 1..Cardinality(places) |-> DecodeEncryptedMemo(f[ItemAt(places, k)].message)]
    BY DEF ReadRepeated, ItemAt
  <2> HIDE DEF places
  <2>3. \A k \in 1..m : DecodeEncryptedMemo(f[ItemAt(places, k)].message) = pbs[k]
    BY <1>3, <1>5, <2>1
  <2> QED BY <1>3, <2>1, <2>2, <2>3
<1>8. ASSUME NEW f PROVE ReadRepeated(f, 1, DecodeEncryptedMemo, FALSE) = <<>>
  BY NoItems DEF ReadRepeated
<1>9. Every(pbs, EncryptedMemoFromPbtools) = Success(list)
  <2>1. \A i \in 1..m : EncryptedMemoFromPbtools(pbs[i]).result = "SUCCESS"
                        /\ EncryptedMemoFromPbtools(pbs[i]).value = list[i]
    BY <1>3 DEF Success
  <2> DEFINE made == [i \in DOMAIN pbs |-> EncryptedMemoFromPbtools(pbs[i])]
             failed == {i \in DOMAIN pbs : made[i].result # "SUCCESS"}
             values == [i \in DOMAIN pbs |-> made[i].value]
  <2>2. failed = {}
    BY <1>3, <2>1
  <2>3. values = list
    <3>1. values = [i \in 1..m |-> list[i]]
      BY <1>3, <2>1
    <3> QED BY <1>1, <3>1
  <2>4. Every(pbs, EncryptedMemoFromPbtools) = IF failed = {} THEN Success(values)
          ELSE Failure(made[CHOOSE i \in failed : \A j \in failed : i <= j].result)
    BY DEF Every
  <2> HIDE DEF made, failed, values
  <2> QED BY <2>2, <2>3, <2>4
<1>10. Every(<<>>, EncryptedMemoFromPbtools) = Success(<<>>)
  BY DEF Every
<1> QED BY <1>1, <1>3, <1>6, <1>7, <1>8, <1>9, <1>10 DEF pbs, b, m, Piece

LEMMA PairsArrive ==
  ASSUME NEW list, IsListOf(list, IsSignaturePair)
  PROVE  LET pbs == [i \in DOMAIN list |-> SignaturePairFromWire(list[i])]
             b   == Repeated(1, pbs, EncodeSignaturePair)
         IN  /\ Sequence(b) /\ Piece(b, {1}) /\ (\A i \in DOMAIN b : Number(b[i]) = 1)
             /\ Len(b) = Len(list) /\ Len(pbs) = Len(list) /\ Len(list) \in Nat
             /\ \A f : Standing(f, b, 1) => ReadRepeated(f, 1, DecodeSignaturePair, TRUE) = pbs
             /\ \A f : ReadRepeated(f, 1, DecodeSignaturePair, FALSE) = <<>>
             /\ Every(pbs, SignaturePairFromPbtools) = Success(list)
             /\ Every(<<>>, SignaturePairFromPbtools) = Success(<<>>)
<1> DEFINE pbs == [i \in DOMAIN list |-> SignaturePairFromWire(list[i])]
           b   == Repeated(1, pbs, EncodeSignaturePair)
           m   == Len(list)
           e   == [i \in 1..m |-> EncodeSignaturePair(pbs[i])]
<1>1. m \in Nat /\ DOMAIN list = 1..m /\ list = [i \in 1..m |-> list[i]]
  BY ListIsIndexed DEF IsListOf
<1>2. \A i \in 1..m : IsSignaturePair(list[i])
  BY <1>1 DEF IsListOf
<1> HIDE DEF m
<1>3. /\ DOMAIN pbs = 1..m /\ pbs = [i \in 1..m |-> pbs[i]] /\ Len(pbs) = m
      /\ \A i \in 1..m : /\ DecodeSignaturePair(EncodeSignaturePair(pbs[i])) = pbs[i]
                         /\ SignaturePairFromPbtools(pbs[i]) = Success(list[i])
  BY <1>1, <1>2, PairArrives
<1> HIDE DEF pbs
<1>4. b = [i \in 1..m |-> [tag |-> 1, message |-> e[i]]]
  BY <1>3 DEF Repeated
<1>5. \A i \in 1..m : e[i] = EncodeSignaturePair(pbs[i])
  OBVIOUS
<1> HIDE DEF b, e
<1>6. Piece(b, {1}) /\ Len(b) = m /\ (\A i \in DOMAIN b : Number(b[i]) = 1)
  BY <1>1, <1>4, ListPiece
<1>7. ASSUME NEW f, Standing(f, b, 1)
      PROVE  ReadRepeated(f, 1, DecodeSignaturePair, TRUE) = pbs
  <2> DEFINE places == Places(f, {1})
  <2>1. /\ Cardinality(places) = m
        /\ \A k \in 1..m : f[ItemAt(places, k)].message = e[k]
    BY <1>1, <1>4, <1>7, ItemsAreRead
  <2>2. ReadRepeated(f, 1, DecodeSignaturePair, TRUE)
          = [k \in 1..Cardinality(places) |-> DecodeSignaturePair(f[ItemAt(places, k)].message)]
    BY DEF ReadRepeated, ItemAt
  <2> HIDE DEF places
  <2>3. \A k \in 1..m : DecodeSignaturePair(f[ItemAt(places, k)].message) = pbs[k]
    BY <1>3, <1>5, <2>1
  <2> QED BY <1>3, <2>1, <2>2, <2>3
<1>8. ASSUME NEW f PROVE ReadRepeated(f, 1, DecodeSignaturePair, FALSE) = <<>>
  BY NoItems DEF ReadRepeated
<1>9. Every(pbs, SignaturePairFromPbtools) = Success(list)
  <2>1. \A i \in 1..m : SignaturePairFromPbtools(pbs[i]).result = "SUCCESS"
                        /\ SignaturePairFromPbtools(pbs[i]).value = list[i]
    BY <1>3 DEF Success
  <2> DEFINE made == [i \in DOMAIN pbs |-> SignaturePairFromPbtools(pbs[i])]
             failed == {i \in DOMAIN pbs : made[i].result # "SUCCESS"}
             values == [i \in DOMAIN pbs |-> made[i].value]
  <2>2. failed = {}
    BY <1>3, <2>1
  <2>3. values = list
    <3>1. values = [i \in 1..m |-> list[i]]
      BY <1>3, <2>1
    <3> QED BY <1>1, <3>1
  <2>4. Every(pbs, SignaturePairFromPbtools) = IF failed = {} THEN Success(values)
          ELSE Failure(made[CHOOSE i \in failed : \A j \in failed : i <= j].result)
    BY DEF Every
  <2> HIDE DEF made, failed, values
  <2> QED BY <2>2, <2>3, <2>4
<1>10. Every(<<>>, SignaturePairFromPbtools) = Success(<<>>)
  BY DEF Every
<1> QED BY <1>1, <1>3, <1>6, <1>7, <1>8, <1>9, <1>10 DEF pbs, b, m, Piece

LEMMA BalancesArrive ==
  ASSUME NEW list, IsListOf(list, IsAccountBalance)
  PROVE  LET pbs == [i \in DOMAIN list |-> AccountBalanceFromWire(list[i])]
             b   == Repeated(7, pbs, EncodeAccountBalance)
         IN  /\ Sequence(b) /\ Piece(b, {7}) /\ (\A i \in DOMAIN b : Number(b[i]) = 7)
             /\ Len(b) = Len(list) /\ Len(pbs) = Len(list) /\ Len(list) \in Nat
             /\ \A f : Standing(f, b, 7) => ReadRepeated(f, 7, DecodeAccountBalance, TRUE) = pbs
             /\ \A f : ReadRepeated(f, 7, DecodeAccountBalance, FALSE) = <<>>
             /\ Every(pbs, AccountBalanceFromPbtools) = Success(list)
             /\ Every(<<>>, AccountBalanceFromPbtools) = Success(<<>>)
<1> DEFINE pbs == [i \in DOMAIN list |-> AccountBalanceFromWire(list[i])]
           b   == Repeated(7, pbs, EncodeAccountBalance)
           m   == Len(list)
           e   == [i \in 1..m |-> EncodeAccountBalance(pbs[i])]
<1>1. m \in Nat /\ DOMAIN list = 1..m /\ list = [i \in 1..m |-> list[i]]
  BY ListIsIndexed DEF IsListOf
<1>2. \A i \in 1..m : IsAccountBalance(list[i])
  BY <1>1 DEF IsListOf
<1> HIDE DEF m
<1>3. /\ DOMAIN pbs = 1..m /\ pbs = [i \in 1..m |-> pbs[i]] /\ Len(pbs) = m
      /\ \A i \in 1..m : /\ DecodeAccountBalance(EncodeAccountBalance(pbs[i])) = pbs[i]
                         /\ AccountBalanceFromPbtools(pbs[i]) = Success(list[i])
  BY <1>1, <1>2, BalanceArrives
<1> HIDE DEF pbs
<1>4. b = [i \in 1..m |-> [tag |-> 7, message |-> e[i]]]
  BY <1>3 DEF Repeated
<1>5. \A i \in 1..m : e[i] = EncodeAccountBalance(pbs[i])
  OBVIOUS
<1> HIDE DEF b, e
<1>6. Piece(b, {7}) /\ Len(b) = m /\ (\A i \in DOMAIN b : Number(b[i]) = 7)
  BY <1>1, <1>4, ListPiece
<1>7. ASSUME NEW f, Standing(f, b, 7)
      PROVE  ReadRepeated(f, 7, DecodeAccountBalance, TRUE) = pbs
  <2> DEFINE places == Places(f, {7})
  <2>1. /\ Cardinality(places) = m
        /\ \A k \in 1..m : f[ItemAt(places, k)].message = e[k]
    BY <1>1, <1>4, <1>7, ItemsAreRead
  <2>2. ReadRepeated(f, 7, DecodeAccountBalance, TRUE)
          = [k \in 1..Cardinality(places) |-> DecodeAccountBalance(f[ItemAt(places, k)].message)]
    BY DEF ReadRepeated, ItemAt
  <2> HIDE DEF places
  <2>3. \A k \in 1..m : DecodeAccountBalance(f[ItemAt(places, k)].message) = pbs[k]
    BY <1>3, <1>5, <2>1
  <2> QED BY <1>3, <2>1, <2>2, <2>3
<1>8. ASSUME NEW f PROVE ReadRepeated(f, 7, DecodeAccountBalance, FALSE) = <<>>
  BY NoItems DEF ReadRepeated
<1>9. Every(pbs, AccountBalanceFromPbtools) = Success(list)
  <2>1. \A i \in 1..m : AccountBalanceFromPbtools(pbs[i]).result = "SUCCESS"
                        /\ AccountBalanceFromPbtools(pbs[i]).value = list[i]
    BY <1>3 DEF Success
  <2> DEFINE made == [i \in DOMAIN pbs |-> AccountBalanceFromPbtools(pbs[i])]
             failed == {i \in DOMAIN pbs : made[i].result # "SUCCESS"}
             values == [i \in DOMAIN pbs |-> made[i].value]
  <2>2. failed = {}
    BY <1>3, <2>1
  <2>3. values = list
    <3>1. values = [i \in 1..m |-> list[i]]
      BY <1>3, <2>1
    <3> QED BY <1>1, <3>1
  <2>4. Every(pbs, AccountBalanceFromPbtools) = IF failed = {} THEN Success(values)
          ELSE Failure(made[CHOOSE i \in failed : \A j \in failed : i <= j].result)
    BY DEF Every
  <2> HIDE DEF made, failed, values
  <2> QED BY <2>2, <2>3, <2>4
<1>10. Every(<<>>, AccountBalanceFromPbtools) = Success(<<>>)
  BY DEF Every
<1> QED BY <1>1, <1>3, <1>6, <1>7, <1>8, <1>9, <1>10 DEF pbs, b, m, Piece

-----------------------------------------------------------------------------
(* The body.                                                               *)

\* The list stands where it stood when four pieces follow.
LEMMA StandsFirst ==
  ASSUME NEW f, NEW b, NEW n, NEW g3, NEW g4, NEW g5, NEW g6,
         NEW A, NEW A3, NEW A4, NEW A5, NEW A6,
         Len(b) \in Nat, Standing(f, b, n), Piece(f, A),
         Piece(g3, A3), Piece(g4, A4), Piece(g5, A5), Piece(g6, A6),
         n \notin A3, n \notin A4, n \notin A5, n \notin A6
  PROVE  Standing(f \o g3 \o g4 \o g5 \o g6, b, n)
<1>1. Sequence(f) /\ Sequence(g3) /\ Sequence(g4) /\ Sequence(g5) /\ Sequence(g6)
  BY DEF Piece
<1> DEFINE h3 == f \o g3
           h4 == h3 \o g4
           h5 == h4 \o g5
           h6 == h5 \o g6
<1>2. Standing(h3, b, n) /\ Sequence(h3)
  BY <1>1, StandsBefore, Joined
<1> HIDE DEF h3
<1>3. Standing(h4, b, n) /\ Sequence(h4)
  BY <1>1, <1>2, StandsBefore, Joined
<1> HIDE DEF h4
<1>4. Standing(h5, b, n) /\ Sequence(h5)
  BY <1>1, <1>3, StandsBefore, Joined
<1> HIDE DEF h5
<1>5. Standing(h6, b, n)
  BY <1>1, <1>4, StandsBefore
<1> QED BY <1>5 DEF h3, h4, h5, h6

LEMMA BodyIsRead ==
  ASSUME NullIsNoRecord, NEW w, IsTransactionBody(w), NEW room
  PROVE  LET pb == TransactionBodyFromWire(w)
             f  == EncodeTransactionBody(pb)
         IN  /\ ~Aborts(f) /\ Sequence(f)
             /\ DecodeTransactionBody(f, room)
                  = [pb EXCEPT !.memos = IF "memos" \in room THEN @ ELSE <<>>]
<1> DEFINE pb == TransactionBodyFromWire(w)
           f  == EncodeTransactionBody(pb)
           memos == [i \in DOMAIN w.memos |-> EncryptedMemoFromWire(w.memos[i])]
           created == TimestampFromWire(w.created_at)
           other == CommunityUuidFromWire(w.other_community_uuid)
           data == SpecificFromWire(w.transaction_type, w.data)
           f1 == EncodeSpecific(data)
           f2 == Repeated(1, memos, EncodeEncryptedMemo)
           f3 == <<[tag |-> 2, message |-> EncodeTimestamp(created)]>>
           f4 == Varint(3, ProtocolVersion)
           f5 == Varint(4, w.type)
           f6 == Bytes(5, other)
<1>1. pb = [memos |-> memos, created_at |-> created, version_number |-> ProtocolVersion,
            type |-> w.type, other_community_uuid |-> other, data |-> data]
  BY DEF TransactionBodyFromWire
<1>2. /\ IsListOf(w.memos, IsEncryptedMemo) /\ IsTimestamp(w.created_at) /\ w.type \in Int32
      /\ w.transaction_type \in Types /\ IsPart(w.transaction_type, w.data)
  BY DEF IsTransactionBody
<1>3. /\ Sequence(f2) /\ Piece(f2, {1}) /\ (\A i \in DOMAIN f2 : Number(f2[i]) = 1)
      /\ Len(f2) \in Nat
      /\ \A g : Standing(g, f2, 1) => ReadRepeated(g, 1, DecodeEncryptedMemo, TRUE) = memos
      /\ \A g : ReadRepeated(g, 1, DecodeEncryptedMemo, FALSE) = <<>>
  BY <1>2, MemosArrive
<1>4. /\ Piece(f1, Specific)
      /\ \A g : (\A N \in SUBSET Specific : Same(g, f1, N)) => DecodeSpecific(g) = data
  BY <1>2, SpecificArrives
<1>5. created # NULL /\ DecodeTimestamp(EncodeTimestamp(created)) = created
  BY <1>2, TimestampArrives
<1>6. other.size = 0 => other = NoBytes
  BY UuidArrives
<1> HIDE DEF memos, created, other, data, pb
<1>7. f = f1 \o f2 \o f3 \o f4 \o f5 \o f6
  BY <1>1, <1>5 DEF EncodeTransactionBody, Message, MessageAlways
<1>8. /\ Piece(f3, {2})
      /\ \A g : Same(g, f3, {2}) =>
           Places(g, {2}) # {} /\ LastOf(g, {2}).message = EncodeTimestamp(created)
  BY MessagePiece
<1>9. /\ Piece(f4, {3}) /\ \A g : Same(g, f4, {3}) => ReadVarint(g, 3) = ProtocolVersion
  BY VarintPiece
<1>10. /\ Piece(f5, {4}) /\ \A g : Same(g, f5, {4}) => ReadVarint(g, 4) = w.type
  BY VarintPiece
<1>11. /\ Piece(f6, {5}) /\ \A g : Same(g, f6, {5}) => ReadBytes(g, 5) = other
  BY <1>6, BytesPiece
<1> HIDE DEF f, f1, f2, f3, f4, f5, f6
<1>12. /\ Piece(f, Specific \cup {1} \cup {2} \cup {3} \cup {4} \cup {5})
       /\ \A N \in SUBSET Specific : Same(f, f1, N)
       /\ Same(f, f3, {2}) /\ Same(f, f4, {3}) /\ Same(f, f5, {4}) /\ Same(f, f6, {5})
  <2>1. /\ Specific \cap {1} = {} /\ (Specific \cup {1}) \cap {2} = {}
        /\ (Specific \cup {1} \cup {2}) \cap {3} = {}
        /\ (Specific \cup {1} \cup {2} \cup {3}) \cap {4} = {}
        /\ (Specific \cup {1} \cup {2} \cup {3} \cup {4}) \cap {5} = {}
    BY DEF Specific
  <2>2. /\ Piece(f, Specific \cup {1} \cup {2} \cup {3} \cup {4} \cup {5})
        /\ \A N \in SUBSET Specific : Same(f, f1, N)
        /\ \A N \in SUBSET {2} : Same(f, f3, N)
        /\ \A N \in SUBSET {3} : Same(f, f4, N)
        /\ \A N \in SUBSET {4} : Same(f, f5, N)
        /\ \A N \in SUBSET {5} : Same(f, f6, N)
    <3> DEFINE h == f1 \o f2 \o f3 \o f4 \o f5 \o f6
               A2 == {1}
               A3 == {2}
               A4 == {3}
               A5 == {4}
               A6 == {5}
    <3>1. SixPieces(f1, f2, f3, f4, f5, f6, Specific, A2, A3, A4, A5, A6)
      BY <1>3, <1>4, <1>8, <1>9, <1>10, <1>11, <2>1 DEF SixPieces
    <3> HIDE DEF A2, A3, A4, A5, A6
    <3>2. /\ Piece(h, Specific \cup A2 \cup A3 \cup A4 \cup A5 \cup A6)
          /\ \A N \in SUBSET Specific : Same(h, f1, N)
          /\ \A N \in SUBSET A2 : Same(h, f2, N)
          /\ \A N \in SUBSET A3 : Same(h, f3, N)
          /\ \A N \in SUBSET A4 : Same(h, f4, N)
          /\ \A N \in SUBSET A5 : Same(h, f5, N)
          /\ \A N \in SUBSET A6 : Same(h, f6, N)
      BY ONLY <3>1, Six
    <3>3. f = h
      BY <1>7
    <3> HIDE DEF h
    <3> USE DEF A2, A3, A4, A5, A6
    <3> QED BY <3>2, <3>3
  <2> QED BY <2>2
<1>13. Standing(f, f2, 1)
  <2>1. 1 \notin Specific
    BY DEF Specific
  <2>2. Standing(f1 \o f2, f2, 1)
    BY <1>3, <1>4, <2>1, StandsAfter
  <2>3. Piece(f1 \o f2, Specific \cup {1})
    <3>1. Specific \cap {1} = {}
      BY <2>1
    <3> QED BY <1>3, <1>4, <3>1, Apart
  <2>4. 1 \notin {2} /\ 1 \notin {3} /\ 1 \notin {4} /\ 1 \notin {5}
    OBVIOUS
  <2> QED BY <1>3, <1>7, <1>8, <1>9, <1>10, <1>11, <2>2, <2>3, <2>4, StandsFirst
<1>14. ~Aborts(f) /\ Sequence(f)
  <2>1. 0 \notin Specific \cup {1} \cup {2} \cup {3} \cup {4} \cup {5}
    BY DEF Specific
  <2> QED BY <1>12, <2>1 DEF Aborts, Piece
<1>15. /\ ReadMessage(f, 2, DecodeTimestamp) = created
       /\ ReadUint32(f, 3) = ProtocolVersion
       /\ ReadEnum(f, 4) = w.type
       /\ ReadBytes(f, 5) = other
       /\ DecodeSpecific(f) = data
  <2>1. ReadMessage(f, 2, DecodeTimestamp) = created
    BY <1>5, <1>8, <1>12 DEF ReadMessage, Present
  <2>2. ReadUint32(f, 3) = ProtocolVersion
    BY <1>9, <1>12, VersionAssumption, Uint32IsRead
  <2>3. ReadEnum(f, 4) = w.type
    BY <1>2, <1>10, <1>12, Int32IsRead DEF ReadEnum
  <2> QED BY <1>4, <1>11, <1>12, <2>1, <2>2, <2>3
<1>16. ReadRepeated(f, 1, DecodeEncryptedMemo, "memos" \in room)
         = IF "memos" \in room THEN memos ELSE <<>>
  <2>1. ASSUME "memos" \in room
        PROVE  ReadRepeated(f, 1, DecodeEncryptedMemo, "memos" \in room)
                 = ReadRepeated(f, 1, DecodeEncryptedMemo, TRUE)
    BY <2>1 DEF ReadRepeated
  <2>2. ASSUME "memos" \notin room
        PROVE  ReadRepeated(f, 1, DecodeEncryptedMemo, "memos" \in room)
                 = ReadRepeated(f, 1, DecodeEncryptedMemo, FALSE)
    BY <2>2 DEF ReadRepeated
  <2> QED BY <1>3, <1>13, <2>1, <2>2
<1>17. DecodeTransactionBody(f, room)
         = [memos |-> IF "memos" \in room THEN memos ELSE <<>>, created_at |-> created,
            version_number |-> ProtocolVersion, type |-> w.type,
            other_community_uuid |-> other, data |-> data]
  BY <1>15, <1>16 DEF DecodeTransactionBody
<1>18. DecodeTransactionBody(f, room)
         = [pb EXCEPT !.memos = IF "memos" \in room THEN @ ELSE <<>>]
  BY <1>1, <1>17
<1> QED BY <1>14, <1>18 DEF f, pb

LEMMA BodyArrives ==
  ASSUME NullIsNoRecord, NEW w, IsTransactionBody(w), NEW room
  PROVE  LET made == TransactionBodyDecode(EncodeTransactionBody(TransactionBodyFromWire(w)), room)
         IN  IF "memos" \in room /\ Len(w.memos) >= MaxCount
             THEN made = Failure("ARRAY_INDEX_OUT_OF_BOUNDS")
             ELSE made = Success(BodyIn(w, room))
<1> DEFINE pb == TransactionBodyFromWire(w)
           f  == EncodeTransactionBody(pb)
           sent == [i \in DOMAIN w.memos |-> EncryptedMemoFromWire(w.memos[i])]
           pbs == IF "memos" \in room THEN sent ELSE <<>>
           memos == IF "memos" \in room THEN w.memos ELSE <<>>
           created == TimestampFromWire(w.created_at)
           other == CommunityUuidFromWire(w.other_community_uuid)
           data == SpecificFromWire(w.transaction_type, w.data)
           read == [memos |-> pbs, created_at |-> created, version_number |-> ProtocolVersion,
                    type |-> w.type, other_community_uuid |-> other, data |-> data]
<1>1. TransactionBodyDecode(f, room) = TransactionBodyFromPbtools(read)
  <2>1. pb = [memos |-> sent, created_at |-> created, version_number |-> ProtocolVersion,
              type |-> w.type, other_community_uuid |-> other, data |-> data]
    BY DEF TransactionBodyFromWire
  <2>2. /\ ~Aborts(f)
        /\ DecodeTransactionBody(f, room)
             = [pb EXCEPT !.memos = IF "memos" \in room THEN @ ELSE <<>>]
    BY BodyIsRead
  <2> HIDE DEF pb, sent, created, other, data
  <2>3. [pb EXCEPT !.memos = IF "memos" \in room THEN @ ELSE <<>>] = read
    BY <2>1
  <2> QED BY <2>2, <2>3 DEF TransactionBodyDecode
<1>2. /\ w = [memos |-> w.memos, other_community_uuid |-> w.other_community_uuid,
              created_at |-> w.created_at, type |-> w.type,
              transaction_type |-> w.transaction_type, data |-> w.data]
      /\ IsListOf(w.memos, IsEncryptedMemo) /\ IsTimestamp(w.created_at)
      /\ w.transaction_type \in Types /\ IsPart(w.transaction_type, w.data)
  BY DEF IsTransactionBody
<1>3. /\ Every(pbs, EncryptedMemoFromPbtools) = Success(memos)
      /\ Len(pbs) = IF "memos" \in room THEN Len(w.memos) ELSE 0
      /\ Len(w.memos) \in Nat
  <2>1. /\ Every(sent, EncryptedMemoFromPbtools) = Success(w.memos)
        /\ Every(<<>>, EncryptedMemoFromPbtools) = Success(<<>>)
        /\ Len(sent) = Len(w.memos) /\ Len(w.memos) \in Nat
    BY <1>2, MemosArrive
  <2>2. Len(<<>>) = 0
    OBVIOUS
  <2> HIDE DEF sent
  <2>3. CASE "memos" \in room
    <3>1. pbs = sent /\ memos = w.memos
      BY <2>3
    <3> QED BY <2>1, <2>3, <3>1
  <2>4. CASE "memos" \notin room
    <3>1. pbs = <<>> /\ memos = <<>>
      BY <2>4
    <3> QED BY <2>1, <2>2, <2>4, <3>1
  <2> QED BY <2>3, <2>4
<1>4. TimestampFromPbtools(created) = Success(w.created_at)
  BY <1>2, TimestampArrives
<1>5. (IF other.size = 0 THEN Success(NULL) ELSE CommunityUuidFromPbtools(other))
        = Success(w.other_community_uuid)
  BY UuidArrives
<1>6. SpecificFromPbtools(data) = Success([type |-> w.transaction_type, part |-> w.data])
  BY <1>2, SpecificArrives
<1> HIDE DEF f, created, other, data
<1>7. CASE Len(pbs) >= MaxCount
  <2>1. "memos" \in room /\ Len(w.memos) >= MaxCount
    <3>1. ~(0 >= MaxCount)
      BY MaxCountAssumption
    <3> HIDE DEF pbs
    <3> QED BY <1>3, <1>7, <3>1
  <2> HIDE DEF pbs
  <2>2. TransactionBodyFromPbtools(read) = Failure("ARRAY_INDEX_OUT_OF_BOUNDS")
    BY <1>7 DEF TransactionBodyFromPbtools
  <2> QED BY <1>1, <2>1, <2>2 DEF f
<1>8. CASE ~(Len(pbs) >= MaxCount)
  <2>1. ~("memos" \in room /\ Len(w.memos) >= MaxCount)
    <3> HIDE DEF pbs
    <3> QED BY <1>3, <1>8
  <2> HIDE DEF pbs, memos
  <2>2. TransactionBodyFromPbtools(read)
          = Success([memos |-> memos, other_community_uuid |-> w.other_community_uuid,
                     created_at |-> w.created_at, type |-> w.type,
                     transaction_type |-> w.transaction_type, data |-> w.data])
    <3>1. /\ read.version_number = ProtocolVersion /\ read.memos = pbs
          /\ read.created_at = created /\ read.other_community_uuid = other
          /\ read.data = data /\ read.type = w.type
      OBVIOUS
    <3> HIDE DEF read
    <3> QED BY <1>3, <1>4, <1>5, <1>6, <1>8, <3>1 DEF TransactionBodyFromPbtools, Then, Success
  <2>3. BodyIn(w, room)
          = [memos |-> memos, other_community_uuid |-> w.other_community_uuid,
             created_at |-> w.created_at, type |-> w.type,
             transaction_type |-> w.transaction_type, data |-> w.data]
    BY <1>2 DEF BodyIn, memos
  <2> QED BY <1>1, <2>1, <2>2, <2>3 DEF f
<1> QED BY <1>7, <1>8

-----------------------------------------------------------------------------
(* The signed transaction around the body.                                 *)

\* The map of signatures, and the pairs that are read of one.
SignatureMapFromWire(list) ==
  IF list = <<>> THEN NULL
  ELSE [sig_pair |-> [i \in DOMAIN list |-> SignaturePairFromWire(list[i])]]

PairsRead(f, room) ==
  LET Decode(g) == DecodeSignatureMap(g, room)
      read == ReadMessage(f, 1, Decode)
  IN  IF read = NULL THEN <<>> ELSE read.sig_pair

\* The map is left out where it is empty.
LEMMA OneMessage ==
  ASSUME NEW n \in 1..14, NEW message, NEW one, one = <<[tag |-> n, message |-> message]>>
  PROVE  /\ Piece(one, {n})
         /\ \A f : Same(f, one, {n}) => Places(f, {n}) # {} /\ LastOf(f, {n}).message = message
<1> DEFINE sent == <<[tag |-> n, message |-> message]>>
<1>1. /\ Piece(sent, {n})
      /\ \A f, N : n \in N /\ Same(f, sent, N) =>
                     /\ Places(f, N) # {} /\ LastOf(f, N).message = message
                     /\ Number(LastOf(f, N)) = n
  BY MessagePiece
<1>2. one = sent
  OBVIOUS
<1> HIDE DEF sent
<1>3. ASSUME NEW f, Same(f, one, {n})
      PROVE  Places(f, {n}) # {} /\ LastOf(f, {n}).message = message
  <2>1. n \in {n}
    OBVIOUS
  <2> QED BY <1>1, <1>2, <1>3, <2>1
<1> QED BY <1>1, <1>2, <1>3

LEMMA SignatureMapPiece ==
  ASSUME NullIsNoRecord, NEW list, IsListOf(list, IsSignaturePair), Len(list) < MaxCount, NEW room
  PROVE  LET f1 == Message(1, SignatureMapFromWire(list), EncodeSignatureMap)
         IN  /\ Piece(f1, {1})
             /\ \A f : Same(f, f1, {1}) =>
                  /\ ~(Len(PairsRead(f, room)) >= MaxCount)
                  /\ Every(PairsRead(f, room), SignaturePairFromPbtools)
                       = Success(IF "sig_pair" \in room THEN list ELSE <<>>)
<1> DEFINE pbs  == [i \in DOMAIN list |-> SignaturePairFromWire(list[i])]
           map  == SignatureMapFromWire(list)
           f1   == Message(1, map, EncodeSignatureMap)
           held == IF "sig_pair" \in room THEN list ELSE <<>>
           b    == Repeated(1, pbs, EncodeSignaturePair)
<1>1. /\ Piece(b, {1}) /\ (\A i \in DOMAIN b : Number(b[i]) = 1)
      /\ Len(pbs) = Len(list) /\ Len(list) \in Nat
      /\ \A f : Standing(f, b, 1) => ReadRepeated(f, 1, DecodeSignaturePair, TRUE) = pbs
      /\ \A f : ReadRepeated(f, 1, DecodeSignaturePair, FALSE) = <<>>
      /\ Every(pbs, SignaturePairFromPbtools) = Success(list)
      /\ Every(<<>>, SignaturePairFromPbtools) = Success(<<>>)
  BY PairsArrive
<1>2. ~(Len(list) >= MaxCount) /\ ~(0 >= MaxCount) /\ Len(<<>>) = 0
  BY <1>1, MaxCountAssumption
<1>3. CASE list = <<>>
  <2>1. f1 = <<>> /\ held = <<>>
    BY <1>3 DEF Message, SignatureMapFromWire
  <2>2. ASSUME NEW f, Same(f, <<>>, {1}) PROVE PairsRead(f, room) = <<>>
    BY <2>2, NoPiece DEF Same, ReadMessage, Present, PairsRead
  <2> HIDE DEF f1, held
  <2>3. /\ Piece(f1, {1})
        /\ \A f : Same(f, f1, {1}) =>
             /\ ~(Len(PairsRead(f, room)) >= MaxCount)
             /\ Every(PairsRead(f, room), SignaturePairFromPbtools) = Success(held)
    BY <1>1, <1>2, <2>1, <2>2, NoPiece
  <2> QED BY <2>3 DEF f1, held
<1>4. CASE list # <<>>
  <2>1. map = [sig_pair |-> pbs]
    BY <1>4 DEF SignatureMapFromWire
  <2>2. map # NULL
    <3>1. map = [m \in {"sig_pair"} |-> map[m]]
      BY <2>1
    <3> HIDE DEF map
    <3> QED BY <3>1, RecordIsThere
  <2>3. f1 = <<[tag |-> 1, message |-> b]>>
    BY <2>1, <2>2 DEF Message, MessageAlways, EncodeSignatureMap
  <2>4. /\ Piece(f1, {1})
        /\ \A f : Same(f, f1, {1}) => Places(f, {1}) # {} /\ LastOf(f, {1}).message = b
    <3> HIDE DEF b, f1
    <3> QED BY <2>3, OneMessage
  <2>5. Standing(b, b, 1)
    <3>1. Piece(<<>>, {2}) /\ Sequence(b) /\ 1 \notin {2}
      BY <1>1, NoPiece DEF Piece
    <3>2. Standing(<<>> \o b, b, 1)
      BY <1>1, <3>1, StandsAfter
    <3>3. <<>> \o b = b
      <4> DEFINE S == {b[i] : i \in DOMAIN b}
      <4>1. b \in Seq(S)
        BY <3>1 DEF Sequence
      <4> HIDE DEF S, b
      <4> QED BY <4>1
    <3> QED BY <3>2, <3>3
  <2> HIDE DEF pbs, map, f1, b
  <2>6. DecodeSignatureMap(b, room) = [sig_pair |-> IF "sig_pair" \in room THEN pbs ELSE <<>>]
    <3>1. ASSUME "sig_pair" \in room
          PROVE  ReadRepeated(b, 1, DecodeSignaturePair, "sig_pair" \in room)
                   = ReadRepeated(b, 1, DecodeSignaturePair, TRUE)
      BY <3>1 DEF ReadRepeated
    <3>2. ASSUME "sig_pair" \notin room
          PROVE  ReadRepeated(b, 1, DecodeSignaturePair, "sig_pair" \in room)
                   = ReadRepeated(b, 1, DecodeSignaturePair, FALSE)
      BY <3>2 DEF ReadRepeated
    <3>3. ReadRepeated(b, 1, DecodeSignaturePair, "sig_pair" \in room)
            = IF "sig_pair" \in room THEN pbs ELSE <<>>
      BY <1>1, <2>5, <3>1, <3>2
    <3> QED BY <3>3 DEF DecodeSignatureMap
  <2>7. ASSUME NEW f, Same(f, f1, {1})
        PROVE  /\ ~(Len(PairsRead(f, room)) >= MaxCount)
               /\ Every(PairsRead(f, room), SignaturePairFromPbtools) = Success(held)
    <3> DEFINE left == IF "sig_pair" \in room THEN pbs ELSE <<>>
               read == [sig_pair |-> left]
    <3>1. read # NULL
      <4>1. read = [m \in {"sig_pair"} |-> read[m]]
        OBVIOUS
      <4> HIDE DEF read
      <4> QED BY <4>1, RecordIsThere
    <3>2. PairsRead(f, room) = left
      <4>1. Present(f, 1) /\ LastOf(f, {1}).message = b
        BY <2>4, <2>7 DEF Present
      <4> QED BY <2>6, <3>1, <4>1 DEF ReadMessage, PairsRead
    <3>3. CASE "sig_pair" \in room
      <4>1. left = pbs /\ held = list
        BY <3>3
      <4> HIDE DEF left, held
      <4> QED BY <1>1, <1>2, <3>2, <4>1
    <3>4. CASE "sig_pair" \notin room
      <4>1. left = <<>> /\ held = <<>>
        BY <3>4
      <4> HIDE DEF left, held
      <4> QED BY <1>1, <1>2, <3>2, <4>1
    <3> QED BY <3>3, <3>4
  <2> HIDE DEF held
  <2> QED BY <2>4, <2>7 DEF f1, map, held
<1> QED BY <1>3, <1>4

\* The anchor that pairs two transactions is left out where there is none.
LEMMA PairingPiece ==
  ASSUME NullIsNoRecord, NEW w, IsLedgerAnchor(w), w.type = Unspecified => w = NoAnchor
  PROVE  LET pb == IF w.type = Unspecified THEN NULL ELSE LedgerAnchorFromWire(w)
             f3 == Message(3, pb, EncodeLedgerAnchor)
         IN  /\ Piece(f3, {3})
             /\ \A f : Same(f, f3, {3}) =>
                  LET read == ReadMessage(f, 3, DecodeLedgerAnchor)
                  IN  (IF read = NULL THEN Success(NoAnchor) ELSE LedgerAnchorFromPbtools(read))
                        = Success(w)
<1> DEFINE pb == IF w.type = Unspecified THEN NULL ELSE LedgerAnchorFromWire(w)
           f3 == Message(3, pb, EncodeLedgerAnchor)
<1>1. CASE w.type = Unspecified
  <2>1. f3 = <<>>
    BY <1>1 DEF Message
  <2>2. ASSUME NEW f, Same(f, <<>>, {3}) PROVE ReadMessage(f, 3, DecodeLedgerAnchor) = NULL
    BY <2>2, NoPiece DEF Same, ReadMessage, Present
  <2> QED BY <1>1, <2>1, <2>2, NoPiece
<1>2. CASE w.type # Unspecified
  <2> DEFINE anchor == LedgerAnchorFromWire(w)
  <2>1. /\ anchor # NULL /\ DecodeLedgerAnchor(EncodeLedgerAnchor(anchor)) = anchor
        /\ LedgerAnchorFromPbtools(anchor) = Success(w)
    BY AnchorArrives
  <2>2. pb = anchor
    BY <1>2
  <2> HIDE DEF anchor
  <2>3. f3 = <<[tag |-> 3, message |-> EncodeLedgerAnchor(anchor)]>>
    BY <2>1, <2>2 DEF Message, MessageAlways
  <2> HIDE DEF f3
  <2>4. /\ Piece(f3, {3})
        /\ \A f : Same(f, f3, {3}) =>
             Places(f, {3}) # {} /\ LastOf(f, {3}).message = EncodeLedgerAnchor(anchor)
    BY <2>3, MessagePiece
  <2>5. ASSUME NEW f, Same(f, f3, {3}) PROVE ReadMessage(f, 3, DecodeLedgerAnchor) = anchor
    BY <2>1, <2>4, <2>5 DEF ReadMessage, Present
  <2> QED BY <2>1, <2>4, <2>5 DEF f3
<1> QED BY <1>1, <1>2

LEMMA SignedArrives ==
  ASSUME NullIsNoRecord, NEW w, IsGradidoTransaction(w), NEW size \in 1..MaxAlloc,
         w.body_bytes = BytesOf(size, w.body_bytes.data), NEW room
  PROVE  LET made == GradidoTransactionFromWire(w)
             f    == EncodeGradidoTransaction(made.value)
         IN  IF Len(w.sig_map) >= MaxCount
             THEN made = Failure("ARRAY_INDEX_OUT_OF_BOUNDS")
             ELSE /\ made = Success(made.value) /\ made.value # NULL
                  /\ DecodeGradidoTransaction(f, room) # NULL
                  /\ GradidoTransactionFromPb(DecodeGradidoTransaction(f, room))
                       = Success(SignedIn(w, room))
<1> DEFINE made == GradidoTransactionFromWire(w)
           map  == SignatureMapFromWire(w.sig_map)
           bytes == w.body_bytes
           anchor == IF w.pairing_ledger_anchor.type = Unspecified THEN NULL
                     ELSE LedgerAnchorFromWire(w.pairing_ledger_anchor)
           pb == [sig_map |-> map, body_bytes |-> bytes, pairing_ledger_anchor |-> anchor]
           f  == EncodeGradidoTransaction(pb)
           f1 == Message(1, map, EncodeSignatureMap)
           f2 == Bytes(2, bytes)
           f3 == Message(3, anchor, EncodeLedgerAnchor)
           held == IF "sig_pair" \in room THEN w.sig_map ELSE <<>>
<1>1. CASE Len(w.sig_map) >= MaxCount
  <2>1. made = Failure("ARRAY_INDEX_OUT_OF_BOUNDS")
    BY <1>1 DEF GradidoTransactionFromWire
  <2> HIDE DEF made
  <2> QED BY <1>1, <2>1 DEF made
<1>2. CASE ~(Len(w.sig_map) >= MaxCount)
  <2>1. /\ IsListOf(w.sig_map, IsSignaturePair) /\ IsLedgerAnchor(w.pairing_ledger_anchor)
        /\ w.pairing_ledger_anchor.type = Unspecified => w.pairing_ledger_anchor = NoAnchor
        /\ w = [sig_map |-> w.sig_map, body_bytes |-> w.body_bytes,
                pairing_ledger_anchor |-> w.pairing_ledger_anchor]
    BY DEF IsGradidoTransaction, NoAnchor
  <2>2. bytes.size = size /\ bytes.size # 0 /\ ~(bytes.size > MaxAlloc)
    BY MaxAllocAssumption DEF BytesOf
  <2>3. made = Success(pb) /\ made.value = pb
    BY <1>2, <2>2 DEF GradidoTransactionFromWire, MemoryBlockFromWire, SignatureMapFromWire,
                      Success
  <2>4. pb # NULL
    <3>1. pb = [m \in {"sig_map", "body_bytes", "pairing_ledger_anchor"} |-> pb[m]]
      OBVIOUS
    <3> HIDE DEF pb
    <3> QED BY <3>1, RecordIsThere
  <2>5. Len(w.sig_map) < MaxCount
    <3>1. Len(w.sig_map) \in Nat
      BY <2>1, ListIsIndexed DEF IsListOf
    <3> QED BY <1>2, <3>1, MaxCountAssumption
  <2>6. /\ Piece(f1, {1})
        /\ \A g : Same(g, f1, {1}) =>
             /\ ~(Len(PairsRead(g, room)) >= MaxCount)
             /\ Every(PairsRead(g, room), SignaturePairFromPbtools) = Success(held)
    BY <2>1, <2>5, SignatureMapPiece
  <2>7. /\ Piece(f2, {2}) /\ \A g : Same(g, f2, {2}) => ReadBytes(g, 2) = bytes
    BY <2>2, BytesPiece
  <2>8. /\ Piece(f3, {3})
        /\ \A g : Same(g, f3, {3}) =>
             LET read == ReadMessage(g, 3, DecodeLedgerAnchor)
             IN  (IF read = NULL THEN Success(NoAnchor) ELSE LedgerAnchorFromPbtools(read))
                   = Success(w.pairing_ledger_anchor)
    BY <2>1, PairingPiece
  <2>9. f = f1 \o f2 \o f3
    <3> HIDE DEF map, anchor
    <3> QED BY DEF EncodeGradidoTransaction
  <2> HIDE DEF f, f1, f2, f3
  <2>10. Same(f, f1, {1}) /\ Same(f, f2, {2}) /\ Same(f, f3, {3})
    <3>1. {1} \cap {2} = {} /\ ({1} \cup {2}) \cap {3} = {}
      OBVIOUS
    <3> QED BY <2>6, <2>7, <2>8, <2>9, <3>1, Three
  <2> DEFINE Decode(g) == DecodeSignatureMap(g, room)
             m1 == ReadMessage(f, 1, Decode)
             m3 == ReadMessage(f, 3, DecodeLedgerAnchor)
             pairs == PairsRead(f, room)
             read == DecodeGradidoTransaction(f, room)
  <2>11. /\ ~(Len(pairs) >= MaxCount) /\ Every(pairs, SignaturePairFromPbtools) = Success(held)
         /\ pairs = IF m1 = NULL THEN <<>> ELSE m1.sig_pair
    <3>1. pairs = IF m1 = NULL THEN <<>> ELSE m1.sig_pair
      BY DEF PairsRead
    <3> HIDE DEF held, m1
    <3> QED BY <2>6, <2>10, <3>1
  <2>12. (IF m3 = NULL THEN Success(NoAnchor) ELSE LedgerAnchorFromPbtools(m3))
           = Success(w.pairing_ledger_anchor)
    BY <2>8, <2>10
  <2>13. read = [sig_map |-> m1, body_bytes |-> bytes, pairing_ledger_anchor |-> m3]
    BY <2>7, <2>10 DEF DecodeGradidoTransaction
  <2> HIDE DEF m1, m3, read, pairs
  <2>14. read # NULL
    <3>1. read = [m \in {"sig_map", "body_bytes", "pairing_ledger_anchor"} |-> read[m]]
      BY <2>13
    <3> QED BY <3>1, RecordIsThere
  <2>15. MemoryBlockFromPbtools(bytes) = Success(bytes)
    BY <2>2 DEF MemoryBlockFromPbtools
  <2>16. GradidoTransactionFromPb(read)
           = Success([sig_map |-> held, body_bytes |-> bytes,
                      pairing_ledger_anchor |-> w.pairing_ledger_anchor])
    <3>1. read.sig_map = m1 /\ read.body_bytes = bytes /\ read.pairing_ledger_anchor = m3
      BY <2>13
    <3> DEFINE first == Every(pairs, SignaturePairFromPbtools)
               third == IF m3 = NULL THEN Success(NoAnchor) ELSE LedgerAnchorFromPbtools(m3)
               block == MemoryBlockFromPbtools(bytes)
    <3>2. GradidoTransactionFromPb(read)
            = Then(first, LAMBDA sig_map : Then(third, LAMBDA a : Then(block, LAMBDA body :
                Success([sig_map |-> sig_map, body_bytes |-> body, pairing_ledger_anchor |-> a]))))
      <4> HIDE DEF bytes
      <4> QED BY <2>11, <2>14, <3>1 DEF GradidoTransactionFromPb, NotNull
    <3>3. first = Success(held) /\ third = Success(w.pairing_ledger_anchor) /\ block = Success(bytes)
      BY <2>11, <2>12, <2>15
    <3> HIDE DEF first, third, block, bytes, held
    <3> QED BY <3>2, <3>3 DEF Then, Success
  <2>17. SignedIn(w, room) = [sig_map |-> held, body_bytes |-> bytes,
                              pairing_ledger_anchor |-> w.pairing_ledger_anchor]
    BY <2>1 DEF SignedIn
  <2> HIDE DEF made, pb
  <2> QED BY <1>2, <2>3, <2>4, <2>14, <2>16, <2>17 DEF made, read, f
<1> QED BY <1>1, <1>2

-----------------------------------------------------------------------------
(* The confirmed transaction around that.                                  *)

LEMMA ConfirmedIsRead ==
  ASSUME NullIsNoRecord, NEW w, IsConfirmedTransaction(w), NEW t, t # NULL, NEW room
  PROVE  LET pbs == [i \in DOMAIN w.account_balances |-> AccountBalanceFromWire(w.account_balances[i])]
             pb  == [id |-> w.id, transaction |-> t,
                     confirmed_at |-> TimestampFromWire(w.confirmed_at),
                     version_number |-> ProtocolVersion,
                     running_hash |-> BytesOf(HashSize, w.running_hash),
                     ledger_anchor |-> LedgerAnchorFromWire(w.ledger_anchor),
                     account_balances |-> pbs]
             f   == EncodeConfirmedTransaction(pb)
         IN  /\ ~Aborts(f)
             /\ DecodeConfirmedTransaction(f, room)
                  = [id |-> w.id,
                     transaction |-> DecodeGradidoTransaction(EncodeGradidoTransaction(t), room),
                     confirmed_at |-> TimestampFromWire(w.confirmed_at),
                     version_number |-> ProtocolVersion,
                     running_hash |-> BytesOf(HashSize, w.running_hash),
                     ledger_anchor |-> LedgerAnchorFromWire(w.ledger_anchor),
                     account_balances |-> IF "account_balances" \in room THEN pbs ELSE <<>>]
<1> DEFINE pbs == [i \in DOMAIN w.account_balances |-> AccountBalanceFromWire(w.account_balances[i])]
           confirmed == TimestampFromWire(w.confirmed_at)
           hash == BytesOf(HashSize, w.running_hash)
           anchor == LedgerAnchorFromWire(w.ledger_anchor)
           pb  == [id |-> w.id, transaction |-> t, confirmed_at |-> confirmed,
                   version_number |-> ProtocolVersion, running_hash |-> hash,
                   ledger_anchor |-> anchor, account_balances |-> pbs]
           f  == EncodeConfirmedTransaction(pb)
           signed == EncodeGradidoTransaction(t)
           stamp == EncodeTimestamp(confirmed)
           anchored == EncodeLedgerAnchor(anchor)
           f1 == Varint(1, w.id)
           f2 == <<[tag |-> 2, message |-> signed]>>
           f3 == <<[tag |-> 3, message |-> stamp]>>
           f4 == Varint(4, ProtocolVersion)
           f5 == Bytes(5, hash)
           f6 == <<[tag |-> 6, message |-> anchored]>>
           f7 == Repeated(7, pbs, EncodeAccountBalance)
<1>1. /\ IsTimestamp(w.confirmed_at) /\ IsLedgerAnchor(w.ledger_anchor)
      /\ IsListOf(w.account_balances, IsAccountBalance)
  BY DEF IsConfirmedTransaction
<1>2. /\ Sequence(f7) /\ Piece(f7, {7}) /\ (\A i \in DOMAIN f7 : Number(f7[i]) = 7)
      /\ \A g : Standing(g, f7, 7) => ReadRepeated(g, 7, DecodeAccountBalance, TRUE) = pbs
      /\ \A g : ReadRepeated(g, 7, DecodeAccountBalance, FALSE) = <<>>
  BY <1>1, BalancesArrive
<1>3. confirmed # NULL /\ DecodeTimestamp(stamp) = confirmed
  BY <1>1, TimestampArrives
<1>4. anchor # NULL /\ DecodeLedgerAnchor(anchored) = anchor
  BY <1>1, AnchorArrives
<1>5. hash.size # 0
  BY KeysAreThere
<1> HIDE DEF pbs, confirmed, hash, anchor
<1>6. f = f1 \o f2 \o f3 \o f4 \o f5 \o f6 \o f7
  BY <1>3, <1>4 DEF EncodeConfirmedTransaction, Message, MessageAlways
<1> HIDE DEF f, signed, stamp, anchored
<1>7. /\ Piece(f1, {1}) /\ \A g : Same(g, f1, {1}) => ReadVarint(g, 1) = w.id
  BY VarintPiece
<1>8. /\ Piece(f2, {2})
      /\ \A g : Same(g, f2, {2}) => Places(g, {2}) # {} /\ LastOf(g, {2}).message = signed
  BY OneMessage
<1>9. /\ Piece(f3, {3})
      /\ \A g : Same(g, f3, {3}) => Places(g, {3}) # {} /\ LastOf(g, {3}).message = stamp
  BY OneMessage
<1>10. /\ Piece(f4, {4}) /\ \A g : Same(g, f4, {4}) => ReadVarint(g, 4) = ProtocolVersion
  BY VarintPiece
<1>11. /\ Piece(f5, {5}) /\ \A g : Same(g, f5, {5}) => ReadBytes(g, 5) = hash
  BY <1>5, BytesPiece
<1>12. /\ Piece(f6, {6})
       /\ \A g : Same(g, f6, {6}) => Places(g, {6}) # {} /\ LastOf(g, {6}).message = anchored
  BY OneMessage
<1> HIDE DEF f1, f2, f3, f4, f5, f6, f7
<1>13. /\ Piece(f1 \o f2 \o f3 \o f4 \o f5 \o f6, {1} \cup {2} \cup {3} \cup {4} \cup {5} \cup {6})
       /\ Piece(f, {1} \cup {2} \cup {3} \cup {4} \cup {5} \cup {6} \cup {7})
       /\ Same(f, f1, {1}) /\ Same(f, f2, {2}) /\ Same(f, f3, {3}) /\ Same(f, f4, {4})
       /\ Same(f, f5, {5}) /\ Same(f, f6, {6})
  <2> DEFINE g == f1 \o f2 \o f3 \o f4 \o f5 \o f6
             C == {1} \cup {2} \cup {3} \cup {4} \cup {5} \cup {6}
  <2>1. /\ {1} \cap {2} = {} /\ ({1} \cup {2}) \cap {3} = {}
        /\ ({1} \cup {2} \cup {3}) \cap {4} = {}
        /\ ({1} \cup {2} \cup {3} \cup {4}) \cap {5} = {}
        /\ ({1} \cup {2} \cup {3} \cup {4} \cup {5}) \cap {6} = {}
    OBVIOUS
  <2>2. /\ Piece(g, C)
        /\ \A N \in SUBSET {1} : Same(g, f1, N)
        /\ \A N \in SUBSET {2} : Same(g, f2, N)
        /\ \A N \in SUBSET {3} : Same(g, f3, N)
        /\ \A N \in SUBSET {4} : Same(g, f4, N)
        /\ \A N \in SUBSET {5} : Same(g, f5, N)
        /\ \A N \in SUBSET {6} : Same(g, f6, N)
    <3>1. SixPieces(f1, f2, f3, f4, f5, f6, {1}, {2}, {3}, {4}, {5}, {6})
      BY <1>7, <1>8, <1>9, <1>10, <1>11, <1>12, <2>1 DEF SixPieces
    <3> QED BY <3>1, Six
  <2>3. /\ C \cap {7} = {}
        /\ {1} \in SUBSET C /\ {2} \in SUBSET C /\ {3} \in SUBSET C
        /\ {4} \in SUBSET C /\ {5} \in SUBSET C /\ {6} \in SUBSET C
    OBVIOUS
  <2>4. f = g \o f7
    BY <1>6
  <2> HIDE DEF g, C
  <2>5. Piece(f, C \cup {7}) /\ \A N \in SUBSET C : Same(f, g, N)
    BY <1>2, <2>2, <2>3, <2>4, Apart
  <2>6. /\ Same(f, f1, {1}) /\ Same(f, f2, {2}) /\ Same(f, f3, {3}) /\ Same(f, f4, {4})
        /\ Same(f, f5, {5}) /\ Same(f, f6, {6})
    BY <2>2, <2>3, <2>5, SameAgain
  <2> QED BY <2>2, <2>5, <2>6 DEF g, C
<1>14. Standing(f, f7, 7)
  <2> DEFINE g == f1 \o f2 \o f3 \o f4 \o f5 \o f6
             C == {1} \cup {2} \cup {3} \cup {4} \cup {5} \cup {6}
  <2>1. Piece(g, C) /\ 7 \notin C
    BY <1>13
  <2>2. f = g \o f7
    BY <1>6
  <2> HIDE DEF g, C
  <2> QED BY <1>2, <2>1, <2>2, StandsAfter
<1>15. ~Aborts(f)
  <2>1. 0 \notin {1} \cup {2} \cup {3} \cup {4} \cup {5} \cup {6} \cup {7}
    OBVIOUS
  <2> QED BY <1>13, <2>1 DEF Aborts, Piece
<1> DEFINE Transaction(g) == DecodeGradidoTransaction(g, room)
<1>16. /\ ReadVarint(f, 1) = w.id
       /\ ReadMessage(f, 2, Transaction) = DecodeGradidoTransaction(signed, room)
       /\ ReadMessage(f, 3, DecodeTimestamp) = confirmed
       /\ ReadUint32(f, 4) = ProtocolVersion
       /\ ReadBytes(f, 5) = hash
       /\ ReadMessage(f, 6, DecodeLedgerAnchor) = anchor
  <2>1. ReadMessage(f, 2, Transaction) = DecodeGradidoTransaction(signed, room)
    BY <1>8, <1>13 DEF ReadMessage, Present
  <2>2. ReadMessage(f, 3, DecodeTimestamp) = confirmed
    BY <1>3, <1>9, <1>13 DEF ReadMessage, Present
  <2>3. ReadUint32(f, 4) = ProtocolVersion
    BY <1>10, <1>13, VersionAssumption, Uint32IsRead
  <2>4. ReadMessage(f, 6, DecodeLedgerAnchor) = anchor
    BY <1>4, <1>12, <1>13 DEF ReadMessage, Present
  <2> QED BY <1>7, <1>11, <1>13, <2>1, <2>2, <2>3, <2>4
<1>17. ReadRepeated(f, 7, DecodeAccountBalance, "account_balances" \in room)
         = IF "account_balances" \in room THEN pbs ELSE <<>>
  <2>1. ASSUME "account_balances" \in room
        PROVE  ReadRepeated(f, 7, DecodeAccountBalance, "account_balances" \in room)
                 = ReadRepeated(f, 7, DecodeAccountBalance, TRUE)
    BY <2>1 DEF ReadRepeated
  <2>2. ASSUME "account_balances" \notin room
        PROVE  ReadRepeated(f, 7, DecodeAccountBalance, "account_balances" \in room)
                 = ReadRepeated(f, 7, DecodeAccountBalance, FALSE)
    BY <2>2 DEF ReadRepeated
  <2> QED BY <1>2, <1>14, <2>1, <2>2
<1>18. DecodeConfirmedTransaction(f, room)
         = [id |-> w.id, transaction |-> DecodeGradidoTransaction(signed, room),
            confirmed_at |-> confirmed, version_number |-> ProtocolVersion,
            running_hash |-> hash, ledger_anchor |-> anchor,
            account_balances |-> IF "account_balances" \in room THEN pbs ELSE <<>>]
  BY <1>16, <1>17 DEF DecodeConfirmedTransaction
<1> QED BY <1>15, <1>18 DEF f, signed, pbs, confirmed, hash, anchor

LEMMA ConfirmedArrives ==
  ASSUME NullIsNoRecord, NEW w, IsConfirmedTransaction(w), NEW size \in 1..MaxAlloc,
         w.transaction.body_bytes = BytesOf(size, w.transaction.body_bytes.data), NEW room,
         ConfirmedTransactionFromWire(w).result = "SUCCESS"
  PROVE  LET f == EncodeConfirmedTransaction(ConfirmedTransactionFromWire(w).value)
         IN  /\ ~(Len(w.transaction.sig_map) >= MaxCount) /\ ~(Len(w.account_balances) >= MaxCount)
             /\ ConfirmedTransactionDecode(f, room) = Success(WireIn(w, room))
<1> DEFINE signed == GradidoTransactionFromWire(w.transaction)
           t == signed.value
           sent == [i \in DOMAIN w.account_balances |-> AccountBalanceFromWire(w.account_balances[i])]
           pbs == IF "account_balances" \in room THEN sent ELSE <<>>
           balances == IF "account_balances" \in room THEN w.account_balances ELSE <<>>
           confirmed == TimestampFromWire(w.confirmed_at)
           hash == BytesOf(HashSize, w.running_hash)
           anchor == LedgerAnchorFromWire(w.ledger_anchor)
           pb  == [id |-> w.id, transaction |-> t, confirmed_at |-> confirmed,
                   version_number |-> ProtocolVersion, running_hash |-> hash,
                   ledger_anchor |-> anchor, account_balances |-> sent]
           f  == EncodeConfirmedTransaction(pb)
           t2 == DecodeGradidoTransaction(EncodeGradidoTransaction(t), room)
           read == [id |-> w.id, transaction |-> t2, confirmed_at |-> confirmed,
                    version_number |-> ProtocolVersion, running_hash |-> hash,
                    ledger_anchor |-> anchor, account_balances |-> pbs]
<1>1. /\ w = [id |-> w.id, transaction |-> w.transaction, confirmed_at |-> w.confirmed_at,
              running_hash |-> w.running_hash, ledger_anchor |-> w.ledger_anchor,
              account_balances |-> w.account_balances]
      /\ IsGradidoTransaction(w.transaction) /\ IsTimestamp(w.confirmed_at)
      /\ IsLedgerAnchor(w.ledger_anchor) /\ IsListOf(w.account_balances, IsAccountBalance)
  BY DEF IsConfirmedTransaction
<1>2. IF Len(w.transaction.sig_map) >= MaxCount
      THEN signed = Failure("ARRAY_INDEX_OUT_OF_BOUNDS")
      ELSE /\ signed = Success(t) /\ t # NULL /\ t2 # NULL
           /\ GradidoTransactionFromPb(t2) = Success(SignedIn(w.transaction, room))
  BY <1>1, SignedArrives
<1> HIDE DEF signed
<1>3. ~(Len(w.transaction.sig_map) >= MaxCount)
  BY <1>2 DEF ConfirmedTransactionFromWire, Then, Failure, signed
<1>4. /\ signed = Success(t) /\ t # NULL /\ t2 # NULL
      /\ GradidoTransactionFromPb(t2) = Success(SignedIn(w.transaction, room))
  BY <1>2, <1>3
<1> HIDE DEF t2
<1>5. /\ ~(Len(w.account_balances) >= MaxCount)
      /\ ConfirmedTransactionFromWire(w).value = pb
  <2>1. ConfirmedTransactionFromWire(w)
          = IF Len(w.account_balances) >= MaxCount THEN Failure("ARRAY_INDEX_OUT_OF_BOUNDS")
            ELSE Success(pb)
    <3>1. signed.result = "SUCCESS"
      BY <1>4 DEF Success
    <3> QED BY <3>1 DEF ConfirmedTransactionFromWire, Then, signed
  <2> HIDE DEF pb
  <2> QED BY <2>1 DEF Failure, Success
<1>6. /\ ~Aborts(f)
      /\ DecodeConfirmedTransaction(f, room) = read
  BY <1>1, <1>4, ConfirmedIsRead DEF t2
<1>7. ConfirmedTransactionDecode(f, room) = ConfirmedTransactionFromPb(read)
  <2> HIDE DEF f, read
  <2> QED BY <1>6 DEF ConfirmedTransactionDecode
<1>8. TimestampFromPbtools(confirmed) = Success(w.confirmed_at)
  BY <1>1, TimestampArrives
<1>9. LedgerAnchorFromPbtools(anchor) = Success(w.ledger_anchor)
  BY <1>1, AnchorArrives
<1>10. hash.size = HashSize /\ hash.data = w.running_hash
  BY KeysAreThere
<1>11. /\ ~(Len(pbs) >= MaxCount)
       /\ Every(pbs, AccountBalanceFromPbtools) = Success(balances)
  <2>1. /\ Every(sent, AccountBalanceFromPbtools) = Success(w.account_balances)
        /\ Every(<<>>, AccountBalanceFromPbtools) = Success(<<>>)
        /\ Len(sent) = Len(w.account_balances)
    BY <1>1, BalancesArrive
  <2>2. Len(<<>>) = 0 /\ ~(0 >= MaxCount)
    BY MaxCountAssumption
  <2> HIDE DEF sent
  <2>3. CASE "account_balances" \in room
    <3>1. pbs = sent /\ balances = w.account_balances
      BY <2>3
    <3> HIDE DEF pbs, balances
    <3> QED BY <1>5, <2>1, <3>1
  <2>4. CASE "account_balances" \notin room
    <3>1. pbs = <<>> /\ balances = <<>>
      BY <2>4
    <3> HIDE DEF pbs, balances
    <3> QED BY <2>1, <2>2, <3>1
  <2> QED BY <2>3, <2>4
<1> HIDE DEF confirmed, hash, anchor, pbs, f, pb
<1>12. ConfirmedTransactionFromPb(read)
         = Success([id |-> w.id, transaction |-> SignedIn(w.transaction, room),
                    confirmed_at |-> w.confirmed_at, running_hash |-> w.running_hash,
                    ledger_anchor |-> w.ledger_anchor, account_balances |-> balances])
  <2>1. /\ read.version_number = ProtocolVersion /\ read.id = w.id /\ read.transaction = t2
        /\ read.confirmed_at = confirmed /\ read.running_hash = hash
        /\ read.ledger_anchor = anchor /\ read.account_balances = pbs
    OBVIOUS
  <2> HIDE DEF read, balances
  <2> DEFINE tx1 == SignedIn(w.transaction, room)
  <2>2. GradidoTransactionFromPb(t2) = Success(tx1)
    BY <1>4
  <2> HIDE DEF tx1
  <2>3. ConfirmedTransactionFromPb(read)
          = Success([id |-> w.id, transaction |-> tx1,
                     confirmed_at |-> w.confirmed_at, running_hash |-> w.running_hash,
                     ledger_anchor |-> w.ledger_anchor, account_balances |-> balances])
    BY <1>8, <1>9, <1>10, <1>11, <2>1, <2>2 DEF ConfirmedTransactionFromPb, Then, Success
  <2> QED BY <2>3 DEF tx1
<1>13. WireIn(w, room) = [id |-> w.id, transaction |-> SignedIn(w.transaction, room),
                          confirmed_at |-> w.confirmed_at, running_hash |-> w.running_hash,
                          ledger_anchor |-> w.ledger_anchor, account_balances |-> balances]
  <2> DEFINE tx1 == SignedIn(w.transaction, room)
             signed1 == [w EXCEPT !.transaction = tx1]
  <2>1. /\ signed1 = [id |-> w.id, transaction |-> tx1, confirmed_at |-> w.confirmed_at,
                      running_hash |-> w.running_hash, ledger_anchor |-> w.ledger_anchor,
                      account_balances |-> w.account_balances]
    <3> HIDE DEF tx1
    <3> QED BY <1>1
  <2>2. WireIn(w, room) = [signed1 EXCEPT !.account_balances = balances]
    <3>1. signed1.account_balances = w.account_balances
      BY <2>1
    <3> QED BY <3>1 DEF WireIn
  <2> HIDE DEF signed1, tx1, balances
  <2>3. [signed1 EXCEPT !.account_balances = balances]
          = [id |-> w.id, transaction |-> tx1, confirmed_at |-> w.confirmed_at,
             running_hash |-> w.running_hash, ledger_anchor |-> w.ledger_anchor,
             account_balances |-> balances]
    BY <2>1
  <2> QED BY <2>2, <2>3 DEF tx1
<1> QED BY <1>3, <1>5, <1>7, <1>12, <1>13 DEF f

-----------------------------------------------------------------------------
(* The way of a transaction.                                               *)

\* What the body of the composition at hand is encoded as.
BodySent == EncodeTransactionBody(TransactionBodyFromWire(composed.body))

Signed ==
  /\ composed.confirmed.transaction.body_bytes = BytesOf(EncodedSize(BodySent), BodySent)
  /\ EncodedSize(BodySent) \in 1..MaxAlloc

\* A composition is of wire forms, and signed by its own body or not yet.
ComposedOfForms ==
  composed # NULL =>
    /\ composed = [body |-> composed.body, confirmed |-> composed.confirmed]
    /\ IsTransactionBody(composed.body) /\ IsConfirmedTransaction(composed.confirmed)
    /\ composed.confirmed.transaction.body_bytes = NoBytes \/ Signed

\* What is sent is the composition at hand, signed.
SentIsComposed ==
  binary # NULL =>
    LET made == ConfirmedTransactionFromWire(composed.confirmed)
    IN  /\ composed # NULL /\ Signed
        /\ made.result = "SUCCESS" /\ binary = EncodeConfirmedTransaction(made.value)

\* The body that is decoded of what arrived.
BodyDecoded(fields, room) ==
  Then(ConfirmedTransactionDecode(fields, room), LAMBDA w :
    TransactionBodyDecode(w.transaction.body_bytes.data, room))

\* What was decoded is what arrives: nothing arrives again afterwards.
DecodedIsReceived ==
  decoding # NULL =>
    LET fields == Received(binary, arrived)
        wire   == ConfirmedTransactionDecode(fields, decoding.room)
        body   == BodyDecoded(fields, decoding.room)
    IN  /\ binary # NULL
        /\ decoding.result # "OUT_OF_MEMORY" =>
             /\ decoding.wire = wire.value /\ decoding.body = body.value
             /\ body.result # "SUCCESS" => decoding.result # "SUCCESS"

CodecInv == ComposedOfForms /\ SentIsComposed /\ DecodedIsReceived

\* Signing leaves everything else as it was.
LEMMA SignedStays ==
  ASSUME NEW w, IsConfirmedTransaction(w), NEW bytes
  PROVE  LET signed == [w EXCEPT !.transaction.body_bytes = bytes]
         IN  IsConfirmedTransaction(signed) /\ signed.transaction.body_bytes = bytes
<1> DEFINE t == w.transaction
           t2 == [t EXCEPT !.body_bytes = bytes]
           signed == [w EXCEPT !.transaction = t2]
<1>1. [w EXCEPT !.transaction.body_bytes = bytes] = signed
  OBVIOUS
<1>2. /\ w = [id |-> w.id, transaction |-> t, confirmed_at |-> w.confirmed_at,
              running_hash |-> w.running_hash, ledger_anchor |-> w.ledger_anchor,
              account_balances |-> w.account_balances]
      /\ IsGradidoTransaction(t) /\ IsTimestamp(w.confirmed_at)
      /\ IsLedgerAnchor(w.ledger_anchor) /\ IsListOf(w.account_balances, IsAccountBalance)
  BY DEF IsConfirmedTransaction
<1>3. /\ t = [sig_map |-> t.sig_map, body_bytes |-> t.body_bytes,
              pairing_ledger_anchor |-> t.pairing_ledger_anchor]
      /\ IsListOf(t.sig_map, IsSignaturePair) /\ IsLedgerAnchor(t.pairing_ledger_anchor)
      /\ t.pairing_ledger_anchor.type = Unspecified =>
           t.pairing_ledger_anchor = [type |-> Unspecified, id |-> 0]
  BY <1>2 DEF IsGradidoTransaction
<1> HIDE DEF t
<1>4. t2 = [sig_map |-> t.sig_map, body_bytes |-> bytes,
            pairing_ledger_anchor |-> t.pairing_ledger_anchor]
  BY <1>3
<1> HIDE DEF t2
<1>5. IsGradidoTransaction(t2) /\ t2.body_bytes = bytes
  BY <1>3, <1>4 DEF IsGradidoTransaction
<1>6. signed = [id |-> w.id, transaction |-> t2, confirmed_at |-> w.confirmed_at,
                running_hash |-> w.running_hash, ledger_anchor |-> w.ledger_anchor,
                account_balances |-> w.account_balances]
  BY <1>2
<1> HIDE DEF signed
<1>7. IsConfirmedTransaction(signed) /\ signed.transaction.body_bytes = bytes
  BY <1>2, <1>5, <1>6 DEF IsConfirmedTransaction
<1> QED BY <1>1, <1>7 DEF signed

LEMMA NotSigned ==
  ASSUME Signed
  PROVE  composed.confirmed.transaction.body_bytes # NoBytes
<1> DEFINE size == EncodedSize(BodySent)
<1>1. size \in 1..MaxAlloc /\ 0 \notin 1..MaxAlloc
  BY MaxAllocAssumption DEF Signed
<1> HIDE DEF size
<1>2. BytesOf(size, BodySent) # NoBytes
  BY <1>1 DEF BytesOf, NoBytes
<1> QED BY <1>2 DEF Signed, size

LEMMA CodecInitially ==
  ASSUME Init
  PROVE  CodecInv
BY DEF Init, CodecInv, ComposedOfForms, SentIsComposed, DecodedIsReceived

LEMMA ComposeKeeps ==
  ASSUME CodecInv, NEW c \in Compositions, Compose(c)
  PROVE  CodecInv'
<1>1. composed = NULL /\ composed' = c /\ UNCHANGED <<binary, arrived, decoding>>
  BY DEF Compose
<1>2. binary = NULL /\ decoding = NULL
  BY <1>1 DEF CodecInv, SentIsComposed, DecodedIsReceived
<1>3. ComposedOfForms'
  BY <1>1, CompositionsAssumption DEF ComposedOfForms
<1>4. SentIsComposed' /\ DecodedIsReceived'
  BY <1>1, <1>2 DEF SentIsComposed, DecodedIsReceived
<1> QED BY <1>3, <1>4 DEF CodecInv

LEMMA EncodeBodyKeeps ==
  ASSUME NullIsNoRecord, CodecInv, NEW room \in BufferSizes, EncodeBody(room)
  PROVE  CodecInv'
<1> DEFINE size == EncodedSize(BodySent)
           bytes == BytesOf(size, BodySent)
           before == composed.confirmed
           after == [before EXCEPT !.transaction.body_bytes = bytes]
<1>1. /\ composed # NULL /\ composed.confirmed.transaction.body_bytes = NoBytes
      /\ size <= room
      /\ composed' = [composed EXCEPT !.confirmed.transaction.body_bytes = bytes]
      /\ UNCHANGED <<binary, arrived, decoding>>
  BY DEF EncodeBody, BodySent
<1>2. binary = NULL /\ decoding = NULL
  BY <1>1, NotSigned DEF CodecInv, SentIsComposed, DecodedIsReceived
<1>3. /\ composed = [body |-> composed.body, confirmed |-> before]
      /\ IsTransactionBody(composed.body) /\ IsConfirmedTransaction(before)
  BY <1>1 DEF CodecInv, ComposedOfForms
<1>4. size \in 1..MaxAlloc
  <2>1. Len(BodySent) \in Nat
    <3>1. Sequence(BodySent)
      BY <1>3, BodyIsRead DEF BodySent
    <3> QED BY <3>1, Joined
  <2>2. room \in 0..MaxAlloc
    BY BufferSizesAssumption
  <2>3. size = 2 * Len(BodySent) + 1
    BY DEF EncodedSize
  <2> HIDE DEF size
  <2> QED BY <1>1, <2>1, <2>2, <2>3, MaxAllocAssumption
<1> HIDE DEF size
<1>5. composed' = [body |-> composed.body, confirmed |-> after]
  <2> HIDE DEF bytes, before
  <2>1. composed' = [composed EXCEPT !.confirmed = after]
    BY <1>1 DEF before
  <2> HIDE DEF after
  <2> QED BY <1>3, <2>1
<1>6. IsConfirmedTransaction(after) /\ after.transaction.body_bytes = bytes
  BY <1>3, SignedStays
<1> HIDE DEF after
<1>7. /\ composed'.body = composed.body /\ composed'.confirmed = after
      /\ BodySent' = BodySent
  <2>1. composed'.body = composed.body /\ composed'.confirmed = after
    BY <1>5
  <2> QED BY <2>1 DEF BodySent
<1>8. Signed'
  BY <1>4, <1>6, <1>7 DEF Signed, size
<1>9. ComposedOfForms'
  BY <1>3, <1>5, <1>6, <1>7, <1>8 DEF ComposedOfForms
<1>10. SentIsComposed' /\ DecodedIsReceived'
  BY <1>1, <1>2 DEF SentIsComposed, DecodedIsReceived
<1> QED BY <1>9, <1>10 DEF CodecInv

LEMMA EncodeConfirmedKeeps ==
  ASSUME CodecInv, NEW room \in BufferSizes, EncodeConfirmed(room)
  PROVE  CodecInv'
<1> DEFINE made == ConfirmedTransactionFromWire(composed.confirmed)
<1>1. /\ composed # NULL /\ binary = NULL /\ composed.confirmed.transaction.body_bytes # NoBytes
      /\ made.result = "SUCCESS" /\ binary' = EncodeConfirmedTransaction(made.value)
      /\ UNCHANGED <<composed, arrived, decoding>>
  BY DEF EncodeConfirmed
<1>2. Signed /\ decoding = NULL
  BY <1>1 DEF CodecInv, ComposedOfForms, DecodedIsReceived
<1>3. ComposedOfForms' /\ Signed'
  BY <1>1, <1>2 DEF CodecInv, ComposedOfForms, Signed, BodySent
<1>4. SentIsComposed'
  BY <1>1, <1>3 DEF SentIsComposed
<1>5. DecodedIsReceived'
  BY <1>1, <1>2 DEF DecodedIsReceived
<1> QED BY <1>3, <1>4, <1>5 DEF CodecInv

LEMMA InitFromProtobufKeeps ==
  ASSUME CodecInv, NEW room \in SUBSET Lists, NEW answer, InitFromProtobuf(room, answer)
  PROVE  CodecInv'
<1> DEFINE fields == Received(binary, arrived)
           wire   == ConfirmedTransactionDecode(fields, room)
           body   == BodyDecoded(fields, room)
           made   == IF body.result # "SUCCESS" THEN [result |-> body.result, tx |-> tx]
                     ELSE CompleteTransactionFromWire(body.value, wire.value, Community, answer)
<1>1. /\ binary # NULL
      /\ decoding' = [result |-> made.result, room |-> room, wire |-> wire.value,
                      body |-> body.value, peeked |-> PeekId(fields)]
      /\ UNCHANGED <<composed, binary, arrived>>
  BY DEF InitFromProtobuf, BodyDecoded
<1>2. ComposedOfForms' /\ SentIsComposed'
  BY <1>1 DEF CodecInv, ComposedOfForms, SentIsComposed, Signed, BodySent
<1>3. body.result # "SUCCESS" => made.result # "SUCCESS"
  OBVIOUS
<1>4. DecodedIsReceived'
  <2>1. /\ decoding'.result = made.result /\ decoding'.room = room
        /\ decoding'.wire = wire.value /\ decoding'.body = body.value
    BY <1>1
  <2>2. binary' = binary /\ arrived' = arrived
    BY <1>1
  <2> HIDE DEF made
  <2> QED BY <1>1, <1>3, <2>1, <2>2 DEF DecodedIsReceived
<1> QED BY <1>2, <1>4 DEF CodecInv

LEMMA CodecOtherwise ==
  ASSUME CodecInv, UNCHANGED <<composed, binary, arrived, decoding>>
  PROVE  CodecInv'
<1>1. composed' = composed /\ binary' = binary /\ arrived' = arrived /\ decoding' = decoding
  OBVIOUS
<1>2. ComposedOfForms' /\ SentIsComposed'
  BY <1>1 DEF CodecInv, ComposedOfForms, SentIsComposed, Signed, BodySent
<1>3. DecodedIsReceived'
  BY <1>1 DEF CodecInv, DecodedIsReceived
<1> QED BY <1>2, <1>3 DEF CodecInv

LEMMA CodecKept ==
  ASSUME NullIsNoRecord, CodecInv, [Next]_vars
  PROVE  CodecInv'
<1>1. ASSUME NEW c \in Compositions, Compose(c) PROVE CodecInv'
  BY <1>1, ComposeKeeps
<1>2. ASSUME NEW room \in BufferSizes, EncodeBody(room) PROVE CodecInv'
  BY <1>2, EncodeBodyKeeps
<1>3. ASSUME NEW room \in BufferSizes, EncodeConfirmed(room) PROVE CodecInv'
  BY <1>3, EncodeConfirmedKeeps
<1>4. ASSUME NEW change, Arrive(change) PROVE CodecInv'
  <2>1. decoding = NULL /\ UNCHANGED <<composed, binary, decoding>>
    BY <1>4 DEF Arrive
  <2>2. ComposedOfForms' /\ SentIsComposed'
    BY <2>1 DEF CodecInv, ComposedOfForms, SentIsComposed, Signed, BodySent
  <2>3. DecodedIsReceived'
    BY <2>1 DEF DecodedIsReceived
  <2> QED BY <2>2, <2>3 DEF CodecInv
<1>5. ASSUME NEW room \in SUBSET Lists, NEW answer \in EmptyClones, InitFromProtobuf(room, answer)
      PROVE  CodecInv'
  BY <1>5, InitFromProtobufKeeps
<1>6. CASE DecodeOutOfMemory
  <2>1. /\ binary # NULL /\ UNCHANGED <<composed, binary, arrived>>
        /\ decoding'.result = "OUT_OF_MEMORY"
    BY <1>6 DEF DecodeOutOfMemory
  <2>2. ComposedOfForms' /\ SentIsComposed'
    BY <2>1 DEF CodecInv, ComposedOfForms, SentIsComposed, Signed, BodySent
  <2>3. DecodedIsReceived'
    BY <2>1 DEF DecodedIsReceived
  <2> QED BY <2>2, <2>3 DEF CodecInv
<1>7. CASE WriteJson
  BY <1>7, CodecOtherwise DEF WriteJson
<1>8. ASSUME NEW edit, NEW answer, ReadJson(edit, answer) PROVE CodecInv'
  BY <1>8, CodecOtherwise DEF ReadJson
<1>9. CASE ReadOutOfMemory
  BY <1>9, CodecOtherwise DEF ReadOutOfMemory
<1>10. CASE Release
  BY <1>10 DEF Release, CodecInv, ComposedOfForms, SentIsComposed, DecodedIsReceived
<1>11. CASE UNCHANGED vars
  BY <1>11, CodecOtherwise DEF vars
<1> QED BY <1>1, <1>2, <1>3, <1>4, <1>5, <1>6, <1>7, <1>8, <1>9, <1>10, <1>11 DEF Next

-----------------------------------------------------------------------------
(* So what was sent is what is received.                                   *)

\* What a decode finds in a message that nothing happened to.
LEMMA ArrivesAsSent ==
  ASSUME NullIsNoRecord, CodecInv, decoding # NULL, arrived.kind = "unchanged",
         decoding.result # "OUT_OF_MEMORY"
  PROVE  LET w == composed.confirmed
             room == decoding.room
         IN  /\ IsTransactionBody(composed.body) /\ IsConfirmedTransaction(w) /\ Signed
             /\ ~(Len(w.transaction.sig_map) >= MaxCount) /\ ~(Len(w.account_balances) >= MaxCount)
             /\ decoding.wire = WireIn(w, room)
             /\ IF "memos" \in room /\ Len(composed.body.memos) >= MaxCount
                THEN decoding.result # "SUCCESS"
                ELSE decoding.body = BodyIn(composed.body, room)
<1> DEFINE w == composed.confirmed
           room == decoding.room
           wire == ConfirmedTransactionDecode(binary, room)
           body == BodyDecoded(binary, room)
           sent == ConfirmedTransactionFromWire(w)
<1>1. Received(binary, arrived) = binary
  BY DEF Received, AlteredWithin, Altered
<1>2. /\ binary # NULL /\ decoding.wire = wire.value /\ decoding.body = body.value
      /\ body.result # "SUCCESS" => decoding.result # "SUCCESS"
  BY <1>1 DEF CodecInv, DecodedIsReceived
<1>3. /\ IsTransactionBody(composed.body) /\ IsConfirmedTransaction(w) /\ Signed
      /\ sent.result = "SUCCESS" /\ binary = EncodeConfirmedTransaction(sent.value)
  BY <1>2 DEF CodecInv, ComposedOfForms, SentIsComposed
<1>4. /\ ~(Len(w.transaction.sig_map) >= MaxCount) /\ ~(Len(w.account_balances) >= MaxCount)
      /\ wire = Success(WireIn(w, room))
  <2> DEFINE size == EncodedSize(BodySent)
  <2>1. /\ size \in 1..MaxAlloc /\ w.transaction.body_bytes = BytesOf(size, BodySent)
        /\ w.transaction.body_bytes.data = BodySent
    BY <1>3 DEF Signed, BytesOf
  <2> HIDE DEF size, w
  <2> QED BY <1>3, <2>1, ConfirmedArrives
<1>5. WireIn(w, room).transaction.body_bytes.data = BodySent
  <2>1. w.transaction.body_bytes.data = BodySent
    BY <1>3 DEF Signed, BytesOf
  <2> HIDE DEF w, room
  <2>2. WireIn(w, room).transaction = SignedIn(w.transaction, room)
    BY <1>3 DEF WireIn, IsConfirmedTransaction
  <2>3. SignedIn(w.transaction, room).body_bytes = w.transaction.body_bytes
    BY <1>3 DEF SignedIn, IsConfirmedTransaction, IsGradidoTransaction
  <2> QED BY <2>1, <2>2, <2>3
<1>6. body = TransactionBodyDecode(BodySent, room)
  BY <1>4, <1>5 DEF BodyDecoded, Then, Success
<1>7. IF "memos" \in room /\ Len(composed.body.memos) >= MaxCount
      THEN body = Failure("ARRAY_INDEX_OUT_OF_BOUNDS")
      ELSE body = Success(BodyIn(composed.body, room))
  BY <1>3, <1>6, BodyArrives DEF BodySent
<1>8. decoding.wire = WireIn(w, room)
  BY <1>2, <1>4 DEF Success
<1> HIDE DEF wire, body
<1> QED BY <1>2, <1>3, <1>4, <1>7, <1>8 DEF Success, Failure

LEMMA ReceivedAsSent ==
  ASSUME NullIsNoRecord, CodecInv
  PROVE  SentIsReceived
<1> SUFFICES ASSUME decoding # NULL, arrived.kind = "unchanged", decoding.result # "OUT_OF_MEMORY"
             PROVE  IF Countable(composed)
                    THEN /\ decoding.wire = WireIn(composed.confirmed, decoding.room)
                         /\ decoding.body = BodyIn(composed.body, decoding.room)
                    ELSE decoding.room = Lists => decoding.result # "SUCCESS"
  BY DEF SentIsReceived
<1> DEFINE w == composed.confirmed
<1>1. /\ IsTransactionBody(composed.body) /\ IsConfirmedTransaction(w)
      /\ ~(Len(w.transaction.sig_map) >= MaxCount) /\ ~(Len(w.account_balances) >= MaxCount)
      /\ decoding.wire = WireIn(w, decoding.room)
      /\ IF "memos" \in decoding.room /\ Len(composed.body.memos) >= MaxCount
         THEN decoding.result # "SUCCESS"
         ELSE decoding.body = BodyIn(composed.body, decoding.room)
  BY ArrivesAsSent
<1>2. /\ Len(composed.body.memos) \in Nat /\ Len(w.transaction.sig_map) \in Nat
      /\ Len(w.account_balances) \in Nat
  BY <1>1, ListIsIndexed DEF IsTransactionBody, IsConfirmedTransaction, IsGradidoTransaction, IsListOf
<1>3. CASE Countable(composed)
  <2>1. Len(composed.body.memos) < MaxCount
    BY <1>3 DEF Countable
  <2>2. ~(Len(composed.body.memos) >= MaxCount)
    BY <1>2, <2>1, MaxCountAssumption
  <2> QED BY <1>1, <1>3, <2>2
<1>4. CASE ~Countable(composed)
  <2>1. Len(w.transaction.sig_map) < MaxCount /\ Len(w.account_balances) < MaxCount
    BY <1>1, <1>2, MaxCountAssumption
  <2>2. Len(composed.body.memos) >= MaxCount
    <3>1. ~(Len(composed.body.memos) < MaxCount)
      BY <1>4, <2>1 DEF Countable
    <3> QED BY <1>2, <3>1, MaxCountAssumption
  <2> QED BY <1>1, <1>4, <2>2 DEF Lists
<1> QED BY <1>3, <1>4

\* A transaction that is encoded, sent and decoded is the one that was composed, whatever its type,
\* its lists and its numbers (SentIsReceived: grdw_confirmed_transaction_encode and _decode,
\* the generated code and the two mappings between them).
THEOREM WhatIsSentIsReceived ==
  ASSUME NullIsNoRecord
  PROVE  Spec => []SentIsReceived
<1>1. Init => CodecInv
  BY CodecInitially
<1>2. CodecInv /\ [Next]_vars => CodecInv'
  BY CodecKept
<1>3. CodecInv => SentIsReceived
  BY ReceivedAsSent
<1> QED BY <1>1, <1>2, <1>3, PTL DEF Spec

-----------------------------------------------------------------------------
(* A number that is peeked.                                                *)

\* What is sent, and whatever becomes of it on the way: numbered fields one after the other.
Tagged(f) ==
  /\ Sequence(f)
  /\ \A i \in DOMAIN f : "tag" \in DOMAIN f[i] /\ f[i].tag \in 0..FieldNumbers - 1

\* A sequence of numbered fields.
LEMMA TaggedOf ==
  ASSUME NEW S, NEW h \in Seq(S),
         \A e \in S : "tag" \in DOMAIN e /\ e.tag \in 0..FieldNumbers - 1
  PROVE  Tagged(h)
<1>1. Len(h) \in Nat /\ DOMAIN h = 1..Len(h) /\ \A i \in 1..Len(h) : h[i] \in S
  OBVIOUS
<1> DEFINE D == {h[i] : i \in DOMAIN h}
<1>2. \A i \in 1..Len(h) : h[i] \in D
  BY <1>1
<1> HIDE DEF D
<1>3. h \in Seq(D)
  BY <1>1, <1>2
<1> QED BY <1>1, <1>3 DEF Tagged, Sequence, D

LEMMA TaggedFields ==
  ASSUME NEW f, Tagged(f)
  PROVE  LET S == {f[i] : i \in DOMAIN f}
         IN  /\ f \in Seq(S) /\ Len(f) \in Nat /\ DOMAIN f = 1..Len(f)
             /\ \A e \in S : "tag" \in DOMAIN e /\ e.tag \in 0..FieldNumbers - 1
<1> DEFINE S == {f[i] : i \in DOMAIN f}
<1>1. f \in Seq(S) /\ \A e \in S : "tag" \in DOMAIN e /\ e.tag \in 0..FieldNumbers - 1
  BY DEF Tagged, Sequence
<1> HIDE DEF S
<1> QED BY <1>1 DEF S

LEMMA TaggedBoth ==
  ASSUME NEW f, NEW g, Tagged(f), Tagged(g)
  PROVE  Tagged(f \o g)
<1> DEFINE A == {f[i] : i \in DOMAIN f}
           B == {g[i] : i \in DOMAIN g}
<1>1. /\ f \in Seq(A) /\ \A e \in A : "tag" \in DOMAIN e /\ e.tag \in 0..FieldNumbers - 1
      /\ g \in Seq(B) /\ \A e \in B : "tag" \in DOMAIN e /\ e.tag \in 0..FieldNumbers - 1
  BY TaggedFields
<1> HIDE DEF A, B
<1>2. f \o g \in Seq(A \cup B)
  <2>1. f \in Seq(A \cup B) /\ g \in Seq(A \cup B)
    BY <1>1
  <2> QED BY <2>1
<1>3. \A e \in A \cup B : "tag" \in DOMAIN e /\ e.tag \in 0..FieldNumbers - 1
  BY <1>1
<1> QED BY <1>2, <1>3, TaggedOf

LEMMA TaggedOne ==
  ASSUME NEW field, "tag" \in DOMAIN field, field.tag \in 0..FieldNumbers - 1
  PROVE  Tagged(<<field>>)
<1> DEFINE h == <<field>>
           S == {field}
<1>1. h \in Seq(S) /\ \A e \in S : "tag" \in DOMAIN e /\ e.tag \in 0..FieldNumbers - 1
  OBVIOUS
<1> HIDE DEF h, S
<1>2. Tagged(h)
  BY <1>1, TaggedOf
<1> QED BY <1>2 DEF h

LEMMA TaggedNone == Tagged(<<>>)
<1> DEFINE h == <<>>
           S == {}
<1>1. h \in Seq(S) /\ \A e \in S : "tag" \in DOMAIN e /\ e.tag \in 0..FieldNumbers - 1
  OBVIOUS
<1> HIDE DEF h, S
<1>2. Tagged(h)
  BY <1>1, TaggedOf
<1> QED BY <1>2 DEF h

LEMMA TaggedPieces ==
  ASSUME NEW n \in 1..14, NEW value
  PROVE  /\ Tagged(Varint(n, value)) /\ Tagged(Bytes(n, value))
         /\ Tagged(<<[tag |-> n, message |-> value]>>)
<1>1. n \in 0..FieldNumbers - 1
  BY FieldNumbersAssumption
<1>2. Tagged(<<[tag |-> n, varint |-> value]>>)
  BY <1>1, TaggedOne
<1>3. Tagged(<<[tag |-> n, bytes |-> value]>>)
  BY <1>1, TaggedOne
<1>4. Tagged(<<[tag |-> n, message |-> value]>>)
  BY <1>1, TaggedOne
<1> QED BY <1>2, <1>3, <1>4, TaggedNone DEF Varint, VarintAlways, Bytes, BytesAlways

\* What is sent is.
LEMMA SentIsTagged ==
  ASSUME NEW m, NEW n \in Nat, DOMAIN m.account_balances = 1..n
  PROVE  Tagged(EncodeConfirmedTransaction(m))
<1> DEFINE p1 == Varint(1, m.id)
           p2 == Message(2, m.transaction, EncodeGradidoTransaction)
           p3 == Message(3, m.confirmed_at, EncodeTimestamp)
           p4 == Varint(4, m.version_number)
           p5 == Bytes(5, m.running_hash)
           p6 == Message(6, m.ledger_anchor, EncodeLedgerAnchor)
           p7 == Repeated(7, m.account_balances, EncodeAccountBalance)
<1>1. Tagged(p1) /\ Tagged(p4) /\ Tagged(p5)
  <2>1. \A k \in 1..14 : \A v : Tagged(Varint(k, v)) /\ Tagged(Bytes(k, v))
    BY TaggedPieces
  <2>2. 1 \in 1..14 /\ 4 \in 1..14 /\ 5 \in 1..14
    OBVIOUS
  <2> QED BY <2>1, <2>2
<1>2. Tagged(p2) /\ Tagged(p3) /\ Tagged(p6)
  <2>1. /\ Tagged(<<[tag |-> 2, message |-> EncodeGradidoTransaction(m.transaction)]>>)
        /\ Tagged(<<[tag |-> 3, message |-> EncodeTimestamp(m.confirmed_at)]>>)
        /\ Tagged(<<[tag |-> 6, message |-> EncodeLedgerAnchor(m.ledger_anchor)]>>)
    BY TaggedPieces
  <2> QED BY <2>1, TaggedNone DEF Message, MessageAlways
<1>3. Tagged(p7)
  <2> DEFINE S == {[tag |-> 7, message |-> EncodeAccountBalance(m.account_balances[i])] : i \in 1..n}
  <2>1. p7 = [i \in 1..n |-> [tag |-> 7, message |-> EncodeAccountBalance(m.account_balances[i])]]
    BY DEF Repeated
  <2>2. p7 \in [1..n -> S]
    BY <2>1
  <2>3. \A e \in S : "tag" \in DOMAIN e /\ e.tag = 7
    OBVIOUS
  <2> HIDE DEF p7, S
  <2>4. p7 \in Seq(S)
    BY <2>2
  <2> QED BY <2>3, <2>4, TaggedOf, FieldNumbersAssumption
<1>4. EncodeConfirmedTransaction(m) = p1 \o p2 \o p3 \o p4 \o p5 \o p6 \o p7
  BY DEF EncodeConfirmedTransaction
<1> HIDE DEF p1, p2, p3, p4, p5, p6, p7
<1>5. Tagged(p1 \o p2)
  BY <1>1, <1>2, TaggedBoth
<1>6. Tagged(p1 \o p2 \o p3)
  BY <1>2, <1>5, TaggedBoth
<1>7. Tagged(p1 \o p2 \o p3 \o p4)
  BY <1>1, <1>6, TaggedBoth
<1>8. Tagged(p1 \o p2 \o p3 \o p4 \o p5)
  BY <1>1, <1>7, TaggedBoth
<1>9. Tagged(p1 \o p2 \o p3 \o p4 \o p5 \o p6)
  BY <1>2, <1>8, TaggedBoth
<1>10. Tagged(p1 \o p2 \o p3 \o p4 \o p5 \o p6 \o p7)
  BY <1>3, <1>9, TaggedBoth
<1> QED BY <1>4, <1>10

\* A field left out, sent again or added leaves numbered fields.
LEMMA AlteredIsTagged ==
  ASSUME NEW f, Tagged(f), NEW change \in ChangesOf(f)
  PROVE  Tagged(Altered(f, change))
<1> DEFINE S == {f[i] : i \in DOMAIN f}
<1>1. /\ f \in Seq(S) /\ Len(f) \in Nat /\ DOMAIN f = 1..Len(f)
      /\ \A e \in S : "tag" \in DOMAIN e /\ e.tag \in 0..FieldNumbers - 1
  BY TaggedFields
<1>2. ASSUME NEW e, "tag" \in DOMAIN e, e.tag \in 0..FieldNumbers - 1
      PROVE  Tagged(Append(f, e))
  <2> HIDE DEF S
  <2>1. Append(f, e) \in Seq(S \cup {e})
    BY <1>1
  <2> QED BY <1>1, <1>2, <2>1, TaggedOf
<1>3. \/ change.kind = "added"
      \/ change.kind \in {"left out", "repeated", "overridden"} /\ change.at \in DOMAIN f
  BY DEF ChangesOf
<1>4. CASE change.kind = "added"
  <2>1. Foreign \in 0..FieldNumbers - 1
    BY FieldNumbersAssumption DEF Foreign
  <2>2. Tagged(Append(f, [tag |-> Foreign, varint |-> 1]))
    BY <1>2, <2>1
  <2> QED BY <1>4, <2>2 DEF Altered
<1>5. CASE change.kind = "left out" /\ change.at \in DOMAIN f
  <2> DEFINE i == change.at
  <2>1. i \in 1..Len(f)
    BY <1>1, <1>5
  <2>2. SubSeq(f, 1, i - 1) \in Seq(S) /\ SubSeq(f, i + 1, Len(f)) \in Seq(S)
    <3> HIDE DEF S, i
    <3>1. \A j \in 1..i - 1 : f[j] \in S
      BY <1>1, <2>1
    <3>2. \A j \in i + 1..Len(f) : f[j] \in S
      BY <1>1, <2>1
    <3>3. /\ 1 \in Int /\ i - 1 \in Int /\ i + 1 \in Int /\ Len(f) \in Int
      BY <1>1, <2>1
    <3> QED BY <1>1, <2>1, <3>1, <3>2, <3>3, SubSeqProperties
  <2> HIDE DEF S, i
  <2>3. SubSeq(f, 1, i - 1) \o SubSeq(f, i + 1, Len(f)) \in Seq(S)
    BY <2>2
  <2>4. Tagged(SubSeq(f, 1, i - 1) \o SubSeq(f, i + 1, Len(f)))
    BY <1>1, <2>3, TaggedOf
  <2> QED BY <1>5, <2>4 DEF Altered, RemoveAt, i
<1>6. CASE change.kind = "repeated" /\ change.at \in DOMAIN f
  <2>1. f[change.at] \in S
    BY <1>6
  <2>2. "tag" \in DOMAIN f[change.at] /\ f[change.at].tag \in 0..FieldNumbers - 1
    BY <1>1, <2>1
  <2>3. Tagged(Append(f, f[change.at]))
    BY <1>2, <2>2
  <2> QED BY <1>6, <2>3 DEF Altered
<1>7. CASE change.kind = "overridden" /\ change.at \in DOMAIN f
  <2> DEFINE old == f[change.at]
             new == [old EXCEPT !.varint = @ + 1]
  <2>1. old \in S
    BY <1>7
  <2>2. "tag" \in DOMAIN old /\ old.tag \in 0..FieldNumbers - 1
    BY <1>1, <2>1
  <2>3. "tag" \in DOMAIN new /\ new.tag = old.tag
    <3> HIDE DEF old
    <3> QED BY <2>2
  <2> HIDE DEF old, new
  <2>4. Tagged(Append(f, new))
    BY <1>2, <2>2, <2>3
  <2> QED BY <1>7, <2>4 DEF Altered, new, old
<1> QED BY <1>3, <1>4, <1>5, <1>6, <1>7

\* So does a change within a message.
LEMMA InnerIsTagged ==
  ASSUME NEW f, Tagged(f), NEW at, NEW message
  PROVE  Tagged([f EXCEPT ![at].message = message])
<1> DEFINE new(i) == IF i = at THEN [f[i] EXCEPT !.message = message] ELSE f[i]
           S == {f[i] : i \in DOMAIN f}
           T == {new(i) : i \in DOMAIN f}
           h == [f EXCEPT ![at].message = message]
<1>1. /\ Len(f) \in Nat /\ DOMAIN f = 1..Len(f)
      /\ \A e \in S : "tag" \in DOMAIN e /\ e.tag \in 0..FieldNumbers - 1
  BY TaggedFields
<1>2. DOMAIN h = 1..Len(f) /\ \A i \in 1..Len(f) : h[i] = new(i)
  BY <1>1
<1>3. ASSUME NEW e, "tag" \in DOMAIN e
      PROVE  LET r == [e EXCEPT !.message = message] IN "tag" \in DOMAIN r /\ r.tag = e.tag
  BY <1>3
<1>4. \A i \in 1..Len(f) : "tag" \in DOMAIN new(i) /\ new(i).tag \in 0..FieldNumbers - 1
  <2> TAKE i \in 1..Len(f)
  <2>1. f[i] \in S
    BY <1>1
  <2>2. "tag" \in DOMAIN f[i] /\ f[i].tag \in 0..FieldNumbers - 1
    BY <1>1, <2>1
  <2> QED BY <1>3, <2>2
<1>5. h \in [1..Len(f) -> T]
  <2>1. h = [i \in 1..Len(f) |-> h[i]]
    BY <1>2
  <2>2. \A i \in 1..Len(f) : h[i] \in T
    BY <1>1, <1>2
  <2> HIDE DEF h, T
  <2> QED BY <2>1, <2>2
<1>6. \A e \in T : "tag" \in DOMAIN e /\ e.tag \in 0..FieldNumbers - 1
  BY <1>1, <1>4
<1> HIDE DEF h, T
<1>7. h \in Seq(T)
  BY <1>1, <1>5
<1> QED BY <1>6, <1>7, TaggedOf DEF h

LEMMA ReceivedIsTagged ==
  ASSUME NEW f, Tagged(f), NEW change \in Changes(f)
  PROVE  Tagged(Received(f, change))
<1>1. \/ change \in ChangesOf(f)
      \/ change.kind = "within"
      \/ change.kind = "body"
  BY DEF Changes, Within
<1>2. CASE change \in ChangesOf(f)
  <2>1. change.kind \in {"added", "left out", "repeated", "overridden"}
    <3> DEFINE K1 == ChangeKinds \cap {"added"}
               K2 == ChangeKinds \cap {"left out", "repeated"}
               K3 == ChangeKinds \cap {"overridden"}
               At == {i \in DOMAIN f : "varint" \in DOMAIN f[i]}
    <3>1. \/ change \in [kind : K1]
          \/ change \in [kind : K2, at : DOMAIN f]
          \/ change \in [kind : K3, at : At]
      BY <1>2 DEF ChangesOf
    <3> HIDE DEF K1, K2, K3, At
    <3>2. /\ change \in [kind : K1] => change.kind \in K1
          /\ change \in [kind : K2, at : DOMAIN f] => change.kind \in K2
          /\ change \in [kind : K3, at : At] => change.kind \in K3
      <4>1. \A K : change \in [kind : K] => change.kind \in K
        OBVIOUS
      <4>2. \A K, P : change \in [kind : K, at : P] => change.kind \in K
        OBVIOUS
      <4> QED BY ONLY <4>1, <4>2
    <3>3. change.kind \in K1 \/ change.kind \in K2 \/ change.kind \in K3
      BY ONLY <3>1, <3>2, ZenonT(40)
    <3> QED BY <3>3 DEF K1, K2, K3
  <2>2. Received(f, change) = Altered(f, change)
    BY <2>1 DEF Received, AlteredWithin
  <2> QED BY <1>2, <2>2, AlteredIsTagged
<1>3. CASE change.kind = "within"
  <2> DEFINE message == Altered(f[change.at].message, change.change)
  <2>1. Received(f, change) = [f EXCEPT ![change.at].message = Altered(@, change.change)]
    BY <1>3 DEF Received, AlteredWithin
  <2>2. [f EXCEPT ![change.at].message = Altered(@, change.change)]
          = [f EXCEPT ![change.at].message = message]
    OBVIOUS
  <2> HIDE DEF message
  <2>3. Tagged([f EXCEPT ![change.at].message = message])
    BY InnerIsTagged
  <2> QED BY <2>1, <2>2, <2>3
<1>4. CASE change.kind = "body"
  <2> DEFINE at == Place(f, 2)
             message == [f[at].message EXCEPT ![Place(f[at].message, 2)].bytes.data =
                           AlteredWithin(@, change.change)]
  <2>1. Received(f, change)
          = [f EXCEPT ![at].message[Place(f[at].message, 2)].bytes.data =
               AlteredWithin(@, change.change)]
    BY <1>4 DEF Received
  <2>2. [f EXCEPT ![at].message[Place(f[at].message, 2)].bytes.data =
               AlteredWithin(@, change.change)]
          = [f EXCEPT ![at].message = message]
    OBVIOUS
  <2> HIDE DEF message, at
  <2>3. Tagged([f EXCEPT ![at].message = message])
    BY InnerIsTagged
  <2> QED BY <2>1, <2>2, <2>3
<1> QED BY <1>1, <1>2, <1>3, <1>4

\* A conversion that refuses makes nothing.
LEMMA RefusedIsNull ==
  /\ \A pb : TimestampFromPbtools(pb).result # "SUCCESS" => TimestampFromPbtools(pb).value = NULL
  /\ \A pb : LedgerAnchorFromPbtools(pb).result # "SUCCESS" =>
       LedgerAnchorFromPbtools(pb).value = NULL
  /\ \A pb : GradidoTransactionFromPb(pb).result # "SUCCESS" =>
       GradidoTransactionFromPb(pb).value = NULL
<1>1. \A pb : TimestampFromPbtools(pb).result # "SUCCESS" => TimestampFromPbtools(pb).value = NULL
  BY DEF TimestampFromPbtools, NotNull, Success, Failure
<1>2. \A pb : HieroAccountIdFromPbtools(pb).result # "SUCCESS" =>
        HieroAccountIdFromPbtools(pb).value = NULL
  BY DEF HieroAccountIdFromPbtools, NotNull, Success, Failure
<1>3. \A pb : HieroTransactionIdFromPbtools(pb).result # "SUCCESS" =>
        HieroTransactionIdFromPbtools(pb).value = NULL
  <2> TAKE pb
  <2> DEFINE start == TimestampFromPbtools(pb.transaction_valid_start)
             account == HieroAccountIdFromPbtools(pb.account_id)
  <2>1. /\ start.result # "SUCCESS" => start.value = NULL
        /\ account.result # "SUCCESS" => account.value = NULL
    BY <1>1, <1>2
  <2> HIDE DEF start, account
  <2>2. \/ HieroTransactionIdFromPbtools(pb) \in {start, account}
        \/ \E r : HieroTransactionIdFromPbtools(pb) = Failure(r)
        \/ \E v : HieroTransactionIdFromPbtools(pb) = Success(v)
    BY DEF HieroTransactionIdFromPbtools, NotNull, Then, start, account
  <2> QED BY <2>1, <2>2 DEF Success, Failure
<1>4. \A pb : LedgerAnchorFromPbtools(pb).result # "SUCCESS" =>
        LedgerAnchorFromPbtools(pb).value = NULL
  <2> TAKE pb
  <2> DEFINE id == HieroTransactionIdFromPbtools(pb.anchor_id.value)
  <2>1. id.result # "SUCCESS" => id.value = NULL
    BY <1>3
  <2> HIDE DEF id
  <2>2. \/ LedgerAnchorFromPbtools(pb) = id
        \/ \E r : LedgerAnchorFromPbtools(pb) = Failure(r)
        \/ \E v : LedgerAnchorFromPbtools(pb) = Success(v)
    BY DEF LedgerAnchorFromPbtools, NotNull, Then, id
  <2> QED BY <2>1, <2>2 DEF Success, Failure
<1>5. \A pb : GradidoTransactionFromPb(pb).result # "SUCCESS" =>
        GradidoTransactionFromPb(pb).value = NULL
  <2> TAKE pb
  <2> DEFINE pairs == IF pb.sig_map = NULL THEN <<>> ELSE pb.sig_map.sig_pair
             list == Every(pairs, SignaturePairFromPbtools)
             anchor == IF pb.pairing_ledger_anchor = NULL THEN Success(NoAnchor)
                       ELSE LedgerAnchorFromPbtools(pb.pairing_ledger_anchor)
             block == MemoryBlockFromPbtools(pb.body_bytes)
  <2>1. /\ list.result # "SUCCESS" => list.value = NULL
        /\ anchor.result # "SUCCESS" => anchor.value = NULL
        /\ block.result # "SUCCESS" => block.value = NULL
    <3>1. list.result # "SUCCESS" => list.value = NULL
      <4> HIDE DEF pairs
      <4> QED BY DEF Every, Success, Failure
    <3>2. anchor.result # "SUCCESS" => anchor.value = NULL
      BY <1>4 DEF Success
    <3>3. block.result # "SUCCESS" => block.value = NULL
      BY DEF MemoryBlockFromPbtools, Success, Failure
    <3> QED BY <3>1, <3>2, <3>3
  <2>2. \/ GradidoTransactionFromPb(pb) = Failure("NULL_POINTER")
        \/ GradidoTransactionFromPb(pb) = Failure("ARRAY_INDEX_OUT_OF_BOUNDS")
        \/ GradidoTransactionFromPb(pb)
             = Then(list, LAMBDA sig_map : Then(anchor, LAMBDA a : Then(block, LAMBDA body :
                 Success([sig_map |-> sig_map, body_bytes |-> body,
                          pairing_ledger_anchor |-> a]))))
    BY DEF GradidoTransactionFromPb, NotNull
  <2> HIDE DEF list, anchor, block
  <2>3. \/ GradidoTransactionFromPb(pb) \in {list, anchor, block}
        \/ \E r : GradidoTransactionFromPb(pb) = Failure(r)
        \/ \E v : GradidoTransactionFromPb(pb) = Success(v)
    BY <2>2 DEF Then
  <2> QED BY <2>1, <2>3 DEF Success, Failure
<1> QED BY <1>1, <1>4, <1>5

\* The number of a transaction that was decoded is the one its message has.
LEMMA NumberIsKept ==
  ASSUME NEW pb, ConfirmedTransactionFromPb(pb).value # NULL
  PROVE  ConfirmedTransactionFromPb(pb).value.id = pb.id
<1> DEFINE made == ConfirmedTransactionFromPb(pb)
           transaction == GradidoTransactionFromPb(pb.transaction)
           confirmed == TimestampFromPbtools(pb.confirmed_at)
           anchor == LedgerAnchorFromPbtools(pb.ledger_anchor)
           balances == Every(pb.account_balances, AccountBalanceFromPbtools)
<1>1. /\ transaction.result # "SUCCESS" => transaction.value = NULL
      /\ confirmed.result # "SUCCESS" => confirmed.value = NULL
      /\ anchor.result # "SUCCESS" => anchor.value = NULL
  BY RefusedIsNull
<1>2. balances.result # "SUCCESS" => balances.value = NULL
  <2>1. (\E v : balances = Success(v)) \/ (\E r : balances = Failure(r))
    BY DEF Every
  <2> HIDE DEF balances
  <2> QED BY <2>1 DEF Success, Failure
<1>3. \/ \E r : made = Failure(r)
      \/ made = Then(transaction, LAMBDA t : Then(confirmed, LAMBDA c :
           IF pb.running_hash.size # HashSize THEN Failure("INVALID_PARAM")
           ELSE Then(anchor, LAMBDA a :
           IF Len(pb.account_balances) >= MaxCount THEN Failure("ARRAY_INDEX_OUT_OF_BOUNDS")
           ELSE Then(balances, LAMBDA b :
             Success([id |-> pb.id, transaction |-> t, confirmed_at |-> c,
                      running_hash |-> pb.running_hash.data, ledger_anchor |-> a,
                      account_balances |-> b])))))
  BY DEF ConfirmedTransactionFromPb
<1> HIDE DEF made, transaction, confirmed, anchor, balances
<1>4. \/ \E r : made = Failure(r)
      \/ transaction.result # "SUCCESS" /\ made = transaction
      \/ confirmed.result # "SUCCESS" /\ made = confirmed
      \/ anchor.result # "SUCCESS" /\ made = anchor
      \/ balances.result # "SUCCESS" /\ made = balances
      \/ \E t, c, a, b :
           made = Success([id |-> pb.id, transaction |-> t, confirmed_at |-> c,
                           running_hash |-> pb.running_hash.data, ledger_anchor |-> a,
                           account_balances |-> b])
  BY <1>3 DEF Then
<1>5. made.value # NULL
  BY DEF made
<1>6. \E t, c, a, b :
        made = Success([id |-> pb.id, transaction |-> t, confirmed_at |-> c,
                        running_hash |-> pb.running_hash.data, ledger_anchor |-> a,
                        account_balances |-> b])
  <2>1. ~\E r : made = Failure(r)
    BY <1>5 DEF Failure
  <2>2. /\ ~(transaction.result # "SUCCESS" /\ made = transaction)
        /\ ~(confirmed.result # "SUCCESS" /\ made = confirmed)
        /\ ~(anchor.result # "SUCCESS" /\ made = anchor)
        /\ ~(balances.result # "SUCCESS" /\ made = balances)
    BY <1>1, <1>2, <1>5
  <2> QED BY <1>4, <2>1, <2>2, Zenon
<1> QED BY <1>6 DEF made, Success

\* Peeking finds the field that decoding takes its number from.
LEMMA PeekFindsIt ==
  ASSUME NEW f, Tagged(f), NEW room, ConfirmedTransactionDecode(f, room).value # NULL
  PROVE  PeekId(f) = Success(ConfirmedTransactionDecode(f, room).value.id)
<1> DEFINE pb == DecodeConfirmedTransaction(f, room)
           ids == {i \in DOMAIN f : f[i].tag = 1}
           last == CHOOSE i \in ids : \A j \in ids : j <= i
<1>1. ~Aborts(f) /\ ConfirmedTransactionDecode(f, room) = ConfirmedTransactionFromPb(pb)
  BY DEF ConfirmedTransactionDecode, Failure
<1>2. \A i \in DOMAIN f : Number(f[i]) = f[i].tag
  BY FieldNumbersAssumption DEF Tagged, Number
<1>3. ~\E i \in DOMAIN f : f[i].tag = 0
  BY <1>1, <1>2 DEF Aborts
<1>4. Places(f, {1}) = ids
  BY <1>2 DEF Places
<1>5. ReadVarint(f, 1) = IF ids = {} THEN 0 ELSE f[last].varint
  <2>1. LastOf(f, {1}) = f[CHOOSE i \in ids : \A j \in ids : j <= i]
    BY <1>4, Zenon DEF LastOf
  <2>2. LastOf(f, {1}) = f[last]
    BY <2>1
  <2> HIDE DEF ids, last
  <2> QED BY <1>4, <2>2 DEF ReadVarint, Present
<1>6. pb.id = ReadVarint(f, 1)
  BY DEF DecodeConfirmedTransaction
<1> HIDE DEF pb
<1>7. ConfirmedTransactionDecode(f, room).value.id = ReadVarint(f, 1)
  BY <1>1, <1>6, NumberIsKept
<1>8. PeekId(f) = Success(IF ids = {} THEN 0 ELSE f[last].varint)
  BY <1>3 DEF PeekId
<1> QED BY <1>5, <1>7, <1>8

\* What arrives is numbered fields, and was peeked as it is.
ArrivedStands ==
  /\ composed # NULL =>
       /\ composed = [body |-> composed.body, confirmed |-> composed.confirmed]
       /\ IsConfirmedTransaction(composed.confirmed)
  /\ binary = NULL => arrived = [kind |-> "unchanged"] /\ decoding = NULL
  /\ binary # NULL => Tagged(binary) /\ Tagged(Received(binary, arrived))

PeekInv == ArrivedStands /\ PeekedIsDecoded

LEMMA ComposeIsPeeked ==
  ASSUME PeekInv, NEW c \in Compositions, Compose(c)
  PROVE  PeekInv'
<1>1. composed' = c /\ UNCHANGED <<binary, arrived, decoding>>
  BY DEF Compose
<1>2. ArrivedStands'
  <2>1. composed' = [body |-> composed'.body, confirmed |-> composed'.confirmed]
        /\ IsConfirmedTransaction(composed'.confirmed)
    BY <1>1, CompositionsAssumption
  <2>2. Received(binary, arrived)' = Received(binary, arrived)
    BY <1>1
  <2> QED BY <1>1, <2>1, <2>2 DEF PeekInv, ArrivedStands
<1>3. PeekedIsDecoded'
  BY <1>1 DEF PeekInv, PeekedIsDecoded
<1> QED BY <1>2, <1>3 DEF PeekInv

LEMMA EncodeBodyIsPeeked ==
  ASSUME PeekInv, NEW room, EncodeBody(room)
  PROVE  PeekInv'
<1> DEFINE fields == EncodeTransactionBody(TransactionBodyFromWire(composed.body))
           bytes == BytesOf(EncodedSize(fields), fields)
           before == composed.confirmed
           after == [before EXCEPT !.transaction.body_bytes = bytes]
<1>1. /\ composed # NULL
      /\ composed' = [composed EXCEPT !.confirmed.transaction.body_bytes = bytes]
      /\ UNCHANGED <<binary, arrived, decoding>>
  BY DEF EncodeBody
<1>2. composed = [body |-> composed.body, confirmed |-> before] /\ IsConfirmedTransaction(before)
  BY <1>1 DEF PeekInv, ArrivedStands
<1> HIDE DEF bytes
<1>3. composed' = [body |-> composed.body, confirmed |-> after]
  <2> HIDE DEF before
  <2>1. composed' = [composed EXCEPT !.confirmed = after]
    BY <1>1 DEF before
  <2> HIDE DEF after
  <2> QED BY <1>2, <2>1
<1>4. IsConfirmedTransaction(after)
  BY <1>2, SignedStays
<1> HIDE DEF after, before
<1>5. ArrivedStands'
  <2>1. composed' = [body |-> composed'.body, confirmed |-> composed'.confirmed]
        /\ composed'.confirmed = after
    BY <1>3
  <2>2. Received(binary, arrived)' = Received(binary, arrived)
    BY <1>1
  <2> QED BY <1>1, <1>4, <2>1, <2>2 DEF PeekInv, ArrivedStands
<1>6. PeekedIsDecoded'
  BY <1>1 DEF PeekInv, PeekedIsDecoded
<1> QED BY <1>5, <1>6 DEF PeekInv

LEMMA EncodeConfirmedIsPeeked ==
  ASSUME PeekInv, NEW room, EncodeConfirmed(room)
  PROVE  PeekInv'
<1> DEFINE w == composed.confirmed
           made == ConfirmedTransactionFromWire(w)
<1>1. /\ composed # NULL /\ binary = NULL /\ made.result = "SUCCESS"
      /\ binary' = EncodeConfirmedTransaction(made.value)
      /\ UNCHANGED <<composed, arrived, decoding>>
  BY DEF EncodeConfirmed
<1>2. IsConfirmedTransaction(w) /\ arrived = [kind |-> "unchanged"] /\ decoding = NULL
  BY <1>1 DEF PeekInv, ArrivedStands
<1>3. PICK n \in Nat : DOMAIN w.account_balances = 1..n
  <2>1. IsListOf(w.account_balances, IsAccountBalance)
    BY <1>2 DEF IsConfirmedTransaction
  <2> QED BY <2>1, ListIsIndexed DEF IsListOf
<1>4. DOMAIN made.value.account_balances = 1..n
  <2> DEFINE first == GradidoTransactionFromWire(w.transaction)
  <2> HIDE DEF w, first
  <2>1. /\ first.result = "SUCCESS" /\ ~(Len(w.account_balances) >= MaxCount)
        /\ made = Success([id |-> w.id, transaction |-> first.value,
                  confirmed_at |-> TimestampFromWire(w.confirmed_at),
                  version_number |-> ProtocolVersion,
                  running_hash |-> BytesOf(HashSize, w.running_hash),
                  ledger_anchor |-> LedgerAnchorFromWire(w.ledger_anchor),
                  account_balances |-> [i \in DOMAIN w.account_balances |->
                                          AccountBalanceFromWire(w.account_balances[i])]])
    BY <1>1 DEF ConfirmedTransactionFromWire, Then, Failure, first
  <2> QED BY <1>3, <2>1 DEF Success
<1> HIDE DEF made
<1>5. Tagged(binary')
  BY <1>1, <1>4, SentIsTagged
<1>6. Received(binary', arrived') = binary'
  <2>1. arrived' = [kind |-> "unchanged"]
    BY <1>1, <1>2
  <2>2. \A f : Altered(f, [kind |-> "unchanged"]) = f
    BY DEF Altered
  <2>3. \A f : Received(f, [kind |-> "unchanged"]) = f
    BY <2>2 DEF Received, AlteredWithin
  <2> QED BY <2>1, <2>3
<1>7. ArrivedStands'
  <2>1. binary' = NULL => decoding' = NULL /\ arrived' = [kind |-> "unchanged"]
    BY <1>1, <1>2
  <2>2. composed' = composed
    BY <1>1
  <2> QED BY <1>5, <1>6, <2>1, <2>2 DEF PeekInv, ArrivedStands
<1>8. PeekedIsDecoded'
  BY <1>1, <1>2 DEF PeekedIsDecoded
<1> QED BY <1>7, <1>8 DEF PeekInv

LEMMA ArriveIsPeeked ==
  ASSUME PeekInv, binary # NULL, NEW change \in Changes(binary), Arrive(change)
  PROVE  PeekInv'
<1>1. decoding = NULL /\ arrived' = change /\ UNCHANGED <<composed, binary, decoding>>
  BY DEF Arrive
<1>2. Tagged(binary)
  BY DEF PeekInv, ArrivedStands
<1>3. Tagged(Received(binary, change))
  BY <1>2, ReceivedIsTagged
<1>4. Received(binary, arrived)' = Received(binary, change)
  BY <1>1
<1>5. ArrivedStands'
  BY <1>1, <1>2, <1>3, <1>4 DEF PeekInv, ArrivedStands
<1>6. PeekedIsDecoded'
  BY <1>1 DEF PeekedIsDecoded
<1> QED BY <1>5, <1>6 DEF PeekInv

LEMMA InitFromProtobufIsPeeked ==
  ASSUME PeekInv, NEW room, NEW answer, InitFromProtobuf(room, answer)
  PROVE  PeekInv'
<1> DEFINE fields == Received(binary, arrived)
           wire == ConfirmedTransactionDecode(fields, room)
           body == BodyDecoded(fields, room)
           made == IF body.result # "SUCCESS" THEN [result |-> body.result, tx |-> tx]
                   ELSE CompleteTransactionFromWire(body.value, wire.value, Community, answer)
<1>1. /\ binary # NULL
      /\ decoding' = [result |-> made.result, room |-> room, wire |-> wire.value,
                      body |-> body.value, peeked |-> PeekId(fields)]
      /\ UNCHANGED <<composed, binary, arrived>>
  BY DEF InitFromProtobuf, BodyDecoded
<1>2. Tagged(fields)
  BY <1>1 DEF PeekInv, ArrivedStands
<1> HIDE DEF made, body
<1>3. ArrivedStands'
  <2>1. Received(binary, arrived)' = fields
    BY <1>1
  <2>2. composed' = composed /\ binary' = binary /\ binary' # NULL
    BY <1>1
  <2> QED BY <1>2, <2>1, <2>2 DEF PeekInv, ArrivedStands
<1>4. decoding'.wire = wire.value /\ decoding'.peeked = PeekId(fields)
  BY <1>1
<1> HIDE DEF fields
<1>5. wire.value # NULL => PeekId(fields) = Success(wire.value.id)
  BY <1>2, PeekFindsIt
<1>6. PeekedIsDecoded'
  <2>1. decoding'.wire # NULL => decoding'.peeked = Success(decoding'.wire.id)
    BY <1>4, <1>5
  <2> QED BY <2>1 DEF PeekedIsDecoded, Success
<1> QED BY <1>3, <1>6 DEF PeekInv

LEMMA PeekKept ==
  ASSUME PeekInv, [Next]_vars
  PROVE  PeekInv'
<1>1. ASSUME UNCHANGED <<composed, binary, arrived, decoding>> PROVE PeekInv'
  <2>1. Received(binary, arrived)' = Received(binary, arrived)
    BY <1>1
  <2>2. ArrivedStands'
    BY <1>1, <2>1 DEF PeekInv, ArrivedStands
  <2>3. PeekedIsDecoded'
    BY <1>1 DEF PeekInv, PeekedIsDecoded
  <2> QED BY <2>2, <2>3 DEF PeekInv
<1>2. ASSUME NEW c \in Compositions, Compose(c) PROVE PeekInv'
  BY <1>2, ComposeIsPeeked
<1>3. ASSUME NEW room \in BufferSizes, EncodeBody(room) PROVE PeekInv'
  BY <1>3, EncodeBodyIsPeeked
<1>4. ASSUME NEW room \in BufferSizes, EncodeConfirmed(room) PROVE PeekInv'
  BY <1>4, EncodeConfirmedIsPeeked
<1>5. ASSUME binary # NULL, NEW change \in Changes(binary), Arrive(change) PROVE PeekInv'
  BY <1>5, ArriveIsPeeked
<1>6. ASSUME NEW room \in SUBSET Lists, NEW answer \in EmptyClones, InitFromProtobuf(room, answer)
      PROVE  PeekInv'
  BY <1>6, InitFromProtobufIsPeeked
<1>7. CASE DecodeOutOfMemory
  <2>1. binary # NULL /\ decoding'.wire = NULL /\ UNCHANGED <<composed, binary, arrived>>
    BY <1>7 DEF DecodeOutOfMemory
  <2>2. Received(binary, arrived)' = Received(binary, arrived)
    BY <2>1
  <2>3. ArrivedStands'
    BY <2>1, <2>2 DEF PeekInv, ArrivedStands
  <2>4. PeekedIsDecoded'
    BY <2>1 DEF PeekedIsDecoded
  <2> QED BY <2>3, <2>4 DEF PeekInv
<1>8. CASE WriteJson
  BY <1>1, <1>8 DEF WriteJson
<1>9. ASSUME NEW edit, NEW answer, ReadJson(edit, answer) PROVE PeekInv'
  BY <1>1, <1>9 DEF ReadJson
<1>10. CASE ReadOutOfMemory
  BY <1>1, <1>10 DEF ReadOutOfMemory
<1>11. CASE Release
  BY <1>11 DEF Release, PeekInv, ArrivedStands, PeekedIsDecoded
<1>12. CASE UNCHANGED vars
  BY <1>1, <1>12 DEF vars
<1> QED BY <1>2, <1>3, <1>4, <1>5, <1>6, <1>7, <1>8, <1>9, <1>10, <1>11, <1>12 DEF Next

\* The number that is peeked is the one that is decoded, whatever was left out, sent again,
\* overridden or added on the way (PeekedIsDecoded: grdw_confirmed_transaction_peek_id against
\* grdw_confirmed_transaction_decode).
THEOREM PeekedNumberIsDecoded == Spec => []PeekedIsDecoded
<1>1. Init => PeekInv
  BY DEF Init, PeekInv, ArrivedStands, PeekedIsDecoded
<1>2. PeekInv /\ [Next]_vars => PeekInv'
  BY PeekKept
<1>3. PeekInv => PeekedIsDecoded
  BY DEF PeekInv
<1> QED BY <1>1, <1>2, <1>3, PTL DEF Spec


-----------------------------------------------------------------------------
(* What a message may say when one field of it has changed on the way: its *)
(* fields are those that were sent, one nobody knows, or another number    *)
(* under the number of one that was sent.                                  *)

LEMMA RangeBoth ==
  ASSUME NEW f, NEW g, Tagged(f), Tagged(g)
  PROVE  Tagged(f \o g) /\ Range(f \o g) = Range(f) \cup Range(g)
<1> DEFINE h == f \o g
           m == Len(f)
           n == Len(g)
<1>1. /\ m \in Nat /\ DOMAIN f = 1..m
      /\ n \in Nat /\ DOMAIN g = 1..n
      /\ DOMAIN h = 1..m + n
      /\ \A i \in 1..m : h[i] = f[i]
      /\ \A i \in 1..n : h[m + i] = g[i]
  BY Joined DEF Tagged
<1> HIDE DEF h, m, n
<1>2. ASSUME NEW i \in 1..m + n PROVE h[i] \in Range(f) \cup Range(g)
  <2>1. CASE i \in 1..m
    BY <1>1, <2>1 DEF Range
  <2>2. CASE i \notin 1..m
    <3>1. i - m \in 1..n /\ m + (i - m) = i
      BY <1>1, <2>2
    <3> QED BY <1>1, <3>1 DEF Range
  <2> QED BY <2>1, <2>2
<1>3. ASSUME NEW i \in 1..m PROVE f[i] \in Range(h)
  <2>1. i \in 1..m + n
    BY <1>1
  <2> QED BY <1>1, <2>1 DEF Range
<1>4. ASSUME NEW i \in 1..n PROVE g[i] \in Range(h)
  <2>1. m + i \in 1..m + n
    BY <1>1
  <2> QED BY <1>1, <2>1 DEF Range
<1>5. Range(h) = Range(f) \cup Range(g)
  BY <1>1, <1>2, <1>3, <1>4, ZenonT(40) DEF Range
<1> QED BY <1>5, TaggedBoth DEF h

LEMMA RangeOfOne == Range(<<>>) = {} /\ \A e : Range(<< e >>) = {e}
BY DEF Range

LEMMA RangeOfPiece ==
  ASSUME NEW n, NEW value
  PROVE  /\ Range(Varint(n, value)) \subseteq {[tag |-> n, varint |-> value]}
         /\ Range(Bytes(n, value)) \subseteq {[tag |-> n, bytes |-> value]}
         /\ Range(<<[tag |-> n, message |-> value]>>) = {[tag |-> n, message |-> value]}
BY RangeOfOne DEF Varint, VarintAlways, Bytes, BytesAlways

Stems(e, f) ==
  \/ e.tag = Foreign
  \/ e \in Range(f)
  \/ \E d \in Range(f) : "varint" \in DOMAIN d /\ e.tag = d.tag

Kin(g, f) == Tagged(g) /\ \A e \in Range(g) : Stems(e, f)

\* The same, or so within one of its messages.
Near(g, f) ==
  /\ Tagged(g)
  /\ \A e \in Range(g) :
       \/ Stems(e, f)
       \/ \E d \in Range(f) : /\ "message" \in DOMAIN d /\ e.tag = d.tag
                              /\ Tagged(d.message) => Kin(e.message, d.message)

LEMMA KinItself ==
  ASSUME NEW f, Tagged(f)
  PROVE  Kin(f, f) /\ Near(f, f)
BY DEF Kin, Near, Stems

LEMMA KinIsNear ==
  ASSUME NEW f, NEW g, Kin(g, f)
  PROVE  Near(g, f)
BY DEF Kin, Near

\* What may happen to a field leaves a message of this kind.
LEMMA AlteredIsKin ==
  ASSUME NEW f, Tagged(f), NEW change \in ChangesOf(f)
  PROVE  Kin(Altered(f, change), f)
<1> DEFINE n == Len(f)
<1>1. n \in Nat /\ DOMAIN f = 1..n /\ f \in Seq(Range(f))
  BY TaggedFields DEF Range
<1>2. Tagged(Altered(f, change))
  BY AlteredIsTagged
<1>3. ASSUME NEW e PROVE Range(Append(f, e)) \subseteq Range(f) \cup {e}
  <2> DEFINE h == Append(f, e)
             S == Range(f)
  <2>1. f \in Seq(S)
    BY <1>1
  <2> HIDE DEF S
  <2>2. DOMAIN h = 1..n + 1 /\ \A i \in 1..n : h[i] = f[i]
    BY <2>1
  <2>3. h[n + 1] = e
    BY <2>1
  <2> HIDE DEF h, n
  <2>4. \A i \in 1..n + 1 : i \in 1..n \/ i = n + 1
    BY <1>1
  <2> QED BY <1>1, <2>2, <2>3, <2>4 DEF Range, h
<1>4. \/ change.kind = "added"
      \/ change.kind \in {"left out", "repeated"} /\ change.at \in DOMAIN f
      \/ /\ change.kind = "overridden" /\ change.at \in DOMAIN f
         /\ "varint" \in DOMAIN f[change.at]
  BY DEF ChangesOf
<1>5. CASE change.kind = "added"
  <2> DEFINE e == [tag |-> Foreign, varint |-> 1]
  <2>1. Altered(f, change) = Append(f, e) /\ e.tag = Foreign
    BY <1>5 DEF Altered
  <2> HIDE DEF e
  <2> QED BY <1>2, <1>3, <2>1 DEF Kin, Stems
<1>6. CASE change.kind = "left out" /\ change.at \in DOMAIN f
  <2> DEFINE i == change.at
             g == SubSeq(f, 1, i - 1)
             h == SubSeq(f, i + 1, n)
             S == Range(f)
  <2>1. i \in 1..n
    BY <1>1, <1>6
  <2>2. g \in Seq(S) /\ h \in Seq(S)
    <3>1. f \in Seq(S)
      BY <1>1
    <3> HIDE DEF S, i
    <3>2. \A j \in 1..n : f[j] \in S
      BY <1>1, <3>1
    <3>3. \A j \in 1..i - 1 : f[j] \in S
      BY <1>1, <2>1, <3>2
    <3>4. \A j \in i + 1..n : f[j] \in S
      BY <1>1, <2>1, <3>2
    <3>5. 1 \in Int /\ i - 1 \in Int /\ i + 1 \in Int /\ n \in Int
      BY <1>1, <2>1
    <3> QED BY <3>1, <3>3, <3>4, <3>5, <2>1, <1>1, SubSeqProperties
  <2> HIDE DEF i, g, h, S
  <2>3. g \o h \in Seq(S)
    BY <2>2
  <2>4. Range(g \o h) \subseteq S
    <3> DEFINE k == g \o h
    <3>1. k \in Seq(S)
      BY <2>3
    <3> HIDE DEF k
    <3>2. \A j \in DOMAIN k : k[j] \in S
      BY <3>1
    <3> QED BY <3>2 DEF Range, k
  <2>5. Altered(f, change) = g \o h
    BY <1>6 DEF Altered, RemoveAt, i, g, h, n
  <2> QED BY <1>2, <2>4, <2>5 DEF Kin, Stems, S
<1>7. CASE change.kind = "repeated" /\ change.at \in DOMAIN f
  <2>1. Altered(f, change) = Append(f, f[change.at]) /\ f[change.at] \in Range(f)
    BY <1>7 DEF Altered, Range
  <2> QED BY <1>2, <1>3, <2>1 DEF Kin, Stems
<1>8. CASE change.kind = "overridden" /\ change.at \in DOMAIN f /\ "varint" \in DOMAIN f[change.at]
  <2> DEFINE old == f[change.at]
             new == [old EXCEPT !.varint = @ + 1]
  <2>1. old \in Range(f) /\ "varint" \in DOMAIN old
    BY <1>8 DEF Range
  <2>2. "tag" \in DOMAIN old
    BY <1>8 DEF Tagged
  <2>3. new.tag = old.tag
    <3> HIDE DEF old
    <3> QED BY <2>2
  <2>4. Altered(f, change) = Append(f, new)
    BY <1>8 DEF Altered
  <2> HIDE DEF old, new
  <2> QED BY <1>2, <1>3, <2>1, <2>3, <2>4 DEF Kin, Stems
<1> QED BY <1>4, <1>5, <1>6, <1>7, <1>8

LEMMA AlteredWithinIsNear ==
  ASSUME NEW f, Tagged(f), NEW change,
         \/ change.kind = "unchanged"
         \/ change \in ChangesOf(f) \cup Within(f)
  PROVE  Near(AlteredWithin(f, change), f)
<1>1. CASE change.kind = "unchanged"
  BY <1>1, KinItself DEF AlteredWithin, Altered
<1>2. CASE change \in ChangesOf(f)
  <2>1. change.kind \in {"added", "left out", "repeated", "overridden"}
    BY <1>2 DEF ChangesOf
  <2>2. AlteredWithin(f, change) = Altered(f, change)
    BY <2>1 DEF AlteredWithin
  <2> QED BY <1>2, <2>2, AlteredIsKin, KinIsNear
<1>3. CASE change \in Within(f)
  <2>1. PICK i \in DOMAIN f : /\ "message" \in DOMAIN f[i]
                              /\ \E c \in ChangesOf(f[i].message) :
                                   change = [kind |-> "within", at |-> i, change |-> c]
    BY <1>3 DEF Within
  <2>2. PICK c \in ChangesOf(f[i].message) : change = [kind |-> "within", at |-> i, change |-> c]
    BY <2>1
  <2> DEFINE message == Altered(f[i].message, c)
             h == [f EXCEPT ![i].message = message]
  <2>3. AlteredWithin(f, change) = h
    BY <2>2 DEF AlteredWithin
  <2>4. Tagged(h)
    <3> HIDE DEF message
    <3> QED BY InnerIsTagged
  <2>5. Tagged(f[i].message) => Kin(message, f[i].message)
    BY <2>2, AlteredIsKin
  <2> HIDE DEF message
  <2>6. ASSUME NEW j \in DOMAIN f
        PROVE  h[j] = IF j = i THEN [f[i] EXCEPT !.message = message] ELSE f[j]
    OBVIOUS
  <2>7. DOMAIN h = DOMAIN f
    OBVIOUS
  <2> HIDE DEF h
  <2>8. "tag" \in DOMAIN f[i] /\ f[i] \in Range(f)
    BY DEF Tagged, Range
  <2>9. h[i].tag = f[i].tag /\ h[i].message = message
    BY <2>1, <2>6, <2>8
  <2>10. ASSUME NEW e \in Range(h), e # h[i] PROVE e \in Range(f)
    <3>1. PICK j \in DOMAIN f : e = h[j]
      BY <2>7 DEF Range
    <3>2. j # i
      BY <2>10, <3>1
    <3> QED BY <2>6, <3>1, <3>2 DEF Range
  <2> QED BY <2>1, <2>3, <2>4, <2>5, <2>8, <2>9, <2>10 DEF Near, Stems
<1> QED BY <1>1, <1>2, <1>3

-----------------------------------------------------------------------------
(* So what is read of it is what was sent, or nothing.                     *)

LEMMA FieldIsRead ==
  ASSUME NEW g, Tagged(g)
  PROVE  /\ \A i \in DOMAIN g : Number(g[i]) = g[i].tag
         /\ \A N : Places(g, N) # {} => /\ LastOf(g, N) \in Range(g) /\ LastOf(g, N).tag \in N
                                        /\ Number(LastOf(g, N)) = LastOf(g, N).tag
<1>1. \A i \in DOMAIN g : Number(g[i]) = g[i].tag
  BY FieldNumbersAssumption DEF Tagged, Number
<1>2. ASSUME NEW N, Places(g, N) # {}
      PROVE  /\ LastOf(g, N) \in Range(g) /\ LastOf(g, N).tag \in N
             /\ Number(LastOf(g, N)) = LastOf(g, N).tag
  <2>1. Len(g) \in Nat /\ DOMAIN g = 1..Len(g)
    BY TaggedFields
  <2>2. PICK last \in Places(g, N) : \A j \in Places(g, N) : j <= last
    BY <1>2, <2>1, LastThere
  <2>3. LastOf(g, N) = g[last]
    BY <2>1, <2>2, LastIs
  <2>4. last \in DOMAIN g /\ Number(g[last]) \in N
    BY DEF Places
  <2> QED BY <1>1, <2>3, <2>4 DEF Range
<1> QED BY <1>1, <1>2

\* A field of a number that only messages were sent under.
LEMMA OfMessages ==
  ASSUME NEW f, NEW g, Near(g, f), NEW n \in 1..13, NEW X, \A x \in X : Tagged(x),
         \A d \in Range(f) : d.tag = n => \E x \in X : d = [tag |-> n, message |-> x],
         NEW e \in Range(g), e.tag = n
  PROVE  \E x \in X : Kin(e.message, x)
<1>1. n # Foreign
  BY DEF Foreign
<1>2. ASSUME NEW d \in Range(f), d.tag = n
      PROVE  "varint" \notin DOMAIN d /\ d.message \in X
  BY <1>2
<1>3. \/ e \in Range(f)
      \/ \E d \in Range(f) : /\ "message" \in DOMAIN d /\ e.tag = d.tag
                             /\ Tagged(d.message) => Kin(e.message, d.message)
  BY <1>1, <1>2 DEF Near, Stems
<1> QED BY <1>2, <1>3, KinItself

\* One of a number that only bytes were sent under.
LEMMA OfBytes ==
  ASSUME NEW f, NEW g, Near(g, f), NEW n \in 1..13, NEW bytes,
         \A d \in Range(f) : d.tag = n => d = [tag |-> n, bytes |-> bytes],
         NEW e \in Range(g), e.tag = n
  PROVE  e = [tag |-> n, bytes |-> bytes]
<1>1. n # Foreign
  BY DEF Foreign
<1>2. \A d \in Range(f) : d.tag = n => "varint" \notin DOMAIN d /\ "message" \notin DOMAIN d
  <2> SUFFICES ASSUME NEW d \in Range(f), d.tag = n
               PROVE  "varint" \notin DOMAIN d /\ "message" \notin DOMAIN d
    OBVIOUS
  <2>1. d = [tag |-> n, bytes |-> bytes]
    OBVIOUS
  <2>2. DOMAIN [tag |-> n, bytes |-> bytes] = {"tag", "bytes"}
    OBVIOUS
  <2> QED BY <2>1, <2>2
<1> QED BY <1>1, <1>2 DEF Near, Stems

LEMMA BytesAreSent ==
  ASSUME NEW f, NEW g, Near(g, f), NEW n \in 1..13, NEW bytes,
         \A d \in Range(f) : d.tag = n => d = [tag |-> n, bytes |-> bytes]
  PROVE  ReadBytes(g, n) \in {NoBytes, bytes}
<1>1. CASE ~Present(g, n)
  BY <1>1 DEF ReadBytes
<1>2. CASE Present(g, n)
  <2> DEFINE e == LastOf(g, {n})
  <2>1. e \in Range(g) /\ e.tag = n
    BY <1>2, FieldIsRead DEF Near, Present
  <2>2. ReadBytes(g, n) = e.bytes
    BY <1>2 DEF ReadBytes
  <2> HIDE DEF e
  <2>3. e = [tag |-> n, bytes |-> bytes]
    BY <2>1, OfBytes
  <2> QED BY <2>2, <2>3
<1> QED BY <1>1, <1>2

\* A message in a message of which only one field has changed is whole.
LEMMA MessageIsSent ==
  ASSUME NEW f, NEW g, Kin(g, f), NEW n \in 1..13, NEW message,
         \A d \in Range(f) : d.tag = n => d = [tag |-> n, message |-> message], Present(g, n)
  PROVE  LastOf(g, {n}).message = message
<1> DEFINE e == LastOf(g, {n})
<1>1. e \in Range(g) /\ e.tag = n
  BY FieldIsRead DEF Kin, Present
<1> HIDE DEF e
<1>2. n # Foreign /\ \A d \in Range(f) : d.tag = n => "varint" \notin DOMAIN d
  <2> SUFFICES ASSUME NEW d \in Range(f), d.tag = n PROVE "varint" \notin DOMAIN d
    BY DEF Foreign
  <2>1. d = [tag |-> n, message |-> message]
    OBVIOUS
  <2>2. DOMAIN [tag |-> n, message |-> message] = {"tag", "message"}
    OBVIOUS
  <2> QED BY <2>1, <2>2
<1>3. e \in Range(f)
  BY <1>1, <1>2 DEF Kin, Stems
<1>4. e = [tag |-> n, message |-> message]
  BY <1>1, <1>3
<1> QED BY <1>4 DEF e

\* In a message of which something may have changed further down, it has changed itself.
LEMMA MessageIsKin ==
  ASSUME NEW f, NEW g, Near(g, f), NEW n \in 1..13, NEW message, Tagged(message),
         \A d \in Range(f) : d.tag = n => d = [tag |-> n, message |-> message], Present(g, n)
  PROVE  Kin(LastOf(g, {n}).message, message)
<1> DEFINE e == LastOf(g, {n})
           X == {message}
<1>1. e \in Range(g) /\ e.tag = n
  BY FieldIsRead DEF Near, Present
<1>2. \A d \in Range(f) : d.tag = n => \E x \in X : d = [tag |-> n, message |-> x]
  OBVIOUS
<1>3. \A x \in X : Tagged(x)
  OBVIOUS
<1> HIDE DEF e
<1>4. \E x \in X : Kin(e.message, x)
  <2> HIDE DEF X
  <2> QED BY <1>1, <1>2, <1>3, OfMessages, ZenonT(40)
<1> QED BY <1>4 DEF e

\* A position in a list is the position of one of its fields.
LEMMA EveryPlaceIsTaken ==
  ASSUME NEW n \in Nat, NEW S \in SUBSET (1..n), NEW k \in 1..Cardinality(S)
  PROVE  \E i \in S : Cardinality({j \in S : j <= i}) = k
<1> DEFINE upTo(i) == {j \in S : j <= i}
           places == 1..Cardinality(S)
           f == [i \in S |-> Cardinality(upTo(i))]
<1>1. IsFiniteSet(S) /\ Cardinality(S) \in Nat
  <2>1. IsFiniteSet(1..n)
    BY FS_Interval
  <2> QED BY <2>1, FS_Subset, FS_CardinalityType
<1>2. ASSUME NEW i \in S
      PROVE  /\ IsFiniteSet(upTo(i)) /\ Cardinality(upTo(i)) \in Nat
             /\ Cardinality(upTo(i)) <= Cardinality(S)
             /\ Cardinality(upTo(i)) >= 1
  <2>1. upTo(i) \in SUBSET S /\ i \in upTo(i)
    OBVIOUS
  <2> HIDE DEF upTo
  <2>2. /\ IsFiniteSet(upTo(i)) /\ Cardinality(upTo(i)) <= Cardinality(S)
        /\ Cardinality(upTo(i)) \in Nat
    BY <1>1, <2>1, FS_Subset, FS_CardinalityType
  <2>3. Cardinality(upTo(i)) # 0
    BY <2>1, <2>2, FS_EmptySet
  <2> QED BY <2>2, <2>3
<1>3. ASSUME NEW i \in S, NEW j \in S, i < j
      PROVE  Cardinality(upTo(i)) < Cardinality(upTo(j))
  <2>1. upTo(i) \in SUBSET upTo(j) /\ j \in upTo(j) /\ j \notin upTo(i)
    <3>1. i \in Nat /\ j \in Nat /\ \A m \in S : m \in Nat
      OBVIOUS
    <3>2. \A m \in S : m <= i => m <= j
      BY <1>3, <3>1
    <3>3. j <= j /\ ~(j <= i)
      BY <1>3, <3>1
    <3> QED BY <3>2, <3>3
  <2> HIDE DEF upTo
  <2>2. /\ Cardinality(upTo(i)) <= Cardinality(upTo(j))
        /\ Cardinality(upTo(i)) = Cardinality(upTo(j)) => upTo(i) = upTo(j)
    BY <1>2, <2>1, FS_Subset
  <2> QED BY <1>2, <2>1, <2>2
<1>4. f \in Injection(S, places)
  <2>1. f \in [S -> places]
    BY <1>1, <1>2
  <2>2. ASSUME NEW i \in S, NEW j \in S, f[i] = f[j] PROVE i = j
    <3>1. Cardinality(upTo(i)) = Cardinality(upTo(j)) /\ Cardinality(upTo(i)) \in Nat
      BY <1>2, <2>2
    <3> HIDE DEF upTo, f
    <3>2. ~(i < j) /\ ~(j < i)
      BY <1>2, <1>3, <3>1
    <3> QED BY <3>2
  <2> QED BY <2>1, <2>2 DEF Injection, IsInjective
<1>5. IsFiniteSet(places) /\ Cardinality(places) = Cardinality(S)
  <2> DEFINE c == Cardinality(S)
  <2>1. 1 \in Int /\ c \in Int /\ c >= 0
    BY <1>1
  <2> HIDE DEF c
  <2>2. IsFiniteSet(1..c) /\ Cardinality(1..c) = IF 1 > c THEN 0 ELSE c - 1 + 1
    BY <2>1, FS_Interval
  <2>3. Cardinality(1..c) = c
    BY <2>1, <2>2
  <2> QED BY <2>2, <2>3 DEF c
<1>6. k \in places
  OBVIOUS
<1> HIDE DEF f, places
<1>7. f \in Surjection(S, places)
  BY <1>1, <1>4, <1>5, FS_Injection
<1>8. PICK i \in S : f[i] = k
  BY <1>6, <1>7 DEF Surjection
<1> QED BY <1>8 DEF f

LEMMA ItemIsAField ==
  ASSUME NEW g, Tagged(g), NEW n, NEW k \in 1..Cardinality(Places(g, {n}))
  PROVE  LET e == g[ItemAt(Places(g, {n}), k)] IN e \in Range(g) /\ e.tag = n
<1> DEFINE places == Places(g, {n})
<1>1. Len(g) \in Nat /\ DOMAIN g = 1..Len(g)
  BY TaggedFields
<1>2. places \in SUBSET (1..Len(g))
  BY <1>1 DEF Places
<1> HIDE DEF places
<1>3. \E i \in places : Cardinality({j \in places : j <= i}) = k
  BY <1>1, <1>2, EveryPlaceIsTaken DEF places
<1>4. ItemAt(places, k) \in places
  BY <1>3 DEF ItemAt
<1>5. ItemAt(places, k) \in DOMAIN g /\ Number(g[ItemAt(places, k)]) = n
  BY <1>4 DEF places, Places
<1> QED BY <1>5, FieldIsRead DEF Range, places

-----------------------------------------------------------------------------
(* What the messages with keys in them send under which number.            *)

\* Numbered fields, of which those of number n are all this one.
Only(f, n, e) == Tagged(f) /\ \A d \in Range(f) : d.tag = n => d = e

LEMMA OnlyBoth ==
  ASSUME NEW f, NEW g, NEW n, NEW e, Only(f, n, e), Only(g, n, e)
  PROVE  Only(f \o g, n, e)
BY RangeBoth DEF Only

LEMMA OnlyNone == \A n, e : Only(<<>>, n, e)
BY TaggedNone, RangeOfOne DEF Only

\* What one field is.
BytesField(n, v) == [tag |-> n, bytes |-> v]

MessageField(n, x) == [tag |-> n, message |-> x]

\* A message that may be missing.
OneOrNone(n, x) == {<<>>, << MessageField(n, x) >>}

LEMMA OnlyOthers ==
  ASSUME NEW n, NEW k \in 1..14, k # n, NEW v, NEW e
  PROVE  Only(Varint(k, v), n, e) /\ Only(Bytes(k, v), n, e)
<1>1. Tagged(Varint(k, v)) /\ Tagged(Bytes(k, v))
  BY TaggedPieces
<1>2. /\ Range(Varint(k, v)) \subseteq {[tag |-> k, varint |-> v]}
      /\ Range(Bytes(k, v)) \subseteq {[tag |-> k, bytes |-> v]}
  BY RangeOfPiece
<1>3. [tag |-> k, varint |-> v].tag = k /\ [tag |-> k, bytes |-> v].tag = k
  OBVIOUS
<1> QED BY <1>1, <1>2, <1>3 DEF Only

LEMMA OnlyBytes ==
  ASSUME NEW n \in 1..14, NEW v
  PROVE  Only(Bytes(n, v), n, BytesField(n, v))
<1>1. Tagged(Bytes(n, v))
  BY TaggedPieces
<1>2. Range(Bytes(n, v)) \subseteq {BytesField(n, v)}
  BY RangeOfPiece DEF BytesField
<1> QED BY <1>1, <1>2 DEF Only

LEMMA OnlyMessage ==
  ASSUME NEW n \in 1..14, NEW k \in 1..14, NEW x, NEW f \in OneOrNone(k, x), NEW e
  PROVE  /\ k # n => Only(f, n, e)
         /\ k = n => Only(f, n, MessageField(n, x))
<1> DEFINE one == <<[tag |-> k, message |-> x]>>
<1>1. Tagged(one) /\ Range(one) = {[tag |-> k, message |-> x]}
  BY TaggedPieces, RangeOfPiece
<1>2. f = <<>> \/ f = one
  BY DEF OneOrNone, MessageField
<1>3. [tag |-> k, message |-> x].tag = k
  OBVIOUS
<1> HIDE DEF one
<1> QED BY <1>1, <1>2, <1>3, OnlyNone DEF Only, MessageField

LEMMA AmountIsSent ==
  ASSUME NEW m
  PROVE  Only(EncodeTransferAmount(m), 1, BytesField(1, m.pubkey))
<1> DEFINE e == BytesField(1, m.pubkey)
<1>1. /\ Only(Bytes(1, m.pubkey), 1, e) /\ Only(Varint(2, m.amount), 1, e)
      /\ Only(Bytes(3, m.community_uuid), 1, e)
  BY OnlyOthers, OnlyBytes
<1> HIDE DEF e
<1>2. Only(Bytes(1, m.pubkey) \o Varint(2, m.amount), 1, e)
  BY <1>1, OnlyBoth
<1>3. Only(EncodeTransferAmount(m), 1, e)
  BY <1>1, <1>2, OnlyBoth DEF EncodeTransferAmount
<1> QED BY <1>3 DEF e

LEMMA BalanceIsSent ==
  ASSUME NEW m
  PROVE  Only(EncodeAccountBalance(m), 1, BytesField(1, m.pubkey))
<1> DEFINE e == BytesField(1, m.pubkey)
<1>1. /\ Only(Bytes(1, m.pubkey), 1, e) /\ Only(Varint(2, m.balance), 1, e)
      /\ Only(Bytes(3, m.community_uuid), 1, e)
  BY OnlyOthers, OnlyBytes
<1> HIDE DEF e
<1>2. Only(Bytes(1, m.pubkey) \o Varint(2, m.balance), 1, e)
  BY <1>1, OnlyBoth
<1>3. Only(EncodeAccountBalance(m), 1, e)
  BY <1>1, <1>2, OnlyBoth DEF EncodeAccountBalance
<1> QED BY <1>3 DEF e

LEMMA TransferIsSent ==
  ASSUME NEW m
  PROVE  /\ Only(EncodeTransfer(m), 1, MessageField(1, EncodeTransferAmount(m.sender)))
         /\ Only(EncodeTransfer(m), 2, BytesField(2, m.recipient))
<1> DEFINE f == Message(1, m.sender, EncodeTransferAmount)
           g == Bytes(2, m.recipient)
           sender == MessageField(1, EncodeTransferAmount(m.sender))
           recipient == BytesField(2, m.recipient)
<1>1. f \in OneOrNone(1, EncodeTransferAmount(m.sender))
  BY DEF Message, MessageAlways, OneOrNone, MessageField
<1> HIDE DEF f
<1>2. Only(f, 1, sender) /\ Only(f, 2, recipient)
  <2>1. Only(f, 1, sender)
    BY <1>1, OnlyMessage
  <2> HIDE DEF recipient
  <2>2. Only(f, 2, recipient)
    BY <1>1, OnlyMessage
  <2> QED BY <2>1, <2>2
<1>3. Only(g, 1, sender) /\ Only(g, 2, recipient)
  <2> HIDE DEF sender
  <2>1. Only(g, 1, sender)
    BY OnlyOthers
  <2>2. Only(g, 2, recipient)
    BY OnlyBytes
  <2> QED BY <2>1, <2>2
<1>4. EncodeTransfer(m) = f \o g
  BY DEF EncodeTransfer, f
<1> HIDE DEF g, sender, recipient
<1>5. Only(f \o g, 1, sender) /\ Only(f \o g, 2, recipient)
  BY <1>2, <1>3, OnlyBoth
<1> QED BY <1>4, <1>5 DEF sender, recipient

LEMMA CreationIsSent ==
  ASSUME NEW m
  PROVE  Only(EncodeCreation(m), 1, MessageField(1, EncodeTransferAmount(m.recipient)))
<1> DEFINE f == Message(1, m.recipient, EncodeTransferAmount)
           g == Message(3, m.target_date, EncodeTimestampSeconds)
           e == MessageField(1, EncodeTransferAmount(m.recipient))
<1>1. /\ f \in OneOrNone(1, EncodeTransferAmount(m.recipient))
      /\ g \in OneOrNone(3, EncodeTimestampSeconds(m.target_date))
  BY DEF Message, MessageAlways, OneOrNone, MessageField
<1>2. EncodeCreation(m) = f \o g
  BY DEF EncodeCreation
<1> HIDE DEF f, g
<1>3. Only(f, 1, e) /\ Only(g, 1, e)
  BY <1>1, OnlyMessage
<1> HIDE DEF e
<1>4. Only(f \o g, 1, e)
  BY <1>3, OnlyBoth
<1> QED BY <1>2, <1>4 DEF e

LEMMA DeferredTransferIsSent ==
  ASSUME NEW m
  PROVE  Only(EncodeDeferredTransfer(m), 1, MessageField(1, EncodeTransfer(m.transfer)))
<1> DEFINE f == Message(1, m.transfer, EncodeTransfer)
           g == Message(2, m.timeout_duration, EncodeDurationSeconds)
           e == MessageField(1, EncodeTransfer(m.transfer))
<1>1. /\ f \in OneOrNone(1, EncodeTransfer(m.transfer))
      /\ g \in OneOrNone(2, EncodeDurationSeconds(m.timeout_duration))
  BY DEF Message, MessageAlways, OneOrNone, MessageField
<1>2. EncodeDeferredTransfer(m) = f \o g
  BY DEF EncodeDeferredTransfer
<1> HIDE DEF f, g
<1>3. Only(f, 1, e) /\ Only(g, 1, e)
  BY <1>1, OnlyMessage
<1> HIDE DEF e
<1>4. Only(f \o g, 1, e)
  BY <1>3, OnlyBoth
<1> QED BY <1>2, <1>4 DEF e

LEMMA RedeemDeferredTransferIsSent ==
  ASSUME NEW m
  PROVE  Only(EncodeRedeemDeferredTransfer(m), 2,
              MessageField(2, EncodeTransfer(m.transfer)))
<1> DEFINE f == Varint(1, m.deferred_transfer_transaction_nr)
           g == Message(2, m.transfer, EncodeTransfer)
           e == MessageField(2, EncodeTransfer(m.transfer))
<1>1. g \in OneOrNone(2, EncodeTransfer(m.transfer))
  BY DEF Message, MessageAlways, OneOrNone, MessageField
<1>2. EncodeRedeemDeferredTransfer(m) = f \o g
  BY DEF EncodeRedeemDeferredTransfer
<1>3. Only(f, 2, e)
  BY OnlyOthers, OnlyBytes
<1> HIDE DEF f, g
<1>4. Only(g, 2, e)
  BY <1>1, OnlyMessage
<1> HIDE DEF e
<1>5. Only(f \o g, 2, e)
  BY <1>3, <1>4, OnlyBoth
<1> QED BY <1>2, <1>5 DEF e

LEMMA CommunityRootIsSent ==
  ASSUME NEW m
  PROVE  /\ Only(EncodeCommunityRoot(m), 1, BytesField(1, m.pubkey))
         /\ Only(EncodeCommunityRoot(m), 2, BytesField(2, m.gmw_pubkey))
         /\ Only(EncodeCommunityRoot(m), 3, BytesField(3, m.auf_pubkey))
<1> DEFINE f1 == Bytes(1, m.pubkey)
           f2 == Bytes(2, m.gmw_pubkey)
           f3 == Bytes(3, m.auf_pubkey)
           e1 == BytesField(1, m.pubkey)
           e2 == BytesField(2, m.gmw_pubkey)
           e3 == BytesField(3, m.auf_pubkey)
<1>1. /\ Only(f1, 1, e1) /\ Only(f1, 2, e2) /\ Only(f1, 3, e3)
      /\ Only(f2, 1, e1) /\ Only(f2, 2, e2) /\ Only(f2, 3, e3)
      /\ Only(f3, 1, e1) /\ Only(f3, 2, e2) /\ Only(f3, 3, e3)
  BY OnlyOthers, OnlyBytes
<1>2. EncodeCommunityRoot(m) = f1 \o f2 \o f3
  BY DEF EncodeCommunityRoot
<1> HIDE DEF f1, f2, f3, e1, e2, e3
<1>3. Only(f1 \o f2, 1, e1) /\ Only(f1 \o f2, 2, e2) /\ Only(f1 \o f2, 3, e3)
  BY <1>1, OnlyBoth
<1>4. /\ Only(f1 \o f2 \o f3, 1, e1) /\ Only(f1 \o f2 \o f3, 2, e2)
      /\ Only(f1 \o f2 \o f3, 3, e3)
  BY <1>1, <1>3, OnlyBoth
<1> QED BY <1>2, <1>4 DEF e1, e2, e3

LEMMA RegisterAddressIsSent ==
  ASSUME NEW m
  PROVE  /\ Only(EncodeRegisterAddress(m), 1, BytesField(1, m.user_pubkey))
         /\ Only(EncodeRegisterAddress(m), 3, BytesField(3, m.name_hash))
         /\ Only(EncodeRegisterAddress(m), 4, BytesField(4, m.account_pubkey))
<1> DEFINE f1 == Bytes(1, m.user_pubkey)
           f2 == Varint(2, m.address_type)
           f3 == Bytes(3, m.name_hash)
           f4 == Bytes(4, m.account_pubkey)
           f5 == Varint(5, m.derivation_index)
           e1 == BytesField(1, m.user_pubkey)
           e3 == BytesField(3, m.name_hash)
           e4 == BytesField(4, m.account_pubkey)
<1>1. /\ Only(f1, 1, e1) /\ Only(f1, 3, e3) /\ Only(f1, 4, e4)
      /\ Only(f2, 1, e1) /\ Only(f2, 3, e3) /\ Only(f2, 4, e4)
      /\ Only(f3, 1, e1) /\ Only(f3, 3, e3) /\ Only(f3, 4, e4)
  <2>1. Only(f1, 1, e1) /\ Only(f3, 3, e3)
    BY OnlyBytes
  <2>2. /\ \A n, e : n # 1 => Only(f1, n, e)
        /\ \A n, e : n # 2 => Only(f2, n, e)
        /\ \A n, e : n # 3 => Only(f3, n, e)
    <3>1. 1 \in 1..14 /\ 2 \in 1..14 /\ 3 \in 1..14
      OBVIOUS
    <3> QED BY <3>1, OnlyOthers
  <2> QED BY <2>1, <2>2
<1>2. Only(f4, 1, e1) /\ Only(f4, 3, e3) /\ Only(f4, 4, e4)
  <2>1. Only(f4, 4, e4)
    BY OnlyBytes
  <2>2. \A n, e : n # 4 => Only(f4, n, e)
    <3>1. 4 \in 1..14
      OBVIOUS
    <3> QED BY <3>1, OnlyOthers
  <2> QED BY <2>1, <2>2
<1>8. Only(f5, 1, e1) /\ Only(f5, 3, e3) /\ Only(f5, 4, e4)
  <2>1. \A n, e : n # 5 => Only(f5, n, e)
    <3>1. 5 \in 1..14
      OBVIOUS
    <3> QED BY <3>1, OnlyOthers
  <2> QED BY <2>1
<1>3. EncodeRegisterAddress(m) = f1 \o f2 \o f3 \o f4 \o f5
  BY DEF EncodeRegisterAddress
<1> HIDE DEF f1, f2, f3, f4, f5, e1, e3, e4
<1> DEFINE g2 == f1 \o f2
           g3 == g2 \o f3
           g4 == g3 \o f4
           g5 == g4 \o f5
<1>4. Only(g2, 1, e1) /\ Only(g2, 3, e3) /\ Only(g2, 4, e4)
  BY <1>1, OnlyBoth
<1> HIDE DEF g2
<1>5. Only(g3, 1, e1) /\ Only(g3, 3, e3) /\ Only(g3, 4, e4)
  BY <1>1, <1>4, OnlyBoth
<1> HIDE DEF g3
<1>6. Only(g4, 1, e1) /\ Only(g4, 3, e3) /\ Only(g4, 4, e4)
  BY <1>2, <1>5, OnlyBoth
<1> HIDE DEF g4
<1>7. Only(g5, 1, e1) /\ Only(g5, 3, e3) /\ Only(g5, 4, e4)
  BY <1>8, <1>6, OnlyBoth
<1> QED BY <1>3, <1>7 DEF e1, e3, e4, g2, g3, g4, g5

Listing(b, k, x, m) == b = [i \in 1..m |-> MessageField(k, x[i])]

\* The items of a list all have its number.
LEMMA ListIsSent ==
  ASSUME NEW k \in 1..14, NEW m \in Nat, NEW x, NEW b, Listing(b, k, x, m)
  PROVE  /\ Tagged(b)
         /\ \A d \in Range(b) : d.tag = k /\ \E i \in 1..m : d = MessageField(k, x[i])
         /\ \A n, e : n # k => Only(b, n, e)
<1> DEFINE S == {MessageField(k, x[i]) : i \in 1..m}
<1>1. b \in [1..m -> S]
  BY DEF Listing
<1>2. \A d \in S : "tag" \in DOMAIN d /\ d.tag = k /\ \E i \in 1..m : d = MessageField(k, x[i])
  BY DEF MessageField
<1> HIDE DEF S
<1>3. b \in Seq(S) /\ Range(b) \subseteq S
  BY <1>1 DEF Range
<1>4. Tagged(b)
  <2>1. k \in 0..FieldNumbers - 1
    BY FieldNumbersAssumption
  <2> QED BY <1>2, <1>3, <2>1, TaggedOf
<1>5. \A n, e : n # k => Only(b, n, e)
  BY <1>2, <1>3, <1>4 DEF Only
<1> QED BY <1>2, <1>3, <1>4, <1>5

LEMMA BodyIsSent ==
  ASSUME NEW m, NEW k \in Nat, DOMAIN m.memos = 1..k, NEW n \in Specific, NEW e,
         Only(EncodeSpecific(m.data), n, e)
  PROVE  Only(EncodeTransactionBody(m), n, e)
<1> DEFINE f1 == EncodeSpecific(m.data)
           f2 == Repeated(1, m.memos, EncodeEncryptedMemo)
           f3 == Message(2, m.created_at, EncodeTimestamp)
           f4 == Varint(3, m.version_number)
           f5 == Varint(4, m.type)
           f6 == Bytes(5, m.other_community_uuid)
<1>1. n \in 1..14 /\ n \notin 1..5
  BY DEF Specific
<1>2. Only(f2, n, e)
  <2> DEFINE x == [i \in 1..k |-> EncodeEncryptedMemo(m.memos[i])]
  <2>1. Listing(f2, 1, x, k)
    BY DEF Listing, Repeated, MessageField
  <2> HIDE DEF x, f2
  <2>2. n # 1 /\ 1 \in 1..14
    BY <1>1
  <2> QED BY <2>1, <2>2, ListIsSent
<1>3. Only(f3, n, e)
  <2>1. f3 \in OneOrNone(2, EncodeTimestamp(m.created_at))
    BY DEF Message, MessageAlways, OneOrNone, MessageField
  <2> HIDE DEF f3
  <2>2. n # 2 /\ 2 \in 1..14
    BY <1>1
  <2> QED BY <1>1, <2>1, <2>2, OnlyMessage
<1>4. Only(f4, n, e) /\ Only(f5, n, e) /\ Only(f6, n, e)
  <2>1. n # 3 /\ n # 4 /\ n # 5 /\ 3 \in 1..14 /\ 4 \in 1..14 /\ 5 \in 1..14
    BY <1>1
  <2> QED BY <2>1, OnlyOthers
<1>5. EncodeTransactionBody(m) = f1 \o f2 \o f3 \o f4 \o f5 \o f6
  BY DEF EncodeTransactionBody
<1>6. Only(f1, n, e)
  OBVIOUS
<1> HIDE DEF f1, f2, f3, f4, f5, f6
<1>7. Only(f1 \o f2, n, e)
  BY <1>2, <1>6, OnlyBoth
<1>8. Only(f1 \o f2 \o f3, n, e)
  BY <1>3, <1>7, OnlyBoth
<1>9. Only(f1 \o f2 \o f3 \o f4, n, e)
  BY <1>4, <1>8, OnlyBoth
<1>10. Only(f1 \o f2 \o f3 \o f4 \o f5, n, e)
  BY <1>4, <1>9, OnlyBoth
<1>11. Only(f1 \o f2 \o f3 \o f4 \o f5 \o f6, n, e)
  BY <1>4, <1>10, OnlyBoth
<1> QED BY <1>5, <1>11

LEMMA SignedIsSent ==
  ASSUME NEW m
  PROVE  LET f == EncodeGradidoTransaction(m)
         IN  /\ Only(f, 1, MessageField(1, EncodeSignatureMap(m.sig_map)))
             /\ Only(f, 2, BytesField(2, m.body_bytes))
             /\ m.sig_map = NULL => \A e : Only(f, 1, e)
             /\ m.body_bytes.size # 0 => BytesField(2, m.body_bytes) \in Range(f)
<1> DEFINE f1 == Message(1, m.sig_map, EncodeSignatureMap)
           f2 == Bytes(2, m.body_bytes)
           f3 == Message(3, m.pairing_ledger_anchor, EncodeLedgerAnchor)
           e1 == MessageField(1, EncodeSignatureMap(m.sig_map))
           e2 == BytesField(2, m.body_bytes)
<1>1. /\ f1 \in OneOrNone(1, EncodeSignatureMap(m.sig_map))
      /\ f3 \in OneOrNone(3, EncodeLedgerAnchor(m.pairing_ledger_anchor))
  BY DEF Message, MessageAlways, OneOrNone, MessageField
<1>2. EncodeGradidoTransaction(m) = f1 \o f2 \o f3
  BY DEF EncodeGradidoTransaction
<1>3. Only(f2, 2, e2)
  BY OnlyBytes
<1>4. \A n, e : n # 2 => Only(f2, n, e)
  <2>1. 2 \in 1..14
    OBVIOUS
  <2> QED BY <2>1, OnlyOthers
<1> HIDE DEF f1, f2, f3
<1>5. Only(f1, 1, e1)
  BY <1>1, OnlyMessage
<1> HIDE DEF e1, e2
<1>6. Only(f1, 2, e2) /\ Only(f3, 1, e1) /\ Only(f3, 2, e2)
  BY <1>1, OnlyMessage
<1>7. Only(f1 \o f2, 1, e1) /\ Only(f1 \o f2, 2, e2)
  BY <1>3, <1>4, <1>5, <1>6, OnlyBoth
<1>8. Only(f1 \o f2 \o f3, 1, e1) /\ Only(f1 \o f2 \o f3, 2, e2)
  BY <1>6, <1>7, OnlyBoth
<1>9. ASSUME m.sig_map = NULL, NEW e PROVE Only(f1 \o f2 \o f3, 1, e)
  <2>1. f1 = <<>>
    BY <1>9 DEF f1, Message
  <2>2. Only(f1, 1, e) /\ Only(f2, 1, e) /\ Only(f3, 1, e)
    BY <1>1, <1>4, <2>1, OnlyNone, OnlyMessage
  <2>3. Only(f1 \o f2, 1, e)
    BY <2>2, OnlyBoth
  <2> QED BY <2>2, <2>3, OnlyBoth
<1>10. ASSUME m.body_bytes.size # 0 PROVE e2 \in Range(f1 \o f2 \o f3)
  <2>1. Range(f2) = {e2}
    BY <1>10, RangeOfOne DEF f2, e2, Bytes, BytesAlways, BytesField
  <2>2. Tagged(f1) /\ Tagged(f2) /\ Tagged(f3)
    BY <1>3, <1>5, <1>6 DEF Only
  <2>3. Tagged(f1 \o f2) /\ Range(f1 \o f2) = Range(f1) \cup Range(f2)
    BY <2>2, RangeBoth
  <2>4. Range(f1 \o f2 \o f3) = Range(f1 \o f2) \cup Range(f3)
    BY <2>2, <2>3, RangeBoth
  <2> QED BY <2>1, <2>3, <2>4
<1> QED BY <1>2, <1>8, <1>9, <1>10 DEF e1, e2

\* The fields of a message that has these numbers and no other.
LEMMA ConfirmedIsSent ==
  ASSUME NEW m, NEW k \in Nat, DOMAIN m.account_balances = 1..k
  PROVE  LET f == EncodeConfirmedTransaction(m)
         IN  /\ Only(f, 2, MessageField(2, EncodeGradidoTransaction(m.transaction)))
             /\ Only(f, 5, BytesField(5, m.running_hash))
             /\ \A d \in Range(f) : d.tag = 7 =>
                  \E i \in 1..k : d = MessageField(7, EncodeAccountBalance(m.account_balances[i]))
             /\ m.transaction # NULL =>
                  MessageField(2, EncodeGradidoTransaction(m.transaction)) \in Range(f)
<1> DEFINE f1 == Varint(1, m.id)
           f2 == Message(2, m.transaction, EncodeGradidoTransaction)
           f3 == Message(3, m.confirmed_at, EncodeTimestamp)
           f4 == Varint(4, m.version_number)
           f5 == Bytes(5, m.running_hash)
           f6 == Message(6, m.ledger_anchor, EncodeLedgerAnchor)
           f7 == Repeated(7, m.account_balances, EncodeAccountBalance)
           x == [i \in 1..k |-> EncodeAccountBalance(m.account_balances[i])]
           t == EncodeGradidoTransaction(m.transaction)
           e2 == MessageField(2, t)
           e5 == BytesField(5, m.running_hash)
<1>1. /\ f2 \in OneOrNone(2, t)
      /\ f3 \in OneOrNone(3, EncodeTimestamp(m.confirmed_at))
      /\ f6 \in OneOrNone(6, EncodeLedgerAnchor(m.ledger_anchor))
      /\ m.transaction # NULL => Range(f2) = {e2}
  BY RangeOfOne DEF Message, MessageAlways, OneOrNone, MessageField
<1>2. EncodeConfirmedTransaction(m) = f1 \o f2 \o f3 \o f4 \o f5 \o f6 \o f7
  BY DEF EncodeConfirmedTransaction
<1>3. Listing(f7, 7, x, k)
  BY DEF Listing, Repeated, MessageField
<1>4. \A i \in 1..k : x[i] = EncodeAccountBalance(m.account_balances[i])
  OBVIOUS
<1>5. Only(f5, 5, e5)
  BY OnlyBytes
<1>6. /\ \A n, e : n # 1 => Only(f1, n, e)
      /\ \A n, e : n # 4 => Only(f4, n, e)
      /\ \A n, e : n # 5 => Only(f5, n, e)
  <2>1. 1 \in 1..14 /\ 4 \in 1..14 /\ 5 \in 1..14
    OBVIOUS
  <2> QED BY <2>1, OnlyOthers
<1> HIDE DEF f1, f2, f3, f4, f5, f6, f7, x, t
<1>7. /\ Tagged(f7) /\ \A n, e : n # 7 => Only(f7, n, e)
      /\ \A d \in Range(f7) : \E i \in 1..k : d = MessageField(7, x[i])
  <2>1. 7 \in 1..14
    OBVIOUS
  <2> QED BY <1>3, <2>1, ListIsSent
<1>8. Only(f2, 2, e2)
  BY <1>1, OnlyMessage
<1>9. /\ \A n \in 1..7 : \A e : n # 2 => Only(f2, n, e)
      /\ \A n \in 1..7 : \A e : n # 3 => Only(f3, n, e)
      /\ \A n \in 1..7 : \A e : n # 6 => Only(f6, n, e)
  BY <1>1, OnlyMessage
<1> HIDE DEF e2, e5
<1> DEFINE h == f1 \o f2 \o f3 \o f4 \o f5 \o f6
<1>10. ASSUME NEW n, NEW e, Only(f1, n, e), Only(f2, n, e), Only(f3, n, e), Only(f4, n, e),
              Only(f5, n, e), Only(f6, n, e)
       PROVE  Only(h, n, e)
  <2>1. Only(f1 \o f2, n, e)
    BY <1>10, OnlyBoth
  <2>2. Only(f1 \o f2 \o f3, n, e)
    BY <1>10, <2>1, OnlyBoth
  <2>3. Only(f1 \o f2 \o f3 \o f4, n, e)
    BY <1>10, <2>2, OnlyBoth
  <2>4. Only(f1 \o f2 \o f3 \o f4 \o f5, n, e)
    BY <1>10, <2>3, OnlyBoth
  <2> QED BY <1>10, <2>4, OnlyBoth
<1>11. Tagged(h) /\ Range(f2) \subseteq Range(h)
  <2>1. Tagged(f1) /\ Tagged(f2) /\ Tagged(f3) /\ Tagged(f4) /\ Tagged(f5) /\ Tagged(f6)
    <3>1. /\ Only(f1, 7, 0) /\ Only(f2, 7, 0) /\ Only(f3, 7, 0)
          /\ Only(f4, 7, 0) /\ Only(f5, 7, 0) /\ Only(f6, 7, 0)
      BY <1>6, <1>9
    <3> QED BY <3>1 DEF Only
  <2>2. Tagged(f1 \o f2) /\ Range(f2) \subseteq Range(f1 \o f2)
    BY <2>1, RangeBoth
  <2>3. Tagged(f1 \o f2 \o f3) /\ Range(f2) \subseteq Range(f1 \o f2 \o f3)
    BY <2>1, <2>2, RangeBoth
  <2>4. Tagged(f1 \o f2 \o f3 \o f4) /\ Range(f2) \subseteq Range(f1 \o f2 \o f3 \o f4)
    BY <2>1, <2>3, RangeBoth
  <2>5. Tagged(f1 \o f2 \o f3 \o f4 \o f5) /\ Range(f2) \subseteq Range(f1 \o f2 \o f3 \o f4 \o f5)
    BY <2>1, <2>4, RangeBoth
  <2> QED BY <2>1, <2>5, RangeBoth
<1>12. Only(h, 2, e2) /\ Only(h, 5, e5) /\ \A e : Only(h, 7, e)
  BY <1>5, <1>6, <1>8, <1>9, <1>10
<1> HIDE DEF h
<1>13. Only(h \o f7, 2, e2) /\ Only(h \o f7, 5, e5)
  BY <1>7, <1>12, OnlyBoth
<1>14. Range(h \o f7) = Range(h) \cup Range(f7)
  BY <1>7, <1>11, RangeBoth
<1>15. ASSUME NEW d \in Range(h \o f7), d.tag = 7
       PROVE  \E i \in 1..k : d = MessageField(7, x[i])
  <2>1. d \notin Range(h)
    <3>1. d \in Range(h) => d = 0 /\ d = 1
      BY <1>12, <1>15 DEF Only
    <3> QED BY <3>1
  <2> QED BY <1>7, <1>14, <2>1
<1>16. m.transaction # NULL => e2 \in Range(h \o f7)
  BY <1>1, <1>11, <1>14 DEF e2
<1> QED BY <1>2, <1>4, <1>13, <1>15, <1>16 DEF e2, e5, t, h

-----------------------------------------------------------------------------
(* A key is the one that was sent, or it is missing and refused.           *)

LEMMA KeptBytes ==
  ASSUME NEW f, NEW g, Near(g, f), NEW n \in 1..13, NEW bytes, Only(f, n, BytesField(n, bytes))
  PROVE  ReadBytes(g, n) \in {NoBytes, bytes}
<1>1. \A d \in Range(f) : d.tag = n => d = [tag |-> n, bytes |-> bytes]
  BY DEF Only, BytesField
<1> QED BY <1>1, BytesAreSent

LEMMA KeptKey ==
  ASSUME NEW f, NEW g, Near(g, f), NEW n \in 1..13, NEW size, size # 0, NEW key,
         Only(f, n, BytesField(n, BytesOf(size, key))), ReadBytes(g, n).size = size
  PROVE  ReadBytes(g, n).data = key
<1>1. ReadBytes(g, n) \in {NoBytes, BytesOf(size, key)}
  BY KeptBytes
<1>2. NoBytes.size = 0 /\ BytesOf(size, key).data = key
  BY DEF NoBytes, BytesOf
<1> QED BY <1>1, <1>2

\* A message in a message of which only one field has changed.
LEMMA KeptMessage ==
  ASSUME NEW f, NEW g, Kin(g, f), NEW n \in 1..13, NEW x, Only(f, n, MessageField(n, x)),
         Present(g, n)
  PROVE  LastOf(g, {n}).message = x
<1>1. \A d \in Range(f) : d.tag = n => d = [tag |-> n, message |-> x]
  BY DEF Only, MessageField
<1> QED BY <1>1, MessageIsSent

LEMMA KeptKin ==
  ASSUME NEW f, NEW g, Near(g, f), NEW n \in 1..13, NEW x, Tagged(x), Only(f, n, MessageField(n, x)),
         Present(g, n)
  PROVE  Kin(LastOf(g, {n}).message, x)
<1>1. \A d \in Range(f) : d.tag = n => d = [tag |-> n, message |-> x]
  BY DEF Only, MessageField
<1> QED BY <1>1, MessageIsKin

LEMMA AmountKept ==
  ASSUME NEW m, NEW g, Near(g, EncodeTransferAmount(m)), NEW key, m.pubkey = BytesOf(KeySize, key),
         TransferAmountFromPbtools(DecodeTransferAmount(g)).result = "SUCCESS"
  PROVE  TransferAmountFromPbtools(DecodeTransferAmount(g)).value.pubkey = key
<1> DEFINE pb == DecodeTransferAmount(g)
           uuid == CommunityUuidFromPbtools(pb.community_uuid)
<1>1. /\ pb # NULL /\ pb.pubkey.size = KeySize
      /\ TransferAmountFromPbtools(pb).value.pubkey = pb.pubkey.data
  <2> HIDE DEF pb
  <2> QED BY DEF TransferAmountFromPbtools, NotNull, Then, Success, Failure, pb
<1>2. pb.pubkey = ReadBytes(g, 1)
  BY DEF DecodeTransferAmount
<1> HIDE DEF pb
<1>3. ReadBytes(g, 1).data = key
  <2> DEFINE f == EncodeTransferAmount(m)
  <2>1. Only(f, 1, BytesField(1, BytesOf(KeySize, key)))
    BY AmountIsSent
  <2>2. Near(g, f) /\ ReadBytes(g, 1).size = KeySize
    BY <1>1, <1>2
  <2> HIDE DEF f
  <2> QED BY <2>1, <2>2, KeptKey DEF KeySize
<1> QED BY <1>1, <1>2, <1>3 DEF pb

LEMMA TransferKept ==
  ASSUME NEW m, NEW g, Kin(g, EncodeTransfer(m)), NEW a, NEW b,
         m.sender.pubkey = BytesOf(KeySize, a), m.recipient = BytesOf(KeySize, b),
         GradidoTransferFromPbtools(DecodeTransfer(g)).result = "SUCCESS"
  PROVE  LET made == GradidoTransferFromPbtools(DecodeTransfer(g)).value
         IN  made.sender.pubkey = a /\ made.recipient = b
<1> DEFINE pb == DecodeTransfer(g)
           sender == TransferAmountFromPbtools(pb.sender)
           f == EncodeTransfer(m)
<1>1. /\ pb.recipient.size = KeySize /\ sender.result = "SUCCESS"
      /\ GradidoTransferFromPbtools(pb).value = [sender |-> sender.value, recipient |-> pb.recipient.data]
  <2> HIDE DEF pb
  <2> QED BY DEF GradidoTransferFromPbtools, NotNull, Then, Success, Failure, pb
<1>2. /\ pb.recipient = ReadBytes(g, 2)
      /\ pb.sender = ReadMessage(g, 1, DecodeTransferAmount)
  BY DEF DecodeTransfer
<1>3. /\ Only(f, 1, MessageField(1, EncodeTransferAmount(m.sender)))
      /\ Only(f, 2, BytesField(2, BytesOf(KeySize, b)))
  BY TransferIsSent
<1>4. Kin(g, f) /\ Near(g, f)
  BY KinIsNear
<1> HIDE DEF pb, f
<1>5. ReadBytes(g, 2).data = b
  BY <1>1, <1>2, <1>3, <1>4, KeptKey DEF KeySize
<1>6. Present(g, 1) /\ pb.sender = DecodeTransferAmount(LastOf(g, {1}).message)
  BY <1>1, <1>2 DEF ReadMessage, TransferAmountFromPbtools, NotNull, Failure
<1>7. LastOf(g, {1}).message = EncodeTransferAmount(m.sender)
  BY <1>3, <1>4, <1>6, KeptMessage
<1> DEFINE h == EncodeTransferAmount(m.sender)
<1>8. Near(h, h)
  BY AmountIsSent, KinItself DEF Only
<1>9. sender.value.pubkey = a
  BY <1>1, <1>6, <1>7, <1>8, AmountKept
<1> HIDE DEF sender
<1> QED BY <1>1, <1>2, <1>5, <1>9 DEF pb

\* A transfer within another part of a body.
LEMMA InnerTransferKept ==
  ASSUME NEW f, NEW g, Kin(g, f), NEW n \in 1..13, NEW m,
         Only(f, n, MessageField(n, EncodeTransfer(m))), NEW a, NEW b,
         m.sender.pubkey = BytesOf(KeySize, a), m.recipient = BytesOf(KeySize, b),
         GradidoTransferFromPbtools(ReadMessage(g, n, DecodeTransfer)).result = "SUCCESS"
  PROVE  LET made == GradidoTransferFromPbtools(ReadMessage(g, n, DecodeTransfer)).value
         IN  made.sender.pubkey = a /\ made.recipient = b
<1> DEFINE h == EncodeTransfer(m)
<1>1. Present(g, n) /\ ReadMessage(g, n, DecodeTransfer) = DecodeTransfer(LastOf(g, {n}).message)
  BY DEF ReadMessage, GradidoTransferFromPbtools, NotNull, Failure
<1>2. LastOf(g, {n}).message = h
  BY <1>1, KeptMessage
<1>3. Kin(h, h)
  BY TransferIsSent, KinItself DEF Only
<1> QED BY <1>1, <1>2, <1>3, TransferKept

LEMMA CreationKept ==
  ASSUME NEW m, NEW g, Kin(g, EncodeCreation(m)), NEW key,
         m.recipient.pubkey = BytesOf(KeySize, key),
         GradidoCreationFromPbtools(DecodeCreation(g)).result = "SUCCESS"
  PROVE  GradidoCreationFromPbtools(DecodeCreation(g)).value.recipient.pubkey = key
<1> DEFINE pb == DecodeCreation(g)
           recipient == TransferAmountFromPbtools(pb.recipient)
           date == TimestampSecondsFromPbtools(pb.target_date)
           f == EncodeCreation(m)
           h == EncodeTransferAmount(m.recipient)
<1>1. /\ recipient.result = "SUCCESS"
      /\ GradidoCreationFromPbtools(pb).value = [recipient |-> recipient.value, target_date |-> date.value]
  <2> HIDE DEF pb
  <2>1. GradidoCreationFromPbtools(pb) =
          IF pb = NULL THEN Failure("NULL_POINTER")
          ELSE IF recipient.result = "SUCCESS"
               THEN IF date.result = "SUCCESS"
                    THEN Success([recipient |-> recipient.value, target_date |-> date.value])
                    ELSE date
               ELSE recipient
    BY DEF GradidoCreationFromPbtools, NotNull, Then
  <2> HIDE DEF recipient, date
  <2> QED BY <2>1 DEF Success, Failure, pb
<1>2. pb.recipient = ReadMessage(g, 1, DecodeTransferAmount)
  BY DEF DecodeCreation
<1>3. Only(f, 1, MessageField(1, h)) /\ Kin(g, f)
  BY CreationIsSent
<1>4. Near(h, h)
  BY AmountIsSent, KinItself DEF Only
<1> HIDE DEF pb, f
<1>5. Present(g, 1) /\ pb.recipient = DecodeTransferAmount(LastOf(g, {1}).message)
  BY <1>1, <1>2 DEF ReadMessage, TransferAmountFromPbtools, NotNull, Failure
<1>6. LastOf(g, {1}).message = h
  BY <1>3, <1>5, KeptMessage
<1>7. recipient.value.pubkey = key
  BY <1>1, <1>4, <1>5, <1>6, AmountKept
<1> HIDE DEF recipient, date
<1> QED BY <1>1, <1>7 DEF pb

LEMMA CommunityRootKept ==
  ASSUME NEW m, NEW g, Kin(g, EncodeCommunityRoot(m)), NEW a, NEW b, NEW c,
         m.pubkey = BytesOf(KeySize, a), m.gmw_pubkey = BytesOf(KeySize, b),
         m.auf_pubkey = BytesOf(KeySize, c),
         CommunityRootFromPbtools(DecodeCommunityRoot(g)).result = "SUCCESS"
  PROVE  LET made == CommunityRootFromPbtools(DecodeCommunityRoot(g)).value
         IN  made.pubkey = a /\ made.gmw_pubkey = b /\ made.auf_pubkey = c
<1> DEFINE pb == DecodeCommunityRoot(g)
           f == EncodeCommunityRoot(m)
<1>1. /\ pb.pubkey.size = KeySize /\ pb.gmw_pubkey.size = KeySize /\ pb.auf_pubkey.size = KeySize
      /\ CommunityRootFromPbtools(pb).value =
           [pubkey |-> pb.pubkey.data, gmw_pubkey |-> pb.gmw_pubkey.data,
            auf_pubkey |-> pb.auf_pubkey.data]
  <2> HIDE DEF pb
  <2> QED BY DEF CommunityRootFromPbtools, NotNull, Success, Failure, pb
<1>2. /\ pb.pubkey = ReadBytes(g, 1) /\ pb.gmw_pubkey = ReadBytes(g, 2)
      /\ pb.auf_pubkey = ReadBytes(g, 3)
  BY DEF DecodeCommunityRoot
<1>3. /\ Only(f, 1, BytesField(1, BytesOf(KeySize, a))) /\ Only(f, 2, BytesField(2, BytesOf(KeySize, b)))
      /\ Only(f, 3, BytesField(3, BytesOf(KeySize, c))) /\ Near(g, f)
  BY CommunityRootIsSent, KinIsNear
<1> HIDE DEF pb, f
<1>4. ReadBytes(g, 1).data = a /\ ReadBytes(g, 2).data = b /\ ReadBytes(g, 3).data = c
  BY <1>1, <1>2, <1>3, KeptKey DEF KeySize
<1> QED BY <1>1, <1>2, <1>4 DEF pb

LEMMA RegisterAddressKept ==
  ASSUME NEW m, NEW g, Kin(g, EncodeRegisterAddress(m)), NEW a, NEW b, NEW c,
         m.user_pubkey = BytesOf(KeySize, a), m.name_hash = BytesOf(HashSize, b),
         m.account_pubkey = BytesOf(KeySize, c),
         RegisterAddressFromPbtools(DecodeRegisterAddress(g)).result = "SUCCESS"
  PROVE  LET made == RegisterAddressFromPbtools(DecodeRegisterAddress(g)).value
         IN  made.user_pubkey = a /\ made.name_hash = b /\ made.account_pubkey = c
<1> DEFINE pb == DecodeRegisterAddress(g)
           f == EncodeRegisterAddress(m)
<1>1. /\ pb.user_pubkey.size = KeySize /\ pb.name_hash.size = HashSize
      /\ pb.account_pubkey.size = KeySize
      /\ RegisterAddressFromPbtools(pb).value =
           [user_pubkey |-> pb.user_pubkey.data, address_type |-> pb.address_type,
            derivation_index |-> pb.derivation_index, name_hash |-> pb.name_hash.data,
            account_pubkey |-> pb.account_pubkey.data]
  <2> HIDE DEF pb
  <2> QED BY DEF RegisterAddressFromPbtools, NotNull, Success, Failure, pb
<1>2. /\ pb.user_pubkey = ReadBytes(g, 1) /\ pb.name_hash = ReadBytes(g, 3)
      /\ pb.account_pubkey = ReadBytes(g, 4)
  BY DEF DecodeRegisterAddress
<1>3. /\ Only(f, 1, BytesField(1, BytesOf(KeySize, a))) /\ Only(f, 3, BytesField(3, BytesOf(HashSize, b)))
      /\ Only(f, 4, BytesField(4, BytesOf(KeySize, c))) /\ Near(g, f)
  BY RegisterAddressIsSent, KinIsNear
<1> HIDE DEF pb, f
<1>4. ReadBytes(g, 1).data = a /\ ReadBytes(g, 3).data = b /\ ReadBytes(g, 4).data = c
  BY <1>1, <1>2, <1>3, KeptKey DEF KeySize, HashSize
<1> QED BY <1>1, <1>2, <1>4 DEF pb

LEMMA DeferredTransferKept ==
  ASSUME NEW m, NEW g, Kin(g, EncodeDeferredTransfer(m)), NEW a, NEW b,
         m.transfer.sender.pubkey = BytesOf(KeySize, a), m.transfer.recipient = BytesOf(KeySize, b),
         GradidoDeferredTransferFromPbtools(DecodeDeferredTransfer(g)).result = "SUCCESS"
  PROVE  LET made == GradidoDeferredTransferFromPbtools(DecodeDeferredTransfer(g)).value
         IN  made.transfer.sender.pubkey = a /\ made.transfer.recipient = b
<1> DEFINE pb == DecodeDeferredTransfer(g)
           transfer == GradidoTransferFromPbtools(pb.transfer)
           f == EncodeDeferredTransfer(m)
<1>1. /\ transfer.result = "SUCCESS"
      /\ GradidoDeferredTransferFromPbtools(pb).value =
           [transfer |-> transfer.value, timeout_duration |-> pb.timeout_duration.seconds]
  <2> HIDE DEF pb
  <2>1. GradidoDeferredTransferFromPbtools(pb) =
          IF pb = NULL THEN Failure("NULL_POINTER")
          ELSE IF pb.timeout_duration = NULL THEN Failure("NULL_READ")
          ELSE IF pb.timeout_duration.seconds > MaxU32 THEN Failure("RESOURCE_SIZE_EXCEED")
          ELSE IF transfer.result = "SUCCESS"
               THEN Success([transfer |-> transfer.value,
                             timeout_duration |-> pb.timeout_duration.seconds])
               ELSE transfer
    BY DEF GradidoDeferredTransferFromPbtools, NotNull, Then
  <2> HIDE DEF transfer
  <2> QED BY <2>1 DEF Success, Failure, pb
<1>2. pb.transfer = ReadMessage(g, 1, DecodeTransfer)
  BY DEF DecodeDeferredTransfer
<1>3. Only(f, 1, MessageField(1, EncodeTransfer(m.transfer))) /\ Kin(g, f)
  BY DeferredTransferIsSent
<1> HIDE DEF pb, f
<1>4. transfer.value.sender.pubkey = a /\ transfer.value.recipient = b
  BY <1>1, <1>2, <1>3, InnerTransferKept
<1> HIDE DEF transfer
<1> QED BY <1>1, <1>4 DEF pb

LEMMA RedeemDeferredTransferKept ==
  ASSUME NEW m, NEW g, Kin(g, EncodeRedeemDeferredTransfer(m)), NEW a, NEW b,
         m.transfer.sender.pubkey = BytesOf(KeySize, a), m.transfer.recipient = BytesOf(KeySize, b),
         GradidoRedeemDeferredTransferFromPbtools(DecodeRedeemDeferredTransfer(g)).result = "SUCCESS"
  PROVE  LET made == GradidoRedeemDeferredTransferFromPbtools(DecodeRedeemDeferredTransfer(g)).value
         IN  made.transfer.sender.pubkey = a /\ made.transfer.recipient = b
<1> DEFINE pb == DecodeRedeemDeferredTransfer(g)
           transfer == GradidoTransferFromPbtools(pb.transfer)
           f == EncodeRedeemDeferredTransfer(m)
<1>1. /\ transfer.result = "SUCCESS"
      /\ GradidoRedeemDeferredTransferFromPbtools(pb).value =
           [deferred_transfer_transaction_nr |-> pb.deferred_transfer_transaction_nr,
            transfer |-> transfer.value]
  <2> HIDE DEF pb
  <2>1. GradidoRedeemDeferredTransferFromPbtools(pb) =
          IF pb = NULL THEN Failure("NULL_POINTER")
          ELSE IF transfer.result = "SUCCESS"
               THEN Success([deferred_transfer_transaction_nr |-> pb.deferred_transfer_transaction_nr,
                             transfer |-> transfer.value])
               ELSE transfer
    BY DEF GradidoRedeemDeferredTransferFromPbtools, NotNull, Then
  <2> HIDE DEF transfer
  <2> QED BY <2>1 DEF Success, Failure, pb
<1>2. pb.transfer = ReadMessage(g, 2, DecodeTransfer)
  BY DEF DecodeRedeemDeferredTransfer
<1>3. Only(f, 2, MessageField(2, EncodeTransfer(m.transfer))) /\ Kin(g, f)
  BY RedeemDeferredTransferIsSent
<1> HIDE DEF pb, f
<1>4. transfer.value.sender.pubkey = a /\ transfer.value.recipient = b
  BY <1>1, <1>2, <1>3, InnerTransferKept
<1> HIDE DEF transfer
<1> QED BY <1>1, <1>4 DEF pb

-----------------------------------------------------------------------------
(* The part of the body: the one that was sent, or none.                   *)

\* What the member of the oneof that is set is encoded as.
PartEncoded(data) ==
  CASE data.number = 6  -> EncodeTransfer(data.value)
    [] data.number = 7  -> EncodeCreation(data.value)
    [] data.number = 8  -> EncodeCommunityFriendsUpdate(data.value)
    [] data.number = 9  -> EncodeRegisterAddress(data.value)
    [] data.number = 10 -> EncodeDeferredTransfer(data.value)
    [] data.number = 11 -> EncodeCommunityRoot(data.value)
    [] data.number = 12 -> EncodeRedeemDeferredTransfer(data.value)
    [] data.number = 13 -> EncodeTimeoutDeferredTransfer(data.value)

LEMMA SpecificIsSent ==
  ASSUME NEW data, data.number \in Specific \cup {0}, NEW n \in Specific, NEW e
  PROVE  /\ n # data.number => Only(EncodeSpecific(data), n, e)
         /\ n = data.number => Only(EncodeSpecific(data), n, MessageField(n, PartEncoded(data)))
<1> DEFINE k == data.number
           x == PartEncoded(data)
           f == EncodeSpecific(data)
<1>1. CASE k = 0
  <2>1. f = <<>>
    BY <1>1 DEF EncodeSpecific
  <2>2. n # 0
    BY DEF Specific
  <2> HIDE DEF f
  <2> QED BY <1>1, <2>1, <2>2, OnlyNone DEF f
<1>2. CASE k # 0
  <2>1. k \in {6, 7, 8, 9, 10, 11, 12, 13}
    BY <1>2 DEF Specific
  <2>2. f = << MessageField(k, x) >>
    <3>1. k = 6 => f = << MessageField(k, x) >>
      BY DEF EncodeSpecific, PartEncoded, MessageAlways, MessageField
    <3>2. k = 7 => f = << MessageField(k, x) >>
      BY DEF EncodeSpecific, PartEncoded, MessageAlways, MessageField
    <3>3. k = 8 => f = << MessageField(k, x) >>
      BY DEF EncodeSpecific, PartEncoded, MessageAlways, MessageField
    <3>4. k = 9 => f = << MessageField(k, x) >>
      BY DEF EncodeSpecific, PartEncoded, MessageAlways, MessageField
    <3>5. k = 10 => f = << MessageField(k, x) >>
      BY DEF EncodeSpecific, PartEncoded, MessageAlways, MessageField
    <3>6. k = 11 => f = << MessageField(k, x) >>
      BY DEF EncodeSpecific, PartEncoded, MessageAlways, MessageField
    <3>7. k = 12 => f = << MessageField(k, x) >>
      BY DEF EncodeSpecific, PartEncoded, MessageAlways, MessageField
    <3>8. k = 13 => f = << MessageField(k, x) >>
      BY DEF EncodeSpecific, PartEncoded, MessageAlways, MessageField
    <3> HIDE DEF f, x
    <3> QED BY <2>1, <3>1, <3>2, <3>3, <3>4, <3>5, <3>6, <3>7, <3>8
  <2> HIDE DEF f, x
  <2>3. f \in OneOrNone(k, x)
    BY <2>2 DEF OneOrNone
  <2>4. n \in 1..14 /\ k \in 1..14
    BY <2>1 DEF Specific
  <2> HIDE DEF k
  <2>5. /\ k # n => Only(f, n, e)
        /\ k = n => Only(f, n, MessageField(n, x))
    BY <2>3, <2>4, OnlyMessage
  <2> QED BY <2>5 DEF f, x, k
<1> QED BY <1>1, <1>2

\* Nothing is read under a number that nothing was sent under.
LEMMA NothingIsSent ==
  ASSUME NEW f, NEW g, Near(g, f), NEW n \in 1..13, \A e : Only(f, n, e)
  PROVE  ~Present(g, n)
<1>1. \A d \in Range(f) : d.tag # n
  <2> SUFFICES ASSUME NEW d \in Range(f), d.tag = n PROVE FALSE
    OBVIOUS
  <2>1. Only(f, n, 0) /\ Only(f, n, 1)
    OBVIOUS
  <2>2. d = 0 /\ d = 1
    BY <2>1 DEF Only
  <2> QED BY <2>2
<1>2. n # Foreign
  BY DEF Foreign
<1>3. \A e \in Range(g) : e.tag # n
  BY <1>1, <1>2 DEF Near, Stems
<1> QED BY <1>3, FieldIsRead DEF Near, Present

LEMMA PartIsChosen ==
  ASSUME NEW f, NEW g, Near(g, f), NEW k \in Specific \cup {0},
         \A n \in Specific : n # k => \A e : Only(f, n, e)
  PROVE  \/ Chosen(g, Specific) = 0
         \/ k \in Specific /\ Chosen(g, Specific) = k /\ Present(g, k)
<1>1. CASE Places(g, Specific) = {}
  BY <1>1 DEF Chosen
<1>2. CASE Places(g, Specific) # {}
  <2> DEFINE e == LastOf(g, Specific)
             n == e.tag
  <2>1. e \in Range(g) /\ n \in Specific /\ Number(e) = n
    BY <1>2, FieldIsRead DEF Near
  <2>2. Chosen(g, Specific) = n
    BY <1>2, <2>1 DEF Chosen
  <2>3. Present(g, n)
    <3>1. PICK i \in DOMAIN g : e = g[i]
      BY <2>1 DEF Range
    <3>2. i \in Places(g, {n})
      BY <2>1, <3>1 DEF Places
    <3> QED BY <3>2 DEF Present
  <2> HIDE DEF e, n
  <2>4. n \in 1..13
    BY <2>1 DEF Specific
  <2>5. n = k
    <3> SUFFICES ASSUME n # k PROVE FALSE
      OBVIOUS
    <3>1. \A d : Only(f, n, d)
      BY <2>1
    <3> QED BY <2>3, <2>4, <3>1, NothingIsSent
  <2> QED BY <2>1, <2>2, <2>3, <2>5
<1> QED BY <1>1, <1>2

Typed(type, made) == Then(made, LAMBDA part : Success([type |-> type, part |-> part]))

LEMMA TypedIs ==
  ASSUME NEW type, NEW made, Typed(type, made).result = "SUCCESS"
  PROVE  /\ made.result = "SUCCESS"
         /\ Typed(type, made).value.type = type
         /\ Typed(type, made).value.part = made.value
BY DEF Typed, Then, Success

LEMMA SpecificIsTyped ==
  ASSUME NEW v
  PROVE  /\ SpecificFromPbtools(Member(6, v)) = Typed("transfer", GradidoTransferFromPbtools(v))
         /\ SpecificFromPbtools(Member(7, v)) = Typed("creation", GradidoCreationFromPbtools(v))
         /\ SpecificFromPbtools(Member(8, v))
              = Typed("friends_update", CommunityFriendsUpdateFromPbtools(v))
         /\ SpecificFromPbtools(Member(9, v))
              = Typed("register_address", RegisterAddressFromPbtools(v))
         /\ SpecificFromPbtools(Member(10, v))
              = Typed("deferred_transfer", GradidoDeferredTransferFromPbtools(v))
         /\ SpecificFromPbtools(Member(11, v))
              = Typed("community_root", CommunityRootFromPbtools(v))
         /\ SpecificFromPbtools(Member(12, v))
              = Typed("redeem_deferred", GradidoRedeemDeferredTransferFromPbtools(v))
         /\ SpecificFromPbtools(Member(13, v))
              = Typed("timeout_deferred", GradidoTimeoutDeferredTransferFromPbtools(v))
<1>1. SpecificFromPbtools(Member(6, v)) = Typed("transfer", GradidoTransferFromPbtools(v))
  BY DEF SpecificFromPbtools, Member, Typed
<1>2. SpecificFromPbtools(Member(7, v)) = Typed("creation", GradidoCreationFromPbtools(v))
  BY DEF SpecificFromPbtools, Member, Typed
<1>3. SpecificFromPbtools(Member(8, v))
        = Typed("friends_update", CommunityFriendsUpdateFromPbtools(v))
  BY DEF SpecificFromPbtools, Member, Typed
<1>4. SpecificFromPbtools(Member(9, v))
        = Typed("register_address", RegisterAddressFromPbtools(v))
  BY DEF SpecificFromPbtools, Member, Typed
<1>5. SpecificFromPbtools(Member(10, v))
        = Typed("deferred_transfer", GradidoDeferredTransferFromPbtools(v))
  BY DEF SpecificFromPbtools, Member, Typed
<1>6. SpecificFromPbtools(Member(11, v)) = Typed("community_root", CommunityRootFromPbtools(v))
  BY DEF SpecificFromPbtools, Member, Typed
<1>7. SpecificFromPbtools(Member(12, v))
        = Typed("redeem_deferred", GradidoRedeemDeferredTransferFromPbtools(v))
  BY DEF SpecificFromPbtools, Member, Typed
<1>8. SpecificFromPbtools(Member(13, v))
        = Typed("timeout_deferred", GradidoTimeoutDeferredTransferFromPbtools(v))
  BY DEF SpecificFromPbtools, Member, Typed
<1> QED BY <1>1, <1>2, <1>3, <1>4, <1>5, <1>6, <1>7, <1>8

-----------------------------------------------------------------------------
(* Part by part: the keys that are read are the keys that were sent.       *)

PartKeys(type, part) == KeysOf([transaction_type |-> type, data |-> part])

LEMMA PartKeysAre ==
  /\ \A body : KeysOf(body) = PartKeys(body.transaction_type, body.data)
  /\ \A part : PartKeys("transfer", part) = <<part.sender.pubkey, part.recipient>>
  /\ \A part : PartKeys("creation", part) = <<part.recipient.pubkey>>
  /\ \A part : PartKeys("register_address", part)
                 = <<part.user_pubkey, part.name_hash, part.account_pubkey>>
  /\ \A part : PartKeys("deferred_transfer", part)
                 = <<part.transfer.sender.pubkey, part.transfer.recipient>>
  /\ \A part : PartKeys("community_root", part)
                 = <<part.pubkey, part.gmw_pubkey, part.auf_pubkey>>
  /\ \A part : PartKeys("redeem_deferred", part)
                 = <<part.transfer.sender.pubkey, part.transfer.recipient>>
  /\ \A part : PartKeys("timeout_deferred", part) = <<>>
BY DEF PartKeys, KeysOf
LEMMA TransferInBody ==
  ASSUME NEW part, NEW g, Kin(g, EncodeTransfer(GradidoTransferFromWire(part))),
         SpecificFromPbtools(Member(6, DecodeTransfer(g))).result = "SUCCESS"
  PROVE  LET made == SpecificFromPbtools(Member(6, DecodeTransfer(g)))
         IN  /\ made.value.type = "transfer"
             /\ PartKeys("transfer", made.value.part) = PartKeys("transfer", part)
<1> DEFINE m == GradidoTransferFromWire(part)
           read == GradidoTransferFromPbtools(DecodeTransfer(g))
           made == SpecificFromPbtools(Member(6, DecodeTransfer(g)))
<1>1. made = Typed("transfer", read)
  BY SpecificIsTyped
<1> HIDE DEF made
<1>2. /\ read.result = "SUCCESS" /\ made.value.type = "transfer"
      /\ made.value.part = read.value
  <2>1. made.result = "SUCCESS"
    BY DEF made
  <2> HIDE DEF read
  <2> QED BY <1>1, <2>1, TypedIs
<1>3. /\ m.sender.pubkey = BytesOf(KeySize, part.sender.pubkey)
      /\ m.recipient = BytesOf(KeySize, part.recipient)
  BY DEF GradidoTransferFromWire, TransferAmountFromWire
<1> HIDE DEF m
<1>4. /\ read.value.sender.pubkey = part.sender.pubkey
      /\ read.value.recipient = part.recipient
  BY <1>2, <1>3, TransferKept DEF m
<1> HIDE DEF read
<1> QED BY <1>2, <1>4, PartKeysAre DEF made

LEMMA CreationInBody ==
  ASSUME NEW part, NEW g, Kin(g, EncodeCreation(GradidoCreationFromWire(part))),
         SpecificFromPbtools(Member(7, DecodeCreation(g))).result = "SUCCESS"
  PROVE  LET made == SpecificFromPbtools(Member(7, DecodeCreation(g)))
         IN  /\ made.value.type = "creation"
             /\ PartKeys("creation", made.value.part) = PartKeys("creation", part)
<1> DEFINE m == GradidoCreationFromWire(part)
           read == GradidoCreationFromPbtools(DecodeCreation(g))
           made == SpecificFromPbtools(Member(7, DecodeCreation(g)))
<1>1. made = Typed("creation", read)
  BY SpecificIsTyped
<1> HIDE DEF made
<1>2. /\ read.result = "SUCCESS" /\ made.value.type = "creation"
      /\ made.value.part = read.value
  <2>1. made.result = "SUCCESS"
    BY DEF made
  <2> HIDE DEF read
  <2> QED BY <1>1, <2>1, TypedIs
<1>3. /\ m.recipient.pubkey = BytesOf(KeySize, part.recipient.pubkey)
  BY DEF GradidoCreationFromWire, TransferAmountFromWire
<1> HIDE DEF m
<1>4. /\ read.value.recipient.pubkey = part.recipient.pubkey
  BY <1>2, <1>3, CreationKept DEF m
<1> HIDE DEF read
<1> QED BY <1>2, <1>4, PartKeysAre DEF made

LEMMA RegisterAddressInBody ==
  ASSUME NEW part, NEW g, Kin(g, EncodeRegisterAddress(RegisterAddressFromWire(part))),
         SpecificFromPbtools(Member(9, DecodeRegisterAddress(g))).result = "SUCCESS"
  PROVE  LET made == SpecificFromPbtools(Member(9, DecodeRegisterAddress(g)))
         IN  /\ made.value.type = "register_address"
             /\ PartKeys("register_address", made.value.part) = PartKeys("register_address", part)
<1> DEFINE m == RegisterAddressFromWire(part)
           read == RegisterAddressFromPbtools(DecodeRegisterAddress(g))
           made == SpecificFromPbtools(Member(9, DecodeRegisterAddress(g)))
<1>1. made = Typed("register_address", read)
  BY SpecificIsTyped
<1> HIDE DEF made
<1>2. /\ read.result = "SUCCESS" /\ made.value.type = "register_address"
      /\ made.value.part = read.value
  <2>1. made.result = "SUCCESS"
    BY DEF made
  <2> HIDE DEF read
  <2> QED BY <1>1, <2>1, TypedIs
<1>3. /\ m.user_pubkey = BytesOf(KeySize, part.user_pubkey)
      /\ m.name_hash = BytesOf(HashSize, part.name_hash)
      /\ m.account_pubkey = BytesOf(KeySize, part.account_pubkey)
  BY DEF RegisterAddressFromWire
<1> HIDE DEF m
<1>4. /\ read.value.user_pubkey = part.user_pubkey
      /\ read.value.name_hash = part.name_hash
      /\ read.value.account_pubkey = part.account_pubkey
  BY <1>2, <1>3, RegisterAddressKept DEF m
<1> HIDE DEF read
<1> QED BY <1>2, <1>4, PartKeysAre DEF made

LEMMA DeferredTransferInBody ==
  ASSUME NEW part, NEW g, Kin(g, EncodeDeferredTransfer(GradidoDeferredTransferFromWire(part))),
         SpecificFromPbtools(Member(10, DecodeDeferredTransfer(g))).result = "SUCCESS"
  PROVE  LET made == SpecificFromPbtools(Member(10, DecodeDeferredTransfer(g)))
         IN  /\ made.value.type = "deferred_transfer"
             /\ PartKeys("deferred_transfer", made.value.part) = PartKeys("deferred_transfer", part)
<1> DEFINE m == GradidoDeferredTransferFromWire(part)
           read == GradidoDeferredTransferFromPbtools(DecodeDeferredTransfer(g))
           made == SpecificFromPbtools(Member(10, DecodeDeferredTransfer(g)))
<1>1. made = Typed("deferred_transfer", read)
  BY SpecificIsTyped
<1> HIDE DEF made
<1>2. /\ read.result = "SUCCESS" /\ made.value.type = "deferred_transfer"
      /\ made.value.part = read.value
  <2>1. made.result = "SUCCESS"
    BY DEF made
  <2> HIDE DEF read
  <2> QED BY <1>1, <2>1, TypedIs
<1>3. /\ m.transfer.sender.pubkey = BytesOf(KeySize, part.transfer.sender.pubkey)
      /\ m.transfer.recipient = BytesOf(KeySize, part.transfer.recipient)
  BY DEF GradidoDeferredTransferFromWire, GradidoTransferFromWire, TransferAmountFromWire
<1> HIDE DEF m
<1>4. /\ read.value.transfer.sender.pubkey = part.transfer.sender.pubkey
      /\ read.value.transfer.recipient = part.transfer.recipient
  BY <1>2, <1>3, DeferredTransferKept DEF m
<1> HIDE DEF read
<1> QED BY <1>2, <1>4, PartKeysAre DEF made

LEMMA CommunityRootInBody ==
  ASSUME NEW part, NEW g, Kin(g, EncodeCommunityRoot(CommunityRootFromWire(part))),
         SpecificFromPbtools(Member(11, DecodeCommunityRoot(g))).result = "SUCCESS"
  PROVE  LET made == SpecificFromPbtools(Member(11, DecodeCommunityRoot(g)))
         IN  /\ made.value.type = "community_root"
             /\ PartKeys("community_root", made.value.part) = PartKeys("community_root", part)
<1> DEFINE m == CommunityRootFromWire(part)
           read == CommunityRootFromPbtools(DecodeCommunityRoot(g))
           made == SpecificFromPbtools(Member(11, DecodeCommunityRoot(g)))
<1>1. made = Typed("community_root", read)
  BY SpecificIsTyped
<1> HIDE DEF made
<1>2. /\ read.result = "SUCCESS" /\ made.value.type = "community_root"
      /\ made.value.part = read.value
  <2>1. made.result = "SUCCESS"
    BY DEF made
  <2> HIDE DEF read
  <2> QED BY <1>1, <2>1, TypedIs
<1>3. /\ m.pubkey = BytesOf(KeySize, part.pubkey)
      /\ m.gmw_pubkey = BytesOf(KeySize, part.gmw_pubkey)
      /\ m.auf_pubkey = BytesOf(KeySize, part.auf_pubkey)
  BY DEF CommunityRootFromWire
<1> HIDE DEF m
<1>4. /\ read.value.pubkey = part.pubkey
      /\ read.value.gmw_pubkey = part.gmw_pubkey
      /\ read.value.auf_pubkey = part.auf_pubkey
  BY <1>2, <1>3, CommunityRootKept DEF m
<1> HIDE DEF read
<1> QED BY <1>2, <1>4, PartKeysAre DEF made

LEMMA RedeemDeferredTransferInBody ==
  ASSUME NEW part, NEW g, Kin(g, EncodeRedeemDeferredTransfer(GradidoRedeemDeferredTransferFromWire(part))),
         SpecificFromPbtools(Member(12, DecodeRedeemDeferredTransfer(g))).result = "SUCCESS"
  PROVE  LET made == SpecificFromPbtools(Member(12, DecodeRedeemDeferredTransfer(g)))
         IN  /\ made.value.type = "redeem_deferred"
             /\ PartKeys("redeem_deferred", made.value.part) = PartKeys("redeem_deferred", part)
<1> DEFINE m == GradidoRedeemDeferredTransferFromWire(part)
           read == GradidoRedeemDeferredTransferFromPbtools(DecodeRedeemDeferredTransfer(g))
           made == SpecificFromPbtools(Member(12, DecodeRedeemDeferredTransfer(g)))
<1>1. made = Typed("redeem_deferred", read)
  BY SpecificIsTyped
<1> HIDE DEF made
<1>2. /\ read.result = "SUCCESS" /\ made.value.type = "redeem_deferred"
      /\ made.value.part = read.value
  <2>1. made.result = "SUCCESS"
    BY DEF made
  <2> HIDE DEF read
  <2> QED BY <1>1, <2>1, TypedIs
<1>3. /\ m.transfer.sender.pubkey = BytesOf(KeySize, part.transfer.sender.pubkey)
      /\ m.transfer.recipient = BytesOf(KeySize, part.transfer.recipient)
  BY DEF GradidoRedeemDeferredTransferFromWire, GradidoTransferFromWire, TransferAmountFromWire
<1> HIDE DEF m
<1>4. /\ read.value.transfer.sender.pubkey = part.transfer.sender.pubkey
      /\ read.value.transfer.recipient = part.transfer.recipient
  BY <1>2, <1>3, RedeemDeferredTransferKept DEF m
<1> HIDE DEF read
<1> QED BY <1>2, <1>4, PartKeysAre DEF made

-----------------------------------------------------------------------------
(* The part that is read of a body in which something has changed.         *)

SpecificRead(g) == SpecificFromPbtools(DecodeSpecific(g))

\* In a body of this kind the member set is of this number, or none is.
PartOf(g, f, k, x) ==
  /\ Near(g, f)
  /\ \A n \in Specific : n # k => \A e : Only(f, n, e)
  /\ k \in Specific => Only(f, k, MessageField(k, x))

LEMMA NoPartIsRead ==
  ASSUME NEW g, Chosen(g, Specific) = 0
  PROVE  SpecificRead(g).value.type = "none"
<1>1. DecodeSpecific(g) = NoMember
  BY DEF DecodeSpecific
<1>2. SpecificFromPbtools(NoMember) = Success([type |-> "none", part |-> NULL])
  BY DEF SpecificFromPbtools, NoMember
<1> QED BY <1>1, <1>2 DEF SpecificRead, Success

LEMMA TransferIsKept ==
  ASSUME NEW part, NEW f, NEW g, PartOf(g, f, 6, EncodeTransfer(GradidoTransferFromWire(part))),
         SpecificRead(g).result = "SUCCESS", SpecificRead(g).value.type \in LaidOut
  PROVE  /\ SpecificRead(g).value.type = "transfer"
         /\ PartKeys("transfer", SpecificRead(g).value.part) = PartKeys("transfer", part)
<1> DEFINE x == EncodeTransfer(GradidoTransferFromWire(part))
           h == LastOf(g, {6}).message
<1>1. Chosen(g, Specific) = 6 /\ Present(g, 6)
  <2>1. 6 \in Specific \cup {0} /\ "none" \notin LaidOut
    BY DEF Specific, LaidOut
  <2> QED BY <2>1, PartIsChosen, NoPartIsRead DEF PartOf
<1>2. Kin(h, x)
  <2>1. Tagged(x)
    BY TransferIsSent DEF Only
  <2>2. Near(g, f) /\ Only(f, 6, MessageField(6, x)) /\ 6 \in 1..13
    BY DEF PartOf, Specific
  <2> HIDE DEF x
  <2> QED BY <1>1, <2>1, <2>2, KeptKin
<1>3. DecodeSpecific(g) = Member(6, DecodeTransfer(h))
  BY <1>1 DEF DecodeSpecific, ReadMessage
<1> QED BY <1>2, <1>3, TransferInBody DEF SpecificRead

LEMMA CreationIsKept ==
  ASSUME NEW part, NEW f, NEW g, PartOf(g, f, 7, EncodeCreation(GradidoCreationFromWire(part))),
         SpecificRead(g).result = "SUCCESS", SpecificRead(g).value.type \in LaidOut
  PROVE  /\ SpecificRead(g).value.type = "creation"
         /\ PartKeys("creation", SpecificRead(g).value.part) = PartKeys("creation", part)
<1> DEFINE x == EncodeCreation(GradidoCreationFromWire(part))
           h == LastOf(g, {7}).message
<1>1. Chosen(g, Specific) = 7 /\ Present(g, 7)
  <2>1. 7 \in Specific \cup {0} /\ "none" \notin LaidOut
    BY DEF Specific, LaidOut
  <2> QED BY <2>1, PartIsChosen, NoPartIsRead DEF PartOf
<1>2. Kin(h, x)
  <2>1. Tagged(x)
    BY CreationIsSent DEF Only
  <2>2. Near(g, f) /\ Only(f, 7, MessageField(7, x)) /\ 7 \in 1..13
    BY DEF PartOf, Specific
  <2> HIDE DEF x
  <2> QED BY <1>1, <2>1, <2>2, KeptKin
<1>3. DecodeSpecific(g) = Member(7, DecodeCreation(h))
  BY <1>1 DEF DecodeSpecific, ReadMessage
<1> QED BY <1>2, <1>3, CreationInBody DEF SpecificRead

LEMMA RegisterAddressIsKept ==
  ASSUME NEW part, NEW f, NEW g, PartOf(g, f, 9, EncodeRegisterAddress(RegisterAddressFromWire(part))),
         SpecificRead(g).result = "SUCCESS", SpecificRead(g).value.type \in LaidOut
  PROVE  /\ SpecificRead(g).value.type = "register_address"
         /\ PartKeys("register_address", SpecificRead(g).value.part) = PartKeys("register_address", part)
<1> DEFINE x == EncodeRegisterAddress(RegisterAddressFromWire(part))
           h == LastOf(g, {9}).message
<1>1. Chosen(g, Specific) = 9 /\ Present(g, 9)
  <2>1. 9 \in Specific \cup {0} /\ "none" \notin LaidOut
    BY DEF Specific, LaidOut
  <2> QED BY <2>1, PartIsChosen, NoPartIsRead DEF PartOf
<1>2. Kin(h, x)
  <2>1. Tagged(x)
    BY RegisterAddressIsSent DEF Only
  <2>2. Near(g, f) /\ Only(f, 9, MessageField(9, x)) /\ 9 \in 1..13
    BY DEF PartOf, Specific
  <2> HIDE DEF x
  <2> QED BY <1>1, <2>1, <2>2, KeptKin
<1>3. DecodeSpecific(g) = Member(9, DecodeRegisterAddress(h))
  BY <1>1 DEF DecodeSpecific, ReadMessage
<1> QED BY <1>2, <1>3, RegisterAddressInBody DEF SpecificRead

LEMMA DeferredTransferIsKept ==
  ASSUME NEW part, NEW f, NEW g, PartOf(g, f, 10, EncodeDeferredTransfer(GradidoDeferredTransferFromWire(part))),
         SpecificRead(g).result = "SUCCESS", SpecificRead(g).value.type \in LaidOut
  PROVE  /\ SpecificRead(g).value.type = "deferred_transfer"
         /\ PartKeys("deferred_transfer", SpecificRead(g).value.part) = PartKeys("deferred_transfer", part)
<1> DEFINE x == EncodeDeferredTransfer(GradidoDeferredTransferFromWire(part))
           h == LastOf(g, {10}).message
<1>1. Chosen(g, Specific) = 10 /\ Present(g, 10)
  <2>1. 10 \in Specific \cup {0} /\ "none" \notin LaidOut
    BY DEF Specific, LaidOut
  <2> QED BY <2>1, PartIsChosen, NoPartIsRead DEF PartOf
<1>2. Kin(h, x)
  <2>1. Tagged(x)
    BY DeferredTransferIsSent DEF Only
  <2>2. Near(g, f) /\ Only(f, 10, MessageField(10, x)) /\ 10 \in 1..13
    BY DEF PartOf, Specific
  <2> HIDE DEF x
  <2> QED BY <1>1, <2>1, <2>2, KeptKin
<1>3. DecodeSpecific(g) = Member(10, DecodeDeferredTransfer(h))
  BY <1>1 DEF DecodeSpecific, ReadMessage
<1> QED BY <1>2, <1>3, DeferredTransferInBody DEF SpecificRead

LEMMA CommunityRootIsKept ==
  ASSUME NEW part, NEW f, NEW g, PartOf(g, f, 11, EncodeCommunityRoot(CommunityRootFromWire(part))),
         SpecificRead(g).result = "SUCCESS", SpecificRead(g).value.type \in LaidOut
  PROVE  /\ SpecificRead(g).value.type = "community_root"
         /\ PartKeys("community_root", SpecificRead(g).value.part) = PartKeys("community_root", part)
<1> DEFINE x == EncodeCommunityRoot(CommunityRootFromWire(part))
           h == LastOf(g, {11}).message
<1>1. Chosen(g, Specific) = 11 /\ Present(g, 11)
  <2>1. 11 \in Specific \cup {0} /\ "none" \notin LaidOut
    BY DEF Specific, LaidOut
  <2> QED BY <2>1, PartIsChosen, NoPartIsRead DEF PartOf
<1>2. Kin(h, x)
  <2>1. Tagged(x)
    BY CommunityRootIsSent DEF Only
  <2>2. Near(g, f) /\ Only(f, 11, MessageField(11, x)) /\ 11 \in 1..13
    BY DEF PartOf, Specific
  <2> HIDE DEF x
  <2> QED BY <1>1, <2>1, <2>2, KeptKin
<1>3. DecodeSpecific(g) = Member(11, DecodeCommunityRoot(h))
  BY <1>1 DEF DecodeSpecific, ReadMessage
<1> QED BY <1>2, <1>3, CommunityRootInBody DEF SpecificRead

LEMMA RedeemDeferredTransferIsKept ==
  ASSUME NEW part, NEW f, NEW g, PartOf(g, f, 12, EncodeRedeemDeferredTransfer(GradidoRedeemDeferredTransferFromWire(part))),
         SpecificRead(g).result = "SUCCESS", SpecificRead(g).value.type \in LaidOut
  PROVE  /\ SpecificRead(g).value.type = "redeem_deferred"
         /\ PartKeys("redeem_deferred", SpecificRead(g).value.part) = PartKeys("redeem_deferred", part)
<1> DEFINE x == EncodeRedeemDeferredTransfer(GradidoRedeemDeferredTransferFromWire(part))
           h == LastOf(g, {12}).message
<1>1. Chosen(g, Specific) = 12 /\ Present(g, 12)
  <2>1. 12 \in Specific \cup {0} /\ "none" \notin LaidOut
    BY DEF Specific, LaidOut
  <2> QED BY <2>1, PartIsChosen, NoPartIsRead DEF PartOf
<1>2. Kin(h, x)
  <2>1. Tagged(x)
    BY RedeemDeferredTransferIsSent DEF Only
  <2>2. Near(g, f) /\ Only(f, 12, MessageField(12, x)) /\ 12 \in 1..13
    BY DEF PartOf, Specific
  <2> HIDE DEF x
  <2> QED BY <1>1, <2>1, <2>2, KeptKin
<1>3. DecodeSpecific(g) = Member(12, DecodeRedeemDeferredTransfer(h))
  BY <1>1 DEF DecodeSpecific, ReadMessage
<1> QED BY <1>2, <1>3, RedeemDeferredTransferInBody DEF SpecificRead

\* A timeout names no keys.
LEMMA TimeoutDeferredTransferIsKept ==
  ASSUME NEW part, NEW f, NEW g, NEW x, PartOf(g, f, 13, x),
         SpecificRead(g).result = "SUCCESS", SpecificRead(g).value.type \in LaidOut
  PROVE  /\ SpecificRead(g).value.type = "timeout_deferred"
         /\ PartKeys("timeout_deferred", SpecificRead(g).value.part)
              = PartKeys("timeout_deferred", part)
<1> DEFINE v == ReadMessage(g, 13, DecodeTimeoutDeferredTransfer)
           read == GradidoTimeoutDeferredTransferFromPbtools(v)
<1>1. Chosen(g, Specific) = 13
  <2>1. 13 \in Specific \cup {0} /\ "none" \notin LaidOut
    BY DEF Specific, LaidOut
  <2> QED BY <2>1, PartIsChosen, NoPartIsRead DEF PartOf
<1>2. DecodeSpecific(g) = Member(13, v)
  BY <1>1 DEF DecodeSpecific
<1>3. SpecificRead(g) = Typed("timeout_deferred", read)
  <2> HIDE DEF v
  <2> QED BY <1>2, SpecificIsTyped DEF SpecificRead
<1> HIDE DEF read
<1>4. SpecificRead(g).value.type = "timeout_deferred"
  BY <1>3, TypedIs
<1>5. \A p : PartKeys("timeout_deferred", p) = <<>>
  BY PartKeysAre
<1> QED BY <1>4, <1>5

\* A friends update has no layout and comes to nothing.
LEMMA FriendsUpdateIsRefused ==
  ASSUME NEW f, NEW g, NEW x, PartOf(g, f, 8, x), SpecificRead(g).result = "SUCCESS"
  PROVE  SpecificRead(g).value.type \notin LaidOut
<1> DEFINE v == ReadMessage(g, 8, DecodeCommunityFriendsUpdate)
           read == CommunityFriendsUpdateFromPbtools(v)
<1>1. "none" \notin LaidOut /\ "friends_update" \notin LaidOut /\ 8 \in Specific \cup {0}
  BY DEF LaidOut, Specific
<1>2. CASE Chosen(g, Specific) = 8
  <2>1. DecodeSpecific(g) = Member(8, v)
    BY <1>2 DEF DecodeSpecific
  <2>2. SpecificRead(g) = Typed("friends_update", read)
    <3> HIDE DEF v
    <3> QED BY <2>1, SpecificIsTyped DEF SpecificRead
  <2> HIDE DEF read
  <2> QED BY <1>1, <2>2, TypedIs
<1>3. CASE Chosen(g, Specific) = 0
  BY <1>1, <1>3, NoPartIsRead
<1> QED BY <1>1, <1>2, <1>3, PartIsChosen DEF PartOf

LEMMA SpecificIsKept ==
  ASSUME NEW type \in Types, NEW part, NEW f, NEW g,
         LET data == SpecificFromWire(type, part)
         IN  PartOf(g, f, data.number, PartEncoded(data)),
         SpecificRead(g).result = "SUCCESS", SpecificRead(g).value.type \in LaidOut
  PROVE  /\ SpecificRead(g).value.type = type
         /\ PartKeys(type, SpecificRead(g).value.part) = PartKeys(type, part)
<1> DEFINE data == SpecificFromWire(type, part)
<1>1. CASE type = "transfer"
  <2>1. data.number = 6 /\ PartEncoded(data) = EncodeTransfer(GradidoTransferFromWire(part))
    BY <1>1 DEF SpecificFromWire, Member, PartEncoded
  <2> QED BY <1>1, <2>1, TransferIsKept
<1>2. CASE type = "creation"
  <2>1. data.number = 7 /\ PartEncoded(data) = EncodeCreation(GradidoCreationFromWire(part))
    BY <1>2 DEF SpecificFromWire, Member, PartEncoded
  <2> QED BY <1>2, <2>1, CreationIsKept
<1>3. CASE type = "register_address"
  <2>1. data.number = 9 /\ PartEncoded(data) = EncodeRegisterAddress(RegisterAddressFromWire(part))
    BY <1>3 DEF SpecificFromWire, Member, PartEncoded
  <2> QED BY <1>3, <2>1, RegisterAddressIsKept
<1>4. CASE type = "deferred_transfer"
  <2>1. data.number = 10 /\ PartEncoded(data) = EncodeDeferredTransfer(GradidoDeferredTransferFromWire(part))
    BY <1>4 DEF SpecificFromWire, Member, PartEncoded
  <2> QED BY <1>4, <2>1, DeferredTransferIsKept
<1>5. CASE type = "community_root"
  <2>1. data.number = 11 /\ PartEncoded(data) = EncodeCommunityRoot(CommunityRootFromWire(part))
    BY <1>5 DEF SpecificFromWire, Member, PartEncoded
  <2> QED BY <1>5, <2>1, CommunityRootIsKept
<1>6. CASE type = "redeem_deferred"
  <2>1. data.number = 12 /\ PartEncoded(data) = EncodeRedeemDeferredTransfer(GradidoRedeemDeferredTransferFromWire(part))
    BY <1>6 DEF SpecificFromWire, Member, PartEncoded
  <2> QED BY <1>6, <2>1, RedeemDeferredTransferIsKept
<1>7. CASE type = "timeout_deferred"
  <2>1. data.number = 13 /\ PartEncoded(data) = EncodeTimeoutDeferredTransfer(GradidoTimeoutDeferredTransferFromWire(part))
    BY <1>7 DEF SpecificFromWire, Member, PartEncoded
  <2> QED BY <1>7, <2>1, TimeoutDeferredTransferIsKept
<1>8. CASE type = "friends_update"
  <2>1. data.number = 8
    BY <1>8 DEF SpecificFromWire, Member
  <2> QED BY <2>1, FriendsUpdateIsRefused
<1>9. CASE type = "none"
  <2>1. data.number = 0
    BY <1>9 DEF SpecificFromWire, NoMember
  <2>2. 0 \in Specific \cup {0} /\ 0 \notin Specific /\ "none" \notin LaidOut
    BY DEF Specific, LaidOut
  <2> QED BY <2>1, <2>2, PartIsChosen, NoPartIsRead DEF PartOf
<1> QED BY <1>1, <1>2, <1>3, <1>4, <1>5, <1>6, <1>7, <1>8, <1>9 DEF Types

LEMMA NumberOfPart ==
  ASSUME NEW type \in Types, NEW part
  PROVE  SpecificFromWire(type, part).number \in Specific \cup {0}
BY DEF Types, SpecificFromWire, NoMember, Member, Specific

\* What is decoded of a body near the one that was sent names its keys.
LEMMA BodyIsKept ==
  ASSUME NEW w, IsTransactionBody(w), NEW g,
         Near(g, EncodeTransactionBody(TransactionBodyFromWire(w))), NEW room,
         LET read == TransactionBodyDecode(g, room)
         IN  read.result = "SUCCESS" /\ read.value.transaction_type \in LaidOut
  PROVE  KeysOf(TransactionBodyDecode(g, room).value) = KeysOf(w)
<1> DEFINE m == TransactionBodyFromWire(w)
           f == EncodeTransactionBody(m)
           type == w.transaction_type
           pb == DecodeTransactionBody(g, room)
           read == TransactionBodyDecode(g, room)
           part == SpecificRead(g)
<1>1. type \in Types /\ m.data = SpecificFromWire(type, w.data)
  BY DEF IsTransactionBody, TransactionBodyFromWire
<1>2. PICK k \in Nat : DOMAIN m.memos = 1..k
  <2>1. IsListOf(w.memos, IsEncryptedMemo)
    BY DEF IsTransactionBody
  <2>2. PICK k \in Nat : DOMAIN w.memos = 1..k
    BY <2>1, ListIsIndexed DEF IsListOf
  <2> QED BY <2>2 DEF TransactionBodyFromWire
<1> HIDE DEF m
<1>3. PartOf(g, f, m.data.number, PartEncoded(m.data))
  <2>1. m.data.number \in Specific \cup {0}
    BY <1>1, NumberOfPart
  <2>2. ASSUME NEW n \in Specific, n # m.data.number, NEW e PROVE Only(f, n, e)
    BY <1>2, <2>1, <2>2, SpecificIsSent, BodyIsSent
  <2>3. ASSUME m.data.number \in Specific
        PROVE  Only(f, m.data.number, MessageField(m.data.number, PartEncoded(m.data)))
    BY <1>2, <2>1, <2>3, SpecificIsSent, BodyIsSent
  <2>4. Near(g, f)
    BY DEF m
  <2> QED BY <2>2, <2>3, <2>4 DEF PartOf
<1>4. /\ part.result = "SUCCESS"
      /\ read.value.transaction_type = part.value.type /\ read.value.data = part.value.part
  <2>1. pb.data = DecodeSpecific(g)
    BY DEF DecodeTransactionBody
  <2>2. read = TransactionBodyFromPbtools(pb)
    BY DEF TransactionBodyDecode, Failure
  <2> DEFINE memos == Every(pb.memos, EncryptedMemoFromPbtools)
             other == IF pb.other_community_uuid.size = 0 THEN Success(NULL)
                      ELSE CommunityUuidFromPbtools(pb.other_community_uuid)
             created == TimestampFromPbtools(pb.created_at)
             data == SpecificFromPbtools(pb.data)
  <2>3. data = part
    BY <2>1 DEF SpecificRead
  <2> HIDE DEF pb, read
  <2>4. read = IF pb.version_number # ProtocolVersion THEN Failure("PB_INCORRECT_VERSION")
               ELSE IF Len(pb.memos) >= MaxCount THEN Failure("ARRAY_INDEX_OUT_OF_BOUNDS")
               ELSE IF memos.result # "SUCCESS" THEN memos
               ELSE IF other.result # "SUCCESS" THEN other
               ELSE IF created.result # "SUCCESS" THEN created
               ELSE IF data.result # "SUCCESS" THEN data
               ELSE Success([memos |-> memos.value, other_community_uuid |-> other.value,
                             created_at |-> created.value, type |-> pb.type,
                             transaction_type |-> data.value.type, data |-> data.value.part])
    <3> HIDE DEF memos, other, created, data
    <3> QED BY <2>2 DEF TransactionBodyFromPbtools, Then, memos, other, created, data
  <2>5. read.result = "SUCCESS"
    BY DEF read
  <2> HIDE DEF memos, other, created, data, part
  <2> QED BY <2>3, <2>4, <2>5 DEF Success, Failure
<1>5. part.value.type \in LaidOut
  BY <1>4
<1>6. part.value.type = type /\ PartKeys(type, part.value.part) = PartKeys(type, w.data)
  <2> HIDE DEF f, part
  <2>1. LET data == SpecificFromWire(type, w.data)
        IN  PartOf(g, f, data.number, PartEncoded(data))
    BY <1>1, <1>3
  <2> QED BY <1>1, <1>4, <1>5, <2>1, SpecificIsKept DEF part
<1> HIDE DEF read, part
<1> QED BY <1>4, <1>6, PartKeysAre DEF read

-----------------------------------------------------------------------------
(* What arrives, in the whole message and in the body within it.           *)

\* A signed transaction as it may arrive: the map that was sent or none, and a body near its own.
SignedFrom(u, map, body) ==
  /\ Tagged(u)
  /\ \A d \in Range(u) : d.tag = 1 => map # NULL /\ d = MessageField(1, EncodeSignatureMap(map))
  /\ \A d \in Range(u) : d.tag = 2 => Near(d.bytes.data, body)

\* A confirmed transaction as it may arrive.
ConfirmedFrom(g, m, body) ==
  /\ Only(g, 5, BytesField(5, m.running_hash))
  /\ \A d \in Range(g) : d.tag = 2 => SignedFrom(d.message, m.transaction.sig_map, body)
  /\ \A d \in Range(g) : d.tag = 7 =>
       \E i \in DOMAIN m.account_balances : Kin(d.message, EncodeAccountBalance(m.account_balances[i]))

LEMMA OnlyTheseBytes ==
  ASSUME NEW f, NEW g, Near(g, f), NEW n \in 1..13, NEW v, Only(f, n, BytesField(n, v))
  PROVE  Only(g, n, BytesField(n, v))
<1>1. \A d \in Range(f) : d.tag = n => d = [tag |-> n, bytes |-> v]
  BY DEF Only, BytesField
<1>2. ASSUME NEW d \in Range(g), d.tag = n PROVE d = [tag |-> n, bytes |-> v]
  BY <1>1, <1>2, OfBytes
<1> QED BY <1>2 DEF Only, Near, BytesField

LEMMA KinIsSignedFrom ==
  ASSUME NEW t, NEW u, Kin(u, EncodeGradidoTransaction(t)), NEW size, NEW body, Tagged(body),
         t.body_bytes = BytesOf(size, body)
  PROVE  SignedFrom(u, t.sig_map, body)
<1> DEFINE f == EncodeGradidoTransaction(t)
           e1 == MessageField(1, EncodeSignatureMap(t.sig_map))
           e2 == BytesField(2, t.body_bytes)
<1>1. /\ Only(f, 1, e1) /\ Only(f, 2, e2)
      /\ t.sig_map = NULL => \A e : Only(f, 1, e)
  BY SignedIsSent
<1>2. Kin(u, f) /\ Near(u, f)
  BY KinIsNear
<1> HIDE DEF f
<1>3. ASSUME NEW d \in Range(u), d.tag = 1 PROVE t.sig_map # NULL /\ d = e1
  <2>1. "varint" \notin DOMAIN e1 /\ 1 # Foreign
    BY DEF MessageField, Foreign
  <2> HIDE DEF e1
  <2>2. d \in Range(f)
    BY <1>1, <1>2, <1>3, <2>1 DEF Kin, Stems, Only
  <2>3. d = e1
    BY <1>1, <1>3, <2>2 DEF Only
  <2>4. t.sig_map # NULL
    <3> SUFFICES ASSUME t.sig_map = NULL PROVE FALSE
      OBVIOUS
    <3>1. Only(f, 1, 0) /\ Only(f, 1, 1)
      BY <1>1
    <3>2. d = 0 /\ d = 1
      BY <1>3, <2>2, <3>1 DEF Only
    <3> QED BY <3>2
  <2> QED BY <2>3, <2>4
<1>4. ASSUME NEW d \in Range(u), d.tag = 2 PROVE Near(d.bytes.data, body)
  <2>1. Only(u, 2, e2)
    <3>1. 2 \in 1..13
      OBVIOUS
    <3> QED BY <1>1, <1>2, <3>1, OnlyTheseBytes
  <2>2. d = e2
    BY <1>4, <2>1 DEF Only
  <2>3. d.bytes.data = body
    BY <2>2 DEF BytesField, BytesOf
  <2> QED BY <2>3, KinItself
<1> QED BY <1>2, <1>3, <1>4 DEF SignedFrom, Kin

LEMMA NearIsConfirmedFrom ==
  ASSUME NEW m, NEW k \in Nat, DOMAIN m.account_balances = 1..k, NEW size, NEW body, Tagged(body),
         m.transaction.body_bytes = BytesOf(size, body),
         NEW g, Near(g, EncodeConfirmedTransaction(m))
  PROVE  ConfirmedFrom(g, m, body)
<1> DEFINE f == EncodeConfirmedTransaction(m)
           t == EncodeGradidoTransaction(m.transaction)
           e5 == BytesField(5, m.running_hash)
           x(i) == EncodeAccountBalance(m.account_balances[i])
           B == {x(i) : i \in 1..k}
<1>1. /\ Only(f, 2, MessageField(2, t)) /\ Only(f, 5, e5)
      /\ \A d \in Range(f) : d.tag = 7 => \E i \in 1..k : d = MessageField(7, x(i))
  BY ConfirmedIsSent
<1>2. Near(g, f) /\ Tagged(g)
  BY DEF Near
<1>3. Tagged(t) /\ \A y \in B : Tagged(y)
  <2>1. Tagged(t)
    BY SignedIsSent DEF Only
  <2>2. \A i \in 1..k : Tagged(x(i))
    BY BalanceIsSent DEF Only
  <2> QED BY <2>1, <2>2
<1> HIDE DEF f
<1>4. Only(g, 5, e5)
  <2>1. 5 \in 1..13
    OBVIOUS
  <2> QED BY <1>1, <1>2, <2>1, OnlyTheseBytes
<1>5. ASSUME NEW d \in Range(g), d.tag = 2
      PROVE  SignedFrom(d.message, m.transaction.sig_map, body)
  <2> DEFINE X == {t}
  <2>1. \A c \in Range(f) : c.tag = 2 => \E y \in X : c = [tag |-> 2, message |-> y]
    BY <1>1 DEF Only, MessageField
  <2>2. 2 \in 1..13 /\ \A y \in X : Tagged(y)
    BY <1>3
  <2>3. X = {t}
    OBVIOUS
  <2> HIDE DEF X, t
  <2>4. \E y \in X : Kin(d.message, y)
    BY <1>2, <1>5, <2>1, <2>2, OfMessages
  <2>5. Kin(d.message, EncodeGradidoTransaction(m.transaction))
    BY <2>3, <2>4 DEF t
  <2> QED BY <2>5, KinIsSignedFrom
<1>6. ASSUME NEW d \in Range(g), d.tag = 7
      PROVE  \E i \in 1..k : Kin(d.message, x(i))
  <2>1. \A c \in Range(f) : c.tag = 7 => \E y \in B : c = [tag |-> 7, message |-> y]
    BY <1>1 DEF MessageField
  <2>2. 7 \in 1..13
    OBVIOUS
  <2>3. \A y \in B : \E i \in 1..k : y = x(i)
    OBVIOUS
  <2> HIDE DEF B, x
  <2>4. \E y \in B : Kin(d.message, y)
    BY <1>2, <1>3, <1>6, <2>1, <2>2, OfMessages
  <2> QED BY <2>3, <2>4
<1> HIDE DEF e5
<1> QED BY <1>4, <1>5, <1>6 DEF ConfirmedFrom, e5

\* One field for another.
LEMMA Replaced ==
  ASSUME NEW f, Tagged(f), NEW at \in DOMAIN f, NEW e, "tag" \in DOMAIN e,
         e.tag \in 0..FieldNumbers - 1
  PROVE  LET h == [f EXCEPT ![at] = e]
         IN  Tagged(h) /\ Range(h) \subseteq Range(f) \cup {e}
<1> DEFINE h == [f EXCEPT ![at] = e]
           n == Len(f)
           S == Range(f) \cup {e}
<1>1. /\ f \in Seq(Range(f)) /\ n \in Nat /\ DOMAIN f = 1..n
      /\ \A d \in Range(f) : "tag" \in DOMAIN d /\ d.tag \in 0..FieldNumbers - 1
  BY TaggedFields DEF Range
<1>2. DOMAIN h = 1..n /\ \A i \in 1..n : h[i] \in S
  BY <1>1 DEF Range
<1>3. \A d \in S : "tag" \in DOMAIN d /\ d.tag \in 0..FieldNumbers - 1
  BY <1>1
<1>4. h = [i \in 1..n |-> h[i]]
  BY <1>1
<1> HIDE DEF h, S
<1>5. h \in Seq(S)
  BY <1>1, <1>2, <1>4
<1>6. Range(h) \subseteq S
  BY <1>2 DEF Range
<1> QED BY <1>3, <1>5, <1>6, TaggedOf DEF h, S

LEMMA PlaceIs ==
  ASSUME NEW f, NEW n, NEW e \in Range(f), e.tag = n, Only(f, n, e)
  PROVE  Place(f, n) \in DOMAIN f /\ f[Place(f, n)] = e
<1>1. \E i \in DOMAIN f : f[i].tag = n
  BY DEF Range
<1>2. Place(f, n) \in DOMAIN f /\ f[Place(f, n)].tag = n
  BY <1>1 DEF Place
<1> QED BY <1>2 DEF Only, Range

LEMMA BodyIsThere ==
  ASSUME NEW m, NEW k \in Nat, DOMAIN m.account_balances = 1..k, m.transaction # NULL,
         NEW size, size # 0, NEW body, m.transaction.body_bytes = BytesOf(size, body)
  PROVE  LET f == EncodeConfirmedTransaction(m)
             t == EncodeGradidoTransaction(m.transaction)
         IN  /\ Place(f, 2) \in DOMAIN f /\ f[Place(f, 2)] = MessageField(2, t)
             /\ Place(t, 2) \in DOMAIN t /\ t[Place(t, 2)] = BytesField(2, BytesOf(size, body))
             /\ BodyFields(f) = body
<1> DEFINE f == EncodeConfirmedTransaction(m)
           t == EncodeGradidoTransaction(m.transaction)
           e == MessageField(2, t)
           b == BytesField(2, BytesOf(size, body))
<1>1. Only(f, 2, e) /\ e \in Range(f)
  BY ConfirmedIsSent
<1>2. Only(t, 2, b) /\ b \in Range(t)
  <2>1. BytesOf(size, body).size # 0
    BY DEF BytesOf
  <2> QED BY <2>1, SignedIsSent
<1>3. e.tag = 2 /\ e.message = t /\ b.tag = 2 /\ b.bytes.data = body
  BY DEF MessageField, BytesField, BytesOf
<1> HIDE DEF f, t, e, b
<1>4. Place(f, 2) \in DOMAIN f /\ f[Place(f, 2)] = e
  BY <1>1, <1>3, PlaceIs
<1>5. Place(t, 2) \in DOMAIN t /\ t[Place(t, 2)] = b
  BY <1>2, <1>3, PlaceIs
<1>6. BodyFields(f) = body
  BY <1>3, <1>4, <1>5 DEF BodyFields
<1> QED BY <1>4, <1>5, <1>6 DEF f, t, e, b

LEMMA BodyIsChanged ==
  ASSUME NEW m, NEW k \in Nat, DOMAIN m.account_balances = 1..k, m.transaction # NULL,
         NEW size, size # 0, NEW body, Tagged(body), m.transaction.body_bytes = BytesOf(size, body),
         NEW change, change.kind = "body",
         change.change \in ChangesOf(body) \cup Within(body)
  PROVE  ConfirmedFrom(Received(EncodeConfirmedTransaction(m), change), m, body)
<1> DEFINE f == EncodeConfirmedTransaction(m)
           t == EncodeGradidoTransaction(m.transaction)
           at == Place(f, 2)
           p == Place(t, 2)
           new == AlteredWithin(body, change.change)
           b == BytesField(2, BytesOf(size, new))
           u == [t EXCEPT ![p] = b]
           e == MessageField(2, u)
           g == [f EXCEPT ![at] = e]
<1>1. /\ at \in DOMAIN f /\ f[at] = MessageField(2, t)
      /\ p \in DOMAIN t /\ t[p] = BytesField(2, BytesOf(size, body))
  BY BodyIsThere
<1>2. Near(new, body)
  BY AlteredWithinIsNear
<1>3. Received(f, change) = g
  <2>1. Received(f, change) =
          [f EXCEPT ![at].message[Place(f[at].message, 2)].bytes.data
             = AlteredWithin(@, change.change)]
    BY DEF Received
  <2>2. f[at].message = t
    BY <1>1 DEF MessageField
  <2> HIDE DEF f, t, at, p
  <2>3. Received(f, change) =
          [f EXCEPT ![at].message[p].bytes.data = AlteredWithin(@, change.change)]
    BY <2>1, <2>2 DEF p
  <2> DEFINE old == t[p]
             made == [old EXCEPT !.bytes.data = AlteredWithin(@, change.change)]
  <2>4. made = b
    <3>1. old = [tag |-> 2, bytes |-> [size |-> size, data |-> body]]
      BY <1>1 DEF BytesField, BytesOf
    <3>2. [old EXCEPT !.bytes.data = AlteredWithin(@, change.change)]
            = [tag |-> 2, bytes |-> [size |-> size, data |-> new]]
      BY <3>1
    <3> QED BY <3>2 DEF BytesField, BytesOf
  <2>5. Received(f, change) = [f EXCEPT ![at].message = [f[at].message EXCEPT ![p] = made]]
    BY <2>3, <2>2
  <2> HIDE DEF made, b
  <2>6. Received(f, change) = [f EXCEPT ![at].message = u]
    BY <2>2, <2>4, <2>5
  <2> HIDE DEF u
  <2>7. [f[at] EXCEPT !.message = u] = e
    BY <1>1 DEF MessageField
  <2>8. [f EXCEPT ![at].message = u] = [f EXCEPT ![at] = [f[at] EXCEPT !.message = u]]
    OBVIOUS
  <2> HIDE DEF e
  <2> QED BY <2>6, <2>7, <2>8
<1>4. SignedFrom(u, m.transaction.sig_map, body)
  <2>1. SignedFrom(t, m.transaction.sig_map, body)
    <3>1. Kin(t, t)
      BY SignedIsSent, KinItself DEF Only
    <3> QED BY <3>1, KinIsSignedFrom
  <2>2. "tag" \in DOMAIN b /\ b.tag = 2 /\ b.bytes.data = new /\ 2 \in 0..FieldNumbers - 1
    BY FieldNumbersAssumption DEF BytesField, BytesOf
  <2> HIDE DEF b, t, p, new
  <2>3. Tagged(u) /\ Range(u) \subseteq Range(t) \cup {b}
    BY <1>1, <2>1, <2>2, Replaced DEF SignedFrom
  <2> HIDE DEF u
  <2> QED BY <1>2, <2>1, <2>2, <2>3 DEF SignedFrom
<1>5. ConfirmedFrom(f, m, body)
  <2>1. Near(f, f)
    BY ConfirmedIsSent, KinItself DEF Only
  <2> QED BY <2>1, NearIsConfirmedFrom
<1>6. "tag" \in DOMAIN e /\ e.tag = 2 /\ e.message = u /\ 2 \in 0..FieldNumbers - 1
  BY FieldNumbersAssumption DEF MessageField
<1> HIDE DEF e, u, at, f
<1>7. Tagged(g) /\ Range(g) \subseteq Range(f) \cup {e}
  BY <1>1, <1>5, <1>6, Replaced DEF ConfirmedFrom, Only
<1> HIDE DEF g
<1>8. ConfirmedFrom(g, m, body)
  BY <1>4, <1>5, <1>6, <1>7 DEF ConfirmedFrom, Only
<1> QED BY <1>3, <1>8 DEF f

\* Whatever became of it on the way.
LEMMA ReceivedIsConfirmedFrom ==
  ASSUME NEW m, NEW k \in Nat, DOMAIN m.account_balances = 1..k, m.transaction # NULL,
         NEW size, size # 0, NEW body, Tagged(body), m.transaction.body_bytes = BytesOf(size, body),
         NEW change,
         change.kind = "unchanged" \/ change \in Changes(EncodeConfirmedTransaction(m))
  PROVE  ConfirmedFrom(Received(EncodeConfirmedTransaction(m), change), m, body)
<1> DEFINE f == EncodeConfirmedTransaction(m)
<1>1. Tagged(f) /\ BodyFields(f) = body
  BY BodyIsThere, ConfirmedIsSent DEF Only
<1>2. \/ change.kind = "unchanged" \/ change \in ChangesOf(f) \cup Within(f)
      \/ change.kind = "body" /\ change.change \in ChangesOf(body) \cup Within(body)
  <2>1. ASSUME change \in Changes(f)
        PROVE  \/ change \in ChangesOf(f) \cup Within(f)
               \/ change.kind = "body" /\ change.change \in ChangesOf(body) \cup Within(body)
    <3> HIDE DEF f
    <3> DEFINE C == ChangesOf(body) \cup Within(body)
               D == ChangesOf(f) \cup Within(f)
    <3>1. Changes(f) = D \cup {[kind |-> "body", change |-> c] : c \in C}
      BY <1>1 DEF Changes
    <3> HIDE DEF C, D
    <3>2. change \in D \/ \E c \in C : change = [kind |-> "body", change |-> c]
      BY <2>1, <3>1
    <3> QED BY <3>2 DEF C, D
  <2> QED BY <2>1
<1>3. ASSUME change.kind = "unchanged" \/ change \in ChangesOf(f) \cup Within(f)
      PROVE  ConfirmedFrom(Received(f, change), m, body)
  <2>1. change.kind # "body"
    <3>1. change \in ChangesOf(f) => change.kind \in {"added", "left out", "repeated", "overridden"}
      BY DEF ChangesOf
    <3>2. change \in Within(f) => change.kind = "within"
      BY DEF Within
    <3> QED BY <1>3, <3>1, <3>2
  <2>2. Received(f, change) = AlteredWithin(f, change)
    BY <2>1 DEF Received
  <2>3. Near(AlteredWithin(f, change), f)
    BY <1>1, <1>3, AlteredWithinIsNear
  <2> QED BY <2>2, <2>3, NearIsConfirmedFrom
<1>4. ASSUME change.kind = "body", change.change \in ChangesOf(body) \cup Within(body)
      PROVE  ConfirmedFrom(Received(f, change), m, body)
  BY <1>4, BodyIsChanged
<1> QED BY <1>2, <1>3, <1>4

-----------------------------------------------------------------------------
(* What is decoded of it.                                                  *)

LEMMA ConfirmedDecoded ==
  ASSUME NEW pb, ConfirmedTransactionFromPb(pb).result = "SUCCESS"
  PROVE  LET made     == ConfirmedTransactionFromPb(pb)
             signed   == GradidoTransactionFromPb(pb.transaction)
             balances == Every(pb.account_balances, AccountBalanceFromPbtools)
         IN  /\ signed.result = "SUCCESS" /\ made.value.transaction = signed.value
             /\ pb.running_hash.size = HashSize
             /\ made.value.running_hash = pb.running_hash.data
             /\ balances.result = "SUCCESS" /\ made.value.account_balances = balances.value
<1> DEFINE made == ConfirmedTransactionFromPb(pb)
           signed == GradidoTransactionFromPb(pb.transaction)
           confirmed == TimestampFromPbtools(pb.confirmed_at)
           anchor == LedgerAnchorFromPbtools(pb.ledger_anchor)
           balances == Every(pb.account_balances, AccountBalanceFromPbtools)
<1>1. made = IF pb.version_number # ProtocolVersion THEN Failure("PB_INCORRECT_VERSION")
             ELSE IF signed.result # "SUCCESS" THEN signed
             ELSE IF confirmed.result # "SUCCESS" THEN confirmed
             ELSE IF pb.running_hash.size # HashSize THEN Failure("INVALID_PARAM")
             ELSE IF anchor.result # "SUCCESS" THEN anchor
             ELSE IF Len(pb.account_balances) >= MaxCount THEN Failure("ARRAY_INDEX_OUT_OF_BOUNDS")
             ELSE IF balances.result # "SUCCESS" THEN balances
             ELSE Success([id |-> pb.id, transaction |-> signed.value,
                           confirmed_at |-> confirmed.value,
                           running_hash |-> pb.running_hash.data, ledger_anchor |-> anchor.value,
                           account_balances |-> balances.value])
  <2> HIDE DEF signed, confirmed, anchor, balances
  <2> QED BY DEF ConfirmedTransactionFromPb, Then, signed, confirmed, anchor, balances
<1>2. made.result = "SUCCESS"
  OBVIOUS
<1> HIDE DEF made, signed, confirmed, anchor, balances
<1> QED BY <1>1, <1>2 DEF Success, Failure, made, signed, balances

LEMMA SignedDecoded ==
  ASSUME NEW pb, GradidoTransactionFromPb(pb).result = "SUCCESS"
  PROVE  LET made  == GradidoTransactionFromPb(pb)
             pairs == Every(IF pb.sig_map = NULL THEN <<>> ELSE pb.sig_map.sig_pair,
                            SignaturePairFromPbtools)
         IN  /\ pb # NULL
             /\ pairs.result = "SUCCESS" /\ made.value.sig_map = pairs.value
             /\ pb.body_bytes.size # 0 /\ made.value.body_bytes = pb.body_bytes
<1> DEFINE made == GradidoTransactionFromPb(pb)
           list == IF pb.sig_map = NULL THEN <<>> ELSE pb.sig_map.sig_pair
           pairs == Every(list, SignaturePairFromPbtools)
           anchor == IF pb.pairing_ledger_anchor = NULL THEN Success(NoAnchor)
                     ELSE LedgerAnchorFromPbtools(pb.pairing_ledger_anchor)
           block == MemoryBlockFromPbtools(pb.body_bytes)
<1>1. made = IF pb = NULL THEN Failure("NULL_POINTER")
             ELSE IF Len(list) >= MaxCount THEN Failure("ARRAY_INDEX_OUT_OF_BOUNDS")
             ELSE IF pairs.result # "SUCCESS" THEN pairs
             ELSE IF anchor.result # "SUCCESS" THEN anchor
             ELSE IF block.result # "SUCCESS" THEN block
             ELSE Success([sig_map |-> pairs.value, body_bytes |-> block.value,
                           pairing_ledger_anchor |-> anchor.value])
  <2> HIDE DEF list, pairs, anchor, block
  <2> QED BY DEF GradidoTransactionFromPb, NotNull, Then, list, pairs, anchor, block
<1>2. made.result = "SUCCESS"
  OBVIOUS
<1>3. block.result = "SUCCESS" => pb.body_bytes.size # 0 /\ block.value = pb.body_bytes
  BY DEF MemoryBlockFromPbtools, Success, Failure
<1> HIDE DEF made, list, pairs, anchor, block
<1> QED BY <1>1, <1>2, <1>3 DEF Success, Failure, made, list, pairs

\* The signatures are those that were sent, or none.
LEMMA PairsAreKept ==
  ASSUME NullIsNoRecord, NEW list, IsListOf(list, IsSignaturePair), Len(list) < MaxCount,
         NEW u, NEW body, SignedFrom(u, SignatureMapFromWire(list), body), NEW room
  PROVE  Every(PairsRead(u, room), SignaturePairFromPbtools) \in {Success(list), Success(<<>>)}
<1> DEFINE map == SignatureMapFromWire(list)
           sent == EncodeSignatureMap(map)
           f1 == Message(1, map, EncodeSignatureMap)
<1>1. \A f : Same(f, f1, {1}) =>
        Every(PairsRead(f, room), SignaturePairFromPbtools)
          = Success(IF "sig_pair" \in room THEN list ELSE <<>>)
  BY SignatureMapPiece
<1>2. CASE ~Present(u, 1)
  <2>1. PairsRead(u, room) = <<>>
    BY <1>2 DEF PairsRead, ReadMessage
  <2>2. Every(<<>>, SignaturePairFromPbtools) = Success(<<>>)
    BY DEF Every
  <2> QED BY <2>1, <2>2
<1>3. CASE Present(u, 1)
  <2> DEFINE e == LastOf(u, {1})
  <2>1. e \in Range(u) /\ e.tag = 1
    BY <1>3, FieldIsRead DEF SignedFrom, Present
  <2>2. map # NULL /\ e = MessageField(1, sent)
    BY <2>1 DEF SignedFrom
  <2>3. f1 = << MessageField(1, sent) >>
    BY <2>2 DEF Message, MessageAlways, MessageField
  <2> HIDE DEF e, f1, map, sent
  <2>4. Places(f1, {1}) # {} /\ LastOf(f1, {1}) = MessageField(1, sent)
    <3>1. 1 \in 1..14 /\ f1 = <<[tag |-> 1, message |-> sent]>>
      BY <2>3 DEF MessageField
    <3>2. Tagged(f1) /\ Range(f1) = {MessageField(1, sent)}
      <4>1. Tagged(<<[tag |-> 1, message |-> sent]>>)
        BY <3>1, TaggedPieces
      <4> QED BY <2>3, <3>1, <4>1, RangeOfOne
    <3>3. DOMAIN f1 = {1} /\ f1[1] = MessageField(1, sent) /\ MessageField(1, sent).tag = 1
      BY <2>3 DEF MessageField
    <3>4. Number(f1[1]) = 1
      BY <3>2, <3>3, FieldIsRead
    <3>5. 1 \in Places(f1, {1})
      BY <3>3, <3>4 DEF Places
    <3> QED BY <3>2, <3>5, FieldIsRead
  <2>5. Same(u, f1, {1})
    BY <1>3, <2>2, <2>4 DEF Same, Present, e
  <2> QED BY <1>1, <2>5 DEF f1, map
<1> QED BY <1>2, <1>3

\* A list that is made is made of every one of its items.
LEMMA EveryBalance ==
  ASSUME NEW items, NEW n \in Nat, DOMAIN items = 1..n,
         Every(items, AccountBalanceFromPbtools).result = "SUCCESS"
  PROVE  /\ \A i \in 1..n : AccountBalanceFromPbtools(items[i]).result = "SUCCESS"
         /\ Every(items, AccountBalanceFromPbtools).value
              = [i \in 1..n |-> AccountBalanceFromPbtools(items[i]).value]
<1> DEFINE one(i) == AccountBalanceFromPbtools(items[i])
           made == [i \in DOMAIN items |-> one(i)]
           failed == {i \in DOMAIN items : made[i].result # "SUCCESS"}
           first == CHOOSE i \in failed : \A j \in failed : i <= j
<1>1. Every(items, AccountBalanceFromPbtools)
        = IF failed = {} THEN Success([i \in DOMAIN items |-> made[i].value])
          ELSE Failure(made[first].result)
  BY DEF Every
<1>2. failed = {}
  <2> SUFFICES ASSUME failed # {} PROVE FALSE
    OBVIOUS
  <2>1. failed \in SUBSET Nat
    OBVIOUS
  <2>2. \A i \in failed : made[i].result # "SUCCESS"
    OBVIOUS
  <2> HIDE DEF failed, made
  <2>3. \E i \in failed : \A j \in failed : i <= j
    BY <2>1, LeastNumber
  <2>4. first \in failed
    BY <2>3
  <2> HIDE DEF first
  <2>5. made[first].result # "SUCCESS"
    BY <2>2, <2>4
  <2>6. made[first].result = "SUCCESS"
    BY <1>1 DEF Failure
  <2> QED BY <2>5, <2>6
<1>3. \A i \in 1..n : one(i).result = "SUCCESS"
  BY <1>2
<1>4. Every(items, AccountBalanceFromPbtools) = Success([i \in DOMAIN items |-> one(i).value])
  <2>1. [i \in DOMAIN items |-> made[i].value] = [i \in DOMAIN items |-> one(i).value]
    OBVIOUS
  <2> HIDE DEF failed, made
  <2> QED BY <1>1, <1>2, <2>1
<1>5. [i \in DOMAIN items |-> one(i).value] = [i \in 1..n |-> one(i).value]
  <2> HIDE DEF one
  <2> QED OBVIOUS
<1> HIDE DEF one
<1> QED BY <1>3, <1>4, <1>5 DEF Success, one

LEMMA BalanceItems ==
  ASSUME NEW g, Tagged(g), NEW hasRoom
  PROVE  LET items == ReadRepeated(g, 7, DecodeAccountBalance, hasRoom)
         IN  \E n \in Nat : /\ DOMAIN items = 1..n
                           /\ \A i \in 1..n : \E e \in Range(g) :
                                e.tag = 7 /\ items[i] = DecodeAccountBalance(e.message)
<1> DEFINE items == ReadRepeated(g, 7, DecodeAccountBalance, hasRoom)
           places == Places(g, {7})
           n == Cardinality(places)
<1>1. CASE ~hasRoom
  <2>1. items = [i \in 1..Cardinality({}) |->
                   DecodeAccountBalance(g[ItemAt({}, i)].message)]
    BY <1>1 DEF ReadRepeated, ItemAt
  <2>2. Cardinality({}) = 0
    BY FS_EmptySet
  <2>3. DOMAIN items = 1..0 /\ 0 \in Nat
    BY <2>1, <2>2
  <2> HIDE DEF items
  <2>4. \A i \in 1..0 : FALSE
    OBVIOUS
  <2> QED BY <2>3, <2>4 DEF items
<1>2. CASE hasRoom
  <2>1. items = [i \in 1..n |-> DecodeAccountBalance(g[ItemAt(places, i)].message)]
    BY <1>2 DEF ReadRepeated, ItemAt
  <2>2. n \in Nat
    <3>1. Len(g) \in Nat /\ DOMAIN g = 1..Len(g)
      BY TaggedFields
    <3>2. places \in SUBSET (1..Len(g)) /\ IsFiniteSet(1..Len(g))
      BY <3>1, FS_Interval DEF Places
    <3> QED BY <3>2, FS_Subset, FS_CardinalityType
  <2>3. ASSUME NEW i \in 1..n
        PROVE  \E e \in Range(g) : e.tag = 7 /\ items[i] = DecodeAccountBalance(e.message)
    <3> DEFINE e == g[ItemAt(places, i)]
    <3>1. e \in Range(g) /\ e.tag = 7
      BY ItemIsAField, ZenonT(40)
    <3>2. items[i] = DecodeAccountBalance(e.message)
      BY <2>1
    <3> HIDE DEF e
    <3> QED BY <3>1, <3>2
  <2>4. DOMAIN items = 1..n
    BY <2>1
  <2> HIDE DEF items, n
  <2> QED BY <2>2, <2>3, <2>4 DEF items
<1> QED BY <1>1, <1>2

\* The balances name accounts of those that were sent.
LEMMA BalancesAreKept ==
  ASSUME NEW m, NEW g, NEW body, ConfirmedFrom(g, m, body), NEW list, DOMAIN m.account_balances = DOMAIN list,
         \A i \in DOMAIN list : m.account_balances[i].pubkey = BytesOf(KeySize, list[i].pubkey),
         NEW hasRoom,
         LET items == ReadRepeated(g, 7, DecodeAccountBalance, hasRoom)
         IN  Every(items, AccountBalanceFromPbtools).result = "SUCCESS"
  PROVE  LET items == ReadRepeated(g, 7, DecodeAccountBalance, hasRoom)
         IN  {b.pubkey : b \in Range(Every(items, AccountBalanceFromPbtools).value)}
               \subseteq {b.pubkey : b \in Range(list)}
<1> DEFINE items == ReadRepeated(g, 7, DecodeAccountBalance, hasRoom)
           made == Every(items, AccountBalanceFromPbtools)
           one(i) == AccountBalanceFromPbtools(items[i])
<1>1. PICK n \in Nat : /\ DOMAIN items = 1..n
                       /\ \A i \in 1..n : \E e \in Range(g) :
                            e.tag = 7 /\ items[i] = DecodeAccountBalance(e.message)
  BY BalanceItems, ZenonT(40) DEF ConfirmedFrom, Only
<1>2. /\ \A i \in 1..n : one(i).result = "SUCCESS"
      /\ made.value = [i \in 1..n |-> one(i).value]
  <2> HIDE DEF items
  <2> QED BY <1>1, EveryBalance DEF items
<1>3. ASSUME NEW i \in 1..n
      PROVE  \E j \in DOMAIN list : one(i).value.pubkey = list[j].pubkey
  <2>1. PICK e \in Range(g) : e.tag = 7 /\ items[i] = DecodeAccountBalance(e.message)
    BY <1>1
  <2>4. PICK j \in DOMAIN list : Kin(e.message, EncodeAccountBalance(m.account_balances[j]))
    BY <2>1 DEF ConfirmedFrom
  <2> DEFINE h == e.message
             pb == DecodeAccountBalance(h)
  <2>5. one(i).result = "SUCCESS" /\ one(i) = AccountBalanceFromPbtools(pb)
    BY <1>2, <2>1
  <2>6. pb.pubkey.size = KeySize /\ AccountBalanceFromPbtools(pb).value.pubkey = pb.pubkey.data
    <3> DEFINE uuid == CommunityUuidFromPbtools(pb.community_uuid)
    <3>1. AccountBalanceFromPbtools(pb).result = "SUCCESS"
      BY <2>5
    <3> HIDE DEF pb
    <3>2. AccountBalanceFromPbtools(pb) =
            IF pb.pubkey.size # KeySize THEN Failure("INVALID_PARAM")
            ELSE IF uuid.result # "SUCCESS" THEN uuid
            ELSE Success([pubkey |-> pb.pubkey.data, balance |-> pb.balance,
                          community_uuid |-> uuid.value])
      BY DEF AccountBalanceFromPbtools, Then
    <3> HIDE DEF uuid
    <3> QED BY <3>1, <3>2 DEF Success, Failure
  <2>7. pb.pubkey = ReadBytes(h, 1)
    BY DEF DecodeAccountBalance
  <2> HIDE DEF pb, h
  <2>8. ReadBytes(h, 1).data = list[j].pubkey
    <3> DEFINE f == EncodeAccountBalance(m.account_balances[j])
    <3>1. Only(f, 1, BytesField(1, BytesOf(KeySize, list[j].pubkey)))
      BY BalanceIsSent
    <3>2. Near(h, f)
      BY <2>4, KinIsNear DEF h
    <3>3. ReadBytes(h, 1).size = KeySize
      BY <2>6, <2>7
    <3> HIDE DEF f
    <3> QED BY <3>1, <3>2, <3>3, KeptKey DEF KeySize
  <2> QED BY <2>5, <2>6, <2>7, <2>8
<1> HIDE DEF items, one
<1>4. \A b \in Range(made.value) : \E i \in 1..n : b = one(i).value
  BY <1>2 DEF Range
<1> HIDE DEF made
<1>5. \A b \in Range(made.value) : \E c \in Range(list) : b.pubkey = c.pubkey
  <2> TAKE b \in Range(made.value)
  <2>1. PICK i \in 1..n : b = one(i).value
    BY <1>4
  <2>2. PICK j \in DOMAIN list : one(i).value.pubkey = list[j].pubkey
    BY <1>3
  <2>3. list[j] \in Range(list) /\ b.pubkey = list[j].pubkey
    BY <2>1, <2>2 DEF Range
  <2> QED BY <2>3
<1> QED BY <1>5 DEF made, items

-----------------------------------------------------------------------------
(* So no key is made up.                                                   *)

\* A transaction of the wire form as it is sent.
LEMMA ConfirmedSent ==
  ASSUME NullIsNoRecord, NEW w, IsConfirmedTransaction(w), ConfirmedTransactionFromWire(w).result = "SUCCESS",
         NEW size \in 1..MaxAlloc, NEW body, w.transaction.body_bytes = BytesOf(size, body)
  PROVE  LET m == ConfirmedTransactionFromWire(w).value
             balances == w.account_balances
         IN  /\ m.transaction # NULL /\ m.transaction.body_bytes = BytesOf(size, body)
             /\ m.transaction.sig_map = SignatureMapFromWire(w.transaction.sig_map)
             /\ Len(w.transaction.sig_map) < MaxCount
             /\ m.running_hash = BytesOf(HashSize, w.running_hash)
             /\ \E k \in Nat : DOMAIN balances = 1..k /\ DOMAIN m.account_balances = 1..k
             /\ \A i \in DOMAIN balances :
                  m.account_balances[i].pubkey = BytesOf(KeySize, balances[i].pubkey)
<1> DEFINE made == ConfirmedTransactionFromWire(w)
           first == GradidoTransactionFromWire(w.transaction)
           balances == w.account_balances
           pbs == [i \in DOMAIN balances |-> AccountBalanceFromWire(balances[i])]
           anchor == LedgerAnchorFromWire(w.ledger_anchor)
           at == TimestampFromWire(w.confirmed_at)
<1>1. /\ IsGradidoTransaction(w.transaction) /\ IsListOf(balances, IsAccountBalance)
      /\ IsListOf(w.transaction.sig_map, IsSignaturePair)
  BY DEF IsConfirmedTransaction, IsGradidoTransaction
<1>2. /\ first.result = "SUCCESS" /\ made.value.transaction = first.value
      /\ made.value.running_hash = BytesOf(HashSize, w.running_hash)
      /\ made.value.account_balances = pbs
  <2>1. made = IF first.result # "SUCCESS" THEN first
               ELSE IF Len(balances) >= MaxCount THEN Failure("ARRAY_INDEX_OUT_OF_BOUNDS")
               ELSE Success([id |-> w.id, transaction |-> first.value, confirmed_at |-> at,
                             version_number |-> ProtocolVersion,
                             running_hash |-> BytesOf(HashSize, w.running_hash),
                             ledger_anchor |-> anchor, account_balances |-> pbs])
    <3> HIDE DEF first
    <3> QED BY DEF ConfirmedTransactionFromWire, Then, first
  <2>2. made.result = "SUCCESS"
    OBVIOUS
  <2> HIDE DEF made, first, pbs, anchor, at, balances
  <2> QED BY <2>1, <2>2 DEF Success, Failure
<1>3. /\ ~(Len(w.transaction.sig_map) >= MaxCount) /\ first.value # NULL
  <2>1. size \in 1..MaxAlloc /\ w.transaction.body_bytes.data = body
    BY DEF BytesOf
  <2>2. w.transaction.body_bytes = BytesOf(size, w.transaction.body_bytes.data)
    BY <2>1
  <2>3. IF Len(w.transaction.sig_map) >= MaxCount
        THEN first = Failure("ARRAY_INDEX_OUT_OF_BOUNDS")
        ELSE first.value # NULL
    <3> HIDE DEF first
    <3> QED BY <1>1, <2>2, SignedArrives DEF first
  <2> HIDE DEF first
  <2> QED BY <1>2, <2>3 DEF Failure
<1>4. /\ first.value.sig_map = SignatureMapFromWire(w.transaction.sig_map)
      /\ first.value.body_bytes = BytesOf(size, body)
  <2>1. w.transaction.body_bytes.size # 0
    BY MaxAllocAssumption DEF BytesOf
  <2>2. MemoryBlockFromWire(w.transaction.body_bytes) = BytesOf(size, body)
    BY <2>1 DEF MemoryBlockFromWire
  <2> QED BY <1>3, <2>2 DEF GradidoTransactionFromWire, SignatureMapFromWire, Success
<1>5. Len(w.transaction.sig_map) < MaxCount
  <2>1. Len(w.transaction.sig_map) \in Nat
    BY <1>1, ListIsIndexed DEF IsListOf
  <2> QED BY <1>3, <2>1, MaxCountAssumption
<1>6. \E k \in Nat : DOMAIN balances = 1..k /\ DOMAIN pbs = 1..k
  BY <1>1, ListIsIndexed DEF IsListOf
<1>7. \A i \in DOMAIN balances : pbs[i].pubkey = BytesOf(KeySize, balances[i].pubkey)
  BY DEF AccountBalanceFromWire
<1> HIDE DEF made, first, pbs
<1> QED BY <1>2, <1>3, <1>4, <1>5, <1>6, <1>7 DEF made

LEMMA ConfirmedIsKept ==
  ASSUME NullIsNoRecord, NEW w, IsConfirmedTransaction(w),
         ConfirmedTransactionFromWire(w).result = "SUCCESS",
         NEW size \in 1..MaxAlloc, NEW body, w.transaction.body_bytes = BytesOf(size, body),
         NEW g, ConfirmedFrom(g, ConfirmedTransactionFromWire(w).value, body), NEW room,
         ConfirmedTransactionDecode(g, room).result = "SUCCESS"
  PROVE  LET wire == ConfirmedTransactionDecode(g, room).value
         IN  /\ wire.running_hash = w.running_hash
             /\ Range(wire.transaction.sig_map) \subseteq Range(w.transaction.sig_map)
             /\ {b.pubkey : b \in Range(wire.account_balances)}
                  \subseteq {b.pubkey : b \in Range(w.account_balances)}
             /\ Near(wire.transaction.body_bytes.data, body)
<1> DEFINE m == ConfirmedTransactionFromWire(w).value
           pb == DecodeConfirmedTransaction(g, room)
           made == ConfirmedTransactionDecode(g, room)
           signed == GradidoTransactionFromPb(pb.transaction)
           items == pb.account_balances
           balances == Every(items, AccountBalanceFromPbtools)
           map == SignatureMapFromWire(w.transaction.sig_map)
<1>1. /\ m.transaction.sig_map = map /\ Len(w.transaction.sig_map) < MaxCount
      /\ m.running_hash = BytesOf(HashSize, w.running_hash)
      /\ DOMAIN m.account_balances = DOMAIN w.account_balances
      /\ \A i \in DOMAIN w.account_balances :
           m.account_balances[i].pubkey = BytesOf(KeySize, w.account_balances[i].pubkey)
  BY ConfirmedSent
<1>2. ConfirmedFrom(g, m, body)
  OBVIOUS
<1>3. IsListOf(w.transaction.sig_map, IsSignaturePair)
  BY DEF IsConfirmedTransaction, IsGradidoTransaction
<1> HIDE DEF m
<1>4. made = ConfirmedTransactionFromPb(pb) /\ made.result = "SUCCESS"
  BY DEF ConfirmedTransactionDecode, Failure
<1> DEFINE Transaction(h) == DecodeGradidoTransaction(h, room)
<1>5. /\ pb.running_hash = ReadBytes(g, 5)
      /\ items = ReadRepeated(g, 7, DecodeAccountBalance, "account_balances" \in room)
      /\ pb.transaction = IF Present(g, 2) THEN DecodeGradidoTransaction(LastOf(g, {2}).message, room)
                          ELSE NULL
  BY DEF DecodeConfirmedTransaction, ReadMessage
<1> HIDE DEF made, pb
<1>6. /\ signed.result = "SUCCESS" /\ made.value.transaction = signed.value
      /\ pb.running_hash.size = HashSize /\ made.value.running_hash = pb.running_hash.data
      /\ balances.result = "SUCCESS" /\ made.value.account_balances = balances.value
  BY <1>4, ConfirmedDecoded
<1>7. made.value.running_hash = w.running_hash
  <2>1. Only(g, 5, BytesField(5, BytesOf(HashSize, w.running_hash)))
    BY <1>1, <1>2 DEF ConfirmedFrom
  <2>2. Near(g, g) /\ 5 \in 1..13 /\ HashSize # 0
    BY <2>1, KinItself DEF Only, HashSize
  <2> QED BY <1>5, <1>6, <2>1, <2>2, KeptKey
<1>8. {b.pubkey : b \in Range(balances.value)} \subseteq {b.pubkey : b \in Range(w.account_balances)}
  <2> DEFINE hasRoom == "account_balances" \in room
             read == ReadRepeated(g, 7, DecodeAccountBalance, hasRoom)
  <2>1. Every(read, AccountBalanceFromPbtools).result = "SUCCESS"
    BY <1>5, <1>6
  <2> HIDE DEF hasRoom
  <2>2. {b.pubkey : b \in Range(Every(read, AccountBalanceFromPbtools).value)}
          \subseteq {b.pubkey : b \in Range(w.account_balances)}
    BY <1>1, <1>2, <2>1, BalancesAreKept
  <2> QED BY <1>5, <2>2 DEF hasRoom
<1> DEFINE u == LastOf(g, {2}).message
           t == pb.transaction
<1>9. /\ t # NULL /\ t.body_bytes.size # 0 /\ signed.value.body_bytes = t.body_bytes
      /\ LET pairs == Every(IF t.sig_map = NULL THEN <<>> ELSE t.sig_map.sig_pair,
                            SignaturePairFromPbtools)
         IN  signed.value.sig_map = pairs.value
  BY <1>6, SignedDecoded
<1>10. Present(g, 2) /\ t = DecodeGradidoTransaction(u, room)
  BY <1>5, <1>9
<1>11. SignedFrom(u, map, body)
  <2>1. Tagged(g)
    BY <1>2 DEF ConfirmedFrom, Only
  <2>2. LastOf(g, {2}) \in Range(g) /\ LastOf(g, {2}).tag = 2
    BY <1>10, <2>1, FieldIsRead DEF Present
  <2> QED BY <1>1, <1>2, <2>2 DEF ConfirmedFrom
<1> HIDE DEF u, map
<1>12. /\ t.body_bytes = ReadBytes(u, 2)
       /\ PairsRead(u, room) = IF t.sig_map = NULL THEN <<>> ELSE t.sig_map.sig_pair
  BY <1>10 DEF DecodeGradidoTransaction, PairsRead
<1>13. Near(t.body_bytes.data, body)
  <2>1. Present(u, 2) /\ t.body_bytes = LastOf(u, {2}).bytes
    BY <1>9, <1>12 DEF ReadBytes, NoBytes, BytesOf
  <2>2. LastOf(u, {2}) \in Range(u) /\ LastOf(u, {2}).tag = 2
    BY <1>11, <2>1, FieldIsRead DEF SignedFrom, Present
  <2> QED BY <1>11, <2>1, <2>2 DEF SignedFrom
<1>14. Range(signed.value.sig_map) \subseteq Range(w.transaction.sig_map)
  <2> DEFINE list == w.transaction.sig_map
             pairs == Every(PairsRead(u, room), SignaturePairFromPbtools)
  <2>1. pairs \in {Success(list), Success(<<>>)}
    BY <1>1, <1>3, <1>11, PairsAreKept DEF map
  <2>2. signed.value.sig_map = pairs.value
    BY <1>9, <1>12
  <2>3. pairs.value \in {list, <<>>}
    <3> HIDE DEF pairs, list
    <3> QED BY <2>1 DEF Success
  <2> HIDE DEF pairs, signed
  <2> QED BY <2>2, <2>3, RangeOfOne
<1> HIDE DEF signed, balances, t
<1> QED BY <1>6, <1>7, <1>8, <1>9, <1>13, <1>14 DEF made, t

LEMMA BodyIsTagged ==
  ASSUME NEW w, IsTransactionBody(w)
  PROVE  Tagged(EncodeTransactionBody(TransactionBodyFromWire(w)))
<1> DEFINE m == TransactionBodyFromWire(w)
           f == EncodeSpecific(m.data)
<1>1. m.data = SpecificFromWire(w.transaction_type, w.data) /\ w.transaction_type \in Types
  BY DEF TransactionBodyFromWire, IsTransactionBody
<1>2. PICK k \in Nat : DOMAIN m.memos = 1..k
  <2>1. PICK k \in Nat : DOMAIN w.memos = 1..k
    BY ListIsIndexed DEF IsTransactionBody, IsListOf
  <2> QED BY <2>1 DEF TransactionBodyFromWire
<1> HIDE DEF m
<1>3. \E e : Only(f, 6, e)
  <2>1. m.data.number \in Specific \cup {0} /\ 6 \in Specific
    BY <1>1, NumberOfPart DEF Specific
  <2>2. /\ 6 # m.data.number => Only(f, 6, 0)
        /\ 6 = m.data.number => Only(f, 6, MessageField(6, PartEncoded(m.data)))
    BY <2>1, SpecificIsSent
  <2> QED BY <2>2
<1>4. PICK e : Only(f, 6, e)
  BY <1>3
<1>5. 6 \in Specific
  BY DEF Specific
<1>6. Only(EncodeTransactionBody(m), 6, e)
  BY <1>2, <1>4, <1>5, BodyIsSent
<1> QED BY <1>6 DEF Only, m

\* What arrives is what was sent, or what one change has made of it; and a transaction that was
\* read has a layout.
ArrivedChanged ==
  arrived = [kind |-> "unchanged"] \/ (binary # NULL /\ arrived \in Changes(binary))

ReadIsLaidOut == Read => decoding.body.transaction_type \in LaidOut

KeyInv == CodecInv /\ ArrivedChanged /\ ReadIsLaidOut

LEMMA KeyInitially ==
  ASSUME Init
  PROVE  KeyInv
BY CodecInitially DEF Init, KeyInv, ArrivedChanged, ReadIsLaidOut, Read

LEMMA InitFromProtobufLaysOut ==
  ASSUME NEW room, NEW answer, InitFromProtobuf(room, answer)
  PROVE  ReadIsLaidOut'
<1> DEFINE fields == Received(binary, arrived)
           wire   == ConfirmedTransactionDecode(fields, room)
           body   == BodyDecoded(fields, room)
           whole  == CompleteTransactionFromWire(body.value, wire.value, Community, answer)
           made   == IF body.result # "SUCCESS" THEN [result |-> body.result, tx |-> tx] ELSE whole
<1>1. decoding' = [result |-> made.result, room |-> room, wire |-> wire.value,
                   body |-> body.value, peeked |-> PeekId(fields)]
  BY DEF InitFromProtobuf, BodyDecoded
<1> HIDE DEF wire, body
<1>2. body.value.transaction_type \notin LaidOut => whole.result # "SUCCESS"
  BY DEF CompleteTransactionFromWire
<1> HIDE DEF whole
<1>3. made.result = "SUCCESS" => body.value.transaction_type \in LaidOut
  BY <1>2
<1>4. decoding'.result = made.result /\ decoding'.body = body.value
  BY <1>1
<1> QED BY <1>3, <1>4 DEF ReadIsLaidOut, Read

LEMMA KeyKept ==
  ASSUME NullIsNoRecord, KeyInv, [Next]_vars
  PROVE  KeyInv'
<1>1. CodecInv'
  BY CodecKept DEF KeyInv
<1>2. ASSUME UNCHANGED <<binary, arrived>> PROVE ArrivedChanged'
  <2>1. Changes(binary)' = Changes(binary)
    BY <1>2
  <2> QED BY <1>2, <2>1 DEF KeyInv, ArrivedChanged
<1>3. ASSUME UNCHANGED decoding PROVE ReadIsLaidOut'
  BY <1>3 DEF KeyInv, ReadIsLaidOut, Read
<1>4. ASSUME NEW c \in Compositions, Compose(c) PROVE ArrivedChanged' /\ ReadIsLaidOut'
  BY <1>2, <1>3, <1>4 DEF Compose
<1>5. ASSUME NEW room \in BufferSizes, EncodeBody(room) PROVE ArrivedChanged' /\ ReadIsLaidOut'
  BY <1>2, <1>3, <1>5 DEF EncodeBody
<1>6. ASSUME NEW room \in BufferSizes, EncodeConfirmed(room) PROVE ArrivedChanged' /\ ReadIsLaidOut'
  <2>1. binary = NULL /\ UNCHANGED <<arrived, decoding>>
    BY <1>6 DEF EncodeConfirmed
  <2>2. arrived' = [kind |-> "unchanged"]
    BY <2>1 DEF KeyInv, ArrivedChanged
  <2> QED BY <1>3, <2>1, <2>2 DEF ArrivedChanged
<1>7. ASSUME binary # NULL, NEW change \in Changes(binary), Arrive(change)
      PROVE  ArrivedChanged' /\ ReadIsLaidOut'
  <2>1. arrived' = change /\ UNCHANGED <<binary, decoding>>
    BY <1>7 DEF Arrive
  <2>2. Changes(binary)' = Changes(binary)
    BY <2>1
  <2> QED BY <1>3, <1>7, <2>1, <2>2 DEF ArrivedChanged
<1>8. ASSUME NEW room \in SUBSET Lists, NEW answer \in EmptyClones, InitFromProtobuf(room, answer)
      PROVE  ArrivedChanged' /\ ReadIsLaidOut'
  <2>1. UNCHANGED <<binary, arrived>>
    BY <1>8 DEF InitFromProtobuf
  <2> QED BY <1>2, <1>8, <2>1, InitFromProtobufLaysOut
<1>9. ASSUME DecodeOutOfMemory PROVE ArrivedChanged' /\ ReadIsLaidOut'
  <2>1. UNCHANGED <<binary, arrived>> /\ decoding'.result = "OUT_OF_MEMORY"
    BY <1>9 DEF DecodeOutOfMemory
  <2> QED BY <1>2, <2>1 DEF ReadIsLaidOut, Read
<1>10. ASSUME WriteJson PROVE ArrivedChanged' /\ ReadIsLaidOut'
  BY <1>2, <1>3, <1>10 DEF WriteJson
<1>11. ASSUME NEW edit, NEW answer, ReadJson(edit, answer) PROVE ArrivedChanged' /\ ReadIsLaidOut'
  BY <1>2, <1>3, <1>11 DEF ReadJson
<1>12. ASSUME ReadOutOfMemory PROVE ArrivedChanged' /\ ReadIsLaidOut'
  BY <1>2, <1>3, <1>12 DEF ReadOutOfMemory
<1>13. ASSUME Release PROVE ArrivedChanged' /\ ReadIsLaidOut'
  BY <1>13 DEF Release, ArrivedChanged, ReadIsLaidOut, Read
<1>14. ASSUME UNCHANGED vars PROVE ArrivedChanged' /\ ReadIsLaidOut'
  BY <1>2, <1>3, <1>14 DEF vars
<1>15. ArrivedChanged' /\ ReadIsLaidOut'
  BY <1>4, <1>5, <1>6, <1>7, <1>8, <1>9, <1>10, <1>11, <1>12, <1>13, <1>14 DEF Next
<1> QED BY <1>1, <1>15 DEF KeyInv

LEMMA KeysAreKept ==
  ASSUME NullIsNoRecord, KeyInv
  PROVE  NoKeyIsMadeUp
<1> SUFFICES ASSUME Read
             PROVE  LET wire == decoding.wire
                        sent == composed.confirmed
                    IN  /\ wire.running_hash = sent.running_hash
                        /\ KeysOf(decoding.body) = KeysOf(composed.body)
                        /\ Range(wire.transaction.sig_map) \subseteq Range(sent.transaction.sig_map)
                        /\ {b.pubkey : b \in Range(wire.account_balances)}
                             \subseteq {b.pubkey : b \in Range(sent.account_balances)}
  BY DEF NoKeyIsMadeUp
<1> DEFINE fields == Received(binary, arrived)
           room   == decoding.room
           wire   == ConfirmedTransactionDecode(fields, room)
           body   == BodyDecoded(fields, room)
           w      == composed.confirmed
           m      == ConfirmedTransactionFromWire(w).value
           size   == EncodedSize(BodySent)
<1>1. /\ decoding # NULL /\ decoding.result = "SUCCESS" /\ decoding.body.transaction_type \in LaidOut
  BY DEF Read, KeyInv, ReadIsLaidOut
<1>2. /\ binary # NULL /\ decoding.wire = wire.value /\ decoding.body = body.value
      /\ body.result = "SUCCESS"
  BY <1>1 DEF KeyInv, CodecInv, DecodedIsReceived
<1>3. /\ IsTransactionBody(composed.body) /\ IsConfirmedTransaction(w)
      /\ ConfirmedTransactionFromWire(w).result = "SUCCESS"
      /\ size \in 1..MaxAlloc /\ w.transaction.body_bytes = BytesOf(size, BodySent)
      /\ binary = EncodeConfirmedTransaction(m)
  BY <1>2 DEF KeyInv, CodecInv, ComposedOfForms, SentIsComposed, Signed
<1>4. Tagged(BodySent)
  BY <1>3, BodyIsTagged DEF BodySent
<1>5. arrived.kind = "unchanged" \/ arrived \in Changes(EncodeConfirmedTransaction(m))
  BY <1>3 DEF KeyInv, ArrivedChanged
<1> HIDE DEF size
<1>6. /\ m.transaction # NULL /\ m.transaction.body_bytes = BytesOf(size, BodySent)
      /\ \E k \in Nat : DOMAIN m.account_balances = 1..k
  BY <1>3, ConfirmedSent
<1>7. size # 0
  BY <1>3, MaxAllocAssumption
<1> HIDE DEF m
<1>8. ConfirmedFrom(fields, m, BodySent)
  BY <1>3, <1>4, <1>5, <1>6, <1>7, ReceivedIsConfirmedFrom
<1>9. wire.result = "SUCCESS" /\ body = TransactionBodyDecode(wire.value.transaction.body_bytes.data, room)
  BY <1>2 DEF BodyDecoded, Then
<1> HIDE DEF wire, fields, room, w
<1>10. /\ wire.value.running_hash = w.running_hash
       /\ Range(wire.value.transaction.sig_map) \subseteq Range(w.transaction.sig_map)
       /\ {b.pubkey : b \in Range(wire.value.account_balances)}
            \subseteq {b.pubkey : b \in Range(w.account_balances)}
       /\ Near(wire.value.transaction.body_bytes.data, BodySent)
  BY <1>3, <1>8, <1>9, ConfirmedIsKept DEF m, wire
<1>11. KeysOf(body.value) = KeysOf(composed.body)
  <2> DEFINE g == wire.value.transaction.body_bytes.data
  <2>1. Near(g, EncodeTransactionBody(TransactionBodyFromWire(composed.body)))
    BY <1>10 DEF BodySent
  <2>2. /\ TransactionBodyDecode(g, room).result = "SUCCESS"
        /\ TransactionBodyDecode(g, room).value.transaction_type \in LaidOut
    BY <1>1, <1>2, <1>9
  <2> HIDE DEF g
  <2>3. KeysOf(TransactionBodyDecode(g, room).value) = KeysOf(composed.body)
    BY <1>3, <2>1, <2>2, BodyIsKept
  <2> QED BY <1>9, <2>3 DEF g
<1> HIDE DEF body
<1> QED BY <1>2, <1>10, <1>11 DEF w

\* Whatever was left out, sent again, overridden or added on the way, in the message, in a message
\* in it or in the body, a transaction that is read names no key, hash or signature but those that
\* were sent (NoKeyIsMadeUp: the size checks of wire_from_pbtools.c, which refuse a missing array).
THEOREM KeysThatAreReadWereSent ==
  ASSUME NullIsNoRecord
  PROVE  Spec => []NoKeyIsMadeUp
<1>1. Init => KeyInv
  BY KeyInitially
<1>2. KeyInv /\ [Next]_vars => KeyInv'
  BY KeyKept
<1>3. KeyInv => NoKeyIsMadeUp
  BY KeysAreKept
<1> QED BY <1>1, <1>2, <1>3, PTL DEF Spec

=============================================================================
