------------------------------- MODULE Scratch -------------------------------
(***************************************************************************)
(* The arena a caller brings to the wire decoders and encoders, and what   *)
(* the wire structs hold in it (data/wire/*.c, data/wire/pb_decode.c).     *)
(*                                                                         *)
(* An arena hands out its bytes from the front and takes back only the     *)
(* block that ends where its free part begins; any other block that is     *)
(* given back stays where it is, buried, until the arena is reset.  A      *)
(* decoder takes all that is left as workspace, hands the tail back,       *)
(* copies its result behind it and gives the workspace back.               *)
(***************************************************************************)
EXTENDS Integers, Sequences, FiniteSets, SequencesExt

CONSTANTS
  Nothing,    \* a NULL pointer
  Capacity,   \* the bytes of the arena
  Workspaces, \* what pbtools may have written into a workspace
  MaxItems    \* the most items of a list here

ASSUME CapacityAssumption == Capacity \in Nat \ {0}

ASSUME MaxItemsAssumption == MaxItems \in Nat

\* pbtools puts the message itself there first.
ASSUME WorkspacesAssumption == Workspaces \subseteq Nat \ {0}

ASSUME NothingAssumption == Nothing \notin [at : Nat, size : Nat]

VARIABLES
  arena,      \* [used, live]: where its free part begins; the blocks not given back
  confirmed,  \* grdw_confirmed_transaction: [account_balances, sig_map, body_bytes]
  body,       \* grdw_transaction_body: [memos, payloads, other_community_uuid]
  freed       \* the last struct freed: [made, from, used, onTop]

vars == <<arena, confirmed, body, freed>>

-----------------------------------------------------------------------------
(* The arena (arnm).                                                       *)

Block(at, size) == [at |-> at, size |-> size]

End(block) == block.at + block.size

Room == Capacity - arena.used

Take(a, size) ==
  [used |-> a.used + size, live |-> a.live \cup {Block(a.used, size)}]

Free(a, block) ==
  IF block = Nothing THEN a
  ELSE [used |-> IF End(block) = a.used THEN block.at ELSE a.used, live |-> a.live \ {block}]

\* One after the other.
FreeAll(a, blocks) ==
  LET after[i \in 0 .. Len(blocks)] == IF i = 0 THEN a ELSE Free(after[i - 1], blocks[i])
  IN  after[Len(blocks)]

Held(blocks) == {b \in Range(blocks) : b # Nothing}

\* The bytes of the first so many.
Sums(sizes) ==
  LET sum[i \in 0 .. Len(sizes)] == IF i = 0 THEN 0 ELSE sum[i - 1] + sizes[i] IN sum

Total(sizes) == Sums(sizes)[Len(sizes)]

\* Blocks of these sizes one after the other; a list of no items is not asked for.
TakeAll(a, sizes) ==
  LET blocks == [i \in 1 .. Len(sizes) |->
                   IF sizes[i] = 0 THEN Nothing
                   ELSE Block(a.used + Sums(sizes)[i - 1], sizes[i])]
  IN  [arena  |-> [used |-> a.used + Total(sizes), live |-> a.live \cup Held(blocks)],
       blocks |-> blocks]

-----------------------------------------------------------------------------
(* The structs.  An item of a list is one byte here, a payload too.        *)

\* grdw_confirmed_transaction_init, grdw_gradido_transaction_init
NoConfirmed ==
  [made |-> "", account_balances |-> Nothing, sig_map |-> Nothing, body_bytes |-> Nothing]

\* grdw_transaction_body_init
NoBody == [made |-> "", memos |-> Nothing, payloads |-> <<>>, other_community_uuid |-> Nothing]

\* grdm_confirmed_transaction_from_pb: the inner transaction's signatures and
\* body, then the balances.
DecodedConfirmed(blocks) ==
  [made |-> "decoded", sig_map |-> blocks[1], body_bytes |-> blocks[2],
   account_balances |-> blocks[3]]

\* A host that reserves the balances before it fills in the inner transaction.
ReservedConfirmed(blocks) ==
  [made |-> "reserved", account_balances |-> blocks[1], sig_map |-> blocks[2],
   body_bytes |-> blocks[3]]

\* grdm_transaction_body_from_pbtools: the slots, each payload, then the uuid.
BodySizes(memos, uuids) == <<memos>> \o [i \in 1..memos |-> 1] \o <<uuids>>

FilledBody(made, blocks) ==
  [made |-> made, memos |-> Head(blocks), payloads |-> SubSeq(blocks, 2, Len(blocks) - 1),
   other_community_uuid |-> Last(blocks)]

\* A slip: the signatures go back before the body.
SignaturesFirst(c) == <<c.sig_map, c.body_bytes, c.account_balances>>

\* The order grdw_confirmed_transaction_free gives them back in.
ConfirmedBlocks(c) == <<c.body_bytes, c.sig_map, c.account_balances>>

\* The order grdw_transaction_body_free gives them back in.
BodyBlocks(b) == Reverse(b.payloads) \o <<b.memos, b.other_community_uuid>>

-----------------------------------------------------------------------------
(* Decoding into a struct that holds nothing.                              *)

Init ==
  /\ arena = [used |-> 0, live |-> {}]
  /\ confirmed = NoConfirmed /\ body = NoBody /\ freed = Nothing

\* The workspace is given back when something lies on it: only its end moves.
Decoded(workspace, sizes) ==
  LET made == TakeAll(Take(arena, workspace), sizes)
  IN  [made EXCEPT !.arena = Free(@, Block(arena.used, workspace))]

DecodeConfirmed(workspace, pairs, balances) ==
  LET sizes == <<pairs, 1, balances>>
      made  == Decoded(workspace, sizes)
  IN  /\ confirmed = NoConfirmed
      /\ workspace + Total(sizes) <= Room
      /\ arena' = made.arena
      /\ confirmed' = DecodedConfirmed(made.blocks)
      /\ UNCHANGED <<body, freed>>

DecodeBody(workspace, memos, uuids) ==
  LET sizes == BodySizes(memos, uuids)
      made  == Decoded(workspace, sizes)
  IN  /\ body = NoBody
      /\ workspace + Total(sizes) <= Room
      /\ arena' = made.arena
      /\ body' = FilledBody("decoded", made.blocks)
      /\ UNCHANGED <<confirmed, freed>>

(***************************************************************************)
(* Where the bytes do not decode, the workspace stays, shrunk or whole;    *)
(* where the mapping refuses what they decode to, it is given back, and    *)
(* what was copied behind it stays.  What the struct holds then nobody may *)
(* read: the caller resets the arena (pb_decode.h).                        *)
(***************************************************************************)
DecodeFails(workspace, copied) ==
  /\ Room > 0 /\ workspace + Total(copied) <= Room
  /\ \/ copied = <<>> /\ arena' = Take(arena, workspace)
     \/ arena' = Decoded(workspace, copied).arena
  /\ \/ /\ confirmed = NoConfirmed
        /\ confirmed' = [NoConfirmed EXCEPT !.made = "failed"]
        /\ UNCHANGED body
     \/ /\ body = NoBody
        /\ body' = [NoBody EXCEPT !.made = "failed"]
        /\ UNCHANGED confirmed
  /\ UNCHANGED freed

-----------------------------------------------------------------------------
(* Composing, encoding and freeing.                                        *)

ReserveConfirmed(pairs, balances) ==
  LET made == TakeAll(arena, <<balances, pairs, 1>>)
  IN  /\ confirmed = NoConfirmed
      /\ Total(<<balances, pairs, 1>>) <= Room
      /\ arena' = made.arena
      /\ confirmed' = ReservedConfirmed(made.blocks)
      /\ UNCHANGED <<body, freed>>

ReserveBody(memos) ==
  LET made == TakeAll(arena, BodySizes(memos, 0))
  IN  /\ body = NoBody
      /\ Total(BodySizes(memos, 0)) <= Room
      /\ arena' = made.arena
      /\ body' = FilledBody("reserved", made.blocks)
      /\ UNCHANGED <<confirmed, freed>>

\* The encoders take all that is left and give it back, except when the
\* mapping refuses what it is given, or finds no room for it.
Encode == arena' = Free(Take(arena, Room), Block(arena.used, Room))

EncodeRefused == arena' = Take(arena, Room)

EncodeEither ==
  /\ Room > 0
  /\ "reserved" \in {confirmed.made, body.made}
  /\ Encode \/ EncodeRefused
  /\ UNCHANGED <<confirmed, body, freed>>

\* Where a struct's blocks began, whether they were the last taken, and how
\* much of the arena is used without them.
Report(made, blocks, after) ==
  IF Held(blocks) = {} THEN Nothing
  ELSE LET from == CHOOSE at \in {b.at : b \in Held(blocks)} : \A b \in Held(blocks) : at <= b.at
       IN  [made |-> made, from |-> from, used |-> after.used,
            onTop |-> \E b \in Held(blocks) : End(b) = arena.used]

FreeConfirmed ==
  LET after == FreeAll(arena, ConfirmedBlocks(confirmed))
  IN  /\ confirmed.made # "failed"
      /\ arena' = after /\ confirmed' = NoConfirmed
      /\ freed' = Report(confirmed.made, ConfirmedBlocks(confirmed), after)
      /\ UNCHANGED body

\* A slip: the struct keeps its pointers.
FreeBodyForgetful ==
  LET after == FreeAll(arena, BodyBlocks(body))
  IN  /\ body.made # "failed"
      /\ arena' = after /\ UNCHANGED body
      /\ freed' = Report(body.made, BodyBlocks(body), after)
      /\ UNCHANGED confirmed

FreeBody ==
  LET after == FreeAll(arena, BodyBlocks(body))
  IN  /\ body.made # "failed"
      /\ arena' = after /\ body' = NoBody
      /\ freed' = Report(body.made, BodyBlocks(body), after)
      /\ UNCHANGED confirmed

\* The caller resets the arena and initialises its structs.
Reset ==
  /\ arena' = [used |-> 0, live |-> {}]
  /\ confirmed' = NoConfirmed /\ body' = NoBody /\ freed' = Nothing

Next ==
  \/ \E w \in Workspaces, p, b \in 0..MaxItems : DecodeConfirmed(w, p, b)
  \/ \E w \in Workspaces, m \in 0..MaxItems, u \in 0..1 : DecodeBody(w, m, u)
  \/ \E w \in Workspaces \cup {Room}, c \in {<<>>, <<1>>, <<1, 1>>} : DecodeFails(w, c)
  \/ \E p, b \in 0..MaxItems : ReserveConfirmed(p, b)
  \/ \E m \in 0..MaxItems : ReserveBody(m)
  \/ EncodeEither
  \/ FreeConfirmed
  \/ FreeBody
  \/ Reset

Spec == Init /\ [][Next]_vars

-----------------------------------------------------------------------------

(***************************************************************************)
(* What a struct points at is its own: no two blocks in use overlap, all   *)
(* lie before the free part of the arena, and every pointer of a struct    *)
(* leads to one of them - whatever was decoded, encoded, freed once or     *)
(* twice, and in which order.                                              *)
(***************************************************************************)
LiveBlocksStand ==
  /\ arena.used <= Capacity
  /\ \A b \in arena.live : End(b) <= arena.used
  /\ \A b, c \in arena.live : b # c => End(b) <= c.at \/ End(c) <= b.at
  /\ Held(ConfirmedBlocks(confirmed)) \cup Held(BodyBlocks(body)) \subseteq arena.live
  /\ Held(ConfirmedBlocks(confirmed)) \cap Held(BodyBlocks(body)) = {}

\* A transaction that was reserved with its balances first gives an arena back everything it
\* took, if nothing was taken after it (grdw_confirmed_transaction_free); so does a body
\* without a foreign community (grdw_transaction_body_free).
ReservedUnwinds ==
  freed # Nothing /\ freed.onTop /\ freed.made = "reserved" => freed.used = freed.from

=============================================================================
