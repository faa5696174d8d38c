# Verification of gradido-blockchain-core

TLA+ models of the chain's indices, its stores, the forms a transaction takes
on its way to them (wire, runtime, JSON), and the operations on values they all
rest on, checked with TLC on small instances and proved with TLAPS for every
value of their constants. Paths below are those of
the repository (`src/blockchain/chain.c`, `include/.../chain.h`).

## The system and its parts

The library reads confirmed transactions and answers questions about them. It
is single-threaded, keeps nothing on disk and calls nobody back except the
store it was given. What is hard in it is therefore not interleaving but
**refusal**: every add writes many containers one after the other, each of
which may find no room, and what was written before the refusal stands. The
promise is "adding it again after making room completes it" (`chain.h`).

| part | state | operations | what makes it correct |
|---|---|---|---|
| `grdb_transactions` (`blockchain/transactions.c`) | one segment's index: bit sets per address and role, per foreign coin, per type; a day table; number window and counters | init, reset, release, add; count, listing, newest, range of days | what was counted is found, under its exact role; a refused add changes no answer for what is in; 32-bit offsets never truncate |
| `grdb_addresses` (`blockchain/addresses.c`) | key map, entries, type records linked newest first, last balance numbers | init, reset, release, add; type, type_at, type_changes, last_balance | a type as of a number is history; nothing is written twice |
| `grdb_chain` (`blockchain/chain.c`) | row of segments, one register, counters, a store | init, reset, release, add, fetch, load; the queries over all segments | segments partition one gapless run; the segment size changes no answer; a transaction is in whole or not at all |
| `grdb_transactions_filter` (`blockchain/transactions_filter.c`) | a filter | init, setters | a value type: what is refused leaves it alone |
| `grdb_chain_store`, `grdb_in_memory`, `grdb_chain_ffi` | decoded transactions; one held transaction over a host's callbacks | append, append_serialized, fetch | the transaction handed out for a number is that number's |
| `grdr_complete_transaction` | a decoded transaction and the arena its parts lie in | init, release, decode from bytes; getters by type | every arena has one owner, which releases it; a getter answers out of the union member its type owns |
| `data/wire` | the blocks of an arena the caller brings | assemble, reserve, encode, decode, peek, free | what structs point at stands, whatever fails beside it; the number peeked is the number decoded |
| generated messages over pbtools (`data/proto`, `third_party/pbtools`) | none | encode, decode of 22 messages | zeros are left out and come back; of a repeated field the last counts |
| `mapping` | none between calls | wire to and from pbtools, wire to runtime, runtime to and from JSON | nothing is made up, defaulted or lost; the size worked out beforehand is the size taken |
| names of enumerations (`types`) | none | value to name and back | a value has one name, and back |
| `grdd_timestamp` | none | sums and differences of seconds and nanoseconds | exact, or pinned to the end that was passed |
| `grdd_unit` | none | rounding, printing, reading, durations, decay of amounts | rounding, overflow, the caller's buffer |
| `interactions/validate` | none between calls | which checks a transaction passes | success for exactly the transactions that are acceptable |
| `grd_error_details` | up to three strings, each from the caller's allocator or from malloc | init, fill, release | each goes back to where it came from |
| converters, version, crypto | none | | not state machines |

The chain hands each add first to the segment its number falls in, then to the
register, and only then counts it. Queries go to the segments in order and are
merged; lookups of an address go to the register alone. `grdb_chain_load` asks the
chain's store for one number after another and adds what it is handed; the store
is `grdb_in_memory` (decoded transactions in consecutive slots) or
`grdb_chain_ffi` (one decoded transaction over a host's `get`, `put` and
`release`), behind one table of pointers. Bytes reach a store through the wire
codecs: pbtools decodes the message, `wire_from_pbtools.c` checks it into the wire
form, the body it carries as bytes is decoded the same way, and
`runtime_from_wire.c` copies both into an arena it sized beforehand. The JSON
mappings write that runtime form and read it back. Validation looks at one transaction, and
leaves the reason of a refusal in the details.

## Modules

| module | models |
|---|---|
| `CompleteTransaction` | a transaction as far as the indices read it, and the two walks they make over it (`Touches`, `Notes`) in the order of the code |
| `TransactionsIndex` | the index of a segment as a record: `Written(index, tx, place)` is everything an add has written when it is refused at `place`; `Added` and `OutOfRoom` are the two ways an add can end |
| `TransactionsQuery` | `grdb_transactions_filter`, its setters, and what an index answers to it |
| `AddressRegister` | the register as a record, likewise with places of refusal |
| `Chain` | the chain: `grdb_chain_add` by how far it gets (`Add`, `RefusedOpening`, `RefusedInSegment`, `RefusedInRegister`), init, release, reset; composes the two |
| `Ledger` | the abstract specification: a gapless run of transactions, each in with everything it says or not in; no segments, no register, no refusals |
| `ChainAnswers` | the chain's queries, put together from the segments, against the transactions the caller was told are in; the refinement of `Ledger` |
| `Serialized` | the bytes of a transaction by where decoding them fails, the decoded struct, and `InitFromProtobuf`: every way a decode into a place can end, with the arenas it leaves open |
| `InMemory`, `HostStore` | the two stores as actions: `MoveIn`, `AppendSerialized`; `HostFetches` (the short cut, the host's answer, the release of its row), `HostPut`, and the host's own `HostReceives` |
| `Store` | the abstract specification of a store that owns what it keeps: a gapless run of transactions that only appends continue |
| `StoredChain` | a chain over either store: fetch, load step by step (`LoadBegin`, `LoadStep`), reset; here the chain is what `Ledger` says of it |
| `Timestamp` | `seconds_add`, `seconds_sub`, `normalize`, minus and plus |
| `ErrorDetails` | `grd_error_details` and the copies that are live |
| `Validation` | `grdi_validate_complete_transaction` as its three lists of checks and the first that fails |
| `Amounts` | `grdd_unit`: rounding to a precision, reading, printing (with how far it writes into the buffer), the span decay is counted for, and the halvings and table entries decay is put together from |
| `Protobuf` | pbtools as the generated code uses it: a message is a sequence of tagged fields; what is left out when zero, the last of a number, unknown numbers, lists read after the walk, want of room for one |
| `Messages` | the encode and decode of the 22 generated messages, over `Protobuf` |
| `WireForm` | `pbtools_from_wire.c` and `wire_from_pbtools.c`: the wire form, with every refusal |
| `RuntimeForm` | `runtime_from_wire.c` and the getters of `complete_transaction.c`: the arena, its size, the unions by type |
| `Enumerations` | the five tables of names, there and back |
| `Json`, `JsonForm` | a document as a tree, the walks of arnm's reader over it (external); `json_from_runtime.c` with its hint, `runtime_from_json.c` with its sizes and refusals |
| `Assembly` | `specific_transactions.c` and `ledger_anchor.c`: what a host calls to fill in the wire form |
| `Codec` | one transaction through all its forms: `Compose`, `EncodeBody`, `EncodeConfirmed`, `Arrive` (what another program or the way may change), `InitFromProtobuf`, `WriteJson`, `ReadJson` (of a document an editor may have changed), each with its want of memory |
| `CodecAnswers`, `CodecHint` | its properties; the second holds the recursive count of a document |
| `Scratch` | the caller's arena under the wire codecs: which blocks decoders, encoders and reservations take, and the order `free` gives them back in |
| `SampleTransactions`, `MC*` | the small instances |
| `ChainProofs`, `AnswerProofs`, `StoreProofs`, `ValueProofs`, `CodecProofs`, `DocumentProofs`, `ScratchProofs`, `CountingProofs` | the proofs |

How the code's state appears: a bucket vector behind a key map is a size
(`address_sets`, `coin_sets`, `entries`); a key map is a function to id + 1, 0
for an unseen key; a roaring set is the pairs `<<name, offset>>` of one set
`sets`; linked type records are a sequence per key, newest first. Keys and
uuids are model values; `NoKey`, `NoCommunity` are the all-zero ones.

**A refusal at a place.** The steps of an add are numbered in the order of the
code (`At(touch, part)`); an add refused at place p has done exactly the steps
below p. Growing a vector up to an id pushes slot by slot, so a refusal there
may leave any size in between (`Slots`).

**Callers and hosts.** Where the documentation puts a duty on the caller it is a
guard: a caller moves into a store only what it decoded to the end, uses a store
only between init and release, initialises details only when no string is
live in them, and releases them once. A host may receive rows of its own at any
time, also during a load, and may fail any lookup or any put; with `HostMinds` it
keeps only the number after its largest. The caller who adds again (`NextRetrying`,
`LedgerSpec`) hands out numbers in order: a chain that counts nothing yet but has
opened a segment is offered numbers of that segment (`StartsInRow`). Where the documentation puts no duty,
nothing is assumed: any bytes, any struct, any number, any filter.

**Values.** `Timestamp`, `Validation` and `Amounts` are pure functions under a
thin state machine: what is asked is a variable, so that TLC goes through all
values of a small width and reports the offending question. Each is compared with
a reference in exact arithmetic that shares nothing with it (`Instant`,
`IsAcceptable`, the nearest multiple, the exact decimal). Widths, the length of a
second, and the decimals of an amount are parameters.

**Forms of a transaction.** A message is a sequence of fields with tags, a document
a tree of members; a block of bytes is its size and what it stands for, so that the
body inside the signed transaction is decoded out of its bytes and no byte is
spelled out. A key of the right size is a model value; one of another size, or
absent, is what the size checks refuse. A decode that would read through a null
pointer, or meet an assertion, is an answer of its own (`NULL_READ`, `ASSERTION`),
and a union read by the wrong type is `Garbage`. What arnm answers to a copy of an
empty block is not in this repository: either answer may come (`EmptyClones`). So with
a memo of no bytes in a document, for which the reader asks arnm for a block of no bytes
(`runtime_from_json.c:709`): it is read or refused (`EmptyMemos`).

Each slip of the code that a property is there to catch is written down beside
the definition it would change (the operators headed "A slip").

## Runs

All state spaces are finite because the transactions offered (`Arrivals`) are a
finite set and the accepted numbers only grow until the chain is emptied.
Deadlock checking is off because nothing promises a caller that goes on: with
all numbers in, only reset and release are left.

| run | what it shows |
|---|---|
| `any_caller` | types, the partition of the run into segments, no truncation, everything written is reachable, types as of a number stand: for a caller who after a refusal may add anything at all, including types the library does not know |
| `retry` | the documented caller: no type record twice, closed segments stand, and every add that found no room gets in once room is back |
| `answers` | counts, pages, newest, spans of days, last balances and types against the ledger of successful adds, for segments of 1, 2 and 3 numbers, and `Chain => Ledger` |
| `stores` | either store under a loading chain: numbers found by subtraction, one owner per arena, the held transaction is the host's row, no row stays open at the host, `InMemory => Store`, and a load's answer and count are true of what the chain holds afterwards |
| `values` | validation answers success for exactly the acceptable; its strings go back where they came from; differences exact, pinned, undone by plus; amounts rounded to the nearest, printed inside the buffer, read back, read to the nearest; spans of decay add up, and so do the factors taken for one |
| `codec` | every type of transaction and of envelope through all forms: what is sent arrives; whatever one field another program leaves out, repeats, overrides or adds, no key is made up and the peeked number is the decoded one; arenas are sized to the byte; a document reads back exactly when its enumerations have names; whatever one member of it an editor spoils, nothing is defaulted and a refusal leaves nothing; the writer's hint is exact; the getters answer the body |
| `scratch` | one arena under decoders that succeed or fail, encoders that are refused, structs freed in any order, once or twice: no block in use is handed out again, and a reserved struct unwinds |

Bounds. `MaxU32` is 3 or 7, so that the width is reached: an index meets the end
of its window. A day is two seconds, so that
transactions share days, leave days out, and lie before the epoch. Two keys and
two communities make every pair of roles (one key in two roles, both keys in
one, own and foreign coin in one transaction). Segments of 1, 2 and 3 put a
border between any two numbers and none. The parts of an add refused in these
instances are all of them. `answers` has six numbers, so that a row of segments of
two is three long and has one to pass over on either side. `stores` has three numbers and the number 0, two
versions of one number, and bytes that fail to decode at each of the places
`Serialized` tells apart; three arenas are one more than two structs can own, so
that a lost one shows. `values` has every timestamp of 18 seconds and 8
nanosecond values of which 3 are fractions of a second, so that nanoseconds are
negative, are more than a second, and that both ends of the range are met; every
amount with two decimals in a range of -658 to 657, at whose ends some round out of
it and one has no positive counterpart; texts with digits that round up, do not, and carry, and with
integer parts around the largest that is read; every buffer from 0 to 8 bytes; a
year of 13 seconds, five powers and two windows of two bits, which is as close as the
code's year of 31556952 is to its 25 bits.

`codec` composes 32 transactions: each type with and without zeros, each kind of
anchor, both directions across communities, lists of none to three, a memo too
large for the arena (`MaxAlloc` = 450), values no enumeration knows. Counters end at
`MaxCount` = 3 instead of 255, tags at `FieldNumbers` = 16 where they leave their 32
bits, a varint at `Word` = 256. No field is offered whose number does not fit (2^29 and
above, which protobuf does not allow): the decoder cuts its tag to 32 bits and might take it
for another, where the peek does not (`wire/confirmed_transaction.c:153`). An encoder has room for 12 or 40 bytes, so that a
body fits where a transaction does not. One thing goes wrong with a transaction, on
its way or in its document (`MaxFaults` = 1); each list may find no room besides. In
`scratch` nine units hold both structs with a list each and not with everything
(`Capacity` = 9, `MaxItems` = 2, `Workspaces` = {1, 2}).

Fairness is assumed in `retry` only, and only of the retry itself: a caller who
holds a refused transaction and for whom `Add` stays possible does make it
again in the end (`WF` on `refused = tx /\ Add(tx)`). It is what the
documentation asks of callers; the code itself schedules nothing.

### Where the code does not do what is said of it

| run | quoted | what happens |
|---|---|---|
| `success_means_indexed` | `chain.h:164` | after the register refused number n for its address type, another transaction n is answered success and never enters the segment (`chain.c:139`) |
| `next_number_is_taken` | `chain.h:167` | a day before the segment's first day is refused, so acceptance depends on the segment size |
| `lost_arena` | `store.h:134` | bytes of a type the runtime form has no case for are decoded up to an open arena, and the slot is popped with it |
| `append_anywhere` | `store.h:131` | the store behind a host hands any number but 0 to the host, before, within or beyond the run |
| `success_means_whole` | `wire/confirmed_transaction.h:106` | a list that finds no room in the workspace is dropped (`pbtools.c:2482`), and the decode succeeds without its signatures, memos or balances |

More was met while modelling and has no run of its own:

* a first transaction refused in its segment for its type leaves the segment
  opened, and the chain, though empty, no longer begins below it (`chain.c:118`
  against `chain.h:163`);
* to a chain that counts nothing, transactions of an unknown type with numbers of
  two segments, one after the other, open both segments, and the next add of the
  first one's numbers then writes a segment that is not the last (`chain.c:108`
  against `chain.h:158`), for which reason `ClosedSegmentsStand` is stated of callers
  who hand out numbers in order (`StartsInRow`);
* the count of an index that holds its full window of 2^32 numbers is 0, and it
  answers as empty (`transactions.c:341` against `transactions.h:58,134`);
* 255 memos can be reserved (`wire/transaction_body.h:92`) and encoded, and are
  refused when they are decoded (`wire_from_pbtools.c:333`), as `SentIsReceived` says
  of lists as long as their counter;
* the JSON mappings are called exact inverses (`json_from_runtime.h:19`), and are
  where every enumeration has a name: a registration of type NONE, or a value no table
  knows, is written and not read (`runtime_from_json.c:439`, `:214`), as
  `DocumentReadsBack` says; and a memo of no bytes, which the decoders take, is written
  as an empty text, for which the reader asks for a block of no bytes and hands on arnm's
  answer (`runtime_from_json.c:709`): by `wire/pb_decode.c:11` that is an error. An empty
  body it does not ask for (`:654`);
* a text that does not parse leaves the target as it was (`runtime_from_json.c:895`),
  which is said to be released first (`runtime_from_json.h:59`); `RefusedLeavesNothing`
  is stated of what parsed;
* an optional member of another kind is refused (`runtime_from_json.c:420`, `:795`),
  not taken as absent (`runtime_from_json.h:34`); an anchor whose type nobody knows
  reads as no anchor (`NothingIsDefaulted` names both);
* a decoded transaction takes its balances last and gives them back last
  (`wire/confirmed_transaction.c:108` says otherwise), a decoded body takes the foreign
  community after its memos and gives it back after them
  (`wire/transaction_body.c:126`): an arena gets nothing else back, for which reason
  `ReservedUnwinds` is stated of reserved structs;
* the timeout of a deferred transfer is read without a look whether the message
  carries one (`wire_from_pbtools.c:258`), and an anchor whose type and union disagree
  is read as it comes (`:180`);
* the answer of `hiero_transaction_id_from_wire` is not looked at
  (`pbtools_from_wire.c:170`), nor is that of the malloc at `error_details.c:32`;
* more than four memos of a document are read into memory of their own, and the way
  out after a refusal frees it by their count, wherever the pointer then is
  (`runtime_from_json.c:875`);
* growth over 2^32 seconds and more reads past the table of powers (`unit.c:568`), for
  which reason `FactorsMakeUpTheSpan` asks for less;
* the last number of a window has no day (`offset + 1u` is 0, `transactions.c:239`);
* a span of days reads slots that adds refused later have written
  (`transactions.c:366`), and days out of order within a segment make spans overlap
  (against `transactions.h:303`), for which reason `DaysSpanTheLedger` is checked
  with confirmation days in order;
* after 2^32 transactions the register's count is 0 and it takes any number
  (`addresses.c:222`);
* `grdd_unit_from_string` takes its own sign and then leaves another to `strtoll`,
  so that `--1.5` is read, as 0.5 (`unit.c:276`), for which reason `ReadIsNearest`
  is stated of texts with one sign;
* the amounts with the largest integer part are printed and not read back
  (`unit.c:331`), for which reason `PrintedIsReadBack` leaves them out;
* the span between creation and confirmation is cut to whole seconds downwards
  before its magnitude is taken: created 120.5 seconds before is refused, 120.5
  after is accepted (`validate/context.c:52`); `IsInTime` says it that way;
* `grd_error_details_release` leaves the pointers set, so a second fill is refused
  until the next init (`error_details.c:103`).

## Proofs

36 theorems, each for every value of the constants that meets the named
assumptions; 35 of them state a property that a run checks.

### The chain, for any caller (`ChainProofs`)

Of `Chain!Spec`, for every segment size up to UINT32_MAX, every finite set of keys
and communities and any set of transactions:

* `ChainTypes`: `Spec => []TypeOK`
* `ChainPartition`: `Spec => []SegmentsPartitionTheRun`
* `ChainWidth`: `Spec => []NothingIsTruncated`
* `ChainFinds`: `Spec => []WrittenIsReachable`
* `TypesAreHistory`: `Spec => TypesAsOfStand`, an action property

The inductive invariant `IInv` is needed because the properties say nothing of the
options: it adds that a ready chain has one of the segment sizes (or no
division could place a number) and that one that is not ready has no segments.
Its core is `RowStands`: every segment is based at its own multiple of the size
and counts, holds and notes only numbers of its own run. An add keeps it by
`SegmentStandsAfterAdd`: the number falls in the run of the segment asked for
(`RunOfNumber`), the segment therefore counts fewer numbers than it has room
for, and its 32-bit count cannot wrap.

The first part of `ChainProofs` holds the lemmas on one add, to an index and to a register: whatever
place it is refused at, an index is an index, with the same base and counters and
nothing in its sets but its own offset (`WrittenBeforeType`); what it wrote lies
within the ids and slots its maps reach (`WrittenIsFound`); a register never
takes an address type the library does not know (`RegisterBeforeType`).

### The chain, for the caller who adds again (`ChainProofs`)

* `TypesAreWrittenOnce`: `RetrySpec => []NoTypeIsWrittenTwice`
* `ClosedForGood`: `RetrySpec => ClosedSegmentsStand`, an action property
* `ChainIsLedger`: `LedgerSpec => ImplementsLedger`, the refinement, for transactions
  of one community whose address types the library knows

`RetryInv` strengthens `IInv` by what a refusal may leave: the last segment of the
row begins no later than the next number, and type records beyond the last number are
those of the transaction the caller holds, which its segment already counts, so that
its next add finds them and writes none twice.

`LedgerInv` carries this over to everything a transaction says. Beyond the last
number, facts in the segments, types in the register and last balance numbers all
belong to the one transaction that is held (`FactsStand`, `TypesStand`, `MovesStand`);
a segment that counts a number beyond it holds that transaction whole
(`CountsStand`), which is why an add that skips the segment (`chain.c:139`) loses
nothing; the segments agree on the chain's own coin (`HomeStands`). Two parts lead to
it. The first is about one add: the walk of the code over signers, balances and named
keys marks exactly the roles `Ledger` reads off the transaction (`MarksInTheEnd`, and
`OtherRoleIsRead`: looking for a role among the bits already set answers the same
whether or not an earlier, refused add has set some of them), and a refusal at any place
marks some of them (`OutOfRoomSets`, `RegisterGives`). The second is about the row: the
facts of the row after an add are those before it and the transaction's, or some of
them (`HoldingFacts`, `RefusingFacts`). Then an add that goes through is `Enter`
(`AddEnters`) and a refusal changes nothing that is counted (`RefusalStutters`).

The two hypotheses are needed. The register refuses an unknown address type after the
segment has counted the number, and a transaction that is dropped there leaves a
number that another one is then taken for: the finding `success_means_indexed`. And a
segment takes its own coin from the first transaction it counts, so that a chain
that is handed transactions of two communities has segments that disagree on which
coin is foreign.

### The answers (`AnswerProofs` over `ChainProofs`)

Of `ChainAnswers!LedgerSpec`, for any segment size, any filters and any pages:

* `FiltersAnswer`: `LedgerSpec => []FiltersAnswerTheLedger`
* `PagesCut`: `LedgerSpec => []PagesCutTheLedger`
* `DaysAreTheLedgers`: `LedgerSpec => []DaysSpanTheLedger`
* `RegisterAgrees`: `LedgerSpec => []RegisterAgreesWithTheSegments`

`ChainIsLedger` says that the facts the chain counts are those of the ledger; these say
that what the queries read out of them is what a caller would read out of the list of
transactions it was told are in.

The inductive invariant `AnswerInv` is `LedgerInv` with what relates the list to the tables.
`Known` is what the chain was told for good and what it is to be told again, the ledger and
the transaction that is held:

* `LedgerStands`: the ledger is the counted run, one transaction to a number, and the counted
  facts and types are what its transactions say. Without it nothing relates an offset in
  a segment to a transaction. `RefusedIsNext` keeps the run gapless: what is held is what
  comes next.
* `SpansCover`: every transaction of the ledger is in the span of a segment, and a span has
  no number that nothing known has; the queries look at spans before they look at sets.
* `DaysStand`: the slot of its day knows a transaction of the span or a later one, and a slot
  that is filled belongs to a day on which something known was confirmed. Day tables are not
  facts that sets hold, and a refused add has written them too, so they need a part of
  their own.
* `NotesStand`: of two types that one transaction gives one address, the second is not written
  without the first. It is about a refusal between the two: the next try writes what is
  missing, and the address would otherwise be left with the wrong one as its last.

From it, `MatchesFit` reads one segment's query condition by condition (`RoleFits`,
`TypeFits`, `CoinFits`, `SpanFits`), `MatchesAreTheLedgers` puts the segments together, and
`RangeIsTheDays` does so for spans of days, whose first and last segments differ from
those of the chain.

Pages are about order. `InOrder` lists a finite set by rank: place i holds the number that
i - 1 others come before (`RanksAreTaken`: every rank is taken, by induction on the size of the
set). If all of one set comes before all of another, the list of both is one list after
the other (`OrderOfBoth`), and a page cut from a sequence that is continued is what is left of
the page, cut from the continuation past what is left of the skip (`CutOfBoth`). So one step of
the walk of `grdb_chain_listing` keeps "the walk is where it would be had it been
over one segment with all of these matches" (`WalkGoesOn`), and the segments of the row do
hold ever larger numbers (`RunsInOrder`). That the fold over the row takes those steps, and
that the recursive function it is defined by exists at all, is `FoldsExist` and
`FoldComesTo`, proved by building the function up place by place.

Hypotheses: one community and address types the library knows, for the reasons given
above; and, for all but `RegisterAgrees`, days in order (`DaysInOrder`): a transaction with a
larger number is not confirmed on an earlier day. `transactions.h:303` says of every span what
holds of such callers alone, as listed above. For a filter without days the hypothesis is not
used (`MatchesAreTheLedgers`). No condition is put on a
filter or a page but its type.

### The stores (`StoreProofs`)

Of `StoredChain!Spec`, for any bytes, numbers, arenas and ranges:

* `StoredChainTypes`: `Spec => []TypeOK`
* `InMemoryFindsByNumber`: `Spec => []KeptUnderTheirNumbers`
* `ArenasHaveOneOwner`: `Spec => []EveryArenaHasOneOwner`
* `ShortCutIsSound`: `HostMinds => (Spec => []HeldIsTheHostsRow)`
* `HostHearsOfEveryRow`: `Spec => []NoRowStaysOpen`
* `LoadIsTruthful`: `HostMinds => (Spec => LoadTellsTheTruth)`
* `StoresImplementStore`: `HostMinds => (Spec => ImplementsStore)`

Its core is `DecodeLeaves`: a decode leaves its place blank, as it was, or filled
and with an arena of its own that is open, and no other arena is touched. The
inductive invariant is the conjunction of the invariants with what a load in
progress knows; the part of the memory store and the part of the host are
separate (`InMemoryKeeps`, `HostKeeps`), as no call touches both. Three theorems ask
for `HostMinds`, a host that keeps only the number after its largest: it is what
`store.h:131` says of every store, and over a host it is the host that has to see to
it (the finding `append_anywhere`).

### Values (`ValueProofs` over `CountingProofs`)

Of `Validation!ValidationSpec`, for any widths:

* `SuccessExactlyWhenAcceptable`: `[]SuccessIsDeserved`
* `CopiesGoBack`: `[]NoCopyIsLost`, with the types (`ValidationTypes`)
* `TimestampArithmetic`: `[]TimestampsAreExact`, the conjunction of `DifferenceIsExact`,
  `RunawayIsPinned` and `PlusUndoesMinus`

The first rests on two facts: the lists of checks have a first failure exactly
when one fails (`FirstFailureIsFound`, from the least element of a set of
naturals), and a difference that was pinned and carried is within the span allowed
exactly when the exact one is (`TimespanIsExact`), because the carry of two
nanosecond fields is at most six seconds (`CarryIsShort`) and the span allowed is
further than that from the ends (`CandidateAssumption`).

Of `Amounts!AmountsSpec`, for any width, number of decimals, buffer and text:

* `RoundingToPrecision`: `[]RoundingIsNearest`
* `PrintingInside`: `[]PrintingStaysInside`
* `PrintingReadsBack`: `[]PrintedIsReadBack`
* `ReadingIsNearest`: `[]ReadIsNearest`
* `SpansOfTimeAddUp`: `[]SpansAddUp`
* `FactorsOfTheSpan`: `[]FactorsMakeUpTheSpan`, for a year of any length that the tables
  of powers reach

These are about recursive functions (`Pow10`, the fraction read digit by digit). Their
induction is done by hand: `CountingProofs` has that a nonempty set of naturals has a
least element (`LeastNumber`), and from it that a set which has 0 and, with each number
below a bound, the next one has all of them (`UpTo`); each induction names its set of
good numbers. That a recursive function satisfies its equation is proved the same way, by
building it up step by step (`StepsExist`, `StepsUnfold`). Reading to the nearest rests
on the first digit left out deciding the rounding (`FirstDigitDecides`).

The factors are summed with `MapThenSumSet`, which takes the members of a set in an order
of its own: `TakingOutIsTotal` shows that every order comes to the sum counted up from 0
(`Total`). Bit by bit, what halving leaves over and what was taken so far make up the
seconds at every step (`BitsAddUp`); window by window, the digits below a place make up
the seconds below that place (`DigitsAddUp`). No entry past the table is read because the
powers of two grow (`Pow2Grows`) and less than a year is left (`YearsAndRest`).

### The codec (`CodecProofs`)

Of `Codec!Spec`, for any composition a host can assemble, any changes on the way, any arena
and any edit of a document:

* `WhatIsSentIsReceived`: `NullIsNoRecord => (Spec => []SentIsReceived)`
* `PeekedNumberIsDecoded`: `Spec => []PeekedIsDecoded`
* `KeysThatAreReadWereSent`: `NullIsNoRecord => (Spec => []NoKeyIsMadeUp)`

The first says of each of the 22 messages, and of the confirmed transaction that is made of
them, that the composition comes back. An encoder writes its
message as pieces one after the other, each under field numbers of its own. Two pieces that
share no number do not disturb each other: what is read under the numbers of one is what that
piece says (`Same`, `Apart`, and `Three`, `Five`, `Six` of messages of so many pieces). What
a piece of each kind says is a lemma too: a number, bytes, a message, and a repeated field,
whose items come out by count and in order (`ListPiece`). A lemma `...Arrives` for each
message puts these together with the two mappings: a number that is left out because it is zero
is read as zero; an empty list as an empty list; a body has the one member of the oneof
that was composed, because the members tried before it are absent (`BodyIsRead`). The
inductive invariant `CodecInv` carries them over to the way of a transaction: what is
composed is of the forms the structs have (`ComposedOfForms`), what was sent is the encoding
of it (`SentIsComposed`), and what the last decode holds is the decoding of what was received
(`DecodedIsReceived`). All lists up to the longest a counter can say are covered, where
the run has lists of two.

The second needs what holds of every message that may arrive: it is numbered fields (`Tagged`),
also after a field was left out, sent again, overridden or added, at the top, in a message
or in the body (`ReceivedIsTagged`). In such a message the peek, which walks the top level for
the last field of number 1, finds what the decoder keeps (`PeekFindsIt`), and the mapping
keeps it (`NumberIsKept`).

The third follows a change down the message. What arrives is `Near` what was sent: each field
of it is one that was sent, or foreign, or has another number under the number of a field
that held a number, or is a message in which the same holds one level down
(`ReceivedIsConfirmedFrom`). None of these puts other bytes under the number of a field of
bytes. A key that is read is therefore the one that was sent or is missing (`Only`), and
one that is missing has no bytes, which every size check of `wire_from_pbtools.c` refuses. A
lemma `...Kept` for each message with a key in it draws this conclusion (`SpecificIsKept`,
`BodyIsKept`, `ConfirmedIsKept`); a list may lose and repeat items but has no item that was
not sent (`BalancesAreKept`). It is also why a body cannot be read as one of another type
whose keys were never sent: the member of the oneof that is read must be one that was
written. The invariant `KeyInv` adds to `CodecInv` that what arrives is a change of what was
sent (`ArrivedChanged`) and that what is kept as read has one of the types the struct lays
out (`ReadIsLaidOut`).

`NullIsNoRecord` says that a null pointer is not a struct. It is a hypothesis and not an
assumption of a module because TLC cannot evaluate a quantifier over all sets; for the model
value the runs give `NULL` it holds.

### Documents (`DocumentProofs` over `CodecProofs`)

Of `Codec!Spec`, for the same:

* `RefusalLeavesNothing`: `Spec => []RefusedLeavesNothing`
* `GettersTellWhatWasComposed`: `NullIsNoRecord => (Spec => []GettersAnswerTheBody)`

The first needs that a document is still one after an edit that leaves it JSON
(`EditedIsJson`), since only a text that does not parse is refused before the target is
released.

The second goes through all four forms. A lemma `...ReadsBack` for each shape of a document
says that what is written of a part is read as that part: names of enumerations, timestamps,
anchors, the details, the three lists with the memos' two walks, blocks of bytes. The root
is written as three objects put together (`AddEnvelope`, the detail, the lists) and read in one
walk with a table put together the same way (`Required`, `Optional`); since no key is in two
parts (`KeysApart`), the walk of the whole says of a part's keys what a walk of the part
would (`Agrees`, `RootIsRead`). `DocumentIsRead` concludes that every part of a transaction in
`DecodedForm` whose enumerations have names comes back (`SameParts`), provided that the arena
that was sized for it holds it, or else that it holds a memo of no bytes and the answer is
arnm's refusal of that. That the arena does hold it is what `ArenaIsExact` adds, and the
theorem does not need it, being about reads that succeed. `WhatIsSentIsReceived` says what
the decoder held (`ReadAsSent`), so the transaction it made is in that form
(`MadeIsFormed`), and each getter reads the member of the union that the type owns
(`TypedGettersAnswer`, `AnchorGettersAnswer`). The invariant is `CodecInv` with `FormInv`: a
transaction that has a type was made of what was decoded (`MadeOf`), a document is written of
the transaction at hand, and what was read was read of the document as it was edited.

### The caller's arena (`ScratchProofs`)

Of `Scratch!Spec`, for an arena of any size and lists of any length:

* `BlocksStand`: `Spec => []LiveBlocksStand`
* `ReservationsUnwind`: `Spec => []ReservedUnwinds`

The arena moves its end back only when the block at its end is given back. The
invariant `ScratchInv` says that live blocks are apart and below the end, that the two
structs own different live blocks, each once, and that a reserved struct's blocks,
in the order `free` gives them back, lie one on top of the other (`Stacked`), through
whatever blocks are missing.

### Assumptions

All are evaluated by TLC in the runs: the blank key and uuid are none of the others
(`BlankAssumption`), widths are positive (`WidthAssumption`), keys and communities are
finitely many (`FinitelyMany`), segment sizes fit 32 bits and what is offered are
transactions (`SegmentAssumption`, `OfferAssumption`), no body is the blank one
(`SerializedAssumption`), a nanosecond field is less than three seconds wide
(`TimestampAssumption`, true of 32 bits), powers of ten are defined as far as an
amount has digits (`DigitsAssumption`; 10^19 is more than 2^63), what is asked of amounts are
amounts, sizes, spans and texts (`AmountsAssumption`, `QuestionsAssumption`), both tables
of powers reach a year (`TablesAssumption`; 31556952 is less than 2^25), an arena has
bytes, a workspace is not empty and NULL is no block (`CapacityAssumption`,
`WorkspacesAssumption`, `NothingAssumption`), and what is asked of a chain are filters and
pages (`AskedAssumption`). For the codec: what a host composes has the members and widths
of the structs and no signed body yet (`CompositionsAssumption`), a destination is memory the
allocator gave out (`BufferSizesAssumption`, `MaxAllocAssumption`), counters and
field numbers are as wide as the code's (`MaxCountAssumption`, `FieldNumbersAssumption`,
`WordAssumption`), the version of the protocol fits 32 bits (`VersionAssumption`), an array
of zeros is not a null pointer and what nobody wrote is read as a number
(`NilAssumption`), a chain is some community's (`CommunityAssumption`), and a copy of no bytes
takes no memory that could be out (`EmptyClonesAssumption`).

### Only model-checked

* The liveness of the retry (`RefusedGetsIn`): liveness and `ENABLED` are out of the
  prover's reach.
* `ArenaIsExact`: the size of the arena is a sum of folds over lists of lists.
* `DocumentReadsBack`: `DocumentIsRead` has it but for the arena, and for messages that changed
  on the way, of which no lemma says that they decode to the forms of the structs.
* `NothingIsDefaulted`: about documents with one member edited; the lemmas on documents are
  about those that were written.
* `HintIsExact`: the count of a document (`CodecHint`) is recursive.

## Not modelled, and the plan

Left out for good: text converters, the text forms of timestamps and Hiero ids,
crypto, error wording (no state or pure data), the internals of the arnm
containers and of its JSON reader and writer (a submodule that is not in the tree),
the 128-bit product of the decay and the conversions of amounts from and to a
double, and the public constructors of the generated messages, which the library
itself does not use. 64-bit wrap of transaction numbers is left out: numbers are
naturals. That malloc fails is modelled wherever the code looks at its answer;
`error_details.c:32` does not, and there it is taken to succeed. What a failed decode
leaves in the slots after the failed memo (`wire_from_pbtools.c:337`) depends on
whether arnm zeroes what it hands out; nobody reads a struct after a failed decode
in the model. An index or a register used without a chain is not a machine of its own:
its add, refusals and answers are those of the chain's segments.

Next, in this order:

1. Proofs about the sizes: that the arena is sized to the byte from either side, and with it
   `DocumentReadsBack`.
2. `StoredChain` over `Codec`: the places of failure of `Serialized` derived from the
   decoders instead of enumerated.
