---------------------------- MODULE ScratchProofs ----------------------------
(***************************************************************************)
(* Proofs about Scratch: in every state what the structs point at are      *)
(* blocks of the arena that nothing else overlaps, and a struct that was   *)
(* reserved in the order its blocks go back in leaves nothing behind.      *)
(***************************************************************************)
EXTENDS Scratch, SequenceTheorems, CountingProofs

-----------------------------------------------------------------------------
(* The inductive invariant.                                                *)

Blocks == [at : Nat, size : Nat]

Arenas == [used : Nat, live : SUBSET Blocks]

Lists == Seq(Blocks \cup {Nothing})

\* The blocks in use end before the free part and are apart.
Sound(a) ==
  /\ a \in Arenas
  /\ \A b \in a.live : b.size # 0 /\ End(b) <= a.used
  /\ \A b, c \in a.live : b # c => End(b) <= c.at \/ End(c) <= b.at

\* No block is listed twice.
Once(blocks) ==
  \A i, j \in 1 .. Len(blocks) : blocks[i] = blocks[j] /\ blocks[i] # Nothing => i = j

\* Each block, when its turn to go back comes, ends where the one before it began.
Descends(blocks, pos) ==
  \A i \in 1 .. Len(blocks) :
    \/ blocks[i] = Nothing /\ pos[i] = pos[i - 1]
    \/ blocks[i] # Nothing /\ pos[i - 1] = End(blocks[i]) /\ pos[i] = blocks[i].at

Stacked(blocks) == \E pos \in [0 .. Len(blocks) -> Nat] : Descends(blocks, pos)

\* What a struct says of its blocks: listed in the order they go back in.
Owns(a, made, blocks) ==
  /\ blocks \in Lists
  /\ Once(blocks)
  /\ Held(blocks) \subseteq a.live
  /\ made = "failed" => Held(blocks) = {}
  /\ made = "reserved" => Stacked(blocks)

ScratchInv ==
  /\ Sound(arena)
  /\ arena.used <= Capacity
  /\ Owns(arena, confirmed.made, ConfirmedBlocks(confirmed))
  /\ Owns(arena, body.made, BodyBlocks(body))
  /\ Held(ConfirmedBlocks(confirmed)) \cap Held(BodyBlocks(body)) = {}

-----------------------------------------------------------------------------
(* Taking and giving back one block.                                       *)

\* A list of blocks has a block or nothing at each place.
LEMMA ListItems ==
  ASSUME NEW blocks \in Lists
  PROVE  /\ Len(blocks) \in Nat
         /\ DOMAIN blocks = 1 .. Len(blocks)
         /\ \A i \in 1 .. Len(blocks) : blocks[i] \in Blocks \/ blocks[i] = Nothing
         /\ Held(blocks) = {blocks[i] : i \in {j \in 1 .. Len(blocks) : blocks[j] # Nothing}}
         /\ Held(blocks) \subseteq Blocks
<1>1. /\ Len(blocks) \in Nat
      /\ DOMAIN blocks = 1 .. Len(blocks)
      /\ \A i \in 1 .. Len(blocks) : blocks[i] \in Blocks \/ blocks[i] = Nothing
  BY DEF Lists
<1>2. Held(blocks) = {blocks[i] : i \in {j \in 1 .. Len(blocks) : blocks[j] # Nothing}}
  BY <1>1 DEF Held, Range
<1> QED BY <1>1, <1>2

\* A block is not a NULL pointer.
LEMMA BlocksAreSomething == Nothing \notin Blocks
  BY NothingAssumption DEF Blocks

\* A block taken from the free part lies behind all that are in use.
LEMMA TakeIsSound ==
  ASSUME NEW a, Sound(a), NEW size \in Nat \ {0}
  PROVE  /\ Sound(Take(a, size))
         /\ Take(a, size).used = a.used + size
         /\ Take(a, size).live = a.live \cup {Block(a.used, size)}
         /\ Block(a.used, size) \in Blocks
         /\ Block(a.used, size) \notin a.live
<1> DEFINE w == Block(a.used, size)
<1>1. a \in Arenas /\ a.used \in Nat /\ a.live \subseteq Blocks
  BY DEF Sound, Arenas
<1>2. w \in Blocks /\ w.at = a.used /\ w.size = size /\ End(w) = a.used + size
  BY <1>1 DEF Blocks, Block, End
<1>3. Take(a, size) = [used |-> a.used + size, live |-> a.live \cup {w}]
  BY DEF Take
<1> HIDE DEF w
<1>4. \A b \in a.live : b \in Blocks /\ b.at \in Nat /\ b.size \in Nat /\ b.size # 0
                        /\ End(b) = b.at + b.size /\ End(b) <= a.used
  BY <1>1 DEF Sound, Blocks, End
<1>5. w \notin a.live
  BY <1>1, <1>2, <1>4
<1>6. Take(a, size) \in Arenas
  BY <1>1, <1>2, <1>3 DEF Arenas
<1>7. \A b \in a.live \cup {w} : b.size # 0 /\ End(b) <= a.used + size
  BY <1>1, <1>2, <1>4
<1>8. \A b, c \in a.live \cup {w} : b # c => End(b) <= c.at \/ End(c) <= b.at
  <2>1. \A b, c \in a.live : b # c => End(b) <= c.at \/ End(c) <= b.at
    BY DEF Sound
  <2> QED BY <1>2, <1>4, <2>1
<1> QED BY <1>2, <1>3, <1>5, <1>6, <1>7, <1>8 DEF Sound, w

\* A block in use that is given back leaves the others as they were.
LEMMA FreeIsSound ==
  ASSUME NEW a, Sound(a), NEW b \in a.live \cup {Nothing}
  PROVE  /\ Sound(Free(a, b))
         /\ Free(a, b).used <= a.used
         /\ Free(a, b).live = a.live \ {b}
<1>1. a \in Arenas /\ a.used \in Nat /\ a.live \subseteq Blocks
  BY DEF Sound, Arenas
<1>2. \A c \in a.live : c \in Blocks /\ c.at \in Nat /\ c.size \in Nat /\ c.size # 0
                        /\ End(c) = c.at + c.size /\ End(c) <= a.used
  BY <1>1 DEF Sound, Blocks, End
<1>3. \A c, d \in a.live : c # d => End(c) <= d.at \/ End(d) <= c.at
  BY DEF Sound
<1>4. CASE b = Nothing
  <2>1. b \notin a.live
    BY <1>1, <1>4, BlocksAreSomething
  <2>2. Free(a, b) = a
    BY <1>4 DEF Free
  <2> QED BY <1>1, <2>1, <2>2
<1>5. CASE b # Nothing
  <2> DEFINE at == IF End(b) = a.used THEN b.at ELSE a.used
  <2>1. Free(a, b) = [used |-> at, live |-> a.live \ {b}]
    BY <1>5 DEF Free
  <2>2. b \in a.live
    BY <1>5
  <2>3. at \in Nat /\ at <= a.used
    BY <1>1, <1>2, <2>2
  <2>4. \A c \in a.live \ {b} : End(c) <= at
    BY <1>1, <1>2, <1>3, <2>2
  <2> HIDE DEF at
  <2>5. Free(a, b) \in Arenas
    BY <1>1, <2>1, <2>3 DEF Arenas
  <2> QED BY <1>2, <1>3, <2>1, <2>3, <2>4, <2>5 DEF Sound
<1> QED BY <1>4, <1>5

-----------------------------------------------------------------------------
(* Giving back a list of blocks.                                           *)

\* The arena after so many of the blocks.
Frees(after, a, blocks) ==
  /\ FreeAll(a, blocks) = after[Len(blocks)]
  /\ after[0] = a
  /\ \A i \in 1 .. Len(blocks) : after[i] = Free(after[i - 1], blocks[i])

LEMMA FreeAllUnfolds ==
  ASSUME NEW a \in Arenas, NEW blocks \in Lists
  PROVE  \E after : Frees(after, a, blocks)
<1> DEFINE n == Len(blocks)
           step == [i \in 1..n |-> [x \in Arenas |-> Free(x, blocks[i])]]
           Recurs(f) == f = [i \in 0 .. Len(blocks) |->
                               IF i = 0 THEN a ELSE Free(f[i - 1], blocks[i])]
<1>1. n \in Nat /\ \A i \in 1..n : blocks[i] \in Blocks \/ blocks[i] = Nothing
  BY ListItems
<1>2. step \in [1..n -> [Arenas -> Arenas]]
  <2>1. ASSUME NEW i \in 1..n, NEW x \in Arenas PROVE Free(x, blocks[i]) \in Arenas
    <3>1. CASE blocks[i] = Nothing
      BY <3>1 DEF Free
    <3>2. CASE blocks[i] \in Blocks
      BY <3>2 DEF Free, Arenas, Blocks
    <3> QED BY <1>1, <3>1, <3>2
  <2> QED BY <2>1
<1>3. \A i \in 1..n : \A x \in Arenas : step[i][x] = Free(x, blocks[i])
  OBVIOUS
<1> HIDE DEF step
<1>4. PICK f : Steps(f, n, a, step) /\ Climbs(f, n, Arenas, a, step)
  BY <1>1, <1>2, StepsExist
<1>5. f \in [0..n -> Arenas] /\ f[0] = a /\ \A i \in 1..n : f[i] = step[i][f[i - 1]]
  BY <1>4 DEF Climbs
<1>6. Recurs(f)
  <2>1. ASSUME NEW i \in 0..n, i # 0 PROVE f[i] = Free(f[i - 1], blocks[i])
    <3>1. i \in 1..n /\ i - 1 \in 0..n
      BY <1>1, <2>1
    <3>2. f[i - 1] \in Arenas
      BY <1>5, <3>1
    <3> QED BY <1>3, <1>5, <3>1, <3>2
  <2>2. \A i \in 0..n : f[i] = IF i = 0 THEN a ELSE Free(f[i - 1], blocks[i])
    BY <1>5, <2>1
  <2>3. f = [i \in 0..n |-> f[i]]
    BY <1>5
  <2> QED BY <2>2, <2>3
<1> DEFINE after == CHOOSE g : Recurs(g)
<1>7. Recurs(after)
  <2> HIDE DEF Recurs
  <2> QED BY <1>6
<1>8. FreeAll(a, blocks) = after[Len(blocks)]
  BY DEF FreeAll
<1> HIDE DEF after
<1>9. \A i \in 0..n : after[i] = IF i = 0 THEN a ELSE Free(after[i - 1], blocks[i])
  BY <1>7, Zenon
<1>10. \A i \in 1..n : i \in 0..n /\ i # 0
  BY <1>1
<1>11. 0 \in 0..n
  BY <1>1
<1>12. after[0] = a
  BY <1>9, <1>11
<1>13. \A i \in 1..n : after[i] = Free(after[i - 1], blocks[i])
  BY <1>9, <1>10, Zenon
<1> QED BY <1>8, <1>12, <1>13 DEF Frees

\* Blocks in use, none listed twice, are all given back and no others.
LEMMA FreeAllIsSound ==
  ASSUME NEW a, Sound(a), NEW blocks \in Lists, Once(blocks), Held(blocks) \subseteq a.live
  PROVE  /\ Sound(FreeAll(a, blocks))
         /\ FreeAll(a, blocks).used <= a.used
         /\ FreeAll(a, blocks).live = a.live \ Held(blocks)
<1> DEFINE n == Len(blocks)
<1>1. /\ n \in Nat
      /\ \A i \in 1..n : blocks[i] \in Blocks \/ blocks[i] = Nothing
      /\ Held(blocks) = {blocks[i] : i \in {j \in 1..n : blocks[j] # Nothing}}
  BY ListItems
<1>2. a \in Arenas /\ a.used \in Nat /\ a.live \subseteq Blocks
  BY DEF Sound, Arenas
<1>3. PICK after : Frees(after, a, blocks)
  BY <1>2, FreeAllUnfolds
<1>4. /\ FreeAll(a, blocks) = after[n]
      /\ after[0] = a
      /\ \A i \in 1..n : after[i] = Free(after[i - 1], blocks[i])
  BY <1>3 DEF Frees
<1> DEFINE Gone(i) == {blocks[j] : j \in 1..i}
           Good(i) == Sound(after[i]) /\ after[i].used <= a.used
                      /\ after[i].live = a.live \ Gone(i)
           S == {i \in 0..n : Good(i)}
<1>5. 0 \in S
  <2>1. Gone(0) = {}
    OBVIOUS
  <2>2. Good(0)
    BY <1>2, <1>4, <2>1
  <2> HIDE DEF Good
  <2> QED BY <1>1, <2>2
<1>6. ASSUME NEW i \in 1..n, i - 1 \in S PROVE i \in S
  <2>1. Good(i - 1)
    BY <1>6
  <2>2. blocks[i] = Nothing \/ blocks[i] \in a.live
    BY <1>1
  <2>3. blocks[i] # Nothing => blocks[i] \notin Gone(i - 1)
    BY <1>1 DEF Once
  <2>4. Gone(i) = Gone(i - 1) \cup {blocks[i]}
    BY <1>1
  <2>5. blocks[i] \in after[i - 1].live \cup {Nothing}
    BY <2>1, <2>2, <2>3
  <2>6. /\ Sound(Free(after[i - 1], blocks[i]))
        /\ Free(after[i - 1], blocks[i]).used <= after[i - 1].used
        /\ Free(after[i - 1], blocks[i]).live = after[i - 1].live \ {blocks[i]}
    BY <2>1, <2>5, FreeIsSound
  <2>7. Sound(after[i]) /\ after[i].used <= after[i - 1].used
        /\ after[i].live = after[i - 1].live \ {blocks[i]}
    BY <1>4, <2>6, Zenon
  <2>8. after[i].used \in Nat /\ after[i - 1].used \in Nat
    BY <2>1, <2>7 DEF Sound, Arenas
  <2>9. after[i].used <= a.used
    BY <1>2, <2>1, <2>7, <2>8
  <2>10. after[i].live = a.live \ Gone(i)
    <3> HIDE DEF Gone
    <3> QED BY <2>1, <2>4, <2>7
  <2> QED BY <2>7, <2>9, <2>10, <1>1
<1>7. n \in S
  <2>1. n \in 0..n
    BY <1>1
  <2> HIDE DEF S, n
  <2>2. 0..n \subseteq S
    BY <1>1, <1>5, <1>6, UpTo
  <2> QED BY <2>1, <2>2
<1>8. Good(n)
  BY <1>7
<1>9. a.live \ Gone(n) = a.live \ Held(blocks)
  BY <1>1, <1>2, BlocksAreSomething
<1> QED BY <1>4, <1>8, <1>9, Zenon

(***************************************************************************)
(* Blocks that go back from the last to the first, the last of them at the *)
(* end of what is used, leave the arena where the first began.             *)
(***************************************************************************)
LEMMA StackUnwinds ==
  ASSUME NEW a, Sound(a), NEW blocks \in Lists, Held(blocks) \subseteq a.live,
         Stacked(blocks), \E b \in Held(blocks) : End(b) = a.used
  PROVE  \E b \in Held(blocks) : /\ FreeAll(a, blocks).used = b.at
                                 /\ \A c \in Held(blocks) : b.at <= c.at
<1> DEFINE n == Len(blocks)
<1>1. /\ n \in Nat
      /\ \A i \in 1..n : blocks[i] \in Blocks \/ blocks[i] = Nothing
      /\ Held(blocks) = {blocks[i] : i \in {j \in 1..n : blocks[j] # Nothing}}
  BY ListItems
<1>2. a \in Arenas /\ a.used \in Nat
  BY DEF Sound, Arenas
<1>3. PICK pos \in [0..n -> Nat] : Descends(blocks, pos)
  BY DEF Stacked
<1>4. \A i \in 1..n : \/ blocks[i] = Nothing /\ pos[i] = pos[i - 1]
                      \/ blocks[i] # Nothing /\ pos[i - 1] = End(blocks[i]) /\ pos[i] = blocks[i].at
  BY <1>3 DEF Descends
<1>5. \A i \in 0..n : pos[i] \in Nat
  BY <1>3
<1>6. \A i \in 1..n : blocks[i] # Nothing =>
        /\ blocks[i].at \in Nat /\ blocks[i].size \in Nat
        /\ End(blocks[i]) = blocks[i].at + blocks[i].size /\ End(blocks[i]) <= a.used
  BY <1>1 DEF Blocks, End, Sound
<1> DEFINE Down(i) == \A j \in 0..i : pos[i] <= pos[j]
           Top(i) == pos[i] = pos[0] \/ pos[0] <= a.used
           Seen(i) == \/ \A j \in 1..i : blocks[j] = Nothing
                      \/ \E j \in 1..i : blocks[j] # Nothing /\ pos[i] = blocks[j].at
           S == {i \in 0..n : Down(i) /\ Top(i) /\ Seen(i)}
<1>7. 0 \in S
  BY <1>1, <1>5
<1>8. ASSUME NEW i \in 1..n, i - 1 \in S PROVE i \in S
  <2>1. Down(i - 1) /\ Top(i - 1) /\ Seen(i - 1)
    BY <1>8
  <2>2. i \in 0..n /\ i - 1 \in 0..n /\ 0 \in 0..n
    BY <1>1
  <2>3. pos[i] \in Nat /\ pos[i - 1] \in Nat /\ pos[0] \in Nat
    BY <1>5, <2>2
  <2>4. pos[i] <= pos[i - 1]
    <3>1. CASE blocks[i] = Nothing
      <4>1. pos[i] = pos[i - 1]
        BY <1>4, <3>1
      <4> QED BY <2>3, <4>1
    <3>2. CASE blocks[i] # Nothing
      <4>1. pos[i - 1] = End(blocks[i]) /\ pos[i] = blocks[i].at
        BY <1>4, <3>2
      <4>2. /\ blocks[i].at \in Nat /\ blocks[i].size \in Nat
            /\ End(blocks[i]) = blocks[i].at + blocks[i].size
        BY <1>6, <3>2
      <4> QED BY <4>1, <4>2
    <3> QED BY <3>1, <3>2
  <2>5. Down(i)
    <3> SUFFICES ASSUME NEW j \in 0..i PROVE pos[i] <= pos[j]
      OBVIOUS
    <3>1. CASE j = i
      BY <2>3, <3>1
    <3>2. CASE j # i
      <4>1. j \in 0 .. i - 1 /\ j \in 0..n
        BY <3>2, <1>1
      <4>2. pos[j] \in Nat /\ pos[i - 1] <= pos[j]
        BY <1>5, <2>1, <4>1
      <4> QED BY <2>3, <2>4, <4>2
    <3> QED BY <3>1, <3>2
  <2>6. Top(i)
    BY <1>4, <1>6, <2>1, <2>3, <1>2
  <2>7. Seen(i)
    <3>1. CASE blocks[i] # Nothing
      BY <1>4, <3>1
    <3>2. CASE blocks[i] = Nothing
      <4>1. pos[i] = pos[i - 1]
        BY <1>4, <3>2
      <4>2. CASE \A j \in 1 .. i - 1 : blocks[j] = Nothing
        <5>1. \A j \in 1..i : j = i \/ j \in 1 .. i - 1
          OBVIOUS
        <5> QED BY <3>2, <4>2, <5>1
      <4>3. CASE \E j \in 1 .. i - 1 : blocks[j] # Nothing /\ pos[i - 1] = blocks[j].at
        <5>1. \A j \in 1 .. i - 1 : j \in 1..i
          OBVIOUS
        <5> QED BY <4>1, <4>3, <5>1
      <4> QED BY <2>1, <4>2, <4>3
    <3> QED BY <3>1, <3>2
  <2> HIDE DEF Down, Top, Seen
  <2> QED BY <2>2, <2>5, <2>6, <2>7
<1>9. 0..n \subseteq S
  <2> HIDE DEF S
  <2> QED BY <1>1, <1>7, <1>8, UpTo
<1>10. \A i \in 0..n : Down(i) /\ Top(i) /\ Seen(i)
  <2> HIDE DEF Down, Top, Seen
  <2> QED BY <1>9
<1>11. pos[0] = a.used
  <2>1. PICK k \in 1..n : blocks[k] # Nothing /\ End(blocks[k]) = a.used
    BY <1>1
  <2>2. pos[k - 1] = a.used /\ k - 1 \in 0..n
    BY <1>1, <1>4, <2>1
  <2>3. a.used <= pos[0]
    BY <1>1, <1>10, <2>2
  <2>4. pos[0] <= a.used
    <3>1. Top(k - 1)
      BY <1>10, <2>2
    <3> QED BY <2>2, <3>1, <1>2
  <2>5. pos[0] \in Nat
    BY <1>1, <1>5
  <2> QED BY <1>2, <2>3, <2>4, <2>5
<1>12. PICK after : Frees(after, a, blocks)
  BY <1>2, FreeAllUnfolds
<1>13. /\ FreeAll(a, blocks) = after[n]
       /\ after[0] = a
       /\ \A i \in 1..n : after[i] = Free(after[i - 1], blocks[i])
  BY <1>12 DEF Frees
<1> DEFINE T == {i \in 0..n : after[i].used = pos[i]}
<1>14. n \in T
  <2>1. 0 \in T
    BY <1>1, <1>11, <1>13
  <2>2. ASSUME NEW i \in 1..n, i - 1 \in T PROVE i \in T
    <3>1. after[i - 1].used = pos[i - 1] /\ i \in 0..n
      BY <2>2, <1>1
    <3>2. CASE blocks[i] = Nothing
      <4>1. after[i] = after[i - 1]
        BY <1>13, <3>2, Zenon DEF Free
      <4> QED BY <1>4, <3>1, <3>2, <4>1
    <3>3. CASE blocks[i] # Nothing
      <4>1. after[i].used = IF End(blocks[i]) = after[i - 1].used THEN blocks[i].at
                            ELSE after[i - 1].used
        <5>1. after[i] = Free(after[i - 1], blocks[i])
          BY <1>13
        <5>2. \A x : Free(x, blocks[i]).used = IF End(blocks[i]) = x.used THEN blocks[i].at
                                               ELSE x.used
          BY <3>3 DEF Free
        <5> QED BY <5>1, <5>2, Zenon
      <4> QED BY <1>4, <3>1, <3>3, <4>1
    <3> QED BY <3>2, <3>3
  <2> HIDE DEF T
  <2> QED BY <1>1, <2>1, <2>2, UpTo
<1>15. FreeAll(a, blocks).used = pos[n]
  BY <1>13, <1>14
<1>16. PICK j \in 1..n : blocks[j] # Nothing /\ pos[n] = blocks[j].at
  <2>1. Seen(n)
    BY <1>1, <1>10
  <2> QED BY <1>1, <2>1
<1>17. ASSUME NEW c \in Held(blocks) PROVE pos[n] <= c.at
  <2>1. PICK k \in 1..n : blocks[k] # Nothing /\ c = blocks[k]
    BY <1>1
  <2>2. pos[k] = c.at /\ k \in 0..n /\ n \in 0..n
    BY <1>1, <1>4, <2>1
  <2>3. Down(n)
    BY <1>10, <2>2
  <2> QED BY <2>2, <2>3
<1>18. blocks[j] \in Held(blocks)
  BY <1>1, <1>16
<1> QED BY <1>15, <1>16, <1>17, <1>18

-----------------------------------------------------------------------------
(* Taking blocks one after the other.                                      *)

\* What the recursive definition of the sums says.
Adds(sum, sizes) ==
  /\ sum \in [0 .. Len(sizes) -> Nat]
  /\ sum[0] = 0
  /\ \A i \in 1 .. Len(sizes) : sum[i] = sum[i - 1] + sizes[i]

LEMMA SumsUnfold ==
  ASSUME NEW sizes \in Seq(Nat)
  PROVE  Adds(Sums(sizes), sizes)
<1> DEFINE n == Len(sizes)
           step == [i \in 1..n |-> [x \in Nat |-> x + sizes[i]]]
           Recurs(f) == f = [i \in 0 .. Len(sizes) |->
                               IF i = 0 THEN 0 ELSE f[i - 1] + sizes[i]]
<1>1. n \in Nat /\ \A i \in 1..n : sizes[i] \in Nat
  OBVIOUS
<1>2. step \in [1..n -> [Nat -> Nat]] /\ 0 \in Nat
  BY <1>1
<1>3. \A i \in 1..n : \A x \in Nat : step[i][x] = x + sizes[i]
  OBVIOUS
<1> HIDE DEF step
<1>4. PICK f : Steps(f, n, 0, step) /\ Climbs(f, n, Nat, 0, step)
  BY <1>1, <1>2, StepsExist
<1>5. f \in [0..n -> Nat] /\ f[0] = 0 /\ \A i \in 1..n : f[i] = step[i][f[i - 1]]
  BY <1>4 DEF Climbs
<1>6. Recurs(f)
  <2>1. ASSUME NEW i \in 0..n, i # 0 PROVE f[i] = f[i - 1] + sizes[i]
    <3>1. i \in 1..n /\ i - 1 \in 0..n
      BY <1>1, <2>1
    <3>2. f[i - 1] \in Nat
      BY <1>5, <3>1
    <3> QED BY <1>3, <1>5, <3>1, <3>2
  <2>2. \A i \in 0..n : f[i] = IF i = 0 THEN 0 ELSE f[i - 1] + sizes[i]
    BY <1>5, <2>1
  <2>3. f = [i \in 0..n |-> f[i]]
    BY <1>5
  <2> QED BY <2>2, <2>3
<1> DEFINE sum == CHOOSE g : Recurs(g)
<1>7. Recurs(sum)
  <2> HIDE DEF Recurs
  <2> QED BY <1>6
<1>8. Sums(sizes) = sum
  BY DEF Sums
<1> HIDE DEF sum
<1>9. Steps(sum, n, 0, step)
  <2>1. \A i \in 0..n : sum[i] = IF i = 0 THEN 0 ELSE sum[i - 1] + sizes[i]
    BY <1>7, Zenon
  <2>2. sum = [i \in 0..n |-> sum[i]]
    BY <1>7
  <2> DEFINE T == {i \in 0..n : sum[i] \in Nat}
  <2>3. 0 \in T
    BY <1>1, <2>1
  <2>4. ASSUME NEW i \in 1..n, i - 1 \in T PROVE i \in T
    <3>1. sum[i - 1] \in Nat /\ i \in 0..n /\ i # 0
      BY <1>1, <2>4
    <3> QED BY <1>1, <2>1, <3>1
  <2>5. 0..n \subseteq T
    <3> HIDE DEF T
    <3> QED BY <1>1, <2>3, <2>4, UpTo
  <2>6. ASSUME NEW i \in 0..n, i # 0 PROVE sum[i] = step[i][sum[i - 1]]
    <3>1. i \in 1..n /\ i - 1 \in 0..n
      BY <1>1, <2>6
    <3>2. sum[i - 1] \in Nat
      BY <2>5, <3>1
    <3>3. sum[i] = sum[i - 1] + sizes[i]
      BY <2>1, <2>6
    <3> QED BY <1>3, <3>1, <3>2, <3>3
  <2>7. \A i \in 0..n : sum[i] = IF i = 0 THEN 0 ELSE step[i][sum[i - 1]]
    BY <2>1, <2>6, <1>1
  <2> QED BY <2>2, <2>7 DEF Steps
<1>10. Climbs(sum, n, Nat, 0, step)
  BY <1>1, <1>2, <1>9, StepsUnfold
<1>11. sum \in [0..n -> Nat] /\ sum[0] = 0 /\ \A i \in 1..n : sum[i] = step[i][sum[i - 1]]
  BY <1>10 DEF Climbs
<1>12. ASSUME NEW i \in 1..n PROVE sum[i] = sum[i - 1] + sizes[i]
  <2>1. i - 1 \in 0..n
    BY <1>1
  <2>2. sum[i - 1] \in Nat
    BY <1>11, <2>1
  <2> QED BY <1>3, <1>11, <2>2
<1> QED BY <1>8, <1>11, <1>12 DEF Adds

\* A sum over more of them is not smaller.
LEMMA SumsClimb ==
  ASSUME NEW sizes \in Seq(Nat), NEW i \in 0 .. Len(sizes), NEW j \in 0..i
  PROVE  Sums(sizes)[j] <= Sums(sizes)[i]
<1> DEFINE n == Len(sizes)
           sum == Sums(sizes)
           S == {k \in 0..n : \A m \in 0..k : sum[m] <= sum[k]}
<1>1. n \in Nat /\ \A k \in 1..n : sizes[k] \in Nat
  OBVIOUS
<1>2. sum \in [0..n -> Nat] /\ \A k \in 1..n : sum[k] = sum[k - 1] + sizes[k]
  BY SumsUnfold DEF Adds
<1> HIDE DEF sum
<1>3. 0 \in S
  BY <1>1, <1>2
<1>4. ASSUME NEW k \in 1..n, k - 1 \in S PROVE k \in S
  <2> SUFFICES ASSUME NEW m \in 0..k PROVE sum[m] <= sum[k]
    BY <1>1
  <2>1. k \in 0..n /\ k - 1 \in 0..n /\ m \in 0..n
    BY <1>1
  <2>2. sum[k] \in Nat /\ sum[k - 1] \in Nat /\ sum[m] \in Nat
    BY <1>2, <2>1
  <2>3. m = k \/ m \in 0 .. k - 1
    OBVIOUS
  <2>4. sum[k] = sum[k - 1] + sizes[k] /\ sizes[k] \in Nat
    BY <1>1, <1>2
  <2>5. m \in 0 .. k - 1 => sum[m] <= sum[k - 1]
    BY <1>4
  <2>6. CASE m = k
    BY <2>2, <2>6
  <2>7. CASE m \in 0 .. k - 1
    <3> DEFINE low  == sum[m]
               next == sum[k - 1]
               size == sizes[k]
    <3>1. /\ low \in Nat /\ next \in Nat /\ size \in Nat
          /\ sum[k] = next + size /\ low <= next
      BY <2>2, <2>4, <2>5, <2>7
    <3> HIDE DEF low, next, size
    <3>2. low <= next + size
      BY <3>1
    <3> QED BY <3>1, <3>2 DEF low
  <2> QED BY <2>3, <2>6, <2>7
<1>5. 0..n \subseteq S
  <2> HIDE DEF S
  <2> QED BY <1>1, <1>3, <1>4, UpTo
<1> QED BY <1>5 DEF sum

\* What is taken is new, in use, and its own.
Fills(a, taken) ==
  /\ Sound(taken.arena)
  /\ taken.blocks \in Lists
  /\ Once(taken.blocks)
  /\ taken.arena.live = a.live \cup Held(taken.blocks)
  /\ \A b \in Held(taken.blocks) : a.used <= b.at /\ b.at < End(b)

LEMMA TakeAllIsSound ==
  ASSUME NEW a, Sound(a), NEW sizes \in Seq(Nat)
  PROVE  /\ Fills(a, TakeAll(a, sizes))
         /\ TakeAll(a, sizes).arena.used = a.used + Total(sizes)
         /\ Total(sizes) \in Nat
         /\ Len(TakeAll(a, sizes).blocks) = Len(sizes)
         /\ \A i \in 1 .. Len(sizes) :
              IF sizes[i] = 0 THEN TakeAll(a, sizes).blocks[i] = Nothing
              ELSE /\ TakeAll(a, sizes).blocks[i] # Nothing
                   /\ TakeAll(a, sizes).blocks[i].at = a.used + Sums(sizes)[i - 1]
                   /\ End(TakeAll(a, sizes).blocks[i]) = a.used + Sums(sizes)[i]
<1> DEFINE n == Len(sizes)
           sum == Sums(sizes)
           blocks == [i \in 1 .. n |-> IF sizes[i] = 0 THEN Nothing
                                       ELSE Block(a.used + sum[i - 1], sizes[i])]
           top == a.used + Total(sizes)
<1>1. n \in Nat /\ \A i \in 1..n : sizes[i] \in Nat
  OBVIOUS
<1>2. sum \in [0..n -> Nat] /\ sum[0] = 0 /\ \A i \in 1..n : sum[i] = sum[i - 1] + sizes[i]
  BY SumsUnfold DEF Adds
<1>3. \A i \in 0..n : \A j \in 0..i : sum[j] <= sum[i]
  BY SumsClimb
<1>4. Total(sizes) = sum[n] /\ sum[n] \in Nat
  BY <1>1, <1>2 DEF Total
<1>5. TakeAll(a, sizes) = [arena  |-> [used |-> top, live |-> a.live \cup Held(blocks)],
                           blocks |-> blocks]
  BY DEF TakeAll
<1>6. a \in Arenas /\ a.used \in Nat /\ a.live \subseteq Blocks
  BY DEF Sound, Arenas
<1> HIDE DEF sum
<1>7. \A i \in 1..n : i \in 0..n /\ i - 1 \in 0..n /\ sum[i] \in Nat /\ sum[i - 1] \in Nat
  <2>1. \A i \in 1..n : i \in 0..n /\ i - 1 \in 0..n
    BY <1>1
  <2>2. \A i \in 0..n : sum[i] \in Nat
    BY <1>2
  <2> QED BY <2>1, <2>2
<1>8. ASSUME NEW i \in 1..n
      PROVE  IF sizes[i] = 0 THEN blocks[i] = Nothing
             ELSE /\ blocks[i] \in Blocks
                  /\ blocks[i] # Nothing
                  /\ blocks[i].size # 0
                  /\ blocks[i].at = a.used + sum[i - 1]
                  /\ End(blocks[i]) = a.used + sum[i]
  <2>1. CASE sizes[i] = 0
    BY <2>1
  <2>2. CASE sizes[i] # 0
    <3>1. blocks[i] = [at |-> a.used + sum[i - 1], size |-> sizes[i]]
      BY <2>2 DEF Block
    <3>2. a.used + sum[i - 1] \in Nat /\ sizes[i] \in Nat
      BY <1>1, <1>6, <1>7
    <3>3. sum[i] = sum[i - 1] + sizes[i]
      BY <1>2
    <3> HIDE DEF blocks
    <3>4. blocks[i] \in Blocks /\ blocks[i].at = a.used + sum[i - 1] /\ blocks[i].size = sizes[i]
      BY <3>1, <3>2 DEF Blocks
    <3>5. End(blocks[i]) = a.used + sum[i]
      BY <1>6, <1>7, <1>1, <3>3, <3>4 DEF End
    <3> QED BY <2>2, <3>4, <3>5, BlocksAreSomething
  <2> QED BY <2>1, <2>2
<1>9. blocks \in Lists /\ Len(blocks) = n
  <2>1. \A i \in 1..n : blocks[i] \in Blocks \cup {Nothing}
    BY <1>8
  <2>2. blocks \in [1..n -> Blocks \cup {Nothing}]
    BY <2>1
  <2> HIDE DEF blocks
  <2> QED BY <1>1, <2>2 DEF Lists
<1> HIDE DEF blocks
<1>10. Held(blocks) = {blocks[i] : i \in {j \in 1..n : blocks[j] # Nothing}}
       /\ Held(blocks) \subseteq Blocks
  BY <1>9, ListItems
<1>11. \A b \in Held(blocks) : \E i \in 1..n :
         /\ b = blocks[i] /\ b.size # 0
         /\ b.at = a.used + sum[i - 1] /\ End(b) = a.used + sum[i]
  BY <1>8, <1>10
<1>12. \A b \in Held(blocks) : b.at \in Nat /\ b.size \in Nat /\ End(b) = b.at + b.size
  BY <1>10 DEF Blocks, End
<1>13. \A i \in 1..n : sum[i] <= sum[n]
  BY <1>1, <1>3
<1>14. \A b \in Held(blocks) : /\ b.size # 0 /\ a.used <= b.at /\ b.at < End(b)
                               /\ End(b) <= top
  <2> SUFFICES ASSUME NEW b \in Held(blocks)
               PROVE  b.size # 0 /\ a.used <= b.at /\ b.at < End(b) /\ End(b) <= top
    OBVIOUS
  <2>1. PICK i \in 1..n : /\ b.size # 0
                          /\ b.at = a.used + sum[i - 1] /\ End(b) = a.used + sum[i]
    BY <1>11
  <2>2. sum[i] \in Nat /\ sum[i - 1] \in Nat /\ sum[i] <= sum[n]
    BY <1>7, <1>13
  <2>3. b.at \in Nat /\ b.size \in Nat /\ End(b) = b.at + b.size
    BY <1>12
  <2>4. top = a.used + sum[n] /\ a.used \in Nat /\ sum[n] \in Nat
    BY <1>4, <1>6
  <2> HIDE DEF top, n
  <2>5. a.used <= b.at
    <3>1. \A u, s \in Nat : u <= u + s
      OBVIOUS
    <3> QED BY <2>1, <2>2, <2>4, <3>1
  <2>6. End(b) <= top
    <3>1. \A u, s, t \in Nat : s <= t => u + s <= u + t
      OBVIOUS
    <3> QED BY <2>1, <2>2, <2>4, <3>1
  <2>7. b.at < End(b)
    <3>1. \A p, q \in Nat : q # 0 => p < p + q
      OBVIOUS
    <3> QED BY <2>1, <2>3, <3>1
  <2> QED BY <2>1, <2>5, <2>6, <2>7
<1>15. \A i, j \in 1..n : i < j => sum[i] <= sum[j - 1]
  <2> SUFFICES ASSUME NEW i \in 1..n, NEW j \in 1..n, i < j
               PROVE  sum[i] <= sum[j - 1]
    OBVIOUS
  <2>1. j - 1 \in 0..n /\ i \in 0..(j - 1)
    BY <1>1
  <2> QED BY <1>3, <2>1, Zenon
<1>16. \A b, c \in Held(blocks) : b # c => End(b) <= c.at \/ End(c) <= b.at
  <2> SUFFICES ASSUME NEW b \in Held(blocks), NEW c \in Held(blocks), b # c
               PROVE  End(b) <= c.at \/ End(c) <= b.at
    OBVIOUS
  <2>1. PICK i \in 1..n : b = blocks[i] /\ b.at = a.used + sum[i - 1] /\ End(b) = a.used + sum[i]
    BY <1>11
  <2>2. PICK j \in 1..n : c = blocks[j] /\ c.at = a.used + sum[j - 1] /\ End(c) = a.used + sum[j]
    BY <1>11
  <2>3. i < j \/ j < i
    BY <2>1, <2>2
  <2>4. sum[i] <= sum[j - 1] \/ sum[j] <= sum[i - 1]
    BY <1>15, <2>3
  <2>5. sum[i] \in Nat /\ sum[i - 1] \in Nat /\ sum[j] \in Nat /\ sum[j - 1] \in Nat
    BY <1>7
  <2>6. \A u, s, t \in Nat : s <= t => u + s <= u + t
    OBVIOUS
  <2>7. CASE sum[i] <= sum[j - 1]
    <3>1. a.used + sum[i] <= a.used + sum[j - 1]
      BY <1>6, <2>5, <2>6, <2>7
    <3> QED BY <2>1, <2>2, <3>1
  <2>8. CASE sum[j] <= sum[i - 1]
    <3>1. a.used + sum[j] <= a.used + sum[i - 1]
      BY <1>6, <2>5, <2>6, <2>8
    <3> QED BY <2>1, <2>2, <3>1
  <2> QED BY <2>4, <2>7, <2>8
<1>17. Once(blocks)
  <2> SUFFICES ASSUME NEW i \in 1..n, NEW j \in 1..n, blocks[i] = blocks[j],
                      blocks[i] # Nothing, i < j
               PROVE  FALSE
    <3>1. \A i, j \in 1..n : i < j \/ j < i \/ i = j
      OBVIOUS
    <3> QED BY <1>9, <3>1 DEF Once
  <2>1. blocks[i] \in Held(blocks)
    BY <1>10
  <2>2. End(blocks[i]) = a.used + sum[i] /\ blocks[i].at = a.used + sum[j - 1]
    BY <1>8
  <2>3. blocks[i].at < End(blocks[i]) /\ sum[i] <= sum[j - 1]
    BY <1>14, <1>15, <2>1
  <2> QED BY <1>6, <1>7, <2>2, <2>3
<1>18. Sound(TakeAll(a, sizes).arena)
  <2> DEFINE live == a.live \cup Held(blocks)
  <2>1. \A b \in a.live : b.at \in Nat /\ b.size \in Nat /\ b.size # 0
                          /\ End(b) = b.at + b.size /\ End(b) <= a.used
    BY <1>6 DEF Sound, Blocks, End
  <2>2. top \in Nat /\ a.used <= top
    BY <1>4, <1>6
  <2> HIDE DEF top
  <2>3. [used |-> top, live |-> live] \in Arenas
    BY <1>6, <1>10, <2>2 DEF Arenas
  <2>4. \A b \in live : b.size # 0 /\ End(b) <= top
    BY <1>6, <1>14, <2>1, <2>2
  <2>5. \A b, c \in live : b # c => End(b) <= c.at \/ End(c) <= b.at
    <3>1. \A b, c \in a.live : b # c => End(b) <= c.at \/ End(c) <= b.at
      BY DEF Sound
    <3>2. \A b \in a.live : \A c \in Held(blocks) : End(b) <= c.at
      BY <1>6, <1>12, <1>14, <2>1
    <3> QED BY <1>16, <3>1, <3>2
  <2> HIDE DEF live
  <2>6. Sound([used |-> top, live |-> live])
    BY <2>3, <2>4, <2>5 DEF Sound
  <2> QED BY <1>5, <2>6 DEF live
<1>19. /\ TakeAll(a, sizes).blocks = blocks
       /\ TakeAll(a, sizes).arena.live = a.live \cup Held(blocks)
       /\ TakeAll(a, sizes).arena.used = a.used + Total(sizes)
  BY <1>5
<1>20. Fills(a, TakeAll(a, sizes))
  BY <1>9, <1>14, <1>17, <1>18, <1>19 DEF Fills
<1> QED BY <1>4, <1>8, <1>9, <1>19, <1>20 DEF sum

\* A decoder's workspace is gone when it is done, and nothing else.
LEMMA DecodedIsSound ==
  ASSUME Sound(arena), NEW workspace \in Nat \ {0}, NEW sizes \in Seq(Nat)
  PROVE  /\ Fills(arena, Decoded(workspace, sizes))
         /\ Decoded(workspace, sizes).arena.used <= arena.used + workspace + Total(sizes)
         /\ Len(Decoded(workspace, sizes).blocks) = Len(sizes)
         /\ Total(sizes) \in Nat
<1> DEFINE w == Block(arena.used, workspace)
           t == Take(arena, workspace)
           made == TakeAll(t, sizes)
           done == Free(made.arena, w)
<1>1. /\ Sound(t) /\ t.used = arena.used + workspace /\ t.live = arena.live \cup {w}
      /\ w \in Blocks /\ w \notin arena.live
  BY TakeIsSound
<1>2. w.at = arena.used
  BY DEF Block
<1>3. arena.used \in Nat
  BY DEF Sound, Arenas
<1>4. Decoded(workspace, sizes) = [arena |-> done, blocks |-> made.blocks]
  <2>1. made = [arena |-> made.arena, blocks |-> made.blocks]
    BY DEF TakeAll
  <2>2. Decoded(workspace, sizes) = [made EXCEPT !.arena = done]
    BY Zenon DEF Decoded
  <2> HIDE DEF made, done
  <2> QED BY <2>1, <2>2
<1> HIDE DEF t, w
<1>5. /\ Fills(t, made) /\ made.arena.used = t.used + Total(sizes) /\ Total(sizes) \in Nat
      /\ Len(made.blocks) = Len(sizes)
  BY <1>1, TakeAllIsSound
<1> HIDE DEF made
<1>6. /\ Sound(made.arena) /\ made.blocks \in Lists /\ Once(made.blocks)
      /\ made.arena.live = t.live \cup Held(made.blocks)
      /\ \A b \in Held(made.blocks) : t.used <= b.at /\ b.at < End(b)
  BY <1>5 DEF Fills
<1>7. \A b \in Held(made.blocks) : b.at \in Nat
  BY <1>6, ListItems DEF Blocks
<1>8. \A b \in Held(made.blocks) : arena.used <= b.at /\ b.at < End(b) /\ b # w
  BY <1>1, <1>2, <1>3, <1>6, <1>7
<1>9. w \in made.arena.live \cup {Nothing}
  BY <1>1, <1>6
<1>10. Sound(done) /\ done.used <= made.arena.used /\ done.live = made.arena.live \ {w}
  BY <1>6, <1>9, FreeIsSound
<1>11. done.live = arena.live \cup Held(made.blocks)
  BY <1>1, <1>6, <1>8, <1>10
<1>12. Fills(arena, [arena |-> done, blocks |-> made.blocks])
  <2> HIDE DEF done
  <2> QED BY <1>6, <1>8, <1>10, <1>11 DEF Fills
<1>13. done.used <= arena.used + workspace + Total(sizes)
  BY <1>1, <1>5, <1>10
<1> QED BY <1>4, <1>5, <1>12, <1>13

-----------------------------------------------------------------------------
(* The order the structs list their blocks in.                             *)

Reorders(list, blocks, p) ==
  /\ Len(list) = Len(blocks)
  /\ p \in [1 .. Len(blocks) -> 1 .. Len(blocks)]
  /\ \A i, j \in 1 .. Len(blocks) : p[i] = p[j] => i = j
  /\ \A j \in 1 .. Len(blocks) : \E i \in 1 .. Len(blocks) : p[i] = j
  /\ \A i \in 1 .. Len(blocks) : list[i] = blocks[p[i]]

\* Another order, the same blocks.
LEMMA ReorderedIsTheSame ==
  ASSUME NEW a, NEW blocks, NEW arenaOf, NEW list \in Seq(Blocks \cup {Nothing}), NEW p,
         Fills(a, [arena |-> arenaOf, blocks |-> blocks]), Reorders(list, blocks, p)
  PROVE  Fills(a, [arena |-> arenaOf, blocks |-> list])
<1> DEFINE n == Len(blocks)
<1>1. /\ Sound(arenaOf) /\ blocks \in Lists /\ Once(blocks)
      /\ arenaOf.live = a.live \cup Held(blocks)
      /\ \A b \in Held(blocks) : a.used <= b.at /\ b.at < End(b)
  BY DEF Fills
<1>2. list \in Lists
  BY DEF Lists
<1>3. /\ Held(blocks) = {blocks[i] : i \in {j \in 1..n : blocks[j] # Nothing}}
      /\ Held(list) = {list[i] : i \in {j \in 1 .. Len(list) : list[j] # Nothing}}
  BY <1>1, <1>2, ListItems
<1>4. /\ Len(list) = n /\ p \in [1..n -> 1..n]
      /\ \A i, j \in 1..n : p[i] = p[j] => i = j
      /\ \A j \in 1..n : \E i \in 1..n : p[i] = j
      /\ \A i \in 1..n : list[i] = blocks[p[i]]
  BY DEF Reorders
<1>5. Held(list) = Held(blocks)
  <2>1. ASSUME NEW b \in Held(list) PROVE b \in Held(blocks)
    <3>1. PICK i \in 1..n : b = list[i] /\ b # Nothing
      BY <1>3, <1>4
    <3>2. p[i] \in 1..n /\ b = blocks[p[i]]
      BY <1>4, <3>1
    <3>3. p[i] \in {k \in 1..n : blocks[k] # Nothing}
      BY <3>1, <3>2
    <3> QED BY <1>3, <3>2, <3>3, Zenon
  <2>2. ASSUME NEW b \in Held(blocks) PROVE b \in Held(list)
    <3>1. PICK j \in 1..n : b = blocks[j] /\ b # Nothing
      BY <1>3
    <3>2. PICK i \in 1..n : p[i] = j
      BY <1>4
    <3>3. list[i] = b
      BY <1>4, <3>1, <3>2
    <3>4. i \in {k \in 1 .. Len(list) : list[k] # Nothing}
      BY <1>4, <3>1, <3>3
    <3> QED BY <1>3, <3>3, <3>4, Zenon
  <2> QED BY <2>1, <2>2
<1>6. Once(list)
  <2> SUFFICES ASSUME NEW i \in 1..n, NEW j \in 1..n, list[i] = list[j], list[i] # Nothing
               PROVE  i = j
    BY <1>4 DEF Once
  <2>1. p[i] \in 1..n /\ p[j] \in 1..n /\ list[i] = blocks[p[i]] /\ list[j] = blocks[p[j]]
    BY <1>4
  <2>2. p[i] = p[j]
    BY <1>1, <2>1 DEF Once
  <2> QED BY <1>4, <2>2
<1> QED BY <1>1, <1>2, <1>5, <1>6 DEF Fills

\* What a decoder puts into a confirmed transaction.
LEMMA DecodedInOrder ==
  ASSUME NEW a, NEW taken, Fills(a, taken), Len(taken.blocks) = 3
  PROVE  Fills(a, [arena |-> taken.arena,
                   blocks |-> ConfirmedBlocks(DecodedConfirmed(taken.blocks))])
<1> DEFINE blocks == taken.blocks
           list == <<blocks[2], blocks[1], blocks[3]>>
           p == [i \in 1..3 |-> IF i = 1 THEN 2 ELSE IF i = 2 THEN 1 ELSE 3]
<1>1. ConfirmedBlocks(DecodedConfirmed(blocks)) = list
  BY DEF ConfirmedBlocks, DecodedConfirmed
<1>2. Fills(a, [arena |-> taken.arena, blocks |-> blocks]) /\ blocks \in Lists
  BY DEF Fills
<1>3. blocks[1] \in Blocks \cup {Nothing} /\ blocks[2] \in Blocks \cup {Nothing}
      /\ blocks[3] \in Blocks \cup {Nothing}
  BY <1>2, ListItems
<1>4. list \in Seq(Blocks \cup {Nothing})
  BY <1>3
<1>5. Reorders(list, blocks, p)
  BY DEF Reorders
<1> HIDE DEF list, p
<1> QED BY <1>1, <1>2, <1>4, <1>5, ReorderedIsTheSame

\* What a host puts into one.
LEMMA ReservedInOrder ==
  ASSUME NEW a, NEW taken, Fills(a, taken), Len(taken.blocks) = 3
  PROVE  Fills(a, [arena |-> taken.arena,
                   blocks |-> ConfirmedBlocks(ReservedConfirmed(taken.blocks))])
<1> DEFINE blocks == taken.blocks
           list == <<blocks[3], blocks[2], blocks[1]>>
           p == [i \in 1..3 |-> 4 - i]
<1>1. ConfirmedBlocks(ReservedConfirmed(blocks)) = list
  BY DEF ConfirmedBlocks, ReservedConfirmed
<1>2. Fills(a, [arena |-> taken.arena, blocks |-> blocks]) /\ blocks \in Lists
  BY DEF Fills
<1>3. blocks[1] \in Blocks \cup {Nothing} /\ blocks[2] \in Blocks \cup {Nothing}
      /\ blocks[3] \in Blocks \cup {Nothing}
  BY <1>2, ListItems
<1>4. list \in Seq(Blocks \cup {Nothing})
  BY <1>3
<1>5. Reorders(list, blocks, p)
  <2>1. \A j \in 1..3 : 4 - j \in 1..3 /\ p[4 - j] = j
    OBVIOUS
  <2> QED BY <2>1 DEF Reorders
<1> HIDE DEF list, p
<1> QED BY <1>1, <1>2, <1>4, <1>5, ReorderedIsTheSame

\* The blocks of a filled body, from the last payload to the slots, then the uuid.
LEMMA BodyListed ==
  ASSUME NEW made, NEW blocks \in Lists, Len(blocks) >= 2
  PROVE  /\ BodyBlocks(FilledBody(made, blocks)) \in Seq(Blocks \cup {Nothing})
         /\ Len(BodyBlocks(FilledBody(made, blocks))) = Len(blocks)
         /\ \A i \in 1 .. Len(blocks) :
              BodyBlocks(FilledBody(made, blocks))[i] =
                blocks[IF i = Len(blocks) THEN i ELSE Len(blocks) - i]
<1> DEFINE n == Len(blocks)
           item == Blocks \cup {Nothing}
           payloads == SubSeq(blocks, 2, n - 1)
           back == Reverse(payloads)
           tail == <<Head(blocks), Last(blocks)>>
           list == back \o tail
<1>1. n \in Nat /\ n >= 2 /\ \A i \in 1..n : blocks[i] \in item
  BY ListItems
<1>2. BodyBlocks(FilledBody(made, blocks)) = list
  BY DEF BodyBlocks, FilledBody
<1>3. Head(blocks) = blocks[1] /\ Last(blocks) = blocks[n]
  BY <1>1 DEF Lists, Last
<1>4. /\ payloads \in Seq(item) /\ Len(payloads) = n - 2
      /\ \A i \in 1 .. n - 2 : payloads[i] = blocks[i + 1]
  <2>1. /\ payloads \in Seq(item)
        /\ Len(payloads) = IF 2 <= n - 1 THEN (n - 1) - 2 + 1 ELSE 0
        /\ \A i \in 1 .. (n - 1) - 2 + 1 : payloads[i] = blocks[2 + i - 1]
    <3>1. blocks \in Seq(item) /\ 2 \in 1 .. n + 1 /\ n - 1 \in 2 - 1 .. n
      BY <1>1 DEF Lists
    <3> HIDE DEF item, payloads
    <3> QED BY <3>1, SubSeqProperties DEF payloads
  <2> HIDE DEF payloads, item
  <2>2. (n - 1) - 2 + 1 = n - 2 /\ (2 <= n - 1 \/ n - 2 = 0)
    <3>1. n \in Nat /\ n >= 2
      BY <1>1
    <3> HIDE DEF n
    <3> QED BY <3>1
  <2>3. \A i \in 1 .. n - 2 : 2 + i - 1 = i + 1
    OBVIOUS
  <2>4. Len(payloads) = n - 2
    BY <1>1, <2>1, <2>2
  <2> QED BY <2>1, <2>2, <2>3, <2>4
<1> HIDE DEF payloads
<1>5. back \in Seq(item) /\ Len(back) = n - 2 /\ \A i \in 1 .. n - 2 : back[i] = blocks[n - i]
  <2>1. back = [i \in 1 .. n - 2 |-> payloads[(n - 2 - i) + 1]]
    BY <1>4 DEF Reverse
  <2>2. ASSUME NEW i \in 1 .. n - 2 PROVE back[i] = blocks[n - i] /\ back[i] \in item
    <3>1. (n - 2 - i) + 1 \in 1 .. n - 2 /\ ((n - 2 - i) + 1) + 1 = n - i /\ n - i \in 1..n
      BY <1>1
    <3> QED BY <1>1, <1>4, <2>1, <3>1
  <2>3. back \in [1 .. n - 2 -> item]
    BY <2>1, <2>2
  <2>4. n - 2 \in Nat
    BY <1>1
  <2> HIDE DEF back
  <2> QED BY <2>2, <2>3, <2>4
<1> HIDE DEF back
<1>6. Head(blocks) \in item /\ Last(blocks) \in item
  BY <1>1, <1>3
<1> HIDE DEF item
<1>7. tail \in Seq(item) /\ Len(tail) = 2 /\ tail[1] = blocks[1] /\ tail[2] = blocks[n]
  BY <1>3, <1>6
<1> HIDE DEF tail
<1>8. /\ list \in Seq(item) /\ Len(list) = n
      /\ \A i \in 1..n : list[i] = IF i <= n - 2 THEN back[i] ELSE tail[i - (n - 2)]
  <2>1. (n - 2) + 2 = n
    BY <1>1
  <2>2. /\ list \in Seq(item)
        /\ Len(list) = Len(back) + Len(tail)
        /\ \A i \in 1 .. Len(back) + Len(tail) :
             list[i] = IF i <= Len(back) THEN back[i] ELSE tail[i - Len(back)]
    BY <1>5, <1>7, ConcatProperties
  <2> HIDE DEF list, n
  <2> QED BY <1>5, <1>7, <2>1, <2>2
<1>9. ASSUME NEW i \in 1..n PROVE list[i] = blocks[IF i = n THEN i ELSE n - i]
  <2> HIDE DEF list
  <2>1. CASE i <= n - 2
    <3>1. i \in 1 .. n - 2 /\ i # n
      BY <1>1, <2>1
    <3> QED BY <1>5, <1>8, <2>1, <3>1
  <2>2. CASE i = n - 1
    <3>1. ~(i <= n - 2) /\ i - (n - 2) = 1 /\ n - i = 1 /\ i # n
      BY <1>1, <2>2
    <3> QED BY <1>7, <1>8, <3>1
  <2>3. CASE i = n
    <3>1. ~(i <= n - 2) /\ i - (n - 2) = 2
      BY <1>1, <2>3
    <3> QED BY <1>7, <1>8, <2>3, <3>1
  <2> QED BY <1>1, <2>1, <2>2, <2>3
<1> QED BY <1>2, <1>8, <1>9 DEF item

LEMMA BodyInOrder ==
  ASSUME NEW a, NEW made, NEW taken, Fills(a, taken), Len(taken.blocks) >= 2
  PROVE  Fills(a, [arena |-> taken.arena,
                   blocks |-> BodyBlocks(FilledBody(made, taken.blocks))])
<1> DEFINE blocks == taken.blocks
           n == Len(blocks)
           list == BodyBlocks(FilledBody(made, blocks))
           p == [i \in 1..n |-> IF i = n THEN i ELSE n - i]
<1>1. Fills(a, [arena |-> taken.arena, blocks |-> blocks]) /\ blocks \in Lists
  BY DEF Fills
<1>2. n \in Nat
  BY <1>1, ListItems
<1>3. /\ list \in Seq(Blocks \cup {Nothing}) /\ Len(list) = n
      /\ \A i \in 1..n : list[i] = blocks[IF i = n THEN i ELSE n - i]
  BY <1>1, BodyListed
<1> HIDE DEF list
<1>4. \A i \in 1..n : p[i] \in 1..n /\ (i = n => p[i] = n) /\ (i # n => p[i] = n - i)
  BY <1>2
<1>5. p \in [1..n -> 1..n]
  BY <1>4
<1>6. \A i \in 1..n : list[i] = blocks[p[i]]
  BY <1>3
<1> HIDE DEF p
<1>7. \A i, j \in 1..n : p[i] = p[j] => i = j
  BY <1>2, <1>4
<1>8. ASSUME NEW j \in 1..n PROVE \E i \in 1..n : p[i] = j
  <2>1. CASE j = n
    BY <1>4, <2>1
  <2>2. CASE j # n
    <3>1. n - j \in 1..n /\ n - j # n /\ n - (n - j) = j
      BY <1>2, <2>2
    <3> QED BY <1>4, <3>1
  <2> QED BY <2>1, <2>2
<1>9. Reorders(list, blocks, p)
  BY <1>3, <1>5, <1>6, <1>7, <1>8 DEF Reorders
<1> QED BY <1>1, <1>3, <1>9, ReorderedIsTheSame DEF list

\* A list that has the first m blocks from the last to the first, and no more.
Unwinds(list, blocks, m) ==
  /\ \A i \in 1..m : list[i] = blocks[m + 1 - i]
  /\ \A i \in m + 1 .. Len(list) : list[i] = Nothing

\* Blocks taken one after the other go back one after the other when the last
\* of them goes first and nothing is in between.
LEMMA TakenIsStacked ==
  ASSUME NEW a, Sound(a), NEW sizes \in Seq(Nat), NEW list \in Lists, NEW m \in Nat,
         m <= Len(sizes), m <= Len(list),
         Unwinds(list, TakeAll(a, sizes).blocks, m)
  PROVE  Stacked(list)
<1> USE DEF Unwinds
<1> DEFINE n == Len(list)
           sum == Sums(sizes)
           blocks == TakeAll(a, sizes).blocks
           pos == [i \in 0..n |-> a.used + sum[IF i <= m THEN m - i ELSE 0]]
<1>1. n \in Nat /\ Len(sizes) \in Nat /\ \A k \in 1 .. Len(sizes) : sizes[k] \in Nat
  BY ListItems
<1>2. sum \in [0 .. Len(sizes) -> Nat] /\ \A k \in 1 .. Len(sizes) : sum[k] = sum[k - 1] + sizes[k]
  BY SumsUnfold DEF Adds
<1>3. a.used \in Nat
  BY DEF Sound, Arenas
<1>4. \A k \in 1 .. Len(sizes) :
        IF sizes[k] = 0 THEN blocks[k] = Nothing
        ELSE blocks[k] # Nothing /\ blocks[k].at = a.used + sum[k - 1]
             /\ End(blocks[k]) = a.used + sum[k]
  BY TakeAllIsSound
<1> HIDE DEF sum, blocks
<1>5. pos \in [0..n -> Nat]
  <2>1. ASSUME NEW i \in 0..n PROVE a.used + sum[IF i <= m THEN m - i ELSE 0] \in Nat
    <3>1. (IF i <= m THEN m - i ELSE 0) \in 0 .. Len(sizes)
      BY <1>1
    <3>2. sum[IF i <= m THEN m - i ELSE 0] \in Nat
      BY <1>2, <3>1
    <3> QED BY <1>3, <3>2
  <2> QED BY <2>1
<1>6. ASSUME NEW i \in 1..n
      PROVE  \/ list[i] = Nothing /\ pos[i] = pos[i - 1]
             \/ list[i] # Nothing /\ pos[i - 1] = End(list[i]) /\ pos[i] = list[i].at
  <2>1. i \in 0..n /\ i - 1 \in 0..n
    BY <1>1
  <2>2. CASE i <= m
    <3> DEFINE k == m + 1 - i
    <3>1. k \in 1 .. Len(sizes) /\ m - i = k - 1 /\ m - (i - 1) = k /\ i - 1 <= m /\ i \in 1..m
      BY <1>1, <2>2
    <3>2. list[i] = blocks[k]
      BY <3>1 DEF blocks
    <3> HIDE DEF k
    <3>3. pos[i] = a.used + sum[k - 1] /\ pos[i - 1] = a.used + sum[k]
      BY <2>1, <2>2, <3>1
    <3>4. sum[k] = sum[k - 1] + sizes[k] /\ sum[k - 1] \in Nat /\ sizes[k] \in Nat
      <4>1. k - 1 \in 0 .. Len(sizes)
        BY <1>1, <3>1
      <4> QED BY <1>1, <1>2, <3>1, <4>1
    <3> HIDE DEF pos
    <3>5. CASE sizes[k] = 0
      <4>1. list[i] = Nothing
        BY <1>4, <3>1, <3>2, <3>5
      <4>2. sum[k] = sum[k - 1]
        BY <3>4, <3>5
      <4> QED BY <3>3, <4>1, <4>2
    <3>6. CASE sizes[k] # 0
      BY <1>4, <3>1, <3>2, <3>3, <3>6
    <3> QED BY <3>5, <3>6
  <2>3. CASE ~(i <= m)
    <3>1. list[i] = Nothing
      BY <1>1, <2>3
    <3>2. pos[i] = a.used + sum[0]
      BY <2>1, <2>3
    <3>3. pos[i - 1] = a.used + sum[0]
      <4>1. CASE i - 1 <= m
        <5>1. m - (i - 1) = 0
          BY <1>1, <2>3, <4>1
        <5> QED BY <2>1, <4>1, <5>1
      <4>2. CASE ~(i - 1 <= m)
        BY <2>1, <4>2
      <4> QED BY <4>1, <4>2
    <3> QED BY <3>1, <3>2, <3>3
  <2> QED BY <2>2, <2>3
<1> HIDE DEF pos
<1> QED BY <1>5, <1>6 DEF Stacked, Descends

-----------------------------------------------------------------------------
(* Two structs in one arena.                                               *)

\* What a struct holds is not touched by what another takes.
LEMMA FilledLeavesTheOther ==
  ASSUME NEW a, Sound(a), NEW made, NEW blocks, Owns(a, made, blocks),
         NEW x, NEW list, Fills(a, [arena |-> x, blocks |-> list])
  PROVE  Owns(x, made, blocks) /\ Held(blocks) \cap Held(list) = {}
<1>1. x.live = a.live \cup Held(list) /\ \A b \in Held(list) : a.used <= b.at
  BY DEF Fills
<1>2. blocks \in Lists /\ Once(blocks) /\ Held(blocks) \subseteq a.live
      /\ (made = "failed" => Held(blocks) = {}) /\ (made = "reserved" => Stacked(blocks))
  BY DEF Owns
<1>3. \A b \in a.live : b \in Blocks /\ b.size # 0 /\ End(b) <= a.used
  BY DEF Sound, Arenas
<1>4. \A b \in a.live : b.at < a.used
  BY <1>3 DEF Blocks, End, Sound, Arenas
<1>5. \A b \in a.live : b \notin Held(list)
  <2>1. \A b \in a.live : b.at \in Nat
    BY <1>3 DEF Blocks
  <2>2. a.used \in Nat
    BY DEF Sound, Arenas
  <2> QED BY <1>1, <1>4, <2>1, <2>2
<1> QED BY <1>1, <1>2, <1>5 DEF Owns

\* Nor by what another gives back.
LEMMA FreedLeavesTheOther ==
  ASSUME NEW a, Sound(a), NEW made, NEW blocks, Owns(a, made, blocks),
         NEW other, NEW list, Owns(a, other, list), Held(list) \cap Held(blocks) = {}
  PROVE  /\ Sound(FreeAll(a, list))
         /\ FreeAll(a, list).used <= a.used
         /\ Owns(FreeAll(a, list), made, blocks)
<1>1. list \in Lists /\ Once(list) /\ Held(list) \subseteq a.live
  BY DEF Owns
<1>2. /\ Sound(FreeAll(a, list)) /\ FreeAll(a, list).used <= a.used
      /\ FreeAll(a, list).live = a.live \ Held(list)
  BY <1>1, FreeAllIsSound
<1> QED BY <1>2 DEF Owns

\* Lists of NULL pointers.
LEMMA ListsOfNothing ==
  /\ <<Nothing, Nothing, Nothing>> \in Lists /\ Once(<<Nothing, Nothing, Nothing>>)
  /\ Held(<<Nothing, Nothing, Nothing>>) = {}
  /\ <<Nothing, Nothing>> \in Lists /\ Once(<<Nothing, Nothing>>)
  /\ Held(<<Nothing, Nothing>>) = {}
  /\ Reverse(<<>>) \o <<Nothing, Nothing>> = <<Nothing, Nothing>>
<1>1. /\ <<Nothing, Nothing, Nothing>> \in Lists /\ Once(<<Nothing, Nothing, Nothing>>)
      /\ Held(<<Nothing, Nothing, Nothing>>) = {}
  BY DEF Lists, Once, Held, Range
<1>2. /\ <<Nothing, Nothing>> \in Lists /\ Once(<<Nothing, Nothing>>)
      /\ Held(<<Nothing, Nothing>>) = {}
  BY DEF Lists, Once, Held, Range
<1>3. Reverse(<<>>) = <<>>
  BY DEF Reverse
<1>4. <<>> \o <<Nothing, Nothing>> = <<Nothing, Nothing>>
  BY ConcatEmptySeq
<1> QED BY <1>1, <1>2, <1>3, <1>4

\* A struct that holds nothing owns what it lists.
LEMMA NothingIsOwned ==
  ASSUME NEW a, NEW made \in {"", "failed"}
  PROVE  /\ Owns(a, made, ConfirmedBlocks([NoConfirmed EXCEPT !.made = made]))
         /\ Owns(a, made, ConfirmedBlocks(NoConfirmed))
         /\ Owns(a, made, BodyBlocks([NoBody EXCEPT !.made = made]))
         /\ Owns(a, made, BodyBlocks(NoBody))
         /\ Held(ConfirmedBlocks([NoConfirmed EXCEPT !.made = made])) = {}
         /\ Held(ConfirmedBlocks(NoConfirmed)) = {}
         /\ Held(BodyBlocks([NoBody EXCEPT !.made = made])) = {}
         /\ Held(BodyBlocks(NoBody)) = {}
<1>1. /\ ConfirmedBlocks([NoConfirmed EXCEPT !.made = made]) = <<Nothing, Nothing, Nothing>>
      /\ ConfirmedBlocks(NoConfirmed) = <<Nothing, Nothing, Nothing>>
  BY DEF ConfirmedBlocks, NoConfirmed
<1>2. /\ BodyBlocks([NoBody EXCEPT !.made = made]) = <<Nothing, Nothing>>
      /\ BodyBlocks(NoBody) = <<Nothing, Nothing>>
  BY ListsOfNothing DEF BodyBlocks, NoBody
<1>3. made # "reserved"
  OBVIOUS
<1> QED BY <1>1, <1>2, <1>3, ListsOfNothing DEF Owns

\* Initialised structs.
LEMMA NothingIsHeld ==
  ASSUME NEW a
  PROVE  /\ Owns(a, NoConfirmed.made, ConfirmedBlocks(NoConfirmed))
         /\ Owns(a, NoBody.made, BodyBlocks(NoBody))
         /\ Held(ConfirmedBlocks(NoConfirmed)) = {}
         /\ Held(BodyBlocks(NoBody)) = {}
<1>1. NoConfirmed.made = "" /\ NoBody.made = ""
  BY DEF NoConfirmed, NoBody
<1> QED BY <1>1, NothingIsOwned

\* The sizes of a body's blocks.
LEMMA BodySizesListed ==
  ASSUME NEW memos \in Nat, NEW uuids \in Nat
  PROVE  /\ BodySizes(memos, uuids) \in Seq(Nat)
         /\ Len(BodySizes(memos, uuids)) = memos + 2
         /\ BodySizes(memos, uuids)[memos + 2] = uuids
<1> DEFINE ones == [i \in 1..memos |-> 1]
           front == <<memos>> \o ones
<1>1. ones \in Seq(Nat) /\ Len(ones) = memos
  OBVIOUS
<1> HIDE DEF ones
<1>2. <<memos>> \in Seq(Nat) /\ Len(<<memos>>) = 1 /\ <<uuids>> \in Seq(Nat)
      /\ Len(<<uuids>>) = 1 /\ <<uuids>>[1] = uuids
  OBVIOUS
<1>3. front \in Seq(Nat) /\ Len(front) = 1 + memos
  BY <1>1, <1>2, ConcatProperties
<1> HIDE DEF front
<1>4. BodySizes(memos, uuids) = front \o <<uuids>>
  BY DEF BodySizes, front, ones
<1>5. /\ front \o <<uuids>> \in Seq(Nat)
      /\ Len(front \o <<uuids>>) = (1 + memos) + 1
      /\ \A i \in 1 .. (1 + memos) + 1 : (front \o <<uuids>>)[i] =
           IF i <= 1 + memos THEN front[i] ELSE <<uuids>>[i - (1 + memos)]
  BY <1>2, <1>3, ConcatProperties
<1>6. (1 + memos) + 1 = memos + 2 /\ memos + 2 \in 1 .. (1 + memos) + 1
      /\ ~(memos + 2 <= 1 + memos) /\ (memos + 2) - (1 + memos) = 1
  OBVIOUS
<1> QED BY <1>2, <1>4, <1>5, <1>6

-----------------------------------------------------------------------------
(* The steps.                                                              *)

\* A struct that takes the place of one that held nothing: what there was, and it.
LEMMA DecodeConfirmedKeeps ==
  ASSUME ScratchInv, NEW w \in Workspaces, NEW p \in 0..MaxItems, NEW b \in 0..MaxItems,
         DecodeConfirmed(w, p, b)
  PROVE  ScratchInv'
<1> DEFINE sizes == <<p, 1, b>>
           made == Decoded(w, sizes)
<1>1. w \in Nat \ {0} /\ p \in Nat /\ b \in Nat /\ Capacity \in Nat
  BY WorkspacesAssumption, MaxItemsAssumption, CapacityAssumption
<1>2. sizes \in Seq(Nat) /\ Len(sizes) = 3
  BY <1>1
<1>3. /\ w + Total(sizes) <= Room /\ arena' = made.arena
      /\ confirmed' = DecodedConfirmed(made.blocks) /\ body' = body
  BY DEF DecodeConfirmed
<1> HIDE DEF sizes
<1>4. /\ Fills(arena, made) /\ made.arena.used <= arena.used + w + Total(sizes)
      /\ Len(made.blocks) = 3 /\ Total(sizes) \in Nat
  BY <1>1, <1>2, DecodedIsSound DEF ScratchInv
<1> HIDE DEF made
<1>5. Fills(arena, [arena |-> arena', blocks |-> ConfirmedBlocks(confirmed')])
  BY <1>3, <1>4, DecodedInOrder
<1>6. confirmed'.made = "decoded"
  BY <1>3 DEF DecodedConfirmed
<1>7. Sound(arena') /\ arena'.used <= Capacity
  <2>1. Sound(arena')
    BY <1>5 DEF Fills
  <2>2. arena.used \in Nat /\ arena'.used \in Nat
    BY <2>1 DEF ScratchInv, Sound, Arenas
  <2> QED BY <1>1, <1>3, <1>4, <2>1, <2>2 DEF Room
<1>8. Owns(arena', confirmed'.made, ConfirmedBlocks(confirmed'))
  BY <1>5, <1>6 DEF Owns, Fills
<1>9. /\ Owns(arena', body.made, BodyBlocks(body))
      /\ Held(BodyBlocks(body)) \cap Held(ConfirmedBlocks(confirmed')) = {}
  BY <1>5, FilledLeavesTheOther DEF ScratchInv
<1> QED BY <1>3, <1>7, <1>8, <1>9 DEF ScratchInv

LEMMA DecodeBodyKeeps ==
  ASSUME ScratchInv, NEW w \in Workspaces, NEW m \in 0..MaxItems, NEW u \in 0..1,
         DecodeBody(w, m, u)
  PROVE  ScratchInv'
<1> DEFINE sizes == BodySizes(m, u)
           made == Decoded(w, sizes)
<1>1. w \in Nat \ {0} /\ m \in Nat /\ u \in Nat /\ Capacity \in Nat
  BY WorkspacesAssumption, MaxItemsAssumption, CapacityAssumption
<1>2. sizes \in Seq(Nat) /\ Len(sizes) = m + 2
  BY <1>1, BodySizesListed
<1>3. /\ w + Total(sizes) <= Room /\ arena' = made.arena
      /\ body' = FilledBody("decoded", made.blocks) /\ confirmed' = confirmed
  BY DEF DecodeBody
<1> HIDE DEF sizes
<1>4. /\ Fills(arena, made) /\ made.arena.used <= arena.used + w + Total(sizes)
      /\ Len(made.blocks) = m + 2 /\ Total(sizes) \in Nat
  BY <1>1, <1>2, DecodedIsSound DEF ScratchInv
<1> HIDE DEF made
<1>5. Fills(arena, [arena |-> arena', blocks |-> BodyBlocks(body')])
  <2>1. Len(made.blocks) >= 2
    BY <1>1, <1>4
  <2> QED BY <1>3, <1>4, <2>1, BodyInOrder
<1>6. body'.made = "decoded"
  BY <1>3 DEF FilledBody
<1>7. Sound(arena') /\ arena'.used <= Capacity
  <2>1. Sound(arena')
    BY <1>5 DEF Fills
  <2>2. arena.used \in Nat /\ arena'.used \in Nat
    BY <2>1 DEF ScratchInv, Sound, Arenas
  <2>3. Room = Capacity - arena.used
    BY <1>1, <2>2 DEF Room
  <2>4. arena'.used <= arena.used + w + Total(sizes)
    BY <1>3, <1>4
  <2>5. arena'.used <= Capacity
    <3> DEFINE before == arena.used
               after  == arena'.used
               taken  == Total(sizes)
    <3>1. /\ before \in Nat /\ after \in Nat /\ taken \in Nat
          /\ after <= before + w + taken /\ w + taken <= Capacity - before
      BY <1>3, <1>4, <2>2, <2>3, <2>4
    <3> HIDE DEF before, after, taken
    <3>2. after <= Capacity
      BY <1>1, <3>1
    <3> QED BY <3>2 DEF after
  <2> QED BY <2>1, <2>5
<1>8. Owns(arena', body'.made, BodyBlocks(body'))
  BY <1>5, <1>6 DEF Owns, Fills
<1>9. /\ Owns(arena', confirmed.made, ConfirmedBlocks(confirmed))
      /\ Held(ConfirmedBlocks(confirmed)) \cap Held(BodyBlocks(body')) = {}
  BY <1>5, FilledLeavesTheOther DEF ScratchInv
<1> QED BY <1>3, <1>7, <1>8, <1>9 DEF ScratchInv

LEMMA DecodeFailsKeeps ==
  ASSUME ScratchInv, NEW w \in Workspaces \cup {Room}, NEW c \in {<<>>, << 1 >>, <<1, 1>>},
         DecodeFails(w, c)
  PROVE  ScratchInv'
<1> DEFINE t == Take(arena, w)
           made == Decoded(w, c)
<1>1. Sound(arena) /\ arena.used \in Nat /\ arena.used <= Capacity /\ Capacity \in Nat
  BY CapacityAssumption DEF ScratchInv, Sound, Arenas
<1>2. /\ Room > 0 /\ w + Total(c) <= Room
      /\ arena' = t \/ arena' = made.arena
  BY DEF DecodeFails
<1>3. Room \in Nat /\ Room = Capacity - arena.used
  BY <1>1 DEF Room
<1>4. w \in Nat \ {0}
  BY <1>2, <1>3, WorkspacesAssumption
<1>5. c \in Seq(Nat)
  <2>1. <<>> \in Seq(Nat) /\ <<1>> \in Seq(Nat) /\ <<1, 1>> \in Seq(Nat)
    OBVIOUS
  <2> QED BY <2>1
<1>6. /\ Sound(t) /\ t.used = arena.used + w /\ t.live = arena.live \cup {Block(arena.used, w)}
  BY <1>1, <1>4, TakeIsSound
<1>7. /\ Fills(arena, made) /\ made.arena.used <= arena.used + w + Total(c)
      /\ Total(c) \in Nat
  BY <1>1, <1>4, <1>5, DecodedIsSound
<1> HIDE DEF t, made
<1>8. Sound(arena') /\ arena.live \subseteq arena'.live
  BY <1>2, <1>6, <1>7 DEF Fills
<1>9. arena'.used <= Capacity
  <2>1. CASE arena' = t
    BY <1>1, <1>2, <1>3, <1>4, <1>6, <1>7, <2>1
  <2>2. CASE arena' = made.arena
    <3>1. made.arena.used \in Nat
      BY <1>7 DEF Fills, Sound, Arenas
    <3> QED BY <1>1, <1>2, <1>3, <1>4, <1>7, <2>2, <3>1
  <2> QED BY <1>2, <2>1, <2>2
<1>10. /\ Owns(arena', confirmed.made, ConfirmedBlocks(confirmed))
       /\ Owns(arena', body.made, BodyBlocks(body))
       /\ Held(ConfirmedBlocks(confirmed)) \cap Held(BodyBlocks(body)) = {}
  BY <1>8 DEF ScratchInv, Owns
<1>11. CASE confirmed' = [NoConfirmed EXCEPT !.made = "failed"] /\ body' = body
  <2>1. /\ Owns(arena', "failed", ConfirmedBlocks([NoConfirmed EXCEPT !.made = "failed"]))
        /\ Held(ConfirmedBlocks([NoConfirmed EXCEPT !.made = "failed"])) = {}
    BY NothingIsOwned
  <2>2. confirmed'.made = "failed"
    BY <1>11 DEF NoConfirmed
  <2>3. /\ Owns(arena', confirmed'.made, ConfirmedBlocks(confirmed'))
        /\ Held(ConfirmedBlocks(confirmed')) = {}
    BY <1>11, <2>1, <2>2
  <2> QED BY <1>8, <1>9, <1>10, <1>11, <2>3 DEF ScratchInv
<1>12. CASE body' = [NoBody EXCEPT !.made = "failed"] /\ confirmed' = confirmed
  <2>1. /\ Owns(arena', "failed", BodyBlocks([NoBody EXCEPT !.made = "failed"]))
        /\ Held(BodyBlocks([NoBody EXCEPT !.made = "failed"])) = {}
    BY NothingIsOwned
  <2>2. body'.made = "failed"
    BY <1>12 DEF NoBody
  <2>3. Owns(arena', body'.made, BodyBlocks(body')) /\ Held(BodyBlocks(body')) = {}
    BY <1>12, <2>1, <2>2
  <2> QED BY <1>8, <1>9, <1>10, <1>12, <2>3 DEF ScratchInv
<1> QED BY <1>11, <1>12 DEF DecodeFails

LEMMA ReserveConfirmedKeeps ==
  ASSUME ScratchInv, NEW p \in 0..MaxItems, NEW b \in 0..MaxItems, ReserveConfirmed(p, b)
  PROVE  ScratchInv'
<1> DEFINE sizes == <<b, p, 1>>
           made == TakeAll(arena, sizes)
           list == ConfirmedBlocks(confirmed')
<1>1. p \in Nat /\ b \in Nat /\ Capacity \in Nat
  BY MaxItemsAssumption, CapacityAssumption
<1>2. sizes \in Seq(Nat) /\ Len(sizes) = 3
  BY <1>1
<1>3. /\ Total(sizes) <= Room /\ arena' = made.arena
      /\ confirmed' = ReservedConfirmed(made.blocks) /\ body' = body
  BY DEF ReserveConfirmed
<1> HIDE DEF sizes
<1>4. /\ Fills(arena, made) /\ made.arena.used = arena.used + Total(sizes)
      /\ Len(made.blocks) = 3 /\ Total(sizes) \in Nat
  BY <1>2, TakeAllIsSound DEF ScratchInv
<1>5. Fills(arena, [arena |-> arena', blocks |-> list])
  <2> HIDE DEF made
  <2> QED BY <1>3, <1>4, ReservedInOrder
<1>6. confirmed'.made = "reserved"
  BY <1>3 DEF ReservedConfirmed
<1>7. Sound(arena') /\ arena'.used <= Capacity
  <2>1. Sound(arena')
    BY <1>5 DEF Fills
  <2>2. arena.used \in Nat /\ arena'.used \in Nat
    BY <2>1 DEF ScratchInv, Sound, Arenas
  <2> QED BY <1>1, <1>3, <1>4, <2>1, <2>2 DEF Room
<1>8. Stacked(list)
  <2> HIDE DEF made
  <2>1. list = <<made.blocks[3], made.blocks[2], made.blocks[1]>>
    BY <1>3 DEF ConfirmedBlocks, ReservedConfirmed
  <2> HIDE DEF list
  <2> DEFINE k == 3
  <2>2. /\ Len(list) = k /\ \A i \in 1..k : list[i] = made.blocks[k + 1 - i]
        /\ \A i \in k + 1 .. Len(list) : list[i] = Nothing
    BY <2>1
  <2>3. k \in Nat /\ k <= Len(sizes) /\ k <= Len(list) /\ Sound(arena)
    BY <1>2, <2>2 DEF ScratchInv
  <2> HIDE DEF k
  <2>4. list \in Lists
    BY <1>5 DEF Fills
  <2>5. \A i \in 1..k : list[i] = TakeAll(arena, sizes).blocks[k + 1 - i]
    BY <2>2, Zenon DEF made
  <2>6. Unwinds(list, TakeAll(arena, sizes).blocks, k)
    BY <2>2, <2>5 DEF Unwinds
  <2> QED BY <1>2, <2>3, <2>4, <2>6, TakenIsStacked
<1>9. Owns(arena', confirmed'.made, list)
  BY <1>5, <1>6, <1>8 DEF Owns, Fills
<1>10. /\ Owns(arena', body.made, BodyBlocks(body))
       /\ Held(BodyBlocks(body)) \cap Held(list) = {}
  BY <1>5, FilledLeavesTheOther DEF ScratchInv
<1> QED BY <1>3, <1>7, <1>9, <1>10 DEF ScratchInv

LEMMA ReserveBodyKeeps ==
  ASSUME ScratchInv, NEW m \in 0..MaxItems, ReserveBody(m)
  PROVE  ScratchInv'
<1> DEFINE sizes == BodySizes(m, 0)
           made == TakeAll(arena, sizes)
           list == BodyBlocks(body')
<1>1. m \in Nat /\ 0 \in Nat /\ Capacity \in Nat
  BY MaxItemsAssumption, CapacityAssumption
<1>2. sizes \in Seq(Nat) /\ Len(sizes) = m + 2 /\ sizes[m + 2] = 0
  BY <1>1, BodySizesListed
<1>3. /\ Total(sizes) <= Room /\ arena' = made.arena
      /\ body' = FilledBody("reserved", made.blocks) /\ confirmed' = confirmed
  BY DEF ReserveBody
<1> HIDE DEF sizes
<1>4. /\ Fills(arena, made) /\ made.arena.used = arena.used + Total(sizes)
      /\ Len(made.blocks) = m + 2 /\ Total(sizes) \in Nat
  BY <1>2, TakeAllIsSound DEF ScratchInv
<1>5. Len(made.blocks) >= 2 /\ made.blocks \in Lists
  BY <1>1, <1>4 DEF Fills
<1>6. Fills(arena, [arena |-> arena', blocks |-> list])
  <2> HIDE DEF made
  <2> QED BY <1>3, <1>4, <1>5, BodyInOrder
<1>7. body'.made = "reserved"
  BY <1>3 DEF FilledBody
<1>8. Sound(arena') /\ arena'.used <= Capacity
  <2>1. Sound(arena')
    BY <1>6 DEF Fills
  <2>2. arena.used \in Nat /\ arena'.used \in Nat
    BY <2>1 DEF ScratchInv, Sound, Arenas
  <2> QED BY <1>1, <1>3, <1>4, <2>1, <2>2 DEF Room
<1>9. Stacked(list)
  <2> DEFINE k == m + 1
  <2>1. k \in Nat /\ k + 1 = m + 2 /\ k <= Len(sizes)
    BY <1>1, <1>2
  <2>2. /\ Len(list) = m + 2
        /\ \A i \in 1 .. m + 2 : list[i] = made.blocks[IF i = m + 2 THEN i ELSE (m + 2) - i]
    <3> HIDE DEF made
    <3> QED BY <1>3, <1>4, <1>5, BodyListed
  <2>3. made.blocks[m + 2] = Nothing
    <3>1. m + 2 \in 1 .. Len(sizes)
      BY <1>1, <1>2
    <3> QED BY <1>2, <3>1, TakeAllIsSound DEF ScratchInv
  <2> HIDE DEF list, made
  <2>4. \A i \in 1..k : list[i] = made.blocks[k + 1 - i]
    <3>1. \A i \in 1..k : i \in 1 .. m + 2 /\ i # m + 2 /\ k + 1 - i = (m + 2) - i
      BY <1>1
    <3> QED BY <2>2, <3>1
  <2>5. \A i \in k + 1 .. Len(list) : list[i] = Nothing
    <3>1. \A i \in k + 1 .. Len(list) : i = m + 2 /\ i \in 1 .. m + 2
      BY <1>1, <2>2
    <3> QED BY <2>2, <2>3, <3>1
  <2>6. list \in Lists /\ k <= Len(list) /\ Sound(arena)
    BY <1>1, <1>6, <2>2 DEF Fills, ScratchInv
  <2> HIDE DEF k
  <2>7. Unwinds(list, TakeAll(arena, sizes).blocks, k)
    BY <2>4, <2>5, Zenon DEF Unwinds, made
  <2> QED BY <1>2, <2>1, <2>6, <2>7, TakenIsStacked
<1>10. Owns(arena', body'.made, list)
  BY <1>6, <1>7, <1>9 DEF Owns, Fills
<1>11. /\ Owns(arena', confirmed.made, ConfirmedBlocks(confirmed))
       /\ Held(ConfirmedBlocks(confirmed)) \cap Held(list) = {}
  BY <1>6, FilledLeavesTheOther DEF ScratchInv
<1> QED BY <1>3, <1>8, <1>10, <1>11 DEF ScratchInv

LEMMA EncodeKeeps ==
  ASSUME ScratchInv, EncodeEither
  PROVE  ScratchInv'
<1> DEFINE w == Block(arena.used, Room)
           t == Take(arena, Room)
<1>1. Sound(arena) /\ arena.used \in Nat /\ arena.used <= Capacity /\ Capacity \in Nat
  BY CapacityAssumption DEF ScratchInv, Sound, Arenas
<1>2. Room \in Nat \ {0} /\ Room = Capacity - arena.used
  BY <1>1 DEF Room, EncodeEither
<1>3. /\ Sound(t) /\ t.used = arena.used + Room /\ t.live = arena.live \cup {w}
  BY <1>1, <1>2, TakeIsSound
<1>4. arena' = Free(t, w) \/ arena' = t
  BY DEF EncodeEither, Encode, EncodeRefused
<1>5. w \notin arena.live
  BY <1>1, <1>2, TakeIsSound
<1> HIDE DEF t, w
<1>6. Sound(Free(t, w)) /\ Free(t, w).used <= t.used /\ Free(t, w).live = t.live \ {w}
  BY <1>3, FreeIsSound
<1>7. Sound(arena') /\ arena.live \subseteq arena'.live
  BY <1>3, <1>4, <1>5, <1>6
<1>8. arena'.used <= Capacity
  <2>1. t.used = Capacity
    BY <1>1, <1>2, <1>3
  <2> QED BY <1>1, <1>4, <1>6, <2>1
<1>9. confirmed' = confirmed /\ body' = body
  BY DEF EncodeEither
<1> QED BY <1>7, <1>8, <1>9 DEF ScratchInv, Owns

LEMMA FreeConfirmedKeeps ==
  ASSUME ScratchInv, FreeConfirmed
  PROVE  ScratchInv'
<1>1. arena' = FreeAll(arena, ConfirmedBlocks(confirmed)) /\ confirmed' = NoConfirmed /\ body' = body
  BY DEF FreeConfirmed
<1>2. /\ Sound(arena') /\ arena'.used <= arena.used
      /\ Owns(arena', body.made, BodyBlocks(body))
  BY <1>1, FreedLeavesTheOther DEF ScratchInv
<1>3. arena'.used <= Capacity
  BY <1>2, CapacityAssumption DEF ScratchInv, Sound, Arenas
<1>4. /\ Owns(arena', confirmed'.made, ConfirmedBlocks(confirmed'))
      /\ Held(ConfirmedBlocks(confirmed')) = {}
  BY <1>1, NothingIsHeld
<1> QED BY <1>1, <1>2, <1>3, <1>4 DEF ScratchInv

LEMMA FreeBodyKeeps ==
  ASSUME ScratchInv, FreeBody
  PROVE  ScratchInv'
<1>1. arena' = FreeAll(arena, BodyBlocks(body)) /\ body' = NoBody /\ confirmed' = confirmed
  BY DEF FreeBody
<1>2. /\ Sound(arena') /\ arena'.used <= arena.used
      /\ Owns(arena', confirmed.made, ConfirmedBlocks(confirmed))
  <2>1. Held(BodyBlocks(body)) \cap Held(ConfirmedBlocks(confirmed)) = {}
    BY DEF ScratchInv
  <2> QED BY <1>1, <2>1, FreedLeavesTheOther DEF ScratchInv
<1>3. arena'.used <= Capacity
  BY <1>2, CapacityAssumption DEF ScratchInv, Sound, Arenas
<1>4. Owns(arena', body'.made, BodyBlocks(body')) /\ Held(BodyBlocks(body')) = {}
  BY <1>1, NothingIsHeld
<1> QED BY <1>1, <1>2, <1>3, <1>4 DEF ScratchInv

\* An empty arena and two initialised structs.
LEMMA FreshIsSound ==
  ASSUME NEW a, a = [used |-> 0, live |-> {}]
  PROVE  Sound(a) /\ a.used <= Capacity
  BY CapacityAssumption DEF Sound, Arenas

LEMMA ScratchInitially ==
  ASSUME Init
  PROVE  ScratchInv
<1>1. Sound(arena) /\ arena.used <= Capacity
  BY FreshIsSound DEF Init
<1>2. confirmed = NoConfirmed /\ body = NoBody
  BY DEF Init
<1> QED BY <1>1, <1>2, NothingIsHeld DEF ScratchInv

LEMMA ResetKeeps ==
  ASSUME Reset
  PROVE  ScratchInv'
<1>1. Sound(arena') /\ arena'.used <= Capacity
  BY FreshIsSound DEF Reset
<1>2. confirmed' = NoConfirmed /\ body' = NoBody
  BY DEF Reset
<1> QED BY <1>1, <1>2, NothingIsHeld DEF ScratchInv

LEMMA ScratchInvIsInductive ==
  ASSUME ScratchInv, [Next]_vars
  PROVE  ScratchInv'
<1>1. CASE UNCHANGED vars
  BY <1>1 DEF vars, ScratchInv
<1>2. CASE Next
  BY <1>2, DecodeConfirmedKeeps, DecodeBodyKeeps, DecodeFailsKeeps, ReserveConfirmedKeeps,
     ReserveBodyKeeps, EncodeKeeps, FreeConfirmedKeeps, FreeBodyKeeps, ResetKeeps DEF Next
<1> QED BY <1>1, <1>2

\* The invariant says what the run checks.
LEMMA ScratchInvImplies ==
  ASSUME ScratchInv
  PROVE  LiveBlocksStand
  BY DEF ScratchInv, Sound, Owns, LiveBlocksStand

(***************************************************************************)
(* The wire decoders, encoders and free functions, in whatever order a     *)
(* host calls them on two structs and one arena of whatever size, leave    *)
(* every pointer of a struct on a block of its own.                        *)
(***************************************************************************)
THEOREM BlocksStand == Spec => []LiveBlocksStand
<1>1. Init => ScratchInv
  BY ScratchInitially
<1>2. ScratchInv /\ [Next]_vars => ScratchInv'
  BY ScratchInvIsInductive
<1>3. ScratchInv => LiveBlocksStand
  BY ScratchInvImplies
<1> QED BY <1>1, <1>2, <1>3, PTL DEF Spec

-----------------------------------------------------------------------------
(* Unwinding.                                                              *)

\* What a free function leaves of a struct that was reserved.
LEMMA ReportedUnwinds ==
  ASSUME ScratchInv, NEW made, NEW blocks, Owns(arena, made, blocks),
         NEW report, report = Report(made, blocks, FreeAll(arena, blocks)),
         report # Nothing, report.onTop, report.made = "reserved"
  PROVE  report.used = report.from
<1> DEFINE held == Held(blocks)
           Least(at) == at \in {b.at : b \in held} /\ \A b \in held : at <= b.at
           after == FreeAll(arena, blocks)
<1>1. held # {}
  BY DEF Report
<1>2. report = [made |-> made,
                from |-> CHOOSE at \in {b.at : b \in held} : \A b \in held : at <= b.at,
                used |-> after.used,
                onTop |-> \E b \in held : End(b) = arena.used]
  BY <1>1 DEF Report
<1>3. made = "reserved" /\ \E b \in held : End(b) = arena.used
  BY <1>2
<1>4. blocks \in Lists /\ held \subseteq arena.live /\ Stacked(blocks) /\ held \subseteq Blocks
  BY <1>3, ListItems DEF Owns
<1>5. PICK b \in held : after.used = b.at /\ \A c \in held : b.at <= c.at
  BY <1>3, <1>4, StackUnwinds DEF ScratchInv
<1>6. report.from = (CHOOSE at \in {c.at : c \in held} : \A c \in held : at <= c.at)
      /\ report.used = after.used
  BY <1>2
<1> HIDE DEF held, after
<1>7. report.from \in {c.at : c \in held} /\ \A c \in held : report.from <= c.at
  <2>1. \E at \in {c.at : c \in held} : \A c \in held : at <= c.at
    BY <1>5
  <2> QED BY <1>6, <2>1
<1>8. \A c \in held : c.at \in Nat
  BY <1>4 DEF Blocks
<1>9. PICK c \in held : report.from = c.at
  BY <1>7
<1> QED BY <1>5, <1>6, <1>7, <1>8, <1>9

LEMMA UnwindsKept ==
  ASSUME ScratchInv, ReservedUnwinds, [Next]_vars
  PROVE  ReservedUnwinds'
<1>1. CASE freed' = freed
  BY <1>1 DEF ReservedUnwinds
<1>2. CASE freed' = Nothing
  BY <1>2 DEF ReservedUnwinds
<1>3. CASE FreeConfirmed
  <2>1. freed' = Report(confirmed.made, ConfirmedBlocks(confirmed),
                        FreeAll(arena, ConfirmedBlocks(confirmed)))
    BY <1>3 DEF FreeConfirmed
  <2> QED BY <2>1, ReportedUnwinds DEF ReservedUnwinds, ScratchInv
<1>4. CASE FreeBody
  <2>1. freed' = Report(body.made, BodyBlocks(body), FreeAll(arena, BodyBlocks(body)))
    BY <1>4 DEF FreeBody
  <2> QED BY <2>1, ReportedUnwinds DEF ReservedUnwinds, ScratchInv
<1> QED
  BY <1>1, <1>2, <1>3, <1>4 DEF Next, vars, DecodeConfirmed, DecodeBody, DecodeFails,
     ReserveConfirmed, ReserveBody, EncodeEither, Reset

(***************************************************************************)
(* grdw_confirmed_transaction_free and grdw_transaction_body_free give     *)
(* back, block by block, all a host reserved for a struct whose blocks are *)
(* the last in use, wherever in the arena it began and whatever was        *)
(* decoded, encoded or freed before.                                       *)
(***************************************************************************)
THEOREM ReservationsUnwind == Spec => []ReservedUnwinds
<1>1. Init => ScratchInv /\ ReservedUnwinds
  <2>1. Init => ReservedUnwinds
    BY DEF Init, ReservedUnwinds
  <2> QED BY <2>1, ScratchInitially
<1>2. ScratchInv /\ ReservedUnwinds /\ [Next]_vars => (ScratchInv /\ ReservedUnwinds)'
  BY ScratchInvIsInductive, UnwindsKept
<1> QED BY <1>1, <1>2, PTL DEF Spec

=============================================================================
