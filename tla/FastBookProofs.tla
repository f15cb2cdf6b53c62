--------------------------- MODULE FastBookProofs ---------------------------
(***************************************************************************)
(* Theorems about FastBook, for every configuration and every stream of    *)
(* commands.                                                               *)
(*                                                                         *)
(* The code writes a book in three ways: an order leaves its queue and its *)
(* slot, has its quantities changed in place, or goes into a free slot and *)
(* to the end of a queue.  Sound(b) says that the slots, links, levels and *)
(* bits of the book b agree, as far as can be said of each slot and its    *)
(* neighbours alone; one lemma for each way shows that it stays so.        *)
(***************************************************************************)
EXTENDS FastBook, EngineLemmas, FiniteSetTheorems

SlotTypes ==
  [generation : Nat, prev : Links, next : Links, remaining : Nat, filled : Nat,
   account : Accounts \cup {None}, price : Ticks, side : Sides]

LevelTypes == [head : Links, tail : Links, total : Int]

\* The bits of one side.
Words == [0 .. WORDS - 1 -> SUBSET (0 .. WordBits - 1)]

\* Books, but for the sign of a level's total.
Shapes ==
  [slots : [Slots -> SlotTypes], free : Seq(Slots), retired : Nat, live : Nat,
   levels : [Sides -> [Ticks -> LevelTypes]], bits : [Sides -> Words]]

Live(b, s) == b.slots[s].generation % 2 = 1

Bit(b, side, p) == p % WordBits \in b.bits[side][p \div WordBits]

\* Two slots with orders of the same level.
SameLevel(b, s, t) ==
  b.slots[s].side = b.slots[t].side /\ b.slots[s].price = b.slots[t].price

InLevel(b, s, side, p) ==
  Live(b, s) /\ b.slots[s].side = side /\ b.slots[s].price = p

\* A live slot is linked back by each of its neighbours, and the first and
\* the last of a queue are the head and the tail of their level.
NeighboursAgree(b) ==
  \A s \in Slots : Live(b, s) =>
    LET slot  == b.slots[s]
        level == b.levels[slot.side][slot.price]
    IN  /\ slot.next = NIL => level.tail = s
        /\ slot.next # NIL => /\ Live(b, slot.next) /\ SameLevel(b, s, slot.next)
                              /\ b.slots[slot.next].prev = s
        /\ slot.prev = NIL => level.head = s
        /\ slot.prev # NIL => /\ Live(b, slot.prev) /\ SameLevel(b, s, slot.prev)
                              /\ b.slots[slot.prev].next = s

\* A level's head and tail are a first and a last slot of it, and its bit says
\* whether it has them.
EndsAgree(b) ==
  \A side \in Sides, p \in Ticks :
    LET level == b.levels[side][p]
    IN  /\ level.head # NIL => /\ InLevel(b, level.head, side, p)
                               /\ b.slots[level.head].prev = NIL
        /\ level.tail # NIL => /\ InLevel(b, level.tail, side, p)
                               /\ b.slots[level.tail].next = NIL
        /\ (level.head = NIL) <=> (level.tail = NIL)
        /\ Bit(b, side, p) <=> level.head # NIL

LiveIn(b) == {s \in Slots : Live(b, s)}

\* SlotAccounting of the book b, and that a free slot has a generation left.
Counted(b) ==
  /\ b.live = Cardinality(LiveIn(b))
  /\ b.live + Len(b.free) + b.retired = Capacity
  /\ IsInjective(b.free)
  /\ \A i \in DOMAIN b.free :
       LET s == b.free[i]
       IN  /\ ~Live(b, s) /\ b.slots[s].prev = NIL /\ b.slots[s].next = NIL
           /\ b.slots[s].generation < GenerationLimit
  /\ \A s \in Slots : b.slots[s].generation <= GenerationLimit

Sound(b) == b \in Shapes /\ NeighboursAgree(b) /\ EndsAgree(b) /\ Counted(b)

----------------------------------------------------------------------------
(***************************************************************************)
(* The bitset                                                              *)
(***************************************************************************)
\* A tick is found again by its word and its place in the word.
LEMMA TickOfBit ==
  /\ \A p \in Ticks : /\ p \in Nat
                      /\ p \div WordBits \in 0 .. WORDS - 1
                      /\ p % WordBits \in 0 .. WordBits - 1
                      /\ p = (p \div WordBits) * WordBits + (p % WordBits)
  /\ \A w \in 0 .. WORDS - 1, m \in 0 .. WordBits - 1 :
       /\ w * WordBits + m \in Ticks
       /\ (w * WordBits + m) \div WordBits = w
       /\ (w * WordBits + m) % WordBits = m
<1>1. WordBits \in Nat \ {0} /\ MAX_TICKS = 2 * WordBits /\ WORDS = 2
  BY TicksFit DEF MAX_TICKS, WORDS
<1>2. ASSUME NEW p \in Ticks
      PROVE  /\ p \in Nat
             /\ p \div WordBits \in 0 .. 1
             /\ p % WordBits \in 0 .. WordBits - 1
             /\ p = (p \div WordBits) * WordBits + (p % WordBits)
  BY <1>1, SMT DEF Ticks
<1>3. ASSUME NEW w \in 0 .. 1, NEW m \in 0 .. WordBits - 1
      PROVE  /\ w * WordBits + m \in Ticks
             /\ (w * WordBits + m) \div WordBits = w
             /\ (w * WordBits + m) % WordBits = m
  BY <1>1, SMT DEF Ticks
<1> QED BY <1>1, <1>2, <1>3

\* Setting or clearing the bit of one tick changes no other.
LEMMA OneBit ==
  ASSUME NEW words \in Words, NEW p \in Ticks
  PROVE  /\ SetBit(words, p) \in Words
         /\ ClearBit(words, p) \in Words
         /\ \A q \in Ticks :
              /\ q % WordBits \in SetBit(words, p)[q \div WordBits] <=>
                   q = p \/ q % WordBits \in words[q \div WordBits]
              /\ q % WordBits \in ClearBit(words, p)[q \div WordBits] <=>
                   q # p /\ q % WordBits \in words[q \div WordBits]
<1> DEFINE w(q) == q \div WordBits
           m(q) == q % WordBits
<1>1. /\ \A q \in Ticks : w(q) \in 0 .. WORDS - 1 /\ m(q) \in 0 .. WordBits - 1
      /\ \A q \in Ticks : w(q) = w(p) /\ m(q) = m(p) => q = p
  <2>1. \A q \in Ticks : /\ w(q) \in 0 .. WORDS - 1 /\ m(q) \in 0 .. WordBits - 1
                         /\ q = w(q) * WordBits + m(q)
    BY TickOfBit
  <2> HIDE DEF w, m
  <2> QED BY <2>1
<1>2. /\ SetBit(words, p) = [words EXCEPT ![w(p)] = @ \cup {m(p)}]
      /\ ClearBit(words, p) = [words EXCEPT ![w(p)] = @ \ {m(p)}]
  BY DEF SetBit, ClearBit
<1> HIDE DEF w, m
<1>3. SetBit(words, p) \in Words /\ ClearBit(words, p) \in Words
  BY <1>1, <1>2 DEF Words
<1>4. ASSUME NEW q \in Ticks
      PROVE  /\ m(q) \in SetBit(words, p)[w(q)] <=> q = p \/ m(q) \in words[w(q)]
             /\ m(q) \in ClearBit(words, p)[w(q)] <=> q # p /\ m(q) \in words[w(q)]
  BY <1>1, <1>2 DEF Words
<1> QED BY <1>3, <1>4 DEF w, m

\* A set of numbers below a bound has a greatest and a least one.
LEMMA MinMax ==
  ASSUME NEW n \in Nat, NEW S, S \subseteq 0 .. n - 1, S # {}
  PROVE  /\ Min(S) \in S /\ \A x \in S : Min(S) <= x
         /\ Max(S) \in S /\ \A x \in S : x <= Max(S)
<1>1. S \subseteq Nat
  OBVIOUS
<1>2. PICK x \in S : \A y \in S : x <= y
  BY <1>1, LeastNatural
<1>3. Min(S) \in S /\ \A x_1 \in S : Min(S) <= x_1
  BY <1>2 DEF Min
<1>4. \E z \in S : \A y \in S : z >= y
  <2> DEFINE R == {n - y : y \in S}
  <2>1. R \subseteq Nat /\ R # {}
    OBVIOUS
  <2> HIDE DEF R
  <2>2. PICK k \in R : \A j \in R : k <= j
    BY <2>1, LeastNatural
  <2>3. PICK z \in S : k = n - z
    BY <2>2 DEF R
  <2>4. \A y \in S : n - z <= n - y
    BY <2>2, <2>3 DEF R
  <2> QED BY <2>3, <2>4, <1>1
<1>5. Max(S) \in S /\ \A y \in S : Max(S) >= y
  BY <1>4 DEF Max
<1> QED BY <1>1, <1>3, <1>5

\* best() answers with the best tick whose bit is set.
LEMMA BestTick ==
  ASSUME book \in Shapes, NEW side \in Sides
  PROVE  /\ Best(side) = None <=> \A p \in Ticks : ~Bit(book, side, p)
         /\ Best(side) # None =>
              /\ Best(side) \in Ticks
              /\ Bit(book, side, Best(side))
              /\ \A q \in Ticks : Bit(book, side, q) =>
                   IF side = "Buy" THEN q <= Best(side) ELSE Best(side) <= q
<1> DEFINE words == book.bits[side]
<1>1. words \in Words
  BY DEF Shapes, Words
<1>2. /\ WORDS = 2 /\ WordBits \in Nat \ {0} /\ None \notin Ticks
      /\ NonZero(words) = {w \in 0 .. 1 : words[w] # {}}
  BY <1>1, TicksFit DEF WORDS, Words, NonZero, Ticks
<1>3. \A q \in Ticks :
        LET w == q \div WordBits
            m == q % WordBits
        IN  /\ w \in 0 .. 1 /\ m \in 0 .. WordBits - 1
            /\ q = w * WordBits + m
  BY <1>2, TickOfBit
<1>4. \A q \in Ticks : Bit(book, side, q) <=> q % WordBits \in words[q \div WordBits]
  BY DEF Bit
<1>5. \A w \in 0 .. 1 : \A m \in words[w] :
        /\ w * WordBits + m \in Ticks
        /\ Bit(book, side, w * WordBits + m)
  <2> SUFFICES ASSUME NEW w \in 0 .. 1, NEW m \in words[w]
               PROVE  w * WordBits + m \in Ticks /\ Bit(book, side, w * WordBits + m)
    OBVIOUS
  <2>1. m \in 0 .. WordBits - 1 /\ w \in 0 .. WORDS - 1
    BY <1>1, <1>2 DEF Words
  <2>2. /\ w * WordBits + m \in Ticks
        /\ (w * WordBits + m) \div WordBits = w
        /\ (w * WordBits + m) % WordBits = m
    BY <2>1, TickOfBit
  <2> QED BY <2>2, <1>4
<1> HIDE DEF words
<1>6. CASE NonZero(words) = {}
  <2>1. \A q \in Ticks : ~Bit(book, side, q)
    BY <1>2, <1>3, <1>4, <1>6
  <2>2. Best(side) = None
    BY <1>6 DEF Best, words
  <2> QED BY <2>1, <2>2
<1>7. CASE NonZero(words) # {}
  <2> DEFINE top == Max(NonZero(words))
             low == Min(NonZero(words))
  <2>1. /\ top \in NonZero(words) /\ \A x \in NonZero(words) : x <= top
        /\ low \in NonZero(words) /\ \A x \in NonZero(words) : low <= x
    BY <1>2, <1>7, MinMax, 2 \in Nat, 0 .. 2 - 1 = 0 .. 1
  <2> HIDE DEF top, low
  <2>2. \A w \in 0 .. 1 : words[w] \subseteq 0 .. WordBits - 1
    BY <1>1, <1>2 DEF Words
  <2>3. /\ Max(words[top]) \in words[top] /\ \A m \in words[top] : m <= Max(words[top])
        /\ Min(words[low]) \in words[low] /\ \A m \in words[low] : Min(words[low]) <= m
    BY <1>2, <2>1, <2>2, MinMax
  <2>4. Best(side) = IF side = "Buy" THEN top * WordBits + Max(words[top])
                     ELSE low * WordBits + Min(words[low])
    BY <1>7 DEF Best, Highest, Lowest, top, low, words
  <2>5. Best(side) \in Ticks /\ Bit(book, side, Best(side))
    BY <1>2, <1>5, <2>1, <2>3, <2>4
  <2>6. ASSUME NEW q \in Ticks, Bit(book, side, q)
        PROVE  IF side = "Buy" THEN q <= Best(side) ELSE Best(side) <= q
    <3> DEFINE wq == q \div WordBits
               mq == q % WordBits
    <3>1. /\ wq \in 0 .. 1 /\ mq \in 0 .. WordBits - 1 /\ q = wq * WordBits + mq
          /\ mq \in words[wq]
      BY <1>3, <1>4, <2>6
    <3> HIDE DEF wq, mq
    <3>2. wq \in NonZero(words)
      BY <1>2, <3>1
    <3>3. wq <= top /\ low <= wq /\ top \in 0 .. 1 /\ low \in 0 .. 1
      BY <1>2, <2>1, <3>2
    <3>4. /\ wq = top => mq <= Max(words[top])
          /\ wq = low => Min(words[low]) <= mq
          /\ Max(words[top]) \in 0 .. WordBits - 1
          /\ Min(words[low]) \in 0 .. WordBits - 1
      BY <2>2, <2>3, <3>1, <3>3
    <3>5. q <= top * WordBits + Max(words[top])
      BY <1>2, <3>1, <3>3, <3>4
    <3>6. low * WordBits + Min(words[low]) <= q
      BY <1>2, <3>1, <3>3, <3>4
    <3> QED BY <2>4, <3>5, <3>6
  <2> QED BY <1>2, <2>5, <2>6
<1> QED BY <1>6, <1>7

----------------------------------------------------------------------------
(***************************************************************************)
(* An order leaves                                                         *)
(***************************************************************************)
\* In the book c the slot s of the book b has left its queue and is not live.
Leaves(b, c, s) ==
  LET slot  == b.slots[s]
      level == b.levels[slot.side][slot.price]
  IN  /\ \A i \in Slots :
           /\ Live(c, i) <=> Live(b, i) /\ i # s
           /\ c.slots[i].side = b.slots[i].side
           /\ c.slots[i].price = b.slots[i].price
           /\ c.slots[i].prev = IF i = s THEN NIL
                                ELSE IF i = slot.next THEN slot.prev
                                ELSE b.slots[i].prev
           /\ c.slots[i].next = IF i = s THEN NIL
                                ELSE IF i = slot.prev THEN slot.next
                                ELSE b.slots[i].next
      /\ \A side \in Sides, p \in Ticks :
           IF side = slot.side /\ p = slot.price
           THEN /\ c.levels[side][p].head =
                     IF slot.prev = NIL THEN slot.next ELSE level.head
                /\ c.levels[side][p].tail =
                     IF slot.next = NIL THEN slot.prev ELSE level.tail
                /\ Bit(c, side, p) <=> c.levels[side][p].head # NIL
           ELSE /\ c.levels[side][p].head = b.levels[side][p].head
                /\ c.levels[side][p].tail = b.levels[side][p].tail
                /\ Bit(c, side, p) <=> Bit(b, side, p)

\* What a slot says about its neighbours.
LEMMA SlotFacts ==
  ASSUME NEW b \in Shapes, NEW s \in Slots
  PROVE  /\ b.slots[s].side \in Sides /\ b.slots[s].price \in Ticks
         /\ b.slots[s].prev \in Slots \cup {NIL}
         /\ b.slots[s].next \in Slots \cup {NIL}
         /\ b.slots[s].generation \in Nat
         /\ b.slots[s].remaining \in Nat /\ b.slots[s].filled \in Nat
         /\ b.slots[s].account \in Accounts \cup {None}
  BY DEF Shapes, SlotTypes, Links

\* What a level says about its ends.
LEMMA LevelFacts ==
  ASSUME NEW b \in Shapes, NEW side \in Sides, NEW p \in Ticks
  PROVE  /\ b.levels[side][p].head \in Slots \cup {NIL}
         /\ b.levels[side][p].tail \in Slots \cup {NIL}
         /\ b.levels[side][p].total \in Int
  BY DEF Shapes, LevelTypes, Links

\* The neighbours of a slot that leaves its queue are linked to each other.
LEMMA LeavingKeepsNeighbours ==
  ASSUME NEW b \in Shapes, NEW c \in Shapes, NeighboursAgree(b), EndsAgree(b),
         NEW s \in Slots, Live(b, s), Leaves(b, c, s)
  PROVE  NeighboursAgree(c)
<1> SUFFICES ASSUME NEW t \in Slots, Live(c, t)
             PROVE  LET slot  == c.slots[t]
                        level == c.levels[slot.side][slot.price]
                    IN  /\ slot.next = NIL => level.tail = t
                        /\ slot.next # NIL => /\ Live(c, slot.next)
                                              /\ SameLevel(c, t, slot.next)
                                              /\ c.slots[slot.next].prev = t
                        /\ slot.prev = NIL => level.head = t
                        /\ slot.prev # NIL => /\ Live(c, slot.prev)
                                              /\ SameLevel(c, t, slot.prev)
                                              /\ c.slots[slot.prev].next = t
  BY DEF NeighboursAgree
<1> DEFINE next == b.slots[s].next
           prev == b.slots[s].prev
           tn == b.slots[t].next
           tp == b.slots[t].prev
<1>1. /\ t # s /\ Live(b, t)
      /\ NIL \notin Slots
      /\ next \in Slots \cup {NIL} /\ prev \in Slots \cup {NIL}
      /\ tn \in Slots \cup {NIL} /\ tp \in Slots \cup {NIL}
      /\ b.slots[t].side \in Sides /\ b.slots[t].price \in Ticks
  BY SlotFacts, TicksFit DEF Leaves
<1>2. /\ next # NIL => /\ Live(b, next) /\ SameLevel(b, s, next)
                       /\ b.slots[next].prev = s
      /\ prev # NIL => /\ Live(b, prev) /\ SameLevel(b, s, prev)
                       /\ b.slots[prev].next = s
  BY DEF NeighboursAgree
<1>3. LET level == b.levels[b.slots[t].side][b.slots[t].price]
      IN  /\ tn = NIL => level.tail = t
          /\ tn # NIL => Live(b, tn) /\ SameLevel(b, t, tn) /\ b.slots[tn].prev = t
          /\ tp = NIL => level.head = t
          /\ tp # NIL => Live(b, tp) /\ SameLevel(b, t, tp) /\ b.slots[tp].next = t
  BY <1>1 DEF NeighboursAgree
<1>4. \A i \in Slots : /\ c.slots[i].side = b.slots[i].side
                       /\ c.slots[i].price = b.slots[i].price
                       /\ Live(c, i) <=> Live(b, i) /\ i # s
  BY DEF Leaves
<1>5. /\ c.slots[t].next = IF t = prev THEN next ELSE tn
      /\ c.slots[t].prev = IF t = next THEN prev ELSE tp
      /\ \A i \in Slots \ {s} :
           /\ c.slots[i].next = IF i = prev THEN next ELSE b.slots[i].next
           /\ c.slots[i].prev = IF i = next THEN prev ELSE b.slots[i].prev
  BY <1>1 DEF Leaves
<1>6. LET l == b.levels[b.slots[t].side][b.slots[t].price]
          m == c.levels[b.slots[t].side][b.slots[t].price]
      IN  IF SameLevel(b, s, t)
          THEN /\ m.head = IF prev = NIL THEN next ELSE l.head
               /\ m.tail = IF next = NIL THEN prev ELSE l.tail
          ELSE m.head = l.head /\ m.tail = l.tail
  <2> DEFINE side == b.slots[t].side
             p == b.slots[t].price
             l == b.levels[b.slots[s].side][b.slots[s].price]
  <2>1. side \in Sides /\ p \in Ticks
    BY <1>1
  <2>2. IF side = b.slots[s].side /\ p = b.slots[s].price
        THEN /\ c.levels[side][p].head = IF prev = NIL THEN next ELSE l.head
             /\ c.levels[side][p].tail = IF next = NIL THEN prev ELSE l.tail
        ELSE /\ c.levels[side][p].head = b.levels[side][p].head
             /\ c.levels[side][p].tail = b.levels[side][p].tail
    <3> HIDE DEF side, p
    <3> QED BY ZenonT(40), <2>1 DEF Leaves
  <2> QED BY <2>2 DEF SameLevel
<1>7. /\ b.slots[s].next = NIL =>
           b.levels[b.slots[s].side][b.slots[s].price].tail = s
      /\ b.slots[s].prev = NIL =>
           b.levels[b.slots[s].side][b.slots[s].price].head = s
  BY DEF NeighboursAgree
<1> HIDE DEF next, prev, tn, tp
<1>8. c.slots[t].next = NIL => c.levels[b.slots[t].side][b.slots[t].price].tail = t
  <2>1. CASE t = prev
    BY <1>1, <1>2, <1>5, <1>6, <2>1 DEF SameLevel
  <2>2. CASE t # prev
    BY <1>1, <1>2, <1>3, <1>5, <1>6, <1>7, <2>2 DEF SameLevel, next
  <2> QED BY <2>1, <2>2
<1>9. c.slots[t].prev = NIL => c.levels[b.slots[t].side][b.slots[t].price].head = t
  <2>1. CASE t = next
    BY <1>1, <1>2, <1>5, <1>6, <2>1 DEF SameLevel
  <2>2. CASE t # next
    BY <1>1, <1>2, <1>3, <1>5, <1>6, <1>7, <2>2 DEF SameLevel, prev
  <2> QED BY <2>1, <2>2
<1>10. ASSUME c.slots[t].next # NIL
       PROVE  LET n == c.slots[t].next
              IN  Live(c, n) /\ SameLevel(c, t, n) /\ c.slots[n].prev = t
  <2>1. CASE t = prev
    <3>1. c.slots[t].next = next /\ next \in Slots /\ next # NIL
      BY <1>1, <1>5, <1>10, <2>1
    <3>2. next # s
      BY <1>2, <1>1, <2>1, <3>1 DEF next, prev
    <3> QED BY <1>1, <1>2, <1>4, <1>5, <2>1, <3>1, <3>2 DEF SameLevel
  <2>2. CASE t # prev
    <3>1. c.slots[t].next = tn /\ tn \in Slots /\ tn # NIL
      BY <1>1, <1>5, <1>10, <2>2
    <3>2. tn # s
      BY <1>3, <2>2, <3>1 DEF prev
    <3>3. tn # next
      BY <1>1, <1>2, <1>3, <3>1
    <3> QED BY SMTT(30), <1>1, <1>3, <1>4, <1>5, <3>1, <3>2, <3>3 DEF SameLevel, tn
  <2> QED BY <2>1, <2>2
<1>11. ASSUME c.slots[t].prev # NIL
       PROVE  LET n == c.slots[t].prev
              IN  Live(c, n) /\ SameLevel(c, t, n) /\ c.slots[n].next = t
  <2>1. CASE t = next
    <3>1. c.slots[t].prev = prev /\ prev \in Slots /\ prev # NIL
      BY <1>1, <1>5, <1>11, <2>1
    <3>2. prev # s
      BY <1>2, <1>1, <2>1, <3>1 DEF next, prev
    <3> QED BY <1>1, <1>2, <1>4, <1>5, <2>1, <3>1, <3>2 DEF SameLevel
  <2>2. CASE t # next
    <3>1. c.slots[t].prev = tp /\ tp \in Slots /\ tp # NIL
      BY <1>1, <1>5, <1>11, <2>2
    <3>2. tp # s
      BY <1>3, <2>2, <3>1 DEF next
    <3>3. tp # prev
      BY <1>1, <1>2, <1>3, <3>1
    <3> QED BY <1>1, <1>3, <1>4, <1>5, <3>1, <3>2, <3>3 DEF SameLevel, tp
  <2> QED BY <2>1, <2>2
<1> QED BY <1>4, <1>8, <1>9, <1>10, <1>11

\* Head, tail and bit follow a slot that leaves its queue.
LEMMA LeavingKeepsEnds ==
  ASSUME NEW b \in Shapes, NEW c \in Shapes, NeighboursAgree(b), EndsAgree(b),
         NEW s \in Slots, Live(b, s), Leaves(b, c, s)
  PROVE  EndsAgree(c)
<1> SUFFICES ASSUME NEW side \in Sides, NEW p \in Ticks
             PROVE  LET level == c.levels[side][p]
                    IN  /\ level.head # NIL => /\ InLevel(c, level.head, side, p)
                                               /\ c.slots[level.head].prev = NIL
                        /\ level.tail # NIL => /\ InLevel(c, level.tail, side, p)
                                               /\ c.slots[level.tail].next = NIL
                        /\ (level.head = NIL) <=> (level.tail = NIL)
                        /\ Bit(c, side, p) <=> level.head # NIL
  BY DEF EndsAgree
<1> DEFINE next == b.slots[s].next
           prev == b.slots[s].prev
           head == b.levels[side][p].head
           tail == b.levels[side][p].tail
           here == side = b.slots[s].side /\ p = b.slots[s].price
<1>1. /\ NIL \notin Slots
      /\ next \in Slots \cup {NIL} /\ prev \in Slots \cup {NIL}
      /\ head \in Slots \cup {NIL} /\ tail \in Slots \cup {NIL}
  BY SlotFacts, LevelFacts, TicksFit
<1>2. /\ next # NIL => /\ Live(b, next) /\ SameLevel(b, s, next)
                       /\ b.slots[next].prev = s
      /\ prev # NIL => /\ Live(b, prev) /\ SameLevel(b, s, prev)
                       /\ b.slots[prev].next = s
      /\ next = NIL => b.levels[b.slots[s].side][b.slots[s].price].tail = s
      /\ prev = NIL => b.levels[b.slots[s].side][b.slots[s].price].head = s
  BY DEF NeighboursAgree
<1>3. /\ head # NIL => InLevel(b, head, side, p) /\ b.slots[head].prev = NIL
      /\ tail # NIL => InLevel(b, tail, side, p) /\ b.slots[tail].next = NIL
      /\ (head = NIL) <=> (tail = NIL)
      /\ Bit(b, side, p) <=> head # NIL
  BY DEF EndsAgree
<1>4. \A i \in Slots : /\ c.slots[i].side = b.slots[i].side
                       /\ c.slots[i].price = b.slots[i].price
                       /\ Live(c, i) <=> Live(b, i) /\ i # s
                       /\ i # s => /\ c.slots[i].next = IF i = prev THEN next ELSE b.slots[i].next
                                   /\ c.slots[i].prev = IF i = next THEN prev ELSE b.slots[i].prev
  BY DEF Leaves
<1>5. CASE here
  <2>1. /\ c.levels[side][p].head = IF prev = NIL THEN next ELSE head
        /\ c.levels[side][p].tail = IF next = NIL THEN prev ELSE tail
        /\ Bit(c, side, p) <=> c.levels[side][p].head # NIL
    BY <1>5 DEF Leaves
  <2>2. /\ next = NIL => tail = s
        /\ prev = NIL => head = s
        /\ next # NIL => InLevel(b, next, side, p)
        /\ prev # NIL => InLevel(b, prev, side, p)
    BY <1>2, <1>5 DEF InLevel, SameLevel
  <2>3. tail = s => next = NIL
    BY <1>1, <1>3 DEF next
  <2>4. head = s => prev = NIL
    BY <1>1, <1>3 DEF prev
  <2>5. (prev = NIL => next # s) /\ (next = NIL => prev # s)
    BY <1>1, <1>2 DEF next, prev
  <2> HIDE DEF next, prev, head, tail, here
  <2>6. ASSUME c.levels[side][p].head # NIL
        PROVE  LET h == c.levels[side][p].head
               IN  InLevel(c, h, side, p) /\ c.slots[h].prev = NIL
    <3>1. CASE prev = NIL
      BY <1>1, <1>4, <2>1, <2>2, <2>5, <2>6, <3>1 DEF InLevel
    <3>2. CASE prev # NIL
      <4>1. c.levels[side][p].head = head /\ head \in Slots /\ head # s
        BY <1>1, <2>1, <2>2, <2>4, <2>6, <3>2
      <4>2. head # next
        BY <1>1, <1>2, <1>3, <3>2, <4>1
      <4> QED BY <1>1, <1>3, <1>4, <4>1, <4>2 DEF InLevel
    <3> QED BY <3>1, <3>2
  <2>7. ASSUME c.levels[side][p].tail # NIL
        PROVE  LET t == c.levels[side][p].tail
               IN  InLevel(c, t, side, p) /\ c.slots[t].next = NIL
    <3>1. CASE next = NIL
      BY <1>1, <1>4, <2>1, <2>2, <2>5, <2>7, <3>1 DEF InLevel
    <3>2. CASE next # NIL
      <4>1. c.levels[side][p].tail = tail /\ tail \in Slots /\ tail # s
        BY <1>1, <2>1, <2>2, <2>3, <2>7, <3>2
      <4>2. tail # prev
        BY <1>1, <1>2, <1>3, <3>2, <4>1
      <4> QED BY <1>1, <1>3, <1>4, <4>1, <4>2 DEF InLevel
    <3> QED BY <3>1, <3>2
  <2>8. (c.levels[side][p].head = NIL) <=> (c.levels[side][p].tail = NIL)
    BY <1>1, <1>3, <2>1, <2>2
  <2> QED BY <2>1, <2>6, <2>7, <2>8
<1>6. CASE ~here
  <2>1. /\ c.levels[side][p].head = head
        /\ c.levels[side][p].tail = tail
        /\ Bit(c, side, p) <=> Bit(b, side, p)
    BY <1>6 DEF Leaves
  <2>2. ASSUME NEW i \in Slots, InLevel(b, i, side, p)
        PROVE  /\ InLevel(c, i, side, p)
               /\ c.slots[i].next = b.slots[i].next
               /\ c.slots[i].prev = b.slots[i].prev
    <3>1. i # s
      BY <1>6, <2>2 DEF InLevel
    <3>2. i # next /\ i # prev
      BY <1>1, <1>2, <1>6, <2>2 DEF InLevel, SameLevel
    <3> QED BY <1>4, <2>2, <3>1, <3>2 DEF InLevel
  <2> QED BY <1>1, <1>3, <2>1, <2>2
<1> QED BY <1>5, <1>6

\* A slot with other links is otherwise the same.
LEMMA Relinked ==
  ASSUME NEW x \in SlotTypes, NEW pv \in Links, NEW nx \in Links
  PROVE  LET y == Linked(x, pv, nx)
         IN  /\ y \in SlotTypes
             /\ y.prev = pv /\ y.next = nx
             /\ y.generation = x.generation /\ y.account = x.account
             /\ y.remaining = x.remaining /\ y.filled = x.filled
             /\ y.side = x.side /\ y.price = x.price
  BY DEF SlotTypes, Linked

WithGeneration(slots, s, h) == [slots EXCEPT ![s].generation = h]

\* A slot with another generation is otherwise the same.
LEMMA Regenerated ==
  ASSUME NEW slots \in [Slots -> SlotTypes], NEW s \in Slots, NEW h \in Nat
  PROVE  LET c == WithGeneration(slots, s, h)
         IN  /\ c \in [Slots -> SlotTypes]
             /\ c[s].generation = h
             /\ \A i \in Slots :
                  /\ i # s => c[i].generation = slots[i].generation
                  /\ c[i].prev = slots[i].prev /\ c[i].next = slots[i].next
                  /\ c[i].remaining = slots[i].remaining
                  /\ c[i].filled = slots[i].filled
                  /\ c[i].account = slots[i].account
                  /\ c[i].side = slots[i].side /\ c[i].price = slots[i].price
<1> DEFINE c == WithGeneration(slots, s, h)
<1>1. \A i \in Slots : slots[i] \in SlotTypes
  OBVIOUS
<1>2. /\ c[s] = [slots[s] EXCEPT !.generation = h]
      /\ \A i \in Slots : i # s => c[i] = slots[i]
      /\ c = [i \in Slots |-> c[i]]
  BY DEF WithGeneration
<1> HIDE DEF c
<1>3. ASSUME NEW x \in SlotTypes, NEW y, y = [x EXCEPT !.generation = h]
      PROVE  /\ y \in SlotTypes /\ y.generation = h
             /\ y.prev = x.prev /\ y.next = x.next
             /\ y.remaining = x.remaining /\ y.filled = x.filled
             /\ y.account = x.account /\ y.side = x.side /\ y.price = x.price
  BY <1>3 DEF SlotTypes
<1>4. /\ c[s] \in SlotTypes /\ c[s].generation = h
      /\ c[s].prev = slots[s].prev /\ c[s].next = slots[s].next
      /\ c[s].remaining = slots[s].remaining /\ c[s].filled = slots[s].filled
      /\ c[s].account = slots[s].account
      /\ c[s].side = slots[s].side /\ c[s].price = slots[s].price
  BY <1>1, <1>2, <1>3
<1>5. c \in [Slots -> SlotTypes]
  BY <1>1, <1>2, <1>4
<1> QED BY <1>2, <1>4, <1>5 DEF c

\* The book c has the totals of b, but for that of one level.
TotalIs(b, c, side, p, total) ==
  \A sd \in Sides, q \in Ticks :
    c.levels[sd][q].total = IF sd = side /\ q = p THEN total
                            ELSE b.levels[sd][q].total

\* c is b where slot s is handed back, unless its generations are used up.
HandedBack(b, c, s) ==
  /\ c.live = b.live - 1
  /\ \/ /\ b.slots[s].generation + 2 > GenerationLimit
        /\ c.slots[s].generation = b.slots[s].generation - 1
        /\ c.retired = b.retired + 1 /\ c.free = b.free
     \/ /\ b.slots[s].generation + 2 <= GenerationLimit
        /\ c.slots[s].generation = b.slots[s].generation + 1
        /\ c.retired = b.retired /\ c.free = Append(b.free, s)

\* The neighbours of s are linked past it, and nothing else of a slot changes.
LinkedPast(b, c, s) ==
  \A i \in Slots :
    /\ i # s => c.slots[i].generation = b.slots[i].generation
    /\ c.slots[i].remaining = b.slots[i].remaining
    /\ c.slots[i].filled = b.slots[i].filled
    /\ c.slots[i].account = b.slots[i].account
    /\ c.slots[i].side = b.slots[i].side
    /\ c.slots[i].price = b.slots[i].price
    /\ c.slots[i].prev = IF i = s THEN NIL
                         ELSE IF i = b.slots[s].next THEN b.slots[s].prev
                         ELSE b.slots[i].prev
    /\ c.slots[i].next = IF i = s THEN NIL
                         ELSE IF i = b.slots[s].prev THEN b.slots[s].next
                         ELSE b.slots[i].next

\* The level of s has it no more.
LevelWithout(b, c, s) ==
  LET slot  == b.slots[s]
      level == b.levels[slot.side][slot.price]
      head  == IF slot.prev = NIL THEN slot.next ELSE level.head
  IN  \A side \in Sides, p \in Ticks :
        IF side = slot.side /\ p = slot.price
        THEN /\ c.levels[side][p].head = head
             /\ c.levels[side][p].tail =
                  IF slot.next = NIL THEN slot.prev ELSE level.tail
             /\ Bit(c, side, p) <=> head # NIL /\ Bit(b, side, p)
        ELSE /\ c.levels[side][p].head = b.levels[side][p].head
             /\ c.levels[side][p].tail = b.levels[side][p].tail
             /\ Bit(c, side, p) <=> Bit(b, side, p)

\* What RemoveSlot(b, s) does to each field of the book.
LEMMA RemoveSlotFields ==
  ASSUME NEW b \in Shapes, NEW s \in Slots, Live(b, s), b.live >= 1
  PROVE  LET c == RemoveSlot(b, s)
         IN  /\ c \in Shapes
             /\ HandedBack(b, c, s) /\ LinkedPast(b, c, s) /\ LevelWithout(b, c, s)
             /\ TotalIs(b, c, b.slots[s].side, b.slots[s].price,
                        b.levels[b.slots[s].side][b.slots[s].price].total
                          - b.slots[s].remaining)
<1> DEFINE c     == RemoveSlot(b, s)
           slot  == b.slots[s]
           level == b.levels[slot.side][slot.price]
           head  == IF slot.prev = NIL THEN slot.next ELSE level.head
           g     == slot.generation
           bits  == b.bits[slot.side]
           a     == LevelRemove(b, slot.side, slot.price, s)
           levels == [b.levels EXCEPT ![slot.side][slot.price] =
                       [head  |-> head,
                        tail  |-> IF slot.next = NIL THEN slot.prev ELSE level.tail,
                        total |-> level.total - slot.remaining]]
           newbits == [b.bits EXCEPT ![slot.side] =
                        IF head = NIL THEN ClearBit(bits, slot.price) ELSE bits]
           slots == Unlinked(b.slots, s)
<1>1. /\ slot.side \in Sides /\ slot.price \in Ticks
      /\ slot.prev \in Links /\ slot.next \in Links
      /\ slot.remaining \in Nat /\ g \in Nat /\ g >= 1
      /\ level.head \in Links /\ level.tail \in Links /\ level.total \in Int
      /\ bits \in Words
  <2>1. g \in Nat
    BY SlotFacts
  <2>2. g >= 1
    BY <2>1, Parity DEF Live
  <2> HIDE DEF g
  <2> QED BY <2>1, <2>2, SlotFacts, LevelFacts DEF Links, Shapes, Words
<1>2. /\ a.slots = slots /\ a.free = b.free /\ a.retired = b.retired
      /\ a.live = b.live /\ a.levels = levels /\ a.bits = newbits
  <2>1. a = [b EXCEPT !.slots = slots, !.levels = levels, !.bits = newbits]
    BY DEF LevelRemove, Shapes
  <2> HIDE DEF a, slots, levels, newbits
  <2> QED BY <2>1 DEF Shapes
<1>3. \A i \in Slots :
        slots[i] = Linked(b.slots[i],
                          IF i = s THEN NIL ELSE IF i = slot.next THEN slot.prev
                          ELSE b.slots[i].prev,
                          IF i = s THEN NIL ELSE IF i = slot.prev THEN slot.next
                          ELSE b.slots[i].next)
  BY DEF Unlinked
<1>4. \A i \in Slots : b.slots[i] \in SlotTypes
  BY DEF Shapes
<1>5. \A i \in Slots :
        /\ slots[i] \in SlotTypes
        /\ slots[i].generation = b.slots[i].generation
        /\ slots[i].remaining = b.slots[i].remaining
        /\ slots[i].filled = b.slots[i].filled
        /\ slots[i].account = b.slots[i].account
        /\ slots[i].side = b.slots[i].side
        /\ slots[i].price = b.slots[i].price
        /\ slots[i].prev = IF i = s THEN NIL ELSE IF i = slot.next THEN slot.prev
                           ELSE b.slots[i].prev
        /\ slots[i].next = IF i = s THEN NIL ELSE IF i = slot.prev THEN slot.next
                           ELSE b.slots[i].next
  <2> SUFFICES ASSUME NEW i \in Slots
               PROVE  /\ slots[i] \in SlotTypes
                      /\ slots[i].generation = b.slots[i].generation
                      /\ slots[i].remaining = b.slots[i].remaining
                      /\ slots[i].filled = b.slots[i].filled
                      /\ slots[i].account = b.slots[i].account
                      /\ slots[i].side = b.slots[i].side
                      /\ slots[i].price = b.slots[i].price
                      /\ slots[i].prev = IF i = s THEN NIL
                                         ELSE IF i = slot.next THEN slot.prev
                                         ELSE b.slots[i].prev
                      /\ slots[i].next = IF i = s THEN NIL
                                         ELSE IF i = slot.prev THEN slot.next
                                         ELSE b.slots[i].next
    OBVIOUS
  <2> DEFINE pv == IF i = s THEN NIL ELSE IF i = slot.next THEN slot.prev
                   ELSE b.slots[i].prev
             nx == IF i = s THEN NIL ELSE IF i = slot.prev THEN slot.next
                   ELSE b.slots[i].next
             x  == b.slots[i]
  <2>1. x \in SlotTypes /\ x.prev \in Links /\ x.next \in Links /\ NIL \in Links
    BY <1>4 DEF SlotTypes, Links
  <2>2. slots[i] = Linked(x, pv, nx)
    BY <1>3
  <2>3. pv \in Links /\ nx \in Links
    <3> HIDE DEF slot
    <3> QED BY <1>1, <2>1
  <2>4. /\ slots[i] \in SlotTypes
        /\ slots[i].prev = pv /\ slots[i].next = nx
        /\ slots[i].generation = x.generation /\ slots[i].account = x.account
        /\ slots[i].remaining = x.remaining /\ slots[i].filled = x.filled
        /\ slots[i].side = x.side /\ slots[i].price = x.price
    <3> HIDE DEF pv, nx, x, slots
    <3> QED BY <2>1, <2>2, <2>3, Relinked
  <2> QED BY <2>4
<1>6. slots \in [Slots -> SlotTypes]
  <2>1. slots = [i \in Slots |-> slots[i]]
    BY DEF Unlinked
  <2> HIDE DEF slots
  <2> QED BY <1>5, <2>1
<1>7. levels \in [Sides -> [Ticks -> LevelTypes]]
  <2>1. b.levels \in [Sides -> [Ticks -> LevelTypes]]
    BY DEF Shapes
  <2>2. [head  |-> head,
         tail  |-> IF slot.next = NIL THEN slot.prev ELSE level.tail,
         total |-> level.total - slot.remaining] \in LevelTypes
    <3> HIDE DEF slot, level
    <3> QED BY <1>1 DEF LevelTypes
  <2> HIDE DEF slot, level, head
  <2> QED BY <1>1, <2>1, <2>2
<1>8. newbits \in [Sides -> Words]
  <2>1. b.bits \in [Sides -> Words]
    BY DEF Shapes
  <2> HIDE DEF slot, head, bits
  <2>2. ClearBit(bits, slot.price) \in Words
    BY <1>1, OneBit
  <2> QED BY <1>1, <2>1, <2>2
<1>9. a \in Shapes
  <2>1. a = [b EXCEPT !.slots = slots, !.levels = levels, !.bits = newbits]
    BY DEF LevelRemove, Shapes
  <2> HIDE DEF a, slots, levels, newbits
  <2> QED BY <2>1, <1>6, <1>7, <1>8 DEF Shapes
<1>10. a.slots[s].generation = g
  BY <1>2, <1>5
<1>11. GenerationLimit \in Nat /\ a.live \in Nat /\ a.live - 1 \in Nat
  <2> DEFINE n == b.live
  <2>1. n \in Nat /\ n >= 1
    BY DEF Shapes
  <2>2. a.live = n
    BY <1>2
  <2> HIDE DEF a, n
  <2> QED BY <2>1, <2>2, ConfigValid
<1>12. \E h \in Nat :
         /\ c.slots = WithGeneration(a.slots, s, h)
         /\ c.live = a.live - 1 /\ c.levels = a.levels /\ c.bits = a.bits
         /\ c \in Shapes
         /\ \/ /\ g + 2 > GenerationLimit
               /\ h = g - 1
               /\ c.retired = a.retired + 1 /\ c.free = a.free
            \/ /\ g + 2 <= GenerationLimit
               /\ h = g + 1
               /\ c.retired = a.retired /\ c.free = Append(a.free, s)
  <2>1. CASE WillRetire(a, s)
    <3>1. c = [a EXCEPT !.live = @ - 1, !.slots[s].generation = @ - 1,
                        !.retired = @ + 1]
      BY <2>1 DEF RemoveSlot, Release
    <3>2. g + 2 > GenerationLimit
      BY <1>10, <2>1 DEF WillRetire
    <3>3. g - 1 \in Nat
      <4> HIDE DEF g
      <4> QED BY <1>1
    <3> HIDE DEF c, a, slot, g
    <3>4. /\ c.live = a.live - 1 /\ c.free = a.free /\ c.retired = a.retired + 1
          /\ c.levels = a.levels /\ c.bits = a.bits
          /\ c.slots = [a.slots EXCEPT ![s].generation = @ - 1]
      BY <3>1, <1>9 DEF Shapes
    <3>5. c.slots = WithGeneration(a.slots, s, g - 1)
      BY <3>4, <1>10 DEF WithGeneration
    <3>6. c.slots \in [Slots -> SlotTypes]
      BY <3>3, <3>5, <1>9, Regenerated DEF Shapes
    <3>7. c \in Shapes
      <4>1. a.free \in Seq(Slots) /\ a.retired \in Nat
        BY <1>9 DEF Shapes
      <4>2. c.live \in Nat /\ c.free \in Seq(Slots) /\ c.retired \in Nat
        BY <3>4, <4>1, <1>11, AppendProperties
      <4> QED BY <3>1, <3>4, <3>6, <4>2, <1>9 DEF Shapes
    <3> QED BY <3>2, <3>3, <3>4, <3>5, <3>7
  <2>2. CASE ~WillRetire(a, s)
    <3>1. c = [a EXCEPT !.live = @ - 1, !.slots[s].generation = @ + 1,
                        !.free = Append(@, s)]
      BY <2>2 DEF RemoveSlot, Release
    <3>2. g + 2 <= GenerationLimit
      <4>1. ~(g + 2 > GenerationLimit)
        BY <1>10, <2>2 DEF WillRetire
      <4> HIDE DEF g
      <4> QED BY SMTT(30), <4>1, <1>1, <1>11
    <3>3. g + 1 \in Nat
      <4>1. g \in Nat
        BY <1>1
      <4> HIDE DEF g
      <4> QED BY SMTT(30), <4>1
    <3> HIDE DEF c, a, slot, g
    <3>4. /\ c.live = a.live - 1 /\ c.free = Append(a.free, s)
          /\ c.retired = a.retired
          /\ c.levels = a.levels /\ c.bits = a.bits
          /\ c.slots = [a.slots EXCEPT ![s].generation = @ + 1]
      BY <3>1, <1>9 DEF Shapes
    <3>5. c.slots = WithGeneration(a.slots, s, g + 1)
      BY <3>4, <1>10 DEF WithGeneration
    <3>6. c.slots \in [Slots -> SlotTypes]
      BY <3>3, <3>5, <1>9, Regenerated DEF Shapes
    <3>7. c \in Shapes
      <4>1. a.free \in Seq(Slots) /\ a.retired \in Nat
        BY <1>9 DEF Shapes
      <4>2. c.live \in Nat /\ c.free \in Seq(Slots) /\ c.retired \in Nat
        BY <3>4, <4>1, <1>11, AppendProperties
      <4> QED BY <3>1, <3>4, <3>6, <4>2, <1>9 DEF Shapes
    <3> QED BY <3>2, <3>3, <3>4, <3>5, <3>7
  <2> QED BY <2>1, <2>2
<1>13. PICK h \in Nat :
         /\ c.slots = WithGeneration(a.slots, s, h)
         /\ c.live = a.live - 1 /\ c.levels = a.levels /\ c.bits = a.bits
         /\ c \in Shapes
         /\ \/ /\ g + 2 > GenerationLimit
               /\ h = g - 1
               /\ c.retired = a.retired + 1 /\ c.free = a.free
            \/ /\ g + 2 <= GenerationLimit
               /\ h = g + 1
               /\ c.retired = a.retired /\ c.free = Append(a.free, s)
  BY <1>12
<1>14. /\ c.slots[s].generation = h
       /\ \A i \in Slots :
            /\ i # s => c.slots[i].generation = slots[i].generation
            /\ c.slots[i].prev = slots[i].prev /\ c.slots[i].next = slots[i].next
            /\ c.slots[i].remaining = slots[i].remaining
            /\ c.slots[i].filled = slots[i].filled
            /\ c.slots[i].account = slots[i].account
            /\ c.slots[i].side = slots[i].side
            /\ c.slots[i].price = slots[i].price
  <2> HIDE DEF c, a, slots
  <2>1. c.slots = WithGeneration(slots, s, h)
    BY <1>2, <1>13
  <2> QED BY <2>1, <1>6, Regenerated
<1> HIDE DEF c, a, slots
<1>15. \A i \in Slots :
         /\ i # s => c.slots[i].generation = b.slots[i].generation
         /\ c.slots[i].remaining = b.slots[i].remaining
         /\ c.slots[i].filled = b.slots[i].filled
         /\ c.slots[i].account = b.slots[i].account
         /\ c.slots[i].side = b.slots[i].side
         /\ c.slots[i].price = b.slots[i].price
         /\ c.slots[i].prev = IF i = s THEN NIL ELSE IF i = slot.next THEN slot.prev
                              ELSE b.slots[i].prev
         /\ c.slots[i].next = IF i = s THEN NIL ELSE IF i = slot.prev THEN slot.next
                              ELSE b.slots[i].next
  <2> HIDE DEF slot
  <2> QED BY <1>5, <1>14
<1>16. c.levels = levels /\ c.bits = newbits /\ c.live = b.live - 1 /\ c \in Shapes
  <2> HIDE DEF levels, newbits
  <2> QED BY <1>2, <1>13
<1>17. \/ /\ g + 2 > GenerationLimit
          /\ c.slots[s].generation = g - 1
          /\ c.retired = b.retired + 1 /\ c.free = b.free
       \/ /\ g + 2 <= GenerationLimit
          /\ c.slots[s].generation = g + 1
          /\ c.retired = b.retired /\ c.free = Append(b.free, s)
  <2> HIDE DEF g
  <2> QED BY <1>2, <1>13, <1>14
<1>18. ASSUME NEW side \in Sides, NEW p \in Ticks
       PROVE  IF side = slot.side /\ p = slot.price
              THEN /\ c.levels[side][p].head = head
                   /\ c.levels[side][p].tail =
                        IF slot.next = NIL THEN slot.prev ELSE level.tail
                   /\ Bit(c, side, p) <=> head # NIL /\ Bit(b, side, p)
              ELSE /\ c.levels[side][p].head = b.levels[side][p].head
                   /\ c.levels[side][p].tail = b.levels[side][p].tail
                   /\ Bit(c, side, p) <=> Bit(b, side, p)
  <2> DEFINE tail == IF slot.next = NIL THEN slot.prev ELSE level.tail
             total == level.total - slot.remaining
             at == slot.side
             price == slot.price
  <2>1. levels = [b.levels EXCEPT ![at][price] =
                    [head |-> head, tail |-> tail, total |-> total]]
    OBVIOUS
  <2>2. b.levels \in [Sides -> [Ticks -> LevelTypes]] /\ b.bits \in [Sides -> Words]
        /\ at \in Sides /\ price \in Ticks
    BY <1>1 DEF Shapes
  <2>3. bits = b.bits[at] /\ bits \in Words
    BY <1>1
  <2>4. newbits = [b.bits EXCEPT ![at] =
                     IF head = NIL THEN ClearBit(bits, price) ELSE bits]
    OBVIOUS
  <2>5. \A q \in Ticks :
          q % WordBits \in ClearBit(bits, price)[q \div WordBits] <=>
            q # price /\ q % WordBits \in bits[q \div WordBits]
    <3> HIDE DEF bits, price
    <3> QED BY <2>2, <2>3, OneBit
  <2> HIDE DEF levels, newbits, head, tail, total, at, price, bits
  <2>6. IF side = at /\ p = price
        THEN c.levels[side][p].head = head /\ c.levels[side][p].tail = tail
        ELSE /\ c.levels[side][p].head = b.levels[side][p].head
             /\ c.levels[side][p].tail = b.levels[side][p].tail
    BY <1>16, <2>1, <2>2
  <2>7. /\ side = at => c.bits[side] = IF head = NIL THEN ClearBit(bits, price) ELSE bits
        /\ side # at => c.bits[side] = b.bits[side]
    BY <1>16, <2>2, <2>4
  <2>8. IF side = at /\ p = price
        THEN Bit(c, side, p) <=> head # NIL /\ Bit(b, side, p)
        ELSE Bit(c, side, p) <=> Bit(b, side, p)
    BY <2>3, <2>5, <2>7 DEF Bit
  <2> QED BY <2>6, <2>8 DEF at, price, tail
<1>19. TotalIs(b, c, slot.side, slot.price, level.total - slot.remaining)
  <2> DEFINE tail == IF slot.next = NIL THEN slot.prev ELSE level.tail
             total == level.total - slot.remaining
             at == slot.side
             price == slot.price
  <2>1. levels = [b.levels EXCEPT ![at][price] =
                    [head |-> head, tail |-> tail, total |-> total]]
    OBVIOUS
  <2>2. b.levels \in [Sides -> [Ticks -> LevelTypes]] /\ at \in Sides /\ price \in Ticks
    BY <1>1 DEF Shapes
  <2> HIDE DEF levels, head, tail, total, at, price
  <2>3. TotalIs(b, c, at, price, total)
    BY <1>16, <2>1, <2>2 DEF TotalIs
  <2> QED BY <2>3 DEF at, price, total
<1>20. HandedBack(b, c, s)
  BY <1>16, <1>17 DEF HandedBack
<1>21. LinkedPast(b, c, s)
  BY <1>15 DEF LinkedPast
<1>22. LevelWithout(b, c, s)
  BY <1>18 DEF LevelWithout
<1> QED BY <1>15, <1>16, <1>19, <1>20, <1>21, <1>22 DEF c

\* The live slots of a sound book are finitely many.
LEMMA LiveSlotsFinite ==
  ASSUME NEW b
  PROVE  IsFiniteSet(LiveIn(b)) /\ Cardinality(LiveIn(b)) \in Nat
<1>1. IsFiniteSet(Slots)
  BY FS_Interval, ConfigValid DEF Slots
<1> QED BY <1>1, FS_Subset, FS_CardinalityType DEF LiveIn

\* A released slot is counted out of the live ones, and is free or retired.
LEMMA ReleaseCounts ==
  ASSUME NEW b \in Shapes, NEW c \in Shapes, Counted(b),
         NEW s \in Slots, Live(b, s), NeighboursAgree(b),
         c.live = b.live - 1,
         \/ /\ b.slots[s].generation + 2 > GenerationLimit
            /\ c.slots[s].generation = b.slots[s].generation - 1
            /\ c.retired = b.retired + 1 /\ c.free = b.free
         \/ /\ b.slots[s].generation + 2 <= GenerationLimit
            /\ c.slots[s].generation = b.slots[s].generation + 1
            /\ c.retired = b.retired /\ c.free = Append(b.free, s),
         \A i \in Slots : i # s => c.slots[i].generation = b.slots[i].generation,
         c.slots[s].prev = NIL /\ c.slots[s].next = NIL,
         \A i \in Slots : ~Live(b, i) /\ b.slots[i].prev = NIL /\ b.slots[i].next = NIL =>
           c.slots[i].prev = NIL /\ c.slots[i].next = NIL
  PROVE  Counted(c) /\ \A i \in Slots : Live(c, i) <=> Live(b, i) /\ i # s
<1> DEFINE g == b.slots[s].generation
           n == Len(b.free)
<1>1. g \in Nat /\ g % 2 = 1 /\ g >= 1 /\ (g - 1) % 2 = 0 /\ (g + 1) % 2 = 0
  <2>1. g \in Nat /\ g % 2 = 1
    BY SlotFacts DEF Live
  <2> HIDE DEF g
  <2> QED BY <2>1, Parity
<1>2. ~Live(c, s) /\ c.slots[s].generation <= GenerationLimit
      /\ (g + 2 <= GenerationLimit => c.slots[s].generation < GenerationLimit)
  <2>1. g <= GenerationLimit /\ GenerationLimit \in Nat
    BY ConfigValid DEF Counted
  <2>2. c.slots[s].generation = g - 1 \/ (c.slots[s].generation = g + 1 /\ g + 2 <= GenerationLimit)
    OBVIOUS
  <2>3. c.slots[s].generation = g - 1 \/ c.slots[s].generation = g + 1
    OBVIOUS
  <2> HIDE DEF g
  <2> QED BY <2>1, <2>2, <2>3, <1>1 DEF Live
<1>3. \A i \in Slots : Live(c, i) <=> Live(b, i) /\ i # s
  BY <1>2 DEF Live
<1>4. LiveIn(c) = LiveIn(b) \ {s} /\ s \in LiveIn(b)
  BY <1>3 DEF LiveIn
<1>5. Cardinality(LiveIn(c)) = Cardinality(LiveIn(b)) - 1
  BY <1>4, FS_RemoveElement, LiveSlotsFinite
<1>6. /\ b.free \in Seq(Slots) /\ n \in Nat /\ DOMAIN b.free = 1 .. n
      /\ Append(b.free, s) \in Seq(Slots)
      /\ DOMAIN Append(b.free, s) = 1 .. n + 1
      /\ \A i \in 1 .. n : Append(b.free, s)[i] = b.free[i]
      /\ Append(b.free, s)[n + 1] = s
      /\ Len(Append(b.free, s)) = n + 1
  <2>1. b.free \in Seq(Slots)
    BY DEF Shapes
  <2> QED BY <2>1, AppendProperties, LenProperties
<1>7. \A i \in 1 .. n : /\ b.free[i] \in Slots /\ b.free[i] # s
                        /\ ~Live(b, b.free[i])
                        /\ b.slots[b.free[i]].prev = NIL
                        /\ b.slots[b.free[i]].next = NIL
                        /\ b.slots[b.free[i]].generation < GenerationLimit
  BY <1>6 DEF Counted
<1>8. c.live + Len(c.free) + c.retired = Capacity
  <2>1. PICK l \in Nat, r \in Nat, m \in Nat : l = b.live /\ r = b.retired /\ m = n
    BY <1>6 DEF Shapes
  <2>2. l + m + r = Capacity
    BY <2>1 DEF Counted
  <2>3. c.live = l - 1 /\ (\/ c.retired = r + 1 /\ Len(c.free) = m
                           \/ c.retired = r /\ Len(c.free) = m + 1)
    BY <2>1, <1>6
  <2>4. c.live + Len(c.free) + c.retired = l + m + r
    BY <2>3
  <2> QED BY <2>2, <2>4
<1>9. ASSUME NEW t \in Slots, NEW i \in 1 .. n, t = b.free[i]
      PROVE  /\ ~Live(c, t) /\ c.slots[t].prev = NIL /\ c.slots[t].next = NIL
             /\ c.slots[t].generation < GenerationLimit
  BY <1>9, <1>7, <1>3
<1>10. /\ IsInjective(c.free)
       /\ \A i \in DOMAIN c.free :
            LET t == c.free[i]
            IN  /\ ~Live(c, t) /\ c.slots[t].prev = NIL /\ c.slots[t].next = NIL
                /\ c.slots[t].generation < GenerationLimit
  <2>1. CASE c.free = b.free
    BY <2>1, <1>6, <1>7, <1>9 DEF Counted
  <2>2. CASE g + 2 <= GenerationLimit /\ c.free = Append(b.free, s)
    <3>1. \A i \in 1 .. n + 1 : i \in 1 .. n \/ i = n + 1
      BY <1>6
    <3>2. \A i, j \in 1 .. n : b.free[i] = b.free[j] => i = j
      BY <1>6 DEF Counted, IsInjective
    <3>3. IsInjective(c.free)
      <4> HIDE DEF n
      <4> QED BY <2>2, <3>1, <3>2, <1>6, <1>7 DEF IsInjective
    <3>4. ASSUME NEW i \in 1 .. n + 1
          PROVE  LET t == c.free[i]
                 IN  /\ ~Live(c, t) /\ c.slots[t].prev = NIL /\ c.slots[t].next = NIL
                     /\ c.slots[t].generation < GenerationLimit
      <4>1. CASE i \in 1 .. n
        BY <2>2, <4>1, <1>6, <1>7, <1>9
      <4>2. CASE i = n + 1
        BY <2>2, <4>2, <1>6, <1>2
      <4> QED BY <3>1, <4>1, <4>2
    <3> QED BY <2>2, <3>3, <3>4, <1>6
  <2> QED BY <2>1, <2>2
<1>11. \A i \in Slots : c.slots[i].generation <= GenerationLimit
  BY <1>2 DEF Counted
<1> QED BY <1>3, <1>5, <1>8, <1>10, <1>11 DEF Counted

\* Taking an order off the book leaves it sound, and the other orders alone.
LEMMA RemovalIsSound ==
  ASSUME NEW b, Sound(b), NEW s \in Slots, Live(b, s)
  PROVE  LET c == RemoveSlot(b, s)
         IN  /\ Sound(c)
             /\ \A i \in Slots : /\ Live(c, i) <=> Live(b, i) /\ i # s
                                 /\ c.slots[i].remaining = b.slots[i].remaining
<1> DEFINE c     == RemoveSlot(b, s)
           slot  == b.slots[s]
           level == b.levels[slot.side][slot.price]
           head  == IF slot.prev = NIL THEN slot.next ELSE level.head
<1>1. b \in Shapes /\ NeighboursAgree(b) /\ EndsAgree(b) /\ Counted(b)
  BY DEF Sound
<1>2. b.live >= 1
  <2> DEFINE n == Cardinality(LiveIn(b))
  <2>1. s \in LiveIn(b) /\ n \in Nat
    BY LiveSlotsFinite DEF LiveIn
  <2>2. n # 0
    BY <2>1, FS_EmptySet, LiveSlotsFinite
  <2>3. b.live = n
    BY <1>1 DEF Counted
  <2> HIDE DEF n
  <2> QED BY <2>1, <2>2, <2>3
<1>0. /\ c \in Shapes
      /\ HandedBack(b, c, s) /\ LinkedPast(b, c, s) /\ LevelWithout(b, c, s)
  BY <1>1, <1>2, RemoveSlotFields
<1>3. /\ c \in Shapes
      /\ c.live = b.live - 1
      /\ \/ /\ slot.generation + 2 > GenerationLimit
            /\ c.slots[s].generation = slot.generation - 1
            /\ c.retired = b.retired + 1 /\ c.free = b.free
         \/ /\ slot.generation + 2 <= GenerationLimit
            /\ c.slots[s].generation = slot.generation + 1
            /\ c.retired = b.retired /\ c.free = Append(b.free, s)
  BY <1>0 DEF HandedBack
<1>4. \A i \in Slots :
        /\ i # s => c.slots[i].generation = b.slots[i].generation
        /\ c.slots[i].remaining = b.slots[i].remaining
        /\ c.slots[i].side = b.slots[i].side
        /\ c.slots[i].price = b.slots[i].price
        /\ c.slots[i].prev = IF i = s THEN NIL ELSE IF i = slot.next THEN slot.prev
                             ELSE b.slots[i].prev
        /\ c.slots[i].next = IF i = s THEN NIL ELSE IF i = slot.prev THEN slot.next
                             ELSE b.slots[i].next
  BY <1>0 DEF LinkedPast
<1>5. \A side \in Sides, p \in Ticks :
        IF side = slot.side /\ p = slot.price
        THEN /\ c.levels[side][p].head = head
             /\ c.levels[side][p].tail =
                  IF slot.next = NIL THEN slot.prev ELSE level.tail
             /\ Bit(c, side, p) <=> head # NIL /\ Bit(b, side, p)
        ELSE /\ c.levels[side][p].head = b.levels[side][p].head
             /\ c.levels[side][p].tail = b.levels[side][p].tail
             /\ Bit(c, side, p) <=> Bit(b, side, p)
  BY <1>0 DEF LevelWithout
<1> HIDE DEF c
<1>6. ASSUME NEW i \in Slots, ~Live(b, i), b.slots[i].prev = NIL, b.slots[i].next = NIL
      PROVE  c.slots[i].prev = NIL /\ c.slots[i].next = NIL
  <2>1. i # slot.next /\ i # slot.prev
    BY <1>1, <1>6, SlotFacts, TicksFit DEF NeighboursAgree
  <2> HIDE DEF slot
  <2> QED BY <1>4, <1>6, <2>1
<1>7. Counted(c) /\ \A i \in Slots : Live(c, i) <=> Live(b, i) /\ i # s
  <2>1. c.slots[s].prev = NIL /\ c.slots[s].next = NIL
    BY <1>4
  <2> QED BY <1>1, <1>3, <1>4, <1>6, <2>1, ReleaseCounts
<1>8. Leaves(b, c, s)
  <2>1. slot.side \in Sides /\ slot.price \in Ticks
    BY <1>1, SlotFacts
  <2>2. head # NIL => Bit(b, slot.side, slot.price)
    <3>1. Bit(b, slot.side, slot.price) <=> level.head # NIL
      BY <1>1, <2>1 DEF EndsAgree
    <3>2. slot.prev = NIL => level.head = s
      BY <1>1 DEF NeighboursAgree
    <3> HIDE DEF slot, level
    <3> QED BY <3>1, <3>2, TicksFit
  <2>3. \A side \in Sides, p \in Ticks :
          IF side = slot.side /\ p = slot.price
          THEN /\ c.levels[side][p].head = head
               /\ c.levels[side][p].tail =
                    IF slot.next = NIL THEN slot.prev ELSE level.tail
               /\ Bit(c, side, p) <=> c.levels[side][p].head # NIL
          ELSE /\ c.levels[side][p].head = b.levels[side][p].head
               /\ c.levels[side][p].tail = b.levels[side][p].tail
               /\ Bit(c, side, p) <=> Bit(b, side, p)
    <3> HIDE DEF slot, level, head
    <3> QED BY <1>5, <2>2
  <2> QED BY <1>4, <1>7, <2>3 DEF Leaves
<1> QED BY <1>1, <1>3, <1>4, <1>7, <1>8, LeavingKeepsNeighbours, LeavingKeepsEnds
        DEF Sound, c

----------------------------------------------------------------------------
(***************************************************************************)
(* An order changes in its place                                           *)
(***************************************************************************)
\* Quantities can change without the book's structure noticing.
LEMMA UpdateIsSound ==
  ASSUME NEW b, Sound(b), NEW c \in Shapes,
         c.free = b.free, c.live = b.live, c.retired = b.retired, c.bits = b.bits,
         \A i \in Slots : /\ c.slots[i].generation = b.slots[i].generation
                          /\ c.slots[i].prev = b.slots[i].prev
                          /\ c.slots[i].next = b.slots[i].next
                          /\ c.slots[i].side = b.slots[i].side
                          /\ c.slots[i].price = b.slots[i].price,
         \A side \in Sides, p \in Ticks :
           /\ c.levels[side][p].head = b.levels[side][p].head
           /\ c.levels[side][p].tail = b.levels[side][p].tail
  PROVE  Sound(c) /\ \A i \in Slots : Live(c, i) <=> Live(b, i)
<1>1. \A i \in Slots : Live(c, i) <=> Live(b, i)
  BY DEF Live
<1>2. b \in Shapes /\ NeighboursAgree(b) /\ EndsAgree(b) /\ Counted(b)
  BY DEF Sound
<1>3. \A i, j \in Slots : SameLevel(c, i, j) <=> SameLevel(b, i, j)
  BY DEF SameLevel
<1>4. \A side \in Sides, p \in Ticks : Bit(c, side, p) <=> Bit(b, side, p)
  BY DEF Bit
<1>5. \A i \in Slots : \A side \in Sides, p \in Ticks :
        InLevel(c, i, side, p) <=> InLevel(b, i, side, p)
  BY <1>1 DEF InLevel
<1>6. NeighboursAgree(c)
  <2> SUFFICES ASSUME NEW s \in Slots, Live(c, s)
               PROVE  LET slot  == c.slots[s]
                          level == c.levels[slot.side][slot.price]
                      IN  /\ slot.next = NIL => level.tail = s
                          /\ slot.next # NIL => /\ Live(c, slot.next)
                                                /\ SameLevel(c, s, slot.next)
                                                /\ c.slots[slot.next].prev = s
                          /\ slot.prev = NIL => level.head = s
                          /\ slot.prev # NIL => /\ Live(c, slot.prev)
                                                /\ SameLevel(c, s, slot.prev)
                                                /\ c.slots[slot.prev].next = s
    BY DEF NeighboursAgree
  <2>1. /\ b.slots[s].side \in Sides /\ b.slots[s].price \in Ticks
        /\ b.slots[s].next \in Slots \cup {NIL}
        /\ b.slots[s].prev \in Slots \cup {NIL}
    BY <1>2, SlotFacts
  <2>2. LET slot  == b.slots[s]
            level == b.levels[slot.side][slot.price]
        IN  /\ slot.next = NIL => level.tail = s
            /\ slot.next # NIL => /\ Live(b, slot.next) /\ SameLevel(b, s, slot.next)
                                  /\ b.slots[slot.next].prev = s
            /\ slot.prev = NIL => level.head = s
            /\ slot.prev # NIL => /\ Live(b, slot.prev) /\ SameLevel(b, s, slot.prev)
                                  /\ b.slots[slot.prev].next = s
    BY <1>1, <1>2 DEF NeighboursAgree
  <2> DEFINE sd == b.slots[s].side
             q  == b.slots[s].price
  <2>3. /\ c.slots[s].side = sd /\ c.slots[s].price = q
        /\ c.slots[s].next = b.slots[s].next /\ c.slots[s].prev = b.slots[s].prev
        /\ c.levels[sd][q].head = b.levels[sd][q].head
        /\ c.levels[sd][q].tail = b.levels[sd][q].tail
    BY <2>1
  <2> HIDE DEF sd, q
  <2> QED BY ZenonT(40), <1>1, <1>3, <2>1, <2>2, <2>3 DEF sd, q
<1>7. EndsAgree(c)
  <2> SUFFICES ASSUME NEW side \in Sides, NEW p \in Ticks
               PROVE  LET level == c.levels[side][p]
                      IN  /\ level.head # NIL => /\ InLevel(c, level.head, side, p)
                                                 /\ c.slots[level.head].prev = NIL
                          /\ level.tail # NIL => /\ InLevel(c, level.tail, side, p)
                                                 /\ c.slots[level.tail].next = NIL
                          /\ (level.head = NIL) <=> (level.tail = NIL)
                          /\ Bit(c, side, p) <=> level.head # NIL
    BY DEF EndsAgree
  <2>1. /\ b.levels[side][p].head \in Slots \cup {NIL}
        /\ b.levels[side][p].tail \in Slots \cup {NIL}
    BY <1>2, LevelFacts
  <2>2. LET level == b.levels[side][p]
        IN  /\ level.head # NIL => /\ InLevel(b, level.head, side, p)
                                   /\ b.slots[level.head].prev = NIL
            /\ level.tail # NIL => /\ InLevel(b, level.tail, side, p)
                                   /\ b.slots[level.tail].next = NIL
            /\ (level.head = NIL) <=> (level.tail = NIL)
            /\ Bit(b, side, p) <=> level.head # NIL
    BY <1>2 DEF EndsAgree
  <2> QED BY <1>4, <1>5, <2>1, <2>2
<1>8. Counted(c)
  <2>1. LiveIn(c) = LiveIn(b)
    BY <1>1 DEF LiveIn
  <2>2. \A i \in DOMAIN b.free : b.free[i] \in Slots
    BY <1>2 DEF Shapes
  <2> QED BY <1>1, <1>2, <2>1, <2>2 DEF Counted
<1> QED BY <1>1, <1>6, <1>7, <1>8 DEF Sound

\* The slot s of the book b has other quantities in the book c.
Amends(b, c, s, left, filled) ==
  LET slot == b.slots[s]
  IN  /\ c.free = b.free /\ c.live = b.live /\ c.retired = b.retired
      /\ c.bits = b.bits
      /\ \A i \in Slots : i # s => c.slots[i] = b.slots[i]
      /\ c.slots[s].generation = slot.generation
      /\ c.slots[s].prev = slot.prev /\ c.slots[s].next = slot.next
      /\ c.slots[s].account = slot.account
      /\ c.slots[s].side = slot.side /\ c.slots[s].price = slot.price
      /\ c.slots[s].remaining = left /\ c.slots[s].filled = filled
      /\ \A side \in Sides, p \in Ticks :
           /\ c.levels[side][p].head = b.levels[side][p].head
           /\ c.levels[side][p].tail = b.levels[side][p].tail

WithQuantities(slot, left, filled) ==
  [slot EXCEPT !.remaining = left, !.filled = filled]

WithTotal(level, total) == [level EXCEPT !.total = total]

WithSlot(slots, s, slot) == [slots EXCEPT ![s] = slot]

WithLevel(levels, side, p, level) == [levels EXCEPT ![side][p] = level]

\* A slot with other quantities is otherwise the same.
LEMMA AmendedSlot ==
  ASSUME NEW x \in SlotTypes, NEW left \in Nat, NEW filled \in Nat
  PROVE  LET y == WithQuantities(x, left, filled)
         IN  /\ y \in SlotTypes
             /\ y.generation = x.generation /\ y.prev = x.prev /\ y.next = x.next
             /\ y.account = x.account /\ y.side = x.side /\ y.price = x.price
             /\ y.remaining = left /\ y.filled = filled
  BY DEF SlotTypes, WithQuantities

\* A level with another total is otherwise the same.
LEMMA AmendedLevel ==
  ASSUME NEW x \in LevelTypes, NEW total \in Int
  PROVE  LET y == WithTotal(x, total)
         IN  /\ y \in LevelTypes /\ y.head = x.head /\ y.tail = x.tail
             /\ y.total = total
  BY DEF LevelTypes, WithTotal

\* Writing a slot's quantities and its level's total amends the slot.
LEMMA AmendingFields ==
  ASSUME NEW b \in Shapes, NEW s \in Slots, NEW left \in Nat, NEW filled \in Nat,
         NEW side \in Sides, NEW p \in Ticks, NEW qty \in Int, NEW c,
         c.free = b.free, c.live = b.live, c.retired = b.retired, c.bits = b.bits,
         c.levels = WithLevel(b.levels, side, p,
                      WithTotal(b.levels[side][p], b.levels[side][p].total - qty)),
         c.slots = WithSlot(b.slots, s, WithQuantities(b.slots[s], left, filled)),
         c = [slots |-> c.slots, free |-> c.free, retired |-> c.retired,
              live |-> c.live, levels |-> c.levels, bits |-> c.bits]
  PROVE  /\ c \in Shapes /\ Amends(b, c, s, left, filled)
         /\ TotalIs(b, c, side, p, b.levels[side][p].total - qty)
<1> DEFINE y == WithQuantities(b.slots[s], left, filled)
           lv == WithTotal(b.levels[side][p], b.levels[side][p].total - qty)
<1>1. b.slots \in [Slots -> SlotTypes] /\ b.levels \in [Sides -> [Ticks -> LevelTypes]]
  BY DEF Shapes
<1>2. /\ y \in SlotTypes
      /\ y.generation = b.slots[s].generation
      /\ y.prev = b.slots[s].prev /\ y.next = b.slots[s].next
      /\ y.account = b.slots[s].account
      /\ y.side = b.slots[s].side /\ y.price = b.slots[s].price
      /\ y.remaining = left /\ y.filled = filled
  BY <1>1, AmendedSlot
<1>3. /\ lv \in LevelTypes /\ lv.head = b.levels[side][p].head
      /\ lv.tail = b.levels[side][p].tail
      /\ lv.total = b.levels[side][p].total - qty
  <2>1. b.levels[side][p].total - qty \in Int
    BY LevelFacts
  <2> QED BY <1>1, <2>1, AmendedLevel
<1>4. c.slots = [b.slots EXCEPT ![s] = y]
  BY DEF y, WithSlot
<1>5. c.levels = [b.levels EXCEPT ![side][p] = lv]
  BY DEF lv, WithLevel
<1> HIDE DEF y, lv
<1>6. /\ \A i \in Slots : c.slots[i] = IF i = s THEN y ELSE b.slots[i]
      /\ c.slots \in [Slots -> SlotTypes]
  BY <1>1, <1>2, <1>4
<1>7. /\ \A sd \in Sides, q \in Ticks :
           c.levels[sd][q] = IF sd = side /\ q = p THEN lv ELSE b.levels[sd][q]
      /\ c.levels \in [Sides -> [Ticks -> LevelTypes]]
  <2> DEFINE L == b.levels
             M == c.levels
  <2>1. L \in [Sides -> [Ticks -> LevelTypes]] /\ lv \in LevelTypes
        /\ M = [L EXCEPT ![side][p] = lv]
    BY <1>1, <1>3, <1>5
  <2> HIDE DEF L, M
  <2>2. /\ M \in [Sides -> [Ticks -> LevelTypes]]
        /\ \A sd \in Sides : sd # side => M[sd] = L[sd]
        /\ M[side] = [L[side] EXCEPT ![p] = lv]
        /\ L[side] \in [Ticks -> LevelTypes]
    BY <2>1
  <2>3. \A q \in Ticks : M[side][q] = IF q = p THEN lv ELSE L[side][q]
    BY <2>2
  <2> QED BY <2>2, <2>3 DEF L, M
<1>8. c \in Shapes
  <2>1. /\ b.free \in Seq(Slots) /\ b.retired \in Nat /\ b.live \in Nat
        /\ b.bits \in [Sides -> Words]
    BY DEF Shapes
  <2> DEFINE c1 == c.slots
             c2 == c.free
             c3 == c.retired
             c4 == c.live
             c5 == c.levels
             c6 == c.bits
  <2>2. c = [slots |-> c1, free |-> c2, retired |-> c3, live |-> c4,
             levels |-> c5, bits |-> c6]
    OBVIOUS
  <2>3. /\ c1 \in [Slots -> SlotTypes] /\ c2 \in Seq(Slots)
        /\ c3 \in Nat /\ c4 \in Nat
        /\ c5 \in [Sides -> [Ticks -> LevelTypes]] /\ c6 \in [Sides -> Words]
    BY <1>6, <1>7, <2>1
  <2> HIDE DEF c1, c2, c3, c4, c5, c6
  <2> QED BY <2>2, <2>3 DEF Shapes
<1>9. \A sd \in Sides, q \in Ticks :
        /\ c.levels[sd][q].head = b.levels[sd][q].head
        /\ c.levels[sd][q].tail = b.levels[sd][q].tail
  BY <1>3, <1>7
<1>10. TotalIs(b, c, side, p, b.levels[side][p].total - qty)
  BY <1>3, <1>7 DEF TotalIs
<1> QED BY <1>2, <1>6, <1>8, <1>9, <1>10 DEF Amends

\* reduce() amends the slot.
LEMMA ReducedAmends ==
  ASSUME NEW b \in Shapes, NEW s \in Slots, NEW left \in Nat
  PROVE  LET c == ReducedInPlace(b, s, left)
             slot == b.slots[s]
         IN  /\ c \in Shapes /\ Amends(b, c, s, left, slot.filled)
             /\ TotalIs(b, c, slot.side, slot.price,
                        b.levels[slot.side][slot.price].total - (slot.remaining - left))
<1> DEFINE c == ReducedInPlace(b, s, left)
           side == b.slots[s].side
           p == b.slots[s].price
           qty == b.slots[s].remaining - left
           x == b.slots[s]
<1>1. /\ side \in Sides /\ p \in Ticks /\ qty \in Int /\ x \in SlotTypes
      /\ x.filled \in Nat
  BY SlotFacts DEF Shapes
<1>2. c = [b EXCEPT !.levels[side][p].total = @ - qty, !.slots[s].remaining = left]
  BY DEF ReducedInPlace, LevelSubQty, Shapes
<1>3. [x EXCEPT !.remaining = left] = WithQuantities(x, left, x.filled)
  <2> HIDE DEF x
  <2> QED BY <1>1 DEF SlotTypes, WithQuantities
<1> HIDE DEF c, qty
<1>4. /\ c.free = b.free /\ c.live = b.live /\ c.retired = b.retired
      /\ c.bits = b.bits
      /\ c = [slots |-> c.slots, free |-> c.free, retired |-> c.retired,
              live |-> c.live, levels |-> c.levels, bits |-> c.bits]
  BY <1>2 DEF Shapes
<1>5. c.slots = WithSlot(b.slots, s, WithQuantities(x, left, x.filled))
  <2>1. c.slots = [b.slots EXCEPT ![s].remaining = left]
    BY <1>2 DEF Shapes
  <2>2. c.slots = [b.slots EXCEPT ![s] = [x EXCEPT !.remaining = left]]
    BY <2>1
  <2> DEFINE y == [x EXCEPT !.remaining = left]
  <2>3. c.slots = [b.slots EXCEPT ![s] = y]
    BY <2>2
  <2>4. y = WithQuantities(x, left, x.filled)
    BY <1>3
  <2> HIDE DEF y, x
  <2> QED BY <2>3, <2>4 DEF WithSlot
<1>6. c.levels = WithLevel(b.levels, side, p,
                   WithTotal(b.levels[side][p], b.levels[side][p].total - qty))
  <2> DEFINE lv == b.levels[side][p]
             total == lv.total - qty
  <2>1. c.levels = [b.levels EXCEPT ![side][p].total = total]
    <3> HIDE DEF side, p
    <3> QED BY <1>2 DEF Shapes
  <2>2. c.levels = [b.levels EXCEPT ![side][p] = [lv EXCEPT !.total = total]]
    BY <2>1
  <2> QED BY <2>2 DEF WithLevel, WithTotal
<1> HIDE DEF side, p
<1>7. /\ c \in Shapes /\ Amends(b, c, s, left, x.filled)
      /\ TotalIs(b, c, side, p, b.levels[side][p].total - qty)
  BY <1>1, <1>4, <1>5, <1>6, AmendingFields
<1> QED BY <1>7 DEF c, side, p, qty

\* The book in which fill of the order in s has traded and left remains of it.
FilledIn(b, side, p, s, fill, left) ==
  [LevelSubQty(b, side, p, fill) EXCEPT
     !.slots[s].remaining = left, !.slots[s].filled = @ + fill]

\* A fill amends the slot.
LEMMA FilledAmends ==
  ASSUME NEW b \in Shapes, NEW s \in Slots, NEW left \in Nat, NEW fill \in Nat,
         NEW side \in Sides, NEW p \in Ticks
  PROVE  LET c == FilledIn(b, side, p, s, fill, left)
         IN  /\ c \in Shapes /\ Amends(b, c, s, left, b.slots[s].filled + fill)
             /\ TotalIs(b, c, side, p, b.levels[side][p].total - fill)
<1> DEFINE c == FilledIn(b, side, p, s, fill, left)
           x == b.slots[s]
<1>1. x \in SlotTypes /\ x.filled + fill \in Nat /\ fill \in Int
  BY SlotFacts DEF Shapes
<1>2. c = [b EXCEPT !.levels[side][p].total = @ - fill,
                    !.slots[s].remaining = left, !.slots[s].filled = @ + fill]
  BY DEF FilledIn, LevelSubQty, Shapes
<1>3. [x EXCEPT !.remaining = left, !.filled = @ + fill]
        = WithQuantities(x, left, x.filled + fill)
  <2> HIDE DEF x
  <2> QED BY <1>1 DEF SlotTypes, WithQuantities
<1> HIDE DEF c
<1>4. /\ c.free = b.free /\ c.live = b.live /\ c.retired = b.retired
      /\ c.bits = b.bits
      /\ c = [slots |-> c.slots, free |-> c.free, retired |-> c.retired,
              live |-> c.live, levels |-> c.levels, bits |-> c.bits]
  BY <1>2 DEF Shapes
<1>5. c.slots = WithSlot(b.slots, s, WithQuantities(x, left, x.filled + fill))
  <2>1. c.slots = [b.slots EXCEPT ![s].remaining = left, ![s].filled = @ + fill]
    BY <1>2 DEF Shapes
  <2>2. c.slots = [b.slots EXCEPT
                     ![s] = [x EXCEPT !.remaining = left, !.filled = @ + fill]]
    BY <2>1 DEF Shapes
  <2> DEFINE y == [x EXCEPT !.remaining = left, !.filled = @ + fill]
  <2>3. c.slots = [b.slots EXCEPT ![s] = y]
    BY <2>2
  <2>4. y = WithQuantities(x, left, x.filled + fill)
    BY <1>3
  <2> HIDE DEF y, x
  <2> QED BY <2>3, <2>4 DEF WithSlot
<1>6. c.levels = WithLevel(b.levels, side, p,
                   WithTotal(b.levels[side][p], b.levels[side][p].total - fill))
  <2> DEFINE lv == b.levels[side][p]
             total == lv.total - fill
  <2>1. c.levels = [b.levels EXCEPT ![side][p].total = total]
    BY <1>2 DEF Shapes
  <2>2. c.levels = [b.levels EXCEPT ![side][p] = [lv EXCEPT !.total = total]]
    BY <2>1
  <2> QED BY <2>2 DEF WithLevel, WithTotal
<1> QED BY <1>1, <1>4, <1>5, <1>6, AmendingFields DEF c

\* An amended book is sound.
LEMMA AmendIsSound ==
  ASSUME NEW b, NEW c \in Shapes, Sound(b), NEW s \in Slots, NEW left, NEW filled,
         Amends(b, c, s, left, filled)
  PROVE  /\ Sound(c)
         /\ \A i \in Slots :
              /\ Live(c, i) <=> Live(b, i)
              /\ c.slots[i].remaining = IF i = s THEN left ELSE b.slots[i].remaining
<1>1. \A i \in Slots : /\ c.slots[i].generation = b.slots[i].generation
                       /\ c.slots[i].prev = b.slots[i].prev
                       /\ c.slots[i].next = b.slots[i].next
                       /\ c.slots[i].side = b.slots[i].side
                       /\ c.slots[i].price = b.slots[i].price
                       /\ c.slots[i].remaining =
                            IF i = s THEN left ELSE b.slots[i].remaining
  BY DEF Amends
<1>2. /\ c.free = b.free /\ c.live = b.live /\ c.retired = b.retired
      /\ c.bits = b.bits
      /\ \A side \in Sides, p \in Ticks :
           /\ c.levels[side][p].head = b.levels[side][p].head
           /\ c.levels[side][p].tail = b.levels[side][p].tail
  BY DEF Amends
<1> QED BY <1>1, <1>2, UpdateIsSound

----------------------------------------------------------------------------
(***************************************************************************)
(* An order goes, and the others stay                                      *)
(***************************************************************************)
\* The order in the slot i is the same in both books.
KeepsOrder(b, c, i) ==
  /\ c.slots[i].generation = b.slots[i].generation
  /\ c.slots[i].account = b.slots[i].account
  /\ c.slots[i].side = b.slots[i].side
  /\ c.slots[i].price = b.slots[i].price
  /\ c.slots[i].remaining = b.slots[i].remaining
  /\ c.slots[i].filled = b.slots[i].filled

\* The order in the slot s of the book b is not in the book c; all the others
\* are, in their places.
Removes(b, c, s) ==
  /\ \/ /\ b.slots[s].generation + 2 > GenerationLimit
        /\ c.slots[s].generation = b.slots[s].generation - 1
        /\ c.retired = b.retired + 1 /\ c.free = b.free
     \/ /\ b.slots[s].generation + 2 <= GenerationLimit
        /\ c.slots[s].generation = b.slots[s].generation + 1
        /\ c.retired = b.retired /\ c.free = Append(b.free, s)
  /\ \A i \in Slots :
       /\ Live(c, i) <=> Live(b, i) /\ i # s
       /\ i # s => KeepsOrder(b, c, i)
       /\ c.slots[i].next = IF i = s THEN NIL
                            ELSE IF i = b.slots[s].prev THEN b.slots[s].next
                            ELSE b.slots[i].next

\* The removal of a slot is the removal of its order.
LEMMA RemovalRemoves ==
  ASSUME NEW b, Sound(b), NEW s \in Slots, Live(b, s)
  PROVE  Removes(b, RemoveSlot(b, s), s)
<1>1. b \in Shapes /\ b.live >= 1
  <2>1. Cardinality(LiveIn(b)) \in Nat /\ IsFiniteSet(LiveIn(b)) /\ s \in LiveIn(b)
    BY LiveSlotsFinite DEF LiveIn
  <2>2. Cardinality(LiveIn(b)) # 0
    BY <2>1, FS_EmptySet
  <2> QED BY <2>1, <2>2 DEF Sound, Counted
<1> DEFINE c == RemoveSlot(b, s)
<1>2. \A i \in Slots : Live(c, i) <=> Live(b, i) /\ i # s
  BY RemovalIsSound
<1>0. HandedBack(b, c, s) /\ LinkedPast(b, c, s)
  BY <1>1, RemoveSlotFields
<1>3. /\ \/ /\ b.slots[s].generation + 2 > GenerationLimit
            /\ c.slots[s].generation = b.slots[s].generation - 1
            /\ c.retired = b.retired + 1 /\ c.free = b.free
         \/ /\ b.slots[s].generation + 2 <= GenerationLimit
            /\ c.slots[s].generation = b.slots[s].generation + 1
            /\ c.retired = b.retired /\ c.free = Append(b.free, s)
      /\ \A i \in Slots :
           /\ i # s => c.slots[i].generation = b.slots[i].generation
           /\ c.slots[i].remaining = b.slots[i].remaining
           /\ c.slots[i].filled = b.slots[i].filled
           /\ c.slots[i].account = b.slots[i].account
           /\ c.slots[i].side = b.slots[i].side
           /\ c.slots[i].price = b.slots[i].price
           /\ c.slots[i].next = IF i = s THEN NIL
                                ELSE IF i = b.slots[s].prev THEN b.slots[s].next
                                ELSE b.slots[i].next
  BY <1>0 DEF HandedBack, LinkedPast
<1> HIDE DEF c
<1> QED BY <1>2, <1>3 DEF Removes, KeepsOrder, c

\* Changing an order's quantities first makes no difference to its removal.
LEMMA AmendedThenRemoved ==
  ASSUME NEW b, NEW f, NEW c, NEW s \in Slots, NEW left, NEW filled,
         Amends(b, f, s, left, filled), Removes(f, c, s)
  PROVE  Removes(b, c, s)
<1>1. /\ f.free = b.free /\ f.retired = b.retired
      /\ \A i \in Slots : /\ f.slots[i].generation = b.slots[i].generation
                          /\ f.slots[i].next = b.slots[i].next
                          /\ i # s => f.slots[i] = b.slots[i]
      /\ f.slots[s].prev = b.slots[s].prev
  BY DEF Amends
<1>2. \A i \in Slots : Live(f, i) <=> Live(b, i)
  BY <1>1 DEF Live
<1>3. \A i \in Slots : i # s => KeepsOrder(b, c, i)
  BY <1>1 DEF Removes, KeepsOrder
<1> QED BY <1>1, <1>2, <1>3 DEF Removes

----------------------------------------------------------------------------
(***************************************************************************)
(* An order comes                                                          *)
(***************************************************************************)
\* In the book c the slot s, not live in the book b, is live and the last of
\* the queue of side and p.
Enters(b, c, s, side, p) ==
  LET level == b.levels[side][p]
  IN  /\ \A i \in Slots :
           /\ Live(c, i) <=> Live(b, i) \/ i = s
           /\ c.slots[i].side = IF i = s THEN side ELSE b.slots[i].side
           /\ c.slots[i].price = IF i = s THEN p ELSE b.slots[i].price
           /\ c.slots[i].prev = IF i = s THEN level.tail ELSE b.slots[i].prev
           /\ c.slots[i].next = IF i = s THEN NIL ELSE IF i = level.tail THEN s
                                ELSE b.slots[i].next
      /\ \A sd \in Sides, q \in Ticks :
           IF sd = side /\ q = p
           THEN /\ c.levels[sd][q].head = IF level.tail = NIL THEN s ELSE level.head
                /\ c.levels[sd][q].tail = s
                /\ Bit(c, sd, q)
           ELSE /\ c.levels[sd][q].head = b.levels[sd][q].head
                /\ c.levels[sd][q].tail = b.levels[sd][q].tail
                /\ Bit(c, sd, q) <=> Bit(b, sd, q)

\* A slot that comes to the end of a queue is linked to the last before it.
LEMMA EnteringKeepsNeighbours ==
  ASSUME NEW b \in Shapes, NEW c \in Shapes, NeighboursAgree(b), EndsAgree(b),
         NEW s \in Slots, ~Live(b, s), NEW side \in Sides, NEW p \in Ticks,
         Enters(b, c, s, side, p)
  PROVE  NeighboursAgree(c)
<1> SUFFICES ASSUME NEW t \in Slots, Live(c, t)
             PROVE  LET slot  == c.slots[t]
                        level == c.levels[slot.side][slot.price]
                    IN  /\ slot.next = NIL => level.tail = t
                        /\ slot.next # NIL => /\ Live(c, slot.next)
                                              /\ SameLevel(c, t, slot.next)
                                              /\ c.slots[slot.next].prev = t
                        /\ slot.prev = NIL => level.head = t
                        /\ slot.prev # NIL => /\ Live(c, slot.prev)
                                              /\ SameLevel(c, t, slot.prev)
                                              /\ c.slots[slot.prev].next = t
  BY DEF NeighboursAgree
<1> DEFINE head == b.levels[side][p].head
           tail == b.levels[side][p].tail
<1>1. NIL \notin Slots /\ head \in Slots \cup {NIL} /\ tail \in Slots \cup {NIL}
  BY LevelFacts, TicksFit
<1>2. /\ tail # NIL => /\ Live(b, tail) /\ b.slots[tail].next = NIL
                       /\ b.slots[tail].side = side /\ b.slots[tail].price = p
      /\ (head = NIL) <=> (tail = NIL)
  <2>1. /\ (head = NIL) <=> (tail = NIL)
        /\ tail # NIL => InLevel(b, tail, side, p) /\ b.slots[tail].next = NIL
    BY DEF EndsAgree
  <2> QED BY <2>1 DEF InLevel
<1>3. \A i \in Slots :
        /\ Live(c, i) <=> Live(b, i) \/ i = s
        /\ c.slots[i].side = IF i = s THEN side ELSE b.slots[i].side
        /\ c.slots[i].price = IF i = s THEN p ELSE b.slots[i].price
        /\ c.slots[i].prev = IF i = s THEN tail ELSE b.slots[i].prev
        /\ c.slots[i].next = IF i = s THEN NIL ELSE IF i = tail THEN s
                             ELSE b.slots[i].next
  BY DEF Enters
<1>4. \A sd \in Sides, q \in Ticks :
        IF sd = side /\ q = p
        THEN /\ c.levels[sd][q].head = IF tail = NIL THEN s ELSE head
             /\ c.levels[sd][q].tail = s
        ELSE /\ c.levels[sd][q].head = b.levels[sd][q].head
             /\ c.levels[sd][q].tail = b.levels[sd][q].tail
  BY DEF Enters
<1>5. tail # s
  BY <1>1, <1>2
<1>6. CASE t = s
  <2> HIDE DEF head, tail
  <2> QED BY <1>1, <1>2, <1>3, <1>4, <1>5, <1>6 DEF SameLevel
<1>7. CASE t # s
  <2> DEFINE tn == b.slots[t].next
             tp == b.slots[t].prev
             sd == b.slots[t].side
             q  == b.slots[t].price
  <2>1. /\ Live(b, t) /\ sd \in Sides /\ q \in Ticks
        /\ tn \in Slots \cup {NIL} /\ tp \in Slots \cup {NIL}
    BY <1>3, <1>7, SlotFacts
  <2>2. /\ tn = NIL => b.levels[sd][q].tail = t
        /\ tn # NIL => Live(b, tn) /\ SameLevel(b, t, tn) /\ b.slots[tn].prev = t
        /\ tp = NIL => b.levels[sd][q].head = t
        /\ tp # NIL => Live(b, tp) /\ SameLevel(b, t, tp) /\ b.slots[tp].next = t
    BY <2>1 DEF NeighboursAgree
  <2>3. /\ c.slots[t].side = sd /\ c.slots[t].price = q
        /\ c.slots[t].prev = tp
        /\ c.slots[t].next = IF t = tail THEN s ELSE tn
    BY <1>3, <1>7
  <2>4. t = tail => sd = side /\ q = p
    BY <1>1, <1>2
  <2>5. sd = side /\ q = p => b.levels[sd][q].tail = tail /\ b.levels[sd][q].head = head
    OBVIOUS
  <2>6. tail # NIL => b.slots[tail].next = NIL
    BY <1>2
  <2>7. tp # NIL => tp # tail
    BY <1>1, <1>7, <2>1, <2>2, <2>6, TicksFit
  <2>8. /\ tn # NIL => /\ b.slots[t].side = b.slots[tn].side
                       /\ b.slots[t].price = b.slots[tn].price
        /\ tp # NIL => /\ b.slots[t].side = b.slots[tp].side
                       /\ b.slots[t].price = b.slots[tp].price
    BY <2>2 DEF SameLevel
  <2> HIDE DEF head, tail, tn, tp
  <2>9. /\ c.slots[t].next = NIL => c.levels[sd][q].tail = t
        /\ c.slots[t].prev = NIL => c.levels[sd][q].head = t
    <3> HIDE DEF sd, q
    <3> QED BY <1>1, <1>2, <1>4, <2>1, <2>2, <2>3, <2>4, <2>5
  <2>10. ASSUME c.slots[t].next # NIL
         PROVE  LET n == c.slots[t].next
                IN  Live(c, n) /\ SameLevel(c, t, n) /\ c.slots[n].prev = t
    <3>1. CASE t = tail
      BY <1>3, <1>7, <2>3, <2>4, <3>1 DEF SameLevel
    <3>2. CASE t # tail
      BY SMTT(30), <1>3, <1>7, <2>1, <2>2, <2>3, <2>8, <2>10, <3>2 DEF SameLevel
    <3> QED BY <3>1, <3>2
  <2>11. ASSUME c.slots[t].prev # NIL
         PROVE  LET n == c.slots[t].prev
                IN  Live(c, n) /\ SameLevel(c, t, n) /\ c.slots[n].next = t
    BY <1>3, <1>7, <2>1, <2>2, <2>3, <2>7, <2>8, <2>11 DEF SameLevel
  <2> QED BY <2>3, <2>9, <2>10, <2>11
<1> QED BY <1>6, <1>7

\* Tail, head and bit follow a slot that comes to the end of a queue.
LEMMA EnteringKeepsEnds ==
  ASSUME NEW b \in Shapes, NEW c \in Shapes, EndsAgree(b),
         NEW s \in Slots, ~Live(b, s), NEW side \in Sides, NEW p \in Ticks,
         Enters(b, c, s, side, p)
  PROVE  EndsAgree(c)
<1> SUFFICES ASSUME NEW sd \in Sides, NEW q \in Ticks
             PROVE  LET level == c.levels[sd][q]
                    IN  /\ level.head # NIL => /\ InLevel(c, level.head, sd, q)
                                               /\ c.slots[level.head].prev = NIL
                        /\ level.tail # NIL => /\ InLevel(c, level.tail, sd, q)
                                               /\ c.slots[level.tail].next = NIL
                        /\ (level.head = NIL) <=> (level.tail = NIL)
                        /\ Bit(c, sd, q) <=> level.head # NIL
  BY DEF EndsAgree
<1> DEFINE head == b.levels[sd][q].head
           tail == b.levels[sd][q].tail
           last == b.levels[side][p].tail
<1>1. /\ NIL \notin Slots /\ head \in Slots \cup {NIL} /\ tail \in Slots \cup {NIL}
      /\ last \in Slots \cup {NIL}
  BY LevelFacts, TicksFit
<1>2. /\ head # NIL => InLevel(b, head, sd, q) /\ b.slots[head].prev = NIL
      /\ tail # NIL => InLevel(b, tail, sd, q) /\ b.slots[tail].next = NIL
      /\ (head = NIL) <=> (tail = NIL)
      /\ Bit(b, sd, q) <=> head # NIL
      /\ last # NIL => InLevel(b, last, side, p)
  BY DEF EndsAgree
<1>3. \A i \in Slots :
        /\ Live(c, i) <=> Live(b, i) \/ i = s
        /\ c.slots[i].side = IF i = s THEN side ELSE b.slots[i].side
        /\ c.slots[i].price = IF i = s THEN p ELSE b.slots[i].price
        /\ c.slots[i].prev = IF i = s THEN last ELSE b.slots[i].prev
        /\ c.slots[i].next = IF i = s THEN NIL ELSE IF i = last THEN s
                             ELSE b.slots[i].next
  BY DEF Enters
<1>4. IF sd = side /\ q = p
      THEN /\ c.levels[sd][q].head = IF tail = NIL THEN s ELSE head
           /\ c.levels[sd][q].tail = s
           /\ Bit(c, sd, q)
           /\ last = tail
      ELSE /\ c.levels[sd][q].head = head
           /\ c.levels[sd][q].tail = tail
           /\ Bit(c, sd, q) <=> Bit(b, sd, q)
  BY DEF Enters
<1>5. /\ head # s /\ tail # s
      /\ (sd # side \/ q # p) => (tail # NIL => tail # last)
  BY <1>1, <1>2 DEF InLevel
<1> HIDE DEF head, tail, last
<1>6. CASE sd = side /\ q = p
  BY ZenonT(40), <1>1, <1>2, <1>3, <1>4, <1>5, <1>6 DEF InLevel
<1>7. CASE ~(sd = side /\ q = p)
  BY <1>1, <1>2, <1>3, <1>4, <1>5, <1>7 DEF InLevel
<1> QED BY <1>6, <1>7

\* The book in which the taker rests.
RestedIn(b) ==
  LevelPush([Alloc(b) EXCEPT !.slots[Last(b.free)] = WithTaker(@)],
            taker.side, Limit, Last(b.free))

\* A slot that is written over with what is left of the taker keeps its generation
\* and its links.
LEMMA TakenFacts ==
  ASSUME NEW x \in SlotTypes, taker.side \in Sides, Limit \in Ticks,
         taker.remaining \in Nat, taker.account \in Accounts
  PROVE  LET y == WithTaker(x)
         IN  /\ y \in SlotTypes
             /\ y.generation = x.generation /\ y.prev = x.prev /\ y.next = x.next
             /\ y.remaining = taker.remaining /\ y.filled = 0
             /\ y.account = taker.account
             /\ y.side = taker.side /\ y.price = Limit
<1> DEFINE rm == taker.remaining
           ac == taker.account
           sd == taker.side
           y  == WithTaker(x)
<1>1. y = [x EXCEPT !.remaining = rm, !.filled = 0, !.account = ac,
                    !.price = Limit, !.side = sd]
  BY DEF WithTaker
<1>2. rm \in Nat /\ ac \in Accounts /\ sd \in Sides
  OBVIOUS
<1> HIDE DEF rm, ac, sd, y
<1>3. /\ y \in SlotTypes
      /\ y.generation = x.generation /\ y.prev = x.prev /\ y.next = x.next
      /\ y.remaining = rm /\ y.filled = 0 /\ y.account = ac
      /\ y.side = sd /\ y.price = Limit
  BY <1>1, <1>2 DEF SlotTypes
<1> QED BY <1>3 DEF rm, ac, sd, y

\* What RestedIn(b) does to each field of the book.
LEMMA RestedFields ==
  ASSUME NEW b \in Shapes, b.free # <<>>, taker.side \in Sides, Limit \in Ticks,
         taker.remaining \in Nat, taker.account \in Accounts
  PROVE  LET c     == RestedIn(b)
             s     == Last(b.free)
             side  == taker.side
             p     == Limit
             level == b.levels[side][p]
         IN  /\ c \in Shapes /\ s \in Slots
             /\ c.live = b.live + 1 /\ c.retired = b.retired
             /\ c.free = Front(b.free)
             /\ c.slots[s].generation = b.slots[s].generation + 1
             /\ c.slots[s].remaining = taker.remaining
             /\ c.slots[s].filled = 0
             /\ c.slots[s].account = taker.account
             /\ \A i \in Slots :
                  /\ i # s => /\ c.slots[i].generation = b.slots[i].generation
                              /\ c.slots[i].remaining = b.slots[i].remaining
                              /\ c.slots[i].filled = b.slots[i].filled
                              /\ c.slots[i].account = b.slots[i].account
                  /\ c.slots[i].side = IF i = s THEN side ELSE b.slots[i].side
                  /\ c.slots[i].price = IF i = s THEN p ELSE b.slots[i].price
                  /\ c.slots[i].prev = IF i = s THEN level.tail ELSE b.slots[i].prev
                  /\ c.slots[i].next = IF i = s THEN NIL ELSE IF i = level.tail THEN s
                                       ELSE b.slots[i].next
             /\ \A sd \in Sides, q \in Ticks :
                  IF sd = side /\ q = p
                  THEN /\ c.levels[sd][q].head =
                            IF level.tail = NIL THEN s ELSE level.head
                       /\ c.levels[sd][q].tail = s
                       /\ Bit(c, sd, q) <=> level.tail = NIL \/ Bit(b, sd, q)
                  ELSE /\ c.levels[sd][q].head = b.levels[sd][q].head
                       /\ c.levels[sd][q].tail = b.levels[sd][q].tail
                       /\ Bit(c, sd, q) <=> Bit(b, sd, q)
             /\ TotalIs(b, c, side, p, level.total + taker.remaining)
<1> DEFINE c     == RestedIn(b)
           s     == Last(b.free)
           side  == taker.side
           p     == Limit
           level == b.levels[side][p]
           a     == Alloc(b)
           d     == [a EXCEPT !.slots[s] = WithTaker(@)]
           g     == b.slots[s].generation
<1>1. /\ s \in Slots /\ Front(b.free) \in Seq(Slots)
      /\ side \in Sides /\ p \in Ticks
      /\ level.head \in Links /\ level.tail \in Links /\ level.total \in Int
      /\ b.bits[side] \in Words
  BY FrontLast, LevelFacts DEF Shapes, Links
<1>2. /\ a.slots = WithGeneration(b.slots, s, g + 1)
      /\ a.live = b.live + 1 /\ a.free = Front(b.free)
      /\ a.retired = b.retired /\ a.levels = b.levels /\ a.bits = b.bits
      /\ a \in Shapes
  <2>1. a = [b EXCEPT !.free = Front(@), !.slots[s].generation = @ + 1,
                      !.live = @ + 1]
    BY DEF Alloc
  <2>2. g + 1 \in Nat /\ b.live + 1 \in Nat
    BY SMTT(30), <1>1, SlotFacts DEF Shapes
  <2> HIDE DEF a, s
  <2>3. /\ a.live = b.live + 1 /\ a.free = Front(b.free)
        /\ a.retired = b.retired /\ a.levels = b.levels /\ a.bits = b.bits
        /\ a.slots = [b.slots EXCEPT ![s].generation = @ + 1]
    BY <2>1 DEF Shapes
  <2>4. a.slots = WithGeneration(b.slots, s, g + 1)
    BY <2>3 DEF WithGeneration
  <2>5. a.slots \in [Slots -> SlotTypes]
    BY SMTT(30), <1>1, <2>2, <2>4, Regenerated DEF Shapes
  <2>6. a \in Shapes
    BY <1>1, <2>1, <2>2, <2>3, <2>5 DEF Shapes
  <2> QED BY <2>3, <2>4, <2>6
<1>3. /\ \A i \in Slots : a.slots[i] \in SlotTypes
      /\ a.slots[s].generation = g + 1
      /\ \A i \in Slots :
           /\ i # s => a.slots[i].generation = b.slots[i].generation
           /\ a.slots[i].prev = b.slots[i].prev /\ a.slots[i].next = b.slots[i].next
           /\ a.slots[i].remaining = b.slots[i].remaining
           /\ a.slots[i].filled = b.slots[i].filled
           /\ a.slots[i].account = b.slots[i].account
           /\ a.slots[i].side = b.slots[i].side
           /\ a.slots[i].price = b.slots[i].price
  <2>1. g + 1 \in Nat /\ b.slots \in [Slots -> SlotTypes]
    BY <1>1, SlotFacts DEF Shapes
  <2> HIDE DEF a, s, g
  <2>2. s \in Slots
    BY <1>1
  <2>3. a.slots = WithGeneration(b.slots, s, g + 1) /\ a.slots \in [Slots -> SlotTypes]
    BY <1>2 DEF Shapes
  <2> DEFINE h == g + 1
             bs == b.slots
             as == a.slots
  <2>4. as = WithGeneration(bs, s, h)
    BY <2>3
  <2>5. h \in Nat /\ bs \in [Slots -> SlotTypes]
    BY <2>1
  <2> HIDE DEF h, bs, as
  <2>6. as[s].generation = h /\ as \in [Slots -> SlotTypes]
    BY <2>2, <2>4, <2>5, Regenerated
  <2>7. \A i \in Slots :
          /\ i # s => as[i].generation = bs[i].generation
          /\ as[i].prev = bs[i].prev /\ as[i].next = bs[i].next
          /\ as[i].remaining = bs[i].remaining
          /\ as[i].filled = bs[i].filled /\ as[i].account = bs[i].account
          /\ as[i].side = bs[i].side /\ as[i].price = bs[i].price
    BY <2>2, <2>4, <2>5, Regenerated
  <2> QED BY <2>6, <2>7 DEF as, bs, h
<1>4. /\ d.live = a.live /\ d.free = a.free /\ d.retired = a.retired
      /\ d.levels = a.levels /\ d.bits = a.bits
      /\ \A i \in Slots :
           d.slots[i] = IF i = s THEN WithTaker(a.slots[s]) ELSE a.slots[i]
      /\ d \in Shapes
  <2> DEFINE new == WithTaker(a.slots[s])
  <2>1. new \in SlotTypes
    BY <1>1, <1>3, TakenFacts
  <2>2. d = [a EXCEPT !.slots[s] = new]
    OBVIOUS
  <2> HIDE DEF d, a, s, new
  <2>3. /\ d.live = a.live /\ d.free = a.free /\ d.retired = a.retired
        /\ d.levels = a.levels /\ d.bits = a.bits
        /\ d.slots = [a.slots EXCEPT ![s] = new]
    BY <1>2, <2>2 DEF Shapes
  <2>4. d.slots \in [Slots -> SlotTypes]
    BY <1>1, <1>2, <2>1, <2>3 DEF Shapes
  <2>5. d \in Shapes
    BY <1>2, <2>2, <2>3, <2>4 DEF Shapes
  <2>6. \A i \in Slots : d.slots[i] = IF i = s THEN new ELSE a.slots[i]
    BY <1>1, <1>2, <2>3 DEF Shapes
  <2> QED BY <2>3, <2>5, <2>6 DEF new
<1>5. /\ d.levels[side][p] = level /\ d.bits[side] = b.bits[side]
      /\ d.levels = b.levels /\ d.bits = b.bits
  BY <1>2, <1>4
<1> DEFINE first  == level.tail = NIL
           slots  == Appended(d.slots, level.tail, s)
           new    == [head  |-> IF first THEN s ELSE level.head,
                      tail  |-> s,
                      total |-> level.total + d.slots[s].remaining]
           levels == [b.levels EXCEPT ![side][p] = new]
           bits   == [b.bits EXCEPT ![side] =
                        IF first THEN SetBit(b.bits[side], p) ELSE b.bits[side]]
<1>6. \A i \in Slots :
        /\ slots[i] \in SlotTypes
        /\ slots[i].generation = d.slots[i].generation
        /\ slots[i].remaining = d.slots[i].remaining
        /\ slots[i].filled = d.slots[i].filled
        /\ slots[i].account = d.slots[i].account
        /\ slots[i].side = d.slots[i].side
        /\ slots[i].price = d.slots[i].price
        /\ slots[i].prev = IF i = s THEN level.tail ELSE d.slots[i].prev
        /\ slots[i].next = IF i = s THEN NIL ELSE IF i = level.tail THEN s
                           ELSE d.slots[i].next
  <2> SUFFICES ASSUME NEW i \in Slots
               PROVE  /\ slots[i] \in SlotTypes
                      /\ slots[i].generation = d.slots[i].generation
                      /\ slots[i].remaining = d.slots[i].remaining
                      /\ slots[i].filled = d.slots[i].filled
                      /\ slots[i].account = d.slots[i].account
                      /\ slots[i].side = d.slots[i].side
                      /\ slots[i].price = d.slots[i].price
                      /\ slots[i].prev = IF i = s THEN level.tail
                                         ELSE d.slots[i].prev
                      /\ slots[i].next = IF i = s THEN NIL
                                         ELSE IF i = level.tail THEN s
                                         ELSE d.slots[i].next
    OBVIOUS
  <2> DEFINE x  == d.slots[i]
             tail == level.tail
             pv == IF i = s THEN tail ELSE x.prev
             nx == IF i = s THEN NIL ELSE IF i = tail THEN s ELSE x.next
  <2>1. x \in SlotTypes /\ x.prev \in Links /\ x.next \in Links
    <3>1. x \in SlotTypes
      BY <1>4 DEF Shapes
    <3> HIDE DEF x
    <3> QED BY <3>1 DEF SlotTypes
  <2>2. slots[i] = Linked(x, pv, nx)
    BY DEF Appended
  <2>3. s \in Links /\ NIL \in Links /\ tail \in Links
    BY <1>1 DEF Links
  <2>4. pv \in Links /\ nx \in Links
    <3> HIDE DEF tail, x, s
    <3> QED BY <2>1, <2>3
  <2> HIDE DEF pv, nx, x, slots
  <2>5. /\ slots[i] \in SlotTypes
        /\ slots[i].prev = pv /\ slots[i].next = nx
        /\ slots[i].generation = x.generation
        /\ slots[i].remaining = x.remaining
        /\ slots[i].filled = x.filled /\ slots[i].account = x.account
        /\ slots[i].side = x.side /\ slots[i].price = x.price
    BY <2>1, <2>2, <2>4, Relinked
  <2> QED BY <2>5 DEF pv, nx, x
<1>7. slots \in [Slots -> SlotTypes]
  <2>1. slots = [i \in Slots |-> slots[i]]
    BY DEF Appended
  <2> HIDE DEF slots
  <2> QED BY <1>6, <2>1
<1>8. levels \in [Sides -> [Ticks -> LevelTypes]] /\ bits \in [Sides -> Words]
  <2>1. b.levels \in [Sides -> [Ticks -> LevelTypes]] /\ b.bits \in [Sides -> Words]
    BY DEF Shapes
  <2>2. s \in Links /\ d.slots[s].remaining \in Int
    <3>1. d.slots[s] \in SlotTypes
      BY <1>1, <1>4 DEF Shapes
    <3> HIDE DEF s, d
    <3> QED BY <1>1, <3>1 DEF Links, SlotTypes
  <2>3. new \in LevelTypes
    <3> HIDE DEF s, d, level
    <3> QED BY <1>1, <2>2 DEF LevelTypes
  <2>4. SetBit(b.bits[side], p) \in Words
    BY <1>1, OneBit
  <2> HIDE DEF new, first, side, p
  <2> QED BY <1>1, <2>1, <2>3, <2>4
<1>9. /\ c.slots = slots /\ c.levels = levels /\ c.bits = bits
      /\ c.live = d.live /\ c.free = d.free /\ c.retired = d.retired
      /\ c \in Shapes
  <2>1. c = [d EXCEPT !.slots = slots, !.levels[side][p] = new,
                      !.bits[side] = IF first THEN SetBit(b.bits[side], p)
                                     ELSE b.bits[side]]
    <3>1. c = LevelPush(d, side, p, s)
      BY DEF RestedIn
    <3> DEFINE lv == d.levels[side][p]
    <3>2. c = [d EXCEPT
                 !.slots = Appended(d.slots, lv.tail, s),
                 !.levels[side][p] = [head  |-> IF lv.tail = NIL THEN s ELSE lv.head,
                                      tail  |-> s,
                                      total |-> lv.total + d.slots[s].remaining],
                 !.bits[side] = IF lv.tail = NIL THEN SetBit(d.bits[side], p)
                                ELSE d.bits[side]]
      <4> HIDE DEF c, d, side, p, s
      <4> QED BY <3>1 DEF LevelPush
    <3>3. lv = level /\ d.bits[side] = b.bits[side]
      BY <1>5
    <3> HIDE DEF c, d, side, p, s, lv, level
    <3> QED BY <3>2, <3>3
  <2>2. c = [d EXCEPT !.slots = slots, !.levels = levels, !.bits = bits]
    <3> HIDE DEF slots, new, first, side, p, d, c
    <3> QED BY <1>4, <1>5, <2>1 DEF Shapes
  <2> HIDE DEF c, slots, levels, bits, d
  <2> QED BY <1>4, <1>7, <1>8, <2>2 DEF Shapes
<1>10. ASSUME NEW sd \in Sides, NEW q \in Ticks
       PROVE  IF sd = side /\ q = p
              THEN /\ c.levels[sd][q].head = IF first THEN s ELSE level.head
                   /\ c.levels[sd][q].tail = s
                   /\ Bit(c, sd, q) <=> first \/ Bit(b, sd, q)
              ELSE /\ c.levels[sd][q].head = b.levels[sd][q].head
                   /\ c.levels[sd][q].tail = b.levels[sd][q].tail
                   /\ Bit(c, sd, q) <=> Bit(b, sd, q)
  <2> DEFINE head  == IF first THEN s ELSE level.head
             total == level.total + d.slots[s].remaining
             words == b.bits[side]
  <2>1. levels = [b.levels EXCEPT ![side][p] =
                    [head |-> head, tail |-> s, total |-> total]]
    OBVIOUS
  <2>2. b.levels \in [Sides -> [Ticks -> LevelTypes]] /\ b.bits \in [Sides -> Words]
    BY DEF Shapes
  <2>3. \A x \in Ticks :
          x % WordBits \in SetBit(words, p)[x \div WordBits] <=>
            x = p \/ x % WordBits \in words[x \div WordBits]
    BY <1>1, OneBit
  <2>4. bits = [b.bits EXCEPT ![side] = IF first THEN SetBit(words, p) ELSE words]
    OBVIOUS
  <2>5. words = b.bits[side]
    OBVIOUS
  <2> HIDE DEF c, levels, bits, first, head, total, words, side, p, s, d
  <2>6. IF sd = side /\ q = p
        THEN c.levels[sd][q].head = head /\ c.levels[sd][q].tail = s
        ELSE /\ c.levels[sd][q].head = b.levels[sd][q].head
             /\ c.levels[sd][q].tail = b.levels[sd][q].tail
    BY <1>1, <1>9, <2>1, <2>2
  <2>7. /\ sd = side => c.bits[sd] = IF first THEN SetBit(words, p) ELSE words
        /\ sd # side => c.bits[sd] = b.bits[sd]
    BY <1>1, <1>9, <2>2, <2>4
  <2>8. IF sd = side /\ q = p
        THEN Bit(c, sd, q) <=> first \/ Bit(b, sd, q)
        ELSE Bit(c, sd, q) <=> Bit(b, sd, q)
    BY <2>3, <2>5, <2>7 DEF Bit
  <2> QED BY <2>6, <2>8 DEF head
<1>11. /\ c.live = b.live + 1 /\ c.retired = b.retired /\ c.free = Front(b.free)
  <2> HIDE DEF c, d, a
  <2> QED BY <1>2, <1>4, <1>9
<1>12. /\ WithTaker(a.slots[s]).generation = g + 1
       /\ WithTaker(a.slots[s]).remaining = taker.remaining
       /\ WithTaker(a.slots[s]).filled = 0
       /\ WithTaker(a.slots[s]).account = taker.account
       /\ WithTaker(a.slots[s]).side = side
       /\ WithTaker(a.slots[s]).price = p
       /\ WithTaker(a.slots[s]).prev = b.slots[s].prev
       /\ WithTaker(a.slots[s]).next = b.slots[s].next
  BY <1>1, <1>3, TakenFacts
<1>13. /\ c.slots[s].generation = g + 1
       /\ c.slots[s].remaining = taker.remaining
       /\ c.slots[s].filled = 0
       /\ c.slots[s].account = taker.account
       /\ \A i \in Slots :
            /\ i # s => /\ c.slots[i].generation = b.slots[i].generation
                        /\ c.slots[i].remaining = b.slots[i].remaining
                        /\ c.slots[i].filled = b.slots[i].filled
                        /\ c.slots[i].account = b.slots[i].account
            /\ c.slots[i].side = IF i = s THEN side ELSE b.slots[i].side
            /\ c.slots[i].price = IF i = s THEN p ELSE b.slots[i].price
            /\ c.slots[i].prev = IF i = s THEN level.tail ELSE b.slots[i].prev
            /\ c.slots[i].next = IF i = s THEN NIL ELSE IF i = level.tail THEN s
                                 ELSE b.slots[i].next
  <2> DEFINE tk == WithTaker(a.slots[s])
             rm == taker.remaining
             ac == taker.account
  <2>1. /\ tk.generation = g + 1 /\ tk.remaining = rm
        /\ tk.filled = 0 /\ tk.account = ac
        /\ tk.side = side /\ tk.price = p
    BY <1>12
  <2>2. \A i \in Slots : d.slots[i] = IF i = s THEN tk ELSE a.slots[i]
    BY <1>4
  <2>3. c.slots = slots /\ s \in Slots
    BY <1>1, <1>9
  <2> HIDE DEF c, d, a, s, side, p, level, slots, g, tk, rm, ac
  <2>4. /\ c.slots[s].generation = g + 1 /\ c.slots[s].remaining = rm
        /\ c.slots[s].filled = 0 /\ c.slots[s].account = ac
    BY <1>6, <2>1, <2>2, <2>3
  <2>5. \A i \in Slots :
          /\ i # s => d.slots[i] = a.slots[i]
          /\ i = s => d.slots[i] = tk
    BY <2>2
  <2>6. ASSUME NEW i \in Slots
        PROVE  /\ i # s => /\ c.slots[i].generation = b.slots[i].generation
                           /\ c.slots[i].remaining = b.slots[i].remaining
                           /\ c.slots[i].filled = b.slots[i].filled
                           /\ c.slots[i].account = b.slots[i].account
               /\ c.slots[i].side = IF i = s THEN side ELSE b.slots[i].side
               /\ c.slots[i].price = IF i = s THEN p ELSE b.slots[i].price
               /\ c.slots[i].prev = IF i = s THEN level.tail ELSE b.slots[i].prev
               /\ c.slots[i].next = IF i = s THEN NIL ELSE IF i = level.tail THEN s
                                    ELSE b.slots[i].next
    <3>1. /\ c.slots[i].generation = d.slots[i].generation
          /\ c.slots[i].remaining = d.slots[i].remaining
          /\ c.slots[i].filled = d.slots[i].filled
          /\ c.slots[i].account = d.slots[i].account
          /\ c.slots[i].side = d.slots[i].side
          /\ c.slots[i].price = d.slots[i].price
          /\ c.slots[i].prev = IF i = s THEN level.tail ELSE d.slots[i].prev
          /\ c.slots[i].next = IF i = s THEN NIL ELSE IF i = level.tail THEN s
                               ELSE d.slots[i].next
      BY <1>6, <2>3
    <3> QED BY <1>3, <2>1, <2>5, <3>1
  <2> QED BY <2>4, <2>6 DEF rm, ac
<1>14. TotalIs(b, c, side, p, level.total + taker.remaining)
  <2> DEFINE head  == IF first THEN s ELSE level.head
             total == level.total + d.slots[s].remaining
  <2>1. levels = [b.levels EXCEPT ![side][p] =
                    [head |-> head, tail |-> s, total |-> total]]
    OBVIOUS
  <2>2. b.levels \in [Sides -> [Ticks -> LevelTypes]]
    BY DEF Shapes
  <2>3. d.slots[s].remaining = taker.remaining
    BY <1>1, <1>4, <1>12
  <2>4. total = level.total + taker.remaining
    BY <2>3
  <2> HIDE DEF c, levels, head, total, side, p, s, d
  <2>5. TotalIs(b, c, side, p, total)
    BY <1>1, <1>9, <2>1, <2>2 DEF TotalIs
  <2> QED BY <2>4, <2>5
<1> QED BY <1>1, <1>9, <1>10, <1>11, <1>13, <1>14

\* The slot popped from the free stack is counted as live.
LEMMA AllocCounts ==
  ASSUME NEW b \in Shapes, NEW c \in Shapes, Counted(b), b.free # <<>>,
         NEW s \in Slots, s = Last(b.free),
         c.live = b.live + 1, c.retired = b.retired, c.free = Front(b.free),
         c.slots[s].generation = b.slots[s].generation + 1,
         \A i \in Slots : i # s => c.slots[i].generation = b.slots[i].generation,
         \A i \in Slots :
           i # s /\ ~Live(b, i) /\ b.slots[i].prev = NIL /\ b.slots[i].next = NIL =>
             c.slots[i].prev = NIL /\ c.slots[i].next = NIL
  PROVE  Counted(c) /\ ~Live(b, s) /\ \A i \in Slots : Live(c, i) <=> Live(b, i) \/ i = s
<1> DEFINE g == b.slots[s].generation
           n == Len(b.free)
<1>1. /\ n \in Nat /\ n >= 1 /\ DOMAIN b.free = 1 .. n
      /\ Front(b.free) \in Seq(Slots) /\ Len(Front(b.free)) = n - 1
      /\ DOMAIN Front(b.free) = 1 .. n - 1
      /\ \A i \in 1 .. n - 1 : Front(b.free)[i] = b.free[i]
      /\ s = b.free[n]
      /\ \A i \in 1 .. n : b.free[i] \in Slots
  <2>1. b.free \in Seq(Slots)
    BY DEF Shapes
  <2>2. Front(b.free) \in Seq(Slots) /\ Len(Front(b.free)) = n - 1
    BY <2>1, FrontLast
  <2>3. DOMAIN Front(b.free) = 1 .. n - 1
    BY <2>2, LenProperties
  <2> QED BY <2>1, <2>2, <2>3, FrontLast, LenProperties
<1>2. \A i \in 1 .. n : /\ ~Live(b, b.free[i])
                        /\ b.slots[b.free[i]].prev = NIL
                        /\ b.slots[b.free[i]].next = NIL
                        /\ b.slots[b.free[i]].generation < GenerationLimit
  BY <1>1 DEF Counted
<1>3. n \in 1 .. n /\ \A i \in 1 .. n - 1 : i \in 1 .. n /\ i # n
  BY <1>1
<1>4. ~Live(b, s) /\ g < GenerationLimit /\ g \in Nat
  BY <1>1, <1>2, <1>3, SlotFacts
<1>5. Live(c, s) /\ c.slots[s].generation <= GenerationLimit
  <2>1. g % 2 = 0
    <3>1. g % 2 # 1
      BY <1>4 DEF Live
    <3> HIDE DEF g
    <3> QED BY <1>4, <3>1
  <2>2. c.slots[s].generation = g + 1
    OBVIOUS
  <2> HIDE DEF g
  <2> QED BY <1>4, <2>1, <2>2, Parity, ConfigValid DEF Live
<1>6. \A i \in Slots : Live(c, i) <=> Live(b, i) \/ i = s
  BY <1>5 DEF Live
<1>7. Cardinality(LiveIn(c)) = Cardinality(LiveIn(b)) + 1
  <2>1. LiveIn(c) = LiveIn(b) \cup {s} /\ s \notin LiveIn(b)
    BY <1>4, <1>6 DEF LiveIn
  <2> QED BY ZenonT(40), <2>1, FS_AddElement, LiveSlotsFinite
<1>8. c.live + Len(c.free) + c.retired = Capacity
  <2>1. PICK l \in Nat, r \in Nat, m \in Nat : l = b.live /\ r = b.retired /\ m = n
    BY <1>1 DEF Shapes
  <2>2. l + m + r = Capacity
    BY <2>1 DEF Counted
  <2>3. c.live = l + 1 /\ c.retired = r /\ Len(c.free) = m - 1
    BY <2>1, <1>1
  <2>4. c.live + Len(c.free) + c.retired = l + m + r
    BY <2>3
  <2> QED BY <2>2, <2>4
<1>9. \A i, j \in 1 .. n : b.free[i] = b.free[j] => i = j
  BY <1>1 DEF Counted, IsInjective
<1>10. ASSUME NEW i \in 1 .. n - 1
       PROVE  LET t == c.free[i]
              IN  /\ ~Live(c, t) /\ c.slots[t].prev = NIL /\ c.slots[t].next = NIL
                  /\ c.slots[t].generation < GenerationLimit
  <2>1. PICK t \in Slots : t = b.free[i] /\ t = c.free[i] /\ t # s
    <3> HIDE DEF n
    <3> QED BY <1>1, <1>3, <1>9
  <2>2. /\ ~Live(b, t) /\ b.slots[t].prev = NIL /\ b.slots[t].next = NIL
        /\ b.slots[t].generation < GenerationLimit
    BY <1>2, <1>3, <2>1
  <2> QED BY <1>6, <2>1, <2>2
<1>11. IsInjective(c.free)
  <2> HIDE DEF n
  <2> QED BY <1>1, <1>3, <1>9 DEF IsInjective
<1>12. \A i \in Slots : c.slots[i].generation <= GenerationLimit
  BY <1>5 DEF Counted
<1> QED BY <1>1, <1>4, <1>5, <1>6, <1>7, <1>8, <1>10, <1>11, <1>12 DEF Counted

\* Resting what is left of the taker in the last free slot keeps the book sound.
LEMMA RestIsSound ==
  ASSUME NEW b, Sound(b), b.free # <<>>, taker.side \in Sides, Limit \in Ticks,
         taker.remaining \in Nat, taker.account \in Accounts
  PROVE  LET c == RestedIn(b)
             s == Last(b.free)
         IN  /\ Sound(c) /\ s \in Slots /\ ~Live(b, s)
             /\ \A i \in Slots :
                  /\ Live(c, i) <=> Live(b, i) \/ i = s
                  /\ c.slots[i].remaining =
                       IF i = s THEN taker.remaining ELSE b.slots[i].remaining
<1> DEFINE c     == RestedIn(b)
           s     == Last(b.free)
           side  == taker.side
           p     == Limit
           level == b.levels[side][p]
<1>1. b \in Shapes /\ NeighboursAgree(b) /\ EndsAgree(b) /\ Counted(b)
  BY DEF Sound
<1>2. /\ c \in Shapes /\ s \in Slots
      /\ c.live = b.live + 1 /\ c.retired = b.retired
      /\ c.free = Front(b.free)
      /\ c.slots[s].generation = b.slots[s].generation + 1
      /\ c.slots[s].remaining = taker.remaining
  BY <1>1, RestedFields
<1>3. \A i \in Slots :
        /\ i # s => /\ c.slots[i].generation = b.slots[i].generation
                    /\ c.slots[i].remaining = b.slots[i].remaining
        /\ c.slots[i].side = IF i = s THEN side ELSE b.slots[i].side
        /\ c.slots[i].price = IF i = s THEN p ELSE b.slots[i].price
        /\ c.slots[i].prev = IF i = s THEN level.tail ELSE b.slots[i].prev
        /\ c.slots[i].next = IF i = s THEN NIL ELSE IF i = level.tail THEN s
                             ELSE b.slots[i].next
  BY <1>1, RestedFields
<1>4. \A sd \in Sides, q \in Ticks :
        IF sd = side /\ q = p
        THEN /\ c.levels[sd][q].head = IF level.tail = NIL THEN s ELSE level.head
             /\ c.levels[sd][q].tail = s
             /\ Bit(c, sd, q) <=> level.tail = NIL \/ Bit(b, sd, q)
        ELSE /\ c.levels[sd][q].head = b.levels[sd][q].head
             /\ c.levels[sd][q].tail = b.levels[sd][q].tail
             /\ Bit(c, sd, q) <=> Bit(b, sd, q)
  BY <1>1, RestedFields
<1>5. level.tail # NIL => Bit(b, side, p) /\ Live(b, level.tail)
  BY <1>1 DEF EndsAgree, InLevel
<1> HIDE DEF c
<1>6. Counted(c) /\ ~Live(b, s) /\ \A i \in Slots : Live(c, i) <=> Live(b, i) \/ i = s
  <2>1. ASSUME NEW i \in Slots, i # s, ~Live(b, i),
               b.slots[i].prev = NIL, b.slots[i].next = NIL
        PROVE  c.slots[i].prev = NIL /\ c.slots[i].next = NIL
    <3>1. i # level.tail
      BY <1>5, <2>1, TicksFit
    <3> HIDE DEF s, level
    <3> QED BY <1>3, <2>1, <3>1
  <2> QED BY <1>1, <1>2, <1>3, <2>1, AllocCounts
<1>7. Enters(b, c, s, side, p)
  <2> HIDE DEF s, side, p
  <2> QED BY <1>3, <1>4, <1>5, <1>6 DEF Enters
<1>8. NeighboursAgree(c) /\ EndsAgree(c)
  BY <1>1, <1>2, <1>6, <1>7, EnteringKeepsNeighbours, EnteringKeepsEnds
<1> QED BY <1>2, <1>3, <1>6, <1>8 DEF Sound, c

----------------------------------------------------------------------------
(***************************************************************************)
(* The inductive invariant: between any two steps the book is sound, every *)
(* live slot has something left to trade, and a taker has passed the       *)
(* checks of new_order() or replace().                                     *)
(***************************************************************************)
NothingEmpty(b) == \A s \in Slots : Live(b, s) => b.slots[s].remaining >= 1

TakerChecked ==
  pc \in {"submit", "match"} =>
    /\ taker \in Takers
    /\ taker.kind.price # None => PriceOk(taker.kind.price)

Inv ==
  /\ Sound(book)
  /\ NothingEmpty(book)
  /\ pc \in {"ready", "submit", "match", "done"}
  /\ TakerChecked

\* A new book: all slots free, all levels empty.
LEMMA InitInv == Init => Inv
<1> SUFFICES ASSUME Init
             PROVE  Inv
  OBVIOUS
<1> DEFINE free == [i \in 1 .. Capacity |-> Capacity - i]
<1>1. /\ book.slots = [s \in Slots |-> EmptySlot] /\ book.free = free
      /\ book.retired = 0 /\ book.live = 0
      /\ book.levels = [side \in Sides |-> [p \in Ticks |-> EmptyLevel]]
      /\ book.bits = [side \in Sides |-> [w \in 0 .. WORDS - 1 |-> {}]]
      /\ book = [slots |-> book.slots, free |-> book.free,
                 retired |-> book.retired, live |-> book.live,
                 levels |-> book.levels, bits |-> book.bits]
  BY DEF Init
<1>2. Capacity \in Nat /\ Capacity >= 1 /\ Slots = 0 .. Capacity - 1
      /\ GenerationLimit \in Nat /\ GenerationLimit >= 1
  BY ConfigValid DEF Slots
<1>3. /\ free \in Seq(Slots) /\ Len(free) = Capacity /\ DOMAIN free = 1 .. Capacity
      /\ \A i \in 1 .. Capacity : free[i] = Capacity - i /\ free[i] \in Slots
  <2>1. \A i \in 1 .. Capacity : Capacity - i \in Slots
    BY <1>2
  <2> QED BY <1>2, <2>1
<1>4. \A s \in Slots : book.slots[s] = EmptySlot
  BY <1>1
<1>5. EmptySlot \in SlotTypes
  <2>1. 0 \in Ticks
    BY TicksFit DEF Ticks, MAX_TICKS, WORDS
  <2> QED BY <2>1 DEF EmptySlot, SlotTypes, Links, Sides
<1>6. book \in Shapes
  <2>1. book.slots \in [Slots -> SlotTypes]
    BY <1>1, <1>5
  <2>2. EmptyLevel \in LevelTypes
    BY DEF EmptyLevel, LevelTypes, Links
  <2>3. book.levels \in [Sides -> [Ticks -> LevelTypes]]
    BY <1>1, <2>2
  <2>4. book.bits \in [Sides -> Words]
    BY <1>1 DEF Words
  <2>5. book.free \in Seq(Slots) /\ book.retired \in Nat /\ book.live \in Nat
    <3> HIDE DEF free
    <3> QED BY <1>1, <1>3
  <2> DEFINE b1 == book.slots
             b2 == book.free
             b3 == book.retired
             b4 == book.live
             b5 == book.levels
             b6 == book.bits
  <2>6. book = [slots |-> b1, free |-> b2, retired |-> b3, live |-> b4,
                levels |-> b5, bits |-> b6]
    BY <1>1
  <2> HIDE DEF free, b1, b2, b3, b4, b5, b6
  <2>7. /\ b1 \in [Slots -> SlotTypes] /\ b2 \in Seq(Slots)
        /\ b3 \in Nat /\ b4 \in Nat
        /\ b5 \in [Sides -> [Ticks -> LevelTypes]] /\ b6 \in [Sides -> Words]
    BY <2>1, <2>3, <2>4, <2>5 DEF b1, b2, b3, b4, b5, b6
  <2> QED BY <2>6, <2>7 DEF Shapes
<1>7. \A s \in Slots : ~Live(book, s) /\ book.slots[s].generation = 0
                       /\ book.slots[s].prev = NIL /\ book.slots[s].next = NIL
  <2>1. \A s \in Slots : book.slots[s].generation = 0
                         /\ book.slots[s].prev = NIL /\ book.slots[s].next = NIL
    BY <1>4 DEF EmptySlot
  <2>2. 0 % 2 = 0
    OBVIOUS
  <2> QED BY <2>1, <2>2 DEF Live
<1>8. NeighboursAgree(book) /\ NothingEmpty(book)
  BY <1>7 DEF NeighboursAgree, NothingEmpty
<1>9. EndsAgree(book)
  <2> SUFFICES ASSUME NEW side \in Sides, NEW p \in Ticks
               PROVE  /\ book.levels[side][p].head = NIL
                      /\ book.levels[side][p].tail = NIL
                      /\ ~Bit(book, side, p)
    BY DEF EndsAgree
  <2>1. book.levels[side][p] = EmptyLevel
    BY <1>1
  <2>2. book.bits[side] = [w \in 0 .. WORDS - 1 |-> {}]
    BY <1>1
  <2>3. p \div WordBits \in 0 .. WORDS - 1
    BY TickOfBit
  <2>4. book.bits[side][p \div WordBits] = {}
    BY <2>2, <2>3
  <2> QED BY <2>1, <2>4 DEF EmptyLevel, Bit
<1>10. Counted(book)
  <2>1. LiveIn(book) = {}
    BY <1>7 DEF LiveIn
  <2>2. Cardinality(LiveIn(book)) = 0
    BY <2>1, FS_EmptySet
  <2>3. book.live + Len(book.free) + book.retired = Capacity
    BY <1>1, <1>2, <1>3
  <2>4. \A i, j \in 1 .. Capacity : Capacity - i = Capacity - j => i = j
    BY <1>2
  <2>5. IsInjective(book.free)
    BY <1>1, <1>3, <2>4 DEF IsInjective
  <2>6. \A i \in DOMAIN book.free : book.free[i] \in Slots
    BY <1>1, <1>3
  <2> HIDE DEF free
  <2> QED BY <1>1, <1>2, <1>7, <2>2, <2>3, <2>5, <2>6 DEF Counted
<1> QED BY <1>6, <1>8, <1>9, <1>10 DEF Inv, Sound, TakerChecked, Init

----------------------------------------------------------------------------
\* The bit of the best price leads to a live slot, the first of its queue.
LEMMA HeadOfBest ==
  ASSUME Sound(book), NEW side \in Sides, Best(side) # None
  PROVE  LET p == Best(side)
             s == book.levels[side][p].head
         IN  /\ p \in Ticks /\ s \in Slots /\ InLevel(book, s, side, p)
             /\ book.slots[s].prev = NIL
<1> DEFINE p == Best(side)
           s == book.levels[side][p].head
<1>1. book \in Shapes /\ EndsAgree(book)
  BY DEF Sound
<1>2. p \in Ticks /\ Bit(book, side, p)
  BY <1>1, BestTick
<1> HIDE DEF p
<1>3. s # NIL /\ InLevel(book, s, side, p) /\ book.slots[s].prev = NIL
  BY <1>1, <1>2 DEF EndsAgree
<1>4. s \in Slots
  BY <1>1, <1>2, <1>3, LevelFacts
<1> QED BY <1>2, <1>3, <1>4 DEF p

\* While the loop goes on, Maker is the head of the best level.
LEMMA MakerFacts ==
  ASSUME Inv, Matching
  PROVE  LET p == Best(MakerSide)
         IN  /\ MakerSide \in Sides /\ p \in Ticks /\ p # None
             /\ Maker \in Slots /\ InLevel(book, Maker, MakerSide, p)
             /\ book.slots[Maker].prev = NIL
             /\ book.slots[Maker].remaining \in Nat
             /\ book.slots[Maker].remaining >= 1
             /\ taker \in Takers /\ taker.remaining \in Nat
<1>1. /\ Sound(book) /\ NothingEmpty(book) /\ taker \in Takers
      /\ taker.side \in Sides /\ taker.remaining \in Nat
  BY DEF Inv, TakerChecked, Matching, Takers
<1>2. MakerSide \in Sides
  BY DEF MakerSide, Opposite, Sides
<1>3. Best(MakerSide) # None
  BY DEF Matching, Marketable, MakerSide
<1>4. /\ Best(MakerSide) \in Ticks /\ Maker \in Slots
      /\ InLevel(book, Maker, MakerSide, Best(MakerSide))
      /\ book.slots[Maker].prev = NIL
  BY <1>1, <1>2, <1>3, HeadOfBest DEF Maker
<1>5. book.slots[Maker].remaining \in Nat
  BY <1>1, <1>4, SlotFacts DEF Sound
<1>6. book.slots[Maker].remaining >= 1
  BY <1>1, <1>4 DEF NothingEmpty, InLevel
<1> QED BY <1>1, <1>2, <1>3, <1>4, <1>5, <1>6

\* What submit() was called with.
LEMMA TakerFacts ==
  ASSUME Inv, pc \in {"submit", "match"}
  PROVE  /\ taker.side \in Sides /\ taker.remaining \in Nat
         /\ taker.account \in Accounts /\ taker.kind \in Kinds
         /\ Limit \in Ticks /\ PriceOk(Limit)
<1>1. /\ taker.side \in Sides /\ taker.remaining \in Nat
      /\ taker.account \in Accounts /\ taker.kind \in Kinds
      /\ taker.kind.price # None => PriceOk(taker.kind.price)
  BY DEF Inv, TakerChecked, Takers
<1>2. taker.kind.price \in InputPrices \cup {None}
  BY <1>1 DEF Kinds
<1>3. /\ MinTick \in Nat /\ MaxTick \in Nat /\ MinTick <= MaxTick
      /\ MaxTick < MAX_TICKS /\ InputPrices \subseteq Nat /\ MAX_TICKS \in Nat
  BY ConfigValid, TicksFit, InputsValid DEF MAX_TICKS, WORDS
<1>4. Limit \in Nat /\ PriceOk(Limit)
  <2>1. CASE taker.kind.price # None
    <3>1. Limit = taker.kind.price /\ taker.kind.price \in Nat
      BY <1>2, <1>3, <2>1 DEF Limit, LimitOf
    <3> QED BY <1>1, <2>1, <3>1
  <2>2. CASE taker.kind.price = None
    <3>1. Limit = MaxTick \/ Limit = MinTick
      BY <2>2 DEF Limit, LimitOf
    <3> QED BY <1>3, <3>1 DEF PriceOk
  <2> QED BY <2>1, <2>2
<1>5. Limit \in Ticks
  BY <1>3, <1>4 DEF PriceOk, Ticks
<1> QED BY <1>1, <1>4, <1>5

\* A step that removes a live slot.
LEMMA RemovedInv ==
  ASSUME Inv, NEW s \in Slots, Live(book, s), book' = RemoveSlot(book, s)
  PROVE  Sound(book') /\ NothingEmpty(book')
<1>1. Sound(book) /\ NothingEmpty(book)
  BY DEF Inv
<1>2. /\ Sound(book')
      /\ \A i \in Slots : /\ Live(book', i) <=> Live(book, i) /\ i # s
                          /\ book'.slots[i].remaining = book.slots[i].remaining
  BY <1>1, RemovalIsSound
<1> QED BY <1>1, <1>2 DEF NothingEmpty

\* A step that ends the command.
LEMMA ReturnInv ==
  ASSUME NEW events, Return(events), Sound(book'), NothingEmpty(book')
  PROVE  Inv'
BY DEF Return, Inv, TakerChecked

\* A refusal leaves the book alone and ends the command.
LEMMA RejectInv ==
  ASSUME Inv, NEW reason, Reject(reason)
  PROVE  Inv'
<1>1. book' = book /\ Return(<<Rejected(reason)>>)
  BY DEF Reject
<1> QED BY <1>1, ReturnInv DEF Inv

\* A call of submit() with a taker that has been checked.
LEMMA CallInv ==
  ASSUME NEW account \in Accounts, NEW side \in Sides, NEW qty \in Nat,
         NEW kind \in Kinds, kind.price # None => PriceOk(kind.price),
         CallSubmit(account, side, qty, kind), Sound(book'), NothingEmpty(book')
  PROVE  Inv'
<1>1. /\ pc' = "submit"
      /\ taker' = [account |-> account, side |-> side, kind |-> kind,
                   qty |-> qty, remaining |-> qty]
  BY DEF CallSubmit
<1>2. taker' \in Takers /\ taker'.kind = kind
  BY <1>1 DEF Takers
<1> QED BY <1>1, <1>2 DEF Inv, TakerChecked

\* What lookup() finds is a live slot that the id names.
LEMMA OwnedFacts ==
  ASSUME NEW account, NEW id, NEW s \in Owned(account, id)
  PROVE  /\ s \in Slots /\ Live(book, s) /\ s = SlotOf(id)
         /\ book.slots[s].generation = GenerationOf(id)
         /\ book.slots[s].account = account
BY DEF Owned, IsLive, Live

----------------------------------------------------------------------------
\* new_order() refuses, or calls submit() with what it has checked.
LEMMA NewOrderInv ==
  ASSUME Inv, NEW account \in Accounts, NEW side \in Sides, NEW qty \in Nat,
         NEW kind \in Kinds, NewOrder(account, side, qty, kind)
  PROVE  Inv'
<1>1. ASSUME ~(kind.price # None /\ ~PriceOk(kind.price)),
             CallSubmit(account, side, qty, kind), UNCHANGED <<book, out>>
      PROVE  Inv'
  BY <1>1, CallInv DEF Inv
<1> QED BY <1>1, RejectInv DEF NewOrder

\* cancel() refuses, or removes the slot it finds.
LEMMA CancelInv ==
  ASSUME Inv, NEW account \in Accounts, NEW id, Cancel(account, id)
  PROVE  Inv'
<1>1. ASSUME NEW s \in Owned(account, id), book' = RemoveSlot(book, s),
             Return(<<Cancelled(id, book.slots[s].remaining, "User")>>)
      PROVE  Inv'
  BY <1>1, OwnedFacts, RemovedInv, ReturnInv
<1> QED BY <1>1, RejectInv DEF Cancel

\* reduce() refuses, removes the order or leaves something of it to trade.
LEMMA ReduceInv ==
  ASSUME Inv, NEW account \in Accounts, NEW id, NEW total \in Nat,
         Reduce(account, id, total)
  PROVE  Inv'
<1>1. ASSUME NEW s \in Owned(account, id), ReduceOwned(id, s, total)
      PROVE  Inv'
  <2> DEFINE slot == book.slots[s]
             left == total - slot.filled
  <2>1. s \in Slots /\ Live(book, s)
    BY <1>1, OwnedFacts
  <2>2. slot.filled \in Nat /\ book \in Shapes /\ Sound(book)
    BY <2>1, SlotFacts DEF Inv, Sound
  <2>3. ASSUME total <= slot.filled, book' = RemoveSlot(book, s),
               Return(<<Cancelled(id, slot.remaining, "ReduceToZero")>>)
        PROVE  Inv'
    BY <2>1, <2>3, RemovedInv, ReturnInv
  <2>4. ASSUME slot.filled < total, book' = ReducedInPlace(book, s, left),
               Return(<<Reduced(id, slot.filled, left)>>)
        PROVE  Inv'
    <3>1. left \in Nat /\ left >= 1
      <4> HIDE DEF slot
      <4> QED BY <2>2, <2>4
    <3>2. book' \in Shapes /\ Amends(book, book', s, left, slot.filled)
      BY <2>1, <2>2, <2>4, <3>1, ReducedAmends
    <3>3. /\ Sound(book')
          /\ \A i \in Slots :
               /\ Live(book', i) <=> Live(book, i)
               /\ book'.slots[i].remaining = IF i = s THEN left
                                             ELSE book.slots[i].remaining
      BY <2>1, <2>2, <3>2, AmendIsSound
    <3> HIDE DEF left
    <3>4. NothingEmpty(book')
      BY <3>1, <3>3 DEF NothingEmpty, Inv
    <3> QED BY <2>4, <3>3, <3>4, ReturnInv
  <2> QED BY <1>1, <2>3, <2>4, RejectInv DEF ReduceOwned
<1> QED BY <1>1, RejectInv DEF Reduce

\* replace() refuses, or removes the order and may call submit().
LEMMA ReplaceInv ==
  ASSUME Inv, NEW account \in Accounts, NEW id, NEW price \in InputPrices,
         NEW total \in Nat, NEW post_only \in BOOLEAN,
         Replace(account, id, price, total, post_only)
  PROVE  Inv'
<1>1. ASSUME PriceOk(price), NEW s \in Owned(account, id),
             ReplaceOwned(account, id, s, price, total, post_only)
      PROVE  Inv'
  <2> DEFINE old  == book.slots[s]
             kind == [type |-> IF post_only THEN "PostOnly" ELSE "Gtc",
                      price |-> price]
  <2>1. s \in Slots /\ Live(book, s)
    BY <1>1, OwnedFacts
  <2>2. /\ old.filled \in Nat /\ old.side \in Sides
        /\ kind \in Kinds /\ kind.price = price
    BY <2>1, SlotFacts DEF Inv, Sound, Kinds
  <2>3. ASSUME book' = RemoveSlot(book, s),
               Return(<<Cancelled(id, old.remaining, "Replaced")>>)
        PROVE  Inv'
    BY <2>1, <2>3, RemovedInv, ReturnInv
  <2>4. ASSUME total > old.filled, book' = RemoveSlot(book, s),
               CallSubmit(account, old.side, total - old.filled, kind)
        PROVE  Inv'
    <3>1. total - old.filled \in Nat
      <4> HIDE DEF old
      <4> QED BY <2>2, <2>4
    <3>2. Sound(book') /\ NothingEmpty(book')
      BY <2>1, <2>4, RemovedInv
    <3> HIDE DEF old, kind
    <3> QED BY <1>1, <2>2, <2>4, <3>1, <3>2, CallInv
  <2> QED BY <1>1, <2>3, <2>4, RejectInv DEF ReplaceOwned
<1> QED BY <1>1, RejectInv DEF Replace, ReplaceRefused

\* submit() up to its loop leaves the book alone.
LEMMA SubmitInv ==
  ASSUME Inv, Submit
  PROVE  Inv'
<1>1. ASSUME pc' = "match", UNCHANGED <<book, taker, out>>
      PROVE  Inv'
  BY <1>1 DEF Inv, TakerChecked, Submit
<1> QED BY <1>1, RejectInv DEF Submit

\* A fill removes its maker or leaves something of it to trade.
LEMMA FillInv ==
  ASSUME Inv, Fill
  PROVE  Inv'
<1> DEFINE s      == Maker
           p      == Best(MakerSide)
           fill   == Min({taker.remaining, book.slots[Maker].remaining})
           left   == book.slots[s].remaining - fill
           filled == FilledIn(book, MakerSide, p, s, fill, left)
<1>1. /\ Sound(book) /\ book \in Shapes /\ NothingEmpty(book)
      /\ MakerSide \in Sides /\ p \in Ticks
      /\ s \in Slots /\ InLevel(book, s, MakerSide, p)
      /\ book.slots[s].remaining \in Nat
      /\ taker \in Takers /\ taker.remaining \in Nat
  BY MakerFacts DEF Fill, Inv, Sound
<1>2. /\ taker' = [taker EXCEPT !.remaining = @ - fill]
      /\ UNCHANGED pc /\ pc = "match"
      /\ \/ left = 0 /\ book' = Release(LevelRemove(filled, MakerSide, p, s), s)
         \/ left > 0 /\ book' = filled
  BY DEF Fill, FilledIn, Matching
<1> DEFINE r == book.slots[s].remaining
<1>3. fill \in Nat /\ left \in Nat /\ taker.remaining - fill \in Nat
  <2>1. fill \in {taker.remaining, r} /\ fill <= taker.remaining /\ fill <= r
    BY <1>1, MinOfTwo
  <2> HIDE DEF fill, r
  <2> QED BY <1>1, <2>1 DEF r
<1> HIDE DEF s, p, fill, left, filled
<1>4. filled \in Shapes /\ Amends(book, filled, s, left, book.slots[s].filled + fill)
  BY <1>1, <1>3, FilledAmends DEF filled
<1>5. /\ Sound(filled)
      /\ \A i \in Slots :
           /\ Live(filled, i) <=> Live(book, i)
           /\ filled.slots[i].remaining = IF i = s THEN left
                                          ELSE book.slots[i].remaining
  BY <1>1, <1>4, AmendIsSound
<1>6. Sound(book') /\ NothingEmpty(book')
  <2>1. CASE left = 0
    <3>1. filled.slots[s].side = MakerSide /\ filled.slots[s].price = p
      BY <1>1, <1>4 DEF Amends, InLevel
    <3>2. book' = RemoveSlot(filled, s)
      BY <1>2, <2>1, <3>1 DEF RemoveSlot
    <3>3. Live(filled, s)
      BY <1>1, <1>5 DEF InLevel
    <3>4. /\ Sound(book')
          /\ \A i \in Slots : /\ Live(book', i) <=> Live(filled, i) /\ i # s
                              /\ book'.slots[i].remaining = filled.slots[i].remaining
      BY <1>1, <1>5, <3>2, <3>3, RemovalIsSound
    <3> QED BY <1>1, <1>5, <3>4 DEF NothingEmpty
  <2>2. CASE left > 0
    <3>1. left >= 1 /\ book' = filled
      BY <1>2, <1>3, <2>2
    <3> QED BY <1>1, <1>5, <3>1 DEF NothingEmpty
  <2> QED BY <1>3, <2>1, <2>2
<1>7. TakerChecked'
  <2>1. taker' \in Takers /\ taker'.kind = taker.kind
    <3> DEFINE rest == taker.remaining - fill
    <3>1. taker' = [taker EXCEPT !.remaining = rest] /\ rest \in Nat
      BY <1>2, <1>3
    <3> HIDE DEF rest
    <3> QED BY <1>1, <3>1 DEF Takers
  <2> QED BY <1>2, <2>1 DEF Inv, TakerChecked
<1> QED BY <1>2, <1>6, <1>7 DEF Inv

\* Self-trade prevention leaves the book alone.
LEMMA SelfTradeInv ==
  ASSUME Inv, SelfTrade
  PROVE  Inv'
<1>1. book' = book /\ \E events : Return(events)
  BY DEF SelfTrade
<1> QED BY <1>1, ReturnInv DEF Inv

\* What is left of the taker goes into a free slot and to the end of its level.
LEMMA RestInv ==
  ASSUME Inv, pc = "match", taker.remaining > 0, Rests(taker.kind), Rest
  PROVE  Inv'
<1> DEFINE s == Last(book.free)
<1>1. /\ book.free # <<>> /\ book' = RestedIn(book)
      /\ \E events : Return(events)
  BY DEF Rest, RestedIn
<1>2. /\ taker.side \in Sides /\ Limit \in Ticks /\ taker.remaining \in Nat
      /\ taker.account \in Accounts /\ Sound(book)
  BY TakerFacts DEF Inv
<1>3. /\ Sound(book')
      /\ \A i \in Slots :
           /\ Live(book', i) <=> Live(book, i) \/ i = s
           /\ book'.slots[i].remaining =
                IF i = s THEN taker.remaining ELSE book.slots[i].remaining
  BY <1>1, <1>2, RestIsSound
<1>4. NothingEmpty(book')
  <2> DEFINE rm == taker.remaining
  <2>1. rm >= 1
    BY <1>2
  <2> HIDE DEF s, rm
  <2> QED BY <1>3, <2>1 DEF NothingEmpty, Inv, rm
<1> QED BY <1>1, <1>3, <1>4, ReturnInv

\* The end of submit(): something rests, or the book is left alone.
LEMMA FinishInv ==
  ASSUME Inv, Finish
  PROVE  Inv'
<1>1. ASSUME book' = book, NEW events, Return(events)
      PROVE  Inv'
  BY <1>1, ReturnInv DEF Inv
<1>2. ASSUME taker.remaining > 0, Rests(taker.kind), Rest
      PROVE  Inv'
  BY <1>2, RestInv DEF Finish
<1> QED BY <1>1, <1>2 DEF Finish

\* Every step keeps the invariant.
LEMMA NextInv == Inv /\ [Next]_vars => Inv'
<1> SUFFICES ASSUME Inv, [Next]_vars
             PROVE  Inv'
  OBVIOUS
<1>1. CASE Command
  <2>1. InputQtys \subseteq Nat /\ InputKinds \subseteq Kinds
    BY InputsValid DEF InputKinds
  <2> QED BY <1>1, <2>1, NewOrderInv, CancelInv, ReduceInv, ReplaceInv DEF Command
<1>2. CASE Submit
  BY <1>2, SubmitInv
<1>3. CASE Fill
  BY <1>3, FillInv
<1>4. CASE SelfTrade
  BY <1>4, SelfTradeInv
<1>5. CASE Finish
  BY <1>5, FinishInv
<1>6. CASE Drain
  BY <1>6 DEF Drain, Inv, TakerChecked
<1>7. CASE UNCHANGED vars
  BY <1>7 DEF vars, Inv, TakerChecked
<1> QED BY <1>1, <1>2, <1>3, <1>4, <1>5, <1>6, <1>7 DEF Next, Running

\* Every reachable book of the production engine is sound: its links, levels,
\* bits, counters and slots agree, between commands and at every turn of the
\* matching loop.
THEOREM InvHolds == Spec => []Inv
<1> QED BY InitInv, NextInv, PTL DEF Spec

\* S1, S3, S4: the live counter counts the live slots, the free stack holds
\* distinct slots that are neither live nor linked, the rest are retired, and
\* no generation passes the limit.
THEOREM SlotsAccountedFor == Spec => []SlotAccounting
<1>1. Inv => SlotAccounting
  <2> SUFFICES ASSUME Inv
               PROVE  SlotAccounting
    OBVIOUS
  <2>1. Counted(book)
    BY DEF Inv, Sound
  <2>2. \A s \in Slots : IsLive(s) <=> Live(book, s)
    BY DEF IsLive, Live
  <2>3. LiveSlots = LiveIn(book)
    BY <2>2 DEF LiveSlots, LiveIn
  <2>4. \A i \in DOMAIN book.free : book.free[i] \in Slots
    BY DEF Inv, Sound, Shapes
  <2> QED BY <2>1, <2>2, <2>3, <2>4 DEF SlotAccounting, Counted
<1> QED BY <1>1, InvHolds, PTL

\* 012: at every turn of the matching loop the bit of the best price leads to
\* a live slot of that side and price with something left to trade.
THEOREM MakersAreLive == Spec => []MakerIsLive
<1>1. Inv => MakerIsLive
  <2> SUFFICES ASSUME Inv, Matching
               PROVE  /\ Maker \in At(MakerSide, Best(MakerSide))
                      /\ book.slots[Maker].remaining > 0
    BY DEF MakerIsLive
  <2> DEFINE p == Best(MakerSide)
             r == book.slots[Maker].remaining
  <2>1. /\ Maker \in Slots /\ InLevel(book, Maker, MakerSide, p)
        /\ r \in Nat /\ r >= 1
    BY MakerFacts
  <2>2. r > 0
    BY <2>1
  <2>3. Maker \in At(MakerSide, p)
    BY <2>1 DEF At, LiveSlots, IsLive, InLevel, Live
  <2> QED BY <2>2, <2>3
<1> QED BY <1>1, InvHolds, PTL
----------------------------------------------------------------------------
(***************************************************************************)
(* The levels: their queues and their totals                               *)
(*                                                                         *)
(* Inv says of a slot and its neighbours that they are linked to each      *)
(* other.  That leaves two things open which are about a whole queue:      *)
(* whether following its links leads through all of it, and whether the    *)
(* total that the level keeps is what its orders add up to.  Both are      *)
(* again shown for the three ways in which a book is written.              *)
(***************************************************************************)

\* What is left of the order in each slot of the book b.
Remaining(b) == [s \in Slots |-> b.slots[s].remaining]

Queue(b, side, p) == {s \in Slots : InLevel(b, s, side, p)}

\* Every level's total is the sum of what is left of its orders.
TotalsAgree(b) ==
  \A side \in Sides, p \in Ticks :
    b.levels[side][p].total = SumFunctionOnSet(Remaining(b), Queue(b, side, p))

\* Every link leads from a slot to one with a greater number.
Numbers(arrival, b) ==
  /\ arrival \in [Slots -> Nat]
  /\ \A s \in Slots :
       Live(b, s) /\ b.slots[s].next # NIL => arrival[s] < arrival[b.slots[s].next]

\* The links do not lead in circles: the slots can be numbered along them.
\* (The book keeps no such numbers; those of arrival would do.)
Ordered(b) == \E arrival : Numbers(arrival, b)

\* There are as many slots as the capacity says.
LEMMA SlotsFinite ==
  /\ IsFiniteSet(Slots) /\ Cardinality(Slots) = Capacity /\ Capacity \in Nat
<1>1. Capacity \in Nat \ {0}
  BY ConfigValid
<1>2. IsFiniteSet(Slots) /\ Cardinality(Slots) = Capacity
  <2> DEFINE last == Capacity - 1
  <2>1. last \in Int /\ 0 \in Int /\ ~(0 > last) /\ last - 0 + 1 = Capacity
    BY <1>1
  <2> HIDE DEF last
  <2>2. IsFiniteSet(0 .. last) /\ Cardinality(0 .. last) = last - 0 + 1
    BY <2>1, FS_Interval
  <2> QED BY <2>1, <2>2 DEF Slots, last
<1> QED BY <1>1, <1>2

\* A queue is finite and what is left of its orders are naturals.
LEMMA QueueFacts ==
  ASSUME NEW b \in Shapes, NEW side, NEW p
  PROVE  /\ IsFiniteSet(Queue(b, side, p)) /\ Queue(b, side, p) \subseteq Slots
         /\ \A s \in Slots : /\ Remaining(b)[s] = b.slots[s].remaining
                             /\ Remaining(b)[s] \in Nat
<1>1. IsFiniteSet(Slots)
  BY SlotsFinite
<1>2. Queue(b, side, p) \subseteq Slots
  BY DEF Queue
<1> QED BY <1>1, <1>2, FS_Subset, SlotFacts DEF Remaining

----------------------------------------------------------------------------
(***************************************************************************)
(* Totals                                                                  *)
(***************************************************************************)
\* An order that leaves takes what is left of it from its level's total.
LEMMA RemovalKeepsTotals ==
  ASSUME NEW b, Sound(b), TotalsAgree(b), NEW s \in Slots, Live(b, s)
  PROVE  TotalsAgree(RemoveSlot(b, s))
<1> DEFINE c     == RemoveSlot(b, s)
           slot  == b.slots[s]
<1>1. b \in Shapes /\ b.live >= 1
  <2>1. s \in LiveIn(b)
    BY DEF LiveIn
  <2>2. Cardinality(LiveIn(b)) # 0
    BY <2>1, LiveSlotsFinite, FS_EmptySet
  <2>3. b.live = Cardinality(LiveIn(b)) /\ b \in Shapes
    BY DEF Sound, Counted
  <2> QED BY <2>2, <2>3, LiveSlotsFinite
<1>0. /\ c \in Shapes /\ LinkedPast(b, c, s)
      /\ TotalIs(b, c, slot.side, slot.price,
                 b.levels[slot.side][slot.price].total - slot.remaining)
  BY <1>1, RemoveSlotFields
<1>2. /\ c \in Shapes
      /\ \A i \in Slots : /\ c.slots[i].remaining = b.slots[i].remaining
                          /\ c.slots[i].side = b.slots[i].side
                          /\ c.slots[i].price = b.slots[i].price
      /\ TotalIs(b, c, slot.side, slot.price,
                 b.levels[slot.side][slot.price].total - slot.remaining)
  BY <1>0 DEF LinkedPast
<1>3. \A i \in Slots : Live(c, i) <=> Live(b, i) /\ i # s
  BY RemovalIsSound
<1> HIDE DEF c
<1>4. Remaining(c) = Remaining(b)
  BY <1>2 DEF Remaining
<1>5. \A side, p : Queue(c, side, p) = Queue(b, side, p) \ {s}
  BY <1>2, <1>3 DEF Queue, InLevel
<1>6. slot.side \in Sides /\ slot.price \in Ticks /\ slot.remaining \in Nat
  BY <1>1, SlotFacts
<1>7. ASSUME NEW side \in Sides, NEW p \in Ticks
      PROVE  c.levels[side][p].total =
               SumFunctionOnSet(Remaining(b), Queue(b, side, p) \ {s})
  <2> DEFINE f == Remaining(b)
             Q == Queue(b, side, p)
             t == b.levels[side][p].total
  <2>1. /\ IsFiniteSet(Q) /\ Q \subseteq Slots
        /\ \A i \in Slots : f[i] = b.slots[i].remaining /\ f[i] \in Nat
        /\ t = SumFunctionOnSet(f, Q) /\ t \in Int
    BY <1>1, QueueFacts, LevelFacts DEF TotalsAgree
  <2>2. s \in Q <=> side = slot.side /\ p = slot.price
    BY DEF Queue, InLevel
  <2> HIDE DEF f, Q
  <2>3. CASE side = slot.side /\ p = slot.price
    <3>1. s \in Q /\ \A i \in Q : f[i] \in Int
      BY <2>1, <2>2, <2>3
    <3>2. t = f[s] + SumFunctionOnSet(f, Q \ {s})
      BY <2>1, <3>1, SumWithout
    <3>3. c.levels[side][p].total = t - f[s]
      BY <1>2, <1>6, <2>1, <2>3 DEF TotalIs
    <3>4. SumFunctionOnSet(f, Q \ {s}) \in Nat
      <4>1. IsFiniteSet(Q \ {s}) /\ \A i \in Q \ {s} : f[i] \in Nat
        BY <2>1, FS_RemoveElement
      <4> QED BY <4>1, SumOfNaturals
    <3>5. f[s] \in Nat
      BY <2>1
    <3> HIDE DEF t
    <3> QED BY <3>2, <3>3, <3>4, <3>5 DEF f, Q
  <2>4. CASE ~(side = slot.side /\ p = slot.price)
    <3>1. Q \ {s} = Q
      BY <2>2, <2>4
    <3>2. c.levels[side][p].total = t
      BY <1>2, <2>4 DEF TotalIs
    <3> QED BY <2>1, <3>1, <3>2 DEF f, Q
  <2> QED BY <2>3, <2>4
<1> QED BY <1>4, <1>5, <1>7 DEF TotalsAgree, c

\* In the book c an order of the book b has other quantities, and its level's
\* total has followed.
Amended(b, c, s) ==
  \E left \in Nat, filled \in Nat :
    LET slot == b.slots[s]
    IN  /\ c \in Shapes /\ Amends(b, c, s, left, filled)
        /\ TotalIs(b, c, slot.side, slot.price,
                   b.levels[slot.side][slot.price].total - (slot.remaining - left))

\* A level's total follows what is left of an order that is amended.
LEMMA AmendmentKeepsTotals ==
  ASSUME NEW b, NEW c, Sound(b), TotalsAgree(b), NEW s \in Slots, Live(b, s),
         Amended(b, c, s)
  PROVE  TotalsAgree(c)
<1> DEFINE slot == b.slots[s]
<1>1. PICK left \in Nat, filled \in Nat :
        /\ c \in Shapes /\ Amends(b, c, s, left, filled)
        /\ TotalIs(b, c, slot.side, slot.price,
                   b.levels[slot.side][slot.price].total - (slot.remaining - left))
  BY DEF Amended
<1>2. b \in Shapes
  BY DEF Sound
<1>3. /\ \A i \in Slots : i # s => c.slots[i] = b.slots[i]
      /\ c.slots[s].remaining = left
      /\ c.slots[s].side = slot.side /\ c.slots[s].price = slot.price
      /\ c.slots[s].generation = slot.generation
  BY <1>1 DEF Amends
<1>4. \A side, p : Queue(c, side, p) = Queue(b, side, p)
  <2>1. \A i \in Slots : \A side, p : InLevel(c, i, side, p) <=> InLevel(b, i, side, p)
    BY <1>3 DEF InLevel, Live
  <2> QED BY <2>1 DEF Queue
<1>5. slot.side \in Sides /\ slot.price \in Ticks /\ slot.remaining \in Nat
  BY <1>2, SlotFacts
<1>6. ASSUME NEW side \in Sides, NEW p \in Ticks
      PROVE  c.levels[side][p].total =
               SumFunctionOnSet(Remaining(c), Queue(b, side, p))
  <2> DEFINE f == Remaining(b)
             g == Remaining(c)
             Q == Queue(b, side, p)
             t == b.levels[side][p].total
  <2>1. /\ IsFiniteSet(Q) /\ Q \subseteq Slots
        /\ \A i \in Slots : f[i] = b.slots[i].remaining /\ f[i] \in Nat
        /\ \A i \in Slots : g[i] = c.slots[i].remaining /\ g[i] \in Nat
        /\ t = SumFunctionOnSet(f, Q) /\ t \in Int
    BY <1>1, <1>2, QueueFacts, LevelFacts DEF TotalsAgree
  <2>2. s \in Q <=> side = slot.side /\ p = slot.price
    BY DEF Queue, InLevel
  <2>3. \A i \in Slots : i # s => f[i] = g[i]
    BY <1>3, <2>1
  <2> HIDE DEF f, g, Q
  <2>4. CASE side = slot.side /\ p = slot.price
    <3>1. /\ s \in Q /\ \A i \in Q : f[i] \in Int /\ g[i] \in Int
          /\ IsFiniteSet(Q \ {s}) /\ \A i \in Q \ {s} : f[i] \in Nat /\ f[i] = g[i]
      BY <2>1, <2>2, <2>3, <2>4, FS_RemoveElement
    <3> DEFINE r == SumFunctionOnSet(f, Q \ {s})
    <3>2. t = f[s] + r
      BY <2>1, <3>1, SumWithout
    <3>3. SumFunctionOnSet(g, Q) = g[s] + SumFunctionOnSet(g, Q \ {s})
      BY <2>1, <3>1, SumWithout
    <3>4. SumFunctionOnSet(g, Q \ {s}) = r /\ r \in Nat
      BY <3>1, SumOfSameValues, SumOfNaturals
    <3>5. c.levels[side][p].total = t - (f[s] - g[s])
      BY <1>1, <1>3, <1>5, <2>1, <2>4 DEF TotalIs
    <3>6. f[s] \in Nat /\ g[s] \in Nat
      BY <2>1
    <3> HIDE DEF t, r
    <3> QED BY <3>2, <3>3, <3>4, <3>5, <3>6 DEF g, Q
  <2>5. CASE ~(side = slot.side /\ p = slot.price)
    <3>1. \A i \in Q : f[i] = g[i]
      BY <2>1, <2>2, <2>3, <2>5
    <3>2. c.levels[side][p].total = t
      BY <1>1, <2>5 DEF TotalIs
    <3>3. SumFunctionOnSet(g, Q) = SumFunctionOnSet(f, Q)
      BY <2>1, <3>1, SumOfSameValues
    <3> QED BY <2>1, <3>2, <3>3 DEF g, Q
  <2> QED BY <2>4, <2>5
<1> QED BY <1>4, <1>6 DEF TotalsAgree

\* An order that rests adds what is left of it to its level's total.
LEMMA RestKeepsTotals ==
  ASSUME NEW b, Sound(b), TotalsAgree(b), b.free # <<>>,
         taker.side \in Sides, Limit \in Ticks,
         taker.remaining \in Nat, taker.account \in Accounts
  PROVE  TotalsAgree(RestedIn(b))
<1> DEFINE c == RestedIn(b)
           s == Last(b.free)
           left == taker.remaining
           at == taker.side
<1>1. b \in Shapes
  BY DEF Sound
<1>2. /\ c \in Shapes /\ s \in Slots
      /\ c.slots[s].remaining = left
      /\ \A i \in Slots :
           /\ i # s => c.slots[i].remaining = b.slots[i].remaining
           /\ c.slots[i].side = IF i = s THEN at ELSE b.slots[i].side
           /\ c.slots[i].price = IF i = s THEN Limit ELSE b.slots[i].price
      /\ TotalIs(b, c, at, Limit, b.levels[at][Limit].total + left)
  BY <1>1, RestedFields
<1>3. ~Live(b, s) /\ \A i \in Slots : Live(c, i) <=> Live(b, i) \/ i = s
  BY RestIsSound
<1> HIDE DEF c, s
<1>4. \A side, p : Queue(c, side, p) =
        IF side = at /\ p = Limit THEN Queue(b, side, p) \cup {s} ELSE Queue(b, side, p)
  BY <1>2, <1>3 DEF Queue, InLevel
<1>5. ASSUME NEW side \in Sides, NEW p \in Ticks
      PROVE  c.levels[side][p].total =
               SumFunctionOnSet(Remaining(c), Queue(c, side, p))
  <2> DEFINE f == Remaining(b)
             g == Remaining(c)
             Q == Queue(b, side, p)
             t == b.levels[side][p].total
  <2>1. /\ IsFiniteSet(Q) /\ Q \subseteq Slots
        /\ \A i \in Slots : f[i] = b.slots[i].remaining /\ f[i] \in Nat
        /\ \A i \in Slots : g[i] = c.slots[i].remaining /\ g[i] \in Nat
        /\ t = SumFunctionOnSet(f, Q) /\ t \in Int
    BY <1>1, <1>2, QueueFacts, LevelFacts DEF TotalsAgree
  <2>2. s \notin Q
    BY <1>3 DEF Queue, InLevel
  <2>3. \A i \in Q : f[i] = g[i]
    BY <1>2, <2>1, <2>2
  <2> HIDE DEF f, g, Q
  <2>4. SumFunctionOnSet(g, Q) = t
    BY <2>1, <2>3, SumOfSameValues
  <2>5. CASE side = at /\ p = Limit
    <3>1. /\ Queue(c, side, p) = Q \cup {s} /\ IsFiniteSet(Q \cup {s})
          /\ s \in Q \cup {s} /\ (Q \cup {s}) \ {s} = Q
          /\ \A i \in Q \cup {s} : g[i] \in Int
      BY <1>2, <1>4, <2>1, <2>2, <2>5, FS_AddElement DEF Q
    <3>2. SumFunctionOnSet(g, Q \cup {s}) = g[s] + SumFunctionOnSet(g, Q)
      BY <3>1, SumWithout
    <3>3. c.levels[side][p].total = t + left /\ g[s] = left
      BY <1>2, <2>1, <2>5 DEF TotalIs
    <3> HIDE DEF t
    <3> QED BY <2>1, <2>4, <3>1, <3>2, <3>3 DEF g
  <2>6. CASE ~(side = at /\ p = Limit)
    BY <1>2, <1>4, <2>4, <2>6 DEF TotalIs, g, Q
  <2> QED BY <2>5, <2>6
<1> QED BY <1>5 DEF TotalsAgree, c

----------------------------------------------------------------------------
(***************************************************************************)
(* The order of the links                                                  *)
(***************************************************************************)
\* The links round an order that leaves lead on to the orders behind it.
LEMMA RemovalKeepsOrder ==
  ASSUME NEW b, Sound(b), Ordered(b), NEW s \in Slots, Live(b, s)
  PROVE  Ordered(RemoveSlot(b, s))
<1> DEFINE c    == RemoveSlot(b, s)
           slot == b.slots[s]
<1>1. b \in Shapes /\ NeighboursAgree(b) /\ b.live >= 1
  <2>1. s \in LiveIn(b)
    BY DEF LiveIn
  <2>2. Cardinality(LiveIn(b)) # 0
    BY <2>1, LiveSlotsFinite, FS_EmptySet
  <2>3. b.live = Cardinality(LiveIn(b)) /\ b \in Shapes /\ NeighboursAgree(b)
    BY DEF Sound, Counted
  <2> QED BY <2>2, <2>3, LiveSlotsFinite
<1>0. LinkedPast(b, c, s)
  BY <1>1, RemoveSlotFields
<1>2. \A i \in Slots :
        c.slots[i].next = IF i = s THEN NIL ELSE IF i = slot.prev THEN slot.next
                          ELSE b.slots[i].next
  BY <1>0 DEF LinkedPast
<1>3. \A i \in Slots : Live(c, i) <=> Live(b, i) /\ i # s
  BY RemovalIsSound
<1> HIDE DEF c
<1>4. PICK arrival : Numbers(arrival, b)
  BY DEF Ordered
<1>5. ASSUME NEW i \in Slots, Live(c, i), c.slots[i].next # NIL
      PROVE  arrival[i] < arrival[c.slots[i].next]
  <2>1. Live(b, i) /\ i # s /\ i # NIL
    BY <1>3, <1>5, TicksFit
  <2>2. CASE i = slot.prev
    <3>1. b.slots[i].next = s /\ slot.next # NIL /\ c.slots[i].next = slot.next
      BY <1>1, <1>2, <1>5, <2>1, <2>2 DEF NeighboursAgree
    <3>2. arrival[i] < arrival[s] /\ arrival[s] < arrival[slot.next]
      BY <1>4, <2>1, <3>1, TicksFit DEF Numbers
    <3>3. slot.next \in Slots
      BY <1>1, <3>1, SlotFacts
    <3>4. arrival[i] \in Nat /\ arrival[s] \in Nat /\ arrival[slot.next] \in Nat
      BY <1>4, <3>3 DEF Numbers
    <3> QED BY <3>1, <3>2, <3>4
  <2>3. CASE i # slot.prev
    BY <1>2, <1>4, <1>5, <2>1, <2>3 DEF Numbers
  <2> QED BY <2>2, <2>3
<1>6. Numbers(arrival, c)
  BY <1>4, <1>5 DEF Numbers
<1> QED BY <1>6 DEF Ordered, c

\* Amending an order moves no link.
LEMMA AmendmentKeepsOrder ==
  ASSUME NEW b, NEW c, Sound(b), Ordered(b), NEW s \in Slots, Amended(b, c, s)
  PROVE  Sound(c) /\ Ordered(c) /\ \A i \in Slots : Live(c, i) <=> Live(b, i)
<1>1. PICK left \in Nat, filled \in Nat : c \in Shapes /\ Amends(b, c, s, left, filled)
  BY DEF Amended
<1>2. Sound(c) /\ \A i \in Slots : Live(c, i) <=> Live(b, i)
  BY <1>1, AmendIsSound
<1>3. \A i \in Slots : c.slots[i].next = b.slots[i].next
  BY <1>1 DEF Amends
<1>4. PICK arrival : Numbers(arrival, b)
  BY DEF Ordered
<1>5. Numbers(arrival, c)
  BY <1>2, <1>3, <1>4 DEF Numbers
<1> QED BY <1>2, <1>5 DEF Ordered

\* An order that rests comes behind all others.
LEMMA RestKeepsOrder ==
  ASSUME NEW b, Sound(b), Ordered(b), b.free # <<>>,
         taker.side \in Sides, Limit \in Ticks,
         taker.remaining \in Nat, taker.account \in Accounts
  PROVE  Ordered(RestedIn(b))
<1> DEFINE c == RestedIn(b)
           s == Last(b.free)
           tail == b.levels[taker.side][Limit].tail
<1>1. b \in Shapes /\ NeighboursAgree(b)
  BY DEF Sound
<1>2. \A i \in Slots :
        c.slots[i].next = IF i = s THEN NIL ELSE IF i = tail THEN s
                          ELSE b.slots[i].next
  BY <1>1, RestedFields
<1>3. s \in Slots /\ ~Live(b, s) /\ \A i \in Slots : Live(c, i) <=> Live(b, i) \/ i = s
  BY RestIsSound
<1> HIDE DEF c, s, tail
<1>4. PICK arrival : Numbers(arrival, b)
  BY DEF Ordered
<1> DEFINE last == SumFunctionOnSet(arrival, Slots)
<1>5. last \in Nat /\ \A i \in Slots : arrival[i] \in Nat /\ arrival[i] <= last
  <2>1. IsFiniteSet(Slots) /\ \A i \in Slots : arrival[i] \in Nat /\ arrival[i] \in Int
    BY <1>4, SlotsFinite DEF Numbers
  <2>2. last \in Nat
    BY <2>1, SumOfNaturals
  <2>3. ASSUME NEW i \in Slots
        PROVE  arrival[i] <= last
    <3> DEFINE rest == SumFunctionOnSet(arrival, Slots \ {i})
    <3>1. last = arrival[i] + rest
      BY <2>1, SumWithout
    <3>2. IsFiniteSet(Slots \ {i}) /\ \A j \in Slots \ {i} : arrival[j] \in Nat
      BY <2>1, FS_RemoveElement
    <3>3. rest \in Nat
      BY <3>2, SumOfNaturals
    <3> HIDE DEF last, rest
    <3> QED BY <2>1, <3>1, <3>3
  <2> QED BY <2>1, <2>2, <2>3
<1> HIDE DEF last
<1> DEFINE after == [arrival EXCEPT ![s] = last + 1]
<1>6. after \in [Slots -> Nat] /\ after[s] = last + 1
      /\ \A i \in Slots : i # s => after[i] = arrival[i]
  BY <1>3, <1>4, <1>5 DEF Numbers
<1> HIDE DEF after
<1>7. ASSUME NEW i \in Slots, Live(c, i), c.slots[i].next # NIL
      PROVE  after[i] < after[c.slots[i].next]
  <2>1. Live(b, i) /\ i # s
    BY <1>2, <1>3, <1>7
  <2>2. CASE i = tail
    BY <1>2, <1>5, <1>6, <2>1, <2>2
  <2>3. CASE i # tail
    <3>1. c.slots[i].next = b.slots[i].next /\ b.slots[i].next # NIL
      BY <1>2, <1>7, <2>1, <2>3
    <3>2. Live(b, b.slots[i].next) /\ b.slots[i].next \in Slots
      BY <1>1, <2>1, <3>1, SlotFacts DEF NeighboursAgree
    <3> QED BY <1>3, <1>4, <1>6, <2>1, <3>1, <3>2 DEF Numbers
  <2> QED BY <2>2, <2>3
<1>8. Numbers(after, c)
  BY <1>6, <1>7 DEF Numbers
<1> QED BY <1>8 DEF Ordered, c

----------------------------------------------------------------------------
(***************************************************************************)
(* The inductive invariant of the levels, on top of Inv                    *)
(***************************************************************************)
LevelInv ==
  /\ TotalsAgree(book)
  /\ Ordered(book)
  /\ pc \notin {"submit", "match"} => taker = None

\* The ways in which a step of the engine may write the book.
Untouched == book' = book

OrderLeaves == \E s \in Slots : Live(book, s) /\ book' = RemoveSlot(book, s)

OrderAmended == \E s \in Slots : Live(book, s) /\ Amended(book, book', s)

OrderUsedUp ==
  \E s \in Slots : \E b : /\ Live(book, s) /\ Amended(book, b, s)
                          /\ book' = RemoveSlot(b, s)

OrderRests ==
  pc = "match" /\ book.free # <<>> /\ book' = RestedIn(book)

BookWritten == Untouched \/ OrderLeaves \/ OrderAmended \/ OrderUsedUp \/ OrderRests

\* A fill takes from its maker and from its level what it trades, and removes
\* the maker if that was all.
LEMMA FillWrites ==
  ASSUME Inv, Fill
  PROVE  OrderAmended \/ OrderUsedUp
<1> DEFINE s      == Maker
           p      == Best(MakerSide)
           r      == book.slots[Maker].remaining
           fill   == Min({taker.remaining, r})
           left   == r - fill
           filled == FilledIn(book, MakerSide, p, s, fill, left)
           after  == book.slots[s].filled + fill
           total  == book.levels[MakerSide][p].total
<1>1. /\ book \in Shapes /\ MakerSide \in Sides /\ p \in Ticks
      /\ s \in Slots /\ InLevel(book, s, MakerSide, p)
      /\ r \in Nat /\ taker.remaining \in Nat /\ book.slots[s].filled \in Nat
  BY MakerFacts, SlotFacts DEF Fill, Inv, Sound
<1>2. \/ left = 0 /\ book' = Release(LevelRemove(filled, MakerSide, p, s), s)
      \/ left > 0 /\ book' = filled
  BY DEF Fill, FilledIn
<1>3. fill \in Nat /\ left \in Nat /\ after \in Nat /\ r - left = fill
  <2>1. fill \in {taker.remaining, r} /\ fill <= r
    BY <1>1, MinOfTwo
  <2> HIDE DEF fill, r
  <2> QED BY <1>1, <2>1
<1> HIDE DEF s, p, fill, left, filled, after, total
<1>4. /\ filled \in Shapes /\ Amends(book, filled, s, left, after)
      /\ TotalIs(book, filled, MakerSide, p, total - fill)
  BY <1>1, <1>3, FilledAmends DEF filled, after, total
<1>5. Live(book, s) /\ Amended(book, filled, s)
  <2>1. /\ book.slots[s].side = MakerSide /\ book.slots[s].price = p /\ Live(book, s)
        /\ book.slots[s].remaining = r
    BY <1>1 DEF InLevel, s
  <2> QED BY <1>3, <1>4, <2>1 DEF Amended, total
<1>6. filled.slots[s].side = MakerSide /\ filled.slots[s].price = p
  BY <1>1, <1>4 DEF Amends, InLevel
<1> QED BY <1>1, <1>2, <1>5, <1>6 DEF RemoveSlot, OrderAmended, OrderUsedUp

\* reduce() leaves the book alone, removes the order or amends it in place.
LEMMA ReduceWrites ==
  ASSUME Inv, NEW account \in Accounts, NEW id \in InputIds,
         NEW total \in InputQtys, Reduce(account, id, total)
  PROVE  BookWritten
<1>1. ASSUME NEW s \in Owned(account, id), ReduceOwned(id, s, total)
      PROVE  BookWritten
  <2> DEFINE slot == book.slots[s]
             left == total - slot.filled
  <2>1. s \in Slots /\ Live(book, s)
    BY <1>1, OwnedFacts
  <2>2. slot.filled \in Nat /\ total \in Nat /\ book \in Shapes
    BY <2>1, SlotFacts, InputsValid DEF Inv, Sound
  <2>3. ASSUME slot.filled < total, book' = ReducedInPlace(book, s, left)
        PROVE  OrderAmended
    <3>1. left \in Nat
      <4> HIDE DEF slot
      <4> QED BY <2>2, <2>3
    <3> HIDE DEF left
    <3>2. /\ book' \in Shapes /\ Amends(book, book', s, left, slot.filled)
          /\ TotalIs(book, book', slot.side, slot.price,
                     book.levels[slot.side][slot.price].total - (slot.remaining - left))
      BY <2>1, <2>2, <2>3, <3>1, ReducedAmends
    <3> QED BY <2>1, <2>2, <3>1, <3>2 DEF Amended, OrderAmended
  <2> QED BY <1>1, <2>1, <2>3 DEF ReduceOwned, Reject, BookWritten, Untouched, OrderLeaves
<1> QED BY <1>1 DEF Reduce, Reject, BookWritten, Untouched

\* Whatever the engine does, it writes the book in one of these ways, and a
\* taker is gone when its command ends.
LEMMA StepWrites ==
  ASSUME Inv, LevelInv, [Next]_vars
  PROVE  /\ BookWritten
         /\ pc' \notin {"submit", "match"} => taker' = None
<1>1. CASE Command
  <2>1. ASSUME NEW account \in Accounts, NEW side, NEW qty, NEW kind,
               NewOrder(account, side, qty, kind)
        PROVE  /\ BookWritten
               /\ pc' \notin {"submit", "match"} => taker' = None
    BY <2>1 DEF NewOrder, Reject, Return, CallSubmit, BookWritten, Untouched
  <2>2. ASSUME NEW account \in Accounts, NEW id \in InputIds, Cancel(account, id)
        PROVE  /\ BookWritten
               /\ pc' \notin {"submit", "match"} => taker' = None
    BY <2>2, OwnedFacts DEF Cancel, Reject, Return, BookWritten, Untouched, OrderLeaves
  <2>3. ASSUME NEW account \in Accounts, NEW id \in InputIds, NEW total \in InputQtys,
               Reduce(account, id, total)
        PROVE  /\ BookWritten
               /\ pc' \notin {"submit", "match"} => taker' = None
    BY <2>3, ReduceWrites DEF Reduce, ReduceOwned, Reject, Return
  <2>4. ASSUME NEW account \in Accounts, NEW id \in InputIds, NEW total \in InputQtys,
               NEW price, NEW post_only, Replace(account, id, price, total, post_only)
        PROVE  /\ BookWritten
               /\ pc' \notin {"submit", "match"} => taker' = None
    BY <2>4, OwnedFacts DEF Replace, ReplaceRefused, ReplaceOwned, Reject, Return,
       CallSubmit, BookWritten, Untouched, OrderLeaves
  <2> QED BY <1>1, <2>1, <2>2, <2>3, <2>4 DEF Command
<1>2. CASE Submit
  BY <1>2 DEF Submit, Reject, Return, BookWritten, Untouched
<1>3. CASE Fill
  <2>1. pc' = "match"
    BY <1>3 DEF Fill, Matching
  <2> QED BY <1>3, <2>1, FillWrites DEF BookWritten
<1>4. CASE SelfTrade
  BY <1>4 DEF SelfTrade, Return, BookWritten, Untouched
<1>5. CASE Finish
  BY <1>5 DEF Finish, Return, Rest, RestedIn, BookWritten, Untouched, OrderRests
<1>6. CASE Drain
  BY <1>6 DEF Drain, BookWritten, Untouched, LevelInv
<1>7. CASE UNCHANGED vars
  BY <1>7 DEF vars, BookWritten, Untouched, LevelInv
<1> QED BY <1>1, <1>2, <1>3, <1>4, <1>5, <1>6, <1>7 DEF Next, Running

\* A new book has no orders.
LEMMA InitLevelInv == Init => LevelInv
<1> SUFFICES ASSUME Init
             PROVE  LevelInv
  OBVIOUS
<1>1. Inv
  BY InitInv
<1>2. \A s \in Slots : ~Live(book, s)
  <2>1. \A s \in Slots : book.slots[s].generation = 0
    BY DEF Init, EmptySlot
  <2> QED BY <2>1 DEF Live
<1>3. ASSUME NEW side \in Sides, NEW p \in Ticks
      PROVE  book.levels[side][p].total =
               SumFunctionOnSet(Remaining(book), Queue(book, side, p))
  <2>1. Queue(book, side, p) = {}
    BY <1>2 DEF Queue, InLevel
  <2>2. SumFunctionOnSet(Remaining(book), {}) = 0
    BY FS_EmptySet, SumUnfolds
  <2>3. book.levels[side][p].total = 0
    BY DEF Init, EmptyLevel
  <2> QED BY <2>1, <2>2, <2>3
<1>4. Numbers([s \in Slots |-> 0], book)
  BY <1>2 DEF Numbers
<1> QED BY <1>3, <1>4 DEF LevelInv, TotalsAgree, Ordered, Init

\* Every step keeps the totals and the order of the links.
LEMMA NextLevelInv == Inv /\ LevelInv /\ [Next]_vars => LevelInv'
<1> SUFFICES ASSUME Inv, LevelInv, [Next]_vars
             PROVE  LevelInv'
  OBVIOUS
<1>1. Sound(book) /\ TotalsAgree(book) /\ Ordered(book)
  BY DEF Inv, LevelInv
<1>2. BookWritten /\ (pc' \notin {"submit", "match"} => taker' = None)
  BY StepWrites
<1>3. CASE Untouched
  BY <1>1, <1>2, <1>3 DEF Untouched, LevelInv
<1>4. CASE OrderLeaves
  <2>1. TotalsAgree(book') /\ Ordered(book')
    BY <1>1, <1>4, RemovalKeepsTotals, RemovalKeepsOrder DEF OrderLeaves
  <2> QED BY <1>2, <2>1 DEF LevelInv
<1>5. CASE OrderAmended
  <2>1. TotalsAgree(book') /\ Ordered(book')
    BY <1>1, <1>5, AmendmentKeepsTotals, AmendmentKeepsOrder DEF OrderAmended
  <2> QED BY <1>2, <2>1 DEF LevelInv
<1>6. CASE OrderUsedUp
  <2>1. PICK s \in Slots : \E b : /\ Live(book, s) /\ Amended(book, b, s)
                                  /\ book' = RemoveSlot(b, s)
    BY <1>6 DEF OrderUsedUp
  <2>2. PICK b : Live(book, s) /\ Amended(book, b, s) /\ book' = RemoveSlot(b, s)
    BY <2>1
  <2>3. Sound(b) /\ Ordered(b) /\ Live(b, s) /\ TotalsAgree(b)
    BY <1>1, <2>2, AmendmentKeepsTotals, AmendmentKeepsOrder
  <2>4. TotalsAgree(book') /\ Ordered(book')
    BY <2>2, <2>3, RemovalKeepsTotals, RemovalKeepsOrder
  <2> QED BY <1>2, <2>4 DEF LevelInv
<1>7. CASE OrderRests
  <2>1. /\ taker.side \in Sides /\ Limit \in Ticks
        /\ taker.remaining \in Nat /\ taker.account \in Accounts
    BY <1>7, TakerFacts DEF OrderRests
  <2>2. TotalsAgree(book') /\ Ordered(book')
    BY <1>1, <1>7, <2>1, RestKeepsTotals, RestKeepsOrder DEF OrderRests
  <2> QED BY <1>2, <2>2 DEF LevelInv
<1> QED BY <1>2, <1>3, <1>4, <1>5, <1>6, <1>7 DEF BookWritten

\* Between any two steps the book is sound, its totals are the sums of their
\* orders and its links do not lead in circles.
THEOREM LevelInvHolds == Spec => [](Inv /\ LevelInv)
<1>1. Init => Inv /\ LevelInv
  BY InitInv, InitLevelInv
<1>2. (Inv /\ LevelInv) /\ [Next]_vars => (Inv /\ LevelInv)'
  BY NextInv, NextLevelInv
<1> QED BY <1>1, <1>2, PTL DEF Spec

----------------------------------------------------------------------------
(***************************************************************************)
(* L1, L2                                                                  *)
(***************************************************************************)
\* A level with orders has a first one: the one with the least number.
LEMMA QueueHasHead ==
  ASSUME Inv, LevelInv, NEW side \in Sides, NEW p \in Ticks,
         Queue(book, side, p) # {}
  PROVE  book.levels[side][p].head # NIL
<1> DEFINE Q == Queue(book, side, p)
<1>1. book \in Shapes /\ NeighboursAgree(book)
  BY DEF Inv, Sound
<1>2. PICK arrival : Numbers(arrival, book)
  BY DEF LevelInv, Ordered
<1> DEFINE N == {arrival[s] : s \in Q}
<1>3. PICK s \in Q : \A t \in Q : arrival[s] <= arrival[t]
  <2>1. N \subseteq Nat /\ N # {}
    BY <1>2 DEF Numbers, Queue
  <2>2. PICK n \in N : \A m \in N : n <= m
    <3> HIDE DEF N
    <3> QED BY <2>1, LeastNatural
  <2> QED BY <2>2
<1>4. s \in Slots /\ InLevel(book, s, side, p)
  BY DEF Queue
<1>5. CASE book.slots[s].prev # NIL
  <2> DEFINE t == book.slots[s].prev
  <2>1. /\ t \in Slots /\ Live(book, t) /\ SameLevel(book, s, t)
        /\ book.slots[t].next = s
    BY <1>1, <1>4, <1>5, SlotFacts DEF NeighboursAgree, InLevel
  <2>2. t \in Q
    BY <1>4, <2>1 DEF Queue, InLevel, SameLevel
  <2>3. arrival[t] < arrival[s]
    BY <1>2, <1>4, <2>1, TicksFit DEF Numbers
  <2>4. arrival[s] \in Nat /\ arrival[t] \in Nat
    BY <1>2, <1>4, <2>1 DEF Numbers
  <2> HIDE DEF t, Q
  <2> QED BY <1>3, <2>2, <2>3, <2>4
<1>6. CASE book.slots[s].prev = NIL
  BY <1>1, <1>4, <1>6, TicksFit DEF NeighboursAgree, InLevel
<1> QED BY <1>5, <1>6

\* L1, L2: every level's total is the sum of what is left of its orders, and
\* its head, tail, total and occupancy bit agree on whether it has any.
THEOREM LevelsAddUp == Spec => []LevelsAgree
<1>1. Inv /\ LevelInv => LevelsAgree
  <2> SUFFICES ASSUME Inv, LevelInv, NEW side \in Sides, NEW p \in Ticks
               PROVE  LET level == book.levels[side][p]
                          bit   == p % WordBits \in book.bits[side][p \div WordBits]
                      IN  /\ level.total = SumFunctionOnSet(Remainders, At(side, p))
                          /\ (level.head = NIL) = ~bit
                          /\ (level.tail = NIL) = ~bit
                          /\ (level.total = 0) = ~bit
    BY DEF LevelsAgree
  <2> DEFINE Q == Queue(book, side, p)
             level == book.levels[side][p]
  <2>1. At(side, p) = Q /\ Remainders = Remaining(book)
    BY DEF At, LiveSlots, IsLive, Queue, InLevel, Live, Remainders, Remaining
  <2>2. /\ book \in Shapes /\ EndsAgree(book) /\ NothingEmpty(book)
        /\ level.total = SumFunctionOnSet(Remaining(book), Q)
    BY DEF Inv, Sound, LevelInv, TotalsAgree
  <2>3. /\ level.head = NIL <=> level.tail = NIL
        /\ Bit(book, side, p) <=> level.head # NIL
    BY <2>2 DEF EndsAgree
  <2>4. level.head # NIL <=> Q # {}
    <3>1. level.head # NIL => level.head \in Q
      BY <2>2, LevelFacts DEF EndsAgree, Queue
    <3> QED BY <3>1, QueueHasHead
  <2>5. level.total = 0 <=> Q = {}
    <3>1. IsFiniteSet(Q) /\ \A s \in Q : Remaining(book)[s] \in Nat
      BY <2>2, QueueFacts
    <3>2. level.total = 0 <=> \A s \in Q : Remaining(book)[s] = 0
      BY <2>2, <3>1, SumOfNaturals
    <3>3. \A s \in Q : Remaining(book)[s] >= 1
      BY <2>2, QueueFacts DEF NothingEmpty, Queue, InLevel
    <3> HIDE DEF Q
    <3>4. \A s \in Q : Remaining(book)[s] # 0
      BY <3>1, <3>3
    <3> QED BY <3>2, <3>4
  <2> HIDE DEF Q
  <2> QED BY <2>1, <2>2, <2>3, <2>4, <2>5 DEF Bit
<1> QED BY <1>1, LevelInvHolds, PTL

\* The fields of the book keep the types of the code's struct; in particular
\* no level's total goes below zero, which subtracting u64 quantities could.
THEOREM TypesHold == Spec => []TypeOK
<1>1. Inv /\ LevelInv => TypeOK
  <2> SUFFICES ASSUME Inv, LevelInv
               PROVE  TypeOK
    OBVIOUS
  <2>1. book \in Shapes /\ TotalsAgree(book)
    BY DEF Inv, Sound, LevelInv
  <2>2. ASSUME NEW side \in Sides, NEW p \in Ticks
        PROVE  book.levels[side][p] \in [head : Links, tail : Links, total : Nat]
    <3> DEFINE level == book.levels[side][p]
    <3>1. level \in LevelTypes
      BY <2>1 DEF Shapes
    <3>2. level.total \in Nat
      <4> DEFINE Q == Queue(book, side, p)
      <4>1. /\ level.total = SumFunctionOnSet(Remaining(book), Q)
            /\ IsFiniteSet(Q) /\ \A s \in Q : Remaining(book)[s] \in Nat
        BY <2>1, QueueFacts DEF TotalsAgree
      <4> HIDE DEF Q
      <4> QED BY <4>1, SumOfNaturals
    <3> HIDE DEF level
    <3>3. level \in [head : Links, tail : Links, total : Nat]
      BY <3>1, <3>2 DEF LevelTypes
    <3> QED BY <3>3 DEF level
  <2>3. book.levels \in
          [Sides -> [Ticks -> [head : Links, tail : Links, total : Nat]]]
    <3>1. book.levels \in [Sides -> [Ticks -> LevelTypes]]
      BY <2>1 DEF Shapes
    <3> QED BY <2>2, <3>1
  <2>4. book \in Books
    BY <2>1, <2>3 DEF Shapes, SlotTypes, Words, Books
  <2> QED BY <2>4 DEF TypeOK, Inv, LevelInv, TakerChecked
<1> QED BY <1>1, LevelInvHolds, PTL

----------------------------------------------------------------------------
(***************************************************************************)
(* S2, L3, L4                                                              *)
(***************************************************************************)
\* What Walk is asked to be, as a step from one table of slots to another.
WalkStep(side, p, at) ==
  [n \in 0 .. Capacity |->
     IF n = 0 THEN book.levels[side][p].head
     ELSE IF at[n - 1] = NIL THEN NIL ELSE book.slots[at[n - 1]].next]

\* There is such a walk: its recursion is over the numbers below it.
LEMMA WalkFacts ==
  ASSUME book \in Shapes, NEW side \in Sides, NEW p \in Ticks
  PROVE  LET at == Walk(side, p)
         IN  /\ DOMAIN at = 0 .. Capacity
             /\ \A n \in 0 .. Capacity : at[n] \in Slots \cup {NIL}
             /\ at[0] = book.levels[side][p].head
             /\ \A n \in 1 .. Capacity :
                  at[n] = IF at[n - 1] = NIL THEN NIL ELSE book.slots[at[n - 1]].next
<1> DEFINE first == book.levels[side][p].head
           X     == Slots \cup {NIL}
           next  == [x \in X |-> IF x = NIL THEN NIL ELSE book.slots[x].next]
           walk  == Walk(side, p)
<1>1. Capacity \in Nat /\ first \in X
  BY SlotsFinite, LevelFacts
<1>2. next \in [X -> X]
  <2>1. \A x \in Slots : book.slots[x].next \in X
    BY SlotFacts
  <2> QED BY <2>1
<1>3. \A x \in X : next[x] = IF x = NIL THEN NIL ELSE book.slots[x].next
  OBVIOUS
<1> HIDE DEF first, X, next
<1>4. PICK at : /\ at \in [0 .. Capacity -> X] /\ at[0] = first
                /\ \A n \in 1 .. Capacity : at[n] = next[at[n - 1]]
  <2>1. \E at : IsPath(at, X, first, next, Capacity)
    BY <1>1, <1>2, PathExists
  <2> QED BY <2>1 DEF IsPath
<1>5. at = WalkStep(side, p, at)
  <2>1. ASSUME NEW n \in 0 .. Capacity, n # 0
        PROVE  at[n] = IF at[n - 1] = NIL THEN NIL ELSE book.slots[at[n - 1]].next
    <3>1. n \in 1 .. Capacity /\ n - 1 \in 0 .. Capacity
      BY <1>1, <2>1
    <3> QED BY <1>3, <1>4, <3>1
  <2>2. \A n \in 0 .. Capacity :
          at[n] = IF n = 0 THEN book.levels[side][p].head
                  ELSE IF at[n - 1] = NIL THEN NIL ELSE book.slots[at[n - 1]].next
    BY <1>4, <2>1 DEF first
  <2>3. at = [n \in 0 .. Capacity |-> at[n]]
    BY <1>4
  <2> QED BY <2>2, <2>3, Zenon DEF WalkStep
<1>6. walk = CHOOSE it : it = WalkStep(side, p, it)
  BY DEF Walk, WalkStep
<1> HIDE DEF walk
<1>7. walk = WalkStep(side, p, walk)
  BY <1>5, <1>6, Zenon
<1>8. /\ DOMAIN walk = 0 .. Capacity
      /\ \A n \in 0 .. Capacity :
           walk[n] = IF n = 0 THEN book.levels[side][p].head
                     ELSE IF walk[n - 1] = NIL THEN NIL ELSE book.slots[walk[n - 1]].next
  <2>1. \A it : /\ DOMAIN WalkStep(side, p, it) = 0 .. Capacity
                /\ \A n \in 0 .. Capacity :
                     WalkStep(side, p, it)[n] =
                       IF n = 0 THEN book.levels[side][p].head
                       ELSE IF it[n - 1] = NIL THEN NIL ELSE book.slots[it[n - 1]].next
    BY DEF WalkStep
  <2> QED BY <1>7, <2>1
<1>9. 0 \in 0 .. Capacity /\ \A n \in 1 .. Capacity : n \in 0 .. Capacity /\ n # 0
  BY <1>1
<1>10. \A n \in 0 .. Capacity : walk[n] \in X
  <2> DEFINE D == {n \in 0 .. Capacity : walk[n] \notin X}
  <2>1. SUFFICES ASSUME D # {} PROVE FALSE
    OBVIOUS
  <2>2. PICK n \in D : \A m \in D : n <= m
    <3>1. D \subseteq Nat
      BY <1>1
    <3> HIDE DEF D
    <3> QED BY <2>1, <3>1, LeastNatural
  <2>3. CASE n = 0
    BY <1>1, <1>8, <1>9, <2>2, <2>3 DEF first
  <2>4. CASE n # 0
    <3>1. n \in 0 .. Capacity /\ n - 1 \in 0 .. Capacity /\ ~(n <= n - 1)
      BY <1>1, <2>4
    <3>2. walk[n - 1] \in X
      BY <2>2, <3>1
    <3>3. walk[n] = IF walk[n - 1] = NIL THEN NIL ELSE book.slots[walk[n - 1]].next
      BY <1>8, <2>4, <3>1
    <3>4. walk[n] \in X
      BY <3>2, <3>3, SlotFacts DEF X
    <3> QED BY <2>2, <3>4
  <2> QED BY <2>3, <2>4
<1> QED BY <1>8, <1>9, <1>10 DEF walk, X

\* What a walk meets is of its level and linked back to what came before.
LEMMA WalkStaysInQueue ==
  ASSUME Inv, NEW side \in Sides, NEW p \in Ticks, NEW n \in 0 .. Capacity,
         Walk(side, p)[n] # NIL
  PROVE  LET at == Walk(side, p)
         IN  /\ at[n] \in Queue(book, side, p)
             /\ n # 0 => at[n - 1] # NIL
             /\ book.slots[at[n]].prev = IF n = 0 THEN NIL ELSE at[n - 1]
<1> DEFINE at == Walk(side, p)
           Good(m) == /\ at[m] \in Queue(book, side, p)
                      /\ m # 0 => at[m - 1] # NIL
                      /\ book.slots[at[m]].prev = IF m = 0 THEN NIL ELSE at[m - 1]
           D == {m \in 0 .. Capacity : at[m] # NIL /\ ~Good(m)}
<1>1. /\ book \in Shapes /\ NeighboursAgree(book) /\ EndsAgree(book)
      /\ Capacity \in Nat
  BY SlotsFinite DEF Inv, Sound
<1>2. /\ \A m \in 0 .. Capacity : at[m] \in Slots \cup {NIL}
      /\ at[0] = book.levels[side][p].head
      /\ \A m \in 1 .. Capacity :
           at[m] = IF at[m - 1] = NIL THEN NIL ELSE book.slots[at[m - 1]].next
  BY <1>1, WalkFacts
<1> HIDE DEF at
<1>3. ASSUME D # {}
      PROVE  FALSE
  <2>1. PICK m \in D : \A k \in D : m <= k
    <3>1. D \subseteq Nat
      BY <1>1
    <3> HIDE DEF D
    <3> QED BY <1>3, <3>1, LeastNatural
  <2>2. m \in 0 .. Capacity /\ at[m] # NIL /\ ~Good(m) /\ at[m] \in Slots
    BY <1>2, <2>1
  <2>3. CASE m = 0
    <3>1. InLevel(book, at[0], side, p) /\ book.slots[at[0]].prev = NIL
      BY <1>1, <1>2, <2>2, <2>3 DEF EndsAgree
    <3> QED BY <2>2, <2>3, <3>1 DEF Queue
  <2>4. CASE m # 0
    <3>1. m \in 1 .. Capacity /\ m - 1 \in 0 .. Capacity /\ ~(m <= m - 1)
      BY <1>1, <2>2, <2>4
    <3>2. at[m - 1] # NIL /\ at[m] = book.slots[at[m - 1]].next
      BY <1>2, <2>2, <3>1
    <3>3. at[m - 1] \in Queue(book, side, p)
      <4>1. m - 1 \notin D
        BY <2>1, <3>1
      <4> QED BY <3>1, <3>2, <4>1
    <3> DEFINE s == at[m - 1]
               t == at[m]
    <3> HIDE DEF s, t
    <3>4. s \in Slots /\ InLevel(book, s, side, p) /\ t = book.slots[s].next /\ t # NIL
      BY <2>2, <3>2, <3>3 DEF Queue, s, t
    <3>5. Live(book, t) /\ SameLevel(book, s, t) /\ book.slots[t].prev = s
      BY <1>1, <3>4 DEF NeighboursAgree, InLevel
    <3>6. t \in Queue(book, side, p)
      BY <2>2, <3>4, <3>5 DEF Queue, InLevel, SameLevel, t
    <3> QED BY <2>2, <2>4, <3>2, <3>5, <3>6 DEF s, t
  <2> QED BY <2>3, <2>4
<1> HIDE DEF Good
<1>4. Good(n)
  BY <1>3 DEF at
<1> QED BY <1>4 DEF Good, at

\* A walk meets no slot twice: the slots before two equal ones would be equal.
LEMMA WalkNeverReturns ==
  ASSUME Inv, NEW side \in Sides, NEW p \in Ticks,
         NEW m \in 0 .. Capacity, NEW n \in 0 .. Capacity, m < n,
         Walk(side, p)[n] # NIL
  PROVE  Walk(side, p)[m] # Walk(side, p)[n]
<1> DEFINE at == Walk(side, p)
           Met(k) == \E j \in 0 .. Capacity : k < j /\ at[j] # NIL /\ at[k] = at[j]
           D == {k \in 0 .. Capacity : Met(k)}
<1>1. Capacity \in Nat
  BY SlotsFinite
<1>2. \A k \in 0 .. Capacity : at[k] # NIL =>
        /\ k # 0 => at[k - 1] # NIL
        /\ book.slots[at[k]].prev = IF k = 0 THEN NIL ELSE at[k - 1]
  BY WalkStaysInQueue
<1> HIDE DEF at
<1>3. ASSUME D # {}
      PROVE  FALSE
  <2>1. PICK k \in D : \A i \in D : k <= i
    <3>1. D \subseteq Nat
      BY <1>1
    <3> HIDE DEF D
    <3> QED BY <1>3, <3>1, LeastNatural
  <2>2. PICK j \in 0 .. Capacity : k < j /\ at[j] # NIL /\ at[k] = at[j]
    BY <2>1
  <2>3. /\ k \in 0 .. Capacity /\ j # 0 /\ at[j - 1] # NIL
        /\ book.slots[at[j]].prev = at[j - 1]
    BY <1>1, <1>2, <2>2
  <2>4. k # 0 /\ at[k - 1] = at[j - 1]
    BY <1>2, <2>2, <2>3
  <2>5. /\ k - 1 \in 0 .. Capacity /\ j - 1 \in 0 .. Capacity
        /\ k - 1 < j - 1 /\ ~(k <= k - 1)
    BY <1>1, <2>2, <2>3, <2>4
  <2>6. k - 1 \in D
    BY <2>3, <2>4, <2>5
  <2> QED BY <2>1, <2>5, <2>6
<1>4. m \notin D
  BY <1>3
<1> QED BY <1>4 DEF at

\* A walk comes to its end: there are only so many slots.
LEMMA WalkEnds ==
  ASSUME Inv, NEW side \in Sides, NEW p \in Ticks
  PROVE  Walk(side, p)[Capacity] = NIL
<1> DEFINE at == Walk(side, p)
           left == [n \in 0 .. Capacity |-> at[n]]
<1>1. Capacity \in Nat /\ IsFiniteSet(Slots) /\ Cardinality(Slots) = Capacity
  BY SlotsFinite
<1>2. SUFFICES ASSUME at[Capacity] # NIL
               PROVE  FALSE
  OBVIOUS
<1>3. /\ \A n \in 0 .. Capacity : at[n] \in Slots \cup {NIL}
      /\ \A n \in 1 .. Capacity : at[n - 1] = NIL => at[n] = NIL
  BY WalkFacts DEF Inv, Sound
<1>4. \A m, n \in 0 .. Capacity : m < n /\ at[n] # NIL => at[m] # at[n]
  BY WalkNeverReturns
<1> HIDE DEF at
<1>5. \A n \in 0 .. Capacity : at[n] # NIL
  <2> DEFINE D == {k \in 0 .. Capacity : at[Capacity - k] = NIL}
  <2>1. D = {}
    <3>1. SUFFICES ASSUME D # {} PROVE FALSE
      OBVIOUS
    <3>2. PICK k \in D : \A i \in D : k <= i
      <4>1. D \subseteq Nat
        BY <1>1
      <4> HIDE DEF D
      <4> QED BY <3>1, <4>1, LeastNatural
    <3>3. k \in 0 .. Capacity /\ at[Capacity - k] = NIL /\ k # 0
      BY <1>1, <1>2, <3>2
    <3> DEFINE n == Capacity - k + 1
    <3>4. /\ n \in 1 .. Capacity /\ n - 1 = Capacity - k
          /\ k - 1 \in 0 .. Capacity /\ Capacity - (k - 1) = n /\ ~(k <= k - 1)
      BY <1>1, <3>3
    <3> HIDE DEF n
    <3>5. at[n] = NIL
      BY <1>3, <3>3, <3>4
    <3>6. k - 1 \in D
      BY <3>4, <3>5
    <3> QED BY <3>2, <3>4, <3>6
  <2>2. \A n \in 0 .. Capacity : Capacity - n \in 0 .. Capacity
                                 /\ Capacity - (Capacity - n) = n
    BY <1>1
  <2>3. ASSUME NEW n \in 0 .. Capacity
        PROVE  at[n] # NIL
    BY <2>1, <2>2
  <2> QED BY <2>3
<1>6. left \in [0 .. Capacity -> Slots]
  BY <1>3, <1>5
<1>7. IsFiniteSet(0 .. Capacity) /\ Cardinality(0 .. Capacity) = Capacity + 1
  BY <1>1, FS_Interval
<1>8. \E m, n \in 0 .. Capacity : m # n /\ left[m] = left[n]
  <2>1. Cardinality(Slots) < Cardinality(0 .. Capacity)
    BY <1>1, <1>7
  <2> HIDE DEF left
  <2> QED BY <1>1, <1>6, <1>7, <2>1, FS_PigeonHole
<1>9. PICK m \in 0 .. Capacity, n \in 0 .. Capacity : m # n /\ at[m] = at[n]
  BY <1>8
<1>10. m < n \/ n < m
  BY <1>1, <1>9
<1> QED BY <1>4, <1>5, <1>9, <1>10

\* A walk misses no order: what comes before a missed one would be missed too,
\* and the first of the queue is where the walk begins.
LEMMA WalkMeetsAll ==
  ASSUME Inv, LevelInv, NEW side \in Sides, NEW p \in Ticks
  PROVE  \A s \in Queue(book, side, p) : \E n \in 0 .. Capacity : Walk(side, p)[n] = s
<1> DEFINE at == Walk(side, p)
           Q  == Queue(book, side, p)
           D  == {s \in Q : \A n \in 0 .. Capacity : at[n] # s}
<1>1. book \in Shapes /\ NeighboursAgree(book) /\ Capacity \in Nat
  BY SlotsFinite DEF Inv, Sound
<1>2. PICK arrival : Numbers(arrival, book)
  BY DEF LevelInv, Ordered
<1>3. /\ at[0] = book.levels[side][p].head
      /\ \A n \in 1 .. Capacity :
           at[n] = IF at[n - 1] = NIL THEN NIL ELSE book.slots[at[n - 1]].next
      /\ at[Capacity] = NIL
  BY <1>1, WalkFacts, WalkEnds
<1>4. \A s \in Q : s \in Slots /\ InLevel(book, s, side, p)
  BY DEF Queue
<1> HIDE DEF at
<1>5. SUFFICES ASSUME D # {}
               PROVE  FALSE
  BY DEF at
<1>6. PICK s \in D : \A t \in D : arrival[s] <= arrival[t]
  <2> DEFINE N == {arrival[s] : s \in D}
  <2>1. N \subseteq Nat /\ N # {}
    BY <1>2, <1>4, <1>5 DEF Numbers
  <2>2. PICK n \in N : \A m \in N : n <= m
    <3> HIDE DEF N
    <3> QED BY <2>1, LeastNatural
  <2> QED BY <2>2
<1>7. /\ s \in Slots /\ InLevel(book, s, side, p) /\ s # NIL
      /\ \A n \in 0 .. Capacity : at[n] # s
  BY <1>4, <1>6, TicksFit
<1>8. CASE book.slots[s].prev = NIL
  <2>1. book.levels[side][p].head = s
    BY <1>1, <1>7, <1>8 DEF NeighboursAgree, InLevel
  <2> QED BY <1>1, <1>3, <1>7, <2>1
<1>9. CASE book.slots[s].prev # NIL
  <2> DEFINE t == book.slots[s].prev
  <2>1. /\ t \in Slots /\ Live(book, t) /\ SameLevel(book, s, t)
        /\ book.slots[t].next = s
    BY <1>1, <1>7, <1>9, SlotFacts DEF NeighboursAgree, InLevel
  <2>2. t \in Q /\ t # NIL
    BY <1>7, <2>1, TicksFit DEF Queue, InLevel, SameLevel
  <2>3. arrival[t] < arrival[s] /\ arrival[s] \in Nat /\ arrival[t] \in Nat
    BY <1>2, <1>7, <2>1 DEF Numbers
  <2> HIDE DEF t, Q
  <2>4. t \notin D
    BY <1>6, <2>3
  <2>5. PICK n \in 0 .. Capacity : at[n] = t
    BY <2>2, <2>4
  <2>6. n # Capacity
    BY <1>3, <2>2, <2>5
  <2>7. n + 1 \in 1 .. Capacity /\ n + 1 \in 0 .. Capacity /\ (n + 1) - 1 = n
    BY <1>1, <2>6
  <2>8. at[n + 1] = s
    BY <1>3, <2>1, <2>2, <2>5, <2>7
  <2> QED BY <1>7, <2>7, <2>8
<1> QED BY <1>8, <1>9

\* S2, L3, L4: from its head, each level's links lead through exactly the live
\* slots of its side and price, each once and each linked back to the one
\* before it, to its tail.
THEOREM QueuesHoldTogether == Spec => []QueuesWellLinked
<1>1. Inv /\ LevelInv => QueuesWellLinked
  <2> SUFFICES ASSUME Inv, LevelInv, NEW side \in Sides, NEW p \in Ticks
               PROVE  LET at == Walk(side, p)
                      IN  /\ at[Capacity] = NIL
                          /\ {at[n] : n \in DOMAIN at} \ {NIL} = At(side, p)
                          /\ \A n \in 0 .. Capacity - 1 : at[n] # NIL =>
                               /\ book.slots[at[n]].prev = IF n = 0 THEN NIL ELSE at[n - 1]
                               /\ at[n + 1] = NIL => book.levels[side][p].tail = at[n]
    BY DEF QueuesWellLinked
  <2> DEFINE at == Walk(side, p)
             Q  == Queue(book, side, p)
  <2>1. At(side, p) = Q
    BY DEF At, LiveSlots, IsLive, Queue, InLevel, Live
  <2>2. book \in Shapes /\ NeighboursAgree(book) /\ Capacity \in Nat
    BY SlotsFinite DEF Inv, Sound
  <2>3. /\ DOMAIN at = 0 .. Capacity
        /\ \A n \in 1 .. Capacity :
             at[n] = IF at[n - 1] = NIL THEN NIL ELSE book.slots[at[n - 1]].next
    BY <2>2, WalkFacts
  <2>4. \A n \in 0 .. Capacity : at[n] # NIL =>
          /\ at[n] \in Q
          /\ book.slots[at[n]].prev = IF n = 0 THEN NIL ELSE at[n - 1]
    BY WalkStaysInQueue
  <2>5. \A s \in Q : \E n \in 0 .. Capacity : at[n] = s
    BY WalkMeetsAll
  <2>6. at[Capacity] = NIL
    BY WalkEnds
  <2>7. \A s \in Q : /\ s # NIL /\ Live(book, s)
                     /\ book.slots[s].next = NIL => book.levels[side][p].tail = s
    BY <2>2, TicksFit DEF NeighboursAgree, Queue, InLevel
  <2> HIDE DEF at, Q
  <2>8. {at[n] : n \in DOMAIN at} \ {NIL} = Q
    BY <2>3, <2>4, <2>5, <2>7
  <2>9. ASSUME NEW n \in 0 .. Capacity - 1, at[n] # NIL
        PROVE  /\ book.slots[at[n]].prev = IF n = 0 THEN NIL ELSE at[n - 1]
               /\ at[n + 1] = NIL => book.levels[side][p].tail = at[n]
    <3>1. n \in 0 .. Capacity /\ n + 1 \in 1 .. Capacity /\ (n + 1) - 1 = n
      BY <2>2
    <3>2. at[n + 1] = book.slots[at[n]].next
      BY <2>3, <2>9, <3>1
    <3> QED BY <2>4, <2>7, <2>9, <3>1, <3>2
  <2> QED BY <2>1, <2>6, <2>8, <2>9 DEF at
<1> QED BY <1>1, LevelInvHolds, PTL
=============================================================================
