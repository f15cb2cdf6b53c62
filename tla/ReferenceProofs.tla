-------------------------- MODULE ReferenceProofs --------------------------
(***************************************************************************)
(* Theorems about Reference, for every configuration and every stream of   *)
(* commands.                                                               *)
(***************************************************************************)
EXTENDS Reference, EngineLemmas, FiniteSetTheorems

(***************************************************************************)
(* The inductive invariant.  The properties say nothing of three things    *)
(* their proof needs: that sequence numbers tell the orders apart (without *)
(* it best() would have no answer), that a free slot has a generation left *)
(* (or alloc() would pass the limit), and that what submit() was called    *)
(* with has passed the checks of new_order() or replace().                 *)
(***************************************************************************)
SeqsDistinct ==
  /\ \A o \in orders : o.seq < next_seq
  /\ \A o, p \in orders : o.seq = p.seq => o = p

FreeSlotsUsable ==
  \A i \in DOMAIN free : generations[free[i]] < GenerationLimit

TakerChecked ==
  pc \in {"submit", "match"} =>
    /\ taker.kind.price # None => PriceOk(taker.kind.price)
    /\ taker.remaining <= MaxOrderQty

BookInv ==
  /\ BookTypeOK
  /\ IsFiniteSet(orders)
  /\ SlotAccounting
  /\ FreeSlotsUsable
  /\ OrdersValid
  /\ SeqsDistinct
  /\ BookNotCrossed

Inv == BookInv /\ ControlTypeOK /\ TakerChecked

----------------------------------------------------------------------------
\* best() finds an order that is matched before all the others on its side.
LEMMA BestIsBest ==
  ASSUME BookInv, NEW side \in Sides, OrdersOn(side) # {}
  PROVE  /\ Best(side) \in OrdersOn(side)
         /\ \A p \in OrdersOn(side) \ {Best(side)} : Before(Best(side), p)
<1> DEFINE S       == OrdersOn(side)
           rank(o) == IF side = "Buy" THEN MaxTick - o.price ELSE o.price
<1>1. \A o \in S : /\ rank(o) \in Nat /\ o.seq \in Nat
                   /\ o.price \in Nat /\ o.side = side /\ o \in orders
  <2> SUFFICES ASSUME NEW o \in S
               PROVE  /\ rank(o) \in Nat /\ o.seq \in Nat
                      /\ o.price \in Nat /\ o.side = side /\ o \in orders
    OBVIOUS
  <2>1. o \in orders /\ o.side = side
    BY DEF OrdersOn
  <2>2. o.price \in Nat /\ o.seq \in Nat
    BY <2>1 DEF BookInv, BookTypeOK, Orders
  <2>3. o.price <= MaxTick
    BY <2>1 DEF BookInv, OrdersValid, PriceOk
  <2>4. MaxTick - o.price \in Nat
    BY <2>2, <2>3, ConfigValid
  <2> QED BY <2>1, <2>2, <2>4
<1>2. PICK r \in {rank(o) : o \in S} : \A m \in {rank(o) : o \in S} : r <= m
  <2> DEFINE R == {rank(o) : o \in S}
  <2>1. R \subseteq Nat /\ R # {}
    BY <1>1
  <2> HIDE DEF R
  <2>2. \E n \in R : \A m \in R : n <= m
    BY <2>1, LeastNatural
  <2> QED BY <2>2 DEF R
<1>3. PICK q \in {o.seq : o \in {p \in S : rank(p) = r}} :
        \A m \in {o.seq : o \in {p \in S : rank(p) = r}} : q <= m
  <2> DEFINE Q == {o.seq : o \in {p \in S : rank(p) = r}}
  <2>1. Q \subseteq Nat /\ Q # {}
    BY <1>1, <1>2
  <2> HIDE DEF Q
  <2>2. \E n \in Q : \A m \in Q : n <= m
    BY <2>1, LeastNatural
  <2> QED BY <2>2 DEF Q
<1>4. PICK o \in S : rank(o) = r /\ o.seq = q
  BY <1>3
<1>5. ASSUME NEW p \in S \ {o} PROVE Before(o, p)
  <2>1. rank(o) <= rank(p)
    BY <1>2, <1>4
  <2>2. CASE o.price = p.price
    <3>1. rank(p) = r
      BY <1>4, <2>2
    <3>2. o.seq <= p.seq
      BY <1>3, <1>4, <3>1
    <3>3. o.seq # p.seq
      BY <1>1 DEF SeqsDistinct, BookInv
    <3> QED BY <1>1, <2>2, <3>2, <3>3 DEF Before
  <2>3. CASE o.price # p.price
    BY <1>1, <2>1, <2>3, ConfigValid DEF Before, Crosses, Sides
  <2> QED BY <2>2, <2>3
<1> QED BY <1>5 DEF Best

\* An order that is not marketable crosses no order on the other side.
LEMMA NotMarketable ==
  ASSUME BookInv, NEW side \in Sides, NEW limit \in Nat,
         ~Marketable(side, limit),
         NEW p \in orders, p.side = Opposite(side)
  PROVE  ~Crosses(side, limit, p.price)
<1> DEFINE best == Best(Opposite(side))
<1>1. Opposite(side) \in Sides /\ Opposite(side) # side
  BY DEF Opposite, Sides
<1>2. p \in OrdersOn(Opposite(side))
  BY DEF OrdersOn
<1>3. /\ best \in OrdersOn(Opposite(side))
      /\ p # best => Before(best, p)
  BY <1>1, <1>2, BestIsBest
<1>4. ~Crosses(side, limit, best.price)
  BY <1>2 DEF Marketable
<1>5. /\ best \in orders /\ best.side = Opposite(side)
      /\ best.price \in Nat /\ p.price \in Nat
  BY <1>3 DEF OrdersOn, BookInv, BookTypeOK, Orders
<1>6. CASE p = best
  BY <1>4, <1>6
<1>7. CASE p # best
  <2>1. best.price = p.price \/ Crosses(best.side, best.price, p.price)
    BY <1>3, <1>7 DEF Before
  <2> HIDE DEF best
  <2> QED BY <1>1, <1>4, <1>5, <2>1 DEF Crosses, Opposite, Sides
<1> QED BY <1>6, <1>7

----------------------------------------------------------------------------
(***************************************************************************)
(* The book is written in three ways, and each keeps BookInv.              *)
(***************************************************************************)

\* What BookInv says of one resting order.
LEMMA OrderFacts ==
  ASSUME BookInv, NEW o \in orders
  PROVE  /\ o \in Orders
         /\ o.id \in Slots \X Nat
         /\ SlotOf(o.id) \in Slots
         /\ generations[SlotOf(o.id)] \in Nat
         /\ generations[SlotOf(o.id)] >= 1
         /\ generations[SlotOf(o.id)] % 2 = 1
         /\ (generations[SlotOf(o.id)] - 1) % 2 = 0
         /\ (generations[SlotOf(o.id)] + 1) % 2 = 0
<1>1. o \in Orders /\ o.id \in Slots \X Nat /\ SlotOf(o.id) \in Slots
  BY DEF BookInv, BookTypeOK, Orders, SlotOf
<1>2. generations[SlotOf(o.id)] \in Nat
  BY <1>1 DEF BookInv, BookTypeOK
<1>3. generations[SlotOf(o.id)] % 2 = 1
  BY DEF BookInv, SlotAccounting, OrdersHoldSlots
<1> QED BY <1>1, <1>2, <1>3, Parity

\* Taking an order off the book and releasing its slot.
LEMMA RemoveKeepsBook ==
  ASSUME BookInv, NEW o \in orders, RemoveOrder(o)
  PROVE  BookInv'
<1> DEFINE s == SlotOf(o.id)
           g == generations[s]
<1>0. o \in Orders /\ s \in Slots /\ g \in Nat /\ g >= 1 /\ g % 2 = 1
      /\ (g - 1) % 2 = 0 /\ (g + 1) % 2 = 0
  BY OrderFacts
<1>1. orders' = orders \ {o} /\ next_seq' = next_seq
  BY DEF RemoveOrder
<1>2. \/ /\ generations' = [generations EXCEPT ![s] = g - 1]
         /\ retired' = retired + 1
         /\ free' = free
      \/ /\ g + 2 <= GenerationLimit
         /\ generations' = [generations EXCEPT ![s] = g + 1]
         /\ free' = Append(free, s)
         /\ retired' = retired
  BY <1>0, ConfigValid DEF RemoveOrder, Release, WillRetire
<1>3. /\ generations \in [Slots -> Nat] /\ free \in Seq(Slots) /\ retired \in Nat
      /\ orders \subseteq Orders /\ next_seq \in Nat /\ Len(free) \in Nat
  BY DEF BookInv, BookTypeOK
<1>4. \A i \in DOMAIN free : free[i] \in Slots /\ free[i] # s
  BY <1>3 DEF BookInv, SlotAccounting, FreeSlotsAreFree, LiveSlots
<1>5. \A q \in orders' : q \in orders /\ SlotOf(q.id) \in Slots /\ SlotOf(q.id) # s
  BY <1>1, OrderFacts DEF BookInv, SlotAccounting, OrdersHoldSlots
<1>6. \A t \in Slots \ {s} : generations'[t] = generations[t]
  BY <1>2, <1>3
<1>7. s \notin LiveSlots' /\ LiveSlots' = LiveSlots \ {s}
  BY <1>1, <1>5 DEF LiveSlots
<1>20. \/ free' = free /\ retired' = retired + 1
       \/ free' = Append(free, s) /\ retired' = retired
  BY <1>2
<1>21. /\ Append(free, s) \in Seq(Slots)
       /\ Len(Append(free, s)) = Len(free) + 1
  BY <1>0, <1>3, AppendProperties
<1>8. BookTypeOK'
  <2>1. generations' \in [Slots -> Nat]
    BY <1>0, <1>2, <1>3
  <2>2. free' \in Seq(Slots) /\ retired' \in Nat
    <3>1. CASE free' = free /\ retired' = retired + 1
      BY <3>1, <1>3
    <3>2. CASE free' = Append(free, s) /\ retired' = retired
      BY <3>2, <1>21, <1>3
    <3> QED BY <1>20, <3>1, <3>2
  <2> QED BY <1>1, <1>3, <2>1, <2>2 DEF BookTypeOK
<1>9. IsFiniteSet(orders') /\ Cardinality(orders') = Cardinality(orders) - 1
      /\ Cardinality(orders) \in Nat
  BY <1>1, FS_RemoveElement, FS_CardinalityType DEF BookInv
<1>10. SlotsCounted'
  <2>1. /\ Len(free') \in Nat /\ retired' \in Nat
        /\ Len(free') + retired' = Len(free) + retired + 1
    BY SMTT(30), <1>20, <1>21, <1>3
  <2>2. Cardinality(orders) + Len(free) + retired = Capacity
    BY DEF BookInv, SlotAccounting, SlotsCounted
  <2>3. Cardinality(orders') \in Nat
    BY <1>9, <1>1, FS_RemoveElement, FS_CardinalityType DEF BookInv
  <2>4. Cardinality(orders') + Len(free') + retired'
          = Cardinality(orders) + Len(free) + retired
    <3>1. PICK c \in Nat, d \in Nat, f \in Nat, h \in Nat :
            /\ c = Cardinality(orders) /\ d = Cardinality(orders')
            /\ f = Len(free)           /\ h = Len(free')
      BY <1>3, <1>9, <2>1, <2>3
    <3>2. PICK q \in Nat, r \in Nat : q = retired /\ r = retired'
      BY <1>3, <2>1
    <3>3. d = c - 1 /\ h + r = f + q + 1
      BY <1>9, <2>1, <3>1, <3>2
    <3>4. d + h + r = c + f + q
      BY <3>3
    <3> QED BY <3>1, <3>2, <3>4
  <2> QED BY <2>2, <2>4 DEF SlotsCounted
<1>11. OrdersHoldSlots'
  BY <1>1, <1>5, <1>6 DEF BookInv, SlotAccounting, OrdersHoldSlots
<1>12. FreeSlotsAreFree' /\ FreeSlotsUsable'
  <2>1. CASE free' = free
    <3>1. \A i \in DOMAIN free : generations'[free[i]] = generations[free[i]]
      BY <1>4, <1>6
    <3> QED BY <2>1, <3>1, <1>7
            DEF BookInv, SlotAccounting, FreeSlotsAreFree, FreeSlotsUsable
  <2>2. CASE /\ g + 2 <= GenerationLimit
             /\ generations' = [generations EXCEPT ![s] = g + 1]
             /\ free' = Append(free, s)
    <3>1. /\ DOMAIN free = 1 .. Len(free)
          /\ DOMAIN free' = 1 .. Len(free) + 1
          /\ \A i \in DOMAIN free : free'[i] = free[i]
          /\ free'[Len(free) + 1] = s
      BY <1>0, <1>3, <2>2
    <3>2. generations'[s] = g + 1
      BY <1>0, <1>3, <2>2
    <3>3. \A i \in DOMAIN free : generations'[free[i]] = generations[free[i]]
      BY <1>4, <1>6
    <3>4. \A i \in DOMAIN free' :
            /\ generations'[free'[i]] % 2 = 0
            /\ generations'[free'[i]] < GenerationLimit
            /\ free'[i] \notin LiveSlots'
      <4> SUFFICES ASSUME NEW i \in DOMAIN free'
                   PROVE  /\ generations'[free'[i]] % 2 = 0
                          /\ generations'[free'[i]] < GenerationLimit
                          /\ free'[i] \notin LiveSlots'
        OBVIOUS
      <4>1. CASE i \in DOMAIN free
        BY <4>1, <3>1, <3>3, <1>7
           DEF BookInv, SlotAccounting, FreeSlotsAreFree, FreeSlotsUsable
      <4>2. CASE i = Len(free) + 1
        BY <4>2, <3>1, <3>2, <2>2, <1>0, <1>7, ConfigValid
      <4> QED BY <3>1, <4>1, <4>2
    <3>5. \A i, j \in DOMAIN free' : free'[i] = free'[j] => i = j
      BY <3>1, <1>4 DEF BookInv, SlotAccounting, FreeSlotsAreFree
    <3> QED BY <3>4, <3>5 DEF FreeSlotsAreFree, FreeSlotsUsable
  <2> QED BY <1>2, <2>1, <2>2
<1>13. GenerationsBounded'
  <2>1. generations'[s] <= GenerationLimit
    BY <1>0, <1>2, <1>3, ConfigValid
       DEF BookInv, SlotAccounting, GenerationsBounded
  <2> QED BY <1>6, <2>1 DEF BookInv, SlotAccounting, GenerationsBounded
<1>14. OrdersValid' /\ SeqsDistinct' /\ BookNotCrossed'
  BY <1>1 DEF BookInv, OrdersValid, SeqsDistinct, BookNotCrossed
<1>15. OddSlotsAreLive'
  <2>1. generations'[s] % 2 = 0
    BY <1>0, <1>2, <1>3
  <2> QED BY <1>6, <1>7, <2>1 DEF BookInv, SlotAccounting, OddSlotsAreLive
<1> QED BY <1>8, <1>9, <1>10, <1>11, <1>12, <1>13, <1>14, <1>15
        DEF BookInv, SlotAccounting

\* Changing the quantities of an order in its place.
LEMMA UpdateKeepsBook ==
  ASSUME BookInv, NEW o \in orders, NEW p \in Orders, Update(o, p),
         p.id = o.id, p.side = o.side, p.price = o.price, p.seq = o.seq,
         p.remaining > 0, p.filled + p.remaining <= MaxOrderQty
  PROVE  BookInv'
<1>1. /\ orders' = (orders \ {o}) \cup {p} /\ generations' = generations
      /\ free' = free /\ retired' = retired /\ next_seq' = next_seq
  BY DEF Update
<1>2. BookTypeOK'
  BY <1>1 DEF BookInv, BookTypeOK
<1>3. \A q \in orders \ {o} : SlotOf(q.id) # SlotOf(o.id)
  BY DEF BookInv, SlotAccounting, OrdersHoldSlots
<1>4. IsFiniteSet(orders') /\ Cardinality(orders') = Cardinality(orders)
  <2> DEFINE rest == orders \ {o}
  <2>1. /\ IsFiniteSet(rest) /\ Cardinality(rest) = Cardinality(orders) - 1
        /\ Cardinality(orders) \in Nat
    BY FS_RemoveElement, FS_CardinalityType DEF BookInv
  <2>2. p \notin rest
    BY <1>3
  <2>3. orders' = rest \cup {p}
    BY <1>1
  <2> HIDE DEF rest
  <2>4. IsFiniteSet(orders') /\ Cardinality(orders') = Cardinality(rest) + 1
    BY <2>1, <2>2, <2>3, FS_AddElement
  <2> QED BY <2>1, <2>4
<1>5. LiveSlots' = LiveSlots
  BY <1>1 DEF LiveSlots
<1>6. /\ SlotsCounted' /\ OddSlotsAreLive' /\ FreeSlotsAreFree'
      /\ FreeSlotsUsable' /\ GenerationsBounded'
  BY <1>1, <1>4, <1>5
     DEF BookInv, SlotAccounting, SlotsCounted, OddSlotsAreLive,
         FreeSlotsAreFree, FreeSlotsUsable, GenerationsBounded
<1>7. OrdersHoldSlots'
  BY <1>1, <1>3 DEF BookInv, SlotAccounting, OrdersHoldSlots
<1>8. OrdersValid' /\ SeqsDistinct' /\ BookNotCrossed'
  BY <1>1 DEF BookInv, OrdersValid, SeqsDistinct, BookNotCrossed
<1> QED BY <1>2, <1>4, <1>6, <1>7, <1>8 DEF BookInv, SlotAccounting

\* Resting a new order, which must not meet an order of the other side, in the
\* last free slot.
LEMMA InsertKeepsBook ==
  ASSUME BookInv, free # <<>>, NEW t \in Orders, Insert(t, Last(free)),
         t.id = OrderId(Last(free), generations[Last(free)] + 1),
         t.seq = next_seq, PriceOk(t.price),
         t.remaining > 0, t.filled + t.remaining <= MaxOrderQty,
         \A p \in orders :
           p.side = Opposite(t.side) => ~Crosses(t.side, t.price, p.price)
  PROVE  BookInv'
<1> DEFINE s == Last(free)
           n == Len(free)
           g == generations[s]
<1>1. /\ orders' = orders \cup {t} /\ free' = Front(free) /\ retired' = retired
      /\ next_seq' = next_seq + 1
      /\ generations' = [generations EXCEPT ![s] = g + 1]
  BY DEF Insert
<1>2. /\ generations \in [Slots -> Nat] /\ free \in Seq(Slots) /\ retired \in Nat
      /\ orders \subseteq Orders /\ next_seq \in Nat
  BY DEF BookInv, BookTypeOK
<1>3. /\ n \in Nat /\ n >= 1 /\ DOMAIN free = 1 .. n
      /\ Front(free) \in Seq(Slots) /\ Len(Front(free)) = n - 1
      /\ \A i \in 1 .. n - 1 : Front(free)[i] = free[i]
      /\ s = free[n] /\ s \in Slots
  BY <1>2, FrontLast
<1>4. /\ g \in Nat /\ g % 2 = 0 /\ (g + 1) % 2 = 1 /\ g + 1 <= GenerationLimit
      /\ s \notin LiveSlots
      /\ \A i \in 1 .. n - 1 : free[i] # s
  <2>1. n \in DOMAIN free
    BY <1>3
  <2>2. g \in Nat
    BY <1>2, <1>3
  <2>3. g % 2 = 0 /\ s \notin LiveSlots /\ \A i \in 1 .. n : free[i] = s => i = n
    BY <1>3, <2>1 DEF BookInv, SlotAccounting, FreeSlotsAreFree
  <2>4. g < GenerationLimit
    BY <1>3, <2>1 DEF BookInv, FreeSlotsUsable
  <2>5. (g + 1) % 2 = 1
    BY <2>2, <2>3, Parity
  <2>6. ASSUME NEW i \in 1 .. n - 1 PROVE free[i] # s
    <3>1. n \in Nat
      BY <1>3
    <3>2. i \in 1 .. n /\ i # n
      <4> HIDE DEF n
      <4> QED BY <3>1
    <3> QED BY <2>3, <3>2
  <2> HIDE DEF g
  <2>7. g + 1 <= GenerationLimit
    BY <2>2, <2>4, ConfigValid
  <2> QED BY <2>2, <2>3, <2>5, <2>6, <2>7
<1>5. SlotOf(t.id) = s /\ GenerationOf(t.id) = g + 1
  BY DEF SlotOf, GenerationOf, OrderId
<1>6. \A q \in orders : q \in Orders /\ SlotOf(q.id) \in Slots /\ SlotOf(q.id) # s
  BY <1>4, OrderFacts DEF LiveSlots
<1>7. LiveSlots' = LiveSlots \cup {s}
  BY <1>1, <1>5 DEF LiveSlots
<1>8. /\ generations'[s] = g + 1
      /\ \A u \in Slots \ {s} : generations'[u] = generations[u]
  BY <1>1, <1>2, <1>3
<1>9. BookTypeOK'
  BY <1>1, <1>2, <1>3, <1>4 DEF BookTypeOK
<1>10. t \notin orders
  BY <1>5, <1>6
<1>11. /\ IsFiniteSet(orders') /\ Cardinality(orders) \in Nat
       /\ Cardinality(orders') = Cardinality(orders) + 1
  BY <1>1, <1>10, FS_AddElement, FS_CardinalityType DEF BookInv
<1>12. SlotsCounted'
  <2>1. PICK c \in Nat, f \in Nat, h \in Nat, r \in Nat :
          /\ c = Cardinality(orders) /\ f = Len(free) /\ r = retired
          /\ h = Len(free') /\ h = f - 1
    <3>1. Len(free') = n - 1 /\ n - 1 \in Nat
      BY <1>1, <1>3
    <3> QED BY <1>2, <1>3, <1>11, <3>1
  <2>2. c + f + r = Capacity
    BY <2>1 DEF BookInv, SlotAccounting, SlotsCounted
  <2>3. (c + 1) + h + r = c + f + r
    BY <2>1
  <2> QED BY <1>1, <1>11, <2>1, <2>2, <2>3 DEF SlotsCounted
<1>13. OrdersHoldSlots'
  BY <1>1, <1>4, <1>5, <1>6, <1>8 DEF BookInv, SlotAccounting, OrdersHoldSlots
<1>14. FreeSlotsAreFree' /\ FreeSlotsUsable'
  <2>1. DOMAIN free' = 1 .. n - 1 /\ \A i \in 1 .. n - 1 : free'[i] = free[i]
    BY <1>1, <1>3
  <2>2. \A i \in 1 .. n - 1 : /\ i \in DOMAIN free /\ free[i] \in Slots
                              /\ generations'[free[i]] = generations[free[i]]
    <3> SUFFICES ASSUME NEW i \in 1 .. n - 1
                 PROVE  /\ i \in DOMAIN free /\ free[i] \in Slots
                        /\ generations'[free[i]] = generations[free[i]]
      OBVIOUS
    <3>1. i \in DOMAIN free /\ free[i] \in Slots
      BY <1>2, <1>3
    <3> QED BY <1>4, <1>8, <3>1
  <2>3. FreeSlotsAreFree /\ FreeSlotsUsable
    BY DEF BookInv, SlotAccounting
  <2>4. \A i \in 1 .. n - 1 : free[i] \notin LiveSlots'
    BY <1>4, <1>7, <2>2, <2>3 DEF FreeSlotsAreFree
  <2>5. FreeSlotsAreFree'
    BY <2>1, <2>2, <2>3, <2>4 DEF FreeSlotsAreFree
  <2>6. FreeSlotsUsable'
    BY <2>1, <2>2, <2>3 DEF FreeSlotsUsable
  <2> QED BY <2>5, <2>6
<1>15. GenerationsBounded'
  BY <1>4, <1>8 DEF BookInv, SlotAccounting, GenerationsBounded
<1>16. OrdersValid' /\ SeqsDistinct'
  BY SMTT(30), <1>1, <1>2 DEF BookInv, OrdersValid, SeqsDistinct, Orders
<1>17. BookNotCrossed'
  <2> SUFFICES ASSUME NEW b \in orders', NEW a \in orders',
                      b.side = "Buy", a.side = "Sell"
               PROVE  b.price < a.price
    BY DEF BookNotCrossed
  <2>1. b.price \in Nat /\ a.price \in Nat
    BY <1>1, <1>2 DEF Orders
  <2>2. CASE b = t
    BY <1>1, <2>1, <2>2 DEF Opposite, Crosses
  <2>3. CASE a = t
    BY <1>1, <2>1, <2>3 DEF Opposite, Crosses
  <2>4. CASE b # t /\ a # t
    BY <1>1, <2>4 DEF BookInv, BookNotCrossed
  <2> QED BY <2>2, <2>3, <2>4
<1>18. OddSlotsAreLive'
  BY <1>7, <1>8 DEF BookInv, SlotAccounting, OddSlotsAreLive
<1> QED BY <1>9, <1>11, <1>12, <1>13, <1>14, <1>15, <1>16, <1>17, <1>18
        DEF BookInv, SlotAccounting

----------------------------------------------------------------------------
(***************************************************************************)
(* One fact for each way a handler ends, then one for each action.         *)
(***************************************************************************)
LEMMA ReturnKeepsControl ==
  ASSUME NEW events, Return(events)
  PROVE  ControlTypeOK' /\ TakerChecked'
  BY DEF Return, ControlTypeOK, TakerChecked

\* submit() is called with a taker of the right type that has been checked.
LEMMA CallSubmitKeepsControl ==
  ASSUME NEW account \in Accounts, NEW side \in Sides, NEW qty \in Nat,
         NEW kind \in Kinds, CallSubmit(account, side, qty, kind),
         qty <= MaxOrderQty, kind.price # None => PriceOk(kind.price)
  PROVE  ControlTypeOK' /\ TakerChecked'
  BY DEF CallSubmit, ControlTypeOK, TakerChecked, Takers

\* A step that leaves the book alone.
LEMMA UnchangedKeepsBook ==
  ASSUME BookInv, UNCHANGED book
  PROVE  BookInv'
<1>1. /\ generations' = generations /\ free' = free /\ retired' = retired
      /\ orders' = orders /\ next_seq' = next_seq
  BY DEF book
<1> QED BY <1>1 DEF BookInv, BookTypeOK, SlotAccounting, SlotsCounted,
                    OrdersHoldSlots, OddSlotsAreLive, FreeSlotsAreFree,
                    GenerationsBounded, FreeSlotsUsable, OrdersValid, SeqsDistinct, BookNotCrossed,
                    LiveSlots

\* A refusal leaves the book alone and ends the command.
LEMMA RejectKeepsInv ==
  ASSUME BookInv, NEW reason, Reject(reason)
  PROVE  Inv'
  BY ReturnKeepsControl, UnchangedKeepsBook DEF Reject, Inv

\* A command that ends with the removal of an order.
LEMMA RemoveAndReturnKeepsInv ==
  ASSUME BookInv, NEW o \in orders, NEW events, RemoveOrder(o), Return(events)
  PROVE  Inv'
  BY RemoveKeepsBook, ReturnKeepsControl DEF Inv

\* The price submit() matches at is valid.
LEMMA LimitIsValid ==
  ASSUME ControlTypeOK, TakerChecked, pc \in {"submit", "match"}
  PROVE  /\ taker \in Takers
         /\ Limit \in Nat /\ PriceOk(Limit)
         /\ Opposite(taker.side) \in Sides
<1>1. /\ taker \in Takers /\ taker.side \in Sides /\ taker.kind \in Kinds
      /\ taker.kind.price # None => PriceOk(taker.kind.price)
  BY DEF ControlTypeOK, TakerChecked, Takers
<1>2. taker.kind.price \in Nat \/ taker.kind.price = None
  BY <1>1, InputsValid DEF Kinds
<1>3. Limit \in Nat /\ PriceOk(Limit)
  BY <1>1, <1>2, ConfigValid DEF Limit, LimitOf, PriceOk
<1> QED BY <1>1, <1>3 DEF Opposite, Sides

\* new_order() refuses, or calls submit() with what it has checked.
LEMMA NewOrderKeepsInv ==
  ASSUME Inv, NEW account \in Accounts, NEW side \in Sides,
         NEW qty \in InputQtys, NEW kind \in Kinds,
         NewOrder(account, side, qty, kind)
  PROVE  Inv'
<1>1. CASE \E reason : Reject(reason)
  BY <1>1, RejectKeepsInv DEF Inv
<1>2. CASE /\ ~(kind.price # None /\ ~PriceOk(kind.price)) /\ QtyOk(qty)
           /\ CallSubmit(account, side, qty, kind) /\ UNCHANGED <<book, out>>
  <2>1. qty \in Nat /\ qty <= MaxOrderQty
    BY <1>2, InputsValid DEF QtyOk
  <2>2. BookInv'
    BY <1>2, UnchangedKeepsBook DEF Inv
  <2>3. ControlTypeOK' /\ TakerChecked'
    BY <1>2, <2>1, CallSubmitKeepsControl
  <2> QED BY <2>2, <2>3 DEF Inv
<1> QED BY <1>1, <1>2 DEF NewOrder

\* cancel() refuses, or removes the order it finds.
LEMMA CancelKeepsInv ==
  ASSUME Inv, NEW account, NEW id, Cancel(account, id)
  PROVE  Inv'
<1>1. CASE Reject("UnknownOrStaleId")
  BY <1>1, RejectKeepsInv DEF Inv
<1>2. ASSUME NEW o \in Owned(account, id), RemoveOrder(o),
             Return(<<Cancelled(id, o.remaining, "User")>>)
      PROVE  Inv'
  BY <1>2, RemoveAndReturnKeepsInv DEF Owned, Inv
<1> QED BY <1>1, <1>2 DEF Cancel

\* reduce() refuses, removes the order or leaves something of it to trade.
LEMMA ReduceKeepsInv ==
  ASSUME Inv, NEW account, NEW id, NEW total \in InputQtys,
         Reduce(account, id, total)
  PROVE  Inv'
<1>0. total \in Nat
  BY InputsValid
<1>1. CASE \E reason : Reject(reason)
  BY <1>1, RejectKeepsInv DEF Inv
<1>2. ASSUME NEW o \in Owned(account, id), RemoveOrder(o),
             NEW events, Return(events)
      PROVE  Inv'
  BY <1>2, RemoveAndReturnKeepsInv DEF Owned, Inv
<1>3. ASSUME NEW o \in Owned(account, id),
             o.filled < total, total <= o.filled + o.remaining,
             Update(o, [o EXCEPT !.remaining = total - o.filled]),
             NEW events, Return(events)
      PROVE  Inv'
  <2> DEFINE p == [o EXCEPT !.remaining = total - o.filled]
  <2>1. o \in orders /\ o \in Orders
    BY OrderFacts DEF Owned, Inv
  <2>2. o.filled + o.remaining <= MaxOrderQty
    BY <2>1 DEF Inv, BookInv, OrdersValid
  <2>3. /\ o.filled \in Nat /\ o.remaining \in Nat
        /\ total - o.filled \in Nat /\ total - o.filled > 0
        /\ o.filled + (total - o.filled) <= MaxOrderQty
    BY <1>0, <1>3, <2>1, <2>2, ConfigValid DEF Orders
  <2>4. /\ p \in Orders /\ p.id = o.id /\ p.side = o.side /\ p.price = o.price
        /\ p.seq = o.seq /\ p.remaining = total - o.filled /\ p.filled = o.filled
    BY <2>1, <2>3 DEF Orders
  <2> HIDE DEF p
  <2>5. Update(o, p)
    BY <1>3 DEF p
  <2>6. BookInv'
    BY <2>1, <2>3, <2>4, <2>5, UpdateKeepsBook DEF Inv
  <2> QED BY <1>3, <2>6, ReturnKeepsControl DEF Inv
<1> QED BY <1>1, <1>2, <1>3 DEF Reduce, ReduceOwned, ReduceTo

\* replace() refuses, or removes the order and may call submit().
LEMMA ReplaceKeepsInv ==
  ASSUME Inv, NEW account, NEW id, NEW price \in InputPrices,
         NEW total \in InputQtys, NEW post_only \in BOOLEAN,
         Replace(account, id, price, total, post_only)
  PROVE  Inv'
<1>0. total \in Nat
  BY InputsValid
<1>1. CASE \E reason : Reject(reason)
  BY <1>1, RejectKeepsInv DEF Inv
<1>2. ASSUME PriceOk(price), total <= MaxOrderQty, NEW o \in Owned(account, id),
             ReplaceOwned(o, price, total, post_only)
      PROVE  Inv'
  <2>1. o \in orders /\ o \in Orders
    BY OrderFacts DEF Owned, Inv
  <2>2. CASE \E reason : Reject(reason)
    BY <2>2, RejectKeepsInv DEF Inv
  <2>3. CASE RemoveOrder(o) /\ Return(<<Cancelled(o.id, o.remaining, "Replaced")>>)
    BY <2>1, <2>3, RemoveAndReturnKeepsInv DEF Inv
  <2>4. ASSUME NEW kind, kind = [type  |-> IF post_only THEN "PostOnly" ELSE "Gtc",
                                 price |-> price],
               total > o.filled, RemoveOrder(o),
               CallSubmit(o.account, o.side, total - o.filled, kind)
        PROVE  Inv'
    <3>1. kind \in Kinds /\ kind.price = price
      BY <2>4 DEF Kinds
    <3>2. o.account \in Accounts /\ o.side \in Sides /\ o.filled \in Nat
      BY <2>1 DEF Orders
    <3>3. total - o.filled \in Nat /\ total - o.filled <= MaxOrderQty
      BY <1>0, <1>2, <2>4, <3>2, ConfigValid
    <3>4. ControlTypeOK' /\ TakerChecked'
      BY <1>2, <2>4, <3>1, <3>2, <3>3, CallSubmitKeepsControl
    <3>5. BookInv'
      BY <2>1, <2>4, RemoveKeepsBook DEF Inv
    <3> QED BY <3>4, <3>5 DEF Inv
  <2> QED BY <1>2, <2>2, <2>3, <2>4 DEF ReplaceOwned
<1> QED BY <1>1, <1>2 DEF Replace, ReplaceRefused

\* submit() up to its loop leaves the book alone.
LEMMA SubmitKeepsInv ==
  ASSUME Inv, Submit
  PROVE  Inv'
<1>1. CASE \E reason : Reject(reason)
  BY <1>1, RejectKeepsInv DEF Inv
<1>2. CASE pc = "submit" /\ pc' = "match" /\ UNCHANGED <<book, taker, out>>
  <2>1. BookInv'
    BY <1>2, UnchangedKeepsBook DEF Inv
  <2>2. ControlTypeOK' /\ TakerChecked'
    BY <1>2 DEF Inv, ControlTypeOK, TakerChecked
  <2> QED BY <2>1, <2>2 DEF Inv
<1> QED BY <1>1, <1>2 DEF Submit

\* While the loop goes on there is a maker, and it rests on the other side.
LEMMA MakerRests ==
  ASSUME Inv, Matching
  PROVE  /\ Maker \in orders /\ Maker \in Orders
         /\ Maker.side = Opposite(taker.side)
         /\ \A p \in OrdersOn(Opposite(taker.side)) \ {Maker} : Before(Maker, p)
         /\ Crosses(taker.side, Limit, Maker.price)
         /\ Maker.remaining \in Nat \ {0} /\ Maker.filled \in Nat
         /\ taker.remaining \in Nat \ {0}
<1>1. taker \in Takers /\ Opposite(taker.side) \in Sides
  BY LimitIsValid DEF Inv, Matching
<1>2. /\ OrdersOn(Opposite(taker.side)) # {}
      /\ Crosses(taker.side, Limit, Best(Opposite(taker.side)).price)
  BY DEF Matching, Marketable
<1>3. /\ Maker \in OrdersOn(Opposite(taker.side))
      /\ \A p \in OrdersOn(Opposite(taker.side)) \ {Maker} : Before(Maker, p)
  BY <1>1, <1>2, BestIsBest DEF Maker, Inv
<1>4. Maker \in orders /\ Maker \in Orders /\ Maker.side = Opposite(taker.side)
  BY <1>3, OrderFacts DEF OrdersOn, Inv
<1>5. Maker.remaining \in Nat \ {0} /\ Maker.filled \in Nat
  BY <1>4 DEF Inv, BookInv, OrdersValid, Orders
<1>6. taker.remaining \in Nat \ {0}
  BY <1>1 DEF Matching, Takers
<1> QED BY <1>2, <1>3, <1>4, <1>5, <1>6 DEF Maker

\* What a fill trades: at least one, and no more than either side has.
LEMMA FillQuantity ==
  ASSUME Inv, Matching
  PROVE  LET fill == Min({taker.remaining, Maker.remaining})
         IN  /\ fill \in Nat \ {0}
             /\ taker.remaining - fill \in Nat
             /\ Maker.remaining - fill \in Nat
             /\ taker.remaining = fill \/ Maker.remaining = fill
<1>1. PICK t \in Nat \ {0}, m \in Nat \ {0} :
        t = taker.remaining /\ m = Maker.remaining
  BY MakerRests
<1>2. PICK fill \in Nat : fill = Min({t, m}) /\ fill \in {t, m} /\ fill <= t /\ fill <= m
  BY MinOfTwo
<1>3. fill \in Nat \ {0} /\ t - fill \in Nat /\ m - fill \in Nat
  BY <1>2
<1> QED BY <1>1, <1>2, <1>3

\* A fill removes its maker or leaves something of it to trade.
LEMMA FillKeepsInv ==
  ASSUME Inv, Fill
  PROVE  Inv'
<1> DEFINE fill == Min({taker.remaining, Maker.remaining})
           left == Maker.remaining - fill
           p    == [Maker EXCEPT !.remaining = left, !.filled = @ + fill]
<1>1. /\ Matching /\ pc = "match" /\ pc' = "match"
      /\ taker' = [taker EXCEPT !.remaining = @ - fill]
      /\ RemoveOrder(Maker) \/ (left > 0 /\ Update(Maker, p))
  BY DEF Fill, Matching
<1>2. fill \in Nat \ {0} /\ taker.remaining - fill \in Nat /\ left \in Nat
  BY <1>1, FillQuantity
<1>3. /\ Maker \in orders /\ Maker \in Orders /\ Maker.remaining \in Nat
      /\ Maker.filled \in Nat /\ Maker.filled + Maker.remaining <= MaxOrderQty
  BY <1>1, MakerRests DEF Inv, BookInv, OrdersValid
<1>4. BookInv'
  <2>1. CASE RemoveOrder(Maker)
    BY <1>3, <2>1, RemoveKeepsBook DEF Inv
  <2>2. CASE left > 0 /\ Update(Maker, p)
    <3>1. PICK f \in Nat, r \in Nat, q \in Nat :
            f = Maker.filled /\ r = Maker.remaining /\ q = fill
      BY <1>2, <1>3
    <3>2. (f + q) + (r - q) = f + r
      BY <3>1
    <3>3. /\ p \in Orders /\ p.id = Maker.id /\ p.side = Maker.side
          /\ p.price = Maker.price /\ p.seq = Maker.seq
          /\ p.remaining = left /\ p.filled = Maker.filled + fill
      <4>1. PICK m \in Orders, a \in Nat, c \in Nat :
              m = Maker /\ a = left /\ c = Maker.filled + fill
        BY <1>2, <1>3
      <4>2. p = [m EXCEPT !.remaining = a, !.filled = c]
        BY <4>1
      <4> HIDE DEF p, left, fill
      <4> QED BY <4>1, <4>2 DEF Orders
    <3>4. p.filled + p.remaining <= MaxOrderQty
      BY <1>3, <3>1, <3>2, <3>3
    <3> HIDE DEF p, left
    <3> QED BY <1>3, <2>2, <3>3, <3>4, UpdateKeepsBook DEF Inv
  <2> QED BY <1>1, <2>1, <2>2
<1>5. ControlTypeOK' /\ TakerChecked'
  <2>1. taker \in Takers /\ taker.remaining <= MaxOrderQty
        /\ (taker.kind.price # None => PriceOk(taker.kind.price))
    BY <1>1 DEF Inv, ControlTypeOK, TakerChecked
  <2>2. PICK r \in Nat, q \in Nat : r = taker.remaining /\ q = fill
    BY <1>2, <2>1 DEF Takers
  <2>3. r - q \in Nat /\ r - q <= MaxOrderQty
    BY <1>2, <2>1, <2>2, ConfigValid
  <2> HIDE DEF fill
  <2>4. /\ taker' \in Takers /\ taker'.kind = taker.kind
        /\ taker'.remaining = r - q
    BY <1>1, <2>1, <2>2, <2>3 DEF Takers
  <2> QED BY <1>1, <2>1, <2>3, <2>4 DEF ControlTypeOK, TakerChecked
<1> QED BY <1>4, <1>5 DEF Inv

\* What rests at the end of submit() meets no order of the other side, because
\* the loop stopped with something left.
LEMMA RestKeepsInv ==
  ASSUME Inv, pc = "match", ~Matching, taker.remaining > 0, Rest
  PROVE  Inv'
<1> DEFINE s  == Last(free)
           id == OrderId(s, generations[s] + 1)
           t  == [id |-> id, account |-> taker.account, side |-> taker.side,
                  price |-> Limit, remaining |-> taker.remaining, filled |-> 0,
                  seq |-> next_seq]
<1>1. free # <<>> /\ Insert(t, s) /\ \E events : Return(events)
  BY DEF Rest
<1>2. /\ taker \in Takers /\ Limit \in Nat /\ PriceOk(Limit)
      /\ taker.remaining \in Nat /\ taker.remaining <= MaxOrderQty
      /\ taker.side \in Sides
  BY LimitIsValid DEF Inv, TakerChecked, Takers
<1>3. s \in Slots /\ generations[s] + 1 \in Nat /\ next_seq \in Nat
  BY <1>1, FrontLast DEF Inv, BookInv, BookTypeOK
<1>4. /\ t \in Orders /\ t.id = id /\ t.seq = next_seq /\ t.side = taker.side
      /\ t.price = Limit /\ t.remaining = taker.remaining /\ t.filled = 0
  BY <1>2, <1>3 DEF Orders, OrderId, Takers
<1>5. \A p \in orders :
        p.side = Opposite(taker.side) => ~Crosses(taker.side, Limit, p.price)
  BY <1>2, NotMarketable DEF Inv, Matching
<1>6. t.filled + t.remaining <= MaxOrderQty /\ t.remaining > 0
  BY <1>2, <1>4
<1> HIDE DEF t
<1>7. BookInv'
  BY <1>1, <1>2, <1>4, <1>5, <1>6, InsertKeepsBook DEF Inv
<1> QED BY <1>1, <1>7, ReturnKeepsControl DEF Inv

\* The end of submit(): what rests crosses nothing, the rest leaves the book alone.
LEMMA FinishKeepsInv ==
  ASSUME Inv, Finish
  PROVE  Inv'
<1>1. CASE UNCHANGED book /\ \E events : Return(events)
  BY <1>1, UnchangedKeepsBook, ReturnKeepsControl DEF Inv
<1>2. CASE pc = "match" /\ ~Matching /\ taker.remaining > 0 /\ Rest
  BY <1>2, RestKeepsInv
<1> QED BY <1>1, <1>2 DEF Finish

\* A new book: all slots free, no orders.
LEMMA InitInv == Init => Inv
<1> SUFFICES ASSUME Init PROVE Inv
  OBVIOUS
<1>1. /\ generations = [s \in Slots |-> 0] /\ retired = 0 /\ orders = {}
      /\ free = [i \in 1 .. Capacity |-> Capacity - i]
      /\ next_seq = 0 /\ pc = "ready" /\ taker = None
  BY DEF Init
<1>2. Capacity \in Nat \ {0}
  BY ConfigValid
<1>3. /\ free \in Seq(Slots) /\ Len(free) = Capacity /\ DOMAIN free = 1 .. Capacity
      /\ \A i \in 1 .. Capacity : free[i] = Capacity - i /\ free[i] \in Slots
  <2>1. \A i \in 1 .. Capacity : Capacity - i \in Slots
    BY <1>2 DEF Slots
  <2>2. free \in [1 .. Capacity -> Slots]
    BY <1>1, <2>1
  <2> QED BY <1>1, <1>2, <2>1, <2>2
<1>4. BookTypeOK /\ IsFiniteSet(orders) /\ Cardinality(orders) = 0
  BY <1>1, <1>3, FS_EmptySet DEF BookTypeOK
<1>5. SlotsCounted
  BY <1>1, <1>2, <1>3, <1>4 DEF SlotsCounted
<1>6. FreeSlotsAreFree /\ FreeSlotsUsable
  BY <1>1, <1>2, <1>3, ConfigValid DEF FreeSlotsAreFree, FreeSlotsUsable, LiveSlots
<1>7. OrdersHoldSlots /\ OddSlotsAreLive /\ GenerationsBounded /\ OrdersValid
      /\ SeqsDistinct /\ BookNotCrossed
  BY <1>1, ConfigValid DEF OrdersHoldSlots, OddSlotsAreLive, GenerationsBounded,
                           OrdersValid, SeqsDistinct, BookNotCrossed
<1>8. ControlTypeOK /\ TakerChecked
  BY <1>1 DEF ControlTypeOK, TakerChecked
<1> QED BY <1>4, <1>5, <1>6, <1>7, <1>8 DEF Inv, BookInv, SlotAccounting

\* Every step keeps the invariant.
LEMMA NextKeepsInv == Inv /\ [Next]_vars => Inv'
<1> SUFFICES ASSUME Inv, [Next]_vars PROVE Inv'
  OBVIOUS
<1>1. CASE Command
  <2>1. CASE \E account \in Accounts, side \in Sides, qty \in InputQtys,
                kind \in InputKinds : NewOrder(account, side, qty, kind)
    BY <2>1, NewOrderKeepsInv DEF InputKinds
  <2>2. CASE \E account \in Accounts, id \in InputIds : Cancel(account, id)
    BY <2>2, CancelKeepsInv
  <2>3. CASE \E account \in Accounts, id \in InputIds, total \in InputQtys :
               Reduce(account, id, total)
    BY <2>3, ReduceKeepsInv
  <2>4. CASE \E account \in Accounts, id \in InputIds, total \in InputQtys,
                price \in InputPrices, post_only \in BOOLEAN :
               Replace(account, id, price, total, post_only)
    BY <2>4, ReplaceKeepsInv
  <2> QED BY <1>1, <2>1, <2>2, <2>3, <2>4 DEF Command
<1>2. CASE Submit
  BY <1>2, SubmitKeepsInv
<1>3. CASE Fill
  BY <1>3, FillKeepsInv
<1>4. CASE SelfTrade
  BY <1>4, UnchangedKeepsBook, ReturnKeepsControl DEF SelfTrade, Inv
<1>5. CASE Finish
  BY <1>5, FinishKeepsInv
<1>6. CASE Drain
  BY <1>6, UnchangedKeepsBook DEF Drain, Inv, ControlTypeOK, TakerChecked
<1>7. CASE UNCHANGED vars
  <2>1. UNCHANGED book /\ pc' = pc /\ taker' = taker
    BY <1>7 DEF vars, book
  <2> QED BY <2>1, UnchangedKeepsBook DEF Inv, ControlTypeOK, TakerChecked
<1> QED BY <1>1, <1>2, <1>3, <1>4, <1>5, <1>6, <1>7 DEF Next, Running

\* The invariant holds in every reachable state of the reference engine:
\* between commands, and at every turn of the matching loop.
THEOREM InvHolds == Spec => []Inv
  BY InitInv, NextKeepsInv, PTL DEF Spec

----------------------------------------------------------------------------
\* The reference engine keeps the types of its state.
THEOREM TypeCorrect == Spec => []TypeOK
<1>1. Inv => TypeOK
  BY DEF Inv, BookInv, TypeOK
<1> QED BY <1>1, InvHolds, PTL

\* S1, S2, S3, S4: however often slots are handed out, given back and retired,
\* every one is accounted for once.
THEOREM SlotsAccounted == Spec => []SlotAccounting
<1>1. Inv => SlotAccounting
  BY DEF Inv, BookInv
<1> QED BY <1>1, InvHolds, PTL

\* N1, N2: every resting order is within the configured bounds.
THEOREM OrdersStayValid == Spec => []OrdersValid
<1>1. Inv => OrdersValid
  BY DEF Inv, BookInv
<1> QED BY <1>1, InvHolds, PTL

\* L6: no stream of commands crosses the book.
THEOREM NeverCrossed == Spec => []BookNotCrossed
<1>1. Inv => BookNotCrossed
  BY DEF Inv, BookInv
<1> QED BY <1>1, InvHolds, PTL

----------------------------------------------------------------------------
(***************************************************************************)
(* Time priority: no step moves an order that stays.                       *)
(***************************************************************************)
LEMMA StaysInPlace ==
  ASSUME BookInv, NEW o \in orders
  PROVE  o.id \in Ids(orders) /\ InPlaceOf(o, o)
<1>1. o.remaining \in Nat /\ o.filled \in Nat
  BY OrderFacts DEF Orders
<1> QED BY <1>1 DEF Ids, InPlaceOf

\* A step that takes orders off the book or leaves it alone.
LEMMA FewerKeepPlaces ==
  ASSUME BookInv, orders' \subseteq orders
  PROVE  KeepPlaces
  BY StaysInPlace DEF KeepPlaces

\* A step that writes to one order.
LEMMA UpdateKeepsPlaces ==
  ASSUME BookInv, NEW o \in orders, NEW p, Update(o, p), InPlaceOf(p, o)
  PROVE  KeepPlaces
<1>1. p.id \in Ids(orders)
  BY DEF InPlaceOf, Ids
<1> QED BY <1>1, StaysInPlace DEF KeepPlaces, Update

\* An order that comes to rest has a new id and is the last to arrive.
LEMMA RestKeepsPlaces ==
  ASSUME BookInv, Rest
  PROVE  KeepPlaces
<1>1. PICK s \in Slots : s = Last(free) /\ s = free[Len(free)] /\ Len(free) \in DOMAIN free
  <2>1. free \in Seq(Slots) /\ free # <<>>
    BY DEF BookInv, BookTypeOK, Rest
  <2> QED BY <2>1, FrontLast
<1>2. PICK t : t = [id |-> OrderId(s, generations[s] + 1), account |-> taker.account,
                    side |-> taker.side, price |-> Limit,
                    remaining |-> taker.remaining, filled |-> 0, seq |-> next_seq]
  OBVIOUS
<1>3. Insert(t, s)
  BY <1>1, <1>2 DEF Rest
<1>4. SlotOf(t.id) = s /\ t.seq = next_seq
  BY <1>2 DEF SlotOf, OrderId
<1>5. t.id \notin Ids(orders)
  <2>1. s \notin LiveSlots
    BY <1>1 DEF BookInv, SlotAccounting, FreeSlotsAreFree
  <2> QED BY <1>4, <2>1 DEF LiveSlots, Ids
<1>6. \A o \in orders : o.seq < t.seq
  BY <1>4 DEF BookInv, SeqsDistinct
<1>7. orders' = orders \cup {t}
  BY <1>3 DEF Insert
<1> QED BY <1>5, <1>6, <1>7, StaysInPlace DEF KeepPlaces

\* A reduction changes what remains of its order and nothing else.
LEMMA ReduceKeepsPlaces ==
  ASSUME BookInv, NEW account, NEW id, NEW total \in Nat,
         Reduce(account, id, total)
  PROVE  KeepPlaces
<1>1. ASSUME NEW o \in orders, ReduceTo(o, total),
             o.filled < total, total <= o.filled + o.remaining
      PROVE  KeepPlaces
  <2>1. PICK f \in Nat, r \in Nat : f = o.filled /\ r = o.remaining /\ o \in Orders
    BY OrderFacts DEF Orders
  <2>2. /\ total - f \in Nat /\ (total - f) + f <= r + f
        /\ ~(f > f)
    BY <1>1, <2>1
  <2>3. PICK p : p = [o EXCEPT !.remaining = total - f]
    OBVIOUS
  <2>4. /\ p.id = o.id /\ p.account = o.account /\ p.side = o.side
        /\ p.price = o.price /\ p.seq = o.seq
        /\ p.remaining = total - f /\ p.filled = f
    BY <2>1, <2>3 DEF Orders
  <2>5. InPlaceOf(p, o)
    BY <2>1, <2>2, <2>4 DEF InPlaceOf
  <2>6. Update(o, p)
    BY <1>1, <2>1, <2>3 DEF ReduceTo
  <2> QED BY <2>5, <2>6, UpdateKeepsPlaces
<1>2. orders' \subseteq orders \/ \E o \in orders :
        ReduceTo(o, total) /\ o.filled < total /\ total <= o.filled + o.remaining
  BY DEF Reduce, ReduceOwned, Reject, book, RemoveOrder, Owned
<1> QED BY <1>1, <1>2, FewerKeepPlaces

\* A fill moves a quantity of its maker from remaining to filled.
LEMMA FillKeepsPlaces ==
  ASSUME Inv, Fill
  PROVE  KeepPlaces
<1>1. Matching
  BY DEF Fill
<1>2. PICK m \in orders, r \in Nat, f \in Nat :
        m = Maker /\ m \in Orders /\ r = m.remaining /\ f = m.filled
  BY <1>1, MakerRests
<1>3. PICK q \in Nat : q = Min({taker.remaining, Maker.remaining}) /\ r - q \in Nat
  BY <1>1, <1>2, FillQuantity
<1>4. PICK p : p = [m EXCEPT !.remaining = r - q, !.filled = f + q]
  OBVIOUS
<1>5. RemoveOrder(m) \/ Update(m, p)
  BY <1>2, <1>3, <1>4 DEF Fill
<1>6. InPlaceOf(p, m)
  <2>1. /\ p.id = m.id /\ p.account = m.account /\ p.side = m.side
        /\ p.price = m.price /\ p.seq = m.seq
        /\ p.remaining = r - q /\ p.filled = f + q
    BY <1>2, <1>4 DEF Orders
  <2>2. (r - q) + (f + q) = r + f
    BY <1>2, <1>3
  <2> QED BY <1>2, <2>1, <2>2 DEF InPlaceOf
<1>7. CASE RemoveOrder(m)
  BY <1>7, FewerKeepPlaces DEF RemoveOrder, Inv
<1> QED BY <1>5, <1>6, <1>7, UpdateKeepsPlaces DEF Inv

\* No step moves an order that stays.
LEMMA NextKeepsPlaces ==
  ASSUME Inv, [Next]_vars
  PROVE  KeepPlaces
<1>1. CASE UNCHANGED book
  BY <1>1, FewerKeepPlaces DEF book, Inv
<1>2. CASE \E o \in orders : RemoveOrder(o)
  BY <1>2, FewerKeepPlaces DEF RemoveOrder, Inv
<1>3. CASE Command
  <2>1. ASSUME NEW account, NEW side, NEW qty, NEW kind,
               NewOrder(account, side, qty, kind)
        PROVE  KeepPlaces
    BY <1>1, <2>1 DEF NewOrder, Reject
  <2>2. ASSUME NEW account, NEW id, Cancel(account, id)
        PROVE  KeepPlaces
    BY <1>1, <1>2, <2>2 DEF Cancel, Reject, Owned
  <2>3. ASSUME NEW account, NEW id, NEW total \in InputQtys,
               Reduce(account, id, total)
        PROVE  KeepPlaces
    BY <2>3, ReduceKeepsPlaces, InputsValid DEF Inv
  <2>4. ASSUME NEW account, NEW id, NEW price, NEW total, NEW post_only,
               Replace(account, id, price, total, post_only)
        PROVE  KeepPlaces
    BY <1>1, <1>2, <2>4 DEF Replace, ReplaceRefused, ReplaceOwned, Reject, Owned
  <2> QED BY <1>3, <2>1, <2>2, <2>3, <2>4 DEF Command
<1>4. CASE Fill
  BY <1>4, FillKeepsPlaces
<1>5. CASE Submit \/ SelfTrade \/ Drain \/ UNCHANGED vars
  BY <1>1, <1>5 DEF Submit, SelfTrade, Drain, Reject, vars, book
<1>6. CASE Finish
  BY <1>1, <1>6, RestKeepsPlaces DEF Finish, Inv
<1> QED BY <1>3, <1>4, <1>5, <1>6 DEF Next, Running

\* O2, 007: a resting order keeps its place in its queue, whatever happens to
\* it and around it, and its quantities only move from remaining to filled.
THEOREM PlacesKept == Spec => RestingOrdersKeepTheirPlace
<1>1. Inv /\ [Next]_vars => [KeepPlaces]_vars
  BY NextKeepsPlaces
<1> QED BY <1>1, InvHolds, PTL DEF Spec, RestingOrdersKeepTheirPlace

----------------------------------------------------------------------------
(***************************************************************************)
(* The reference engine implements OrderLifecycle: no id is ever given to  *)
(* two orders, however slots are reused and retired.                       *)
(***************************************************************************)
\* The ids of the abstract specification are those of Reference.
LEMMA LifecycleIds ==
  /\ Lifecycle!OrderIds = Slots \X LiveGenerations
  /\ \A id : Lifecycle!SlotOf(id) = SlotOf(id)
  BY DEF Lifecycle!OrderIds, Lifecycle!Slots, Slots, LiveGenerations,
         Lifecycle!SlotOf, SlotOf

\* A step that leaves the slots and the set of resting ids alone changes the
\* status of no id.
LEMMA SameIdsSameStatus ==
  ASSUME Ids(orders)' = Ids(orders), UNCHANGED <<generations, free>>
  PROVE  Statuses' = Statuses
<1>1. LiveSlots' = LiveSlots
  <2>1. LiveSlots = {SlotOf(id) : id \in Ids(orders)}
    BY DEF LiveSlots, Ids
  <2>2. LiveSlots' = {SlotOf(id) : id \in Ids(orders)'}
    BY DEF LiveSlots, Ids
  <2> QED BY <2>1, <2>2
<1> QED BY <1>1 DEF Statuses, Status, LastUsed, IsFree

\* A step that touches one slot changes the status of no id of another one.
LEMMA OtherSlotSameStatus ==
  ASSUME NEW s \in Slots, NEW id, SlotOf(id) # s,
         generations'[SlotOf(id)] = generations[SlotOf(id)],
         IsFree(SlotOf(id))' <=> IsFree(SlotOf(id)),
         SlotOf(id) \in LiveSlots' <=> SlotOf(id) \in LiveSlots,
         id \in Ids(orders)' <=> id \in Ids(orders)
  PROVE  Status(id)' = Status(id)
  BY DEF Status, LastUsed

\* Taking an order off the book ends the life of its id and of no other.
LEMMA RemoveFinishes ==
  ASSUME BookInv, NEW o \in orders, RemoveOrder(o)
  PROVE  Lifecycle!Finish(o.id)
<1> DEFINE s == SlotOf(o.id)
           g == generations[s]
<1>0. o \in Orders /\ s \in Slots /\ g \in Nat /\ g >= 1 /\ g % 2 = 1
      /\ (g - 1) % 2 = 0 /\ (g + 1) % 2 = 0 /\ g <= GenerationLimit
      /\ o.id \in Slots \X Nat /\ GenerationOf(o.id) = g
  BY OrderFacts DEF BookInv, SlotAccounting, GenerationsBounded, OrdersHoldSlots
<1>1. orders' = orders \ {o}
  BY DEF RemoveOrder
<1>2. \/ /\ generations' = [generations EXCEPT ![s] = g - 1]
         /\ free' = free
      \/ /\ generations' = [generations EXCEPT ![s] = g + 1]
         /\ free' = Append(free, s)
  BY DEF RemoveOrder, Release
<1>3. generations \in [Slots -> Nat] /\ free \in Seq(Slots)
  BY DEF BookInv, BookTypeOK
<1>4. s \in LiveSlots /\ ~IsFree(s) /\ o.id \in Ids(orders)
  BY DEF LiveSlots, IsFree, Ids, BookInv, SlotAccounting, FreeSlotsAreFree
<1>5. \A p \in orders' : p \in orders /\ SlotOf(p.id) # s
  BY <1>1 DEF BookInv, SlotAccounting, OrdersHoldSlots
<1>6. s \notin LiveSlots' /\ LiveSlots' = LiveSlots \ {s}
  BY <1>1, <1>5 DEF LiveSlots
<1>7. /\ Ids(orders)' = Ids(orders) \ {o.id}
      /\ \A id \in Ids(orders) : SlotOf(id) = s => id = o.id
  BY <1>1, <1>5 DEF Ids, BookInv, SlotAccounting, OrdersHoldSlots
<1>8. \A t \in Slots \ {s} : IsFree(t)' <=> IsFree(t)
  <2>1. CASE free' = free
    BY <2>1 DEF IsFree
  <2>2. CASE free' = Append(free, s)
    <3>1. /\ DOMAIN free = 1 .. Len(free) /\ Len(free) \in Nat
          /\ DOMAIN free' = 1 .. Len(free) + 1
          /\ \A i \in DOMAIN free : free'[i] = free[i]
          /\ free'[Len(free) + 1] = s
      BY <1>0, <1>3, <2>2
    <3>2. \A i \in DOMAIN free' : i \in DOMAIN free \/ i = Len(free) + 1
      BY <3>1
    <3>3. DOMAIN free \subseteq DOMAIN free'
      BY <3>1
    <3> QED BY <3>1, <3>2, <3>3 DEF IsFree
  <2> QED BY <1>2, <2>1, <2>2
<1>9. LastUsed(s) = g /\ (LastUsed(s)' = g \/ LastUsed(s)' = g + 1)
  <2>1. LastUsed(s) = g
    BY <1>4 DEF LastUsed
  <2>2. CASE generations' = [generations EXCEPT ![s] = g - 1] /\ free' = free
    <3>1. generations'[s] = g - 1 /\ ~IsFree(s)'
      BY <1>0, <1>3, <1>4, <2>2 DEF IsFree
    <3>2. LastUsed(s)' = generations'[s] + 1
      BY <1>6, <3>1 DEF LastUsed
    <3> HIDE DEF g, s
    <3> QED BY <1>0, <2>1, <3>1, <3>2
  <2>3. CASE /\ generations' = [generations EXCEPT ![s] = g + 1]
             /\ free' = Append(free, s)
    <3>1. generations'[s] = g + 1
      BY <1>0, <1>3, <2>3
    <3>2. free'[Len(free) + 1] = s /\ Len(free) + 1 \in DOMAIN free'
      BY <1>0, <1>3, <2>3
    <3>3. IsFree(s)'
      BY <3>2 DEF IsFree
    <3> QED BY <2>1, <3>1, <3>3 DEF LastUsed
  <2> QED BY <1>2, <2>2, <2>3
<1>10. o.id \in Slots \X LiveGenerations
  <2>1. GenerationOf(o.id) \in LiveGenerations
    BY <1>0, ConfigValid DEF LiveGenerations
  <2> QED BY <1>0, <2>1 DEF GenerationOf
<1>11. Statuses[o.id] = "live" /\ Status(o.id)' = "done"
  BY <1>0, <1>4, <1>7, <1>9, <1>10 DEF Statuses, Status
<1>12. ASSUME NEW id \in Slots \X LiveGenerations, id # o.id
       PROVE  Status(id)' = Status(id)
  <2>1. CASE SlotOf(id) # s
    <3>1. SlotOf(id) \in Slots
      BY DEF SlotOf
    <3>2. generations'[SlotOf(id)] = generations[SlotOf(id)]
      BY <1>2, <1>3, <2>1, <3>1
    <3> QED BY <1>0, <1>6, <1>7, <1>8, <2>1, <3>1, <3>2, OtherSlotSameStatus
  <2>2. CASE SlotOf(id) = s
    <3>1. id \notin Ids(orders) /\ id \notin Ids(orders)'
      BY <1>7, <1>12, <2>2
    <3>2. PICK n \in Nat : n = GenerationOf(id) /\ n % 2 = 1
      BY DEF GenerationOf, LiveGenerations
    <3>3. PICK k \in Nat : k = g /\ (k + 1) % 2 = 0
      BY <1>0
    <3>4. n <= k + 1 <=> n <= k
      BY <3>2, <3>3
    <3> HIDE DEF g
    <3> QED BY <1>9, <2>2, <3>1, <3>2, <3>3, <3>4 DEF Status
  <2> QED BY <2>1, <2>2
<1>13. Statuses' = [Statuses EXCEPT ![o.id] = "done"]
  BY <1>10, <1>11, <1>12 DEF Statuses
<1> QED BY <1>11, <1>13 DEF Lifecycle!Finish

\* Resting a new order begins the life of its id, at most one of the slot's.
LEMMA InsertIssues ==
  ASSUME BookInv, free # <<>>, NEW s \in Slots, s = Last(free),
         NEW t \in Orders, Insert(t, s), t.id = OrderId(s, generations[s] + 1)
  PROVE  Lifecycle!Issue(t.id)
<1> DEFINE n == Len(free)
           g == generations[s]
<1>1. /\ orders' = orders \cup {t} /\ free' = Front(free)
      /\ generations' = [generations EXCEPT ![s] = g + 1]
  BY DEF Insert
<1>2. generations \in [Slots -> Nat] /\ free \in Seq(Slots)
  BY DEF BookInv, BookTypeOK
<1>3. /\ n \in Nat /\ n >= 1 /\ DOMAIN free = 1 .. n
      /\ DOMAIN free' = 1 .. n - 1
      /\ \A i \in 1 .. n - 1 : free'[i] = free[i]
      /\ s = free[n] /\ s \in Slots /\ n \in DOMAIN free
  BY <1>1, <1>2, FrontLast
<1>4. /\ g \in Nat /\ g % 2 = 0 /\ g < GenerationLimit /\ s \notin LiveSlots
      /\ IsFree(s)
  BY <1>2, <1>3 DEF BookInv, SlotAccounting, FreeSlotsAreFree, FreeSlotsUsable, IsFree
<1>5. SlotOf(t.id) = s /\ GenerationOf(t.id) = g + 1 /\ t.id = <<s, g + 1>>
  BY DEF SlotOf, GenerationOf, OrderId
<1>6. /\ LiveSlots' = LiveSlots \cup {s}
      /\ Ids(orders)' = Ids(orders) \cup {t.id}
      /\ \A id \in Ids(orders) : SlotOf(id) # s
  BY <1>1, <1>4, <1>5 DEF LiveSlots, Ids
<1>7. \A u \in Slots \ {s} : IsFree(u)' <=> IsFree(u)
  <2> SUFFICES ASSUME NEW u \in Slots \ {s} PROVE IsFree(u)' <=> IsFree(u)
    OBVIOUS
  <2>1. \A i \in DOMAIN free : i \in DOMAIN free' \/ i = n
    <3> HIDE DEF n
    <3> QED BY <1>3
  <2>2. DOMAIN free' \subseteq DOMAIN free /\ \A i \in DOMAIN free' : free'[i] = free[i]
    <3> HIDE DEF n
    <3> QED BY <1>3
  <2> QED BY <1>3, <2>1, <2>2 DEF IsFree
<1>8. t.id \in Slots \X LiveGenerations
  <2>1. g + 1 \in LiveGenerations
    <3> HIDE DEF g
    <3> QED BY <1>4, Parity, ConfigValid DEF LiveGenerations
  <2>2. ASSUME NEW q \in LiveGenerations PROVE <<s, q>> \in Slots \X LiveGenerations
    OBVIOUS
  <2> HIDE DEF g
  <2> QED BY <1>5, <2>1, <2>2
<1>9. LastUsed(s) = g /\ LastUsed(s)' = g + 1
  BY <1>1, <1>2, <1>3, <1>4, <1>6 DEF LastUsed
<1>10. Statuses[t.id] = "unissued" /\ Status(t.id)' = "live"
  <2>1. t.id \notin Ids(orders) /\ t.id \in Ids(orders)'
    BY <1>5, <1>6
  <2>2. ~(g + 1 <= g)
    <3> HIDE DEF g
    <3> QED BY <1>4
  <2> QED BY <1>5, <1>8, <1>9, <2>1, <2>2 DEF Statuses, Status
<1>11. ASSUME NEW id \in Slots \X LiveGenerations, id # t.id
       PROVE  Status(id)' = Status(id)
  <2>1. CASE SlotOf(id) # s
    <3>1. SlotOf(id) \in Slots
      BY DEF SlotOf
    <3>2. generations'[SlotOf(id)] = generations[SlotOf(id)]
      BY <1>1, <1>2, <2>1, <3>1
    <3>3. id \in Ids(orders)' <=> id \in Ids(orders)
      BY <1>6, <1>11
    <3>4. SlotOf(id) \in LiveSlots' <=> SlotOf(id) \in LiveSlots
      BY <1>6, <2>1
    <3> QED BY <1>3, <1>7, <2>1, <3>1, <3>2, <3>3, <3>4, OtherSlotSameStatus
  <2>2. CASE SlotOf(id) = s
    <3>1. id \notin Ids(orders) /\ id \notin Ids(orders)'
      BY <1>6, <1>11, <2>2
    <3>2. PICK m \in Nat : m = GenerationOf(id) /\ m # g + 1
      BY <1>5, <1>11, <2>2 DEF GenerationOf, SlotOf, LiveGenerations
    <3>3. PICK k \in Nat : k = g
      BY <1>4
    <3>4. m <= k + 1 <=> m <= k
      BY <3>2, <3>3
    <3> HIDE DEF g
    <3> QED BY <1>9, <2>2, <3>1, <3>2, <3>3, <3>4 DEF Status
  <2> QED BY <2>1, <2>2
<1>12. Statuses' = [Statuses EXCEPT ![t.id] = "live"]
  BY <1>8, <1>10, <1>11 DEF Statuses
<1>13. ASSUME NEW id \in Slots \X LiveGenerations, SlotOf(id) = s
       PROVE  Statuses[id] # "live"
  BY <1>6, <1>13 DEF Statuses, Status
<1> QED BY <1>5, <1>10, <1>12, <1>13, LifecycleIds DEF Lifecycle!Issue

\* At first no id has been issued.
LEMMA InitStatuses == Inv /\ Init => Lifecycle!Init
<1> SUFFICES ASSUME Inv, Init PROVE Lifecycle!Init
  OBVIOUS
<1>1. ASSUME NEW id \in Slots \X LiveGenerations
      PROVE  Status(id) = "unissued"
  <2>1. SlotOf(id) \in Slots /\ GenerationOf(id) \in Nat /\ GenerationOf(id) >= 1
    BY DEF SlotOf, GenerationOf, LiveGenerations
  <2>2. orders = {} /\ generations = [t \in Slots |-> 0]
    BY DEF Init
  <2>3. IsFree(SlotOf(id))
    <3>1. PICK u \in Nat : u = SlotOf(id) /\ u <= Capacity - 1
      BY <2>1, ConfigValid DEF Slots
    <3>2. Capacity - u \in 1 .. Capacity /\ Capacity - (Capacity - u) = u
      BY <3>1, ConfigValid
    <3> QED BY <3>1, <3>2 DEF Init, IsFree
  <2>4. LastUsed(SlotOf(id)) = 0
    BY <2>1, <2>2, <2>3 DEF LastUsed
  <2> QED BY <2>1, <2>2, <2>4 DEF Status, Ids
<1> QED BY <1>1, LifecycleIds DEF Lifecycle!Init, Statuses

\* Every step issues an id, finishes one, or does neither.
LEMMA NextStatuses ==
  ASSUME Inv, [Next]_vars
  PROVE  Lifecycle!Next \/ UNCHANGED Statuses
<1>0. \A o \in orders : o.id \in Lifecycle!OrderIds
  <2> SUFFICES ASSUME NEW o \in orders PROVE o.id \in Lifecycle!OrderIds
    OBVIOUS
  <2>1. PICK s \in Slots, g \in Nat : o.id = <<s, g>> /\ g % 2 = 1
    BY OrderFacts DEF Inv, BookInv, SlotAccounting, OrdersHoldSlots, GenerationOf
  <2>2. g = generations[s] /\ g <= GenerationLimit
    BY <2>1 DEF Inv, BookInv, SlotAccounting, OrdersHoldSlots, SlotOf,
                GenerationOf, GenerationsBounded
  <2>3. g \in LiveGenerations
    BY <2>1, <2>2, ConfigValid DEF LiveGenerations
  <2> QED BY <2>1, <2>3, LifecycleIds
<1>1. CASE UNCHANGED book
  <2>1. generations' = generations /\ free' = free /\ Ids(orders)' = Ids(orders)
    BY <1>1 DEF book, Ids
  <2> QED BY <2>1, SameIdsSameStatus
<1>2. ASSUME NEW o \in orders, RemoveOrder(o) PROVE Lifecycle!Next
  BY <1>0, <1>2, RemoveFinishes DEF Inv, Lifecycle!Next
<1>3. ASSUME NEW o \in orders, NEW p, Update(o, p), p.id = o.id
      PROVE  UNCHANGED Statuses
  <2>1. Ids(orders)' = Ids(orders)
    BY <1>3 DEF Update, Ids
  <2> QED BY <1>3, <2>1, SameIdsSameStatus DEF Update
<1>4. CASE Rest /\ pc = "match"
  <2> DEFINE order(s) ==
        [id |-> OrderId(s, generations[s] + 1), account |-> taker.account,
         side |-> taker.side, price |-> Limit, remaining |-> taker.remaining,
         filled |-> 0, seq |-> next_seq]
  <2>1. free # <<>> /\ Insert(order(Last(free)), Last(free))
    BY <1>4 DEF Rest
  <2>2. free \in Seq(Slots) /\ generations \in [Slots -> Nat] /\ next_seq \in Nat
    BY DEF Inv, BookInv, BookTypeOK
  <2>3. PICK s \in Slots : s = Last(free) /\ s = free[Len(free)] /\ Len(free) \in DOMAIN free
    BY <2>1, <2>2, FrontLast
  <2>4. generations[s] + 1 \in LiveGenerations
    <3>1. PICK g \in Nat : g = generations[s]
      BY <2>2
    <3>2. g < GenerationLimit /\ g % 2 = 0
      BY <2>3, <3>1 DEF Inv, BookInv, SlotAccounting, FreeSlotsAreFree, FreeSlotsUsable
    <3> QED BY <3>1, <3>2, Parity, ConfigValid DEF LiveGenerations
  <2>5. /\ taker \in Takers /\ Limit \in Nat /\ taker.remaining \in Nat
        /\ taker.side \in Sides /\ taker.account \in Accounts
    BY <1>4, LimitIsValid DEF Inv, Takers
  <2>6. PICK t : t = order(s)
    OBVIOUS
  <2>7. t \in Orders /\ t.id = OrderId(s, generations[s] + 1)
    BY <2>2, <2>4, <2>5, <2>6 DEF Orders, OrderId, LiveGenerations
  <2>8. t.id \in Lifecycle!OrderIds
    BY <2>4, <2>7, LifecycleIds DEF OrderId
  <2>9. Insert(t, s)
    BY <2>1, <2>3, <2>6
  <2>10. Lifecycle!Issue(t.id)
    <3> HIDE DEF order
    <3> QED BY <2>1, <2>3, <2>7, <2>9, InsertIssues DEF Inv
  <2> QED BY <2>8, <2>10 DEF Lifecycle!Next
<1>5. CASE Command
  <2>1. ASSUME NEW account, NEW id, Cancel(account, id)
        PROVE  UNCHANGED book \/ \E o \in orders : RemoveOrder(o)
    BY <2>1 DEF Cancel, Reject, Owned
  <2>2. ASSUME NEW account, NEW id, NEW total, Reduce(account, id, total)
        PROVE  \/ UNCHANGED book
               \/ \E o \in orders : RemoveOrder(o)
               \/ \E o \in orders : Update(o, [o EXCEPT !.remaining = total - o.filled])
    BY <2>2 DEF Reduce, ReduceOwned, ReduceTo, Reject, Owned
  <2>3. ASSUME NEW account, NEW id, NEW price, NEW total, NEW post_only,
               Replace(account, id, price, total, post_only)
        PROVE  UNCHANGED book \/ \E o \in orders : RemoveOrder(o)
    BY <2>3 DEF Replace, ReplaceRefused, ReplaceOwned, Reject, Owned
  <2>4. ASSUME NEW account, NEW side, NEW qty, NEW kind,
               NewOrder(account, side, qty, kind)
        PROVE  UNCHANGED book
    BY <2>4 DEF NewOrder, Reject
  <2>5. \A o \in orders : \A r : [o EXCEPT !.remaining = r].id = o.id
    BY OrderFacts DEF Inv, Orders
  <2> QED BY <1>1, <1>2, <1>3, <1>5, <2>1, <2>2, <2>3, <2>4, <2>5 DEF Command
<1>6. CASE Fill
  <2> DEFINE fill == Min({taker.remaining, Maker.remaining})
             p    == [Maker EXCEPT !.remaining = Maker.remaining - fill,
                                   !.filled = @ + fill]
  <2>1. Matching /\ (RemoveOrder(Maker) \/ Update(Maker, p))
    BY <1>6 DEF Fill
  <2>2. PICK m \in orders : m = Maker /\ m \in Orders
    BY <2>1, MakerRests
  <2>3. p.id = m.id
    BY <2>2 DEF Orders
  <2> HIDE DEF p
  <2> QED BY <1>2, <1>3, <2>1, <2>2, <2>3
<1>7. CASE Submit \/ SelfTrade \/ Drain
  BY <1>1, <1>7 DEF Submit, SelfTrade, Drain, Reject
<1>8. CASE Finish
  BY <1>1, <1>4, <1>8 DEF Finish
<1>9. CASE UNCHANGED vars
  BY <1>1, <1>9 DEF vars, book
<1> QED BY <1>5, <1>6, <1>7, <1>8, <1>9 DEF Next, Running

----------------------------------------------------------------------------
\* S4: an id that has named an order never names another, for every capacity
\* and generation limit: the reference implements OrderLifecycle.
THEOREM IdsLiveOnce == Spec => IdsNeverReused
<1>1. Init => Lifecycle!Init
  BY InitInv, InitStatuses
<1>2. Inv /\ [Next]_vars => Lifecycle!Next \/ UNCHANGED Statuses
  BY NextStatuses
<1>3. Spec => []Inv
  BY InvHolds
<1> QED BY <1>1, <1>2, <1>3, PTL DEF Spec, IdsNeverReused, Lifecycle!Spec
=============================================================================
