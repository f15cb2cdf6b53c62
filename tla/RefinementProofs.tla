-------------------------- MODULE RefinementProofs --------------------------
(***************************************************************************)
(* FastBook implements Reference, for every configuration and every stream *)
(* of commands: from the inductive invariant of FastBookProofs, and that   *)
(* the queues are in order of arrival, every step of FastBook is the step  *)
(* of Reference on the orders that the live slots stand for.               *)
(***************************************************************************)
EXTENDS FastBookProofs, FastBookRefinement

\* A recorded arrival is a number below the next one.
Arrived ==
  /\ arrival \in [Slots -> Nat] /\ arrivals \in Nat
  /\ \A s \in LiveSlots : arrival[s] < arrivals

HInv == Inv /\ Arrived /\ QueueOrderIsArrivalOrder

\* IsLive and LiveSlots speak of the book, Live and LiveIn of any book.
LEMMA LiveIsLive ==
  /\ \A s : IsLive(s) <=> Live(book, s)
  /\ LiveSlots = {s \in Slots : Live(book, s)}
BY DEF IsLive, Live, LiveSlots

----------------------------------------------------------------------------
(***************************************************************************)
(* The head of the best level is the order Reference finds                 *)
(***************************************************************************)
\* The fields of the order in a slot.
LEMMA OrderFields ==
  ASSUME Inv, NEW s \in Slots
  PROVE  /\ OrderIn(s).id = OrderId(s, book.slots[s].generation)
         /\ SlotOf(OrderIn(s).id) = s
         /\ GenerationOf(OrderIn(s).id) = book.slots[s].generation
         /\ OrderIn(s).account = book.slots[s].account
         /\ OrderIn(s).side = book.slots[s].side
         /\ OrderIn(s).price = book.slots[s].price
         /\ OrderIn(s).remaining = book.slots[s].remaining
         /\ OrderIn(s).filled = book.slots[s].filled
         /\ OrderIn(s).seq = arrival[s]
BY DEF OrderIn, IdOf, OrderId, SlotOf, GenerationOf

\* In a level that has orders the head is one, and has arrived before all the
\* others: an order with none before it in its queue is the head.
LEMMA HeadIsOldest ==
  ASSUME HInv, NEW side \in Sides, NEW p \in Ticks,
         NEW q \in Slots, InLevel(book, q, side, p)
  PROVE  LET h == book.levels[side][p].head
         IN  /\ h \in Slots /\ InLevel(book, h, side, p) /\ Bit(book, side, p)
             /\ \A s \in Slots :
                  InLevel(book, s, side, p) /\ s # h => arrival[h] < arrival[s]
<1> DEFINE h == book.levels[side][p].head
           Q == {t \in Slots : InLevel(book, t, side, p)}
           A == {arrival[t] : t \in Q}
<1>1. /\ book \in Shapes /\ NeighboursAgree(book) /\ EndsAgree(book)
      /\ \A t \in Slots : arrival[t] \in Nat
      /\ NIL \notin Slots
  BY TicksFit DEF HInv, Inv, Sound, Arrived
<1>2. ASSUME NEW t \in Q, t # h
      PROVE  \E u \in Q : arrival[u] < arrival[t]
  <2> DEFINE u == book.slots[t].prev
  <2>1. /\ t \in Slots /\ Live(book, t)
        /\ book.slots[t].side = side /\ book.slots[t].price = p
    BY <1>2 DEF InLevel
  <2>2. u # NIL
    BY <1>1, <1>2, <2>1 DEF NeighboursAgree
  <2>3. u \in Slots
    BY <1>1, <2>1, <2>2, SlotFacts
  <2>4. /\ Live(book, u) /\ SameLevel(book, t, u) /\ book.slots[u].next = t
    BY <1>1, <2>1, <2>2 DEF NeighboursAgree
  <2> HIDE DEF u
  <2>5. u \in Q
    BY <2>1, <2>3, <2>4 DEF InLevel, SameLevel
  <2>6. u \in LiveSlots /\ t # NIL
    BY <1>1, <2>1, <2>3, <2>4, LiveIsLive
  <2>7. arrival[u] < arrival[t]
    BY <2>4, <2>6 DEF HInv, QueueOrderIsArrivalOrder
  <2> QED BY <2>5, <2>7
<1>3. PICK n \in A : \A m \in A : n <= m
  <2>1. A \subseteq Nat /\ A # {}
    BY <1>1
  <2> HIDE DEF A
  <2> QED BY <2>1, LeastNatural
<1>4. PICK t \in Q : arrival[t] = n
  BY <1>3
<1>5. \A u \in Q : arrival[t] <= arrival[u] /\ arrival[u] \in Nat
  BY <1>1, <1>3, <1>4
<1>6. t = h
  BY <1>2, <1>5
<1>7. h \in Slots /\ InLevel(book, h, side, p)
  BY <1>4, <1>6
<1>8. Bit(book, side, p)
  BY <1>1, <1>7 DEF EndsAgree
<1>9. ASSUME NEW s \in Slots, InLevel(book, s, side, p), s # h
      PROVE  arrival[h] < arrival[s]
  <2>1. s \in Q
    BY <1>9
  <2>2. PICK u \in Q : arrival[u] < arrival[s]
    BY <1>2, <1>9, <2>1
  <2>3. arrival[h] <= arrival[u] /\ arrival[u] < arrival[s]
    BY <1>5, <1>6, <2>2
  <2> QED BY <1>1, <1>5, <1>6, <2>1, <2>3
<1> QED BY <1>7, <1>8, <1>9

OnSide(side) == {t \in Slots : Live(book, t) /\ book.slots[t].side = side}

\* The orders of a side are those of its live slots, and their bits are set.
LEMMA OrdersOnSide ==
  ASSUME HInv, NEW side \in Sides
  PROVE  /\ Ref!OrdersOn(side) = {OrderIn(s) : s \in OnSide(side)}
         /\ \A s \in OnSide(side) : /\ book.slots[s].price \in Ticks
                                    /\ Bit(book, side, book.slots[s].price)
                                    /\ InLevel(book, s, side, book.slots[s].price)
<1>1. ASSUME NEW s \in OnSide(side)
      PROVE  /\ book.slots[s].price \in Ticks
             /\ Bit(book, side, book.slots[s].price)
             /\ InLevel(book, s, side, book.slots[s].price)
  <2> DEFINE p == book.slots[s].price
  <2>1. p \in Ticks /\ InLevel(book, s, side, p) /\ s \in Slots
    BY <1>1, SlotFacts DEF HInv, Inv, Sound, OnSide, InLevel
  <2> HIDE DEF p
  <2>2. Bit(book, side, p)
    BY <2>1, HeadIsOldest
  <2> QED BY <2>1, <2>2 DEF p
<1>2. Ref!OrdersOn(side) = {OrderIn(s) : s \in OnSide(side)}
  <2>1. \A s \in Slots : OrderIn(s).side = book.slots[s].side
    BY OrderFields DEF HInv
  <2> QED BY <2>1, LiveIsLive DEF Ref!OrdersOn, RestingOrders, OnSide
<1> QED BY <1>1, <1>2

\* The head of the best level is the order that Reference finds.
LEMMA BestAgrees ==
  ASSUME HInv, NEW side \in Sides
  PROVE  /\ Ref!OrdersOn(side) = {} <=> Best(side) = None
         /\ Best(side) # None =>
              LET h == book.levels[side][Best(side)].head
              IN  h \in Slots /\ Ref!Best(side) = OrderIn(h)
                  /\ Ref!Best(side).price = Best(side)
<1> DEFINE b == Best(side)
           h == book.levels[side][b].head
           O == Ref!OrdersOn(side)
<1>1. book \in Shapes /\ Sound(book) /\ \A s \in Slots : arrival[s] \in Nat
  BY DEF HInv, Inv, Sound, Arrived
<1>2. O = {OrderIn(s) : s \in OnSide(side)}
  BY OrdersOnSide
<1>3. CASE b = None
  <2>1. OnSide(side) = {}
    BY <1>1, <1>3, BestTick, OrdersOnSide
  <2> QED BY <1>2, <1>3, <2>1
<1>4. CASE b # None
  <2>1. /\ b \in Ticks
        /\ \A q \in Ticks : Bit(book, side, q) =>
             IF side = "Buy" THEN q <= b ELSE b <= q
    BY <1>1, <1>4, BestTick
  <2>2. h \in Slots /\ InLevel(book, h, side, b)
    BY <1>1, <1>4, HeadOfBest
  <2> HIDE DEF b, h
  <2>3. \A s \in Slots : InLevel(book, s, side, b) /\ s # h => arrival[h] < arrival[s]
    BY <2>1, <2>2, HeadIsOldest DEF h
  <2>4. h \in OnSide(side)
    BY <2>2 DEF OnSide, InLevel
  <2>5. ASSUME NEW s \in OnSide(side), s # h
        PROVE  /\ Ref!Before(OrderIn(h), OrderIn(s))
               /\ ~Ref!Before(OrderIn(s), OrderIn(h))
    <3> DEFINE p == book.slots[s].price
    <3>1. /\ s \in Slots /\ p \in Ticks /\ Bit(book, side, p)
          /\ InLevel(book, s, side, p)
      BY <2>5, OrdersOnSide DEF OnSide
    <3>2. /\ OrderIn(s).side = side /\ OrderIn(s).price = p
          /\ OrderIn(s).seq = arrival[s]
          /\ OrderIn(h).side = side /\ OrderIn(h).price = b
          /\ OrderIn(h).seq = arrival[h]
      BY <2>2, <3>1, OrderFields DEF HInv, InLevel
    <3>3. b \in Nat /\ p \in Nat /\ arrival[s] \in Nat /\ arrival[h] \in Nat
      BY <1>1, <2>1, <2>2, <3>1, TickOfBit
    <3>4. IF side = "Buy" THEN p <= b ELSE b <= p
      BY <2>1, <3>1
    <3> HIDE DEF p
    <3>5. p = b => arrival[h] < arrival[s]
      BY <2>3, <2>5, <3>1
    <3> QED BY <3>2, <3>3, <3>4, <3>5 DEF Ref!Before, Ref!Crosses
  <2>6. O # {} /\ OrderIn(h) \in O
    BY <1>2, <2>4
  <2>7. \A o \in O \ {OrderIn(h)} : /\ Ref!Before(OrderIn(h), o)
                                   /\ ~Ref!Before(o, OrderIn(h))
    BY <1>2, <2>5
  <2>8. Ref!Best(side) = OrderIn(h)
    <3> DEFINE P(o) == \A q \in O \ {o} : Ref!Before(o, q)
    <3>1. P(OrderIn(h))
      BY <2>7
    <3>2. \A o \in O : P(o) => o = OrderIn(h)
      BY <2>6, <2>7
    <3>3. Ref!Best(side) = CHOOSE o \in O : P(o)
      BY DEF Ref!Best
    <3> HIDE DEF P, O
    <3> QED BY <2>6, <3>1, <3>2, <3>3
  <2>9. OrderIn(h).price = b
    BY <2>2, OrderFields DEF HInv, InLevel
  <2> QED BY <1>4, <2>2, <2>6, <2>8, <2>9 DEF b, h
<1> QED BY <1>3, <1>4

\* Both engines find the same limits marketable.
LEMMA MarketableAgrees ==
  ASSUME HInv, NEW side \in Sides, NEW limit
  PROVE  Ref!Marketable(side, limit) <=> Marketable(side, limit)
<1> DEFINE m == Opposite(side)
<1>1. m \in Sides
  BY DEF Opposite, Sides
<1>2. /\ Ref!OrdersOn(m) = {} <=> Best(m) = None
      /\ Best(m) # None => Ref!Best(m).price = Best(m)
  BY <1>1, BestAgrees
<1>3. Ref!Opposite(side) = m
  BY DEF Ref!Opposite, Opposite
<1>4. \A x : Ref!Crosses(side, limit, x) <=> Crosses(side, limit, x)
  BY DEF Ref!Crosses, Crosses
<1> HIDE DEF m
<1> QED BY <1>2, <1>3, <1>4 DEF Marketable, Ref!Marketable, m

\* lookup() finds the same order.
LEMMA OwnedAgrees ==
  ASSUME HInv, NEW account, NEW id \in InputIds
  PROVE  Ref!Owned(account, id) = {OrderIn(s) : s \in Owned(account, id)}
<1>1. id = <<SlotOf(id), GenerationOf(id)>>
  BY DEF InputIds, SlotOf, GenerationOf
<1>2. ASSUME NEW s \in Slots
      PROVE  /\ OrderIn(s).account = book.slots[s].account
             /\ OrderIn(s).id = id <=> /\ s = SlotOf(id)
                                       /\ book.slots[s].generation = GenerationOf(id)
  BY <1>1, OrderFields DEF HInv, OrderId, SlotOf, GenerationOf
<1>3. \A s \in Slots :
        s \in Owned(account, id) <=>
          s \in LiveSlots /\ OrderIn(s).id = id /\ OrderIn(s).account = account
  BY <1>2 DEF Owned, LiveSlots
<1>4. Owned(account, id) \subseteq Slots /\ LiveSlots \subseteq Slots
  BY DEF Owned, LiveSlots
<1> QED BY <1>3, <1>4 DEF Ref!Owned, RestingOrders

----------------------------------------------------------------------------
(***************************************************************************)
(* The history variables                                                   *)
(***************************************************************************)
\* A step that makes no slot live.
LEMMA NothingArrives ==
  ASSUME HInv, RecordArrivals,
         \A i \in Slots : Live(book', i) => Live(book, i)
  PROVE  /\ arrivals' = arrivals
         /\ \A i \in Slots : Live(book', i) => arrival'[i] = arrival[i]
         /\ Arrived'
<1>1. \A i \in Slots : IsLive(i)' <=> Live(book', i)
  BY DEF IsLive, Live
<1>2. \A i \in Slots : ~BecomesLive(i)
  BY <1>1, LiveIsLive DEF BecomesLive
<1>3. {s \in Slots : BecomesLive(s)} = {}
  BY <1>2
<1>4. arrivals' = arrivals
  <2>1. arrivals \in Nat
    BY DEF HInv, Arrived
  <2>2. Cardinality({}) = 0
    BY FS_EmptySet
  <2> QED BY <1>3, <2>1, <2>2 DEF RecordArrivals
<1>5. \A i \in Slots : arrival'[i] = IF Live(book', i) THEN arrival[i] ELSE 0
  BY <1>1, <1>2 DEF RecordArrivals
<1>6. arrival' \in [Slots -> Nat]
  <2>1. arrival' = [s \in Slots |-> IF Live(book', s) THEN arrival[s] ELSE 0]
    BY <1>1, <1>2 DEF RecordArrivals
  <2> QED BY <2>1 DEF HInv, Arrived
<1>7. \A s \in LiveSlots' : s \in LiveSlots /\ arrival'[s] = arrival[s]
  BY <1>1, <1>5, LiveIsLive DEF LiveSlots
<1> QED BY <1>4, <1>5, <1>6, <1>7 DEF HInv, Arrived

\* A step that makes the slot s live.
LEMMA OneArrives ==
  ASSUME HInv, RecordArrivals, NEW s \in Slots, ~Live(book, s),
         \A i \in Slots : Live(book', i) <=> Live(book, i) \/ i = s
  PROVE  /\ arrivals' = arrivals + 1
         /\ arrival'[s] = arrivals
         /\ \A i \in Slots : Live(book, i) => arrival'[i] = arrival[i]
         /\ Arrived'
<1>1. \A i \in Slots : IsLive(i)' <=> Live(book', i)
  BY DEF IsLive, Live
<1>2. \A i \in Slots : BecomesLive(i) <=> i = s
  BY <1>1, LiveIsLive DEF BecomesLive
<1>3. {i \in Slots : BecomesLive(i)} = {s}
  BY <1>2
<1>4. arrivals' = arrivals + 1
  <2>1. Cardinality({s}) = 1
    BY FS_Singleton
  <2> QED BY <1>3, <2>1 DEF RecordArrivals
<1>5. arrival' = [i \in Slots |-> IF i = s THEN arrivals
                                  ELSE IF Live(book', i) THEN arrival[i] ELSE 0]
  BY <1>1, <1>2 DEF RecordArrivals
<1>6. arrival' \in [Slots -> Nat] /\ arrivals' \in Nat
  BY <1>4, <1>5 DEF HInv, Arrived
<1>7. ASSUME NEW i \in LiveSlots'
      PROVE  arrival'[i] < arrivals'
  <2>1. i \in Slots /\ (i = s \/ (i # s /\ i \in LiveSlots /\ arrival'[i] = arrival[i]))
    BY <1>1, <1>5, <1>7, LiveIsLive DEF LiveSlots
  <2>2. arrival'[s] = arrivals /\ arrivals \in Nat
    BY <1>5 DEF HInv, Arrived
  <2>3. CASE i = s
    BY <1>4, <2>2, <2>3
  <2>4. CASE i # s
    <3>1. arrival[i] < arrivals /\ arrival[i] \in Nat
      BY <2>1, <2>4 DEF HInv, Arrived
    <3> QED BY <1>4, <2>1, <2>2, <2>4, <3>1
  <2> QED BY <2>3, <2>4
<1> QED BY <1>4, <1>5, <1>6, <1>7 DEF Arrived

----------------------------------------------------------------------------
(***************************************************************************)
(* The three ways of writing a book                                        *)
(***************************************************************************)
\* An order that keeps its slot, its quantities and its arrival is the same.
LEMMA SameOrder ==
  ASSUME NEW i \in Slots, KeepsOrder(book, book', i), arrival'[i] = arrival[i]
  PROVE  OrderIn(i)' = OrderIn(i)
BY DEF KeepsOrder, OrderIn, IdOf

\* The order in a slot after a step.
LEMMA OrderLater ==
  ASSUME NEW s \in Slots
  PROVE  OrderIn(s)' =
           [id |-> IdOf(book', s), account |-> book'.slots[s].account,
            side |-> book'.slots[s].side, price |-> book'.slots[s].price,
            remaining |-> book'.slots[s].remaining,
            filled |-> book'.slots[s].filled, seq |-> arrival'[s]]
BY DEF OrderIn

\* An order with other quantities.
LEMMA OtherQuantities ==
  ASSUME NEW i, NEW a, NEW d, NEW p, NEW r, NEW f, NEW q, NEW left, NEW filled
  PROVE  WithQuantities([id |-> i, account |-> a, side |-> d, price |-> p,
                         remaining |-> r, filled |-> f, seq |-> q], left, filled)
         = [id |-> i, account |-> a, side |-> d, price |-> p,
            remaining |-> left, filled |-> filled, seq |-> q]
<1> DEFINE x == WithQuantities([id |-> i, account |-> a, side |-> d, price |-> p,
                               remaining |-> r, filled |-> f, seq |-> q],
                              left, filled)
<1>1. x \in [id : {i}, account : {a}, side : {d}, price : {p},
             remaining : {left}, filled : {filled}, seq : {q}]
  BY DEF WithQuantities
<1> HIDE DEF x
<1>2. x = [id |-> i, account |-> a, side |-> d, price |-> p,
           remaining |-> left, filled |-> filled, seq |-> q]
  BY <1>1
<1> QED BY <1>2 DEF x

\* The orders of two slots differ.
LEMMA OrdersDiffer ==
  ASSUME Inv, NEW s \in Slots, NEW t \in Slots, s # t
  PROVE  OrderIn(s) # OrderIn(t)
BY OrderFields

\* The generations are those of the slots.
LEMMA GenerationsFacts ==
  ASSUME NEW s \in Slots, \A i \in Slots : i # s =>
           book'.slots[i].generation = book.slots[i].generation
  PROVE  /\ Generations[s] = book.slots[s].generation
         /\ Generations' = [Generations EXCEPT ![s] = book'.slots[s].generation]
BY DEF Generations

\* Taking an order out of its queue and its slot removes it, and leaves the
\* queue in order of arrival.
LEMMA RemovalAgrees ==
  ASSUME HInv, RecordArrivals, NEW s \in Slots, Live(book, s),
         Removes(book, book', s)
  PROVE  Ref!RemoveOrder(OrderIn(s)) /\ Arrived' /\ QueueOrderIsArrivalOrder'
<1>1. \A i \in Slots : /\ Live(book', i) <=> Live(book, i) /\ i # s
                       /\ i # s => KeepsOrder(book, book', i)
                       /\ book'.slots[i].next =
                            IF i = s THEN NIL
                            ELSE IF i = book.slots[s].prev THEN book.slots[s].next
                            ELSE book.slots[i].next
  BY DEF Removes
<1>2. /\ arrivals' = arrivals /\ Arrived'
      /\ \A i \in Slots : Live(book', i) => arrival'[i] = arrival[i]
  BY <1>1, NothingArrives
<1>3. \A i \in Slots : IsLive(i)' <=> Live(book', i)
  BY DEF IsLive, Live
<1>4. RestingOrders' = RestingOrders \ {OrderIn(s)}
  <2>1. RestingOrders' = {OrderIn(t)' : t \in LiveSlots'}
    BY DEF RestingOrders
  <2>2. LiveSlots' = LiveSlots \ {s}
    BY <1>1, <1>3, LiveIsLive DEF LiveSlots
  <2>3. \A t \in LiveSlots \ {s} : OrderIn(t)' = OrderIn(t) /\ OrderIn(t) # OrderIn(s)
    BY <1>1, <1>2, SameOrder, OrdersDiffer, LiveIsLive DEF HInv
  <2> QED BY <2>1, <2>2, <2>3 DEF RestingOrders
<1>5. Ref!Release(s)
  <2> DEFINE g == book.slots[s].generation
             h == book'.slots[s].generation
  <2>1. Generations[s] = g /\ Generations' = [Generations EXCEPT ![s] = h]
    BY <1>1, GenerationsFacts DEF KeepsOrder
  <2>2. g \in Nat /\ GenerationLimit \in Nat
    BY SlotFacts, ConfigValid DEF HInv, Inv, Sound
  <2>3. Ref!WillRetire(s) <=> g + 2 > GenerationLimit
    BY <2>1 DEF Ref!WillRetire
  <2>4. \/ /\ g + 2 > GenerationLimit /\ h = g - 1
           /\ book'.retired = book.retired + 1 /\ book'.free = book.free
        \/ /\ g + 2 <= GenerationLimit /\ h = g + 1
           /\ book'.retired = book.retired /\ book'.free = Append(book.free, s)
    BY DEF Removes
  <2> HIDE DEF g, h
  <2>5. CASE g + 2 > GenerationLimit
    <3>1. h = Generations[s] - 1
      BY <2>1, <2>2, <2>4, <2>5
    <3>2. Generations' = [Generations EXCEPT ![s] = @ - 1]
      BY <2>1, <3>1, Zenon
    <3> QED BY <2>2, <2>3, <2>4, <2>5, <3>2 DEF Ref!Release
  <2>6. CASE g + 2 <= GenerationLimit
    <3>1. h = Generations[s] + 1
      BY <2>1, <2>2, <2>4, <2>6
    <3>2. Generations' = [Generations EXCEPT ![s] = @ + 1]
      BY <2>1, <3>1, Zenon
    <3> QED BY <2>2, <2>3, <2>4, <2>6, <3>2 DEF Ref!Release
  <2> QED BY <2>2, <2>5, <2>6
<1>6. Ref!SlotOf(OrderIn(s).id) = s
  BY OrderFields DEF HInv, Ref!SlotOf, SlotOf
<1>7. ASSUME NEW t \in Slots, Live(book', t), book'.slots[t].next # NIL
      PROVE  arrival'[t] < arrival'[book'.slots[t].next]
  <2> DEFINE u == book'.slots[t].next
             prev == book.slots[s].prev
             next == book.slots[s].next
  <2>1. /\ Live(book, t) /\ t # s /\ book \in Shapes /\ NeighboursAgree(book)
        /\ NIL \notin Slots
    BY <1>1, <1>7, TicksFit DEF HInv, Inv, Sound
  <2>2. /\ \A i \in Slots : Live(book, i) /\ book.slots[i].next # NIL =>
             /\ book.slots[i].next \in Slots /\ Live(book, book.slots[i].next)
             /\ arrival[i] < arrival[book.slots[i].next]
             /\ book.slots[book.slots[i].next].prev = i
    BY <2>1, LiveIsLive, SlotFacts DEF HInv, QueueOrderIsArrivalOrder, NeighboursAgree
  <2>3. \A i \in Slots : Live(book', i) => arrival'[i] = arrival[i]
    BY <1>2
  <2>4. CASE t = prev
    <3>1. u = next /\ next # NIL
      BY <1>1, <1>7, <2>1, <2>4
    <3>2. book.slots[t].next = s
      BY <2>1, <2>4 DEF NeighboursAgree
    <3>3. arrival[t] < arrival[s] /\ arrival[s] < arrival[next] /\ next \in Slots
          /\ Live(book, next) /\ next # t
      <4>1. /\ arrival[t] < arrival[s] /\ arrival[s] < arrival[next]
            /\ next \in Slots /\ Live(book, next)
        BY <2>1, <2>2, <3>1, <3>2, TicksFit
      <4>2. arrival[t] \in Nat /\ arrival[s] \in Nat
        BY DEF HInv, Arrived
      <4> QED BY <4>1, <4>2
    <3>4. next # s /\ arrival[t] < arrival[next]
      <4>1. arrival[t] \in Nat /\ arrival[s] \in Nat /\ arrival[next] \in Nat
        BY <3>3 DEF HInv, Arrived
      <4> HIDE DEF next
      <4> QED BY <3>3, <4>1
    <3>5. Live(book', next)
      BY <1>1, <3>3, <3>4
    <3> QED BY <1>2, <1>7, <3>1, <3>3, <3>4, <3>5
  <2>5. CASE t # prev
    <3>1. u = book.slots[t].next
      BY <1>1, <2>1, <2>5
    <3>2. u \in Slots /\ Live(book, u) /\ arrival[t] < arrival[u] /\ u # s
      BY <1>7, <2>1, <2>2, <2>5, <3>1
    <3> QED BY <1>1, <1>2, <1>7, <3>2
  <2> QED BY <2>4, <2>5
<1>8. QueueOrderIsArrivalOrder'
  BY <1>3, <1>7 DEF QueueOrderIsArrivalOrder, LiveSlots
<1> QED BY <1>2, <1>4, <1>5, <1>6, <1>8 DEF Ref!RemoveOrder

\* A step that leaves the links, and which slots are live, alone keeps the
\* queues in order of arrival.
LEMMA QueuesKept ==
  ASSUME HInv, RecordArrivals,
         \A i \in Slots : /\ Live(book', i) <=> Live(book, i)
                          /\ book'.slots[i].next = book.slots[i].next
  PROVE  /\ LiveSlots' = LiveSlots /\ arrivals' = arrivals
         /\ \A i \in LiveSlots : arrival'[i] = arrival[i]
         /\ Arrived' /\ QueueOrderIsArrivalOrder'
<1>1. /\ arrivals' = arrivals /\ Arrived'
      /\ \A i \in Slots : Live(book', i) => arrival'[i] = arrival[i]
  BY NothingArrives
<1>2. LiveSlots' = LiveSlots
  BY LiveIsLive DEF LiveSlots, IsLive, Live
<1>3. \A i \in LiveSlots : i \in Slots /\ Live(book, i) /\ arrival'[i] = arrival[i]
  BY <1>1, LiveIsLive
<1>4. \A i \in LiveSlots : book.slots[i].next # NIL => book.slots[i].next \in LiveSlots
  BY ZenonT(40), <1>3, LiveIsLive, SlotFacts DEF HInv, Inv, Sound, NeighboursAgree
<1>5. QueueOrderIsArrivalOrder'
  BY <1>2, <1>3, <1>4 DEF HInv, QueueOrderIsArrivalOrder
<1> QED BY <1>1, <1>2, <1>3, <1>5

\* A step that leaves the book alone leaves its orders alone.
LEMMA SameBookAgrees ==
  ASSUME HInv, RecordArrivals, book' = book
  PROVE  UNCHANGED Ref!book /\ Arrived' /\ QueueOrderIsArrivalOrder'
<1>1. /\ LiveSlots' = LiveSlots /\ arrivals' = arrivals
      /\ \A i \in LiveSlots : arrival'[i] = arrival[i]
      /\ Arrived' /\ QueueOrderIsArrivalOrder'
  BY QueuesKept
<1>2. Generations' = Generations
  BY DEF Generations
<1>3. RestingOrders' = RestingOrders
  <2>1. \A s \in LiveSlots : OrderIn(s)' = OrderIn(s)
    BY <1>1, SameOrder, LiveIsLive DEF KeepsOrder
  <2> QED BY <1>1, <2>1 DEF RestingOrders
<1> QED BY <1>1, <1>2, <1>3 DEF Ref!book

\* Changing an order's quantities in place updates it.
LEMMA AmendmentAgrees ==
  ASSUME HInv, RecordArrivals, NEW s \in Slots, Live(book, s),
         NEW left, NEW filled, Amends(book, book', s, left, filled)
  PROVE  /\ Ref!Update(OrderIn(s), WithQuantities(OrderIn(s), left, filled))
         /\ Arrived' /\ QueueOrderIsArrivalOrder'
<1>1. /\ book'.free = book.free /\ book'.retired = book.retired
      /\ \A i \in Slots : /\ book'.slots[i].generation = book.slots[i].generation
                          /\ book'.slots[i].next = book.slots[i].next
                          /\ i # s => KeepsOrder(book, book', i)
  BY DEF Amends, KeepsOrder
<1>2. /\ LiveSlots' = LiveSlots /\ arrivals' = arrivals
      /\ \A i \in LiveSlots : arrival'[i] = arrival[i]
      /\ Arrived' /\ QueueOrderIsArrivalOrder'
  BY <1>1, QueuesKept DEF Live
<1>3. Generations' = Generations
  BY <1>1 DEF Generations
<1> DEFINE updated == WithQuantities(OrderIn(s), left, filled)
<1>4. OrderIn(s)' = updated
  <2>1. arrival'[s] = arrival[s]
    BY <1>2, LiveIsLive
  <2>2. updated = [id |-> IdOf(book, s), account |-> book.slots[s].account,
                   side |-> book.slots[s].side, price |-> book.slots[s].price,
                   remaining |-> left, filled |-> filled, seq |-> arrival[s]]
    BY OtherQuantities DEF OrderIn
  <2>3. /\ IdOf(book', s) = IdOf(book, s)
        /\ book'.slots[s].account = book.slots[s].account
        /\ book'.slots[s].side = book.slots[s].side
        /\ book'.slots[s].price = book.slots[s].price
        /\ book'.slots[s].remaining = left /\ book'.slots[s].filled = filled
    BY DEF Amends, IdOf
  <2> HIDE DEF updated
  <2> QED BY <2>1, <2>2, <2>3, OrderLater
<1> HIDE DEF updated
<1>5. RestingOrders' = (RestingOrders \ {OrderIn(s)}) \cup {updated}
  <2>1. RestingOrders' = {OrderIn(t)' : t \in LiveSlots}
    BY <1>2 DEF RestingOrders
  <2>2. \A t \in LiveSlots \ {s} : OrderIn(t)' = OrderIn(t) /\ OrderIn(t) # OrderIn(s)
    BY <1>1, <1>2, SameOrder, OrdersDiffer, LiveIsLive DEF HInv
  <2>3. s \in LiveSlots
    BY LiveIsLive
  <2> QED BY <1>4, <2>1, <2>2, <2>3 DEF RestingOrders
<1> QED BY <1>1, <1>2, <1>3, <1>5 DEF Ref!Update, updated

\* The taker, coming to rest in the slot that was free, is inserted.
LEMMA RestingAgrees ==
  ASSUME HInv, RecordArrivals, pc \in {"submit", "match"}, book.free # <<>>,
         book' = RestedIn(book), NEW s, s = Last(book.free)
  PROVE  LET id == OrderId(s, book.slots[s].generation + 1)
         IN  /\ Ref!Insert([id |-> id, account |-> taker.account,
                            side |-> taker.side, price |-> Limit,
                            remaining |-> taker.remaining, filled |-> 0,
                            seq |-> arrivals], s)
             /\ Generations[s] = book.slots[s].generation
             /\ IdOf(book', s) = id
             /\ Arrived' /\ QueueOrderIsArrivalOrder'
<1> DEFINE id == OrderId(s, book.slots[s].generation + 1)
           order == [id |-> id, account |-> taker.account, side |-> taker.side,
                     price |-> Limit, remaining |-> taker.remaining,
                     filled |-> 0, seq |-> arrivals]
           tail == book.levels[taker.side][Limit].tail
<1>1. /\ taker.side \in Sides /\ Limit \in Ticks /\ taker.remaining \in Nat
      /\ taker.account \in Accounts /\ Sound(book) /\ book \in Shapes
      /\ EndsAgree(book) /\ NIL \notin Slots
  BY TakerFacts, TicksFit DEF HInv, Inv, Sound
<1>2. /\ s \in Slots /\ ~Live(book, s)
      /\ \A i \in Slots : Live(book', i) <=> Live(book, i) \/ i = s
  BY <1>1, RestIsSound
<1>3. /\ book'.retired = book.retired /\ book'.free = Front(book.free)
      /\ book'.slots[s].generation = book.slots[s].generation + 1
      /\ book'.slots[s].remaining = taker.remaining
      /\ book'.slots[s].filled = 0
      /\ book'.slots[s].account = taker.account
      /\ book'.slots[s].side = taker.side /\ book'.slots[s].price = Limit
      /\ \A i \in Slots : i # s => KeepsOrder(book, book', i)
      /\ \A i \in Slots : book'.slots[i].next =
           IF i = s THEN NIL ELSE IF i = tail THEN s ELSE book.slots[i].next
  BY <1>1, RestedFields DEF KeepsOrder
<1> HIDE DEF tail
<1>4. /\ arrivals' = arrivals + 1 /\ arrival'[s] = arrivals
      /\ \A i \in Slots : Live(book, i) => arrival'[i] = arrival[i]
      /\ Arrived'
  BY <1>2, OneArrives
<1>5. OrderIn(s)' = order /\ IdOf(book', s) = id
  <2>1. IdOf(book', s) = id
    BY <1>3 DEF IdOf
  <2>2. OrderIn(s)' =
          [id |-> IdOf(book', s), account |-> book'.slots[s].account,
           side |-> book'.slots[s].side, price |-> book'.slots[s].price,
           remaining |-> book'.slots[s].remaining,
           filled |-> book'.slots[s].filled, seq |-> arrival'[s]]
    BY <1>2, OrderLater
  <2> HIDE DEF id
  <2> QED BY <1>3, <1>4, <2>1, <2>2
<1>6. RestingOrders' = RestingOrders \cup {order}
  <2> DEFINE later(t) == OrderIn(t)'
  <2>1. RestingOrders' = {later(t) : t \in LiveSlots'}
    BY DEF RestingOrders
  <2>2. LiveSlots' = LiveSlots \cup {s}
    BY <1>2, LiveIsLive DEF LiveSlots, IsLive, Live
  <2>3. \A t \in LiveSlots : later(t) = OrderIn(t)
    BY <1>2, <1>3, <1>4, SameOrder, LiveIsLive
  <2>4. later(s) = order
    BY <1>5
  <2> HIDE DEF id, order, later
  <2> QED BY <2>1, <2>2, <2>3, <2>4 DEF RestingOrders
<1>7. /\ Generations[s] = book.slots[s].generation
      /\ Generations' = [Generations EXCEPT ![s] = book.slots[s].generation + 1]
  BY <1>2, <1>3, GenerationsFacts DEF KeepsOrder
<1>8. Generations' = [Generations EXCEPT ![s] = @ + 1]
  BY <1>7, Zenon
<1>9. ASSUME NEW t \in Slots, Live(book', t), book'.slots[t].next # NIL
      PROVE  arrival'[t] < arrival'[book'.slots[t].next]
  <2>1. t # s /\ Live(book, t) /\ arrival'[t] = arrival[t]
    BY <1>2, <1>3, <1>4, <1>9
  <2>2. CASE t = tail
    <3>1. book'.slots[t].next = s
      BY <1>3, <2>1, <2>2
    <3>2. arrival[t] < arrivals
      BY <2>1, LiveIsLive DEF HInv, Arrived
    <3> QED BY <1>4, <2>1, <3>1, <3>2
  <2>3. CASE t # tail
    <3>1. book'.slots[t].next = book.slots[t].next
      BY <1>3, <2>1, <2>3
    <3>2. /\ book.slots[t].next \in Slots /\ Live(book, book.slots[t].next)
          /\ arrival[t] < arrival[book.slots[t].next]
      BY <1>1, <1>9, <2>1, <3>1, SlotFacts, LiveIsLive
         DEF HInv, Inv, Sound, NeighboursAgree, QueueOrderIsArrivalOrder
    <3> QED BY <1>4, <2>1, <3>1, <3>2
  <2> QED BY <2>2, <2>3
<1>10. QueueOrderIsArrivalOrder'
  BY <1>9 DEF QueueOrderIsArrivalOrder, LiveSlots, IsLive, Live
<1>11. Ref!Front(book.free) = Front(book.free)
  BY DEF Ref!Front, Front
<1> HIDE DEF order
<1>12. Ref!Insert(order, s)
  BY <1>3, <1>4, <1>6, <1>8, <1>11 DEF Ref!Insert
<1> QED BY <1>4, <1>5, <1>7, <1>10, <1>12 DEF order

----------------------------------------------------------------------------
(***************************************************************************)
(* Each action of FastBook is the action of Reference                      *)
(***************************************************************************)
\* The definitions both modules take from EngineTypes are the same.
LEMMA SameTypes ==
  /\ \A p : Ref!PriceOk(p) <=> PriceOk(p)
  /\ \A q : Ref!QtyOk(q) <=> QtyOk(q)
  /\ \A id : Ref!SlotOf(id) = SlotOf(id)
  /\ \A s, g : Ref!OrderId(s, g) = OrderId(s, g)
  /\ \A side : Ref!Opposite(side) = Opposite(side)
  /\ \A kind : Ref!Rests(kind) <=> Rests(kind)
  /\ Ref!Filled = Filled
  /\ \A id : Ref!MakerFilled(id) = MakerFilled(id)
  /\ \A r : Ref!Rejected(r) = Rejected(r)
  /\ \A id, q : Ref!Rested(id, q) = Rested(id, q)
  /\ \A id, q, r : Ref!Cancelled(id, q, r) = Cancelled(id, q, r)
  /\ \A id, f, q : Ref!Reduced(id, f, q) = Reduced(id, f, q)
  /\ \A d, id, p, q, l : Ref!Trade(d, id, p, q, l) = Trade(d, id, p, q, l)
BY DEF Ref!PriceOk, PriceOk, Ref!QtyOk, QtyOk, Ref!SlotOf, SlotOf,
       Ref!OrderId, OrderId, Ref!Opposite, Opposite, Ref!Rests, Rests,
       Ref!Filled, Filled, Ref!MakerFilled, MakerFilled, Ref!Rejected, Rejected,
       Ref!Rested, Rested, Ref!Cancelled, Cancelled, Ref!Reduced, Reduced,
       Ref!Trade, Trade

\* So are the ways to return and to call submit().
LEMMA SameControl ==
  /\ \A events : Return(events) => Ref!Return(events)
  /\ \A account, side, qty, kind :
       CallSubmit(account, side, qty, kind) => Ref!CallSubmit(account, side, qty, kind)
BY DEF Return, Ref!Return, CallSubmit, Ref!CallSubmit

\* A rejection is one, and leaves the book alone.
LEMMA RejectAgrees ==
  ASSUME HInv, RecordArrivals, NEW reason, Reject(reason)
  PROVE  Ref!Reject(reason) /\ Arrived' /\ QueueOrderIsArrivalOrder'
<1>1. Return(<<Rejected(reason)>>) /\ book' = book
  BY DEF Reject
<1>2. UNCHANGED Ref!book /\ Arrived' /\ QueueOrderIsArrivalOrder'
  BY <1>1, SameBookAgrees
<1>3. Ref!Return(<<Ref!Rejected(reason)>>)
  BY <1>1, SameControl, SameTypes
<1> QED BY <1>2, <1>3 DEF Ref!Reject

\* new_order() is the reference's.
LEMMA NewOrderAgrees ==
  ASSUME HInv, RecordArrivals, NEW account, NEW side, NEW qty, NEW kind,
         NewOrder(account, side, qty, kind)
  PROVE  /\ Ref!NewOrder(account, side, qty, kind)
         /\ Arrived' /\ QueueOrderIsArrivalOrder'
<1> DEFINE badPrice == kind.price # None /\ ~PriceOk(kind.price)
<1>1. /\ pc = "ready"
      /\ \/ badPrice /\ Reject("InvalidPrice")
         \/ ~badPrice /\ ~QtyOk(qty) /\ Reject("InvalidQty")
         \/ /\ ~badPrice /\ QtyOk(qty)
            /\ CallSubmit(account, side, qty, kind)
            /\ UNCHANGED <<book, out>>
  BY DEF NewOrder
<1>2. badPrice <=> kind.price # None /\ ~Ref!PriceOk(kind.price)
  BY SameTypes
<1>3. QtyOk(qty) <=> Ref!QtyOk(qty)
  BY SameTypes
<1> HIDE DEF badPrice
<1>4. CASE \/ badPrice /\ Reject("InvalidPrice")
           \/ ~badPrice /\ ~QtyOk(qty) /\ Reject("InvalidQty")
  BY <1>1, <1>2, <1>3, <1>4, RejectAgrees DEF Ref!NewOrder
<1>5. CASE /\ ~badPrice /\ QtyOk(qty)
           /\ CallSubmit(account, side, qty, kind) /\ UNCHANGED <<book, out>>
  <2>1. UNCHANGED Ref!book /\ Arrived' /\ QueueOrderIsArrivalOrder'
    BY <1>5, SameBookAgrees
  <2>2. UNCHANGED <<Ref!book, out>>
    BY <1>5, <2>1
  <2>3. Ref!CallSubmit(account, side, qty, kind)
    BY <1>5, SameControl
  <2> QED BY <1>1, <1>2, <1>3, <1>5, <2>1, <2>2, <2>3 DEF Ref!NewOrder
<1> QED BY <1>1, <1>4, <1>5

\* An order's slot, if it is live, is the one the reference finds, and to take
\* it out is to remove the order.
LEMMA OwnedRemovalAgrees ==
  ASSUME HInv, RecordArrivals, NEW account, NEW id \in InputIds,
         NEW s \in Owned(account, id), book' = RemoveSlot(book, s)
  PROVE  Ref!RemoveOrder(OrderIn(s)) /\ Arrived' /\ QueueOrderIsArrivalOrder'
<1>1. s \in Slots /\ Live(book, s)
  BY OwnedFacts
<1>2. Removes(book, book', s)
  BY <1>1, RemovalRemoves DEF HInv, Inv
<1> QED BY <1>1, <1>2, RemovalAgrees

\* What the reference finds in place of the slot s.
LEMMA FoundAgrees ==
  ASSUME HInv, NEW account, NEW id \in InputIds, NEW s \in Owned(account, id)
  PROVE  /\ OrderIn(s) \in Ref!Owned(account, id)
         /\ OrderIn(s).id = id /\ OrderIn(s).account = account
         /\ s \in Slots /\ Live(book, s)
         /\ OrderIn(s).side = book.slots[s].side
         /\ OrderIn(s).remaining = book.slots[s].remaining
         /\ OrderIn(s).filled = book.slots[s].filled
<1>1. /\ s \in Slots /\ Live(book, s) /\ s = SlotOf(id)
      /\ book.slots[s].generation = GenerationOf(id)
      /\ book.slots[s].account = account
  BY OwnedFacts
<1>2. OrderIn(s) \in Ref!Owned(account, id)
  BY OwnedAgrees
<1>3. id = OrderId(SlotOf(id), GenerationOf(id))
  BY DEF InputIds, OrderId, SlotOf, GenerationOf
<1> QED BY <1>1, <1>2, <1>3, OrderFields DEF HInv

\* cancel() is the reference's.
LEMMA CancelAgrees ==
  ASSUME HInv, RecordArrivals, NEW account, NEW id \in InputIds,
         Cancel(account, id)
  PROVE  Ref!Cancel(account, id) /\ Arrived' /\ QueueOrderIsArrivalOrder'
<1>1. pc = "ready"
  BY DEF Cancel
<1>2. CASE Owned(account, id) = {} /\ Reject("UnknownOrStaleId")
  BY <1>1, <1>2, OwnedAgrees, RejectAgrees DEF Ref!Cancel
<1>3. ASSUME NEW s \in Owned(account, id), book' = RemoveSlot(book, s),
             Return(<<Cancelled(id, book.slots[s].remaining, "User")>>)
      PROVE  Ref!Cancel(account, id) /\ Arrived' /\ QueueOrderIsArrivalOrder'
  <2> DEFINE o == OrderIn(s)
  <2>1. o \in Ref!Owned(account, id) /\ o.remaining = book.slots[s].remaining
    BY FoundAgrees
  <2>2. Ref!RemoveOrder(o) /\ Arrived' /\ QueueOrderIsArrivalOrder'
    BY <1>3, OwnedRemovalAgrees
  <2>3. Ref!Return(<<Ref!Cancelled(id, o.remaining, "User")>>)
    BY <1>3, <2>1, SameControl, SameTypes
  <2> HIDE DEF o
  <2> QED BY <1>1, <2>1, <2>2, <2>3 DEF Ref!Cancel
<1> QED BY <1>2, <1>3 DEF Cancel

\* reduce() is the reference's.
LEMMA ReduceAgrees ==
  ASSUME HInv, RecordArrivals, NEW account, NEW id \in InputIds,
         NEW total \in InputQtys, Reduce(account, id, total)
  PROVE  Ref!Reduce(account, id, total) /\ Arrived' /\ QueueOrderIsArrivalOrder'
<1>1. pc = "ready"
  BY DEF Reduce
<1>2. CASE Owned(account, id) = {} /\ Reject("UnknownOrStaleId")
  BY <1>1, <1>2, OwnedAgrees, RejectAgrees DEF Ref!Reduce
<1>3. ASSUME NEW s \in Owned(account, id), ReduceOwned(id, s, total)
      PROVE  /\ Ref!Reduce(account, id, total)
             /\ Arrived' /\ QueueOrderIsArrivalOrder'
  <2> DEFINE o == OrderIn(s)
             slot == book.slots[s]
             left == total - slot.filled
  <2>1. /\ o \in Ref!Owned(account, id) /\ o.id = id
        /\ o.remaining = slot.remaining /\ o.filled = slot.filled
        /\ s \in Slots /\ Live(book, s)
        /\ slot.filled \in Nat /\ slot.remaining \in Nat
    BY FoundAgrees, SlotFacts DEF HInv, Inv, Sound
  <2>2. /\ total \in Nat
        /\ \/ /\ total <= slot.filled
              /\ book' = RemoveSlot(book, s)
              /\ Return(<<Cancelled(id, slot.remaining, "ReduceToZero")>>)
           \/ total > slot.filled + slot.remaining /\ Reject("InvalidChange")
           \/ /\ slot.filled < total /\ total <= slot.filled + slot.remaining
              /\ book' = ReducedInPlace(book, s, left)
              /\ Return(<<Reduced(id, slot.filled, left)>>)
    BY <1>3, InputsValid DEF ReduceOwned
  <2>3. ASSUME Ref!ReduceOwned(o, total)
        PROVE  Ref!Reduce(account, id, total)
    BY <1>1, <2>1, <2>3 DEF Ref!Reduce
  <2>4. CASE /\ total <= slot.filled
             /\ book' = RemoveSlot(book, s)
             /\ Return(<<Cancelled(id, slot.remaining, "ReduceToZero")>>)
    <3>1. Ref!RemoveOrder(o) /\ Arrived' /\ QueueOrderIsArrivalOrder'
      BY <2>4, OwnedRemovalAgrees
    <3>2. Ref!Return(<<Ref!Cancelled(o.id, o.remaining, "ReduceToZero")>>)
      BY <2>1, <2>4, SameControl, SameTypes
    <3> QED BY <2>1, <2>3, <2>4, <3>1, <3>2 DEF Ref!ReduceOwned
  <2>5. CASE total > slot.filled + slot.remaining /\ Reject("InvalidChange")
    BY <2>1, <2>3, <2>5, RejectAgrees DEF Ref!ReduceOwned
  <2>6. CASE /\ slot.filled < total /\ total <= slot.filled + slot.remaining
             /\ book' = ReducedInPlace(book, s, left)
             /\ Return(<<Reduced(id, slot.filled, left)>>)
    <3>1. left \in Nat
      <4> HIDE DEF slot
      <4> QED BY <2>1, <2>2, <2>6
    <3>2. Amends(book, book', s, left, slot.filled)
      BY <2>1, <2>6, <3>1, ReducedAmends DEF HInv, Inv, Sound
    <3>3. /\ Ref!Update(o, WithQuantities(o, left, slot.filled))
          /\ Arrived' /\ QueueOrderIsArrivalOrder'
      BY <2>1, <3>2, AmendmentAgrees
    <3>4. WithQuantities(o, left, slot.filled) = [o EXCEPT !.remaining = left]
      <4> HIDE DEF left
      <4> QED BY <2>1 DEF WithQuantities, OrderIn
    <3>5. Ref!Return(<<Ref!Reduced(o.id, o.filled, total - o.filled)>>)
      BY <2>1, <2>6, SameControl, SameTypes
    <3> HIDE DEF o, slot
    <3>6. Ref!ReduceTo(o, total)
      BY <2>1, <3>3, <3>4, <3>5 DEF Ref!ReduceTo
    <3> QED BY <2>1, <2>3, <2>6, <3>3, <3>6 DEF Ref!ReduceOwned
  <2> QED BY <2>2, <2>4, <2>5, <2>6
<1> QED BY <1>2, <1>3 DEF Reduce

\* replace() is the reference's, up to its call of submit().
LEMMA ReplaceAgrees ==
  ASSUME HInv, RecordArrivals, NEW account, NEW id \in InputIds, NEW price,
         NEW total \in InputQtys, NEW post_only \in BOOLEAN,
         Replace(account, id, price, total, post_only)
  PROVE  /\ Ref!Replace(account, id, price, total, post_only)
         /\ Arrived' /\ QueueOrderIsArrivalOrder'
<1>1. pc = "ready" /\ (Ref!PriceOk(price) <=> PriceOk(price))
  BY SameTypes DEF Replace
<1>2. CASE ReplaceRefused(account, id, price, total)
  <2>1. /\ Owned(account, id) = {} => Ref!Owned(account, id) = {}
        /\ \A reason : Reject(reason) =>
             Ref!Reject(reason) /\ Arrived' /\ QueueOrderIsArrivalOrder'
    BY OwnedAgrees, RejectAgrees
  <2> QED BY <1>1, <1>2, <2>1 DEF ReplaceRefused, Ref!Replace, Ref!ReplaceRefused
<1>3. ASSUME PriceOk(price), total <= MaxOrderQty, NEW s \in Owned(account, id),
             ReplaceOwned(account, id, s, price, total, post_only)
      PROVE  /\ Ref!Replace(account, id, price, total, post_only)
             /\ Arrived' /\ QueueOrderIsArrivalOrder'
  <2> DEFINE o == OrderIn(s)
             old == book.slots[s]
             refusal == ReplaceRefusal(s, price, post_only)
             kind == [type |-> IF post_only THEN "PostOnly" ELSE "Gtc",
                      price |-> price]
  <2>1. /\ o \in Ref!Owned(account, id) /\ o.id = id /\ o.account = account
        /\ o.remaining = old.remaining /\ o.filled = old.filled
        /\ o.side = old.side /\ old.side \in Sides
        /\ s \in Slots /\ Live(book, s)
    BY FoundAgrees, SlotFacts DEF HInv, Inv, Sound
  <2>2. \/ /\ total <= old.filled
           /\ book' = RemoveSlot(book, s)
           /\ Return(<<Cancelled(id, old.remaining, "Replaced")>>)
        \/ total > old.filled /\ refusal # None /\ Reject(refusal)
        \/ /\ total > old.filled /\ refusal = None
           /\ book' = RemoveSlot(book, s)
           /\ out' = <<Cancelled(id, old.remaining, "Replaced")>>
           /\ CallSubmit(account, old.side, total - old.filled, kind)
    BY <1>3 DEF ReplaceOwned
  <2>3. Ref!ReplaceRefusal(o, price, post_only) = refusal
    <3>1. Ref!Marketable(o.side, price) <=> Marketable(old.side, price)
      BY <2>1, MarketableAgrees
    <3>2. Ref!WillRetire(Ref!SlotOf(o.id)) <=> WillRetire(book, s)
      <4>1. Ref!SlotOf(o.id) = s
        BY <2>1, OrderFields, SameTypes DEF HInv
      <4>2. Generations[s] = old.generation
        BY <2>1 DEF Generations
      <4> QED BY <4>1, <4>2 DEF Ref!WillRetire, WillRetire
    <3> QED BY <3>1, <3>2 DEF Ref!ReplaceRefusal, ReplaceRefusal
  <2>4. ASSUME Ref!ReplaceOwned(o, price, total, post_only)
        PROVE  Ref!Replace(account, id, price, total, post_only)
    BY <1>1, <1>3, <2>1, <2>4 DEF Ref!Replace
  <2>5. Ref!Cancelled(o.id, o.remaining, "Replaced")
          = Cancelled(id, old.remaining, "Replaced")
    BY <2>1, SameTypes
  <2>6. CASE /\ total <= old.filled
             /\ book' = RemoveSlot(book, s)
             /\ Return(<<Cancelled(id, old.remaining, "Replaced")>>)
    <3>1. Ref!RemoveOrder(o) /\ Arrived' /\ QueueOrderIsArrivalOrder'
      BY <2>6, OwnedRemovalAgrees
    <3>2. Ref!Return(<<Ref!Cancelled(o.id, o.remaining, "Replaced")>>)
      BY <2>5, <2>6, SameControl
    <3> QED BY <2>1, <2>4, <2>6, <3>1, <3>2 DEF Ref!ReplaceOwned
  <2>7. CASE total > old.filled /\ refusal # None /\ Reject(refusal)
    <3> HIDE DEF o, refusal
    <3> QED BY <2>1, <2>3, <2>4, <2>7, RejectAgrees DEF Ref!ReplaceOwned
  <2>8. CASE /\ total > old.filled /\ refusal = None
             /\ book' = RemoveSlot(book, s)
             /\ out' = <<Cancelled(id, old.remaining, "Replaced")>>
             /\ CallSubmit(account, old.side, total - old.filled, kind)
    <3>1. Ref!RemoveOrder(o) /\ Arrived' /\ QueueOrderIsArrivalOrder'
      BY <2>8, OwnedRemovalAgrees
    <3>2. Ref!CallSubmit(o.account, o.side, total - o.filled, kind)
      BY <2>1, <2>8, SameControl
    <3>3. out' = <<Ref!Cancelled(o.id, o.remaining, "Replaced")>>
      BY <2>5, <2>8
    <3> HIDE DEF o, refusal
    <3> QED BY <2>1, <2>3, <2>4, <2>8, <3>1, <3>2, <3>3 DEF Ref!ReplaceOwned
  <2> QED BY <2>2, <2>6, <2>7, <2>8
<1> QED BY <1>2, <1>3 DEF Replace

\* What submit() looks at before and while it matches.
LEMMA TakerAgrees ==
  ASSUME HInv, pc \in {"submit", "match"}
  PROVE  /\ Ref!Limit = Limit
         /\ Ref!Marketable(taker.side, Limit) <=> Marketable(taker.side, Limit)
         /\ Ref!SubmitRefusal = SubmitRefusal
         /\ Ref!Matching <=> Matching
<1>1. taker.side \in Sides
  BY TakerFacts DEF HInv
<1>2. Ref!Limit = Limit
  BY DEF Ref!Limit, Limit, Ref!LimitOf, LimitOf
<1>3. Ref!Marketable(taker.side, Limit) <=> Marketable(taker.side, Limit)
  BY <1>1, MarketableAgrees
<1>4. Ref!SubmitRefusal = SubmitRefusal
  BY <1>2, <1>3, SameTypes DEF Ref!SubmitRefusal, SubmitRefusal
<1>5. Ref!Matching <=> Matching
  BY <1>2, <1>3 DEF Ref!Matching, Matching
<1> QED BY <1>2, <1>3, <1>4, <1>5

\* submit() refuses the same orders for the same reasons.
LEMMA SubmitAgrees ==
  ASSUME HInv, RecordArrivals, Submit
  PROVE  Ref!Submit /\ Arrived' /\ QueueOrderIsArrivalOrder'
<1>1. pc = "submit" /\ Ref!SubmitRefusal = SubmitRefusal
  BY TakerAgrees DEF Submit
<1>2. CASE SubmitRefusal # None /\ Reject(SubmitRefusal)
  BY <1>1, <1>2, RejectAgrees DEF Ref!Submit
<1>3. CASE SubmitRefusal = None /\ pc' = "match" /\ UNCHANGED <<book, taker, out>>
  <2>1. UNCHANGED Ref!book /\ Arrived' /\ QueueOrderIsArrivalOrder'
    BY <1>3, SameBookAgrees
  <2>2. UNCHANGED <<Ref!book, taker, out>>
    BY <1>3, <2>1
  <2> QED BY <1>1, <1>3, <2>1, <2>2 DEF Ref!Submit
<1> QED BY <1>2, <1>3 DEF Submit

\* The head of the best level is the maker of Reference.
LEMMA MakerAgrees ==
  ASSUME HInv, Matching
  PROVE  /\ Ref!Matching /\ Ref!Maker = OrderIn(Maker)
         /\ Maker \in Slots /\ OrderIn(Maker).price = Best(MakerSide)
<1>1. MakerSide \in Sides /\ pc = "match" /\ Best(MakerSide) # None
  BY MakerFacts DEF HInv, Matching, Marketable, MakerSide
<1>2. Ref!Matching
  BY <1>1, TakerAgrees
<1>3. Ref!Opposite(taker.side) = MakerSide
  BY SameTypes DEF MakerSide
<1>4. /\ Maker \in Slots /\ Ref!Best(MakerSide) = OrderIn(Maker)
      /\ Ref!Best(MakerSide).price = Best(MakerSide)
  BY <1>1, BestAgrees DEF Maker
<1> QED BY <1>2, <1>3, <1>4 DEF Ref!Maker

\* Self-trade prevention meets the same maker.
LEMMA SelfTradeAgrees ==
  ASSUME HInv, RecordArrivals, SelfTrade
  PROVE  Ref!SelfTrade /\ Arrived' /\ QueueOrderIsArrivalOrder'
<1>1. /\ Matching /\ book' = book
      /\ book.slots[Maker].account = taker.account
      /\ Return(<<Cancelled(None, taker.remaining, "SelfTrade")>>)
  BY DEF SelfTrade
<1>2. Ref!Matching /\ Ref!Maker.account = taker.account
  BY <1>1, MakerAgrees, OrderFields DEF HInv
<1>3. UNCHANGED Ref!book /\ Arrived' /\ QueueOrderIsArrivalOrder'
  BY <1>1, SameBookAgrees
<1>4. Ref!Return(<<Ref!Cancelled(None, taker.remaining, "SelfTrade")>>)
  BY <1>1, SameControl, SameTypes
<1> QED BY <1>2, <1>3, <1>4 DEF Ref!SelfTrade

\* A fill has the same maker, quantity and events.
LEMMA FillAgrees ==
  ASSUME HInv, RecordArrivals, Fill
  PROVE  Ref!Fill /\ Arrived' /\ QueueOrderIsArrivalOrder'
<1> DEFINE s      == Maker
           p      == Best(MakerSide)
           r      == book.slots[s].remaining
           fill   == Min({taker.remaining, r})
           left   == r - fill
           filled == FilledIn(book, MakerSide, p, s, fill, left)
           trade  == Trade(taker.side, IdOf(book, s), p, fill, left)
           o      == OrderIn(s)
<1>1. /\ Sound(book) /\ book \in Shapes
      /\ MakerSide \in Sides /\ p \in Ticks
      /\ s \in Slots /\ InLevel(book, s, MakerSide, p)
      /\ r \in Nat /\ taker.remaining \in Nat
  BY MakerFacts DEF Fill, HInv, Inv, Sound
<1>2. /\ book.slots[s].account # taker.account
      /\ taker' = [taker EXCEPT !.remaining = @ - fill]
      /\ UNCHANGED pc
      /\ \/ /\ left = 0
            /\ book' = Release(LevelRemove(filled, MakerSide, p, s), s)
            /\ out' = out \o <<trade, MakerFilled(IdOf(book, s))>>
         \/ left > 0 /\ book' = filled /\ out' = Append(out, trade)
  BY DEF Fill, FilledIn
<1>3. /\ Ref!Matching /\ Ref!Maker = o
      /\ o.price = p /\ o.remaining = r /\ o.id = IdOf(book, s)
      /\ o.account = book.slots[s].account
      /\ o.filled = book.slots[s].filled
  BY <1>1, MakerAgrees, OrderFields DEF HInv, Fill, IdOf
<1>4. fill \in Nat /\ left \in Nat
  <2>1. fill \in {taker.remaining, r} /\ fill <= taker.remaining /\ fill <= r
    BY <1>1, MinOfTwo
  <2> HIDE DEF fill, r
  <2> QED BY <1>1, <2>1
<1>5. /\ fill = Ref!Min({taker.remaining, o.remaining})
      /\ trade = Ref!Trade(taker.side, o.id, o.price, fill, left)
      /\ Ref!MakerFilled(o.id) = MakerFilled(IdOf(book, s))
  BY <1>3, SameTypes DEF Ref!Min, Min
<1> HIDE DEF s, p, r, fill, left, filled, trade
<1>6. filled \in Shapes /\ Amends(book, filled, s, left, o.filled + fill)
  BY <1>1, <1>3, <1>4, FilledAmends DEF filled
<1>7. Live(book, s)
  BY <1>1 DEF InLevel
<1>8. CASE /\ left = 0
           /\ book' = Release(LevelRemove(filled, MakerSide, p, s), s)
           /\ out' = out \o <<trade, MakerFilled(IdOf(book, s))>>
  <2>1. filled.slots[s].side = MakerSide /\ filled.slots[s].price = p
    BY <1>1, <1>6 DEF Amends, InLevel
  <2>2. book' = RemoveSlot(filled, s)
    BY <1>8, <2>1 DEF RemoveSlot
  <2>3. Sound(filled) /\ Live(filled, s)
    BY <1>1, <1>6, <1>7, AmendIsSound
  <2>4. Removes(book, book', s)
    BY <1>1, <1>6, <2>2, <2>3, RemovalRemoves, AmendedThenRemoved
  <2>5. Ref!RemoveOrder(o) /\ Arrived' /\ QueueOrderIsArrivalOrder'
    BY <1>1, <1>7, <2>4, RemovalAgrees
  <2> HIDE DEF o
  <2> QED BY <1>2, <1>3, <1>5, <1>8, <2>5 DEF Ref!Fill, left
<1>9. CASE left > 0 /\ book' = filled /\ out' = Append(out, trade)
  <2>1. /\ Ref!Update(o, WithQuantities(o, left, o.filled + fill))
        /\ Arrived' /\ QueueOrderIsArrivalOrder'
    BY <1>1, <1>6, <1>7, <1>9, AmendmentAgrees
  <2>2. WithQuantities(o, left, o.filled + fill)
          = [o EXCEPT !.remaining = left, !.filled = @ + fill]
    BY DEF WithQuantities
  <2> HIDE DEF o
  <2> QED BY <1>2, <1>3, <1>5, <1>9, <2>1, <2>2 DEF Ref!Fill, left
<1> QED BY <1>2, <1>8, <1>9

\* What is left of the taker has the same end, and the same id if it rests.
LEMMA FinishAgrees ==
  ASSUME HInv, RecordArrivals, Finish
  PROVE  Ref!Finish /\ Arrived' /\ QueueOrderIsArrivalOrder'
<1>1. /\ pc = "match" /\ ~Ref!Matching /\ Ref!Limit = Limit
      /\ (Ref!Rests(taker.kind) <=> Rests(taker.kind))
  BY TakerAgrees, SameTypes DEF Finish
<1>2. ASSUME book' = book
      PROVE  UNCHANGED Ref!book /\ Arrived' /\ QueueOrderIsArrivalOrder'
  BY <1>2, SameBookAgrees
<1>3. CASE taker.remaining = 0 /\ Return(<<Filled>>) /\ UNCHANGED book
  BY <1>1, <1>2, <1>3, SameControl, SameTypes DEF Ref!Finish
<1>4. CASE /\ taker.remaining > 0 /\ ~Rests(taker.kind)
           /\ Return(<<Cancelled(None, taker.remaining, "Unfilled")>>)
           /\ UNCHANGED book
  BY <1>1, <1>2, <1>4, SameControl, SameTypes DEF Ref!Finish
<1>5. CASE taker.remaining > 0 /\ Rests(taker.kind) /\ Rest
  <2> DEFINE lastFree == Last(book.free)
  <2>1. PICK s : s = lastFree
    OBVIOUS
  <2> DEFINE id == OrderId(s, book.slots[s].generation + 1)
             order == [id |-> id, account |-> taker.account,
                       side |-> taker.side, price |-> Limit,
                       remaining |-> taker.remaining, filled |-> 0,
                       seq |-> arrivals]
  <2>2. /\ book.free # <<>> /\ book' = RestedIn(book)
        /\ Return(<<Rested(IdOf(RestedIn(book), s), taker.remaining)>>)
    BY <1>5, <2>1 DEF Rest, RestedIn
  <2>3. /\ Ref!Insert(order, s)
        /\ Generations[s] = book.slots[s].generation
        /\ IdOf(RestedIn(book), s) = id
        /\ Arrived' /\ QueueOrderIsArrivalOrder'
    BY <1>1, <2>1, <2>2, RestingAgrees
  <2>4. Ref!OrderId(s, Generations[s] + 1) = id
    BY <2>3, SameTypes
  <2>5. Ref!Return(<<Ref!Rested(id, taker.remaining)>>)
    BY <2>2, <2>3, SameControl, SameTypes
  <2>6. s = Ref!Last(book.free)
    BY <2>1 DEF Ref!Last, Last
  <2> HIDE DEF id
  <2>7. Ref!Rest
    BY <1>1, <2>2, <2>3, <2>4, <2>5, <2>6 DEF Ref!Rest
  <2> QED BY <1>1, <1>5, <2>3, <2>7 DEF Ref!Finish
<1>6. CASE /\ taker.remaining > 0 /\ Rests(taker.kind) /\ book.free = <<>>
           /\ Return(<<Cancelled(None, taker.remaining, "CapacityExhausted")>>)
           /\ UNCHANGED book
  BY <1>1, <1>2, <1>6, SameControl, SameTypes DEF Ref!Finish
<1> QED BY <1>3, <1>4, <1>5, <1>6 DEF Finish

\* The caller clears the sink.
LEMMA DrainAgrees ==
  ASSUME HInv, RecordArrivals, Drain
  PROVE  Ref!Drain /\ Arrived' /\ QueueOrderIsArrivalOrder'
<1>1. UNCHANGED Ref!book /\ Arrived' /\ QueueOrderIsArrivalOrder'
  BY SameBookAgrees DEF Drain
<1>2. UNCHANGED <<Ref!book, taker>>
  BY <1>1 DEF Drain
<1> QED BY <1>1, <1>2 DEF Drain, Ref!Drain

\* So is each step, and the history goes on.
LEMMA StepAgrees ==
  ASSUME HInv, HistoryNext
  PROVE  Ref!Next /\ Arrived' /\ QueueOrderIsArrivalOrder'
<1>1. RecordArrivals /\ Next
  BY DEF HistoryNext
<1>2. Ref!InputIds = InputIds /\ Ref!InputKinds = InputKinds /\ Ref!Sides = Sides
  BY DEF Ref!InputIds, InputIds, Ref!InputKinds, InputKinds, Ref!Kinds, Kinds,
         Ref!Sides, Sides
<1>3. CASE Command
  <2>1. PICK account \in Accounts :
          \/ \E side \in Sides, qty \in InputQtys, kind \in InputKinds :
               NewOrder(account, side, qty, kind)
          \/ \E id \in InputIds :
               \/ Cancel(account, id)
               \/ \E total \in InputQtys :
                    \/ Reduce(account, id, total)
                    \/ \E price \in InputPrices, post_only \in BOOLEAN :
                         Replace(account, id, price, total, post_only)
    BY <1>3 DEF Command
  <2>2. Ref!Command /\ Arrived' /\ QueueOrderIsArrivalOrder'
    BY <1>1, <1>2, <2>1, NewOrderAgrees, CancelAgrees, ReduceAgrees, ReplaceAgrees
       DEF Ref!Command
  <2> QED BY <2>2 DEF Ref!Next
<1>4. CASE Submit
  BY <1>1, <1>4, SubmitAgrees DEF Ref!Next, Ref!Running
<1>5. CASE Fill
  BY <1>1, <1>5, FillAgrees DEF Ref!Next, Ref!Running
<1>6. CASE SelfTrade
  BY <1>1, <1>6, SelfTradeAgrees DEF Ref!Next, Ref!Running
<1>7. CASE Finish
  BY <1>1, <1>7, FinishAgrees DEF Ref!Next, Ref!Running
<1>8. CASE Drain
  BY <1>1, <1>8, DrainAgrees DEF Ref!Next
<1> QED BY <1>1, <1>3, <1>4, <1>5, <1>6, <1>7, <1>8 DEF Next, Running

----------------------------------------------------------------------------
\* An empty book, with no orders and no history.
LEMMA InitAgrees ==
  ASSUME HistoryInit
  PROVE  HInv /\ Ref!Init
<1>1. Init /\ Inv
  BY InitInv DEF HistoryInit
<1>2. \A s \in Slots : book.slots[s].generation = 0
  BY <1>1 DEF Init, EmptySlot
<1>3. LiveSlots = {}
  BY <1>2, LiveIsLive DEF Live
<1>4. Arrived /\ QueueOrderIsArrivalOrder
  BY <1>3 DEF HistoryInit, Arrived, QueueOrderIsArrivalOrder
<1>5. Generations = [s \in Slots |-> 0] /\ RestingOrders = {}
  BY <1>2, <1>3 DEF Generations, RestingOrders
<1>6. /\ book.free = [i \in 1 .. Capacity |-> Capacity - i]
      /\ book.retired = 0 /\ pc = "ready" /\ taker = None /\ out = <<>>
  BY <1>1 DEF Init
<1>7. Ref!Init
  BY <1>5, <1>6 DEF Ref!Init, HistoryInit, Ref!Slots, Slots
<1> QED BY <1>1, <1>4, <1>7 DEF HInv

\* Every step keeps the invariant and is a step of the reference or none.
LEMMA HistoryStep ==
  HInv /\ [HistoryNext]_historyVars => HInv' /\ [Ref!Next]_(Ref!vars)
<1> SUFFICES ASSUME HInv, [HistoryNext]_historyVars
             PROVE  HInv' /\ [Ref!Next]_(Ref!vars)
  OBVIOUS
<1>1. CASE HistoryNext
  <2>1. Inv'
    BY <1>1, NextInv DEF HInv, HistoryNext
  <2> QED BY <1>1, <2>1, StepAgrees DEF HInv
<1>2. CASE UNCHANGED historyVars
  <2>1. /\ book' = book /\ UNCHANGED vars
        /\ arrival' = arrival /\ arrivals' = arrivals
    BY <1>2 DEF historyVars, vars
  <2>2. Inv'
    BY <2>1, NextInv DEF HInv
  <2>3. Arrived' /\ QueueOrderIsArrivalOrder'
    BY <2>1 DEF HInv, Arrived, QueueOrderIsArrivalOrder, LiveSlots, IsLive
  <2>4. UNCHANGED Ref!vars
    BY <2>1 DEF Ref!vars, Generations, RestingOrders, OrderIn, LiveSlots, IsLive, vars
  <2> QED BY <2>2, <2>3, <2>4 DEF HInv
<1> QED BY <1>1, <1>2

\* L5: the queue of every level is in order of arrival, whatever orders have
\* left it, from whichever place, and come to it since.
THEOREM QueuesAreInArrivalOrder == HistorySpec => []QueueOrderIsArrivalOrder
<1>1. HInv => QueueOrderIsArrivalOrder
  BY DEF HInv
<1> QED BY <1>1, InitAgrees, HistoryStep, PTL DEF HistorySpec

\* docs/decisions/010-level-queues.md, M3, E6: on every stream of commands and
\* whatever the configuration, the production engine takes the steps of the
\* reference on the same book and emits the same events in the same order.
THEOREM FastBookImplementsReference == HistorySpec => ImplementsReference
<1> QED BY InitAgrees, HistoryStep, PTL DEF HistorySpec, ImplementsReference, Ref!Spec
=============================================================================
